SPECIFICATION LoopSpec
CONSTANTS
  x = x
  y = y
  NoValue = NoValue
  Null = Null
  Names <- MCNames
  Types <- MCTypes
  Values <- MCValues
  MaxScopes = 8
  MaxVars = 2
  MaxBlocks = 2
  MaxIter = 2
SYMMETRY Symmetry
INVARIANTS LexicalReads
