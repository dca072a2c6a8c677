SPECIFICATION Spec
CONSTANTS
  x = x
  y = y
  instance = instance
  NoValue = NoValue
  Null = Null
  Names <- MCNames
  Types <- MCTypes
  Values <- MCValues
  MaxScopes = 2
  MaxVars = 2
SYMMETRY Symmetry
INVARIANTS TypeOK
PROPERTIES ConstantsFixed OneBindingChanges TypesSettle
CHECK_DEADLOCK FALSE
