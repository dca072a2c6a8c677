SPECIFICATION SpecRemoving
CONSTANTS
  k1 = k1
  k2 = k2
  k3 = k3
  k4 = k4
  a = a
  b = b
  c = c
  Null = Null
  Done = Done
  Failed = Failed
  Keys <- MCKeys
  Values <- MCValues
  KeyType <- MCKeyType
  ValueType <- MCValueType
  Untyped = "Nil"
  StringType = "String"
  Hashes <- MCHashes
  FirstCapacity = 2
  Literals <- MCLiterals
  MaxCapacity = 10
CHECK_DEADLOCK FALSE
INVARIANTS KeysResolve
