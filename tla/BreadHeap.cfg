SPECIFICATION Spec
CONSTANTS
  o1 = o1
  o2 = o2
  s1 = s1
  v1 = v1
  t1 = t1
  t2 = t2
  None = None
  Objs <- MCObjs
  Strings <- MCStrings
  Vars <- MCVars
  Temps <- MCTemps
  MaxItems = 3
  MaxLost = 1
SYMMETRY Symmetry
INVARIANTS TypeOK RefsExact NoDangling GarbageExplained
PROPERTIES FreesOnlyGarbage
