SPECIFICATION Spec
CONSTANTS
  a = a
  b = b
  c = c
  x = x
  f = f
  None = None
  Unreadable = Unreadable
  Modules <- MCModules
  Names <- MCNames
  Bodies <- MCBodies
  Programs <- MCPrograms
  MaxDepth = 4
INVARIANTS TypeOK OneOwner DependenciesFirst AliasAfterModule
PROPERTIES Terminates
CHECK_DEADLOCK FALSE
