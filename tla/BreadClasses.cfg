SPECIFICATION Spec
CONSTANTS
    Programs <- MCPrograms
    Calls <- MCCalls
    Variables <- MCVariables
    Arguments <- MCArguments
    Plain = "set"
    MaxObjects = 1
    MaxFrames = 4
INVARIANTS TypeOK DispatchIsLexical ObjectsRemember
