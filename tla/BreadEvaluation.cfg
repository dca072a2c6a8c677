SPECIFICATION Spec
CONSTANTS
    Meaning <- MCMeaning
    Functions1 <- MCFunctions1
    Structs <- MCStructs
    Codes <- MCCodes
INVARIANTS TypeOK TypeSound BoxingIsTransparent
