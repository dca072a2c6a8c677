SPECIFICATION Spec
CONSTANTS
    Names = {"a", "f", "P"}
    Numbers = {"1"}
    Types = {"Int", "Nil"}
    Programs <- MCPrograms
    Layouts = {"none", "lines"}
    Texts <- MCTexts
INVARIANTS TypeOK RoundTrip NothingDropped HolesAreBlocks OwnsItsNodes
PROPERTIES Advances
