CONSTANTS
    Files <- AllFiles
INIT Init
NEXT Next
CHECK_DEADLOCK FALSE
INVARIANTS
    StacksFit
    GraphOfTheText
    CallsAreMarked
    UndefinedOutsideOnly
    PrintingEnds
PROPERTY ReadsAListing
