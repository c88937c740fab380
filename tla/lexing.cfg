SPECIFICATION Spec
CONSTANTS
    Length = 3
    Suite = "texts"
    Inputs <- InputsGiven
INVARIANTS
    TypeOK
    TokensInOrder
    NothingIsLost
    WrittenIsReadBack
    BracesMatch
    ExpandedWithinMarks
    PositionsInTheText
PROPERTY
    LexReturns
CHECK_DEADLOCK FALSE
