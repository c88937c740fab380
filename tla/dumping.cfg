CONSTANTS
    Roots <- AllClasses
INIT Init
NEXT Next
CHECK_DEADLOCK FALSE
INVARIANTS
    WrittenInOrder
    OnlyExtensionsAreLost
    LevelsFollowTheTree
    FirstTokenIsFirst
