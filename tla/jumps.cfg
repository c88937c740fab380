CONSTANTS
    Files <- AllFiles
INIT Init
NEXT Next
CHECK_DEADLOCK FALSE
INVARIANT ContinuesGoBack
