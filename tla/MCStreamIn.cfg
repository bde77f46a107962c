SPECIFICATION FairSpec
CONSTANTS
    InitialSize = 3
    Timeout = 1
    CanKeepBack = TRUE
    Terms = {4}
    Sizes = {1, 3}
    DocumentSize = 3
    UnreadAnywhere = FALSE
    MaxBytes = 5
INVARIANTS EndIsWhole LineIsWhole
PROPERTIES ImplementsPipe CallReturns
CHECK_DEADLOCK FALSE
