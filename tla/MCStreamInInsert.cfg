SPECIFICATION Spec
CONSTANTS
    InitialSize = 3
    Timeout = 1
    CanKeepBack = FALSE
    Terms = {4}
    Sizes = {1, 3}
    DocumentSize = 3
    UnreadAnywhere = TRUE
    MaxBytes = 5
PROPERTIES ImplementsPipe
CHECK_DEADLOCK FALSE
