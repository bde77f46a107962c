SPECIFICATION FairSpec
CONSTANTS
    BuffSize = 3
    FdRoom = 2
    FlushConfigs <- AllConfigs
    CanNonblock = TRUE
    MaxBytes = 5
INVARIANTS TypeOK CloseDelivers
PROPERTIES ImplementsPipe FlushWritesAll CallReturns
CHECK_DEADLOCK FALSE
