SPECIFICATION FairSpec
CONSTANTS
    p1 = p1
    p2 = p2
    Procs = {p1, p2}
    Texts = {"", "a"}
    MaxSize = 1
    Configs <- AllConfigs
INVARIANTS LinesAreKept
PROPERTIES OneOwnerKeeps CallReturns
CHECK_DEADLOCK FALSE
