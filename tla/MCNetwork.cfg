SPECIFICATION NetworkSpec
CONSTANTS
    a = a
    b = b
    c = c
    None = None
    URLs = {a, b, c}
    Configs <- AllConfigs
    Base = 2
    OutSize = 2
    Bodies <- SomeBodies
    ProxyChains <- SomeChains
    ConnectSettings <- AllConnectSettings
    MaxDepth = 3
    Watched = {"fd1", "fd2", "fd3"}
    EpollOver = 2
    MaxData = 2
    MaxOpens = 1
    Basic = 1
    Bit = 4
    Wide = 5
    MaxFrameSize = 8
    WriteSizes = {0, 1, 2, 3, 4}
    MaxWrites = 1
    Talks <- SomeTalks
    MailReplies <- SomeReplies
    MailSettings <- SomeMailSettings
    Recipients = 2
    Services <- SomeServices
    Visitors <- SomeVisitors
INVARIANTS ReadIsWhole SentIsWhole  OnlyTheAccepted MailIsAgreed
PROPERTIES ImplementsPipe NoneOnlyIfNone 
CHECK_DEADLOCK FALSE
