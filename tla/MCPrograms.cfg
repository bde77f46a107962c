SPECIFICATION ProgramsSpec
CONSTANTS
    p1 = p1
    p2 = p2
    Procs = {p1, p2}
    Configs <- AllConfigs
    ProcessCases <- SomeCases
    Plans <- SomePlans
    Capacity = 2
    Characters = {"a", "b", "c"}
    Talks <- SomeTalks
    Timeouts = {TRUE, FALSE}
    MaxInput = 6
    NameLists <- SomeLists
    MaxLists = 2
    Realms <- SomeRealms
    Passwords <- SomePasswords
    PageSize = 16
    MaxAdds = 2
    Clients = {p1, p2}
    TokenNames = {"a", "b"}
    TooMany = 1
    MaxTokens = 2
    MaxLines = 3
INVARIANTS ClosedIsKeptInFile RunsAsAsked SeenIsAnswered FirstMatchDecides LatestIsInFile
PROPERTIES LookupIsOwn EndIsReached
CHECK_DEADLOCK FALSE
