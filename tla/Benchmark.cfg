CONSTANTS
    Clients <- MCClients
    Keys = {"hit", "miss", "put", "update", "other"}
    Values = {v1, v2}
    Other = "other"
    Absent = Absent
    None = None
    Junk = Junk
    Rest = Rest
    NoServer = NoServer
    MaxThreads = 3
    ThreadCounts = {1, 3}
    Workloads = {"put_update", "mixed"}
    WarmUp = 1
    OpsPerThread = 2
    Main = Main
    NoThread = NoThread
    Rounds = 3
    MaxUpsets = 2
SPECIFICATION FairSpec
INVARIANTS TypeOK TimedInWindow FailuresTold ExitCodeTells NothingLeft NobodyWaitsInVain
PROPERTIES BenchmarkEnds
CHECK_DEADLOCK FALSE
