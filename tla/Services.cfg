SPECIFICATION ServicesSpec
CONSTANTS
    RootGraphs = {g1, g2, g3}
    NoGraph = NoGraph
    PluginFiles = {1, 2, 3}
    PluginName <- MCPluginName
    BrokenFiles = {1}
    Writers = {w1}
    MaxInits = 2
    MaxCalls = 2
    StaleUses = {}
    AppTimers = {a1}
    Oneshots = {o1}
    Retry = retry
    MaxTimerEvents = 1
    MaxStartFails = 1
    EarlyRearms = FALSE
    MaxItems = 4
    Room = 2
    Partial = FALSE
    WriteFails = FALSE
    SmStates = {1, 2}
    NoState = 0
    MaxScheduled = 3
    OtherThread = FALSE
    Callers = {c1}
    Objects = {obj}
    Signal = sig
    MaxPerRun = 1
    MaxUnderWay = 1
    MaxMsgs = 2
    MaxFails = 1
    Quits = FALSE
    Sigs = {"TERM", "CHLD"}
    Fatal = {"TERM"}
    SigLstnrs = {"std", "app", "chld"}
    SigsOf <- MCSigsOf
    StdLstnr = "std"
    InFlight = 3
    Forks = {f1, f2}
    Pids = {1, 2}
    Fds = {fd}
    MaxChld = 2
    Threaded = FALSE
    EarlyStops = FALSE
    MaxRuns = 2
    StopsRunning = FALSE
    Leftovers = {}
INVARIANTS
    HandlersFollowListeners
    ChildrenAreKept
    RunsAreSeparate
    RootIsSound
    TimersFire
    SentInOrder
    NothingAfterRelease
    FrameOutlivesCallback
PROPERTIES
    EndsAreReported
    BusCallsEnd
    QueuedWorkIsDone
CHECK_DEADLOCK FALSE
