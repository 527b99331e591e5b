SPECIFICATION ComponentsSpec
CONSTANTS
    Nodes = {1, 2, 3, 4}
    NilNode = NilNode
    Position <- MCPosition
    DictIds = {x1, x2, x3}
    Cells = {1, 2}
    Keys = {k1}
    MaxItems = 2
    MaxHeld = 2
    Shapes = {"keycopy", "dict"}
    Misuses = {}
    Nil = Nil
    Static = Static
    Half = 4
    Refused = Refused
    CacheEvents = {x1, x2, x3}
    CacheKeys = {ck1, ck2}
    NoKey = NoKey
    CacheSetups <- MCSetups
    Messages <- MCMessages
    Transfers = {t1, t2}
    MaxStarts = 2
    MaxTimeouts = 2
    GraphThreads = FALSE
    CurlFaults = {}
    MaxChanges = 2
    Timeout = 1
    MaxTime = 2
SYMMETRY MCSymmetry
INVARIANTS
    ListsAreChains
    DictMemory
    StoredIsFound
    ConvertedOrRefused
    MessageIsKept
    CacheIsRight
    TransfersAreDriven
    AdaptersAreSound
    NetconfIsRight
CHECK_DEADLOCK FALSE
