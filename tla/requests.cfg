CONSTANTS
    t1 = t1  t2 = t2  w1 = w1  w2 = w2  c1 = c1  c2 = c2  k1 = k1
    text = text
    NoWorker = NoWorker  NoResource = NoResource  NoGroup = NoGroup
    NoKey = NoKey  NoTask = NoTask  NoOrder = NoOrder  NoReceipt = NoReceipt
    Resource = {}
    Task <- PairTasks
    PriorityOf <- PairPriorities
    ResourceOf <- PairResources
    GroupOf <- PairGroups
    Gate = {}
    Group = {}
    Worker = {w1, w2}
    Reaper = {}
    LeaseTimes = {0}
    StaleAges = {9}
    AvailTimes = {0}
    WorkerSets = {}
    Commands = {"delete"}
    MaxTime = 1
    MaxAttempts = 2
    Client = {c1, c2}
    Key = {k1}
    Body = {text}
    BodyOf <- PairBodies
    Orders <- MixedOrders
SPECIFICATION RequestsSpec
SYMMETRY ActorSymmetry
INVARIANTS RequestsTypeOK ReceiptsHold
PROPERTIES RequestedOnce HeldIsNotFailed
CHECK_DEADLOCK FALSE
