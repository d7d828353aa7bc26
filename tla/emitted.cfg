CONSTANTS
    t1 = t1  t2 = t2  w1 = w1  w2 = w2  r1 = r1  goal1 = goal1
    NoWorker = NoWorker  NoResource = NoResource  NoGroup = NoGroup  NoTask = NoTask
    Unavailable = Unavailable
    Resource = {}
    Task <- PairTasks
    PriorityOf <- PairPriorities
    ResourceOf <- PairResources
    GroupOf <- PairMembers
    Gate = {}
    Group = {goal1}
    Worker = {w1, w2}
    Reaper = {}
    LeaseTimes = {}
    StaleAges = {9}
    AvailTimes = {0, 2}
    WorkerSets = {}
    Commands = {"goal", "relate"}
    CapSets <- OneIteration
    Reports = {0}
    MaxTime = 2
    MaxAttempts = 2
    Lease = 1
    Heartbeats = TRUE
    MaxTasks = 0
    MaxFailures = 2
    Unrenderable = {}
SPECIFICATION LoopSpec
INVARIANTS EmittedWasRecorded
CHECK_DEADLOCK FALSE
