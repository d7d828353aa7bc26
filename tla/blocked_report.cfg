CONSTANTS
    t1 = t1  t2 = t2  t3 = t3  w1 = w1  w2 = w2  r1 = r1  r2 = r2
    repo = repo  goal1 = goal1  g1 = g1
    NoWorker = NoWorker  NoResource = NoResource  NoGroup = NoGroup
    Resource = {}
    Task <- TrioTasks
    PriorityOf <- TrioPriorities
    ResourceOf <- TrioResources
    GroupOf <- TrioGroups
    Gate = {}
    Group = {}
    Worker = {w1}
    Reaper = {}
    LeaseTimes = {0}
    StaleAges = {9}
    AvailTimes = {0}
    WorkerSets = {"done", "failed"}
    Commands = {"add", "relate"}
    MaxTime = 1
    MaxAttempts = 1
SPECIFICATION Spec
INVARIANTS BlockedAreHeldBack
CHECK_DEADLOCK FALSE
