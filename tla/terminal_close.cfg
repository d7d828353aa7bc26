CONSTANTS
    t1 = t1  t2 = t2  t3 = t3  w1 = w1  w2 = w2  r1 = r1  r2 = r2
    repo = repo  goal1 = goal1  g1 = g1
    NoWorker = NoWorker  NoResource = NoResource  NoGroup = NoGroup
    Resource = {repo}
    Task <- PairTasks
    PriorityOf <- PairPriorities
    ResourceOf <- PairResources
    GroupOf <- PairGroups
    Gate = {}
    Group = {}
    Worker = {w1}
    Reaper = {}
    LeaseTimes = {1}
    StaleAges = {1}
    AvailTimes = {0}
    WorkerSets = {"done", "failed"}
    Commands = {"add", "set"}
    MaxTime = 2
    MaxAttempts = 2
SPECIFICATION Spec
INVARIANTS TerminalClosesAttempts
CHECK_DEADLOCK FALSE
