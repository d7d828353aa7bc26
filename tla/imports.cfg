CONSTANTS
    t1 = t1  t2 = t2  t3 = t3  w1 = w1  r1 = r1  goal1 = goal1  g1 = g1
    first = first  second = second  torn = torn
    NoWorker = NoWorker  NoResource = NoResource  NoGroup = NoGroup  NoTask = NoTask  NoReport = NoReport
    Resource = {}
    Task <- TrioTasks
    PriorityOf <- TrioPriorities
    ResourceOf <- TrioResources
    GroupOf <- TrioGroups
    Gate = {g1}
    Group = {}
    Worker = {w1}
    Reaper = {}
    LeaseTimes = {0}
    StaleAges = {9}
    AvailTimes = {0}
    WorkerSets = {"done", "failed"}
    Commands = {"add", "relate", "satisfy", "prune", "delete"}
    MaxTime = 1
    MaxAttempts = 1
    Archive = {first, second, torn}
    Content <- Contents
    LegacyGate = g1
SPECIFICATION ImportSpec
INVARIANTS BlocksAcyclic StuckIsExplained OrdinalsDistinct ImportedWhole Reconciled BlockedStaysBlocked
PROPERTIES DeletedForGood
CHECK_DEADLOCK FALSE
