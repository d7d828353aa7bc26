CONSTANTS
    t1 = t1  t2 = t2  t3 = t3  w1 = w1  w2 = w2  r1 = r1  r2 = r2
    repo = repo  goal1 = goal1  g1 = g1
    NoWorker = NoWorker  NoResource = NoResource  NoGroup = NoGroup
    Resource = {repo}
    Task <- PairTasks
    PriorityOf <- PairAlike
    ResourceOf <- PairResources
    GroupOf <- PairMembers
    Gate = {}
    Group = {goal1}
    Worker = {w1}
    Reaper = {r1}
    LeaseTimes = {1}
    StaleAges = {0}
    AvailTimes = {2}
    WorkerSets = {"todo", "doing", "done"}
    Commands = {"goal", "set", "stage", "force", "retry", "defer", "delete", "audit"}
    MaxTime = 1
    MaxAttempts = 2
SPECIFICATION Spec
SYMMETRY PairSymmetry
INVARIANTS ClaimsExclusive DoingIsOwnedAndReclaimable GoalStatusAgrees
PROPERTIES AttemptHistory
CHECK_DEADLOCK FALSE
