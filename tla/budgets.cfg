CONSTANTS
    t1 = t1  t2 = t2  w1 = w1  w2 = w2  r1 = r1  goal1 = goal1
    NoWorker = NoWorker  NoResource = NoResource  NoGroup = NoGroup
    Resource = {}
    Task <- PairTasks
    PriorityOf <- PairPriorities
    ResourceOf <- PairResources
    GroupOf <- PairMembers
    Gate = {}
    Group = {goal1}
    Worker = {w1, w2}
    Reaper = {r1}
    LeaseTimes = {1}
    StaleAges = {9}
    AvailTimes = {0}
    WorkerSets = {"failed"}
    Commands = {"goal", "relate", "force"}
    CapSets <- CapChoices
    Unavailable = Unavailable
    Reports = {1, Unavailable}
    MaxTime = 2
    MaxAttempts = 2
SPECIFICATION BudgetSpec
SYMMETRY WorkerSymmetry
INVARIANTS BudgetTypeOK AccountedOnce CapsHold SuspensionIsWhole GoalStatusAgrees
CHECK_DEADLOCK FALSE
