CONSTANTS
    p1 = p1  p2 = p2  p3 = p3  t1 = t1  t2 = t2
    NoProcess = NoProcess
    Process = {p1, p2}
    Task = {t1, t2}
    Databases <- OldestDatabases
SPECIFICATION SchemaSpec
INVARIANTS LegacyOpens
CHECK_DEADLOCK FALSE
