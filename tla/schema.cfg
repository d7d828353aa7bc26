CONSTANTS
    p1 = p1  p2 = p2  p3 = p3  t1 = t1  t2 = t2
    NoProcess = NoProcess
    Process = {p1, p2, p3}
    Task = {t1, t2}
    Databases <- KnownDatabases
SPECIFICATION FairSchemaSpec
INVARIANTS SchemaTypeOK OpenIsComplete MigratesOnce
PROPERTIES NewerUntouched RowsKept OpeningEnds
CHECK_DEADLOCK FALSE
