SPECIFICATION MCSpec
CONSTANTS
    Launch = {l1, l2, l3}
    Date = {d1, d2}
    Task = {t1, t2}
    Weekly = {t1}
    Event = {e1, e2}
    MaxRetries = 1
INVARIANTS
    JobsTypeOK
    ProcessingHasOwner
    CompletedHasBackup
    ReportedEndsAreOnRecord
PROPERTIES
    SpacedLaunchesExportOnce
    SerialRunsOnlyAdd
    TasksSettle
\* Launches and tasks come to an end.
CHECK_DEADLOCK FALSE
