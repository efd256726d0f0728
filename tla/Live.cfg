CONSTANTS
    MaxRuns = 2
    Ops = {o1}
    Keys = {k1}
    Listeners = {l1}
    Threads = {t1, t2, t3}
    None = None
SPECIFICATION MCSpec
INVARIANTS
    TypeOK
    PageTellsItsRun
    SourceIsConsented
PROPERTIES
    PageIsReleased
    OperationsEnd
    DispatchEnds
CHECK_DEADLOCK FALSE
