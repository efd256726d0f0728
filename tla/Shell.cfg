CONSTANTS
    Ops = {o1, o2}
    Keys = {k1, k2}
    Listeners = {shell}
    Threads = {ui, worker}
    None = None
    Ui = ui
    Shell = shell
SPECIFICATION ShellLiveSpec
INVARIANTS
    ShellTypeOK
    ClosedWindowIsIdle
    AdmissionFollowsGuard
    MirrorConverges
PROPERTY CancelAndCloseCloses
CHECK_DEADLOCK FALSE
