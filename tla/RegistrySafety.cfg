CONSTANTS
    Ops = {o1, o2}
    Keys = {k1, k2}
    Listeners = {l1, l2}
    Threads = {t1, t2}
    None = None
SPECIFICATION Spec
SYMMETRY Symmetric
INVARIANTS
    TypeOK
    EveryListenerConverges
    UnsubscribedIsQuiet
    CancelIsFinal
    QuietShutdownIsFinal
PROPERTIES
    ImplementsLifecycle
CHECK_DEADLOCK FALSE
