\* Two threads, one of which ends the process in every way,
\* and a process forked between any two of their steps; libraries close and posix_spawn.
SPECIFICATION Spec
CONSTANTS
    p1 = p1
    p2 = p2
    t1 = t1
    t2 = t2
    t3 = t3
    Procs = {p1, p2}
    Root = p1
    Threads = {t1, t2, t3}
    Home <- MCHome
    Hooks = {"close", "posix_spawn"}
    MaySkip = {}
    Exits <- EveryEnd
    MaxCalls <- RootCalls
    SocketsFail = {"posix_spawn"}
    None = None
INVARIANTS
    TypeOK
    WholeFrames
    ReportedInOrder
    OneOpenConnection
    ExitReported
    NoWaitCycle
CHECK_DEADLOCK FALSE
