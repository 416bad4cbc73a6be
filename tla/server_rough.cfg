\* select() fails, sockets are dropped, signals interrupt waitpid(), and other threads
\*  of the observer open, close and spawn.
SPECIFICATION Spec
CONSTANTS
    w1 = w1
    w2 = w2
    Writers = {w1, w2}
    ChildWriters = {w1}
    Forks <- NoForks
    NFds = 5
    Layouts <- Usual
    Statuses <- OneStatus
    MaxEvents <- One
    BufCap = 2
    Backlog = 2
    KernelErrors = TRUE
    Signals = TRUE
    AppBusy = TRUE
INVARIANTS
    Framed
    Watched
    NoLeak
    ForeignOnlyListener
PROPERTY ImplementsChannel
