\* What must happen, on a socket buffer smaller than two events.
SPECIFICATION FairSpec
CONSTANTS
    w1 = w1
    w2 = w2
    Writers = {w1, w2}
    ChildWriters = {w1}
    Forks <- NoForks
    NFds = 5
    Layouts <- Usual
    Statuses <- OneStatus
    MaxEvents <- Two
    BufCap = 4
    Backlog = 1
    KernelErrors = FALSE
    Signals = FALSE
    AppBusy = FALSE
PROPERTIES
    Returns
    CallsReturn
    EventsArrive
    ImplementsChannel
INVARIANT Framed
