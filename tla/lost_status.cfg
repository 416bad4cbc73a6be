\* voyeur_start() does not return the exit status of the child.
SPECIFICATION Spec
CONSTANTS
    w1 = w1
    w2 = w2
    Writers = {w1}
    ChildWriters = {w1}
    Forks <- NoForks
    NFds = 4
    Layouts <- Usual
    Statuses <- SomeStatuses
    MaxEvents <- One
    BufCap = 3
    Backlog = 2
    KernelErrors = FALSE
    Signals = FALSE
    AppBusy = FALSE
INVARIANT ReturnsExitStatus
