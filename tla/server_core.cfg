\* The child and a second process, in every order of descriptors; the child may
\* fork the other one and share its connection.  A process left blocked by the
\* lock it inherited, or in the middle of a shared message, may stop everything.
SPECIFICATION Spec
CONSTANTS
    w1 = w1
    w2 = w2
    Writers = {w1, w2}
    ChildWriters = {w1}
    Forks <- OneFork
    NFds = 5
    Layouts <- EveryOrder
    Statuses <- OneStatus
    MaxEvents <- OneAndTwo
    BufCap = 3
    Backlog = 2
    KernelErrors = FALSE
    Signals = FALSE
    AppBusy = FALSE
INVARIANTS
    TypeOK
    Framed
    Watched
    NoLeak
    ReturnsAfterExit
    FirstEventOrder
    WriterOrder
CHECK_DEADLOCK FALSE
