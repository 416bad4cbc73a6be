\* A program that observes a child of its own is observed itself.
SPECIFICATION Spec
CONSTANTS
    p0 = p0
    p1 = p1
    p2 = p2
    c1 = c1
    c2 = c2
    Procs = {p0, p1, p2}
    Root = p0
    Contexts = {c1, c2}
    Owner <- MCOwner
    Requests <- SomeRequests
    Preloads <- SomePreload
    CheckRoom = 5
    CopyRoom = 4
    Debug = TRUE
    MaxStarts <- FewStarts
    None = None
INVARIANT ReportsToItsObserver
CHECK_DEADLOCK FALSE
