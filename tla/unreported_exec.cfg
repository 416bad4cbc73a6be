\* A program that execvp() finds in PATH, and access() does not find.
SPECIFICATION Spec
CONSTANTS
    p1 = p1
    p2 = p2
    Procs = {p1, p2}
    Root = p1
    MaxConns = 2
    MaxSpawns = 1
    NOACCESS = FALSE
    MaxLost = 0
    None = None
INVARIANT
    EveryImageReported
CHECK_DEADLOCK FALSE
