\* The child and a process that it forks or spawns.
SPECIFICATION Spec
CONSTANTS
    p1 = p1
    p2 = p2
    Procs = {p1, p2}
    Root = p1
    MaxConns = 2
    MaxSpawns = 1
    NOACCESS = FALSE
    MaxLost = 1
    None = None
INVARIANTS
    TypeOK
    LineageFirst
CHECK_DEADLOCK FALSE
