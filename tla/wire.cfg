\* Two events on a socket that holds twelve bytes, in every way that send() and read() may split them.
SPECIFICATION FairSpec
CONSTANTS
    Null = Null
    IntBytes = 2
    SizeBytes = 3
    MaxStrLen = 2
    BufCap = 12
    Options <- AllOptions
    Reports <- SomeReports
INVARIANTS
    TypeOK
    Faithful
    NeverStarves
PROPERTIES
    ImplementsChannel
    Arrives
CHECK_DEADLOCK FALSE
