SPECIFICATION FairSpec
CONSTANTS
    s1 = s1
    s2 = s2
    t = t
    None = None
    Empty = Empty
    Command <- MCCommand
    Kinds <- MCKinds
    MaxAtOnce = 1
    MaxEnds = 1
CHECK_DEADLOCK FALSE
INVARIANTS
    OneServer
    FileNamesServer
    TrueReport
PROPERTIES
    StopIsObeyed
