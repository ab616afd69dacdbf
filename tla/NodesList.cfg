SPECIFICATION FairSpec
CHECK_DEADLOCK FALSE
CONSTANTS
    x = x
    y = y
    z = z
    v = v
    a = a
    r = r
    b = b
    Addr = {x, y, z}
    Loaded = {y}
    Known = {x}
    Handler = {v, a, r, b}
    Commands <- MCCommands
    Subject <- MCSubject
    None = None
    MaxRestarts = 1
INVARIANTS
    StoredForAReason
PROPERTIES
    KnownSurvives
    CommandsEnd
