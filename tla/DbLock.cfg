SPECIFICATION FairSpec
CONSTANTS
    handler = handler
    nodes = nodes
    command = command
    server = server
    cli = cli
    bc = bc
    nd = nd
    Thread = {handler, nodes, command}
    Process = {server, cli}
    Db = {bc, nd}
    None = None
    ProcessOf <- MCProcessOf
    Plan <- MCPlan
    MaxCrashes = 1
    MaxHours = 1
INVARIANTS
    LockFileProtects
    WaitsForOthersOnly
PROPERTY
    SessionsEnd
