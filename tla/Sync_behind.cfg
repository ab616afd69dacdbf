SPECIFICATION Spec
CHECK_DEADLOCK FALSE
CONSTANTS
    None = None
    Block <- MCBlock
    Genesis = 0
    Parent <- MCParent
    Height <- MCHeight
    Line <- MCLine
    Tree <- Fork4
    Node = {n1, n2}
    Fresh = {n2}
    MaxCount = 5
    MaxFirst = 1
    MaxStops = 0
    MaxBusy = 3
INVARIANTS
    LoadedInBackground
