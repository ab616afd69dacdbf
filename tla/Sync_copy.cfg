SPECIFICATION FairSpec
CHECK_DEADLOCK FALSE
CONSTANTS
    None = None
    Block <- MCBlock
    Genesis = 0
    Parent <- MCParent
    Height <- MCHeight
    Line <- MCLine
    Tree <- Fork4
    Node = {n1, n2, n3}
    Fresh = {n3}
    MaxCount = 3
    MaxFirst = 1
    MaxStops = 1
    MaxBusy = 3
INVARIANTS
    NothingToDereference
    TransitIsServed
    NodesAgree
PROPERTIES
    StoresAreMainChains
    Quiesces
