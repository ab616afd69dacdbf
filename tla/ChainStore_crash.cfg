SPECIFICATION Spec
CONSTANTS
    None = None
    Block <- MCBlock
    Genesis = 0
    Parent <- MCParent
    Height <- MCHeight
    Line <- MCLine
    Tree <- Small
    MaxCount = 3
    MaxCrashes = 1
    MaxDrops = 2
INVARIANTS
    TypeOK
    LinkedIndex
