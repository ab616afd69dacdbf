SPECIFICATION FairSpec
CONSTANTS
    None = None
    Block <- MCBlock
    Genesis = 0
    Parent <- MCParent
    Height <- MCHeight
    Line <- MCLine
    Tree <- Small
    MaxCount = 3
    MaxCrashes = 0
    MaxDrops = 1
INVARIANTS
    IndexIsMainChain
    NothingSwallowed
    TopIsHighest
    AddStateIsTrue
    NextBlocksAreMainChain
    ReplacementIsTheChange
    LookupsFollowBranch
PROPERTIES
    ImplementsMainChain
    OperationEnds
