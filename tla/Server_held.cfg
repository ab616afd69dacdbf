SPECIFICATION Spec
CHECK_DEADLOCK FALSE
CONSTANTS
    Wallet = {w1, w2}
    Peer = {p1}
    Incoming = {b1}
    Void = Void
    NodeTx = NodeTx
    NewBranch = NewBranch
    Exit = Exit
    Buffer = 1
    MinTxs = 2
INVARIANT
    ClosedInTheEnd
