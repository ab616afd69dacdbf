SPECIFICATION Spec
CONSTANTS
    None = None
    t1 = t1
    t2 = t2
    t3 = t3
    t4 = t4
    t5 = t5
    t6 = t6
    t7 = t7
    Block <- MCBlock
    Genesis = 0
    Parent <- MCParent
    Height <- MCHeight
    Line <- MCLine
    Tx <- MCTx
    Ins <- MCIns
    OutCount <- MCOutCount
    Time <- MCTime
    Txs <- MCTxs
    Own <- MCOwn
    Key = {"miner", "payee"}
    KeyOf <- MCKeyOf
    Value <- MCValue
    MaxMin = 1
    MaxTxs = 2
    First = {1}
    Kinds = {2,3,4,5}
    MaxHeight = 4
    MaxCrashes = 0
    MaxDrops = 0
    MaxReindex = 0
INVARIANTS
    NoDoubleSpend
    IndexComplete
    UtxoSound
    PoolConflictFree
    PaymentAccepted
    BalanceIsSpendable
