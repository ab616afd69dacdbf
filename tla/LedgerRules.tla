------------------------------ MODULE LedgerRules ------------------------------
(***************************************************************************)
(* Transactions and what a branch of blocks does with them: the facts the  *)
(* caches of node/transactions are kept to answer.  A transaction and its  *)
(* ID are one value; the reward transaction of a block is named by the     *)
(* block.  Amounts, keys and signatures are left out.                      *)
(***************************************************************************)
EXTENDS BlockTree, Sequences

CONSTANTS
    Tx,         \* every transaction but the rewards
    Ins,        \* Transaction.Vin: the outputs it uses, <<transaction, index>>
    OutCount,   \* how many outputs Transaction.Vout has
    Time,       \* Transaction.Time
    Txs,        \* Block.Transactions without the reward, which is the last
    Own         \* the blocks this node can mine; the others are received

Ids == Tx \cup Block

\* MakeCoinbaseTX gives the reward one output.
Outputs(x) == {x} \X (0 .. IF x \in Tx THEN OutCount[x] - 1 ELSE 0)
Inputs(t) == {Ins[t][i] : i \in DOMAIN Ins[t]}
TxsOf(b) == {Txs[b][i] : i \in DOMAIN Txs[b]}

ASSUME TxAssumption ==
    /\ Tx \cap Block = {}
    /\ OutCount \in [Tx -> Nat \ {0}]
    /\ Time \in [Tx -> Nat]
    /\ \A t \in Tx : /\ Ins[t] \in Seq(UNION {Outputs(x) : x \in Ids})
                     /\ Ins[t] # << >>

\* makeNewBlockFromTransactions puts the transactions DetectConflicts left
\* into the block: no output is used twice inside one block.
ASSUME BlockTxsAssumption ==
    /\ Txs \in [Block -> Seq(Tx)]
    /\ Txs[Genesis] = << >>
    /\ \A b \in Block : \A i, j \in DOMAIN Txs[b] :
          i # j => Inputs(Txs[b][i]) \cap Inputs(Txs[b][j]) = {}
    /\ Own \subseteq Block \ {Genesis}

IdsOf(b) == TxsOf(b) \cup {b}
Created(b) == UNION {Outputs(x) : x \in IdsOf(b)}
Used(b) == UNION {Inputs(t) : t \in TxsOf(b)}

Conflict(t, u) == Inputs(t) \cap Inputs(u) # {}

\* The outputs a branch leaves unspent: no block uses them from the one that
\* creates them up to the end.
Unspent ==
    [b \in Block |->
        UNION {Created(c) \
                   UNION {Used(d) : d \in {e \in Line[b] : Height[e] >= Height[c]}}
               : c \in Line[b]}]

\* No transaction of a block uses an output of its own, of a later transaction
\* of the block, or of the reward.
CreatedFirst(b) ==
    \A i \in DOMAIN Txs[b] :
        Inputs(Txs[b][i]) \cap
            (Outputs(b) \cup UNION {Outputs(Txs[b][j]) : j \in i .. Len(Txs[b])})
        = {}

\* A transaction may use what is unspent below its block and what earlier
\* transactions of its block created.
ValidOnBranch(b) ==
    \A i \in DOMAIN Txs[b] :
        Inputs(Txs[b][i]) \subseteq
            Unspent[Parent[b]] \cup
            UNION {Outputs(Txs[b][j]) : j \in 1 .. i - 1}

=============================================================================
