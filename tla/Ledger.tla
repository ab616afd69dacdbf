-------------------------------- MODULE Ledger --------------------------------
(***************************************************************************)
(* A node's transaction caches beside its block store: the index of        *)
(* transactions and spendings, the unspent outputs and the pool of         *)
(* unapproved transactions.  Node.AddBlock, Node.DropBlock and ReindexData *)
(* call the caches one after the other; todo holds the calls still to      *)
(* make, and one step makes one call.  The database lock keeps every other *)
(* operation out until todo is empty, but the process can die in between.  *)
(*                                                                         *)
(* The block store is what ChainStore is shown to implement, MainChain.    *)
(***************************************************************************)
EXTENDS LedgerRules, Lookup, FiniteSets

CONSTANTS
    MaxMin,     \* config.MaxMinNumberTransactionInBlock
    MaxTxs,     \* config.MaxNumberTransactionInBlock
    MaxCrashes, \* bound: how often the process dies
    MaxDrops,   \* bound: how often the top block is dropped
    MaxReindex  \* bound: how often the caches are rebuilt

\* A second drop can leave a hole in the index of ChainStore, which MainChain
\* does not have.
ASSUME LedgerAssumption ==
    /\ MaxMin \in Nat \ {0}
    /\ MaxTxs \in Nat \ {0}
    /\ MaxCrashes \in Nat
    /\ MaxDrops \in 0 .. 1
    /\ MaxReindex \in Nat

VARIABLES
    \* The block store.
    known,      \* the stored blocks
    tip,        \* the top hash
    main,       \* the blocks of the main chain
    \* The caches.
    txBlocks,   \* transaction -> the blocks that hold it
    spentBy,    \* outputs with the blocks that spend them
    utxo,       \* unspent output -> the block that holds its transaction
    pool,       \* the unapproved transactions
    \* What only the process knows.
    prepared,   \* the block the miner works on
    todo,       \* calls to the caches still to make
    \* Bounds.
    crashes,
    drops,
    reindexes

store == <<known, tip, main>>
index == <<txBlocks, spentBy>>
caches == <<index, utxo, pool>>
bounds == <<crashes, drops, reindexes>>
vars == <<store, caches, prepared, todo, bounds>>

Store == INSTANCE MainChain

(***************************************************************************)
(* Types                                                                   *)
(***************************************************************************)

Output == UNION {Outputs(x) : x \in Ids}
BlockCalls == {"index", "unpool", "spend", "repool", "unspend", "unindex"}
Call == [call : BlockCalls, block : Block] \cup
        [call : {"reindex", "empty", "respend", "panic"}, block : {None}]

TypeOK ==
    /\ known \subseteq Block
    /\ tip \in Block \cup {None}
    /\ main \subseteq Block
    /\ txBlocks \in [Ids -> Seq(Block)]
    /\ spentBy \subseteq [out : Output, block : Block]
    /\ DOMAIN utxo \subseteq Output
    /\ utxo \in [DOMAIN utxo -> Block]
    /\ pool \subseteq Tx
    /\ prepared \in Own \cup {None}
    /\ todo \in Seq(Call)
    /\ crashes \in 0 .. MaxCrashes
    /\ drops \in 0 .. MaxDrops
    /\ reindexes \in 0 .. MaxReindex

\* No operation is under way, and the store has a top: without one, after the
\* genesis block was dropped, every call that reads the top fails.
Idle == todo = << >> /\ tip # None

(***************************************************************************)
(* What the index answers                                                  *)
(***************************************************************************)

\* The block under top that holds a transaction.
HeldUnder(x, top) == ChooseHashUnderTip(main, txBlocks[x], top)

OrTip(top) == IF top = None THEN tip ELSE top

\* Every spending of any output of x is looked at, and a record of a deleted
\* block makes the whole query fail.
SpendingsOf(x) == {s \in spentBy : s.out \in Outputs(x)}

SpendingsFail(x, bottom, top) ==
    \E s \in SpendingsOf(x) :
        /\ RangeReadsBlock(main, s.block, bottom, OrTip(top))
        /\ s.block \notin known

\* The outputs of x spent between its block and top.
GetTranactionOutputsSpent(x, bottom, top) ==
    {s.out : s \in {r \in SpendingsOf(x) :
                CheckBlockIsInRange(main, r.block, bottom, OrTip(top))}}

\* getInputTransactionsState and CheckInputsWereBefore: an input is on the
\* branch under top and not spent there, or it is not on the branch and its
\* transaction is one of prev.
InputIsGood(in, prev, top) ==
    LET bottom == HeldUnder(in[1], top)
    IN  IF bottom = None THEN in[1] \in prev
        ELSE /\ bottom \in known
             /\ ~SpendingsFail(in[1], bottom, top)
             /\ in \notin GetTranactionOutputsSpent(in[1], bottom, top)

VerifyTransaction(t, prev, top) ==
    \A i \in DOMAIN Ins[t] : InputIsGood(Ins[t][i], prev, top)

MinTxs(height) == Lower(MaxMin, height)

\* The rules of VerifyBlock that concern transactions; the hash and the
\* reward are taken to be right.
VerifyBlock(b) ==
    /\ Len(Txs[b]) \in MinTxs(Height[b]) .. MaxTxs
    /\ \A i \in DOMAIN Txs[b] :
          VerifyTransaction(Txs[b][i], {Txs[b][j] : j \in 1 .. i - 1},
                            Parent[b])

(***************************************************************************)
(* Blocks                                                                  *)
(***************************************************************************)

Calling(call, b) == [call |-> call, block |-> b]

\* Both calls for each of the blocks in turn.
Each(blocks, first, second) ==
    [i \in 1 .. 2 * Len(blocks) |->
        Calling(IF i % 2 = 1 THEN first ELSE second, blocks[(i + 1) \div 2])]

\* The calls Node.AddBlock makes after the store has taken b.  When b replaces
\* the branch under the old top, the blocks that left are cancelled from the
\* top down, then those that entered are added from below.  A top without a
\* branch of its own replaces nothing, and one that is the genesis block makes
\* GetBranchesReplacement dereference a missing block.
CallsAfter(b) ==
    LET change == GetBranchesReplacement(tip, b)
    IN  <<Calling("index", b)>> \o
        (IF Height[b] <= Height[tip] THEN << >>
         ELSE IF Parent[b] = tip
         THEN <<Calling("unpool", b), Calling("spend", b)>>
         ELSE IF SideBranchFails(tip, b) THEN <<Calling("panic", None)>>
         ELSE Each(change.old, "repool", "unspend") \o
              Each(change.new, "unpool", "spend"))

\* NodeBlockchain.AddBlock verifies a new block whose previous one is stored,
\* and the store takes it.
CanAdd(b) == b \notin known /\ Parent[b] \in known /\ VerifyBlock(b)

AddBlock(b) ==
    /\ CanAdd(b)
    /\ Store!Add(b)
    /\ todo' = CallsAfter(b)

\* A block of another node.  One that is refused changes nothing.
ReceivedFullBlockFromOtherNode(b) ==
    /\ Idle
    /\ b \notin Own
    /\ AddBlock(b)
    /\ UNCHANGED <<caches, prepared, bounds>>

\* Mutant: the block is read after it was dropped.
DropReadsTop ==
    /\ Idle
    /\ drops < MaxDrops
    /\ Store!Drop
    /\ todo' = <<Calling("repool", tip'), Calling("unspend", tip'),
                 Calling("unindex", tip')>>
    /\ drops' = drops + 1
    /\ UNCHANGED <<caches, prepared, crashes, reindexes>>

DropBlock ==
    /\ Idle
    /\ drops < MaxDrops
    /\ Store!Drop
    /\ todo' = <<Calling("repool", tip), Calling("unspend", tip),
                 Calling("unindex", tip)>>
    /\ drops' = drops + 1
    /\ UNCHANGED <<caches, prepared, crashes, reindexes>>

\* Both caches are emptied and filled again, the index first, with the blocks
\* of the main chain from the top down.
Rebuild(blocks) ==
    <<Calling("reindex", None)>> \o
    [i \in DOMAIN blocks |-> Calling("index", blocks[i])] \o
    <<Calling("empty", None), Calling("respend", None)>>

ReindexData ==
    /\ Idle
    /\ reindexes < MaxReindex
    /\ reindexes' = reindexes + 1
    /\ todo' = Rebuild(Down(tip))
    /\ UNCHANGED <<store, caches, prepared, crashes, drops>>

(***************************************************************************)
(* The calls                                                               *)
(***************************************************************************)

Running(call) == todo # << >> /\ Head(todo).call = call
Done == todo' = Tail(todo) /\ UNCHANGED <<store, prepared, bounds>>
Current == Head(todo).block

Spendings(b) == {[out |-> o, block |-> b] : o \in Used(b)}

\* Mutant: an indexed block replaces the blocks indexed before.
IndexLast(b) ==
    /\ txBlocks' = [x \in Ids |-> IF x \in IdsOf(b) THEN <<b>>
                                  ELSE txBlocks[x]]
    /\ spentBy' = spentBy \cup Spendings(b)

\* Mutant: the spendings of a side block are not recorded.
IndexMainOnly(b) ==
    /\ txBlocks' = [x \in Ids |-> IF x \in IdsOf(b) THEN Append(txBlocks[x], b)
                                  ELSE txBlocks[x]]
    /\ spentBy' = IF b \in main THEN spentBy \cup Spendings(b) ELSE spentBy

IndexBlock(b) ==
    /\ txBlocks' = [x \in Ids |-> IF x \in IdsOf(b) THEN Append(txBlocks[x], b)
                                  ELSE txBlocks[x]]
    /\ spentBy' = spentBy \cup Spendings(b)

IndexBlockAdded ==
    /\ Running("index")
    /\ IndexBlock(Current)
    /\ Done
    /\ UNCHANGED <<utxo, pool>>

\* Takes the block out of the lists of its transactions, and every spending
\* of an output the block spends, whichever block it is in.
IndexBlockRemoved ==
    /\ Running("unindex")
    /\ txBlocks' = [x \in Ids |->
                        IF x \in IdsOf(Current)
                        THEN Keeping(txBlocks[x], Block \ {Current})
                        ELSE txBlocks[x]]
    /\ spentBy' = {s \in spentBy : s.out \notin Used(Current)}
    /\ Done
    /\ UNCHANGED <<utxo, pool>>

\* The rebuilding of the index begins with none.
IndexTruncateDB ==
    /\ Running("reindex")
    /\ txBlocks' = [x \in Ids |-> << >>]
    /\ spentBy' = {}
    /\ Done
    /\ UNCHANGED <<utxo, pool>>

DeleteFromBlock ==
    /\ Running("unpool")
    /\ pool' = pool \ TxsOf(Current)
    /\ Done
    /\ UNCHANGED <<index, utxo>>

\* Mutant: no conflict is looked for.
AddAlways(t) == TRUE

\* Add refuses a transaction that shares an input with one of the pool.
CanPool(t) == \A u \in pool : ~Conflict(t, u)

AddFromCanceled ==
    /\ Running("repool")
    /\ pool' = pool \cup {t \in TxsOf(Current) : CanPool(t)}
    /\ Done
    /\ UNCHANGED <<index, utxo>>

\* Mutant: what is created is added, what is used stays.
SpendNothing(b) ==
    utxo' = [o \in DOMAIN utxo \cup Created(b) |->
                IF o \in Created(b) THEN b ELSE utxo[o]]

\* The inputs go, and the outputs of the block's transactions come in.
Spend(b) ==
    utxo' = [o \in (DOMAIN utxo \cup Created(b)) \ Used(b) |->
                IF o \in Created(b) THEN b ELSE utxo[o]]

UpdateOnBlockAdd ==
    /\ Running("spend")
    /\ Spend(Current)
    /\ Done
    /\ UNCHANGED <<index, pool>>

(***************************************************************************)
(* The rebuilding of the unspent outputs                                   *)
(***************************************************************************)

UtxoTruncateDB ==
    /\ Running("empty")
    /\ utxo' = << >>
    /\ Done
    /\ UNCHANGED <<index, pool>>

\* Mutant: the transactions of a block are met from the first to the last.
Forwards(b) == Txs[b] \o <<b>>

\* The transactions of a block from the last, which is its reward.
Backwards(b) == <<b>> \o Reverse(Txs[b])

\* Of a transaction of block b the outputs not met as spent are unspent, and
\* then the outputs it uses are spent; a reward uses none.
LookAtTx(met, x, b) ==
    [unspent |-> met.unspent \cup ((Outputs(x) \ met.spent) \X {b}),
     spent |-> met.spent \cup (IF x \in Tx THEN Inputs(x) ELSE {})]

LookAtBlock(met, b) ==
    LET after[n \in 0 .. Len(Backwards(b))] ==
            IF n = 0 THEN met
            ELSE LookAtTx(after[n - 1], Backwards(b)[n], b)
    IN  after[Len(Backwards(b))]

\* The outputs of the chain that are unspent, each with the block that holds
\* its transaction: the blocks are met from the top down.
FindunspentTransactions ==
    LET after[n \in 0 .. Len(Down(tip))] ==
            IF n = 0 THEN [unspent |-> {}, spent |-> {}]
            ELSE LookAtBlock(after[n - 1], Down(tip)[n])
    IN  after[Len(Down(tip))].unspent

FoundOf(x) == {f[1] : f \in {g \in FindunspentTransactions : g[1][1] = x}}

\* One record holds what was found of one transaction.  They are written in
\* the order of a Go map, which is any order.
StoreRecord(x) ==
    /\ Running("respend")
    /\ ~(FoundOf(x) \subseteq DOMAIN utxo)
    /\ utxo' = [o \in DOMAIN utxo \cup FoundOf(x) |->
                    IF o \in FoundOf(x)
                    THEN CHOOSE b \in main :
                             <<o, b>> \in FindunspentTransactions
                    ELSE utxo[o]]
    /\ UNCHANGED <<store, index, pool, prepared, todo, bounds>>

RecordsStored ==
    /\ Running("respend")
    /\ \A x \in Ids : FoundOf(x) \subseteq DOMAIN utxo
    /\ Done
    /\ UNCHANGED caches

(***************************************************************************)
(* UpdateOnBlockCancel                                                     *)
(***************************************************************************)

\* The record written for a transaction whose output comes back: all its
\* outputs that are not spent under the previous block.
Restored(x, prev) ==
    [o \in Outputs(x) \ GetTranactionOutputsSpent(x, HeldUnder(x, prev), prev)
        |-> HeldUnder(x, prev)]

\* The inputs of a transaction are restored in their order up to the first
\* whose transaction is not found under prev; none after it is.
Reached(t, k, prev) ==
    \A j \in 1 .. k : HeldUnder(Ins[t][j][1], prev) # None

InputFails(t, k, prev) ==
    LET x == Ins[t][k][1]
    IN  SpendingsFail(x, HeldUnder(x, prev), prev)

\* A query that fails ends the whole update.
TxFails(t, prev) ==
    \E k \in DOMAIN Ins[t] : Reached(t, k, prev) /\ InputFails(t, k, prev)

RestoredOf(t, prev) ==
    {Ins[t][k][1] : k \in {n \in DOMAIN Ins[t] :
                        /\ Reached(t, n, prev)
                        /\ \A j \in 1 .. n : ~InputFails(t, j, prev)}}

UpdateOnBlockCancel ==
    /\ Running("unspend")
    /\ LET b == Current
           prev == Parent[b]
           Fails(i) == TxFails(Txs[b][i], prev)
           reached == {i \in DOMAIN Txs[b] : \A j \in 1 .. i - 1 : ~Fails(j)}
           deleted == {Txs[b][i] : i \in reached} \cup
                      (IF \E i \in reached : Fails(i) THEN {} ELSE {b})
           restored == UNION {RestoredOf(Txs[b][i], prev) : i \in reached}
           kept == {o \in DOMAIN utxo : o[1] \notin deleted \cup restored}
           back == UNION {DOMAIN Restored(x, prev) : x \in restored}
       IN  utxo' = [o \in kept \cup back |->
                        IF o \in back THEN Restored(o[1], prev)[o]
                        ELSE utxo[o]]
    /\ Done
    /\ UNCHANGED <<index, pool>>

(***************************************************************************)
(* Transactions                                                            *)
(***************************************************************************)

\* verifyTransactionQuick: an input is an unspent output, whose transaction
\* must still be readable, or its transaction is in the pool.
InputExists(in) ==
    IF in \in DOMAIN utxo THEN utxo[in] \in known ELSE in[1] \in pool

VerifyQuick(t) == \A in \in Inputs(t) : InputExists(in)

ReceivedNewTransaction(t) ==
    /\ todo = << >>
    /\ VerifyQuick(t)
    /\ CanPool(t)
    /\ pool' = pool \cup {t}
    /\ UNCHANGED <<store, index, utxo, prepared, todo, bounds>>

CancelTransaction(t) ==
    /\ todo = << >>
    /\ t \in pool
    /\ pool' = pool \ {t}
    /\ UNCHANGED <<store, index, utxo, prepared, todo, bounds>>

CleanUnapprovedCache ==
    /\ todo = << >>
    /\ pool' = {}
    /\ UNCHANGED <<store, index, utxo, prepared, todo, bounds>>

(***************************************************************************)
(* Mining                                                                  *)
(***************************************************************************)

\* GetTransactions: as many as asked for, in the order of the keys, which is
\* any order, then sorted by time.
Listed ==
    LET count == Lower(Cardinality(pool), MaxTxs)
    IN  {s \in UNION {SetToSeqs(S) : S \in kSubset(count, pool)} :
            \A i, j \in DOMAIN s : i < j => Time[s[i]] <= Time[s[j]]}

\* Those of the list that verify on the main chain, each after those before
\* it.
Verified(list) ==
    LET good[n \in 0 .. Len(list)] ==
            IF n = 0 THEN << >>
            ELSE IF VerifyTransaction(list[n], ToSet(good[n - 1]), None)
            THEN Append(good[n - 1], list[n])
            ELSE good[n - 1]
    IN  good[Len(list)]

\* Mutant: what does not verify is put into the block too.
KeepAll(list) == list

\* GetUnapprovedTransactionsForNewBlock.  The pool holds no two conflicting
\* transactions (PoolConflictFree), so DetectConflicts takes none out.
ForNewBlock(list) == Verified(list)

EnoughToMine == Cardinality(pool) >= MinTxs(Height[tip] + 1)

\* What does not verify leaves the pool, and the rest makes a block on the
\* top, which the miner then works on without the database.
PrepareNewBlock ==
    /\ Idle
    /\ prepared = None
    /\ EnoughToMine
    /\ \E list \in Listed : \E b \in Own \ known :
          /\ Parent[b] = tip
          /\ Txs[b] = ForNewBlock(list)
          /\ Len(Txs[b]) >= MinTxs(Height[tip] + 1)
          /\ prepared' = b
          /\ pool' = pool \ (ToSet(list) \ TxsOf(b))
    /\ UNCHANGED <<store, index, utxo, todo, bounds>>

\* Too few are left: the pool is smaller and there is no block.
PrepareFails ==
    /\ Idle
    /\ prepared = None
    /\ EnoughToMine
    /\ \E list \in Listed :
          /\ Len(ForNewBlock(list)) < MinTxs(Height[tip] + 1)
          /\ pool' = pool \ (ToSet(list) \ ToSet(ForNewBlock(list)))
    /\ UNCHANGED <<store, index, utxo, prepared, todo, bounds>>

\* The proof of work is found and the block is added like a received one.
MineBlock ==
    /\ Idle
    /\ prepared # None
    /\ prepared' = None
    /\ IF CanAdd(prepared) THEN AddBlock(prepared)
       ELSE UNCHANGED <<store, todo>>
    /\ UNCHANGED <<caches, bounds>>

(***************************************************************************)
(* The process dies: the database keeps what was written                   *)
(***************************************************************************)

LoseMemory ==
    /\ todo' = << >>
    /\ prepared' = None
    /\ UNCHANGED <<store, caches, drops, reindexes>>

Crash ==
    /\ crashes < MaxCrashes
    /\ todo # << >> \/ prepared # None
    /\ crashes' = crashes + 1
    /\ LoseMemory

Panic ==
    /\ Running("panic")
    /\ LoseMemory
    /\ UNCHANGED crashes

(***************************************************************************)
(* Specification                                                           *)
(***************************************************************************)

Init ==
    /\ Store!Init
    /\ txBlocks = [x \in Ids |-> IF x = Genesis THEN <<Genesis>> ELSE << >>]
    /\ spentBy = {}
    /\ utxo = [o \in Outputs(Genesis) |-> Genesis]
    /\ pool = {}
    /\ prepared = None
    /\ todo = << >>
    /\ crashes = 0
    /\ drops = 0
    /\ reindexes = 0

Work ==
    \/ IndexBlockAdded \/ IndexBlockRemoved \/ IndexTruncateDB
    \/ DeleteFromBlock \/ AddFromCanceled
    \/ UpdateOnBlockAdd \/ UpdateOnBlockCancel
    \/ UtxoTruncateDB \/ RecordsStored
    \/ \E x \in Ids : StoreRecord(x)
    \/ Panic

Next ==
    \/ \E b \in Block : ReceivedFullBlockFromOtherNode(b)
    \/ \E t \in Tx : ReceivedNewTransaction(t) \/ CancelTransaction(t)
    \/ PrepareNewBlock \/ PrepareFails \/ MineBlock
    \/ DropBlock \/ ReindexData \/ CleanUnapprovedCache
    \/ Work
    \/ Crash

Spec == Init /\ [][Next]_vars

(***************************************************************************)
(* Properties                                                              *)
(***************************************************************************)

\* On every stored branch every output is created before it is used and used
\* once: VerifyBlock, asking a shared index from another branch, lets no
\* double spending in (rules 3 and 4 of VerifyBlock).
NoDoubleSpend == \A b \in known \ {Genesis} : ValidOnBranch(b)

\* Between operations the index knows where every transaction of every stored
\* block is and where every output is used, and nothing else.
IndexComplete ==
    todo = << >> =>
        /\ \A x \in Ids : ToSet(txBlocks[x]) = {b \in known : x \in IdsOf(b)}
        /\ spentBy = UNION {Spendings(b) : b \in known}

\* Whatever branches replaced each other, an output listed as unspent is
\* unspent on the main chain and its record names the block there that holds
\* it: no wallet is offered spent money.
UtxoSound ==
    Idle =>
        \A o \in DOMAIN utxo : /\ o \in Unspent[tip]
                               /\ utxo[o] \in main
                               /\ o \in Created(utxo[o])

\* No two transactions of the pool use one output, though transactions come
\* back from cancelled blocks beside those that came in meanwhile.
PoolConflictFree == \A t, u \in pool : t # u => ~Conflict(t, u)

\* A block the miner is about to work on passes the check it will have to pass
\* as a new block, which asks for the same facts with an explicit top instead
\* of the main chain (PrepareNewBlock, VerifyBlock).
PreparedIsValid ==
    [][prepared = None /\ prepared' # None => VerifyBlock(prepared')]_vars

\* When ReindexData ends, the index is that of the main chain, and the unspent
\* outputs are those the main chain leaves, each with the block that holds it,
\* whatever a dropped block or a process that died, in an earlier rebuilding
\* too, left in the caches.  Rule 4 of VerifyBlock is what the walk from the
\* top down relies on: no block uses an output before it creates it.
ReindexRepairs ==
    [][Running("respend") /\ todo' = << >> /\ crashes' = crashes =>
        /\ (\A b \in main : CreatedFirst(b)) => DOMAIN utxo' = Unspent[tip]
        /\ \A o \in DOMAIN utxo' : o \in Created(utxo'[o]) /\ utxo'[o] \in main
        /\ \A x \in Ids :
              ToSet(txBlocks'[x]) = {b \in main : x \in IdsOf(b)}
        /\ spentBy' = UNION {Spendings(b) : b \in main}]_vars

=============================================================================
