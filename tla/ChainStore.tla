------------------------------ MODULE ChainStore ------------------------------
(***************************************************************************)
(* The block store: the "blocks" bucket with its top hash, the             *)
(* "blockchain" bucket that indexes the main chain as a doubly linked      *)
(* list, and the two operations that change them, AddBlock and             *)
(* DeleteBlock.                                                            *)
(*                                                                         *)
(* Each operation is a sequence of separate bolt transactions.  One step   *)
(* here is one committed transaction with the reads before it, so a        *)
(* process that dies can die between any two of them.  Nothing else runs   *)
(* in between: the operation holds the database lock throughout.           *)
(***************************************************************************)
EXTENDS BlockTree, FiniteSets

CONSTANTS
    MaxCrashes, \* bound: how often the process dies inside an operation
    MaxDrops    \* bound: how often the operator drops the top block

ASSUME BoundAssumption == MaxCrashes \in Nat /\ MaxDrops \in Nat

VARIABLES
    \* What the database file holds.
    blocks,         \* keys of the "blocks" bucket
    topHash,        \* its "l" record
    chain,          \* the "blockchain" bucket: hash -> its two neighbours
    \* The locals of the running operation.
    pc,             \* the next transaction of the operation
    block,          \* the block being added or dropped
    lastHash,       \* the top before the operation
    cursor,         \* the iterator that goes down from the new top
    newBlocks,      \* blocks met that are not in the index yet
    mergePointHash, \* where the new branch leaves the old one
    remHash,        \* the next block to take out of the index
    addstate,       \* what the operation returned
    chainErr,       \* an index error was logged and ignored
    \* Bounds.
    crashes,
    drops

stored == <<blocks, topHash, chain>>
walk == <<cursor, newBlocks, mergePointHash, remHash>>
locals == <<pc, block, lastHash, walk, addstate, chainErr>>
vars == <<stored, locals, crashes, drops>>

(***************************************************************************)
(* Types                                                                   *)
(***************************************************************************)

Hash == Block \cup {None}
Neighbours == [prev : Hash, next : Hash]

AddStates == {"none", "error", "addedToTop", "addedToParallelTop",
              "addedToParallel", "notAddedNoPrev", "notAddedExists",
              "dropped"}

Pcs == {"idle", "saveTop", "append", "walk", "remove", "add",
        "delete", "unlink", "panic"}

\* A running operation has a block, and its walk is at one.
Named ==
    /\ pc \notin {"idle", "panic"} => block \in Block
    /\ pc = "walk" => cursor \in Block

TypeOK ==
    /\ Named
    /\ blocks \subseteq Block
    /\ topHash \in Hash
    /\ DOMAIN chain \subseteq Block
    /\ chain \in [DOMAIN chain -> Neighbours]
    /\ pc \in Pcs
    /\ block \in Hash
    /\ lastHash \in Hash
    /\ cursor \in Hash
    /\ newBlocks \subseteq Block
    /\ mergePointHash \in Hash
    /\ remHash \in Hash
    /\ addstate \in AddStates
    /\ chainErr \in BOOLEAN
    /\ crashes \in 0 .. MaxCrashes
    /\ drops \in 0 .. MaxDrops

(***************************************************************************)
(* The index as node/database/blockchain.go keeps it                       *)
(***************************************************************************)

BlockInChain(h) == h \in DOMAIN chain

\* AddToChain refuses a previous hash that is not in the index or that has a
\* next one already; the first block has no previous hash to check.
CanAddToChain(prevHash) ==
    prevHash # None => /\ BlockInChain(prevHash)
                       /\ chain[prevHash].next = None

AddToChain(hash, prevHash) ==
    chain' = [h \in DOMAIN chain \cup {hash} |->
                IF h = hash THEN [prev |-> prevHash, next |-> None]
                ELSE IF h = prevHash THEN [chain[h] EXCEPT !.next = hash]
                ELSE chain[h]]

\* Mutant: the previous record keeps its next hash.
RemoveKeepsNext(hash) ==
    chain' = [h \in DOMAIN chain \ {hash} |-> chain[h]]

\* RemoveFromChain takes out the last hash only, and needs the record of the
\* previous one to clear its next.
CanRemoveFromChain(hash) ==
    /\ BlockInChain(hash)
    /\ chain[hash].next = None
    /\ chain[hash].prev # None => BlockInChain(chain[hash].prev)

RemoveFromChain(hash) ==
    chain' = [h \in DOMAIN chain \ {hash} |->
                IF h = chain[hash].prev THEN [chain[h] EXCEPT !.next = None]
                ELSE chain[h]]

(***************************************************************************)
(* AddBlock                                                                *)
(***************************************************************************)

\* An operation ends: what it returns, and whether an index error was logged.
Return(state, err) ==
    /\ pc' = "idle"
    /\ addstate' = state
    /\ chainErr' = err

\* A block that is stored already, or whose previous block is not, changes
\* nothing.
AddRefused(b) ==
    /\ pc = "idle"
    /\ \/ b \in blocks /\ Return("notAddedExists", FALSE)
       \/ b \notin blocks /\ Parent[b] \notin blocks
          /\ Return("notAddedNoPrev", FALSE)
    /\ block' = b
    /\ UNCHANGED <<stored, lastHash, walk, crashes, drops>>

\* The first transaction: PutBlock.
AddBlock(b) ==
    /\ pc = "idle"
    /\ b \notin blocks
    /\ Parent[b] \in blocks
    /\ blocks' = blocks \cup {b}
    /\ block' = b
    /\ pc' = "saveTop"
    /\ UNCHANGED <<topHash, chain, lastHash, walk, addstate, chainErr,
                   crashes, drops>>

\* The top block cannot be read: the operation fails, the block stays stored.
TopUnreadable ==
    /\ pc = "saveTop"
    /\ topHash \notin blocks
    /\ Return("error", FALSE)
    /\ UNCHANGED <<stored, block, lastHash, walk, crashes, drops>>

\* Mutant: a block one higher than the top stays beside it too.
KeepHigher ==
    /\ pc = "saveTop"
    /\ topHash \in blocks
    /\ Height[block] <= Height[topHash] + 1
    /\ lastHash' = topHash
    /\ Return("addedToParallel", FALSE)
    /\ UNCHANGED <<stored, block, walk, crashes, drops>>

\* Not higher than the top: the block stays beside the main chain.
KeepParallel ==
    /\ pc = "saveTop"
    /\ topHash \in blocks
    /\ Height[block] <= Height[topHash]
    /\ lastHash' = topHash
    /\ Return("addedToParallel", FALSE)
    /\ UNCHANGED <<stored, block, walk, crashes, drops>>

\* What SaveTopHash sets, and the operation goes on with step.
NewTop(step) ==
    /\ topHash' = block
    /\ lastHash' = topHash
    /\ pc' = step
    /\ cursor' = block
    /\ newBlocks' = {}
    /\ mergePointHash' = None
    /\ UNCHANGED <<blocks, chain, block, remHash, addstate, chainErr,
                   crashes, drops>>

\* Mutant: every new top is taken for the child of the old one.
SaveTopAndAppend ==
    /\ pc = "saveTop"
    /\ topHash \in blocks
    /\ Height[block] > Height[topHash]
    /\ NewTop("append")

\* Mutant: of two blocks of one height the last one seen becomes the top.
SaveTopLastSeen ==
    /\ pc = "saveTop"
    /\ topHash \in blocks
    /\ Height[block] >= Height[topHash]
    /\ NewTop(IF Parent[block] = topHash THEN "append" ELSE "walk")

\* SaveTopHash, then the index: append when the block extends the old top,
\* replace the branch otherwise.
SaveTopHash ==
    /\ pc = "saveTop"
    /\ topHash \in blocks
    /\ Height[block] > Height[topHash]
    /\ NewTop(IF Parent[block] = topHash THEN "append" ELSE "walk")

\* AddToChain after the old top.  An error is logged and the block still
\* counts as added to the top.
AppendToTop ==
    /\ pc = "append"
    /\ IF CanAddToChain(Parent[block])
       THEN AddToChain(block, Parent[block])
       ELSE UNCHANGED chain
    /\ Return("addedToTop", ~CanAddToChain(Parent[block]))
    /\ UNCHANGED <<blocks, topHash, block, lastHash, walk, crashes, drops>>

(***************************************************************************)
(* UpdateChainOnNewBranch                                                  *)
(***************************************************************************)

\* The iterator's error is dropped, so a block that is not in the database
\* is dereferenced as nil.
WalkPanics ==
    /\ pc = "walk"
    /\ cursor \notin blocks
    /\ pc' = "panic"
    /\ UNCHANGED <<stored, block, lastHash, walk, addstate, chainErr,
                   crashes, drops>>

\* Mutant: the iterator does not move.
WalkStands ==
    /\ pc = "walk"
    /\ cursor \in blocks
    /\ IF BlockInChain(cursor)
       THEN mergePointHash' = cursor /\ pc' = "remove" /\ UNCHANGED newBlocks
       ELSE /\ newBlocks' = newBlocks \cup {cursor}
            /\ UNCHANGED <<pc, mergePointHash>>
    /\ remHash' = lastHash
    /\ UNCHANGED <<stored, block, lastHash, cursor, addstate, chainErr,
                   crashes, drops>>

\* One turn of the loop that goes down from the new top to the first block
\* that is in the index, or past the genesis block.
Walk ==
    /\ pc = "walk"
    /\ cursor \in blocks
    /\ IF BlockInChain(cursor)
       THEN /\ mergePointHash' = cursor
            /\ pc' = "remove"
            /\ UNCHANGED <<cursor, newBlocks>>
       ELSE /\ newBlocks' = newBlocks \cup {cursor}
            /\ cursor' = Parent[cursor]
            /\ pc' = IF Parent[cursor] = None THEN "remove" ELSE "walk"
            /\ UNCHANGED mergePointHash
    /\ remHash' = lastHash
    /\ UNCHANGED <<stored, block, lastHash, addstate, chainErr,
                   crashes, drops>>

\* One turn of the loop that takes the old branch out, from its top down to
\* the merge point.  A hash that has no record makes it return an error.
RemoveOld ==
    /\ pc = "remove"
    /\ remHash # mergePointHash
    /\ CanRemoveFromChain(remHash)
    /\ remHash' = chain[remHash].prev
    /\ RemoveFromChain(remHash)
    /\ UNCHANGED <<blocks, topHash, pc, block, lastHash, cursor, newBlocks,
                   mergePointHash, addstate, chainErr, crashes, drops>>

RemoveFails ==
    /\ pc = "remove"
    /\ remHash # mergePointHash
    /\ ~CanRemoveFromChain(remHash)
    /\ Return("addedToParallelTop", TRUE)
    /\ UNCHANGED <<stored, block, lastHash, walk, crashes, drops>>

RemoveDone ==
    /\ pc = "remove"
    /\ remHash = mergePointHash
    /\ pc' = "add"
    /\ UNCHANGED <<stored, block, lastHash, walk, addstate, chainErr,
                   crashes, drops>>

\* Mutant: the slice is not reversed.
HighestToAdd(b) ==
    /\ b \in newBlocks
    /\ \A c \in newBlocks : Height[b] >= Height[c]

\* The slice was collected from the top down and is reversed: the lowest
\* block goes in first, on the merge point, which then moves up to it.
NextToAdd(b) ==
    /\ b \in newBlocks
    /\ \A c \in newBlocks : Height[b] <= Height[c]

AddNew ==
    /\ pc = "add"
    /\ CanAddToChain(mergePointHash)
    /\ \E b \in newBlocks :
          /\ NextToAdd(b)
          /\ AddToChain(b, mergePointHash)
          /\ mergePointHash' = b
          /\ newBlocks' = newBlocks \ {b}
    /\ UNCHANGED <<blocks, topHash, pc, block, lastHash, cursor, remHash,
                   addstate, chainErr, crashes, drops>>

AddFails ==
    /\ pc = "add"
    /\ newBlocks # {}
    /\ ~CanAddToChain(mergePointHash)
    /\ Return("addedToParallelTop", TRUE)
    /\ UNCHANGED <<stored, block, lastHash, walk, crashes, drops>>

AddDone ==
    /\ pc = "add"
    /\ newBlocks = {}
    /\ Return("addedToParallelTop", FALSE)
    /\ UNCHANGED <<stored, block, lastHash, walk, crashes, drops>>

(***************************************************************************)
(* DeleteBlock: three transactions, and the last one's error is ignored    *)
(***************************************************************************)

\* Mutant: the top is read again after it was moved.
DropReadsLate ==
    /\ pc = "idle"
    /\ drops < MaxDrops
    /\ topHash \in blocks
    /\ topHash' = Parent[topHash]
    /\ block' = Parent[topHash]
    /\ lastHash' = topHash
    /\ pc' = "delete"
    /\ drops' = drops + 1
    /\ UNCHANGED <<blocks, chain, walk, addstate, chainErr, crashes>>

\* SaveTopHash with the previous hash, of the genesis block too.
DropBlock ==
    /\ pc = "idle"
    /\ drops < MaxDrops
    /\ topHash \in blocks
    /\ topHash' = Parent[topHash]
    /\ block' = topHash
    /\ lastHash' = topHash
    /\ pc' = "delete"
    /\ drops' = drops + 1
    /\ UNCHANGED <<blocks, chain, walk, addstate, chainErr, crashes>>

DeleteBlock ==
    /\ pc = "delete"
    /\ blocks' = blocks \ {block}
    /\ pc' = "unlink"
    /\ UNCHANGED <<topHash, chain, block, lastHash, walk, addstate, chainErr,
                   crashes, drops>>

Unlink ==
    /\ pc = "unlink"
    /\ IF CanRemoveFromChain(block)
       THEN RemoveFromChain(block)
       ELSE UNCHANGED chain
    /\ Return("dropped", ~CanRemoveFromChain(block))
    /\ UNCHANGED <<blocks, topHash, block, lastHash, walk, crashes, drops>>

(***************************************************************************)
(* The process dies and starts again: only the database file is left       *)
(***************************************************************************)

LoseLocals ==
    /\ pc' = "idle"
    /\ block' = None
    /\ lastHash' = None
    /\ cursor' = None
    /\ newBlocks' = {}
    /\ mergePointHash' = None
    /\ remHash' = None
    /\ addstate' = "none"
    /\ chainErr' = FALSE
    /\ UNCHANGED <<stored, drops>>

Crash ==
    /\ pc \notin {"idle", "panic"}
    /\ crashes < MaxCrashes
    /\ crashes' = crashes + 1
    /\ LoseLocals

Restart ==
    /\ pc = "panic"
    /\ LoseLocals
    /\ UNCHANGED crashes

(***************************************************************************)
(* Specification                                                           *)
(***************************************************************************)

Init ==
    /\ blocks = {Genesis}
    /\ topHash = Genesis
    /\ chain = [h \in {Genesis} |-> [prev |-> None, next |-> None]]
    /\ pc = "idle"
    /\ block = None
    /\ lastHash = None
    /\ cursor = None
    /\ newBlocks = {}
    /\ mergePointHash = None
    /\ remHash = None
    /\ addstate = "none"
    /\ chainErr = FALSE
    /\ crashes = 0
    /\ drops = 0

\* The steps of the operation that is running.
Step ==
    \/ TopUnreadable \/ KeepParallel \/ SaveTopHash \/ AppendToTop
    \/ WalkPanics \/ Walk
    \/ RemoveOld \/ RemoveFails \/ RemoveDone
    \/ AddNew \/ AddFails \/ AddDone
    \/ DeleteBlock \/ Unlink

Next ==
    \/ \E b \in Block : AddRefused(b) \/ AddBlock(b)
    \/ DropBlock
    \/ Step
    \/ Crash
    \/ Restart

Spec == Init /\ [][Next]_vars

\* An operation that was started runs on: it waits for nobody.
FairSpec == Spec /\ WF_vars(Step)

(***************************************************************************)
(* Properties                                                              *)
(***************************************************************************)

\* Whatever the process does and wherever it dies, the index stays a doubly
\* linked list: neighbours point at each other, both have records, and the
\* previous one is the block's PrevBlockHash (AddToChain, RemoveFromChain).
LinkedIndex ==
    \A h \in DOMAIN chain :
        /\ chain[h].prev = Parent[h]
        /\ chain[h].prev # None =>
              /\ BlockInChain(chain[h].prev)
              /\ chain[chain[h].prev].next = h
        /\ chain[h].next # None =>
              /\ BlockInChain(chain[h].next)
              /\ chain[chain[h].next].prev = h

\* Between operations the index holds the main chain, the branch under the
\* top hash, and nothing else ("it keeps only main chain", AddBlock).
IndexIsMainChain == pc = "idle" => DOMAIN chain = Branch(topHash)

\* No stored block is higher than the top: AddBlock never leaves the longest
\* branch beside the main chain.  Only dropping the top does.
TopIsHighest ==
    pc = "idle" /\ drops = 0 => \A b \in blocks : Height[b] <= Height[topHash]

\* The previous block of every stored block is stored, so that an iterator
\* started anywhere reaches the genesis block.
ParentsStored ==
    pc = "idle" => \A b \in blocks : Parent[b] \in blocks \cup {None}

\* Node.AddBlock updates the transaction caches by what AddBlock returned.
\* It returns the truth: the new block is the top exactly when it says so,
\* it extends the old top exactly when it says "addedToTop", and the old top
\* really left the main chain when it says "addedToParallelTop".  After a
\* drop the new top may stand on the old one and still be "parallel".
AddStateIsTrue ==
    pc = "idle" /\ drops = 0 /\ block # None =>
        /\ addstate \in {"addedToTop", "addedToParallelTop"} => topHash = block
        /\ addstate = "addedToTop" => lastHash = Parent[block]
        /\ addstate = "addedToParallelTop" => lastHash \notin Line[block]
        /\ addstate = "addedToParallel" => /\ topHash = lastHash
                                           /\ block \notin Branch(topHash)

\* The errors AddBlock only logs, and the iterator errors it drops, never
\* happen: the index is always what the next operation needs.
NothingSwallowed == ~chainErr /\ pc # "panic"

\* Every operation comes to its end: the three loops of
\* UpdateChainOnNewBranch terminate.
OperationEnds == pc # "idle" ~> pc = "idle"

(***************************************************************************)
(* Refinement: while an operation runs the abstract store has not moved    *)
(***************************************************************************)

adding == pc \in {"saveTop", "append", "walk", "remove", "add", "panic"}
dropping == pc \in {"delete", "unlink"}

\* The top the abstract store still has.
abstractTip == IF adding \/ dropping
               THEN IF pc = "saveTop" THEN topHash ELSE lastHash
               ELSE topHash

Abstract == INSTANCE MainChain WITH
    known <- IF adding THEN blocks \ {block}
             ELSE IF dropping THEN blocks \cup {block} ELSE blocks,
    tip <- abstractTip,
    main <- IF pc = "idle" THEN DOMAIN chain ELSE Branch(abstractTip)

\* AddBlock and DeleteBlock, run to their ends, are the two operations of
\* MainChain: the first highest branch is the main chain, and the index is
\* exactly that branch.
ImplementsMainChain == Abstract!Spec

=============================================================================
