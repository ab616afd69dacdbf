--------------------------- MODULE ChainStoreProofs ---------------------------
(***************************************************************************)
(* Proofs about ChainStore.                                                *)
(***************************************************************************)
EXTENDS ChainQueries, LookupProofs

(***************************************************************************)
(* Facts about the tree of blocks                                          *)
(***************************************************************************)

\* The previous block is one lower and lies on the block's own line.
LEMMA ParentFacts ==
    ASSUME NEW b \in Block, b # Genesis
    PROVE  /\ Parent[b] \in Block
           /\ Parent[b] # None
           /\ Height[b] = Height[Parent[b]] + 1
           /\ Height[b] \in Nat
           /\ Height[Parent[b]] \in Nat
           /\ Line[b] = Line[Parent[b]] \cup {b}
           /\ b \notin Line[Parent[b]]
  <1>1. Parent[b] \in Block /\ Parent[b] # None
    BY ParentAssumption, BlockAssumption
  <1>2. /\ Height[b] = Height[Parent[b]] + 1
        /\ Height[b] \in Nat
        /\ Height[Parent[b]] \in Nat
    BY <1>1, ParentAssumption
  <1>3. b \notin Line[Parent[b]]
    BY <1>1, <1>2, LineAssumption
  <1> QED BY <1>1, <1>2, <1>3, LineAssumption

\* Every block is on its own line, and so is the genesis block.
LEMMA LineEnds ==
    ASSUME NEW b \in Block
    PROVE  b \in Line[b] /\ Line[b] \subseteq Block
  BY LineAssumption, BlockAssumption

\* Two blocks of one line, each on the line of the other, are the same.
LEMMA LineAntisymmetric ==
    ASSUME NEW b \in Block, NEW c \in Block, b \in Line[c], c \in Line[b]
    PROVE  b = c
  <1>1. Height[b] \in Nat /\ Height[c] \in Nat
    BY ParentAssumption
  <1>2. Height[b] <= Height[c] /\ Height[c] <= Height[b]
    BY LineAssumption
  <1> QED BY <1>1, <1>2, LineAssumption

(***************************************************************************)
(* Types                                                                   *)
(***************************************************************************)

\* Writing the index keeps it a function from blocks to neighbours.
LEMMA AddToChainType ==
    ASSUME TypeOK, NEW hash \in Block, NEW prevHash \in Hash,
           AddToChain(hash, prevHash)
    PROVE  /\ DOMAIN chain' = DOMAIN chain \cup {hash}
           /\ DOMAIN chain' \subseteq Block
           /\ chain' \in [DOMAIN chain' -> Neighbours]
  BY DEF TypeOK, AddToChain, Neighbours, Hash

LEMMA RemoveFromChainType ==
    ASSUME TypeOK, NEW hash, RemoveFromChain(hash)
    PROVE  /\ DOMAIN chain' = DOMAIN chain \ {hash}
           /\ DOMAIN chain' \subseteq Block
           /\ chain' \in [DOMAIN chain' -> Neighbours]
  BY DEF TypeOK, RemoveFromChain, Neighbours, Hash

LEMMA TypeInit == Init => TypeOK
  <1> SUFFICES ASSUME Init PROVE TypeOK
    OBVIOUS
  <1>1. DOMAIN chain \subseteq Block /\ chain \in [DOMAIN chain -> Neighbours]
    BY BlockAssumption DEF Init, Neighbours, Hash
  <1>2. /\ crashes \in 0 .. MaxCrashes /\ drops \in 0 .. MaxDrops
    BY BoundAssumption DEF Init
  <1> QED
    BY <1>1, <1>2, BlockAssumption
    DEF Init, TypeOK, Named, Hash, Pcs, AddStates

LEMMA TypeNext == TypeOK /\ [Next]_vars => TypeOK'
  <1> SUFFICES ASSUME TypeOK, [Next]_vars PROVE TypeOK'
    OBVIOUS
  <1> USE DEF TypeOK, Named, Pcs, AddStates
  <1>P. \A b \in Block : Parent[b] \in Hash
    BY ParentAssumption DEF Hash
  <1>1. ASSUME NEW b \in Block, AddRefused(b) PROVE TypeOK'
    BY <1>1 DEF AddRefused, Return, stored, walk, Hash
  <1>2. ASSUME NEW b \in Block, AddBlock(b) PROVE TypeOK'
    BY <1>2 DEF AddBlock, walk, Hash
  <1>3. CASE DropBlock
    <2>1. topHash \in Block /\ Parent[topHash] \in Hash
      BY <1>3, <1>P DEF DropBlock
    <2>2. drops' \in 0 .. MaxDrops
      BY <1>3, BoundAssumption DEF DropBlock
    <2> QED BY <1>3, <2>1, <2>2 DEF DropBlock, walk, Hash
  <1>4. CASE TopUnreadable \/ KeepParallel
    BY <1>4 DEF TopUnreadable, KeepParallel, Return, stored, walk, Hash
  <1>5. CASE SaveTopHash
    BY <1>5 DEF SaveTopHash, NewTop, Hash
  <1>6. CASE AppendToTop
    <2>1. block \in Block /\ Parent[block] \in Hash
      BY <1>6, <1>P DEF AppendToTop
    <2>2. DOMAIN chain' \subseteq Block /\ chain' \in [DOMAIN chain' -> Neighbours]
      BY <1>6, <2>1, AddToChainType DEF AppendToTop
    <2> QED BY <1>6, <2>2 DEF AppendToTop, Return, walk, Hash
  <1>7. CASE WalkPanics
    BY <1>7 DEF WalkPanics, stored, walk, Hash
  <1>8. CASE Walk
    BY <1>8, <1>P DEF Walk, stored, Hash
  <1>9. CASE RemoveOld
    <2>1. /\ DOMAIN chain' \subseteq Block
          /\ chain' \in [DOMAIN chain' -> Neighbours]
      BY <1>9, RemoveFromChainType DEF RemoveOld
    <2>2. remHash' \in Hash
      BY <1>9 DEF RemoveOld, CanRemoveFromChain, BlockInChain, Neighbours
    <2> QED BY <1>9, <2>1, <2>2 DEF RemoveOld
  <1>10. CASE RemoveFails \/ RemoveDone \/ AddFails \/ AddDone
    BY <1>10
    DEF RemoveFails, RemoveDone, AddFails, AddDone, Return, stored, walk, Hash
  <1>11. CASE AddNew
    <2>1. PICK b \in newBlocks : /\ AddToChain(b, mergePointHash)
                                 /\ mergePointHash' = b
                                 /\ newBlocks' = newBlocks \ {b}
      BY <1>11 DEF AddNew
    <2>2. /\ DOMAIN chain' \subseteq Block
          /\ chain' \in [DOMAIN chain' -> Neighbours]
      BY <2>1, AddToChainType
    <2> QED BY <1>11, <2>1, <2>2 DEF AddNew, Hash
  <1>12. CASE DeleteBlock
    BY <1>12 DEF DeleteBlock, walk, Hash
  <1>13. CASE Unlink
    <2>1. DOMAIN chain' \subseteq Block /\ chain' \in [DOMAIN chain' -> Neighbours]
      BY <1>13, RemoveFromChainType DEF Unlink
    <2> QED BY <1>13, <2>1 DEF Unlink, Return, walk, Hash
  <1>14. CASE Crash
    <2>1. crashes' \in 0 .. MaxCrashes
      BY <1>14, BoundAssumption DEF Crash
    <2> QED BY <1>14, <2>1 DEF Crash, LoseLocals, stored, Hash
  <1>15. CASE Restart
    BY <1>15 DEF Restart, LoseLocals, stored, Hash
  <1>16. CASE UNCHANGED vars
    BY <1>16 DEF vars, stored, locals, walk, Hash
  <1> QED
    BY <1>1, <1>2, <1>3, <1>4, <1>5, <1>6, <1>7, <1>8, <1>9, <1>10, <1>11,
       <1>12, <1>13, <1>14, <1>15, <1>16 DEF Next, Step

\* Every variable keeps its type: in particular a running operation never
\* writes a record for something that is not a block.
THEOREM TypeCorrect == Spec => []TypeOK
  BY TypeInit, TypeNext, PTL DEF Spec

(***************************************************************************)
(* The index is a doubly linked list, whatever happens                     *)
(***************************************************************************)

\* Adding a block that is not in the index after its previous block, when
\* that has no next one.
LEMMA AddToChainLinks ==
    ASSUME TypeOK, LinkedIndex, NEW hash \in Block, hash \notin DOMAIN chain,
           CanAddToChain(Parent[hash]), AddToChain(hash, Parent[hash])
    PROVE  LinkedIndex'
  <1> DEFINE prevHash == Parent[hash]
  <1>1. prevHash \in Hash /\ None \notin Block
    BY ParentAssumption, BlockAssumption DEF Hash
  <1>2. DOMAIN chain' = DOMAIN chain \cup {hash}
    BY AddToChainType, <1>1
  <1>3. prevHash # None => prevHash \in DOMAIN chain /\ chain[prevHash].next = None
    BY DEF CanAddToChain, BlockInChain
  <1>4. chain'[hash].prev = prevHash /\ chain'[hash].next = None
    BY DEF AddToChain
  <1>5. prevHash # None => /\ chain'[prevHash].next = hash
                           /\ chain'[prevHash].prev = chain[prevHash].prev
    BY <1>3, DOMAIN chain \subseteq Block DEF AddToChain, TypeOK, Neighbours
  <1>6. \A h \in DOMAIN chain : h # prevHash => chain'[h] = chain[h]
    BY DEF AddToChain
  <1> SUFFICES ASSUME NEW h \in DOMAIN chain'
               PROVE  /\ chain'[h].prev = Parent[h]
                      /\ chain'[h].prev # None =>
                            /\ chain'[h].prev \in DOMAIN chain'
                            /\ chain'[chain'[h].prev].next = h
                      /\ chain'[h].next # None =>
                            /\ chain'[h].next \in DOMAIN chain'
                            /\ chain'[chain'[h].next].prev = h
    BY DEF LinkedIndex, BlockInChain
  <1>7. CASE h = hash
    BY <1>2, <1>3, <1>4, <1>5, <1>7
  <1>8. CASE h # hash /\ h = prevHash
    BY <1>1, <1>2, <1>3, <1>4, <1>5, <1>6, <1>8
    DEF LinkedIndex, BlockInChain, TypeOK
  <1>9. CASE h # hash /\ h # prevHash
    <2>1. h \in DOMAIN chain /\ chain'[h] = chain[h] /\ h # None
      BY <1>1, <1>2, <1>6, <1>9 DEF TypeOK
    <2>2. ASSUME chain[h].prev # None
          PROVE  /\ chain[h].prev \in DOMAIN chain'
                 /\ chain'[chain[h].prev].next = h
      <3>1. chain[h].prev \in DOMAIN chain /\ chain[chain[h].prev].next = h
        BY <2>1, <2>2 DEF LinkedIndex, BlockInChain
      <3>2. chain[h].prev # prevHash
        BY <1>1, <1>3, <2>1, <3>1 DEF TypeOK
      <3> QED BY <1>2, <1>6, <3>1, <3>2
    <2>3. ASSUME chain[h].next # None
          PROVE  /\ chain[h].next \in DOMAIN chain'
                 /\ chain'[chain[h].next].prev = h
      <3>1. chain[h].next \in DOMAIN chain /\ chain[chain[h].next].prev = h
        BY <2>1, <2>3 DEF LinkedIndex, BlockInChain
      <3>2. chain[h].next # None
        BY <2>3
      <3>3. chain'[chain[h].next].prev = chain[chain[h].next].prev
        BY <1>5, <1>6, <3>1, <3>2
      <3> QED BY <1>2, <3>1, <3>3
    <2> QED BY <2>1, <2>2, <2>3 DEF LinkedIndex
  <1> QED BY <1>7, <1>8, <1>9

\* Taking out the last block clears the next hash of the one before it.
LEMMA RemoveFromChainLinks ==
    ASSUME TypeOK, LinkedIndex, NEW hash,
           CanRemoveFromChain(hash), RemoveFromChain(hash)
    PROVE  LinkedIndex'
  <1>1. DOMAIN chain' = DOMAIN chain \ {hash}
    BY RemoveFromChainType
  <1>2. hash \in DOMAIN chain /\ chain[hash].next = None
    BY DEF CanRemoveFromChain, BlockInChain
  <1>3. \A h \in DOMAIN chain' :
           /\ h # chain[hash].prev => chain'[h] = chain[h]
           /\ h = chain[hash].prev => /\ chain'[h].prev = chain[h].prev
                                      /\ chain'[h].next = None
    BY DEF RemoveFromChain, TypeOK, Neighbours
  <1> SUFFICES ASSUME NEW h \in DOMAIN chain'
               PROVE  /\ chain'[h].prev = Parent[h]
                      /\ chain'[h].prev # None =>
                            /\ chain'[h].prev \in DOMAIN chain'
                            /\ chain'[chain'[h].prev].next = h
                      /\ chain'[h].next # None =>
                            /\ chain'[h].next \in DOMAIN chain'
                            /\ chain'[chain'[h].next].prev = h
    BY DEF LinkedIndex, BlockInChain
  <1>4. h \in DOMAIN chain /\ h # hash
    BY <1>1
  <1>5. None \notin DOMAIN chain
    BY BlockAssumption DEF TypeOK
  <1>6. chain'[h].prev = chain[h].prev
    BY <1>3
  <1>7. ASSUME chain[h].prev # None
        PROVE  /\ chain'[h].prev \in DOMAIN chain'
               /\ chain'[chain'[h].prev].next = h
    <2> DEFINE p == chain[h].prev
    <2>1. p \in DOMAIN chain /\ chain[p].next = h /\ p # hash
      BY <1>2, <1>4, <1>5, <1>7 DEF LinkedIndex, BlockInChain
    <2>2. p # chain[hash].prev
      BY <1>2, <1>4, <1>7, <2>1 DEF LinkedIndex, BlockInChain
    <2>3. p \in DOMAIN chain' /\ chain'[p].next = h
      BY <1>1, <1>3, <2>1, <2>2
    <2> QED BY <1>6, <2>3
  <1>8. ASSUME chain'[h].next # None
        PROVE  /\ chain'[h].next \in DOMAIN chain'
               /\ chain'[chain'[h].next].prev = h
    <2> DEFINE n == chain[h].next
    <2>1. h # chain[hash].prev /\ chain'[h].next = n /\ n # None
      BY <1>3, <1>8
    <2>2. n \in DOMAIN chain /\ chain[n].prev = h /\ n # hash
      BY <1>4, <2>1 DEF LinkedIndex, BlockInChain
    <2>3. n \in DOMAIN chain' /\ chain'[n].prev = h
      BY <1>1, <1>3, <2>2
    <2> QED BY <2>1, <2>3
  <1>9. chain[h].prev = Parent[h]
    BY <1>4 DEF LinkedIndex
  <1> QED BY <1>6, <1>7, <1>8, <1>9
\* The first block above a merge point is its child.
LEMMA LowestIsChild ==
    ASSUME NEW top \in Block, NEW merge \in Hash,
           merge # None => merge \in Line[top],
           NEW b \in Line[top] \ Branch(merge),
           \A c \in Line[top] \ Branch(merge) : Height[b] <= Height[c]
    PROVE  Parent[b] = merge
  <1>1. /\ b \in Block /\ b \in Line[top] /\ b \notin Branch(merge)
        /\ Genesis \in Line[top] /\ Genesis \in Line[b]
        /\ Height[b] \in Nat /\ Height[Genesis] = 0
    BY LineEnds, LineAssumption, ParentAssumption, BlockAssumption
  <1>2. CASE merge = None
    <2>1. Height[b] <= Height[Genesis]
      BY <1>1, <1>2 DEF Branch
    <2>2. b = Genesis
      BY <1>1, <2>1, LineAssumption
    <2> QED BY <1>2, <2>2, ParentAssumption, BlockAssumption
  <1>3. CASE merge # None
    <2>1. /\ merge \in Block /\ merge \in Line[top]
          /\ Branch(merge) = Line[merge] /\ Genesis \in Line[merge]
      BY <1>3, LineAssumption DEF Branch, Hash
    <2>2. b # Genesis
      BY <1>1, <2>1
    <2> DEFINE p == Parent[b]
    <2>3. /\ p \in Block
          /\ Height[p] \in Nat /\ Height[b] = Height[p] + 1
          /\ Line[b] = Line[p] \cup {b}
      BY <1>1, <2>2, ParentFacts
    <2>4. p \in Line[p] /\ p \in Line[b] /\ p \in Line[top]
      BY <1>1, <2>3, LineEnds, LineAssumption
    <2>5. p \in Line[merge]
      BY <1>1, <2>1, <2>3, <2>4
    <2>6. merge \in Line[b] /\ merge # b
      BY <1>1, <2>1, LineAssumption, LineEnds
    <2>7. merge \in Line[p]
      BY <2>3, <2>6
    <2> QED BY <2>1, <2>3, <2>5, <2>7, LineAntisymmetric
  <1> QED BY <1>2, <1>3
\* What the loops of UpdateChainOnNewBranch know about the branch of the new
\* block: the blocks collected are those above the cursor, and later those
\* above the merge point, and none of them is in the index.
WalkInv ==
    /\ pc \in {"saveTop", "append", "walk"} => block # Genesis
    /\ pc = "walk" =>
          /\ cursor \in Line[block]
          /\ mergePointHash = None
          /\ newBlocks = Line[block] \ Line[cursor]
    /\ pc \in {"remove", "add"} =>
          /\ mergePointHash # None => mergePointHash \in Line[block]
          /\ newBlocks = Line[block] \ Branch(mergePointHash)
    /\ pc \in {"walk", "remove", "add"} => newBlocks \cap DOMAIN chain = {}

LinkInv == TypeOK /\ LinkedIndex /\ WalkInv

LEMMA LinkInit == Init => LinkInv
  <1> SUFFICES ASSUME Init PROVE LinkInv
    OBVIOUS
  <1>1. LinkedIndex
    BY ParentAssumption, BlockAssumption DEF Init, LinkedIndex
  <1>2. WalkInv
    BY DEF Init, WalkInv
  <1> QED BY <1>1, <1>2, TypeInit DEF LinkInv

\* A step that leaves the index alone leaves it linked.
LEMMA SameIndexLinks ==
    ASSUME LinkedIndex, UNCHANGED chain PROVE LinkedIndex'
  BY DEF LinkedIndex, BlockInChain

\* A block that has a record cannot be appended to its previous block again.
LEMMA AppendedOnce ==
    ASSUME TypeOK, LinkedIndex, NEW b \in Block, b # Genesis,
           CanAddToChain(Parent[b])
    PROVE  b \notin DOMAIN chain
  <1> SUFFICES ASSUME b \in DOMAIN chain PROVE FALSE
    OBVIOUS
  <1>1. chain[b].prev = Parent[b] /\ Parent[b] # None /\ b # None
    BY ParentFacts, BlockAssumption DEF LinkedIndex
  <1>2. chain[Parent[b]].next = b
    BY <1>1 DEF LinkedIndex
  <1> QED BY <1>1, <1>2 DEF CanAddToChain

LEMMA LinkNext == LinkInv /\ [Next]_vars => LinkInv'
  <1> SUFFICES ASSUME LinkInv, [Next]_vars PROVE LinkInv'
    OBVIOUS
  <1>T. TypeOK' /\ TypeOK /\ Named
    BY TypeNext DEF LinkInv, TypeOK
  <1> SUFFICES LinkedIndex' /\ WalkInv'
    BY <1>T DEF LinkInv
  <1>L. LinkedIndex /\ WalkInv
    BY DEF LinkInv
  <1>1. ASSUME NEW b \in Block, AddRefused(b) PROVE LinkedIndex' /\ WalkInv'
    BY <1>1, <1>L, SameIndexLinks DEF AddRefused, Return, stored, WalkInv
  <1>2. ASSUME NEW b \in Block, AddBlock(b) PROVE LinkedIndex' /\ WalkInv'
    <2>1. b # Genesis
      BY <1>2, <1>T, ParentAssumption, BlockAssumption DEF AddBlock, TypeOK
    <2> QED BY <1>2, <2>1, <1>L, SameIndexLinks DEF AddBlock, WalkInv
  <1>3. CASE DropBlock
    BY <1>3, <1>L, SameIndexLinks DEF DropBlock, WalkInv
  <1>4. CASE TopUnreadable \/ KeepParallel
    BY <1>4, <1>L, SameIndexLinks
    DEF TopUnreadable, KeepParallel, Return, stored, WalkInv
  <1>5. CASE SaveTopHash
    <2>1. block \in Block /\ block \in Line[block]
      BY <1>5, <1>T, LineEnds DEF SaveTopHash, Named
    <2> QED BY <1>5, <2>1, <1>L, SameIndexLinks DEF SaveTopHash, NewTop, WalkInv
  <1>6. CASE AppendToTop
    <2>1. WalkInv'
      BY <1>6 DEF AppendToTop, Return, WalkInv
    <2>2. CASE CanAddToChain(Parent[block])
      <3>1. block \in Block /\ block # Genesis
        BY <1>6, <1>T, <1>L DEF AppendToTop, Named, WalkInv
      <3>2. block \notin DOMAIN chain
        BY <3>1, <2>2, <1>T, <1>L, AppendedOnce
      <3>3. AddToChain(block, Parent[block])
        BY <1>6, <2>2 DEF AppendToTop
      <3> QED BY <2>1, <2>2, <3>1, <3>2, <3>3, <1>T, <1>L, AddToChainLinks
    <2>3. CASE ~CanAddToChain(Parent[block])
      BY <1>6, <2>1, <2>3, <1>L, SameIndexLinks DEF AppendToTop
    <2> QED BY <2>2, <2>3
  <1>7. CASE WalkPanics
    BY <1>7, <1>L, SameIndexLinks DEF WalkPanics, stored, WalkInv
  <1>8. CASE Walk
    <2>1. LinkedIndex'
      BY <1>8, <1>L, SameIndexLinks DEF Walk, stored
    <2>2. /\ block \in Block /\ cursor \in Block /\ cursor \in Line[block]
          /\ block # Genesis /\ mergePointHash = None
          /\ newBlocks = Line[block] \ Line[cursor]
          /\ newBlocks \cap DOMAIN chain = {}
          /\ cursor # None
      BY <1>8, <1>T, <1>L, BlockAssumption DEF Walk, Named, WalkInv
    <2>3. CASE BlockInChain(cursor)
      BY <1>8, <2>1, <2>2, <2>3 DEF Walk, WalkInv, stored, Branch
    <2>4. CASE ~BlockInChain(cursor) /\ cursor = Genesis
      <3>1. Parent[cursor] = None /\ Line[cursor] = {cursor}
        BY <2>4, ParentAssumption, LineAssumption, BlockAssumption
      <3>2. /\ pc' = "remove" /\ mergePointHash' = None
            /\ newBlocks' = Line[block] /\ block' = block
            /\ DOMAIN chain' = DOMAIN chain
        BY <1>8, <2>2, <2>4, <3>1 DEF Walk, stored
      <3>3. newBlocks' \cap DOMAIN chain' = {}
        BY <2>2, <2>4, <3>1, <3>2 DEF BlockInChain
      <3> QED BY <2>1, <3>2, <3>3 DEF WalkInv, Branch
    <2>5. CASE ~BlockInChain(cursor) /\ cursor # Genesis
      <3>1. /\ Parent[cursor] \in Block /\ Parent[cursor] # None
            /\ Line[cursor] = Line[Parent[cursor]] \cup {cursor}
            /\ cursor \notin Line[Parent[cursor]]
        BY <2>2, <2>5, ParentFacts
      <3>2. /\ pc' = "walk" /\ mergePointHash' = None /\ block' = block
            /\ cursor' = Parent[cursor]
            /\ newBlocks' = newBlocks \cup {cursor}
            /\ DOMAIN chain' = DOMAIN chain
        BY <1>8, <2>2, <2>5, <3>1 DEF Walk, stored
      <3>3. newBlocks' = Line[block] \ Line[Parent[cursor]]
        BY <2>2, <3>1, <3>2
      <3>4. Parent[cursor] \in Line[block]
        BY <2>2, <3>1, LineEnds, LineAssumption
      <3>5. newBlocks' \cap DOMAIN chain' = {}
        BY <2>2, <2>5, <3>2 DEF BlockInChain
      <3> QED BY <2>1, <2>2, <3>2, <3>3, <3>4, <3>5 DEF WalkInv
    <2> QED BY <2>3, <2>4, <2>5
  <1>9. CASE RemoveOld
    <2>1. LinkedIndex'
      BY <1>9, <1>T, <1>L, RemoveFromChainLinks DEF RemoveOld
    <2>2. DOMAIN chain' \subseteq DOMAIN chain
      BY <1>9, <1>T, RemoveFromChainType DEF RemoveOld
    <2> QED BY <1>9, <2>1, <2>2, <1>L DEF RemoveOld, WalkInv
  <1>10. CASE RemoveFails \/ AddFails \/ AddDone
    BY <1>10, <1>L, SameIndexLinks
    DEF RemoveFails, AddFails, AddDone, Return, stored, WalkInv
  <1>11. CASE RemoveDone
    BY <1>11, <1>L, SameIndexLinks DEF RemoveDone, stored, walk, WalkInv
  <1>12. CASE AddNew
    <2>1. PICK b \in newBlocks : /\ NextToAdd(b)
                                 /\ AddToChain(b, mergePointHash)
                                 /\ mergePointHash' = b
                                 /\ newBlocks' = newBlocks \ {b}
      BY <1>12 DEF AddNew
    <2>2. /\ block \in Block /\ mergePointHash \in Hash
          /\ mergePointHash # None => mergePointHash \in Line[block]
          /\ newBlocks = Line[block] \ Branch(mergePointHash)
          /\ newBlocks \cap DOMAIN chain = {}
      BY <1>12, <1>T, <1>L DEF AddNew, Named, WalkInv, TypeOK
    <2>3. b \in Block /\ b \in Line[block] /\ b # None
      BY <2>1, <2>2, LineEnds, BlockAssumption
    <2>4. Parent[b] = mergePointHash
      BY <2>1, <2>2, <2>3, LowestIsChild DEF NextToAdd
    <2>5. LinkedIndex'
      BY <1>12, <2>1, <2>2, <2>3, <2>4, <1>T, <1>L, AddToChainLinks DEF AddNew
    <2>6. Line[b] = Branch(mergePointHash) \cup {b}
      BY <2>3, <2>4, ParentFacts, LineAssumption, ParentAssumption DEF Branch
    <2>7. newBlocks' = Line[block] \ Branch(mergePointHash')
      BY <2>1, <2>2, <2>3, <2>6 DEF Branch
    <2>8. DOMAIN chain' = DOMAIN chain \cup {b}
      BY <2>1, <2>2, <2>3, <1>T, AddToChainType
    <2> QED
      BY <1>12, <2>1, <2>2, <2>3, <2>5, <2>7, <2>8 DEF AddNew, WalkInv
  <1>13. CASE DeleteBlock
    BY <1>13, <1>L, SameIndexLinks DEF DeleteBlock, WalkInv
  <1>14. CASE Unlink
    <2>1. LinkedIndex'
      BY <1>14, <1>T, <1>L, RemoveFromChainLinks, SameIndexLinks DEF Unlink
    <2> QED BY <1>14, <2>1 DEF Unlink, Return, WalkInv
  <1>15. CASE Crash \/ Restart
    BY <1>15, <1>L, SameIndexLinks
    DEF Crash, Restart, LoseLocals, stored, WalkInv
  <1>16. CASE UNCHANGED vars
    BY <1>16, <1>L, SameIndexLinks DEF vars, stored, locals, walk, WalkInv
  <1> QED
    BY <1>1, <1>2, <1>3, <1>4, <1>5, <1>6, <1>7, <1>8, <1>9, <1>10, <1>11,
       <1>12, <1>13, <1>14, <1>15, <1>16 DEF Next, Step

\* However many blocks arrive, in whatever order, however often the process
\* dies and the operator drops blocks, the index stays a doubly linked list
\* whose previous links are the blocks' own.
THEOREM IndexStaysLinked == Spec => []LinkedIndex
  <1>1. LinkInv => LinkedIndex
    BY DEF LinkInv
  <1> QED BY <1>1, LinkInit, LinkNext, PTL DEF Spec

(***************************************************************************)
(* Without crashes and with at most one drop, the index is the main chain  *)
(***************************************************************************)

\* The stored blocks form a tree, and until the operator drops a block none
\* of them is higher than the top.
TreeInv ==
    /\ \A b \in blocks : Parent[b] \in blocks \cup {None}
    /\ topHash \in blocks \cup {None}
    /\ pc \in {"saveTop", "delete"} => block \in blocks
    /\ pc = "delete" => \A b \in blocks : Parent[b] # block
    /\ drops = 0 =>
          /\ topHash \in blocks
          /\ \A b \in blocks :
                (pc = "saveTop" => b # block) => Height[b] <= Height[topHash]

\* What the index holds at every step of an operation.
IndexInv ==
    /\ pc \in {"idle", "saveTop"} => DOMAIN chain = Branch(topHash)
    /\ pc \in {"append", "walk"} => /\ lastHash \in Block
                                    /\ DOMAIN chain = Line[lastHash]
    /\ pc \in {"append", "walk", "remove", "add"} => topHash = block
    /\ pc = "append" => lastHash = Parent[block]
    /\ pc = "walk" => cursor \in blocks
    /\ pc = "remove" => /\ remHash \in Block
                        /\ mergePointHash \in Line[remHash]
                        /\ DOMAIN chain = Line[remHash]
    /\ pc = "add" => /\ mergePointHash \in Block
                     /\ DOMAIN chain = Line[mergePointHash]
    /\ pc \in {"delete", "unlink"} => /\ topHash = Parent[block]
                                      /\ DOMAIN chain = Line[block]
                                      /\ drops > 0
    /\ pc # "panic" /\ ~chainErr

MainInv == LinkInv /\ TreeInv /\ IndexInv

\* When the index is the line of a block, that block is its last one and can
\* be extended, or removed if it is not the genesis block.
LEMMA LastInIndex ==
    ASSUME TypeOK, LinkedIndex, NEW t \in Block, DOMAIN chain = Line[t]
    PROVE  /\ t \in DOMAIN chain
           /\ CanAddToChain(t)
           /\ CanRemoveFromChain(t)
           /\ chain[t].prev = Parent[t]
  <1>1. t \in DOMAIN chain
    BY LineEnds
  <1>2. chain[t].next = None
    <2> SUFFICES ASSUME chain[t].next # None PROVE FALSE
      OBVIOUS
    <2> DEFINE n == chain[t].next
    <2>1. n \in Line[t] /\ n \in Block /\ chain[n].prev = t
      BY <1>1, LineEnds DEF LinkedIndex, BlockInChain
    <2>2. Parent[n] = t /\ n # Genesis
      BY <2>1, ParentAssumption, BlockAssumption DEF LinkedIndex
    <2>3. Height[n] = Height[t] + 1 /\ Height[t] \in Nat /\ Height[n] <= Height[t]
      BY <2>1, <2>2, ParentFacts, LineAssumption
    <2> QED BY <2>3
  <1> QED
    BY <1>1, <1>2
    DEF CanAddToChain, CanRemoveFromChain, BlockInChain, LinkedIndex

\* A line without its end is the branch under the end's previous block.
LEMMA BranchBelow ==
    ASSUME NEW b \in Block
    PROVE  Line[b] \ {b} = Branch(Parent[b])
  <1>1. CASE b = Genesis
    BY <1>1, ParentAssumption, LineAssumption DEF Branch
  <1>2. CASE b # Genesis
    BY <1>2, ParentFacts DEF Branch
  <1> QED BY <1>1, <1>2

LEMMA MainInit == Init => MainInv
  <1> SUFFICES ASSUME Init PROVE MainInv
    OBVIOUS
  <1>1. TreeInv
    BY ParentAssumption, BlockAssumption DEF Init, TreeInv
  <1>2. IndexInv
    BY LineAssumption, BlockAssumption DEF Init, IndexInv, Branch
  <1> QED BY <1>1, <1>2, LinkInit DEF MainInv

LEMMA TreeNext ==
    ASSUME MaxCrashes = 0, MaxDrops <= 1, MainInv, [Next]_vars
    PROVE  TreeInv'
  <1>T. /\ TypeOK /\ Named /\ TreeInv /\ IndexInv /\ WalkInv
        /\ crashes = 0 /\ drops \in {0, 1} /\ MaxCrashes \in Nat
    BY BoundAssumption DEF MainInv, LinkInv, TypeOK
  <1>H. \A b \in Block : Height[b] \in Nat
    BY ParentAssumption
  <1>1. ASSUME NEW b \in Block, AddRefused(b) PROVE TreeInv'
    BY <1>1, <1>T DEF AddRefused, Return, stored, TreeInv
  <1>2. ASSUME NEW b \in Block, AddBlock(b) PROVE TreeInv'
    BY <1>2, <1>T DEF AddBlock, TreeInv
  <1>3. CASE DropBlock
    <2>1. /\ drops = 0 /\ drops' = 1 /\ topHash \in blocks /\ pc = "idle"
          /\ topHash \in Block /\ blocks' = blocks /\ block' = topHash
          /\ topHash' = Parent[topHash] /\ pc' = "delete"
      BY <1>3, <1>T, BoundAssumption DEF DropBlock, TypeOK
    <2>2. ASSUME NEW b \in blocks PROVE Parent[b] # topHash
      <3>1. b \in Block /\ Height[b] <= Height[topHash]
        BY <2>1, <1>T DEF TreeInv, TypeOK
      <3>2. CASE b = Genesis
        BY <3>2, <2>1, ParentAssumption, BlockAssumption
      <3>3. CASE b # Genesis
        BY <3>1, <3>3, <2>1, ParentFacts
      <3> QED BY <3>2, <3>3
    <2> QED BY <2>1, <2>2, <1>T DEF TreeInv
  <1>4. CASE TopUnreadable
    <2>1. drops # 0
      BY <1>4, <1>T DEF TopUnreadable, TreeInv
    <2> QED BY <1>4, <2>1, <1>T DEF TopUnreadable, Return, stored, TreeInv
  <1>5. CASE KeepParallel
    BY <1>5, <1>T DEF KeepParallel, Return, stored, TreeInv
  <1>6. CASE SaveTopHash
    <2>1. /\ topHash \in Block /\ block \in Block /\ block \in blocks
          /\ Height[block] > Height[topHash]
          /\ topHash' = block /\ blocks' = blocks /\ pc = "saveTop"
          /\ pc' \in {"append", "walk"} /\ drops' = drops
      BY <1>6, <1>T DEF SaveTopHash, NewTop, TreeInv, TypeOK, Named
    <2>2. ASSUME NEW b \in blocks, drops = 0
          PROVE  Height[b] <= Height[block]
      <3>1. b \in Block /\ (b # block => Height[b] <= Height[topHash])
        BY <2>1, <2>2, <1>T DEF TreeInv, TypeOK
      <3> QED BY <2>1, <3>1, <1>H
    <2> QED BY <2>1, <2>2, <1>T DEF TreeInv
  <1>7. CASE AppendToTop \/ Walk \/ RemoveOld \/ RemoveFails \/ RemoveDone
    BY <1>7, <1>T
    DEF AppendToTop, Walk, RemoveOld, RemoveFails, RemoveDone, Return,
        stored, TreeInv
  <1>8. CASE AddNew \/ AddFails \/ AddDone \/ WalkPanics
    BY <1>8, <1>T
    DEF AddNew, AddFails, AddDone, WalkPanics, Return, stored, TreeInv
  <1>9. CASE DeleteBlock
    <2>1. /\ blocks' = blocks \ {block} /\ topHash' = topHash
          /\ topHash = Parent[block] /\ drops' = drops /\ drops > 0
          /\ block \in Block /\ block \in blocks /\ pc' = "unlink"
      BY <1>9, <1>T DEF DeleteBlock, Named, IndexInv, TreeInv
    <2>2. \A b \in blocks : Parent[b] # block
      BY <1>9, <1>T DEF DeleteBlock, TreeInv
    <2> QED BY <2>1, <2>2, <1>T DEF TreeInv
  <1>10. CASE Unlink
    BY <1>10, <1>T DEF Unlink, Return, TreeInv
  <1>11. CASE Crash \/ Restart
    BY <1>11, <1>T DEF Crash, Restart, IndexInv
  <1>12. CASE UNCHANGED vars
    BY <1>12, <1>T DEF vars, stored, locals, TreeInv
  <1> QED
    BY <1>1, <1>2, <1>3, <1>4, <1>5, <1>6, <1>7, <1>8, <1>9, <1>10, <1>11,
       <1>12 DEF Next, Step
LEMMA IndexNext ==
    ASSUME MaxCrashes = 0, MaxDrops <= 1, MainInv, [Next]_vars
    PROVE  IndexInv'
  <1>T. /\ TypeOK /\ Named /\ TreeInv /\ IndexInv /\ WalkInv /\ LinkedIndex
        /\ crashes = 0 /\ MaxCrashes \in Nat /\ drops \in Nat
    BY BoundAssumption DEF MainInv, LinkInv, TypeOK
  <1>1. ASSUME NEW b \in Block, AddRefused(b) PROVE IndexInv'
    BY <1>1, <1>T DEF AddRefused, Return, stored, IndexInv
  <1>2. ASSUME NEW b \in Block, AddBlock(b) PROVE IndexInv'
    BY <1>2, <1>T DEF AddBlock, IndexInv
  <1>3. CASE DropBlock
    <2>1. topHash \in Block /\ Branch(topHash) = Line[topHash]
      BY <1>3, <1>T, BlockAssumption DEF DropBlock, TypeOK, Branch
    <2> QED BY <1>3, <2>1, <1>T DEF DropBlock, IndexInv
  <1>4. CASE TopUnreadable \/ KeepParallel
    BY <1>4, <1>T DEF TopUnreadable, KeepParallel, Return, stored, IndexInv
  <1>5. CASE SaveTopHash
    <2>1. /\ topHash \in Block /\ Branch(topHash) = Line[topHash]
          /\ block \in blocks
      BY <1>5, <1>T, BlockAssumption DEF SaveTopHash, TypeOK, TreeInv, Branch
    <2> QED BY <1>5, <2>1, <1>T DEF SaveTopHash, NewTop, IndexInv
  <1>6. CASE AppendToTop
    <2>1. /\ block \in Block /\ block # Genesis /\ topHash = block
          /\ Parent[block] \in Block /\ DOMAIN chain = Line[Parent[block]]
      BY <1>6, <1>T DEF AppendToTop, Named, WalkInv, IndexInv
    <2>2. CanAddToChain(Parent[block])
      BY <2>1, <1>T, LastInIndex
    <2>3. DOMAIN chain' = Line[Parent[block]] \cup {block}
      BY <1>6, <2>1, <2>2, <1>T, AddToChainType DEF AppendToTop, Hash
    <2>4. DOMAIN chain' = Branch(topHash)
      BY <2>1, <2>3, ParentFacts, BlockAssumption DEF Branch
    <2> QED
      BY <1>6, <2>2, <2>4 DEF AppendToTop, Return, IndexInv
  <1>7. CASE WalkPanics
    BY <1>7, <1>T DEF WalkPanics, IndexInv
  <1>8. CASE Walk
    <2>1. /\ cursor \in Block /\ cursor \in Line[block] /\ topHash = block
          /\ cursor \in blocks /\ lastHash \in Block
          /\ DOMAIN chain = Line[lastHash] /\ UNCHANGED <<stored, block, lastHash>>
          /\ remHash' = lastHash /\ ~chainErr' /\ drops' = drops
      BY <1>8, <1>T DEF Walk, Named, WalkInv, IndexInv
    <2>2. CASE BlockInChain(cursor)
      BY <1>8, <2>1, <2>2 DEF Walk, IndexInv, BlockInChain, stored
    <2>3. CASE ~BlockInChain(cursor)
      <3>1. cursor # Genesis
        BY <2>1, <2>3, LineAssumption DEF BlockInChain
      <3>2. Parent[cursor] \in blocks /\ Parent[cursor] # None
        BY <2>1, <3>1, <1>T, ParentFacts DEF TreeInv
      <3>3. pc' = "walk" /\ cursor' = Parent[cursor]
        BY <1>8, <2>3, <3>2 DEF Walk
      <3> QED BY <2>1, <3>2, <3>3 DEF IndexInv, stored
    <2> QED BY <2>2, <2>3
  <1>9. ASSUME pc = "remove", remHash # mergePointHash
        PROVE  /\ remHash \in Block /\ remHash # Genesis
               /\ Parent[remHash] \in Block
               /\ mergePointHash \in Line[Parent[remHash]]
               /\ Line[remHash] \ {remHash} = Line[Parent[remHash]]
               /\ CanRemoveFromChain(remHash)
               /\ chain[remHash].prev = Parent[remHash]
    <2>1. /\ remHash \in Block /\ mergePointHash \in Line[remHash]
          /\ DOMAIN chain = Line[remHash]
      BY <1>9, <1>T DEF IndexInv
    <2>2. remHash # Genesis
      BY <1>9, <2>1, LineAssumption
    <2>3. CanRemoveFromChain(remHash) /\ chain[remHash].prev = Parent[remHash]
      BY <2>1, <1>T, LastInIndex
    <2> QED BY <1>9, <2>1, <2>2, <2>3, ParentFacts
  <1>10. CASE RemoveOld
    <2>1. DOMAIN chain' = DOMAIN chain \ {remHash}
      BY <1>10, <1>T, RemoveFromChainType DEF RemoveOld
    <2>2. /\ remHash' \in Block /\ mergePointHash' \in Line[remHash']
          /\ DOMAIN chain' = Line[remHash']
      BY <1>9, <1>10, <2>1, <1>T DEF RemoveOld, IndexInv
    <2> QED BY <1>10, <2>2, <1>T DEF RemoveOld, IndexInv
  <1>11. CASE RemoveFails
    BY <1>9, <1>11 DEF RemoveFails
  <1>12. CASE RemoveDone
    BY <1>12, <1>T DEF RemoveDone, stored, walk, IndexInv
  <1>13. CASE AddNew
    <2>1. PICK b \in newBlocks : /\ NextToAdd(b)
                                 /\ AddToChain(b, mergePointHash)
                                 /\ mergePointHash' = b
      BY <1>13 DEF AddNew
    <2>2. /\ block \in Block /\ mergePointHash \in Block
          /\ mergePointHash # None /\ mergePointHash \in Line[block]
          /\ newBlocks = Line[block] \ Line[mergePointHash]
          /\ DOMAIN chain = Line[mergePointHash]
      BY <1>13, <1>T, BlockAssumption
      DEF AddNew, Named, WalkInv, IndexInv, Branch
    <2>3. b \in Block
      BY <2>1, <2>2, LineEnds
    <2>4. Parent[b] = mergePointHash
      BY <2>1, <2>2, LowestIsChild DEF NextToAdd, Hash, Branch
    <2>5. b # Genesis
      BY <2>2, <2>4, ParentAssumption, BlockAssumption
    <2>6. DOMAIN chain' = Line[b]
      <3>1. DOMAIN chain' = DOMAIN chain \cup {b}
        BY <2>1, <2>2, <2>3, <1>T, AddToChainType DEF Hash
      <3>2. Line[b] = Line[mergePointHash] \cup {b}
        BY <2>3, <2>4, <2>5, ParentFacts
      <3> QED BY <2>2, <3>1, <3>2
    <2> QED BY <1>13, <2>1, <2>3, <2>6, <1>T DEF AddNew, IndexInv
  <1>14. CASE AddFails
    <2>1. mergePointHash \in Block /\ DOMAIN chain = Line[mergePointHash]
      BY <1>14, <1>T DEF AddFails, IndexInv
    <2> QED BY <1>14, <2>1, <1>T, LastInIndex DEF AddFails
  <1>15. CASE AddDone
    <2>1. /\ block \in Block /\ mergePointHash \in Block /\ topHash = block
          /\ mergePointHash # None /\ mergePointHash \in Line[block]
          /\ newBlocks = Line[block] \ Line[mergePointHash]
          /\ newBlocks = {}
          /\ DOMAIN chain = Line[mergePointHash]
      BY <1>15, <1>T, BlockAssumption
      DEF AddDone, Named, WalkInv, IndexInv, Branch
    <2>2. Line[mergePointHash] = Line[block]
      BY <2>1, LineAssumption, ZenonT(40)
    <2>3. DOMAIN chain = Branch(topHash)
      BY <2>1, <2>2, BlockAssumption DEF Branch
    <2> QED BY <1>15, <2>3 DEF AddDone, Return, stored, IndexInv
  <1>16. CASE DeleteBlock
    BY <1>16, <1>T DEF DeleteBlock, IndexInv
  <1>17. CASE Unlink
    <2>1. /\ block \in Block /\ DOMAIN chain = Line[block]
          /\ topHash = Parent[block]
      BY <1>17, <1>T DEF Unlink, Named, IndexInv
    <2>2. CanRemoveFromChain(block)
      BY <2>1, <1>T, LastInIndex
    <2>3. DOMAIN chain' = DOMAIN chain \ {block}
      BY <1>17, <2>2, <1>T, RemoveFromChainType DEF Unlink
    <2>4. DOMAIN chain' = Branch(topHash)
      BY <2>1, <2>3, BranchBelow
    <2> QED BY <1>17, <2>2, <2>4 DEF Unlink, Return, IndexInv
  <1>18. CASE Crash \/ Restart
    BY <1>18, <1>T DEF Crash, Restart, IndexInv
  <1>19. CASE UNCHANGED vars
    BY <1>19, <1>T DEF vars, stored, locals, walk, IndexInv
  <1> QED
    BY <1>1, <1>2, <1>3, <1>4, <1>5, <1>6, <1>7, <1>8, <1>10, <1>11, <1>12,
       <1>13, <1>14, <1>15, <1>16, <1>17, <1>18, <1>19 DEF Next, Step

LEMMA MainNext ==
    ASSUME MaxCrashes = 0, MaxDrops <= 1
    PROVE  MainInv /\ [Next]_vars => MainInv'
  BY LinkNext, TreeNext, IndexNext DEF MainInv

\* A process that is not killed inside an operation, and whose operator drops
\* at most one block, keeps the index exactly the main chain: every branch
\* replacement ends with the records of the new branch and no others.
THEOREM IndexCorrect ==
    ASSUME MaxCrashes = 0, MaxDrops <= 1
    PROVE  Spec => []IndexIsMainChain
  <1>1. MainInv => IndexIsMainChain
    BY DEF MainInv, IndexInv, IndexIsMainChain
  <1>2. MainInv /\ [Next]_vars => MainInv'
    BY MainNext
  <1> QED BY <1>1, <1>2, MainInit, PTL DEF Spec

\* Under the same conditions no index error is ever logged and ignored, and
\* the iterator never meets a block that is not stored.
THEOREM NoErrorSwallowed ==
    ASSUME MaxCrashes = 0, MaxDrops <= 1
    PROVE  Spec => []NothingSwallowed
  <1>1. MainInv => NothingSwallowed
    BY DEF MainInv, IndexInv, NothingSwallowed
  <1>2. MainInv /\ [Next]_vars => MainInv'
    BY MainNext
  <1> QED BY <1>1, <1>2, MainInit, PTL DEF Spec

\* Under the same conditions the previous block of every stored block is
\* stored.
THEOREM StoredTree ==
    ASSUME MaxCrashes = 0, MaxDrops <= 1
    PROVE  Spec => []ParentsStored
  <1>1. MainInv => ParentsStored
    BY DEF MainInv, TreeInv, ParentsStored
  <1>2. MainInv /\ [Next]_vars => MainInv'
    BY MainNext
  <1> QED BY <1>1, <1>2, MainInit, PTL DEF Spec

\* While the operator drops nothing, the top is the highest stored block.
THEOREM LongestBranchOnTop ==
    ASSUME MaxCrashes = 0, MaxDrops <= 1
    PROVE  Spec => []TopIsHighest
  <1>1. MainInv => TopIsHighest
    BY DEF TopIsHighest, MainInv, TreeInv
  <1>2. MainInv /\ [Next]_vars => MainInv'
    BY MainNext, BoundAssumption
  <1> QED BY <1>1, <1>2, MainInit, PTL DEF Spec

(***************************************************************************)
(* The store implements MainChain                                          *)
(***************************************************************************)

\* What the refinement mapping needs about the block of the operation and
\* about the old top.
MappingInv ==
    /\ pc \in {"saveTop", "append", "walk", "remove", "add"} =>
          block \in blocks /\ block # Genesis
    /\ pc \in {"append", "walk", "remove", "add"} =>
          lastHash \in Block /\ Height[block] > Height[lastHash]
    /\ pc \in {"delete", "unlink"} => lastHash = block
    /\ pc = "unlink" => block \notin blocks
    /\ topHash = None => blocks \subseteq (IF pc = "delete" THEN {block} ELSE {})

LEMMA MappingInit == Init => MappingInv
  BY BlockAssumption DEF Init, MappingInv

LEMMA MappingNext ==
    ASSUME MaxCrashes = 0, MaxDrops <= 1, MainInv, MappingInv, [Next]_vars
    PROVE  MappingInv'
  <1>T. /\ TypeOK /\ Named /\ TreeInv /\ IndexInv /\ WalkInv
        /\ crashes = 0 /\ drops \in {0, 1} /\ MaxCrashes \in Nat
    BY BoundAssumption DEF MainInv, LinkInv, TypeOK
  <1>1. ASSUME NEW b \in Block, AddRefused(b) PROVE MappingInv'
    BY <1>1, <1>T DEF AddRefused, Return, stored, MappingInv
  <1>2. ASSUME NEW b \in Block, AddBlock(b) PROVE MappingInv'
    <2>1. b # Genesis /\ topHash # None
      BY <1>2, <1>T, ParentAssumption, BlockAssumption
      DEF AddBlock, MappingInv, TypeOK
    <2> QED BY <1>2, <2>1, <1>T DEF AddBlock, MappingInv
  <1>3. CASE DropBlock
    <2>1. /\ drops = 0 /\ topHash \in blocks /\ topHash \in Block
          /\ blocks' = blocks /\ block' = topHash /\ lastHash' = topHash
          /\ topHash' = Parent[topHash] /\ pc' = "delete" /\ pc = "idle"
      BY <1>3, <1>T, BoundAssumption DEF DropBlock, TypeOK
    <2>2. ASSUME Parent[topHash] = None PROVE blocks \subseteq {topHash}
      <3>1. topHash = Genesis /\ Height[topHash] = 0
        BY <2>1, <2>2, ParentAssumption
      <3>2. \A b \in blocks : b \in Block /\ Height[b] <= 0
        BY <2>1, <3>1, <1>T DEF TreeInv, TypeOK
      <3>3. \A b \in blocks : b = Genesis
        BY <3>2, ParentFacts
      <3> QED BY <3>1, <3>3
    <2> QED BY <2>1, <2>2 DEF MappingInv
  <1>4. CASE TopUnreadable \/ KeepParallel
    BY <1>4, <1>T DEF TopUnreadable, KeepParallel, Return, stored, MappingInv
  <1>5. CASE SaveTopHash
    BY <1>5, <1>T, BlockAssumption DEF SaveTopHash, NewTop, Named, TypeOK, MappingInv
  <1>6. CASE AppendToTop \/ RemoveFails \/ AddFails \/ AddDone
    BY <1>6, <1>T
    DEF AppendToTop, RemoveFails, AddFails, AddDone, Return, stored, MappingInv
  <1>7. CASE Walk \/ WalkPanics \/ RemoveOld \/ RemoveDone \/ AddNew
    BY <1>7, <1>T
    DEF Walk, WalkPanics, RemoveOld, RemoveDone, AddNew, stored, MappingInv
  <1>8. CASE DeleteBlock \/ Unlink
    BY <1>8, <1>T DEF DeleteBlock, Unlink, Return, MappingInv
  <1>9. CASE Crash \/ Restart
    BY <1>9, <1>T DEF Crash, Restart, IndexInv
  <1>10. CASE UNCHANGED vars
    BY <1>10, <1>T DEF vars, stored, locals, MappingInv
  <1> QED
    BY <1>1, <1>2, <1>3, <1>4, <1>5, <1>6, <1>7, <1>8, <1>9, <1>10
    DEF Next, Step

LEMMA StepSimulates ==
    ASSUME MaxCrashes = 0, MaxDrops <= 1, MainInv, MappingInv, [Next]_vars
    PROVE  [Abstract!Next]_(Abstract!vars)
  <1>T. /\ TypeOK /\ Named /\ TreeInv /\ IndexInv /\ WalkInv /\ IndexInv'
        /\ crashes = 0 /\ drops \in {0, 1} /\ MaxCrashes \in Nat
    BY IndexNext, BoundAssumption DEF MainInv, LinkInv, TypeOK
  <1>H. \A b \in Block : Height[b] \in Nat
    BY ParentAssumption
  <1> DEFINE knownBar == IF adding THEN blocks \ {block}
                         ELSE IF dropping THEN blocks \cup {block} ELSE blocks
             mainBar == IF pc = "idle" THEN DOMAIN chain ELSE Branch(abstractTip)
             Same == UNCHANGED <<knownBar, abstractTip, mainBar>>
  <1>S. Same => UNCHANGED Abstract!vars
    BY DEF Abstract!vars
  <1>A. ASSUME NEW b \in Block,
               abstractTip # None, b \notin knownBar, Parent[b] \in knownBar,
               knownBar' = knownBar \cup {b},
               abstractTip' = IF Height[b] > Height[abstractTip] THEN b
                              ELSE abstractTip,
               mainBar' = Branch(abstractTip')
        PROVE  Abstract!Next
    BY <1>A DEF Abstract!Next, Abstract!Add, Abstract!Branch, Branch
  <1>D. ASSUME abstractTip # None, knownBar' = knownBar \ {abstractTip},
               abstractTip' = Parent[abstractTip],
               mainBar' = mainBar \ {abstractTip}
        PROVE  Abstract!Next
    BY <1>D DEF Abstract!Next, Abstract!Drop
  <1> USE DEF adding, dropping, abstractTip
  <1>1. ASSUME NEW b \in Block, AddRefused(b) PROVE Same
    BY <1>1 DEF AddRefused, Return, stored
  <1>2. ASSUME NEW b \in Block, AddBlock(b) PROVE Same
    BY <1>2, <1>T DEF AddBlock, IndexInv, Branch
  <1>3. CASE DropBlock
    <2>1. Same
      BY <1>3, <1>T DEF DropBlock, IndexInv, Branch
    <2> QED BY <2>1, <1>S
  <1>B. ASSUME pc \in {"saveTop", "append", "walk", "remove", "add"}
        PROVE  /\ block \in Block /\ block \in blocks
               /\ Parent[block] \in blocks \ {block}
    <2>1. block \in Block /\ block \in blocks /\ block # Genesis
      BY <1>B, <1>T DEF Named, MappingInv
    <2>2. Parent[block] \in blocks /\ Parent[block] # block
      BY <2>1, <1>T, ParentFacts DEF TreeInv
    <2> QED BY <2>1, <2>2
  <1>4. CASE TopUnreadable
    <2>1. topHash = None /\ blocks = {}
      BY <1>4, <1>T DEF TopUnreadable, TreeInv, MappingInv
    <2> QED BY <1>4, <1>B, <2>1 DEF TopUnreadable
  <1>5. CASE KeepParallel
    <2>1. /\ topHash \in Block /\ topHash # None
          /\ ~(Height[block] > Height[topHash])
      BY <1>5, <1>B, <1>H, <1>T, BlockAssumption DEF KeepParallel, TypeOK
    <2>2. knownBar' = knownBar \cup {block} /\ abstractTip' = topHash
      BY <1>5, <1>B DEF KeepParallel, Return, stored
    <2>3. mainBar' = Branch(topHash)
      BY <1>5, <1>T DEF KeepParallel, Return, stored, IndexInv
    <2> QED BY <1>5, <1>A, <1>B, <2>1, <2>2, <2>3 DEF KeepParallel
  <1>6. CASE SaveTopHash
    <2>1. Same
      BY <1>6 DEF SaveTopHash, NewTop
    <2> QED BY <2>1, <1>S
  <1>7. CASE AppendToTop \/ AddDone
    <2>1. /\ lastHash \in Block /\ lastHash # None /\ topHash = block
          /\ Height[block] > Height[lastHash]
          /\ pc \in {"append", "add"}
      BY <1>7, <1>T, BlockAssumption
      DEF AppendToTop, AddDone, MappingInv, IndexInv
    <2>2. /\ knownBar' = knownBar \cup {block} /\ abstractTip' = block
          /\ pc' = "idle"
      BY <1>7, <1>B, <2>1 DEF AppendToTop, AddDone, Return, stored
    <2>3. mainBar' = Branch(block)
      BY <2>2, <1>T DEF IndexInv
    <2> QED BY <1>A, <1>B, <2>1, <2>2, <2>3
  <1>8. CASE Walk \/ WalkPanics
    <2>1. Same
      BY <1>8, <1>T DEF Walk, WalkPanics, stored
    <2> QED BY <2>1, <1>S
  <1>9. CASE RemoveOld \/ RemoveDone \/ AddNew
    <2>1. Same
      BY <1>9 DEF RemoveOld, RemoveDone, AddNew, stored
    <2> QED BY <2>1, <1>S
  <1>10. CASE RemoveFails \/ AddFails
    BY <1>10, <1>T DEF RemoveFails, AddFails, Return, IndexInv
  <1>11. CASE DeleteBlock
    <2>1. Same
      BY <1>11, <1>T DEF DeleteBlock
    <2> QED BY <2>1, <1>S
  <1>12. CASE Unlink
    <2>1. /\ block \in Block /\ block # None /\ lastHash = block
          /\ block \notin blocks /\ topHash = Parent[block]
      BY <1>12, <1>T, BlockAssumption DEF Unlink, Named, MappingInv, IndexInv
    <2>2. /\ knownBar' = knownBar \ {block} /\ abstractTip' = Parent[block]
          /\ abstractTip = block
      BY <1>12, <2>1 DEF Unlink, Return
    <2>3. mainBar' = Branch(Parent[block])
      BY <1>12, <1>T, <2>1 DEF Unlink, Return, IndexInv
    <2>4. mainBar = Line[block]
      BY <1>12, <2>1, <2>2 DEF Unlink, Branch
    <2> QED BY <1>D, <2>1, <2>2, <2>3, <2>4, BranchBelow
  <1>13. CASE Crash \/ Restart
    BY <1>13, <1>T DEF Crash, Restart, IndexInv
  <1>14. CASE UNCHANGED vars
    <2>1. Same
      BY <1>14 DEF vars, stored, locals
    <2> QED BY <2>1, <1>S
  <1> QED
    BY <1>1, <1>2, <1>3, <1>4, <1>5, <1>6, <1>7, <1>8, <1>9, <1>10, <1>11,
       <1>12, <1>13, <1>14, <1>S DEF Next, Step

\* Under the same conditions AddBlock and DeleteBlock, transaction by
\* transaction, implement the one-step operations of MainChain.
THEOREM StoreImplementsMainChain ==
    ASSUME MaxCrashes = 0, MaxDrops <= 1
    PROVE  Spec => ImplementsMainChain
  <1>1. Init => Abstract!Init
    BY BlockAssumption
    DEF Init, Abstract!Init, adding, dropping, abstractTip
  <1>2. MainInv /\ MappingInv /\ [Next]_vars =>
            /\ MainInv' /\ MappingInv'
            /\ [Abstract!Next]_(Abstract!vars)
    BY MainNext, MappingNext, StepSimulates
  <1> QED
    BY <1>1, <1>2, MainInit, MappingInit, PTL
    DEF Spec, ImplementsMainChain, Abstract!Spec

(***************************************************************************)
(* What AddBlock returns                                                   *)
(***************************************************************************)

\* With the previous blocks of its blocks, a set has their whole lines.
LEMMA WholeLines ==
    ASSUME NEW S \in SUBSET Block,
           \A b \in S : Parent[b] \in S \cup {None},
           NEW b \in S
    PROVE  Line[b] \subseteq S
  <1> DEFINE T == {Height[c] : c \in {d \in S : ~(Line[d] \subseteq S)}}
  <1>1. SUFFICES ASSUME T # {} PROVE FALSE
    OBVIOUS
  <1>2. T \in SUBSET Nat
    BY ParentAssumption
  <1>3. PICK n \in T : \A m \in T : n <= m
    <2> HIDE DEF T
    <2> QED BY <1>1, <1>2, LeastElement
  <1>4. PICK c \in S : ~(Line[c] \subseteq S) /\ Height[c] = n
    BY <1>3
  <1>5. c # Genesis
    BY <1>4, LineAssumption
  <1>6. Parent[c] \in S /\ Height[Parent[c]] < Height[c]
    BY <1>5, ParentFacts
  <1>7. Height[Parent[c]] \notin T
    <2>1. Height[Parent[c]] \in Nat /\ Height[c] \in Nat
      BY <1>5, ParentFacts
    <2> HIDE DEF T
    <2> QED BY <2>1, <1>3, <1>4, <1>6
  <1> QED BY <1>4, <1>5, <1>6, <1>7, ParentFacts

\* Until a drop, an operation that replaces the branch of the old top has a
\* block that is not on it, and what it returned last is true.
AnswerInv ==
    drops = 0 =>
        /\ pc = "saveTop" => block \notin Branch(topHash)
        /\ pc \in {"walk", "remove", "add"} =>
              /\ block # Genesis
              /\ lastHash \in Block /\ lastHash \notin Line[block]
        /\ pc = "idle" =>
              /\ addstate \in {"addedToTop", "addedToParallelTop"} =>
                    block \in Block /\ topHash = block
              /\ addstate = "addedToTop" => lastHash = Parent[block]
              /\ addstate = "addedToParallelTop" =>
                    /\ block # Genesis
                    /\ lastHash \in Block /\ lastHash \notin Line[block]
              /\ addstate = "addedToParallel" =>
                    topHash = lastHash /\ block \notin Branch(topHash)

LEMMA AnswerInit == Init => AnswerInv
  BY DEF Init, AnswerInv

LEMMA AnswerNext ==
    ASSUME MaxCrashes = 0, MaxDrops <= 1, MainInv, AnswerInv, [Next]_vars
    PROVE  AnswerInv'
  <1>T. /\ TypeOK /\ Named /\ TreeInv /\ IndexInv /\ WalkInv
        /\ crashes = 0 /\ drops \in {0, 1} /\ MaxCrashes \in Nat
    BY BoundAssumption DEF MainInv, LinkInv, TypeOK
  <1>1. ASSUME NEW b \in Block, AddRefused(b) PROVE AnswerInv'
    BY <1>1 DEF AddRefused, Return, stored, AnswerInv
  <1>2. ASSUME NEW b \in Block, AddBlock(b), drops = 0 PROVE AnswerInv'
    <2>1. topHash \in blocks /\ topHash \in Block /\ b \notin blocks
      BY <1>2, <1>T DEF AddBlock, TreeInv, TypeOK
    <2>2. Line[topHash] \subseteq blocks
      BY <2>1, <1>T, WholeLines DEF TreeInv, TypeOK
    <2> QED BY <1>2, <2>1, <2>2, BlockAssumption DEF AddBlock, AnswerInv, Branch
  <1>3. CASE DropBlock
    BY <1>3, <1>T DEF DropBlock, AnswerInv
  <1>4. CASE TopUnreadable \/ KeepParallel
    BY <1>4, <1>T DEF TopUnreadable, KeepParallel, Return, stored, AnswerInv
  <1>5. CASE SaveTopHash /\ drops = 0
    <2>1. /\ topHash \in Block /\ block \in Block /\ block # Genesis
          /\ Height[block] > Height[topHash] /\ pc = "saveTop"
          /\ Parent[block] \in blocks /\ Parent[block] # block
          /\ Height[Parent[block]] <= Height[topHash]
      <3>1. /\ topHash \in Block /\ block \in Block /\ block # Genesis
            /\ Height[block] > Height[topHash] /\ pc = "saveTop"
            /\ block \in blocks
        BY <1>5, <1>T DEF SaveTopHash, Named, TypeOK, TreeInv, WalkInv
      <3>2. Parent[block] \in blocks /\ Parent[block] # block
        BY <3>1, <1>T, ParentFacts DEF TreeInv
      <3> QED BY <3>1, <3>2, <1>5, <1>T DEF TreeInv
    <2>2. ASSUME Parent[block] # topHash PROVE topHash \notin Line[block]
      <3>1. SUFFICES ASSUME topHash \in Line[block] PROVE FALSE
        OBVIOUS
      <3>2. /\ Height[block] = Height[Parent[block]] + 1
            /\ Parent[block] \in Block
            /\ Height[topHash] \in Nat /\ Height[Parent[block]] \in Nat
            /\ topHash \in Line[Parent[block]]
        BY <2>1, <3>1, ParentFacts, ParentAssumption
      <3>3. Height[topHash] = Height[Parent[block]]
        BY <2>1, <3>2
      <3> QED BY <2>2, <3>2, <3>3, LineAssumption
    <2>3. /\ topHash' = block /\ lastHash' = topHash /\ block' = block
          /\ pc' = IF Parent[block] = topHash THEN "append" ELSE "walk"
          /\ drops' = drops
      BY <1>5 DEF SaveTopHash, NewTop
    <2> QED BY <2>1, <2>2, <2>3 DEF AnswerInv
  <1>6. CASE AppendToTop
    BY <1>6, <1>T DEF AppendToTop, Return, Named, IndexInv, AnswerInv
  <1>7. CASE Walk \/ RemoveOld \/ RemoveDone \/ AddNew
    BY <1>7, <1>T
    DEF Walk, RemoveOld, RemoveDone, AddNew, stored, walk, AnswerInv
  <1>8. CASE RemoveFails \/ AddFails \/ AddDone
    BY <1>8, <1>T
    DEF RemoveFails, AddFails, AddDone, Return, stored, Named, IndexInv,
        AnswerInv
  <1>9. CASE WalkPanics
    BY <1>9, <1>T DEF WalkPanics, stored, AnswerInv
  <1>10. CASE DeleteBlock \/ Unlink
    BY <1>10, <1>T DEF DeleteBlock, Unlink, Return, IndexInv, AnswerInv
  <1>11. CASE Crash \/ Restart
    BY <1>11, <1>T DEF Crash, Restart, IndexInv
  <1>12. CASE UNCHANGED vars
    BY <1>12 DEF vars, stored, locals, AnswerInv
  <1>13. CASE drops # 0
    <2>1. drops' = drops \/ drops' = drops + 1
      BY DEF Next, Step, AddRefused, AddBlock, DropBlock, TopUnreadable,
             KeepParallel, SaveTopHash, NewTop, AppendToTop, WalkPanics, Walk,
             RemoveOld, RemoveFails, RemoveDone, AddNew, AddFails, AddDone,
             DeleteBlock, Unlink, Crash, Restart, LoseLocals, vars
    <2>2. drops = 1
      BY <1>13, <1>T
    <2> QED BY <2>1, <2>2 DEF AnswerInv
  <1> QED
    BY <1>1, <1>2, <1>3, <1>4, <1>5, <1>6, <1>7, <1>8, <1>9, <1>10, <1>11,
       <1>12, <1>13 DEF Next, Step

LEMMA AnswerAlways ==
    ASSUME MaxCrashes = 0, MaxDrops <= 1
    PROVE  Spec => [](MainInv /\ AnswerInv)
  <1>1. MainInv /\ AnswerInv /\ [Next]_vars => MainInv' /\ AnswerInv'
    BY MainNext, AnswerNext
  <1> QED BY <1>1, MainInit, AnswerInit, PTL DEF Spec

\* Node.AddBlock tells the caches what AddBlock returned, and until the
\* operator drops a block that is the truth about where the new block and the
\* old top are.
THEOREM AnswersAreTrue ==
    ASSUME MaxCrashes = 0, MaxDrops <= 1
    PROVE  Spec => []AddStateIsTrue
  <1>1. MainInv /\ AnswerInv => AddStateIsTrue
    BY DEF AnswerInv, AddStateIsTrue
  <1> QED BY <1>1, AnswerAlways, PTL

(***************************************************************************)
(* What the queries answer                                                 *)
(***************************************************************************)

\* Whichever branch is the main one, a transaction is looked for on the branch
\* that is asked about and only there, and no spending on it is overlooked
\* (ChooseHashUnderTip, CheckBlockIsInRange).
THEOREM LookupsAreAboutTheBranch ==
    ASSUME MaxCrashes = 0, MaxDrops <= 1
    PROVE  Spec => []LookupsFollowBranch
  <1>1. MainInv => LookupsFollowBranch
    <2> SUFFICES ASSUME MainInv, Quiet, NEW top \in blocks
                 PROVE  /\ \A first, second \in blocks :
                              LET chosen == ChooseHashUnderTip(
                                    DOMAIN chain, <<first, second>>, top)
                              IN  IF {first, second} \cap Line[top] = {}
                                  THEN chosen = None
                                  ELSE chosen \in {first, second} \cap Line[top]
                        /\ \A b \in Line[top] : \A bottom \in Line[b] :
                              CheckBlockIsInRange(DOMAIN chain, b, bottom, top)
      BY DEF LookupsFollowBranch
    <2>1. /\ topHash \in Block /\ DOMAIN chain = Line[topHash]
          /\ blocks \subseteq Block
      BY DEF Quiet, MainInv, LinkInv, TypeOK, IndexInv, Branch, Hash
    <2>2. ASSUME NEW first \in blocks, NEW second \in blocks
          PROVE  LET chosen == ChooseHashUnderTip(
                                    DOMAIN chain, <<first, second>>, top)
                 IN  IF {first, second} \cap Line[top] = {} THEN chosen = None
                     ELSE chosen \in {first, second} \cap Line[top]
      <3>1. /\ <<first, second>> \in Seq(Block)
            /\ ToSet(<<first, second>>) = {first, second}
        BY <2>1 DEF ToSet
      <3> QED BY <2>1, <3>1, ChosenUnderTip
    <2>3. ASSUME NEW b \in Line[top], NEW bottom \in Line[b]
          PROVE  CheckBlockIsInRange(DOMAIN chain, b, bottom, top)
      <3>1. b \in Block /\ bottom \in Line[top] /\ Height[bottom] <= Height[b]
        BY <2>1, LineTop, LineAssumption
      <3> QED BY <2>1, <3>1, RangeSeesBranch
    <2> QED BY <2>2, <2>3
  <1>2. MainInv /\ [Next]_vars => MainInv'
    BY MainNext
  <1> QED BY <1>1, <1>2, MainInit, PTL DEF Spec

\* The transactions of exactly the blocks that left the main chain return to
\* the pool, and those of exactly the blocks that entered it leave the pool,
\* in the order that the caches need (Node.AddBlock).
THEOREM ReplacementIsExact ==
    ASSUME MaxCrashes = 0, MaxDrops <= 1
    PROVE  Spec => []ReplacementIsTheChange
  <1>1. MainInv /\ AnswerInv => ReplacementIsTheChange
    <2> DEFINE found == GetBranchesReplacement(lastHash, topHash)
    <2> SUFFICES ASSUME MainInv, AnswerInv, Quiet, drops = 0,
                        addstate = "addedToParallelTop"
                 PROVE  /\ ~SideBranchFails(lastHash, topHash)
                        /\ ToSet(found.new) = Line[topHash] \ Line[lastHash]
                        /\ ToSet(found.old) = Line[lastHash] \ Line[topHash]
                        /\ Ascending(found.new)
                        /\ Descending(found.old)
      BY DEF ReplacementIsTheChange
    <2>1. /\ topHash \in Block /\ topHash # Genesis
          /\ lastHash \in Block /\ lastHash \notin Line[topHash]
      BY DEF Quiet, AnswerInv
    <2>2. lastHash # Genesis
      BY <2>1, LineTop
    <2>3. ~SideBranchFails(lastHash, topHash)
      BY <2>1, <2>2, PreviousBlock, LineTop DEF SideBranchFails
    <2> DEFINE base == BlockUnder(topHash, MeetHeight(lastHash, topHash))
    <2>4. /\ found.old \in Seq(Block) /\ found.new \in Seq(Block)
          /\ ToSet(found.old) = Line[lastHash] \ Line[topHash]
          /\ ToSet(found.new) = Line[topHash] \ Line[lastHash]
          /\ \A i \in 1 .. Len(found.old) :
                Parent[found.old[i]] =
                    IF i = Len(found.old) THEN base ELSE found.old[i + 1]
          /\ \A i \in 1 .. Len(found.new) :
                Parent[found.new[i]] =
                    IF i = 1 THEN base ELSE found.new[i - 1]
      BY <2>1, ReplacementFacts
    <2> HIDE DEF found, base
    <2>5. Ascending(found.new)
      <3> SUFFICES ASSUME NEW i \in 1 .. Len(found.new) - 1
                   PROVE  Parent[found.new[i + 1]] = found.new[i]
        BY DEF Ascending
      <3>1. i + 1 \in 1 .. Len(found.new) /\ i + 1 # 1 /\ (i + 1) - 1 = i
        BY <2>4
      <3> QED BY <2>4, <3>1
    <2>6. Descending(found.old)
      <3> DEFINE n == Len(found.old)
                 up == Reverse(found.old)
      <3>1. n \in Nat
        BY <2>4
      <3>2. Len(up) = n /\ \A i \in 1 .. n : up[i] = found.old[n - i + 1]
        BY <2>4, <3>1 DEF Reverse
      <3> HIDE DEF up
      <3>3. ASSUME NEW i \in 1 .. n - 1 PROVE Parent[up[i + 1]] = up[i]
        <4>1. /\ i + 1 \in 1 .. n /\ i \in 1 .. n
              /\ n - (i + 1) + 1 = n - i /\ n - i \in 1 .. n /\ n - i # n
          BY <3>1
        <4>2. up[i + 1] = found.old[n - i] /\ up[i] = found.old[n - i + 1]
          BY <3>2, <4>1
        <4>3. Parent[found.old[n - i]] = found.old[n - i + 1]
          BY <2>4, <4>1
        <4> QED BY <4>2, <4>3
      <3> QED BY <3>2, <3>3 DEF Descending, Ascending, up
    <2> QED BY <2>3, <2>4, <2>5, <2>6
  <1> QED BY <1>1, AnswerAlways, PTL

\* The branch of t from block k up to its top.
UpLine(t, k) ==
    [i \in 1 .. Height[t] - Height[k] + 1 |-> BlockUnder(t, Height[k] + i - 1)]

LEMMA UpLineFacts ==
    ASSUME NEW t \in Block, NEW k \in Line[t]
    PROVE  /\ UpLine(t, k) \in Seq(Block)
           /\ Height[t] - Height[k] \in Nat
           /\ Len(UpLine(t, k)) = Height[t] - Height[k] + 1
           /\ UpLine(t, k)[1] = k
           /\ UpLine(t, k)[Height[t] - Height[k] + 1] = t
           /\ \A i \in 1 .. Height[t] - Height[k] + 1 :
                 UpLine(t, k)[i] \in Line[t]
           /\ \A i \in 1 .. Height[t] - Height[k] :
                 Parent[UpLine(t, k)[i + 1]] = UpLine(t, k)[i]
  <1> DEFINE n == Height[t] - Height[k] + 1
             s == UpLine(t, k)
             down == Down(t)
  <1>1. /\ Height[t] \in Nat /\ Height[k] \in Nat /\ Height[k] <= Height[t]
        /\ t \in Line[t] /\ k \in Block /\ Line[t] \subseteq Block
    BY LineTop
  <1>2. n \in Nat /\ n >= 1
    BY <1>1
  <1>3. /\ DOMAIN s = 1 .. n
        /\ \A i \in 1 .. n : s[i] = down[n + 1 - i]
    <2>1. ASSUME NEW i \in 1 .. n
          PROVE  Height[t] + 1 - (Height[k] + i - 1) = n + 1 - i
      BY <1>1
    <2> QED BY <2>1 DEF UpLine, BlockUnder
  <1>4. ASSUME NEW i \in 1 .. n
        PROVE  n + 1 - i \in 1 .. Height[t] + 1 /\ n + 1 - i \in 1 .. n
    BY <1>1, <1>2
  <1>5. \A i \in 1 .. n : s[i] \in Line[t]
    BY <1>3, <1>4, DownFacts
  <1>6. down[n] = k /\ down[1] = t
    <2>1. n = Height[t] + 1 - Height[k] /\ Height[t] + 1 - Height[t] = 1
      BY <1>1
    <2>2. \A c \in Line[t] : down[Height[t] + 1 - Height[c]] = c
      BY DownFacts
    <2> HIDE DEF n, down
    <2> QED BY <1>1, <2>1, <2>2
  <1>7. ASSUME NEW i \in 1 .. n - 1 PROVE Parent[s[i + 1]] = s[i]
    <2>1. /\ i \in 1 .. n /\ i + 1 \in 1 .. n
          /\ n + 1 - (i + 1) = n - i /\ n + 1 - i = (n - i) + 1
          /\ n - i \in 1 .. Height[t]
      BY <1>1, <1>2
    <2> HIDE DEF n, s, down
    <2>2. s[i + 1] = down[n - i] /\ s[i] = down[(n - i) + 1]
      BY <1>3, <2>1
    <2> QED BY <2>1, <2>2, DownParent DEF down
  <1>8. s[1] = k /\ s[n] = t
    <2>1. n + 1 - 1 = n /\ n + 1 - n = 1 /\ 1 \in 1 .. n /\ n \in 1 .. n
      BY <1>2
    <2> HIDE DEF n, s, down
    <2> QED BY <1>3, <1>6, <2>1
  <1>9. s \in Seq(Block) /\ Len(s) = n
    <2>1. s = [i \in 1 .. n |-> BlockUnder(t, Height[k] + i - 1)]
      BY DEF UpLine
    <2>2. s \in [1 .. n -> Block]
      BY <1>1, <1>3, <1>5, <2>1
    <2> QED BY <1>2, <1>3, <2>2
  <1>10. n - 1 = Height[t] - Height[k] /\ Height[t] - Height[k] \in Nat
    BY <1>1
  <1> QED BY <1>5, <1>7, <1>8, <1>9, <1>10

\* In the index of the branch of t, the next block of any but t is the one
\* above it on the branch.
LEMMA NextInIndex ==
    ASSUME TypeOK, LinkedIndex, NEW t \in Block, DOMAIN chain = Line[t],
           NEW k \in Line[t]
    PROVE  IF k = t THEN chain[k].next = None
           ELSE /\ chain[k].next # None /\ chain[k].next \in Line[t]
                /\ Height[chain[k].next] = Height[k] + 1
                /\ UpLine(t, k) = <<k>> \o UpLine(t, chain[k].next)
  <1>1. CASE k = t
    BY <1>1, LastInIndex DEF CanRemoveFromChain
  <1>2. CASE k # t
    <2>1. /\ Height[t] \in Nat /\ Height[k] \in Nat /\ Height[k] < Height[t]
          /\ Line[t] \subseteq Block /\ k \in Block
      BY <1>2, LineTop, SameLine
    <2>2. PICK c \in Line[t] : Height[c] = Height[k] + 1
      BY <2>1, BlockAtHeight
    <2>3. c \in Block /\ c # Genesis
      BY <2>1, <2>2, ParentAssumption
    <2>4. Parent[c] = k
      BY <2>1, <2>2, <2>3, PreviousBlock, SameLine, LineTop
    <2>5. chain[c].prev = k /\ k # None /\ c # None
      BY <2>1, <2>2, <2>3, <2>4, BlockAssumption DEF LinkedIndex
    <2>6. chain[k].next = c
      BY <2>2, <2>5 DEF LinkedIndex
    <2>7. UpLine(t, k) = <<k>> \o UpLine(t, c)
      <3> DEFINE n == Height[t] - Height[c] + 1
                 s == UpLine(t, k)
                 r == UpLine(t, c)
      <3>1. n \in Nat /\ Height[t] - Height[k] + 1 = n + 1
        BY <2>1, <2>2, LineTop
      <3>2. s \in Seq(Block) /\ Len(s) = n + 1 /\ s[1] = k
        BY <3>1, UpLineFacts
      <3>3. r \in Seq(Block) /\ Len(r) = n
        BY <2>2, UpLineFacts
      <3>4. ASSUME NEW i \in 1 .. n PROVE s[i + 1] = r[i]
        <4>1. /\ i + 1 \in 1 .. Height[t] - Height[k] + 1
              /\ Height[k] + (i + 1) - 1 = Height[c] + i - 1
          BY <2>1, <2>2, <3>1
        <4> QED BY <4>1 DEF UpLine
      <3> HIDE DEF n, s, r
      <3>5. /\ <<k>> \o r \in Seq(Block) /\ Len(<<k>> \o r) = n + 1
            /\ (<<k>> \o r)[1] = k
            /\ \A i \in 1 .. n : (<<k>> \o r)[i + 1] = r[i]
        <4>1. <<k>> \in Seq(Block) /\ Len(<<k>>) = 1 /\ <<k>>[1] = k
          BY <2>1
        <4>2. /\ <<k>> \o r \in Seq(Block) /\ Len(<<k>> \o r) = n + 1
              /\ \A i \in 1 .. n + 1 :
                    (<<k>> \o r)[i] = IF i <= 1 THEN <<k>>[i] ELSE r[i - 1]
          BY <3>1, <3>3, <4>1
        <4>3. 1 \in 1 .. n + 1
          BY <3>1
        <4>4. ASSUME NEW i \in 1 .. n PROVE (<<k>> \o r)[i + 1] = r[i]
          <5>1. i + 1 \in 1 .. n + 1 /\ ~(i + 1 <= 1) /\ (i + 1) - 1 = i
            BY <3>1
          <5> QED BY <4>2, <5>1
        <4>5. (<<k>> \o r)[1] = <<k>>[1]
          BY <4>2, <4>3
        <4> QED BY <4>1, <4>2, <4>4, <4>5, Zenon
      <3>6. ASSUME NEW i \in 1 .. n + 1 PROVE s[i] = (<<k>> \o r)[i]
        <4>1. CASE i = 1
          BY <4>1, <3>2, <3>5
        <4>2. CASE i # 1
          <5>1. i - 1 \in 1 .. n /\ (i - 1) + 1 = i
            BY <4>2, <3>1
          <5> QED BY <5>1, <3>4, <3>5
        <4> QED BY <4>1, <4>2
      <3> QED BY <3>1, <3>2, <3>5, <3>6 DEF s, r
    <2> QED BY <1>2, <2>2, <2>5, <2>6, <2>7
  <1> QED BY <1>1, <1>2

\* What following the index upwards returns.
LEMMA UpwardsFacts ==
    ASSUME TypeOK, LinkedIndex, NEW t \in Block, DOMAIN chain = Line[t],
           NEW h \in Line[t]
    PROVE  Upwards(h) = UpLine(t, h)
  <1> DEFINE Turn(f, k) == IF chain[k].next = None THEN <<k>>
                           ELSE <<k>> \o f[chain[k].next]
             Follows(f) == f = [k \in DOMAIN chain |-> Turn(f, k)]
             lines == [k \in DOMAIN chain |-> UpLine(t, k)]
  <1>1. UpLine(t, t) = <<t>>
    <2>1. /\ t \in Line[t] /\ Height[t] - Height[t] + 1 = 1
      BY LineTop
    <2>2. /\ UpLine(t, t) \in Seq(Block) /\ Len(UpLine(t, t)) = 1
          /\ UpLine(t, t)[1] = t
      BY <2>1, UpLineFacts, ZenonT(40)
    <2> QED BY <2>2
  <1>2. ASSUME NEW k \in DOMAIN chain PROVE lines[k] = Turn(lines, k)
    <2>1. CASE k = t
      BY <1>1, <2>1, NextInIndex
    <2>2. CASE k # t
      BY <2>2, NextInIndex
    <2> QED BY <2>1, <2>2
  <1>3. Follows(lines)
    BY <1>2
  <1>4. ASSUME NEW f, Follows(f) PROVE f[h] = UpLine(t, h)
    <2> DEFINE Wrong == {k \in Line[t] : f[k] # UpLine(t, k)}
               T == {Height[k] : k \in Wrong}
    <2>1. SUFFICES ASSUME T # {} PROVE FALSE
      OBVIOUS
    <2>2. T \in SUBSET Nat /\ Height[t] \in Nat /\ \A n \in T : n <= Height[t]
      BY LineTop
    <2>3. PICK n \in T : \A m \in T : m <= n
      <3> HIDE DEF T
      <3> QED BY <2>1, <2>2, GreatestElement
    <2>4. PICK k \in Wrong : Height[k] = n
      BY <2>3
    <2>5. f[k] = Turn(f, k)
      BY <1>4, <2>4
    <2>6. CASE k = t
      BY <1>1, <2>4, <2>5, <2>6, NextInIndex
    <2>7. CASE k # t
      <3> DEFINE c == chain[k].next
      <3>1. /\ c # None /\ c \in Line[t] /\ Height[c] = Height[k] + 1
            /\ UpLine(t, k) = <<k>> \o UpLine(t, c)
        BY <2>4, <2>7, NextInIndex
      <3>2. Height[k] \in Nat
        BY <2>4, LineTop
      <3>3. Height[c] \notin T
        <4> HIDE DEF T
        <4> QED BY <2>3, <2>4, <3>1, <3>2
      <3>4. f[c] = UpLine(t, c)
        BY <3>1, <3>3
      <3> QED BY <2>4, <2>5, <3>1, <3>4
    <2> QED BY <2>6, <2>7
  <1>5. Upwards(h) = (CHOOSE f : Follows(f))[h]
    BY DEF Upwards, BlockInChain
  <1> HIDE DEF Follows
  <1> QED BY <1>3, <1>4, <1>5

\* A node that asks for the blocks after one of the main chain gets the next
\* ones of the main chain, as many as an answer carries and in an order in
\* which it can attach them (GetNextBlocks, GetFirstBlocks).
THEOREM NextBlocksAreNext ==
    ASSUME MaxCrashes = 0, MaxDrops <= 1
    PROVE  Spec => []NextBlocksAreMainChain
  <1>1. MainInv => NextBlocksAreMainChain
    <2> DEFINE next(h) == GetNextBlocks(h)
    <2> SUFFICES ASSUME MainInv, Quiet, NEW h \in Line[topHash]
                 PROVE  /\ Head(next(h)) = h
                        /\ Ascending(next(h))
                        /\ ToSet(next(h)) \subseteq Line[topHash]
                        /\ Len(next(h)) < MaxCount => Last(next(h)) = topHash
      BY DEF NextBlocksAreMainChain
    <2> DEFINE t == topHash
               s == UpLine(t, h)
               n == Height[t] - Height[h] + 1
               r == next(h)
    <2>1. /\ t \in Block /\ DOMAIN chain = Line[t] /\ TypeOK /\ LinkedIndex
      BY DEF Quiet, MainInv, LinkInv, TypeOK, IndexInv, Branch, Hash
    <2>2. r = IF Len(s) > MaxCount THEN SubSeq(s, 1, MaxCount) ELSE s
      BY <2>1, UpwardsFacts DEF GetNextBlocks, FirstOnes
    <2> HIDE DEF next
    <2>3. /\ s \in Seq(Block) /\ n \in Nat /\ n >= 1 /\ Len(s) = n
          /\ s[1] = h /\ s[n] = t
          /\ \A i \in 1 .. n : s[i] \in Line[t]
          /\ \A i \in 1 .. n - 1 : Parent[s[i + 1]] = s[i]
      <3>1. /\ n - 1 = Height[t] - Height[h] /\ Height[t] - Height[h] \in Nat
            /\ n \in Nat /\ n >= 1
        BY <2>1, UpLineFacts
      <3> QED BY <2>1, <3>1, UpLineFacts
    <2> HIDE DEF s, n, r, t
    <2> DEFINE m == Len(r)
    <2>4. /\ r \in Seq(Block) /\ m \in Nat /\ m >= 1 /\ m <= n
          /\ \A i \in 1 .. m : r[i] = s[i]
          /\ m < MaxCount => m = n
      BY <2>2, <2>3, MaxCountAssumption
    <2>5. Head(r) = h
      BY <2>3, <2>4
    <2>6. ASSUME NEW i \in 1 .. m - 1 PROVE Parent[r[i + 1]] = r[i]
      <3>1. i \in 1 .. m /\ i + 1 \in 1 .. m /\ i \in 1 .. n - 1
        BY <2>3, <2>4
      <3> QED BY <2>3, <2>4, <3>1
    <2>7. ToSet(r) \subseteq Line[t]
      BY <2>3, <2>4 DEF ToSet
    <2>8. ASSUME m < MaxCount PROVE Last(r) = t
      BY <2>3, <2>4, <2>8 DEF Last
    <2> QED BY <2>5, <2>6, <2>7, <2>8 DEF Ascending, r, t
  <1>2. MainInv /\ [Next]_vars => MainInv'
    BY MainNext
  <1> QED BY <1>1, <1>2, MainInit, PTL DEF Spec

=============================================================================
