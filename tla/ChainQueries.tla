----------------------------- MODULE ChainQueries -----------------------------
(***************************************************************************)
(* What the rest of the node reads from the block store while it holds the *)
(* database lock: the queries of blockchain/manager.go, computed as the    *)
(* code computes them from the stored blocks, the top hash and the index.  *)
(***************************************************************************)
EXTENDS ChainStore, Lookup

CONSTANT MaxCount   \* how many blocks one answer carries (1000 in the code)

ASSUME MaxCountAssumption == MaxCount \in Nat \ {0}

\* Looks for a height from the top down; None stands for the error.
GetBlockAtHeight(n) ==
    IF n > Height[topHash] THEN None ELSE BlockUnder(topHash, n)

\* Follows the index upwards.  A block that is not in the index has no next
\* one, so it is answered alone.
Upwards(h) ==
    LET up[k \in DOMAIN chain] ==
            IF chain[k].next = None THEN <<k>>
            ELSE <<k>> \o up[chain[k].next]
    IN  IF BlockInChain(h) THEN up[h] ELSE <<h>>

\* Mutant: the answer is the upper end of what was found.
LastOnes(s, count) ==
    IF Len(s) > count THEN SubSeq(s, Len(s) - count + 1, Len(s)) ELSE s

\* The loops stop when the answer is long enough.
FirstOnes(s, count) == IF Len(s) > count THEN SubSeq(s, 1, count) ELSE s

GetNextBlocks(startfrom) == FirstOnes(Upwards(startfrom), MaxCount)
GetFirstBlocks == FirstOnes(Upwards(Genesis), MaxCount)

\* From a block down, one block more than asked for: the loop tests the
\* length after it has added a block.
GetBlocksShortInfo(startfrom) ==
    FirstOnes(Down(IF startfrom = None THEN topHash ELSE startfrom),
              MaxCount + 1)

(***************************************************************************)
(* Properties                                                              *)
(***************************************************************************)

Quiet == pc = "idle" /\ topHash # None

Ascending(s) == \A i \in 1 .. Len(s) - 1 : Parent[s[i + 1]] = s[i]
Descending(s) == Ascending(Reverse(s))

\* A node that is behind is sent the blocks it misses: from a block of the
\* main chain upwards, every answer is the next MaxCount blocks of the main
\* chain in order, whatever replacing and dropping went before
\* (GetNextBlocks, GetFirstBlocks, GetBlocksAfter).
NextBlocksAreMainChain ==
    Quiet => \A h \in Line[topHash] :
        LET next == GetNextBlocks(h)
        IN  /\ Head(next) = h
            /\ Ascending(next)
            /\ ToSet(next) \subseteq Line[topHash]
            /\ Len(next) < MaxCount => Last(next) = topHash

\* After a branch became the main one, the blocks whose transactions are
\* returned to the pool are exactly those that left the index, highest first,
\* and those whose transactions are taken from it exactly those that entered,
\* lowest first (Node.AddBlock with GetBranchesReplacement).  After a drop it
\* is not so: the base of the branches may be the old top itself.
ReplacementIsTheChange ==
    Quiet /\ drops = 0 /\ addstate = "addedToParallelTop" =>
        /\ ~SideBranchFails(lastHash, topHash)
        /\ LET found == GetBranchesReplacement(lastHash, topHash)
           IN  /\ ToSet(found.new) = Line[topHash] \ Line[lastHash]
               /\ ToSet(found.old) = Line[lastHash] \ Line[topHash]
               /\ Ascending(found.new)
               /\ Descending(found.old)

\* The questions of the caches about a branch are answered for that branch,
\* whether or not it is the main one.  A transaction stored by blocks of
\* several branches is found in the branch that is asked about, and only there
\* (ChooseHashUnderTip); a spending that really lies between the output and
\* the top is always seen, so that no double spending is missed
\* (CheckBlockIsInRange).
LookupsFollowBranch ==
    Quiet => \A top \in blocks :
        /\ \A first, second \in blocks :
              LET chosen ==
                      ChooseHashUnderTip(DOMAIN chain, <<first, second>>, top)
              IN  IF {first, second} \cap Line[top] = {} THEN chosen = None
                  ELSE chosen \in {first, second} \cap Line[top]
        /\ \A b \in Line[top] : \A bottom \in Line[b] :
              CheckBlockIsInRange(DOMAIN chain, b, bottom, top)

=============================================================================
