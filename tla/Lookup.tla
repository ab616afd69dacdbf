-------------------------------- MODULE Lookup --------------------------------
(***************************************************************************)
(* The queries of blockchain/manager.go that the transaction caches rest   *)
(* on: where a transaction or a spending is, seen from a given top, and    *)
(* what two branches do not share.  The index of the main chain, which     *)
(* they ask first, is here the set main of its blocks.                     *)
(***************************************************************************)
EXTENDS BlockTree, SequencesExt

\* BlockchainIterator.Next, called again and again from block h: the blocks it
\* returns, from h down to the genesis block.
Down(h) ==
    [i \in 1 .. Height[h] + 1 |->
        CHOOSE c \in Line[h] : Height[c] = Height[h] + 1 - i]

\* The iterator from h, stopped at height n.
BlockUnder(h, n) == Down(h)[Height[h] + 1 - n]

(***************************************************************************)
(* Where a transaction or a spending is                                    *)
(***************************************************************************)

\* The first of the hashes that satisfies a test, None if there is none.
FirstOf(hashes, Test(_)) ==
    LET good == {i \in DOMAIN hashes : Test(hashes[i])}
    IN  IF good = {} THEN None
        ELSE hashes[CHOOSE i \in good : \A j \in good : i <= j]

\* The hashes that are in a set, in their order.
Keeping(hashes, S) ==
    LET kept[n \in 0 .. Len(hashes)] ==
            IF n = 0 THEN << >>
            ELSE IF hashes[n] \in S THEN Append(kept[n - 1], hashes[n])
            ELSE kept[n - 1]
    IN  kept[Len(hashes)]

\* The highest block under top that is in the index: the iterator is followed
\* down from a top that is not.
TopInChain(main, top) ==
    CHOOSE c \in Line[top] \cap main :
        \A d \in Line[top] \cap main : Height[d] <= Height[c]

\* The hashes met on the way down to the index, that first block included.
Passed(main, top) ==
    LET base == TopInChain(main, top)
    IN  {c \in Line[top] : Height[c] >= Height[base]}

\* Mutant: the height is not compared.
InMainChain(main, h, top) == h \in main

\* In the index and below the top.
UnderMain(main, h, top) ==
    h \in main /\ Height[h] < Height[TopInChain(main, top)]

\* Which of the blocks that hold a transaction is on the branch under top.
\* Without a top the main chain is meant; a top that is not in the index is
\* followed down to it first.
ChooseHashUnderTip(main, hashes, top) ==
    LET Under(h) ==
            IF top = None THEN h \in main ELSE UnderMain(main, h, top)
        met == {c \in Passed(main, top) : c \in ToSet(hashes)}
    IN  IF top \in ToSet(hashes) THEN top
        ELSE IF top # None /\ top \notin main /\ met # {}
        THEN CHOOSE c \in met : \A d \in met : Height[d] <= Height[c]
        ELSE FirstOf(hashes, Under)

Between(hash, bottom, top) ==
    Height[bottom] <= Height[hash] /\ Height[hash] <= Height[top]

\* A top that is not in the index is followed down to it; the walk answers
\* when it meets the block or the bottom.
Walked(main, top) == IF top \in main THEN {} ELSE Passed(main, top)

MeetsHash(main, hash, bottom, top) ==
    /\ hash \in Walked(main, top)
    /\ bottom \in Walked(main, top) => Height[hash] >= Height[bottom]

\* Is the block between bottom and top?  Once in the index, only the heights
\* of the three blocks are compared.
CheckBlockIsInRange(main, hash, bottom, top) ==
    \/ MeetsHash(main, hash, bottom, top)
    \/ /\ bottom \notin Walked(main, top)
       /\ Between(hash, bottom, TopInChain(main, top))

\* To compare heights the block is read, which fails when it was deleted.
RangeReadsBlock(main, hash, bottom, top) ==
    /\ ~MeetsHash(main, hash, bottom, top)
    /\ bottom \notin Walked(main, top)

(***************************************************************************)
(* Two branches and the block they grew from                               *)
(***************************************************************************)

Lower(m, n) == IF m < n THEN m ELSE n

\* The higher branch is followed down to the height of the other, then both
\* together until they meet.  Neither end may be the genesis block: the code
\* returns an error there, and its caller dereferences the missing result.
SideBranchFails(hash, tip) == Height[hash] < 1 \/ Height[tip] < 1

MeetHeight(hash, tip) ==
    CHOOSE n \in 0 .. Lower(Height[hash], Height[tip]) :
        /\ BlockUnder(hash, n) = BlockUnder(tip, n)
        /\ \A m \in n + 1 .. Lower(Height[hash], Height[tip]) :
              BlockUnder(hash, m) # BlockUnder(tip, m)

\* Mutant: the main blocks are not reversed.
SideBranchDown(hash, tip) ==
    LET meet == MeetHeight(hash, tip)
    IN  [side |-> SubSeq(Down(hash), 1, Height[hash] - meet),
         main |-> SubSeq(Down(tip), 1, Height[tip] - meet),
         base |-> BlockUnder(tip, meet)]

\* The side blocks come from the top down, the main blocks are reversed.
GetSideBranch(hash, tip) ==
    LET meet == MeetHeight(hash, tip)
    IN  [side |-> SubSeq(Down(hash), 1, Height[hash] - meet),
         main |-> Reverse(SubSeq(Down(tip), 1, Height[tip] - meet)),
         base |-> BlockUnder(tip, meet)]

\* The blocks that entered the main chain and those that left it, or nothing
\* when the side block is part of the branch under the tip.
GetBranchesReplacement(sideHash, tip) ==
    LET found == GetSideBranch(sideHash, tip)
    IN  IF found.base = sideHash
        THEN [new |-> << >>, old |-> << >>]
        ELSE [new |-> found.main, old |-> found.side]

=============================================================================
