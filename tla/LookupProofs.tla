----------------------------- MODULE LookupProofs -----------------------------
(***************************************************************************)
(* Lemmas about the tree of blocks and about the queries of Lookup, for    *)
(* every tree.  Induction is by a least counterexample: a set of natural   *)
(* numbers that is not empty has a least element.                          *)
(***************************************************************************)
EXTENDS Lookup, FiniteSetTheorems, TLAPS

(***************************************************************************)
(* Natural numbers                                                         *)
(***************************************************************************)

\* The initial segments 0 .. k are finite sets, and strict inclusion between
\* finite sets is well-founded.
LEMMA LeastElement ==
    ASSUME NEW T \in SUBSET Nat, T # {}
    PROVE  \E n \in T : \A m \in T : n <= m
  <1> DEFINE U == {0 .. k : k \in T}
  <1>1. U \in SUBSET FiniteSubsetsOf(Nat) /\ U # {}
    <2>1. \A k \in T : IsFiniteSet(0 .. k) /\ 0 .. k \in SUBSET Nat
      BY FS_Interval
    <2> QED BY <2>1 DEF FiniteSubsetsOf
  <1>2. PICK x \in U : \A y \in U : <<y, x>> \notin StrictSubsetOrdering(Nat)
    <2> HIDE DEF U
    <2> QED BY <1>1, WFMin, FS_StrictSubsetOrderingWellFounded, Zenon
  <1>3. PICK n \in T : x = 0 .. n
    BY <1>2
  <1>4. ASSUME NEW m \in T, m < n PROVE FALSE
    <2>1. 0 .. m \subseteq 0 .. n /\ 0 .. m # 0 .. n
      BY <1>4
    <2>2. 0 .. m \subseteq Nat /\ 0 .. n \subseteq Nat
      OBVIOUS
    <2>3. <<0 .. m, 0 .. n>> \in StrictSubsetOrdering(Nat)
      BY <2>1, <2>2 DEF StrictSubsetOrdering
    <2> QED BY <1>2, <1>3, <2>3
  <1> QED BY <1>4

\* The distances to the bound have a least element.
LEMMA GreatestElement ==
    ASSUME NEW T \in SUBSET Nat, T # {}, NEW bound \in Nat,
           \A n \in T : n <= bound
    PROVE  \E n \in T : \A m \in T : m <= n
  <1> DEFINE D == {bound - n : n \in T}
  <1>1. D \in SUBSET Nat /\ D # {}
    <2>1. \A n \in T : bound - n \in Nat
      OBVIOUS
    <2> QED BY <2>1
  <1>2. PICK d \in D : \A e \in D : d <= e
    <2> HIDE DEF D
    <2> QED BY <1>1, LeastElement
  <1>3. PICK n \in T : d = bound - n
    BY <1>2
  <1>4. ASSUME NEW m \in T PROVE m <= n
    <2>1. bound - n <= bound - m
      BY <1>2, <1>3
    <2>2. m \in Nat /\ n \in Nat
      OBVIOUS
    <2> QED BY <2>1, <2>2
  <1> QED BY <1>4

(***************************************************************************)
(* The tree of blocks                                                      *)
(***************************************************************************)

\* A block is the highest of its own line.
LEMMA LineTop ==
    ASSUME NEW b \in Block
    PROVE  /\ b \in Line[b]
           /\ Line[b] \subseteq Block
           /\ Genesis \in Line[b]
           /\ Height[b] \in Nat
           /\ \A c \in Line[b] : Height[c] \in Nat /\ Height[c] <= Height[b]
  BY LineAssumption, ParentAssumption, BlockAssumption

LEMMA PreviousBlock ==
    ASSUME NEW b \in Block, b # Genesis
    PROVE  /\ Parent[b] \in Block
           /\ Height[b] = Height[Parent[b]] + 1
           /\ Height[b] > 0
           /\ Line[b] = Line[Parent[b]] \cup {b}
           /\ Parent[b] \in Line[b]
           /\ b \notin Line[Parent[b]]
  <1>1. Parent[b] \in Block /\ Height[b] = Height[Parent[b]] + 1
    BY ParentAssumption
  <1>2. Parent[b] \in Line[Parent[b]]
    BY <1>1, LineTop
  <1>3. b \notin Line[Parent[b]]
    BY <1>1, LineTop
  <1> QED BY <1>1, <1>2, <1>3, LineAssumption, ParentAssumption

\* Two blocks of one line are on each other's line, the lower one on that of
\* the higher one, and have different heights.
LEMMA SameLine ==
    ASSUME NEW b \in Block, NEW c \in Line[b], NEW d \in Line[b]
    PROVE  /\ Height[c] <= Height[d] => c \in Line[d]
           /\ Height[c] = Height[d] => c = d
           /\ Line[c] \subseteq Line[b]
  <1>1. c \in Block /\ d \in Block
    BY LineTop
  <1>2. c \in Line[d] \/ d \in Line[c]
    BY LineAssumption
  <1>3. ASSUME d \in Line[c], Height[c] <= Height[d] PROVE c = d
    <2>1. Height[c] = Height[d]
      BY <1>1, <1>3, LineTop
    <2> QED BY <1>1, <1>3, <2>1, LineAssumption
  <1>4. ASSUME c \in Line[d], Height[c] = Height[d] PROVE c = d
    BY <1>1, <1>4, LineAssumption
  <1> QED BY <1>1, <1>2, <1>3, <1>4, LineAssumption, LineTop

\* A line has a block at every height up to its top.
LEMMA BlockAtHeight ==
    ASSUME NEW b \in Block, NEW n \in 0 .. Height[b]
    PROVE  \E c \in Line[b] : Height[c] = n
  <1> DEFINE Full(d) == \A m \in 0 .. Height[d] : \E c \in Line[d] : Height[c] = m
             T == {Height[d] : d \in {e \in Block : ~Full(e)}}
  <1>1. SUFFICES ASSUME T # {} PROVE FALSE
    BY LineTop
  <1>2. T \in SUBSET Nat
    BY ParentAssumption
  <1>3. PICK k \in T : \A m \in T : k <= m
    <2> HIDE DEF T
    <2> QED BY <1>1, <1>2, LeastElement
  <1>4. PICK d \in Block : ~Full(d) /\ Height[d] = k
    BY <1>3
  <1>5. CASE d = Genesis
    BY <1>4, <1>5, ParentAssumption, LineTop
  <1>6. CASE d # Genesis
    <2>1. Full(Parent[d])
      <3>1. Height[Parent[d]] \notin T
        BY <1>3, <1>4, <1>6, PreviousBlock, LineTop
      <3> QED BY <3>1, <1>6, PreviousBlock
    <2>2. ASSUME NEW m \in 0 .. Height[d] PROVE \E c \in Line[d] : Height[c] = m
      <3>1. CASE m = Height[d]
        BY <3>1, LineTop
      <3>2. CASE m # Height[d]
        <4>1. m \in 0 .. Height[Parent[d]]
          BY <3>2, <1>6, PreviousBlock, LineTop
        <4> QED BY <4>1, <2>1, <1>6, PreviousBlock
      <3> QED BY <3>1, <3>2
    <2> QED BY <2>2, <1>4
  <1> QED BY <1>5, <1>6

(***************************************************************************)
(* The blocks the iterator returns                                         *)
(***************************************************************************)

\* The iterator goes down the line one height at a time.
LEMMA DownFacts ==
    ASSUME NEW b \in Block
    PROVE  /\ Down(b) \in Seq(Block)
           /\ Len(Down(b)) = Height[b] + 1
           /\ \A i \in 1 .. Height[b] + 1 :
                 /\ Down(b)[i] \in Line[b]
                 /\ Height[Down(b)[i]] = Height[b] + 1 - i
           /\ \A c \in Line[b] :
                 /\ Height[b] + 1 - Height[c] \in 1 .. Height[b] + 1
                 /\ Down(b)[Height[b] + 1 - Height[c]] = c
  <1>1. Height[b] \in Nat
    BY LineTop
  <1>2. ASSUME NEW i \in 1 .. Height[b] + 1
        PROVE  /\ Down(b)[i] \in Line[b]
               /\ Height[Down(b)[i]] = Height[b] + 1 - i
    <2>1. Height[b] + 1 - i \in 0 .. Height[b]
      BY <1>1
    <2>2. \E c \in Line[b] : Height[c] = Height[b] + 1 - i
      BY <2>1, BlockAtHeight
    <2>3. Down(b)[i] = CHOOSE c \in Line[b] : Height[c] = Height[b] + 1 - i
      BY DEF Down
    <2> QED BY <2>2, <2>3
  <1>3. Down(b) \in [1 .. Height[b] + 1 -> Block]
    <2>1. DOMAIN Down(b) = 1 .. Height[b] + 1 /\ Down(b) = [i \in DOMAIN Down(b) |-> Down(b)[i]]
      BY DEF Down
    <2> QED BY <1>2, <2>1, LineTop
  <1>4. ASSUME NEW c \in Line[b]
        PROVE  /\ Height[b] + 1 - Height[c] \in 1 .. Height[b] + 1
               /\ Down(b)[Height[b] + 1 - Height[c]] = c
    <2> DEFINE i == Height[b] + 1 - Height[c]
    <2>1. i \in 1 .. Height[b] + 1 /\ Height[c] \in Nat
      BY <1>1, LineTop
    <2>2. Down(b)[i] \in Line[b] /\ Height[Down(b)[i]] = Height[c]
      BY <1>1, <1>2, <2>1
    <2> QED BY <2>1, <2>2, SameLine
  <1>5. Down(b) \in Seq(Block) /\ Len(Down(b)) = Height[b] + 1
    <2>1. Height[b] + 1 \in Nat
      BY <1>1
    <2> QED BY <1>3, <2>1
  <1> QED BY <1>2, <1>4, <1>5

LEMMA UnderFacts ==
    ASSUME NEW b \in Block, NEW n \in 0 .. Height[b]
    PROVE  /\ BlockUnder(b, n) \in Line[b]
           /\ Height[BlockUnder(b, n)] = n
  <1>1. Height[b] \in Nat /\ n \in Nat
    BY LineTop
  <1>2. Height[b] + 1 - n \in 1 .. Height[b] + 1
    BY <1>1
  <1>3. Height[b] + 1 - (Height[b] + 1 - n) = n
    BY <1>1
  <1> QED BY <1>2, <1>3, DownFacts DEF BlockUnder

(***************************************************************************)
(* Where a branch meets the main chain                                     *)
(***************************************************************************)

\* A branch under top meets the main chain, the line of t, in the highest
\* block they share; below it they are one.
LEMMA TopInChainFacts ==
    ASSUME NEW t \in Block, NEW top \in Block
    PROVE  LET base == TopInChain(Line[t], top)
           IN  /\ base \in Line[top]
               /\ base \in Line[t]
               /\ \A c \in Line[top] \cap Line[t] : Height[c] <= Height[base]
               /\ \A c \in Line[top] : Height[c] <= Height[base] => c \in Line[t]
               /\ \A c \in Line[t] : Height[c] <= Height[base] => c \in Line[top]
               /\ top \in Line[t] => base = top
  <1> DEFINE base == TopInChain(Line[t], top)
             H == {Height[c] : c \in Line[top] \cap Line[t]}
  <1>1. \E c \in Line[top] \cap Line[t] :
            \A d \in Line[top] \cap Line[t] : Height[d] <= Height[c]
    <2>1. H \in SUBSET Nat /\ H # {} /\ Height[t] \in Nat
      BY LineTop
    <2>2. \A n \in H : n <= Height[t]
      BY LineTop
    <2>3. \E n \in H : \A m \in H : m <= n
      <3> HIDE DEF H
      <3> QED BY <2>1, <2>2, GreatestElement
    <2> QED BY <2>3
  <1>2. /\ base \in Line[top] \cap Line[t]
        /\ \A d \in Line[top] \cap Line[t] : Height[d] <= Height[base]
    BY <1>1 DEF TopInChain
  <1>3. Line[base] \subseteq Line[top] /\ Line[base] \subseteq Line[t]
    BY <1>2, SameLine
  <1>4. ASSUME top \in Line[t] PROVE base = top
    <2>1. Height[top] <= Height[base] /\ Height[base] <= Height[top]
      BY <1>2, <1>4, LineTop
    <2> QED BY <1>2, <2>1, LineTop, SameLine
  <1> HIDE DEF base
  <1>5. QED
    <2>1. \A c \in Line[top] : Height[c] <= Height[base] => c \in Line[base]
      BY <1>2, SameLine
    <2>2. \A c \in Line[t] : Height[c] <= Height[base] => c \in Line[base]
      BY <1>2, SameLine
    <2> QED BY <1>2, <1>3, <1>4, <2>1, <2>2 DEF base

(***************************************************************************)
(* ChooseHashUnderTip and CheckBlockIsInRange                              *)
(***************************************************************************)

\* The blocks passed on the way down to the main chain, and the main chain
\* below, are the whole branch.
LEMMA PassedOrUnder ==
    ASSUME NEW t \in Block, NEW top \in Block
    PROVE  /\ Passed(Line[t], top) \subseteq Line[top]
           /\ \A h : UnderMain(Line[t], h, top) => h \in Line[top]
           /\ \A h \in Line[top] :
                 h \in Passed(Line[t], top) \/ UnderMain(Line[t], h, top)
           /\ top \in Line[t] => Passed(Line[t], top) = {top}
  <1> DEFINE base == TopInChain(Line[t], top)
  <1>1. /\ base \in Line[top] /\ base \in Line[t]
        /\ \A c \in Line[top] : Height[c] <= Height[base] => c \in Line[t]
        /\ \A c \in Line[t] : Height[c] <= Height[base] => c \in Line[top]
        /\ top \in Line[t] => base = top
    BY TopInChainFacts
  <1>2. Height[base] \in Nat
    BY <1>1, LineTop
  <1> HIDE DEF base
  <1>3. Passed(Line[t], top) = {c \in Line[top] : Height[c] >= Height[base]}
    BY DEF Passed, base
  <1>4. \A h : UnderMain(Line[t], h, top) <=> h \in Line[t] /\ Height[h] < Height[base]
    BY DEF UnderMain, base
  <1>5. ASSUME NEW h, UnderMain(Line[t], h, top) PROVE h \in Line[top]
    <2>1. h \in Line[t] /\ Height[h] < Height[base] /\ Height[h] \in Nat
      BY <1>4, <1>5, LineTop
    <2> QED BY <1>1, <1>2, <2>1
  <1>6. ASSUME NEW h \in Line[top]
        PROVE  h \in Passed(Line[t], top) \/ UnderMain(Line[t], h, top)
    <2>1. Height[h] \in Nat
      BY LineTop
    <2> QED BY <1>1, <1>2, <1>3, <1>4, <2>1
  <1>7. ASSUME top \in Line[t] PROVE Passed(Line[t], top) = {top}
    <2>1. base = top
      BY <1>1, <1>7
    <2>2. \A c \in Line[top] : Height[c] >= Height[top] => c = top
      BY LineTop, SameLine
    <2> QED BY <1>2, <1>3, <2>1, <2>2, LineTop
  <1> QED BY <1>3, <1>5, <1>6, <1>7

\* A set of heights has a highest block.
LEMMA HighestBlock ==
    ASSUME NEW top \in Block, NEW S \in SUBSET Line[top], S # {}
    PROVE  \E c \in S : \A d \in S : Height[d] <= Height[c]
  <1> DEFINE H == {Height[c] : c \in S}
  <1>1. H \in SUBSET Nat /\ H # {} /\ Height[top] \in Nat
    BY LineTop
  <1>2. \A n \in H : n <= Height[top]
    BY LineTop
  <1>3. \E n \in H : \A m \in H : m <= n
    <2> HIDE DEF H
    <2> QED BY <1>1, <1>2, GreatestElement
  <1> QED BY <1>3

\* ChooseHashUnderTip finds a block on the branch that is asked about, if one
\* of the hashes is there, and finds none elsewhere, whichever branch is the
\* main chain.
LEMMA ChosenUnderTip ==
    ASSUME NEW t \in Block, NEW top \in Block, NEW hashes \in Seq(Block)
    PROVE  LET chosen == ChooseHashUnderTip(Line[t], hashes, top)
           IN  IF ToSet(hashes) \cap Line[top] = {} THEN chosen = None
               ELSE chosen \in ToSet(hashes) \cap Line[top]
  <1> DEFINE chosen == ChooseHashUnderTip(Line[t], hashes, top)
             Under(h) == IF top = None THEN h \in Line[t]
                         ELSE UnderMain(Line[t], h, top)
             met == {c \in Passed(Line[t], top) : c \in ToSet(hashes)}
             good == {i \in DOMAIN hashes : Under(hashes[i])}
             first == CHOOSE i \in good : \A j \in good : i <= j
  <1>1. chosen = IF top \in ToSet(hashes) THEN top
                 ELSE IF top # None /\ top \notin Line[t] /\ met # {}
                 THEN CHOOSE c \in met : \A d \in met : Height[d] <= Height[c]
                 ELSE IF good = {} THEN None ELSE hashes[first]
    BY DEF ChooseHashUnderTip, FirstOf
  <1>2. top # None
    BY BlockAssumption
  <1>3. CASE top \in ToSet(hashes)
    BY <1>1, <1>3, LineTop
  <1>4. CASE top \notin ToSet(hashes) /\ top \notin Line[t] /\ met # {}
    <2>1. met \in SUBSET Line[top]
      BY PassedOrUnder
    <2>2. \E c \in met : \A d \in met : Height[d] <= Height[c]
      <3> HIDE DEF met
      <3> QED BY <1>4, <2>1, HighestBlock
    <2>3. chosen \in met
      <3> HIDE DEF met, good, first, chosen
      <3> QED BY <1>1, <1>2, <1>4, <2>2
    <2> QED BY <2>1, <2>3
  <1>5. CASE top \notin ToSet(hashes) /\ (top \in Line[t] \/ met = {})
    <2>1. chosen = IF good = {} THEN None ELSE hashes[first]
      <3> HIDE DEF met, good, first, chosen
      <3> QED BY <1>1, <1>5
    <2>2. good \in SUBSET Nat
      OBVIOUS
    <2>3. good # {} => first \in good
      <3>1. good # {} => \E i \in good : \A j \in good : i <= j
        <4> HIDE DEF good
        <4> QED BY <2>2, LeastElement
      <3> HIDE DEF good
      <3> QED BY <3>1
    <2>4. \A i \in good : hashes[i] \in ToSet(hashes) \cap Line[top]
      BY <1>2, PassedOrUnder DEF ToSet
    <2>5. good = {} => ToSet(hashes) \cap Line[top] = {}
      <3> SUFFICES ASSUME NEW i \in DOMAIN hashes, hashes[i] \in Line[top]
                   PROVE  i \in good
        BY DEF ToSet
      <3>1. hashes[i] \in ToSet(hashes)
        BY DEF ToSet
      <3>2. hashes[i] \notin Passed(Line[t], top)
        BY <1>5, <3>1, PassedOrUnder
      <3> QED BY <1>2, <3>2, PassedOrUnder
    <2> HIDE DEF good, first
    <2> QED BY <2>1, <2>3, <2>4, <2>5
  <1> QED BY <1>2, <1>3, <1>4, <1>5

\* Without a top the main chain is meant.
LEMMA ChosenInMain ==
    ASSUME NEW t \in Block, NEW hashes \in Seq(Block)
    PROVE  LET chosen == ChooseHashUnderTip(Line[t], hashes, None)
           IN  IF ToSet(hashes) \cap Line[t] = {} THEN chosen = None
               ELSE chosen \in ToSet(hashes) \cap Line[t]
  <1> DEFINE chosen == ChooseHashUnderTip(Line[t], hashes, None)
             good == {i \in DOMAIN hashes : hashes[i] \in Line[t]}
             first == CHOOSE i \in good : \A j \in good : i <= j
  <1>1. None \notin ToSet(hashes)
    BY BlockAssumption DEF ToSet
  <1>2. chosen = IF good = {} THEN None ELSE hashes[first]
    BY <1>1 DEF ChooseHashUnderTip, FirstOf
  <1>3. good # {} => first \in good
    <2>1. good \in SUBSET Nat
      OBVIOUS
    <2>2. good # {} => \E i \in good : \A j \in good : i <= j
      <3> HIDE DEF good
      <3> QED BY <2>1, LeastElement
    <2> HIDE DEF good
    <2> QED BY <2>2
  <1>4. \A i \in good : hashes[i] \in ToSet(hashes) \cap Line[t]
    BY DEF ToSet
  <1>5. good = {} => ToSet(hashes) \cap Line[t] = {}
    BY DEF ToSet
  <1> HIDE DEF good, first
  <1> QED BY <1>2, <1>3, <1>4, <1>5

\* CheckBlockIsInRange sees every block that lies between bottom and top, so
\* no spending on the branch is missed.
LEMMA RangeSeesBranch ==
    ASSUME NEW t \in Block, NEW top \in Block,
           NEW hash \in Line[top], NEW bottom \in Line[top],
           Height[bottom] <= Height[hash]
    PROVE  CheckBlockIsInRange(Line[t], hash, bottom, top)
  <1> DEFINE base == TopInChain(Line[t], top)
  <1>1. /\ Height[hash] \in Nat /\ Height[bottom] \in Nat
        /\ Height[top] \in Nat /\ Height[hash] <= Height[top]
    BY LineTop
  <1>2. base \in Line[top] /\ (top \in Line[t] => base = top)
    BY TopInChainFacts
  <1>3. Height[base] \in Nat
    BY <1>2, LineTop
  <1>4. CASE top \in Line[t]
    <2>1. bottom \notin Walked(Line[t], top)
      BY <1>4 DEF Walked
    <2>2. Between(hash, bottom, base)
      BY <1>1, <1>2, <1>4 DEF Between
    <2> QED BY <2>1, <2>2 DEF CheckBlockIsInRange
  <1>5. CASE top \notin Line[t]
    <2>1. Walked(Line[t], top) = {c \in Line[top] : Height[c] >= Height[base]}
      BY <1>5 DEF Walked, Passed
    <2>2. CASE hash \in Walked(Line[t], top)
      BY <1>1, <2>2 DEF CheckBlockIsInRange, MeetsHash
    <2>3. CASE hash \notin Walked(Line[t], top)
      <3> HIDE DEF base
      <3>1. Height[hash] < Height[base]
        BY <1>1, <1>3, <2>1, <2>3
      <3>2. bottom \notin Walked(Line[t], top)
        BY <1>1, <1>3, <2>1, <3>1
      <3>3. Between(hash, bottom, base)
        BY <1>1, <1>3, <3>1 DEF Between
      <3> QED BY <3>2, <3>3 DEF CheckBlockIsInRange, base
    <2> QED BY <2>2, <2>3
  <1> QED BY <1>4, <1>5

(***************************************************************************)
(* Two branches                                                            *)
(***************************************************************************)

\* The next block the iterator returns is the previous one.
LEMMA DownParent ==
    ASSUME NEW b \in Block, NEW i \in 1 .. Height[b]
    PROVE  Parent[Down(b)[i]] = Down(b)[i + 1]
  <1> DEFINE c == Down(b)[i]
  <1>1. Height[b] \in Nat /\ i \in 1 .. Height[b] + 1
    BY LineTop
  <1>2. c \in Line[b] /\ Height[c] = Height[b] + 1 - i
    BY <1>1, DownFacts
  <1> HIDE DEF c
  <1>3. c \in Block /\ c # Genesis
    BY <1>1, <1>2, LineTop, ParentAssumption
  <1>4. Parent[c] \in Line[b] /\ Height[Parent[c]] = Height[b] - i
    BY <1>1, <1>2, <1>3, PreviousBlock, SameLine, LineTop
  <1>5. Height[b] + 1 - Height[Parent[c]] = i + 1
    BY <1>1, <1>4
  <1>6. Down(b)[Height[b] + 1 - Height[Parent[c]]] = Parent[c]
    BY <1>4, DownFacts
  <1> QED BY ONLY <1>5, <1>6 DEF c

\* The branches meet in their highest common block.
LEMMA MeetFacts ==
    ASSUME NEW hash \in Block, NEW tip \in Block
    PROVE  LET meet == MeetHeight(hash, tip)
               base == BlockUnder(tip, meet)
           IN  /\ meet \in Nat /\ meet <= Height[hash] /\ meet <= Height[tip]
               /\ base = BlockUnder(hash, meet)
               /\ base \in Line[hash] /\ base \in Line[tip]
               /\ Height[base] = meet
               /\ \A c \in Line[hash] : c \in Line[tip] <=> Height[c] <= meet
               /\ \A c \in Line[tip] : c \in Line[hash] <=> Height[c] <= meet
  <1> DEFINE low == Lower(Height[hash], Height[tip])
             same == {n \in 0 .. low : BlockUnder(hash, n) = BlockUnder(tip, n)}
             meet == MeetHeight(hash, tip)
             base == BlockUnder(tip, meet)
  <1>1. /\ Height[hash] \in Nat /\ Height[tip] \in Nat /\ low \in Nat
        /\ low <= Height[hash] /\ low <= Height[tip]
        /\ low = Height[hash] \/ low = Height[tip]
    BY LineTop DEF Lower
  <1> HIDE DEF low
  <1>2. ASSUME NEW b \in Block, NEW c \in Line[b] PROVE BlockUnder(b, Height[c]) = c
    <2>1. Height[c] \in 0 .. Height[b]
      BY LineTop
    <2> QED BY <2>1, UnderFacts, SameLine
  <1>3. same \in SUBSET Nat /\ \A n \in same : n <= low
    BY <1>1
  <1>4. same # {}
    <2>1. BlockUnder(hash, 0) = Genesis /\ BlockUnder(tip, 0) = Genesis
      BY <1>2, LineTop, ParentAssumption
    <2> QED BY <1>1, <2>1
  <1>5. PICK n \in same : \A m \in same : m <= n
    <2> HIDE DEF same
    <2> QED BY <1>1, <1>3, <1>4, GreatestElement
  <1>6. \A m \in n + 1 .. low : BlockUnder(hash, m) # BlockUnder(tip, m)
    BY <1>1, <1>5
  <1>7. /\ meet \in 0 .. low
        /\ BlockUnder(hash, meet) = BlockUnder(tip, meet)
        /\ \A m \in meet + 1 .. low : BlockUnder(hash, m) # BlockUnder(tip, m)
    BY <1>5, <1>6 DEF MeetHeight, low
  <1> HIDE DEF meet, same
  <1>8. meet \in 0 .. Height[hash] /\ meet \in 0 .. Height[tip]
    BY <1>1, <1>7
  <1>9. base \in Line[hash] /\ base \in Line[tip] /\ Height[base] = meet
    BY <1>7, <1>8, UnderFacts
  <1>10. ASSUME NEW c \in Line[hash] \cap Line[tip] PROVE Height[c] <= meet
    <2>1. Height[c] \in 0 .. low
      BY <1>1, LineTop
    <2>2. BlockUnder(hash, Height[c]) = BlockUnder(tip, Height[c])
      BY <1>2
    <2> QED BY <1>1, <1>7, <2>1, <2>2
  <1>11. ASSUME NEW a \in Block, NEW b \in Block, base \in Line[a], base \in Line[b],
                NEW c \in Line[a], Height[c] <= meet
         PROVE  c \in Line[b]
    BY <1>9, <1>11, SameLine
  <1>12. QED
    <2>1. \A c \in Line[hash] : Height[c] <= meet => c \in Line[tip]
      BY <1>9, <1>11
    <2>2. \A c \in Line[tip] : Height[c] <= meet => c \in Line[hash]
      BY <1>9, <1>11
    <2> QED BY <1>7, <1>8, <1>9, <1>10, <2>1, <2>2 DEF meet

\* The blocks of a branch above its meeting point, highest first.
LEMMA UpperPart ==
    ASSUME NEW b \in Block, NEW meet \in 0 .. Height[b]
    PROVE  LET part == SubSeq(Down(b), 1, Height[b] - meet)
           IN  /\ part \in Seq(Block)
               /\ Len(part) = Height[b] - meet
               /\ \A i \in 1 .. Len(part) :
                     /\ part[i] \in Line[b]
                     /\ Height[part[i]] = Height[b] + 1 - i
                     /\ Parent[part[i]] = IF i = Len(part)
                                          THEN BlockUnder(b, meet)
                                          ELSE part[i + 1]
               /\ Len(part) > 0 => part[1] = b
               /\ ToSet(part) = {c \in Line[b] : Height[c] > meet}
  <1> DEFINE part == SubSeq(Down(b), 1, Height[b] - meet)
             len == Height[b] - meet
  <1>1. Height[b] \in Nat /\ meet \in Nat /\ len \in Nat /\ meet <= Height[b]
    BY LineTop
  <1>2. /\ Down(b) \in Seq(Block) /\ Len(Down(b)) = Height[b] + 1
        /\ \A i \in 1 .. len : Down(b)[i] \in Block
    BY <1>1, DownFacts, LineTop
  <1>3. /\ part \in Seq(Block) /\ Len(part) = len
        /\ \A i \in 1 .. len : part[i] = Down(b)[i]
    BY <1>1, <1>2
  <1> HIDE DEF part
  <1>4. ASSUME NEW i \in 1 .. len
        PROVE  /\ part[i] \in Line[b]
               /\ Height[part[i]] = Height[b] + 1 - i
               /\ Parent[part[i]] = IF i = len THEN BlockUnder(b, meet) ELSE part[i + 1]
    <2>1. i \in 1 .. Height[b] /\ i \in 1 .. Height[b] + 1
      BY <1>1
    <2>2. part[i] \in Line[b] /\ Height[part[i]] = Height[b] + 1 - i
      <3>1. part[i] = Down(b)[i]
        BY <1>3
      <3>2. Down(b)[i] \in Line[b] /\ Height[Down(b)[i]] = Height[b] + 1 - i
        BY <2>1, DownFacts
      <3> QED BY ONLY <3>1, <3>2
    <2>3. Parent[part[i]] = Down(b)[i + 1]
      BY <1>3, <2>1, DownParent
    <2>4. CASE i = len
      <3>1. Height[b] + 1 - meet = i + 1
        BY <1>1, <2>4
      <3> QED BY <2>2, <2>3, <2>4, <3>1 DEF BlockUnder
    <2>5. CASE i # len
      <3>1. i + 1 \in 1 .. len
        BY <1>1, <2>5
      <3> QED BY <1>3, <2>2, <2>3, <2>5, <3>1
    <2> QED BY <2>4, <2>5
  <1>5. ASSUME len > 0 PROVE part[1] = b
    <2>1. part[1] \in Line[b] /\ Height[part[1]] = Height[b]
      BY <1>1, <1>4, <1>5
    <2> QED BY <2>1, LineTop, SameLine
  <1>6. ASSUME NEW c \in Line[b], Height[c] > meet PROVE c \in ToSet(part)
    <2> DEFINE i == Height[b] + 1 - Height[c]
    <2>1. Height[c] \in Nat /\ Height[c] <= Height[b]
      BY LineTop
    <2>2. i \in 1 .. len
      BY <1>1, <1>6, <2>1
    <2>3. part[i] = c
      BY <1>3, <2>2, DownFacts
    <2> HIDE DEF i
    <2> QED BY <1>3, <2>2, <2>3 DEF ToSet
  <1>7. ASSUME NEW i \in 1 .. len PROVE Height[part[i]] > meet
    BY <1>1, <1>4
  <1>8. ToSet(part) = {c \in Line[b] : Height[c] > meet}
    BY <1>3, <1>4, <1>6, <1>7 DEF ToSet
  <1> QED BY <1>3, <1>4, <1>5, <1>8 DEF part

LEMMA ReverseFacts ==
    ASSUME NEW S, NEW s \in Seq(S)
    PROVE  /\ Reverse(s) \in Seq(S)
           /\ Len(Reverse(s)) = Len(s)
           /\ \A i \in 1 .. Len(s) : /\ Len(s) - i + 1 \in 1 .. Len(s)
                                     /\ Reverse(s)[i] = s[Len(s) - i + 1]
                                     /\ Reverse(s)[Len(s) - i + 1] = s[i]
           /\ ToSet(Reverse(s)) = ToSet(s)
  <1>1. Len(s) \in Nat
    OBVIOUS
  <1>2. \A i \in 1 .. Len(s) : Len(s) - i + 1 \in 1 .. Len(s) /\ s[Len(s) - i + 1] \in S
    <2>1. \A i \in 1 .. Len(s) : Len(s) - i + 1 \in 1 .. Len(s)
      OBVIOUS
    <2>2. \A i \in 1 .. Len(s) : s[i] \in S
      OBVIOUS
    <2> QED BY <2>1, <2>2
  <1>3. Reverse(s) \in Seq(S) /\ Len(Reverse(s)) = Len(s)
    BY <1>1, <1>2 DEF Reverse
  <1>4. \A i \in 1 .. Len(s) : Reverse(s)[i] = s[Len(s) - i + 1]
    BY DEF Reverse
  <1>5. \A i \in 1 .. Len(s) : Reverse(s)[Len(s) - i + 1] = s[i]
    <2>1. \A i \in 1 .. Len(s) : Len(s) - (Len(s) - i + 1) + 1 = i
      OBVIOUS
    <2> QED BY <1>2, <1>4, <2>1
  <1>6. ToSet(Reverse(s)) = ToSet(s)
    <2>1. DOMAIN Reverse(s) = 1 .. Len(s) /\ DOMAIN s = 1 .. Len(s)
      BY <1>3
    <2> QED BY <1>2, <1>4, <1>5, <2>1 DEF ToSet
  <1> QED BY <1>2, <1>3, <1>4, <1>5, <1>6

\* When the branch of new replaces that of old, the blocks that left are those
\* of the old branch from its top down to the meeting point, and the blocks
\* that entered those of the new one from the meeting point up.
LEMMA ReplacementFacts ==
    ASSUME NEW old \in Block, NEW new \in Block, old \notin Line[new]
    PROVE  LET change == GetBranchesReplacement(old, new)
               base == BlockUnder(new, MeetHeight(old, new))
           IN  /\ base \in Line[old] /\ base \in Line[new]
               /\ change.old \in Seq(Block) /\ change.new \in Seq(Block)
               /\ ToSet(change.old) = Line[old] \ Line[new]
               /\ ToSet(change.new) = Line[new] \ Line[old]
               /\ Len(change.old) > 0 /\ change.old[1] = old
               /\ \A i \in 1 .. Len(change.old) :
                     Parent[change.old[i]] =
                         IF i = Len(change.old) THEN base ELSE change.old[i + 1]
               /\ \A i \in 1 .. Len(change.new) :
                     Parent[change.new[i]] =
                         IF i = 1 THEN base ELSE change.new[i - 1]
               /\ IF Len(change.new) > 0 THEN change.new[Len(change.new)] = new
                  ELSE base = new
  <1> DEFINE change == GetBranchesReplacement(old, new)
             meet == MeetHeight(old, new)
             base == BlockUnder(new, meet)
             left == SubSeq(Down(old), 1, Height[old] - meet)
             up == SubSeq(Down(new), 1, Height[new] - meet)
  <1>1. /\ meet \in Nat /\ meet <= Height[old] /\ meet <= Height[new]
        /\ Height[old] \in Nat /\ Height[new] \in Nat
        /\ base = BlockUnder(old, meet)
        /\ base \in Line[old] /\ base \in Line[new] /\ Height[base] = meet
        /\ \A c \in Line[old] : c \in Line[new] <=> Height[c] <= meet
        /\ \A c \in Line[new] : c \in Line[old] <=> Height[c] <= meet
    BY MeetFacts, LineTop
  <1>2. base # old
    BY <1>1
  <1>3. change.old = left /\ change.new = Reverse(up)
    BY <1>2 DEF GetBranchesReplacement, GetSideBranch
  <1> HIDE DEF change, meet
  <1>4. meet \in 0 .. Height[old] /\ meet \in 0 .. Height[new]
    BY <1>1
  <1>5. /\ left \in Seq(Block)
        /\ Len(left) = Height[old] - meet
        /\ \A i \in 1 .. Len(left) :
              Parent[left[i]] = IF i = Len(left) THEN base ELSE left[i + 1]
        /\ Len(left) > 0 => left[1] = old
        /\ ToSet(left) = {c \in Line[old] : Height[c] > meet}
    BY <1>1, <1>4, UpperPart, ZenonT(40)
  <1>6. /\ up \in Seq(Block)
        /\ Len(up) = Height[new] - meet
        /\ \A i \in 1 .. Len(up) :
              Parent[up[i]] = IF i = Len(up) THEN base ELSE up[i + 1]
        /\ Len(up) > 0 => up[1] = new
        /\ ToSet(up) = {c \in Line[new] : Height[c] > meet}
    BY <1>4, UpperPart
  <1> HIDE DEF left, up, base
  <1>7. Len(left) > 0
    BY <1>1, <1>5, LineTop
  <1>8. /\ ToSet(left) = Line[old] \ Line[new]
        /\ ToSet(up) = Line[new] \ Line[old]
    <2>1. \A c \in Line[old] \cup Line[new] : Height[c] > meet <=> ~(Height[c] <= meet)
      BY <1>1, LineTop
    <2> QED BY <1>1, <1>5, <1>6, <2>1
  <1>9. /\ Reverse(up) \in Seq(Block)
        /\ Len(Reverse(up)) = Len(up)
        /\ ToSet(Reverse(up)) = ToSet(up)
        /\ \A i \in 1 .. Len(up) : /\ Len(up) - i + 1 \in 1 .. Len(up)
                                   /\ Reverse(up)[i] = up[Len(up) - i + 1]
                                   /\ Reverse(up)[Len(up) - i + 1] = up[i]
    BY <1>6, ReverseFacts
  <1>10. ASSUME NEW i \in 1 .. Len(up)
         PROVE  Parent[Reverse(up)[i]] = IF i = 1 THEN base ELSE Reverse(up)[i - 1]
    <2> DEFINE j == Len(up) - i + 1
    <2>1. j \in 1 .. Len(up) /\ Reverse(up)[i] = up[j] /\ Len(up) \in Nat
      BY <1>6, <1>9
    <2>2. CASE i = 1
      BY <1>6, <2>1, <2>2
    <2>3. CASE i # 1
      <3>1. i - 1 \in 1 .. Len(up) /\ Len(up) - (i - 1) + 1 = j + 1 /\ j # Len(up)
        BY <2>1, <2>3
      <3>2. Reverse(up)[i - 1] = up[j + 1]
        BY <1>9, <3>1
      <3>3. Parent[up[j]] = up[j + 1]
        BY <1>6, <2>1, <3>1
      <3> QED BY <2>1, <2>3, <3>2, <3>3
    <2> QED BY <2>2, <2>3
  <1>11. IF Len(up) > 0 THEN Reverse(up)[Len(up)] = new ELSE base = new
    <2>1. CASE Len(up) > 0
      <3>1. Len(up) \in 1 .. Len(up) /\ 1 \in 1 .. Len(up) /\ Len(up) - 1 + 1 = Len(up)
        BY <1>6, <2>1
      <3> QED BY <1>6, <1>9, <2>1, <3>1
    <2>2. CASE ~(Len(up) > 0)
      <3>1. Height[base] = Height[new]
        BY <1>1, <1>6, <2>2
      <3> QED BY <1>1, <2>2, <3>1, LineTop, SameLine
    <2> QED BY <2>1, <2>2
  <1> QED BY <1>1, <1>3, <1>5, <1>7, <1>8, <1>9, <1>10, <1>11 DEF base, meet, change

(***************************************************************************)
(* Picking from a sequence                                                 *)
(***************************************************************************)

\* The function that Keeping computes exists, however long the sequence is:
\* from the least prefix without one, one would follow.
LEMMA KeepingExists ==
    ASSUME NEW S, NEW s \in Seq(S), NEW K
    PROVE  \E f : f = [n \in 0 .. Len(s) |->
                        IF n = 0 THEN << >>
                        ELSE IF s[n] \in K THEN Append(f[n - 1], s[n])
                        ELSE f[n - 1]]
  <1> DEFINE Step(f, n) == IF n = 0 THEN << >>
                           ELSE IF s[n] \in K THEN Append(f[n - 1], s[n])
                           ELSE f[n - 1]
             Good(m) == \E f : /\ DOMAIN f = 0 .. m
                               /\ f = [n \in 0 .. m |-> Step(f, n)]
             T == {m \in 0 .. Len(s) : ~Good(m)}
  <1>1. Len(s) \in Nat /\ T \in SUBSET Nat
    OBVIOUS
  <1>2. CASE T # {}
    <2> HIDE DEF T
    <2>1. PICK m \in T : \A n \in T : m <= n
      BY <1>1, <1>2, LeastElement
    <2>2. m \in 0 .. Len(s) /\ ~Good(m)
      BY <2>1 DEF T
    <2>3. CASE m = 0
      <3> DEFINE f == [n \in 0 .. 0 |-> << >>]
      <3>1. f = [n \in 0 .. 0 |-> Step(f, n)] /\ DOMAIN f = 0 .. 0
        OBVIOUS
      <3> QED BY <2>2, <2>3, <3>1
    <2>4. CASE m # 0
      <3>1. m - 1 \in 0 .. Len(s) /\ m - 1 \notin T
        BY <2>1, <2>2, <2>4
      <3>2. PICK g : DOMAIN g = 0 .. m - 1 /\ g = [n \in 0 .. m - 1 |-> Step(g, n)]
        BY <3>1 DEF T
      <3> DEFINE f == [n \in 0 .. m |-> IF n = m THEN Step(g, m) ELSE g[n]]
      <3>3. \A n \in 0 .. m : f[n] = Step(f, n)
        <4> TAKE n \in 0 .. m
        <4>1. CASE n = 0
          <5>1. f[0] = g[0] /\ g[0] = Step(g, 0)
            BY <2>2, <2>4, <3>2
          <5> QED BY <4>1, <5>1
        <4>2. CASE n # 0
          <5>1. n - 1 \in 0 .. m - 1 /\ n - 1 # m
            BY <4>2, <2>2
          <5>2. f[n - 1] = g[n - 1]
            BY <5>1, <2>2
          <5>3. f[n] = Step(g, n)
            <6>1. CASE n = m
              BY <6>1
            <6>2. CASE n # m
              <7>1. n \in 0 .. m - 1 /\ f[n] = g[n]
                BY <6>2, <2>2
              <7> QED BY <7>1, <3>2
            <6> QED BY <6>1, <6>2
          <5>4. Step(f, n) = IF s[n] \in K THEN Append(f[n - 1], s[n])
                             ELSE f[n - 1]
            BY <4>2
          <5>5. Step(g, n) = IF s[n] \in K THEN Append(g[n - 1], s[n])
                             ELSE g[n - 1]
            BY <4>2
          <5> HIDE DEF f
          <5> QED BY <5>2, <5>3, <5>4, <5>5
        <4> QED BY <4>1, <4>2
      <3>4. f = [n \in 0 .. m |-> Step(f, n)] /\ DOMAIN f = 0 .. m
        BY <3>3
      <3> QED BY <2>2, <3>4
    <2> QED BY <2>3, <2>4
  <1>3. CASE T = {}
    BY <1>1, <1>3, SMTT(25)
  <1> QED BY <1>2, <1>3

\* What Keeping returns: a sequence of the same kind that holds exactly the
\* members of the set.
LEMMA KeepingFacts ==
    ASSUME NEW S, NEW s \in Seq(S), NEW K
    PROVE  /\ Keeping(s, K) \in Seq(S)
           /\ ToSet(Keeping(s, K)) = ToSet(s) \cap K
  <1> DEFINE Step(f, n) == IF n = 0 THEN << >>
                           ELSE IF s[n] \in K THEN Append(f[n - 1], s[n])
                           ELSE f[n - 1]
             kept == CHOOSE f : f = [n \in 0 .. Len(s) |-> Step(f, n)]
             Right(n) == /\ kept[n] \in Seq(S)
                         /\ ToSet(kept[n]) = {s[i] : i \in 1 .. n} \cap K
             T == {n \in 0 .. Len(s) : ~Right(n)}
  <1>1. Len(s) \in Nat /\ T \in SUBSET Nat
    OBVIOUS
  <1>2. kept = [n \in 0 .. Len(s) |-> Step(kept, n)]
    <2>1. \E f : f = [n \in 0 .. Len(s) |-> Step(f, n)]
      BY KeepingExists
    <2> HIDE DEF Step
    <2> QED BY <2>1, ZenonT(40)
  <1>3. \A n \in 0 .. Len(s) : kept[n] = Step(kept, n)
    BY <1>2
  <1>4. Keeping(s, K) = kept[Len(s)]
    BY DEF Keeping
  <1>5. CASE T # {}
    <2> HIDE DEF T
    <2>1. PICK m \in T : \A n \in T : m <= n
      BY <1>1, <1>5, LeastElement
    <2>2. m \in 0 .. Len(s) /\ ~Right(m)
      BY <2>1 DEF T
    <2> HIDE DEF kept
    <2>3. CASE m = 0
      <3>1. kept[0] = << >> /\ {s[i] : i \in 1 .. 0} = {}
        BY <1>1, <1>3
      <3>2. ToSet(kept[0]) = {}
        BY <3>1 DEF ToSet
      <3> QED BY <2>2, <2>3, <3>1, <3>2
    <2>4. CASE m # 0
      <3>1. m - 1 \in 0 .. Len(s) /\ m - 1 \notin T
        BY <2>1, <2>2, <2>4
      <3>2. Right(m - 1)
        BY <3>1 DEF T
      <3>3. /\ s[m] \in S
            /\ {s[i] : i \in 1 .. m} = {s[i] : i \in 1 .. m - 1} \cup {s[m]}
        <4>1. m \in 1 .. Len(s) /\ 1 .. m = (1 .. m - 1) \cup {m}
          BY <2>2, <2>4
        <4> QED BY <4>1
      <3>4. CASE s[m] \in K
        <4>1. kept[m] = Append(kept[m - 1], s[m])
          BY <1>3, <2>2, <2>4, <3>4
        <4>2. ToSet(kept[m]) = ToSet(kept[m - 1]) \cup {s[m]}
          <5> DEFINE k == kept[m - 1]
          <5>1. k \in Seq(S) /\ Len(k) \in Nat /\ DOMAIN k = 1 .. Len(k)
            BY <3>2
          <5> HIDE DEF k
          <5>2. /\ DOMAIN Append(k, s[m]) = 1 .. Len(k) + 1
                /\ \A i \in 1 .. Len(k) : Append(k, s[m])[i] = k[i]
                /\ Append(k, s[m])[Len(k) + 1] = s[m]
            BY <5>1, <3>3
          <5>3. ToSet(Append(k, s[m])) = ToSet(k) \cup {s[m]}
            BY <5>1, <5>2 DEF ToSet
          <5> QED BY <4>1, <5>3 DEF k
        <4>3. kept[m] \in Seq(S)
          BY <4>1, <3>2, <3>3
        <4> QED BY <2>2, <3>2, <3>3, <3>4, <4>2, <4>3
      <3>5. CASE s[m] \notin K
        <4>1. kept[m] = kept[m - 1]
          BY <1>3, <2>2, <2>4, <3>5
        <4> QED BY <2>2, <3>2, <3>3, <3>5, <4>1
      <3> QED BY <3>4, <3>5
    <2> QED BY <2>3, <2>4
  <1>6. CASE T = {}
    <2> HIDE DEF kept
    <2>1. Right(Len(s))
      <3>1. Len(s) \in 0 .. Len(s)
        BY <1>1
      <3> HIDE DEF Right
      <3> QED BY <3>1, <1>6
    <2>2. ToSet(s) = {s[i] : i \in 1 .. Len(s)}
      BY DEF ToSet
    <2> QED BY <1>4, <2>1, <2>2
  <1> QED BY <1>5, <1>6
=============================================================================
