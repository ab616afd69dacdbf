------------------------------ MODULE SyncProofs ------------------------------
(***************************************************************************)
(* Proofs about Sync, for any number of nodes, any tree of blocks and any  *)
(* size of an announcement: every node's store stays a main chain, no      *)
(* message makes its receiver dereference what is not there, no list of    *)
(* announced blocks is left without a handler that goes on with it, and    *)
(* the nodes agree when nothing goes on.                                   *)
(***************************************************************************)
EXTENDS Sync, LookupProofs

(***************************************************************************)
(* The inductive invariant                                                 *)
(***************************************************************************)

\* With a block its whole branch is stored, and the top is a highest one.
StoreInv ==
    \A n \in Node :
        /\ \A b \in known[n] : /\ Line[b] \subseteq known[n]
                                /\ Height[b] <= Height[tip[n]]
        /\ known[n] # {} => tip[n] \in known[n]

\* Imported blocks follow one another, from the genesis block or from the top
\* of what was imported so far; the node has no other blocks yet.
ImportInv ==
    \A n \in Node :
        /\ \A i \in 1 .. Len(import[n]) - 1 :
              Parent[import[n][i + 1]] = import[n][i]
        /\ import[n] # << >> =>
              IF known[n] = {} THEN Head(import[n]) = Genesis
              ELSE known[n] = Line[tip[n]] /\ Parent[Head(import[n])] = tip[n]

\* No server stopped, or none while an exchange went on.
Steady == stops = 0 \/ rush = 0

\* Messages go to servers that run, and ask for or announce what the other
\* node has; unless a server stopped amid an exchange they come from one that runs.
Sound(msg) ==
    /\ msg \in Message
    /\ msg.to \in up
    /\ Steady => msg.from \in up
    /\ msg.type \in {"getblocks", "getdata"} => msg.block \in known[msg.to]
    /\ msg.type = "inv" =>
          msg.items # << >> /\ ToSet(msg.items) \subseteq known[msg.from]
    /\ msg.type \in {"shifted", "block"} => msg.block \in known[msg.from]

MessageInv == \A msg \in BagToSet(pending) : Sound(msg)

\* So is what a handler took from the list of a node, and the rest of it.
LoopInv ==
    \A n \in Node : loop[n] # NoLoop =>
        /\ n \in up
        /\ Steady => loop[n].from \in up
        /\ loop[n].block \in known[loop[n].from]

TransitInv ==
    \A n, m \in Node :
        /\ ToSet(transit[n][m]) \subseteq known[m]
        /\ transit[n][m] # << >> /\ Steady => m \in up

\* A message that makes a handler of node n go on with the list of node m.
Serves(msg, n, m) ==
    \/ /\ msg.to = n /\ msg.from = m
       /\ msg.type \in {"inv", "added", "shifted", "block"}
    \/ msg.to = m /\ msg.from = n /\ msg.type = "getdata"

Served(n, m) ==
    transit[n][m] # << >> =>
        \/ loop[n].from = m
        \/ \E msg \in BagToSet(pending) : Serves(msg, n, m)

\* TransitIsServed, and the same when every stop found nothing going on.
ListsServed == Steady => \A n, m \in Node : Served(n, m)

IInv ==
    /\ TypeOK /\ StoreInv /\ ImportInv
    /\ MessageInv /\ LoopInv /\ TransitInv
    /\ ListsServed

(***************************************************************************)
(* Lemmas about bags of messages                                           *)
(***************************************************************************)

LEMMA BagPlus ==
    ASSUME NEW B, IsABag(B), NEW C, IsABag(C)
    PROVE  IsABag(B (+) C) /\ BagToSet(B (+) C) = BagToSet(B) \cup BagToSet(C)
BY DEF IsABag, BagToSet, (+)

LEMMA BagOfSet ==
    ASSUME NEW S
    PROVE  IsABag(SetToBag(S)) /\ BagToSet(SetToBag(S)) = S
BY DEF IsABag, BagToSet, SetToBag

LEMMA BagEmpty == IsABag(EmptyBag) /\ BagToSet(EmptyBag) = {}
BY BagOfSet DEF EmptyBag

\* One copy of an element is taken: the others stay.
LEMMA BagMinus ==
    ASSUME NEW B, IsABag(B), NEW e
    PROVE  /\ IsABag(B (-) SetToBag({e}))
           /\ BagToSet(B (-) SetToBag({e})) \subseteq BagToSet(B)
           /\ BagToSet(B) \subseteq BagToSet(B (-) SetToBag({e})) \cup {e}
<1> DEFINE C == [d \in DOMAIN B |-> IF d \in {e} THEN B[d] - 1 ELSE B[d]]
           D == {d \in DOMAIN C : C[d] > 0}
<1>1. B (-) SetToBag({e}) = [d \in D |-> C[d]]
  BY DEF (-), SetToBag
<1>2. \A d \in DOMAIN B : B[d] \in Nat /\ B[d] > 0
  BY DEF IsABag
<1>3. \A d \in D : C[d] \in {n \in Nat : n > 0}
  BY <1>2
<1>4. \A d \in DOMAIN B : d # e => d \in D
  BY <1>2
<1>5. D \subseteq DOMAIN B
  OBVIOUS
<1> HIDE DEF C, D
<1> QED BY <1>1, <1>3, <1>4, <1>5 DEF IsABag, BagToSet

\* Only what goes to a server that listens is sent.
LEMMA SendFacts ==
    ASSUME NEW msgs
    PROVE  /\ IsABag(Send(msgs))
           /\ BagToSet(Send(msgs)) = {msg \in msgs : msg.to \in up}
BY BagOfSet DEF Send

\* An answer takes the place of the message.
LEMMA Answered ==
    ASSUME IsABag(pending), NEW msg, NEW C, IsABag(C)
    PROVE  /\ IsABag(Received(msg) (+) C)
           /\ BagToSet(Received(msg) (+) C)
                  \subseteq BagToSet(pending) \cup BagToSet(C)
           /\ BagToSet(C) \subseteq BagToSet(Received(msg) (+) C)
           /\ BagToSet(pending)
                  \subseteq BagToSet(Received(msg) (+) C) \cup {msg}
<1>1. /\ IsABag(Received(msg))
      /\ BagToSet(Received(msg)) \subseteq BagToSet(pending)
      /\ BagToSet(pending) \subseteq BagToSet(Received(msg)) \cup {msg}
  BY BagMinus DEF Received
<1> QED BY <1>1, BagPlus

(***************************************************************************)
(* Lemmas about the blocks that are announced                              *)
(***************************************************************************)

\* A part of the way down from a block, either way round, is of its branch.
LEMMA PartOfLine ==
    ASSUME NEW b \in Block, NEW s \in {Down(b), Reverse(Down(b))},
           NEW from \in 1 .. Height[b] + 1, NEW to \in from .. Height[b] + 1
    PROVE  LET part == SubSeq(s, from, to)
           IN  /\ part \in Seq(Block) /\ Len(part) = to - from + 1
               /\ \A i \in 1 .. Len(part) : part[i] = s[from + i - 1]
               /\ ToSet(part) \subseteq Line[b]
<1> DEFINE part == SubSeq(s, from, to)
<1>1. Height[b] \in Nat /\ Down(b) \in Seq(Block) /\ Len(Down(b)) = Height[b] + 1
      /\ ToSet(Down(b)) \subseteq Line[b]
  <2>1. /\ Height[b] \in Nat /\ Down(b) \in Seq(Block)
        /\ Len(Down(b)) = Height[b] + 1
        /\ \A i \in 1 .. Height[b] + 1 : Down(b)[i] \in Line[b]
    BY LineTop, DownFacts
  <2>2. DOMAIN Down(b) = 1 .. Height[b] + 1
    BY <2>1
  <2> QED BY <2>1, <2>2 DEF ToSet
<1>2. s \in Seq(Block) /\ Len(s) = Height[b] + 1 /\ ToSet(s) \subseteq Line[b]
  BY <1>1, ReverseFacts
<1>3. s \in Seq(Block) /\ from \in 1 .. Len(s) /\ to \in from .. Len(s)
      /\ Len(s) \in Nat
  BY <1>1, <1>2
<1>4. part \in Seq(Block) /\ Len(part) = to - from + 1
  BY <1>3
<1>5. \A i \in 1 .. to - from + 1 : part[i] = s[from + i - 1]
  BY <1>3
<1>6. \A i \in 1 .. to - from + 1 : from + i - 1 \in DOMAIN s
  BY <1>3
<1>7. DOMAIN part = 1 .. to - from + 1
  BY <1>4
<1>8. ToSet(part) \subseteq ToSet(s)
  <2> HIDE DEF part
  <2> QED BY <1>5, <1>6, <1>7 DEF ToSet
<1>9. \A i \in 1 .. Len(part) : part[i] = s[from + i - 1]
  BY <1>4, <1>5
<1>10. ToSet(part) \subseteq Line[b]
  BY <1>2, <1>8
<1> QED BY <1>4, <1>9, <1>10

LEMMA LowerFacts ==
    ASSUME NEW m \in Int, NEW n \in Int
    PROVE  Lower(m, n) \in {m, n} /\ Lower(m, n) <= m /\ Lower(m, n) <= n
BY DEF Lower

\* What is announced upwards from a block of node n: blocks it has, and some.
LEMMA NextBlocksFacts ==
    ASSUME NEW n, tip[n] \in Block, Line[tip[n]] \subseteq known[n],
           NEW b \in known[n], b \in Block
    PROVE  /\ NextBlocks(n, b) \in Seq(Block) /\ Len(NextBlocks(n, b)) > 0
           /\ ToSet(NextBlocks(n, b)) \subseteq known[n]
<1>1. CASE b \notin Line[tip[n]]
  <2>1. NextBlocks(n, b) = <<b>>
    BY <1>1 DEF NextBlocks
  <2>2. ToSet(<<b>>) = {b} /\ <<b>> \in Seq(Block) /\ Len(<<b>>) = 1
    BY DEF ToSet
  <2> QED BY <2>1, <2>2
<1>2. CASE b \in Line[tip[n]]
  <2> DEFINE from == Height[b] + 1
             to == Lower(Height[tip[n]] + 1, Height[b] + MaxCount)
  <2>1. Height[b] \in Nat /\ Height[tip[n]] \in Nat /\ Height[b] <= Height[tip[n]]
        /\ MaxCount \in Nat \ {0}
    BY <1>2, LineTop, SyncAssumption
  <2>2. from \in 1 .. Height[tip[n]] + 1 /\ to \in from .. Height[tip[n]] + 1
    BY <2>1 DEF Lower
  <2>3. NextBlocks(n, b) = SubSeq(Reverse(Down(tip[n])), from, to)
    BY <1>2 DEF NextBlocks
  <2>4. /\ NextBlocks(n, b) \in Seq(Block)
        /\ Len(NextBlocks(n, b)) = to - from + 1
        /\ ToSet(NextBlocks(n, b)) \subseteq Line[tip[n]]
    <3> HIDE DEF from, to
    <3> QED BY <2>2, <2>3, PartOfLine
  <2> QED BY <2>1, <2>2, <2>4
<1> QED BY <1>1, <1>2

LEMMA BlocksShortInfoFacts ==
    ASSUME NEW b \in Block
    PROVE  /\ BlocksShortInfo(b) \in Seq(Block) /\ Len(BlocksShortInfo(b)) > 0
           /\ ToSet(BlocksShortInfo(b)) \subseteq Line[b]
<1> DEFINE to == Lower(Height[b] + 1, MaxCount + 1)
<1>1. Height[b] \in Nat /\ MaxCount \in Nat
  BY LineTop, SyncAssumption
<1>2. 1 \in 1 .. Height[b] + 1 /\ to \in 1 .. Height[b] + 1
  BY <1>1 DEF Lower
<1>3. BlocksShortInfo(b) = SubSeq(Down(b), 1, to)
  BY DEF BlocksShortInfo
<1>4. /\ BlocksShortInfo(b) \in Seq(Block)
      /\ Len(BlocksShortInfo(b)) = to - 1 + 1
      /\ ToSet(BlocksShortInfo(b)) \subseteq Line[b]
  <2> HIDE DEF to
  <2> QED BY <1>2, <1>3, PartOfLine
<1> QED BY <1>2, <1>4

\* The block announced first: the list loses it and keeps its place.
LEMMA ListFacts ==
    ASSUME NEW S, NEW s \in Seq(S), s # << >>
    PROVE  /\ Head(s) \in ToSet(s) /\ Head(s) \in S
           /\ Tail(s) \in Seq(S) /\ ToSet(Tail(s)) \subseteq ToSet(s)
<1>1. Head(s) = s[1] /\ 1 \in DOMAIN s /\ Head(s) \in S
  OBVIOUS
<1>2. Tail(s) \in Seq(S)
  OBVIOUS
<1>3. \A i \in DOMAIN Tail(s) : i + 1 \in DOMAIN s /\ Tail(s)[i] = s[i + 1]
  OBVIOUS
<1> QED BY <1>1, <1>2, <1>3 DEF ToSet

LEMMA JoinedFacts ==
    ASSUME NEW S, NEW s \in Seq(S), NEW t \in Seq(S)
    PROVE  s \o t \in Seq(S) /\ ToSet(s \o t) = ToSet(s) \cup ToSet(t)
<1>1. s \o t \in Seq(S) /\ Len(s \o t) = Len(s) + Len(t)
  OBVIOUS
<1>2. \A i \in 1 .. Len(s) : (s \o t)[i] = s[i]
  OBVIOUS
<1>3. \A i \in 1 .. Len(t) : (s \o t)[Len(s) + i] = t[i]
  OBVIOUS
<1>4. Len(s) \in Nat /\ Len(t) \in Nat /\ DOMAIN (s \o t) = 1 .. Len(s \o t)
      /\ DOMAIN s = 1 .. Len(s) /\ DOMAIN t = 1 .. Len(t)
  BY <1>1
<1>5. \A i \in 1 .. Len(s) + Len(t) :
          i \in 1 .. Len(s) \/ \E j \in 1 .. Len(t) : i = Len(s) + j
  <2> TAKE i \in 1 .. Len(s) + Len(t)
  <2>1. CASE i <= Len(s)
    BY <1>4, <2>1
  <2>2. CASE i > Len(s)
    <3>1. i - Len(s) \in 1 .. Len(t) /\ i = Len(s) + (i - Len(s))
      BY <1>4, <2>2
    <3> QED BY <3>1
  <2> QED BY <1>4, <2>1, <2>2
<1>6. ToSet(s \o t) \subseteq ToSet(s) \cup ToSet(t)
  BY <1>1, <1>2, <1>3, <1>4, <1>5, SMTT(30) DEF ToSet
<1>7. ToSet(s) \subseteq ToSet(s \o t)
  <2>1. \A i \in 1 .. Len(s) : i \in 1 .. Len(s \o t)
    BY <1>1, <1>4
  <2> QED BY <1>2, <1>4, <2>1 DEF ToSet
<1>8. ToSet(t) \subseteq ToSet(s \o t)
  <2>1. \A i \in 1 .. Len(t) : Len(s) + i \in 1 .. Len(s \o t)
    BY <1>1, <1>4
  <2> QED BY <1>3, <1>4, <2>1 DEF ToSet
<1> QED BY <1>1, <1>6, <1>7, <1>8

(***************************************************************************)
(* Lemmas about messages                                                   *)
(***************************************************************************)

LEMMA MessageFacts ==
    ASSUME NEW msg \in Message
    PROVE  /\ msg.to \in Node /\ msg.from \in Node
           /\ msg.type = "version" => msg.height \in Nat
           /\ msg.type \in {"getblocks", "getblocksup", "getdata", "block",
                            "shifted"} => msg.block \in Block
           /\ msg.type = "inv" => msg.items \in Seq(Block)
BY DEF Message

\* What a server sends is a message, to the other node and from itself.
LEMMA MessageMade ==
    ASSUME NEW n \in Node, NEW m \in Node
    PROVE  /\ tip[n] \in Block =>
                /\ Version(n, m) \in Message /\ Version(n, m).type = "version"
                /\ Version(n, m).to = m /\ Version(n, m).from = n
           /\ \A b \in Block :
                /\ GetBlocks(n, m, b) \in Message
                /\ GetBlocks(n, m, b).type = "getblocks"
                /\ GetBlocks(n, m, b).to = m /\ GetBlocks(n, m, b).from = n
                /\ GetBlocks(n, m, b).block = b
                /\ GetBlocksUpper(n, m, b) \in Message
                /\ GetBlocksUpper(n, m, b).type = "getblocksup"
                /\ GetBlocksUpper(n, m, b).to = m
                /\ GetBlocksUpper(n, m, b).from = n
                /\ GetData(n, m, b) \in Message
                /\ GetData(n, m, b).type = "getdata"
                /\ GetData(n, m, b).to = m /\ GetData(n, m, b).from = n
                /\ GetData(n, m, b).block = b
                /\ FullBlock(n, m, b) \in Message
                /\ FullBlock(n, m, b).type = "block"
                /\ FullBlock(n, m, b).to = m /\ FullBlock(n, m, b).from = n
                /\ FullBlock(n, m, b).block = b
           /\ \A items \in Seq(Block) :
                /\ Inv(n, m, items) \in Message
                /\ Inv(n, m, items).type = "inv"
                /\ Inv(n, m, items).to = m /\ Inv(n, m, items).from = n
                /\ Inv(n, m, items).items = items
<1>1. \A b \in Block : Height[b] \in Nat
  BY LineTop
<1> QED
  BY <1>1 DEF Message, Version, GetBlocks, GetBlocksUpper, GetData, FullBlock,
              Inv

LEMMA AddedMade ==
    ASSUME NEW msg \in Message
    PROVE  /\ Added(msg) \in Message /\ Added(msg).type = "added"
           /\ Added(msg).to = msg.to /\ Added(msg).from = msg.from
<1>1. msg.to \in Node /\ msg.from \in Node
  BY MessageFacts
<1> QED BY <1>1 DEF Message, Added

LEMMA ShiftedMade ==
    ASSUME NEW msg \in Message, NEW b \in Block
    PROVE  /\ Shifted(msg, b) \in Message /\ Shifted(msg, b).type = "shifted"
           /\ Shifted(msg, b).to = msg.to /\ Shifted(msg, b).from = msg.from
           /\ Shifted(msg, b).block = b
<1>1. msg.to \in Node /\ msg.from \in Node
  BY MessageFacts
<1> QED BY <1>1 DEF Message, Shifted

\* Messages stay sound while stores grow and servers start.
LEMMA MessagesKept ==
    ASSUME TypeOK, MessageInv, IsABag(pending'),
           up \subseteq up', Steady' => Steady,
           \A n \in Node : known[n] \subseteq known'[n],
           \A msg \in BagToSet(pending') :
               msg \in BagToSet(pending) \/ Sound(msg)'
    PROVE  MessageInv' /\ BagToSet(pending') \subseteq Message
<1>1. ASSUME NEW msg, Sound(msg) PROVE Sound(msg)'
  <2>1. msg \in Message /\ msg.to \in Node /\ msg.from \in Node
    BY <1>1, MessageFacts DEF Sound
  <2> QED BY <1>1, <2>1 DEF Sound
<1>2. MessageInv'
  BY <1>1 DEF MessageInv
<1> QED BY <1>2 DEF MessageInv, Sound

\* When nothing goes on, no list is left.
LEMMA NothingListed ==
    ASSUME TypeOK, ListsServed, Steady,
           BagToSet(pending) = {}, \A k \in Node : loop[k] = NoLoop
    PROVE  \A k, l \in Node : transit[k][l] = << >>
BY SyncAssumption DEF ListsServed, Served, NoLoop

LEMMA ServedKept ==
    ASSUME NEW n, NEW m, Served(n, m),
           transit'[n][m] = transit[n][m],
           loop[n].from = m => loop'[n].from = m,
           \A msg \in BagToSet(pending) :
               msg \in BagToSet(pending') \/ ~Serves(msg, n, m)
    PROVE  Served(n, m)'
BY DEF Served, Serves

\* A branch stays stored when a block is added to it.
LEMMA AddFacts ==
    ASSUME TypeOK, StoreInv, NEW n \in Node, NEW b \in Block,
           b \notin known[n], Parent[b] \in known[n], AddBlock(n, b)
    PROVE  /\ known' = [known EXCEPT ![n] = @ \cup {b}]
           /\ known'[n] = known[n] \cup {b}
           /\ known' \in [Node -> SUBSET Block]
           /\ tip' \in [Node -> Block \cup {None}]
           /\ tip'[n] = IF Height[b] > Height[tip[n]] THEN b ELSE tip[n]
           /\ tip[n] \in known[n] /\ tip[n] \in Block
           /\ \A k \in Node \ {n} : known'[k] = known[k] /\ tip'[k] = tip[k]
           /\ StoreInv'
           /\ \A k \in Node : tip'[k] = None <=> known'[k] = {}
<1>1. /\ known \in [Node -> SUBSET Block] /\ tip \in [Node -> Block \cup {None}]
      /\ known' = [known EXCEPT ![n] = @ \cup {b}]
      /\ tip' = [tip EXCEPT ![n] = IF Height[b] > Height[@] THEN b ELSE @]
  BY DEF TypeOK, AddBlock
<1>2. /\ known'[n] = known[n] \cup {b}
      /\ tip'[n] = IF Height[b] > Height[tip[n]] THEN b ELSE tip[n]
      /\ \A k \in Node \ {n} : known'[k] = known[k] /\ tip'[k] = tip[k]
  BY <1>1
<1>3. tip[n] \in known[n] /\ tip[n] \in Block
  BY <1>1 DEF StoreInv
<1>4. known' \in [Node -> SUBSET Block] /\ tip' \in [Node -> Block \cup {None}]
  BY <1>1, <1>3
<1>5. Line[b] \subseteq known'[n]
  <2>1. Parent[b] # None
    BY <1>1, BlockAssumption
  <2>2. Line[b] = Line[Parent[b]] \cup {b}
    BY <2>1, ParentAssumption, LineAssumption
  <2> QED BY <1>2, <2>2 DEF StoreInv
<1>6. StoreInv'
  <2> SUFFICES ASSUME NEW k \in Node
               PROVE  /\ \A c \in known'[k] : /\ Line[c] \subseteq known'[k]
                                              /\ Height[c] <= Height[tip'[k]]
                      /\ known'[k] # {} => tip'[k] \in known'[k]
    BY DEF StoreInv
  <2>1. CASE k = n
    <3>1. \A c \in known[n] : Height[c] \in Nat /\ Height[c] <= Height[tip[n]]
      BY <1>1, LineTop DEF StoreInv
    <3>2. Height[b] \in Nat /\ Height[tip[n]] \in Nat
      BY <1>3, LineTop
    <3>3. \A c \in known'[n] : Height[c] <= Height[tip'[n]]
      BY <1>2, <3>1, <3>2
    <3> QED BY <1>2, <1>3, <1>5, <2>1, <3>3 DEF StoreInv
  <2>2. CASE k # n
    BY <1>2, <2>2 DEF StoreInv
  <2> QED BY <2>1, <2>2
<1>7. \A k \in Node : tip'[k] = None <=> known'[k] = {}
  BY <1>2, <1>3, BlockAssumption DEF TypeOK
<1> QED BY <1>1, <1>2, <1>3, <1>4, <1>6, <1>7

(***************************************************************************)
(* The handlers                                                            *)
(***************************************************************************)

\* What holds when a handler of a message runs.
LEMMA HandlerFacts ==
    ASSUME IInv, NEW msg \in BagToSet(pending)
    PROVE  /\ Sound(msg) /\ msg \in Message
           /\ msg.to \in Node /\ msg.from \in Node /\ msg.to \in up
           /\ Steady => msg.from \in up
           /\ \A n \in up : /\ n \in Node /\ tip[n] \in Block
                            /\ tip[n] \in known[n] /\ Genesis \in known[n]
           /\ \A n \in Node : /\ known[n] \subseteq Block
                              /\ \A b \in known[n] : Line[b] \subseteq known[n]
           /\ IsABag(pending)
<1>1. Sound(msg) /\ msg \in Message /\ IsABag(pending)
  BY DEF IInv, MessageInv, TypeOK, Sound
<1>2. msg.to \in Node /\ msg.from \in Node /\ msg.to \in up
  BY <1>1, MessageFacts DEF Sound
<1>3. \A n \in Node : /\ known[n] \subseteq Block
                      /\ \A b \in known[n] : Line[b] \subseteq known[n]
  BY DEF IInv, TypeOK, StoreInv
<1>4. \A n \in up : n \in Node /\ tip[n] \in Block /\ tip[n] \in known[n]
  BY <1>3 DEF IInv, TypeOK, StoreInv
<1>5. \A n \in up : Genesis \in known[n]
  BY <1>3, <1>4, LineAssumption
<1> QED BY <1>1, <1>2, <1>3, <1>4, <1>5 DEF Sound

\* A handler that only answers.
LEMMA AnswerStep ==
    ASSUME IInv, NEW msg \in BagToSet(pending), NEW C, IsABag(C),
           pending' = Received(msg) (+) C,
           \A p \in BagToSet(C) : Sound(p),
           UNCHANGED <<up, known, tip, import, transit, loop, stops, rush>>,
           Steady =>
               \A n, m \in Node : Serves(msg, n, m) =>
                   \E p \in BagToSet(C) : Serves(p, n, m)
    PROVE  IInv'
<1>1. IsABag(pending)
  BY DEF IInv, TypeOK
<1>2. /\ IsABag(pending')
      /\ BagToSet(pending') \subseteq BagToSet(pending) \cup BagToSet(C)
      /\ BagToSet(C) \subseteq BagToSet(pending')
      /\ BagToSet(pending) \subseteq BagToSet(pending') \cup {msg}
  BY <1>1, Answered
<1>3. \A p \in BagToSet(C) : Sound(p)'
  BY DEF Sound, Steady
<1>4. MessageInv' /\ BagToSet(pending') \subseteq Message
  BY <1>2, <1>3, MessagesKept DEF IInv, Steady
<1>5. TypeOK'
  BY <1>2, <1>4 DEF IInv, TypeOK
<1>6. (StoreInv /\ ImportInv /\ LoopInv /\ TransitInv)'
  BY DEF IInv, StoreInv, ImportInv, LoopInv, TransitInv, Steady
<1>7. ListsServed'
  <2> SUFFICES ASSUME Steady', NEW n \in Node, NEW m \in Node
               PROVE  Served(n, m)'
    BY DEF ListsServed
  <2>1. Served(n, m)
    BY DEF IInv, ListsServed, Steady
  <2>2. CASE Serves(msg, n, m)
    BY <1>2, <2>2 DEF Served, Serves, Steady
  <2>3. CASE ~Serves(msg, n, m)
    BY <1>2, <2>1, <2>3, ServedKept
  <2> QED BY <2>2, <2>3
<1> QED BY <1>4, <1>5, <1>6, <1>7 DEF IInv

LEMMA HandleVersionStep ==
    ASSUME IInv, NEW msg \in BagToSet(pending), HandleVersion(msg)
    PROVE  IInv'
<1> DEFINE n == msg.to
           m == msg.from
           mine == Height[tip[n]]
           C == CASE mine < msg.height -> Send({GetBlocksUpper(n, m, tip[n])})
                  [] mine > msg.height -> Send({Version(n, m)})
                  [] mine = msg.height -> EmptyBag
<1>1. msg \in Message /\ n \in Node /\ m \in Node /\ n \in up
      /\ (Steady => m \in up) /\ tip[n] \in Block /\ msg.type = "version"
  BY HandlerFacts DEF HandleVersion, Handles
<1>2. mine \in Nat /\ msg.height \in Nat
  BY <1>1, LineTop, MessageFacts
<1>3. IsABag(C) /\ \A p \in BagToSet(C) : Sound(p)
  <2>1. CASE mine < msg.height
    <3>1. C = Send({GetBlocksUpper(n, m, tip[n])})
      BY <1>2, <2>1
    <3>2. ASSUME m \in up PROVE Sound(GetBlocksUpper(n, m, tip[n]))
      BY <1>1, <3>2, MessageMade DEF Sound
    <3>3. GetBlocksUpper(n, m, tip[n]).to = m
      BY <1>1, MessageMade
    <3> HIDE DEF C
    <3> QED BY <3>1, <3>2, <3>3, SendFacts
  <2>2. CASE mine > msg.height
    <3>1. C = Send({Version(n, m)})
      BY <1>2, <2>2
    <3>2. ASSUME m \in up PROVE Sound(Version(n, m))
      BY <1>1, <3>2, MessageMade DEF Sound
    <3>3. Version(n, m).to = m
      BY <1>1, MessageMade
    <3> HIDE DEF C
    <3> QED BY <3>1, <3>2, <3>3, SendFacts
  <2>3. CASE mine = msg.height
    <3>1. C = EmptyBag
      BY <1>2, <2>3
    <3> QED BY <3>1, BagEmpty
  <2> QED BY <1>2, <2>1, <2>2, <2>3
<1>4. \A k, l : ~Serves(msg, k, l)
  BY <1>1 DEF Serves
<1>5. /\ pending' = Received(msg) (+) C
      /\ UNCHANGED <<up, known, tip, import, transit, loop, stops, rush>>
  BY DEF HandleVersion
<1> HIDE DEF C
<1> QED BY <1>3, <1>4, <1>5, AnswerStep

\* An announcement of blocks that the announcing node has, turned round.
LEMMA AnnouncementSound ==
    ASSUME NEW n \in Node, NEW m \in up, m \in Node, Steady => n \in up,
           NEW items \in Seq(Block), Len(items) > 0,
           ToSet(items) \subseteq known[n]
    PROVE  Sound(Inv(n, m, Reverse(items)))
<1>1. /\ Reverse(items) \in Seq(Block) /\ Len(Reverse(items)) = Len(items)
      /\ ToSet(Reverse(items)) = ToSet(items)
  BY ReverseFacts
<1>2. Len(<< >>) = 0 /\ Len(items) \in Nat
  OBVIOUS
<1>3. Reverse(items) # << >>
  BY <1>1, <1>2
<1> QED BY <1>1, <1>3, MessageMade DEF Sound

LEMMA HandleGetBlocksUpperStep ==
    ASSUME IInv, NEW msg \in BagToSet(pending), HandleGetBlocksUpper(msg)
    PROVE  IInv'
<1> DEFINE n == msg.to
           m == msg.from
           found == IF msg.block \in known[n] THEN NextBlocks(n, msg.block)
                    ELSE BlocksShortInfo(tip[n])
           C == Send({Inv(n, m, Reverse(found))})
<1>1. msg \in Message /\ n \in Node /\ m \in Node /\ n \in up
      /\ (Steady => m \in up) /\ tip[n] \in Block /\ tip[n] \in known[n]
      /\ known[n] \subseteq Block /\ Line[tip[n]] \subseteq known[n]
      /\ msg.type = "getblocksup"
  BY HandlerFacts DEF HandleGetBlocksUpper, Handles
<1>2. found \in Seq(Block) /\ Len(found) > 0 /\ ToSet(found) \subseteq known[n]
  <2>1. CASE msg.block \in known[n]
    BY <1>1, <2>1, NextBlocksFacts
  <2>2. CASE msg.block \notin known[n]
    BY <1>1, <2>2, BlocksShortInfoFacts
  <2> QED BY <2>1, <2>2
<1>3. IsABag(C) /\ \A p \in BagToSet(C) : Sound(p)
  <2> HIDE DEF found
  <2>1. Inv(n, m, Reverse(found)).to = m
    BY <1>1, <1>2, ReverseFacts, MessageMade
  <2>2. m \in up => Sound(Inv(n, m, Reverse(found)))
    BY <1>1, <1>2, AnnouncementSound
  <2> QED BY <2>1, <2>2, SendFacts
<1>4. \A k, l : ~Serves(msg, k, l)
  BY <1>1 DEF Serves
<1>5. /\ pending' = Received(msg) (+) C
      /\ UNCHANGED <<up, known, tip, import, transit, loop, stops, rush>>
  BY DEF HandleGetBlocksUpper
<1> HIDE DEF C
<1> QED BY <1>3, <1>4, <1>5, AnswerStep

LEMMA HandleGetBlocksStep ==
    ASSUME IInv, NEW msg \in BagToSet(pending), HandleGetBlocks(msg)
    PROVE  IInv'
<1> DEFINE n == msg.to
           m == msg.from
           found == BlocksShortInfo(msg.block)
           C == Send({Inv(n, m, Reverse(found))})
<1>1. msg \in Message /\ n \in Node /\ m \in Node /\ n \in up
      /\ (Steady => m \in up) /\ msg.type = "getblocks"
      /\ msg.block \in known[n] /\ msg.block \in Block
      /\ Line[msg.block] \subseteq known[n]
  BY HandlerFacts DEF HandleGetBlocks, Handles
<1>2. found \in Seq(Block) /\ Len(found) > 0 /\ ToSet(found) \subseteq known[n]
  BY <1>1, BlocksShortInfoFacts
<1>3. IsABag(C) /\ \A p \in BagToSet(C) : Sound(p)
  <2> HIDE DEF found
  <2>1. Inv(n, m, Reverse(found)).to = m
    BY <1>1, <1>2, ReverseFacts, MessageMade
  <2>2. m \in up => Sound(Inv(n, m, Reverse(found)))
    BY <1>1, <1>2, AnnouncementSound
  <2> QED BY <2>1, <2>2, SendFacts
<1>4. \A k, l : ~Serves(msg, k, l)
  BY <1>1 DEF Serves
<1>5. /\ pending' = Received(msg) (+) C
      /\ UNCHANGED <<up, known, tip, import, transit, loop, stops, rush>>
  BY DEF HandleGetBlocks
<1> HIDE DEF C
<1> QED BY <1>3, <1>4, <1>5, AnswerStep

\* The block asked for is on its way back: it serves the list in turn.
LEMMA HandleGetDataStep ==
    ASSUME IInv, NEW msg \in BagToSet(pending), HandleGetData(msg)
    PROVE  IInv'
<1> DEFINE n == msg.to
           m == msg.from
           C == Send({FullBlock(n, m, msg.block)})
<1>1. msg \in Message /\ n \in Node /\ m \in Node /\ n \in up
      /\ (Steady => m \in up) /\ msg.type = "getdata" /\ msg.block \in Block
      /\ msg.block \in known[n]
  BY HandlerFacts DEF HandleGetData, Handles
<1>2. /\ FullBlock(n, m, msg.block) \in Message
      /\ FullBlock(n, m, msg.block).type = "block"
      /\ FullBlock(n, m, msg.block).to = m
      /\ FullBlock(n, m, msg.block).from = n
      /\ FullBlock(n, m, msg.block).block = msg.block
  BY <1>1, MessageMade
<1>3. IsABag(C) /\ BagToSet(C) = {p \in {FullBlock(n, m, msg.block)} : p.to \in up}
  BY SendFacts
<1>4. \A p \in BagToSet(C) : Sound(p)
  <2> HIDE DEF C
  <2> QED BY <1>1, <1>2, <1>3 DEF Sound
<1>5. ASSUME Steady, NEW k \in Node, NEW l \in Node, Serves(msg, k, l)
      PROVE  \E p \in BagToSet(C) : Serves(p, k, l)
  <2>1. k = m /\ l = n
    BY <1>1, <1>5 DEF Serves
  <2>2. FullBlock(n, m, msg.block) \in BagToSet(C)
    <3> HIDE DEF C
    <3> QED BY <1>1, <1>2, <1>3, <1>5
  <2>3. Serves(FullBlock(n, m, msg.block), k, l)
    BY <1>2, <2>1 DEF Serves
  <2> QED BY <2>2, <2>3
<1>6. /\ pending' = Received(msg) (+) C
      /\ UNCHANGED <<up, known, tip, import, transit, loop, stops, rush>>
  BY DEF HandleGetData
<1> HIDE DEF C
<1> QED BY <1>3, <1>4, <1>5, <1>6, AnswerStep

\* The list of another node takes the place of the one of node m.
LEMMA RowChanged ==
    ASSUME TypeOK, NEW n \in Node, NEW m \in Node, NEW list \in Seq(Block),
           transit' = [transit EXCEPT ![n][m] = list]
    PROVE  /\ transit' \in [Node -> [Node -> Seq(Block)]]
           /\ transit'[n][m] = list
           /\ \A k, l \in Node :
                 k # n \/ l # m => transit'[k][l] = transit[k][l]
BY DEF TypeOK

\* A handler of node n that puts blocks on the list of node m, or takes some
\* off it, and leaves message p in place of msg.
LEMMA ListStep ==
    ASSUME IInv, NEW msg \in BagToSet(pending), NEW n, NEW m,
           n = msg.to, m = msg.from, NEW list \in Seq(Block),
           ToSet(list) \subseteq known[m],
           list # << >> /\ Steady => m \in up,
           transit' = [transit EXCEPT ![n][m] = list],
           NEW p, Sound(p), Serves(p, n, m),
           pending' = Received(msg) (+) SetToBag({p}),
           \A k, l : Serves(msg, k, l) => k = n /\ l = m,
           UNCHANGED <<up, known, tip, import, loop, stops, rush>>
    PROVE  IInv'
<1> DEFINE C == SetToBag({p})
<1>1. n \in Node /\ m \in Node /\ IsABag(pending)
  BY HandlerFacts
<1>2. IsABag(C) /\ BagToSet(C) = {p} /\ pending' = Received(msg) (+) C
  BY BagOfSet
<1> HIDE DEF C
<1>3. /\ IsABag(pending')
      /\ BagToSet(pending') \subseteq BagToSet(pending) \cup BagToSet(C)
      /\ BagToSet(C) \subseteq BagToSet(pending')
      /\ BagToSet(pending) \subseteq BagToSet(pending') \cup {msg}
  <2>1. /\ IsABag(Received(msg) (+) C)
        /\ BagToSet(Received(msg) (+) C)
               \subseteq BagToSet(pending) \cup BagToSet(C)
        /\ BagToSet(C) \subseteq BagToSet(Received(msg) (+) C)
        /\ BagToSet(pending) \subseteq BagToSet(Received(msg) (+) C) \cup {msg}
    BY <1>1, <1>2, Answered
  <2> QED BY <1>2, <2>1
<1>4. Sound(p)'
  BY DEF Sound, Steady
<1>5. MessageInv' /\ BagToSet(pending') \subseteq Message
  BY <1>2, <1>3, <1>4, MessagesKept DEF IInv, Steady
<1>6. /\ transit' \in [Node -> [Node -> Seq(Block)]]
      /\ transit'[n][m] = list
      /\ \A k, l \in Node : k # n \/ l # m => transit'[k][l] = transit[k][l]
  <2>1. transit \in [Node -> [Node -> Seq(Block)]]
    BY DEF IInv, TypeOK
  <2> QED BY <1>1, <2>1
<1>7. TypeOK'
  BY <1>3, <1>5, <1>6 DEF IInv, TypeOK
<1>8. (StoreInv /\ ImportInv /\ LoopInv)'
  BY DEF IInv, StoreInv, ImportInv, LoopInv, Steady
<1>9. TransitInv'
  <2> SUFFICES ASSUME NEW k \in Node, NEW l \in Node
               PROVE  /\ ToSet(transit'[k][l]) \subseteq known[l]
                      /\ transit'[k][l] # << >> /\ Steady => l \in up
    BY DEF TransitInv, Steady
  <2>1. CASE k = n /\ l = m
    BY <1>1, <1>6, <2>1
  <2>2. CASE k # n \/ l # m
    BY <1>6, <2>2 DEF IInv, TransitInv
  <2> QED BY <2>1, <2>2
<1>10. ListsServed'
  <2> SUFFICES ASSUME Steady', NEW k \in Node, NEW l \in Node
               PROVE  Served(k, l)'
    BY DEF ListsServed
  <2>1. Served(k, l)
    BY DEF IInv, ListsServed, Steady
  <2>2. CASE k = n /\ l = m
    <3>1. p \in BagToSet(pending')
      BY <1>2, <1>3
    <3> QED BY <2>2, <3>1 DEF Served, Serves
  <2>3. CASE k # n \/ l # m
    <3>1. ~Serves(msg, k, l)
      BY <2>3
    <3> QED BY <1>3, <1>6, <2>1, <2>3, <3>1, ServedKept
  <2> QED BY <2>2, <2>3
<1> QED BY <1>5, <1>7, <1>8, <1>9, <1>10 DEF IInv

LEMMA HandleInvStep ==
    ASSUME IInv, NEW msg \in BagToSet(pending), HandleInv(msg)
    PROVE  IInv'
<1> DEFINE n == msg.to
           m == msg.from
           list == transit[n][m] \o msg.items
           p == Added(msg)
<1>1. /\ msg \in Message /\ n \in Node /\ m \in Node /\ n \in up /\ Sound(msg)
      /\ (Steady => m \in up) /\ msg.type = "inv"
  BY HandlerFacts DEF HandleInv
<1>2. transit[n][m] \in Seq(Block) /\ msg.items \in Seq(Block)
      /\ ToSet(transit[n][m]) \subseteq known[m]
      /\ ToSet(msg.items) \subseteq known[m]
  BY <1>1, MessageFacts DEF IInv, TypeOK, TransitInv, Sound
<1>3. list \in Seq(Block) /\ ToSet(list) \subseteq known[m]
  BY <1>2, JoinedFacts
<1>4. /\ transit' = [transit EXCEPT ![n][m] = list]
      /\ pending' = Received(msg) (+) SetToBag({p})
      /\ UNCHANGED <<up, known, tip, import, loop, stops, rush>>
  BY DEF HandleInv
<1>5. p \in Message /\ p.type = "added" /\ p.to = n /\ p.from = m
  BY <1>1, AddedMade
<1> HIDE DEF list, p
<1>6. Sound(p) /\ Serves(p, n, m)
  BY <1>1, <1>5 DEF Sound, Serves
<1>7. \A k, l : Serves(msg, k, l) => k = n /\ l = m
  BY <1>1 DEF Serves
<1> HIDE DEF n, m
<1>8. n = msg.to /\ m = msg.from
  BY DEF n, m
<1> QED BY <1>1, <1>3, <1>4, <1>6, <1>7, <1>8, ListStep

\* A handler that finds the list empty owes it nothing.
LEMMA ShiftFirstStep ==
    ASSUME IInv, NEW msg \in BagToSet(pending), ShiftFirst(msg)
    PROVE  IInv'
<1> DEFINE n == msg.to
           m == msg.from
           list == transit[n][m]
           p == Shifted(msg, Head(list))
<1>1. /\ msg \in Message /\ n \in Node /\ m \in Node /\ n \in up /\ Sound(msg)
      /\ (Steady => m \in up) /\ msg.type = "added" /\ IsABag(pending)
      /\ UNCHANGED <<up, known, tip, import, loop, stops, rush>>
  BY HandlerFacts DEF ShiftFirst
<1>2. list \in Seq(Block) /\ ToSet(list) \subseteq known[m]
  BY <1>1 DEF IInv, TypeOK, TransitInv
<1>3. ASSUME NEW k, NEW l, Serves(msg, k, l) PROVE k = n /\ l = m
  BY <1>1, <1>3 DEF Serves
<1>4. CASE list # << >>
  <2>1. /\ transit' = [transit EXCEPT ![n][m] = Tail(list)]
        /\ pending' = Received(msg) (+) SetToBag({p})
    BY <1>1, <1>4 DEF ShiftFirst, IInv, TypeOK
  <2>2. /\ Head(list) \in Block /\ Head(list) \in known[m]
        /\ Tail(list) \in Seq(Block) /\ ToSet(Tail(list)) \subseteq known[m]
    <3> HIDE DEF list
    <3> QED BY <1>2, <1>4, ListFacts
  <2>3. p \in Message /\ p.type = "shifted" /\ p.to = n /\ p.from = m
        /\ p.block = Head(list)
    BY <1>1, <2>2, ShiftedMade
  <2> HIDE DEF p, list
  <2>4. Sound(p) /\ Serves(p, n, m)
    BY <1>1, <2>2, <2>3 DEF Sound, Serves
  <2> HIDE DEF n, m
  <2>5. n = msg.to /\ m = msg.from
    BY DEF n, m
  <2> QED BY <1>1, <1>3, <2>1, <2>2, <2>4, <2>5, ListStep
<1>5. CASE list = << >>
  <2>1. pending' = Received(msg) /\ UNCHANGED transit
    BY <1>5 DEF ShiftFirst
  <2>2. /\ IsABag(pending') /\ BagToSet(pending') \subseteq BagToSet(pending)
        /\ BagToSet(pending) \subseteq BagToSet(pending') \cup {msg}
    BY <1>1, <2>1, BagMinus DEF Received
  <2>3. MessageInv' /\ BagToSet(pending') \subseteq Message
    BY <1>1, <2>2, MessagesKept DEF IInv, Steady
  <2>4. TypeOK'
    BY <1>1, <2>1, <2>2, <2>3 DEF IInv, TypeOK
  <2>5. (StoreInv /\ ImportInv /\ LoopInv /\ TransitInv)'
    BY <1>1, <2>1 DEF IInv, StoreInv, ImportInv, LoopInv, TransitInv, Steady
  <2>6. ListsServed'
    <3> SUFFICES ASSUME Steady', NEW k \in Node, NEW l \in Node
                 PROVE  Served(k, l)'
      BY DEF ListsServed
    <3>1. Served(k, l)
      BY <1>1 DEF IInv, ListsServed, Steady
    <3>2. CASE k = n /\ l = m
      BY <1>5, <2>1, <3>2 DEF Served
    <3>3. CASE k # n \/ l # m
      <4>1. ~Serves(msg, k, l)
        BY <1>3, <3>3
      <4> QED BY <1>1, <2>1, <2>2, <3>1, <4>1 DEF Served, Serves
    <3> QED BY <3>2, <3>3
  <2> QED BY <2>3, <2>4, <2>5, <2>6 DEF IInv
<1> QED BY <1>4, <1>5

(***************************************************************************)
(* The turns of the loop over a list                                       *)
(***************************************************************************)

\* Any message but one that a handler of node n took from the list of node m.
Beside(n, m, msg) == ~(msg.to = n /\ msg.from = m /\ msg.type = "shifted")

\* What a turn asks of the other node it can answer: the block, which it
\* announced, or the previous one, which it has with it.
LEMMA TurnAsks ==
    ASSUME IInv, NEW n \in up, NEW m \in Node, NEW b \in known[m],
           Steady => m \in up, NEW C,
           C = CASE CheckBlockState(n, b) = "canBeAdded" ->
                        Send({GetData(n, m, b)})
                 [] CheckBlockState(n, b) = "prevNotExists" ->
                        Send({GetBlocks(n, m, Parent[b])})
                 [] CheckBlockState(n, b) = "exists" -> EmptyBag
    PROVE  /\ IsABag(C) /\ \A p \in BagToSet(C) : Sound(p)
           /\ CheckBlockState(n, b) = "canBeAdded" /\ Steady =>
                 GetData(n, m, b) \in BagToSet(C)
<1>1. /\ n \in Node /\ tip[n] \in Block /\ Genesis \in known[n]
      /\ b \in Block /\ Line[b] \subseteq known[m]
  <2>1. tip[n] # None /\ n \in Node /\ b \in Block
    BY DEF IInv, TypeOK
  <2>2. tip[n] \in Block /\ tip[n] \in known[n]
    BY <2>1 DEF IInv, TypeOK, StoreInv
  <2>3. Line[tip[n]] \subseteq known[n] /\ Line[b] \subseteq known[m]
    BY <2>1, <2>2 DEF IInv, StoreInv
  <2> QED BY <2>1, <2>2, <2>3, LineAssumption
<1>2. CASE CheckBlockState(n, b) = "canBeAdded"
  <2>1. C = Send({GetData(n, m, b)})
    BY <1>2
  <2>2. GetData(n, m, b).to = m /\ (m \in up => Sound(GetData(n, m, b)))
    BY <1>1, MessageMade DEF Sound
  <2> QED BY <1>2, <2>1, <2>2, SendFacts
<1>3. CASE CheckBlockState(n, b) = "prevNotExists"
  <2>1. C = Send({GetBlocks(n, m, Parent[b])})
    BY <1>3
  <2>2. b # Genesis
    BY <1>1, <1>3 DEF CheckBlockState
  <2>3. Parent[b] \in Block /\ Parent[b] \in known[m]
    BY <1>1, <2>2, PreviousBlock
  <2>4. /\ GetBlocks(n, m, Parent[b]).to = m
        /\ m \in up => Sound(GetBlocks(n, m, Parent[b]))
    BY <1>1, <2>3, MessageMade DEF Sound
  <2> QED BY <1>3, <2>1, <2>4, SendFacts
<1>4. CASE CheckBlockState(n, b) = "exists"
  <2>1. C = EmptyBag
    BY <1>4
  <2> QED BY <1>4, <2>1, BagEmpty
<1> QED BY <1>2, <1>3, <1>4 DEF CheckBlockState

LEMMA TurnStep ==
    ASSUME IInv, NEW n \in up, NEW m \in Node, NEW b \in known[m],
           Steady => m \in up,
           loop[n] \in {NoLoop, [from |-> m, block |-> b]},
           NEW rest, IsABag(rest), BagToSet(rest) \subseteq BagToSet(pending),
           \A p \in BagToSet(pending) : Beside(n, m, p) => p \in BagToSet(rest),
           Turn(n, m, b, rest, transit[n][m]),
           UNCHANGED <<up, known, tip, import, stops, rush>>
    PROVE  IInv'
<1> DEFINE list == transit[n][m]
           state == CheckBlockState(n, b)
           goOn == state = "exists" /\ list # << >>
           row == IF state = "prevNotExists" THEN << >>
                  ELSE IF goOn THEN Tail(list) ELSE list
           next == IF goOn THEN [from |-> m, block |-> Head(list)] ELSE NoLoop
           C == CASE state = "canBeAdded" -> Send({GetData(n, m, b)})
                  [] state = "prevNotExists" ->
                         Send({GetBlocks(n, m, Parent[b])})
                  [] state = "exists" -> EmptyBag
<1>1. /\ loop' = [loop EXCEPT ![n] = next]
      /\ transit' = [transit EXCEPT ![n][m] = row]
      /\ pending' = rest (+) C
  BY DEF Turn
<1>2. n \in Node /\ list \in Seq(Block) /\ ToSet(list) \subseteq known[m]
      /\ (list # << >> /\ Steady => m \in up)
  BY DEF IInv, TypeOK, TransitInv
<1>3. list # << >> => /\ Head(list) \in Block /\ Head(list) \in known[m]
                      /\ Tail(list) \in Seq(Block)
                      /\ ToSet(Tail(list)) \subseteq known[m]
  <2> HIDE DEF list
  <2> QED BY <1>2, ListFacts
<1>4. /\ row \in Seq(Block) /\ ToSet(row) \subseteq known[m]
      /\ row # << >> => list # << >>
  <2>1. << >> \in Seq(Block) /\ ToSet(<< >>) = {}
    BY DEF ToSet
  <2> HIDE DEF list, state
  <2> QED BY <1>2, <1>3, <2>1
<1>5. /\ IsABag(C) /\ \A p \in BagToSet(C) : Sound(p)
      /\ state = "canBeAdded" /\ Steady => GetData(n, m, b) \in BagToSet(C)
  BY TurnAsks
<1>6. state \in {"exists", "canBeAdded", "prevNotExists"}
  BY DEF CheckBlockState
<1>7. next \in [from : Node, block : Block] \cup {NoLoop}
  <2> HIDE DEF list, state
  <2> QED BY <1>3
<1>8. next # NoLoop => /\ next.from = m /\ next.block \in known[m]
                       /\ list # << >>
  <2> HIDE DEF list, state
  <2> QED BY <1>3
<1>9. row # << >> /\ state # "canBeAdded" => next.from = m
  <2> HIDE DEF list, state
  <2> QED BY <1>6
<1> HIDE DEF C, row, next, state
<1>10. /\ IsABag(pending')
       /\ BagToSet(pending') = BagToSet(rest) \cup BagToSet(C)
  BY <1>1, <1>5, BagPlus
<1>11. \A p \in BagToSet(C) : Sound(p)'
  BY <1>5 DEF Sound, Steady
<1>12. MessageInv' /\ BagToSet(pending') \subseteq Message
  BY <1>10, <1>11, MessagesKept DEF IInv, Steady
<1>13. /\ transit' \in [Node -> [Node -> Seq(Block)]]
       /\ transit'[n][m] = row
       /\ \A k, l \in Node : k # n \/ l # m => transit'[k][l] = transit[k][l]
  BY <1>1, <1>2, <1>4, RowChanged, ZenonT(40) DEF IInv
<1>14. /\ loop' \in [Node -> [from : Node, block : Block] \cup {NoLoop}]
       /\ loop'[n] = next /\ \A k \in Node : k # n => loop'[k] = loop[k]
  BY <1>1, <1>2, <1>7 DEF IInv, TypeOK
<1>15. TypeOK'
  BY <1>10, <1>12, <1>13, <1>14 DEF IInv, TypeOK
<1>16. (StoreInv /\ ImportInv)'
  BY DEF IInv, StoreInv, ImportInv
<1>17. LoopInv'
  <2> SUFFICES ASSUME NEW k \in Node, loop'[k] # NoLoop
               PROVE  /\ k \in up /\ (Steady => loop'[k].from \in up)
                      /\ loop'[k].block \in known[loop'[k].from]
    BY DEF LoopInv, Steady
  <2>1. CASE k = n
    BY <1>2, <1>8, <1>14, <2>1
  <2>2. CASE k # n
    BY <1>14, <2>2 DEF IInv, LoopInv
  <2> QED BY <2>1, <2>2
<1>18. TransitInv'
  <2> SUFFICES ASSUME NEW k \in Node, NEW l \in Node
               PROVE  /\ ToSet(transit'[k][l]) \subseteq known[l]
                      /\ transit'[k][l] # << >> /\ Steady => l \in up
    BY DEF TransitInv, Steady
  <2>1. CASE k = n /\ l = m
    BY <1>2, <1>4, <1>13, <2>1
  <2>2. CASE k # n \/ l # m
    BY <1>13, <2>2 DEF IInv, TransitInv
  <2> QED BY <2>1, <2>2
<1>19. ListsServed'
  <2> SUFFICES ASSUME Steady', NEW k \in Node, NEW l \in Node
               PROVE  Served(k, l)'
    BY DEF ListsServed
  <2>1. Served(k, l)
    BY DEF IInv, ListsServed, Steady
  <2>2. CASE k = n /\ l = m
    <3>1. CASE state = "canBeAdded"
      <4>1. GetData(n, m, b) \in BagToSet(pending')
        BY <1>5, <1>10, <3>1 DEF Steady
      <4>2. b \in Block
        BY DEF IInv, TypeOK
      <4>3. Serves(GetData(n, m, b), n, m)
        BY <1>2, <4>2, MessageMade DEF Serves
      <4> QED BY <2>2, <4>1, <4>3 DEF Served, Serves
    <3>2. CASE state # "canBeAdded"
      BY <1>9, <1>13, <1>14, <2>2, <3>2 DEF Served
    <3> QED BY <3>1, <3>2
  <2>3. CASE k # n \/ l # m
    <3>1. \A p \in BagToSet(pending) :
              p \in BagToSet(pending') \/ ~Serves(p, k, l)
      BY <1>10, <2>3 DEF Serves, Beside
    <3>2. loop[k].from = l => loop'[k].from = l
      <4>1. CASE k = n
        BY <2>3, <4>1, SyncAssumption DEF NoLoop
      <4>2. CASE k # n
        BY <1>14, <4>2
      <4> QED BY <4>1, <4>2
    <3> QED BY <1>13, <2>1, <2>3, <3>1, <3>2, ServedKept
  <2> QED BY <2>2, <2>3
<1> QED BY <1>12, <1>15, <1>16, <1>17, <1>18, <1>19 DEF IInv

LEMMA LookAtShiftedStep ==
    ASSUME IInv, NEW msg \in BagToSet(pending), LookAtShifted(msg)
    PROVE  IInv'
<1>1. /\ msg.to \in up /\ msg.from \in Node /\ msg.block \in known[msg.from]
      /\ Steady => msg.from \in up
      /\ msg.type = "shifted" /\ loop[msg.to] = NoLoop /\ IsABag(pending)
  BY HandlerFacts DEF LookAtShifted, Handles, Sound
<1>2. /\ IsABag(Received(msg))
      /\ BagToSet(Received(msg)) \subseteq BagToSet(pending)
      /\ BagToSet(pending) \subseteq BagToSet(Received(msg)) \cup {msg}
  BY <1>1, BagMinus DEF Received
<1>3. \A p \in BagToSet(pending) :
          Beside(msg.to, msg.from, p) => p \in BagToSet(Received(msg))
  BY <1>1, <1>2 DEF Beside
<1>4. /\ Turn(msg.to, msg.from, msg.block, Received(msg),
              transit[msg.to][msg.from])
      /\ UNCHANGED <<up, known, tip, import, stops, rush>>
  BY DEF LookAtShifted
<1> QED BY <1>1, <1>2, <1>3, <1>4, TurnStep

LEMMA LookAtNextStep == ASSUME IInv, NEW n \in Node, LookAtNext(n) PROVE IInv'
<1> DEFINE m == loop[n].from
           b == loop[n].block
<1>1. /\ loop[n] # NoLoop /\ n \in up /\ m \in Node /\ b \in known[m]
      /\ loop[n] = [from |-> m, block |-> b]
      /\ Steady => m \in up
  BY DEF IInv, TypeOK, LoopInv, LookAtNext
<1>2. IsABag(pending)
  BY DEF IInv, TypeOK
<1>3. /\ Turn(n, m, b, pending, transit[n][m])
      /\ UNCHANGED <<up, known, tip, import, stops, rush>>
  BY DEF LookAtNext
<1> HIDE DEF m, b
<1> QED BY <1>1, <1>2, <1>3, TurnStep

(***************************************************************************)
(* Blocks that are added                                                   *)
(***************************************************************************)

\* A block is announced with the store that has it.
LEMMA AnnouncesBlock ==
    ASSUME TypeOK, NEW n \in up', n \in Node, up' \subseteq Node,
           NEW b \in known'[n], b \in Block
    PROVE  \A p \in {Inv(n, k, <<b>>) : k \in Others(n)} :
               p.to \in up' => Sound(p)'
<1> TAKE p \in {Inv(n, k, <<b>>) : k \in Others(n)}
<1> DEFINE items == <<b>>
<1>1. PICK k \in Node : p = Inv(n, k, items)
  BY DEF Others
<1>2. items \in Seq(Block) /\ items # << >> /\ ToSet(items) = {b}
  BY DEF ToSet
<1> HIDE DEF items
<1>3. /\ p \in Message /\ p.type = "inv" /\ p.to = k /\ p.from = n
      /\ p.items = items
  BY <1>1, <1>2, MessageMade
<1> QED BY <1>2, <1>3 DEF Sound

\* A server whose node stores a block is not one that imports.
LEMMA ImportKept ==
    ASSUME IInv, NEW n \in up, up' = up, import' = import,
           \A k \in Node \ {n} : known'[k] = known[k] /\ tip'[k] = tip[k]
    PROVE  ImportInv'
<1>1. n \in Node /\ import[n] = << >>
  BY DEF IInv, TypeOK
<1> SUFFICES ASSUME NEW k \in Node
             PROVE  /\ \A i \in 1 .. Len(import[k]) - 1 :
                          Parent[import[k][i + 1]] = import[k][i]
                    /\ import[k] # << >> =>
                          IF known'[k] = {} THEN Head(import[k]) = Genesis
                          ELSE /\ known'[k] = Line[tip'[k]]
                               /\ Parent[Head(import[k])] = tip'[k]
  BY DEF ImportInv
<1>2. CASE k = n
  BY <1>1, <1>2 DEF IInv, ImportInv
<1>3. CASE k # n
  BY <1>3 DEF IInv, ImportInv
<1> QED BY <1>2, <1>3

LEMMA HandleBlockStep ==
    ASSUME IInv, NEW msg \in BagToSet(pending), HandleBlock(msg)
    PROVE  IInv'
<1> DEFINE n == msg.to
           m == msg.from
           b == msg.block
           new == CheckBlockState(n, b) = "canBeAdded"
           list == transit[n][m]
           C == IF new THEN Send({Inv(n, k, <<b>>) : k \in Others(n)})
                ELSE EmptyBag
           row == IF list = << >> THEN list ELSE Tail(list)
           next == IF list = << >> THEN loop[n]
                   ELSE [from |-> m, block |-> Head(list)]
<1>1. /\ msg \in Message /\ n \in Node /\ m \in Node /\ n \in up
      /\ (Steady => m \in up) /\ msg.type = "block" /\ b \in Block
      /\ IsABag(pending) /\ loop[n] = NoLoop
  BY HandlerFacts, MessageFacts DEF HandleBlock, Handles
<1>2. /\ IF new THEN AddBlock(n, b) ELSE UNCHANGED <<known, tip>>
      /\ pending' = Received(msg) (+) C
      /\ UNCHANGED <<up, import, stops, rush>>
      /\ IF list = << >> THEN UNCHANGED <<loop, transit>>
         ELSE /\ loop' = [loop EXCEPT ![n] = [from |-> m, block |-> Head(list)]]
              /\ transit' = [transit EXCEPT ![n][m] = Tail(list)]
  BY DEF HandleBlock
<1>3. list \in Seq(Block) /\ ToSet(list) \subseteq known[m]
      /\ (list # << >> /\ Steady => m \in up)
  BY <1>1 DEF IInv, TypeOK, TransitInv
<1>4. list # << >> => /\ Head(list) \in Block /\ Head(list) \in known[m]
                      /\ Tail(list) \in Seq(Block)
                      /\ ToSet(Tail(list)) \subseteq known[m]
  <2> HIDE DEF list
  <2> QED BY <1>3, ListFacts
<1>5. /\ row \in Seq(Block) /\ ToSet(row) \subseteq known[m]
      /\ row # << >> => list # << >>
      /\ next \in [from : Node, block : Block] \cup {NoLoop}
      /\ next # NoLoop => /\ next.from = m /\ next.block \in known[m]
                          /\ list # << >>
      /\ row # << >> => next.from = m
  <2> HIDE DEF list
  <2> QED BY <1>1, <1>3, <1>4
<1>6. /\ transit' \in [Node -> [Node -> Seq(Block)]] /\ transit'[n][m] = row
      /\ \A k, l \in Node : k # n \/ l # m => transit'[k][l] = transit[k][l]
      /\ loop' \in [Node -> [from : Node, block : Block] \cup {NoLoop}]
      /\ loop'[n] = next /\ \A k \in Node : k # n => loop'[k] = loop[k]
  <2>1. TypeOK /\ loop \in [Node -> [from : Node, block : Block] \cup {NoLoop}]
        /\ transit \in [Node -> [Node -> Seq(Block)]]
    BY DEF IInv, TypeOK
  <2>2. CASE list = << >>
    BY <1>2, <2>1, <2>2
  <2>3. CASE list # << >>
    <3>1. /\ transit' \in [Node -> [Node -> Seq(Block)]]
          /\ transit'[n][m] = Tail(list)
          /\ \A k, l \in Node :
                k # n \/ l # m => transit'[k][l] = transit[k][l]
      BY <1>1, <1>2, <1>4, <2>1, <2>3, RowChanged, ZenonT(40)
    <3>2. row = Tail(list) /\ next = [from |-> m, block |-> Head(list)]
      BY <2>3
    <3>3. loop' = [loop EXCEPT ![n] = next]
      BY <1>2, <2>3
    <3> HIDE DEF row, next, list
    <3> QED BY <1>1, <1>5, <2>1, <3>1, <3>2, <3>3
  <2> QED BY <2>2, <2>3
<1>7. /\ known' \in [Node -> SUBSET Block]
      /\ tip' \in [Node -> Block \cup {None}]
      /\ \A k \in Node : known[k] \subseteq known'[k]
      /\ \A k \in Node \ {n} : known'[k] = known[k] /\ tip'[k] = tip[k]
      /\ StoreInv'
      /\ \A k \in Node : tip'[k] = None <=> known'[k] = {}
      /\ new => b \in known'[n]
  <2>1. CASE new
    <3>1. b \notin known[n] /\ Parent[b] \in known[n] /\ AddBlock(n, b)
      BY <1>2, <2>1 DEF CheckBlockState
    <3>2. /\ known' \in [Node -> SUBSET Block]
          /\ tip' \in [Node -> Block \cup {None}]
          /\ known'[n] = known[n] \cup {b}
          /\ \A k \in Node \ {n} : known'[k] = known[k] /\ tip'[k] = tip[k]
          /\ StoreInv'
          /\ \A k \in Node : tip'[k] = None <=> known'[k] = {}
      BY <1>1, <3>1, AddFacts DEF IInv
    <3> QED BY <3>2
  <2>2. CASE ~new
    BY <1>2, <2>2 DEF IInv, TypeOK, StoreInv
  <2> QED BY <2>1, <2>2
<1> HIDE DEF row, next
<1>8. IsABag(C) /\ \A p \in BagToSet(C) : Sound(p)'
  <2>1. CASE new
    <3>1. C = Send({Inv(n, k, <<b>>) : k \in Others(n)})
      BY <2>1
    <3>2. \A p \in {Inv(n, k, <<b>>) : k \in Others(n)} :
              p.to \in up => Sound(p)'
      <4>1. TypeOK /\ n \in up' /\ up' \subseteq Node /\ b \in known'[n]
            /\ up' = up
        BY <1>1, <1>2, <1>7, <2>1 DEF IInv, TypeOK
      <4> HIDE DEF n, b
      <4> QED BY <1>1, <4>1, AnnouncesBlock
    <3> HIDE DEF C
    <3> QED BY <3>1, <3>2, SendFacts
  <2>2. CASE ~new
    BY <2>2, BagEmpty
  <2> QED BY <2>1, <2>2
<1> HIDE DEF C, list
<1>9. /\ IsABag(pending')
      /\ BagToSet(pending') \subseteq BagToSet(pending) \cup BagToSet(C)
      /\ BagToSet(pending) \subseteq BagToSet(pending') \cup {msg}
  BY <1>1, <1>2, <1>8, Answered
<1>10. MessageInv' /\ BagToSet(pending') \subseteq Message
  BY <1>2, <1>7, <1>8, <1>9, MessagesKept DEF IInv, Steady
<1>11. TypeOK'
  BY <1>1, <1>2, <1>6, <1>7, <1>9, <1>10 DEF IInv, TypeOK
<1>12. ImportInv'
  BY <1>1, <1>2, <1>7, ImportKept
<1>13. LoopInv'
  <2> SUFFICES ASSUME NEW k \in Node, loop'[k] # NoLoop
               PROVE  /\ k \in up /\ (Steady => loop'[k].from \in up)
                      /\ loop'[k].block \in known'[loop'[k].from]
    BY <1>2 DEF LoopInv, Steady
  <2>1. CASE k = n
    BY <1>1, <1>3, <1>5, <1>6, <1>7, <2>1
  <2>2. CASE k # n
    <3>1. loop[k] # NoLoop /\ loop'[k] = loop[k] /\ loop[k].from \in Node
      BY <1>6, <2>2 DEF IInv, TypeOK
    <3> QED BY <1>7, <3>1 DEF IInv, LoopInv
  <2> QED BY <2>1, <2>2
<1>14. TransitInv'
  <2> SUFFICES ASSUME NEW k \in Node, NEW l \in Node
               PROVE  /\ ToSet(transit'[k][l]) \subseteq known'[l]
                      /\ transit'[k][l] # << >> /\ Steady => l \in up
    BY <1>2 DEF TransitInv, Steady
  <2>1. CASE k = n /\ l = m
    BY <1>1, <1>3, <1>5, <1>6, <1>7, <2>1
  <2>2. CASE k # n \/ l # m
    <3>1. /\ transit'[k][l] = transit[k][l] /\ known[l] \subseteq known'[l]
          /\ ToSet(transit[k][l]) \subseteq known[l]
          /\ transit[k][l] # << >> /\ Steady => l \in up
      BY <1>6, <1>7, <2>2 DEF IInv, TransitInv
    <3> QED BY <3>1
  <2> QED BY <2>1, <2>2
<1>15. ListsServed'
  <2> SUFFICES ASSUME Steady', NEW k \in Node, NEW l \in Node
               PROVE  Served(k, l)'
    BY DEF ListsServed
  <2>1. Served(k, l)
    BY <1>2 DEF IInv, ListsServed, Steady
  <2>2. CASE k = n /\ l = m
    BY <1>5, <1>6, <2>2 DEF Served
  <2>3. CASE k # n \/ l # m
    <3>1. ~Serves(msg, k, l)
      BY <1>1, <2>3 DEF Serves
    <3>2. loop[k].from = l => loop'[k].from = l
      <4>1. CASE k = n
        BY <1>1, <4>1, SyncAssumption DEF NoLoop
      <4>2. CASE k # n
        BY <1>6, <4>2
      <4> QED BY <4>1, <4>2
    <3> QED BY <1>6, <1>9, <2>1, <2>3, <3>1, <3>2, ServedKept
  <2> QED BY <2>2, <2>3
<1> QED BY <1>7, <1>10, <1>11, <1>12, <1>13, <1>14, <1>15 DEF IInv

(***************************************************************************)
(* What starts an exchange                                                 *)
(***************************************************************************)

\* More messages, more blocks and more servers leave what was announced and
\* is worked on as it was.
LEMMA MoreStep ==
    ASSUME IInv, IsABag(pending'), BagToSet(pending) \subseteq BagToSet(pending'),
           \A p \in BagToSet(pending') : p \in BagToSet(pending) \/ Sound(p)',
           up \subseteq up', \A n \in Node : known[n] \subseteq known'[n],
           UNCHANGED <<transit, loop>>, Steady' => Steady
    PROVE  /\ (MessageInv /\ LoopInv /\ TransitInv /\ ListsServed)'
           /\ BagToSet(pending') \subseteq Message
<1>1. MessageInv' /\ BagToSet(pending') \subseteq Message
  BY MessagesKept DEF IInv, Steady
<1>2. LoopInv'
  <2> SUFFICES ASSUME NEW k \in Node, loop[k] # NoLoop
               PROVE  /\ k \in up' /\ (Steady => loop[k].from \in up')
                      /\ loop[k].block \in known'[loop[k].from]
    BY DEF LoopInv
  <2>1. loop[k].from \in Node
    BY DEF IInv, TypeOK
  <2> QED BY <2>1 DEF IInv, LoopInv
<1>3. TransitInv'
  <2> SUFFICES ASSUME NEW k \in Node, NEW l \in Node
               PROVE  /\ ToSet(transit[k][l]) \subseteq known'[l]
                      /\ transit[k][l] # << >> /\ Steady => l \in up'
    BY DEF TransitInv
  <2>1. /\ ToSet(transit[k][l]) \subseteq known[l]
        /\ transit[k][l] # << >> /\ Steady => l \in up
    BY DEF IInv, TransitInv
  <2>2. known[l] \subseteq known'[l]
    OBVIOUS
  <2> QED BY <2>1, <2>2
<1>4. ListsServed'
  <2> SUFFICES ASSUME Steady', NEW k \in Node, NEW l \in Node
               PROVE  Served(k, l)'
    BY DEF ListsServed
  <2>1. Served(k, l)
    BY DEF IInv, ListsServed, Steady
  <2> QED BY <2>1, ServedKept
<1> QED BY <1>1, <1>2, <1>3, <1>4

LEMMA BusyBound ==
    ASSUME TypeOK, up' \subseteq Node, Begins
    PROVE  /\ rush' \in 0 .. MaxBusy
           /\ rush' = 0 => rush = 0 /\ Nothing
           /\ stops' = stops /\ Steady' => Steady
<1>1. IsFiniteSet(up') /\ Cardinality(up') \in Nat
  BY SyncAssumption, FS_Subset, FS_CardinalityType
<1>2. /\ rush' = IF Nothing THEN rush ELSE rush + 1
      /\ Cardinality(up') + rush' <= MaxBusy
  BY DEF Begins
<1>3. rush \in Nat /\ MaxBusy \in Nat
  BY SyncAssumption DEF TypeOK
<1>4. rush' \in 0 .. MaxBusy /\ (rush' = 0 => rush = 0 /\ Nothing)
  BY <1>1, <1>2, <1>3
<1> QED BY <1>4 DEF Steady

LEMMA MakeBlockStep ==
    ASSUME IInv, NEW n \in Node, NEW b \in Block, MakeBlock(n, b)
    PROVE  IInv'
<1> DEFINE C == Send({Inv(n, m, <<b>>) : m \in Others(n)})
<1>1. /\ n \in up /\ Parent[b] = tip[n] /\ b \notin known[n] /\ AddBlock(n, b)
      /\ pending' = pending (+) C /\ Begins
      /\ UNCHANGED <<up, import, transit, loop, stops>>
  BY DEF MakeBlock
<1>2. tip[n] \in known[n] /\ TypeOK /\ StoreInv /\ up \subseteq Node
  BY <1>1 DEF IInv, TypeOK, StoreInv
<1>3. /\ known'[n] = known[n] \cup {b}
      /\ known' \in [Node -> SUBSET Block]
      /\ tip' \in [Node -> Block \cup {None}]
      /\ \A k \in Node \ {n} : known'[k] = known[k] /\ tip'[k] = tip[k]
      /\ StoreInv'
      /\ \A k \in Node : tip'[k] = None <=> known'[k] = {}
  BY <1>1, <1>2, AddFacts
<1>4. \A k \in Node : known[k] \subseteq known'[k]
  BY <1>3
<1>5. \A p \in {Inv(n, k, <<b>>) : k \in Others(n)} :
          p.to \in up' => Sound(p)'
  <2>1. n \in up' /\ up' \subseteq Node /\ b \in known'[n]
    BY <1>1, <1>2, <1>3
  <2> QED BY <1>2, <2>1, AnnouncesBlock
<1>6. IsABag(C) /\ \A p \in BagToSet(C) : Sound(p)'
  BY <1>1, <1>5, SendFacts
<1> HIDE DEF C
<1>7. IsABag(pending)
  BY <1>2 DEF TypeOK
<1>8. /\ IsABag(pending')
      /\ BagToSet(pending') = BagToSet(pending) \cup BagToSet(C)
  BY <1>1, <1>6, <1>7, BagPlus
<1>9. rush' \in 0 .. MaxBusy /\ (Steady' => Steady)
  BY <1>1, <1>2, BusyBound
<1>10. /\ (MessageInv /\ LoopInv /\ TransitInv /\ ListsServed)'
       /\ BagToSet(pending') \subseteq Message
  BY <1>1, <1>4, <1>6, <1>8, <1>9, MoreStep
<1>11. TypeOK'
  BY <1>1, <1>2, <1>3, <1>4, <1>8, <1>9, <1>10 DEF TypeOK
<1>12. ImportInv'
  BY <1>1, <1>3, ImportKept
<1> QED BY <1>3, <1>10, <1>11, <1>12 DEF IInv

LEMMA StartStep == ASSUME IInv, NEW n \in Node, Start(n) PROVE IInv'
<1> DEFINE C == Send({Version(n, m) : m \in Others(n)})
<1>1. /\ known[n] # {} /\ import[n] = << >> /\ up' = up \cup {n}
      /\ pending' = pending (+) C /\ Begins
      /\ UNCHANGED <<known, tip, import, transit, loop, stops>>
  BY DEF Start
<1>2. TypeOK /\ up' \subseteq Node /\ IsABag(pending) /\ tip[n] \in Block
  BY <1>1 DEF IInv, TypeOK, StoreInv
<1>3. \A m \in Node : /\ Version(n, m) \in Message
                      /\ Version(n, m).type = "version"
                      /\ Version(n, m).to = m /\ Version(n, m).from = n
  BY <1>2, MessageMade
<1>4. IsABag(C) /\ BagToSet(C)
          = {p \in {Version(n, m) : m \in Others(n)} : p.to \in up}
  BY SendFacts
<1>5. \A p \in BagToSet(C) : Sound(p)'
  <2> HIDE DEF C
  <2> SUFFICES ASSUME NEW p \in BagToSet(C) PROVE Sound(p)'
    OBVIOUS
  <2>1. PICK m \in Node : p = Version(n, m) /\ p.to \in up
    BY <1>4 DEF Others
  <2> QED BY <1>1, <1>3, <2>1 DEF Sound
<1> HIDE DEF C
<1>6. /\ IsABag(pending')
      /\ BagToSet(pending') = BagToSet(pending) \cup BagToSet(C)
  BY <1>1, <1>2, <1>4, BagPlus
<1>7. rush' \in 0 .. MaxBusy /\ (Steady' => Steady)
  BY <1>1, <1>2, BusyBound
<1>8. /\ (MessageInv /\ LoopInv /\ TransitInv /\ ListsServed)'
      /\ BagToSet(pending') \subseteq Message
  BY <1>1, <1>5, <1>6, <1>7, MoreStep
<1>9. TypeOK'
  BY <1>1, <1>2, <1>6, <1>7, <1>8 DEF TypeOK
<1>10. (StoreInv /\ ImportInv)'
  BY <1>1 DEF IInv, StoreInv, ImportInv
<1> QED BY <1>8, <1>9, <1>10 DEF IInv

\* With the server go its lists and its handlers; messages to it are lost.
LEMMA StopStep == ASSUME IInv, NEW n \in Node, Stop(n) PROVE IInv'
<1>1. /\ up' = up \ {n} /\ stops < MaxStops /\ stops' = stops + 1 /\ Begins
      /\ transit' = [transit EXCEPT ![n] = [m \in Node |-> << >>]]
      /\ loop' = [loop EXCEPT ![n] = NoLoop]
      /\ pending' = [msg \in {p \in BagToSet(pending) : p.to # n} |->
                        pending[msg]]
      /\ UNCHANGED <<known, tip, import>>
  BY DEF Stop
<1>2. /\ TypeOK /\ up' \subseteq Node /\ stops \in Nat /\ MaxStops \in Nat
      /\ stops' \in 0 .. MaxStops /\ stops' # 0
  BY <1>1, SyncAssumption DEF IInv, TypeOK
<1>3. /\ IsABag(pending')
      /\ BagToSet(pending') = {p \in BagToSet(pending) : p.to # n}
  BY <1>1, <1>2 DEF TypeOK, IsABag, BagToSet
<1>4. rush' \in 0 .. MaxBusy /\ (Steady' => rush = 0 /\ Nothing)
  BY <1>1, <1>2, BusyBound DEF Steady
\* A stop that finds nothing going on finds no list either.
<1>5. Steady' => /\ BagToSet(pending) = {} /\ \A k \in Node : loop[k] = NoLoop
                 /\ \A k, l \in Node : transit[k][l] = << >>
  <2> SUFFICES ASSUME Steady'
               PROVE  /\ BagToSet(pending) = {}
                      /\ \A k \in Node : loop[k] = NoLoop
                      /\ \A k, l \in Node : transit[k][l] = << >>
    OBVIOUS
  <2>1. rush = 0 /\ BagToSet(pending) = {} /\ \A k \in Node : loop[k] = NoLoop
    BY <1>4, BagEmpty DEF Nothing
  <2> QED BY <2>1, NothingListed DEF IInv, Steady
<1>12. MessageInv'
  BY <1>1, <1>2, <1>3, <1>5 DEF IInv, MessageInv, Sound
<1>6. /\ transit' \in [Node -> [Node -> Seq(Block)]]
      /\ \A k, l \in Node : \/ transit'[k][l] = transit[k][l]
                            \/ transit'[k][l] = << >>
      /\ loop' \in [Node -> [from : Node, block : Block] \cup {NoLoop}]
      /\ \A k \in Node : k # n => loop'[k] = loop[k]
      /\ loop'[n] = NoLoop
  <2>1. [m \in Node |-> << >>] \in [Node -> Seq(Block)]
    OBVIOUS
  <2> QED BY <1>1, <1>2, <2>1 DEF TypeOK
<1>7. TypeOK'
  BY <1>1, <1>2, <1>3, <1>4, <1>6 DEF TypeOK
<1>8. (StoreInv /\ ImportInv)'
  BY <1>1 DEF IInv, StoreInv, ImportInv
<1>9. LoopInv'
  BY <1>1, <1>2, <1>5, <1>6 DEF IInv, LoopInv
<1>10. TransitInv'
  <2>1. ToSet(<< >>) = {}
    BY DEF ToSet
  <2> QED BY <1>1, <1>2, <1>5, <1>6, <2>1 DEF IInv, TransitInv
<1>11. ListsServed'
  BY <1>5, <1>6, ZenonT(40) DEF ListsServed, Served
<1> QED BY <1>12, <1>7, <1>8, <1>9, <1>10, <1>11 DEF IInv

\* The first blocks of another node, from the genesis block up.
LEMMA FirstBlocks ==
    ASSUME NEW t \in Block
    PROVE  LET first == SubSeq(Reverse(Down(t)), 1,
                               Lower(Height[t] + 1, MaxFirst))
           IN  /\ first \in Seq(Block) /\ first # << >>
               /\ Head(first) = Genesis
               /\ \A i \in 1 .. Len(first) - 1 : Parent[first[i + 1]] = first[i]
<1> DEFINE to == Lower(Height[t] + 1, MaxFirst)
           s == Reverse(Down(t))
           first == SubSeq(s, 1, to)
<1>1. Height[t] \in Nat /\ MaxFirst \in Nat \ {0}
  BY LineTop, SyncAssumption
<1>2. 1 \in 1 .. Height[t] + 1 /\ to \in 1 .. Height[t] + 1
  BY <1>1 DEF Lower
<1>3. /\ first \in Seq(Block) /\ Len(first) = to - 1 + 1
      /\ \A i \in 1 .. Len(first) : first[i] = s[1 + i - 1]
  <2> HIDE DEF to
  <2> QED BY <1>2, PartOfLine
<1> HIDE DEF to
<1>4. /\ Down(t) \in Seq(Block) /\ Len(Down(t)) = Height[t] + 1
      /\ \A i \in 1 .. Height[t] + 1 : /\ Down(t)[i] \in Line[t]
                                       /\ Height[Down(t)[i]] = Height[t] + 1 - i
  BY DownFacts
<1>5. \A i \in 1 .. Height[t] + 1 : s[i] = Down(t)[Height[t] + 1 - i + 1]
  <2> DEFINE d == Down(t)
             h == Height[t] + 1
  <2>1. d \in Seq(Block) /\ Len(d) = h
    BY <1>4
  <2> HIDE DEF d, h
  <2>2. \A i \in 1 .. Len(d) : Reverse(d)[i] = d[Len(d) - i + 1]
    BY <2>1, ReverseFacts
  <2>3. \A i \in 1 .. h : Reverse(d)[i] = d[h - i + 1]
    BY <2>1, <2>2
  <2>4. \A i \in 1 .. h : h - i + 1 = Height[t] + 1 - i + 1
    BY <1>1 DEF h
  <2>5. \A i \in 1 .. h : Reverse(d)[i] = d[Height[t] + 1 - i + 1]
    BY <2>3, <2>4
  <2> QED BY <2>5 DEF d, h
<1>7. \A i \in 1 .. to : first[i] = Down(t)[Height[t] + 2 - i]
  <2> SUFFICES ASSUME NEW i \in 1 .. to
               PROVE  first[i] = Down(t)[Height[t] + 2 - i]
    OBVIOUS
  <2>1. i \in 1 .. Height[t] + 1 /\ i \in 1 .. Len(first) /\ 1 + i - 1 = i
        /\ Height[t] + 1 - i + 1 = Height[t] + 2 - i
    BY <1>1, <1>2, <1>3
  <2>2. first[i] = s[i]
    BY <1>3, <2>1
  <2> HIDE DEF first, s
  <2> QED BY <1>5, <2>1, <2>2
<1> HIDE DEF first, s
<1>8. Len(first) = to /\ to >= 1 /\ to <= Height[t] + 1 /\ to \in Nat
  BY <1>1, <1>2, <1>3
<1>9. first # << >> /\ Head(first) = first[1]
  BY <1>3, <1>8
<1>10. first[1] = Genesis
  <2> DEFINE c == Down(t)[Height[t] + 1]
  <2>1. first[1] = c
    <3>1. 1 \in 1 .. to /\ Height[t] + 2 - 1 = Height[t] + 1
      BY <1>1, <1>8
    <3> QED BY <1>7, <3>1
  <2>2. Height[t] + 1 \in 1 .. Height[t] + 1
    BY <1>1
  <2>3. c \in Line[t] /\ Height[c] = Height[t] + 1 - (Height[t] + 1)
    BY <1>4, <2>2
  <2>4. Height[c] = 0
    BY <1>1, <2>3
  <2> HIDE DEF c
  <2>5. c \in Block
    BY <2>3, LineTop
  <2>6. c = Genesis
    BY <2>4, <2>5, PreviousBlock
  <2> QED BY <2>1, <2>6
<1>11. \A i \in 1 .. Len(first) - 1 : Parent[first[i + 1]] = first[i]
  <2> SUFFICES ASSUME NEW i \in 1 .. Len(first) - 1
               PROVE  Parent[first[i + 1]] = first[i]
    OBVIOUS
  <2> DEFINE j == Height[t] + 1 - i
  <2>1. /\ i \in 1 .. to /\ i + 1 \in 1 .. to /\ j \in 1 .. Height[t]
        /\ Height[t] + 2 - (i + 1) = j /\ Height[t] + 2 - i = j + 1
    BY <1>1, <1>8
  <2>2. first[i + 1] = Down(t)[j] /\ first[i] = Down(t)[j + 1]
    BY <1>7, <2>1
  <2> HIDE DEF j
  <2> QED BY <2>1, <2>2, DownParent
<1> QED BY <1>3, <1>9, <1>10, <1>11 DEF first, s, to

LEMMA RequestFirstBlocksStep ==
    ASSUME IInv, NEW n \in Node, NEW m \in Node, RequestFirstBlocks(n, m)
    PROVE  IInv'
<1> DEFINE first == SubSeq(Reverse(Down(tip[m])), 1,
                           Lower(Height[tip[m]] + 1, MaxFirst))
<1>1. /\ known[n] = {} /\ import[n] = << >> /\ m \in up
      /\ import' = [import EXCEPT ![n] = first]
      /\ UNCHANGED <<up, known, tip, transit, pending, loop, stops, rush>>
  BY DEF RequestFirstBlocks
<1>2. tip[m] \in Block /\ n \notin up /\ TypeOK
  BY <1>1 DEF IInv, TypeOK
<1>3. /\ first \in Seq(Block) /\ first # << >> /\ Head(first) = Genesis
      /\ \A i \in 1 .. Len(first) - 1 : Parent[first[i + 1]] = first[i]
  BY <1>2, FirstBlocks
<1> HIDE DEF first
<1>4. import' \in [Node -> Seq(Block)] /\ import'[n] = first
      /\ \A k \in Node : k # n => import'[k] = import[k]
  BY <1>1, <1>2, <1>3 DEF TypeOK
<1>5. TypeOK'
  BY <1>1, <1>2, <1>4 DEF TypeOK
<1>6. ImportInv'
  <2> SUFFICES ASSUME NEW k \in Node
               PROVE  /\ \A i \in 1 .. Len(import'[k]) - 1 :
                            Parent[import'[k][i + 1]] = import'[k][i]
                      /\ import'[k] # << >> =>
                            IF known[k] = {} THEN Head(import'[k]) = Genesis
                            ELSE /\ known[k] = Line[tip[k]]
                                 /\ Parent[Head(import'[k])] = tip[k]
    BY <1>1 DEF ImportInv
  <2>1. CASE k = n
    <3>1. import'[k] = first /\ known[k] = {}
      BY <1>1, <1>4, <2>1
    <3> QED BY <1>3, <3>1
  <2>2. CASE k # n
    <3>1. import'[k] = import[k]
      BY <1>4, <2>2
    <3>2. /\ \A i \in 1 .. Len(import[k]) - 1 :
                Parent[import[k][i + 1]] = import[k][i]
          /\ import[k] # << >> =>
                IF known[k] = {} THEN Head(import[k]) = Genesis
                ELSE known[k] = Line[tip[k]] /\ Parent[Head(import[k])] = tip[k]
      BY DEF IInv, ImportInv
    <3> QED BY <3>1, <3>2, Zenon
  <2> QED BY <2>1, <2>2
<1>7. (StoreInv /\ MessageInv /\ LoopInv /\ TransitInv /\ ListsServed)'
  BY <1>1 DEF IInv, StoreInv, MessageInv, Sound, LoopInv, TransitInv,
              ListsServed, Served, Serves, Steady
<1> QED BY <1>5, <1>6, <1>7 DEF IInv

\* What the next imported block is to the blocks imported before.
LEMMA ImportFacts ==
    ASSUME TypeOK, StoreInv, ImportInv, NEW n \in Node, import[n] # << >>
    PROVE  LET b == Head(import[n])
           IN  /\ b \in Block /\ Tail(import[n]) \in Seq(Block) /\ n \notin up
               /\ known[n] = {} => b = Genesis
               /\ known[n] # {} =>
                     /\ known[n] = Line[tip[n]] /\ tip[n] \in Block
                     /\ Parent[b] = tip[n] /\ b # Genesis
                     /\ b \notin known[n] /\ Parent[b] \in known[n]
                     /\ Height[b] > Height[tip[n]]
                     /\ Line[b] = known[n] \cup {b}
               /\ \A i \in 1 .. Len(Tail(import[n])) - 1 :
                     Parent[Tail(import[n])[i + 1]] = Tail(import[n])[i]
               /\ Tail(import[n]) # << >> => Parent[Head(Tail(import[n]))] = b
<1> DEFINE s == import[n]
           b == Head(s)
<1>1. s \in Seq(Block) /\ s # << >> /\ n \notin up
  BY DEF TypeOK
<1>2. \A i \in 1 .. Len(s) - 1 : Parent[s[i + 1]] = s[i]
  BY DEF ImportInv
<1>3. IF known[n] = {} THEN b = Genesis
      ELSE known[n] = Line[tip[n]] /\ Parent[b] = tip[n]
  BY DEF ImportInv
<1>4. known[n] # {} => tip[n] \in Block
  BY DEF TypeOK
<1> HIDE DEF s
<1>5. /\ b = s[1] /\ b \in Block /\ Tail(s) \in Seq(Block)
      /\ Len(Tail(s)) = Len(s) - 1 /\ Len(s) \in Nat \ {0}
      /\ \A i \in 1 .. Len(s) - 1 : Tail(s)[i] = s[i + 1]
  <2>1. b = s[1] /\ b \in Block /\ Tail(s) \in Seq(Block)
    BY <1>1
  <2>2. Len(Tail(s)) = Len(s) - 1 /\ Len(s) \in Nat \ {0}
    BY <1>1
  <2>3. \A i \in 1 .. Len(s) - 1 : Tail(s)[i] = s[i + 1]
    BY <1>1
  <2> QED BY <2>1, <2>2, <2>3
<1>6. \A i \in 1 .. Len(Tail(s)) - 1 : Parent[Tail(s)[i + 1]] = Tail(s)[i]
  <2> SUFFICES ASSUME NEW i \in 1 .. Len(Tail(s)) - 1
               PROVE  Parent[Tail(s)[i + 1]] = Tail(s)[i]
    OBVIOUS
  <2>1. i \in 1 .. Len(s) - 1 /\ i + 1 \in 1 .. Len(s) - 1
    BY <1>5
  <2> QED BY <1>2, <1>5, <2>1
<1>7. Tail(s) # << >> => Parent[Head(Tail(s))] = b
  <2> SUFFICES ASSUME Tail(s) # << >> PROVE Parent[Head(Tail(s))] = b
    OBVIOUS
  <2>1. Head(Tail(s)) = Tail(s)[1] /\ Len(Tail(s)) >= 1
    BY <1>5
  <2>2. 1 \in 1 .. Len(s) - 1
    BY <1>5, <2>1
  <2> QED BY <1>2, <1>5, <2>1, <2>2
<1> HIDE DEF b
<1>8. ASSUME known[n] # {}
      PROVE  /\ known[n] = Line[tip[n]] /\ tip[n] \in Block
             /\ Parent[b] = tip[n] /\ b # Genesis
             /\ b \notin known[n] /\ Parent[b] \in known[n]
             /\ Height[b] > Height[tip[n]]
             /\ Line[b] = known[n] \cup {b}
  <2>1. known[n] = Line[tip[n]] /\ Parent[b] = tip[n] /\ tip[n] \in Block
    BY <1>3, <1>4, <1>8
  <2>2. b # Genesis
    BY <1>5, <2>1, ParentAssumption, BlockAssumption
  <2>3. Height[b] = Height[tip[n]] + 1 /\ Height[tip[n]] \in Nat
        /\ Line[b] = Line[tip[n]] \cup {b} /\ b \notin Line[tip[n]]
    BY <1>5, <2>1, <2>2, PreviousBlock, LineTop
  <2> QED BY <2>1, <2>2, <2>3, LineTop
<1> QED BY <1>1, <1>3, <1>5, <1>6, <1>7, <1>8 DEF s, b

LEMMA ImportBlockStep == ASSUME IInv, NEW n \in Node, ImportBlock(n) PROVE IInv'
<1> DEFINE b == Head(import[n])
           rest == Tail(import[n])
<1>1. /\ import[n] # << >>
      /\ import' = [import EXCEPT ![n] = rest]
      /\ IF known[n] = {}
         THEN /\ known' = [known EXCEPT ![n] = {b}]
              /\ tip' = [tip EXCEPT ![n] = b]
         ELSE AddBlock(n, b)
      /\ UNCHANGED <<up, transit, pending, loop, stops, rush>>
      /\ TypeOK /\ StoreInv /\ ImportInv
  BY DEF ImportBlock, IInv
<1>2. /\ b \in Block /\ rest \in Seq(Block) /\ n \notin up
      /\ known[n] = {} => b = Genesis
      /\ known[n] # {} =>
            /\ known[n] = Line[tip[n]] /\ tip[n] \in Block
            /\ Parent[b] = tip[n] /\ b # Genesis
            /\ b \notin known[n] /\ Parent[b] \in known[n]
            /\ Height[b] > Height[tip[n]]
            /\ Line[b] = known[n] \cup {b}
      /\ \A i \in 1 .. Len(rest) - 1 : Parent[rest[i + 1]] = rest[i]
      /\ rest # << >> => Parent[Head(rest)] = b
  BY <1>1, ImportFacts
<1> HIDE DEF b, rest
<1>3. import' \in [Node -> Seq(Block)] /\ import'[n] = rest
      /\ \A k \in Node : k # n => import'[k] = import[k]
  BY <1>1, <1>2 DEF TypeOK
<1>4. /\ known' \in [Node -> SUBSET Block]
      /\ tip' \in [Node -> Block \cup {None}]
      /\ \A k \in Node : k # n => known'[k] = known[k] /\ tip'[k] = tip[k]
      /\ known[n] \subseteq known'[n]
      /\ StoreInv'
      /\ \A k \in Node : tip'[k] = None <=> known'[k] = {}
      /\ tip'[n] = b /\ known'[n] = Line[b]
  <2>1. CASE known[n] = {}
    <3>1. /\ known' = [known EXCEPT ![n] = {b}] /\ tip' = [tip EXCEPT ![n] = b]
          /\ b = Genesis /\ Line[b] = {b}
      BY <1>1, <1>2, <2>1, LineAssumption
    <3>2. /\ known' \in [Node -> SUBSET Block]
          /\ tip' \in [Node -> Block \cup {None}]
          /\ known'[n] = {b} /\ tip'[n] = b
          /\ \A k \in Node : k # n => known'[k] = known[k] /\ tip'[k] = tip[k]
      BY <1>1, <1>2, <3>1 DEF TypeOK
    <3>3. StoreInv'
      <4> SUFFICES ASSUME NEW k \in Node
                   PROVE  /\ \A c \in known'[k] : /\ Line[c] \subseteq known'[k]
                                                  /\ Height[c] <= Height[tip'[k]]
                          /\ known'[k] # {} => tip'[k] \in known'[k]
        BY DEF StoreInv
      <4>1. CASE k = n
        BY <3>1, <3>2, <4>1, LineTop, BlockAssumption
      <4>2. CASE k # n
        BY <1>1, <3>2, <4>2 DEF StoreInv
      <4> QED BY <4>1, <4>2
    <3>4. \A k \in Node : tip'[k] = None <=> known'[k] = {}
      <4>1. b # None /\ known'[n] # {}
        BY <1>2, <3>2, BlockAssumption
      <4>2. \A k \in Node : k # n => (tip'[k] = None <=> known'[k] = {})
        BY <1>1, <3>2 DEF TypeOK
      <4> QED BY <3>2, <4>1, <4>2
    <3> QED BY <2>1, <3>1, <3>2, <3>3, <3>4
  <2>2. CASE known[n] # {}
    <3>1. /\ b \notin known[n] /\ Parent[b] \in known[n] /\ AddBlock(n, b)
          /\ Height[b] > Height[tip[n]] /\ Line[b] = known[n] \cup {b}
      BY <1>1, <1>2, <2>2
    <3>2. /\ known'[n] = known[n] \cup {b}
          /\ known' \in [Node -> SUBSET Block]
          /\ tip' \in [Node -> Block \cup {None}]
          /\ tip'[n] = IF Height[b] > Height[tip[n]] THEN b ELSE tip[n]
          /\ \A k \in Node \ {n} : known'[k] = known[k] /\ tip'[k] = tip[k]
          /\ StoreInv'
          /\ \A k \in Node : tip'[k] = None <=> known'[k] = {}
      BY <1>1, <1>2, <3>1, AddFacts
    <3> QED BY <3>1, <3>2
  <2> QED BY <2>1, <2>2
<1>5. ImportInv'
  <2> SUFFICES ASSUME NEW k \in Node
               PROVE  /\ \A i \in 1 .. Len(import'[k]) - 1 :
                            Parent[import'[k][i + 1]] = import'[k][i]
                      /\ import'[k] # << >> =>
                            IF known'[k] = {} THEN Head(import'[k]) = Genesis
                            ELSE /\ known'[k] = Line[tip'[k]]
                                 /\ Parent[Head(import'[k])] = tip'[k]
    BY DEF ImportInv
  <2>1. CASE k = n
    <3>1. import'[k] = rest /\ tip'[k] = b /\ known'[k] = Line[b]
      BY <1>3, <1>4, <2>1
    <3>2. \A i \in 1 .. Len(import'[k]) - 1 :
              Parent[import'[k][i + 1]] = import'[k][i]
      BY <1>2, <3>1, Zenon
    <3>3. import'[k] # << >> => Parent[Head(import'[k])] = tip'[k]
      BY <1>2, <3>1, Zenon
    <3>4. known'[k] # {} /\ known'[k] = Line[tip'[k]]
      BY <1>2, <3>1, LineTop
    <3> QED BY <3>2, <3>3, <3>4
  <2>2. CASE k # n
    BY <1>1, <1>3, <1>4, <2>2 DEF ImportInv
  <2> QED BY <2>1, <2>2
<1>6. /\ (MessageInv /\ LoopInv /\ TransitInv /\ ListsServed)'
      /\ BagToSet(pending') \subseteq Message
  <2>1. /\ IsABag(pending') /\ BagToSet(pending) \subseteq BagToSet(pending')
        /\ \A p \in BagToSet(pending') : p \in BagToSet(pending)
        /\ \A k \in Node : known[k] \subseteq known'[k]
    BY <1>1, <1>4 DEF TypeOK
  <2> QED BY <1>1, <2>1, MoreStep DEF Steady
<1>7. TypeOK'
  BY <1>1, <1>2, <1>3, <1>4, <1>6 DEF TypeOK
<1> QED BY <1>4, <1>5, <1>6, <1>7 DEF IInv

(***************************************************************************)
(* The invariant holds                                                     *)
(***************************************************************************)

LEMMA InitInv == Init => IInv
<1> SUFFICES ASSUME Init PROVE IInv
  OBVIOUS
<1>1. IsABag(pending) /\ BagToSet(pending) = {}
  BY BagEmpty DEF Init
<1>2. /\ up \subseteq Node
      /\ known \in [Node -> SUBSET Block] /\ tip \in [Node -> Block \cup {None}]
      /\ \A n \in Node : IF n \in Fresh THEN known[n] = {} /\ tip[n] = None
                         ELSE known[n] = {Genesis} /\ tip[n] = Genesis
      /\ \A n \in up : n \notin Fresh
  BY BlockAssumption DEF Init
<1>3. import \in [Node -> Seq(Block)] /\ \A n \in Node : import[n] = << >>
  BY DEF Init
<1>4. /\ transit \in [Node -> [Node -> Seq(Block)]]
      /\ \A n, m \in Node : transit[n][m] = << >>
  BY DEF Init
<1>5. /\ loop \in [Node -> [from : Node, block : Block] \cup {NoLoop}]
      /\ \A n \in Node : loop[n] = NoLoop
  BY DEF Init
<1>6. stops \in 0 .. MaxStops /\ rush \in 0 .. MaxBusy
  BY SyncAssumption DEF Init
<1>7. TypeOK
  BY <1>1, <1>2, <1>3, <1>4, <1>5, <1>6, BlockAssumption DEF TypeOK
<1>8. StoreInv
  BY <1>2, LineAssumption DEF StoreInv
<1>9. ImportInv
  <2>1. Len(<< >>) = 0 /\ 1 .. 0 - 1 = {}
    OBVIOUS
  <2> QED BY <1>3, <2>1 DEF ImportInv
<1>10. MessageInv /\ LoopInv
  BY <1>1, <1>5 DEF MessageInv, LoopInv
<1>11. TransitInv /\ ListsServed
  <2>1. ToSet(<< >>) = {}
    BY DEF ToSet
  <2> QED BY <1>4, <2>1 DEF TransitInv, ListsServed, Served
<1> QED BY <1>7, <1>8, <1>9, <1>10, <1>11 DEF IInv

LEMMA IdleStep == ASSUME IInv, UNCHANGED vars PROVE IInv'
<1>1. TypeOK'
  BY DEF IInv, TypeOK, vars
<1>2. (StoreInv /\ ImportInv /\ LoopInv /\ TransitInv)'
  BY DEF IInv, StoreInv, ImportInv, LoopInv, TransitInv, Steady, vars
<1>3. (MessageInv /\ ListsServed)'
  BY DEF IInv, MessageInv, Sound, ListsServed, Served, Serves, Steady, vars
<1> QED BY <1>1, <1>2, <1>3 DEF IInv

LEMMA NextInv == IInv /\ [Next]_vars => IInv'
<1> SUFFICES ASSUME IInv, [Next]_vars PROVE IInv'
  OBVIOUS
<1>1. ASSUME NEW msg \in BagToSet(pending), Handle(msg) PROVE IInv'
  BY <1>1, HandleVersionStep, HandleGetBlocksUpperStep, HandleGetBlocksStep,
     HandleInvStep, ShiftFirstStep, LookAtShiftedStep, HandleGetDataStep,
     HandleBlockStep
  DEF Handle
<1>2. CASE \E n \in Node :
              \/ \E b \in Block : MakeBlock(n, b)
              \/ Start(n) \/ Stop(n)
              \/ \E m \in Node : RequestFirstBlocks(n, m)
              \/ ImportBlock(n)
  BY <1>2, MakeBlockStep, StartStep, StopStep, RequestFirstBlocksStep,
     ImportBlockStep
<1>3. CASE UNCHANGED vars
  BY <1>3, IdleStep
<1>4. CASE Serve
  BY <1>1, <1>4, LookAtNextStep DEF Serve
<1> QED BY <1>2, <1>3, <1>4 DEF Next

LEMMA InvHolds == Spec => []IInv
BY InitInv, NextInv, PTL DEF Spec

(***************************************************************************)
(* The theorems                                                            *)
(***************************************************************************)

\* The state of the nodes keeps its shape; a server that runs has blocks.
THEOREM SyncTypes == Spec => []TypeOK
<1>1. IInv => TypeOK
  BY DEF IInv
<1> QED BY InvHolds, <1>1, PTL

\* A node is asked only for blocks it has and no announcement is empty, also
\* when servers stop, start again and find old messages and new lists.
THEOREM NoMissingBlockIsLookedUp == Spec => []NothingToDereference
<1>1. IInv => NothingToDereference
  BY DEF IInv, MessageInv, Sound, NothingToDereference
<1> QED BY InvHolds, <1>1, PTL

\* While no server stops, every list of announced blocks has a handler or a
\* message on its way that goes on with it.
THEOREM ListsAreServed == Spec => []TransitIsServed
<1>1. IInv => TransitIsServed
  BY DEF IInv, ListsServed, Served, Serves, Steady, TransitIsServed
<1> QED BY InvHolds, <1>1, PTL

\* One block more in the store of a node is one step of MainChain.
LEMMA AddIsAStep ==
    ASSUME TypeOK, StoreInv, NEW n \in Node, NEW b \in Block,
           b \notin known[n], Parent[b] \in known[n], AddBlock(n, b)
    PROVE  \A k \in Node : [Store(k)!Next]_(Store(k)!vars)
<1>1. /\ known'[n] = known[n] \cup {b}
      /\ tip'[n] = IF Height[b] > Height[tip[n]] THEN b ELSE tip[n]
      /\ tip[n] \in Block /\ known[n] # {}
      /\ \A k \in Node \ {n} : known'[k] = known[k] /\ tip'[k] = tip[k]
  BY AddFacts
<1>2. tip[n] # None /\ tip'[n] # None /\ known'[n] # {}
  BY <1>1, BlockAssumption
<1>3. Store(n)!Add(b)
  BY <1>1, <1>2 DEF Store!Add, Store!Branch
<1> SUFFICES ASSUME NEW k \in Node PROVE [Store(k)!Next]_(Store(k)!vars)
  OBVIOUS
<1>4. CASE k = n
  BY <1>3, <1>4 DEF Store!Next
<1>5. CASE k # n
  BY <1>1, <1>5 DEF Store!vars
<1> QED BY <1>4, <1>5

\* The first block stands for the empty store of a new node: importing it
\* changes nothing, each further one is an Add.
LEMMA ImportIsAStep ==
    ASSUME IInv, NEW n \in Node, ImportBlock(n)
    PROVE  \A k \in Node : [Store(k)!Next]_(Store(k)!vars)
<1> DEFINE b == Head(import[n])
<1>1. /\ import[n] # << >> /\ TypeOK /\ StoreInv /\ ImportInv
      /\ IF known[n] = {}
         THEN /\ known' = [known EXCEPT ![n] = {b}]
              /\ tip' = [tip EXCEPT ![n] = b]
         ELSE AddBlock(n, b)
  BY DEF ImportBlock, IInv
<1>2. /\ b \in Block /\ (known[n] = {} => b = Genesis)
      /\ known[n] # {} => b \notin known[n] /\ Parent[b] \in known[n]
  BY <1>1, ImportFacts
<1> HIDE DEF b
<1>3. CASE known[n] # {}
  BY <1>1, <1>2, <1>3, AddIsAStep
<1>4. CASE known[n] = {}
  <2>1. /\ known'[n] = {Genesis} /\ tip'[n] = Genesis
        /\ \A k \in Node : k # n => known'[k] = known[k] /\ tip'[k] = tip[k]
    BY <1>1, <1>2, <1>4 DEF TypeOK
  <2> SUFFICES ASSUME NEW k \in Node PROVE UNCHANGED Store(k)!vars
    OBVIOUS
  <2>2. CASE k = n
    BY <1>4, <2>1, <2>2, LineAssumption DEF Store!vars
  <2>3. CASE k # n
    BY <2>1, <2>3 DEF Store!vars
  <2> QED BY <2>2, <2>3
<1> QED BY <1>3, <1>4

\* Messages, restarts and imports change a store by single Adds only.
LEMMA StepIsAStep ==
    ASSUME IInv, Next
    PROVE  \A k \in Node : [Store(k)!Next]_(Store(k)!vars)
<1>1. ASSUME UNCHANGED <<known, tip>>
      PROVE  \A k \in Node : [Store(k)!Next]_(Store(k)!vars)
  BY <1>1 DEF Store!vars
<1>2. ASSUME NEW msg \in BagToSet(pending), HandleBlock(msg)
      PROVE  \A k \in Node : [Store(k)!Next]_(Store(k)!vars)
  <2> DEFINE n == msg.to
             b == msg.block
  <2>1. n \in Node /\ b \in Block /\ TypeOK /\ StoreInv
    BY <1>2, HandlerFacts, MessageFacts DEF IInv, HandleBlock, Handles
  <2>2. IF CheckBlockState(n, b) = "canBeAdded" THEN AddBlock(n, b)
        ELSE UNCHANGED <<known, tip>>
    BY <1>2 DEF HandleBlock
  <2>3. CASE CheckBlockState(n, b) = "canBeAdded"
    <3>1. b \notin known[n] /\ Parent[b] \in known[n] /\ AddBlock(n, b)
      BY <2>2, <2>3 DEF CheckBlockState
    <3> HIDE DEF n, b
    <3> QED BY <2>1, <3>1, AddIsAStep
  <2>4. CASE CheckBlockState(n, b) # "canBeAdded"
    BY <1>1, <2>2, <2>4
  <2> QED BY <2>3, <2>4
<1>3. ASSUME NEW n \in Node, NEW b \in Block, MakeBlock(n, b)
      PROVE  \A k \in Node : [Store(k)!Next]_(Store(k)!vars)
  <2>1. /\ n \in up /\ Parent[b] = tip[n] /\ b \notin known[n]
        /\ AddBlock(n, b) /\ TypeOK /\ StoreInv
    BY <1>3 DEF MakeBlock, IInv
  <2>2. Parent[b] \in known[n]
    BY <2>1 DEF TypeOK, StoreInv
  <2> QED BY <2>1, <2>2, AddIsAStep
<1>4. ASSUME NEW msg, Handle(msg), ~HandleBlock(msg)
      PROVE  UNCHANGED <<known, tip>>
  BY <1>4 DEF Handle, HandleVersion, HandleGetBlocksUpper, HandleGetBlocks,
              HandleInv, ShiftFirst, LookAtShifted, HandleGetData
<1>5. CASE Serve
  BY <1>1, <1>2, <1>4, <1>5 DEF Serve, LookAtNext
<1>6. ASSUME NEW n \in Node,
             Start(n) \/ Stop(n) \/ \E m \in Node : RequestFirstBlocks(n, m)
      PROVE  UNCHANGED <<known, tip>>
  BY <1>6 DEF Start, Stop, RequestFirstBlocks
<1> QED BY <1>1, <1>3, <1>5, <1>6, ImportIsAStep DEF Next

\* However blocks reach a node, out of order, twice, over restarts or by
\* import, its store only ever does what MainChain does.
THEOREM EveryStoreIsAMainChain == Spec => StoresAreMainChains
<1>1. Init => \A n \in Node : Store(n)!Init
  BY LineAssumption DEF Init, Store!Init
<1>2. IInv /\ [Next]_vars =>
          [\A n \in Node : [Store(n)!Next]_(Store(n)!vars)]_vars
  BY StepIsAStep
<1> QED BY InvHolds, <1>1, <1>2, PTL DEF Spec, StoresAreMainChains

(***************************************************************************)
(* What a step does to the stores                                          *)
(***************************************************************************)

\* Every block that some node has stored.  Imported blocks are of these, so a
\* block becomes stored only by being made.
Stored == UNION {known[n] : n \in Node}

ImportStored == \A n \in Node : ToSet(import[n]) \subseteq Stored

\* One node stores a block that another one has.
LEMMA StoredOnce ==
    ASSUME NEW n \in Node, NEW b \in Stored, known'[n] = known[n] \cup {b},
           \A k \in Node \ {n} : known'[k] = known[k]
    PROVE  Stored' = Stored /\ \A k \in Node : known[k] \subseteq known'[k]
<1>1. \A k \in Node : known[k] \subseteq known'[k]
  OBVIOUS
<1>2. \A c \in Stored : c \in Stored'
  BY <1>1 DEF Stored
<1>3. ASSUME NEW c \in Stored' PROVE c \in Stored
  <2>1. PICK k \in Node : c \in known'[k]
    BY DEF Stored
  <2>2. CASE k = n
    BY <2>1, <2>2 DEF Stored
  <2>3. CASE k # n
    BY <2>1, <2>3 DEF Stored
  <2> QED BY <2>2, <2>3
<1> QED BY <1>1, <1>2, <1>3

LEMMA StoredStep ==
    ASSUME IInv, ImportStored, [Next]_vars
    PROVE  /\ ImportStored' /\ \A k \in Node : known[k] \subseteq known'[k]
           /\ \/ Stored' = Stored
              \/ \E n \in Node, b \in Block :
                    MakeBlock(n, b) /\ Stored' = Stored \cup {b}
<1> DEFINE Goal == /\ ImportStored' /\ \A k \in Node : known[k] \subseteq known'[k]
                   /\ \/ Stored' = Stored
                      \/ \E n \in Node, b \in Block :
                            MakeBlock(n, b) /\ Stored' = Stored \cup {b}
<1> SUFFICES Goal
  OBVIOUS
<1>1. ASSUME UNCHANGED <<known, import>> PROVE Goal
  BY <1>1 DEF ImportStored, Stored
<1>2. ASSUME NEW msg \in BagToSet(pending), HandleBlock(msg) PROVE Goal
  <2> DEFINE n == msg.to
             b == msg.block
  <2>1. /\ n \in Node /\ b \in Block /\ TypeOK /\ StoreInv
        /\ msg.from \in Node /\ b \in known[msg.from] /\ import' = import
    BY <1>2, HandlerFacts, MessageFacts DEF IInv, HandleBlock, Handles, Sound
  <2>2. CASE CheckBlockState(n, b) = "canBeAdded"
    <3>1. b \notin known[n] /\ Parent[b] \in known[n] /\ AddBlock(n, b)
      BY <1>2, <2>2 DEF HandleBlock, CheckBlockState
    <3> HIDE DEF n, b
    <3>2. /\ known'[n] = known[n] \cup {b}
          /\ \A k \in Node \ {n} : known'[k] = known[k]
      BY <2>1, <3>1, AddFacts
    <3>3. b \in Stored
      BY <2>1 DEF Stored
    <3>4. Stored' = Stored /\ \A k \in Node : known[k] \subseteq known'[k]
      BY <2>1, <3>2, <3>3, StoredOnce
    <3> QED BY <2>1, <3>4 DEF ImportStored
  <2>3. CASE CheckBlockState(n, b) # "canBeAdded"
    BY <1>1, <1>2, <2>1, <2>3 DEF HandleBlock
  <2> QED BY <2>2, <2>3
<1>3. ASSUME NEW n \in Node, NEW b \in Block, MakeBlock(n, b) PROVE Goal
  <2>1. /\ n \in up /\ Parent[b] = tip[n] /\ b \notin known[n]
        /\ AddBlock(n, b) /\ TypeOK /\ StoreInv /\ import' = import
    BY <1>3 DEF MakeBlock, IInv
  <2>2. Parent[b] \in known[n]
    BY <2>1 DEF TypeOK, StoreInv
  <2>3. /\ known'[n] = known[n] \cup {b}
        /\ \A k \in Node \ {n} : known'[k] = known[k]
    BY <2>1, <2>2, AddFacts
  <2>4. \A k \in Node : known[k] \subseteq known'[k]
    BY <2>3
  <2>5. Stored' = Stored \cup {b}
    <3>1. Stored \cup {b} \subseteq Stored'
      BY <2>3, <2>4 DEF Stored
    <3>2. ASSUME NEW c \in Stored' PROVE c \in Stored \cup {b}
      <4>1. PICK k \in Node : c \in known'[k]
        BY DEF Stored
      <4>2. c \in known[k] \cup {b}
        BY <2>3, <4>1
      <4> QED BY <4>2 DEF Stored
    <3> QED BY <3>1, <3>2
  <2>6. ImportStored'
    BY <2>1, <2>5 DEF ImportStored
  <2> QED BY <1>3, <2>4, <2>5, <2>6
<1>4. ASSUME NEW n \in Node, NEW m \in Node, RequestFirstBlocks(n, m) PROVE Goal
  <2> DEFINE to == Lower(Height[tip[m]] + 1, MaxFirst)
             first == SubSeq(Reverse(Down(tip[m])), 1, to)
  <2>1. /\ m \in up /\ import' = [import EXCEPT ![n] = first]
        /\ UNCHANGED known
    BY <1>4 DEF RequestFirstBlocks
  <2>2. tip[m] \in Block /\ Line[tip[m]] \subseteq Stored
    <3>1. m \in Node /\ tip[m] \in Block /\ tip[m] \in known[m]
      BY <2>1 DEF IInv, TypeOK, StoreInv
    <3> QED BY <3>1 DEF IInv, StoreInv, Stored
  <2>3. Height[tip[m]] \in Nat /\ MaxFirst \in Nat \ {0}
    BY <2>2, LineTop, SyncAssumption
  <2>4. 1 \in 1 .. Height[tip[m]] + 1 /\ to \in 1 .. Height[tip[m]] + 1
    BY <2>3 DEF Lower
  <2>5. ToSet(first) \subseteq Line[tip[m]]
    <3> HIDE DEF to
    <3> QED BY <2>2, <2>4, PartOfLine
  <2> HIDE DEF first
  <2>6. \A k \in Node : import'[k] = first \/ import'[k] = import[k]
    BY <2>1 DEF IInv, TypeOK
  <2>7. Stored' = Stored
    BY <2>1 DEF Stored
  <2> QED BY <2>1, <2>2, <2>5, <2>6, <2>7 DEF ImportStored
<1>5. ASSUME NEW n \in Node, ImportBlock(n) PROVE Goal
  <2> DEFINE b == Head(import[n])
  <2>1. /\ import[n] # << >> /\ TypeOK /\ StoreInv /\ ImportInv
        /\ import[n] \in Seq(Block)
        /\ import' = [import EXCEPT ![n] = Tail(import[n])]
        /\ IF known[n] = {} THEN known' = [known EXCEPT ![n] = {b}]
           ELSE AddBlock(n, b)
    BY <1>5 DEF ImportBlock, IInv, TypeOK
  <2>2. b \in ToSet(import[n]) /\ ToSet(Tail(import[n])) \subseteq ToSet(import[n])
    BY <2>1, ListFacts
  <2>3. /\ b \in Block
        /\ known[n] # {} => b \notin known[n] /\ Parent[b] \in known[n]
    BY <2>1, ImportFacts
  <2> HIDE DEF b
  <2>4. /\ known'[n] = known[n] \cup {b}
        /\ \A k \in Node \ {n} : known'[k] = known[k]
    <3>1. CASE known[n] = {}
      BY <2>1, <3>1 DEF TypeOK
    <3>2. CASE known[n] # {}
      BY <2>1, <2>3, <3>2, AddFacts
    <3> QED BY <3>1, <3>2
  <2>5. b \in Stored
    BY <2>2 DEF ImportStored
  <2>6. Stored' = Stored /\ \A k \in Node : known[k] \subseteq known'[k]
    BY <2>4, <2>5, StoredOnce
  <2>7. \A k \in Node : ToSet(import'[k]) \subseteq ToSet(import[k])
    BY <2>1, <2>2 DEF TypeOK
  <2> QED BY <2>6, <2>7 DEF ImportStored
<1>6. ASSUME NEW msg, Handle(msg), ~HandleBlock(msg)
      PROVE  UNCHANGED <<known, import>>
  BY <1>6 DEF Handle, HandleVersion, HandleGetBlocksUpper, HandleGetBlocks,
              HandleInv, ShiftFirst, LookAtShifted, HandleGetData
<1>7. CASE Serve
  BY <1>1, <1>2, <1>6, <1>7 DEF Serve, LookAtNext
<1>8. ASSUME NEW n \in Node, Start(n) \/ Stop(n) PROVE Goal
  BY <1>1, <1>8 DEF Start, Stop
<1>9. CASE UNCHANGED vars
  BY <1>1, <1>9 DEF vars
<1> HIDE DEF Goal
<1> QED BY <1>3, <1>4, <1>5, <1>7, <1>8, <1>9 DEF Next

(***************************************************************************)
(* What a handler does with a list                                         *)
(***************************************************************************)

\* One turn, for each state of the block.
TurnDoes(n, m, b, rest) ==
    LET list == transit[n][m]
        state == CheckBlockState(n, b)
    IN  /\ \A k, l \in Node : k # n \/ l # m => transit'[k][l] = transit[k][l]
        /\ \A k \in Node \ {n} : loop'[k] = loop[k]
        /\ state \in {"exists", "canBeAdded", "prevNotExists"}
        /\ state = "canBeAdded" =>
              /\ loop'[n] = NoLoop /\ transit'[n][m] = list
              /\ pending' = rest (+) Send({GetData(n, m, b)})
        /\ state = "prevNotExists" =>
              /\ loop'[n] = NoLoop /\ transit'[n][m] = << >>
              /\ pending' = rest (+) Send({GetBlocks(n, m, Parent[b])})
        /\ state = "exists" =>
              /\ pending' = rest (+) EmptyBag
              /\ list = << >> => loop'[n] = NoLoop /\ transit'[n][m] = << >>
              /\ list # << >> =>
                    /\ loop'[n] = [from |-> m, block |-> Head(list)]
                    /\ transit'[n][m] = Tail(list)

LEMMA TurnFacts ==
    ASSUME IInv, NEW n \in Node, NEW m \in Node, NEW b \in Block, NEW rest,
           Turn(n, m, b, rest, transit[n][m])
    PROVE  TurnDoes(n, m, b, rest)
<1> DEFINE list == transit[n][m]
           state == CheckBlockState(n, b)
           goOn == state = "exists" /\ list # << >>
           row == IF state = "prevNotExists" THEN << >>
                  ELSE IF goOn THEN Tail(list) ELSE list
           next == IF goOn THEN [from |-> m, block |-> Head(list)] ELSE NoLoop
           C == CASE state = "canBeAdded" -> Send({GetData(n, m, b)})
                  [] state = "prevNotExists" ->
                         Send({GetBlocks(n, m, Parent[b])})
                  [] state = "exists" -> EmptyBag
<1>1. /\ loop' = [loop EXCEPT ![n] = next]
      /\ transit' = [transit EXCEPT ![n][m] = row]
      /\ pending' = rest (+) C
  BY DEF Turn
<1>2. loop'[n] = next /\ \A k \in Node \ {n} : loop'[k] = loop[k]
  <2> HIDE DEF next
  <2> QED BY <1>1 DEF IInv, TypeOK
<1>3. /\ transit'[n][m] = row
      /\ \A k, l \in Node : k # n \/ l # m => transit'[k][l] = transit[k][l]
  <2> HIDE DEF row
  <2> QED BY <1>1 DEF IInv, TypeOK
<1>4. state \in {"exists", "canBeAdded", "prevNotExists"}
  BY DEF CheckBlockState
<1>5. state = "canBeAdded" =>
          /\ loop'[n] = NoLoop /\ transit'[n][m] = list
          /\ pending' = rest (+) Send({GetData(n, m, b)})
  <2> HIDE DEF state, list
  <2> QED BY <1>1, <1>2, <1>3
<1>6. state = "prevNotExists" =>
          /\ loop'[n] = NoLoop /\ transit'[n][m] = << >>
          /\ pending' = rest (+) Send({GetBlocks(n, m, Parent[b])})
  <2> HIDE DEF state, list
  <2> QED BY <1>1, <1>2, <1>3
<1>7. state = "exists" =>
          /\ pending' = rest (+) EmptyBag
          /\ list = << >> => loop'[n] = NoLoop /\ transit'[n][m] = << >>
          /\ list # << >> => /\ loop'[n] = [from |-> m, block |-> Head(list)]
                             /\ transit'[n][m] = Tail(list)
  <2> HIDE DEF state, list
  <2> QED BY <1>1, <1>2, <1>3
<1> HIDE DEF list, state, C
<1> QED BY <1>2, <1>3, <1>4, <1>5, <1>6, <1>7 DEF TurnDoes, list, state

\* A block that came, and the list it belongs to.
LEMMA BlockFacts ==
    ASSUME IInv, NEW msg \in BagToSet(pending), HandleBlock(msg)
    PROVE  LET n == msg.to
               m == msg.from
               list == transit[n][m]
           IN  /\ n \in up /\ n \in Node /\ m \in Node /\ (Steady => m \in up)
               /\ msg.block \in known[m] /\ msg.block \in Block
               /\ loop[n] = NoLoop
               /\ IF CheckBlockState(n, msg.block) = "canBeAdded"
                  THEN /\ AddBlock(n, msg.block)
                       /\ pending' = Received(msg) (+)
                             Send({Inv(n, k, <<msg.block>>) : k \in Others(n)})
                  ELSE /\ UNCHANGED <<known, tip>>
                       /\ pending' = Received(msg) (+) EmptyBag
               /\ \A k, l \in Node :
                     k # n \/ l # m => transit'[k][l] = transit[k][l]
               /\ \A k \in Node \ {n} : loop'[k] = loop[k]
               /\ list = << >> =>
                     loop'[n] = NoLoop /\ transit'[n][m] = << >>
               /\ list # << >> =>
                     /\ loop'[n] = [from |-> m, block |-> Head(list)]
                     /\ transit'[n][m] = Tail(list)
<1> DEFINE n == msg.to
           m == msg.from
           list == transit[n][m]
<1>1. /\ n \in up /\ n \in Node /\ m \in Node /\ (Steady => m \in up)
      /\ msg.block \in known[m] /\ msg.block \in Block /\ loop[n] = NoLoop
  BY HandlerFacts, MessageFacts DEF HandleBlock, Handles, Sound
<1>2. IF CheckBlockState(n, msg.block) = "canBeAdded"
      THEN /\ AddBlock(n, msg.block)
           /\ pending' = Received(msg) (+)
                 Send({Inv(n, k, <<msg.block>>) : k \in Others(n)})
      ELSE /\ UNCHANGED <<known, tip>>
           /\ pending' = Received(msg) (+) EmptyBag
  BY DEF HandleBlock
<1>3. IF list = << >> THEN UNCHANGED <<loop, transit>>
      ELSE /\ loop' = [loop EXCEPT ![n] = [from |-> m, block |-> Head(list)]]
           /\ transit' = [transit EXCEPT ![n][m] = Tail(list)]
  BY DEF HandleBlock
<1>4. CASE list = << >>
  <2>1. UNCHANGED <<loop, transit>>
    BY <1>3, <1>4
  <2> QED BY <1>1, <1>2, <1>4, <2>1
<1>5. CASE list # << >>
  <2> DEFINE head == [from |-> m, block |-> Head(list)]
             rest == Tail(list)
  <2>1. loop' = [loop EXCEPT ![n] = head]
        /\ transit' = [transit EXCEPT ![n][m] = rest]
    BY <1>3, <1>5
  <2> HIDE DEF head, rest
  <2>2. /\ \A k, l \in Node : k # n \/ l # m => transit'[k][l] = transit[k][l]
        /\ \A k \in Node \ {n} : loop'[k] = loop[k]
        /\ loop'[n] = head /\ transit'[n][m] = rest
    BY <1>1, <2>1 DEF IInv, TypeOK
  <2> QED BY <1>1, <1>2, <1>5, <2>2 DEF head, rest
<1> QED BY <1>4, <1>5

\* An announcement that came is put on the list.
LEMMA InvFacts ==
    ASSUME IInv, NEW msg \in BagToSet(pending), HandleInv(msg)
    PROVE  LET n == msg.to
               m == msg.from
               list == transit[n][m] \o msg.items
           IN  /\ n \in up /\ n \in Node /\ m \in Node
               /\ msg.type = "inv" /\ msg.items \in Seq(Block)
               /\ transit[n][m] \in Seq(Block)
               /\ ToSet(list) = ToSet(transit[n][m]) \cup ToSet(msg.items)
               /\ Added(msg).type = "added"
               /\ Added(msg).to = n /\ Added(msg).from = m
               /\ pending' = Received(msg) (+) SetToBag({Added(msg)})
               /\ transit'[n][m] = list
               /\ \A k, l \in Node :
                     k # n \/ l # m => transit'[k][l] = transit[k][l]
               /\ UNCHANGED <<up, known, tip, import, loop, stops, rush>>
<1> DEFINE n == msg.to
           m == msg.from
           list == transit[n][m] \o msg.items
<1>1. /\ msg \in Message /\ n \in up /\ n \in Node /\ m \in Node
      /\ msg.type = "inv"
  BY HandlerFacts DEF HandleInv
<1>2. transit[n][m] \in Seq(Block) /\ msg.items \in Seq(Block)
  BY <1>1, MessageFacts DEF IInv, TypeOK
<1>3. ToSet(list) = ToSet(transit[n][m]) \cup ToSet(msg.items)
  BY <1>2, JoinedFacts
<1>4. /\ transit' = [transit EXCEPT ![n][m] = list]
      /\ pending' = Received(msg) (+) SetToBag({Added(msg)})
      /\ UNCHANGED <<up, known, tip, import, loop, stops, rush>>
  BY DEF HandleInv
<1>5. Added(msg).type = "added" /\ Added(msg).to = n /\ Added(msg).from = m
  BY <1>1, AddedMade
<1> HIDE DEF list
<1>6. /\ transit'[n][m] = list
      /\ \A k, l \in Node : k # n \/ l # m => transit'[k][l] = transit[k][l]
  BY <1>1, <1>4 DEF IInv, TypeOK
<1> HIDE DEF n, m
<1> QED BY <1>1, <1>2, <1>3, <1>4, <1>5, <1>6 DEF list, n, m

\* The handler takes the first block of the list, if one is left.
LEMMA FirstFacts ==
    ASSUME IInv, NEW msg \in BagToSet(pending), ShiftFirst(msg)
    PROVE  LET n == msg.to
               m == msg.from
               list == transit[n][m]
               p == Shifted(msg, Head(list))
           IN  /\ n \in up /\ n \in Node /\ m \in Node
               /\ msg.type = "added" /\ list \in Seq(Block)
               /\ UNCHANGED <<up, known, tip, import, loop, stops, rush>>
               /\ list = << >> => pending' = Received(msg) /\ UNCHANGED transit
               /\ list # << >> =>
                     /\ p.type = "shifted" /\ p.to = n /\ p.from = m
                     /\ p.block = Head(list)
                     /\ pending' = Received(msg) (+) SetToBag({p})
                     /\ transit'[n][m] = Tail(list)
                     /\ \A k, l \in Node :
                           k # n \/ l # m => transit'[k][l] = transit[k][l]
<1> DEFINE n == msg.to
           m == msg.from
           list == transit[n][m]
           p == Shifted(msg, Head(list))
<1>1. /\ msg \in Message /\ n \in up /\ n \in Node /\ m \in Node
      /\ msg.type = "added"
      /\ UNCHANGED <<up, known, tip, import, loop, stops, rush>>
  BY HandlerFacts DEF ShiftFirst
<1>2. list \in Seq(Block)
  BY <1>1 DEF IInv, TypeOK
<1>3. list = << >> => pending' = Received(msg) /\ UNCHANGED transit
  BY DEF ShiftFirst
<1>4. ASSUME list # << >>
      PROVE  /\ p.type = "shifted" /\ p.to = n /\ p.from = m
             /\ p.block = Head(list)
             /\ pending' = Received(msg) (+) SetToBag({p})
             /\ transit'[n][m] = Tail(list)
             /\ \A k, l \in Node :
                   k # n \/ l # m => transit'[k][l] = transit[k][l]
  <2>1. /\ pending' = Received(msg) (+) SetToBag({p})
        /\ transit' = [transit EXCEPT ![n][m] = Tail(list)]
    BY <1>1, <1>4 DEF ShiftFirst, IInv, TypeOK
  <2>2. Head(list) \in Block
    <3> HIDE DEF list
    <3> QED BY <1>2, <1>4, ListFacts
  <2>3. p.type = "shifted" /\ p.to = n /\ p.from = m /\ p.block = Head(list)
    BY <1>1, <2>2, ShiftedMade
  <2> PICK rest : rest = Tail(list)
    OBVIOUS
  <2>4. transit' = [transit EXCEPT ![n][m] = rest]
    BY <2>1
  <2>5. /\ transit'[n][m] = rest
        /\ \A k, l \in Node : k # n \/ l # m => transit'[k][l] = transit[k][l]
    BY <1>1, <2>4 DEF IInv, TypeOK
  <2> QED BY <2>1, <2>3, <2>5
<1> HIDE DEF p, list, n, m
<1> QED BY <1>1, <1>2, <1>3, <1>4 DEF n, m, list, p

(***************************************************************************)
(* The nodes that were there from the start                                *)
(***************************************************************************)

Old == Node \ Fresh

Carries(msg, n, b) ==
    \/ /\ msg.to = n
       /\ \/ msg.type = "inv" /\ b \in ToSet(msg.items)
          \/ msg.type \in {"shifted", "block"} /\ msg.block = b
    \/ msg.from = n /\ msg.type = "getdata" /\ msg.block = b

\* Node n has been told of block b and has something left to do about it.
OnItsWay(n, b) ==
    \/ loop[n] # NoLoop /\ loop[n].block = b
    \/ \E m \in Node : b \in ToSet(transit[n][m])
    \/ \E msg \in BagToSet(pending) : Carries(msg, n, b)

\* Node n has all that is stored, or all but block b, which is on its way to
\* it; its top was t before b.
Follows(n, b, t) ==
    /\ known[n] \cup {b} = Stored
    /\ tip[n] = IF b \in known[n] /\ Height[b] > Height[t] THEN b ELSE t
    /\ b \notin known[n] => Parent[b] \in known[n] /\ OnItsWay(n, b)

\* As long as blocks are made one after the other and no server stops, one
\* block is new to old nodes, the same for all of them.
OldInv ==
    stops = 0 =>
        /\ Old \subseteq up
        /\ rush = 0 => \E b, t \in Block : \A n \in Old : Follows(n, b, t)

LEMMA HeadOrTail ==
    ASSUME NEW s \in Seq(Block), s # << >>, NEW b \in ToSet(s)
    PROVE  b = Head(s) \/ b \in ToSet(Tail(s))
<1>1. PICK i \in 1 .. Len(s) : s[i] = b
  BY DEF ToSet
<1>2. CASE i = 1
  BY <1>1, <1>2
<1>3. CASE i # 1
  <2>1. i - 1 \in 1 .. Len(Tail(s)) /\ Tail(s)[i - 1] = s[i]
    BY <1>1, <1>3
  <2>2. DOMAIN Tail(s) = 1 .. Len(Tail(s))
    OBVIOUS
  <2> QED BY <1>1, <2>1, <2>2 DEF ToSet
<1> QED BY <1>2, <1>3

\* A handler that changes no list.
LEMMA WayAnswered ==
    ASSUME NEW n, NEW b, OnItsWay(n, b), UNCHANGED <<transit, loop>>,
           IsABag(pending), NEW msg, NEW C, IsABag(C),
           pending' = Received(msg) (+) C,
           Carries(msg, n, b) => \E p \in BagToSet(C) : Carries(p, n, b)
    PROVE  OnItsWay(n, b)'
<1>1. /\ BagToSet(C) \subseteq BagToSet(pending')
      /\ BagToSet(pending) \subseteq BagToSet(pending') \cup {msg}
  BY Answered
<1> QED BY <1>1 DEF OnItsWay

\* A turn of node n's own loop, or of another node's.
LEMMA WayTurned ==
    ASSUME IInv, NEW k \in Node, NEW m \in Node, m \in up,
           NEW c \in Block, NEW rest,
           IsABag(rest), Turn(k, m, c, rest, transit[k][m]),
           loop[k] \in {NoLoop, [from |-> m, block |-> c]},
           \A p \in BagToSet(pending) :
               \/ p \in BagToSet(rest)
               \/ p.type = "shifted" /\ p.to = k /\ p.block = c,
           NEW n \in up, NEW b \in Block, OnItsWay(n, b), b \notin known[n],
           Parent[b] \in known[n], c \in known[n] \/ Parent[c] \in known[n]
    PROVE  OnItsWay(n, b)'
<1> DEFINE list == transit[k][m]
           state == CheckBlockState(k, c)
<1>1. n \in Node /\ k \in Node /\ m \in Node
  BY DEF IInv, TypeOK
<1> TurnDoes(k, m, c, rest)
  BY <1>1, TurnFacts
<1>2. /\ \A i, l \in Node : i # k \/ l # m => transit'[i][l] = transit[i][l]
      /\ \A i \in Node \ {k} : loop'[i] = loop[i]
  BY DEF TurnDoes
<1>3. /\ state \in {"exists", "canBeAdded", "prevNotExists"}
      /\ state = "canBeAdded" =>
            /\ transit'[k][m] = list
            /\ pending' = rest (+) Send({GetData(k, m, c)})
      /\ state = "prevNotExists" =>
            pending' = rest (+) Send({GetBlocks(k, m, Parent[c])})
  BY DEF TurnDoes
<1>4. state = "exists" =>
          /\ pending' = rest (+) EmptyBag
          /\ list # << >> => /\ loop'[k] = [from |-> m, block |-> Head(list)]
                             /\ transit'[k][m] = Tail(list)
  BY DEF TurnDoes
<1> HIDE DEF list, state
<1>5. BagToSet(rest) \subseteq BagToSet(pending')
  BY <1>3, <1>4, SendFacts, BagEmpty, BagPlus
<1>6. CASE k # n
  <2>1. loop'[n] = loop[n] /\ \A l \in Node : transit'[n][l] = transit[n][l]
    BY <1>1, <1>2, <1>6
  <2>2. \A p \in BagToSet(pending) :
            Carries(p, n, b) => p \in BagToSet(pending')
    BY <1>5, <1>6 DEF Carries
  <2> QED BY <2>1, <2>2 DEF OnItsWay
<1>7. CASE k = n
  <2>1. state # "prevNotExists"
    BY <1>7 DEF state, CheckBlockState
  <2>2. CASE c = b
    <3>1. state = "canBeAdded"
      BY <1>7, <2>2 DEF state, CheckBlockState
    <3>2. GetData(k, m, c) \in BagToSet(pending')
      <4>1. GetData(k, m, c).to = m
        BY <1>1, MessageMade
      <4>2. GetData(k, m, c) \in BagToSet(Send({GetData(k, m, c)}))
        BY <4>1, SendFacts
      <4> QED BY <1>3, <3>1, <4>2, SendFacts, BagPlus
    <3>3. Carries(GetData(k, m, c), n, b)
      BY <1>1, <1>7, <2>2, MessageMade DEF Carries
    <3> QED BY <3>2, <3>3 DEF OnItsWay
  <2>3. CASE c # b
    <3>1. ASSUME NEW l \in Node, b \in ToSet(transit[n][l]) PROVE OnItsWay(n, b)'
      <4>1. CASE l # m
        BY <1>1, <1>2, <3>1, <4>1 DEF OnItsWay
      <4>2. CASE l = m
        <5>1. b \in ToSet(list) /\ list \in Seq(Block) /\ list # << >>
          BY <1>1, <1>7, <3>1, <4>2 DEF IInv, TypeOK, ToSet, list
        <5>2. CASE state = "canBeAdded"
          BY <1>1, <1>3, <1>7, <5>1, <5>2 DEF OnItsWay
        <5>3. CASE state = "exists"
          <6>1. b = Head(list) \/ b \in ToSet(Tail(list))
            BY <5>1, HeadOrTail
          <6>2. /\ loop'[n] = [from |-> m, block |-> Head(list)]
                /\ transit'[n][m] = Tail(list)
            BY <1>4, <1>7, <5>1, <5>3
          <6>3. loop'[n] # NoLoop /\ loop'[n].block = Head(list)
            BY <1>1, <6>2, SyncAssumption DEF NoLoop
          <6> QED BY <1>1, <6>1, <6>2, <6>3 DEF OnItsWay
        <5> QED BY <1>3, <2>1, <5>2, <5>3
      <4> QED BY <4>1, <4>2
    <3>2. \A p \in BagToSet(pending) :
              Carries(p, n, b) => p \in BagToSet(pending')
      BY <1>5, <2>3 DEF Carries
    <3>3. ~(loop[n] # NoLoop /\ loop[n].block = b)
      BY <1>7, <2>3
    <3> QED BY <3>1, <3>2, <3>3 DEF OnItsWay
  <2> QED BY <2>2, <2>3
<1> QED BY <1>6, <1>7

\* Whatever is handled, a block that is on its way stays on it or arrives.
LEMMA WayKept ==
    ASSUME IInv, stops = 0, Serve, NEW n \in up, NEW b \in Block,
           OnItsWay(n, b), b \notin known[n], Parent[b] \in known[n],
           \A c \in Stored : c \in known[n] \/ Parent[c] \in known[n]
    PROVE  b \in known'[n] \/ OnItsWay(n, b)'
<1>1. Steady /\ n \in Node /\ IsABag(pending)
  BY DEF Steady, IInv, TypeOK
<1>2. \A m \in Node : \A c \in known[m] : c \in Stored /\ c \in Block
  BY DEF Stored, IInv, TypeOK
<1>3. ASSUME NEW msg \in BagToSet(pending),
             HandleVersion(msg) \/ HandleGetBlocksUpper(msg)
                \/ HandleGetBlocks(msg)
      PROVE  OnItsWay(n, b)'
  <2>1. UNCHANGED <<transit, loop>> /\ ~Carries(msg, n, b)
    BY <1>3 DEF HandleVersion, HandleGetBlocksUpper, HandleGetBlocks, Handles,
                Carries
  <2>2. \E C : IsABag(C) /\ pending' = Received(msg) (+) C
    <3>1. CASE HandleVersion(msg)
      <4> DEFINE C == CASE Height[tip[msg.to]] < msg.height ->
                               Send({GetBlocksUpper(msg.to, msg.from, tip[msg.to])})
                        [] Height[tip[msg.to]] > msg.height ->
                               Send({Version(msg.to, msg.from)})
                        [] Height[tip[msg.to]] = msg.height -> EmptyBag
      <4>1. pending' = Received(msg) (+) C
        BY <3>1 DEF HandleVersion
      <4>2. Height[tip[msg.to]] \in Nat /\ msg.height \in Nat
        BY <3>1, HandlerFacts, MessageFacts, LineTop DEF HandleVersion, Handles
      <4>3. IsABag(C)
        BY <4>2, SendFacts, BagEmpty
      <4> HIDE DEF C
      <4> QED BY <4>1, <4>3
    <3>2. CASE HandleGetBlocksUpper(msg)
      BY <3>2, SendFacts DEF HandleGetBlocksUpper
    <3>3. CASE HandleGetBlocks(msg)
      BY <3>3, SendFacts DEF HandleGetBlocks
    <3> QED BY <1>3, <3>1, <3>2, <3>3
  <2> QED BY <1>1, <2>1, <2>2, WayAnswered
<1>4. ASSUME NEW msg \in BagToSet(pending), HandleGetData(msg)
      PROVE  OnItsWay(n, b)'
  <2> DEFINE p == FullBlock(msg.to, msg.from, msg.block)
             C == Send({p})
  <2>1. /\ UNCHANGED <<transit, loop>> /\ pending' = Received(msg) (+) C
        /\ msg.to \in Node /\ msg.from \in Node /\ msg.block \in Block
        /\ msg.type = "getdata"
    BY <1>4, HandlerFacts, MessageFacts DEF HandleGetData, Handles
  <2>2. /\ p.type = "block" /\ p.to = msg.from /\ p.block = msg.block
    BY <2>1, MessageMade
  <2>3. IsABag(C) /\ (msg.from \in up => p \in BagToSet(C))
    <3> HIDE DEF p
    <3> QED BY <2>2, SendFacts
  <2>4. Carries(msg, n, b) => p \in BagToSet(C) /\ Carries(p, n, b)
    <3> HIDE DEF p, C
    <3> QED BY <2>1, <2>2, <2>3 DEF Carries
  <2> HIDE DEF p, C
  <2> QED BY <1>1, <2>1, <2>3, <2>4, WayAnswered
<1>5. ASSUME NEW msg \in BagToSet(pending), HandleInv(msg)
      PROVE  OnItsWay(n, b)'
  <2> DEFINE k == msg.to
             m == msg.from
             list == transit[k][m] \o msg.items
             p == Added(msg)
  <2>1. /\ k \in Node /\ m \in Node /\ msg.type = "inv"
        /\ ToSet(list) = ToSet(transit[k][m]) \cup ToSet(msg.items)
        /\ pending' = Received(msg) (+) SetToBag({p})
        /\ transit'[k][m] = list
    BY <1>5, InvFacts
  <2>2. /\ \A i, l \in Node : i # k \/ l # m => transit'[i][l] = transit[i][l]
        /\ loop' = loop
    BY <1>5, InvFacts
  <2> HIDE DEF list, p, k, m
  <2>3. BagToSet(pending) \subseteq BagToSet(pending') \cup {msg}
    BY <1>1, <2>1, BagOfSet, Answered
  <2>4. ASSUME k = n, b \in ToSet(list) PROVE OnItsWay(n, b)'
    BY <2>1, <2>4 DEF OnItsWay
  <2>5. ASSUME NEW l \in Node, b \in ToSet(transit[n][l]) PROVE OnItsWay(n, b)'
    <3>1. CASE k = n /\ l = m
      BY <2>1, <2>4, <2>5, <3>1
    <3>2. CASE k # n \/ l # m
      BY <1>1, <2>2, <2>5, <3>2 DEF OnItsWay
    <3> QED BY <3>1, <3>2
  <2>6. Carries(msg, n, b) => k = n /\ b \in ToSet(list)
    BY <2>1 DEF Carries, k
  <2> QED BY <2>2, <2>3, <2>4, <2>5, <2>6 DEF OnItsWay
<1>6. ASSUME NEW msg \in BagToSet(pending), ShiftFirst(msg)
      PROVE  OnItsWay(n, b)'
  <2> DEFINE k == msg.to
             m == msg.from
             list == transit[k][m]
             p == Shifted(msg, Head(list))
  <2>1. /\ k \in Node /\ m \in Node /\ msg.type = "added" /\ loop' = loop
        /\ list \in Seq(Block)
        /\ list = << >> => pending' = Received(msg) /\ UNCHANGED transit
    BY <1>6, FirstFacts
  <2>2. ~Carries(msg, n, b)
    BY <2>1 DEF Carries
  <2>3. CASE list = << >>
    <3>1. BagToSet(pending) \subseteq BagToSet(pending') \cup {msg}
      BY <1>1, <2>1, <2>3, BagMinus DEF Received
    <3> QED BY <2>1, <2>2, <2>3, <3>1 DEF OnItsWay
  <2>4. CASE list # << >>
    <3>1. /\ p.type = "shifted" /\ p.to = k /\ p.block = Head(list)
          /\ pending' = Received(msg) (+) SetToBag({p})
          /\ transit'[k][m] = Tail(list)
          /\ \A i, l \in Node : i # k \/ l # m => transit'[i][l] = transit[i][l]
      BY <1>6, <2>4, FirstFacts
    <3> HIDE DEF list, p, k, m
    <3>2. /\ p \in BagToSet(pending')
          /\ BagToSet(pending) \subseteq BagToSet(pending') \cup {msg}
      BY <1>1, <3>1, BagOfSet, Answered
    <3>3. ASSUME NEW l \in Node, b \in ToSet(transit[n][l])
          PROVE  OnItsWay(n, b)'
      <4>1. CASE k = n /\ l = m
        <5>1. b = Head(list) \/ b \in ToSet(Tail(list))
          BY <2>1, <2>4, <3>3, <4>1, HeadOrTail DEF list
        <5>2. CASE b = Head(list)
          BY <3>1, <3>2, <4>1, <5>2 DEF OnItsWay, Carries
        <5>3. CASE b \in ToSet(Tail(list))
          BY <2>1, <3>1, <4>1, <5>3 DEF OnItsWay
        <5> QED BY <5>1, <5>2, <5>3
      <4>2. CASE k # n \/ l # m
        BY <1>1, <3>1, <3>3, <4>2 DEF OnItsWay
      <4> QED BY <4>1, <4>2
    <3> QED BY <2>1, <2>2, <3>2, <3>3 DEF OnItsWay
  <2> QED BY <2>3, <2>4
<1>7. ASSUME NEW msg \in BagToSet(pending), LookAtShifted(msg)
      PROVE  OnItsWay(n, b)'
  <2> DEFINE k == msg.to
             m == msg.from
             c == msg.block
             rest == Received(msg)
  <2>1. /\ k \in Node /\ m \in Node /\ m \in up /\ c \in known[m]
        /\ msg.type = "shifted" /\ msg.to = k /\ msg.block = c
        /\ loop[k] = NoLoop /\ Turn(k, m, c, rest, transit[k][m])
    BY <1>1, <1>7, HandlerFacts DEF LookAtShifted, Handles, Sound
  <2>2. /\ IsABag(rest)
        /\ \A p \in BagToSet(pending) : p \in BagToSet(rest) \/ p = msg
    BY <1>1, BagMinus DEF Received
  <2> HIDE DEF k, m, c, rest
  <2>3. c \in Block /\ (c \in known[n] \/ Parent[c] \in known[n])
    BY <1>2, <2>1
  <2>4. loop[k] \in {NoLoop, [from |-> m, block |-> c]}
    BY <2>1
  <2>5. \A p \in BagToSet(pending) :
            \/ p \in BagToSet(rest)
            \/ p.type = "shifted" /\ p.to = k /\ p.block = c
    BY <2>1, <2>2
  <2> QED BY <2>1, <2>2, <2>3, <2>4, <2>5, WayTurned
<1>8. ASSUME NEW k \in Node, LookAtNext(k) PROVE OnItsWay(n, b)'
  <2> DEFINE m == loop[k].from
             c == loop[k].block
  <2>1. /\ loop[k] = [from |-> m, block |-> c] /\ m \in Node /\ m \in up
        /\ c \in known[m] /\ Turn(k, m, c, pending, transit[k][m])
    BY <1>1, <1>8 DEF LookAtNext, IInv, TypeOK, LoopInv
  <2> HIDE DEF m, c
  <2>2. c \in Block /\ (c \in known[n] \/ Parent[c] \in known[n])
    BY <1>2, <2>1
  <2>3. loop[k] \in {NoLoop, [from |-> m, block |-> c]}
    BY <2>1
  <2>4. \A p \in BagToSet(pending) :
            \/ p \in BagToSet(pending)
            \/ p.type = "shifted" /\ p.to = k /\ p.block = c
    OBVIOUS
  <2> QED BY <1>1, <2>1, <2>2, <2>3, <2>4, WayTurned
<1>9. ASSUME NEW msg \in BagToSet(pending), HandleBlock(msg)
      PROVE  b \in known'[n] \/ OnItsWay(n, b)'
  <2> DEFINE k == msg.to
             m == msg.from
             list == transit[k][m]
             c == msg.block
  <2>1. /\ k \in Node /\ m \in Node /\ c \in Block /\ loop[k] = NoLoop
        /\ IF CheckBlockState(k, c) = "canBeAdded"
           THEN /\ AddBlock(k, c)
                /\ pending' = Received(msg) (+)
                      Send({Inv(k, l, <<c>>) : l \in Others(k)})
           ELSE /\ UNCHANGED <<known, tip>>
                /\ pending' = Received(msg) (+) EmptyBag
    BY <1>9, BlockFacts
  <2>2. /\ \A i, l \in Node : i # k \/ l # m => transit'[i][l] = transit[i][l]
        /\ \A i \in Node \ {k} : loop'[i] = loop[i]
        /\ list # << >> => /\ loop'[k] = [from |-> m, block |-> Head(list)]
                           /\ transit'[k][m] = Tail(list)
    BY <1>9, BlockFacts
  <2>3. list \in Seq(Block) /\ msg.type = "block"
    BY <1>9, <2>1 DEF IInv, TypeOK, HandleBlock, Handles
  <2>4. BagToSet(pending) \subseteq BagToSet(pending') \cup {msg}
    <3>1. \E C : IsABag(C) /\ pending' = Received(msg) (+) C
      BY <2>1, SendFacts, BagEmpty
    <3> QED BY <1>1, <3>1, Answered
  <2> HIDE DEF k, m, list, c
  <2>5. ASSUME Carries(msg, n, b) PROVE b \in known'[n]
    <3>1. n = k /\ b = c
      BY <2>3, <2>5 DEF Carries, k, c
    <3>2. AddBlock(n, b)
      BY <2>1, <3>1 DEF CheckBlockState
    <3> QED BY <1>1, <3>2, AddFacts DEF IInv
  <2>6. ASSUME NEW l \in Node, b \in ToSet(transit[n][l]) PROVE OnItsWay(n, b)'
    <3>1. CASE k = n /\ l = m
      <4>1. b \in ToSet(list) /\ list # << >>
        BY <2>6, <3>1 DEF list, ToSet
      <4>2. b = Head(list) \/ b \in ToSet(Tail(list))
        BY <2>3, <4>1, HeadOrTail
      <4>3. loop'[n] # NoLoop /\ loop'[n].block = Head(list)
        BY <2>1, <2>2, <3>1, <4>1, SyncAssumption DEF NoLoop
      <4> QED BY <2>1, <2>2, <3>1, <4>1, <4>2, <4>3 DEF OnItsWay
    <3>2. CASE k # n \/ l # m
      BY <1>1, <2>2, <2>6, <3>2 DEF OnItsWay
    <3> QED BY <3>1, <3>2
  <2>7. ASSUME loop[n] # NoLoop, loop[n].block = b PROVE OnItsWay(n, b)'
    BY <1>1, <2>1, <2>2, <2>7 DEF OnItsWay
  <2> QED BY <2>4, <2>5, <2>6, <2>7 DEF OnItsWay
<1> QED BY <1>3, <1>4, <1>5, <1>6, <1>7, <1>8, <1>9 DEF Serve, Handle

\* What serving does to a store: nothing, or one more block.
LEMMA ServedStore ==
    ASSUME IInv, Serve, NEW n \in Node
    PROVE  \/ known'[n] = known[n] /\ tip'[n] = tip[n]
           \/ \E c \in Block \ known[n] :
                 /\ Steady => \E m \in up : c \in known[m]
                 /\ known'[n] = known[n] \cup {c}
                 /\ tip'[n] = IF Height[c] > Height[tip[n]] THEN c ELSE tip[n]
<1>1. CASE UNCHANGED <<known, tip>>
  BY <1>1
<1>2. ASSUME NEW msg \in BagToSet(pending), HandleBlock(msg)
      PROVE  \/ known'[n] = known[n] /\ tip'[n] = tip[n]
             \/ \E c \in Block \ known[n] :
                   /\ Steady => \E m \in up : c \in known[m]
                   /\ known'[n] = known[n] \cup {c}
                   /\ tip'[n] = IF Height[c] > Height[tip[n]] THEN c
                                ELSE tip[n]
  <2> DEFINE k == msg.to
             c == msg.block
  <2>1. /\ k \in Node /\ c \in Block /\ (Steady => \E m \in up : c \in known[m])
        /\ IF CheckBlockState(k, c) = "canBeAdded" THEN AddBlock(k, c)
           ELSE UNCHANGED <<known, tip>>
    BY <1>2, BlockFacts
  <2> HIDE DEF k, c
  <2>2. CASE CheckBlockState(k, c) = "canBeAdded"
    <3>1. c \notin known[k] /\ Parent[c] \in known[k] /\ AddBlock(k, c)
      BY <2>1, <2>2 DEF CheckBlockState
    <3>2. /\ known'[k] = known[k] \cup {c}
          /\ tip'[k] = IF Height[c] > Height[tip[k]] THEN c ELSE tip[k]
          /\ \A l \in Node \ {k} : known'[l] = known[l] /\ tip'[l] = tip[l]
      BY <2>1, <3>1, AddFacts DEF IInv
    <3>3. CASE n = k
      BY <2>1, <3>1, <3>2, <3>3
    <3>4. CASE n # k
      BY <3>2, <3>4
    <3> QED BY <3>3, <3>4
  <2>3. CASE CheckBlockState(k, c) # "canBeAdded"
    BY <1>1, <2>1, <2>3
  <2> QED BY <2>2, <2>3
<1>3. ASSUME NEW msg, Handle(msg), ~HandleBlock(msg)
      PROVE  UNCHANGED <<known, tip>>
  BY <1>3 DEF Handle, HandleVersion, HandleGetBlocksUpper, HandleGetBlocks,
              HandleInv, ShiftFirst, LookAtShifted, HandleGetData
<1> QED BY <1>1, <1>2, <1>3 DEF Serve, LookAtNext

\* A node that has what old nodes have, or all of it but the block that comes.
LEMMA FollowsServed ==
    ASSUME IInv, stops = 0, Serve, Stored' = Stored,
           NEW n \in up, NEW b \in Block, NEW t \in Block, Follows(n, b, t)
    PROVE  Follows(n, b, t)'
<1>1. /\ n \in Node /\ known[n] \cup {b} = Stored
      /\ tip[n] = IF b \in known[n] /\ Height[b] > Height[t] THEN b ELSE t
      /\ b \notin known[n] => Parent[b] \in known[n] /\ OnItsWay(n, b)
  BY DEF Follows, IInv, TypeOK
<1>2. known'[n] \subseteq Stored
  BY <1>1 DEF Stored
<1>3. \A c \in Stored : b \notin known[n] => c \in known[n] \/ Parent[c] \in known[n]
  BY <1>1
<1>4. CASE known'[n] = known[n] /\ tip'[n] = tip[n]
  <2>1. b \notin known[n] => OnItsWay(n, b)'
    BY <1>1, <1>3, <1>4, WayKept
  <2> QED BY <1>1, <1>4, <2>1 DEF Follows
<1>5. ASSUME NEW c \in Block \ known[n], known'[n] = known[n] \cup {c},
             tip'[n] = IF Height[c] > Height[tip[n]] THEN c ELSE tip[n]
      PROVE  Follows(n, b, t)'
  <2>1. c = b
    BY <1>1, <1>2, <1>5
  <2> QED BY <1>1, <1>5, <2>1 DEF Follows
<1> QED BY <1>1, <1>4, <1>5, ServedStore

\* When nothing goes on, all old nodes have all that is stored.
LEMMA FollowsNothing ==
    ASSUME IInv, Steady, Nothing, NEW n \in Node, NEW b, NEW t, Follows(n, b, t)
    PROVE  /\ b \in known[n] /\ known[n] = Stored
           /\ tip[n] = IF Height[b] > Height[t] THEN b ELSE t
<1>1. BagToSet(pending) = {} /\ \A k \in Node : loop[k] = NoLoop
  BY BagEmpty DEF Nothing
<1>2. \A k, l \in Node : transit[k][l] = << >>
  BY <1>1, NothingListed DEF IInv
<1>3. ~OnItsWay(n, b)
  BY <1>1, <1>2 DEF OnItsWay, ToSet
<1> QED BY <1>3 DEF Follows

LEMMA OldMakes ==
    ASSUME IInv, OldInv, stops = 0, NEW k \in Node, NEW c \in Block,
           MakeBlock(k, c), Stored' = Stored \cup {c}, rush' = 0
    PROVE  \E b, t \in Block : \A n \in Old : Follows(n, b, t)'
<1>1. /\ k \in up /\ Parent[c] = tip[k] /\ AddBlock(k, c)
      /\ \A m \in Node : c \notin known[m]
      /\ pending' = pending (+) Send({Inv(k, m, <<c>>) : m \in Others(k)})
      /\ UNCHANGED <<up, transit, loop, stops>> /\ Begins
  BY DEF MakeBlock
<1>2. Steady /\ TypeOK /\ StoreInv /\ IsABag(pending) /\ up \subseteq Node
  BY DEF Steady, IInv, TypeOK
<1>3. rush = 0 /\ Nothing
  BY <1>1, <1>2, BusyBound
<1>4. PICK b, t \in Block : \A n \in Old : Follows(n, b, t)
  BY <1>3 DEF OldInv
<1>5. \A n \in Old : n \in up /\ n \in Node
  BY DEF OldInv, Old
<1> DEFINE top == IF Height[b] > Height[t] THEN b ELSE t
<1>6. \A n \in Old : known[n] = Stored /\ tip[n] = top
  BY <1>2, <1>3, <1>4, <1>5, FollowsNothing
<1> HIDE DEF top
<1>7. tip[k] \in known[k] /\ tip[k] \in Stored
  BY <1>1, <1>2 DEF StoreInv, TypeOK, Stored
<1>8. /\ known'[k] = known[k] \cup {c}
      /\ tip'[k] = IF Height[c] > Height[tip[k]] THEN c ELSE tip[k]
      /\ \A m \in Node \ {k} : known'[m] = known[m] /\ tip'[m] = tip[m]
  BY <1>1, <1>2, <1>7, AddFacts
<1>9. ASSUME NEW n \in Old, n # k PROVE OnItsWay(n, c)'
  <2> DEFINE p == Inv(k, n, <<c>>)
             S == {Inv(k, m, <<c>>) : m \in Others(k)}
  <2>1. /\ p.to = n /\ p.type = "inv" /\ p.items = <<c>>
    BY DEF Inv
  <2>2. p \in S
    BY <1>5, <1>9 DEF Others
  <2> HIDE DEF p, S
  <2>3. p \in BagToSet(Send(S)) /\ IsABag(Send(S))
    BY <1>5, <2>1, <2>2, SendFacts
  <2>4. pending' = pending (+) Send(S)
    BY <1>1 DEF S
  <2>5. p \in BagToSet(pending')
    BY <1>2, <2>3, <2>4, BagPlus
  <2>6. Carries(p, n, c)
    BY <2>1 DEF Carries, ToSet
  <2> QED BY <2>5, <2>6 DEF OnItsWay
<1>10. top \in Block
  BY DEF top
<1>11. ASSUME NEW n \in Old PROVE Follows(n, c, top)'
  <2>1. CASE n = k
    <3>1. known'[n] = Stored' /\ c \in known'[n]
      BY <1>5, <1>6, <1>8, <2>1
    <3>2. tip'[n] = IF Height[c] > Height[top] THEN c ELSE top
      BY <1>6, <1>8, <2>1
    <3> QED BY <3>1, <3>2 DEF Follows
  <2>2. CASE n # k
    <3>1. known'[n] = Stored /\ tip'[n] = top
      BY <1>5, <1>6, <1>8, <2>2
    <3>2. c \notin known'[n] /\ Parent[c] \in known'[n]
      BY <1>1, <1>5, <1>6, <1>7, <3>1
    <3>3. OnItsWay(n, c)'
      BY <1>9, <2>2
    <3> QED BY <3>1, <3>2, <3>3 DEF Follows
  <2> QED BY <2>1, <2>2
<1> QED BY <1>10, <1>11

LEMMA OldNext ==
    ASSUME IInv, ImportStored, OldInv, [Next]_vars
    PROVE  OldInv'
<1>1. CASE stops' # 0
  BY <1>1 DEF OldInv
<1> SUFFICES ASSUME stops' = 0 PROVE OldInv'
  BY <1>1
<1>2. ASSUME stops = 0, UNCHANGED <<up, known, tip, transit, pending, loop>>,
             rush' = 0 => rush = 0
      PROVE  OldInv'
  <2>1. Old \subseteq up'
    BY <1>2 DEF OldInv
  <2>2. ASSUME rush' = 0 PROVE \E b, t \in Block : \A n \in Old : Follows(n, b, t)'
    <3>1. PICK b, t \in Block : \A n \in Old : Follows(n, b, t)
      BY <1>2, <2>2 DEF OldInv
    <3>2. \A n \in Old : Follows(n, b, t)'
      BY <1>2, <3>1 DEF Follows, Stored, OnItsWay
    <3> QED BY <3>2
  <2> QED BY <2>1, <2>2 DEF OldInv, Old
<1>3. ASSUME NEW n \in Node, NEW b \in Block, MakeBlock(n, b),
             Stored' = Stored \cup {b}
      PROVE  OldInv'
  <2>1. stops = 0 /\ up' = up
    BY <1>3 DEF MakeBlock
  <2>2. rush' = 0 => \E c, t \in Block : \A k \in Old : Follows(k, c, t)'
    BY <1>3, <2>1, OldMakes
  <2> QED BY <2>1, <2>2 DEF OldInv, Old
<1>4. ASSUME Serve, Stored' = Stored PROVE OldInv'
  <2>1. UNCHANGED <<up, stops, rush>>
    BY <1>4 DEF Serve, Handle, HandleVersion, HandleGetBlocksUpper,
         HandleGetBlocks, HandleInv, ShiftFirst, LookAtShifted, HandleGetData,
         HandleBlock, LookAtNext
  <2>2. ASSUME rush' = 0 PROVE \E b, t \in Block : \A n \in Old : Follows(n, b, t)'
    <3>1. PICK b, t \in Block : \A n \in Old : n \in up /\ Follows(n, b, t)
      BY <2>1, <2>2 DEF OldInv
    <3>2. \A n \in Old : Follows(n, b, t)'
      BY <1>4, <2>1, <3>1, FollowsServed
    <3> QED BY <3>2
  <2> QED BY <2>1, <2>2 DEF OldInv, Old
<1>5. ASSUME NEW n \in Node, Start(n), Stored' = Stored PROVE OldInv'
  <2>1. /\ up \subseteq up' /\ stops = 0 /\ Begins
        /\ UNCHANGED <<known, tip, transit, loop>>
        /\ pending' = pending (+) Send({Version(n, m) : m \in Others(n)})
    BY <1>5 DEF Start
  <2>2. TypeOK /\ IsABag(pending) /\ up' \subseteq Node
    BY <1>5 DEF IInv, TypeOK, Start
  <2>3. BagToSet(pending) \subseteq BagToSet(pending')
    BY <2>1, <2>2, SendFacts, BagPlus
  <2>4. ASSUME rush' = 0 PROVE \E b, t \in Block : \A k \in Old : Follows(k, b, t)'
    <3>1. rush = 0
      BY <2>1, <2>2, <2>4, BusyBound
    <3>2. PICK b, t \in Block : \A k \in Old : Follows(k, b, t)
      BY <2>1, <3>1 DEF OldInv
    <3>3. \A k \in Old : OnItsWay(k, b) => OnItsWay(k, b)'
      BY <2>1, <2>3 DEF OnItsWay
    <3>4. \A k \in Old : Follows(k, b, t)'
      BY <1>5, <2>1, <3>2, <3>3 DEF Follows
    <3> QED BY <3>4
  <2> QED BY <2>1, <2>4 DEF OldInv, Old
<1>6. ASSUME NEW n \in Node, Stop(n) PROVE OldInv'
  BY <1>6 DEF Stop, IInv, TypeOK
<1>7. ASSUME NEW n \in Node, NEW m \in Node, RequestFirstBlocks(n, m)
      PROVE  OldInv'
  BY <1>2, <1>7 DEF RequestFirstBlocks
<1>8. ASSUME NEW n \in Node, ImportBlock(n), Stored' = Stored PROVE OldInv'
  <2>1. /\ n \notin up /\ UNCHANGED <<up, transit, pending, loop, stops, rush>>
    BY <1>8 DEF ImportBlock, IInv, TypeOK
  <2>2. \A k \in Node \ {n} : known'[k] = known[k] /\ tip'[k] = tip[k]
    <3>1. CASE known[n] = {}
      BY <1>8, <3>1 DEF ImportBlock, IInv, TypeOK
    <3>2. CASE known[n] # {}
      BY <1>8, <3>2 DEF ImportBlock, AddBlock, IInv, TypeOK
    <3> QED BY <3>1, <3>2
  <2>3. Old \subseteq up /\ \A k \in Old : k \in Node \ {n}
    BY <2>1 DEF OldInv, Old
  <2>4. ASSUME rush' = 0 PROVE \E b, t \in Block : \A k \in Old : Follows(k, b, t)'
    <3>1. PICK b, t \in Block : \A k \in Old : Follows(k, b, t)
      BY <2>1, <2>4 DEF OldInv
    <3>2. \A k \in Old : Follows(k, b, t)'
      BY <1>8, <2>1, <2>2, <2>3, <3>1 DEF Follows, OnItsWay
    <3> QED BY <3>2
  <2> QED BY <2>1, <2>3, <2>4 DEF OldInv, Old
<1>9. CASE UNCHANGED vars
  BY <1>2, <1>9 DEF vars
<1>10. \/ Stored' = Stored
       \/ \E n \in Node, b \in Block : MakeBlock(n, b) /\ Stored' = Stored \cup {b}
  BY StoredStep
<1>11. CASE Stored' = Stored
  <2>1. ASSUME NEW n \in Node, NEW b \in Block, MakeBlock(n, b) PROVE OldInv'
    <3>1. /\ b \in known'[n] /\ b \notin Stored
      BY <2>1, AddFacts DEF MakeBlock, AddBlock, IInv, TypeOK, Stored
    <3>2. b \in Stored'
      BY <3>1 DEF Stored
    <3> QED BY <1>11, <3>1, <3>2
  <2> QED BY <1>4, <1>5, <1>6, <1>7, <1>8, <1>9, <1>11, <2>1 DEF Next
<1> QED BY <1>3, <1>10, <1>11

LEMMA OldInit == Init => ImportStored /\ OldInv
<1> SUFFICES ASSUME Init PROVE ImportStored /\ OldInv
  OBVIOUS
<1>1. ImportStored
  BY DEF Init, ImportStored, ToSet
<1>2. CASE Old = {}
  BY <1>1, <1>2, BlockAssumption DEF OldInv
<1>3. CASE Old # {}
  <2>1. Old = up /\ \A n \in Old : known[n] = {Genesis} /\ tip[n] = Genesis
    BY DEF Init, Old
  <2>2. Stored = {Genesis}
    <3>1. \A n \in Node : known[n] \subseteq {Genesis}
      BY DEF Init
    <3>2. PICK n \in Old : TRUE
      BY <1>3
    <3>3. n \in Node /\ known[n] = {Genesis}
      BY <2>1, <3>2 DEF Old
    <3> QED BY <3>1, <3>3 DEF Stored
  <2>3. Genesis \in Block
    BY BlockAssumption
  <2>4. \A n \in Old : Follows(n, Genesis, Genesis)
    BY <2>1, <2>2 DEF Follows
  <2>5. \E b, t \in Block : \A n \in Old : Follows(n, b, t)
    BY <2>3, <2>4
  <2> QED BY <1>1, <2>1, <2>5 DEF OldInv
<1> QED BY <1>1, <1>2, <1>3

\* What NodesAgree says of the nodes that were there from the start: when no
\* server stopped and blocks were made one after the other, they all have the
\* same top once nothing goes on, however many blocks were made.
OldNodesAgree ==
    rush = 0 /\ stops = 0 /\ Nothing =>
        \A n, m \in Old : known[n] = known[m] /\ tip[n] = tip[m]

\* A new block reaches every node that was there from the start.
THEOREM OldNodesFollow == Spec => []OldNodesAgree
<1>1. IInv /\ ImportStored /\ OldInv /\ [Next]_vars
          => IInv' /\ ImportStored' /\ OldInv'
  BY NextInv, StoredStep, OldNext
<1>2. IInv /\ OldInv => OldNodesAgree
  <2> SUFFICES ASSUME IInv, OldInv, rush = 0, stops = 0, Nothing
               PROVE  \A n, m \in Old : known[n] = known[m] /\ tip[n] = tip[m]
    BY DEF OldNodesAgree
  <2>1. PICK b, t \in Block : \A n \in Old : Follows(n, b, t)
    BY DEF OldInv
  <2>2. Steady /\ \A n \in Old : n \in Node
    BY DEF Steady, Old
  <2>3. \A n \in Old : /\ known[n] = Stored
                       /\ tip[n] = IF Height[b] > Height[t] THEN b ELSE t
    BY <2>1, <2>2, FollowsNothing
  <2> QED BY <2>3
<1> QED BY InitInv, OldInit, <1>1, <1>2, PTL DEF Spec

(***************************************************************************)
(* How far the others are behind                                           *)
(***************************************************************************)

Highest(x) == \A m \in up : Height[tip[m]] <= Height[tip[x]]

Near(x, m) == Height[tip[x]] <= Height[tip[m]] + 1

\* The messages by which node m gets the blocks of node x.
OfPair(msg, x, m) ==
    \/ /\ msg.to = m /\ msg.from = x
       /\ msg.type \in {"version", "inv", "added", "shifted", "block"}
    \/ /\ msg.to = x /\ msg.from = m
       /\ msg.type \in {"version", "getblocksup", "getblocks", "getdata"}

Sole(x, m, msg) ==
    /\ msg \in BagToSet(pending) /\ pending[msg] = 1 /\ OfPair(msg, x, m)
    /\ \A p \in BagToSet(pending) : OfPair(p, x, m) => p = msg

\* Block b and the list after it go up, block by block, to the one under the
\* top of node x, and node m can store b or has it.
Climbs(x, m, b, list) ==
    /\ b \in Line[tip[x]]
    /\ Height[b] <= Height[tip[m]] + 1
    /\ Height[b] + Len(list) + 1 = Height[tip[x]]
    /\ \A i \in 1 .. Len(list) : /\ list[i] \in Line[tip[x]]
                                 /\ Height[list[i]] = Height[b] + i

\* What a message of an exchange must be like for it to end with node m at
\* the block under the top of node x or higher.
Leads(x, m, msg) ==
    \/ /\ transit[m][x] = << >>
       /\ \/ msg.type = "version" /\ msg.from = x /\ msg.height = Height[tip[x]]
          \/ msg.type = "version" /\ msg.from = m /\ msg.height < Height[tip[x]]
          \/ msg.type = "getblocksup" /\ msg.block \in Line[tip[x]]
          \/ msg.type = "getblocks" /\ msg.block = Parent[tip[x]]
          \/ /\ msg.type = "inv"
             /\ \/ Head(msg.items) = tip[x]
                \/ Climbs(x, m, Head(msg.items), Tail(msg.items))
    \/ /\ msg.type = "added" /\ transit[m][x] # << >>
       /\ \/ Head(transit[m][x]) = tip[x]
          \/ Climbs(x, m, Head(transit[m][x]), Tail(transit[m][x]))
    \/ msg.type = "shifted" /\ msg.block = tip[x]
    \/ /\ msg.type \in {"shifted", "getdata", "block"}
       /\ Climbs(x, m, msg.block, transit[m][x])

\* The exchange of nodes x and m goes on: in one message, or in the loop of a
\* handler of node m.
Coming(x, m) ==
    \/ /\ loop[m].from # x
       /\ \E msg \in BagToSet(pending) : Sole(x, m, msg) /\ Leads(x, m, msg)
    \/ /\ \A p \in BagToSet(pending) : ~OfPair(p, x, m)
       /\ loop[m].from = x
       /\ Climbs(x, m, loop[m].block, transit[m][x])

\* On one branch every server that runs is near a highest one, or catches up.
NearInv ==
    rush = 0 /\ OneBranch /\ FitsOneAnnouncement /\ up # {} =>
        \E x \in up : Highest(x) /\ \A m \in up : Near(x, m) \/ Coming(x, m)

(***************************************************************************)
(* Bags of messages, counted                                               *)
(***************************************************************************)

LEMMA BagCount ==
    ASSUME NEW B, IsABag(B), NEW S
    PROVE  /\ \A e \in S : e \notin BagToSet(B) => (B (+) SetToBag(S))[e] = 1
           /\ \A e \in BagToSet(B) : e \notin S => (B (+) SetToBag(S))[e] = B[e]
BY DEF IsABag, BagToSet, SetToBag, (+)

LEMMA BagPlusNothing ==
    ASSUME NEW B, IsABag(B)
    PROVE  B (+) SetToBag({}) = B
BY DEF IsABag, SetToBag, (+)

LEMMA BagTaken ==
    ASSUME NEW B, IsABag(B), NEW e
    PROVE  /\ \A d \in BagToSet(B) \ {e} :
                 /\ d \in BagToSet(B (-) SetToBag({e}))
                 /\ (B (-) SetToBag({e}))[d] = B[d]
           /\ B[e] = 1 => e \notin BagToSet(B (-) SetToBag({e}))
<1> DEFINE C == [d \in DOMAIN B |-> IF d \in {e} THEN B[d] - 1 ELSE B[d]]
           D == {d \in DOMAIN C : C[d] > 0}
<1>1. B (-) SetToBag({e}) = [d \in D |-> C[d]]
  BY DEF (-), SetToBag
<1>2. \A d \in DOMAIN B : B[d] \in Nat /\ B[d] > 0
  BY DEF IsABag
<1>3. \A d \in DOMAIN B : d # e => d \in D /\ C[d] = B[d]
  BY <1>2
<1>4. B[e] = 1 => e \notin D
  OBVIOUS
<1> HIDE DEF C, D
<1> QED BY <1>1, <1>3, <1>4 DEF BagToSet

\* What is left of the messages of a pair when one is taken.
LEMMA PairTaken ==
    ASSUME IsABag(pending), NEW x, NEW m, NEW p
    PROVE  /\ IsABag(Received(p))
           /\ BagToSet(Received(p)) \subseteq BagToSet(pending)
           /\ Sole(x, m, p) =>
                 \A q \in BagToSet(Received(p)) : ~OfPair(q, x, m)
           /\ \A msg \in BagToSet(pending) \ {p} :
                 msg \in BagToSet(Received(p)) /\ Received(p)[msg] = pending[msg]
BY BagMinus, BagTaken DEF Received, Sole

LEMMA PairKept ==
    ASSUME NEW x, NEW m, NEW msg, Sole(x, m, msg), NEW rest, IsABag(rest),
           BagToSet(rest) \subseteq BagToSet(pending),
           msg \in BagToSet(rest), rest[msg] = pending[msg],
           NEW S, \A q \in S : ~OfPair(q, x, m),
           pending' = rest (+) SetToBag(S)
    PROVE  Sole(x, m, msg)'
<1>1. BagToSet(pending') = BagToSet(rest) \cup S
  BY BagPlus, BagOfSet
<1>2. OfPair(msg, x, m) /\ pending[msg] = 1
      /\ \A q \in BagToSet(pending) : OfPair(q, x, m) => q = msg
  BY DEF Sole
<1>3. pending'[msg] = 1
  BY <1>2, BagCount
<1> QED BY <1>1, <1>2, <1>3 DEF Sole

LEMMA PairReplaced ==
    ASSUME NEW x, NEW m, NEW rest, IsABag(rest),
           \A q \in BagToSet(rest) : ~OfPair(q, x, m),
           NEW S, NEW msg \in S, OfPair(msg, x, m),
           \A q \in S : OfPair(q, x, m) => q = msg,
           pending' = rest (+) SetToBag(S)
    PROVE  Sole(x, m, msg)'
<1>1. BagToSet(pending') = BagToSet(rest) \cup S
  BY BagPlus, BagOfSet
<1>2. pending'[msg] = 1
  BY BagCount
<1> QED BY <1>1, <1>2 DEF Sole

LEMMA PairGone ==
    ASSUME NEW x, NEW m, NEW rest, IsABag(rest),
           \A q \in BagToSet(rest) : ~OfPair(q, x, m),
           NEW S, \A q \in S : ~OfPair(q, x, m),
           pending' = rest (+) SetToBag(S)
    PROVE  \A p \in BagToSet(pending') : ~OfPair(p, x, m)
BY BagPlus, BagOfSet

(***************************************************************************)
(* What the others have of the branch of the highest                       *)
(***************************************************************************)

\* Node m runs and is behind node x, which is a highest one of one branch.
Behind(x, m) ==
    /\ Steady /\ OneBranch /\ FitsOneAnnouncement
    /\ x \in up /\ m \in up /\ Highest(x) /\ ~Near(x, m)

LEMMA BranchFacts ==
    ASSUME IInv, OneBranch, NEW x \in up, Highest(x), NEW k \in up
    PROVE  /\ x \in Node /\ k \in Node /\ tip[x] \in Block /\ tip[k] \in Block
           /\ known[x] = Line[tip[x]] /\ known[k] \subseteq Line[tip[x]]
           /\ \A b \in Line[tip[x]] :
                 CheckBlockState(k, b) =
                     IF Height[b] <= Height[tip[k]] THEN "exists"
                     ELSE IF Height[b] = Height[tip[k]] + 1 THEN "canBeAdded"
                     ELSE "prevNotExists"
<1>1. x \in Node /\ k \in Node /\ TypeOK /\ StoreInv
  BY DEF IInv, TypeOK
<1>2. /\ tip[x] \in Block /\ tip[x] \in known[x] /\ Line[tip[x]] \subseteq known[x]
      /\ tip[k] \in Block /\ tip[k] \in known[k] /\ Line[tip[k]] \subseteq known[k]
  BY <1>1 DEF TypeOK, StoreInv
<1>3. ASSUME NEW l \in up, NEW b \in known[l] PROVE b \in Line[tip[x]]
  <2>1. l \in Node /\ b \in Block /\ Height[b] <= Height[tip[l]]
    BY <1>1, <1>3 DEF TypeOK, StoreInv
  <2>2. Height[tip[l]] <= Height[tip[x]] /\ tip[l] \in Block
    BY <1>1, <2>1 DEF Highest, TypeOK, StoreInv
  <2>3. Height[b] <= Height[tip[x]]
    BY <1>2, <2>1, <2>2, LineTop
  <2>4. b \in Line[tip[x]] \/ tip[x] \in Line[b]
    BY <1>1, <1>2, <1>3, <2>1 DEF OneBranch
  <2>5. ASSUME tip[x] \in Line[b] PROVE b = tip[x]
    <3>1. Height[tip[x]] = Height[b]
      BY <1>2, <2>1, <2>3, <2>5, LineTop
    <3> QED BY <2>1, <2>5, <3>1, LineAssumption
  <2> QED BY <1>2, <2>4, <2>5, LineTop
<1>4. known[x] = Line[tip[x]] /\ known[k] \subseteq Line[tip[x]]
  BY <1>2, <1>3
<1>5. ASSUME NEW b \in Line[tip[x]]
      PROVE  b \in known[k] <=> Height[b] <= Height[tip[k]]
  <2>1. b \in known[k] => Height[b] <= Height[tip[k]]
    BY <1>1 DEF StoreInv
  <2>2. Height[b] <= Height[tip[k]] => b \in Line[tip[k]]
    BY <1>2, <1>4, SameLine
  <2> QED BY <1>2, <2>1, <2>2
<1>6. ASSUME NEW b \in Line[tip[x]], Height[b] > Height[tip[k]]
      PROVE  Parent[b] \in known[k] <=> Height[b] = Height[tip[k]] + 1
  <2>1. b \in Block /\ b # Genesis /\ Height[tip[k]] \in Nat /\ Height[b] \in Nat
    BY <1>2, <1>6, LineTop, ParentAssumption
  <2>2. /\ Parent[b] \in Line[tip[x]] /\ Height[b] = Height[Parent[b]] + 1
        /\ Height[Parent[b]] \in Nat
    BY <1>2, <2>1, PreviousBlock, SameLine, LineTop
  <2>3. Parent[b] \in known[k] <=> Height[Parent[b]] <= Height[tip[k]]
    BY <1>5, <2>2
  <2> QED BY <1>6, <2>1, <2>2, <2>3
<1>7. \A b \in Line[tip[x]] : Height[b] \in Nat /\ Height[tip[k]] \in Nat
  BY <1>2, LineTop
<1> QED BY <1>1, <1>2, <1>4, <1>5, <1>6, <1>7 DEF CheckBlockState

(***************************************************************************)
(* Steps that are of other pairs                                           *)
(***************************************************************************)

\* What a step does that is not of the exchange of x and m: rest are the
\* messages it leaves.
Elsewhere(rest, x, m) ==
    /\ transit'[m][x] = transit[m][x]
    /\ tip'[x] = tip[x] /\ Height[tip[m]] <= Height[tip'[m]]
    /\ loop[m].from # x => loop'[m].from # x
    /\ loop[m].from = x => loop'[m] = loop[m]
    /\ \E S : pending' = rest (+) SetToBag(S) /\ \A q \in S : ~OfPair(q, x, m)

LEMMA ClimbsKept ==
    ASSUME NEW x, NEW m, NEW b, NEW list, Climbs(x, m, b, list),
           tip'[x] = tip[x], tip[x] \in Block,
           tip[m] \in Block, tip'[m] \in Block, Height[tip[m]] <= Height[tip'[m]]
    PROVE  Climbs(x, m, b, list)'
<1>1. /\ b \in Line[tip[x]]
      /\ Height[b] <= Height[tip[m]] + 1
      /\ Height[b] + Len(list) + 1 = Height[tip[x]]
      /\ \A i \in 1 .. Len(list) : /\ list[i] \in Line[tip[x]]
                                   /\ Height[list[i]] = Height[b] + i
  BY DEF Climbs
<1>2. /\ Height[b] \in Nat /\ Height[tip[m]] \in Nat /\ Height[tip'[m]] \in Nat
  BY <1>1, LineTop
<1>3. Height[b] <= Height[tip'[m]] + 1
  BY <1>1, <1>2
<1> QED BY <1>1, <1>3 DEF Climbs

LEMMA ComingKept ==
    ASSUME NEW x, NEW m, Coming(x, m), tip[x] \in Block,
           tip[m] \in Block, tip'[m] \in Block,
           NEW rest, IsABag(rest), BagToSet(rest) \subseteq BagToSet(pending),
           \A p \in BagToSet(pending) :
               OfPair(p, x, m) => p \in BagToSet(rest) /\ rest[p] = pending[p],
           Elsewhere(rest, x, m)
    PROVE  Coming(x, m)'
<1>1. /\ transit'[m][x] = transit[m][x]
      /\ tip'[x] = tip[x] /\ Height[tip[m]] <= Height[tip'[m]]
      /\ loop[m].from # x => loop'[m].from # x
      /\ loop[m].from = x => loop'[m] = loop[m]
  BY DEF Elsewhere
<1>2. PICK S : pending' = rest (+) SetToBag(S) /\ \A q \in S : ~OfPair(q, x, m)
  BY DEF Elsewhere
<1>3. ASSUME loop[m].from # x, NEW msg \in BagToSet(pending),
             Sole(x, m, msg), Leads(x, m, msg)
      PROVE  Coming(x, m)'
  <2>1. OfPair(msg, x, m)
    BY <1>3 DEF Sole
  <2>2. Sole(x, m, msg)'
    BY <1>2, <1>3, <2>1, PairKept
  <2>3. Leads(x, m, msg)'
    <3>1. \A b : Climbs(x, m, b, transit[m][x]) => Climbs(x, m, b, transit[m][x])'
      BY <1>1, ClimbsKept
    <3>2. Climbs(x, m, Head(msg.items), Tail(msg.items))
              => Climbs(x, m, Head(msg.items), Tail(msg.items))'
      BY <1>1, ClimbsKept
    <3>3. Climbs(x, m, Head(transit[m][x]), Tail(transit[m][x]))
              => Climbs(x, m, Head(transit[m][x]), Tail(transit[m][x]))'
      BY <1>1, ClimbsKept
    <3> QED BY <1>1, <1>3, <3>1, <3>2, <3>3 DEF Leads
  <2>4. msg \in BagToSet(pending')
    BY <2>2 DEF Sole
  <2> QED BY <1>1, <1>3, <2>2, <2>3, <2>4 DEF Coming
<1>4. ASSUME \A p \in BagToSet(pending) : ~OfPair(p, x, m), loop[m].from = x,
             Climbs(x, m, loop[m].block, transit[m][x])
      PROVE  Coming(x, m)'
  <2>1. \A p \in BagToSet(pending') : ~OfPair(p, x, m)
    BY <1>2, <1>4, PairGone
  <2>2. Climbs(x, m, loop[m].block, transit[m][x])'
    BY <1>1, <1>4, ClimbsKept
  <2> QED BY <1>1, <1>4, <2>1, <2>2 DEF Coming
<1> QED BY <1>3, <1>4 DEF Coming

\* A turn with another list.
LEMMA TurnElsewhere ==
    ASSUME IInv, NEW x \in Node, NEW m \in Node, tip[m] \in Block,
           NEW k \in Node, NEW l \in Node, k # m \/ l # x,
           NEW b \in Block, NEW rest, Turn(k, l, b, rest, transit[k][l]),
           k = m => loop[m].from # x, UNCHANGED tip
    PROVE  Elsewhere(rest, x, m)
<1> DEFINE list == transit[k][l]
           state == CheckBlockState(k, b)
<1> TurnDoes(k, l, b, rest)
  BY TurnFacts
<1>1. /\ transit'[m][x] = transit[m][x]
      /\ \A i \in Node \ {k} : loop'[i] = loop[i]
      /\ loop'[k] = NoLoop \/ loop'[k] = [from |-> l, block |-> Head(list)]
  BY DEF TurnDoes
<1>2. /\ state \in {"exists", "canBeAdded", "prevNotExists"}
      /\ state = "canBeAdded" => pending' = rest (+) Send({GetData(k, l, b)})
      /\ state = "prevNotExists" =>
            pending' = rest (+) Send({GetBlocks(k, l, Parent[b])})
      /\ state = "exists" => pending' = rest (+) EmptyBag
  BY DEF TurnDoes
<1>3. loop[m].from # x => loop'[m].from # x
  BY <1>1, SyncAssumption DEF NoLoop
<1>4. loop[m].from = x => loop'[m] = loop[m]
  BY <1>1
<1>5. Height[tip[m]] <= Height[tip'[m]] /\ tip' = tip
  BY LineTop
<1>6. \E S : pending' = rest (+) SetToBag(S) /\ \A q \in S : ~OfPair(q, x, m)
  <2>1. ASSUME NEW q, q.to = l, q.from = k,
               q.type \in {"getdata", "getblocks"}
        PROVE  ~OfPair(q, x, m)
    BY <2>1 DEF OfPair
  <2>2. /\ ~OfPair(GetData(k, l, b), x, m)
        /\ ~OfPair(GetBlocks(k, l, Parent[b]), x, m)
    BY <2>1 DEF GetData, GetBlocks
  <2> HIDE DEF state
  <2> QED BY <1>2, <2>2 DEF Send, EmptyBag
<1> QED BY <1>1, <1>3, <1>4, <1>5, <1>6 DEF Elsewhere

LEMMA HandledElsewhere ==
    ASSUME IInv, NEW x, NEW m, Behind(x, m),
           NEW p \in BagToSet(pending), Handle(p), ~OfPair(p, x, m)
    PROVE  Elsewhere(Received(p), x, m)
<1>1. /\ Steady /\ OneBranch /\ x \in up /\ m \in up /\ Highest(x)
      /\ x \in Node /\ m \in Node /\ tip[x] \in Block /\ tip[m] \in Block
      /\ Height[tip[m]] \in Nat /\ Height[tip[x]] \in Nat /\ x # m
  <2>1. /\ Steady /\ OneBranch /\ x \in up /\ m \in up /\ Highest(x)
        /\ x \in Node /\ m \in Node /\ tip[x] \in Block /\ tip[m] \in Block
    BY BranchFacts DEF Behind
  <2>2. Height[tip[m]] \in Nat /\ Height[tip[x]] \in Nat
    BY <2>1, LineTop
  <2> QED BY <2>1, <2>2 DEF Behind, Near
<1>2. /\ p.to \in Node /\ p.from \in Node /\ p.to \in up /\ p.from \in up
      /\ p \in Message
  BY <1>1, HandlerFacts
<1>3. ASSUME UNCHANGED <<tip, transit, loop>>, NEW S,
             pending' = Received(p) (+) Send(S), \A q \in S : ~OfPair(q, x, m)
      PROVE  Elsewhere(Received(p), x, m)
  <2>1. Height[tip[m]] <= Height[tip'[m]]
    BY <1>1, <1>3
  <2>2. \E Q : pending' = Received(p) (+) SetToBag(Q)
               /\ \A q \in Q : ~OfPair(q, x, m)
    BY <1>3 DEF Send
  <2> QED BY <1>3, <2>1, <2>2 DEF Elsewhere
<1>4. CASE HandleVersion(p)
  <2> DEFINE ask == GetBlocksUpper(p.to, p.from, tip[p.to])
             answer == Version(p.to, p.from)
  <2>1. UNCHANGED <<tip, transit, loop>> /\ p.type = "version"
    BY <1>4 DEF HandleVersion, Handles
  <2>2. ~OfPair(ask, x, m) /\ ~OfPair(answer, x, m)
    BY <1>1, <2>1 DEF OfPair, GetBlocksUpper, Version
  <2>3. \E S \in {{ask}, {answer}, {}} : pending' = Received(p) (+) Send(S)
    <3>1. Height[tip[p.to]] \in Nat /\ p.height \in Nat
      BY <1>2, <2>1, HandlerFacts, MessageFacts, LineTop
    <3>2. Send({}) = EmptyBag
      BY DEF Send, EmptyBag
    <3>3. pending' = Received(p) (+)
              CASE Height[tip[p.to]] < p.height -> Send({ask})
                [] Height[tip[p.to]] > p.height -> Send({answer})
                [] Height[tip[p.to]] = p.height -> EmptyBag
      BY <1>4 DEF HandleVersion
    <3> HIDE DEF ask, answer
    <3> QED BY <3>1, <3>2, <3>3
  <2> HIDE DEF ask, answer
  <2> QED BY <1>3, <2>1, <2>2, <2>3
<1>5. CASE HandleGetBlocksUpper(p) \/ HandleGetBlocks(p)
  <2>1. UNCHANGED <<tip, transit, loop>>
        /\ p.type \in {"getblocksup", "getblocks"}
    BY <1>5 DEF HandleGetBlocksUpper, HandleGetBlocks, Handles
  <2>2. \A items : ~OfPair(Inv(p.to, p.from, items), x, m)
    BY <1>1, <2>1 DEF OfPair, Inv
  <2>3. \E items : pending' = Received(p) (+) Send({Inv(p.to, p.from, items)})
    BY <1>5 DEF HandleGetBlocksUpper, HandleGetBlocks
  <2> QED BY <1>3, <2>1, <2>2, <2>3
<1>6. CASE HandleGetData(p)
  <2>1. UNCHANGED <<tip, transit, loop>> /\ p.type = "getdata"
        /\ pending' = Received(p) (+) Send({FullBlock(p.to, p.from, p.block)})
    BY <1>6 DEF HandleGetData, Handles
  <2>2. ~OfPair(FullBlock(p.to, p.from, p.block), x, m)
    BY <1>1, <2>1 DEF OfPair, FullBlock
  <2> QED BY <1>3, <2>1, <2>2
<1>7. CASE HandleInv(p)
  <2> DEFINE q == Added(p)
  <2>1. /\ p.type = "inv" /\ q.type = "added" /\ q.to = p.to /\ q.from = p.from
        /\ pending' = Received(p) (+) SetToBag({q})
        /\ \A k, l \in Node :
              k # p.to \/ l # p.from => transit'[k][l] = transit[k][l]
        /\ UNCHANGED <<tip, loop>>
    BY <1>7, InvFacts
  <2> HIDE DEF q
  <2>2. ~OfPair(q, x, m) /\ (p.to # m \/ p.from # x)
    BY <1>1, <2>1 DEF OfPair
  <2>3. Height[tip[m]] <= Height[tip'[m]]
    BY <1>1, <2>1
  <2> QED BY <1>1, <2>1, <2>2, <2>3 DEF Elsewhere
<1>8. CASE ShiftFirst(p)
  <2> DEFINE list == transit[p.to][p.from]
             q == Shifted(p, Head(list))
  <2>1. /\ p.type = "added" /\ UNCHANGED <<tip, loop>>
        /\ list = << >> => pending' = Received(p) /\ UNCHANGED transit
    BY <1>8, FirstFacts
  <2>2. p.to # m \/ p.from # x
    BY <1>1, <2>1 DEF OfPair
  <2>3. Height[tip[m]] <= Height[tip'[m]]
    BY <1>1, <2>1
  <2>4. CASE list = << >>
    <3>1. IsABag(Received(p))
      BY PairTaken DEF IInv, TypeOK
    <3>2. pending' = Received(p) (+) SetToBag({})
      BY <2>1, <2>4, <3>1, BagPlusNothing
    <3> QED BY <2>1, <2>3, <2>4, <3>2 DEF Elsewhere
  <2>5. CASE list # << >>
    <3>1. /\ q.type = "shifted" /\ q.to = p.to /\ q.from = p.from
          /\ pending' = Received(p) (+) SetToBag({q})
          /\ \A k, l \in Node :
                k # p.to \/ l # p.from => transit'[k][l] = transit[k][l]
      BY <1>8, <2>5, FirstFacts
    <3> HIDE DEF q, list
    <3>2. ~OfPair(q, x, m)
      BY <1>1, <2>2, <3>1 DEF OfPair
    <3> QED BY <1>1, <2>1, <2>2, <2>3, <3>1, <3>2 DEF Elsewhere
  <2> QED BY <2>4, <2>5
<1>9. CASE LookAtShifted(p)
  <2>1. /\ p.type = "shifted" /\ loop[p.to] = NoLoop
        /\ Turn(p.to, p.from, p.block, Received(p), transit[p.to][p.from])
        /\ UNCHANGED tip
    BY <1>9 DEF LookAtShifted, Handles
  <2>2. p.block \in Block /\ (p.to # m \/ p.from # x)
    BY <1>2, <2>1, MessageFacts DEF OfPair
  <2>3. p.to = m => loop[m].from # x
    BY <1>1, <2>1, SyncAssumption DEF NoLoop
  <2> QED BY <1>1, <1>2, <2>1, <2>2, <2>3, TurnElsewhere
<1>10. CASE HandleBlock(p)
  <2> DEFINE k == p.to
             l == p.from
             c == p.block
             list == transit[k][l]
  <2>1. /\ c \in known[l] /\ c \in Block /\ loop[k] = NoLoop
        /\ IF CheckBlockState(k, c) = "canBeAdded"
           THEN /\ AddBlock(k, c)
                /\ pending' = Received(p) (+)
                      Send({Inv(k, j, <<c>>) : j \in Others(k)})
           ELSE /\ UNCHANGED <<known, tip>>
                /\ pending' = Received(p) (+) EmptyBag
    BY <1>10, BlockFacts
  <2>2. /\ \A i, j \in Node : i # k \/ j # l => transit'[i][j] = transit[i][j]
        /\ \A i \in Node \ {k} : loop'[i] = loop[i]
        /\ loop'[k] = NoLoop \/ loop'[k] = [from |-> l, block |-> Head(list)]
    BY <1>10, BlockFacts
  <2>3. k # m \/ l # x
    BY <1>10 DEF OfPair, HandleBlock, Handles
  <2>4. k \in Node /\ l \in Node /\ k \in up /\ l \in up
    BY <1>2
  <2> HIDE DEF k, l, c, list
  <2>5. transit'[m][x] = transit[m][x]
    BY <1>1, <2>2, <2>3
  <2>6. loop[m].from # x => loop'[m].from # x
    BY <1>1, <2>2, <2>3, SyncAssumption DEF NoLoop
  <2>7. loop[m].from = x => loop'[m] = loop[m]
    BY <1>1, <2>1, <2>2, SyncAssumption DEF NoLoop
  <2>8. CASE CheckBlockState(k, c) = "canBeAdded"
    <3>1. c \notin known[k] /\ Parent[c] \in known[k] /\ AddBlock(k, c)
      BY <2>1, <2>8 DEF CheckBlockState
    <3>2. k # x
      BY <1>1, <2>1, <2>4, <3>1, BranchFacts
    <3>3. /\ tip'[k] = IF Height[c] > Height[tip[k]] THEN c ELSE tip[k]
          /\ \A j \in Node \ {k} : tip'[j] = tip[j]
      BY <2>1, <2>4, <3>1, AddFacts DEF IInv
    <3>4. tip'[x] = tip[x] /\ Height[tip[m]] <= Height[tip'[m]]
      <4>1. Height[c] \in Nat
        BY <2>1, LineTop
      <4> QED BY <1>1, <3>2, <3>3, <4>1
    <3>5. \A j : ~OfPair(Inv(k, j, <<c>>), x, m)
      BY <3>2 DEF OfPair, Inv
    <3>6. \E S : pending' = Received(p) (+) SetToBag(S)
                 /\ \A q \in S : ~OfPair(q, x, m)
      BY <2>1, <2>8, <3>5 DEF Send
    <3> QED BY <2>5, <2>6, <2>7, <3>4, <3>6 DEF Elsewhere
  <2>9. CASE CheckBlockState(k, c) # "canBeAdded"
    <3>1. tip' = tip /\ pending' = Received(p) (+) EmptyBag
      BY <2>1, <2>9
    <3>2. Height[tip[m]] <= Height[tip'[m]]
      BY <1>1, <3>1
    <3> QED BY <2>5, <2>6, <2>7, <3>1, <3>2 DEF Elsewhere, EmptyBag
  <2> QED BY <2>8, <2>9
<1> QED BY <1>4, <1>5, <1>6, <1>7, <1>8, <1>9, <1>10 DEF Handle

(***************************************************************************)
(* The steps of the exchange itself                                        *)
(***************************************************************************)

LEMMA BehindFacts ==
    ASSUME IInv, NEW x, NEW m, Behind(x, m)
    PROVE  /\ Steady /\ x \in up /\ m \in up /\ x \in Node /\ m \in Node /\ x # m
           /\ tip[x] \in Block /\ tip[m] \in Block /\ tip[x] # Genesis
           /\ Height[tip[m]] \in Nat /\ Height[tip[x]] \in Nat
           /\ Height[tip[m]] + 1 < Height[tip[x]] /\ Height[tip[x]] < MaxCount
           /\ known[x] = Line[tip[x]] /\ tip[m] \in Line[tip[x]]
           /\ Parent[tip[x]] \in Line[tip[x]]
           /\ Height[Parent[tip[x]]] = Height[tip[x]] - 1
           /\ \A b \in Line[tip[x]] :
                 /\ b \in Block /\ Height[b] \in Nat
                 /\ CheckBlockState(m, b) =
                       IF Height[b] <= Height[tip[m]] THEN "exists"
                       ELSE IF Height[b] = Height[tip[m]] + 1 THEN "canBeAdded"
                       ELSE "prevNotExists"
<1>1. /\ Steady /\ x \in up /\ m \in up /\ OneBranch /\ FitsOneAnnouncement
      /\ Highest(x) /\ ~Near(x, m)
  BY DEF Behind
<1>2. /\ x \in Node /\ m \in Node /\ tip[x] \in Block /\ tip[m] \in Block
      /\ known[x] = Line[tip[x]] /\ known[m] \subseteq Line[tip[x]]
      /\ \A b \in Line[tip[x]] :
            CheckBlockState(m, b) =
                IF Height[b] <= Height[tip[m]] THEN "exists"
                ELSE IF Height[b] = Height[tip[m]] + 1 THEN "canBeAdded"
                ELSE "prevNotExists"
  BY <1>1, BranchFacts
<1>3. Height[tip[m]] \in Nat /\ Height[tip[x]] \in Nat
      /\ \A b \in Line[tip[x]] : b \in Block /\ Height[b] \in Nat
  BY <1>2, LineTop
<1>4. Height[tip[m]] + 1 < Height[tip[x]] /\ x # m
  BY <1>1, <1>3 DEF Near
<1>5. tip[x] # Genesis
  BY <1>3, <1>4, ParentAssumption
<1>6. Parent[tip[x]] \in Line[tip[x]] /\ Height[Parent[tip[x]]] = Height[tip[x]] - 1
  BY <1>2, <1>3, <1>5, PreviousBlock
<1>7. tip[m] \in Line[tip[x]]
  BY <1>1, <1>2 DEF IInv, StoreInv, TypeOK
<1>8. Height[tip[x]] < MaxCount
  BY <1>1, <1>2, LineTop DEF FitsOneAnnouncement
<1> QED BY <1>1, <1>2, <1>3, <1>4, <1>5, <1>6, <1>7, <1>8

\* The handler's answer takes the place of the message.
LEMMA PathNext ==
    ASSUME IsABag(pending), NEW x, NEW m, NEW msg, Sole(x, m, msg),
           NEW q, q.to \in up, OfPair(q, x, m),
           pending' = Received(msg) (+) Send({q}),
           loop'[m].from # x, Leads(x, m, q)'
    PROVE  Coming(x, m)'
<1>1. IsABag(Received(msg)) /\ \A p \in BagToSet(Received(msg)) : ~OfPair(p, x, m)
  BY PairTaken
<1>2. pending' = Received(msg) (+) SetToBag({q})
  BY DEF Send
<1>3. Sole(x, m, q)'
  BY <1>1, <1>2, PairReplaced
<1> QED BY <1>3 DEF Coming, Sole

LEMMA PathVersion ==
    ASSUME IInv, NEW x, NEW m, Behind(x, m), NEW msg \in BagToSet(pending),
           Sole(x, m, msg), Leads(x, m, msg), loop[m].from # x,
           HandleVersion(msg)
    PROVE  Coming(x, m)'
<1>1. /\ x \in up /\ m \in up /\ x \in Node /\ m \in Node /\ x # m
      /\ tip[x] \in Block /\ tip[m] \in Line[tip[x]] /\ tip[m] \in Block
      /\ Height[tip[m]] \in Nat /\ Height[tip[x]] \in Nat
      /\ Height[tip[m]] + 1 < Height[tip[x]]
  BY BehindFacts
<1>2. /\ UNCHANGED <<tip, transit, loop>> /\ msg.type = "version"
      /\ pending' = Received(msg) (+)
            CASE Height[tip[msg.to]] < msg.height ->
                     Send({GetBlocksUpper(msg.to, msg.from, tip[msg.to])})
              [] Height[tip[msg.to]] > msg.height ->
                     Send({Version(msg.to, msg.from)})
              [] Height[tip[msg.to]] = msg.height -> EmptyBag
  BY DEF HandleVersion, Handles
<1>3. transit[m][x] = << >> /\ IsABag(pending)
  BY <1>2 DEF Leads, IInv, TypeOK
<1>4. CASE msg.from = x /\ msg.height = Height[tip[x]]
  <2>1. msg.to = m
    BY <1>1, <1>4 DEF Sole, OfPair
  <2> PICK q : q = GetBlocksUpper(m, x, tip[m])
    OBVIOUS
  <2>2. pending' = Received(msg) (+) Send({q})
    BY <1>1, <1>2, <1>4, <2>1
  <2>3. /\ q.type = "getblocksup" /\ q.to = x /\ q.from = m /\ q.block = tip[m]
    BY DEF GetBlocksUpper
  <2>4. OfPair(q, x, m) /\ Leads(x, m, q)'
    BY <1>1, <1>2, <1>3, <2>3 DEF OfPair, Leads
  <2> QED BY <1>1, <1>2, <1>3, <2>2, <2>3, <2>4, PathNext
<1>5. CASE msg.from = m /\ msg.height < Height[tip[x]]
  <2> PICK q : q = Version(x, m)
    OBVIOUS
  <2>1. msg.to = x /\ msg.height \in Nat
    BY <1>1, <1>2, <1>5, HandlerFacts, MessageFacts DEF Sole, OfPair
  <2>2. pending' = Received(msg) (+) Send({q})
    <3>1. ~(Height[tip[x]] < msg.height) /\ Height[tip[x]] > msg.height
      BY <1>1, <1>5, <2>1
    <3>2. Height[tip[x]] # msg.height
      BY <1>1, <1>5, <2>1
    <3> QED BY <1>2, <1>5, <2>1, <3>1, <3>2
  <2>3. /\ q.type = "version" /\ q.to = m /\ q.from = x
        /\ q.height = Height[tip[x]]
    BY DEF Version
  <2>4. OfPair(q, x, m) /\ Leads(x, m, q)'
    BY <1>1, <1>2, <1>3, <2>3 DEF OfPair, Leads
  <2> QED BY <1>1, <1>2, <1>3, <2>2, <2>3, <2>4, PathNext
<1> QED BY <1>2, <1>4, <1>5 DEF Leads

\* The top of the highest node is announced first.
LEMMA PathGetBlocksUpper ==
    ASSUME IInv, NEW x, NEW m, Behind(x, m), NEW msg \in BagToSet(pending),
           Sole(x, m, msg), Leads(x, m, msg), loop[m].from # x,
           HandleGetBlocksUpper(msg)
    PROVE  Coming(x, m)'
<1> DEFINE top == tip[x]
           b == msg.block
           found == NextBlocks(x, b)
<1>1. /\ x \in up /\ m \in up /\ top \in Block /\ Height[top] \in Nat
      /\ Height[top] < MaxCount /\ known[x] = Line[top] /\ MaxCount \in Nat
  BY BehindFacts, SyncAssumption
<1>2. /\ UNCHANGED <<tip, transit, loop>> /\ msg.type = "getblocksup"
      /\ msg.to = x /\ msg.from = m /\ b \in Line[top] /\ transit[m][x] = << >>
  BY DEF HandleGetBlocksUpper, Handles, Leads, Sole, OfPair
<1> PICK q : q = Inv(x, m, Reverse(found))
  OBVIOUS
<1>3. pending' = Received(msg) (+) Send({q})
  <2>1. pending' = Received(msg) (+)
            Send({Inv(msg.to, msg.from,
                      Reverse(IF msg.block \in known[msg.to]
                              THEN NextBlocks(msg.to, msg.block)
                              ELSE BlocksShortInfo(tip[msg.to])))})
    BY DEF HandleGetBlocksUpper
  <2> QED BY <1>1, <1>2, <2>1
<1>4. Height[b] \in Nat /\ Height[b] <= Height[top]
  BY <1>1, <1>2, LineTop
<1>5. found = SubSeq(Reverse(Down(top)), Height[b] + 1, Height[top] + 1)
  <2>1. Lower(Height[top] + 1, Height[b] + MaxCount) = Height[top] + 1
    <3> HIDE DEF top, b
    <3> QED BY <1>1, <1>4 DEF Lower
  <2>2. found = SubSeq(Reverse(Down(top)), Height[b] + 1,
                       Lower(Height[top] + 1, Height[b] + MaxCount))
    BY <1>2 DEF NextBlocks
  <2> QED BY <2>1, <2>2
<1>6. /\ found \in Seq(Block) /\ Len(found) = Height[top] - Height[b] + 1
      /\ \A i \in 1 .. Len(found) :
            found[i] = Reverse(Down(top))[Height[b] + i]
  <2>1. /\ Height[b] + 1 \in 1 .. Height[top] + 1
        /\ Height[top] + 1 \in Height[b] + 1 .. Height[top] + 1
    BY <1>1, <1>4
  <2>2. /\ found \in Seq(Block)
        /\ Len(found) = (Height[top] + 1) - (Height[b] + 1) + 1
        /\ \A i \in 1 .. Len(found) :
              found[i] = Reverse(Down(top))[(Height[b] + 1) + i - 1]
    <3> HIDE DEF found, top, b
    <3> QED BY <1>1, <1>5, <2>1, PartOfLine
  <2>3. Len(found) = Height[top] - Height[b] + 1
    BY <1>1, <1>4, <2>2, SMTT(20)
  <2>4. \A i \in 1 .. Len(found) : (Height[b] + 1) + i - 1 = Height[b] + i
    BY <1>4
  <2> QED BY <2>2, <2>3, <2>4
<1> HIDE DEF found
<1>7. found[Len(found)] = top
  <2>1. /\ Down(top) \in Seq(Block) /\ Len(Down(top)) = Height[top] + 1
        /\ Down(top)[1] = top
    <3>1. top \in Line[top] /\ Height[top] + 1 - Height[top] = 1
      BY <1>1, LineTop
    <3> QED BY <1>1, <3>1, DownFacts
  <2>2. Reverse(Down(top))[Height[top] + 1] = top
    <3>1. 1 \in 1 .. Len(Down(top)) /\ Len(Down(top)) - 1 + 1 = Height[top] + 1
      BY <1>1, <2>1
    <3> HIDE DEF top
    <3>2. Reverse(Down(top))[Len(Down(top)) - 1 + 1] = Down(top)[1]
      BY <2>1, <3>1, ReverseFacts
    <3> QED BY <2>1, <3>1, <3>2
  <2>3. Len(found) \in 1 .. Len(found) /\ Height[b] + Len(found) = Height[top] + 1
    BY <1>1, <1>4, <1>6
  <2> QED BY <1>6, <2>2, <2>3
<1>8. Head(Reverse(found)) = top
  <2>1. Len(found) \in Nat /\ Len(found) >= 1
    BY <1>1, <1>4, <1>6
  <2>2. /\ Reverse(found) \in Seq(Block) /\ Len(Reverse(found)) = Len(found)
        /\ 1 \in 1 .. Len(found) /\ Len(found) - 1 + 1 = Len(found)
        /\ Reverse(found)[1] = found[Len(found) - 1 + 1]
    BY <1>6, <2>1, ReverseFacts
  <2> QED BY <1>7, <2>1, <2>2
<1>9. /\ q.type = "inv" /\ q.to = m /\ q.from = x /\ q.items = Reverse(found)
  BY DEF Inv
<1>10. OfPair(q, x, m) /\ Leads(x, m, q)'
  BY <1>2, <1>8, <1>9 DEF OfPair, Leads
<1>11. IsABag(pending)
  BY DEF IInv, TypeOK
<1> QED BY <1>1, <1>2, <1>3, <1>9, <1>10, <1>11, PathNext

\* All the blocks under the top are announced, from the genesis block.
LEMMA PathGetBlocks ==
    ASSUME IInv, NEW x, NEW m, Behind(x, m), NEW msg \in BagToSet(pending),
           Sole(x, m, msg), Leads(x, m, msg), loop[m].from # x,
           HandleGetBlocks(msg)
    PROVE  Coming(x, m)'
<1> DEFINE top == tip[x]
           b == Parent[top]
           found == BlocksShortInfo(b)
           items == Reverse(found)
<1>1. /\ x \in up /\ m \in up /\ top \in Block /\ Height[top] \in Nat
      /\ Height[top] < MaxCount /\ MaxCount \in Nat /\ b \in Line[top]
      /\ Height[b] = Height[top] - 1 /\ b \in Block /\ Height[b] \in Nat
      /\ Height[tip[m]] \in Nat
  BY BehindFacts, SyncAssumption
<1> PICK q : q = Inv(x, m, items)
  OBVIOUS
<1>2. /\ UNCHANGED <<tip, transit, loop>> /\ msg.type = "getblocks"
      /\ msg.to = x /\ msg.from = m /\ msg.block = b /\ transit[m][x] = << >>
      /\ pending' = Received(msg) (+) Send({q})
  BY DEF HandleGetBlocks, Handles, Leads, Sole, OfPair
<1>3. Line[b] \subseteq Line[top]
  BY <1>1, SameLine
<1> HIDE DEF b, top
<1>4. found = SubSeq(Down(b), 1, Height[b] + 1)
  BY <1>1 DEF BlocksShortInfo, Lower
<1>5. /\ Down(b) \in Seq(Block) /\ Len(Down(b)) = Height[b] + 1
      /\ \A i \in 1 .. Height[b] + 1 : /\ Down(b)[i] \in Line[b]
                                       /\ Height[Down(b)[i]] = Height[b] + 1 - i
  BY <1>1, DownFacts
<1>6. found = Down(b)
  BY <1>1, <1>4, <1>5
<1>7. items \in Seq(Block) /\ Len(items) = Height[top]
      /\ \A i \in 1 .. Height[top] : /\ items[i] \in Line[top]
                                     /\ Height[items[i]] = i - 1
  <2>1. /\ items \in Seq(Block) /\ Len(items) = Height[b] + 1
        /\ \A i \in 1 .. Height[b] + 1 :
              /\ (Height[b] + 1) - i + 1 \in 1 .. Height[b] + 1
              /\ items[i] = Down(b)[(Height[b] + 1) - i + 1]
    BY <1>5, <1>6, ReverseFacts
  <2>2. Height[b] + 1 = Height[top]
    BY <1>1
  <2>3. ASSUME NEW i \in 1 .. Height[top]
        PROVE  items[i] \in Line[top] /\ Height[items[i]] = i - 1
    <3>1. /\ (Height[b] + 1) - i + 1 \in 1 .. Height[b] + 1
          /\ items[i] = Down(b)[(Height[b] + 1) - i + 1]
      BY <2>1, <2>2
    <3>2. /\ items[i] \in Line[b]
          /\ Height[items[i]] = Height[b] + 1 - ((Height[b] + 1) - i + 1)
      BY <1>5, <3>1
    <3> QED BY <1>1, <1>3, <3>2
  <2> QED BY <2>1, <2>2, <2>3
<1> HIDE DEF found, items
<1>8. Climbs(x, m, Head(items), Tail(items))
  <2>1. Height[top] >= 1 /\ items # << >>
    BY <1>1, <1>7
  <2>2. Head(items) = items[1] /\ Len(Tail(items)) = Height[top] - 1
        /\ \A i \in 1 .. Height[top] - 1 : Tail(items)[i] = items[i + 1]
    BY <1>1, <1>7, <2>1
  <2>3. Head(items) \in Line[top] /\ Height[Head(items)] = 0
    BY <1>1, <1>7, <2>1, <2>2
  <2>4. \A i \in 1 .. Height[top] - 1 :
            /\ i + 1 \in 1 .. Height[top]
            /\ Tail(items)[i] \in Line[top] /\ Height[Tail(items)[i]] = 0 + i
    <3>1. \A i \in 1 .. Height[top] - 1 : i + 1 \in 1 .. Height[top] /\ (i + 1) - 1 = 0 + i
      BY <1>1
    <3> QED BY <1>7, <2>2, <3>1
  <2>5. Height[Head(items)] <= Height[tip[m]] + 1
        /\ Height[Head(items)] + Len(Tail(items)) + 1 = Height[top]
    BY <1>1, <2>2, <2>3
  <2> QED BY <2>2, <2>3, <2>4, <2>5 DEF Climbs, top
<1>9. /\ q.type = "inv" /\ q.to = m /\ q.from = x /\ q.items = items
  BY DEF Inv
<1>10. Climbs(x, m, Head(q.items), Tail(q.items))'
  BY <1>2, <1>8, <1>9 DEF Climbs, top
<1>11. OfPair(q, x, m) /\ Leads(x, m, q)'
  BY <1>2, <1>9, <1>10 DEF OfPair, Leads
<1>12. IsABag(pending)
  BY DEF IInv, TypeOK
<1> QED BY <1>1, <1>2, <1>9, <1>11, <1>12, PathNext

LEMMA PathGetData ==
    ASSUME IInv, NEW x, NEW m, Behind(x, m), NEW msg \in BagToSet(pending),
           Sole(x, m, msg), Leads(x, m, msg), loop[m].from # x,
           HandleGetData(msg)
    PROVE  Coming(x, m)'
<1>1. x \in up /\ m \in up /\ x \in Node /\ m \in Node /\ IsABag(pending)
  BY BehindFacts DEF IInv, TypeOK
<1>2. /\ UNCHANGED <<tip, transit, loop>> /\ msg.type = "getdata"
      /\ pending' = Received(msg) (+) Send({FullBlock(msg.to, msg.from, msg.block)})
  BY DEF HandleGetData, Handles
<1>3. msg.to = x /\ msg.from = m /\ Climbs(x, m, msg.block, transit[m][x])
  BY <1>2 DEF Leads, Sole, OfPair
<1> PICK q : q = FullBlock(x, m, msg.block)
  OBVIOUS
<1>4. /\ q.type = "block" /\ q.to = m /\ q.from = x /\ q.block = msg.block
      /\ pending' = Received(msg) (+) Send({q})
  BY <1>2, <1>3 DEF FullBlock
<1>5. Climbs(x, m, q.block, transit[m][x])'
  BY <1>2, <1>3, <1>4 DEF Climbs
<1>6. OfPair(q, x, m) /\ Leads(x, m, q)'
  BY <1>4, <1>5 DEF OfPair, Leads
<1> QED BY <1>1, <1>2, <1>4, <1>6, PathNext

LEMMA PathInv ==
    ASSUME IInv, NEW x, NEW m, Behind(x, m), NEW msg \in BagToSet(pending),
           Sole(x, m, msg), Leads(x, m, msg), loop[m].from # x,
           HandleInv(msg)
    PROVE  Coming(x, m)'
<1>1. x \in up /\ m \in up /\ x \in Node /\ m \in Node /\ IsABag(pending)
  BY BehindFacts DEF IInv, TypeOK
<1>2. UNCHANGED <<tip, loop>> /\ msg.type = "inv"
  BY DEF HandleInv
<1>3. /\ msg.to = m /\ msg.from = x /\ transit[m][x] = << >>
      /\ \/ Head(msg.items) = tip[x]
         \/ Climbs(x, m, Head(msg.items), Tail(msg.items))
  BY <1>2 DEF Leads, Sole, OfPair
<1>4. /\ msg.items \in Seq(Block) /\ transit[m][x] \o msg.items = msg.items
  BY <1>1, <1>2, <1>3, HandlerFacts, MessageFacts
<1> PICK q : q = Added(msg)
  OBVIOUS
<1>5. /\ q.type = "added" /\ q.to = m /\ q.from = x
      /\ pending' = Received(msg) (+) SetToBag({q})
      /\ transit'[m][x] = msg.items /\ msg.items # << >>
  BY <1>2, <1>3, <1>4, InvFacts, HandlerFacts, ZenonT(40) DEF Sound
<1>6. pending' = Received(msg) (+) Send({q})
  BY <1>1, <1>5 DEF Send
<1>7. \/ Head(transit'[m][x]) = tip'[x]
      \/ Climbs(x, m, Head(transit[m][x]), Tail(transit[m][x]))'
  BY <1>2, <1>3, <1>5 DEF Climbs
<1>8. OfPair(q, x, m) /\ Leads(x, m, q)'
  BY <1>5, <1>7 DEF OfPair, Leads
<1> QED BY <1>1, <1>2, <1>5, <1>6, <1>8, PathNext

LEMMA PathFirst ==
    ASSUME IInv, NEW x, NEW m, Behind(x, m), NEW msg \in BagToSet(pending),
           Sole(x, m, msg), Leads(x, m, msg), loop[m].from # x,
           ShiftFirst(msg)
    PROVE  Coming(x, m)'
<1>1. x \in up /\ m \in up /\ x \in Node /\ m \in Node /\ IsABag(pending)
  BY BehindFacts DEF IInv, TypeOK
<1>2. UNCHANGED <<tip, loop>> /\ msg.type = "added"
  BY DEF ShiftFirst
<1> PICK list : list = transit[m][x]
  OBVIOUS
<1>3. /\ msg.to = m /\ msg.from = x /\ list # << >>
      /\ Head(list) = tip[x] \/ Climbs(x, m, Head(list), Tail(list))
  BY <1>2 DEF Leads, Sole, OfPair
<1> PICK q : q = Shifted(msg, Head(list))
  OBVIOUS
<1>4. /\ q.type = "shifted" /\ q.to = m /\ q.from = x /\ q.block = Head(list)
      /\ pending' = Received(msg) (+) SetToBag({q})
      /\ transit'[m][x] = Tail(list)
  BY <1>3, FirstFacts, ZenonT(40)
<1>5. pending' = Received(msg) (+) Send({q})
  BY <1>1, <1>4 DEF Send
<1>6. q.block = tip'[x] \/ Climbs(x, m, q.block, transit[m][x])'
  BY <1>2, <1>3, <1>4 DEF Climbs
<1>7. OfPair(q, x, m) /\ Leads(x, m, q)'
  BY <1>4, <1>6 DEF OfPair, Leads
<1> QED BY <1>1, <1>2, <1>4, <1>5, <1>7, PathNext

\* The next block of a list, when node m has the one before it.
LEMMA ClimbsOn ==
    ASSUME NEW x, NEW m, NEW b, NEW list \in Seq(Block), list # << >>,
           Climbs(x, m, b, list), tip'[x] = tip[x], tip[x] \in Block,
           tip'[m] \in Block, Height[b] <= Height[tip'[m]]
    PROVE  Climbs(x, m, Head(list), Tail(list))'
<1>1. /\ b \in Line[tip[x]]
      /\ Height[b] + Len(list) + 1 = Height[tip[x]]
      /\ \A i \in 1 .. Len(list) : /\ list[i] \in Line[tip[x]]
                                   /\ Height[list[i]] = Height[b] + i
  BY DEF Climbs
<1>2. Height[b] \in Nat /\ Height[tip'[m]] \in Nat
  BY <1>1, LineTop
<1>3. /\ Head(list) = list[1] /\ Len(list) \in Nat /\ Len(list) >= 1
      /\ Len(Tail(list)) = Len(list) - 1
      /\ \A i \in 1 .. Len(list) - 1 : Tail(list)[i] = list[i + 1]
  OBVIOUS
<1>4. Head(list) \in Line[tip[x]] /\ Height[Head(list)] = Height[b] + 1
  BY <1>1, <1>3
<1>5. \A i \in 1 .. Len(list) - 1 :
          /\ i + 1 \in 1 .. Len(list)
          /\ Tail(list)[i] \in Line[tip[x]]
          /\ Height[Tail(list)[i]] = Height[Head(list)] + i
  <2>1. \A i \in 1 .. Len(list) - 1 : i + 1 \in 1 .. Len(list)
    BY <1>3
  <2>2. \A i \in 1 .. Len(list) - 1 :
            Height[b] + (i + 1) = (Height[b] + 1) + i
    BY <1>2
  <2> QED BY <1>1, <1>3, <1>4, <2>1, <2>2
<1>6. /\ Height[Head(list)] <= Height[tip'[m]] + 1
      /\ Height[Head(list)] + Len(Tail(list)) + 1 = Height[tip[x]]
  BY <1>1, <1>2, <1>3, <1>4
<1> QED BY <1>3, <1>4, <1>5, <1>6 DEF Climbs

\* A turn of node m with the list of node x.
LEMMA PathTurn ==
    ASSUME IInv, NEW x, NEW m, Behind(x, m), NEW b, NEW rest, IsABag(rest),
           \A p \in BagToSet(rest) : ~OfPair(p, x, m),
           Turn(m, x, b, rest, transit[m][x]), UNCHANGED tip,
           b = tip[x] \/ Climbs(x, m, b, transit[m][x])
    PROVE  Coming(x, m)'
<1> DEFINE state == CheckBlockState(m, b)
<1> PICK list : list = transit[m][x]
  OBVIOUS
<1>1. /\ x \in up /\ m \in up /\ x \in Node /\ m \in Node /\ x # m
      /\ tip[x] \in Block /\ tip[m] \in Block
      /\ Height[tip[m]] \in Nat /\ Height[tip[x]] \in Nat
      /\ Height[tip[m]] + 1 < Height[tip[x]]
      /\ list \in Seq(Block)
  BY BehindFacts DEF IInv, TypeOK
<1>2. b \in Line[tip[x]]
  BY <1>1, LineTop DEF Climbs
<1>3. /\ b \in Block /\ Height[b] \in Nat
      /\ state = IF Height[b] <= Height[tip[m]] THEN "exists"
                 ELSE IF Height[b] = Height[tip[m]] + 1 THEN "canBeAdded"
                 ELSE "prevNotExists"
  BY <1>2, BehindFacts
<1>4. TurnDoes(m, x, b, rest)
  BY <1>1, <1>3, TurnFacts
<1>5. /\ state = "canBeAdded" =>
            /\ loop'[m] = NoLoop /\ transit'[m][x] = list
            /\ pending' = rest (+) Send({GetData(m, x, b)})
      /\ state = "prevNotExists" =>
            /\ loop'[m] = NoLoop /\ transit'[m][x] = << >>
            /\ pending' = rest (+) Send({GetBlocks(m, x, Parent[b])})
      /\ state = "exists" =>
            /\ pending' = rest (+) EmptyBag
            /\ list # << >> =>
                  /\ loop'[m] = [from |-> x, block |-> Head(list)]
                  /\ transit'[m][x] = Tail(list)
  BY <1>4 DEF TurnDoes
<1>6. NoLoop.from # x
  BY <1>1, SyncAssumption DEF NoLoop
<1> HIDE DEF state
<1>7. CASE b = tip[x]
  <2>1. state = "prevNotExists"
    BY <1>1, <1>3, <1>7
  <2> PICK q : q = GetBlocks(m, x, Parent[b])
    OBVIOUS
  <2>2. /\ q.type = "getblocks" /\ q.to = x /\ q.from = m /\ q.block = Parent[b]
    BY DEF GetBlocks
  <2>3. OfPair(q, x, m) /\ Leads(x, m, q)'
    BY <1>5, <1>7, <2>1, <2>2 DEF OfPair, Leads
  <2>4. pending' = rest (+) SetToBag({q})
    BY <1>1, <1>5, <2>1, <2>2 DEF Send
  <2>5. Sole(x, m, q)'
    BY <2>3, <2>4, PairReplaced
  <2> QED BY <1>5, <1>6, <2>1, <2>3, <2>5 DEF Coming, Sole
<1>8. CASE Climbs(x, m, b, list)
  <2>1. /\ Height[b] <= Height[tip[m]] + 1
        /\ Height[b] + Len(list) + 1 = Height[tip[x]]
    BY <1>8 DEF Climbs
  <2>2. state \in {"exists", "canBeAdded"}
    BY <1>1, <1>3, <2>1
  <2>3. CASE state = "canBeAdded"
    <3> PICK q : q = GetData(m, x, b)
      OBVIOUS
    <3>1. /\ q.type = "getdata" /\ q.to = x /\ q.from = m /\ q.block = b
      BY DEF GetData
    <3>2. Climbs(x, m, q.block, transit[m][x])'
      BY <1>5, <1>8, <2>3, <3>1 DEF Climbs
    <3>3. OfPair(q, x, m) /\ Leads(x, m, q)'
      BY <3>1, <3>2 DEF OfPair, Leads
    <3>4. pending' = rest (+) SetToBag({q})
      BY <1>1, <1>5, <2>3, <3>1 DEF Send
    <3>5. Sole(x, m, q)'
      BY <3>3, <3>4, PairReplaced
    <3> QED BY <1>5, <1>6, <2>3, <3>3, <3>5 DEF Coming, Sole
  <2>4. CASE state = "exists"
    <3>1. Height[b] <= Height[tip[m]]
      BY <1>3, <2>4
    <3>2. list # << >>
      <4>1. Len(list) # 0
        BY <1>1, <1>3, <2>1, <3>1
      <4> QED BY <4>1
    <3>3. Climbs(x, m, Head(list), Tail(list))'
      BY <1>1, <1>8, <3>1, <3>2, ClimbsOn
    <3>4. \A p \in BagToSet(pending') : ~OfPair(p, x, m)
      BY <1>5, <2>4, PairGone DEF EmptyBag
    <3>5. loop'[m].from = x /\ loop'[m].block = Head(list)
      BY <1>5, <2>4, <3>2
    <3>6. Climbs(x, m, loop[m].block, transit[m][x])'
      BY <1>5, <2>4, <3>2, <3>3, <3>5
    <3> QED BY <3>4, <3>5, <3>6 DEF Coming
  <2> QED BY <2>2, <2>3, <2>4
<1> QED BY <1>7, <1>8

\* A block came: node m has it now, and goes on with the list if there is one.
LEMMA PathBlock ==
    ASSUME IInv, NEW x, NEW m, Behind(x, m), NEW msg \in BagToSet(pending),
           Sole(x, m, msg), Leads(x, m, msg),
           HandleBlock(msg), ~Near(x, m)', tip'[m] \in Block
    PROVE  Coming(x, m)'
<1> DEFINE c == msg.block
<1> PICK list : list = transit[m][x]
  OBVIOUS
<1>1. /\ x \in up /\ m \in up /\ x \in Node /\ m \in Node /\ x # m
      /\ tip[x] \in Block /\ tip[m] \in Block
      /\ Height[tip[m]] \in Nat /\ Height[tip[x]] \in Nat
      /\ list \in Seq(Block) /\ IsABag(pending)
  BY BehindFacts DEF IInv, TypeOK
<1>2. msg.type = "block" /\ msg.to = m /\ msg.from = x /\ Climbs(x, m, c, list)
  BY DEF HandleBlock, Handles, Leads, Sole, OfPair
<1>3. /\ c \in Line[tip[x]] /\ Height[c] <= Height[tip[m]] + 1
      /\ Height[c] + Len(list) + 1 = Height[tip[x]]
  BY <1>2 DEF Climbs
<1>4. /\ c \in Block /\ Height[c] \in Nat
      /\ CheckBlockState(m, c) =
             IF Height[c] <= Height[tip[m]] THEN "exists"
             ELSE IF Height[c] = Height[tip[m]] + 1 THEN "canBeAdded"
             ELSE "prevNotExists"
  BY <1>3, BehindFacts
<1>5. /\ IF CheckBlockState(m, c) = "canBeAdded"
         THEN /\ AddBlock(m, c)
              /\ pending' = Received(msg) (+)
                    Send({Inv(m, k, <<c>>) : k \in Others(m)})
         ELSE /\ UNCHANGED <<known, tip>>
              /\ pending' = Received(msg) (+) EmptyBag
      /\ list # << >> => /\ loop'[m] = [from |-> x, block |-> Head(list)]
                         /\ transit'[m][x] = Tail(list)
  BY <1>2, BlockFacts
<1> HIDE DEF c
<1>6. tip'[x] = tip[x] /\ Height[c] <= Height[tip'[m]]
  <2>1. CASE CheckBlockState(m, c) = "canBeAdded"
    <3>1. c \notin known[m] /\ Parent[c] \in known[m] /\ AddBlock(m, c)
      BY <1>5, <2>1 DEF CheckBlockState
    <3>2. /\ tip'[m] = IF Height[c] > Height[tip[m]] THEN c ELSE tip[m]
          /\ \A j \in Node \ {m} : tip'[j] = tip[j]
      BY <1>1, <1>4, <3>1, AddFacts DEF IInv
    <3> QED BY <1>1, <1>4, <3>2
  <2>2. CASE CheckBlockState(m, c) # "canBeAdded"
    <3>1. Height[c] <= Height[tip[m]]
      BY <1>1, <1>3, <1>4, <2>2
    <3> QED BY <1>5, <2>2, <3>1
  <2> QED BY <2>1, <2>2
<1>7. list # << >>
  <2>1. Height[tip'[m]] + 1 < Height[tip[x]] /\ Height[tip'[m]] \in Nat
    BY <1>1, <1>6, LineTop DEF Near
  <2>2. Len(list) # 0
    BY <1>1, <1>3, <1>4, <1>6, <2>1
  <2> QED BY <2>2
<1>8. \A p \in BagToSet(pending') : ~OfPair(p, x, m)
  <2>1. \A j : ~OfPair(Inv(m, j, <<c>>), x, m)
    BY <1>1 DEF OfPair, Inv
  <2>2. \E S : pending' = Received(msg) (+) SetToBag(S)
               /\ \A q \in S : ~OfPair(q, x, m)
    BY <1>5, <2>1 DEF Send, EmptyBag
  <2>3. /\ IsABag(Received(msg))
        /\ \A q \in BagToSet(Received(msg)) : ~OfPair(q, x, m)
    BY <1>1, PairTaken
  <2> QED BY <2>2, <2>3, PairGone
<1>9. Climbs(x, m, Head(list), Tail(list))'
  BY <1>1, <1>2, <1>6, <1>7, ClimbsOn
<1>10. loop'[m].from = x /\ loop'[m].block = Head(list) /\ transit'[m][x] = Tail(list)
  BY <1>5, <1>7
<1>11. Climbs(x, m, loop[m].block, transit[m][x])'
  BY <1>9, <1>10
<1> QED BY <1>8, <1>10, <1>11 DEF Coming

LEMMA ComingServed ==
    ASSUME IInv, IInv', NEW x, NEW m, Behind(x, m), Coming(x, m), Serve,
           m \in up', ~Near(x, m)'
    PROVE  Coming(x, m)'
<1>1. /\ Steady /\ x \in up /\ m \in up /\ x \in Node /\ m \in Node
      /\ tip[x] \in Block /\ tip[m] \in Block /\ IsABag(pending)
  BY BehindFacts DEF IInv, TypeOK
<1>2. tip'[m] \in Block
  BY <1>1 DEF IInv, TypeOK
<1>3. ASSUME NEW p \in BagToSet(pending), Handle(p), ~OfPair(p, x, m)
      PROVE  Coming(x, m)'
  <2>1. Elsewhere(Received(p), x, m)
    BY <1>3, HandledElsewhere
  <2>2. /\ IsABag(Received(p))
        /\ BagToSet(Received(p)) \subseteq BagToSet(pending)
        /\ \A msg \in BagToSet(pending) :
              OfPair(msg, x, m) => msg \in BagToSet(Received(p))
                                   /\ Received(p)[msg] = pending[msg]
    BY <1>1, <1>3, PairTaken
  <2> QED BY <1>1, <1>2, <2>1, <2>2, ComingKept
<1>4. ASSUME NEW p \in BagToSet(pending), Handle(p), OfPair(p, x, m)
      PROVE  Coming(x, m)'
  <2>1. loop[m].from # x /\ Sole(x, m, p) /\ Leads(x, m, p)
    BY <1>4 DEF Coming, Sole
  <2>2. CASE HandleVersion(p)
    BY <2>1, <2>2, PathVersion
  <2>3. CASE HandleGetBlocksUpper(p)
    BY <2>1, <2>3, PathGetBlocksUpper
  <2>4. CASE HandleGetBlocks(p)
    BY <2>1, <2>4, PathGetBlocks
  <2>5. CASE HandleInv(p)
    BY <2>1, <2>5, PathInv
  <2>6. CASE ShiftFirst(p)
    BY <2>1, <2>6, PathFirst
  <2>7. CASE HandleGetData(p)
    BY <2>1, <2>7, PathGetData
  <2>8. CASE HandleBlock(p)
    BY <1>2, <2>1, <2>8, PathBlock
  <2>9. CASE LookAtShifted(p)
    <3>1. /\ p.type = "shifted" /\ UNCHANGED tip
          /\ Turn(p.to, p.from, p.block, Received(p), transit[p.to][p.from])
      BY <2>9 DEF LookAtShifted, Handles
    <3>2. p.to = m /\ p.from = x
      BY <1>4, <3>1 DEF OfPair
    <3>3. p.block = tip[x] \/ Climbs(x, m, p.block, transit[m][x])
      BY <2>1, <3>1 DEF Leads
    <3>4. /\ IsABag(Received(p))
          /\ \A q \in BagToSet(Received(p)) : ~OfPair(q, x, m)
      BY <1>1, <2>1, PairTaken
    <3> QED BY <3>1, <3>2, <3>3, <3>4, PathTurn
  <2> QED BY <1>4, <2>2, <2>3, <2>4, <2>5, <2>6, <2>7, <2>8, <2>9 DEF Handle
<1>5. ASSUME NEW k \in Node, LookAtNext(k) PROVE Coming(x, m)'
  <2> DEFINE l == loop[k].from
             b == loop[k].block
  <2>1. /\ l \in Node /\ b \in Block /\ UNCHANGED tip
        /\ Turn(k, l, b, pending, transit[k][l])
    BY <1>5 DEF LookAtNext, IInv, TypeOK
  <2>2. CASE k = m /\ l = x
    <3>1. /\ \A p \in BagToSet(pending) : ~OfPair(p, x, m)
          /\ Climbs(x, m, b, transit[m][x])
      BY <2>2 DEF Coming
    <3> QED BY <1>1, <2>1, <2>2, <3>1, PathTurn
  <2>3. CASE ~(k = m /\ l = x)
    <3>1. k = m => loop[m].from # x
      BY <2>3
    <3> HIDE DEF l, b
    <3>2. Elsewhere(pending, x, m)
      BY <1>1, <2>1, <2>3, <3>1, TurnElsewhere
    <3> QED BY <1>1, <1>2, <3>2, ComingKept
  <2> QED BY <2>2, <2>3
<1> QED BY <1>3, <1>4, <1>5 DEF Serve

(***************************************************************************)
(* Every step keeps the others near                                        *)
(***************************************************************************)

LEMMA NothingNear ==
    ASSUME IInv, Nothing, NEW x \in up, NEW m \in up, Coming(x, m)
    PROVE  FALSE
<1>1. x \in Node /\ m \in Node
  BY DEF IInv, TypeOK
<1>2. BagToSet(pending) = {} /\ loop[m].from = None
  BY <1>1, BagEmpty DEF Nothing, NoLoop
<1> QED BY <1>1, <1>2, SyncAssumption DEF Coming

\* What the nodes that run are like when nothing goes on.
LEMMA NothingGoesOn ==
    ASSUME IInv, NearInv, rush = 0, Nothing, OneBranch, FitsOneAnnouncement,
           up # {}
    PROVE  /\ Steady /\ IsABag(pending) /\ BagToSet(pending) = {}
           /\ \A k, l \in Node : transit[k][l] = << >>
           /\ \A k \in up : /\ k \in Node /\ tip[k] \in Block
                            /\ Height[tip[k]] \in Nat
           /\ \E x \in up : Highest(x) /\ \A m \in up : Near(x, m)
<1>1. Steady /\ TypeOK /\ ListsServed /\ IsABag(pending)
  BY DEF Steady, IInv, TypeOK
<1>2. BagToSet(pending) = {} /\ \A k \in Node : loop[k] = NoLoop
  BY BagEmpty DEF Nothing
<1>3. \A k, l \in Node : transit[k][l] = << >>
  BY <1>1, <1>2, NothingListed
<1>4. \A k \in up : k \in Node /\ tip[k] \in Block
  BY <1>1 DEF TypeOK
<1>5. \A k \in up : Height[tip[k]] \in Nat
  BY <1>4, LineTop
<1>6. \E x \in up : Highest(x) /\ \A m \in up : Near(x, m)
  BY NothingNear DEF NearInv
<1> QED BY <1>1, <1>2, <1>3, <1>4, <1>5, <1>6

\* The first message of an exchange is sent to or by every other server.
LEMMA ExchangeBegins ==
    ASSUME NEW x \in Node, NEW m \in Node, IsABag(pending),
           BagToSet(pending) = {}, NEW S, NEW q \in S, q.to \in up,
           pending' = pending (+) Send(S),
           OfPair(q, x, m), \A p \in S : OfPair(p, x, m) => p = q,
           loop'[m] = NoLoop, Leads(x, m, q)'
    PROVE  Coming(x, m)'
<1> DEFINE sent == {p \in S : p.to \in up}
<1>1. pending' = pending (+) SetToBag(sent) /\ q \in sent
  BY DEF Send
<1> HIDE DEF sent
<1>2. \A p \in sent : OfPair(p, x, m) => p = q
  BY DEF sent
<1>3. Sole(x, m, q)'
  BY <1>1, <1>2, PairReplaced
<1>4. loop'[m].from # x
  BY SyncAssumption DEF NoLoop
<1> QED BY <1>3, <1>4 DEF Coming, Sole

\* What NearInv says, once it is known that there is one branch.
SomeNear == \E x \in up : Highest(x) /\ \A m \in up : Near(x, m) \/ Coming(x, m)

LEMMA NearIdle ==
    ASSUME SomeNear, UNCHANGED <<up, transit, pending, loop>>,
           \A k \in up : tip'[k] = tip[k]
    PROVE  SomeNear'
<1>1. PICK x \in up : Highest(x) /\ \A m \in up : Near(x, m) \/ Coming(x, m)
  BY DEF SomeNear
<1>2. Highest(x)' /\ \A m \in up : Near(x, m) => Near(x, m)'
  BY <1>1 DEF Highest, Near
<1>3. ASSUME NEW m \in up, Coming(x, m) PROVE Coming(x, m)'
  <2>1. \A b, list : Climbs(x, m, b, list) => Climbs(x, m, b, list)'
    BY <1>3 DEF Climbs
  <2>2. \A msg \in BagToSet(pending) : Leads(x, m, msg) => Leads(x, m, msg)'
    BY <2>1 DEF Leads
  <2>3. \A msg \in BagToSet(pending) : Sole(x, m, msg) => Sole(x, m, msg)'
    BY DEF Sole
  <2> QED BY <1>3, <2>1, <2>2, <2>3 DEF Coming
<1> QED BY <1>1, <1>2, <1>3 DEF SomeNear

LEMMA NearServed ==
    ASSUME IInv, IInv', SomeNear, rush = 0, OneBranch, FitsOneAnnouncement,
           Serve, up' = up
    PROVE  SomeNear'
<1>1. PICK x \in up : Highest(x) /\ \A m \in up : Near(x, m) \/ Coming(x, m)
  BY DEF SomeNear
<1>2. Steady
  BY DEF Steady
<1>3. \A k \in up : /\ k \in Node /\ x \in Node
                    /\ tip[k] \in Block /\ tip[x] \in Block
                    /\ known[x] = Line[tip[x]] /\ known[k] \subseteq Line[tip[x]]
  BY <1>1, BranchFacts
<1>4. ASSUME NEW k \in up
      PROVE  \/ tip'[k] = tip[k] /\ known'[k] = known[k]
             \/ \E c \in Line[tip[x]] :
                   /\ k # x
                   /\ tip'[k] = IF Height[c] > Height[tip[k]] THEN c ELSE tip[k]
  <2>1. CASE known'[k] = known[k] /\ tip'[k] = tip[k]
    BY <2>1
  <2>2. ASSUME NEW c \in Block \ known[k], \E m \in up : c \in known[m],
               tip'[k] = IF Height[c] > Height[tip[k]] THEN c ELSE tip[k]
        PROVE  c \in Line[tip[x]] /\ k # x
    BY <1>3, <2>2
  <2> QED BY <1>2, <1>3, <2>1, <2>2, ServedStore
<1>5. tip'[x] = tip[x]
  BY <1>4
<1>6. ASSUME NEW k \in up
      PROVE  Height[tip[k]] <= Height[tip'[k]] /\ Height[tip'[k]] <= Height[tip[x]]
  <2>1. Height[tip[k]] \in Nat /\ Height[tip[x]] \in Nat
        /\ Height[tip[k]] <= Height[tip[x]]
    BY <1>1, <1>3, LineTop DEF Highest
  <2>2. \A c \in Line[tip[x]] : Height[c] \in Nat /\ Height[c] <= Height[tip[x]]
    BY <1>3, LineTop
  <2> QED BY <1>4, <2>1, <2>2
<1>7. Highest(x)'
  BY <1>5, <1>6 DEF Highest
<1>8. ASSUME NEW m \in up PROVE (Near(x, m) \/ Coming(x, m))'
  <2>1. CASE Near(x, m)
    <3>1. /\ Height[tip[m]] \in Nat /\ Height[tip'[m]] \in Nat
          /\ Height[tip[x]] \in Nat
      <4>1. tip'[m] \in Block
        BY <1>3 DEF IInv, TypeOK
      <4> QED BY <1>3, <4>1, LineTop
    <3> QED BY <1>5, <1>6, <2>1, <3>1 DEF Near
  <2>2. CASE ~Near(x, m)
    <3>1. Behind(x, m) /\ Coming(x, m) /\ m \in up'
      BY <1>1, <1>2, <2>2 DEF Behind
    <3> QED BY <3>1, ComingServed
  <2> QED BY <2>1, <2>2
<1> QED BY <1>7, <1>8 DEF SomeNear

\* The maker of a block is the highest then, or there are two branches.
LEMMA NearMade ==
    ASSUME IInv, NearInv, rush = 0, Nothing, OneBranch, FitsOneAnnouncement,
           OneBranch', NEW k \in Node, NEW c \in Block, MakeBlock(k, c)
    PROVE  SomeNear'
<1>1. /\ k \in up /\ Parent[c] = tip[k] /\ AddBlock(k, c) /\ up' = up
      /\ \A m \in Node : c \notin known[m]
      /\ pending' = pending (+) Send({Inv(k, m, <<c>>) : m \in Others(k)})
      /\ UNCHANGED <<transit, loop>>
  BY DEF MakeBlock
<1>2. /\ IsABag(pending) /\ BagToSet(pending) = {}
      /\ \A i, l \in Node : transit[i][l] = << >>
      /\ \A i \in up : i \in Node /\ tip[i] \in Block /\ Height[tip[i]] \in Nat
  BY <1>1, NothingGoesOn
<1>3. PICK x \in up : Highest(x) /\ \A m \in up : Near(x, m)
  BY <1>1, NothingGoesOn
<1>4. /\ x \in Node /\ TypeOK /\ StoreInv /\ tip[k] \in Block /\ tip[x] \in Block
      /\ tip[x] \in known[x] /\ Line[tip[x]] \subseteq known[x]
      /\ tip[k] \in known[k]
  BY <1>1, <1>2, <1>3 DEF IInv, StoreInv, TypeOK
<1>5. /\ c \in known'[k] /\ \A m \in Node \ {k} : known'[m] = known[m] /\ tip'[m] = tip[m]
      /\ known'[k] = known[k] \cup {c}
      /\ tip'[k] = IF Height[c] > Height[tip[k]] THEN c ELSE tip[k]
  BY <1>1, <1>4, AddFacts
<1>6. /\ c # Genesis /\ Height[c] = Height[tip[k]] + 1 /\ Height[c] \in Nat
      /\ Height[tip[k]] \in Nat
  <2>1. c # Genesis
    BY <1>1, <1>4, ParentAssumption, BlockAssumption
  <2> QED BY <1>1, <1>4, <2>1, PreviousBlock, LineTop
<1>7. Height[tip[x]] < Height[c]
  <2>1. tip[x] \in known'[x]
    BY <1>4, <1>5
  <2>2. tip[x] \in Line[c] \/ c \in Line[tip[x]]
    BY <1>1, <1>4, <1>5, <2>1 DEF OneBranch
  <2>3. tip[x] \in Line[c] /\ tip[x] # c
    BY <1>1, <1>4, <2>2
  <2> QED BY <1>6, <2>3, LineAssumption, LineTop
<1>8. tip'[k] = c
  BY <1>5, <1>6
<1>9. \A m \in up : /\ Height[tip[m]] \in Nat /\ Height[tip[m]] <= Height[tip[x]]
                    /\ Height[tip[x]] \in Nat
  BY <1>2, <1>3 DEF Highest
<1>10. Highest(k)' /\ Near(k, k)'
  <2>1. \A m \in up : Height[tip'[m]] <= Height[c]
    BY <1>1, <1>2, <1>5, <1>6, <1>7, <1>8, <1>9
  <2> QED BY <1>1, <1>6, <1>8, <2>1 DEF Highest, Near
<1>11. ASSUME NEW m \in up, m # k PROVE Coming(k, m)'
  <2> DEFINE S == {Inv(k, j, <<c>>) : j \in Others(k)}
  <2>0. m \in Node
    BY <1>2
  <2> PICK q : q = Inv(k, m, <<c>>)
    OBVIOUS
  <2>1. /\ q.type = "inv" /\ q.to = m /\ q.from = k /\ q.items = <<c>> /\ q \in S
    BY <1>11, <2>0 DEF Inv, Others
  <2>2. \A p \in S : OfPair(p, k, m) => p = q
    BY DEF OfPair, Inv
  <2>3. OfPair(q, k, m) /\ Leads(k, m, q)'
    <3>1. Head(q.items) = c
      BY <2>1
    <3>2. transit'[m][k] = << >>
      BY <1>1, <1>2, <2>0
    <3> QED BY <1>8, <2>1, <3>1, <3>2 DEF OfPair, Leads
  <2>4. loop'[m] = NoLoop
    BY <1>1, <2>0 DEF Nothing
  <2>5. pending' = pending (+) Send(S)
    BY <1>1
  <2> HIDE DEF S
  <2> QED BY <1>2, <2>0, <2>1, <2>2, <2>3, <2>4, <2>5, ExchangeBegins
<1> QED BY <1>1, <1>10, <1>11 DEF SomeNear

\* A server that starts tells the others its height.
LEMMA NearStarted ==
    ASSUME IInv, NearInv, rush = 0, Nothing, OneBranch, FitsOneAnnouncement,
           NEW k \in Node, Start(k)
    PROVE  SomeNear'
<1>1. /\ up' = up \cup {k} /\ k \notin up /\ known[k] # {}
      /\ UNCHANGED <<tip, transit, loop>>
      /\ pending' = pending (+) Send({Version(k, m) : m \in Others(k)})
  BY DEF Start
<1>2. tip[k] \in Block /\ Height[tip[k]] \in Nat
  <2>1. tip[k] \in Block
    BY <1>1 DEF IInv, TypeOK
  <2> QED BY <2>1, LineTop
<1>3. CASE up = {}
  <2>1. Highest(k)' /\ Near(k, k)' /\ up' = {k}
    BY <1>1, <1>2, <1>3 DEF Highest, Near
  <2> QED BY <2>1 DEF SomeNear
<1>4. CASE up # {}
  <2>1. /\ IsABag(pending) /\ BagToSet(pending) = {}
        /\ \A i, l \in Node : transit[i][l] = << >>
        /\ \A i \in up : i \in Node /\ tip[i] \in Block /\ Height[tip[i]] \in Nat
    BY <1>4, NothingGoesOn
  <2>2. PICK x \in up : Highest(x) /\ \A m \in up : Near(x, m)
    BY <1>4, NothingGoesOn
  <2> DEFINE S == {Version(k, j) : j \in Others(k)}
  <2>3. ASSUME NEW m \in up
        PROVE  \E q \in S : /\ q.type = "version" /\ q.to = m /\ q.from = k
                            /\ q.height = Height[tip[k]]
                            /\ \A p \in S : p.to = m => p = q
    <3>1. m \in Others(k)
      BY <1>1, <2>1, <2>3 DEF Others
    <3> DEFINE q == Version(k, m)
    <3>2. /\ q \in S /\ q.type = "version" /\ q.to = m /\ q.from = k
          /\ q.height = Height[tip[k]]
      BY <3>1 DEF Version
    <3>3. \A p \in S : p.to = m => p = q
      BY DEF Version
    <3> HIDE DEF q, S
    <3> QED BY <3>2, <3>3
  <2>4. \A p \in S : p.from = k /\ p.to # k
    BY DEF Version, Others
  <2>5. \A m \in Node : loop'[m] = NoLoop
    BY <1>1 DEF Nothing
  <2>6. pending' = pending (+) Send(S)
    BY <1>1
  <2> HIDE DEF S
  <2>7. CASE Height[tip[k]] <= Height[tip[x]]
    <3>1. Highest(x)' /\ \A m \in up : Near(x, m)'
      BY <1>1, <2>2, <2>7 DEF Highest, Near
    <3>2. ASSUME ~Near(x, k)' PROVE Coming(x, k)'
      <4>1. Height[tip[k]] < Height[tip[x]] /\ x # k /\ x \in Node
        BY <1>1, <1>2, <2>1, <2>2, <3>2 DEF Near
      <4>2. PICK q \in S : /\ q.type = "version" /\ q.to = x /\ q.from = k
                           /\ q.height = Height[tip[k]]
                           /\ \A p \in S : p.to = x => p = q
        BY <2>3
      <4>3. OfPair(q, x, k) /\ \A p \in S : OfPair(p, x, k) => p = q
        BY <2>4, <4>1, <4>2 DEF OfPair
      <4>4. transit'[k][x] = << >>
        BY <1>1, <2>1, <4>1
      <4>5. Leads(x, k, q)'
        BY <1>1, <4>1, <4>2, <4>4 DEF Leads
      <4> QED BY <2>1, <2>5, <2>6, <4>1, <4>2, <4>3, <4>5, ExchangeBegins
    <3> QED BY <1>1, <3>1, <3>2 DEF SomeNear
  <2>8. CASE Height[tip[k]] > Height[tip[x]]
    <3>1. Highest(k)' /\ Near(k, k)'
      <4>1. \A m \in up : Height[tip[m]] <= Height[tip[k]]
        BY <1>2, <2>1, <2>2, <2>8 DEF Highest
      <4> QED BY <1>1, <1>2, <4>1 DEF Highest, Near
    <3>2. ASSUME NEW m \in up PROVE Coming(k, m)'
      <4>1. m # k /\ m \in Node
        BY <1>1, <2>1
      <4>2. PICK q \in S : /\ q.type = "version" /\ q.to = m /\ q.from = k
                           /\ q.height = Height[tip[k]]
                           /\ \A p \in S : p.to = m => p = q
        BY <2>3
      <4>3. OfPair(q, k, m) /\ \A p \in S : OfPair(p, k, m) => p = q
        BY <2>4, <4>1, <4>2 DEF OfPair
      <4>4. transit'[m][k] = << >>
        BY <1>1, <2>1, <4>1
      <4>5. Leads(k, m, q)'
        BY <1>1, <4>1, <4>2, <4>4 DEF Leads
      <4> QED BY <2>1, <2>5, <2>6, <4>1, <4>2, <4>3, <4>5, ExchangeBegins
    <3> QED BY <1>1, <3>1, <3>2 DEF SomeNear
  <2>9. Height[tip[x]] \in Nat
    BY <2>1, <2>2
  <2> QED BY <1>2, <2>7, <2>8, <2>9
<1> QED BY <1>3, <1>4

\* When a server stops, the others are near one another.
LEMMA NearStopped ==
    ASSUME IInv, NearInv, rush = 0, Nothing, OneBranch, FitsOneAnnouncement,
           NEW k \in Node, Stop(k), up' # {}
    PROVE  SomeNear'
<1>1. up' = up \ {k} /\ tip' = tip
  BY DEF Stop
<1>2. \A i \in up : Height[tip[i]] \in Nat
  BY <1>1, NothingGoesOn
<1>3. PICK x \in up : Highest(x) /\ \A m \in up : Near(x, m)
  BY <1>1, NothingGoesOn
<1>4. \A m \in up : /\ Height[tip[m]] <= Height[tip[x]]
                    /\ Height[tip[x]] <= Height[tip[m]] + 1
  BY <1>3 DEF Highest, Near
<1>5. PICK y \in up' : \A m \in up' : Height[tip[m]] <= Height[tip[y]]
  <2>1. ASSUME NEW y \in up', Height[tip[y]] = Height[tip[x]]
        PROVE  \A m \in up' : Height[tip[m]] <= Height[tip[y]]
    BY <1>1, <1>4, <2>1
  <2>2. ASSUME \A m \in up' : Height[tip[m]] # Height[tip[x]], NEW y \in up'
        PROVE  \A m \in up' : Height[tip[m]] <= Height[tip[y]]
    BY <1>1, <1>2, <1>4, <2>2
  <2> QED BY <2>1, <2>2
<1>6. \A m \in up' : Height[tip[y]] <= Height[tip[m]] + 1
  BY <1>1, <1>2, <1>4
<1> QED BY <1>1, <1>5, <1>6 DEF SomeNear, Highest, Near

LEMMA NearNext ==
    ASSUME IInv, IInv', ImportStored, NearInv, [Next]_vars
    PROVE  NearInv'
<1> SUFFICES ASSUME rush' = 0, OneBranch', FitsOneAnnouncement', up' # {}
             PROVE  SomeNear'
  BY DEF NearInv, SomeNear
<1>1. \A k \in Node : known[k] \subseteq known'[k]
  BY StoredStep
<1>2. OneBranch /\ FitsOneAnnouncement
  BY <1>1 DEF OneBranch, FitsOneAnnouncement
<1>3. ASSUME UNCHANGED <<up, rush>> PROVE SomeNear
  BY <1>2, <1>3 DEF NearInv, SomeNear
<1>4. ASSUME Begins, up' \subseteq Node PROVE rush = 0 /\ Nothing
  BY <1>4, BusyBound DEF IInv
<1>5. CASE Serve
  <2>1. UNCHANGED <<up, rush>>
    BY <1>5 DEF Serve, Handle, HandleVersion, HandleGetBlocksUpper,
         HandleGetBlocks, HandleInv, ShiftFirst, LookAtShifted, HandleGetData,
         HandleBlock, LookAtNext
  <2> QED BY <1>2, <1>3, <1>5, <2>1, NearServed
<1>6. ASSUME NEW n \in Node, NEW b \in Block, MakeBlock(n, b) PROVE SomeNear'
  <2>1. Begins /\ up' \subseteq Node
    BY <1>6 DEF MakeBlock, IInv, TypeOK
  <2> QED BY <1>2, <1>4, <1>6, <2>1, NearMade
<1>7. ASSUME NEW n \in Node, Start(n) PROVE SomeNear'
  <2>1. Begins /\ up' \subseteq Node
    BY <1>7 DEF Start, IInv, TypeOK
  <2> QED BY <1>2, <1>4, <1>7, <2>1, NearStarted
<1>8. ASSUME NEW n \in Node, Stop(n) PROVE SomeNear'
  <2>1. Begins /\ up' \subseteq Node
    BY <1>8 DEF Stop, IInv, TypeOK
  <2> QED BY <1>2, <1>4, <1>8, <2>1, NearStopped
<1>9. ASSUME NEW n \in Node, NEW m \in Node, RequestFirstBlocks(n, m)
      PROVE  SomeNear'
  <2>1. UNCHANGED <<up, tip, transit, pending, loop, rush>>
    BY <1>9 DEF RequestFirstBlocks
  <2> QED BY <1>3, <2>1, NearIdle
<1>10. ASSUME NEW n \in Node, ImportBlock(n) PROVE SomeNear'
  <2>1. n \notin up /\ UNCHANGED <<up, transit, pending, loop, rush>>
    BY <1>10 DEF ImportBlock, IInv, TypeOK
  <2>2. \A k \in Node \ {n} : tip'[k] = tip[k]
    <3>1. CASE known[n] = {}
      BY <1>10, <3>1 DEF ImportBlock, IInv, TypeOK
    <3>2. CASE known[n] # {}
      BY <1>10, <3>2 DEF ImportBlock, AddBlock, IInv, TypeOK
    <3> QED BY <3>1, <3>2
  <2>3. \A k \in up : tip'[k] = tip[k]
    BY <2>1, <2>2 DEF IInv, TypeOK
  <2> QED BY <1>3, <2>1, <2>3, NearIdle
<1>11. CASE UNCHANGED vars
  BY <1>3, <1>11, NearIdle DEF vars
<1> QED BY <1>5, <1>6, <1>7, <1>8, <1>9, <1>10, <1>11 DEF Next

LEMMA NearInit == Init => NearInv
<1> SUFFICES ASSUME Init, up # {} PROVE SomeNear
  BY DEF NearInv, SomeNear
<1>1. Height[Genesis] = 0 /\ \A n \in up : tip[n] = Genesis
  BY ParentAssumption DEF Init
<1>2. \A n, m \in up : Height[tip[n]] <= Height[tip[m]] /\ Near(n, m)
  BY <1>1 DEF Near
<1> QED BY <1>2 DEF SomeNear, Highest

\* Blocks that are made one after the other reach every node that was there
\* from the start, and a server that was away, or is new, comes to within one
\* block of the others while there is one branch.
THEOREM NodesComeToAgree == Spec => []NodesAgree
<1>1. Init => IInv /\ ImportStored /\ OldInv /\ NearInv
  BY InitInv, OldInit, NearInit
<1>2. IInv /\ ImportStored /\ OldInv /\ NearInv /\ [Next]_vars
          => IInv' /\ ImportStored' /\ OldInv' /\ NearInv'
  BY NextInv, StoredStep, OldNext, NearNext
<1>3. IInv /\ OldInv /\ NearInv => NodesAgree
  <2> SUFFICES ASSUME IInv, OldInv, NearInv, rush = 0, Nothing
               PROVE  /\ stops = 0 => \A n, m \in up \ Fresh : tip[n] = tip[m]
                      /\ OneBranch /\ FitsOneAnnouncement =>
                            \A n, m \in up : Height[tip[n]] <= Height[tip[m]] + 1
    BY DEF NodesAgree
  <2>1. ASSUME stops = 0, NEW n \in up \ Fresh, NEW m \in up \ Fresh
        PROVE  tip[n] = tip[m]
    <3>1. PICK b, t \in Block : \A k \in Old : Follows(k, b, t)
      BY <2>1 DEF OldInv
    <3>2. Steady /\ n \in Old /\ m \in Old /\ n \in Node /\ m \in Node
      BY <2>1 DEF Steady, Old, IInv, TypeOK
    <3> QED BY <3>1, <3>2, FollowsNothing
  <2>2. ASSUME OneBranch, FitsOneAnnouncement, NEW n \in up, NEW m \in up
        PROVE  Height[tip[n]] <= Height[tip[m]] + 1
    <3>1. \A k \in up : Height[tip[k]] \in Nat
      BY <2>2, NothingGoesOn
    <3>2. PICK x \in up : Highest(x) /\ \A k \in up : Near(x, k)
      BY <2>2, NothingGoesOn
    <3>3. /\ Height[tip[n]] <= Height[tip[x]]
          /\ Height[tip[x]] <= Height[tip[m]] + 1
      BY <3>2 DEF Highest, Near
    <3> QED BY <3>1, <3>2, <3>3
  <2> QED BY <2>1, <2>2
<1> QED BY <1>1, <1>2, <1>3, PTL DEF Spec

===============================================================================
