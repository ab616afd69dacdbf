----------------------------- MODULE LedgerProofs -----------------------------
(***************************************************************************)
(* Proofs about Ledger and Payments.                                       *)
(***************************************************************************)
EXTENDS Payments, LookupProofs

(***************************************************************************)
(* Transactions and calls                                                  *)
(***************************************************************************)

\* What a block holds, creates and uses are transactions and outputs.
LEMMA BlockContents ==
    ASSUME NEW b \in Block
    PROVE  /\ TxsOf(b) \subseteq Tx /\ IdsOf(b) \subseteq Ids
           /\ Created(b) \subseteq Output /\ Used(b) \subseteq Output
           /\ \A o \in Created(b) : o[1] \in IdsOf(b) /\ o \in Outputs(o[1])
           /\ \A x \in IdsOf(b) : Outputs(x) \subseteq Created(b)
           /\ \A i \in DOMAIN Txs[b] : Txs[b][i] \in TxsOf(b)
  <1>1. TxsOf(b) \subseteq Tx
    BY BlockTxsAssumption DEF TxsOf
  <1>2. \A i \in DOMAIN Txs[b] : Txs[b][i] \in TxsOf(b)
    BY DEF TxsOf
  <1>3. IdsOf(b) \subseteq Ids
    BY <1>1 DEF IdsOf, Ids
  <1>4. Created(b) \subseteq Output
    BY <1>3 DEF Created, Output
  <1>5. \A t \in Tx : Inputs(t) \subseteq Output
    <2>1. \A t \in Tx : Ins[t] \in Seq(Output)
      BY TxAssumption DEF Output
    <2> QED BY <2>1 DEF Inputs
  <1>6. Used(b) \subseteq Output
    BY <1>1, <1>5 DEF Used
  <1>7. \A x : \A o \in Outputs(x) : o[1] = x
    BY DEF Outputs
  <1>8. \A o \in Created(b) : o[1] \in IdsOf(b) /\ o \in Outputs(o[1])
    BY <1>7 DEF Created
  <1>9. \A x \in IdsOf(b) : Outputs(x) \subseteq Created(b)
    BY DEF Created
  <1> QED BY <1>1, <1>2, <1>3, <1>4, <1>6, <1>8, <1>9

\* What is left of a queue.
LEMMA QueueFacts ==
    ASSUME NEW S, NEW q \in Seq(S), q # << >>
    PROVE  /\ Tail(q) \in Seq(S) /\ Len(q) \in Nat \ {0}
           /\ Len(Tail(q)) = Len(q) - 1
           /\ Head(q) = q[1] /\ q[1] \in S
           /\ \A i \in 1 .. Len(q) - 1 : Tail(q)[i] = q[i + 1]
  OBVIOUS

\* A call that names a block, and one that names none.
LEMMA CallFacts ==
    ASSUME NEW c \in Call
    PROVE  /\ c.call \in BlockCalls \cup {"reindex", "empty", "respend", "panic"}
           /\ c.call \in BlockCalls => c.block \in Block
           /\ c.call \notin BlockCalls => c.block = None
  BY DEF Call, BlockCalls

\* Both calls for each of the blocks, one after the other.
LEMMA EachFacts ==
    ASSUME NEW s \in Seq(Block), NEW first, NEW second
    PROVE  /\ Len(s) \in Nat
           /\ DOMAIN Each(s, first, second) = 1 .. 2 * Len(s)
           /\ \A k \in 1 .. Len(s) :
                 /\ Each(s, first, second)[2 * k - 1] = Calling(first, s[k])
                 /\ Each(s, first, second)[2 * k] = Calling(second, s[k])
  <1>1. Len(s) \in Nat
    OBVIOUS
  <1>2. DOMAIN Each(s, first, second) = 1 .. 2 * Len(s)
    BY DEF Each
  <1>3. ASSUME NEW k \in 1 .. Len(s)
        PROVE  /\ Each(s, first, second)[2 * k - 1] = Calling(first, s[k])
               /\ Each(s, first, second)[2 * k] = Calling(second, s[k])
    <2>1. /\ 2 * k - 1 \in 1 .. 2 * Len(s) /\ 2 * k \in 1 .. 2 * Len(s)
          /\ (2 * k - 1) % 2 = 1 /\ (2 * k) % 2 = 0
          /\ ((2 * k - 1) + 1) \div 2 = k /\ (2 * k + 1) \div 2 = k
      BY <1>1
    <2> QED BY <2>1 DEF Each
  <1> QED BY <1>1, <1>2, <1>3

LEMMA EachType ==
    ASSUME NEW s \in Seq(Block), NEW first, NEW second, NEW C,
           \A d \in Block : Calling(first, d) \in C /\ Calling(second, d) \in C
    PROVE  /\ Each(s, first, second) \in Seq(C)
           /\ Len(Each(s, first, second)) = 2 * Len(s)
  <1> DEFINE calls == Each(s, first, second)
  <1>1. Len(s) \in Nat /\ \A k \in 1 .. Len(s) : s[k] \in Block
    OBVIOUS
  <1>2. ASSUME NEW i \in 1 .. 2 * Len(s) PROVE calls[i] \in C
    <2>1. (i + 1) \div 2 \in 1 .. Len(s)
      BY <1>1
    <2> QED BY <1>1, <2>1 DEF Each
  <1>3. calls = [i \in 1 .. 2 * Len(s) |-> calls[i]] /\ 2 * Len(s) \in Nat
    BY <1>1 DEF Each
  <1> HIDE DEF calls
  <1>4. calls \in Seq(C) /\ Len(calls) = 2 * Len(s)
    BY <1>2, <1>3
  <1> QED BY <1>4 DEF calls

(***************************************************************************)
(* The calls that adding a block makes                                     *)
(***************************************************************************)

\* A queue that rebuilds nothing: all its calls are about blocks.
RebuildCalls == {"reindex", "empty", "respend"}
BlockQueue(q) == \A i \in DOMAIN q : q[i].call \notin RebuildCalls

LEMMA ReplacementType ==
    ASSUME NEW old \in Block, NEW new \in Block
    PROVE  /\ GetBranchesReplacement(old, new).old \in Seq(Block)
           /\ GetBranchesReplacement(old, new).new \in Seq(Block)
  <1> DEFINE found == GetSideBranch(old, new)
             change == GetBranchesReplacement(old, new)
  <1>1. CASE old \notin Line[new]
    BY <1>1, ReplacementFacts
  <1>2. CASE old \in Line[new]
    <2>1. found.base = old
      <3>1. /\ BlockUnder(new, MeetHeight(old, new)) \in Line[old]
            /\ Height[old] <= Height[BlockUnder(new, MeetHeight(old, new))]
        <4> DEFINE meet == MeetHeight(old, new)
                   base == BlockUnder(new, meet)
        <4>1. /\ base \in Line[old] /\ Height[base] = meet
              /\ \A c \in Line[old] : c \in Line[new] <=> Height[c] <= meet
          BY MeetFacts
        <4>2. old \in Line[old]
          BY LineTop
        <4>3. Height[old] <= meet
          BY <1>2, <4>1, <4>2
        <4> QED BY <4>1, <4>3
      <3>2. BlockUnder(new, MeetHeight(old, new)) = old
        BY <3>1, LineTop, LineAssumption
      <3> QED BY <3>2 DEF GetSideBranch
    <2>2. change = [new |-> << >>, old |-> << >>]
      BY <2>1 DEF GetBranchesReplacement
    <2> QED BY <2>2
  <1> QED BY <1>1, <1>2

\* The calls are about blocks, whatever the store looks like.
LEMMA CallsAfterType ==
    ASSUME NEW b \in Block, tip \in Block
    PROVE  CallsAfter(b) \in Seq(Call) /\ BlockQueue(CallsAfter(b))
  <1> DEFINE change == GetBranchesReplacement(tip, b)
             C == {c \in Call : c.call \notin RebuildCalls}
             old == Each(change.old, "repool", "unspend")
             new == Each(change.new, "unpool", "spend")
             rest == IF Height[b] <= Height[tip] THEN << >>
                     ELSE IF Parent[b] = tip
                     THEN <<Calling("unpool", b), Calling("spend", b)>>
                     ELSE IF SideBranchFails(tip, b) THEN <<Calling("panic", None)>>
                     ELSE old \o new
  <1>1. \A c \in {"index", "unpool", "spend", "repool", "unspend"} :
            \A d \in Block : Calling(c, d) \in C
    BY DEF Calling, Call, BlockCalls, RebuildCalls
  <1>2. Calling("panic", None) \in C
    BY DEF Calling, Call, RebuildCalls
  <1>3. old \in Seq(C) /\ new \in Seq(C)
    <2>1. change.old \in Seq(Block) /\ change.new \in Seq(Block)
      BY ReplacementType
    <2> HIDE DEF C, change
    <2> QED BY <1>1, <2>1, EachType
  <1>4. rest \in Seq(C)
    <2> HIDE DEF C, old, new
    <2> QED BY <1>1, <1>2, <1>3
  <1>5. CallsAfter(b) = <<Calling("index", b)>> \o rest
    BY DEF CallsAfter
  <1>6. <<Calling("index", b)>> \in Seq(C)
    <2> HIDE DEF C
    <2> QED BY <1>1
  <1>7. CallsAfter(b) \in Seq(C)
    <2> HIDE DEF C, rest
    <2> QED BY <1>4, <1>5, <1>6
  <1> HIDE DEF C
  <1>8. \A i \in DOMAIN CallsAfter(b) : CallsAfter(b)[i] \in C
    BY <1>7
  <1>9. CallsAfter(b) \in Seq(Call)
    BY <1>7 DEF C
  <1> QED BY <1>8, <1>9 DEF C, BlockQueue

(***************************************************************************)
(* The walk over the chain that finds the unspent outputs                  *)
(***************************************************************************)

\* A walk whose turn n meets the outputs A[n] of block B[n], of which those
\* not met as spent are unspent, and then the spendings U[n].
WalkTurn(met, A, U, B, n) ==
    [unspent |-> met.unspent \cup ((A[n] \ met.spent) \X {B[n]}),
     spent |-> met.spent \cup U[n]]

IsWalk(f, met, A, U, B, len) ==
    f = [n \in 0 .. len |-> IF n = 0 THEN met
                            ELSE WalkTurn(f[n - 1], A, U, B, n)]

\* What it has met after n turns.
SpentIn(U, n) == UNION {U[m] : m \in 1 .. n}
LeftBy(A, U, B, spent, n) ==
    UNION {(A[m] \ (spent \cup SpentIn(U, m - 1))) \X {B[m]} : m \in 1 .. n}
Met(met, A, U, B, n) ==
    [unspent |-> met.unspent \cup LeftBy(A, U, B, met.spent, n),
     spent |-> met.spent \cup SpentIn(U, n)]

\* One turn more.
LEMMA WalkNext ==
    ASSUME NEW A, NEW U, NEW B, NEW met, NEW n \in Nat \ {0}
    PROVE  Met(met, A, U, B, n) =
               WalkTurn(Met(met, A, U, B, n - 1), A, U, B, n)
  <1> DEFINE S == met.unspent
             P == met.spent
             Turn(m) == (A[m] \ (P \cup SpentIn(U, m - 1))) \X {B[m]}
  <1>1. 1 .. n = (1 .. n - 1) \cup {n}
    OBVIOUS
  <1>2. SpentIn(U, n) = SpentIn(U, n - 1) \cup U[n]
    BY <1>1 DEF SpentIn
  <1>3. /\ LeftBy(A, U, B, P, n) = UNION {Turn(m) : m \in 1 .. n}
        /\ LeftBy(A, U, B, P, n - 1) = UNION {Turn(m) : m \in 1 .. n - 1}
    BY DEF LeftBy
  <1>4. LeftBy(A, U, B, P, n) = LeftBy(A, U, B, P, n - 1) \cup Turn(n)
    <2> HIDE DEF Turn
    <2> QED BY <1>1, <1>3
  <1>5. /\ Met(met, A, U, B, n).unspent = S \cup LeftBy(A, U, B, P, n)
        /\ Met(met, A, U, B, n - 1).unspent = S \cup LeftBy(A, U, B, P, n - 1)
        /\ Met(met, A, U, B, n - 1).spent = P \cup SpentIn(U, n - 1)
    BY DEF Met
  <1>6. S \cup LeftBy(A, U, B, P, n) =
            (S \cup LeftBy(A, U, B, P, n - 1)) \cup Turn(n)
    BY <1>4
  <1>7. P \cup SpentIn(U, n) = (P \cup SpentIn(U, n - 1)) \cup U[n]
    BY <1>2
  <1> QED BY <1>5, <1>6, <1>7 DEF Met, WalkTurn

\* There is such a walk, and it has met this and nothing else.
LEMMA WalkFacts ==
    ASSUME NEW A, NEW U, NEW B, NEW len \in Nat \ {0}, NEW met
    PROVE  /\ \E f : IsWalk(f, met, A, U, B, len)
           /\ \A f : IsWalk(f, met, A, U, B, len) =>
                         f[len] = Met(met, A, U, B, len)
  <1> DEFINE g(n) == IF n = 0 THEN met ELSE Met(met, A, U, B, n)
             f0 == [n \in 0 .. len |-> g(n)]
  <1>1. WalkTurn(met, A, U, B, 1) = WalkTurn(Met(met, A, U, B, 0), A, U, B, 1)
    <2>1. SpentIn(U, 0) = {} /\ LeftBy(A, U, B, met.spent, 0) = {}
      BY DEF SpentIn, LeftBy
    <2>2. /\ Met(met, A, U, B, 0).unspent = met.unspent
          /\ Met(met, A, U, B, 0).spent = met.spent
      BY <2>1 DEF Met
    <2> QED BY <2>2 DEF WalkTurn
  <1>2. ASSUME NEW n \in 1 .. len
        PROVE  g(n) = WalkTurn(g(n - 1), A, U, B, n)
    <2>1. Met(met, A, U, B, n) = WalkTurn(Met(met, A, U, B, n - 1), A, U, B, n)
      BY WalkNext
    <2>2. CASE n = 1
      BY <1>1, <2>1, <2>2
    <2>3. CASE n # 1
      BY <2>1, <2>3
    <2> QED BY <2>2, <2>3
  <1>3. IsWalk(f0, met, A, U, B, len)
    <2>1. ASSUME NEW n \in 0 .. len
          PROVE  f0[n] = IF n = 0 THEN met ELSE WalkTurn(f0[n - 1], A, U, B, n)
      <3>1. CASE n = 0
        BY <3>1
      <3>2. CASE n # 0
        <4>1. n \in 1 .. len /\ n - 1 \in 0 .. len
          BY <3>2
        <4> QED BY <1>2, <3>2, <4>1
      <3> QED BY <3>1, <3>2
    <2>2. f0 = [n \in 0 .. len |-> f0[n]]
      OBVIOUS
    <2> HIDE DEF f0
    <2>3. f0 = [n \in 0 .. len |-> IF n = 0 THEN met
                                   ELSE WalkTurn(f0[n - 1], A, U, B, n)]
      BY <2>1, <2>2, Zenon
    <2> QED BY <2>3 DEF IsWalk
  <1>4. ASSUME NEW f, IsWalk(f, met, A, U, B, len)
        PROVE  f[len] = Met(met, A, U, B, len)
    <2> DEFINE T == {n \in 0 .. len : f[n] # g(n)}
    <2>1. \A n \in 0 .. len : f[n] = IF n = 0 THEN met
                                     ELSE WalkTurn(f[n - 1], A, U, B, n)
      BY <1>4 DEF IsWalk
    <2>2. CASE T # {}
      <3>1. T \in SUBSET Nat
        OBVIOUS
      <3> HIDE DEF T
      <3>2. PICK n \in T : \A m \in T : n <= m
        BY <2>2, <3>1, LeastElement
      <3>3. n \in 0 .. len /\ f[n] # g(n)
        BY <3>2 DEF T
      <3>4. n # 0
        BY <2>1, <3>3
      <3>5. n \in 1 .. len /\ n - 1 \in 0 .. len /\ n - 1 \notin T
        BY <3>2, <3>3, <3>4
      <3>6. f[n - 1] = g(n - 1)
        BY <3>5 DEF T
      <3>7. f[n] = WalkTurn(f[n - 1], A, U, B, n)
        BY <2>1, <3>3, <3>4
      <3> QED BY <1>2, <3>3, <3>5, <3>6, <3>7
    <2>3. CASE T = {}
      <3>1. f[len] = g(len)
        BY <2>3
      <3> QED BY <3>1
    <2> QED BY <2>2, <2>3
  <1> QED BY <1>3, <1>4

\* What the walk over one block finds: the outputs no transaction met before
\* their own in the block uses.
InputsOf(x) == IF x \in Tx THEN Inputs(x) ELSE {}
Left(b) ==
    UNION {Outputs(Backwards(b)[m]) \
               UNION {InputsOf(Backwards(b)[l]) : l \in 1 .. m - 1}
           : m \in 1 .. Len(Txs[b]) + 1}

LEMMA BackwardsFacts ==
    ASSUME NEW b \in Block
    PROVE  /\ Len(Txs[b]) \in Nat /\ Len(Backwards(b)) = Len(Txs[b]) + 1
           /\ Backwards(b)[1] = b
           /\ \A m \in 2 .. Len(Txs[b]) + 1 :
                 /\ Backwards(b)[m] = Txs[b][Len(Txs[b]) + 2 - m]
                 /\ Len(Txs[b]) + 2 - m \in DOMAIN Txs[b]
           /\ \A i \in DOMAIN Txs[b] :
                 /\ Len(Txs[b]) + 2 - i \in 2 .. Len(Txs[b]) + 1
                 /\ Backwards(b)[Len(Txs[b]) + 2 - i] = Txs[b][i]
  <1> DEFINE s == Txs[b]
             len == Len(s)
             r == Reverse(s)
  <1>1. s \in Seq(Tx) /\ len \in Nat /\ DOMAIN s = 1 .. len
    BY BlockTxsAssumption
  <1>2. r \in Seq(Tx) /\ Len(r) = len /\ \A i \in 1 .. len : r[i] = s[len - i + 1]
    <2>1. r = [i \in 1 .. len |-> s[(len - i) + 1]]
      BY DEF Reverse
    <2>2. \A i \in 1 .. len : s[(len - i) + 1] \in Tx
      BY <1>1
    <2> HIDE DEF r, s
    <2> QED BY <1>1, <2>1, <2>2
  <1>3. Backwards(b) = <<b>> \o r
    BY DEF Backwards
  <1> HIDE DEF r, s
  <1>4. /\ Len(Backwards(b)) = len + 1
        /\ Backwards(b)[1] = b
        /\ \A m \in 2 .. len + 1 : Backwards(b)[m] = r[m - 1]
    BY <1>1, <1>2, <1>3
  <1>5. ASSUME NEW m \in 2 .. len + 1
        PROVE  Backwards(b)[m] = s[len + 2 - m] /\ len + 2 - m \in 1 .. len
    <2>1. m - 1 \in 1 .. len /\ len - (m - 1) + 1 = len + 2 - m
      BY <1>1
    <2> QED BY <1>1, <1>2, <1>4, <2>1
  <1>6. ASSUME NEW i \in 1 .. len
        PROVE  len + 2 - i \in 2 .. len + 1 /\ Backwards(b)[len + 2 - i] = s[i]
    <2>1. len + 2 - i \in 2 .. len + 1 /\ len + 2 - (len + 2 - i) = i
      BY <1>1
    <2> QED BY <1>5, <2>1
  <1> QED BY <1>1, <1>4, <1>5, <1>6 DEF s

LEMMA LookAtBlockFacts ==
    ASSUME NEW b \in Block, NEW met
    PROVE  LookAtBlock(met, b) =
               [unspent |-> met.unspent \cup ((Left(b) \ met.spent) \X {b}),
                spent |-> met.spent \cup Used(b)]
  <1> DEFINE P == met.spent
             len == Len(Backwards(b))
             A == [m \in 1 .. len |-> Outputs(Backwards(b)[m])]
             U == [m \in 1 .. len |-> InputsOf(Backwards(b)[m])]
             B == [m \in 1 .. len |-> b]
             Step(f, n) == IF n = 0 THEN met
                           ELSE LookAtTx(f[n - 1], Backwards(b)[n], b)
             after == CHOOSE f : f = [n \in 0 .. len |-> Step(f, n)]
  <1>1. len \in Nat /\ len = Len(Txs[b]) + 1
    BY BackwardsFacts
  <1>2. ASSUME NEW f
        PROVE  [n \in 0 .. len |-> Step(f, n)] =
                   [n \in 0 .. len |-> IF n = 0 THEN met
                                       ELSE WalkTurn(f[n - 1], A, U, B, n)]
    <2>1. \A n \in 1 .. len :
              LookAtTx(f[n - 1], Backwards(b)[n], b) =
                  WalkTurn(f[n - 1], A, U, B, n)
      BY DEF LookAtTx, WalkTurn, InputsOf
    <2>2. \A n \in 0 .. len : n # 0 => n \in 1 .. len
      BY <1>1
    <2> HIDE DEF len, A, U, B
    <2> QED BY <2>1, <2>2
  <1>3. \A f : f = [n \in 0 .. len |-> Step(f, n)] <=> IsWalk(f, met, A, U, B, len)
    <2> HIDE DEF Step, len, A, U, B
    <2> QED BY <1>2 DEF IsWalk
  <1>4. /\ \E f : IsWalk(f, met, A, U, B, len)
        /\ \A f : IsWalk(f, met, A, U, B, len) => f[len] = Met(met, A, U, B, len)
    <2> HIDE DEF len, A, U, B
    <2> QED BY <1>1, WalkFacts
  <1>5. after[len] = Met(met, A, U, B, len)
    <2> HIDE DEF Step, len, A, U, B
    <2> QED BY <1>3, <1>4
  <1>6. LookAtBlock(met, b) = after[len]
    BY DEF LookAtBlock
  <1>7. SpentIn(U, len) = Used(b)
    <2>1. ASSUME NEW o \in Used(b) PROVE o \in SpentIn(U, len)
      <3>1. PICK i \in DOMAIN Txs[b] : o \in Inputs(Txs[b][i])
        BY DEF Used, TxsOf
      <3>2. /\ len + 1 - i \in 1 .. len /\ Backwards(b)[len + 1 - i] = Txs[b][i]
            /\ Txs[b][i] \in Tx
        <4>1. Txs[b] \in Seq(Tx) /\ i \in 1 .. Len(Txs[b])
          BY BlockTxsAssumption
        <4>2. Txs[b][i] \in Tx /\ Len(Txs[b]) + 2 - i = len + 1 - i
          BY <1>1, <4>1
        <4>3. len + 1 - i \in 1 .. len
          BY <1>1, <4>1
        <4>4. Backwards(b)[Len(Txs[b]) + 2 - i] = Txs[b][i]
          BY BackwardsFacts
        <4> QED BY <4>2, <4>3, <4>4
      <3>3. o \in U[len + 1 - i]
        BY <3>1, <3>2 DEF InputsOf
      <3> HIDE DEF U, len
      <3> QED BY <3>2, <3>3 DEF SpentIn
    <2>2. ASSUME NEW o \in SpentIn(U, len) PROVE o \in Used(b)
      <3>1. PICK m \in 1 .. len : o \in InputsOf(Backwards(b)[m])
        BY DEF SpentIn
      <3>2. m # 1
        BY <3>1, BackwardsFacts, TxAssumption DEF InputsOf
      <3>3. PICK i \in DOMAIN Txs[b] : Backwards(b)[m] = Txs[b][i]
        BY <1>1, <3>2, BackwardsFacts
      <3> QED BY <3>1, <3>3 DEF InputsOf, Used, TxsOf
    <2> QED BY <2>1, <2>2
  <1>8. LeftBy(A, U, B, P, len) = (Left(b) \ P) \X {b}
    <2> DEFINE One(m) == Outputs(Backwards(b)[m]) \
                             UNION {InputsOf(Backwards(b)[l]) : l \in 1 .. m - 1}
    <2>1. ASSUME NEW m \in 1 .. len
          PROVE  (A[m] \ (P \cup SpentIn(U, m - 1))) \X {B[m]} =
                     (One(m) \ P) \X {b}
      <3>1. SpentIn(U, m - 1) =
                UNION {InputsOf(Backwards(b)[l]) : l \in 1 .. m - 1}
        <4>1. \A l \in 1 .. m - 1 : U[l] = InputsOf(Backwards(b)[l])
          BY <1>1
        <4> HIDE DEF U
        <4> QED BY <4>1 DEF SpentIn
      <3>2. A[m] = Outputs(Backwards(b)[m]) /\ B[m] = b
        OBVIOUS
      <3> HIDE DEF A, B, U
      <3> QED BY <3>1, <3>2
    <2>2. LeftBy(A, U, B, P, len) = UNION {(One(m) \ P) \X {b} : m \in 1 .. len}
      <3> HIDE DEF A, B, U, One, len
      <3> QED BY <2>1 DEF LeftBy
    <2>3. Left(b) = UNION {One(m) : m \in 1 .. len}
      BY <1>1 DEF Left
    <2> HIDE DEF One, len
    <2>4. UNION {(One(m) \ P) \X {b} : m \in 1 .. len} =
              ((UNION {One(m) : m \in 1 .. len}) \ P) \X {b}
      OBVIOUS
    <2> QED BY <2>2, <2>3, <2>4
  <1> QED BY <1>5, <1>6, <1>7, <1>8 DEF Met

\* What it finds is created by the block, and is all of that which the block
\* does not use itself, when it creates before it uses.
LEMMA LeftFacts ==
    ASSUME NEW b \in Block
    PROVE  /\ Left(b) \subseteq Created(b)
           /\ CreatedFirst(b) => Left(b) = Created(b) \ Used(b)
  <1> DEFINE len == Len(Txs[b])
  <1>1. len \in Nat /\ DOMAIN Txs[b] = 1 .. len
    BY BlockTxsAssumption
  <1>2. ASSUME NEW m \in 1 .. len + 1 PROVE Backwards(b)[m] \in IdsOf(b)
    <2>1. CASE m = 1
      BY <2>1, BackwardsFacts DEF IdsOf
    <2>2. CASE m # 1
      <3>1. m \in 2 .. len + 1
        BY <1>1, <2>2
      <3> QED BY <3>1, BackwardsFacts DEF IdsOf, TxsOf
    <2> QED BY <2>1, <2>2
  <1>3. ASSUME NEW x \in IdsOf(b)
        PROVE  \E m \in 1 .. len + 1 : Backwards(b)[m] = x
    <2>1. CASE x = b
      BY <1>1, <2>1, BackwardsFacts
    <2>2. CASE x \in TxsOf(b)
      <3>1. PICK i \in DOMAIN Txs[b] : x = Txs[b][i]
        BY <2>2 DEF TxsOf
      <3>2. /\ len + 2 - i \in 2 .. len + 1
            /\ Backwards(b)[len + 2 - i] = x
        BY <3>1, BackwardsFacts
      <3> QED BY <1>1, <3>2
    <2> QED BY <2>1, <2>2 DEF IdsOf
  <1>4. Left(b) \subseteq Created(b)
    BY <1>2 DEF Left, Created
  <1>5. ASSUME NEW o \in Created(b), o \notin Used(b) PROVE o \in Left(b)
    <2>1. PICK x \in IdsOf(b) : o \in Outputs(x)
      BY <1>5 DEF Created
    <2>2. PICK m \in 1 .. len + 1 : Backwards(b)[m] = x
      BY <1>3
    <2>3. ASSUME NEW l \in 1 .. m - 1, o \in InputsOf(Backwards(b)[l])
          PROVE  FALSE
      <3>1. /\ Backwards(b)[l] \in Tx
            /\ o \in Inputs(Backwards(b)[l])
        BY <2>3 DEF InputsOf
      <3>2. Backwards(b)[l] \in IdsOf(b)
        BY <1>1, <1>2
      <3>3. Backwards(b)[l] \in TxsOf(b)
        BY <3>1, <3>2, TxAssumption DEF IdsOf
      <3> QED BY <1>5, <3>1, <3>3 DEF Used
    <2> QED BY <2>1, <2>2, <2>3 DEF Left
  <1>6. ASSUME CreatedFirst(b), NEW o \in Left(b), o \in Used(b) PROVE FALSE
    <2>1. PICK m \in 1 .. len + 1 :
              /\ o \in Outputs(Backwards(b)[m])
              /\ \A l \in 1 .. m - 1 : o \notin InputsOf(Backwards(b)[l])
      BY DEF Left
    <2>2. PICK i \in DOMAIN Txs[b] : o \in Inputs(Txs[b][i])
      BY <1>6 DEF Used, TxsOf
    <2>3. Txs[b][i] \in Tx
      BY BlockTxsAssumption
    <2>4. /\ i \in 1 .. len /\ len + 2 - i \in 1 .. len + 1
          /\ Backwards(b)[len + 2 - i] = Txs[b][i]
      <3>1. len + 2 - i \in 2 .. len + 1 /\ Backwards(b)[len + 2 - i] = Txs[b][i]
        BY BackwardsFacts
      <3> QED BY <1>1, <3>1
    <2>5. len + 2 - i \notin 1 .. m - 1
      BY <2>1, <2>2, <2>3, <2>4 DEF InputsOf
    <2>6. m <= len + 2 - i
      BY <1>1, <2>4, <2>5
    <2>7. CASE m = 1
      BY <2>1, <2>2, <2>7, <1>6, BackwardsFacts DEF CreatedFirst
    <2>8. CASE m # 1
      <3>1. m \in 2 .. len + 1 /\ len + 2 - m \in i .. len
        BY <1>1, <2>4, <2>6, <2>8
      <3>2. Backwards(b)[m] = Txs[b][len + 2 - m]
        BY <3>1, BackwardsFacts
      <3>3. o \in UNION {Outputs(Txs[b][j]) : j \in i .. len}
        BY <2>1, <3>1, <3>2
      <3> QED BY <1>6, <2>2, <3>3 DEF CreatedFirst
    <2> QED BY <2>7, <2>8
  <1> QED BY <1>4, <1>5, <1>6

\* What the walk over the chain finds: outputs of the main chain with the block
\* that creates them and, when every block creates before it uses, exactly
\* those the branch of the top leaves unspent.
LEMMA FoundFacts ==
    ASSUME tip \in Block
    PROVE  /\ \A o, c : <<o, c>> \in FindunspentTransactions =>
                            c \in Line[tip] /\ o \in Created(c)
           /\ \A f \in FindunspentTransactions : f = <<f[1], f[2]>>
           /\ (\A c \in Line[tip] : CreatedFirst(c)) =>
                  {f[1] : f \in FindunspentTransactions} = Unspent[tip]
  <1> DEFINE down == Down(tip)
             len == Len(down)
             none == [unspent |-> {}, spent |-> {}]
             A == [n \in 1 .. len |-> Left(down[n])]
             U == [n \in 1 .. len |-> Used(down[n])]
             B == [n \in 1 .. len |-> down[n]]
             Step(f, n) == IF n = 0 THEN none ELSE LookAtBlock(f[n - 1], down[n])
             after == CHOOSE f : f = [n \in 0 .. len |-> Step(f, n)]
  <1>1. /\ len \in Nat \ {0} /\ len = Height[tip] + 1 /\ Height[tip] \in Nat
        /\ \A n \in 1 .. len : /\ down[n] \in Line[tip] /\ down[n] \in Block
                                /\ Height[down[n]] = Height[tip] + 1 - n
        /\ \A c \in Line[tip] : \E n \in 1 .. len : down[n] = c
    <2>1. len = Height[tip] + 1 /\ Height[tip] \in Nat
      BY DownFacts, LineTop
    <2>2. len \in Nat \ {0}
      BY <2>1
    <2>3. ASSUME NEW n \in 1 .. len
          PROVE  /\ down[n] \in Line[tip] /\ down[n] \in Block
                 /\ Height[down[n]] = Height[tip] + 1 - n
      BY <2>1, DownFacts, LineTop
    <2>4. ASSUME NEW c \in Line[tip] PROVE \E n \in 1 .. len : down[n] = c
      BY <2>1, DownFacts
    <2> QED BY <2>1, <2>2, <2>3, <2>4
  <1>2. ASSUME NEW f
        PROVE  [n \in 0 .. len |-> Step(f, n)] =
                   [n \in 0 .. len |-> IF n = 0 THEN none
                                       ELSE WalkTurn(f[n - 1], A, U, B, n)]
    <2>1. \A n \in 1 .. len :
              LookAtBlock(f[n - 1], down[n]) = WalkTurn(f[n - 1], A, U, B, n)
      BY <1>1, LookAtBlockFacts DEF WalkTurn
    <2>2. \A n \in 0 .. len : n # 0 => n \in 1 .. len
      BY <1>1
    <2> HIDE DEF len, down, A, U, B, none
    <2> QED BY <2>1, <2>2
  <1>3. \A f : f = [n \in 0 .. len |-> Step(f, n)] <=> IsWalk(f, none, A, U, B, len)
    <2> HIDE DEF Step, len, down, A, U, B, none
    <2> QED BY <1>2 DEF IsWalk
  <1>4. /\ \E f : IsWalk(f, none, A, U, B, len)
        /\ \A f : IsWalk(f, none, A, U, B, len) =>
                       f[len] = Met(none, A, U, B, len)
    <2>1. len \in Nat \ {0}
      BY <1>1
    <2> HIDE DEF len, down, A, U, B, none
    <2> QED BY <2>1, WalkFacts
  <1>5. after[len] = Met(none, A, U, B, len)
    <2> HIDE DEF Step, len, down, A, U, B, none
    <2> QED BY <1>3, <1>4
  <1>6. FindunspentTransactions = after[len].unspent
    BY DEF FindunspentTransactions
  <1> DEFINE Above(m) == UNION {Used(down[l]) : l \in 1 .. m - 1}
             One(m) == (Left(down[m]) \ Above(m)) \X {down[m]}
  <1>7. FindunspentTransactions = UNION {One(m) : m \in 1 .. len}
    <2>1. ASSUME NEW m \in 1 .. len
          PROVE  (A[m] \ (none.spent \cup SpentIn(U, m - 1))) \X {B[m]} = One(m)
      <3>1. SpentIn(U, m - 1) = Above(m)
        <4>1. \A l \in 1 .. m - 1 : U[l] = Used(down[l])
          BY <1>1
        <4> HIDE DEF U, down
        <4> QED BY <4>1 DEF SpentIn
      <3>2. A[m] = Left(down[m]) /\ B[m] = down[m] /\ none.spent = {}
        OBVIOUS
      <3> HIDE DEF A, B, U, down, none, Above
      <3> QED BY <3>1, <3>2
    <2>2. LeftBy(A, U, B, none.spent, len) = UNION {One(m) : m \in 1 .. len}
      <3> HIDE DEF A, B, U, One, len, down, none
      <3> QED BY <2>1 DEF LeftBy
    <2>3. Met(none, A, U, B, len).unspent = LeftBy(A, U, B, none.spent, len)
      BY DEF Met
    <2> QED BY <1>5, <1>6, <2>2, <2>3
  <1> HIDE DEF len, down
  <1>8. \A m \in 1 .. len : \A f \in One(m) :
            /\ f = <<f[1], f[2]>> /\ f[2] = down[m]
            /\ f[1] \in Left(down[m]) \ Above(m)
    OBVIOUS
  <1>9. ASSUME NEW o, NEW c, <<o, c>> \in FindunspentTransactions
        PROVE  c \in Line[tip] /\ o \in Created(c)
    <2>1. PICK m \in 1 .. len : <<o, c>> \in One(m)
      BY <1>7, <1>9
    <2>2. o \in Left(down[m]) /\ c = down[m]
      BY <2>1
    <2> QED BY <1>1, <2>2, LeftFacts
  <1>10. \A f \in FindunspentTransactions : f = <<f[1], f[2]>>
    BY <1>7, <1>8
  <1>11. ASSUME \A c \in Line[tip] : CreatedFirst(c)
         PROVE  {f[1] : f \in FindunspentTransactions} = Unspent[tip]
    <2>1. ASSUME NEW m \in 1 .. len
          PROVE  Left(down[m]) \ Above(m) =
                     Created(down[m]) \
                     UNION {Used(d) : d \in {e \in Line[tip] :
                                               Height[e] >= Height[down[m]]}}
      <3>1. {e \in Line[tip] : Height[e] >= Height[down[m]]} =
                {down[l] : l \in 1 .. m}
        <4>1. ASSUME NEW e \in Line[tip], Height[e] >= Height[down[m]]
              PROVE  \E l \in 1 .. m : down[l] = e
          <5>1. PICK l \in 1 .. len : down[l] = e
            BY <1>1
          <5>2. l <= m
            BY <1>1, <4>1, <5>1
          <5> QED BY <5>1, <5>2
        <4>2. ASSUME NEW l \in 1 .. m
              PROVE  down[l] \in Line[tip] /\ Height[down[l]] >= Height[down[m]]
          BY <1>1
        <4> QED BY <4>1, <4>2
      <3>2. 1 .. m = (1 .. m - 1) \cup {m}
        <4>1. m \in Nat \ {0}
          BY <1>1
        <4> QED BY <4>1
      <3>3. UNION {Used(d) : d \in {down[l] : l \in 1 .. m}} =
                Above(m) \cup Used(down[m])
        BY <3>2
      <3>4. Left(down[m]) = Created(down[m]) \ Used(down[m])
        BY <1>1, <1>11, LeftFacts
      <3> HIDE DEF Above
      <3> QED BY <3>1, <3>3, <3>4
    <2> DEFINE Kept(c) ==
                 Created(c) \
                     UNION {Used(d) : d \in {e \in Line[tip] :
                                               Height[e] >= Height[c]}}
    <2>2. Unspent[tip] = UNION {Kept(c) : c \in Line[tip]}
      BY DEF Unspent
    <2>3. \A m \in 1 .. len : Left(down[m]) \ Above(m) = Kept(down[m])
      BY <2>1
    <2> HIDE DEF Kept, Above
    <2>4. ASSUME NEW f \in FindunspentTransactions PROVE f[1] \in Unspent[tip]
      <3>1. PICK m \in 1 .. len : f \in One(m)
        BY <1>7
      <3>2. f[1] \in Kept(down[m])
        BY <1>8, <2>3, <3>1
      <3> QED BY <1>1, <2>2, <3>2
    <2>5. ASSUME NEW o \in Unspent[tip]
          PROVE  \E f \in FindunspentTransactions : f[1] = o
      <3>1. PICK c \in Line[tip] : o \in Kept(c)
        BY <2>2
      <3>2. PICK m \in 1 .. len : down[m] = c
        BY <1>1
      <3>3. <<o, c>> \in One(m)
        BY <2>3, <3>1, <3>2
      <3>4. <<o, c>>[1] = o
        OBVIOUS
      <3> HIDE DEF One
      <3> QED BY <1>7, <3>3, <3>4
    <2> QED BY <2>4, <2>5
  <1> QED BY <1>9, <1>10, <1>11

(***************************************************************************)
(* Types, and the shape of the queue                                       *)
(***************************************************************************)

\* The index has the blocks of a set and no others.
IndexIs(D) ==
    /\ \A x \in Ids : ToSet(txBlocks[x]) = {b \in D : x \in IdsOf(b)}
    /\ spentBy = UNION {Spendings(b) : b \in D}

\* The first n blocks from the top down.
TopBlocks(n) == {Down(tip)[j] : j \in {i \in DOMAIN Down(tip) : i <= n}}

\* Every record was written by the rebuilding that is under way.
RecordsFound ==
    \A o \in DOMAIN utxo :
        /\ utxo[o] \in main
        /\ <<o, utxo[o]>> \in FindunspentTransactions

\* A rebuilding that has made k of its calls: the index has the blocks passed
\* to it and, once the cache was emptied, the outputs have only new records.
RebuildInv(k) ==
    /\ tip # None
    /\ k \in 0 .. Height[tip] + 3
    /\ Len(todo) = Height[tip] + 4 - k
    /\ \A i \in DOMAIN todo : todo[i] = Rebuild(Down(tip))[k + i]
    /\ k > 0 => IndexIs(TopBlocks(k - 1))
    /\ k = Height[tip] + 3 => RecordsFound

\* The main chain is the branch of the top; nothing but the calls of one drop
\* is left when the genesis block went; and nothing is rebuilt, or a
\* rebuilding is under way.
ShapeInv ==
    /\ main = Branch(tip)
    /\ tip = None => \A i \in DOMAIN todo : todo[i].block = Genesis
    /\ BlockQueue(todo) \/ \E k \in Nat : RebuildInv(k)

BaseInv == TypeOK /\ ShapeInv

LEMMA BaseInit == Init => BaseInv
  <1> SUFFICES ASSUME Init PROVE BaseInv
    OBVIOUS
  <1> USE DEF Init, Store!Init
  <1>1. txBlocks \in [Ids -> Seq(Block)]
    BY BlockAssumption
  <1>2. DOMAIN utxo \subseteq Output /\ utxo \in [DOMAIN utxo -> Block]
    BY BlockAssumption DEF Output, Ids
  <1>3. TypeOK
    BY <1>1, <1>2, BlockAssumption, LedgerAssumption DEF TypeOK
  <1>4. ShapeInv
    BY BlockAssumption, LineAssumption DEF ShapeInv, Branch, BlockQueue
  <1> QED BY <1>3, <1>4 DEF BaseInv

\* A block taken by the store.
LEMMA AddBlockBase ==
    ASSUME BaseInv, NEW b \in Block, AddBlock(b), tip # None,
           UNCHANGED <<caches, bounds>>, prepared' \in Own \cup {None}
    PROVE  BaseInv'
  <1>1. /\ tip \in Block /\ known' = known \cup {b}
        /\ tip' = IF Height[b] > Height[tip] THEN b ELSE tip
        /\ main' = Branch(tip') /\ todo' = CallsAfter(b)
    BY DEF BaseInv, TypeOK, AddBlock, Store!Add, Store!Branch, Branch
  <1>2. tip' \in Block /\ tip' # None /\ main' \subseteq Block
    BY <1>1, LineAssumption, BlockAssumption DEF Branch
  <1>3. CallsAfter(b) \in Seq(Call) /\ BlockQueue(CallsAfter(b))
    BY <1>1, CallsAfterType
  <1>4. TypeOK'
    BY <1>1, <1>2, <1>3 DEF BaseInv, TypeOK, caches, index, bounds
  <1>5. ShapeInv'
    BY <1>1, <1>2, <1>3 DEF ShapeInv, BlockQueue
  <1> QED BY <1>4, <1>5 DEF BaseInv

\* The calls of ReindexData: the index is emptied and gets the blocks of the
\* chain in their order, then the outputs are emptied and written.
LEMMA RebuildFacts ==
    ASSUME tip \in Block
    PROVE  LET q == Rebuild(Down(tip))
               H == Height[tip]
           IN  /\ H \in Nat /\ q \in Seq(Call) /\ Len(q) = H + 4
               /\ q[1] = Calling("reindex", None)
               /\ \A j \in 1 .. H + 1 : q[j + 1] = Calling("index", Down(tip)[j])
               /\ q[H + 3] = Calling("empty", None)
               /\ q[H + 4] = Calling("respend", None)
  <1> DEFINE H == Height[tip]
             d == Down(tip)
             calls == [i \in DOMAIN d |-> Calling("index", d[i])]
             q == Rebuild(d)
  <1>1. H \in Nat /\ d \in Seq(Block) /\ Len(d) = H + 1
    BY DownFacts, LineTop
  <1>2. /\ Calling("reindex", None) \in Call /\ Calling("respend", None) \in Call
        /\ Calling("empty", None) \in Call
        /\ \A b \in Block : Calling("index", b) \in Call
    BY DEF Calling, Call, BlockCalls
  <1>3. calls \in Seq(Call) /\ Len(calls) = H + 1
    <2>1. DOMAIN d = 1 .. H + 1 /\ H + 1 \in Nat
      BY <1>1
    <2>2. \A i \in 1 .. H + 1 : Calling("index", d[i]) \in Call
      BY <1>1, <1>2, <2>1
    <2> HIDE DEF d
    <2> QED BY <2>1, <2>2
  <1>4. \A j \in 1 .. H + 1 : calls[j] = Calling("index", d[j])
    BY <1>1
  <1>5. q = <<Calling("reindex", None)>> \o calls \o
            <<Calling("empty", None), Calling("respend", None)>>
    BY DEF Rebuild
  <1> HIDE DEF calls, q, d, H
  <1>6. /\ q \in Seq(Call) /\ Len(q) = H + 4
        /\ q[1] = Calling("reindex", None)
        /\ \A j \in 1 .. H + 1 : q[j + 1] = calls[j]
        /\ q[H + 3] = Calling("empty", None)
        /\ q[H + 4] = Calling("respend", None)
    BY <1>1, <1>2, <1>3, <1>5
  <1> QED BY <1>1, <1>4, <1>6 DEF q, d, H

\* In a rebuilding the next call is known from how many were made.
LEMMA RebuildCall ==
    ASSUME TypeOK, NEW k \in Nat, RebuildInv(k)
    PROVE  /\ tip \in Block /\ Height[tip] \in Nat /\ todo # << >>
           /\ Head(todo) = Rebuild(Down(tip))[k + 1]
           /\ \/ k = 0 /\ Head(todo) = Calling("reindex", None)
              \/ /\ k \in 1 .. Height[tip] + 1
                 /\ Head(todo) = Calling("index", Down(tip)[k])
              \/ k = Height[tip] + 2 /\ Head(todo) = Calling("empty", None)
              \/ k = Height[tip] + 3 /\ Head(todo) = Calling("respend", None)
           /\ ~BlockQueue(todo)
  <1>1. tip \in Block /\ Height[tip] \in Nat
    BY LineTop DEF TypeOK, RebuildInv
  <1>2. /\ todo \in Seq(Call) /\ Len(todo) = Height[tip] + 4 - k
        /\ k \in 0 .. Height[tip] + 3
        /\ \A i \in DOMAIN todo : todo[i] = Rebuild(Down(tip))[k + i]
    BY DEF TypeOK, RebuildInv
  <1>3. todo # << >> /\ 1 \in DOMAIN todo /\ Head(todo) = todo[1]
    BY <1>1, <1>2
  <1>4. Head(todo) = Rebuild(Down(tip))[k + 1]
    BY <1>2, <1>3
  <1>5. \/ k = 0 /\ Head(todo) = Calling("reindex", None)
        \/ /\ k \in 1 .. Height[tip] + 1
           /\ Head(todo) = Calling("index", Down(tip)[k])
        \/ k = Height[tip] + 2 /\ Head(todo) = Calling("empty", None)
        \/ k = Height[tip] + 3 /\ Head(todo) = Calling("respend", None)
    <2>1. CASE k = 0
      BY <1>1, <1>4, <2>1, RebuildFacts
    <2>2. CASE k \in 1 .. Height[tip] + 1
      BY <1>1, <1>4, <2>2, RebuildFacts
    <2>3. CASE k = Height[tip] + 2
      <3>1. k + 1 = Height[tip] + 3
        BY <1>1, <2>3
      <3> QED BY <1>1, <1>4, <2>3, <3>1, RebuildFacts
    <2>4. CASE k = Height[tip] + 3
      <3>1. k + 1 = Height[tip] + 4
        BY <1>1, <2>4
      <3> QED BY <1>1, <1>4, <2>4, <3>1, RebuildFacts
    <2> QED BY <1>1, <1>2, <2>1, <2>2, <2>3, <2>4
  <1>6. ~BlockQueue(todo)
    <2>1. /\ Len(todo) \in DOMAIN todo /\ k + Len(todo) = Height[tip] + 4
      BY <1>1, <1>2
    <2>2. todo[Len(todo)] = Calling("respend", None)
      <3>1. todo[Len(todo)] = Rebuild(Down(tip))[k + Len(todo)]
        BY <1>2, <2>1
      <3> QED BY <1>1, <2>1, <3>1, RebuildFacts
    <2> QED BY <2>1, <2>2 DEF BlockQueue, RebuildCalls, Calling
  <1> QED BY <1>1, <1>3, <1>4, <1>5, <1>6

\* The next call of a rebuilding is made.
LEMMA RebuildDone ==
    ASSUME BaseInv, NEW k \in Nat, RebuildInv(k), Done,
           k < Height[tip] + 3,
           IndexIs(TopBlocks(k))',
           k = Height[tip] + 2 => RecordsFound'
    PROVE  ShapeInv' /\ todo' \in Seq(Call)
  <1>1. /\ tip \in Block /\ Height[tip] \in Nat /\ todo # << >>
        /\ todo \in Seq(Call)
    BY RebuildCall DEF BaseInv, TypeOK
  <1>2. todo' = Tail(todo) /\ UNCHANGED <<tip, main>>
    BY DEF Done, store
  <1>3. /\ Tail(todo) \in Seq(Call) /\ Len(Tail(todo)) = Len(todo) - 1
        /\ \A i \in 1 .. Len(todo) - 1 : Tail(todo)[i] = todo[i + 1]
        /\ Len(todo) \in Nat
    BY <1>1, QueueFacts
  <1>4. /\ Len(todo) = Height[tip] + 4 - k
        /\ \A i \in DOMAIN todo : todo[i] = Rebuild(Down(tip))[k + i]
    BY DEF RebuildInv
  <1>5. /\ k + 1 \in 0 .. Height[tip] + 3
        /\ Len(todo') = Height[tip] + 4 - (k + 1)
    <2>1. k < Height[tip] + 3
      OBVIOUS
    <2>2. Len(todo') = Len(todo) - 1
      BY <1>2, <1>3
    <2> QED BY <1>1, <1>4, <2>1, <2>2
  <1>6. \A i \in DOMAIN todo' : todo'[i] = Rebuild(Down(tip))[(k + 1) + i]
    <2> SUFFICES ASSUME NEW i \in DOMAIN todo'
                 PROVE  todo'[i] = Rebuild(Down(tip))[(k + 1) + i]
      OBVIOUS
    <2>1. i \in 1 .. Len(todo) - 1 /\ i + 1 \in DOMAIN todo
      BY <1>1, <1>2, <1>3
    <2>2. todo'[i] = Rebuild(Down(tip))[k + (i + 1)]
      BY <1>2, <1>3, <1>4, <2>1
    <2>3. k + (i + 1) = (k + 1) + i
      BY <2>1
    <2> QED BY <2>2, <2>3
  <1>7. IndexIs(TopBlocks((k + 1) - 1))'
    <2>1. (k + 1) - 1 = k
      OBVIOUS
    <2> QED BY <2>1
  <1>8. RebuildInv(k + 1)'
    <2>1. k + 1 = Height[tip] + 3 => k = Height[tip] + 2
      BY <1>1
    <2>2. tip # None
      BY DEF RebuildInv
    <2> QED BY <1>2, <1>5, <1>6, <1>7, <2>1, <2>2 DEF RebuildInv
  <1>9. main' = Branch(tip') /\ tip' # None
    BY <1>2 DEF BaseInv, ShapeInv, Branch, RebuildInv
  <1> QED BY <1>2, <1>3, <1>8, <1>9 DEF ShapeInv

\* A call about a block is made: the queue keeps its shape.
LEMMA BlockCallDone ==
    ASSUME BaseInv, todo # << >>, Done,
           BlockQueue(todo) \/ Head(todo).call \notin RebuildCalls \cup {"index"}
    PROVE  /\ ShapeInv' /\ todo' \in Seq(Call)
           /\ Current \in Block \cup {None}
           /\ Head(todo).call # "panic" => Current \in Block
           /\ tip = None => Current = Genesis
           /\ BlockQueue(todo)
  <1>1. /\ todo \in Seq(Call) /\ todo' = Tail(todo) /\ UNCHANGED <<tip, main>>
    BY DEF BaseInv, TypeOK, Done, store
  <1>2. /\ Tail(todo) \in Seq(Call) /\ Len(Tail(todo)) = Len(todo) - 1
        /\ \A i \in 1 .. Len(todo) - 1 : Tail(todo)[i] = todo[i + 1]
        /\ Head(todo) = todo[1] /\ Head(todo) \in Call /\ 1 \in DOMAIN todo
        /\ Len(todo) \in Nat \ {0}
    BY <1>1, QueueFacts
  <1>3. BlockQueue(todo)
    <2>1. ASSUME NEW k \in Nat, RebuildInv(k),
                 Head(todo).call \notin RebuildCalls \cup {"index"}
          PROVE  FALSE
      BY <2>1, RebuildCall DEF BaseInv, RebuildCalls, Calling
    <2> QED BY <2>1 DEF BaseInv, ShapeInv
  <1>4. \A i \in DOMAIN Tail(todo) :
            i + 1 \in DOMAIN todo /\ Tail(todo)[i] = todo[i + 1]
    BY <1>1, <1>2
  <1>5. BlockQueue(todo')
    BY <1>1, <1>3, <1>4 DEF BlockQueue
  <1>6. tip' = None => \A i \in DOMAIN todo' : todo'[i].block = Genesis
    BY <1>1, <1>4 DEF BaseInv, ShapeInv
  <1>7. ShapeInv'
    BY <1>1, <1>5, <1>6 DEF BaseInv, ShapeInv, Branch
  <1>8. Head(todo).call \notin RebuildCalls
    BY <1>2, <1>3 DEF BlockQueue
  <1>9. /\ Current \in Block \cup {None}
        /\ Head(todo).call # "panic" => Current \in Block
    BY <1>2, <1>8, CallFacts DEF Current, BlockCalls, RebuildCalls
  <1>10. tip = None => Current = Genesis
    BY <1>2 DEF BaseInv, ShapeInv, Current
  <1> QED BY <1>1, <1>2, <1>3, <1>7, <1>9, <1>10

\* The queue is not touched, nor is the store.
LEMMA SameQueue ==
    ASSUME ShapeInv, UNCHANGED <<store, todo>>,
           UNCHANGED <<index, utxo>> \/ todo = << >>
    PROVE  ShapeInv'
  <1>1. UNCHANGED <<tip, main, todo>>
    BY DEF store
  <1>2. CASE UNCHANGED <<index, utxo>>
    <2>1. UNCHANGED <<txBlocks, spentBy>>
      BY <1>2 DEF index
    <2>2. ASSUME NEW k \in Nat, RebuildInv(k) PROVE RebuildInv(k)'
      <3>1. UNCHANGED FindunspentTransactions
        BY <1>1 DEF FindunspentTransactions
      <3>2. RecordsFound => RecordsFound'
        BY <1>1, <1>2, <3>1 DEF RecordsFound
      <3>3. IndexIs(TopBlocks(k - 1)) => IndexIs(TopBlocks(k - 1))'
        BY <1>1, <2>1 DEF IndexIs, TopBlocks
      <3> QED BY <1>1, <2>2, <3>2, <3>3 DEF RebuildInv
    <2> QED BY <1>1, <2>2 DEF ShapeInv, Branch, BlockQueue
  <1>3. CASE todo = << >>
    BY <1>1, <1>3 DEF ShapeInv, Branch, BlockQueue
  <1> QED BY <1>2, <1>3

\* The queue is lost, and the store keeps its blocks.
LEMMA MemoryLost ==
    ASSUME BaseInv, LoseMemory, crashes' \in 0 .. MaxCrashes
    PROVE  BaseInv'
  <1>1. TypeOK'
    BY DEF BaseInv, TypeOK, LoseMemory, store, caches, index
  <1>2. ShapeInv'
    BY DEF BaseInv, ShapeInv, LoseMemory, store, Branch, BlockQueue
  <1> QED BY <1>1, <1>2 DEF BaseInv

\* The first blocks from the top down.
LEMMA TopBlocksFacts ==
    ASSUME tip \in Block
    PROVE  /\ TopBlocks(0) = {} /\ TopBlocks(Height[tip] + 1) = Line[tip]
           /\ TopBlocks(Height[tip] + 2) = Line[tip]
           /\ \A k \in 1 .. Height[tip] + 1 :
                 TopBlocks(k) = TopBlocks(k - 1) \cup {Down(tip)[k]}
  <1>1. /\ Height[tip] \in Nat /\ DOMAIN Down(tip) = 1 .. Height[tip] + 1
        /\ \A i \in 1 .. Height[tip] + 1 : Down(tip)[i] \in Line[tip]
        /\ \A c \in Line[tip] : \E i \in 1 .. Height[tip] + 1 : Down(tip)[i] = c
    <2>1. Height[tip] \in Nat /\ DOMAIN Down(tip) = 1 .. Height[tip] + 1
      BY DownFacts, LineTop
    <2>2. \A i \in 1 .. Height[tip] + 1 : Down(tip)[i] \in Line[tip]
      BY DownFacts
    <2>3. ASSUME NEW c \in Line[tip]
          PROVE  \E i \in 1 .. Height[tip] + 1 : Down(tip)[i] = c
      BY DownFacts
    <2> QED BY <2>1, <2>2, <2>3
  <1>2. TopBlocks(0) = {}
    BY <1>1 DEF TopBlocks
  <1>3. ASSUME NEW n \in {Height[tip] + 1, Height[tip] + 2}
        PROVE  TopBlocks(n) = Line[tip]
    <2>1. {i \in DOMAIN Down(tip) : i <= n} = 1 .. Height[tip] + 1
      BY <1>1
    <2> QED BY <1>1, <2>1 DEF TopBlocks
  <1>4. ASSUME NEW k \in 1 .. Height[tip] + 1
        PROVE  TopBlocks(k) = TopBlocks(k - 1) \cup {Down(tip)[k]}
    <2>1. {i \in DOMAIN Down(tip) : i <= k} =
              {i \in DOMAIN Down(tip) : i <= k - 1} \cup {k}
      BY <1>1
    <2> QED BY <2>1 DEF TopBlocks
  <1> QED BY <1>2, <1>3, <1>4

\* The index gets one more block.
LEMMA IndexedOneMore ==
    ASSUME TypeOK, NEW D, IndexIs(D), NEW c \in Block, IndexBlock(c)
    PROVE  IndexIs(D \cup {c})'
  <1>1. ASSUME NEW x \in Ids
        PROVE  ToSet(txBlocks'[x]) = {b \in D \cup {c} : x \in IdsOf(b)}
    <2>1. /\ txBlocks[x] \in Seq(Block)
          /\ ToSet(txBlocks[x]) = {b \in D : x \in IdsOf(b)}
      BY DEF TypeOK, IndexIs
    <2>2. CASE x \in IdsOf(c)
      <3>1. txBlocks'[x] = Append(txBlocks[x], c)
        BY <2>2 DEF IndexBlock
      <3>2. ToSet(Append(txBlocks[x], c)) = ToSet(txBlocks[x]) \cup {c}
        <4>1. /\ Len(txBlocks[x]) \in Nat
              /\ DOMAIN txBlocks[x] = 1 .. Len(txBlocks[x])
          BY <2>1
        <4>2. /\ DOMAIN Append(txBlocks[x], c) = 1 .. Len(txBlocks[x]) + 1
              /\ \A i \in 1 .. Len(txBlocks[x]) :
                    Append(txBlocks[x], c)[i] = txBlocks[x][i]
              /\ Append(txBlocks[x], c)[Len(txBlocks[x]) + 1] = c
          BY <2>1
        <4>3. 1 .. Len(txBlocks[x]) + 1 =
                  (1 .. Len(txBlocks[x])) \cup {Len(txBlocks[x]) + 1}
          BY <4>1
        <4> QED BY <4>1, <4>2, <4>3 DEF ToSet
      <3> QED BY <2>1, <2>2, <3>1, <3>2
    <2>3. CASE x \notin IdsOf(c)
      BY <2>1, <2>3 DEF IndexBlock
    <2> QED BY <2>2, <2>3
  <1>2. spentBy' = UNION {Spendings(b) : b \in D \cup {c}}
    BY DEF IndexBlock, IndexIs
  <1> QED BY <1>1, <1>2 DEF IndexIs

\* The index with one more block, in a rebuilding too, and with one block less.
LEMMA IndexBlockAddedBase == BaseInv /\ IndexBlockAdded => BaseInv'
  <1> SUFFICES ASSUME BaseInv, IndexBlockAdded PROVE BaseInv'
    OBVIOUS
  <1>1. /\ todo # << >> /\ Head(todo).call = "index" /\ Done /\ IndexBlock(Current)
        /\ UNCHANGED <<utxo, pool>>
    BY DEF IndexBlockAdded, Running
  <1>2. ShapeInv' /\ todo' \in Seq(Call) /\ Current \in Block
    <2>1. CASE BlockQueue(todo)
      BY <1>1, <2>1, BlockCallDone
    <2>2. ASSUME NEW k \in Nat, RebuildInv(k)
          PROVE  ShapeInv' /\ todo' \in Seq(Call) /\ Current \in Block
      <3>1. /\ tip \in Block /\ k \in 1 .. Height[tip] + 1
            /\ Head(todo) = Calling("index", Down(tip)[k])
        BY <1>1, <2>2, RebuildCall DEF BaseInv, Calling
      <3>2. PICK c : c = Current
        OBVIOUS
      <3>3. c = Down(tip)[k] /\ c \in Block
        <4>1. c = Down(tip)[k]
          BY <3>1, <3>2 DEF Current, Calling
        <4>2. Down(tip)[k] \in Line[tip]
          BY <3>1, DownFacts
        <4> QED BY <3>1, <4>1, <4>2, LineTop
      <3>4. PICK D : D = TopBlocks(k - 1)
        OBVIOUS
      <3>5. IndexIs(D)
        BY <2>2, <3>1, <3>4 DEF RebuildInv
      <3>6. IndexIs(D \cup {c})'
        BY <1>1, <3>2, <3>3, <3>5, IndexedOneMore DEF BaseInv
      <3>7. TopBlocks(k) = D \cup {c}
        BY <3>1, <3>3, <3>4, TopBlocksFacts
      <3>8. TopBlocks(k)' = TopBlocks(k)
        BY <1>1 DEF TopBlocks, Done, store
      <3>9. IndexIs(TopBlocks(k))'
        BY <3>6, <3>7, <3>8 DEF IndexIs
      <3>10. k < Height[tip] + 3 /\ k # Height[tip] + 2
        BY <3>1, LineTop
      <3> QED BY <1>1, <2>2, <3>2, <3>3, <3>9, <3>10, RebuildDone
    <2> QED BY <2>1, <2>2 DEF BaseInv, ShapeInv
  <1>3. txBlocks' \in [Ids -> Seq(Block)]
    BY <1>1, <1>2 DEF BaseInv, TypeOK, IndexBlock
  <1>4. spentBy' \subseteq [out : Output, block : Block]
    BY <1>1, <1>2, BlockContents DEF BaseInv, TypeOK, IndexBlock, Spendings
  <1>5. TypeOK'
    BY <1>1, <1>2, <1>3, <1>4 DEF BaseInv, TypeOK, Done, store, bounds
  <1> QED BY <1>2, <1>5 DEF BaseInv

LEMMA IndexBlockRemovedBase == BaseInv /\ IndexBlockRemoved => BaseInv'
  <1> SUFFICES ASSUME BaseInv, IndexBlockRemoved PROVE BaseInv'
    OBVIOUS
  <1>1. /\ todo # << >> /\ Head(todo).call = "unindex" /\ Done
        /\ UNCHANGED <<utxo, pool>>
    BY DEF IndexBlockRemoved, Running
  <1>2. ShapeInv' /\ todo' \in Seq(Call) /\ Current \in Block
    BY <1>1, BlockCallDone DEF RebuildCalls
  <1>3. txBlocks' \in [Ids -> Seq(Block)]
    <2>1. \A x \in Ids : Keeping(txBlocks[x], Block \ {Current}) \in Seq(Block)
      BY KeepingFacts DEF BaseInv, TypeOK
    <2> QED BY <2>1 DEF BaseInv, TypeOK, IndexBlockRemoved
  <1>4. spentBy' \subseteq [out : Output, block : Block]
    BY DEF BaseInv, TypeOK, IndexBlockRemoved
  <1>5. TypeOK'
    BY <1>1, <1>2, <1>3, <1>4 DEF BaseInv, TypeOK, Done, store, bounds
  <1> QED BY <1>2, <1>5 DEF BaseInv

\* The index is emptied.
LEMMA IndexTruncateDBBase == BaseInv /\ IndexTruncateDB => BaseInv'
  <1> SUFFICES ASSUME BaseInv, IndexTruncateDB PROVE BaseInv'
    OBVIOUS
  <1>1. /\ todo # << >> /\ Head(todo).call = "reindex" /\ Done
        /\ txBlocks' = [x \in Ids |-> << >>] /\ spentBy' = {}
        /\ UNCHANGED <<utxo, pool>>
    BY DEF IndexTruncateDB, Running
  <1>2. PICK k \in Nat : RebuildInv(k)
    <2>1. 1 \in DOMAIN todo /\ Head(todo) = todo[1]
      BY <1>1, QueueFacts DEF BaseInv, TypeOK
    <2> QED BY <1>1, <2>1 DEF BaseInv, ShapeInv, BlockQueue, RebuildCalls
  <1>3. k = 0 /\ tip \in Block /\ Height[tip] \in Nat
    BY <1>1, <1>2, RebuildCall DEF BaseInv, Calling
  <1>4. TopBlocks(k)' = {}
    <2>1. TopBlocks(0)' = TopBlocks(0)
      BY <1>1 DEF TopBlocks, Done, store
    <2> QED BY <1>3, <2>1, TopBlocksFacts
  <1>5. IndexIs(TopBlocks(k))'
    <2>1. \A x \in Ids : ToSet(txBlocks'[x]) = {}
      BY <1>1 DEF ToSet
    <2> QED BY <1>1, <1>4, <2>1 DEF IndexIs
  <1>6. ShapeInv' /\ todo' \in Seq(Call)
    BY <1>1, <1>2, <1>3, <1>5, RebuildDone
  <1>7. TypeOK'
    BY <1>1, <1>6 DEF BaseInv, TypeOK, Done, store, bounds
  <1> QED BY <1>6, <1>7 DEF BaseInv

\* The pool loses a block's transactions, or gets them back.
LEMMA PoolCallBase ==
    BaseInv /\ (DeleteFromBlock \/ AddFromCanceled) => BaseInv'
  <1> SUFFICES ASSUME BaseInv, DeleteFromBlock \/ AddFromCanceled PROVE BaseInv'
    OBVIOUS
  <1>1. /\ todo # << >> /\ Head(todo).call \in {"unpool", "repool"} /\ Done
        /\ UNCHANGED <<index, utxo>>
    BY DEF DeleteFromBlock, AddFromCanceled, Running
  <1>2. ShapeInv' /\ todo' \in Seq(Call) /\ Current \in Block
    BY <1>1, BlockCallDone DEF RebuildCalls
  <1>3. pool' \subseteq Tx
    BY <1>2, BlockContents
       DEF DeleteFromBlock, AddFromCanceled, BaseInv, TypeOK
  <1>4. TypeOK'
    BY <1>1, <1>2, <1>3 DEF BaseInv, TypeOK, Done, store, bounds, index
  <1> QED BY <1>2, <1>4 DEF BaseInv

\* A block's outputs come in and those it uses go.
LEMMA UpdateOnBlockAddBase == BaseInv /\ UpdateOnBlockAdd => BaseInv'
  <1> SUFFICES ASSUME BaseInv, UpdateOnBlockAdd PROVE BaseInv'
    OBVIOUS
  <1>1. /\ todo # << >> /\ Head(todo).call = "spend" /\ Done
        /\ Spend(Current) /\ UNCHANGED <<index, pool>>
    BY DEF UpdateOnBlockAdd, Running
  <1>2. ShapeInv' /\ todo' \in Seq(Call) /\ Current \in Block
    BY <1>1, BlockCallDone DEF RebuildCalls
  <1>3. DOMAIN utxo' \subseteq Output /\ utxo' \in [DOMAIN utxo' -> Block]
    <2>1. Created(Current) \subseteq Output
      BY <1>2, BlockContents
    <2>2. DOMAIN utxo' = (DOMAIN utxo \cup Created(Current)) \ Used(Current)
      BY <1>1 DEF Spend
    <2>3. \A o \in DOMAIN utxo' : utxo'[o] \in Block
      BY <1>1, <1>2 DEF Spend, BaseInv, TypeOK
    <2>4. utxo' = [o \in DOMAIN utxo' |-> utxo'[o]]
      BY <1>1 DEF Spend
    <2> QED BY <2>1, <2>2, <2>3, <2>4 DEF BaseInv, TypeOK
  <1>4. TypeOK'
    BY <1>1, <1>2, <1>3 DEF BaseInv, TypeOK, Done, store, bounds, index
  <1> QED BY <1>2, <1>4 DEF BaseInv

\* The unspent outputs are emptied.
LEMMA UtxoTruncateDBBase == BaseInv /\ UtxoTruncateDB => BaseInv'
  <1> SUFFICES ASSUME BaseInv, UtxoTruncateDB PROVE BaseInv'
    OBVIOUS
  <1>1. /\ todo # << >> /\ Head(todo).call = "empty" /\ Done
        /\ utxo' = << >> /\ UNCHANGED <<txBlocks, spentBy, pool>>
    BY DEF UtxoTruncateDB, Running, index
  <1>2. PICK k \in Nat : RebuildInv(k)
    <2>1. 1 \in DOMAIN todo /\ Head(todo) = todo[1]
      BY <1>1, QueueFacts DEF BaseInv, TypeOK
    <2> QED BY <1>1, <2>1 DEF BaseInv, ShapeInv, BlockQueue, RebuildCalls
  <1>3. k = Height[tip] + 2 /\ tip \in Block /\ Height[tip] \in Nat
    BY <1>1, <1>2, RebuildCall DEF BaseInv, Calling
  <1>4. IndexIs(TopBlocks(k))'
    <2>1. IndexIs(TopBlocks(k - 1))
      BY <1>2, <1>3 DEF RebuildInv
    <2>2. TopBlocks(k - 1) = TopBlocks(k)
      <3>1. k - 1 = Height[tip] + 1
        BY <1>3
      <3> QED BY <1>3, <3>1, TopBlocksFacts
    <2>3. TopBlocks(k)' = TopBlocks(k)
      BY <1>1 DEF TopBlocks, Done, store
    <2> QED BY <1>1, <2>1, <2>2, <2>3 DEF IndexIs
  <1>5. DOMAIN utxo' = {} /\ RecordsFound'
    BY <1>1 DEF RecordsFound
  <1>6. ShapeInv' /\ todo' \in Seq(Call)
    BY <1>1, <1>2, <1>3, <1>4, <1>5, RebuildDone
  <1>7. utxo' \in [DOMAIN utxo' -> Block]
    BY <1>1, <1>5
  <1>8. TypeOK'
    BY <1>1, <1>5, <1>6, <1>7 DEF BaseInv, TypeOK, Done, store, bounds
  <1> QED BY <1>6, <1>8 DEF BaseInv

\* While the records are written the index is that of the main chain and every
\* record was found on it.
LEMMA WritingRecords ==
    ASSUME BaseInv, Running("respend")
    PROVE  /\ tip \in Block /\ main = Line[tip]
           /\ \E k \in Nat : RebuildInv(k) /\ k = Height[tip] + 3
           /\ todo \in Seq(Call) /\ Len(todo) = 1
           /\ IndexIs(Line[tip]) /\ RecordsFound
  <1>1. /\ todo # << >> /\ Head(todo).call = "respend"
        /\ todo \in Seq(Call)
    BY DEF Running, BaseInv, TypeOK
  <1>2. PICK k \in Nat : RebuildInv(k)
    <2>1. 1 \in DOMAIN todo /\ Head(todo) = todo[1]
      BY <1>1, QueueFacts
    <2> QED BY <1>1, <2>1 DEF BaseInv, ShapeInv, BlockQueue, RebuildCalls
  <1>3. k = Height[tip] + 3 /\ tip \in Block /\ Height[tip] \in Nat
    BY <1>1, <1>2, RebuildCall DEF BaseInv, Calling
  <1>4. k - 1 = Height[tip] + 2 /\ Height[tip] + 4 - k = 1
    BY <1>3
  <1>5. IndexIs(Line[tip]) /\ RecordsFound /\ Len(todo) = 1
    <2>1. /\ k > 0 /\ IndexIs(TopBlocks(k - 1)) /\ RecordsFound
          /\ Len(todo) = Height[tip] + 4 - k
      BY <1>2, <1>3 DEF RebuildInv
    <2>2. TopBlocks(k - 1) = Line[tip]
      BY <1>3, <1>4, TopBlocksFacts
    <2> QED BY <1>4, <2>1, <2>2
  <1>6. main = Line[tip]
    BY <1>3, BlockAssumption DEF BaseInv, ShapeInv, Branch
  <1> QED BY <1>1, <1>2, <1>3, <1>5, <1>6

\* One more record is written.
LEMMA StoreRecordBase ==
    ASSUME BaseInv, NEW x \in Ids, StoreRecord(x) PROVE BaseInv'
  <1> DEFINE found == FindunspentTransactions
             block(o) == CHOOSE b \in main : <<o, b>> \in found
  <1>1. /\ Running("respend")
        /\ utxo' = [o \in DOMAIN utxo \cup FoundOf(x) |->
                        IF o \in FoundOf(x) THEN block(o) ELSE utxo[o]]
        /\ UNCHANGED <<known, tip, main, txBlocks, spentBy, pool, prepared, todo,
                       crashes, drops, reindexes>>
    BY DEF StoreRecord, store, index, bounds
  <1>2. /\ tip \in Block /\ main = Line[tip] /\ IndexIs(Line[tip]) /\ RecordsFound
    BY <1>1, WritingRecords
  <1>3. ASSUME NEW o \in FoundOf(x)
        PROVE  /\ block(o) \in main /\ <<o, block(o)>> \in found
               /\ block(o) \in Block /\ o \in Output
    <2>1. PICK f \in found : f[1] = o
      BY DEF FoundOf
    <2>2. <<o, f[2]>> \in found /\ f[2] \in main
      <3>1. f = <<f[1], f[2]>>
        BY <1>2, FoundFacts
      <3> QED BY <1>2, <2>1, <3>1, FoundFacts
    <2>3. block(o) \in main /\ <<o, block(o)>> \in found
      <3> HIDE DEF found
      <3> QED BY <2>2
    <2>4. block(o) \in Block /\ o \in Created(block(o))
      <3> HIDE DEF block
      <3> QED BY <1>2, <2>3, FoundFacts, LineTop
    <2> QED BY <2>3, <2>4, BlockContents
  <1>4. /\ DOMAIN utxo' = DOMAIN utxo \cup FoundOf(x)
        /\ utxo' = [o \in DOMAIN utxo' |-> utxo'[o]]
        /\ \A o \in DOMAIN utxo' :
              utxo'[o] = IF o \in FoundOf(x) THEN block(o) ELSE utxo[o]
    <2> HIDE DEF block
    <2> QED BY <1>1
  <1>5. UNCHANGED FindunspentTransactions
    BY <1>1 DEF FindunspentTransactions
  <1> HIDE DEF block
  <1>6. RecordsFound'
    <2> SUFFICES ASSUME NEW o \in DOMAIN utxo'
                 PROVE  utxo'[o] \in main /\ <<o, utxo'[o]>> \in found
      BY <1>1, <1>5 DEF RecordsFound
    <2>1. CASE o \in FoundOf(x)
      BY <1>3, <1>4, <2>1
    <2>2. CASE o \notin FoundOf(x)
      BY <1>2, <1>4, <2>2 DEF RecordsFound
    <2> QED BY <2>1, <2>2
  <1>7. ShapeInv'
    <2>1. PICK k \in Nat : RebuildInv(k)
      BY <1>1, WritingRecords
    <2>2. RebuildInv(k)'
      BY <1>1, <1>6, <2>1 DEF RebuildInv, IndexIs, TopBlocks
    <2>3. main' = Branch(tip') /\ tip' # None
      BY <1>1, <2>1 DEF BaseInv, ShapeInv, Branch, RebuildInv
    <2> QED BY <2>2, <2>3 DEF ShapeInv
  <1>8. DOMAIN utxo' \subseteq Output /\ utxo' \in [DOMAIN utxo' -> Block]
    BY <1>3, <1>4 DEF BaseInv, TypeOK
  <1>9. TypeOK'
    BY <1>1, <1>8 DEF BaseInv, TypeOK
  <1> QED BY <1>7, <1>9 DEF BaseInv

\* The last record is written: the records are those of all the outputs found.
LEMMA RecordsStoredFacts ==
    ASSUME BaseInv, RecordsStored
    PROVE  /\ tip \in Block /\ main = Line[tip] /\ IndexIs(Line[tip])
           /\ RecordsFound /\ todo' = << >>
           /\ DOMAIN utxo = {f[1] : f \in FindunspentTransactions}
  <1> DEFINE found == FindunspentTransactions
  <1>1. /\ Running("respend") /\ \A x \in Ids : FoundOf(x) \subseteq DOMAIN utxo
        /\ todo' = Tail(todo)
    BY DEF RecordsStored, Done
  <1>2. /\ tip \in Block /\ main = Line[tip] /\ IndexIs(Line[tip]) /\ RecordsFound
        /\ todo \in Seq(Call) /\ Len(todo) = 1
    BY <1>1, WritingRecords
  <1>3. todo' = << >>
    BY <1>1, <1>2
  <1>4. ASSUME NEW f \in found PROVE f[1] \in DOMAIN utxo
    <2>1. f[2] \in Block /\ f[1] \in Created(f[2])
      <3>1. f = <<f[1], f[2]>>
        BY <1>2, FoundFacts
      <3> QED BY <1>2, <3>1, FoundFacts, LineTop
    <2>2. f[1][1] \in Ids
      BY <2>1, BlockContents
    <2>3. f[1] \in FoundOf(f[1][1])
      BY DEF FoundOf
    <2> QED BY <1>1, <2>2, <2>3
  <1>5. ASSUME NEW o \in DOMAIN utxo PROVE \E f \in found : f[1] = o
    <2>1. <<o, utxo[o]>> \in found /\ <<o, utxo[o]>>[1] = o
      BY <1>2 DEF RecordsFound
    <2> HIDE DEF found
    <2> QED BY <2>1
  <1> QED BY <1>2, <1>3, <1>4, <1>5

LEMMA RecordsStoredBase == BaseInv /\ RecordsStored => BaseInv'
  <1> SUFFICES ASSUME BaseInv, RecordsStored PROVE BaseInv'
    OBVIOUS
  <1>1. todo' = << >> /\ UNCHANGED <<store, prepared, bounds, caches>>
    BY RecordsStoredFacts DEF RecordsStored, Done
  <1>2. TypeOK'
    BY <1>1 DEF BaseInv, TypeOK, store, bounds, caches, index
  <1>3. ShapeInv'
    BY <1>1 DEF BaseInv, ShapeInv, store, Branch, BlockQueue
  <1> QED BY <1>2, <1>3 DEF BaseInv

\* What comes back when a block is cancelled: each output with the block under
\* the previous one that holds its transaction.
LEMMA RestoredFacts ==
    ASSUME BaseInv, tip \in Block, NEW prev \in Block, NEW x \in Ids,
           HeldUnder(x, prev) # None
    PROVE  /\ HeldUnder(x, prev) \in ToSet(txBlocks[x]) \cap Line[prev]
           /\ HeldUnder(x, prev) \in Block
           /\ DOMAIN Restored(x, prev) \subseteq Outputs(x)
           /\ \A o \in DOMAIN Restored(x, prev) :
                 /\ o[1] = x
                 /\ Restored(x, prev)[o] = HeldUnder(x, prev)
  <1>1. txBlocks[x] \in Seq(Block) /\ main = Line[tip]
    BY BlockAssumption DEF BaseInv, TypeOK, ShapeInv, Branch
  <1>2. HeldUnder(x, prev) \in ToSet(txBlocks[x]) \cap Line[prev]
    BY <1>1, ChosenUnderTip DEF HeldUnder
  <1>3. HeldUnder(x, prev) \in Block
    BY <1>2, LineTop
  <1>4. \A o \in Outputs(x) : o[1] = x
    BY DEF Outputs
  <1> QED BY <1>2, <1>3, <1>4 DEF Restored

\* The outputs that come back have records of the kind they had.
LEMMA UpdateOnBlockCancelBase == BaseInv /\ UpdateOnBlockCancel => BaseInv'
  <1> SUFFICES ASSUME BaseInv, UpdateOnBlockCancel PROVE BaseInv'
    OBVIOUS
  <1> DEFINE b == Current
             prev == Parent[b]
             Fails(i) == TxFails(Txs[b][i], prev)
             reached == {i \in DOMAIN Txs[b] : \A j \in 1 .. i - 1 : ~Fails(j)}
             deleted == {Txs[b][i] : i \in reached} \cup
                        (IF \E i \in reached : Fails(i) THEN {} ELSE {b})
             restored == UNION {RestoredOf(Txs[b][i], prev) : i \in reached}
             kept == {o \in DOMAIN utxo : o[1] \notin deleted \cup restored}
             back == UNION {DOMAIN Restored(x, prev) : x \in restored}
  <1>1. /\ todo # << >> /\ Head(todo).call = "unspend" /\ Done
        /\ UNCHANGED <<index, pool>>
        /\ utxo' = [o \in kept \cup back |->
                        IF o \in back THEN Restored(o[1], prev)[o] ELSE utxo[o]]
    BY DEF UpdateOnBlockCancel, Running
  <1>2. /\ ShapeInv' /\ todo' \in Seq(Call) /\ b \in Block
        /\ tip = None => b = Genesis
    BY <1>1, BlockCallDone DEF RebuildCalls
  <1>3. ASSUME NEW x \in restored
        PROVE  /\ b # Genesis /\ x \in Ids /\ HeldUnder(x, prev) # None
    <2>1. PICK i \in DOMAIN Txs[b] : x \in RestoredOf(Txs[b][i], prev)
      OBVIOUS
    <2>2. PICK k \in DOMAIN Ins[Txs[b][i]] :
              /\ x = Ins[Txs[b][i]][k][1] /\ Reached(Txs[b][i], k, prev)
      BY <2>1 DEF RestoredOf
    <2>3. HeldUnder(x, prev) # None
      <3>1. k \in 1 .. k
        <4>1. Ins[Txs[b][i]] \in Seq(UNION {Outputs(y) : y \in Ids})
          BY <1>2, TxAssumption, BlockContents
        <4> QED BY <4>1
      <3> QED BY <2>2, <3>1 DEF Reached
    <2>4. b # Genesis
      BY <2>1, BlockTxsAssumption
    <2>5. x \in Ids
      <3>1. Ins[Txs[b][i]] \in Seq(Output)
        <4>1. Txs[b][i] \in Tx
          BY <1>2, BlockContents
        <4> QED BY <4>1, TxAssumption DEF Output
      <3>2. Ins[Txs[b][i]][k] \in Output
        BY <3>1
      <3> QED BY <2>2, <3>2 DEF Outputs, Output
    <2> QED BY <2>3, <2>4, <2>5
  <1>4. ASSUME NEW o \in back
        PROVE  o \in Output /\ Restored(o[1], prev)[o] \in Block
    <2>1. PICK x \in restored : o \in DOMAIN Restored(x, prev)
      OBVIOUS
    <2>2. b # Genesis /\ x \in Ids /\ HeldUnder(x, prev) # None
      BY <1>3
    <2>3. prev \in Block /\ tip \in Block
      BY <1>2, <2>2, PreviousBlock DEF BaseInv, TypeOK
    <2>4. /\ o \in Outputs(x) /\ o[1] = x
          /\ Restored(x, prev)[o] \in Block
      BY <2>1, <2>2, <2>3, RestoredFacts
    <2> QED BY <2>2, <2>4 DEF Output
  <1>5. /\ DOMAIN utxo' = kept \cup back
        /\ utxo' = [o \in DOMAIN utxo' |-> utxo'[o]]
        /\ \A o \in DOMAIN utxo' :
              utxo'[o] = IF o \in back THEN Restored(o[1], prev)[o] ELSE utxo[o]
    <2> HIDE DEF kept, back, prev
    <2> QED BY <1>1
  <1>6. \A o \in kept : o \in DOMAIN utxo
    OBVIOUS
  <1> HIDE DEF kept, back, prev
  <1>7. DOMAIN utxo' \subseteq Output /\ utxo' \in [DOMAIN utxo' -> Block]
    BY <1>4, <1>5, <1>6 DEF BaseInv, TypeOK
  <1>8. TypeOK'
    BY <1>1, <1>2, <1>7 DEF BaseInv, TypeOK, Done, store, bounds, index
  <1> QED BY <1>2, <1>8 DEF BaseInv

\* Every step keeps the types and the shape.
LEMMA BaseNext == BaseInv /\ [Next]_vars => BaseInv'
  <1> SUFFICES ASSUME BaseInv, [Next]_vars PROVE BaseInv'
    OBVIOUS
  <1>1. ASSUME NEW b \in Block, ReceivedFullBlockFromOtherNode(b) PROVE BaseInv'
    BY <1>1, AddBlockBase
       DEF ReceivedFullBlockFromOtherNode, Idle, BaseInv, TypeOK
  <1>2. ASSUME NEW t \in Tx, ReceivedNewTransaction(t) \/ CancelTransaction(t)
        PROVE  BaseInv'
    <2>1. TypeOK'
      BY <1>2 DEF ReceivedNewTransaction, CancelTransaction, BaseInv, TypeOK,
                  store, index, bounds
    <2>2. ShapeInv'
      BY <1>2, SameQueue DEF ReceivedNewTransaction, CancelTransaction, BaseInv
    <2> QED BY <2>1, <2>2 DEF BaseInv
  <1>3. CASE PrepareNewBlock
    <2>1. /\ UNCHANGED <<store, index, utxo, todo, bounds>>
          /\ prepared' \in Own /\ pool' \subseteq pool
      BY <1>3 DEF PrepareNewBlock
    <2>2. TypeOK'
      BY <2>1 DEF BaseInv, TypeOK, store, index, bounds
    <2>3. ShapeInv'
      BY <2>1, SameQueue DEF BaseInv
    <2> QED BY <2>2, <2>3 DEF BaseInv
  <1>4. CASE PrepareFails \/ CleanUnapprovedCache
    <2>1. /\ UNCHANGED <<store, index, utxo, prepared, todo, bounds>>
          /\ pool' \subseteq pool
      BY <1>4 DEF PrepareFails, CleanUnapprovedCache
    <2>2. TypeOK'
      BY <2>1 DEF BaseInv, TypeOK, store, index, bounds
    <2>3. ShapeInv'
      BY <2>1, SameQueue DEF BaseInv
    <2> QED BY <2>2, <2>3 DEF BaseInv
  <1>5. CASE MineBlock
    <2>1. /\ Idle /\ prepared \in Block /\ prepared' = None
          /\ UNCHANGED <<caches, bounds>>
          /\ AddBlock(prepared) \/ UNCHANGED <<store, todo>>
      BY <1>5, BlockTxsAssumption DEF MineBlock, BaseInv, TypeOK
    <2>2. CASE AddBlock(prepared)
      BY <2>1, <2>2, AddBlockBase DEF Idle
    <2>3. CASE UNCHANGED <<store, todo>>
      <3>1. TypeOK'
        BY <2>1, <2>3 DEF BaseInv, TypeOK, store, caches, index, bounds
      <3>2. ShapeInv'
        BY <2>1, <2>3, SameQueue DEF BaseInv, caches
      <3> QED BY <3>1, <3>2 DEF BaseInv
    <2> QED BY <2>1, <2>2, <2>3
  <1>6. CASE DropBlock
    <2>1. /\ tip \in Block /\ known' = known \ {tip} /\ tip' = Parent[tip]
          /\ main' = main \ {tip} /\ main = Line[tip]
          /\ todo' = <<Calling("repool", tip), Calling("unspend", tip),
                       Calling("unindex", tip)>>
          /\ drops' = drops + 1 /\ drops < MaxDrops
          /\ UNCHANGED <<caches, prepared, crashes, reindexes>>
      BY <1>6 DEF DropBlock, Idle, Store!Drop, BaseInv, TypeOK, ShapeInv, Branch
    <2>2. \A c \in {"repool", "unspend", "unindex"} : Calling(c, tip) \in Call
      BY <2>1 DEF Call, Calling, BlockCalls
    <2>3. todo' \in Seq(Call) /\ BlockQueue(todo')
      BY <2>1, <2>2 DEF BlockQueue, RebuildCalls, Calling
    <2>4. CASE tip = Genesis
      <3>1. tip' = None /\ main' = {}
        BY <2>1, <2>4, ParentAssumption, LineAssumption
      <3>2. \A i \in DOMAIN todo' : todo'[i].block = Genesis
        BY <2>1, <2>4 DEF Calling
      <3> QED BY <2>1, <2>3, <3>1, <3>2, LedgerAssumption
              DEF BaseInv, TypeOK, ShapeInv, Branch, caches, index
    <2>5. CASE tip # Genesis
      <3>1. tip' \in Block /\ tip' # None /\ main' = Line[tip']
        BY <2>1, <2>5, PreviousBlock, BlockAssumption
      <3>2. main' \subseteq Block
        BY <3>1, LineTop
      <3> QED BY <2>1, <2>3, <3>1, <3>2, LedgerAssumption
              DEF BaseInv, TypeOK, ShapeInv, Branch, caches, index
    <2> QED BY <2>4, <2>5
  <1>7. CASE ReindexData
    <2>1. /\ todo' = Rebuild(Down(tip)) /\ tip \in Block /\ tip # None
          /\ UNCHANGED <<store, caches, prepared, crashes, drops>>
          /\ reindexes' = reindexes + 1 /\ reindexes < MaxReindex
      BY <1>7 DEF ReindexData, Idle, BaseInv, TypeOK
    <2>2. reindexes' \in 0 .. MaxReindex
      BY <2>1, LedgerAssumption DEF BaseInv, TypeOK
    <2>3. /\ todo' \in Seq(Call) /\ Len(todo') = Height[tip] + 4
          /\ Height[tip] \in Nat
      BY <2>1, RebuildFacts
    <2>4. TypeOK'
      BY <2>1, <2>2, <2>3 DEF BaseInv, TypeOK, store, caches, index
    <2>5. RebuildInv(0)'
      <3>1. \A i \in DOMAIN todo' : todo'[i] = Rebuild(Down(tip))[0 + i]
        <4>1. \A i \in DOMAIN todo' : 0 + i = i
          BY <2>3
        <4> QED BY <2>1, <4>1
      <3>2. tip' = tip /\ 0 # Height[tip] + 3 /\ Height[tip] + 4 - 0 = Height[tip] + 4
        BY <2>1, <2>3 DEF store
      <3> QED BY <2>1, <2>3, <3>1, <3>2 DEF RebuildInv
    <2>6. ShapeInv'
      BY <2>1, <2>5 DEF BaseInv, ShapeInv, store, Branch
    <2> QED BY <2>4, <2>6 DEF BaseInv
  <1>8. CASE Panic
    <2>1. LoseMemory /\ crashes' \in 0 .. MaxCrashes
      BY <1>8 DEF Panic, BaseInv, TypeOK
    <2> QED BY <2>1, MemoryLost
  <1>9. CASE Crash
    <2>1. LoseMemory /\ crashes' \in 0 .. MaxCrashes
      BY <1>9, LedgerAssumption DEF Crash, BaseInv, TypeOK
    <2> QED BY <2>1, MemoryLost
  <1>10. CASE UNCHANGED vars
    <2>1. TypeOK'
      BY <1>10 DEF vars, BaseInv, TypeOK, store, caches, index, bounds
    <2>2. ShapeInv'
      BY <1>10, SameQueue DEF vars, BaseInv, caches
    <2> QED BY <2>1, <2>2 DEF BaseInv
  <1> QED
    BY <1>1, <1>2, <1>3, <1>4, <1>5, <1>6, <1>7, <1>8, <1>9, <1>10,
       IndexBlockAddedBase, IndexBlockRemovedBase, IndexTruncateDBBase,
       PoolCallBase, UpdateOnBlockAddBase, UpdateOnBlockCancelBase,
       UtxoTruncateDBBase, StoreRecordBase, RecordsStoredBase
       DEF Next, Work

\* The state of the store, of the caches and of the queue has its type in
\* every state, whatever is added, dropped, rebuilt or interrupted.
THEOREM LedgerTypes == Spec => []TypeOK
  <1>1. BaseInv => TypeOK
    BY DEF BaseInv
  <1> QED BY <1>1, BaseInit, BaseNext, PTL DEF Spec

(***************************************************************************)
(* The pool and the rebuilt caches                                         *)
(***************************************************************************)

\* What comes back from a cancelled block conflicts with nothing in the pool,
\* and two transactions of one block do not conflict.
LEMMA PoolNext ==
    ASSUME BaseInv, PoolConflictFree, [Next]_vars PROVE PoolConflictFree'
  <1>1. ASSUME pool' \subseteq pool PROVE PoolConflictFree'
    BY <1>1 DEF PoolConflictFree, Conflict
  <1>2. ASSUME UNCHANGED pool PROVE PoolConflictFree'
    BY <1>1, <1>2
  <1>3. ASSUME NEW t \in Tx, ReceivedNewTransaction(t) PROVE PoolConflictFree'
    <2>1. pool' = pool \cup {t} /\ \A u \in pool : ~Conflict(t, u)
      BY <1>3 DEF ReceivedNewTransaction, CanPool
    <2>2. \A u \in pool : ~Conflict(u, t)
      BY <2>1 DEF Conflict
    <2> QED BY <2>1, <2>2 DEF PoolConflictFree
  <1>4. CASE AddFromCanceled
    <2>1. Current \in Block
      BY <1>4, BlockCallDone DEF AddFromCanceled, Running, RebuildCalls
    <2>2. \A t, u \in TxsOf(Current) : t # u => ~Conflict(t, u)
      BY <2>1, BlockTxsAssumption DEF TxsOf, Conflict
    <2>3. pool' = pool \cup {t \in TxsOf(Current) : \A u \in pool : ~Conflict(t, u)}
      BY <1>4 DEF AddFromCanceled, CanPool
    <2>4. \A t, u : Conflict(t, u) <=> Conflict(u, t)
      BY DEF Conflict
    <2> QED BY <2>2, <2>3, <2>4 DEF PoolConflictFree
  <1>5. ASSUME NEW b \in Block, ReceivedFullBlockFromOtherNode(b)
        PROVE  PoolConflictFree'
    BY <1>2, <1>5 DEF ReceivedFullBlockFromOtherNode, caches
  <1>6. ASSUME NEW t \in Tx, CancelTransaction(t) PROVE PoolConflictFree'
    BY <1>1, <1>6 DEF CancelTransaction
  <1>7. CASE PrepareNewBlock \/ PrepareFails \/ CleanUnapprovedCache \/
             DeleteFromBlock
    BY <1>1, <1>7
       DEF PrepareNewBlock, PrepareFails, CleanUnapprovedCache, DeleteFromBlock
  <1>8. CASE MineBlock \/ DropBlock \/ ReindexData \/ Crash \/ Panic
    BY <1>2, <1>8
       DEF MineBlock, DropBlock, ReindexData, Crash, Panic, LoseMemory, caches
  <1>9. CASE \/ IndexBlockAdded \/ IndexBlockRemoved \/ IndexTruncateDB
             \/ UpdateOnBlockAdd \/ UpdateOnBlockCancel \/ UtxoTruncateDB
             \/ RecordsStored \/ \E x \in Ids : StoreRecord(x)
    BY <1>2, <1>9
       DEF IndexBlockAdded, IndexBlockRemoved, IndexTruncateDB,
           UpdateOnBlockAdd, UpdateOnBlockCancel, UtxoTruncateDB,
           RecordsStored, StoreRecord, caches
  <1>10. CASE UNCHANGED vars
    BY <1>2, <1>10 DEF vars, caches
  <1> QED
    BY <1>3, <1>4, <1>5, <1>6, <1>7, <1>8, <1>9, <1>10 DEF Next, Work

\* No two transactions of the pool use one output, whatever branches are
\* cancelled, dropped or interrupted on the way (AddFromCanceled, Add).
THEOREM PoolHasNoConflict == Spec => []PoolConflictFree
  <1>1. Init => PoolConflictFree
    BY DEF Init, PoolConflictFree
  <1> QED BY <1>1, BaseInit, BaseNext, PoolNext, PTL DEF Spec

\* Once ReindexData has ended, the walk over the chain and the records written
\* one by one have made the caches those of the main chain, in every state that
\* crashes, dropped blocks and other branches can lead to.
THEOREM ReindexAlwaysRepairs == Spec => ReindexRepairs
  <1> DEFINE Repaired ==
                /\ (\A b \in main : CreatedFirst(b)) => DOMAIN utxo' = Unspent[tip]
                /\ \A o \in DOMAIN utxo' :
                      o \in Created(utxo'[o]) /\ utxo'[o] \in main
                /\ \A x \in Ids :
                      ToSet(txBlocks'[x]) = {b \in main : x \in IdsOf(b)}
                /\ spentBy' = UNION {Spendings(b) : b \in main}
             Ends == Running("respend") /\ todo' = << >> /\ crashes' = crashes
  <1>1. ASSUME BaseInv, RecordsStored PROVE Repaired
    <2>1. /\ tip \in Block /\ main = Line[tip] /\ IndexIs(Line[tip])
          /\ RecordsFound
          /\ DOMAIN utxo = {f[1] : f \in FindunspentTransactions}
      BY <1>1, RecordsStoredFacts
    <2>2. UNCHANGED <<txBlocks, spentBy, utxo>>
      BY <1>1 DEF RecordsStored, caches, index
    <2>3. \A o \in DOMAIN utxo : o \in Created(utxo[o]) /\ utxo[o] \in main
      BY <2>1, FoundFacts DEF RecordsFound
    <2>4. (\A b \in main : CreatedFirst(b)) => DOMAIN utxo = Unspent[tip]
      BY <2>1, FoundFacts
    <2> QED BY <2>1, <2>2, <2>3, <2>4 DEF IndexIs
  <1>2. ASSUME Ends, Next, BaseInv PROVE RecordsStored
    <2>1. todo # << >> /\ Head(todo).call = "respend"
      BY <1>2 DEF Running
    <2>2. ~Crash
      BY <1>2 DEF Crash, BaseInv, TypeOK
    <2>3. ~\E x \in Ids : StoreRecord(x)
      BY <1>2, <2>1 DEF StoreRecord
    <2> QED
      BY <1>2, <2>1, <2>2, <2>3
         DEF Next, Work, Running, Idle, ReceivedFullBlockFromOtherNode,
             ReceivedNewTransaction, CancelTransaction, PrepareNewBlock,
             PrepareFails, MineBlock, DropBlock, ReindexData,
             CleanUnapprovedCache, IndexBlockAdded, IndexBlockRemoved,
             IndexTruncateDB, DeleteFromBlock, AddFromCanceled,
             UpdateOnBlockAdd, UpdateOnBlockCancel, UtxoTruncateDB, Panic
  <1>3. BaseInv /\ [Next]_vars => [Ends => Repaired]_vars
    <2> HIDE DEF Repaired, Ends
    <2> QED BY <1>1, <1>2
  <1> QED BY <1>3, BaseInit, BaseNext, PTL DEF Spec, ReindexRepairs

(***************************************************************************)
(* The miner's block                                                       *)
(***************************************************************************)

\* The pool is finite, the stored blocks keep their lines and the top is one of
\* them; until the operator drops a block it is the highest.
StoredInv ==
    /\ IsFiniteSet(pool)
    /\ \A b \in known : Line[b] \subseteq known
    /\ tip \in known \cup {None}
    /\ drops = 0 => \A b \in known : Height[b] <= Height[tip]

LEMMA StoredInit == Init => StoredInv
  <1> SUFFICES ASSUME Init PROVE StoredInv
    OBVIOUS
  <1>1. IsFiniteSet({})
    BY FS_EmptySet
  <1> QED BY <1>1, LineAssumption, BlockAssumption, ParentAssumption
          DEF Init, Store!Init, StoredInv

\* The transactions of a block are finitely many.
LEMMA FewInBlock ==
    ASSUME NEW b \in Block PROVE IsFiniteSet(TxsOf(b))
  <1>1. Txs[b] \in Seq(Tx) /\ Len(Txs[b]) \in Nat
    BY BlockTxsAssumption
  <1>2. IsFiniteSet(1 .. Len(Txs[b]))
    BY <1>1, FS_Interval
  <1> DEFINE f == [i \in 1 .. Len(Txs[b]) |-> Txs[b][i]]
  <1>3. f \in Surjection(1 .. Len(Txs[b]), TxsOf(b))
    BY <1>1 DEF Surjection, TxsOf
  <1> QED BY <1>2, <1>3, FS_Surjection

\* A block taken by the store, above those it holds or not.
LEMMA AddBlockStored ==
    ASSUME BaseInv, StoredInv, NEW b \in Block, AddBlock(b), tip # None,
           UNCHANGED <<caches, bounds>>
    PROVE  StoredInv'
  <1>1. /\ tip \in Block /\ tip \in known /\ known \subseteq Block
        /\ known' = known \cup {b} /\ Parent[b] \in known
        /\ tip' = IF Height[b] > Height[tip] THEN b ELSE tip
        /\ pool' = pool /\ drops' = drops
    BY DEF BaseInv, TypeOK, StoredInv, AddBlock, CanAdd, Store!Add, caches,
           bounds
  <1>2. b # Genesis
    BY <1>1, ParentAssumption, BlockAssumption
  <1>3. Line[b] = Line[Parent[b]] \cup {b}
    BY <1>2, PreviousBlock
  <1>4. \A c \in known' : Line[c] \subseteq known'
    BY <1>1, <1>3 DEF StoredInv
  <1>5. ASSUME drops = 0, NEW c \in known' PROVE Height[c] <= Height[tip']
    <2>1. c # b => Height[c] <= Height[tip]
      BY <1>1, <1>5 DEF StoredInv
    <2>2. Height[b] \in Nat /\ Height[tip] \in Nat /\ Height[c] \in Nat
      BY <1>1, <1>5, LineTop
    <2> QED BY <1>1, <2>1, <2>2
  <1> QED BY <1>1, <1>4, <1>5 DEF StoredInv

LEMMA StoredNext ==
    ASSUME BaseInv, StoredInv, [Next]_vars PROVE StoredInv'
  <1>1. ASSUME UNCHANGED <<store, bounds>>, IsFiniteSet(pool') PROVE StoredInv'
    BY <1>1 DEF StoredInv, store, bounds
  <1>2. ASSUME UNCHANGED <<store, drops>>, pool' \subseteq pool PROVE StoredInv'
    <2>1. IsFiniteSet(pool')
      BY <1>2, FS_Subset DEF StoredInv
    <2> QED BY <1>2, <2>1 DEF StoredInv, store
  <1>3. ASSUME NEW b \in Block, ReceivedFullBlockFromOtherNode(b)
        PROVE  StoredInv'
    BY <1>3, AddBlockStored DEF ReceivedFullBlockFromOtherNode, Idle
  <1>4. CASE MineBlock
    <2>1. prepared \in Block /\ tip # None /\ UNCHANGED <<caches, bounds>>
      BY <1>4, BlockTxsAssumption DEF MineBlock, Idle, BaseInv, TypeOK
    <2>2. AddBlock(prepared) \/ UNCHANGED store
      BY <1>4 DEF MineBlock
    <2> QED BY <1>2, <2>1, <2>2, AddBlockStored DEF caches, bounds
  <1>5. ASSUME NEW t \in Tx, ReceivedNewTransaction(t) \/ CancelTransaction(t)
        PROVE  StoredInv'
    <2>1. pool' = pool \cup {t} \/ pool' = pool \ {t}
      BY <1>5 DEF ReceivedNewTransaction, CancelTransaction
    <2>2. IsFiniteSet(pool')
      BY <2>1, FS_AddElement, FS_RemoveElement DEF StoredInv
    <2> QED BY <1>1, <1>5, <2>2 DEF ReceivedNewTransaction, CancelTransaction
  <1>6. CASE AddFromCanceled
    <2>1. Current \in Block
      BY <1>6, BlockCallDone DEF AddFromCanceled, Running, RebuildCalls
    <2>2. IsFiniteSet({t \in TxsOf(Current) : CanPool(t)})
      BY <2>1, FewInBlock, FS_Subset
    <2>3. IsFiniteSet(pool')
      BY <1>6, <2>2, FS_Union DEF AddFromCanceled, StoredInv
    <2> QED BY <1>1, <1>6, <2>3 DEF AddFromCanceled, Done
  <1>7. CASE PrepareNewBlock \/ PrepareFails \/ CleanUnapprovedCache \/
             DeleteFromBlock
    BY <1>2, <1>7
       DEF PrepareNewBlock, PrepareFails, CleanUnapprovedCache,
           DeleteFromBlock, Done, bounds
  <1>8. CASE ReindexData \/ Crash \/ Panic
    BY <1>2, <1>8
       DEF ReindexData, Crash, Panic, LoseMemory, caches
  <1>9. CASE \/ IndexBlockAdded \/ IndexBlockRemoved \/ IndexTruncateDB
             \/ UpdateOnBlockAdd \/ UpdateOnBlockCancel \/ UtxoTruncateDB
             \/ RecordsStored \/ \E x \in Ids : StoreRecord(x)
    BY <1>2, <1>9
       DEF IndexBlockAdded, IndexBlockRemoved, IndexTruncateDB,
           UpdateOnBlockAdd, UpdateOnBlockCancel, UtxoTruncateDB,
           RecordsStored, StoreRecord, caches, Done, bounds
  <1>10. CASE DropBlock
    <2>1. /\ tip \in known /\ tip \in Block /\ known \subseteq Block
          /\ known' = known \ {tip} /\ tip' = Parent[tip]
          /\ drops' = drops + 1 /\ drops = 0 /\ pool' = pool
      <3>1. drops \in Nat /\ drops < MaxDrops /\ MaxDrops \in {0, 1}
        BY <1>10, LedgerAssumption DEF DropBlock, BaseInv, TypeOK
      <3> QED BY <1>10, <3>1
              DEF DropBlock, Idle, Store!Drop, BaseInv, TypeOK, StoredInv,
                  caches
    <2>2. ASSUME NEW b \in known', tip \in Line[b] PROVE FALSE
      <3>1. b \in Block /\ b # tip /\ Height[b] <= Height[tip]
        BY <2>1, <2>2 DEF StoredInv
      <3>2. Height[tip] <= Height[b] /\ Height[tip] \in Nat /\ Height[b] \in Nat
        BY <2>1, <2>2, <3>1, LineTop
      <3>3. Height[tip] = Height[b]
        BY <3>1, <3>2
      <3> QED BY <2>2, <3>1, <3>3, LineAssumption
    <2>3. tip' \in known' \cup {None}
      <3>1. CASE tip = Genesis
        BY <2>1, <3>1, ParentAssumption
      <3>2. CASE tip # Genesis
        BY <2>1, <3>2, PreviousBlock DEF StoredInv
      <3> QED BY <3>1, <3>2
    <2> QED BY <2>1, <2>2, <2>3 DEF StoredInv
  <1>11. CASE UNCHANGED vars
    BY <1>2, <1>11 DEF vars, caches, bounds
  <1> QED
    BY <1>3, <1>4, <1>5, <1>6, <1>7, <1>8, <1>9, <1>10, <1>11 DEF Next, Work

\* Asked from the top of the main chain instead of about the main chain, the
\* index gives the same answer, or counts fewer outputs as spent.
LEMMA GoodFromTop ==
    ASSUME BaseInv, tip \in known, NEW in, in[1] \in Ids, NEW prev,
           InputIsGood(in, prev, None)
    PROVE  InputIsGood(in, prev, tip)
  <1> DEFINE hashes == txBlocks[in[1]]
             some == HeldUnder(in[1], None)
             under == HeldUnder(in[1], tip)
  <1>1. /\ tip \in Block /\ tip # None /\ main = Line[tip] /\ tip \in main
        /\ hashes \in Seq(Block) /\ known \subseteq Block
        /\ spentBy \subseteq [out : Output, block : Block]
    BY BlockAssumption, LineTop DEF BaseInv, TypeOK, ShapeInv, Branch
  <1>2. TopInChain(main, tip) = tip
    BY <1>1, TopInChainFacts
  <1>3. OrTip(None) = tip /\ OrTip(tip) = tip
    BY DEF OrTip
  <1>4. CASE tip \notin ToSet(hashes)
    <2>1. \A i \in DOMAIN hashes :
              UnderMain(main, hashes[i], tip) <=> hashes[i] \in main
      <3> SUFFICES ASSUME NEW i \in DOMAIN hashes, hashes[i] \in main
                   PROVE  Height[hashes[i]] < Height[tip]
        BY <1>2 DEF UnderMain
      <3>1. hashes[i] # tip
        BY <1>4 DEF ToSet
      <3> QED BY <1>1, <3>1, SameLine, LineTop
    <2>2. {i \in DOMAIN hashes : UnderMain(main, hashes[i], tip)} =
          {i \in DOMAIN hashes : hashes[i] \in main}
      BY <2>1
    <2>3. None \notin ToSet(hashes)
      BY <1>1, BlockAssumption DEF ToSet
    <2>4. under = some
      <3> DEFINE First(S) == IF S = {} THEN None
                 ELSE hashes[CHOOSE i \in S : \A j \in S : i <= j]
      <3>1. some = First({i \in DOMAIN hashes : hashes[i] \in main})
        BY <2>3 DEF HeldUnder, ChooseHashUnderTip, FirstOf
      <3>2. under =
                First({i \in DOMAIN hashes : UnderMain(main, hashes[i], tip)})
        BY <1>1, <1>4 DEF HeldUnder, ChooseHashUnderTip, FirstOf
      <3> HIDE DEF hashes, some, under, First
      <3> QED BY <2>2, <3>1, <3>2
    <2>5. /\ SpendingsFail(in[1], under, tip) <=>
                 SpendingsFail(in[1], some, None)
          /\ GetTranactionOutputsSpent(in[1], under, tip) =
                 GetTranactionOutputsSpent(in[1], some, None)
      BY <1>3, <2>4 DEF SpendingsFail, GetTranactionOutputsSpent
    <2> QED BY <2>4, <2>5 DEF InputIsGood
  <1>5. CASE tip \in ToSet(hashes)
    <2>1. under = tip
      BY <1>5 DEF HeldUnder, ChooseHashUnderTip
    <2>2. some \in main /\ some # None
      <3>1. tip \in ToSet(hashes) \cap main
        BY <1>1, <1>5
      <3>2. some \in ToSet(hashes) \cap main
        BY <1>1, <3>1, ChosenInMain DEF HeldUnder
      <3> QED BY <1>1, <3>2, LineTop, BlockAssumption
    <2>3. Walked(main, tip) = {}
      BY <1>1 DEF Walked
    <2>4. ~SpendingsFail(in[1], tip, tip)
      <3>1. ~SpendingsFail(in[1], some, None)
        BY <2>2 DEF InputIsGood
      <3> QED BY <1>3, <2>3, <3>1
              DEF SpendingsFail, RangeReadsBlock, MeetsHash
    <2>5. in \notin GetTranactionOutputsSpent(in[1], tip, tip)
      <3>1. ASSUME NEW s \in SpendingsOf(in[1]),
                   CheckBlockIsInRange(main, s.block, tip, tip)
            PROVE  CheckBlockIsInRange(main, s.block, some, tip)
        <4>1. s.block \in Block
          BY <1>1 DEF SpendingsOf
        <4>2. Between(s.block, tip, tip)
          BY <1>2, <2>3, <3>1 DEF CheckBlockIsInRange, MeetsHash
        <4>3. /\ Height[some] <= Height[tip] /\ Height[some] \in Nat
              /\ Height[tip] \in Nat /\ Height[s.block] \in Nat
          BY <1>1, <2>2, <4>1, LineTop
        <4>4. Between(s.block, some, tip)
          BY <4>2, <4>3 DEF Between
        <4> QED BY <1>2, <2>3, <4>4 DEF CheckBlockIsInRange
      <3>2. in \notin GetTranactionOutputsSpent(in[1], some, None)
        BY <2>2 DEF InputIsGood
      <3> QED BY <1>3, <3>1, <3>2 DEF GetTranactionOutputsSpent
    <2> QED BY <2>1, <2>4, <2>5, <1>1 DEF InputIsGood
  <1> QED BY <1>4, <1>5

\* The loop over the transactions of the pool returns something.
LEMMA VerifiedExists ==
    ASSUME NEW list \in Seq(Tx)
    PROVE  \E f : f = [n \in 0 .. Len(list) |->
                IF n = 0 THEN << >>
                ELSE IF VerifyTransaction(list[n], ToSet(f[n - 1]), None)
                THEN Append(f[n - 1], list[n])
                ELSE f[n - 1]]
  <1> DEFINE Turn(g, t) == IF VerifyTransaction(t, ToSet(g), None)
                           THEN Append(g, t) ELSE g
             Step(f, n) == IF n = 0 THEN << >> ELSE Turn(f[n - 1], list[n])
             Good(m) == \E f : /\ DOMAIN f = 0 .. m
                               /\ f = [n \in 0 .. m |-> Step(f, n)]
             T == {m \in 0 .. Len(list) : ~Good(m)}
  <1>1. Len(list) \in Nat /\ T \in SUBSET Nat
    OBVIOUS
  <1> HIDE DEF Turn
  <1>2. CASE T # {}
    <2> HIDE DEF T
    <2>1. PICK m \in T : \A n \in T : m <= n
      BY <1>1, <1>2, LeastElement
    <2>2. m \in 0 .. Len(list) /\ ~Good(m)
      BY <2>1 DEF T
    <2>3. CASE m = 0
      <3> DEFINE f == [n \in 0 .. 0 |-> << >>]
      <3>1. f = [n \in 0 .. 0 |-> Step(f, n)] /\ DOMAIN f = 0 .. 0
        OBVIOUS
      <3> QED BY <2>2, <2>3, <3>1
    <2>4. CASE m # 0
      <3>1. m - 1 \in 0 .. Len(list) /\ m - 1 \notin T
        BY <2>1, <2>2, <2>4
      <3>2. PICK g : DOMAIN g = 0 .. m - 1 /\ g = [n \in 0 .. m - 1 |-> Step(g, n)]
        BY <3>1 DEF T
      <3> DEFINE f == [n \in 0 .. m |-> IF n = m THEN Step(g, m) ELSE g[n]]
      <3>3. \A n \in 0 .. m : f[n] = Step(f, n)
        <4> TAKE n \in 0 .. m
        <4>1. CASE n = 0
          <5>1. f[0] = g[0] /\ g[0] = Step(g, 0)
            BY <2>2, <2>4, <3>2
          <5> QED BY <4>1, <5>1
        <4>2. CASE n # 0
          <5>1. n - 1 \in 0 .. m - 1 /\ n - 1 # m
            BY <4>2, <2>2
          <5>2. f[n - 1] = g[n - 1]
            BY <5>1, <2>2
          <5>3. f[n] = Step(g, n)
            <6>1. CASE n = m
              BY <6>1
            <6>2. CASE n # m
              <7>1. n \in 0 .. m - 1 /\ f[n] = g[n]
                BY <6>2, <2>2
              <7> QED BY <7>1, <3>2
            <6> QED BY <6>1, <6>2
          <5>4. /\ Step(f, n) = Turn(f[n - 1], list[n])
                /\ Step(g, n) = Turn(g[n - 1], list[n])
            BY <4>2
          <5> HIDE DEF f
          <5> QED BY <5>2, <5>3, <5>4
        <4> QED BY <4>1, <4>2
      <3>4. f = [n \in 0 .. m |-> Step(f, n)] /\ DOMAIN f = 0 .. m
        BY <3>3
      <3> QED BY <2>2, <3>4
    <2> QED BY <2>3, <2>4
  <1>3. CASE T = {}
    <2>1. PICK f : f = [n \in 0 .. Len(list) |-> Step(f, n)]
      BY <1>1, <1>3
    <2> QED BY <2>1 DEF Turn
  <1> QED BY <1>2, <1>3

\* Each transaction that is left verifies after those before it.
LEMMA VerifiedFacts ==
    ASSUME NEW list \in Seq(Tx)
    PROVE  /\ Verified(list) \in Seq(Tx)
           /\ Len(Verified(list)) <= Len(list)
           /\ \A i \in 1 .. Len(Verified(list)) :
                 VerifyTransaction(Verified(list)[i],
                     {Verified(list)[j] : j \in 1 .. i - 1}, None)
  <1> DEFINE Turn(g, t) == IF VerifyTransaction(t, ToSet(g), None)
                           THEN Append(g, t) ELSE g
             Step(f, n) == IF n = 0 THEN << >> ELSE Turn(f[n - 1], list[n])
             good == CHOOSE f : f = [n \in 0 .. Len(list) |-> Step(f, n)]
             Sound(k) == \A i \in 1 .. Len(k) :
                            VerifyTransaction(k[i], {k[j] : j \in 1 .. i - 1},
                                              None)
             Right(n) == /\ good[n] \in Seq(Tx) /\ Len(good[n]) <= n
                         /\ Sound(good[n])
             T == {n \in 0 .. Len(list) : ~Right(n)}
  <1>1. Len(list) \in Nat /\ T \in SUBSET Nat
    OBVIOUS
  <1>2. good = [n \in 0 .. Len(list) |-> Step(good, n)]
    <2>1. \E f : f = [n \in 0 .. Len(list) |-> Step(f, n)]
      BY VerifiedExists
    <2> HIDE DEF Step
    <2> QED BY <2>1
  <1>3. \A n \in 0 .. Len(list) : good[n] = Step(good, n)
    BY <1>2
  <1>4. Verified(list) = good[Len(list)]
    BY DEF Verified
  <1> HIDE DEF good
  <1>5. CASE T # {}
    <2> HIDE DEF T
    <2>1. PICK m \in T : \A n \in T : m <= n
      BY <1>1, <1>5, LeastElement
    <2>2. m \in 0 .. Len(list) /\ ~Right(m)
      BY <2>1 DEF T
    <2>3. CASE m = 0
      <3>1. good[0] = << >>
        BY <1>1, <1>3
      <3> QED BY <2>2, <2>3, <3>1
    <2>4. CASE m # 0
      <3> DEFINE k == good[m - 1]
                 t == list[m]
      <3>1. m - 1 \in 0 .. Len(list) /\ m - 1 \notin T /\ t \in Tx /\ m \in Nat
        BY <2>1, <2>2, <2>4
      <3>2. k \in Seq(Tx) /\ Len(k) <= m - 1 /\ Sound(k)
        BY <3>1 DEF T
      <3>3. good[m] = Turn(k, t)
        BY <1>3, <2>2, <2>4
      <3> HIDE DEF k, t
      <3>4. CASE VerifyTransaction(t, ToSet(k), None)
        <4> DEFINE a == Append(k, t)
        <4>1. /\ a \in Seq(Tx) /\ Len(a) = Len(k) + 1 /\ Len(k) \in Nat
              /\ a[Len(k) + 1] = t
              /\ \A i \in 1 .. Len(k) : a[i] = k[i]
          BY <3>1, <3>2
        <4> HIDE DEF a
        <4>2. ASSUME NEW i \in 1 .. Len(a)
              PROVE  VerifyTransaction(a[i], {a[j] : j \in 1 .. i - 1}, None)
          <5>1. CASE i = Len(k) + 1
            <6>1. {a[j] : j \in 1 .. i - 1} = ToSet(k)
              <7>1. 1 .. i - 1 = 1 .. Len(k) /\ ToSet(k) = {k[j] : j \in 1 .. Len(k)}
                BY <3>2, <4>1, <5>1 DEF ToSet
              <7> QED BY <4>1, <7>1
            <6> QED BY <3>4, <4>1, <5>1, <6>1
          <5>2. CASE i # Len(k) + 1
            <6>1. i \in 1 .. Len(k) /\ \A j \in 1 .. i - 1 : j \in 1 .. Len(k)
              BY <4>1, <5>2
            <6>2. {a[j] : j \in 1 .. i - 1} = {k[j] : j \in 1 .. i - 1}
              BY <4>1, <6>1
            <6> QED BY <3>2, <4>1, <6>1, <6>2
          <5> QED BY <5>1, <5>2
        <4>3. good[m] = a
          BY <3>3, <3>4 DEF a
        <4>4. a \in Seq(Tx) /\ Len(a) <= m /\ Sound(a)
          BY <3>1, <3>2, <4>1, <4>2
        <4>5. Right(m)
          BY <4>3, <4>4
        <4> QED BY <2>2, <4>5
      <3>5. CASE ~VerifyTransaction(t, ToSet(k), None)
        <4>1. good[m] = k
          BY <3>3, <3>5
        <4>2. Len(k) \in Nat /\ Len(k) <= m
          BY <3>1, <3>2
        <4>3. Right(m)
          BY <3>2, <4>1, <4>2
        <4> QED BY <2>2, <4>3
      <3> QED BY <3>4, <3>5
    <2> QED BY <2>3, <2>4
  <1>6. CASE T = {}
    <2>1. Right(Len(list))
      <3>1. Len(list) \in 0 .. Len(list)
        BY <1>1
      <3> HIDE DEF Right
      <3> QED BY <3>1, <1>6
    <2> QED BY <1>4, <2>1
  <1> QED BY <1>5, <1>6

\* What GetTransactions returns: no more than fit into a block.
LEMMA ListedFacts ==
    ASSUME BaseInv, IsFiniteSet(pool), NEW list \in Listed
    PROVE  list \in Seq(Tx) /\ Len(list) <= MaxTxs
  <1> DEFINE count == Lower(Cardinality(pool), MaxTxs)
  <1>1. count \in Nat /\ count <= MaxTxs
    BY FS_CardinalityType, LedgerAssumption DEF Lower
  <1>2. PICK S \in kSubset(count, pool) : list \in SetToSeqs(S)
    BY DEF Listed
  <1>3. S \subseteq Tx /\ Cardinality(S) = count
    BY <1>2 DEF kSubset, BaseInv, TypeOK
  <1> HIDE DEF count
  <1>4. list \in [1 .. count -> S]
    BY <1>2, <1>3 DEF SetToSeqs
  <1> QED BY <1>1, <1>3, <1>4

\* The block is checked with its previous block as the top, as VerifyBlock
\* does it, though its transactions were checked against the main chain.
LEMMA PrepareStep ==
    ASSUME BaseInv, StoredInv, PrepareNewBlock PROVE VerifyBlock(prepared')
  <1>1. PICK list \in Listed, b \in Own :
            /\ Parent[b] = tip
            /\ Txs[b] = Verified(list)
            /\ Len(Txs[b]) >= MinTxs(Height[tip] + 1)
            /\ prepared' = b
    BY DEF PrepareNewBlock, ForNewBlock
  <1>2. /\ b \in Block \ {Genesis} /\ tip \in Block /\ tip \in known
        /\ Height[tip] \in Nat /\ Height[b] = Height[tip] + 1
    <2>1. b \in Block \ {Genesis}
      BY BlockTxsAssumption
    <2>2. tip # None
      BY DEF PrepareNewBlock, Idle
    <2> QED BY <1>1, <2>1, <2>2, PreviousBlock, LineTop
            DEF BaseInv, TypeOK, StoredInv
  <1> DEFINE s == Txs[b]
  <1>3. list \in Seq(Tx) /\ Len(list) <= MaxTxs /\ Len(list) \in Nat
    BY ListedFacts DEF StoredInv
  <1>4. /\ s \in Seq(Tx) /\ Len(s) <= Len(list) /\ Len(s) \in Nat
        /\ \A i \in 1 .. Len(s) :
              VerifyTransaction(s[i], {s[j] : j \in 1 .. i - 1}, None)
    <2>1. /\ Verified(list) \in Seq(Tx)
          /\ Len(Verified(list)) <= Len(list)
          /\ \A i \in 1 .. Len(Verified(list)) :
                VerifyTransaction(Verified(list)[i],
                    {Verified(list)[j] : j \in 1 .. i - 1}, None)
      BY <1>3, VerifiedFacts
    <2>2. s = Verified(list)
      BY <1>1
    <2>3. s \in Seq(Tx) /\ Len(s) \in Nat
      BY <2>1, <2>2
    <2> HIDE DEF s
    <2> QED BY <2>1, <2>2, <2>3
  <1>5. Len(s) \in MinTxs(Height[b]) .. MaxTxs
    <2>1. MinTxs(Height[b]) \in Nat /\ MaxTxs \in Nat
      BY <1>2, LedgerAssumption DEF MinTxs, Lower
    <2> QED BY <1>1, <1>2, <1>3, <1>4, <2>1
  <1>6. ASSUME NEW i \in DOMAIN s
        PROVE  VerifyTransaction(s[i], {s[j] : j \in 1 .. i - 1}, tip)
    <2>1. i \in 1 .. Len(s) /\ s[i] \in Tx
      BY <1>4
    <2>2. ASSUME NEW n \in DOMAIN Ins[s[i]]
          PROVE  InputIsGood(Ins[s[i]][n], {s[j] : j \in 1 .. i - 1}, tip)
      <3>1. InputIsGood(Ins[s[i]][n], {s[j] : j \in 1 .. i - 1}, None)
        BY <1>4, <2>1 DEF VerifyTransaction
      <3>2. Ins[s[i]][n][1] \in Ids
        <4> DEFINE All == UNION {Outputs(x) : x \in Ids}
        <4>1. Ins[s[i]] \in Seq(All)
          BY <2>1, TxAssumption
        <4> HIDE DEF All, s
        <4>2. Ins[s[i]][n] \in All
          BY <2>2, <4>1
        <4> QED BY <4>2 DEF All, Outputs
      <3> QED BY <1>2, <3>1, <3>2, GoodFromTop
    <2> QED BY <2>2 DEF VerifyTransaction
  <1>7. VerifyBlock(b)
    BY <1>1, <1>5, <1>6 DEF VerifyBlock
  <1> QED BY <1>1, <1>7

\* A block the miner is about to work on passes the check it will have to pass
\* as a new block, whatever was dropped, rebuilt or interrupted before.
THEOREM PreparedAlwaysValid == Spec => PreparedIsValid
  <1>1. BaseInv /\ StoredInv /\ [Next]_vars =>
            [prepared = None /\ prepared' # None =>
                VerifyBlock(prepared')]_vars
    <2> SUFFICES ASSUME BaseInv, StoredInv, Next, prepared = None,
                        prepared' # None
                 PROVE  VerifyBlock(prepared')
      OBVIOUS
    <2>1. PrepareNewBlock
      BY DEF Next, Work, ReceivedFullBlockFromOtherNode,
             ReceivedNewTransaction, CancelTransaction, PrepareFails,
             MineBlock, DropBlock, ReindexData, CleanUnapprovedCache,
             IndexBlockAdded, IndexBlockRemoved, IndexTruncateDB,
             DeleteFromBlock, AddFromCanceled, UpdateOnBlockAdd,
             UpdateOnBlockCancel, UtxoTruncateDB, RecordsStored, StoreRecord,
             Panic, Crash, LoseMemory, Done
    <2> QED BY <2>1, PrepareStep
  <1>2. BaseInv /\ StoredInv /\ [Next]_vars => BaseInv' /\ StoredInv'
    BY BaseNext, StoredNext
  <1>3. Init => BaseInv /\ StoredInv
    BY BaseInit, StoredInit
  <1> QED BY <1>1, <1>2, <1>3, PTL DEF Spec, PreparedIsValid

(***************************************************************************)
(* The caches of a node that never crashed, dropped or rebuilt             *)
(***************************************************************************)

Undisturbed == crashes = 0 /\ drops = 0 /\ reindexes = 0

\* The store holds whole branches, and the top is the highest block.
TreeInv ==
    /\ tip \in known
    /\ \A b \in known : Line[b] \subseteq known /\ Height[b] <= Height[tip]

\* Everything stored is in the index, but a block whose call is still to make.
Pending ==
    IF todo # << >> /\ Head(todo).call = "index" THEN {Current} ELSE {}

IndexInv ==
    /\ \A x \in Ids : ToSet(txBlocks[x]) =
                          {b \in known \ Pending : x \in IdsOf(b)}
    /\ spentBy = UNION {Spendings(b) : b \in known \ Pending}

\* The top of the branch a call starts from, and that it leaves.
Before(c) == IF c.call \in {"repool", "unspend"} THEN c.block ELSE Parent[c.block]
After(c) == IF c.call \in {"repool", "spend"} THEN c.block ELSE Parent[c.block]

\* The top the caches stand for when the calls from the i-th on are to make.
StandsFor(i) == IF i > Len(todo) THEN tip ELSE Before(todo[i])

\* The calls lead, one block at a time, to the top of the store.
QueueInv ==
    /\ \A i \in DOMAIN todo :
          /\ todo[i].call \in {"index", "unpool", "spend", "repool", "unspend"}
          /\ todo[i].block \in known \ {Genesis}
          /\ todo[i].call = "index" => i = 1
          /\ todo[i].call # "index" => After(todo[i]) = StandsFor(i + 1)

\* Where the unspent outputs stand on the way.
Standing == StandsFor(IF Pending = {} THEN 1 ELSE 2)

UtxoInv ==
    /\ Standing \in known
    /\ \A o \in DOMAIN utxo : /\ o \in Unspent[Standing]
                              /\ utxo[o] \in Line[Standing]
                              /\ o \in Created(utxo[o])

Clean == TreeInv /\ IndexInv /\ QueueInv /\ UtxoInv /\ NoDoubleSpend
CleanInv == Undisturbed => Clean

\* An output is unspent on a branch when a block of it creates the output and
\* none from that block on uses it.
LEMMA UnspentMeaning ==
    ASSUME NEW b \in Block, NEW o
    PROVE  o \in Unspent[b] <=>
               \E c \in Line[b] :
                  /\ o \in Created(c)
                  /\ \A d \in Line[b] : Height[d] >= Height[c] => o \notin Used(d)
  <1> DEFINE Later(c) == {e \in Line[b] : Height[e] >= Height[c]}
             Stays(c) == Created(c) \ UNION {Used(d) : d \in Later(c)}
  <1>1. Unspent[b] = UNION {Stays(c) : c \in Line[b]}
    BY DEF Unspent
  <1>2. o \in Unspent[b] <=> \E c \in Line[b] : o \in Stays(c)
    <2> HIDE DEF Stays
    <2> QED BY <1>1
  <1>3. ASSUME NEW c \in Line[b]
        PROVE  o \in Stays(c) <=>
                   /\ o \in Created(c)
                   /\ \A d \in Line[b] : Height[d] >= Height[c] => o \notin Used(d)
    <2>1. o \in UNION {Used(d) : d \in Later(c)} <=> \E d \in Later(c) : o \in Used(d)
      OBVIOUS
    <2> QED BY <2>1
  <1> HIDE DEF Stays
  <1> QED BY <1>2, <1>3

\* One more block on a branch: what it creates comes in, what it uses goes.
LEMMA UnspentStep ==
    ASSUME NEW b \in Block, b # Genesis
    PROVE  Unspent[b] = (Unspent[Parent[b]] \cup Created(b)) \ Used(b)
  <1> DEFINE p == Parent[b]
  <1>1. /\ p \in Block /\ Line[b] = Line[p] \cup {b} /\ Height[b] \in Nat
        /\ \A c \in Line[p] : Height[c] \in Nat /\ Height[c] < Height[b]
    BY PreviousBlock, LineTop
  <1> HIDE DEF p
  <1>2. ASSUME NEW o \in Unspent[b]
        PROVE  o \in (Unspent[p] \cup Created(b)) \ Used(b)
    <2>1. PICK c \in Line[b] :
              /\ o \in Created(c)
              /\ \A d \in Line[b] : Height[d] >= Height[c] => o \notin Used(d)
      BY UnspentMeaning
    <2>2. o \notin Used(b)
      BY <1>1, <2>1
    <2>3. CASE c = b
      BY <2>1, <2>2, <2>3
    <2>4. CASE c \in Line[p]
      <3>1. o \in Unspent[p]
        BY <1>1, <2>1, <2>4, UnspentMeaning
      <3> QED BY <2>2, <3>1
    <2> QED BY <1>1, <2>3, <2>4
  <1>3. ASSUME NEW o \in (Unspent[p] \cup Created(b)) \ Used(b)
        PROVE  o \in Unspent[b]
    <2>1. CASE o \in Created(b)
      <3>1. /\ b \in Line[b]
            /\ \A d \in Line[b] : Height[d] >= Height[b] => o \notin Used(d)
        BY <1>1, <1>3
      <3> QED BY <2>1, <3>1, UnspentMeaning
    <2>2. CASE o \in Unspent[p]
      <3>1. PICK c \in Line[p] :
                /\ o \in Created(c)
                /\ \A d \in Line[p] : Height[d] >= Height[c] => o \notin Used(d)
        BY <1>1, <2>2, UnspentMeaning
      <3>2. \A d \in Line[b] : Height[d] >= Height[c] => o \notin Used(d)
        BY <1>1, <1>3, <3>1
      <3> QED BY <1>1, <3>1, <3>2, UnspentMeaning
    <2> QED BY <1>3, <2>1, <2>2
  <1>4. Unspent[b] = (Unspent[p] \cup Created(b)) \ Used(b)
    BY <1>2, <1>3
  <1> QED BY <1>4 DEF p

\* A shared index, asked from a stored block of any branch.
LEMMA IndexAnswers ==
    ASSUME BaseInv, TreeInv, IndexInv, Pending = {},
           NEW top \in known, NEW x \in Ids
    PROVE  LET bottom == HeldUnder(x, top)
           IN  /\ bottom # None =>
                     /\ bottom \in Line[top] /\ bottom \in known
                     /\ x \in IdsOf(bottom)
                     /\ Outputs(x) \subseteq Created(bottom)
                     /\ ~SpendingsFail(x, bottom, top)
                     /\ Outputs(x) \ GetTranactionOutputsSpent(x, bottom, top)
                            \subseteq Unspent[top]
  <1> DEFINE bottom == HeldUnder(x, top)
             spent == GetTranactionOutputsSpent(x, bottom, top)
  <1> SUFFICES ASSUME bottom # None
               PROVE  /\ bottom \in Line[top] /\ bottom \in known
                      /\ x \in IdsOf(bottom)
                      /\ Outputs(x) \subseteq Created(bottom)
                      /\ ~SpendingsFail(x, bottom, top)
                      /\ Outputs(x) \ spent \subseteq Unspent[top]
    OBVIOUS
  <1>1. /\ top \in Block /\ tip \in Block /\ main = Line[tip]
        /\ Line[top] \subseteq known /\ known \subseteq Block
        /\ txBlocks[x] \in Seq(Block)
    BY BlockAssumption DEF BaseInv, TypeOK, ShapeInv, TreeInv, Branch
  <1>2. /\ ToSet(txBlocks[x]) = {b \in known : x \in IdsOf(b)}
        /\ spentBy = UNION {Spendings(b) : b \in known}
    BY DEF IndexInv
  <1>3. bottom \in ToSet(txBlocks[x]) /\ bottom \in Line[top]
    BY <1>1, ChosenUnderTip DEF HeldUnder
  <1>4. bottom \in known /\ x \in IdsOf(bottom) /\ bottom \in Block
    BY <1>1, <1>2, <1>3
  <1> HIDE DEF bottom
  <1>5. Outputs(x) \subseteq Created(bottom)
    BY <1>4, BlockContents
  <1>6. ~SpendingsFail(x, bottom, top)
    <2>1. \A s \in spentBy : s.block \in known
      BY <1>2 DEF Spendings
    <2> QED BY <2>1 DEF SpendingsFail, SpendingsOf
  <1>7. ASSUME NEW o \in Outputs(x) \ spent PROVE o \in Unspent[top]
    <2>1. ASSUME NEW d \in Line[top], Height[d] >= Height[bottom], o \in Used(d)
          PROVE  FALSE
      <3> DEFINE s == [out |-> o, block |-> d]
      <3>1. d \in known /\ s \in spentBy
        BY <1>1, <1>2, <2>1 DEF Spendings
      <3>2. s \in SpendingsOf(x)
        BY <3>1 DEF SpendingsOf
      <3>3. Height[bottom] <= Height[d]
        BY <1>1, <1>3, <2>1, LineTop
      <3>4. CheckBlockIsInRange(main, d, bottom, top)
        BY <1>1, <1>3, <3>3, RangeSeesBranch
      <3>5. OrTip(top) = top
        BY <1>1, BlockAssumption DEF OrTip
      <3>6. s.out \in spent
        BY <3>2, <3>4, <3>5 DEF GetTranactionOutputsSpent
      <3> QED BY <3>6
    <2>2. o \in Created(bottom)
      BY <1>5
    <2> QED BY <1>1, <1>3, <2>1, <2>2, UnspentMeaning
  <1> QED BY <1>3, <1>4, <1>5, <1>6, <1>7

\* VerifyBlock lets only blocks in that are valid on their own branch.
LEMMA VerifiedIsValid ==
    ASSUME BaseInv, TreeInv, IndexInv, Pending = {},
           NEW b \in Block, Parent[b] \in known, VerifyBlock(b)
    PROVE  ValidOnBranch(b)
  <1> DEFINE top == Parent[b]
             prev(i) == {Txs[b][j] : j \in 1 .. i - 1}
  <1> SUFFICES ASSUME NEW i \in DOMAIN Txs[b], NEW in \in Inputs(Txs[b][i])
               PROVE  \/ in \in Unspent[top]
                      \/ \E j \in 1 .. i - 1 : in \in Outputs(Txs[b][j])
    BY DEF ValidOnBranch
  <1>1. InputIsGood(in, prev(i), top)
    <2>1. PICK n \in DOMAIN Ins[Txs[b][i]] : in = Ins[Txs[b][i]][n]
      BY DEF Inputs
    <2> QED BY <2>1 DEF VerifyBlock, VerifyTransaction
  <1>2. in \in Output
    <2>1. Txs[b][i] \in TxsOf(b)
      BY DEF TxsOf
    <2> QED BY <2>1, BlockContents DEF Used
  <1>3. in[1] \in Ids /\ in \in Outputs(in[1])
    BY <1>2 DEF Output, Outputs
  <1>4. CASE HeldUnder(in[1], top) = None
    BY <1>1, <1>3, <1>4 DEF InputIsGood
  <1>5. CASE HeldUnder(in[1], top) # None
    <2>1. in \notin GetTranactionOutputsSpent(in[1], HeldUnder(in[1], top), top)
      BY <1>1, <1>5 DEF InputIsGood
    <2> QED BY <1>3, <1>5, <2>1, IndexAnswers
  <1> QED BY <1>4, <1>5

(***************************************************************************)
(* The calls lead from the old top to the new one                          *)
(***************************************************************************)

\* The queue of a block that replaces the branch under the top, by positions.
SwitchCalls(olds, news, b) ==
    <<Calling("index", b)>> \o (Each(olds, "repool", "unspend") \o
                                Each(news, "unpool", "spend"))

SwitchPositions(q, olds, news, b) ==
    LET n == Len(olds)
        m == Len(news)
    IN  /\ n \in Nat /\ m \in Nat
        /\ DOMAIN q = 1 .. 2 * n + 2 * m + 1
        /\ Len(q) = 2 * n + 2 * m + 1
        /\ q[1] = Calling("index", b)
        /\ \A k \in 1 .. n : /\ q[2 * k] = Calling("repool", olds[k])
                             /\ q[2 * k + 1] = Calling("unspend", olds[k])
        /\ \A k \in 1 .. m :
              /\ q[2 * n + 2 * k] = Calling("unpool", news[k])
              /\ q[2 * n + 2 * k + 1] = Calling("spend", news[k])
        /\ \A i \in 2 .. 2 * n + 2 * m + 1 :
              \/ \E k \in 1 .. n : i = 2 * k \/ i = 2 * k + 1
              \/ \E k \in 1 .. m : i = 2 * n + 2 * k \/ i = 2 * n + 2 * k + 1

LEMMA SwitchQueue ==
    ASSUME NEW olds \in Seq(Block), NEW news \in Seq(Block), NEW b
    PROVE  SwitchPositions(SwitchCalls(olds, news, b), olds, news, b)
  <1> DEFINE old == Each(olds, "repool", "unspend")
             new == Each(news, "unpool", "spend")
             head == <<Calling("index", b)>>
             q == head \o (old \o new)
             n == Len(olds)
             m == Len(news)
             C == {Calling(c, d) : c \in {"repool", "unspend", "unpool", "spend"},
                                   d \in Block}
  <1>C. \A c \in {"repool", "unspend", "unpool", "spend"} :
            \A d \in Block : Calling(c, d) \in C
    OBVIOUS
  <1> HIDE DEF C
  <1>1. /\ n \in Nat /\ old \in Seq(C) /\ Len(old) = 2 * n
        /\ \A k \in 1 .. n : /\ old[2 * k - 1] = Calling("repool", olds[k])
                             /\ old[2 * k] = Calling("unspend", olds[k])
    <2>1. \A d \in Block : Calling("repool", d) \in C /\ Calling("unspend", d) \in C
      BY <1>C
    <2> QED BY <2>1, EachFacts, EachType
  <1>2. /\ m \in Nat /\ new \in Seq(C) /\ Len(new) = 2 * m
        /\ \A k \in 1 .. m : /\ new[2 * k - 1] = Calling("unpool", news[k])
                             /\ new[2 * k] = Calling("spend", news[k])
    <2>1. \A d \in Block : Calling("unpool", d) \in C /\ Calling("spend", d) \in C
      BY <1>C
    <2> QED BY <2>1, EachFacts, EachType
  <1> HIDE DEF old, new, n, m
  <1>3. /\ old \o new \in Seq(C) /\ Len(old \o new) = 2 * n + 2 * m
        /\ \A i \in 1 .. 2 * n : (old \o new)[i] = old[i]
        /\ \A i \in 1 .. 2 * m : (old \o new)[2 * n + i] = new[i]
    <2>0. old \in Seq(C) /\ new \in Seq(C)
      BY <1>1, <1>2
    <2>1. /\ old \o new \in Seq(C)
          /\ Len(old \o new) = Len(old) + Len(new)
          /\ \A i \in 1 .. Len(old) : (old \o new)[i] = old[i]
          /\ \A i \in 1 .. Len(new) : (old \o new)[Len(old) + i] = new[i]
      BY <2>0
    <2> QED BY <1>1, <1>2, <2>1
  <1> DEFINE rest == old \o new
  <1> HIDE DEF rest
  <1>4. /\ Len(head \o rest) = 2 * n + 2 * m + 1
        /\ DOMAIN (head \o rest) = 1 .. 2 * n + 2 * m + 1
        /\ (head \o rest)[1] = Calling("index", b)
        /\ \A i \in 1 .. 2 * n + 2 * m : (head \o rest)[i + 1] = rest[i]
    <2> DEFINE E == C \cup {Calling("index", b)}
    <2>1. head \in Seq(E) /\ Len(head) = 1 /\ head[1] = Calling("index", b)
      OBVIOUS
    <2>2. rest \in Seq(E) /\ Len(rest) = 2 * n + 2 * m
      BY <1>3 DEF rest
    <2> HIDE DEF head, E
    <2>3. /\ Len(head \o rest) = 1 + (2 * n + 2 * m)
          /\ DOMAIN (head \o rest) = 1 .. 1 + (2 * n + 2 * m)
          /\ (head \o rest)[1] = head[1]
          /\ \A i \in 1 .. 2 * n + 2 * m : (head \o rest)[1 + i] = rest[i]
      <3>0. head \in Seq(E) /\ rest \in Seq(E)
        BY <2>1, <2>2
      <3>1. /\ Len(head \o rest) = Len(head) + Len(rest)
            /\ DOMAIN (head \o rest) = 1 .. Len(head) + Len(rest)
            /\ \A i \in 1 .. Len(head) : (head \o rest)[i] = head[i]
            /\ \A i \in 1 .. Len(rest) : (head \o rest)[Len(head) + i] = rest[i]
        BY <3>0
      <3>2. 1 \in 1 .. Len(head)
        BY <2>1
      <3> QED BY <2>1, <2>2, <3>1, <3>2
    <2>4. 1 + (2 * n + 2 * m) = 2 * n + 2 * m + 1
      BY <1>1, <1>2
    <2>5. \A i \in 1 .. 2 * n + 2 * m : i + 1 = 1 + i
      BY <1>1, <1>2
    <2> QED BY <2>1, <2>3, <2>4, <2>5
  <1>5. ASSUME NEW k \in 1 .. n
        PROVE  /\ q[2 * k] = Calling("repool", olds[k])
               /\ q[2 * k + 1] = Calling("unspend", olds[k])
    <2>1. 2 * k - 1 \in 1 .. 2 * n /\ 2 * k \in 1 .. 2 * n
      BY <1>1
    <2>2. rest[2 * k - 1] = old[2 * k - 1] /\ rest[2 * k] = old[2 * k]
      BY <2>1, <1>3 DEF rest
    <2>3. (head \o rest)[(2 * k - 1) + 1] = rest[2 * k - 1] /\ (head \o rest)[2 * k + 1] = rest[2 * k]
      BY <2>1, <1>1, <1>2, <1>4
    <2>4. (2 * k - 1) + 1 = 2 * k
      BY <1>1
    <2> QED BY <1>1, <2>2, <2>3, <2>4 DEF rest, q
  <1>6. ASSUME NEW k \in 1 .. m
        PROVE  /\ q[2 * n + 2 * k] = Calling("unpool", news[k])
               /\ q[2 * n + 2 * k + 1] = Calling("spend", news[k])
    <2>1. 2 * k - 1 \in 1 .. 2 * m /\ 2 * k \in 1 .. 2 * m
      BY <1>2
    <2>2. /\ rest[2 * n + (2 * k - 1)] = new[2 * k - 1]
          /\ rest[2 * n + 2 * k] = new[2 * k]
      BY <2>1, <1>3 DEF rest
    <2>3. /\ (head \o rest)[(2 * n + (2 * k - 1)) + 1] = rest[2 * n + (2 * k - 1)]
          /\ (head \o rest)[(2 * n + 2 * k) + 1] = rest[2 * n + 2 * k]
      BY <2>1, <1>1, <1>2, <1>4
    <2>4. (2 * n + (2 * k - 1)) + 1 = 2 * n + 2 * k
      BY <1>1, <1>2
    <2> QED BY <1>2, <2>2, <2>3, <2>4 DEF rest, q
  <1>7. ASSUME NEW i \in 2 .. 2 * n + 2 * m + 1
        PROVE  \/ \E k \in 1 .. n : i = 2 * k \/ i = 2 * k + 1
               \/ \E k \in 1 .. m : i = 2 * n + 2 * k \/ i = 2 * n + 2 * k + 1
    <2>1. CASE i <= 2 * n + 1
      <3>1. i \div 2 \in 1 .. n /\ (i = 2 * (i \div 2) \/ i = 2 * (i \div 2) + 1)
        BY <1>1, <1>2, <2>1
      <3> QED BY <3>1
    <2>2. CASE i > 2 * n + 1
      <3> DEFINE k == (i - 2 * n) \div 2
      <3>1. k \in 1 .. m /\ (i = 2 * n + 2 * k \/ i = 2 * n + 2 * k + 1)
        BY <1>1, <1>2, <2>2
      <3> HIDE DEF k
      <3> QED BY <3>1
    <2> QED BY <1>1, <1>2, <2>1, <2>2
  <1>8. /\ Len(q) = 2 * n + 2 * m + 1 /\ DOMAIN q = 1 .. 2 * n + 2 * m + 1
        /\ q[1] = Calling("index", b)
    BY <1>4 DEF rest
  <1> HIDE DEF head, q
  <1>9. /\ n \in Nat /\ m \in Nat
    BY <1>1, <1>2
  <1> QED
    BY <1>5, <1>6, <1>7, <1>8, <1>9
       DEF q, head, old, new, n, m, SwitchCalls, SwitchPositions

\* Each call of the queue starts where the one before it ends, the first one
\* from the old top and the last one at the new top.
LeadsFromTo(q, from, to) ==
    /\ q # << >> /\ q[1].call = "index"
    /\ from = IF Len(q) = 1 THEN to ELSE Before(q[2])
    /\ \A i \in 2 .. Len(q) :
          /\ q[i].call \in {"unpool", "spend", "repool", "unspend"}
          /\ After(q[i]) = IF i = Len(q) THEN to ELSE Before(q[i + 1])

LEMMA SwitchLeads ==
    ASSUME NEW old \in Block, NEW new \in Block, old \notin Line[new],
           Height[new] > Height[old]
    PROVE  LET change == GetBranchesReplacement(old, new)
               q == SwitchCalls(change.old, change.new, new)
           IN  /\ LeadsFromTo(q, old, new)
               /\ q[1].block = new
               /\ \A i \in 2 .. Len(q) :
                     q[i].block \in (Line[old] \ Line[new]) \cup
                                    (Line[new] \ Line[old])
  <1> DEFINE change == GetBranchesReplacement(old, new)
             base == BlockUnder(new, MeetHeight(old, new))
             olds == change.old
             news == change.new
             q == SwitchCalls(olds, news, new)
             n == Len(olds)
             m == Len(news)
  <1>1. /\ base \in Line[old] /\ olds \in Seq(Block) /\ news \in Seq(Block)
        /\ ToSet(olds) = Line[old] \ Line[new]
        /\ ToSet(news) = Line[new] \ Line[old]
        /\ n > 0 /\ olds[1] = old
        /\ \A i \in 1 .. n :
              Parent[olds[i]] = IF i = n THEN base ELSE olds[i + 1]
        /\ \A i \in 1 .. m :
              Parent[news[i]] = IF i = 1 THEN base ELSE news[i - 1]
        /\ IF m > 0 THEN news[m] = new ELSE base = new
    BY ReplacementFacts
  <1> HIDE DEF base, change
  <1>2. m > 0 /\ m \in Nat /\ n \in Nat
    <2>1. base # new
      BY <1>1, LineTop
    <2> QED BY <1>1, <2>1
  <1>3. /\ DOMAIN q = 1 .. 2 * n + 2 * m + 1
        /\ Len(q) = 2 * n + 2 * m + 1
        /\ q[1] = Calling("index", new)
        /\ \A k \in 1 .. n : /\ q[2 * k] = Calling("repool", olds[k])
                             /\ q[2 * k + 1] = Calling("unspend", olds[k])
        /\ \A k \in 1 .. m :
              /\ q[2 * n + 2 * k] = Calling("unpool", news[k])
              /\ q[2 * n + 2 * k + 1] = Calling("spend", news[k])
        /\ \A i \in 2 .. 2 * n + 2 * m + 1 :
              \/ \E k \in 1 .. n : i = 2 * k \/ i = 2 * k + 1
              \/ \E k \in 1 .. m : i = 2 * n + 2 * k \/ i = 2 * n + 2 * k + 1
    <2>1. olds \in Seq(Block) /\ news \in Seq(Block)
      BY <1>1
    <2>2. SwitchPositions(q, olds, news, new)
      BY <2>1, SwitchQueue
    <2> QED BY <2>2 DEF SwitchPositions
  <1>4. /\ \A k \in 1 .. n : olds[k] \in Line[old] \ Line[new]
        /\ \A k \in 1 .. m : news[k] \in Line[new] \ Line[old]
    BY <1>1 DEF ToSet
  <1> HIDE DEF q, olds, news
  <1>5. \A d : /\ Calling("repool", d).block = d /\ Before(Calling("repool", d)) = d
               /\ After(Calling("repool", d)) = d
               /\ Calling("repool", d).call = "repool"
               /\ Calling("unspend", d).block = d /\ Before(Calling("unspend", d)) = d
               /\ After(Calling("unspend", d)) = Parent[d]
               /\ Calling("unspend", d).call = "unspend"
               /\ Calling("unpool", d).block = d
               /\ Before(Calling("unpool", d)) = Parent[d]
               /\ After(Calling("unpool", d)) = Parent[d]
               /\ Calling("unpool", d).call = "unpool"
               /\ Calling("spend", d).block = d
               /\ Before(Calling("spend", d)) = Parent[d]
               /\ After(Calling("spend", d)) = d
               /\ Calling("spend", d).call = "spend"
               /\ Calling("index", d).call = "index" /\ Calling("index", d).block = d
    BY DEF Calling, Before, After
  <1>6. ASSUME NEW i \in 2 .. Len(q)
        PROVE  /\ q[i].call \in {"unpool", "spend", "repool", "unspend"}
               /\ After(q[i]) = IF i = Len(q) THEN new ELSE Before(q[i + 1])
               /\ q[i].block \in (Line[old] \ Line[new]) \cup
                                 (Line[new] \ Line[old])
    <2>1. CASE \E k \in 1 .. n : i = 2 * k
      <3>1. PICK k \in 1 .. n : i = 2 * k
        BY <2>1
      <3>2. i # Len(q) /\ i + 1 = 2 * k + 1
        BY <1>2, <1>3, <3>1
      <3>3. q[i] = Calling("repool", olds[k]) /\ q[i + 1] = Calling("unspend", olds[k])
        BY <1>3, <3>1, <3>2
      <3> QED BY <1>4, <1>5, <3>2, <3>3
    <2>2. CASE \E k \in 1 .. n : i = 2 * k + 1
      <3>1. PICK k \in 1 .. n : i = 2 * k + 1
        BY <2>2
      <3>2. q[i] = Calling("unspend", olds[k])
        BY <1>3, <3>1
      <3>3. CASE k = n
        <4>1. 1 \in 1 .. m /\ i + 1 = 2 * n + 2 * 1 /\ i # Len(q)
          BY <1>2, <1>3, <3>1, <3>3
        <4>2. q[i + 1] = Calling("unpool", news[1])
          BY <1>3, <4>1
        <4>3. Parent[olds[k]] = base /\ Parent[news[1]] = base
          BY <1>1, <3>3, <4>1
        <4> QED BY <1>4, <1>5, <3>2, <4>1, <4>2, <4>3
      <3>4. CASE k # n
        <4>1. k + 1 \in 1 .. n /\ i + 1 = 2 * (k + 1) /\ i # Len(q)
          BY <1>2, <1>3, <3>1, <3>4
        <4>2. q[i + 1] = Calling("repool", olds[k + 1])
          BY <1>3, <4>1
        <4>3. Parent[olds[k]] = olds[k + 1]
          BY <1>1, <3>4
        <4> QED BY <1>4, <1>5, <3>2, <4>1, <4>2, <4>3
      <3> QED BY <3>3, <3>4
    <2>3. CASE \E k \in 1 .. m : i = 2 * n + 2 * k
      <3>1. PICK k \in 1 .. m : i = 2 * n + 2 * k
        BY <2>3
      <3>2. i # Len(q) /\ i + 1 = 2 * n + 2 * k + 1
        BY <1>2, <1>3, <3>1
      <3>3. q[i] = Calling("unpool", news[k]) /\ q[i + 1] = Calling("spend", news[k])
        BY <1>3, <3>1, <3>2
      <3> QED BY <1>4, <1>5, <3>2, <3>3
    <2>4. CASE \E k \in 1 .. m : i = 2 * n + 2 * k + 1
      <3>1. PICK k \in 1 .. m : i = 2 * n + 2 * k + 1
        BY <2>4
      <3>2. q[i] = Calling("spend", news[k])
        BY <1>3, <3>1
      <3>3. CASE k = m
        <4>1. i = Len(q)
          BY <1>3, <3>1, <3>3
        <4>2. news[k] = new
          BY <1>1, <1>2, <3>3
        <4> QED BY <1>4, <1>5, <3>2, <4>1, <4>2
      <3>4. CASE k # m
        <4>1. k + 1 \in 1 .. m /\ i + 1 = 2 * n + 2 * (k + 1) /\ i # Len(q)
          BY <1>2, <1>3, <3>1, <3>4
        <4>2. q[i + 1] = Calling("unpool", news[k + 1])
          BY <1>3, <4>1
        <4>3. Parent[news[k + 1]] = news[k]
          BY <1>1, <1>2, <4>1
        <4> QED BY <1>4, <1>5, <3>2, <4>1, <4>2, <4>3
      <3> QED BY <3>3, <3>4
    <2> QED BY <1>3, <2>1, <2>2, <2>3, <2>4
  <1>7. q # << >> /\ q[1].call = "index" /\ q[1].block = new
    BY <1>2, <1>3, <1>5
  <1>8. old = IF Len(q) = 1 THEN new ELSE Before(q[2])
    <2>1. Len(q) # 1 /\ 1 \in 1 .. n /\ 2 = 2 * 1
      BY <1>1, <1>2, <1>3
    <2>2. q[2] = Calling("repool", olds[1])
      BY <1>3, <2>1
    <2> QED BY <1>1, <1>5, <2>1, <2>2
  <1>9. LeadsFromTo(q, old, new)
    BY <1>6, <1>7, <1>8 DEF LeadsFromTo
  <1> QED BY <1>6, <1>7, <1>9 DEF q, olds, news, change

(***************************************************************************)
(* Every step of an undisturbed node                                       *)
(***************************************************************************)

\* The call on the pool comes before the call on the outputs, block by block.
Paired(q) ==
    \A i \in 1 .. Len(q) :
        IF q[i].call \in {"unpool", "repool"}
        THEN /\ i < Len(q)
             /\ q[i + 1].call =
                    IF q[i].call = "unpool" THEN "spend" ELSE "unspend"
             /\ q[i + 1].block = q[i].block
        ELSE i < Len(q) => q[i + 1].call \in {"unpool", "repool"}

LEMMA SwitchPaired ==
    ASSUME NEW olds \in Seq(Block), NEW news \in Seq(Block), NEW b
    PROVE  Paired(SwitchCalls(olds, news, b))
  <1> DEFINE q == SwitchCalls(olds, news, b)
             n == Len(olds)
             m == Len(news)
  <1>1. /\ n \in Nat /\ m \in Nat /\ Len(q) = 2 * n + 2 * m + 1
        /\ q[1] = Calling("index", b)
        /\ \A k \in 1 .. n : /\ q[2 * k] = Calling("repool", olds[k])
                             /\ q[2 * k + 1] = Calling("unspend", olds[k])
        /\ \A k \in 1 .. m :
              /\ q[2 * n + 2 * k] = Calling("unpool", news[k])
              /\ q[2 * n + 2 * k + 1] = Calling("spend", news[k])
        /\ \A i \in 2 .. 2 * n + 2 * m + 1 :
              \/ \E k \in 1 .. n : i = 2 * k \/ i = 2 * k + 1
              \/ \E k \in 1 .. m : i = 2 * n + 2 * k \/ i = 2 * n + 2 * k + 1
    <2>1. SwitchPositions(q, olds, news, b)
      BY SwitchQueue
    <2> QED BY <2>1 DEF SwitchPositions
  <1> DEFINE Good(i) ==
                 IF q[i].call \in {"unpool", "repool"}
                 THEN /\ i < Len(q)
                      /\ q[i + 1].call = IF q[i].call = "unpool"
                                         THEN "spend" ELSE "unspend"
                      /\ q[i + 1].block = q[i].block
                 ELSE i < Len(q) => q[i + 1].call \in {"unpool", "repool"}
  <1> HIDE DEF q, n, m
  \* What follows the index call or a pair: the next pair.
  <1>2. ASSUME NEW k \in 0 .. n, 2 * k + 1 < Len(q)
        PROVE  q[2 * k + 2].call \in {"unpool", "repool"}
    <2>1. CASE k < n
      <3>1. k + 1 \in 1 .. n /\ 2 * (k + 1) = 2 * k + 2
        BY <1>1, <2>1
      <3>2. q[2 * (k + 1)] = Calling("repool", olds[k + 1])
        BY <1>1, <3>1
      <3> QED BY <3>1, <3>2 DEF Calling
    <2>2. CASE k = n
      <3>1. 1 \in 1 .. m /\ 2 * n + 2 * 1 = 2 * k + 2
        BY <1>1, <1>2, <2>2
      <3>2. q[2 * n + 2 * 1] = Calling("unpool", news[1])
        BY <1>1, <3>1
      <3> QED BY <3>1, <3>2 DEF Calling
    <2> QED BY <1>1, <2>1, <2>2
  <1>3. Good(1)
    <2>1. 1 < Len(q) => q[2].call \in {"unpool", "repool"}
      <3>1. 0 \in 0 .. n /\ 2 * 0 + 1 = 1 /\ 2 * 0 + 2 = 2
        BY <1>1
      <3> QED BY <1>2, <3>1
    <2> QED BY <1>1, <2>1 DEF Calling
  <1>4. ASSUME NEW k \in 1 .. n PROVE Good(2 * k) /\ Good(2 * k + 1)
    <2>1. 2 * k < Len(q) /\ k \in 0 .. n /\ (2 * k + 1) + 1 = 2 * k + 2
      BY <1>1
    <2>2. 2 * k + 1 < Len(q) => q[(2 * k + 1) + 1].call \in {"unpool", "repool"}
      BY <1>2, <2>1
    <2>3. /\ q[2 * k].call = "repool" /\ q[2 * k].block = olds[k]
          /\ q[2 * k + 1].call = "unspend" /\ q[2 * k + 1].block = olds[k]
      <3>1. /\ q[2 * k] = Calling("repool", olds[k])
            /\ q[2 * k + 1] = Calling("unspend", olds[k])
        BY <1>1
      <3> QED BY <3>1 DEF Calling
    <2> QED BY <2>1, <2>2, <2>3
  <1>5. ASSUME NEW k \in 1 .. m
        PROVE  Good(2 * n + 2 * k) /\ Good(2 * n + 2 * k + 1)
    <2>1. 2 * n + 2 * k < Len(q)
      BY <1>1
    <2>2. ASSUME 2 * n + 2 * k + 1 < Len(q)
          PROVE  q[(2 * n + 2 * k + 1) + 1].call = "unpool"
      <3>1. k + 1 \in 1 .. m /\ 2 * n + 2 * (k + 1) = (2 * n + 2 * k + 1) + 1
        BY <1>1, <2>2
      <3>2. q[2 * n + 2 * (k + 1)] = Calling("unpool", news[k + 1])
        BY <1>1, <3>1
      <3> QED BY <3>1, <3>2 DEF Calling
    <2>3. /\ q[2 * n + 2 * k].call = "unpool"
          /\ q[2 * n + 2 * k].block = news[k]
          /\ q[2 * n + 2 * k + 1].call = "spend"
          /\ q[2 * n + 2 * k + 1].block = news[k]
      <3>1. /\ q[2 * n + 2 * k] = Calling("unpool", news[k])
            /\ q[2 * n + 2 * k + 1] = Calling("spend", news[k])
        BY <1>1
      <3> QED BY <3>1 DEF Calling
    <2> QED BY <2>1, <2>2, <2>3
  <1>6. ASSUME NEW i \in 1 .. Len(q) PROVE Good(i)
    <2> HIDE DEF Good
    <2>1. i = 1 \/ i \in 2 .. 2 * n + 2 * m + 1
      BY <1>1
    <2> QED BY <1>1, <1>3, <1>4, <1>5, <2>1
  <1>7. Paired(q)
    BY <1>6 DEF Paired
  <1> QED BY <1>7 DEF q

LEMMA CleanInit == Init => CleanInv
  <1> SUFFICES ASSUME Init PROVE Clean
    BY DEF CleanInv
  <1>1. /\ known = {Genesis} /\ tip = Genesis /\ todo = << >> /\ spentBy = {}
        /\ txBlocks = [x \in Ids |-> IF x = Genesis THEN <<Genesis>> ELSE << >>]
        /\ utxo = [o \in Outputs(Genesis) |-> Genesis]
    BY DEF Init, Store!Init
  <1>2. /\ TxsOf(Genesis) = {} /\ IdsOf(Genesis) = {Genesis}
        /\ Used(Genesis) = {} /\ Created(Genesis) = Outputs(Genesis)
    BY BlockTxsAssumption DEF TxsOf, IdsOf, Used, Created
  <1>3. /\ Genesis \in Block /\ Line[Genesis] = {Genesis}
        /\ Height[Genesis] = 0
    BY BlockAssumption, LineAssumption, ParentAssumption
  <1>4. TreeInv
    BY <1>1, <1>3 DEF TreeInv
  <1>5. Pending = {}
    BY <1>1 DEF Pending
  <1>6. IndexInv
    <2>1. \A x \in Ids : ToSet(txBlocks[x]) = {b \in known : x \in IdsOf(b)}
      BY <1>1, <1>2 DEF ToSet
    <2>2. Spendings(Genesis) = {}
      BY <1>2 DEF Spendings
    <2> QED BY <1>1, <1>5, <2>1, <2>2 DEF IndexInv
  <1>7. QueueInv
    BY <1>1 DEF QueueInv
  <1>8. UtxoInv
    <2>1. Standing = Genesis
      BY <1>1, <1>5 DEF Standing, StandsFor
    <2>2. \A o \in Outputs(Genesis) : o \in Unspent[Genesis]
      BY <1>2, <1>3, UnspentMeaning
    <2> QED BY <1>1, <1>2, <1>3, <2>1, <2>2 DEF UtxoInv
  <1>9. NoDoubleSpend
    BY <1>1 DEF NoDoubleSpend
  <1> QED BY <1>4, <1>6, <1>7, <1>8, <1>9 DEF Clean

\* The calls after a block was added lead to the new top.
LEMMA AddedLeads ==
    ASSUME BaseInv, TreeInv, NEW b \in Block, b \notin known, Parent[b] \in known
    PROVE  /\ LeadsFromTo(CallsAfter(b), tip,
                          IF Height[b] > Height[tip] THEN b ELSE tip)
           /\ CallsAfter(b)[1].block = b
           /\ Paired(CallsAfter(b))
           /\ \A i \in 2 .. Len(CallsAfter(b)) :
                 CallsAfter(b)[i].block \in (known \cup {b}) \ {Genesis}
  <1>1. /\ tip \in Block /\ tip \in known /\ known \subseteq Block
        /\ Height[tip] \in Nat /\ Height[b] \in Nat
    BY LineTop DEF BaseInv, TypeOK, TreeInv
  <1>2. Genesis \in known /\ b # Genesis
    BY <1>1, LineTop DEF TreeInv
  <1>3. /\ Parent[b] \in Block /\ Height[b] = Height[Parent[b]] + 1
        /\ Height[Parent[b]] <= Height[tip] /\ Line[b] = Line[Parent[b]] \cup {b}
        /\ Line[b] \subseteq known \cup {b} /\ Line[tip] \subseteq known
    BY <1>1, <1>2, PreviousBlock DEF TreeInv
  <1>4. CASE Height[b] <= Height[tip]
    <2>1. CallsAfter(b) = <<Calling("index", b)>>
      BY <1>4 DEF CallsAfter
    <2>2. ~(Height[b] > Height[tip])
      BY <1>1, <1>4
    <2>3. Paired(CallsAfter(b))
      BY <2>1 DEF Paired, Calling
    <2> QED BY <2>1, <2>2, <2>3 DEF LeadsFromTo, Calling
  <1>5. CASE Height[b] > Height[tip] /\ Parent[b] = tip
    <2> DEFINE C == {Calling(c, b) : c \in {"index", "unpool", "spend"}}
               head == <<Calling("index", b)>>
               rest == <<Calling("unpool", b), Calling("spend", b)>>
    <2>1. CallsAfter(b) = head \o rest
      <3>1. ~(Height[b] <= Height[tip])
        BY <1>1, <1>5
      <3> QED BY <1>5, <3>1 DEF CallsAfter
    <2>2. /\ head \in Seq(C) /\ Len(head) = 1 /\ head[1] = Calling("index", b)
          /\ rest \in Seq(C) /\ Len(rest) = 2 /\ rest[1] = Calling("unpool", b)
          /\ rest[2] = Calling("spend", b)
      OBVIOUS
    <2> HIDE DEF C, head, rest
    <2>3. /\ head \o rest \in Seq(C) /\ Len(head \o rest) = Len(head) + Len(rest)
          /\ \A i \in 1 .. Len(head) : (head \o rest)[i] = head[i]
          /\ \A i \in 1 .. Len(rest) : (head \o rest)[Len(head) + i] = rest[i]
      <3>1. head \in Seq(C) /\ rest \in Seq(C)
        BY <2>2
      <3> QED BY <3>1
    <2> DEFINE q == CallsAfter(b)
    <2>4. /\ Len(q) = 3 /\ q # << >> /\ q[1] = Calling("index", b)
          /\ q[2] = Calling("unpool", b) /\ q[3] = Calling("spend", b)
      BY <2>1, <2>2, <2>3
    <2> HIDE DEF q
    <2>5. LeadsFromTo(q, tip, b)
      <3>1. 2 .. 3 = {2, 3}
        OBVIOUS
      <3> QED BY <1>5, <2>4, <3>1 DEF LeadsFromTo, Calling, Before, After
    <2>6. q[1].block = b /\ \A i \in 2 .. Len(q) : q[i].block = b
      <3>1. 2 .. 3 = {2, 3}
        OBVIOUS
      <3> QED BY <2>4, <3>1 DEF Calling
    <2>7. Paired(q)
      <3>1. 1 .. 3 = {1, 2, 3}
        OBVIOUS
      <3> QED BY <2>4, <3>1 DEF Paired, Calling
    <2> QED BY <1>2, <1>5, <2>5, <2>6, <2>7 DEF q
  <1>6. CASE Height[b] > Height[tip] /\ Parent[b] # tip
    <2>1. ~SideBranchFails(tip, b)
      <3>1. Height[tip] # 0
        <4> SUFFICES ASSUME Height[tip] = 0 PROVE FALSE
          OBVIOUS
        <4>1. Height[Parent[b]] = 0
          BY <1>3, LineTop
        <4>2. \A c \in Block : Height[c] = 0 => c = Genesis
          BY PreviousBlock
        <4> QED BY <1>1, <1>3, <1>6, <4>1, <4>2
      <3> QED BY <1>1, <1>6, <3>1 DEF SideBranchFails
    <2>2. tip \notin Line[b]
      <3> SUFFICES ASSUME tip \in Line[b] PROVE FALSE
        OBVIOUS
      <3>1. tip \in Line[Parent[b]]
        BY <1>1, <1>3, <1>6
      <3>2. Height[tip] <= Height[Parent[b]]
        BY <1>3, <3>1, LineTop
      <3>3. Parent[b] \in Line[Parent[b]] /\ Height[tip] = Height[Parent[b]]
        BY <1>1, <1>3, <3>2, LineTop
      <3> QED BY <1>3, <1>6, <3>1, <3>3, SameLine
    <2> DEFINE change == GetBranchesReplacement(tip, b)
               q == SwitchCalls(change.old, change.new, b)
    <2>3. CallsAfter(b) = q
      <3>1. ~(Height[b] <= Height[tip])
        BY <1>1, <1>6
      <3> QED BY <1>6, <2>1, <3>1 DEF CallsAfter, SwitchCalls
    <2>4. /\ LeadsFromTo(q, tip, b) /\ q[1].block = b
          /\ \A i \in 2 .. Len(q) :
                q[i].block \in (Line[tip] \ Line[b]) \cup (Line[b] \ Line[tip])
      BY <1>1, <1>6, <2>2, SwitchLeads
    <2>5. Genesis \in Line[tip] /\ Genesis \in Line[b]
      BY <1>1, LineTop
    <2>6. Paired(q)
      <3>1. change.old \in Seq(Block) /\ change.new \in Seq(Block)
        BY <1>1, <1>6, <2>2, ReplacementFacts
      <3> HIDE DEF change
      <3> QED BY <3>1, SwitchPaired
    <2> HIDE DEF q
    <2> QED BY <1>3, <1>6, <2>3, <2>4, <2>5, <2>6
  <1> QED BY <1>1, <1>4, <1>5, <1>6

LEMMA AddBlockClean ==
    ASSUME BaseInv, Clean, Idle, NEW b \in Block, AddBlock(b),
           UNCHANGED <<caches, bounds>>
    PROVE  Clean'
  <1> DEFINE q == CallsAfter(b)
             top == IF Height[b] > Height[tip] THEN b ELSE tip
  <1>1. /\ b \notin known /\ Parent[b] \in known /\ VerifyBlock(b)
        /\ known' = known \cup {b} /\ tip' = top /\ todo' = q
        /\ UNCHANGED <<txBlocks, spentBy, utxo>>
    BY DEF AddBlock, CanAdd, Store!Add, caches, index
  <1>2. /\ TreeInv /\ IndexInv /\ QueueInv /\ UtxoInv /\ NoDoubleSpend
        /\ todo = << >> /\ Pending = {} /\ Standing = tip
        /\ tip \in Block /\ known \subseteq Block /\ tip \in known
    BY DEF Clean, Idle, Pending, Standing, StandsFor, TreeInv, BaseInv, TypeOK
  <1>3. /\ LeadsFromTo(q, tip, top) /\ q[1].block = b
        /\ \A i \in 2 .. Len(q) : q[i].block \in known' \ {Genesis}
        /\ q \in Seq(Call)
    BY <1>1, <1>2, AddedLeads, CallsAfterType
  <1>4. /\ b # Genesis /\ Line[b] \subseteq known' /\ Height[b] \in Nat
        /\ Height[tip] \in Nat
    <2>1. b # Genesis
      BY <1>1, <1>2, LineTop DEF TreeInv
    <2>2. Line[b] = Line[Parent[b]] \cup {b}
      BY <2>1, PreviousBlock
    <2>3. Line[Parent[b]] \subseteq known
      BY <1>1, <1>2 DEF TreeInv
    <2> QED BY <1>1, <1>2, <2>1, <2>2, <2>3, LineTop
  <1> HIDE DEF q, top
  <1>5. TreeInv'
    <2>1. \A c \in known : Line[c] \subseteq known' /\ Height[c] <= Height[tip]
                           /\ Height[c] \in Nat
      BY <1>1, <1>2, LineTop DEF TreeInv
    <2>2. top \in known' /\ Height[top] \in Nat /\ Height[tip] <= Height[top]
          /\ Height[b] <= Height[top]
      BY <1>1, <1>2, <1>4 DEF top
    <2> QED BY <1>1, <1>4, <2>1, <2>2 DEF TreeInv
  <1>6. Len(q) \in Nat /\ Len(q) > 0 /\ DOMAIN q = 1 .. Len(q) /\ q # << >>
        /\ Head(q) = q[1] /\ q[1].call = "index"
    BY <1>3, QueueFacts DEF LeadsFromTo
  <1>7. Pending' = {b}
    BY <1>1, <1>3, <1>6 DEF Pending, Current
  <1>8. IndexInv'
    <2>1. known' \ Pending' = known
      BY <1>1, <1>7
    <2> QED BY <1>1, <1>2, <2>1 DEF IndexInv
  <1>9. QueueInv'
    <2>1. ASSUME NEW i \in DOMAIN q
          PROVE  /\ q[i].call \in {"index", "unpool", "spend", "repool", "unspend"}
                 /\ q[i].block \in known' \ {Genesis}
                 /\ q[i].call = "index" => i = 1
                 /\ q[i].call # "index" =>
                       After(q[i]) = IF i + 1 > Len(q) THEN top ELSE Before(q[i + 1])
      <3>1. CASE i = 1
        BY <1>1, <1>3, <1>4, <1>6, <3>1
      <3>2. CASE i # 1
        <4>1. i \in 2 .. Len(q) /\ (i = Len(q) <=> i + 1 > Len(q))
          BY <1>6, <3>2
        <4> QED BY <1>3, <4>1 DEF LeadsFromTo
      <3> QED BY <3>1, <3>2
    <2> QED BY <1>1, <2>1 DEF QueueInv, StandsFor, After, Before
  <1>10. Standing' = tip
    <2>1. Standing' = IF 2 > Len(q) THEN top ELSE Before(q[2])
      BY <1>1, <1>7 DEF Standing, StandsFor, Before
    <2>2. 2 > Len(q) <=> Len(q) = 1
      BY <1>6
    <2>3. tip = IF Len(q) = 1 THEN top ELSE Before(q[2])
      BY <1>3 DEF LeadsFromTo
    <2> QED BY <2>1, <2>2, <2>3
  <1>11. UtxoInv'
    BY <1>1, <1>2, <1>10 DEF UtxoInv
  <1>12. NoDoubleSpend'
    <2>1. ValidOnBranch(b)
      BY <1>1, <1>2, VerifiedIsValid
    <2> QED BY <1>1, <1>2, <2>1 DEF NoDoubleSpend
  <1> QED BY <1>5, <1>8, <1>9, <1>11, <1>12 DEF Clean

\* A call is made: the others still lead to the top, and the caches are to
\* stand for the branch this one leads to.
LEMMA CallClean ==
    ASSUME BaseInv, Clean, todo # << >>, Done
    PROVE  /\ TreeInv' /\ QueueInv' /\ NoDoubleSpend' /\ Pending' = {}
           /\ Current \in known \ {Genesis} /\ Current \in Block
           /\ Head(todo).call \in {"index", "unpool", "spend", "repool", "unspend"}
           /\ Head(todo).call # "index" => /\ Pending = {}
                                           /\ Standing = Before(Head(todo))
                                           /\ Standing' = After(Head(todo))
           /\ Head(todo).call = "index" => /\ Pending = {Current}
                                           /\ Standing' = Standing
  <1>1. /\ todo \in Seq(Call) /\ todo' = Tail(todo)
        /\ UNCHANGED <<known, tip, main>>
        /\ TreeInv /\ QueueInv /\ NoDoubleSpend /\ known \subseteq Block
    BY DEF BaseInv, TypeOK, Done, store, Clean
  <1>2. /\ Len(todo) \in Nat \ {0} /\ DOMAIN todo = 1 .. Len(todo)
        /\ Len(Tail(todo)) = Len(todo) - 1
        /\ DOMAIN Tail(todo) = 1 .. Len(todo) - 1
        /\ Head(todo) = todo[1]
        /\ \A i \in 1 .. Len(todo) - 1 : Tail(todo)[i] = todo[i + 1]
    <2>1. Tail(todo) \in Seq(Call)
      BY <1>1, QueueFacts
    <2> QED BY <1>1, <2>1, QueueFacts
  <1>3. TreeInv' /\ NoDoubleSpend'
    BY <1>1 DEF TreeInv, NoDoubleSpend
  <1>4. \A i \in 1 .. Len(todo) : StandsFor(i)' = StandsFor(i + 1)
    <2> TAKE i \in 1 .. Len(todo)
    <2>1. StandsFor(i)' = IF i > Len(Tail(todo)) THEN tip ELSE Before(Tail(todo)[i])
      BY <1>1 DEF StandsFor, Before
    <2>2. CASE i = Len(todo)
      BY <1>2, <2>1, <2>2 DEF StandsFor
    <2>3. CASE i # Len(todo)
      <3> DEFINE n == Len(todo)
                 m == Len(Tail(todo))
      <3>0. n \in Nat /\ m = n - 1 /\ i \in 1 .. n /\ i # n
        BY <1>2, <2>3
      <3>1. i \in 1 .. n - 1 /\ ~(i > m) /\ ~(i + 1 > n)
        <4> HIDE DEF n, m
        <4> QED BY <3>0
      <3>2. Tail(todo)[i] = todo[i + 1]
        BY <1>2, <3>1
      <3>3. StandsFor(i)' = Before(todo[i + 1])
        BY <2>1, <3>1, <3>2
      <3>4. StandsFor(i + 1) = Before(todo[i + 1])
        BY <3>1 DEF StandsFor
      <3> QED BY <3>3, <3>4
    <2> QED BY <2>2, <2>3
  <1>5. QueueInv'
    <2>1. ASSUME NEW i \in 1 .. Len(todo) - 1
          PROVE  /\ Tail(todo)[i].call \in
                        {"index", "unpool", "spend", "repool", "unspend"}
                 /\ Tail(todo)[i].block \in known \ {Genesis}
                 /\ Tail(todo)[i].call # "index"
                 /\ After(Tail(todo)[i]) = StandsFor(i + 1)'
      <3>1. /\ i + 1 \in DOMAIN todo /\ i + 1 # 1 /\ i + 1 \in 1 .. Len(todo)
            /\ Tail(todo)[i] = todo[i + 1]
        BY <1>2
      <3>2. /\ todo[i + 1].call \in
                   {"index", "unpool", "spend", "repool", "unspend"}
            /\ todo[i + 1].block \in known \ {Genesis}
            /\ todo[i + 1].call # "index"
            /\ After(todo[i + 1]) = StandsFor((i + 1) + 1)
        BY <1>1, <3>1 DEF QueueInv
      <3> QED BY <1>4, <3>1, <3>2
    <2>2. DOMAIN todo' = 1 .. Len(todo) - 1
      BY <1>1, <1>2
    <2> QED BY <1>1, <2>1, <2>2 DEF QueueInv, After
  <1>6. /\ Head(todo).call \in {"index", "unpool", "spend", "repool", "unspend"}
        /\ Current \in known \ {Genesis} /\ Current \in Block
        /\ Head(todo).call # "index" => After(Head(todo)) = StandsFor(2)
    BY <1>1, <1>2 DEF QueueInv, Current
  <1>7. Pending' = {}
    <2>1. CASE Len(todo) = 1
      <3>1. todo' = << >>
        BY <1>1, <1>2, <2>1
      <3> QED BY <3>1 DEF Pending
    <2>2. CASE Len(todo) # 1
      <3>0. 1 \in 1 .. Len(todo) - 1 /\ 2 \in DOMAIN todo
        BY <1>2, <2>2
      <3>1. Tail(todo) # << >> /\ Head(Tail(todo)) = todo[2] /\ 2 \in DOMAIN todo
        <4>1. Tail(todo)[1] = todo[2]
          BY <1>2, <3>0
        <4>2. Tail(todo) # << >>
          <5> DEFINE r == Tail(todo)
          <5>1. 1 \in DOMAIN r
            BY <1>2, <3>0
          <5> HIDE DEF r
          <5>2. r # << >>
            BY <5>1
          <5> QED BY <5>2 DEF r
        <4>3. Tail(todo) \in Seq(Call)
          BY <1>1, QueueFacts
        <4>4. Head(Tail(todo)) = Tail(todo)[1]
          <5> DEFINE r == Tail(todo)
          <5>1. r \in Seq(Call) /\ r # << >>
            BY <4>2, <4>3
          <5> HIDE DEF r
          <5>2. Head(r) = r[1]
            BY <5>1
          <5> QED BY <5>2 DEF r
        <4> QED BY <3>0, <4>1, <4>2, <4>4
      <3>2. todo[2].call # "index"
        BY <1>1, <3>1 DEF QueueInv
      <3> QED BY <1>1, <3>1, <3>2 DEF Pending
    <2> QED BY <2>1, <2>2
  <1>8. Standing' = StandsFor(2)
    BY <1>2, <1>4, <1>7 DEF Standing
  <1>9. Head(todo).call = "index" => Pending = {Current} /\ Standing = StandsFor(2)
    BY DEF Pending, Standing
  <1>10. Head(todo).call # "index" => Pending = {} /\ Standing = Before(Head(todo))
    <2>1. StandsFor(1) = Before(Head(todo))
      BY <1>2 DEF StandsFor
    <2> QED BY <2>1 DEF Pending, Standing
  <1> QED BY <1>3, <1>5, <1>6, <1>7, <1>8, <1>9, <1>10

LEMMA IndexClean ==
    ASSUME BaseInv, Clean, IndexBlockAdded PROVE Clean'
  <1> DEFINE b == Current
  <1>1. /\ todo # << >> /\ Head(todo).call = "index" /\ Done
        /\ IndexBlock(b) /\ UNCHANGED <<utxo, pool>>
    BY DEF IndexBlockAdded, Running
  <1>2. /\ TreeInv' /\ QueueInv' /\ NoDoubleSpend' /\ Pending' = {}
        /\ b \in known /\ b \in Block /\ Pending = {b} /\ Standing' = Standing
    BY <1>1, CallClean
  <1>3. known' = known
    BY <1>1 DEF Done, store
  <1> HIDE DEF b
  <1>4. IndexInv'
    <2>1. ASSUME NEW x \in Ids
          PROVE  ToSet(txBlocks'[x]) = {c \in known : x \in IdsOf(c)}
      <3>1. /\ txBlocks[x] \in Seq(Block)
            /\ ToSet(txBlocks[x]) = {c \in known \ {b} : x \in IdsOf(c)}
        BY <1>2 DEF BaseInv, TypeOK, Clean, IndexInv
      <3>2. CASE x \in IdsOf(b)
        <4> DEFINE s == txBlocks[x]
        <4>1. txBlocks'[x] = Append(s, b)
          BY <1>1, <3>2 DEF IndexBlock
        <4>2. s \in Seq(Block) /\ Len(s) \in Nat /\ DOMAIN s = 1 .. Len(s)
          BY <3>1
        <4> HIDE DEF s
        <4>3. /\ DOMAIN Append(s, b) = 1 .. Len(s) + 1
              /\ \A i \in 1 .. Len(s) : Append(s, b)[i] = s[i]
              /\ Append(s, b)[Len(s) + 1] = b
          BY <4>2, <1>2
        <4>4. ToSet(Append(s, b)) = ToSet(s) \cup {b}
          BY <4>2, <4>3 DEF ToSet
        <4> QED BY <1>2, <3>1, <3>2, <4>1, <4>4 DEF s
      <3>3. CASE x \notin IdsOf(b)
        <4>1. txBlocks'[x] = txBlocks[x]
          BY <1>1, <3>3 DEF IndexBlock
        <4> QED BY <1>2, <3>1, <3>3, <4>1
      <3> QED BY <3>2, <3>3
    <2>2. spentBy' = UNION {Spendings(c) : c \in known}
      <3>1. spentBy = UNION {Spendings(c) : c \in known \ {b}}
        BY <1>2 DEF Clean, IndexInv
      <3>2. spentBy' = spentBy \cup Spendings(b)
        BY <1>1 DEF IndexBlock
      <3> QED BY <1>2, <3>1, <3>2
    <2>3. known' \ Pending' = known
      BY <1>2, <1>3
    <2> QED BY <2>1, <2>2, <2>3 DEF IndexInv
  <1>5. UtxoInv'
    BY <1>1, <1>2, <1>3 DEF Clean, UtxoInv
  <1> QED BY <1>2, <1>4, <1>5 DEF Clean

\* The calls that do not touch the index.
LEMMA OtherCallClean ==
    ASSUME BaseInv, Clean, todo # << >>, Head(todo).call # "index", Done,
           UNCHANGED index,
           LET p == After(Head(todo))
           IN  \A o \in DOMAIN utxo' : /\ o \in Unspent[p]
                                       /\ utxo'[o] \in Line[p]
                                       /\ o \in Created(utxo'[o]),
           After(Head(todo)) \in known
    PROVE  Clean'
  <1>1. /\ TreeInv' /\ QueueInv' /\ NoDoubleSpend' /\ Pending' = {}
        /\ Pending = {} /\ Standing' = After(Head(todo))
    BY CallClean
  <1>2. known' = known /\ txBlocks' = txBlocks /\ spentBy' = spentBy
    BY DEF Done, store, index
  <1>3. IndexInv'
    BY <1>1, <1>2 DEF Clean, IndexInv
  <1>4. UtxoInv'
    BY <1>1, <1>2 DEF UtxoInv
  <1> QED BY <1>1, <1>3, <1>4 DEF Clean

LEMMA PoolCallClean ==
    ASSUME BaseInv, Clean, DeleteFromBlock \/ AddFromCanceled PROVE Clean'
  <1>1. /\ todo # << >> /\ Head(todo).call \in {"unpool", "repool"} /\ Done
        /\ UNCHANGED <<index, utxo>>
    BY DEF DeleteFromBlock, AddFromCanceled, Running
  <1>2. Before(Head(todo)) = After(Head(todo)) /\ Head(todo).call # "index"
    BY <1>1 DEF Before, After
  <1>3. Standing = After(Head(todo))
    BY <1>1, <1>2, CallClean
  <1>4. /\ Standing \in known
        /\ \A o \in DOMAIN utxo : /\ o \in Unspent[Standing]
                                  /\ utxo[o] \in Line[Standing]
                                  /\ o \in Created(utxo[o])
    BY DEF Clean, UtxoInv
  <1> HIDE DEF Standing
  <1> QED BY <1>1, <1>2, <1>3, <1>4, OtherCallClean

\* A block is added: it stands on the branch the outputs are those of.
LEMMA SpendClean ==
    ASSUME BaseInv, Clean, UpdateOnBlockAdd PROVE Clean'
  <1> DEFINE b == Current
             p == Parent[b]
  <1>1. /\ todo # << >> /\ Head(todo).call = "spend" /\ Done
        /\ Spend(b) /\ UNCHANGED index /\ Head(todo).block = b
    BY DEF UpdateOnBlockAdd, Running, Current
  <1>2. /\ b \in known \ {Genesis} /\ b \in Block /\ Standing = Before(Head(todo))
    BY <1>1, CallClean
  <1>3. Standing = p /\ After(Head(todo)) = b
    BY <1>1, <1>2 DEF Before, After
  <1>4. \A o \in DOMAIN utxo : /\ o \in Unspent[p] /\ utxo[o] \in Line[p]
                               /\ o \in Created(utxo[o])
    BY <1>3 DEF Clean, UtxoInv
  <1>5. /\ Unspent[b] = (Unspent[p] \cup Created(b)) \ Used(b)
        /\ Line[b] = Line[p] \cup {b}
    BY <1>2, UnspentStep, PreviousBlock
  <1> HIDE DEF b, p
  <1>6. ASSUME NEW o \in DOMAIN utxo'
        PROVE  o \in Unspent[b] /\ utxo'[o] \in Line[b] /\ o \in Created(utxo'[o])
    <2>1. /\ o \in (DOMAIN utxo \cup Created(b)) \ Used(b)
          /\ utxo'[o] = IF o \in Created(b) THEN b ELSE utxo[o]
      BY <1>1 DEF Spend
    <2> QED BY <1>4, <1>5, <2>1
  <1> QED BY <1>1, <1>2, <1>3, <1>6, OtherCallClean

\* A block is cancelled: its outputs go, and those that come back are unspent
\* under its previous block.
LEMMA CancelClean ==
    ASSUME BaseInv, Clean, UpdateOnBlockCancel PROVE Clean'
  <1> DEFINE b == Current
             prev == Parent[b]
             Fails(i) == TxFails(Txs[b][i], prev)
             reached == {i \in DOMAIN Txs[b] : \A j \in 1 .. i - 1 : ~Fails(j)}
             deleted == {Txs[b][i] : i \in reached} \cup
                        (IF \E i \in reached : Fails(i) THEN {} ELSE {b})
             restored == UNION {RestoredOf(Txs[b][i], prev) : i \in reached}
             kept == {o \in DOMAIN utxo : o[1] \notin deleted \cup restored}
             back == UNION {DOMAIN Restored(x, prev) : x \in restored}
  <1>1. /\ todo # << >> /\ Head(todo).call = "unspend" /\ Done
        /\ UNCHANGED index /\ Head(todo).block = b
        /\ utxo' = [o \in kept \cup back |->
                        IF o \in back THEN Restored(o[1], prev)[o] ELSE utxo[o]]
    BY DEF UpdateOnBlockCancel, Running, Current
  <1>2. /\ b \in known \ {Genesis} /\ b \in Block /\ Pending = {}
        /\ Standing = Before(Head(todo))
    BY <1>1, CallClean
  <1>3. Standing = b /\ After(Head(todo)) = prev
    BY <1>1, <1>2 DEF Before, After
  <1>4. \A o \in DOMAIN utxo : /\ o \in Unspent[b] /\ utxo[o] \in Line[b]
                               /\ o \in Created(utxo[o])
    BY <1>3 DEF Clean, UtxoInv
  <1>5. /\ Unspent[b] = (Unspent[prev] \cup Created(b)) \ Used(b)
        /\ Line[b] = Line[prev] \cup {b} /\ prev \in Block
        /\ prev \in known /\ tip \in Block
        /\ TreeInv /\ IndexInv
    <2>1. /\ Line[b] = Line[prev] \cup {b} /\ prev \in Block /\ prev \in Line[b]
      BY <1>2, PreviousBlock
    <2> QED BY <1>2, <2>1, UnspentStep DEF Clean, TreeInv, BaseInv, TypeOK
  \* Every block of a record is stored, so no query fails.
  <1>6. ASSUME NEW x \in Ids, HeldUnder(x, prev) # None
        PROVE  /\ ~SpendingsFail(x, HeldUnder(x, prev), prev)
               /\ \A o \in DOMAIN Restored(x, prev) :
                     /\ o[1] = x /\ o \in Unspent[prev]
                     /\ Restored(x, prev)[o] \in Line[prev]
                     /\ o \in Created(Restored(x, prev)[o])
    <2> DEFINE bottom == HeldUnder(x, prev)
    <2>1. /\ bottom \in Line[prev] /\ Outputs(x) \subseteq Created(bottom)
          /\ ~SpendingsFail(x, bottom, prev)
          /\ Outputs(x) \ GetTranactionOutputsSpent(x, bottom, prev)
                \subseteq Unspent[prev]
      BY <1>2, <1>5, <1>6, IndexAnswers
    <2>2. /\ DOMAIN Restored(x, prev) =
                Outputs(x) \ GetTranactionOutputsSpent(x, bottom, prev)
          /\ \A o \in DOMAIN Restored(x, prev) : Restored(x, prev)[o] = bottom
      BY DEF Restored
    <2>3. \A o \in Outputs(x) : o[1] = x
      BY DEF Outputs
    <2> HIDE DEF bottom
    <2> QED BY <2>1, <2>2, <2>3 DEF bottom
  <1>7. ASSUME NEW i \in DOMAIN Txs[b], NEW k \in DOMAIN Ins[Txs[b][i]]
        PROVE  /\ Ins[Txs[b][i]][k][1] \in Ids
               /\ Reached(Txs[b][i], k, prev) =>
                     HeldUnder(Ins[Txs[b][i]][k][1], prev) # None
    <2>1. Ins[Txs[b][i]] \in Seq(Output)
      <3>1. Txs[b][i] \in Tx
        BY <1>2, BlockContents
      <3> QED BY <3>1, TxAssumption DEF Output
    <2>2. Ins[Txs[b][i]][k] \in Output /\ k \in 1 .. k
      BY <2>1
    <2> QED BY <2>2 DEF Output, Outputs, Reached
  <1>8. \A i \in DOMAIN Txs[b] : ~Fails(i)
    BY <1>6, <1>7 DEF TxFails, InputFails
  <1>9. deleted = IdsOf(b)
    <2>1. reached = DOMAIN Txs[b]
      <3>1. \A i \in DOMAIN Txs[b] : \A j \in 1 .. i - 1 : j \in DOMAIN Txs[b]
        <4>1. Txs[b] \in Seq(Tx)
          BY <1>2, BlockTxsAssumption
        <4> QED BY <4>1
      <3> HIDE DEF Fails
      <3> QED BY <1>8, <3>1
    <2> HIDE DEF reached
    <2>2. deleted = {Txs[b][i] : i \in reached} \cup {b}
      BY <1>8, <2>1
    <2> QED BY <2>1, <2>2 DEF IdsOf, TxsOf
  <1>10. \A x \in restored : x \in Ids /\ HeldUnder(x, prev) # None
    <2> TAKE x \in restored
    <2>1. PICK i \in DOMAIN Txs[b] : x \in RestoredOf(Txs[b][i], prev)
      OBVIOUS
    <2>2. PICK k \in DOMAIN Ins[Txs[b][i]] :
              x = Ins[Txs[b][i]][k][1] /\ Reached(Txs[b][i], k, prev)
      BY <2>1 DEF RestoredOf
    <2> QED BY <1>7, <2>2
  <1>11. ASSUME NEW o \in back
         PROVE  /\ o \in Unspent[prev]
                /\ Restored(o[1], prev)[o] \in Line[prev]
                /\ o \in Created(Restored(o[1], prev)[o])
    <2>1. PICK x \in restored : o \in DOMAIN Restored(x, prev)
      OBVIOUS
    <2> HIDE DEF restored
    <2> QED BY <1>6, <1>10, <2>1
  <1>12. ASSUME NEW o \in kept
         PROVE  /\ o \in Unspent[prev] /\ utxo[o] \in Line[prev]
                /\ o \in Created(utxo[o])
    <2>1. o \in DOMAIN utxo /\ o[1] \notin IdsOf(b)
      BY <1>9
    <2>2. o \notin Created(b)
      BY <1>2, <2>1, BlockContents
    <2> QED BY <1>4, <1>5, <2>1, <2>2
  <1> HIDE DEF b, prev, kept, back
  <1>13. ASSUME NEW o \in DOMAIN utxo'
         PROVE  /\ o \in Unspent[prev] /\ utxo'[o] \in Line[prev]
                /\ o \in Created(utxo'[o])
    <2>1. /\ o \in kept \cup back
          /\ utxo'[o] = IF o \in back THEN Restored(o[1], prev)[o] ELSE utxo[o]
      BY <1>1
    <2> QED BY <1>11, <1>12, <2>1
  <1> QED BY <1>1, <1>3, <1>5, <1>13, OtherCallClean

\* Operations on transactions leave the store, the index, the outputs and the
\* queue alone.
LEMMA SameClean ==
    ASSUME Clean, UNCHANGED <<store, index, utxo, todo>> PROVE Clean'
  <1>1. UNCHANGED <<known, tip, main, txBlocks, spentBy, utxo, todo>>
    BY DEF store, index
  <1>2. TreeInv' /\ NoDoubleSpend'
    BY <1>1 DEF Clean, TreeInv, NoDoubleSpend
  <1>3. Pending' = Pending /\ \A i : StandsFor(i)' = StandsFor(i)
    BY <1>1 DEF Pending, Current, StandsFor, Before
  <1>4. IndexInv' /\ QueueInv'
    BY <1>1, <1>3 DEF Clean, IndexInv, QueueInv, After
  <1>5. UtxoInv'
    BY <1>1, <1>3 DEF Clean, UtxoInv, Standing
  <1> QED BY <1>2, <1>4, <1>5 DEF Clean

LEMMA CleanNext == BaseInv /\ CleanInv /\ [Next]_vars => CleanInv'
  <1> SUFFICES ASSUME BaseInv, CleanInv, [Next]_vars, Undisturbed' PROVE Clean'
    BY DEF CleanInv
  <1>T. /\ crashes \in Nat /\ drops \in Nat /\ reindexes \in Nat
        /\ known \subseteq Block
    BY LedgerAssumption DEF BaseInv, TypeOK
  <1>U. /\ UNCHANGED bounds => Clean
        /\ UNCHANGED <<drops, reindexes>> /\ crashes' \in {crashes, crashes + 1} => Clean
    BY <1>T DEF CleanInv, Undisturbed, bounds
  <1>1. ASSUME NEW b \in Block, ReceivedFullBlockFromOtherNode(b) PROVE Clean'
    BY <1>1, <1>U, AddBlockClean DEF ReceivedFullBlockFromOtherNode, bounds
  <1>2. ASSUME NEW t \in Tx, ReceivedNewTransaction(t) \/ CancelTransaction(t)
        PROVE  Clean'
    BY <1>2, <1>U, SameClean DEF ReceivedNewTransaction, CancelTransaction
  <1>3. CASE PrepareNewBlock \/ PrepareFails \/ CleanUnapprovedCache
    BY <1>3, <1>U, SameClean DEF PrepareNewBlock, PrepareFails, CleanUnapprovedCache
  <1>4. CASE MineBlock
    <2>1. /\ Idle /\ prepared \in Block /\ UNCHANGED <<caches, bounds>> /\ Clean
          /\ AddBlock(prepared) \/ UNCHANGED <<store, todo>>
      BY <1>4, <1>U, BlockTxsAssumption DEF MineBlock, BaseInv, TypeOK, bounds
    <2>2. CASE AddBlock(prepared)
      BY <2>1, <2>2, AddBlockClean
    <2>3. CASE UNCHANGED <<store, todo>>
      BY <2>1, <2>3, SameClean DEF caches
    <2> QED BY <2>1, <2>2, <2>3
  <1>5. CASE DropBlock \/ ReindexData \/ Crash
    BY <1>5, <1>T DEF DropBlock, ReindexData, Crash, Undisturbed
  <1>6. CASE IndexBlockAdded
    BY <1>6, <1>U, IndexClean DEF IndexBlockAdded, Done
  <1>7. CASE DeleteFromBlock \/ AddFromCanceled
    BY <1>7, <1>U, PoolCallClean DEF DeleteFromBlock, AddFromCanceled, Done
  <1>8. CASE UpdateOnBlockAdd
    BY <1>8, <1>U, SpendClean DEF UpdateOnBlockAdd, Done
  <1>9. CASE UpdateOnBlockCancel
    BY <1>9, <1>U, CancelClean DEF UpdateOnBlockCancel, Done
  <1>10. CASE \/ IndexBlockRemoved \/ IndexTruncateDB \/ UtxoTruncateDB
              \/ RecordsStored
    <2>1. /\ todo # << >> /\ Done
          /\ Head(todo).call \in {"unindex", "reindex", "empty", "respend"}
      BY <1>10 DEF IndexBlockRemoved, IndexTruncateDB, UtxoTruncateDB,
                   RecordsStored, Running
    <2>2. Clean
      BY <1>U, <2>1 DEF Done
    <2> QED BY <2>1, <2>2, CallClean
  <1>11. CASE Panic \/ \E x \in Ids : StoreRecord(x)
    <2>1. /\ todo # << >> /\ Head(todo).call \in {"panic", "respend"}
          /\ UNCHANGED <<crashes, drops, reindexes>>
      BY <1>11 DEF Panic, StoreRecord, Running, LoseMemory, bounds
    <2>2. QueueInv
      BY <1>U, <2>1 DEF Clean, bounds
    <2>3. Head(todo) = todo[1] /\ 1 \in DOMAIN todo
      BY <2>1, QueueFacts DEF BaseInv, TypeOK
    <2> QED BY <2>1, <2>2, <2>3 DEF QueueInv
  <1>12. CASE UNCHANGED vars
    BY <1>12, <1>U, SameClean DEF vars, caches
  <1> QED
    BY <1>1, <1>2, <1>3, <1>4, <1>5, <1>6, <1>7, <1>8, <1>9, <1>10, <1>11, <1>12
       DEF Next, Work

LEMMA CleanAlways == Spec => [](BaseInv /\ CleanInv)
  <1> QED BY BaseInit, BaseNext, CleanInit, CleanNext, PTL DEF Spec

\* VerifyBlock, asking one index that all branches share, lets no double
\* spending into any stored branch, as long as no block was dropped, no rebuild
\* has made the index forget the side branches and no crash has left a hole.
THEOREM NoDoubleSpendAlways == Spec => [](Undisturbed => NoDoubleSpend)
  <1>1. CleanInv => (Undisturbed => NoDoubleSpend)
    BY DEF CleanInv, Clean
  <1> QED BY <1>1, CleanAlways, PTL

\* Between operations the index names, for every transaction, the stored blocks
\* that hold it, on whatever branch, and every spending in them.
THEOREM IndexAlwaysComplete == Spec => [](Undisturbed => IndexComplete)
  <1>1. CleanInv => (Undisturbed => IndexComplete)
    <2> SUFFICES ASSUME Clean, todo = << >> PROVE IndexComplete
      BY DEF CleanInv, IndexComplete
    <2>1. Pending = {} /\ known \ Pending = known
      BY DEF Pending
    <2> QED BY <2>1 DEF Clean, IndexInv, IndexComplete
  <1> QED BY <1>1, CleanAlways, PTL

\* Whatever branches replaced each other, an output listed as unspent is
\* unspent on the main chain, and its record names the block there that holds
\* it: each call of a switch moves the outputs one block along the way from
\* the old top to the new one (UpdateOnBlockCancel, UpdateOnBlockAdd).
THEOREM UtxoAlwaysSound == Spec => [](Undisturbed => UtxoSound)
  <1>1. BaseInv /\ CleanInv => (Undisturbed => UtxoSound)
    <2> SUFFICES ASSUME BaseInv, Clean, Idle PROVE UtxoSound
      BY DEF CleanInv, UtxoSound
    <2>1. Standing = tip /\ main = Line[tip]
      BY DEF Idle, Pending, Standing, StandsFor, BaseInv, ShapeInv, Branch
    <2> QED BY <2>1 DEF Clean, UtxoInv, UtxoSound
  <1> QED BY <1>1, CleanAlways, PTL

\* GetSideBranch fails, and its caller dereferences the missing result, only
\* for the genesis block: no block that is added brings a node there before
\* its operator has dropped one.
THEOREM AddingNeverPanics == Spec => [](Undisturbed => ~Running("panic"))
  <1>1. BaseInv /\ CleanInv => (Undisturbed => ~Running("panic"))
    <2> SUFFICES ASSUME BaseInv, Clean, todo # << >>, Head(todo).call = "panic"
                 PROVE  FALSE
      BY DEF CleanInv, Running
    <2>1. Head(todo) = todo[1] /\ 1 \in DOMAIN todo
      BY QueueFacts DEF BaseInv, TypeOK
    <2> QED BY <2>1 DEF Clean, QueueInv
  <1> QED BY <1>1, CleanAlways, PTL

(***************************************************************************)
(* Payments                                                                *)
(***************************************************************************)

\* Every block of the branch but the genesis block is valid there.
ValidBranch(b) == \A c \in Line[b] \ {Genesis} : ValidOnBranch(c)

\* What a block uses was created on its branch.
LEMMA UsedWasCreated ==
    ASSUME NEW b \in Block, ValidBranch(b), NEW d \in Line[b],
           NEW in \in Used(d)
    PROVE  d # Genesis /\ \E g \in Line[d] : in[1] \in IdsOf(g)
  <1>1. d \in Block /\ d \in Line[d]
    BY LineTop
  <1>2. d # Genesis
    BY BlockTxsAssumption DEF Used, TxsOf
  <1>3. PICK i \in DOMAIN Txs[d] : in \in Inputs(Txs[d][i])
    BY DEF Used, TxsOf
  <1>4. \/ in \in Unspent[Parent[d]]
        \/ \E j \in 1 .. i - 1 : in \in Outputs(Txs[d][j])
    <2>1. ValidOnBranch(d)
      BY <1>2 DEF ValidBranch
    <2> QED BY <1>3, <2>1 DEF ValidOnBranch
  <1>5. CASE in \in Unspent[Parent[d]]
    <2>1. Parent[d] \in Block /\ Line[Parent[d]] \subseteq Line[d]
      BY <1>1, <1>2, PreviousBlock
    <2>2. PICK g \in Line[Parent[d]] : in \in Created(g)
      BY <1>5, <2>1, UnspentMeaning
    <2>3. in[1] \in IdsOf(g)
      BY <2>1, <2>2, LineTop, BlockContents
    <2> QED BY <1>2, <2>1, <2>2, <2>3
  <1>6. CASE \E j \in 1 .. i - 1 : in \in Outputs(Txs[d][j])
    <2>1. PICK j \in 1 .. i - 1 : in \in Outputs(Txs[d][j])
      BY <1>6
    <2>2. Txs[d] \in Seq(Tx) /\ j \in DOMAIN Txs[d]
      <3>1. Txs[d] \in Seq(Tx)
        BY <1>1, BlockTxsAssumption
      <3> QED BY <1>3, <3>1
    <2>3. in[1] = Txs[d][j] /\ Txs[d][j] \in TxsOf(d)
      BY <1>1, <2>1, <2>2, BlockContents DEF Outputs
    <2> QED BY <1>1, <1>2, <2>3 DEF IdsOf
  <1> QED BY <1>4, <1>5, <1>6

\* A branch without double spendings holds a transaction once.  Of those it
\* held twice, take the one whose second place is the first: its first input
\* is created where another one is held for the second time.
LEMMA HeldOnce ==
    ASSUME NEW b \in Block, ValidBranch(b), NEW x,
           NEW c \in Line[b], NEW d \in Line[b], x \in IdsOf(c), x \in IdsOf(d)
    PROVE  c = d
  <1> DEFINE Again(e, i) ==
                 /\ i \in DOMAIN Txs[e]
                 /\ \E f \in Line[b] : /\ Height[f] < Height[e]
                                       /\ Txs[e][i] \in TxsOf(f)
             Late == {e \in Line[b] : \E i \in DOMAIN Txs[e] : Again(e, i)}
             T == {Height[e] : e \in Late}
  <1>1. /\ Line[b] \subseteq Block
        /\ \A e \in Line[b] : /\ e \in Block /\ Height[e] \in Nat
                              /\ Txs[e] \in Seq(Tx) /\ TxsOf(e) \subseteq Tx
    BY LineTop, BlockTxsAssumption, BlockContents
  \* Only a transaction can be in two blocks.
  <1>2. ASSUME NEW y, NEW e \in Line[b], NEW f \in Line[b], y \in IdsOf(e),
               y \in IdsOf(f), e # f
        PROVE  y \in TxsOf(e) /\ y \in TxsOf(f)
    BY <1>1, <1>2, TxAssumption DEF IdsOf
  <1>3. ASSUME NEW y, NEW e \in Line[b], NEW f \in Line[b], y \in IdsOf(e),
               y \in IdsOf(f), Height[f] < Height[e]
        PROVE  \E i \in DOMAIN Txs[e] : Txs[e][i] = y /\ Again(e, i)
    <2>1. f # e
      BY <1>1, <1>3
    <2>2. y \in TxsOf(e) /\ y \in TxsOf(f)
      BY <1>2, <1>3, <2>1
    <2> QED BY <1>3, <2>2 DEF TxsOf
  <1>4. T = {}
    <2> SUFFICES ASSUME T # {} PROVE FALSE
      OBVIOUS
    <2>1. T \in SUBSET Nat
      BY <1>1
    <2>2. PICK h \in T : \A n \in T : h <= n
      <3> HIDE DEF T
      <3> QED BY <2>1, LeastElement
    <2>3. PICK e \in Late : Height[e] = h
      OBVIOUS
    <2>4. \A f \in Late : Height[e] <= Height[f]
      BY <2>2, <2>3
    <2> DEFINE I == {i \in DOMAIN Txs[e] : Again(e, i)}
    <2>5. I \in SUBSET Nat /\ I # {} /\ e \in Line[b]
      <3>1. e \in Line[b] /\ Txs[e] \in Seq(Tx)
        BY <1>1
      <3>2. DOMAIN Txs[e] \subseteq Nat
        BY <3>1
      <3> QED BY <3>1, <3>2
    <2>6. PICK i \in I : \A j \in I : i <= j
      <3> HIDE DEF I
      <3> QED BY <2>5, LeastElement
    <2>7. PICK f \in Line[b] : Height[f] < Height[e] /\ Txs[e][i] \in TxsOf(f)
      BY <2>6
    <2> DEFINE t == Txs[e][i]
    <2>8. PICK in \in Inputs(t) : TRUE
      <3>1. t \in Tx
        BY <1>1, <2>7
      <3>2. Ins[t] # << >> /\ Ins[t] \in Seq(UNION {Outputs(u) : u \in Ids})
        BY <3>1, TxAssumption
      <3>3. 1 \in DOMAIN Ins[t]
        BY <3>2
      <3> QED BY <3>3 DEF Inputs
    <2>9. in \in Used(e) /\ in \in Used(f)
      <3>1. t \in TxsOf(e)
        BY <2>6 DEF TxsOf
      <3> QED BY <2>7, <2>8, <3>1 DEF Used
    <2>10. e # Genesis
      BY <2>5, <2>9, UsedWasCreated
    <2>11. PICK g \in Line[f] : in[1] \in IdsOf(g)
      BY <2>9, UsedWasCreated
    <2>12. g \in Line[b] /\ Height[g] <= Height[f]
      BY <1>1, <2>11, LineTop, SameLine
    <2>13. \/ in \in Unspent[Parent[e]]
           \/ \E j \in 1 .. i - 1 : in \in Outputs(Txs[e][j])
      BY <2>5, <2>8, <2>10 DEF ValidBranch, ValidOnBranch
    <2>14. CASE in \in Unspent[Parent[e]]
      <3> HIDE DEF I, T
      <3>1. /\ e \in Block /\ Parent[e] \in Block
            /\ Line[e] = Line[Parent[e]] \cup {e}
            /\ Height[e] = Height[Parent[e]] + 1
            /\ Line[Parent[e]] \subseteq Line[b]
        BY <1>1, <2>5, <2>10, PreviousBlock, SameLine
      <3>2. PICK k \in Line[Parent[e]] :
                /\ in \in Created(k)
                /\ \A a \in Line[Parent[e]] :
                       Height[a] >= Height[k] => in \notin Used(a)
        BY <2>14, <3>1, UnspentMeaning
      <3>3. f \in Line[Parent[e]]
        <4>1. f \in Line[e]
          BY <1>1, <2>5, <2>7, SameLine
        <4>2. f # e
          <5>1. Height[f] \in Nat /\ Height[f] < Height[e]
            BY <1>1, <2>7
          <5> QED BY <5>1
        <4> QED BY <3>1, <4>1, <4>2
      <3>4. k \in Line[b] /\ Height[f] < Height[k] /\ Height[k] < Height[e]
        <4>1. Height[k] <= Height[Parent[e]] /\ Height[Parent[e]] \in Nat
          BY <3>1, <3>2, LineTop
        <4>2. k \in Line[b] /\ Height[k] \in Nat /\ Height[f] \in Nat
          BY <1>1, <3>1, <3>2
        <4>3. ~(Height[f] >= Height[k])
          BY <2>9, <3>2, <3>3
        <4> QED BY <3>1, <4>1, <4>2, <4>3
      <3>5. in[1] \in IdsOf(k)
        BY <1>1, <3>2, <3>4, BlockContents
      <3>6. Height[g] < Height[k]
        BY <1>1, <2>12, <3>4
      <3>7. k \in Late
        BY <1>3, <2>11, <2>12, <3>4, <3>5, <3>6
      <3> QED BY <1>1, <2>4, <2>5, <3>4, <3>7
    <2>15. CASE \E j \in 1 .. i - 1 : in \in Outputs(Txs[e][j])
      <3>1. PICK j \in 1 .. i - 1 : in \in Outputs(Txs[e][j])
        BY <2>15
      <3>2. j \in DOMAIN Txs[e] /\ j < i /\ i \in Nat /\ j \in Nat
        <4>1. Txs[e] \in Seq(Tx) /\ i \in DOMAIN Txs[e]
          BY <1>1, <2>5, <2>6
        <4> QED BY <3>1, <4>1
      <3>3. in[1] = Txs[e][j] /\ in[1] \in TxsOf(e)
        BY <3>1, <3>2 DEF Outputs, TxsOf
      <3>4. in[1] \in TxsOf(g) /\ Height[g] < Height[e]
        <4>1. Height[g] < Height[e] /\ g # e
          <5>1. /\ Height[g] \in Nat /\ Height[f] \in Nat /\ Height[e] \in Nat
                /\ Height[g] <= Height[f] /\ Height[f] < Height[e]
            BY <1>1, <2>5, <2>7, <2>12
          <5> QED BY <5>1
        <4>2. in[1] \in IdsOf(e)
          BY <3>3 DEF IdsOf
        <4> QED BY <1>2, <2>5, <2>11, <2>12, <4>1, <4>2
      <3>5. j \in I
        BY <2>12, <3>2, <3>3, <3>4
      <3> HIDE DEF I
      <3> QED BY <2>6, <3>2, <3>5
    <2> QED BY <2>13, <2>14, <2>15
  <1>5. ASSUME NEW e \in Line[b], NEW f \in Line[b], x \in IdsOf(e),
               x \in IdsOf(f)
        PROVE  ~(Height[f] < Height[e])
    BY <1>3, <1>4, <1>5
  <1>6. Height[c] = Height[d]
    BY <1>1, <1>5
  <1> QED BY <1>6, SameLine

\* What a block of a valid branch uses is not unspent on it.
LEMMA UsedIsGone ==
    ASSUME NEW b \in Block, ValidBranch(b), NEW d \in Line[b],
           NEW in \in Used(d)
    PROVE  in \notin Unspent[b]
  <1> SUFFICES ASSUME in \in Unspent[b] PROVE FALSE
    OBVIOUS
  <1>1. PICK f \in Line[b] :
            /\ in \in Created(f)
            /\ \A a \in Line[b] : Height[a] >= Height[f] => in \notin Used(a)
    BY UnspentMeaning
  <1>2. PICK g \in Line[d] : in[1] \in IdsOf(g)
    BY UsedWasCreated
  <1>3. /\ f \in Block /\ d \in Block /\ g \in Line[b]
        /\ Height[f] \in Nat /\ Height[d] \in Nat /\ Height[g] \in Nat
        /\ Height[g] <= Height[d]
    BY <1>2, LineTop, SameLine
  <1>4. Height[d] < Height[f]
    BY <1>1, <1>3
  <1>5. in[1] \in IdsOf(f)
    BY <1>1, <1>3, BlockContents
  <1>6. f = g
    BY <1>2, <1>3, <1>5, HeldOnce
  <1> QED BY <1>3, <1>4, <1>6

\* The branch whose transactions are not in the pool: between the two calls
\* for a block, the pool is ahead of the outputs.
Clearing ==
    IF todo # << >> /\ Head(todo).call \in {"spend", "unspend"}
    THEN After(Head(todo)) ELSE Standing

PoolInv ==
    /\ Paired(todo)
    /\ \A c \in Line[Clearing] : pool \cap TxsOf(c) = {}

NewInv == Undisturbed => PoolInv

LEMMA NewInit == Init => NewInv
  <1> SUFFICES ASSUME Init PROVE PoolInv
    BY DEF NewInv
  <1>1. pool = {} /\ todo = << >>
    BY DEF Init
  <1> QED BY <1>1 DEF PoolInv, Paired

\* Nothing but the pool changes, outside of the calls.
LEMMA SamePool ==
    ASSUME PoolInv, UNCHANGED <<tip, todo>>, pool' \subseteq pool
    PROVE  PoolInv'
  <1>1. Clearing' = Clearing
    BY DEF Clearing, Standing, StandsFor, Pending, Current, After, Before
  <1> QED BY <1>1 DEF PoolInv, Paired

LEMMA StoredIsValid ==
    ASSUME BaseInv, Clean, NEW b \in known PROVE b \in Block /\ ValidBranch(b)
  BY DEF BaseInv, TypeOK, Clean, TreeInv, NoDoubleSpend, ValidBranch

\* The first of the calls after a block was added starts from the old top.
LEMMA AddBlockPool ==
    ASSUME BaseInv, Clean, PoolInv, Idle, NEW b \in Block, AddBlock(b),
           UNCHANGED <<caches, bounds>>
    PROVE  PoolInv'
  <1> DEFINE q == CallsAfter(b)
             top == IF Height[b] > Height[tip] THEN b ELSE tip
  <1>1. /\ b \notin known /\ Parent[b] \in known /\ tip' = top /\ todo' = q
        /\ pool' = pool
    BY DEF AddBlock, CanAdd, Store!Add, caches
  <1>2. Clearing = tip
    BY DEF Idle, Clearing, Standing, StandsFor, Pending
  <1>3. LeadsFromTo(q, tip, top) /\ Paired(q) /\ q \in Seq(Call)
    <2>1. TreeInv /\ tip \in Block
      BY DEF Clean, TreeInv, BaseInv, TypeOK
    <2> QED BY <1>1, <2>1, AddedLeads, CallsAfterType
  <1> HIDE DEF q, top
  <1>4. /\ q # << >> /\ Head(q).call = "index" /\ Len(q) \in Nat /\ Len(q) > 0
        /\ tip = IF Len(q) = 1 THEN top ELSE Before(q[2])
    BY <1>3, QueueFacts DEF LeadsFromTo
  <1>5. Clearing' = tip
    <2>1. Pending' # {} /\ Clearing' = Standing'
      BY <1>1, <1>4 DEF Pending, Clearing
    <2>2. Standing' = IF 2 > Len(q) THEN top ELSE Before(q[2])
      BY <1>1, <2>1 DEF Standing, StandsFor, Before
    <2>3. 2 > Len(q) <=> Len(q) = 1
      <3> DEFINE n == Len(q)
      <3>1. n \in Nat /\ n > 0
        BY <1>4
      <3> HIDE DEF n
      <3>2. 2 > n <=> n = 1
        BY <3>1
      <3> QED BY <3>2 DEF n
    <2> QED BY <1>4, <2>1, <2>2, <2>3
  <1>6. Paired(todo)'
    BY <1>1, <1>3 DEF Paired
  <1> QED BY <1>1, <1>2, <1>5, <1>6 DEF PoolInv

\* A call is made: the pool is still ahead by one call at most.
LEMMA CallPool ==
    ASSUME BaseInv, Clean, PoolInv, todo # << >>, Done
    PROVE  /\ Paired(todo)'
           /\ Head(todo).call \in {"unpool", "repool"} =>
                 /\ Clearing = After(Head(todo))
                 /\ Clearing' = IF Head(todo).call = "unpool" THEN Current
                                ELSE Parent[Current]
           /\ Head(todo).call \notin {"unpool", "repool"} =>
                 Clearing' = Clearing
  <1>1. /\ todo \in Seq(Call) /\ todo' = Tail(todo) /\ Paired(todo)
        /\ UNCHANGED <<known, tip>>
    BY DEF BaseInv, TypeOK, Done, store, PoolInv
  <1>2. /\ Len(todo) \in Nat \ {0} /\ Len(Tail(todo)) = Len(todo) - 1
        /\ Head(todo) = todo[1] /\ Tail(todo) \in Seq(Call)
        /\ \A i \in 1 .. Len(todo) - 1 : Tail(todo)[i] = todo[i + 1]
    BY <1>1, QueueFacts
  <1>3. Paired(Tail(todo))
    <2> DEFINE r == Tail(todo)
    <2> SUFFICES ASSUME NEW i \in 1 .. Len(r)
                 PROVE  IF r[i].call \in {"unpool", "repool"}
                        THEN /\ i < Len(r)
                             /\ r[i + 1].call = IF r[i].call = "unpool"
                                                THEN "spend" ELSE "unspend"
                             /\ r[i + 1].block = r[i].block
                        ELSE i < Len(r) => r[i + 1].call \in {"unpool", "repool"}
      BY DEF Paired
    <2>1. /\ i + 1 \in 1 .. Len(todo) /\ Len(r) = Len(todo) - 1
          /\ r[i] = todo[i + 1] /\ i \in Nat
          /\ i < Len(r) => r[i + 1] = todo[(i + 1) + 1]
          /\ i + 1 < Len(todo) <=> i < Len(r)
      BY <1>2
    <2> HIDE DEF r
    <2> QED BY <1>1, <2>1 DEF Paired
  <1>4. /\ Head(todo).call # "index" =>
              Standing = Before(Head(todo)) /\ Standing' = After(Head(todo))
        /\ Head(todo).call = "index" => Standing' = Standing
        /\ Head(todo).call \in {"index", "unpool", "spend", "repool", "unspend"}
    BY CallClean
  <1>5. Len(todo) > 1 => /\ todo' # << >> /\ Head(todo') = todo[2]
    <2> SUFFICES ASSUME Len(todo) > 1
                 PROVE  Tail(todo) # << >> /\ Head(Tail(todo)) = todo[2]
      BY <1>1
    <2> DEFINE r == Tail(todo)
    <2>1. r \in Seq(Call) /\ Len(r) \in Nat \ {0} /\ r[1] = todo[2]
      BY <1>2
    <2> HIDE DEF r
    <2>2. r # << >> /\ Head(r) = r[1]
      BY <2>1
    <2> QED BY <2>1, <2>2 DEF r
  <1>6. Len(todo) = 1 => todo' = << >>
    BY <1>1, <1>2
  <1> HIDE DEF Standing
  <1>7. ASSUME Head(todo).call \in {"unpool", "repool"}
        PROVE  /\ Clearing = After(Head(todo))
               /\ Clearing' = IF Head(todo).call = "unpool" THEN Current
                              ELSE Parent[Current]
    <2>1. /\ Len(todo) > 1
          /\ todo[2].call = IF Head(todo).call = "unpool"
                            THEN "spend" ELSE "unspend"
          /\ todo[2].block = Current
      <3>1. 1 \in 1 .. Len(todo) /\ 1 + 1 = 2
        BY <1>2
      <3> QED BY <1>1, <1>2, <1>7, <3>1 DEF Paired, Current
    <2>2. Clearing' = After(todo[2])
      BY <1>5, <2>1 DEF Clearing, After
    <2>3. Clearing = Before(Head(todo)) /\ Before(Head(todo)) = After(Head(todo))
      BY <1>4, <1>7 DEF Clearing, Before, After
    <2> QED BY <1>7, <2>1, <2>2, <2>3 DEF After
  <1>8. ASSUME Head(todo).call \notin {"unpool", "repool"}
        PROVE  Clearing' = Clearing
    <2>1. Clearing' = Standing'
      <3>1. Len(todo) > 1 => todo[2].call \in {"unpool", "repool"}
        <4>1. 1 \in 1 .. Len(todo) /\ 1 + 1 = 2 /\ todo[1] = Head(todo)
          BY <1>2
        <4>2. todo[1].call \notin {"unpool", "repool"}
          BY <1>8, <4>1
        <4>3. 1 < Len(todo) => todo[1 + 1].call \in {"unpool", "repool"}
          BY <1>1, <4>1, <4>2 DEF Paired
        <4> QED BY <1>2, <4>1, <4>3
      <3>2. todo' = << >> \/ Head(todo').call \in {"unpool", "repool"}
        BY <1>2, <1>5, <1>6, <3>1
      <3> QED BY <3>2 DEF Clearing
    <2>2. Standing' = Clearing
      BY <1>4, <1>8 DEF Clearing
    <2> QED BY <2>1, <2>2
  <1>9. Paired(todo)'
    BY <1>1, <1>3 DEF Paired
  <1> QED BY <1>7, <1>8, <1>9

\* The transactions of a block leave the pool before the block is on the
\* branch, and come back after it has left it; held once, they are in no other
\* block of it.
LEMMA PoolCallPool ==
    ASSUME BaseInv, Clean, PoolInv, DeleteFromBlock \/ AddFromCanceled
    PROVE  PoolInv'
  <1> DEFINE b == Current
  <1>1. /\ todo # << >> /\ Done
        /\ \/ Head(todo).call = "unpool" /\ pool' = pool \ TxsOf(b)
           \/ /\ Head(todo).call = "repool"
              /\ pool' = pool \cup {t \in TxsOf(b) : CanPool(t)}
    BY DEF DeleteFromBlock, AddFromCanceled, Running
  <1>2. b \in known \ {Genesis} /\ b \in Block
    BY <1>1, CallClean
  <1>3. Line[b] = Line[Parent[b]] \cup {b} /\ b \notin Line[Parent[b]]
    BY <1>2, PreviousBlock
  <1>4. Paired(todo)'
    BY <1>1, CallPool
  <1>5. \A c \in Line[Clearing] : pool \cap TxsOf(c) = {}
    BY DEF PoolInv
  <1> HIDE DEF b
  <1>6. CASE Head(todo).call = "unpool"
    <2>1. pool' = pool \ TxsOf(b)
      BY <1>1, <1>6
    <2>2. Clearing = Parent[b] /\ Clearing' = b
      BY <1>1, <1>6, CallPool DEF After, Current, b
    <2> QED BY <1>3, <1>4, <1>5, <2>1, <2>2 DEF PoolInv
  <1>7. CASE Head(todo).call = "repool"
    <2>1. pool' \subseteq pool \cup TxsOf(b)
      BY <1>1, <1>7
    <2>2. Clearing = b /\ Clearing' = Parent[b]
      BY <1>1, <1>7, CallPool DEF After, Current, b
    <2>3. ASSUME NEW c \in Line[Parent[b]], NEW t \in TxsOf(b), t \in TxsOf(c)
          PROVE  FALSE
      <3>1. c \in Line[b] /\ b \in Line[b] /\ t \in IdsOf(b) /\ t \in IdsOf(c)
        BY <1>3, <2>3 DEF IdsOf
      <3> QED BY <1>2, <1>3, <3>1, HeldOnce, StoredIsValid
    <2> QED BY <1>3, <1>4, <1>5, <2>1, <2>2, <2>3 DEF PoolInv
  <1> QED BY <1>1, <1>6, <1>7

\* A transaction of the main chain is not let in again: what it uses is not
\* unspent there, and what it may take from the pool was created there.
LEMMA ReceivedPool ==
    ASSUME BaseInv, Clean, PoolInv, NEW t \in Tx, ReceivedNewTransaction(t)
    PROVE  PoolInv'
  <1>1. /\ todo = << >> /\ VerifyQuick(t) /\ pool' = pool \cup {t}
        /\ UNCHANGED <<tip, todo>>
    BY DEF ReceivedNewTransaction, store
  <1>2. /\ tip \in known /\ tip \in Block /\ ValidBranch(tip)
        /\ \A o \in DOMAIN utxo : o \in Unspent[tip]
    <2>1. Standing = tip /\ tip \in known
      BY <1>1 DEF Standing, StandsFor, Pending, Clean, TreeInv
    <2> QED BY <2>1, StoredIsValid DEF Clean, UtxoInv
  <1>3. Clearing = tip /\ Clearing' = tip
    BY <1>1 DEF Clearing, Standing, StandsFor, Pending
  <1>4. ASSUME NEW c \in Line[tip], t \in TxsOf(c) PROVE FALSE
    <2>1. PICK in \in Inputs(t) : TRUE
      <3>1. Ins[t] # << >> /\ Ins[t] \in Seq(UNION {Outputs(x) : x \in Ids})
        BY TxAssumption
      <3>2. 1 \in DOMAIN Ins[t]
        BY <3>1
      <3> QED BY <3>2 DEF Inputs
    <2>2. in \in Used(c)
      BY <1>4, <2>1 DEF Used
    <2>3. in \notin DOMAIN utxo
      BY <1>2, <2>2, UsedIsGone
    <2>4. in[1] \in pool
      BY <1>1, <2>1, <2>3 DEF VerifyQuick, InputExists
    <2>5. PICK g \in Line[c] : in[1] \in IdsOf(g)
      BY <1>2, <2>2, UsedWasCreated
    <2>6. g \in Line[tip] /\ g \in Block
      BY <1>2, <2>5, SameLine, LineTop
    <2>7. in[1] \in TxsOf(g)
      BY <2>4, <2>5, <2>6, TxAssumption DEF IdsOf, BaseInv, TypeOK
    <2> QED BY <1>3, <2>4, <2>6, <2>7 DEF PoolInv
  <1> QED BY <1>1, <1>3, <1>4 DEF PoolInv, Paired

LEMMA NewNext == BaseInv /\ CleanInv /\ NewInv /\ [Next]_vars => NewInv'
  <1> SUFFICES ASSUME BaseInv, CleanInv, NewInv, [Next]_vars, Undisturbed'
               PROVE  PoolInv'
    BY DEF NewInv
  <1>T. crashes \in Nat /\ drops \in Nat /\ reindexes \in Nat
    BY LedgerAssumption DEF BaseInv, TypeOK
  <1>U. /\ UNCHANGED bounds => Clean /\ PoolInv
        /\ UNCHANGED <<drops, reindexes, crashes>> => Clean /\ PoolInv
    BY <1>T DEF CleanInv, NewInv, Undisturbed, bounds
  <1>1. ASSUME NEW b \in Block, ReceivedFullBlockFromOtherNode(b) PROVE PoolInv'
    BY <1>1, <1>U, AddBlockPool DEF ReceivedFullBlockFromOtherNode, bounds
  <1>2. ASSUME NEW t \in Tx, ReceivedNewTransaction(t) PROVE PoolInv'
    BY <1>2, <1>U, ReceivedPool DEF ReceivedNewTransaction
  <1>3. ASSUME NEW t \in Tx, CancelTransaction(t) PROVE PoolInv'
    BY <1>3, <1>U, SamePool DEF CancelTransaction, store
  <1>4. CASE PrepareNewBlock \/ PrepareFails \/ CleanUnapprovedCache
    BY <1>4, <1>U, SamePool
       DEF PrepareNewBlock, PrepareFails, CleanUnapprovedCache, store
  <1>5. CASE MineBlock
    <2>1. /\ Idle /\ prepared \in Block /\ UNCHANGED <<caches, bounds>>
          /\ Clean /\ PoolInv
          /\ AddBlock(prepared) \/ UNCHANGED <<store, todo>>
      BY <1>5, <1>U, BlockTxsAssumption
         DEF MineBlock, BaseInv, TypeOK, bounds
    <2>2. CASE AddBlock(prepared)
      BY <2>1, <2>2, AddBlockPool
    <2>3. CASE UNCHANGED <<store, todo>>
      BY <2>1, <2>3, SamePool DEF caches, store
    <2> QED BY <2>1, <2>2, <2>3
  <1>6. CASE DropBlock \/ ReindexData \/ Crash
    BY <1>6, <1>T DEF DropBlock, ReindexData, Crash, Undisturbed
  <1>7. CASE DeleteFromBlock \/ AddFromCanceled
    BY <1>7, <1>U, PoolCallPool DEF DeleteFromBlock, AddFromCanceled, Done
  <1>8. CASE \/ IndexBlockAdded \/ UpdateOnBlockAdd \/ UpdateOnBlockCancel
             \/ IndexBlockRemoved \/ IndexTruncateDB \/ UtxoTruncateDB
             \/ RecordsStored
    <2>1. /\ todo # << >> /\ Done /\ pool' = pool
          /\ Head(todo).call \notin {"unpool", "repool"}
      BY <1>8 DEF IndexBlockAdded, UpdateOnBlockAdd, UpdateOnBlockCancel,
                  IndexBlockRemoved, IndexTruncateDB, UtxoTruncateDB,
                  RecordsStored, caches, Running
    <2>2. Clean /\ PoolInv
      BY <1>U, <2>1 DEF Done
    <2>3. Paired(todo)' /\ Clearing' = Clearing
      BY <2>1, <2>2, CallPool
    <2> QED BY <2>1, <2>2, <2>3 DEF PoolInv
  <1>9. CASE Panic \/ \E x \in Ids : StoreRecord(x)
    <2>1. /\ todo # << >> /\ Head(todo).call \in {"panic", "respend"}
          /\ UNCHANGED <<crashes, drops, reindexes>>
      BY <1>9 DEF Panic, StoreRecord, Running, LoseMemory, bounds
    <2>2. QueueInv
      BY <1>U, <2>1 DEF Clean
    <2>3. Head(todo) = todo[1] /\ 1 \in DOMAIN todo
      BY <2>1, QueueFacts DEF BaseInv, TypeOK
    <2> QED BY <2>1, <2>2, <2>3 DEF QueueInv
  <1>10. CASE UNCHANGED vars
    BY <1>10, <1>U, SamePool DEF vars, caches, store
  <1> QED
    BY <1>1, <1>2, <1>3, <1>4, <1>5, <1>6, <1>7, <1>8, <1>9, <1>10
       DEF Next, Work

\* The inputs of a payment: unspent outputs no transaction of the pool uses,
\* and outputs of the pool.
LEMMA PreparedInputs ==
    ASSUME NEW key \in Key, NEW amount,
           NEW p \in PrepareNewTransaction(key, amount)
    PROVE  /\ p.approved \subseteq Locked(DOMAIN utxo, key) \ PendingInputs(key)
           /\ \A o \in p.approved : utxo[o] \in known
           /\ p.pending \subseteq RealOutputs(key)
  <1> DEFINE free == Locked(DOMAIN utxo, key) \ PendingInputs(key)
             Of(c) == IF \E o \in c : utxo[o] \notin known THEN {}
                      ELSE IF Total(c) >= amount
                      THEN {[approved |-> c, pending |-> {}]}
                      ELSE [approved : {c},
                            pending : ExtendNewTransactionInputs(key,
                                          amount - Total(c))]
  <1>1. PICK c \in ChooseSpendableOutputs(key, amount) : p \in Of(c)
    BY DEF PrepareNewTransaction
  <1>2. \A outputs, missing : \A s \in TakenUntil(outputs, missing) :
            s \subseteq outputs
    BY DEF TakenUntil
  <1>3. c \subseteq free
    BY <1>2 DEF ChooseSpendableOutputs
  <1>4. \A missing : \A s \in ExtendNewTransactionInputs(key, missing) :
            s \subseteq RealOutputs(key)
    BY <1>2 DEF ExtendNewTransactionInputs
  <1>5. ~\E o \in c : utxo[o] \notin known
    BY <1>1
  <1>6. CASE Total(c) >= amount
    <2>1. p = [approved |-> c, pending |-> {}]
      BY <1>1, <1>5, <1>6
    <2> QED BY <1>3, <1>5, <2>1
  <1>7. CASE ~(Total(c) >= amount)
    <2>1. p \in [approved : {c},
                 pending : ExtendNewTransactionInputs(key, amount - Total(c))]
      BY <1>1, <1>5, <1>7
    <2>2. /\ p.approved = c
          /\ p.pending \in ExtendNewTransactionInputs(key, amount - Total(c))
      BY <2>1
    <2> QED BY <1>3, <1>4, <1>5, <2>2
  <1> QED BY <1>6, <1>7

\* While nothing is under way, the unspent outputs are finitely many, their
\* blocks are stored, and none is an output of the pool.
LEMMA AtRest ==
    ASSUME BaseInv, StoredInv, Clean, PoolInv, Idle
    PROVE  /\ \A o \in DOMAIN utxo : o[1] \notin pool /\ utxo[o] \in known
           /\ DOMAIN utxo \in SUBSET Output /\ IsFiniteSet(DOMAIN utxo)
           /\ \A t \in pool : Outputs(t) \subseteq Output
           /\ IsFiniteSet(UNION {Outputs(t) : t \in pool})
  <1>1. /\ \A c \in Line[tip] : pool \cap TxsOf(c) = {}
        /\ \A o \in DOMAIN utxo : /\ utxo[o] \in Line[tip]
                                  /\ o \in Created(utxo[o])
        /\ Line[tip] \subseteq Block /\ pool \subseteq Tx /\ tip \in Block
        /\ Line[tip] \subseteq known
    <2>1. /\ Standing = tip /\ Clearing = tip /\ tip \in Block /\ tip \in known
      BY DEF Idle, Clearing, Standing, StandsFor, Pending, Clean, TreeInv,
             BaseInv, TypeOK
    <2> QED BY <2>1, LineTop
            DEF PoolInv, Clean, UtxoInv, BaseInv, TypeOK, StoredInv
  <1>2. ASSUME NEW o \in DOMAIN utxo PROVE o[1] \notin pool
    <2> SUFFICES ASSUME o[1] \in pool PROVE FALSE
      OBVIOUS
    <2>1. utxo[o] \in Line[tip] /\ utxo[o] \in Block
      BY <1>1
    <2>2. o[1] \in IdsOf(utxo[o]) /\ o[1] \in Tx
      BY <1>1, <2>1, BlockContents
    <2>3. o[1] \in TxsOf(utxo[o])
      BY <2>1, <2>2, TxAssumption DEF IdsOf
    <2> QED BY <1>1, <2>1, <2>3
  <1>3. ASSUME NEW x \in Ids
        PROVE  IsFiniteSet(Outputs(x)) /\ Outputs(x) \subseteq Output
    <2> DEFINE n == IF x \in Tx THEN OutCount[x] - 1 ELSE 0
    <2>1. n \in Int
      BY TxAssumption
    <2>2. IsFiniteSet(0 .. n) /\ IsFiniteSet({x})
      <3> HIDE DEF n
      <3>1. IsFiniteSet({x})
        BY FS_Singleton
      <3>2. 0 \in Int /\ IsFiniteSet(0 .. n)
        BY <2>1, FS_Interval
      <3> QED BY <3>1, <3>2
    <2>3. IsFiniteSet({x} \X (0 .. n))
      <3> HIDE DEF n
      <3> QED BY <2>2, FS_Product
    <2> QED BY <2>3 DEF Outputs, Output
  <1>4. ASSUME NEW X \in SUBSET Ids, IsFiniteSet(X)
        PROVE  IsFiniteSet(UNION {Outputs(x) : x \in X})
    <2> DEFINE f == [x \in X |-> Outputs(x)]
               F == {Outputs(x) : x \in X}
    <2>1. f \in Surjection(X, F)
      BY DEF Surjection
    <2>2. IsFiniteSet(F) /\ \A s \in F : IsFiniteSet(s)
      <3>1. \A s \in F : IsFiniteSet(s)
        BY <1>3
      <3> HIDE DEF f, F
      <3> QED BY <1>4, <2>1, <3>1, FS_Surjection
    <2> HIDE DEF F
    <2>3. IsFiniteSet(UNION F)
      BY <2>2, FS_UNION
    <2> QED BY <2>3 DEF F
  <1>5. ASSUME NEW c \in Block PROVE IsFiniteSet(Created(c))
    <2>1. IsFiniteSet(IdsOf(c)) /\ IdsOf(c) \in SUBSET Ids
      BY FewInBlock, BlockContents, FS_AddElement DEF IdsOf
    <2> QED BY <1>4, <2>1 DEF Created
  <1>6. IsFiniteSet(Line[tip])
    <2> DEFINE n == Height[tip] + 1
               f == [i \in 1 .. n |-> Down(tip)[i]]
    <2>1. n \in Nat
      BY <1>1, LineTop
    <2>2. f \in Surjection(1 .. n, Line[tip])
      <3>1. \A i \in 1 .. n : Down(tip)[i] \in Line[tip]
        BY <1>1, DownFacts
      <3>2. \A c \in Line[tip] : \E i \in 1 .. n : Down(tip)[i] = c
        BY <1>1, DownFacts
      <3> HIDE DEF n
      <3> QED BY <3>1, <3>2 DEF Surjection
    <2>3. IsFiniteSet(1 .. n)
      <3> HIDE DEF n
      <3> QED BY <2>1, FS_Interval
    <2> HIDE DEF n, f
    <2> QED BY <2>2, <2>3, FS_Surjection
  <1>7. IsFiniteSet(DOMAIN utxo)
    <2> DEFINE L == Line[tip]
               f == [c \in L |-> Created(c)]
               F == {Created(c) : c \in L}
    <2>1. f \in Surjection(L, F)
      BY DEF Surjection
    <2>2. IsFiniteSet(F)
      <3> HIDE DEF f, F, L
      <3>1. IsFiniteSet(L)
        BY <1>6 DEF L
      <3> QED BY <2>1, <3>1, FS_Surjection
    <2>3. \A s \in F : IsFiniteSet(s)
      BY <1>1, <1>5
    <2>4. DOMAIN utxo \in SUBSET (UNION F)
      BY <1>1
    <2> HIDE DEF F
    <2> QED BY <2>2, <2>3, <2>4, FS_UNION, FS_Subset
  <1>8. pool \in SUBSET Ids /\ IsFiniteSet(pool)
    BY <1>1 DEF Ids, StoredInv
  <1> QED BY <1>1, <1>2, <1>3, <1>4, <1>7, <1>8 DEF BaseInv, TypeOK

\* Every payment a wallet can prepare is one the pool takes: no input is
\* offered twice, none is gone and none is in use, whatever branches replaced
\* each other before.
THEOREM PaymentsAreAccepted == Spec => [](Undisturbed => PaymentAccepted)
  <1>1. BaseInv /\ StoredInv /\ CleanInv /\ NewInv
            => (Undisturbed => PaymentAccepted)
    <2> SUFFICES ASSUME BaseInv, StoredInv, Clean, PoolInv, Idle, NEW key \in Key,
                        NEW amount, NEW p \in PrepareNewTransaction(key, amount)
                 PROVE  /\ p.approved \cap p.pending = {}
                        /\ \A in \in p.approved \cup p.pending :
                              /\ InputExists(in)
                              /\ \A t \in pool : in \notin Inputs(t)
      BY DEF CleanInv, NewInv, PaymentAccepted
    <2>1. /\ p.approved \subseteq Locked(DOMAIN utxo, key) \ PendingInputs(key)
          /\ \A o \in p.approved : utxo[o] \in known
          /\ p.pending \subseteq RealOutputs(key)
      BY PreparedInputs
    <2>2. ASSUME NEW o \in DOMAIN utxo, o[1] \in pool PROVE FALSE
      BY <2>2, AtRest
    <2>3. ASSUME NEW o \in RealOutputs(key)
          PROVE  o[1] \in pool /\ KeyOf[o] = key /\ o \notin PendingInputs(key)
      BY DEF RealOutputs, PendingOutputs, Locked, Outputs
    <2>4. ASSUME NEW o, KeyOf[o] = key, o \notin PendingInputs(key)
          PROVE  \A t \in pool : o \notin Inputs(t)
      BY <2>4 DEF PendingInputs, Locked
    <2>5. p.approved \cap p.pending = {}
      BY <2>1, <2>2, <2>3 DEF Locked
    <2>6. ASSUME NEW in \in p.approved
          PROVE  InputExists(in) /\ \A t \in pool : in \notin Inputs(t)
      BY <2>1, <2>4 DEF Locked, InputExists
    <2>7. ASSUME NEW in \in p.pending
          PROVE  InputExists(in) /\ \A t \in pool : in \notin Inputs(t)
      BY <2>1, <2>2, <2>3, <2>4 DEF InputExists
    <2> QED BY <2>5, <2>6, <2>7
  <1>2. Spec => [](BaseInv /\ StoredInv /\ CleanInv /\ NewInv)
    BY BaseInit, BaseNext, StoredInit, StoredNext, CleanInit, CleanNext,
       NewInit, NewNext, PTL DEF Spec
  <1> QED BY <1>1, <1>2, PTL

(***************************************************************************)
(* Amounts                                                                 *)
(***************************************************************************)

\* Of the subsets of a finite set that have some property, one is smallest.
LEMMA SmallestSet ==
    ASSUME NEW S, IsFiniteSet(S), NEW C \in SUBSET (SUBSET S), C # {}
    PROVE  \E c \in C : \A d \in C : d \subseteq c => d = c
  <1>1. C \subseteq FiniteSubsetsOf(S)
    BY FS_Subset DEF FiniteSubsetsOf
  <1>2. PICK c \in C : \A d \in C : <<d, c>> \notin StrictSubsetOrdering(S)
    BY <1>1, WFMin, FS_StrictSubsetOrderingWellFounded, Zenon
  <1> QED BY <1>2 DEF StrictSubsetOrdering

\* The output Total takes next, the sum it makes of it and of what it has of
\* the others, and the functions that do so for every part of a set.
Chosen(s) == CHOOSE o \in s : TRUE
SumStep(f, s) == IF s = {} THEN 0 ELSE Value[Chosen(s)] + f[s \ {Chosen(s)}]
Sums(S) == CHOOSE f : f = [s \in SUBSET S |-> SumStep(f, s)]
IsSums(f, S) == f = [s \in SUBSET S |-> SumStep(f, s)]

LEMMA TotalIsSum == ASSUME NEW S PROVE Total(S) = Sums(S)[S]
  BY DEF Total, MapThenSumSet, MapThenFoldSet, Sums, SumStep, Chosen

LEMMA ChosenIsIn == ASSUME NEW s, s # {} PROVE Chosen(s) \in s
  BY DEF Chosen

LEMMA SumsAgree ==
    ASSUME NEW S, NEW T, NEW f, NEW g, IsSums(f, S), IsSums(g, T),
           NEW U, U \subseteq S, U \subseteq T, IsFiniteSet(U)
    PROVE  f[U] = g[U]
  <1> DEFINE C == {s \in SUBSET U : f[s] # g[s]}
  <1> SUFFICES ASSUME C # {} PROVE FALSE
    OBVIOUS
  <1>1. PICK s \in C : \A d \in C : d \subseteq s => d = s
    <2>1. C \in SUBSET (SUBSET U)
      OBVIOUS
    <2> HIDE DEF C
    <2> QED BY <2>1, SmallestSet
  <1>2. s \in SUBSET S /\ s \in SUBSET T /\ s \in SUBSET U /\ f[s] # g[s]
    OBVIOUS
  <1>3. f[s] = SumStep(f, s) /\ g[s] = SumStep(g, s)
    BY <1>2 DEF IsSums
  <1>4. s # {}
    BY <1>2, <1>3 DEF SumStep
  <1>5. f[s \ {Chosen(s)}] = g[s \ {Chosen(s)}]
    BY <1>1, <1>2, <1>4, ChosenIsIn
  <1> QED BY <1>2, <1>3, <1>4, <1>5 DEF SumStep

LEMMA SumsExist ==
    ASSUME NEW S, IsFiniteSet(S) PROVE IsSums(Sums(S), S)
  <1> DEFINE C == {s \in SUBSET S : ~\E f : IsSums(f, s)}
  <1>1. CASE C # {}
    <2>1. PICK t \in C : \A d \in C : d \subseteq t => d = t
      <3>1. C \in SUBSET (SUBSET S)
        OBVIOUS
      <3> HIDE DEF C
      <3> QED BY <1>1, <3>1, SmallestSet
    <2>2. t \in SUBSET S /\ ~\E f : IsSums(f, t)
      OBVIOUS
    <2>3. ASSUME NEW r \in SUBSET t, r # t
          PROVE  IsSums(Sums(r), r) /\ IsFiniteSet(r)
      <3>1. r \notin C /\ r \in SUBSET S
        BY <2>1, <2>2, <2>3
      <3>2. PICK f : IsSums(f, r)
        BY <3>1
      <3> QED BY <3>1, <3>2, FS_Subset DEF Sums, IsSums
    <2> DEFINE h == [s \in SUBSET t |-> Sums(s)[s]]
               f == [s \in SUBSET t |-> SumStep(h, s)]
    <2>4. ASSUME NEW s \in SUBSET t PROVE f[s] = SumStep(f, s)
      <3>1. CASE s = {}
        BY <3>1 DEF SumStep
      <3>2. CASE s # {}
        <4> DEFINE r == s \ {Chosen(s)}
        <4>1. r \in SUBSET t /\ r # t
          BY <3>2, ChosenIsIn
        <4>2. IsSums(Sums(r), r) /\ IsFiniteSet(r)
          BY <2>3, <4>1
        <4>3. f[r] = h[r]
          <5>1. h[r] = Sums(r)[r] /\ f[r] = SumStep(h, r)
            BY <4>1
          <5>2. Sums(r)[r] = SumStep(Sums(r), r)
            BY <4>2 DEF IsSums
          <5>3. CASE r = {}
            BY <5>1, <5>2, <5>3 DEF SumStep
          <5>4. CASE r # {}
            <6> DEFINE q == r \ {Chosen(r)}
            <6>1. q \in SUBSET t /\ q # t /\ q \subseteq r
              BY <4>1
            <6>2. IsSums(Sums(q), q) /\ IsFiniteSet(q)
              BY <2>3, <6>1
            <6> HIDE DEF r
            <6>3. Sums(r)[q] = Sums(q)[q]
              <7> HIDE DEF q
              <7> QED BY <4>2, <6>1, <6>2, SumsAgree
            <6>4. h[q] = Sums(q)[q]
              BY <6>1
            <6>5. SumStep(h, r) = SumStep(Sums(r), r)
              BY <5>4, <6>3, <6>4 DEF SumStep
            <6> QED BY <5>1, <5>2, <6>5
          <5> QED BY <5>3, <5>4
        <4>4. f[s] = SumStep(h, s)
          OBVIOUS
        <4> HIDE DEF f, h
        <4> QED BY <3>2, <4>3, <4>4 DEF SumStep
      <3> QED BY <3>1, <3>2
    <2>5. f = [s \in SUBSET t |-> SumStep(f, s)]
      <3>1. f = [s \in SUBSET t |-> f[s]]
        OBVIOUS
      <3> HIDE DEF f
      <3> QED BY <2>4, <3>1, Zenon
    <2> QED BY <2>2, <2>5 DEF IsSums
  <1>2. CASE C = {}
    <2>1. PICK f : IsSums(f, S)
      BY <1>2
    <2> QED BY <2>1 DEF Sums, IsSums
  <1> QED BY <1>1, <1>2

LEMMA TotalNext ==
    ASSUME NEW S, IsFiniteSet(S)
    PROVE  Total(S) = IF S = {} THEN 0
                      ELSE Value[Chosen(S)] + Total(S \ {Chosen(S)})
  <1> DEFINE r == S \ {Chosen(S)}
  <1>1. IsFiniteSet(r) /\ IsSums(Sums(S), S)
    BY FS_Subset, SumsExist
  <1>2. IsSums(Sums(r), r) /\ r \subseteq S
    BY <1>1, SumsExist
  <1>3. Sums(S)[r] = Sums(r)[r]
    <2> HIDE DEF r
    <2> QED BY <1>1, <1>2, SumsAgree
  <1>4. Total(S) = Sums(S)[S] /\ Total(r) = Sums(r)[r]
    BY TotalIsSum
  <1>5. Sums(S)[S] = SumStep(Sums(S), S)
    BY <1>1 DEF IsSums
  <1> QED BY <1>3, <1>4, <1>5 DEF SumStep

\* The sum of amounts is an amount.
LEMMA TotalType ==
    ASSUME NEW S \in SUBSET Output, IsFiniteSet(S) PROVE Total(S) \in Nat
  <1> DEFINE C == {s \in SUBSET S : Total(s) \notin Nat}
  <1> SUFFICES ASSUME C # {} PROVE FALSE
    OBVIOUS
  <1>1. PICK s \in C : \A d \in C : d \subseteq s => d = s
    <2>1. C \in SUBSET (SUBSET S)
      OBVIOUS
    <2> HIDE DEF C
    <2> QED BY <2>1, SmallestSet
  <1>2. s \in SUBSET S /\ Total(s) \notin Nat /\ IsFiniteSet(s)
    BY FS_Subset
  <1>3. s # {}
    BY <1>2, TotalNext
  <1>4. Chosen(s) \in s /\ Value[Chosen(s)] \in Nat
    BY <1>2, <1>3, ChosenIsIn, PaymentAssumption
  <1>5. Total(s \ {Chosen(s)}) \in Nat
    BY <1>1, <1>2, <1>4
  <1> QED BY <1>2, <1>3, <1>4, <1>5, TotalNext

\* Any output can be counted first.
LEMMA TotalStep ==
    ASSUME NEW S \in SUBSET Output, IsFiniteSet(S), NEW o \in S
    PROVE  Total(S) = Value[o] + Total(S \ {o})
  <1> DEFINE C == {s \in SUBSET S :
                      \E y \in s : Total(s) # Value[y] + Total(s \ {y})}
  <1> SUFFICES ASSUME C # {} PROVE FALSE
    OBVIOUS
  <1>1. PICK s \in C : \A d \in C : d \subseteq s => d = s
    <2>1. C \in SUBSET (SUBSET S)
      OBVIOUS
    <2> HIDE DEF C
    <2> QED BY <2>1, SmallestSet
  <1>2. /\ s \in SUBSET S /\ IsFiniteSet(s) /\ s \in SUBSET Output
        /\ \A x : /\ IsFiniteSet(s \ {x})
                  /\ \A y : IsFiniteSet((s \ {x}) \ {y})
    BY FS_Subset
  <1>3. PICK y \in s : Total(s) # Value[y] + Total(s \ {y})
    OBVIOUS
  <1> DEFINE x == Chosen(s)
  <1>4. x \in s
    BY <1>3, ChosenIsIn
  <1>5. Total(s) = Value[x] + Total(s \ {x})
    BY <1>2, <1>3, TotalNext
  <1>6. x # y
    BY <1>3, <1>5
  <1> HIDE DEF x
  <1>7. Total(s \ {x}) = Value[y] + Total((s \ {x}) \ {y})
    <2>1. s \ {x} \notin C /\ y \in s \ {x} /\ s \ {x} \in SUBSET S
      BY <1>1, <1>2, <1>3, <1>4, <1>6
    <2> QED BY <2>1
  <1>8. Total(s \ {y}) = Value[x] + Total((s \ {y}) \ {x})
    <2>1. s \ {y} \notin C /\ x \in s \ {y} /\ s \ {y} \in SUBSET S
      BY <1>1, <1>2, <1>3, <1>4, <1>6
    <2> QED BY <2>1
  <1> HIDE DEF C
  <1>9. (s \ {x}) \ {y} = (s \ {y}) \ {x}
    OBVIOUS
  <1>10. /\ Value[x] \in Nat /\ Value[y] \in Nat
         /\ Total((s \ {x}) \ {y}) \in Nat
    BY <1>2, <1>3, <1>4, TotalType, PaymentAssumption
  <1>11. ASSUME NEW a \in Nat, NEW b \in Nat, NEW n \in Nat
         PROVE  a + (b + n) = b + (a + n)
    OBVIOUS
  <1> DEFINE n == Total((s \ {x}) \ {y})
  <1>12. Value[x] + (Value[y] + n) = Value[y] + (Value[x] + n)
    BY <1>10, <1>11
  <1> QED BY <1>3, <1>5, <1>7, <1>8, <1>9, <1>12

\* What two sets without a common output are worth together.
LEMMA TotalUnion ==
    ASSUME NEW S \in SUBSET Output, IsFiniteSet(S),
           NEW T \in SUBSET Output, IsFiniteSet(T), S \cap T = {}
    PROVE  Total(S \cup T) = Total(S) + Total(T)
  <1> DEFINE C == {t \in SUBSET T : Total(S \cup t) # Total(S) + Total(t)}
  <1> SUFFICES ASSUME C # {} PROVE FALSE
    OBVIOUS
  <1>1. PICK t \in C : \A d \in C : d \subseteq t => d = t
    <2>1. C \in SUBSET (SUBSET T)
      OBVIOUS
    <2> HIDE DEF C
    <2> QED BY <2>1, SmallestSet
  <1>2. /\ t \in SUBSET T /\ IsFiniteSet(t) /\ t \in SUBSET Output
        /\ IsFiniteSet(S \cup t)
        /\ Total(S \cup t) # Total(S) + Total(t)
    BY FS_Subset, FS_Union
  <1>3. Total(S) \in Nat /\ Total(t) \in Nat
    BY <1>2, TotalType
  <1>4. t # {}
    <2>1. Total({}) = 0
      BY FS_EmptySet, TotalNext
    <2>2. ASSUME t = {} PROVE FALSE
      <3>1. Total(t) = 0 /\ S \cup t = S
        BY <2>1, <2>2
      <3>2. Total(S \cup t) = Total(S)
        BY <3>1
      <3> QED BY <1>2, <1>3, <3>1, <3>2
    <2> QED BY <2>2
  <1>5. PICK o \in t : TRUE
    BY <1>4
  <1>6. Total(S \cup (t \ {o})) = Total(S) + Total(t \ {o})
    BY <1>1, <1>2, <1>5
  <1>7. Total(t) = Value[o] + Total(t \ {o})
    BY <1>2, <1>5, TotalStep
  <1>8. Total(S \cup t) = Value[o] + Total(S \cup (t \ {o}))
    <2>1. (S \cup t) \ {o} = S \cup (t \ {o})
      BY <1>2, <1>5
    <2>2. o \in S \cup t /\ S \cup t \in SUBSET Output
      BY <1>2, <1>5
    <2>3. Total(S \cup t) = Value[o] + Total((S \cup t) \ {o})
      BY <1>2, <2>2, TotalStep
    <2> QED BY <2>1, <2>3
  <1>9. Value[o] \in Nat /\ Total(t \ {o}) \in Nat
    <2>1. IsFiniteSet(t \ {o}) /\ t \ {o} \in SUBSET Output /\ o \in Output
      BY <1>2, <1>5, FS_Subset
    <2> QED BY <2>1, TotalType, PaymentAssumption
  <1> QED BY <1>2, <1>3, <1>6, <1>7, <1>8, <1>9

\* From outputs that are worth an amount, the smallest ones can be taken one
\* after the other until it is reached.
LEMMA SmallestFirst ==
    ASSUME NEW S \in SUBSET Output, IsFiniteSet(S), NEW amount \in Nat \ {0},
           Total(S) >= amount
    PROVE  \E c \in SUBSET S :
              /\ Total(c) >= amount
              /\ \A o \in c, p \in S \ c : Value[o] <= Value[p]
              /\ \E o \in c : /\ \A p \in c : Value[p] <= Value[o]
                              /\ Total(c \ {o}) < amount
  <1> DEFINE Low(c) == \A o \in c, p \in S \ c : Value[o] <= Value[p]
             Enough == {c \in SUBSET S : Low(c) /\ Total(c) >= amount}
             Worth == {Total(c) : c \in Enough}
  <1>1. ASSUME NEW c \in SUBSET S
        PROVE  /\ IsFiniteSet(c) /\ c \in SUBSET Output /\ Total(c) \in Nat
               /\ \A o \in c : /\ Value[o] \in Nat \ {0}
                               /\ Total(c \ {o}) \in Nat
                               /\ Total(c) = Value[o] + Total(c \ {o})
    <2>1. IsFiniteSet(c) /\ c \in SUBSET Output /\ Total(c) \in Nat
      BY FS_Subset, TotalType
    <2>2. ASSUME NEW o \in c
          PROVE  Total(c \ {o}) \in Nat /\ Value[o] \in Nat \ {0}
      <3>1. IsFiniteSet(c \ {o}) /\ c \ {o} \in SUBSET Output /\ o \in Output
        BY <2>1, FS_Subset
      <3> QED BY <3>1, TotalType, PaymentAssumption
    <2> QED BY <2>1, <2>2, TotalStep
  <1>2. Worth \in SUBSET Nat /\ Worth # {}
    <2>1. S \in Enough
      OBVIOUS
    <2> QED BY <1>1, <2>1
  <1>3. PICK c \in Enough : \A d \in Enough : Total(c) <= Total(d)
    <2>1. \E n \in Worth : \A m \in Worth : n <= m
      <3> HIDE DEF Worth
      <3> QED BY <1>2, LeastElement
    <2> QED BY <2>1
  <1>4. c \in SUBSET S /\ Low(c) /\ Total(c) >= amount /\ Total(c) \in Nat
    BY <1>1, <1>3
  <1>5. c # {}
    <2>1. Total({}) = 0
      BY FS_EmptySet, TotalNext
    <2> QED BY <1>4, <2>1
  <1>6. PICK o \in c : \A p \in c : Value[p] <= Value[o]
    <2> DEFINE V == {Value[p] : p \in c}
    <2>1. V \in SUBSET Nat /\ V # {} /\ \A n \in V : n <= Total(c)
      <3>1. ASSUME NEW p \in c PROVE Value[p] \in Nat /\ Value[p] <= Total(c)
        <4>1. /\ Value[p] \in Nat \ {0} /\ Total(c \ {p}) \in Nat
              /\ Total(c) = Value[p] + Total(c \ {p})
          BY <1>1, <1>4
        <4> QED BY <4>1
      <3> QED BY <1>5, <3>1
    <2>2. \E n \in V : \A m \in V : m <= n
      <3> HIDE DEF V
      <3> QED BY <1>4, <2>1, GreatestElement
    <2> QED BY <2>2
  <1>7. Total(c \ {o}) < amount
    <2> SUFFICES ASSUME ~(Total(c \ {o}) < amount) PROVE FALSE
      OBVIOUS
    <2>1. /\ Total(c \ {o}) \in Nat /\ Value[o] \in Nat \ {0}
          /\ Total(c) = Value[o] + Total(c \ {o})
      BY <1>1, <1>4
    <2>2. Low(c \ {o})
      BY <1>4, <1>6
    <2>3. c \ {o} \in Enough
      BY <1>4, <2>1, <2>2
    <2>4. Total(c) <= Total(c \ {o})
      BY <1>3, <2>3
    <2> QED BY <2>1, <2>4
  <1> QED BY <1>4, <1>6, <1>7

\* A payment can be prepared when what is free and, if that is too little, what
\* the pool brings are worth the amount.
LEMMA PreparedWhen ==
    ASSUME NEW key \in Key, NEW amount \in Nat \ {0},
           DOMAIN utxo \in SUBSET Output, IsFiniteSet(DOMAIN utxo),
           \A o \in DOMAIN utxo : utxo[o] \in known,
           RealOutputs(key) \in SUBSET Output, IsFiniteSet(RealOutputs(key))
    PROVE  LET free == Locked(DOMAIN utxo, key) \ PendingInputs(key)
           IN  /\ Total(free) \in Nat /\ Total(RealOutputs(key)) \in Nat
               /\ PrepareNewTransaction(key, amount) # {} <=>
                     Total(free) + Total(RealOutputs(key)) >= amount
  <1> DEFINE free == Locked(DOMAIN utxo, key) \ PendingInputs(key)
             real == RealOutputs(key)
             Of(c) == IF \E o \in c : utxo[o] \notin known THEN {}
                      ELSE IF Total(c) >= amount
                      THEN {[approved |-> c, pending |-> {}]}
                      ELSE [approved : {c},
                            pending : ExtendNewTransactionInputs(key,
                                          amount - Total(c))]
  <1>1. PrepareNewTransaction(key, amount) =
            UNION {Of(c) : c \in ChooseSpendableOutputs(key, amount)}
    BY DEF PrepareNewTransaction
  <1>2. /\ free \in SUBSET Output /\ IsFiniteSet(free)
        /\ real \in SUBSET Output /\ IsFiniteSet(real)
        /\ \A o \in free : utxo[o] \in known
    <2>1. free \in SUBSET (DOMAIN utxo)
      BY DEF Locked
    <2> QED BY <2>1, FS_Subset
  <1> HIDE DEF real
  <1>3. Total(free) \in Nat /\ Total(real) \in Nat
    <2> HIDE DEF free
    <2> QED BY <1>2, TotalType
  <1>4. ChooseSpendableOutputs(key, amount) =
            IF Total(free) < amount THEN {free}
            ELSE {c \in TakenUntil(free, amount) :
                    /\ \A o \in c, p \in free \ c : Value[o] <= Value[p]
                    /\ \E o \in c : /\ \A p \in c : Value[p] <= Value[o]
                                    /\ Total(c \ {o}) < amount}
    BY DEF ChooseSpendableOutputs
  <1> HIDE DEF free
  <1>5. CASE Total(free) >= amount
    <2>1. PICK c \in SUBSET free :
              /\ Total(c) >= amount
              /\ \A o \in c, p \in free \ c : Value[o] <= Value[p]
              /\ \E o \in c : /\ \A p \in c : Value[p] <= Value[o]
                              /\ Total(c \ {o}) < amount
      BY <1>2, <1>5, SmallestFirst
    <2>2. c \in TakenUntil(free, amount)
      BY <2>1 DEF TakenUntil
    <2>3. ~(Total(free) < amount)
      BY <1>3, <1>5
    <2>4. c \in ChooseSpendableOutputs(key, amount)
      BY <1>4, <2>1, <2>2, <2>3
    <2>5. Of(c) = {[approved |-> c, pending |-> {}]}
      BY <1>2, <2>1
    <2>6. PrepareNewTransaction(key, amount) # {}
      <3> DEFINE e == [approved |-> c, pending |-> {}]
      <3>1. e \in Of(c)
        BY <2>5
      <3> HIDE DEF Of, e
      <3>2. e \in UNION {Of(d) : d \in ChooseSpendableOutputs(key, amount)}
        BY <2>4, <3>1
      <3> QED BY <1>1, <3>2
    <2> QED BY <1>3, <1>5, <2>6 DEF free, real
  <1>6. CASE Total(free) < amount
    <2>1. PrepareNewTransaction(key, amount) = Of(free)
      <3> HIDE DEF Of
      <3>1. ChooseSpendableOutputs(key, amount) = {free}
        BY <1>4, <1>6
      <3> QED BY <1>1, <3>1
    <2> DEFINE missing == amount - Total(free)
    <2>2. missing \in Nat \ {0}
      BY <1>3, <1>6
    <2>3. Of(free) = [approved : {free},
                      pending : ExtendNewTransactionInputs(key, missing)]
      <3>1. ~\E o \in free : utxo[o] \notin known
        BY <1>2
      <3>2. ~(Total(free) >= amount)
        BY <1>3, <1>6
      <3> QED BY <3>1, <3>2, Zenon
    <2>4. Of(free) # {} <=> ExtendNewTransactionInputs(key, missing) # {}
      <3> HIDE DEF Of, missing
      <3>1. ASSUME NEW e \in ExtendNewTransactionInputs(key, missing)
            PROVE  [approved |-> free, pending |-> e] \in Of(free)
        BY <2>3
      <3>2. ASSUME NEW p \in Of(free)
            PROVE  p.pending \in ExtendNewTransactionInputs(key, missing)
        BY <2>3
      <3> QED BY <3>1, <3>2
    <2> HIDE DEF Of
    <2>5. ExtendNewTransactionInputs(key, missing) # {} <=>
              Total(real) >= missing
      <3> HIDE DEF missing
      <3>1. CASE Total(real) < missing
        BY <1>3, <2>2, <3>1 DEF ExtendNewTransactionInputs, real
      <3>2. CASE Total(real) >= missing
        <4>1. PICK c \in SUBSET real :
                  /\ Total(c) >= missing
                  /\ \E o \in c : Total(c \ {o}) < missing
          BY <1>2, <2>2, <3>2, SmallestFirst
        <4>2. c \in TakenUntil(real, missing)
          BY <4>1 DEF TakenUntil
        <4>3. ~(Total(real) < missing)
          BY <1>3, <2>2, <3>2
        <4>4. c \in ExtendNewTransactionInputs(key, missing)
          BY <4>2, <4>3 DEF ExtendNewTransactionInputs, real
        <4> QED BY <3>2, <4>4
      <3> QED BY <1>3, <2>2, <3>1, <3>2
    <2>6. Total(real) >= missing <=> Total(free) + Total(real) >= amount
      BY <1>3
    <2>7. PrepareNewTransaction(key, amount) # {} <=>
              Total(free) + Total(real) >= amount
      <3> HIDE DEF missing
      <3> QED BY <2>1, <2>4, <2>5, <2>6
    <2> QED BY <1>3, <2>7 DEF free, real
  <1> QED BY <1>3, <1>5, <1>6

\* The balance a wallet is shown is what it can spend: what is free and what
\* the pool brings.  What the pool takes is taken off exactly once.
THEOREM BalanceIsWhatCanBeSpent ==
    Spec => [](Undisturbed => BalanceIsSpendable)
  <1>1. BaseInv /\ StoredInv /\ CleanInv /\ NewInv
            => (Undisturbed => BalanceIsSpendable)
    <2> SUFFICES ASSUME BaseInv, StoredInv, Clean, PoolInv, Idle,
                        NEW key \in Key, ~BalanceFails(key),
                        NEW amount \in 1 .. Total(Locked(Output, key))
                 PROVE  amount <= GetAddressBalance(key) <=>
                            PrepareNewTransaction(key, amount) # {}
      BY DEF CleanInv, NewInv, BalanceIsSpendable
    <2> DEFINE free == Locked(DOMAIN utxo, key) \ PendingInputs(key)
               real == RealOutputs(key)
               used == ApprovedInputs(key)
    <2>1. amount \in Nat \ {0}
      OBVIOUS
    <2>2. /\ \A o \in DOMAIN utxo : o[1] \notin pool /\ utxo[o] \in known
          /\ DOMAIN utxo \in SUBSET Output /\ IsFiniteSet(DOMAIN utxo)
          /\ \A t \in pool : Outputs(t) \subseteq Output
          /\ IsFiniteSet(UNION {Outputs(t) : t \in pool})
      BY AtRest
    <2>3. real \in SUBSET Output /\ IsFiniteSet(real)
      <3>1. /\ real \in SUBSET (UNION {Outputs(t) : t \in pool})
            /\ UNION {Outputs(t) : t \in pool} \subseteq Output
        BY <2>2 DEF RealOutputs, PendingOutputs, Locked
      <3> QED BY <2>2, <3>1, FS_Subset
    <2>4. /\ Total(free) \in Nat /\ Total(real) \in Nat
          /\ PrepareNewTransaction(key, amount) # {} <=>
                Total(free) + Total(real) >= amount
      BY <2>1, <2>2, <2>3, PreparedWhen
    \* What is unspent and used by the pool is what is taken off.
    <2>5. /\ Locked(DOMAIN utxo, key) = free \cup used /\ free \cap used = {}
          /\ used \subseteq DOMAIN utxo /\ free \subseteq DOMAIN utxo
      <3>1. used \subseteq DOMAIN utxo /\ used \subseteq PendingInputs(key)
        BY DEF BalanceFails, ApprovedInputs
      <3>2. \A o \in PendingInputs(key) : KeyOf[o] = key
        BY DEF PendingInputs, Locked
      <3>3. \A o \in PendingOutputs(key) : o[1] \in pool
        BY DEF PendingOutputs, Locked, Outputs
      <3>4. \A o \in PendingInputs(key) \cap DOMAIN utxo : o \in used
        BY <2>2, <3>3 DEF ApprovedInputs
      <3> HIDE DEF used
      <3> QED BY <3>1, <3>2, <3>4 DEF Locked
    <2>6. /\ free \in SUBSET Output /\ IsFiniteSet(free)
          /\ used \in SUBSET Output /\ IsFiniteSet(used)
      <3> HIDE DEF free, used
      <3> QED BY <2>2, <2>5, FS_Subset
    <2> HIDE DEF free, used
    <2>7. /\ Total(Locked(DOMAIN utxo, key)) = Total(free) + Total(used)
          /\ Total(used) \in Nat
      BY <2>5, <2>6, TotalUnion, TotalType
    <2>8. GetAddressBalance(key) = Total(free) + Total(real)
      <3>1. GetAddressBalance(key) =
                Total(Locked(DOMAIN utxo, key)) + (Total(real) - Total(used))
        BY DEF GetAddressBalance, ApprovedBalance, PendingBalance, used
      <3> HIDE DEF real
      <3> QED BY <2>4, <2>7, <3>1 DEF real
    <2> QED BY <2>1, <2>4, <2>8
  <1>2. Spec => [](BaseInv /\ StoredInv /\ CleanInv /\ NewInv)
    BY BaseInit, BaseNext, StoredInit, StoredNext, CleanInit, CleanNext,
       NewInit, NewNext, PTL DEF Spec
  <1> QED BY <1>1, <1>2, PTL

=============================================================================
