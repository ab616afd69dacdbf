--------------------------- MODULE NodeServerProofs ---------------------------
(***************************************************************************)
(* Proofs about NodeServer, for any number of transactions, blocks and     *)
(* signals the channel can hold: what the block maker owes to a wallet's   *)
(* transaction, and to a pool that is full enough for a block.             *)
(***************************************************************************)
EXTENDS NodeServer, FiniteSetTheorems, TLAPS

(***************************************************************************)
(* The inductive invariant                                                 *)
(***************************************************************************)

\* Before StartServer made the block maker, nothing is handled.
StartInv ==
    /\ main \in {"starting", "listening"} => builder = "none"
    /\ builder = "none" =>
        /\ main \in {"starting", "listening", "failed", "ended"}
        /\ pool = {} /\ placed = {} /\ signals = << >>
        /\ \A r \in Request : at[r] # "reading"

\* The signal to exit goes out after the signal to stop, and a handler finds
\* the channel closed only after that.
ExitInv ==
    /\ main \in {"confirmed", "ending", "panicked"} => StopMainChanClosed
    /\ Exit \in ToSet(signals) => StopMainChanClosed
    /\ builder = "exited" => StopMainChanClosed

\* A transaction is signalled by its own request, which was handled.
SignalledInv ==
    \A t \in Wallet :
        t \in ToSet(signals) \/ t = working => at[t] = "done"

\* What a block brought to the main chain went to all nodes with it, so what
\* returns from a block needs no signal.
PlacedInv == placed \subseteq announced

\* The block under way has the signalled transaction in it if the pool still
\* has; with nothing received since, it is the whole pool.
MiningInv ==
    builder = "mining" =>
        /\ working \in Wallet \cap pool => working \in block \cup announced
        /\ signals = << >> /\ ~overtaken => pool \subseteq block

UnmadeInv == builder = "unmade" /\ signals = << >> => ~Enough(pool)

IInv ==
    /\ TypeOK /\ StartInv /\ ExitInv /\ SignalledInv /\ PlacedInv
    /\ MiningInv /\ UnmadeInv /\ NothingForgotten /\ NoWakeUpLost

(***************************************************************************)
(* Lemmas about the channel and the pool                                   *)
(***************************************************************************)

\* A signal sent is the last of those that wait.
LEMMA Sent ==
    ASSUME NEW C, NEW s \in Seq(C), NEW e \in C
    PROVE  /\ ToSet(Append(s, e)) = ToSet(s) \cup {e}
           /\ Append(s, e) \in Seq(C) /\ Append(s, e) # << >>
           /\ Len(Append(s, e)) = Len(s) + 1
<1>1. DOMAIN Append(s, e) = DOMAIN s \cup {Len(s) + 1}
  OBVIOUS
<1>2. Append(s, e)[Len(s) + 1] = e
      /\ \A i \in DOMAIN s : Append(s, e)[i] = s[i]
  OBVIOUS
<1>3. Append(s, e) \in Seq(C) /\ Len(Append(s, e)) = Len(s) + 1
  OBVIOUS
<1>4. Len(s) + 1 # Len(<< >>)
  OBVIOUS
<1>5. Append(s, e) # << >>
  BY <1>3, <1>4
<1> QED BY <1>1, <1>2, <1>3, <1>5 DEF ToSet

\* A signal received is the first of them.
LEMMA Received ==
    ASSUME NEW C, NEW s \in Seq(C), s # << >>
    PROVE  /\ ToSet(s) = ToSet(Tail(s)) \cup {Head(s)}
           /\ Head(s) \in C /\ Tail(s) \in Seq(C) /\ Len(Tail(s)) <= Len(s)
<1>1. Head(s) = s[1] /\ 1 \in DOMAIN s /\ Head(s) \in C
  OBVIOUS
<1>2. Tail(s) \in Seq(C) /\ Len(Tail(s)) = Len(s) - 1
  OBVIOUS
<1>3. \A i \in DOMAIN Tail(s) : i + 1 \in DOMAIN s /\ Tail(s)[i] = s[i + 1]
  OBVIOUS
<1>4. \A i \in DOMAIN s \ {1} : i - 1 \in DOMAIN Tail(s)
                                 /\ Tail(s)[i - 1] = s[i]
  OBVIOUS
<1>5. ToSet(s) \subseteq ToSet(Tail(s)) \cup {Head(s)}
  BY <1>1, <1>4 DEF ToSet
<1>6. ToSet(Tail(s)) \cup {Head(s)} \subseteq ToSet(s)
  BY <1>1, <1>3 DEF ToSet
<1> QED BY <1>1, <1>2, <1>5, <1>6

\* A pool that is too small stays so when it loses transactions.
LEMMA FewerAreNotEnough ==
    ASSUME NEW S \in SUBSET Tx, NEW T \in SUBSET S, ~Enough(S)
    PROVE  ~Enough(T)
<1>1. IsFiniteSet(Tx)
  BY FS_Union, ServerAssumption DEF Tx
<1>2. IsFiniteSet(S)
  BY <1>1, FS_Subset
<1>3. IsFiniteSet(T) /\ Cardinality(T) <= Cardinality(S)
  BY <1>2, FS_Subset
<1>4. Cardinality(S) \in Nat /\ Cardinality(T) \in Nat /\ MinTxs \in Nat
  BY <1>2, <1>3, FS_CardinalityType, ServerAssumption
<1> QED BY <1>3, <1>4 DEF Enough

LEMMA NoneAreNotEnough == ~Enough({})
BY FS_EmptySet, ServerAssumption DEF Enough

(***************************************************************************)
(* The invariant holds                                                     *)
(***************************************************************************)

LEMMA InitInv == Init => IInv
<1> SUFFICES ASSUME Init PROVE IInv
  OBVIOUS
<1>1. ToSet(signals) = {}
  BY DEF Init, ToSet
<1>2. TypeOK
  <2>1. signals \in Seq(Signal) /\ Len(signals) <= Buffer
    BY ServerAssumption DEF Init
  <2>2. at \in [Request -> {"away", "connected", "reading", "done"}]
    BY DEF Init
  <2> QED BY <2>1, <2>2 DEF Init, TypeOK, Signal
<1>3. working \notin Wallet
  BY ServerAssumption DEF Init
<1> QED
  BY <1>1, <1>2, <1>3, NoneAreNotEnough
  DEF Init, IInv, StartInv, ExitInv, SignalledInv, PlacedInv, MiningInv,
      UnmadeInv, NothingForgotten, NoWakeUpLost

\* The steps of starting and stopping that send nothing.
LEMMA LifecycleStep ==
    ASSUME IInv,
           \/ Listen \/ ListenFails \/ StartServer \/ WaitServerStarted
           \/ ReceiveSignal \/ SendVoid \/ Confirmed \/ CloseTheEnd
           \/ EndProcess
           \/ \E r \in Request : StopAccepting(r)
    PROVE  IInv'
<1> USE DEF vars, lifecycle, making, data, story
<1>1. TypeOK'
  BY ZenonT(40)
  DEF IInv, TypeOK, Listen, ListenFails, StartServer, WaitServerStarted,
         ReceiveSignal, SendVoid, Confirmed, CloseTheEnd, EndProcess,
         StopAccepting, Request, Signal
<1>2. StartInv'
  BY DEF IInv, TypeOK, StartInv, Listen, ListenFails, StartServer,
         WaitServerStarted, ReceiveSignal, SendVoid, Confirmed, CloseTheEnd,
         EndProcess, StopAccepting, Alive, Request
<1>3. ExitInv'
  BY DEF IInv, ExitInv, Listen, ListenFails, StartServer, WaitServerStarted,
         ReceiveSignal, SendVoid, Confirmed, CloseTheEnd, EndProcess,
         StopAccepting, StopMainChanClosed
<1>4. SignalledInv'
  BY ServerAssumption
  DEF IInv, TypeOK, SignalledInv, Listen, ListenFails, StartServer,
      WaitServerStarted, ReceiveSignal, SendVoid, Confirmed, CloseTheEnd,
      EndProcess, StopAccepting, Request, Tx
<1>5. (PlacedInv /\ MiningInv /\ UnmadeInv)'
  BY DEF IInv, PlacedInv, MiningInv, UnmadeInv, StartInv, Listen, ListenFails,
         StartServer, WaitServerStarted, ReceiveSignal, SendVoid, Confirmed,
         CloseTheEnd, EndProcess, StopAccepting, Enough
<1>6. (NothingForgotten /\ NoWakeUpLost)'
  BY NoneAreNotEnough
  DEF IInv, NothingForgotten, NoWakeUpLost, StartInv, Listen, ListenFails,
      StartServer, WaitServerStarted, ReceiveSignal, SendVoid, Confirmed,
      CloseTheEnd, EndProcess, StopAccepting, Enough
<1> QED BY <1>1, <1>2, <1>3, <1>4, <1>5, <1>6 DEF IInv

\* The exit signal is one more signal.
LEMMA SendExitStep == ASSUME IInv, SendExit PROVE IInv'
<1> USE DEF vars, lifecycle, making, data, story
<1>0. signals \in Seq(Signal) /\ Exit \in Signal
  BY DEF IInv, TypeOK, Signal
<1>1. /\ ToSet(signals') = ToSet(signals) \cup {Exit}
      /\ signals' \in Seq(Signal) /\ signals' # << >>
      /\ Len(signals') = Len(signals) + 1
  BY <1>0, Sent DEF SendExit
<1>2. Len(signals) \in Nat
  BY <1>0
<1>3. TypeOK'
  BY <1>1, <1>2, ServerAssumption DEF IInv, TypeOK, SendExit
<1>4. (StartInv /\ ExitInv)'
  BY <1>1 DEF IInv, StartInv, ExitInv, SendExit, StopMainChanClosed
<1>5. (SignalledInv /\ PlacedInv /\ MiningInv /\ UnmadeInv)'
  BY <1>1, ServerAssumption
  DEF IInv, SignalledInv, PlacedInv, MiningInv, UnmadeInv, SendExit, Enough
<1>6. (NothingForgotten /\ NoWakeUpLost)'
  BY <1>1 DEF IInv, NothingForgotten, NoWakeUpLost, SendExit, Enough
<1> QED BY <1>3, <1>4, <1>5, <1>6 DEF IInv

\* What only moves a request leaves the rest alone.
LEMMA RequestStep ==
    ASSUME IInv,
           \E r \in Request : Connect(r) \/ AcceptConnection(r) \/ Refuse(r)
    PROVE  IInv'
<1> USE DEF vars, lifecycle, making, data, story
<1> PICK r \in Request : Connect(r) \/ AcceptConnection(r) \/ Refuse(r)
  OBVIOUS
<1>1. TypeOK'
  BY DEF IInv, TypeOK, Connect, AcceptConnection, Refuse
<1>2. StartInv'
  BY DEF IInv, TypeOK, StartInv, Connect, AcceptConnection, Refuse, PortOpen
<1>3. SignalledInv'
  BY DEF IInv, TypeOK, SignalledInv, Connect, AcceptConnection, Refuse,
         Request, Tx
<1>4. (ExitInv /\ PlacedInv /\ MiningInv /\ UnmadeInv)'
  BY DEF IInv, ExitInv, PlacedInv, MiningInv, UnmadeInv, Connect,
         AcceptConnection, Refuse, StopMainChanClosed, Enough
<1>5. (NothingForgotten /\ NoWakeUpLost)'
  BY DEF IInv, NothingForgotten, NoWakeUpLost, Connect, AcceptConnection,
         Refuse, Enough
<1> QED BY <1>1, <1>2, <1>3, <1>4, <1>5 DEF IInv

\* A handler's signal is sent or the channel is full; a wallet's is noted when
\* it is dropped.  Only a channel that is closed ends the process.
LEMMA Tried ==
    ASSUME TypeOK, NEW s \in Signal, TryToMakeNewBlock(s)
    PROVE  /\ signals' \in Seq(Signal) /\ Len(signals') <= Buffer
           /\ ToSet(signals) \subseteq ToSet(signals')
           /\ ToSet(signals') \subseteq ToSet(signals) \cup {s}
           /\ dropped \subseteq dropped' /\ dropped' \subseteq Wallet
           /\ builder # "exited" =>
                /\ main' = main /\ signals' # << >>
                /\ s \in Wallet => s \in ToSet(signals') \cup dropped'
           /\ builder = "exited" => main' = "panicked"
           /\ main' \in {main, "panicked"}
<1>0. signals \in Seq(Signal) /\ Len(signals) <= Buffer
      /\ Len(signals) \in Nat /\ Buffer \in Nat \ {0} /\ dropped \subseteq Wallet
  BY ServerAssumption DEF TypeOK
<1>1. CASE builder = "exited"
  BY <1>0, <1>1 DEF TryToMakeNewBlock, BlockBilderChanClosed
<1>2. CASE builder # "exited" /\ Len(signals) < Buffer
  <2>1. signals' = Append(signals, s) /\ dropped' = dropped /\ main' = main
    BY <1>2 DEF TryToMakeNewBlock, BlockBilderChanClosed
  <2>2. /\ ToSet(signals') = ToSet(signals) \cup {s}
        /\ signals' \in Seq(Signal) /\ signals' # << >>
        /\ Len(signals') = Len(signals) + 1
    BY <1>0, <2>1, Sent
  <2> QED BY <1>0, <1>2, <2>1, <2>2
<1>3. CASE builder # "exited" /\ ~(Len(signals) < Buffer)
  <2>1. signals' = signals /\ dropped' = dropped \cup ({s} \cap Wallet)
        /\ main' = main
    BY <1>3 DEF TryToMakeNewBlock, BlockBilderChanClosed
  <2>2. Len(signals) # Len(<< >>)
    BY <1>0, <1>3
  <2> QED BY <1>0, <1>3, <2>1, <2>2
<1> QED BY <1>1, <1>2, <1>3

\* A transaction comes with its signal.
LEMMA HandleTxStep == ASSUME IInv, NEW t \in Tx, HandleTx(t) PROVE IInv'
<1> USE DEF vars, lifecycle, making, data, story
<1>1. t \in Request /\ SignalOf(t) \in Signal /\ SignalOf(t) # Exit
  BY ServerAssumption DEF Request, Signal, SignalOf
<1>2. TypeOK /\ TryToMakeNewBlock(SignalOf(t))
  BY DEF IInv, HandleTx
<1>3. /\ signals' \in Seq(Signal) /\ Len(signals') <= Buffer
      /\ ToSet(signals) \subseteq ToSet(signals')
      /\ ToSet(signals') \subseteq ToSet(signals) \cup {SignalOf(t)}
      /\ dropped \subseteq dropped' /\ dropped' \subseteq Wallet
      /\ builder # "exited" =>
           /\ main' = main /\ signals' # << >>
           /\ t \in Wallet => t \in ToSet(signals') \cup dropped'
      /\ builder = "exited" => main' = "panicked"
      /\ main' \in {main, "panicked"}
  BY <1>1, <1>2, Tried DEF SignalOf
<1>4. TypeOK'
  BY <1>1, <1>3 DEF IInv, TypeOK, HandleTx
<1>5. builder # "none"
  BY <1>1 DEF IInv, StartInv, HandleTx
<1>6. (StartInv /\ ExitInv)'
  BY <1>1, <1>3, <1>5
  DEF IInv, StartInv, ExitInv, HandleTx, StopMainChanClosed
<1>7. SignalledInv'
  BY <1>1, <1>3, ServerAssumption
  DEF IInv, TypeOK, SignalledInv, HandleTx, SignalOf, Request
<1>8. (PlacedInv /\ UnmadeInv /\ NoWakeUpLost)'
  BY <1>3, <1>5 DEF IInv, PlacedInv, UnmadeInv, NoWakeUpLost, HandleTx
<1>9. MiningInv'
  <2>1. working # t \/ t \notin Wallet
    BY <1>1 DEF IInv, SignalledInv, HandleTx
  <2> QED BY <1>3, <2>1 DEF IInv, MiningInv, HandleTx
<1>10. NothingForgotten'
  BY <1>3 DEF IInv, NothingForgotten, HandleTx
<1> QED BY <1>4, <1>6, <1>7, <1>8, <1>9, <1>10 DEF IInv

\* The changes of the main chain keep what is known of the pool.
LEMMA Changed ==
    ASSUME IInv, NEW back \in SUBSET placed, NEW taken \in SUBSET pool,
           ChainChanges(back, taken)
    PROVE  /\ stale' \subseteq pool' /\ pool' \subseteq Tx
           /\ placed' \subseteq announced' /\ announced' \subseteq Tx
           /\ announced \subseteq announced' /\ overtaken'
           /\ \A t \in pool' : t \in pool \/ t \in announced
           /\ back = {} => (~Enough(pool) => ~Enough(pool'))
<1>1. /\ pool \subseteq Tx /\ placed \subseteq announced
      /\ announced \subseteq Tx /\ stale \subseteq pool
  BY DEF IInv, TypeOK, PlacedInv
<1>2. back = {} => pool' \in SUBSET pool
  BY DEF ChainChanges
<1>3. back = {} => (~Enough(pool) => ~Enough(pool'))
  BY <1>1, <1>2, FewerAreNotEnough
<1>4. stale' \subseteq pool'
  <2>1. PICK hit \in SUBSET pool' : stale' = (stale \ taken) \cup hit
    BY DEF ChainChanges
  <2>2. stale \ taken \subseteq pool'
    BY <1>1 DEF ChainChanges
  <2> QED BY <2>1, <2>2
<1> QED BY <1>1, <1>3, <1>4 DEF ChainChanges

LEMMA HandleBlockStep ==
    ASSUME IInv, NEW b \in Incoming, HandleBlock(b) PROVE IInv'
<1> USE DEF vars, lifecycle, making, data, story
<1>1. PICK taken \in SUBSET pool : ChainChanges({}, taken)
  BY DEF HandleBlock
<1>2. /\ stale' \subseteq pool' /\ pool' \subseteq Tx /\ overtaken'
      /\ placed' \subseteq announced' /\ announced' \subseteq Tx
      /\ announced \subseteq announced'
      /\ ~Enough(pool) => ~Enough(pool')
  BY <1>1, Changed
<1>3. pool' \subseteq pool /\ overtaken' = TRUE
  BY <1>1 DEF ChainChanges
<1>4. b \in Request /\ b \notin Wallet /\ at[b] = "reading"
  BY ServerAssumption DEF Request, HandleBlock
<1>5. TypeOK'
  BY <1>2, <1>3, <1>4 DEF IInv, TypeOK, HandleBlock
<1>6. builder # "none"
  BY <1>4 DEF IInv, StartInv
<1>7. (StartInv /\ ExitInv)'
  BY <1>6 DEF IInv, StartInv, ExitInv, HandleBlock, StopMainChanClosed
<1>8. SignalledInv'
  BY <1>4 DEF IInv, TypeOK, SignalledInv, HandleBlock
<1>9. (PlacedInv /\ MiningInv /\ UnmadeInv)'
  BY <1>2, <1>3
  DEF IInv, PlacedInv, MiningInv, UnmadeInv, HandleBlock
<1>10. (NothingForgotten /\ NoWakeUpLost)'
  BY <1>2, <1>3 DEF IInv, NothingForgotten, NoWakeUpLost, HandleBlock
<1> QED BY <1>5, <1>7, <1>8, <1>9, <1>10 DEF IInv

\* What a branch brings back was sent to all nodes before, and the block maker
\* is called.
LEMMA HandleBranchStep ==
    ASSUME IInv, NEW b \in Incoming, HandleBranch(b) PROVE IInv'
<1> USE DEF vars, lifecycle, making, data, story
<1>1. PICK back \in SUBSET placed, taken \in SUBSET pool :
          ChainChanges(back, taken)
  BY DEF HandleBranch
<1>2. /\ stale' \subseteq pool' /\ pool' \subseteq Tx /\ overtaken'
      /\ placed' \subseteq announced' /\ announced' \subseteq Tx
      /\ announced \subseteq announced'
      /\ \A t \in pool' : t \in pool \/ t \in announced
  BY <1>1, Changed
<1>3. overtaken' = TRUE /\ placed' \subseteq Tx
  BY <1>1, <1>2 DEF ChainChanges
<1>4. b \in Request /\ b \notin Wallet /\ at[b] = "reading"
  BY ServerAssumption DEF Request, HandleBranch
<1>5. NewBranch \in Signal /\ NewBranch \notin Wallet /\ NewBranch # Exit
      /\ TypeOK /\ TryToMakeNewBlock(NewBranch)
  BY ServerAssumption DEF Signal, IInv, HandleBranch
<1>6. /\ signals' \in Seq(Signal) /\ Len(signals') <= Buffer
      /\ ToSet(signals) \subseteq ToSet(signals')
      /\ ToSet(signals') \subseteq ToSet(signals) \cup {NewBranch}
      /\ dropped \subseteq dropped' /\ dropped' \subseteq Wallet
      /\ builder # "exited" => main' = main /\ signals' # << >>
      /\ builder = "exited" => main' = "panicked"
      /\ main' \in {main, "panicked"}
  BY <1>5, Tried
<1>7. TypeOK'
  BY <1>2, <1>3, <1>4, <1>6 DEF IInv, TypeOK, HandleBranch
<1>8. builder # "none"
  BY <1>4 DEF IInv, StartInv
<1>9. (StartInv /\ ExitInv)'
  BY <1>5, <1>6, <1>8
  DEF IInv, StartInv, ExitInv, HandleBranch, StopMainChanClosed
<1>10. SignalledInv'
  BY <1>4, <1>5, <1>6 DEF IInv, TypeOK, SignalledInv, HandleBranch
<1>11. (PlacedInv /\ MiningInv /\ UnmadeInv)'
  BY <1>2, <1>3, <1>6
  DEF IInv, PlacedInv, MiningInv, UnmadeInv, HandleBranch
<1>12. (NothingForgotten /\ NoWakeUpLost)'
  BY <1>2, <1>3, <1>6 DEF IInv, NothingForgotten, NoWakeUpLost, HandleBranch
<1> QED BY <1>7, <1>9, <1>10, <1>11, <1>12 DEF IInv

(***************************************************************************)
(* The block maker                                                         *)
(***************************************************************************)

LEMMA BlockBuilderStep == ASSUME IInv, BlockBuilder PROVE IInv'
<1> USE DEF vars, lifecycle, making, data, story
<1>1. signals \in Seq(Signal) /\ signals # << >> /\ Len(signals) <= Buffer
  BY DEF IInv, TypeOK, BlockBuilder
<1>2. /\ ToSet(signals) = ToSet(signals') \cup {working'}
      /\ working' \in Signal /\ signals' \in Seq(Signal)
      /\ Len(signals') <= Len(signals)
  BY <1>1, Received DEF BlockBuilder
<1>3. Len(signals) \in Nat /\ Len(signals') \in Nat /\ Buffer \in Nat
  BY <1>1, <1>2, ServerAssumption
<1>4. Len(signals') <= Buffer
  BY <1>1, <1>2, <1>3
<1>5. builder' = IF working' = Exit THEN "exited" ELSE "preparing"
  BY DEF BlockBuilder
<1>6. TypeOK'
  BY <1>2, <1>4, <1>5 DEF IInv, TypeOK, BlockBuilder
<1>7. (StartInv /\ ExitInv)'
  BY <1>2, <1>5
  DEF IInv, StartInv, ExitInv, BlockBuilder, StopMainChanClosed
<1>8. SignalledInv'
  BY <1>2 DEF IInv, SignalledInv, BlockBuilder
<1>9. (PlacedInv /\ MiningInv /\ UnmadeInv /\ NoWakeUpLost)'
  BY <1>5
  DEF IInv, PlacedInv, MiningInv, UnmadeInv, NoWakeUpLost, BlockBuilder
<1>10. NothingForgotten'
  BY <1>2, <1>5 DEF IInv, NothingForgotten, BlockBuilder
<1> QED BY <1>6, <1>7, <1>8, <1>9, <1>10 DEF IInv

LEMMA NotEnoughStep == ASSUME IInv, NotEnough PROVE IInv'
<1> USE DEF vars, lifecycle, making, data, story
<1>1. TypeOK'
  BY DEF IInv, TypeOK, NotEnough
<1>2. (StartInv /\ ExitInv /\ SignalledInv)'
  BY DEF IInv, StartInv, ExitInv, SignalledInv, NotEnough, StopMainChanClosed
<1>3. (PlacedInv /\ MiningInv /\ UnmadeInv)'
  BY DEF IInv, PlacedInv, MiningInv, UnmadeInv, NotEnough, Enough
<1>4. (NothingForgotten /\ NoWakeUpLost)'
  BY DEF IInv, NothingForgotten, NoWakeUpLost, NotEnough
<1> QED BY <1>1, <1>2, <1>3, <1>4 DEF IInv

\* The block is the pool without what is stale; when that is not enough the
\* attempt failed, and the pool is too small to be waited for.
LEMMA PrepareStep == ASSUME IInv, PrepareNewBlock PROVE IInv'
<1> USE DEF vars, lifecycle, making, data, story
<1>1. pool' \subseteq pool /\ pool' \subseteq Tx
  BY DEF IInv, TypeOK, PrepareNewBlock
<1>2. CASE Enough(pool')
  <2>1. /\ builder' = "mining" /\ block' = pool' /\ overtaken' = FALSE
        /\ held' = held /\ failed' = failed
    BY <1>2 DEF PrepareNewBlock
  <2>2. TypeOK'
    BY <1>1, <2>1 DEF IInv, TypeOK, PrepareNewBlock
  <2>3. (StartInv /\ ExitInv /\ SignalledInv)'
    BY <2>1
    DEF IInv, StartInv, ExitInv, SignalledInv, PrepareNewBlock,
        StopMainChanClosed
  <2>4. (PlacedInv /\ MiningInv /\ UnmadeInv)'
    BY <2>1 DEF IInv, PlacedInv, MiningInv, UnmadeInv, PrepareNewBlock
  <2>5. (NothingForgotten /\ NoWakeUpLost)'
    BY <1>1, <2>1
    DEF IInv, NothingForgotten, NoWakeUpLost, PrepareNewBlock
  <2> QED BY <2>2, <2>3, <2>4, <2>5 DEF IInv
<1>3. CASE ~Enough(pool')
  <2>1. /\ builder' = "waiting" /\ held' = TRUE /\ block' = block
        /\ failed' = failed \cup ({working} \cap Wallet)
        /\ overtaken' = overtaken
    BY <1>3 DEF PrepareNewBlock
  <2>2. TypeOK'
    BY <1>1, <2>1 DEF IInv, TypeOK, PrepareNewBlock
  <2>3. (StartInv /\ ExitInv /\ SignalledInv)'
    BY <2>1
    DEF IInv, StartInv, ExitInv, SignalledInv, PrepareNewBlock,
        StopMainChanClosed
  <2>4. (PlacedInv /\ MiningInv /\ UnmadeInv)'
    BY <2>1 DEF IInv, PlacedInv, MiningInv, UnmadeInv, PrepareNewBlock
  <2>5. (NothingForgotten /\ NoWakeUpLost)'
    BY <1>1, <1>3, <2>1
    DEF IInv, NothingForgotten, NoWakeUpLost, PrepareNewBlock
  <2> QED BY <2>2, <2>3, <2>4, <2>5 DEF IInv
<1> QED BY <1>2, <1>3

LEMMA SendTransactionStep == ASSUME IInv, SendTransactionToAll PROVE IInv'
<1> USE DEF vars, lifecycle, making, data, story
<1>1. TypeOK'
  BY DEF IInv, TypeOK, SendTransactionToAll
<1>2. (StartInv /\ ExitInv /\ SignalledInv)'
  BY DEF IInv, StartInv, ExitInv, SignalledInv, SendTransactionToAll,
         StopMainChanClosed
<1>3. (PlacedInv /\ MiningInv /\ UnmadeInv)'
  BY DEF IInv, PlacedInv, MiningInv, UnmadeInv, SendTransactionToAll
<1>4. NothingForgotten'
  BY DEF IInv, NothingForgotten, SendTransactionToAll
<1>5. NoWakeUpLost'
  BY DEF IInv, NoWakeUpLost, UnmadeInv, SendTransactionToAll, Enough
<1> QED BY <1>1, <1>2, <1>3, <1>4, <1>5 DEF IInv

\* On top of the chain the block empties the pool of all that came without a
\* signal; sent it is in both cases.
LEMMA CompleteStep == ASSUME IInv, CompleteBlock PROVE IInv'
<1> USE DEF vars, lifecycle, making, data, story
<1>1. /\ pool' \subseteq pool /\ builder = "mining" /\ builder' = "waiting"
      /\ announced' = announced \cup block /\ raced' = overtaken
      /\ ~overtaken => pool' = pool \ block
      /\ signals' = signals /\ dropped' = dropped /\ failed' = failed
      /\ working' = working
  BY DEF CompleteBlock
<1>2. TypeOK'
  BY <1>1 DEF IInv, TypeOK, CompleteBlock
<1>3. (StartInv /\ ExitInv /\ SignalledInv)'
  BY DEF IInv, StartInv, ExitInv, SignalledInv, CompleteBlock,
         StopMainChanClosed
<1>4. (PlacedInv /\ MiningInv /\ UnmadeInv)'
  BY DEF IInv, PlacedInv, MiningInv, UnmadeInv, CompleteBlock
<1>5. NothingForgotten'
  BY <1>1 DEF IInv, TypeOK, NothingForgotten, MiningInv
<1>6. NoWakeUpLost'
  <2>1. signals = << >> /\ ~overtaken => pool' = {}
    BY <1>1 DEF IInv, MiningInv
  <2> QED BY <1>1, <2>1, NoneAreNotEnough DEF NoWakeUpLost
<1> QED BY <1>2, <1>3, <1>4, <1>5, <1>6 DEF IInv

LEMMA BlockFailsStep == ASSUME IInv, BlockFails PROVE IInv'
<1> USE DEF vars, lifecycle, making, data, story
<1>1. TypeOK'
  BY DEF IInv, TypeOK, BlockFails
<1>2. (StartInv /\ ExitInv /\ SignalledInv)'
  BY DEF IInv, StartInv, ExitInv, SignalledInv, BlockFails, StopMainChanClosed
<1>3. (PlacedInv /\ MiningInv /\ UnmadeInv)'
  BY DEF IInv, PlacedInv, MiningInv, UnmadeInv, BlockFails
<1>4. (NothingForgotten /\ NoWakeUpLost)'
  BY DEF IInv, NothingForgotten, NoWakeUpLost, BlockFails
<1> QED BY <1>1, <1>2, <1>3, <1>4 DEF IInv

LEMMA IdleStep == ASSUME IInv, UNCHANGED vars PROVE IInv'
BY DEF IInv, TypeOK, StartInv, ExitInv, SignalledInv, PlacedInv, MiningInv,
       UnmadeInv, NothingForgotten, NoWakeUpLost, StopMainChanClosed, Enough,
       vars, lifecycle, making, data, story

LEMMA NextInv == IInv /\ [Next]_vars => IInv'
<1> SUFFICES ASSUME IInv, [Next]_vars PROVE IInv'
  OBVIOUS
<1>1. CASE Server
  BY <1>1, LifecycleStep, SendExitStep, RequestStep DEF Server
<1>2. CASE Builder
  BY <1>2, BlockBuilderStep, NotEnoughStep, PrepareStep, SendTransactionStep,
     CompleteStep, BlockFailsStep DEF Builder
<1>3. CASE Clients
  BY <1>3, RequestStep, HandleTxStep, HandleBlockStep, HandleBranchStep
  DEF Clients
<1>4. CASE ReceiveSignal
  BY <1>4, LifecycleStep
<1>5. CASE UNCHANGED vars
  BY <1>5, IdleStep
<1> QED BY <1>1, <1>2, <1>3, <1>4, <1>5 DEF Next

LEMMA InvHolds == Spec => []IInv
BY InitInv, NextInv, PTL DEF Spec

(***************************************************************************)
(* The theorems                                                            *)
(***************************************************************************)

\* The state of the server keeps its shape: the channel never holds more than
\* its capacity, and what is stale is in the pool.
THEOREM ServerTypes == Spec => []TypeOK
<1>1. IInv => TypeOK
  BY DEF IInv
<1> QED BY InvHolds, <1>1, PTL

\* A wallet's transaction that waits in the pool went to all nodes, or has its
\* signal under way, or is one whose signal was dropped or whose attempt ended
\* with an error; whatever blocks other nodes send and take back.
THEOREM WalletsAreServed == Spec => []NothingForgotten
<1>1. IInv => NothingForgotten
  BY DEF IInv
<1> QED BY InvHolds, <1>1, PTL

\* A block maker that waits without a signal has too few transactions for a
\* block, although signals are dropped when the channel is full.
THEOREM PoolIsNotLeftWaiting == Spec => []NoWakeUpLost
<1>1. IInv => NoWakeUpLost
  BY DEF IInv
<1> QED BY InvHolds, <1>1, PTL

\* No handler sends on the closed channel of the block maker before the signal
\* to stop.
THEOREM RunningServerNeverPanics == Spec => []PanicsOnlyWhileStopping
<1>1. IInv => PanicsOnlyWhileStopping
  BY DEF IInv, ExitInv, PanicsOnlyWhileStopping
<1> QED BY InvHolds, <1>1, PTL

===============================================================================
