------------------------------ MODULE NodeServer ------------------------------
(***************************************************************************)
(* One node server: its accept loop, a goroutine per connection, the       *)
(* goroutine that makes blocks and the one that waits for the signal to    *)
(* stop.  They meet in channels: BlockBilderChan wakes the block maker,    *)
(* StopMainChan and StopMainConfirmChan are closed on the way down.        *)
(*                                                                         *)
(* A handler holds the database lock from its change of the pool until     *)
(* after its signal to the block maker, so both are one step here.  What   *)
(* the blocks and the pool hold in detail is Ledger's.                     *)
(***************************************************************************)
EXTENDS Naturals, Sequences, FiniteSets, SequencesExt

CONSTANTS
    Wallet,     \* transactions of wallets (txfull, txdata)
    Peer,       \* transactions of other nodes (tx)
    Incoming,   \* blocks of other nodes (block)
    Void,       \* the connection the server makes to itself (viod)
    NodeTx,     \* the signal {0}: try, and send nothing
    NewBranch,  \* the signal {1}: the same
    Exit,       \* the empty signal
    Buffer,     \* the capacity of BlockBilderChan
    MinTxs      \* how many transactions a block needs

\* The empty signal differs from those of one byte, and all three from every
\* identifier of a transaction; a request is one thing.
ASSUME ServerAssumption ==
    /\ Buffer \in Nat \ {0}
    /\ MinTxs \in Nat \ {0}
    /\ IsFiniteSet(Wallet) /\ IsFiniteSet(Peer)
    /\ Wallet \cap Peer = {} /\ (Wallet \cup Peer) \cap Incoming = {}
    /\ Void \notin Wallet \cup Peer \cup Incoming
    /\ Exit \notin {NodeTx, NewBranch}
    /\ {NodeTx, NewBranch, Exit} \cap Wallet = {}

VARIABLES
    main,       \* where StartServer stands
    result,     \* serverStartResult: "open", "sent" or "closed"
    stopping,   \* where the goroutine of DaemonizeServer stands
    confirmed,  \* StopMainConfirmChan is closed
    at,         \* where the handling of a request stands
    signals,    \* BlockBilderChan
    builder,    \* where the block maker stands
    working,    \* the signal it works on
    block,      \* the transactions of the block it works on
    pool,       \* the unapproved transactions
    stale,      \* those of them a block of another node made invalid
    placed,     \* transactions in blocks of the main chain
    held,       \* nobody can open the blockchain: an attempt has left it open
    overtaken,  \* another node's block came since the block was prepared
    announced,  \* transactions sent to all nodes, alone or in a block that
                \* was made here or sent on
    dropped,    \* transactions whose signal found the channel full
    failed,     \* transactions whose attempt ended with an error
    raced       \* the last attempt's block did not come on top

lifecycle == <<main, result, stopping, confirmed>>
making == <<builder, working, block>>
data == <<pool, stale, placed, held, overtaken>>
story == <<announced, dropped, failed, raced>>
vars == <<lifecycle, at, signals, making, data, story>>

Tx == Wallet \cup Peer
Request == Tx \cup Incoming \cup {Void}
Signal == Wallet \cup {NodeTx, NewBranch, Exit}

TypeOK ==
    /\ main \in {"starting", "listening", "accepting", "confirmed", "ending",
                 "failed", "ended", "panicked"}
    /\ result \in {"open", "sent", "closed"}
    /\ stopping \in {"no", "void", "confirm", "remove", "done"}
    /\ confirmed \in BOOLEAN
    /\ at \in [Request -> {"away", "connected", "reading", "done"}]
    /\ signals \in Seq(Signal) /\ Len(signals) <= Buffer
    /\ builder \in {"none", "waiting", "preparing", "unmade", "mining",
                    "exited"}
    /\ working \in Signal
    /\ block \subseteq Tx
    /\ stale \subseteq pool /\ pool \subseteq Tx /\ placed \subseteq Tx
    /\ announced \subseteq Tx
    /\ dropped \subseteq Wallet /\ failed \subseteq Wallet
    /\ held \in BOOLEAN /\ overtaken \in BOOLEAN /\ raced \in BOOLEAN

\* The end of main ends every goroutine, and so does a panic in one of them.
Alive == main \notin {"ended", "panicked"}
PortOpen == main \in {"listening", "accepting"}
StopMainChanClosed == stopping # "no"
BlockBilderChanClosed == builder = "exited"

Init ==
    /\ main = "starting" /\ result = "open"
    /\ stopping = "no" /\ confirmed = FALSE
    /\ at = [r \in Request |-> "away"]
    /\ signals = << >>
    /\ builder = "none" /\ working = Exit /\ block = {}
    /\ pool = {} /\ stale = {} /\ placed = {}
    /\ held = FALSE /\ overtaken = FALSE
    /\ announced = {} /\ dropped = {} /\ failed = {} /\ raced = FALSE

(***************************************************************************)
(* Starting and stopping                                                   *)
(***************************************************************************)

ListenFails ==
    /\ main = "starting"
    /\ main' = "failed"
    /\ result' = "sent"
    /\ confirmed' = TRUE
    /\ UNCHANGED <<stopping, at, signals, making, data, story>>

Listen ==
    /\ main = "starting"
    /\ main' = "listening"
    /\ UNCHANGED <<result, stopping, confirmed, at, signals, making,
                   data, story>>

\* The version is sent to all nodes, then the channel and the block maker
\* exist and the start is reported.
StartServer ==
    /\ main = "listening"
    /\ main' = "accepting"
    /\ result' = "sent"
    /\ builder' = "waiting"
    /\ UNCHANGED <<stopping, confirmed, at, signals, working, block,
                   data, story>>

WaitServerStarted ==
    /\ Alive /\ result = "sent"
    /\ result' = "closed"
    /\ UNCHANGED <<main, stopping, confirmed, at, signals, making,
                   data, story>>

ReceiveSignal ==
    /\ Alive /\ stopping = "no"
    /\ stopping' = "void"
    /\ UNCHANGED <<main, result, confirmed, at, signals, making, data,
                   story>>

\* A refused connection is only logged.
SendVoid ==
    /\ Alive /\ stopping = "void"
    /\ stopping' = "confirm"
    /\ at' = [at EXCEPT ![Void] = IF PortOpen THEN "connected" ELSE "done"]
    /\ UNCHANGED <<main, result, confirmed, signals, making, data, story>>

Confirmed ==
    /\ Alive /\ stopping = "confirm" /\ confirmed
    /\ stopping' = "remove"
    /\ UNCHANGED <<main, result, confirmed, at, signals, making, data,
                   story>>

\* The PID file is removed and theendchan closed.
CloseTheEnd ==
    /\ Alive /\ stopping = "remove"
    /\ stopping' = "done"
    /\ UNCHANGED <<main, result, confirmed, at, signals, making, data,
                   story>>

(***************************************************************************)
(* The accept loop                                                         *)
(***************************************************************************)

Connect(r) ==
    /\ PortOpen /\ at[r] = "away" /\ r # Void
    /\ at' = [at EXCEPT ![r] = "connected"]
    /\ UNCHANGED <<lifecycle, signals, making, data, story>>

AcceptConnection(r) ==
    /\ main = "accepting" /\ at[r] = "connected" /\ ~StopMainChanClosed
    /\ at' = [at EXCEPT ![r] = "reading"]
    /\ UNCHANGED <<lifecycle, signals, making, data, story>>

\* Mutant: the loop ends without a word to the goroutine that waits for it.
StopSilently(r) ==
    /\ main = "accepting" /\ at[r] = "connected" /\ StopMainChanClosed
    /\ main' = "confirmed"
    /\ UNCHANGED <<result, stopping, confirmed, at, signals, making, data,
                   story>>

\* Whoever connects first after the signal ends the loop, and is not handled.
StopAccepting(r) ==
    /\ main = "accepting" /\ at[r] = "connected" /\ StopMainChanClosed
    /\ main' = "confirmed"
    /\ confirmed' = TRUE
    /\ UNCHANGED <<result, stopping, at, signals, making, data, story>>

SendExit ==
    /\ main = "confirmed" /\ Len(signals) < Buffer
    /\ main' = "ending"
    /\ signals' = Append(signals, Exit)
    /\ UNCHANGED <<result, stopping, confirmed, at, making, data,
                   story>>

\* DaemonizeServer returns, and the process ends with every goroutine.
EndProcess ==
    /\ \/ main = "ending" /\ stopping = "done"
       \/ main = "failed"
    /\ result = "closed"
    /\ main' = "ended"
    /\ UNCHANGED <<result, stopping, confirmed, at, signals, making,
                   data, story>>

(***************************************************************************)
(* Requests                                                                *)
(***************************************************************************)

\* Mutant: the channel has no buffer.
TryToHandOver(s) ==
    IF BlockBilderChanClosed
    THEN /\ main' = "panicked"
         /\ UNCHANGED <<signals, dropped>>
    ELSE /\ main' = main
         /\ signals' = IF builder = "waiting" /\ signals = << >>
                       THEN <<s>> ELSE signals
         /\ dropped' = IF signals' # signals THEN dropped
                       ELSE dropped \cup ({s} \cap Wallet)

\* A full channel drops the signal, a closed one ends the process.
TryToMakeNewBlock(s) ==
    IF BlockBilderChanClosed
    THEN /\ main' = "panicked"
         /\ UNCHANGED <<signals, dropped>>
    ELSE /\ main' = main
         /\ signals' = IF Len(signals) < Buffer THEN Append(signals, s)
                       ELSE signals
         /\ dropped' = IF Len(signals) < Buffer THEN dropped
                       ELSE dropped \cup ({s} \cap Wallet)

SignalOf(t) == IF t \in Wallet THEN t ELSE NodeTx

HandleTx(t) ==
    /\ Alive /\ ~held /\ at[t] = "reading"
    /\ at' = [at EXCEPT ![t] = "done"]
    /\ pool' = pool \cup {t}
    /\ TryToMakeNewBlock(SignalOf(t))
    /\ UNCHANGED <<result, stopping, confirmed, making, stale, placed,
                   held, overtaken, announced, failed, raced>>

\* A request that cannot be read, a transaction that does not verify, a block
\* that is refused.
Refuse(r) ==
    /\ Alive /\ at[r] = "reading"
    /\ at' = [at EXCEPT ![r] = "done"]
    /\ UNCHANGED <<lifecycle, signals, making, data, story>>

\* The main chain changes: some transactions of the pool are in it now, some
\* of blocks that left it return to the pool, and what waits there may spend
\* what the new blocks spend.  The block is sent on to all other nodes.
ChainChanges(back, taken) ==
    /\ pool' = (pool \ taken) \cup back
    /\ placed' = (placed \ back) \cup taken
    /\ \E hit \in SUBSET pool' : stale' = (stale \ taken) \cup hit
    /\ overtaken' = TRUE
    /\ announced' = announced \cup taken

\* A block on top: no block leaves the main chain.
HandleBlock(b) ==
    /\ Alive /\ ~held /\ at[b] = "reading"
    /\ at' = [at EXCEPT ![b] = "done"]
    /\ \E taken \in SUBSET pool : ChainChanges({}, taken)
    /\ UNCHANGED <<lifecycle, signals, making, held, dropped, failed, raced>>

\* A block whose branch replaces the old one: the block maker is called.
HandleBranch(b) ==
    /\ Alive /\ ~held /\ at[b] = "reading"
    /\ at' = [at EXCEPT ![b] = "done"]
    /\ \E back \in SUBSET placed, taken \in SUBSET pool :
          ChainChanges(back, taken)
    /\ TryToMakeNewBlock(NewBranch)
    /\ UNCHANGED <<result, stopping, confirmed, making, held, failed, raced>>

(***************************************************************************)
(* The block maker                                                         *)
(***************************************************************************)

\* Mutant: the signals of one byte count as empty.
BlockBuilderExitsEarly ==
    /\ Alive /\ builder = "waiting" /\ signals # << >>
    /\ signals' = Tail(signals)
    /\ working' = Head(signals)
    /\ builder' = IF Head(signals) \in {Exit, NodeTx, NewBranch} THEN "exited"
                  ELSE "preparing"
    /\ UNCHANGED <<lifecycle, at, block, data, story>>

BlockBuilder ==
    /\ Alive /\ builder = "waiting" /\ signals # << >>
    /\ signals' = Tail(signals)
    /\ working' = Head(signals)
    /\ builder' = IF Head(signals) = Exit THEN "exited" ELSE "preparing"
    /\ UNCHANGED <<lifecycle, at, block, data, story>>

Enough(txs) == Cardinality(txs) >= MinTxs

NotEnough ==
    /\ Alive /\ ~held /\ builder = "preparing" /\ ~Enough(pool)
    /\ builder' = "unmade"
    /\ raced' = FALSE
    /\ UNCHANGED <<lifecycle, at, signals, working, block, data, announced,
                   dropped, failed>>

\* The transactions that verify no more are cancelled.  With too few left the
\* attempt ends with an error: the signalled transaction is not sent, and the
\* connection that nobody closes keeps the lock of the blockchain.
PrepareNewBlock ==
    /\ Alive /\ ~held /\ builder = "preparing" /\ Enough(pool)
    /\ pool' = pool \ stale
    /\ stale' = {}
    /\ raced' = FALSE
    /\ IF Enough(pool')
       THEN /\ builder' = "mining"
            /\ block' = pool'
            /\ overtaken' = FALSE
            /\ UNCHANGED <<held, failed>>
       ELSE /\ builder' = "waiting"
            /\ held' = TRUE
            /\ failed' = failed \cup ({working} \cap Wallet)
            /\ UNCHANGED <<block, overtaken>>
    /\ UNCHANGED <<lifecycle, at, signals, working, placed, announced, dropped>>

\* Mutant: transactions are left to the block maker of another node.
SendNothing ==
    /\ Alive /\ builder = "unmade"
    /\ builder' = "waiting"
    /\ UNCHANGED <<lifecycle, at, signals, working, block, data, story>>

\* Without a block, a wallet's transaction that still waits goes to all nodes.
SendTransactionToAll ==
    /\ Alive /\ builder = "unmade"
    /\ builder' = "waiting"
    /\ announced' = announced \cup ({working} \cap Wallet \cap pool)
    /\ UNCHANGED <<lifecycle, at, signals, working, block, data, dropped,
                   failed, raced>>

\* Mutant: a block that is not on top is not sent.
CompleteAndSendTop ==
    /\ Alive /\ builder = "mining"
    /\ builder' = "waiting"
    /\ raced' = overtaken
    /\ IF overtaken THEN UNCHANGED <<pool, stale, placed, announced>>
       ELSE /\ pool' = pool \ block
            /\ stale' = stale \ block
            /\ placed' = placed \cup block
            /\ announced' = announced \cup block
    /\ block' = {}
    /\ UNCHANGED <<lifecycle, at, signals, working, held, overtaken, dropped,
                   failed>>

\* The proof of work is done, and the block is added: on top, or beside another
\* node's block that was faster; it is sent to all nodes in both cases.
CompleteBlock ==
    /\ Alive /\ builder = "mining"
    /\ builder' = "waiting"
    /\ raced' = overtaken
    /\ IF overtaken THEN UNCHANGED <<pool, stale, placed>>
       ELSE /\ pool' = pool \ block
            /\ stale' = stale \ block
            /\ placed' = placed \cup block
    /\ announced' = announced \cup block
    /\ block' = {}
    /\ UNCHANGED <<lifecycle, at, signals, working, held, overtaken, dropped,
                   failed>>

\* The block is not made, or is refused by the blockchain, with an error: it
\* is sent to nobody, and nor is the signalled transaction.
BlockFails ==
    /\ Alive /\ builder = "mining"
    /\ builder' = "waiting"
    /\ raced' = TRUE
    /\ failed' = failed \cup ({working} \cap Wallet)
    /\ block' = {}
    /\ UNCHANGED <<lifecycle, at, signals, working, data, announced, dropped>>

(***************************************************************************)
(* The specification                                                       *)
(***************************************************************************)

Server ==
    \/ Listen \/ ListenFails \/ StartServer \/ WaitServerStarted
    \/ SendVoid \/ Confirmed \/ CloseTheEnd
    \/ SendExit \/ EndProcess
    \/ \E r \in Request : AcceptConnection(r) \/ StopAccepting(r)

Builder ==
    \/ BlockBuilder
    \/ NotEnough \/ PrepareNewBlock \/ SendTransactionToAll
    \/ CompleteBlock \/ BlockFails

Clients ==
    \/ \E r \in Request : Connect(r) \/ Refuse(r)
    \/ \E t \in Tx : HandleTx(t)
    \/ \E b \in Incoming : HandleBlock(b) \/ HandleBranch(b)

Next == Server \/ Builder \/ Clients \/ ReceiveSignal

Spec == Init /\ [][Next]_vars

\* Goroutines that can run do; the proof of work ends.  Nobody has to connect,
\* and no request has to arrive complete: conn.Read has no deadline.
FairSpec ==
    /\ Spec
    /\ WF_vars(WaitServerStarted) /\ WF_vars(StartServer)
    /\ WF_vars(SendVoid) /\ WF_vars(Confirmed) /\ WF_vars(CloseTheEnd)
    /\ WF_vars(\E r \in Request : AcceptConnection(r) \/ StopAccepting(r))
    /\ WF_vars(SendExit) /\ WF_vars(EndProcess)
    /\ WF_vars(Builder)

(***************************************************************************)
(* Properties                                                              *)
(***************************************************************************)

\* No wallet's transaction is forgotten: one that waits in the pool and was
\* sent to nobody has a signal under way, unless its signal was dropped or its
\* attempt failed.
NothingForgotten ==
    builder # "exited" =>
        \A t \in Wallet \cap pool :
            \/ t \in announced \cup dropped \cup failed
            \/ t \in ToSet(signals)
            \/ working = t /\ builder \in {"preparing", "unmade", "mining"}

\* No wake-up is lost, dropped signals included: when the block maker waits
\* and no signal does, too few transactions are in the pool for a block.  The
\* exceptions are a block that another node's block overtook and one that
\* ended with an error.
NoWakeUpLost ==
    (builder = "waiting" /\ signals = << >> /\ ~raced) => ~Enough(pool)

\* A handler that signals the block maker brings the process down only when
\* the server already stops.
PanicsOnlyWhileStopping == main = "panicked" => StopMainChanClosed

\* The signal to stop is seen: once the server has called itself, the loop
\* confirms, the block maker is told to exit and the process ends, whatever
\* the channel held and the block maker did.
StopEnds ==
    (at[Void] = "connected") ~> (main \in {"ended", "panicked"})

\* A signal of a wallet's transaction is answered: a block or a message brings
\* the transaction to all nodes, or it left the pool, or the server stopped
\* first, or the attempt for it failed, or one for another failed in a way
\* after which nothing is answered.
SignalAnswered ==
    \A t \in Wallet :
        (t \in ToSet(signals)) ~>
            (t \in announced \cup failed \/ t \notin pool \/ held \/ ~Alive)

\* node.go:315: "close it while doing the proof of work / and close it again in
\* the end of function".
ClosedInTheEnd == builder = "waiting" => ~held

===============================================================================
