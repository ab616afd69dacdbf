------------------------------ MODULE NodesList ------------------------------
(***************************************************************************)
(* The nodes a server knows: a list in memory, the bucket of the nodes     *)
(* database, and a copy of the list in the node object every connection    *)
(* works with.  Some commands change the server's own list, and store it   *)
(* through the server's connection object, which all goroutines share;     *)
(* others change their copy, and store it through a connection of their    *)
(* own.  A mutex (lock) keeps two changes of the server's list apart.  The *)
(* databases are locked for a session, as in DbLock.                       *)
(*                                                                         *)
(* Opening the shared connection is one step here, and so is its close.    *)
(***************************************************************************)
EXTENDS Naturals, FiniteSets

CONSTANTS
    Addr,       \* addresses of nodes
    Loaded,     \* those of the list a start without known nodes loads
    Handler,    \* the connections to the server
    Commands,   \* handler -> the commands it may receive
    Subject,    \* handler -> the address it is about
    None,
    Known,      \* the addresses stored at first
    MaxRestarts \* bound: how often the server dies and starts again

\* Commands that change or read the list.
Words == {"version", "addr", "addnode", "removenode", "block"}

ASSUME NodesAssumption ==
    /\ Loaded \subseteq Addr /\ Known \subseteq Addr
    /\ Commands \in [Handler -> SUBSET Words]
    /\ Subject \in [Handler -> Addr]
    /\ None \notin Handler
    /\ MaxRestarts \in Nat

VARIABLES
    pc,         \* where a handler stands
    command,    \* the command it has received
    added,      \* handlers that have put a new address on the server's list
    copy,       \* the list of its node object
    own,        \* whether it opened the shared connection, and closes it
    using,      \* the shared connection object it waits with
    list,       \* the server's list
    stored,     \* the bucket
    lock,       \* who changes the server's list
    conn,       \* the number of the shared connection, 0 without one
    has,        \* the databases it has open
    opens,      \* how many there were
    busy,       \* the databases some session has open
    alone,      \* handlers whose own connection has the blockchain open
    panicked,   \* a goroutine dereferenced nil: the process is dead
    restarts,
    \* History, for the properties.
    overlapped, \* one handler used the shared connection of another
    failed,     \* addresses whose change was not stored
    learned,    \* addresses a copy learned
    revived     \* addresses removed while a copy of the list was being made

program == <<pc, command, added, copy, own, using>>
shared == <<conn, has, opens>>
history == <<overlapped, failed, learned, revived>>
vars == <<program, list, stored, lock, shared, busy, alone, panicked, restarts,
          history>>

Dbs == {"blockchain", "nodes"}
Places == {"off", "copied", "ready", "lock", "check", "open", "get", "wait",
           "put", "close", "unlock", "version", "again", "height", "await",
           "hangup", "own", "tell", "end", "done"}

TypeOK ==
    /\ pc \in [Handler -> Places]
    /\ command \in [Handler -> Words \cup {None}]
    /\ added \subseteq Handler
    /\ copy \in [Handler -> SUBSET Addr]
    /\ own \in [Handler -> BOOLEAN]
    /\ using \in [Handler -> Nat]
    /\ list \subseteq Addr /\ stored \subseteq Addr
    /\ lock \in Handler \cup {None}
    /\ opens \in Nat /\ conn \in 0 .. opens /\ has \subseteq busy /\ busy \subseteq Dbs
    /\ (conn = 0 => has = {})
    /\ alone \subseteq Handler
    /\ panicked \in BOOLEAN /\ overlapped \in BOOLEAN
    /\ restarts \in 0 .. MaxRestarts
    /\ failed \subseteq Addr /\ learned \subseteq Addr /\ revived \subseteq Addr

\* A start reads the stored nodes, and loads a list without any.
AtStart(nodes) == IF nodes = {} THEN Loaded ELSE nodes

Init ==
    /\ pc = [h \in Handler |-> "off"]
    /\ command = [h \in Handler |-> None] /\ added = {}
    /\ copy = [h \in Handler |-> {}]
    /\ own = [h \in Handler |-> FALSE] /\ using = [h \in Handler |-> 0]
    /\ list = AtStart(Known) /\ stored = AtStart(Known)
    /\ lock = None /\ conn = 0 /\ has = {} /\ opens = 0
    /\ busy = {} /\ alone = {} /\ panicked = FALSE /\ restarts = 0
    /\ overlapped = FALSE /\ failed = {} /\ learned = {} /\ revived = {}

Move(h, here, there) ==
    /\ ~panicked
    /\ pc[h] = here
    /\ pc' = [pc EXCEPT ![h] = there]

(***************************************************************************)
(* CloneNode                                                               *)
(***************************************************************************)

CopyList(h) ==
    /\ Move(h, "off", "copied")
    /\ copy' = [copy EXCEPT ![h] = list]
    /\ \E c \in Commands[h] : command' = [command EXCEPT ![h] = c]
    /\ UNCHANGED <<added, own, using, list, stored, lock, shared, busy, alone,
                   panicked, restarts, history>>

\* InitNodes stores the copy, in a session of its own.
StoreCopy(h) ==
    /\ Move(h, "copied", "ready")
    /\ "nodes" \notin busy
    /\ stored' = stored \cup copy[h]
    /\ UNCHANGED <<command, added, copy, own, using, list, lock, shared, busy,
                   alone, panicked, restarts, history>>

(***************************************************************************)
(* The commands                                                            *)
(***************************************************************************)

\* The handler opens the blockchain: version and block at once, addr to send
\* its version to a node it has added.
OpenBlockchain(h) ==
    /\ h \notin alone
    /\ \/ command[h] \in {"version", "block"} /\ Move(h, "ready", "ready")
       \/ Move(h, "tell", "end")
    /\ "blockchain" \notin busy
    /\ busy' = busy \cup {"blockchain"}
    /\ alone' = alone \cup {h}
    /\ UNCHANGED <<command, added, copy, own, using, list, stored, lock,
                   shared, panicked, restarts, history>>

\* CheckAddressKnown of the server's node; addr has no check of its own.
Check(h) ==
    /\ \/ command[h] = "version" /\ h \in alone
       \/ command[h] \in {"addr", "addnode"}
    /\ Move(h, "ready",
            IF command[h] # "addr" /\ Subject[h] \in list THEN "end"
            ELSE "lock")
    /\ UNCHANGED <<command, added, copy, own, using, list, stored, lock,
                   shared, busy, alone, panicked, restarts, history>>

HandleRemoveNode(h) ==
    /\ command[h] = "removenode"
    /\ Move(h, "ready", "lock")
    /\ UNCHANGED <<command, added, copy, own, using, list, stored, lock,
                   shared, busy, alone, panicked, restarts, history>>

\* handleBlock: CheckAddressKnown of the copy, over the handler's own
\* connection, which keeps both databases until the end.
CheckCopy(h) ==
    /\ command[h] = "block" /\ h \in alone
    /\ IF Subject[h] \in copy[h]
       THEN /\ Move(h, "ready", "end")
            /\ UNCHANGED <<command, added, copy, stored, busy, learned>>
       ELSE /\ Move(h, "ready", "own")
            /\ "nodes" \notin busy
            /\ busy' = busy \cup {"nodes"}
            /\ copy' = [copy EXCEPT ![h] = @ \cup {Subject[h]}]
            /\ stored' = stored \cup {Subject[h]}
            /\ learned' = learned \cup {Subject[h]}
    /\ UNCHANGED <<command, added, own, using, list, lock, shared, alone,
                   panicked, restarts, overlapped, failed, revived>>

CloseOwn(h) ==
    /\ \/ /\ Move(h, "own", "done")
          /\ busy' = busy \ Dbs
       \/ /\ Move(h, "end", "done")
          /\ busy' = IF h \in alone THEN busy \ {"blockchain"} ELSE busy
    /\ alone' = alone \ {h}
    /\ added' = added \ {h}
    /\ copy' = [copy EXCEPT ![h] = {}]
    /\ own' = [own EXCEPT ![h] = FALSE]
    /\ using' = [using EXCEPT ![h] = 0]
    /\ UNCHANGED <<command, list, stored, lock, shared, panicked, restarts,
                   history>>

(***************************************************************************)
(* AddNodeToKnown and RemoveNodeFromKnown of the server's list             *)
(***************************************************************************)

\* Mutant: the store is left to the next start.
ChangeListOnly(h) ==
    /\ Move(h, "lock", "unlock")
    /\ lock = None
    /\ lock' = h
    /\ list' = IF command[h] = "removenode" THEN list \ {Subject[h]}
               ELSE list \cup {Subject[h]}
    /\ added' = IF command[h] = "addr" /\ Subject[h] \notin list
                THEN added \cup {h} ELSE added
    /\ UNCHANGED <<command, copy, own, using, stored, shared, busy, alone,
                   panicked, restarts, history>>

ChangeList(h) ==
    /\ Move(h, "lock", "check")
    /\ lock = None
    /\ lock' = h
    /\ list' = IF command[h] = "removenode" THEN list \ {Subject[h]}
               ELSE list \cup {Subject[h]}
    /\ added' = IF command[h] = "addr" /\ Subject[h] \notin list
                THEN added \cup {h} ELSE added
    /\ UNCHANGED <<command, copy, own, using, stored, shared, busy, alone,
                   panicked, restarts, history>>

\* Who works on the list through the shared connection, and who sends a
\* version with it: only the first of them hold the mutex of the list.
Storing == {h \in Handler : pc[h] \in {"open", "get", "wait", "put", "close"}}
Telling ==
    {h \in Handler : pc[h] \in {"again", "height", "await", "hangup"}}

\* CheckConnectionIsOpen: who finds no connection closes the one it opens.
CheckConnection(h) ==
    /\ Move(h, "check", "open")
    /\ own' = [own EXCEPT ![h] = conn = 0]
    /\ overlapped' = (overlapped \/ Telling # {})
    /\ UNCHANGED <<command, added, copy, using, list, stored, lock, shared,
                   busy, alone, panicked, restarts, failed, learned,
                   revived>>

Opened ==
    IF conn = 0
    THEN /\ opens' = opens + 1
         /\ conn' = opens'
         /\ has' = {}
    ELSE UNCHANGED shared

OpenConnectionIfNeeded(h) ==
    /\ Move(h, "open", "get")
    /\ Opened
    /\ UNCHANGED <<command, added, copy, own, using, list, stored, lock, busy,
                   alone, panicked, restarts, history>>

\* The object may be gone again.
GetObject(h, here, there, fast, db) ==
    IF conn = 0
    THEN /\ ~panicked /\ pc[h] = here
         /\ panicked' = TRUE
         /\ UNCHANGED <<pc, using>>
    ELSE /\ Move(h, here, IF db \in has THEN fast ELSE there)
         /\ using' = [using EXCEPT ![h] = conn]
         /\ panicked' = FALSE

GetNodesObject(h) ==
    /\ GetObject(h, "get", "wait", "put", "nodes")
    /\ UNCHANGED <<command, added, copy, own, list, stored, lock, shared, busy,
                   alone, restarts, history>>

\* The lock of the database belongs to the object that asked for it.  If that
\* one was closed meanwhile, nobody will release the lock.
LockDb(h, here, there, db) ==
    /\ Move(h, here, there)
    /\ db \notin busy
    /\ busy' = busy \cup {db}
    /\ has' = IF using[h] = conn THEN has \cup {db} ELSE has

LockNodes(h) ==
    /\ LockDb(h, "wait", "put", "nodes")
    /\ UNCHANGED <<command, added, copy, own, using, list, stored, lock, conn,
                   opens, alone, panicked, restarts, history>>

\* Nothing is stored through a connection that was closed meanwhile.
Put(h) ==
    LET removes == command[h] = "removenode"
        done == using[h] # 0
    IN  /\ stored' = CASE done /\ removes -> stored \ {Subject[h]}
                       [] done /\ ~removes -> stored \cup {Subject[h]}
                       [] ~done -> stored
        /\ failed' = IF done THEN failed \ {Subject[h]}
                     ELSE failed \cup {Subject[h]}
        /\ learned' = IF done /\ removes THEN learned \ {Subject[h]}
                      ELSE learned
        /\ revived' = IF /\ done /\ removes
                         /\ \E g \in Handler :
                               pc[g] = "copied" /\ Subject[h] \in copy[g]
                      THEN revived \cup {Subject[h]} ELSE revived

\* Mutant: the connection opened for a change stays open.
PutNodeAndLeave(h) ==
    /\ Move(h, "put", "unlock")
    /\ Put(h)
    /\ UNCHANGED <<command, added, copy, own, using, list, lock, shared, busy,
                   alone, panicked, restarts, overlapped>>

\* Mutant: a removed node stays in the bucket.
PutAnyNode(h) ==
    /\ Move(h, "put", IF own[h] THEN "close" ELSE "unlock")
    /\ stored' = stored \cup {Subject[h]}
    /\ UNCHANGED <<command, added, copy, own, using, list, lock, shared, busy,
                   alone, panicked, restarts, history>>

\* From here a removal is complete, but for the copies that are made just now.
PutNode(h) ==
    /\ Move(h, "put", IF own[h] THEN "close" ELSE "unlock")
    /\ Put(h)
    /\ UNCHANGED <<command, added, copy, own, using, list, lock, shared, busy,
                   alone, panicked, restarts, overlapped>>

\* The lock of the nodes that was there at "put" belongs to this connection or
\* to one that is gone, which nobody closes any more.
Closed ==
    /\ busy' = busy \ has
    /\ conn' = 0 /\ has' = {} /\ opens' = opens
    /\ using' = [h \in Handler |->
                    IF pc[h] = "put" /\ using[h] = conn THEN 0 ELSE using[h]]

CloseConnection(h) ==
    /\ Move(h, "close", "unlock")
    /\ Closed
    /\ UNCHANGED <<command, added, copy, own, list, stored, lock, alone,
                   panicked, restarts, history>>

UnlockList(h) ==
    /\ Move(h, "unlock", CASE command[h] = "addnode" -> "version"
                          [] command[h] = "addr" /\ h \in added -> "tell"
                          [] OTHER -> "end")
    /\ lock' = None
    /\ UNCHANGED <<command, added, copy, own, using, list, stored, shared,
                   busy, alone, panicked, restarts, history>>

(***************************************************************************)
(* SendVersionToNodes of the server's node, for addnode                    *)
(***************************************************************************)

OpenForVersion(h) ==
    /\ Move(h, "version", "again")
    /\ own' = [own EXCEPT ![h] = conn = 0]
    /\ overlapped' = (overlapped \/ Storing \cup Telling # {})
    /\ Opened
    /\ UNCHANGED <<command, added, copy, using, list, stored, lock, busy,
                   alone, panicked, restarts, failed, learned, revived>>

\* DB: the connection is opened once more if another handler has closed it;
\* this one does not close it then, unless it had opened the first.
OpenAgain(h) ==
    /\ Move(h, "again", "height")
    /\ Opened
    /\ UNCHANGED <<command, added, copy, own, using, list, stored, lock, busy,
                   alone, panicked, restarts, history>>

GetBestHeight(h) ==
    /\ GetObject(h, "height", "await", "hangup", "blockchain")
    /\ UNCHANGED <<command, added, copy, own, list, stored, lock, shared, busy,
                   alone, restarts, history>>

LockBlockchain(h) ==
    /\ LockDb(h, "await", "hangup", "blockchain")
    /\ UNCHANGED <<command, added, copy, own, using, list, stored, lock, conn,
                   opens, alone, panicked, restarts, history>>

SendVersion(h) ==
    /\ Move(h, "hangup", "end")
    /\ IF own[h] THEN Closed ELSE UNCHANGED <<shared, busy, using>>
    /\ UNCHANGED <<command, added, copy, own, list, stored, lock, alone,
                   panicked, restarts, history>>

(***************************************************************************)
(* The specification                                                       *)
(***************************************************************************)

\* The process dies, by a panic or otherwise, and starts again with what is
\* stored.  Bound: nobody connects after that.
Restart ==
    /\ restarts < MaxRestarts
    /\ restarts' = restarts + 1
    /\ pc' = [h \in Handler |-> "done"]
    /\ list' = AtStart(stored) /\ stored' = AtStart(stored)
    /\ lock' = None /\ conn' = 0 /\ has' = {} /\ busy' = {} /\ alone' = {}
    /\ panicked' = FALSE
    /\ overlapped' = FALSE /\ failed' = {}
    /\ copy' = [h \in Handler |-> {}] /\ own' = [h \in Handler |-> FALSE]
    /\ using' = [h \in Handler |-> 0] /\ opens' = 0 /\ added' = {}
    /\ UNCHANGED <<command, learned, revived>>

Handle(h) ==
    \/ StoreCopy(h)
    \/ OpenBlockchain(h) \/ Check(h) \/ HandleRemoveNode(h) \/ CheckCopy(h)
    \/ ChangeList(h) \/ CheckConnection(h) \/ OpenConnectionIfNeeded(h)
    \/ GetNodesObject(h) \/ LockNodes(h) \/ PutNode(h) \/ CloseConnection(h)
    \/ UnlockList(h)
    \/ OpenForVersion(h) \/ OpenAgain(h) \/ GetBestHeight(h)
    \/ LockBlockchain(h) \/ SendVersion(h)
    \/ CloseOwn(h)

Next == (\E h \in Handler : CopyList(h) \/ Handle(h)) \/ Restart

Spec == Init /\ [][Next]_vars

\* A goroutine that can run does; each makes finitely many steps.
FairSpec == Spec /\ WF_vars(\E h \in Handler : Handle(h))

(***************************************************************************)
(* Properties                                                              *)
(***************************************************************************)

\* What the server knows survives its restart, except for a change that is
\* being made and those another handler had closed the connection of.
KnownSurvives ==
    [][(restarts' # restarts /\ lock = None) => list \ failed \subseteq list']_vars

\* A removed node comes back into the store in one way only: a handler copied
\* the list before the removal and stored its copy afterwards.  It stays there
\* if the connection of the removal was closed by another handler.
StoredForAReason ==
    lock = None =>
        stored \subseteq list \cup learned \cup revived \cup failed

\* A command that changes the list ends: nobody works with a connection that
\* is gone, which would end the process, and the lock of the nodes is released,
\* unless SendVersionToNodes of one handler and another handler use the shared
\* connection together.
CommandsEnd ==
    \A h \in Handler :
        (pc[h] = "copied") ~> (pc[h] = "done" \/ overlapped)

===============================================================================
