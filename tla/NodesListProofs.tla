--------------------------- MODULE NodesListProofs ---------------------------
(***************************************************************************)
(* What the server knows, and what it has stored, for any nodes, handlers  *)
(* and commands.                                                           *)
(***************************************************************************)
EXTENDS NodesList, TLAPS

\* Who changes the server's list, and those who have not stored it yet.
Changing == {"check", "open", "get", "wait", "put", "close", "unlock"}
Unstored == {"check", "open", "get", "wait", "put"}

\* The mutex of the list belongs to the handler that changes it.
LockInv == \A h \in Handler : pc[h] \in Changing <=> lock = h

\* The change that is being made is in the list already.
ListInv ==
    \A h \in Handler :
        pc[h] \in Unstored =>
            (command[h] = "removenode" <=> Subject[h] \notin list)

\* A change of the list that may still reach the store.
Pending == {Subject[h] : h \in {g \in Handler : pc[g] \in Unstored}}

\* What is known is stored or will be.
KnownInv == list \subseteq stored \cup failed \cup Pending

\* What is stored, or will be when a copy is, has a reason.
Reasons == list \cup learned \cup revived \cup failed \cup Pending
StoredInv == stored \subseteq Reasons
CopiedInv == \A h \in Handler : pc[h] = "copied" => copy[h] \subseteq Reasons

Lists == LockInv /\ ListInv /\ KnownInv /\ StoredInv /\ CopiedInv

\* The databases of a handler's own connection are not those of the shared one.
AloneWith == \A h \in alone : "blockchain" \in busy \ has /\ \A g \in alone : g = h
OwnWith == \A h \in Handler :
               pc[h] = "own" => h \in alone /\ "nodes" \in busy \ has

\* Who waits for a database has asked a connection object for it.
WaitWith == \A h \in Handler : pc[h] \in {"wait", "await"} => using[h] # 0

SessionInv == AloneWith /\ OwnWith /\ WaitWith

(***************************************************************************)
(* The shared connection while nobody met another's use of it              *)
(***************************************************************************)

Connected == {"get", "wait", "put", "close"}
Users == Storing \cup Telling

AloneInv == \A h, g \in Users : h = g
OpenInv == conn # 0 <=> \E h \in Handler :
                pc[h] \in Connected \cup {"again", "height", "await", "hangup"}
OwnInv == \A h \in Users : own[h]
UsingInv == \A h \in Handler :
                pc[h] \in {"wait", "put", "await", "hangup"} => using[h] = conn

ConnInv == ~overlapped => /\ AloneInv /\ OpenInv /\ OwnInv /\ UsingInv
                          /\ ~panicked /\ failed = {}

IInv == TypeOK /\ SessionInv /\ Lists /\ ConnInv

\* Unless a handler and another's SendVersionToNodes use the shared connection
\* together, every change is stored and no handler finds the connection gone.
OnlyOverlapFails == ~overlapped => failed = {} /\ ~panicked

(***************************************************************************)
(* Types and databases                                                     *)
(***************************************************************************)

HandlerTypes ==
    /\ pc \in [Handler -> Places]
    /\ command \in [Handler -> Words \cup {None}]
    /\ added \subseteq Handler
    /\ copy \in [Handler -> SUBSET Addr]
    /\ own \in [Handler -> BOOLEAN]
    /\ using \in [Handler -> Nat]

ListTypes ==
    /\ list \subseteq Addr /\ stored \subseteq Addr
    /\ lock \in Handler \cup {None}
    /\ alone \subseteq Handler
    /\ panicked \in BOOLEAN /\ overlapped \in BOOLEAN
    /\ restarts \in 0 .. MaxRestarts
    /\ failed \subseteq Addr /\ learned \subseteq Addr /\ revived \subseteq Addr

ConnTypes ==
    /\ opens \in Nat /\ conn \in 0 .. opens /\ has \subseteq busy /\ busy \subseteq Dbs
    /\ (conn = 0 => has = {})

LEMMA Parts == TypeOK <=> HandlerTypes /\ ListTypes /\ ConnTypes
  BY DEF TypeOK, HandlerTypes, ListTypes, ConnTypes

LEMMA InitTypes == Init => TypeOK
<1> SUFFICES ASSUME Init PROVE HandlerTypes /\ ListTypes /\ ConnTypes
  BY Parts
<1>1. HandlerTypes
  BY DEF Init, HandlerTypes, Places
<1>2. ListTypes
  <2>1. AtStart(Known) \subseteq Addr
    BY NodesAssumption DEF AtStart
  <2>2. 0 \in 0 .. MaxRestarts
    BY NodesAssumption
  <2> QED
    BY <2>1, <2>2 DEF Init, ListTypes
<1>3. ConnTypes
  BY DEF Init, ConnTypes
<1> QED
  BY <1>1, <1>2, <1>3

LEMMA InitOwn == Init => SessionInv
  BY DEF Init, SessionInv, AloneWith, OwnWith, WaitWith

LEMMA StepTypes ==
    ASSUME TypeOK, SessionInv, [Next]_vars
    PROVE  TypeOK'
<1> USE NodesAssumption DEF Dbs, Places, HandlerTypes, ListTypes, ConnTypes
<1>a. HandlerTypes /\ ListTypes /\ ConnTypes
  BY Parts
<1> SUFFICES HandlerTypes' /\ ListTypes' /\ ConnTypes'
  BY Parts DEF TypeOK
<1>1. CASE UNCHANGED vars
  BY <1>a, <1>1 DEF vars, program, shared, history
<1>2. CASE Restart
  <2>1. HandlerTypes'
    BY <1>a, <1>2 DEF Restart, AtStart
  <2>2. ListTypes'
    <3>1. AtStart(stored) \subseteq Addr
      BY <1>a DEF AtStart
    <3>2. restarts + 1 \in 0 .. MaxRestarts
      BY <1>a, <1>2 DEF Restart
    <3> QED
      BY <1>a, <1>2, <3>1, <3>2 DEF Restart
  <2>3. ConnTypes'
    BY <1>a, <1>2 DEF Restart, AtStart
  <2> QED
    BY <2>1, <2>2, <2>3
<1>3. ASSUME NEW h \in Handler, CopyList(h) \/ Handle(h)
      PROVE  HandlerTypes' /\ ListTypes' /\ ConnTypes'
  <2> USE <1>3 DEF shared, history, Move
  <2>1. CASE CopyList(h)
    <3>1. HandlerTypes'
      BY <1>a, <2>1 DEF CopyList
    <3>2. ListTypes'
      BY <1>a, <2>1 DEF CopyList
    <3>3. ConnTypes'
      BY <1>a, <2>1 DEF CopyList
    <3> QED
      BY <3>1, <3>2, <3>3
  <2>2. CASE StoreCopy(h)
    <3>1. HandlerTypes'
      BY <1>a, <2>2 DEF StoreCopy
    <3>2. ListTypes'
      BY <1>a, <2>2 DEF StoreCopy
    <3>3. ConnTypes'
      BY <1>a, <2>2 DEF StoreCopy
    <3> QED
      BY <3>1, <3>2, <3>3
  <2>3. CASE OpenBlockchain(h)
    <3>1. HandlerTypes'
      BY <1>a, <2>3 DEF OpenBlockchain
    <3>2. ListTypes'
      BY <1>a, <2>3 DEF OpenBlockchain
    <3>3. ConnTypes'
      BY <1>a, <2>3 DEF OpenBlockchain
    <3> QED
      BY <3>1, <3>2, <3>3
  <2>4. CASE Check(h)
    <3>1. HandlerTypes'
      BY <1>a, <2>4 DEF Check
    <3>2. ListTypes'
      BY <1>a, <2>4 DEF Check
    <3>3. ConnTypes'
      BY <1>a, <2>4 DEF Check
    <3> QED
      BY <3>1, <3>2, <3>3
  <2>5. CASE HandleRemoveNode(h)
    <3>1. HandlerTypes'
      BY <1>a, <2>5 DEF HandleRemoveNode
    <3>2. ListTypes'
      BY <1>a, <2>5 DEF HandleRemoveNode
    <3>3. ConnTypes'
      BY <1>a, <2>5 DEF HandleRemoveNode
    <3> QED
      BY <3>1, <3>2, <3>3
  <2>6. CASE CheckCopy(h)
    <3>1. HandlerTypes'
      BY <1>a, <2>6 DEF CheckCopy
    <3>2. ListTypes'
      BY <1>a, <2>6 DEF CheckCopy
    <3>3. ConnTypes'
      BY <1>a, <2>6, ZenonT(90) DEF CheckCopy
    <3> QED
      BY <3>1, <3>2, <3>3
  <2>7. CASE ChangeList(h)
    <3>1. HandlerTypes'
      BY <1>a, <2>7 DEF ChangeList
    <3>2. ListTypes'
      BY <1>a, <2>7 DEF ChangeList
    <3>3. ConnTypes'
      BY <1>a, <2>7 DEF ChangeList
    <3> QED
      BY <3>1, <3>2, <3>3
  <2>8. CASE CheckConnection(h)
    <3>1. HandlerTypes'
      BY <1>a, <2>8 DEF CheckConnection
    <3>2. ListTypes'
      BY <1>a, <2>8 DEF CheckConnection
    <3>3. ConnTypes'
      BY <1>a, <2>8 DEF CheckConnection
    <3> QED
      BY <3>1, <3>2, <3>3
  <2>9. CASE OpenConnectionIfNeeded(h)
    <3>1. HandlerTypes'
      BY <1>a, <2>9 DEF OpenConnectionIfNeeded, Opened
    <3>2. ListTypes'
      BY <1>a, <2>9 DEF OpenConnectionIfNeeded, Opened
    <3>3. ConnTypes'
      <4>1. CASE conn = 0
        BY <1>a, <2>9, <4>1 DEF OpenConnectionIfNeeded, Opened
      <4>2. CASE conn # 0
        BY <1>a, <2>9, <4>2 DEF OpenConnectionIfNeeded, Opened
      <4> QED
        BY <4>1, <4>2
    <3> QED
      BY <3>1, <3>2, <3>3
  <2>10. CASE GetNodesObject(h)
    <3>1. HandlerTypes'
      BY <1>a, <2>10 DEF GetNodesObject, GetObject
    <3>2. ListTypes'
      BY <1>a, <2>10 DEF GetNodesObject, GetObject
    <3>3. ConnTypes'
      BY <1>a, <2>10 DEF GetNodesObject, GetObject
    <3> QED
      BY <3>1, <3>2, <3>3
  <2>11. CASE LockNodes(h)
    <3>1. HandlerTypes'
      BY <1>a, <2>11 DEF LockNodes, LockDb
    <3>2. ListTypes'
      BY <1>a, <2>11 DEF LockNodes, LockDb
    <3>3. ConnTypes'
      <4>1. using[h] # 0
        BY <2>11 DEF LockNodes, LockDb, SessionInv, WaitWith
      <4>2. CASE using[h] = conn
        BY <1>a, <2>11, <4>1, <4>2 DEF LockNodes, LockDb
      <4>3. CASE using[h] # conn
        BY <1>a, <2>11, <4>3 DEF LockNodes, LockDb
      <4> QED
        BY <4>2, <4>3
    <3> QED
      BY <3>1, <3>2, <3>3
  <2>12. CASE PutNode(h)
    <3>1. HandlerTypes'
      BY <1>a, <2>12 DEF PutNode, Put
    <3>2. ListTypes'
      BY <1>a, <2>12 DEF PutNode, Put
    <3>3. ConnTypes'
      BY <1>a, <2>12 DEF PutNode, Put
    <3> QED
      BY <3>1, <3>2, <3>3
  <2>13. CASE CloseConnection(h)
    <3>1. HandlerTypes'
      BY <1>a, <2>13 DEF CloseConnection, Closed
    <3>2. ListTypes'
      BY <1>a, <2>13 DEF CloseConnection, Closed
    <3>3. ConnTypes'
      BY <1>a, <2>13 DEF CloseConnection, Closed
    <3> QED
      BY <3>1, <3>2, <3>3
  <2>14. CASE UnlockList(h)
    <3>1. HandlerTypes'
      BY <1>a, <2>14 DEF UnlockList
    <3>2. ListTypes'
      BY <1>a, <2>14 DEF UnlockList
    <3>3. ConnTypes'
      BY <1>a, <2>14 DEF UnlockList
    <3> QED
      BY <3>1, <3>2, <3>3
  <2>15. CASE OpenForVersion(h)
    <3>1. HandlerTypes'
      BY <1>a, <2>15 DEF OpenForVersion, Opened
    <3>2. ListTypes'
      BY <1>a, <2>15 DEF OpenForVersion, Opened
    <3>3. ConnTypes'
      <4>1. CASE conn = 0
        BY <1>a, <2>15, <4>1 DEF OpenForVersion, Opened
      <4>2. CASE conn # 0
        BY <1>a, <2>15, <4>2 DEF OpenForVersion, Opened
      <4> QED
        BY <4>1, <4>2
    <3> QED
      BY <3>1, <3>2, <3>3
  <2>16. CASE OpenAgain(h)
    <3>1. HandlerTypes'
      BY <1>a, <2>16 DEF OpenAgain, Opened
    <3>2. ListTypes'
      BY <1>a, <2>16 DEF OpenAgain, Opened
    <3>3. ConnTypes'
      <4>1. CASE conn = 0
        BY <1>a, <2>16, <4>1 DEF OpenAgain, Opened
      <4>2. CASE conn # 0
        BY <1>a, <2>16, <4>2 DEF OpenAgain, Opened
      <4> QED
        BY <4>1, <4>2
    <3> QED
      BY <3>1, <3>2, <3>3
  <2>17. CASE GetBestHeight(h)
    <3>1. HandlerTypes'
      BY <1>a, <2>17 DEF GetBestHeight, GetObject
    <3>2. ListTypes'
      BY <1>a, <2>17 DEF GetBestHeight, GetObject
    <3>3. ConnTypes'
      BY <1>a, <2>17 DEF GetBestHeight, GetObject
    <3> QED
      BY <3>1, <3>2, <3>3
  <2>18. CASE LockBlockchain(h)
    <3>1. HandlerTypes'
      BY <1>a, <2>18 DEF LockBlockchain, LockDb
    <3>2. ListTypes'
      BY <1>a, <2>18 DEF LockBlockchain, LockDb
    <3>3. ConnTypes'
      <4>1. using[h] # 0
        BY <2>18 DEF LockBlockchain, LockDb, SessionInv, WaitWith
      <4>2. CASE using[h] = conn
        BY <1>a, <2>18, <4>1, <4>2 DEF LockBlockchain, LockDb
      <4>3. CASE using[h] # conn
        BY <1>a, <2>18, <4>3 DEF LockBlockchain, LockDb
      <4> QED
        BY <4>2, <4>3
    <3> QED
      BY <3>1, <3>2, <3>3
  <2>19. CASE SendVersion(h)
    <3>1. HandlerTypes'
      BY <1>a, <2>19 DEF SendVersion, Closed
    <3>2. ListTypes'
      BY <1>a, <2>19 DEF SendVersion, Closed
    <3>3. ConnTypes'
      <4>1. CASE own[h]
        <5>1. busy' = busy \ has /\ conn' = 0 /\ has' = {} /\ opens' = opens
          BY <2>19, <4>1 DEF SendVersion, Closed
        <5> QED
          BY <1>a, <5>1
      <4>2. CASE ~own[h]
        BY <1>a, <2>19, <4>2 DEF SendVersion
      <4> QED
        BY <4>1, <4>2
    <3> QED
      BY <3>1, <3>2, <3>3
  <2>20. CASE CloseOwn(h)
    <3>1. HandlerTypes'
      BY <1>a, <2>20 DEF CloseOwn
    <3>2. ListTypes'
      BY <1>a, <2>20 DEF CloseOwn
    <3>3. ConnTypes'
      <4>1. h \in alone => "blockchain" \notin has
        BY DEF SessionInv, AloneWith
      <4>2. pc[h] = "own" => h \in alone /\ "nodes" \notin has
        BY DEF SessionInv, OwnWith
      <4>3. has \subseteq busy' /\ busy' \subseteq Dbs
        BY <1>a, <2>20, <4>1, <4>2, ZenonT(40) DEF CloseOwn
      <4>4. UNCHANGED shared
        BY <2>20 DEF CloseOwn
      <4> QED
        BY <1>a, <4>3, <4>4
    <3> QED
      BY <3>1, <3>2, <3>3
  <2> QED
    BY <2>1, <2>2, <2>3, <2>4, <2>5, <2>6, <2>7, <2>8, <2>9, <2>10, <2>11,
       <2>12, <2>13, <2>14, <2>15, <2>16, <2>17, <2>18, <2>19,
       <2>20, <1>3 DEF Handle
<1> QED
  BY <1>1, <1>2, <1>3 DEF Next

LEMMA StepOwn ==
    ASSUME TypeOK, SessionInv, [Next]_vars
    PROVE  SessionInv'
<1> USE NodesAssumption DEF TypeOK, SessionInv, AloneWith, OwnWith, WaitWith, Dbs, Places
<1>1. CASE UNCHANGED vars
  BY <1>1 DEF vars, program, shared, history
<1>2. CASE Restart
  BY <1>2 DEF Restart, AtStart
<1>3. ASSUME NEW h \in Handler, CopyList(h) \/ Handle(h)
      PROVE  SessionInv'
  <2> USE <1>3 DEF shared, history, Move
  <2>1. CASE CopyList(h)
    BY <2>1 DEF CopyList
  <2>2. CASE StoreCopy(h)
    BY <2>2 DEF StoreCopy
  <2>3. CASE OpenBlockchain(h)
    BY <2>3 DEF OpenBlockchain
  <2>4. CASE Check(h)
    BY <2>4 DEF Check
  <2>5. CASE HandleRemoveNode(h)
    BY <2>5 DEF HandleRemoveNode
  <2>6. CASE CheckCopy(h)
    BY <2>6 DEF CheckCopy
  <2>7. CASE ChangeList(h)
    BY <2>7 DEF ChangeList
  <2>8. CASE CheckConnection(h)
    BY <2>8 DEF CheckConnection
  <2>9. CASE OpenConnectionIfNeeded(h)
    BY <2>9 DEF OpenConnectionIfNeeded, Opened
  <2>10. CASE GetNodesObject(h)
    BY <2>10 DEF GetNodesObject, GetObject
  <2>11. CASE LockNodes(h)
    BY <2>11 DEF LockNodes, LockDb
  <2>12. CASE PutNode(h)
    BY <2>12 DEF PutNode, Put
  <2>13. CASE CloseConnection(h)
    BY <2>13 DEF CloseConnection, Closed
  <2>14. CASE UnlockList(h)
    BY <2>14 DEF UnlockList
  <2>15. CASE OpenForVersion(h)
    BY <2>15 DEF OpenForVersion, Opened
  <2>16. CASE OpenAgain(h)
    BY <2>16 DEF OpenAgain, Opened
  <2>17. CASE GetBestHeight(h)
    BY <2>17 DEF GetBestHeight, GetObject
  <2>18. CASE LockBlockchain(h)
    BY <2>18 DEF LockBlockchain, LockDb
  <2>19. CASE SendVersion(h)
    BY <2>19 DEF SendVersion, Closed
  <2>20. CASE CloseOwn(h)
    BY <2>20 DEF CloseOwn
  <2> QED
    BY <2>1, <2>2, <2>3, <2>4, <2>5, <2>6, <2>7, <2>8, <2>9, <2>10, <2>11,
       <2>12, <2>13, <2>14, <2>15, <2>16, <2>17, <2>18, <2>19,
       <2>20, <1>3 DEF Handle
<1> QED
  BY <1>1, <1>2, <1>3 DEF Next


(***************************************************************************)
(* The list and the store                                                  *)
(***************************************************************************)

LEMMA InitLists == Init => Lists
  BY NodesAssumption
     DEF Init, Lists, LockInv, ListInv, KnownInv, StoredInv, CopiedInv, Reasons,
         Pending, Changing, Unstored

\* A step that leaves the list, the store and the mutex alone.
LEMMA QuietStep ==
    ASSUME TypeOK, Lists, NEW h \in Handler, NEW there,
           pc' = [pc EXCEPT ![h] = there], there # "copied",
           pc[h] \in Changing <=> there \in Changing,
           pc[h] \in Unstored <=> there \in Unstored,
           \A g \in Handler \ {h} : copy'[g] = copy[g],
           UNCHANGED <<command, list, stored, lock, failed, learned, revived>>
    PROVE  Lists'
<1>1. \A g \in Handler : /\ pc'[g] \in Changing <=> pc[g] \in Changing
                         /\ pc'[g] \in Unstored <=> pc[g] \in Unstored
                         /\ pc'[g] = "copied" => pc[g] = "copied" /\ g # h
  BY DEF TypeOK
<1>2. Pending' = Pending
  BY <1>1 DEF Pending
<1>3. LockInv' /\ ListInv'
  BY <1>1 DEF Lists, LockInv, ListInv
<1>4. KnownInv' /\ StoredInv'
  BY <1>2 DEF Lists, KnownInv, StoredInv, Reasons
<1>5. CopiedInv'
  BY <1>1, <1>2 DEF Lists, CopiedInv, Reasons
<1> QED
  BY <1>3, <1>4, <1>5 DEF Lists

\* While a handler changes the list, only its change is pending.
LEMMA OnePending ==
    ASSUME LockInv, NEW h \in Handler, pc[h] \in Changing
    PROVE  Pending = IF pc[h] \in Unstored THEN {Subject[h]} ELSE {}
<1>1. \A g \in Handler : pc[g] \in Unstored => g = h
  BY DEF LockInv, Changing, Unstored
<1> QED
  BY <1>1 DEF Pending

LEMMA NonePending ==
    ASSUME LockInv, lock = None
    PROVE  Pending = {} /\ \A g \in Handler : pc[g] \notin Changing
  BY NodesAssumption DEF LockInv, Pending, Changing, Unstored

LEMMA ChangeListKeeps ==
    ASSUME TypeOK, Lists, NEW h \in Handler, ChangeList(h)
    PROVE  Lists'
<1> USE DEF history
<1>1. /\ lock = None /\ lock' = h
      /\ pc' = [pc EXCEPT ![h] = "check"]
      /\ UNCHANGED <<command, copy, stored, failed, learned, revived>>
      /\ pc \in [Handler -> Places]
  BY DEF ChangeList, Move, TypeOK
<1>2. list' = IF command[h] = "removenode" THEN list \ {Subject[h]}
              ELSE list \cup {Subject[h]}
  BY DEF ChangeList
<1>3. Pending = {} /\ \A g \in Handler : pc[g] \notin Changing
  BY <1>1, NonePending DEF Lists
<1>4. LockInv'
  BY <1>1, <1>3 DEF LockInv, Changing
<1>5. pc'[h] \in Changing /\ pc'[h] \in Unstored
  BY <1>1 DEF Changing, Unstored
<1>6. \A g \in Handler : pc'[g] \in Unstored => g = h
  BY <1>1, <1>3 DEF Unstored, Changing
<1>7. ListInv'
  BY <1>1, <1>2, <1>6 DEF ListInv
<1>8. Pending' = {Subject[h]}
  BY <1>5, <1>6 DEF Pending
<1>9. list' \subseteq list \cup {Subject[h]} /\ list \subseteq list' \cup {Subject[h]}
  BY <1>2
<1>10. KnownInv'
  BY <1>1, <1>3, <1>8, <1>9 DEF Lists, KnownInv
<1>11. Reasons \subseteq Reasons'
  BY <1>1, <1>3, <1>8, <1>9 DEF Reasons
<1>12. StoredInv'
  BY <1>1, <1>11 DEF Lists, StoredInv
<1>13. CopiedInv'
  <2>1. \A g \in Handler : pc'[g] = "copied" => pc[g] = "copied"
    BY <1>1
  <2> QED
    BY <1>1, <1>11, <2>1 DEF Lists, CopiedInv
<1> QED
  BY <1>4, <1>7, <1>10, <1>12, <1>13 DEF Lists

LEMMA PutNodeKeeps ==
    ASSUME TypeOK, Lists, NEW h \in Handler, PutNode(h)
    PROVE  Lists'
<1> DEFINE s == Subject[h]
           there == IF own[h] THEN "close" ELSE "unlock"
           removes == command[h] = "removenode"
<1>1. /\ pc[h] = "put" /\ pc' = [pc EXCEPT ![h] = there]
      /\ UNCHANGED <<command, copy, list, lock>>
      /\ pc \in [Handler -> Places]
  BY DEF PutNode, Move, TypeOK
<1>2. \A g \in Handler : /\ pc'[g] \in Changing <=> pc[g] \in Changing
                         /\ pc'[g] \in Unstored <=> pc[g] \in Unstored /\ g # h
                         /\ pc'[g] = "copied" <=> pc[g] = "copied"
  BY <1>1 DEF Changing, Unstored
<1>3. LockInv'
  BY <1>1, <1>2 DEF Lists, LockInv
<1>4. ListInv'
  BY <1>1, <1>2 DEF Lists, ListInv
<1>5. Pending = {s}
  BY <1>1, OnePending DEF Lists, Changing, Unstored
<1>6. Pending' = {}
  <2>1. \A g \in Handler : pc[g] \in Unstored => g = h
    BY <1>1 DEF Lists, LockInv, Changing, Unstored
  <2> QED
    BY <1>2, <2>1 DEF Pending
<1>7. removes <=> s \notin list
  BY <1>1 DEF Lists, ListInv, Unstored
<1>8. CASE using[h] = 0
  <2>1. UNCHANGED <<stored, learned, revived>> /\ failed' = failed \cup {s}
    <3>1. stored' = stored
      BY <1>8 DEF PutNode, Put
    <3>2. learned' = learned /\ failed' = failed \cup {s}
      BY <1>8 DEF PutNode, Put
    <3>3. revived' = revived
      BY <1>8 DEF PutNode, Put
    <3> QED
      BY <3>1, <3>2, <3>3
  <2>2. Reasons' = Reasons
    BY <1>1, <1>5, <1>6, <2>1 DEF Reasons
  <2>3. KnownInv'
    BY <1>1, <1>5, <1>6, <2>1 DEF Lists, KnownInv
  <2>4. StoredInv' /\ CopiedInv'
    BY <1>1, <1>2, <2>1, <2>2 DEF Lists, StoredInv, CopiedInv
  <2> QED
    BY <1>3, <1>4, <2>3, <2>4 DEF Lists
<1>9. CASE using[h] # 0 /\ removes
  <2>1. /\ stored' = stored \ {s} /\ failed' = failed \ {s}
        /\ learned' = learned \ {s} /\ revived \subseteq revived'
    BY <1>9 DEF PutNode, Put
  <2>2. Reasons \ {s} \subseteq Reasons'
    BY <1>1, <1>5, <1>6, <2>1 DEF Reasons
  <2>3. KnownInv'
    BY <1>1, <1>5, <1>6, <1>7, <1>9, <2>1 DEF Lists, KnownInv
  <2>4. StoredInv'
    BY <2>1, <2>2 DEF Lists, StoredInv
  <2>5. (\E g \in Handler : pc[g] = "copied" /\ s \in copy[g]) => s \in Reasons'
    BY <1>9 DEF PutNode, Put, Reasons
  <2>6. CopiedInv'
    BY <1>1, <1>2, <2>2, <2>5 DEF Lists, CopiedInv
  <2> QED
    BY <1>3, <1>4, <2>3, <2>4, <2>6 DEF Lists
<1>10. CASE using[h] # 0 /\ ~removes
  <2>1. /\ stored' = stored \cup {s} /\ failed' = failed \ {s}
        /\ UNCHANGED <<learned, revived>>
    BY <1>10 DEF PutNode, Put
  <2>2. s \in list
    BY <1>7, <1>10
  <2>3. Reasons \subseteq Reasons' /\ s \in Reasons'
    BY <1>1, <1>5, <1>6, <2>1, <2>2 DEF Reasons
  <2>4. KnownInv'
    BY <1>1, <1>5, <1>6, <2>1 DEF Lists, KnownInv
  <2>5. StoredInv' /\ CopiedInv'
    BY <1>1, <1>2, <2>1, <2>3 DEF Lists, StoredInv, CopiedInv
  <2> QED
    BY <1>3, <1>4, <2>4, <2>5 DEF Lists
<1> QED
  BY <1>8, <1>9, <1>10

LEMMA StepLists ==
    ASSUME TypeOK, Lists, [Next]_vars
    PROVE  Lists'
<1> USE DEF history, shared
<1>t. pc \in [Handler -> Places] /\ copy \in [Handler -> SUBSET Addr]
  BY DEF TypeOK
<1>1. CASE UNCHANGED vars
  BY <1>1 DEF vars, program, Lists, LockInv, ListInv, KnownInv, StoredInv,
              CopiedInv, Reasons, Pending
<1>2. CASE Restart
  <2>1. /\ \A g \in Handler : pc'[g] = "done"
        /\ list' = stored' /\ lock' = None
    BY <1>2 DEF Restart
  <2> QED
    BY <2>1, NodesAssumption
       DEF Lists, LockInv, ListInv, KnownInv, StoredInv, CopiedInv, Reasons,
           Changing, Unstored
<1>3. ASSUME NEW h \in Handler, CopyList(h) \/ Handle(h)
      PROVE  Lists'
  <2>1. CASE CopyList(h)
    <3>1. /\ pc[h] = "off" /\ pc' = [pc EXCEPT ![h] = "copied"]
          /\ copy' = [copy EXCEPT ![h] = list]
          /\ \A g \in Handler \ {h} : command'[g] = command[g]
          /\ UNCHANGED <<list, stored, lock, failed, learned, revived>>
      BY <2>1 DEF CopyList, Move, TypeOK
    <3>2. \A g \in Handler :
             /\ pc'[g] \in Changing <=> pc[g] \in Changing
             /\ pc'[g] \in Unstored <=> pc[g] \in Unstored
             /\ pc'[g] \in Unstored => g # h
             /\ pc'[g] = "copied" => pc[g] = "copied" \/ g = h
      BY <1>t, <3>1 DEF Changing, Unstored
    <3>3. Reasons' = Reasons /\ Pending' = Pending
      BY <3>1, <3>2 DEF Reasons, Pending
    <3>4. LockInv' /\ ListInv'
      BY <3>1, <3>2 DEF Lists, LockInv, ListInv
    <3>5. KnownInv' /\ StoredInv'
      BY <3>1, <3>3 DEF Lists, KnownInv, StoredInv
    <3>6. CopiedInv'
      BY <1>t, <3>1, <3>2, <3>3 DEF Lists, CopiedInv, Reasons
    <3> QED
      BY <3>4, <3>5, <3>6 DEF Lists
  <2>2. CASE StoreCopy(h)
    <3>1. /\ pc[h] = "copied" /\ pc' = [pc EXCEPT ![h] = "ready"]
          /\ stored' = stored \cup copy[h]
          /\ UNCHANGED <<command, copy, list, lock, failed, learned, revived>>
      BY <2>2 DEF StoreCopy, Move
    <3>2. \A g \in Handler :
             /\ pc'[g] \in Changing <=> pc[g] \in Changing
             /\ pc'[g] \in Unstored <=> pc[g] \in Unstored
             /\ pc'[g] = "copied" => pc[g] = "copied"
      BY <1>t, <3>1 DEF Changing, Unstored
    <3>3. Reasons' = Reasons /\ Pending' = Pending
      BY <3>1, <3>2 DEF Reasons, Pending
    <3>4. LockInv' /\ ListInv'
      BY <3>1, <3>2 DEF Lists, LockInv, ListInv
    <3>5. KnownInv' /\ StoredInv'
      BY <3>1, <3>3 DEF Lists, KnownInv, StoredInv, CopiedInv
    <3>6. CopiedInv'
      BY <3>1, <3>2, <3>3 DEF Lists, CopiedInv
    <3> QED
      BY <3>4, <3>5, <3>6 DEF Lists
  <2>3. CASE OpenBlockchain(h)
    BY <2>3, QuietStep DEF OpenBlockchain, Move, Changing, Unstored
  <2>4. CASE Check(h)
    BY <2>4, QuietStep DEF Check, Move, Changing, Unstored
  <2>5. CASE HandleRemoveNode(h)
    BY <2>5, QuietStep DEF HandleRemoveNode, Move, Changing, Unstored
  <2>6. CASE CheckCopy(h)
    <3>1. CASE Subject[h] \in copy[h]
      BY <2>6, <3>1, QuietStep DEF CheckCopy, Move, Changing, Unstored
    <3>2. CASE Subject[h] \notin copy[h]
      <4>1. /\ pc[h] = "ready" /\ pc' = [pc EXCEPT ![h] = "own"]
            /\ \A g \in Handler \ {h} : copy'[g] = copy[g]
            /\ stored' = stored \cup {Subject[h]}
            /\ learned' = learned \cup {Subject[h]}
            /\ UNCHANGED <<command, list, lock, failed, revived>>
        BY <1>t, <2>6, <3>2 DEF CheckCopy, Move
      <4>2. \A g \in Handler :
               /\ pc'[g] \in Changing <=> pc[g] \in Changing
               /\ pc'[g] \in Unstored <=> pc[g] \in Unstored
               /\ pc'[g] = "copied" => pc[g] = "copied" /\ g # h
        BY <1>t, <4>1 DEF Changing, Unstored
      <4>3. Pending' = Pending
        BY <4>2 DEF Pending
      <4>4. Reasons' = Reasons \cup {Subject[h]}
        BY <4>1, <4>3 DEF Reasons
      <4>5. LockInv' /\ ListInv'
        BY <4>1, <4>2 DEF Lists, LockInv, ListInv
      <4>6. KnownInv' /\ StoredInv'
        BY <4>1, <4>3, <4>4 DEF Lists, KnownInv, StoredInv
      <4>7. CopiedInv'
        BY <4>1, <4>2, <4>4 DEF Lists, CopiedInv
      <4> QED
        BY <4>5, <4>6, <4>7 DEF Lists
    <3> QED
      BY <3>1, <3>2
  <2>7. CASE ChangeList(h)
    BY <2>7, ChangeListKeeps
  <2>8. CASE CheckConnection(h)
    BY <2>8, QuietStep DEF CheckConnection, Move, Changing, Unstored
  <2>9. CASE OpenConnectionIfNeeded(h)
    BY <2>9, QuietStep DEF OpenConnectionIfNeeded, Move, Changing, Unstored
  <2>10. CASE GetNodesObject(h)
    <3>1. \E there \in {"get", "put", "wait"} : pc' = [pc EXCEPT ![h] = there]
      BY <1>t, <2>10 DEF GetNodesObject, GetObject, Move
    <3> QED
      BY <2>10, <3>1, QuietStep DEF GetNodesObject, GetObject, Move, Changing,
                                   Unstored
  <2>11. CASE LockNodes(h)
    BY <2>11, QuietStep DEF LockNodes, LockDb, Move, Changing, Unstored
  <2>12. CASE PutNode(h)
    BY <2>12, PutNodeKeeps
  <2>13. CASE CloseConnection(h)
    BY <2>13, QuietStep DEF CloseConnection, Move, Changing, Unstored
  <2>14. CASE UnlockList(h)
    <3>1. PICK there \in {"version", "tell", "end"} :
             pc' = [pc EXCEPT ![h] = there]
      BY <2>14 DEF UnlockList, Move
    <3>2. /\ pc[h] = "unlock" /\ lock' = None
          /\ UNCHANGED <<command, copy, list, stored, failed, learned, revived>>
      BY <2>14 DEF UnlockList, Move
    <3>3. \A g \in Handler :
             /\ pc'[g] \in Changing <=> pc[g] \in Changing /\ g # h
             /\ pc'[g] \in Unstored <=> pc[g] \in Unstored
             /\ pc'[g] = "copied" => pc[g] = "copied"
      BY <1>t, <3>1, <3>2 DEF Changing, Unstored
    <3>4. Reasons' = Reasons /\ Pending' = Pending
      BY <3>2, <3>3 DEF Reasons, Pending
    <3>5. LockInv'
      BY <3>2, <3>3, NodesAssumption DEF Lists, LockInv, Changing
    <3>6. ListInv'
      BY <3>2, <3>3 DEF Lists, ListInv
    <3>7. KnownInv' /\ StoredInv' /\ CopiedInv'
      BY <3>2, <3>3, <3>4 DEF Lists, KnownInv, StoredInv, CopiedInv
    <3> QED
      BY <3>5, <3>6, <3>7 DEF Lists
  <2>15. CASE OpenForVersion(h)
    BY <2>15, QuietStep DEF OpenForVersion, Move, Changing, Unstored
  <2>16. CASE OpenAgain(h)
    BY <2>16, QuietStep DEF OpenAgain, Move, Changing, Unstored
  <2>17. CASE GetBestHeight(h)
    <3>1. \E there \in {"height", "await", "hangup"} :
             pc' = [pc EXCEPT ![h] = there]
      BY <1>t, <2>17 DEF GetBestHeight, GetObject, Move
    <3> QED
      BY <2>17, <3>1, QuietStep DEF GetBestHeight, GetObject, Move, Changing,
                                   Unstored
  <2>18. CASE LockBlockchain(h)
    BY <2>18, QuietStep DEF LockBlockchain, LockDb, Move, Changing, Unstored
  <2>19. CASE SendVersion(h)
    BY <2>19, QuietStep DEF SendVersion, Move, Changing, Unstored
  <2>20. CASE CloseOwn(h)
    <3>1. \A g \in Handler \ {h} : copy'[g] = copy[g]
      BY <1>t, <2>20 DEF CloseOwn
    <3> QED
      BY <2>20, <3>1, QuietStep DEF CloseOwn, Move, Changing, Unstored
  <2> QED
    BY <2>1, <2>2, <2>3, <2>4, <2>5, <2>6, <2>7, <2>8, <2>9, <2>10, <2>11,
       <2>12, <2>13, <2>14, <2>15, <2>16, <2>17, <2>18, <2>19,
       <2>20, <1>3 DEF Handle
<1> QED
  BY <1>1, <1>2, <1>3 DEF Next

(***************************************************************************)
(* The shared connection                                                   *)
(***************************************************************************)

Linked == Connected \cup {"again", "height", "await", "hangup"}
Working == {"open"} \cup Linked
Waiting == {"wait", "put", "await", "hangup"}

LEMMA UsersAre == Users = {h \in Handler : pc[h] \in Working}
  BY DEF Users, Storing, Telling, Working, Linked, Connected

LEMMA InitConns == Init => ConnInv
  BY DEF Init, ConnInv, AloneInv, OpenInv, OwnInv, UsingInv, Users, Storing,
         Telling, Connected

\* A step that leaves the shared connection alone.
LEMMA UnrelatedStep ==
    ASSUME TypeOK, ConnInv, NEW h \in Handler, NEW there,
           pc' = [pc EXCEPT ![h] = there],
           pc[h] \notin Working, there \notin Working,
           \A g \in Handler \ {h} : own'[g] = own[g] /\ using'[g] = using[g],
           UNCHANGED <<conn, failed, panicked, overlapped>>
    PROVE  ConnInv'
<1>1. \A g \in Handler : /\ pc'[g] = pc[g] \/ (g = h /\ pc'[g] = there)
                         /\ pc'[g] \in Working <=> pc[g] \in Working
                         /\ pc'[g] \in Working => g # h /\ pc'[g] = pc[g]
  BY DEF TypeOK
<1>2. Users' = Users /\ h \notin Users /\ Users \subseteq Handler
  BY <1>1, UsersAre DEF Users, Storing, Telling, Working, Linked, Connected
<1>3. AloneInv => AloneInv'
  BY <1>2 DEF AloneInv
<1>4. OpenInv => OpenInv'
  BY <1>1 DEF OpenInv, Working, Linked
<1>5. OwnInv => OwnInv'
  BY <1>2 DEF OwnInv
<1>6. UsingInv => UsingInv'
  BY <1>1 DEF UsingInv, Working, Linked, Connected
<1> QED
  BY <1>3, <1>4, <1>5, <1>6 DEF ConnInv

\* A step of the only handler that uses the connection.
LEMMA OnlyUserStep ==
    ASSUME TypeOK, NEW h \in Handler, NEW there,
           pc' = [pc EXCEPT ![h] = there],
           \A g \in Handler \ {h} : pc[g] \notin Working,
           conn' # 0 <=> there \in Linked,
           there \in Working => own'[h],
           there \in Waiting => using'[h] = conn',
           failed' = {}, ~panicked'
    PROVE  ConnInv'
<1>1. pc'[h] = there /\ \A g \in Handler \ {h} : pc'[g] \notin Working
  BY DEF TypeOK
<1>2. Users' = {g \in Handler : pc'[g] \in Working}
  BY DEF Users, Storing, Telling, Working, Linked, Connected
<1>3. AloneInv' /\ OwnInv'
  BY <1>1, <1>2 DEF AloneInv, OwnInv
<1>4. OpenInv'
  BY <1>1 DEF OpenInv, Working, Linked
<1>5. UsingInv'
  BY <1>1 DEF UsingInv, Waiting, Working, Linked, Connected
<1> QED
  BY <1>3, <1>4, <1>5 DEF ConnInv

LEMMA SoleUser ==
    ASSUME ConnInv, ~overlapped, NEW h \in Handler, pc[h] \in Working
    PROVE  /\ \A g \in Handler \ {h} : pc[g] \notin Working
           /\ conn # 0 <=> pc[h] \in Linked
           /\ own[h]
           /\ pc[h] \in Waiting => using[h] = conn
           /\ failed = {} /\ ~panicked
<1>1. \A g \in Handler \ {h} : pc[g] \notin Working
  BY UsersAre DEF ConnInv, AloneInv
<1>2. conn # 0 <=> \E g \in Handler : pc[g] \in Linked
  BY DEF ConnInv, OpenInv, Linked
<1>3. conn # 0 <=> pc[h] \in Linked
  BY <1>1, <1>2 DEF Working
<1>4. own[h]
  BY UsersAre DEF ConnInv, OwnInv
<1> QED
  BY <1>1, <1>3, <1>4 DEF ConnInv, UsingInv, Waiting

LEMMA NoUser ==
    ASSUME ConnInv, ~overlapped, Users = {}
    PROVE  /\ \A g \in Handler : pc[g] \notin Working
           /\ conn = 0 /\ failed = {} /\ ~panicked
  BY UsersAre DEF ConnInv, OpenInv, Working, Linked

LEMMA StepConns ==
    ASSUME TypeOK, LockInv, ConnInv, [Next]_vars
    PROVE  ConnInv'
<1> USE DEF history, shared
<1> SUFFICES ASSUME ~overlapped'
             PROVE  ConnInv'
  BY DEF ConnInv
<1>t. /\ pc \in [Handler -> Places] /\ own \in [Handler -> BOOLEAN]
      /\ using \in [Handler -> Nat] /\ opens \in Nat
  BY DEF TypeOK
<1>1. CASE UNCHANGED vars
  BY <1>1 DEF vars, program, ConnInv, AloneInv, OpenInv, OwnInv, UsingInv,
              Users, Storing, Telling
<1>2. CASE Restart
  <2>1. /\ \A g \in Handler : pc'[g] = "done"
        /\ conn' = 0 /\ failed' = {} /\ panicked' = FALSE
    BY <1>2 DEF Restart
  <2> QED
    BY <2>1 DEF ConnInv, AloneInv, OpenInv, OwnInv, UsingInv, Users,
                Storing, Telling, Connected
<1>3. ASSUME NEW h \in Handler, CopyList(h) \/ Handle(h)
      PROVE  ConnInv'
  <2>1. CASE CopyList(h)
    BY <2>1, UnrelatedStep DEF CopyList, Move, Working, Linked, Connected
  <2>2. CASE StoreCopy(h)
    BY <2>2, UnrelatedStep DEF StoreCopy, Move, Working, Linked, Connected
  <2>3. CASE OpenBlockchain(h)
    BY <2>3, UnrelatedStep DEF OpenBlockchain, Move, Working, Linked, Connected
  <2>4. CASE Check(h)
    BY <2>4, UnrelatedStep DEF Check, Move, Working, Linked, Connected
  <2>5. CASE HandleRemoveNode(h)
    BY <2>5, UnrelatedStep
       DEF HandleRemoveNode, Move, Working, Linked, Connected
  <2>6. CASE CheckCopy(h)
    <3>1. \E there \in {"end", "own"} :
             pc[h] = "ready" /\ pc' = [pc EXCEPT ![h] = there]
      BY <2>6 DEF CheckCopy, Move
    <3>2. UNCHANGED <<own, using, conn, failed, panicked, overlapped>>
      BY <2>6 DEF CheckCopy
    <3> QED
      BY <3>1, <3>2, UnrelatedStep DEF Working, Linked, Connected
  <2>7. CASE ChangeList(h)
    BY <2>7, UnrelatedStep DEF ChangeList, Move, Working, Linked, Connected
  <2>8. CASE CheckConnection(h)
    <3>1. /\ pc[h] = "check" /\ pc' = [pc EXCEPT ![h] = "open"]
          /\ own' = [own EXCEPT ![h] = conn = 0]
          /\ overlapped' = (overlapped \/ Telling # {})
          /\ UNCHANGED <<using, conn, failed, panicked>>
      BY <2>8 DEF CheckConnection, Move
    <3>2. Storing = {}
      BY <3>1 DEF LockInv, Changing, Storing
    <3>3. Users = {} /\ ~overlapped
      BY <3>1, <3>2 DEF Users
    <3>4. conn = 0 /\ own'[h] /\ failed = {} /\ ~panicked
      BY <1>t, <3>1, <3>3, NoUser
    <3>5. \A g \in Handler : pc[g] \notin Working
      BY <3>3, NoUser
    <3> QED
      BY <3>1, <3>4, <3>5, OnlyUserStep DEF Linked, Connected, Waiting
  <2>9. CASE OpenConnectionIfNeeded(h)
    <3>1. /\ pc[h] = "open" /\ pc' = [pc EXCEPT ![h] = "get"]
          /\ UNCHANGED <<own, using, failed, panicked, overlapped>>
      BY <2>9 DEF OpenConnectionIfNeeded, Move
    <3>2. pc[h] \in Working /\ pc[h] \notin Linked
      BY <3>1 DEF Working, Linked, Connected
    <3>3. conn = 0 /\ own[h] /\ failed = {} /\ ~panicked
      BY <3>1, <3>2, SoleUser
    <3>4. \A g \in Handler \ {h} : pc[g] \notin Working
      BY <3>1, <3>2, SoleUser
    <3>5. conn' # 0
      BY <1>t, <2>9, <3>3 DEF OpenConnectionIfNeeded, Opened
    <3> QED
      BY <3>1, <3>3, <3>4, <3>5, OnlyUserStep DEF Linked, Connected, Waiting
  <2>10. CASE GetNodesObject(h)
    <3>1. pc[h] = "get" /\ UNCHANGED <<own, conn, failed, overlapped>>
      BY <2>10 DEF GetNodesObject, GetObject, Move
    <3>2. pc[h] \in Working /\ pc[h] \in Linked
      BY <3>1 DEF Working, Linked, Connected
    <3>3. conn # 0 /\ own[h] /\ failed = {}
      BY <3>1, <3>2, SoleUser
    <3>4. \A g \in Handler \ {h} : pc[g] \notin Working
      BY <3>1, <3>2, SoleUser
    <3>5. /\ \E there \in {"put", "wait"} : pc' = [pc EXCEPT ![h] = there]
          /\ using' = [using EXCEPT ![h] = conn] /\ ~panicked'
      BY <2>10, <3>3 DEF GetNodesObject, GetObject, Move
    <3>6. using'[h] = conn'
      BY <1>t, <3>1, <3>5
    <3> QED
      BY <3>1, <3>3, <3>4, <3>5, <3>6, OnlyUserStep DEF Linked, Connected
  <2>11. CASE LockNodes(h)
    <3>1. /\ pc[h] = "wait" /\ pc' = [pc EXCEPT ![h] = "put"]
          /\ UNCHANGED <<own, using, conn, failed, panicked, overlapped>>
      BY <2>11 DEF LockNodes, LockDb, Move
    <3>2. pc[h] \in Working /\ pc[h] \in Linked /\ pc[h] \in Waiting
      BY <3>1 DEF Working, Linked, Connected, Waiting
    <3>3. conn # 0 /\ own[h] /\ using[h] = conn /\ failed = {} /\ ~panicked
      BY <3>1, <3>2, SoleUser
    <3>4. \A g \in Handler \ {h} : pc[g] \notin Working
      BY <3>1, <3>2, SoleUser
    <3> QED
      BY <3>1, <3>3, <3>4, OnlyUserStep DEF Linked, Connected
  <2>12. CASE PutNode(h)
    <3>1. /\ pc[h] = "put"
          /\ pc' = [pc EXCEPT ![h] = IF own[h] THEN "close" ELSE "unlock"]
          /\ UNCHANGED <<own, using, conn, panicked, overlapped>>
      BY <2>12 DEF PutNode, Move
    <3>2. pc[h] \in Working /\ pc[h] \in Linked /\ pc[h] \in Waiting
      BY <3>1 DEF Working, Linked, Connected, Waiting
    <3>3. conn # 0 /\ own[h] /\ using[h] = conn /\ failed = {} /\ ~panicked
      BY <3>1, <3>2, SoleUser
    <3>4. \A g \in Handler \ {h} : pc[g] \notin Working
      BY <3>1, <3>2, SoleUser
    <3>5. failed' = {}
      BY <2>12, <3>3 DEF PutNode, Put
    <3> QED
      BY <3>1, <3>3, <3>4, <3>5, OnlyUserStep DEF Linked, Connected, Waiting
  <2>13. CASE CloseConnection(h)
    <3>1. /\ pc[h] = "close" /\ pc' = [pc EXCEPT ![h] = "unlock"]
          /\ conn' = 0 /\ UNCHANGED <<own, failed, panicked, overlapped>>
      BY <2>13 DEF CloseConnection, Closed, Move
    <3>2. pc[h] \in Working
      BY <3>1 DEF Working, Linked, Connected
    <3>3. failed = {} /\ ~panicked
      BY <3>1, <3>2, SoleUser
    <3>4. \A g \in Handler \ {h} : pc[g] \notin Working
      BY <3>1, <3>2, SoleUser
    <3> QED
      BY <3>1, <3>3, <3>4, OnlyUserStep DEF Working, Linked, Connected, Waiting
  <2>14. CASE UnlockList(h)
    <3>1. \E there \in {"version", "tell", "end"} :
             pc[h] = "unlock" /\ pc' = [pc EXCEPT ![h] = there]
      BY <2>14 DEF UnlockList, Move
    <3>2. UNCHANGED <<own, using, conn, failed, panicked, overlapped>>
      BY <2>14 DEF UnlockList
    <3> QED
      BY <3>1, <3>2, UnrelatedStep DEF Working, Linked, Connected
  <2>15. CASE OpenForVersion(h)
    <3>1. /\ pc[h] = "version" /\ pc' = [pc EXCEPT ![h] = "again"]
          /\ own' = [own EXCEPT ![h] = conn = 0]
          /\ overlapped' = (overlapped \/ Storing \cup Telling # {})
          /\ UNCHANGED <<using, failed, panicked>>
      BY <2>15 DEF OpenForVersion, Move
    <3>2. Users = {} /\ ~overlapped
      BY <3>1 DEF Users
    <3>3. conn = 0 /\ own'[h] /\ failed = {} /\ ~panicked
      BY <1>t, <3>1, <3>2, NoUser
    <3>4. \A g \in Handler : pc[g] \notin Working
      BY <3>2, NoUser
    <3>5. conn' # 0
      BY <1>t, <2>15, <3>3 DEF OpenForVersion, Opened
    <3> QED
      BY <3>1, <3>3, <3>4, <3>5, OnlyUserStep DEF Linked, Connected, Waiting
  <2>16. CASE OpenAgain(h)
    <3>1. /\ pc[h] = "again" /\ pc' = [pc EXCEPT ![h] = "height"]
          /\ UNCHANGED <<own, using, failed, panicked, overlapped>>
      BY <2>16 DEF OpenAgain, Move
    <3>2. pc[h] \in Working /\ pc[h] \in Linked
      BY <3>1 DEF Working, Linked, Connected
    <3>3. conn # 0 /\ own[h] /\ failed = {} /\ ~panicked
      BY <3>1, <3>2, SoleUser
    <3>4. \A g \in Handler \ {h} : pc[g] \notin Working
      BY <3>1, <3>2, SoleUser
    <3>5. conn' # 0
      BY <2>16, <3>3 DEF OpenAgain, Opened
    <3> QED
      BY <3>1, <3>3, <3>4, <3>5, OnlyUserStep DEF Linked, Connected, Waiting
  <2>17. CASE GetBestHeight(h)
    <3>1. pc[h] = "height" /\ UNCHANGED <<own, conn, failed, overlapped>>
      BY <2>17 DEF GetBestHeight, GetObject, Move
    <3>2. pc[h] \in Working /\ pc[h] \in Linked
      BY <3>1 DEF Working, Linked, Connected
    <3>3. conn # 0 /\ own[h] /\ failed = {}
      BY <3>1, <3>2, SoleUser
    <3>4. \A g \in Handler \ {h} : pc[g] \notin Working
      BY <3>1, <3>2, SoleUser
    <3>5. /\ \E there \in {"hangup", "await"} : pc' = [pc EXCEPT ![h] = there]
          /\ using' = [using EXCEPT ![h] = conn] /\ ~panicked'
      BY <2>17, <3>3 DEF GetBestHeight, GetObject, Move
    <3>6. using'[h] = conn'
      BY <1>t, <3>1, <3>5
    <3> QED
      BY <3>1, <3>3, <3>4, <3>5, <3>6, OnlyUserStep DEF Linked, Connected
  <2>18. CASE LockBlockchain(h)
    <3>1. /\ pc[h] = "await" /\ pc' = [pc EXCEPT ![h] = "hangup"]
          /\ UNCHANGED <<own, using, conn, failed, panicked, overlapped>>
      BY <2>18 DEF LockBlockchain, LockDb, Move
    <3>2. pc[h] \in Working /\ pc[h] \in Linked /\ pc[h] \in Waiting
      BY <3>1 DEF Working, Linked, Connected, Waiting
    <3>3. conn # 0 /\ own[h] /\ using[h] = conn /\ failed = {} /\ ~panicked
      BY <3>1, <3>2, SoleUser
    <3>4. \A g \in Handler \ {h} : pc[g] \notin Working
      BY <3>1, <3>2, SoleUser
    <3> QED
      BY <3>1, <3>3, <3>4, OnlyUserStep DEF Linked, Connected
  <2>19. CASE SendVersion(h)
    <3>1. /\ pc[h] = "hangup" /\ pc' = [pc EXCEPT ![h] = "end"]
          /\ UNCHANGED <<own, failed, panicked, overlapped>>
      BY <2>19 DEF SendVersion, Move
    <3>2. pc[h] \in Working
      BY <3>1 DEF Working, Linked, Connected
    <3>3. own[h] /\ failed = {} /\ ~panicked
      BY <3>1, <3>2, SoleUser
    <3>4. \A g \in Handler \ {h} : pc[g] \notin Working
      BY <3>1, <3>2, SoleUser
    <3>5. conn' = 0
      BY <2>19, <3>3 DEF SendVersion, Closed
    <3> QED
      BY <3>1, <3>3, <3>4, <3>5, OnlyUserStep
         DEF Working, Linked, Connected, Waiting
  <2>20. CASE CloseOwn(h)
    <3>1. /\ pc[h] \in {"own", "end"} /\ pc' = [pc EXCEPT ![h] = "done"]
          /\ UNCHANGED <<conn, failed, panicked, overlapped>>
      BY <2>20 DEF CloseOwn, Move
    <3>2. \A g \in Handler \ {h} : own'[g] = own[g] /\ using'[g] = using[g]
      BY <1>t, <2>20 DEF CloseOwn
    <3> QED
      BY <3>1, <3>2, UnrelatedStep DEF Working, Linked, Connected
  <2> QED
    BY <2>1, <2>2, <2>3, <2>4, <2>5, <2>6, <2>7, <2>8, <2>9, <2>10, <2>11,
       <2>12, <2>13, <2>14, <2>15, <2>16, <2>17, <2>18, <2>19,
       <2>20, <1>3 DEF Handle
<1> QED
  BY <1>1, <1>2, <1>3 DEF Next

(***************************************************************************)
(* Theorems                                                                *)
(***************************************************************************)

LEMMA Inductive == Spec => []IInv
<1>1. Init => IInv
  BY InitTypes, InitOwn, InitLists, InitConns DEF IInv
<1>2. IInv /\ [Next]_vars
      => IInv'
  BY StepTypes, StepOwn, StepLists, StepConns DEF IInv, Lists
<1> QED
  BY <1>1, <1>2, PTL DEF Spec

\* The variables keep their types; the databases of the shared connection are
\* never those of a handler's own.
THEOREM NodesListTypes == Spec => []TypeOK
<1>1. IInv => TypeOK
  BY DEF IInv
<1> QED
  BY <1>1, Inductive, PTL

\* A removed node is in the store again only by a copy of the list that was
\* made before, or because its removal was not stored.
THEOREM RemovedStaysAway == Spec => []StoredForAReason
<1>1. IInv => StoredForAReason
  BY NonePending DEF IInv, StoredForAReason, Lists, StoredInv, Reasons
<1> QED
  BY <1>1, Inductive, PTL

\* Only SendVersionToNodes of another handler can end the process by a missing
\* connection, or a change of the list without it being stored.
THEOREM OnlyOverlapLoses == Spec => []OnlyOverlapFails
<1>1. IInv => OnlyOverlapFails
  BY DEF IInv, OnlyOverlapFails, ConnInv
<1> QED
  BY <1>1, Inductive, PTL

\* What is known outlives the process, however it ends.
THEOREM KnownIsStored == Spec => KnownSurvives
<1>1. IInv /\ [Next]_vars => [(restarts' # restarts /\ lock = None) => list \ failed \subseteq list']_vars
  <2> SUFFICES ASSUME TypeOK, Lists, [Next]_vars, restarts' # restarts,
                      lock = None
               PROVE  list \ failed \subseteq list'
    BY DEF IInv
  <2>1. Restart
    BY DEF Next, Handle, vars, CopyList, StoreCopy, OpenBlockchain, Check,
           HandleRemoveNode, CheckCopy, ChangeList, CheckConnection,
           OpenConnectionIfNeeded, GetNodesObject, LockNodes, PutNode,
           CloseConnection, UnlockList, OpenForVersion, OpenAgain,
           GetBestHeight, LockBlockchain, SendVersion, CloseOwn
  <2>2. list \ failed \subseteq stored
    BY NonePending DEF Lists, KnownInv
  <2> QED
    BY <2>1, <2>2 DEF Restart, AtStart
<1> QED
  BY <1>1, Inductive, PTL DEF Spec, KnownSurvives
===============================================================================
