--------------------------------- MODULE Sync ---------------------------------
(***************************************************************************)
(* How nodes exchange blocks.  Every message is a TCP connection of its    *)
(* own and gets a goroutine of its own at the receiver, so messages arrive *)
(* in any order; a handler has the database lock of its node from its      *)
(* first look at the database to its end, so handlers of one node exclude  *)
(* each other.  What precedes that look, the list of announced blocks kept *)
(* by the server (nodeTransit), is used without a lock.                    *)
(*                                                                         *)
(* The store of a node is what MainChain promises: ChainStore implements   *)
(* it.  The checks of a block's contents are Ledger's; here all are valid. *)
(* Every node knows the address of every other.                            *)
(***************************************************************************)
EXTENDS Lookup, Bags

CONSTANTS
    Node,
    Fresh,      \* the nodes that have no blockchain yet
    MaxCount,   \* how many blocks an announcement carries (1000 in the code)
    MaxFirst,   \* how many blocks a new node imports (10 in the code)
    MaxStops,   \* bound: how often a server stops or its process dies
    MaxBusy     \* bound: servers that run, plus exchanges that began while
                \* another went on

ASSUME SyncAssumption ==
    /\ IsFiniteSet(Node) /\ Fresh \subseteq Node /\ None \notin Node
    /\ MaxCount \in Nat \ {0}
    /\ MaxFirst \in Nat \ {0}
    /\ MaxStops \in Nat
    /\ MaxBusy \in Nat

VARIABLES
    up,         \* the nodes whose server listens
    known,      \* known[n]: the blocks node n has stored
    tip,        \* tip[n]: the top of its main chain
    import,     \* import[n]: blocks received by InitBlockchainFromOther
    transit,    \* transit[n][m]: blocks m announced that n has not looked at
    pending,    \* messages and handlers that have not got the lock yet
    loop,       \* loop[n]: the announced block the running handler looks at
    stops,
    rush        \* how many blocks were made, servers started or stopped
                \* while a message was still pending

vars == <<up, known, tip, import, transit, pending, loop, stops, rush>>

(***************************************************************************)
(* Messages                                                                *)
(***************************************************************************)

\* "added" is a handler of an "inv" that put the announced blocks on the list,
\* "shifted" one that took this block off it and waits for the lock.
Message ==
    [type : {"version"}, to : Node, from : Node, height : Nat]
    \cup [type : {"added"}, to : Node, from : Node]
    \cup [type : {"getblocks", "getblocksup", "getdata", "block", "shifted"},
          to : Node, from : Node, block : Block]
    \cup [type : {"inv"}, to : Node, from : Node, items : Seq(Block)]

Version(n, m) ==
    [type |-> "version", to |-> m, from |-> n, height |-> Height[tip[n]]]
GetBlocks(n, m, b) ==
    [type |-> "getblocks", to |-> m, from |-> n, block |-> b]
GetBlocksUpper(n, m, b) ==
    [type |-> "getblocksup", to |-> m, from |-> n, block |-> b]
GetData(n, m, b) ==
    [type |-> "getdata", to |-> m, from |-> n, block |-> b]
FullBlock(n, m, b) ==
    [type |-> "block", to |-> m, from |-> n, block |-> b]
Inv(n, m, items) == [type |-> "inv", to |-> m, from |-> n, items |-> items]

\* SendData: a server that does not listen is not connected to, and the error
\* is logged.
Send(msgs) == SetToBag({msg \in msgs : msg.to \in up})

Received(msg) == pending (-) SetToBag({msg})

\* Mutant: one more node is taken for the own address and skipped.
OthersButOne(n) ==
    LET skipped == CHOOSE m \in Node \ {n} : TRUE IN Node \ {n, skipped}

\* SendBlockToAll and SendVersionToNodes skip the own address only.
Others(n) == Node \ {n}

(***************************************************************************)
(* The store of a node                                                     *)
(***************************************************************************)

\* Mutant: what precedes the block is not looked at.
CheckBlockOnly(n, b) == IF b \in known[n] THEN "exists" ELSE "canBeAdded"

CheckBlockState(n, b) ==
    IF b \in known[n] THEN "exists"
    ELSE IF Parent[b] \in known[n] THEN "canBeAdded"
    ELSE "prevNotExists"

AddBlock(n, b) ==
    /\ known' = [known EXCEPT ![n] = @ \cup {b}]
    /\ tip' = [tip EXCEPT ![n] = IF Height[b] > Height[@] THEN b ELSE @]

\* GetNextBlocks: upwards along the main chain; a block beside it is answered
\* alone.
NextBlocks(n, b) ==
    IF b \notin Line[tip[n]] THEN <<b>>
    ELSE SubSeq(Reverse(Down(tip[n])), Height[b] + 1,
                Lower(Height[tip[n]] + 1, Height[b] + MaxCount))

\* GetBlocksShortInfo: downwards, one block more than it was asked for.
BlocksShortInfo(b) ==
    SubSeq(Down(b), 1, Lower(Height[b] + 1, MaxCount + 1))

(***************************************************************************)
(* The list of announced blocks                                            *)
(***************************************************************************)

NoLoop == [from |-> None, block |-> None]

\* Mutant: the handler ends at a block that exists.
TurnOnce(n, m, b, rest, list) ==
    LET state == CheckBlockState(n, b)
    IN  /\ loop' = [loop EXCEPT ![n] = NoLoop]
        /\ transit' = [transit EXCEPT ![n][m] =
                          IF state = "prevNotExists" THEN << >> ELSE list]
        /\ pending' = rest (+)
              CASE state = "canBeAdded" ->
                       Send({GetData(n, m, b)})
                [] state = "prevNotExists" ->
                       Send({GetBlocks(n, m, Parent[b])})
                [] state = "exists" -> EmptyBag

\* What a handler of node n does with block b from the list of node m: a
\* block whose previous one is stored is asked for, and the handler ends; one
\* whose previous one is not makes it forget the list and ask for the blocks
\* up to that previous one.  Otherwise it goes on with the next of the list.
Turn(n, m, b, rest, list) ==
    LET state == CheckBlockState(n, b)
        goOn == state = "exists" /\ list # << >>
    IN  /\ loop' = [loop EXCEPT ![n] =
                        IF goOn THEN [from |-> m, block |-> Head(list)]
                        ELSE NoLoop]
        /\ transit' = [transit EXCEPT ![n][m] =
                          IF state = "prevNotExists" THEN << >>
                          ELSE IF goOn THEN Tail(list) ELSE list]
        /\ pending' = rest (+)
              CASE state = "canBeAdded" ->
                       Send({GetData(n, m, b)})
                [] state = "prevNotExists" ->
                       Send({GetBlocks(n, m, Parent[b])})
                [] state = "exists" -> EmptyBag

(***************************************************************************)
(* Handlers                                                                *)
(***************************************************************************)

\* A handler of msg gets the database lock of its node.
Handles(msg, type) ==
    /\ BagIn(msg, pending)
    /\ msg.type = type
    /\ loop[msg.to] = NoLoop

\* Mutant: nodes of one height answer each other too.
HandleVersionAlways(msg) ==
    /\ Handles(msg, "version")
    /\ LET mine == Height[tip[msg.to]]
       IN  pending' = Received(msg) (+)
              IF mine < msg.height
              THEN Send({GetBlocksUpper(msg.to, msg.from, tip[msg.to])})
              ELSE Send({Version(msg.to, msg.from)})
    /\ UNCHANGED <<up, known, tip, import, transit, loop, stops, rush>>

HandleVersion(msg) ==
    /\ Handles(msg, "version")
    /\ LET mine == Height[tip[msg.to]]
       IN  pending' = Received(msg) (+)
              CASE mine < msg.height ->
                       Send({GetBlocksUpper(msg.to, msg.from, tip[msg.to])})
                [] mine > msg.height -> Send({Version(msg.to, msg.from)})
                [] mine = msg.height -> EmptyBag
    /\ UNCHANGED <<up, known, tip, import, transit, loop, stops, rush>>

\* Both replies turn the blocks they found round.  The asker's own block is
\* among those that GetNextBlocks finds.
HandleGetBlocksUpper(msg) ==
    /\ Handles(msg, "getblocksup")
    /\ LET found == IF msg.block \in known[msg.to]
                    THEN NextBlocks(msg.to, msg.block)
                    ELSE BlocksShortInfo(tip[msg.to])
       IN  pending' = Received(msg)
                          (+) Send({Inv(msg.to, msg.from, Reverse(found))})
    /\ UNCHANGED <<up, known, tip, import, transit, loop, stops, rush>>

HandleGetBlocks(msg) ==
    /\ Handles(msg, "getblocks")
    /\ msg.block \in known[msg.to]
    /\ pending' = Received(msg) (+)
          Send({Inv(msg.to, msg.from, Reverse(BlocksShortInfo(msg.block)))})
    /\ UNCHANGED <<up, known, tip, import, transit, loop, stops, rush>>

HandleGetData(msg) ==
    /\ Handles(msg, "getdata")
    /\ msg.block \in known[msg.to]
    /\ pending' = Received(msg)
                      (+) Send({FullBlock(msg.to, msg.from, msg.block)})
    /\ UNCHANGED <<up, known, tip, import, transit, loop, stops, rush>>

\* The handler of msg, once it has put the blocks on the list, and once it has
\* taken block b off it.
Added(msg) == [type |-> "added", to |-> msg.to, from |-> msg.from]
Shifted(msg, b) ==
    [type |-> "shifted", to |-> msg.to, from |-> msg.from, block |-> b]

\* Transit.AddBlocks.  No lock is held: other handlers of the node use the
\* list before this one goes on.
HandleInv(msg) ==
    /\ BagIn(msg, pending)
    /\ msg.type = "inv"
    /\ transit' = [transit EXCEPT ![msg.to][msg.from] = @ \o msg.items]
    /\ pending' = Received(msg) (+) SetToBag({Added(msg)})
    /\ UNCHANGED <<up, known, tip, import, loop, stops, rush>>

\* The first Transit.ShiftNextBlock: the first of all the blocks that node
\* announced.  When other handlers took them all, or forgot the list, this one
\* ends with an error.
ShiftFirst(msg) ==
    /\ BagIn(msg, pending)
    /\ msg.type = "added"
    /\ LET list == transit[msg.to][msg.from]
       IN  IF list = << >>
           THEN pending' = Received(msg) /\ UNCHANGED transit
           ELSE /\ pending' = Received(msg)
                      (+) SetToBag({Shifted(msg, Head(list))})
                /\ transit' = [transit EXCEPT ![msg.to][msg.from] = Tail(@)]
    /\ UNCHANGED <<up, known, tip, import, loop, stops, rush>>

\* The first turn of handleInv's loop.
LookAtShifted(msg) ==
    /\ Handles(msg, "shifted")
    /\ Turn(msg.to, msg.from, msg.block, Received(msg),
            transit[msg.to][msg.from])
    /\ UNCHANGED <<up, known, tip, import, stops, rush>>

\* The further turns of the loops of handleInv and handleBlock.
LookAtNext(n) ==
    /\ loop[n] # NoLoop
    /\ LET m == loop[n].from
       IN  Turn(n, m, loop[n].block, pending, transit[n][m])
    /\ UNCHANGED <<up, known, tip, import, stops, rush>>

\* A new block is announced to every node, the one it came from too
\* (SendBlockToAll does not use skipaddr).  Then the handler goes on with the
\* list of the node that sent the block.
HandleBlock(msg) ==
    /\ Handles(msg, "block")
    /\ LET n == msg.to
           m == msg.from
           new == CheckBlockState(n, msg.block) = "canBeAdded"
           list == transit[n][m]
       IN  /\ IF new THEN AddBlock(n, msg.block) ELSE UNCHANGED <<known, tip>>
           /\ pending' = Received(msg) (+)
                 IF new THEN Send({Inv(n, k, <<msg.block>>) : k \in Others(n)})
                 ELSE EmptyBag
           /\ IF list = << >>
              THEN UNCHANGED <<loop, transit>>
              ELSE /\ loop' = [loop EXCEPT ![n] =
                                  [from |-> m, block |-> Head(list)]]
                   /\ transit' = [transit EXCEPT ![n][m] = Tail(list)]
    /\ UNCHANGED <<up, import, stops, rush>>

(***************************************************************************)
(* What starts an exchange                                                 *)
(***************************************************************************)

Nothing == pending = EmptyBag /\ \A n \in Node : loop[n] = NoLoop

\* A new exchange starts, while another goes on or not.
Begins ==
    /\ rush' = IF Nothing THEN rush ELSE rush + 1
    /\ Cardinality(up') + rush' <= MaxBusy

\* Mutant: a block that could not be stored is announced.
AnnounceUnstored(n, b) ==
    /\ n \in up
    /\ loop[n] = NoLoop
    /\ Parent[b] = tip[n]
    /\ \A m \in Node : b \notin known[m]
    /\ pending' = pending (+) Send({Inv(n, m, <<b>>) : m \in Others(n)})
    /\ UNCHANGED <<up, known, tip, import, transit, loop, stops>>
    /\ Begins

\* TryToMakeBlock.  What happens while the proof of work is done is Ledger's.
MakeBlock(n, b) ==
    /\ n \in up
    /\ loop[n] = NoLoop
    /\ Parent[b] = tip[n]
    /\ \A m \in Node : b \notin known[m]
    /\ AddBlock(n, b)
    /\ pending' = pending (+) Send({Inv(n, m, <<b>>) : m \in Others(n)})
    /\ UNCHANGED <<up, import, transit, loop, stops>>
    /\ Begins

\* StartServer: SendVersionToNodes.
Start(n) ==
    /\ n \notin up
    /\ known[n] # {}
    /\ import[n] = << >>
    /\ up' = up \cup {n}
    /\ pending' = pending (+) Send({Version(n, m) : m \in Others(n)})
    /\ Begins
    /\ UNCHANGED <<known, tip, import, transit, loop, stops>>

\* The server stops, or its process dies: only the database is left.
Stop(n) ==
    /\ n \in up
    /\ stops < MaxStops
    /\ stops' = stops + 1
    /\ up' = up \ {n}
    /\ transit' = [transit EXCEPT ![n] = [m \in Node |-> << >>]]
    /\ loop' = [loop EXCEPT ![n] = NoLoop]
    /\ pending' = [msg \in {p \in BagToSet(pending) : p.to # n} |->
                      pending[msg]]
    /\ Begins
    /\ UNCHANGED <<known, tip, import>>

\* GetFirstBlocks of node m, requested by a node that has no blockchain.
RequestFirstBlocks(n, m) ==
    /\ known[n] = {}
    /\ import[n] = << >>
    /\ m \in up
    /\ loop[m] = NoLoop
    /\ import' = [import EXCEPT ![n] =
                     SubSeq(Reverse(Down(tip[m])), 1,
                            Lower(Height[tip[m]] + 1, MaxFirst))]
    /\ UNCHANGED <<up, known, tip, transit, pending, loop, stops, rush>>

\* InitBlockchainFromOther: addFirstBlock for the first, AddBlock for the rest.
ImportBlock(n) ==
    /\ import[n] # << >>
    /\ import' = [import EXCEPT ![n] = Tail(@)]
    /\ IF known[n] = {}
       THEN /\ known' = [known EXCEPT ![n] = {Head(import[n])}]
            /\ tip' = [tip EXCEPT ![n] = Head(import[n])]
       ELSE AddBlock(n, Head(import[n]))
    /\ UNCHANGED <<up, transit, pending, loop, stops, rush>>

(***************************************************************************)
(* Specification                                                           *)
(***************************************************************************)

Init ==
    /\ up = Node \ Fresh
    /\ known = [n \in Node |-> IF n \in Fresh THEN {} ELSE {Genesis}]
    /\ tip = [n \in Node |-> IF n \in Fresh THEN None ELSE Genesis]
    /\ import = [n \in Node |-> << >>]
    /\ transit = [n \in Node |-> [m \in Node |-> << >>]]
    /\ pending = EmptyBag
    /\ loop = [n \in Node |-> NoLoop]
    /\ stops = 0
    /\ rush = 0

Handle(msg) ==
    \/ HandleVersion(msg)
    \/ HandleGetBlocksUpper(msg) \/ HandleGetBlocks(msg)
    \/ HandleInv(msg) \/ ShiftFirst(msg) \/ LookAtShifted(msg)
    \/ HandleGetData(msg) \/ HandleBlock(msg)

Serve ==
    \/ \E msg \in BagToSet(pending) : Handle(msg)
    \/ \E n \in Node : LookAtNext(n)

Next ==
    \/ Serve
    \/ \E n \in Node :
          \/ \E b \in Block : MakeBlock(n, b)
          \/ Start(n) \/ Stop(n)
          \/ \E m \in Node : RequestFirstBlocks(n, m)
          \/ ImportBlock(n)

Spec == Init /\ [][Next]_vars

\* Every connection has a goroutine, and a goroutine that waits for the lock
\* gets it.
FairSpec == Spec /\ WF_vars(Serve)

(***************************************************************************)
(* Properties                                                              *)
(***************************************************************************)

\* A node without blocks has no top and its server does not run, and a
\* handler in its loop looks at a block of some node.
TypeOK ==
    /\ up \subseteq Node
    /\ known \in [Node -> SUBSET Block]
    /\ tip \in [Node -> Block \cup {None}]
    /\ import \in [Node -> Seq(Block)]
    /\ transit \in [Node -> [Node -> Seq(Block)]]
    /\ loop \in [Node -> [from : Node, block : Block] \cup {NoLoop}]
    /\ \A n \in Node : /\ tip[n] = None <=> known[n] = {}
                       /\ n \in up => known[n] # {} /\ import[n] = << >>
    /\ IsABag(pending) /\ BagToSet(pending) \subseteq Message
    /\ stops \in 0 .. MaxStops
    /\ rush \in 0 .. MaxBusy

\* No message makes its receiver dereference what is not there, whatever was
\* lost or overtaken before.  A node is asked only for blocks it has
\* (handleGetBlocks looks up the block it is sent), and no announcement is
\* empty, in particular the reply to a node that caught up after it asked is
\* not (ShiftNextBlock takes the first block without looking at the length).
NothingToDereference ==
    \A msg \in BagToSet(pending) :
        /\ msg.type \in {"getblocks", "getdata"} => msg.block \in known[msg.to]
        /\ msg.type = "inv" => msg.items # << >>

\* Announced blocks that were put off are not forgotten: while a list is not
\* empty, something is on its way that makes a handler go on with it, as long
\* as no server stops.
TransitIsServed ==
    stops = 0 => \A n, m \in Node :
        transit[n][m] # << >> =>
            \/ loop[n].from = m
            \/ \E msg \in BagToSet(pending) :
                  \/ /\ msg.to = n /\ msg.from = m
                     /\ msg.type \in {"inv", "added", "shifted", "block"}
                  \/ /\ msg.to = m /\ msg.from = n
                     /\ msg.type = "getdata"

\* No two blocks of the nodes are on different branches, and an announcement
\* can carry all of them.
OneBranch ==
    \A n, m \in Node : \A b \in known[n], c \in known[m] :
        b \in Line[c] \/ c \in Line[b]
FitsOneAnnouncement ==
    \A n \in Node : \A b \in known[n] : Height[b] < MaxCount

\* "We will notify our network about new block ... So, other can copy it"
\* (SendBlockToAll): when blocks are made one after the other, the nodes that
\* were there from the start all follow; a server that was away, or is new,
\* comes to within one block of the others, as long as there is one branch and
\* one announcement carries it.  Beside the branch of another node it can stay
\* behind, since GetNextBlocks answers it with its own block alone.
NodesAgree ==
    rush = 0 /\ Nothing =>
        /\ stops = 0 => \A n, m \in up \ Fresh : tip[n] = tip[m]
        /\ OneBranch /\ FitsOneAnnouncement =>
              \A n, m \in up : Height[tip[n]] <= Height[tip[m]] + 1

\* "Next part will be loaded on background when node started"
\* (commandInitBlockchain).
LoadedInBackground ==
    rush = 0 /\ stops = 0 /\ Nothing =>
        \A n, m \in up : Height[tip[n]] = Height[tip[m]]

\* Messages that answer messages come to an end: a version, a gossiped block
\* or a list of blocks is not sent to and fro for ever.
Quiesces == <>[]Nothing

(***************************************************************************)
(* Refinement: every node's blocks are a MainChain                         *)
(***************************************************************************)

Store(n) == INSTANCE MainChain WITH
    known <- IF known[n] = {} THEN {Genesis} ELSE known[n],
    tip <- IF known[n] = {} THEN Genesis ELSE tip[n],
    main <- IF known[n] = {} THEN {Genesis} ELSE Line[tip[n]]

\* Whatever is announced, lost or overtaken, each node only ever adds blocks
\* whose previous one it has, one at a time (\A n : Store(n)!Spec).
StoresAreMainChains ==
    /\ \A n \in Node : Store(n)!Init
    /\ [][\A n \in Node : [Store(n)!Next]_(Store(n)!vars)]_vars

=============================================================================
