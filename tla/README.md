# TLA+ model of democoin

Democoin is a small blockchain node: a block store in BoltDB, transaction
caches beside it, a miner, a TCP server that exchanges blocks and transactions
with other nodes, a daemon around it, and wallets. This directory models the
node from the block store up to the daemon, checks it with TLC on small
instances, and proves with TLAPS, for every value of the constants, nearly all
the safety properties the runs check (section 6 says which, and under which
conditions).

## 1. Inventory

| Part | Code (`src/node/...`) | State | Operations | What is hard | What must hold |
|---|---|---|---|---|---|
| Block store | `blockchain/manager.go`, `database/blockchain.go`, `blockchain/iterator.go` | blocks bucket, top hash, index of the main chain (a linked list) | AddBlock, UpdateChainOnNewBranch, DeleteBlock | several bolt transactions per operation, errors only logged, branches that overtake each other, drops | index = branch of the top; top highest; nothing swallowed |
| Block queries | `blockchain/manager.go`, `nodemanager/blockchain.go` | none | GetNextBlocks, GetSideBranch, GetBranchesReplacement, ChooseHashUnderTip, CheckBlockIsInRange | questions about a branch that is not the main one | the answer is about the branch asked for |
| Transaction index | `transactions/index.go` | transaction -> blocks, output -> spendings, for all branches | BlockAdded, BlockRemoved, Reindex, queries | one index shared by all branches | complete for every stored block |
| Unspent outputs | `transactions/unspent.go` | output -> block, main chain only | UpdateOnBlockAdd, UpdateOnBlockCancel, Reindex | cancelled after the store moved on | exactly what the main chain leaves unspent |
| Pool | `transactions/pending.go` | unapproved transactions | Add, Delete, DeleteFromBlock, AddFromCanceled | transactions that return, stale ones | no two use one output |
| Verification, mining | `consensus/manager.go`, `nodemanager/node.go` | the prepared block | PrepareNewBlock, CompleteBlock, VerifyBlock | the database is closed during the proof of work | only valid blocks are stored or prepared |
| Node | `nodemanager/node.go` | none | AddBlock, DropBlock, TryToMakeBlock, Received... | calls the store and then each cache; errors ignored | the caches follow the store |
| Database lock | `database/manager.go`, `nodemanager/database.go` | two mutexes, two lock files, the open connection | lockDB, unLockDB, OpenConnection(IfNeeded), CloseConnection | two processes, test and create not atomic, expiry after an hour | one owner |
| Server | `server/server.go` | listener, stop channels, builder channel (100) | StartServer, handleConnection, BlockBuilder, TryToMakeNewBlock | goroutines, a channel closed by its receiver | stops, and sends on no closed channel |
| Synchronisation | `server/handle.go`, `server/transit.go`, `src/lib/nodeclient` | transit list per peer | version, inv, getdata, getblocks, getblocksup, block | messages that overtake each other, lists cut short | nodes that exchange messages get the same chain, and the exchange ends |
| Daemon | `server/daemon.go` | PID file | start, start interactively, stop, state | test and write not atomic, two processes write the file | one server, named by the file |
| Known nodes | `src/lib/net/nodesnetwork.go`, `nodemanager/nodeslist.go` | list in memory, copies of it, its stored copy | version, addr, addnode, removenode | stale copies, one database object for all goroutines | the stored list survives and follows the list |
| Creation | `nodemanager/blockchain_create.go` | none | CreateBlockchain, InitBlockchainFromOther | an import that stops half way | - |
| New transactions | `transactions/manager.go`, `unspent.go`, `pending.go` | none | PrepareNewTransaction, GetPreparedBy, balances | approved and pending outputs together | an output is offered once |
| Structures, Merkle tree, proof of work, wallets, command line | `structures`, `consensus/proofofwork.go`, `src/lib/utils`, `src/lib/wallet`, `nodecli.go` | files | - | - | - |

How they interact: every operation of the node opens the database, which takes
the lock, and closes it at its end. `Node.AddBlock` reads the top, lets
`NodeBlockchain.AddBlock` verify and store the block, and calls the index, the
pool and the unspent outputs one after the other according to the state the
store returned. When branches were replaced it asks `GetBranchesReplacement`
for the blocks that left and entered the main chain and calls the pool and the
unspent outputs for each. `Node.DropBlock` removes the top and then calls the
caches. The caches ask the block queries where a transaction or a spending is,
seen from a given top.

The hazards, each at its line, are in `PROJECT.json`.

## 2. Modules

| Module | Models | Builds on |
|---|---|---|
| `BlockTree` | blocks, their parents and heights, as constants with assumptions | - |
| `MainChain` | abstract: what a block store promises | `BlockTree` |
| `ChainStore` | the store, one step per bolt transaction | `BlockTree`; implements `MainChain` |
| `ChainStoreProofs` | theorems about `ChainStore` and `ChainQueries` | `ChainQueries`, `LookupProofs` |
| `Lookup` | the block queries the caches use, as pure operators | `BlockTree` |
| `LookupProofs` | lemmas about the tree and the queries | `Lookup`, TLAPS |
| `ChainQueries` | replies to synchronising nodes, and the properties of the queries in every reachable store | `ChainStore`, `Lookup` |
| `LedgerRules` | transactions, and what a branch leaves unspent: the reference the caches are compared with | `BlockTree` |
| `Ledger` | the caches, the pool, the miner and the node operations | `LedgerRules`, `Lookup`, `INSTANCE MainChain` |
| `Payments` | balances and the inputs of new payments | `Ledger` |
| `LedgerProofs` | theorems about `Ledger` and `Payments` | `Payments`, `LookupProofs` |
| `Sync` | nodes that exchange blocks | `Lookup`; each node implements `MainChain` |
| `SyncProofs` | theorems about `Sync` | `Sync`, `LookupProofs` |
| `NodeServer` | the goroutines and channels of one server | - |
| `NodeServerProofs` | theorems about `NodeServer` | `NodeServer`, TLAPS |
| `DbLock` | the lock of the database files between processes and goroutines | - |
| `DbLockProofs` | theorems about `DbLock` | `DbLock`, TLAPS |
| `NodesList` | the list of known nodes, in memory and stored | - |
| `NodesListProofs` | theorems about `NodesList` | `NodesList`, TLAPS |
| `Daemon` | the commands and processes around the PID file | - |
| `DaemonProofs` | theorems about `Daemon` | `Daemon`, TLAPS |
| `MCChainStore`, `MCLedger`, `MCSync`, `MCDbLock`, `MCNodesList`, `MCDaemon` | instances for TLC | |

The modules meet in abstractions that one of them establishes: `Ledger` and
`Sync` use a store as `MainChain` describes it, which `ChainStore` implements;
the handlers of `Sync`, `NodeServer` and `NodesList` exclude each other while
they have a database open, which is what `DbLock` is about; what `Daemon` calls
a server that serves, closes and ends is `NodeServer`.

An operator whose comment begins with "Mutant" is a plausible mistake in the
definition after it. Nothing uses it but a test: with the mistake in place,
the property that `PROJECT.json` names must fail.

**Blocks.** A hash and its block are one value. `Parent`, `Height` and `Line`
(the ancestors) are constants: every block that can ever be received is in a
fixed tree, and the runs meet every part of it in every order of arrival.

**ChainStore.** `blocks`, `topHash` and `chain` are the buckets; `pc` and the
variables after it are the locals of the running operation.
`AddBlock` stores the block; `SaveTopHash` or `KeepParallel` is the comparison
of heights; `AppendToTop` the usual case; `Walk`, `RemoveOld`, `AddNew` and
their ends are the three loops of `UpdateChainOnNewBranch`; `DropBlock`,
`DeleteBlock` and `Unlink` are the three transactions of `DeleteBlock`. An
error that the code logs and ignores sets `chainErr`, and a nil dereference
leads to `panic`. `Crash` keeps the buckets and forgets the locals.

**Ledger.** The store is `MainChain`, which `ChainStore` implements without
crashes and with one drop at most; hence `MaxDrops` is at most 1 here. The
calls a node operation makes to the caches are a queue, `todo`, and one step
makes one call; no other operation runs until the queue is empty, as the
operation holds the database lock, but the process may die. The miner works
with the database closed: between `PrepareNewBlock` and `MineBlock` anything
may happen. The unspent outputs are a function from outputs to the block that
holds them; a record of the database, all the outputs of one transaction, is a
part of that function. The first failing query of `UpdateOnBlockCancel` ends
it, as the code returns an error there that its callers ignore. `Panic` is the
missing result that `GetBranchesReplacement` dereferences.

`ReindexData` is many steps: `IndexTruncateDB`, one `IndexBlockAdded` for each
block of the main chain from the top down, `UtxoTruncateDB`, one `StoreRecord`
for each transaction with unspent outputs, in any order, and `RecordsStored`.
What the records hold is computed as the code does it:
`FindunspentTransactions` goes down from the top, through the transactions of a
block from the last, and keeps the outputs that nothing above has used;
`LookAtTx` is its innermost turn. The reference it is compared with, `Unspent`
of `LedgerRules`, is a set of outputs and knows no walk.

Left out: keys, signatures, hashes and the proof of work (a block's hash is
right and its transactions are signed), and a crash inside a call to a cache
outside a rebuilding, or between the emptying of the two buckets of the index.

**Payments.** Pure operators over the state of `Ledger`, as these operations
only read: `GetPreparedBy` of the pool, the balances, and
`PrepareNewTransaction`, which returns the set of inputs a payment may get,
since outputs of equal value and the transactions of the pool come in any
order. `CreateTransaction` then hands a signed payment to
`ReceivedNewTransaction`, an action of `Ledger`; a wallet of another process
may do so much later, and is then checked again. Amounts are small numbers.

**Sync.** A message is a TCP connection with a goroutine of its own at the
receiver, so `pending` is a bag and any message may be handled next. A handler
has the database lock from its first look at the database to its end. What a
handler of `inv` does before, to the transit list, are two steps that no lock
protects, `HandleInv` ("added") and `ShiftFirst` ("shifted"): between them
another handler may take the blocks or forget the list, and then this one ends
with an error. Each is one step, so what two unsynchronised writes may do to a
Go map is not in the model; if they end the process, that is a stop at a time
like any other. One turn of the loop of `handleInv` is one step. A stop loses
the messages and the lists of a node. Blocks are valid (`Ledger` checks them),
a block is made in one step, every node knows every other, `MaxKnownHeigh` only
shows progress and is left out, and nobody drops blocks: after a drop a request
for the dropped hash dereferences nil in `handleGetBlocks`.

**NodeServer.** One step per handler, as a handler holds the database lock from
its change of the pool until after its signal, and one per channel operation
elsewhere: the accept loop, the block maker with `TryToMakeBlock` in four steps
(prepare, close and work, complete, send), and the goroutine that waits for the
signal to stop. `BlockFails` is the two ways in which `TryToMakeBlock` ends
with an error after the work: nothing is sent then, and the transaction counts
as `failed`. The number of transactions a block needs is the constant
`MinTxs`. `held` is the state after `TryToMakeBlock` returned with the
database open.

**DbLock.** A session opens the databases of its plan in order and closes them.
`lockDB` is six steps: the mutex, the look at the age of the lock file, its
removal, the wait, the creation, and bolt's own lock, which gives up after ten
seconds. A process may die between any two, and an hour may pass over a lock
file. `raced`, `outlived` and `timedOut` record when a lock was found free by
two threads, when a session lasted more than an hour, and when bolt gave up.

**NodesList.** Four commands as they come to the server. `list` is the server's
list, `copy` that of a connection's node object, `stored` the bucket. Commands
that change the server's list store it through the one connection object of the
server, those that change a copy through a connection of their own;
`overlapped` records that one handler used the shared object while another had
it, `failed` the nodes whose change was not stored because another handler had
closed that object, and `revived` those a stale copy can bring back. Opening
the shared connection is one step, and lists are sets. `OpenAgain` is the
second look of `Database.DB()`, which opens the connection once more when
another handler has closed it.

**Daemon.** A start command checks the file, starts a process, writes the file
and polls it; the process loads the file, tells how the start went through its
waiter, and removes the file at its end. A write empties the file first. `calm`
records that commands came one after the other. That a PID is used again by
another program is not modelled.

## 3. Runs

| Run | Expect | Shows |
|---|---|---|
| `store_drop` | pass | four branches in any order of arrival and one drop: the index is the main chain, the top is highest, nothing is swallowed, an addition ends and returns the truth, `MainChain` is implemented, and every query answers what the tree says |
| `store_crash` | pass | one crash, two drops: the index stays a linked list |
| `ledger_fork` | pass | branches of four blocks over five transactions: two conflict, two are chained, one is independent, with the pool and two wallets |
| `ledger_mine` | pass | a miner beside received blocks that conflict with its pool |
| `ledger_reindex` | pass | a drop, two crashes anywhere, in the middle of a rebuilding too, and two calls of `ReindexData` |
| `sync` | pass | three nodes, one of them new, one stop: what is announced is fetched, nobody dereferences a missing block, the exchange ends with the old nodes in agreement and the others of one branch at most one block apart, every store behaves as a `MainChain` |
| `server` | pass | three transactions, a block of another node, a stop at any time, a channel of one signal |
| `lock` | pass | three threads in two processes on two databases, a crash, an hour |
| `nodes` | pass | four connections that change the list, a restart |
| `daemon` | pass | two starts and a stop or query, one kill or interrupt |
| `sync_behind` | violation | a new node stays one block behind after it started |
| `server_held` | violation | an attempt to make a block that fails leaves the blockchain locked |

**Bounds.** `Small` has four branches that leave each other at heights 0 and 1
and can each overtake all the others, so a replacement of a replacement, and
one whose merge point is not the genesis block, happen. `MaxCount = 3` is
shorter than the chains, so replies are cut. One crash is enough to leave any
torn state; two drops are what makes a hole. In `MCLedger` a run chooses kinds
of blocks and a height and meets every tree of such blocks, invalid ones
included, since `VerifyBlock` decides. Two branches of two transactions that
use the same output are the smallest case of each cache; height 4 lets a branch
that was replaced become the main one again. `ledger_reindex` has two crashes
and two rebuildings, so that the second starts from what an interrupted first
one left, and a branch on which an output is created and used in one block,
which is where the order of the walk matters. `MaxMin = 1` and `MaxTxs = 2`
stand for the limits 1000 and 10000 on the number of transactions in a block:
every block has one or two. The values of the outputs, 1 to 3, make a payment
need one output, several, or the pool. `sync` has a branch of three blocks and
a block beside its first, so that a node must change its branch; with three
nodes gossip meets replies, and with `MaxCount = 3` and `MaxFirst = 1` an
import, an announcement and a rest that is announced later all happen.
`MaxBusy` counts the running servers and how often an exchange begins before
another has ended. `server` has a channel of one signal instead of 100, so that
it is full at once, and blocks of two transactions, so that one of them waits
for another. `lock` has two goroutines of one process, one of which needs both
databases, and a second process: the smallest case in which the mutex and the
lock file matter both. `nodes` removes a node that is writing to the server,
which is when a stale copy matters. `daemon` has one command under way at once,
though servers start and end meanwhile, so a start, its child and the end of
the server before it meet. Commands that overlap are not checked: the safety
properties of `Daemon` end with `calm`, and section 5 tells what goes wrong
then. The runs check for deadlock except `sync`, `server`, `nodes`, `daemon`
and the two violations, whose finite supplies of requests end.

**Types.** `TypeOK` of each module gives the types of its variables. It is
proved for every module with variables, and `ChainStore`'s and `Ledger`'s are
checked by a run too; adding one to another run's configuration passes.

**Fairness.** `OperationEnds`: the steps of a running operation, which the code
takes in one goroutine without waiting for anything. `Quiesces`: every pending
message is handled, as every goroutine runs. `StopEnds` and `SignalAnswered`:
the goroutines of the server run, and a handler that can get the database lock
gets it. `SessionsEnd`: every thread goes on, and a mutex of Go lets no
goroutine starve (strong fairness of taking it). `CommandsEnd` and
`StopIsObeyed`: every handler, command, child and waiter goes on, and a server
handles its own connection. Starting an operation, requests, crashes, kills,
drops and the passing of hours are not fair.

## 4. Findings

Two runs expect a violation; `PROJECT.json` quotes the comment or text each one
contradicts.

- `sync_behind`: `GetNextBlocks` lists blocks upwards, `handleGetBlocksUpper`
  reverses the list, and the receiver looks at the highest block first. It
  cannot attach it, and puts it off until its previous block is there; but the
  list is empty by then. So a node ends one block behind, until another block
  is made.
- `server_held`: when `PrepareNewBlock` cancels stale transactions and too few
  are left, it returns an error, and `TryToMakeBlock` returns before it closes
  the database. The lock of the blockchain stays taken, for the goroutines of
  the server and for other processes.

## 5. Other divergences

These were met while modelling, and no run expects them. Each can be seen by
checking a property under the bounds named.

- **Store.** A process that dies after `SaveTopHash` leaves an index that is
  not the branch of the top, and nothing repairs it at the next start
  (`IndexIsMainChain` with `MaxCrashes = 1`). After a drop, a block of a side
  branch that becomes the top replaces nothing that `GetBranchesReplacement`
  finds, so the caches are not told of the blocks that entered
  (`ReplacementIsTheChange` without its `drops = 0`).
- **Caches.** Cancelling a block stops at the first input that was created in
  the same block (`break`, `unspent.go:585`) and does not return the inputs
  after it, so unspent outputs are missing from the cache afterwards; `UtxoSound`
  therefore states only that nothing spent is listed. After `dropblock` the
  outputs of the dropped block stay listed, as `UpdateOnBlockCancel` fails on
  the deleted block and its error is ignored (`UtxoSound` with `MaxDrops = 1`).
  A rebuilt index knows the main chain only, and a double spending on a side
  branch passes `VerifyBlock` (`NoDoubleSpend` with `MaxReindex = 1`, and with
  one crash or one drop).
- **Verification.** `CheckBlockIsInRange` compares heights only, so a spending
  on another branch makes `VerifyBlock` refuse a valid block, against
  `consensus/manager.go:244`.
- **Balance.** A transaction in the pool whose input is neither unspent nor in
  the pool, as after the cancellation of the transaction it spends, makes
  `GetAddressBalance` fail for its wallet (`BalanceFails`). The comment at
  `transactions/manager.go:470` wants both places looked at; the second look is
  commented out.
- **Server.** A signal that finds the channel full is dropped: the block maker
  is woken by the next one, but the transaction is not sent to other nodes
  unless it gets into a block. A block that another node's block overtakes
  leaves its transactions in the pool without a signal. When the process ends
  it kills handlers and the block maker, though `server.go:256` promises to
  complete all tasks. A handler that signals after the channel was closed
  panics, while the server stops (`PanicsOnlyWhileStopping`). After a restart
  the pool waits for the next signal.
- **Lock.** Two processes that find the lock free at once both take it, and a
  session of more than an hour loses its lock file to another, whose session
  then ends with the first one's close. When bolt gives up, the mutex stays
  locked and the lock file stays.
- **Nodes.** `SendVersionToNodes` of `addnode` uses the shared database object
  without the mutex; beside another use of it a nil dereference, a deadlock, a
  lock of the nodes that is never released, and a change that is lost because
  the database was closed under it (`failed`) are reachable (`overlapped`). A
  removed node comes back when a connection stores its older copy (`revived`).
  `server.go:324` says that a clone prevents conflicts between goroutines; the
  lists the clones share with the server are the exception.
- **Synchronisation.** A node whose top is beside the main chain of the node it
  asks, but known to it, gets its own block back and nothing else
  (`GetNextBlocks`, `blockchain/manager.go:476`), though `server/handle.go:531` says
  that nodes load missed blocks with it. It stays behind by any number of blocks
  until another block is made. `NodesAgree`
  therefore promises a distance of one block only while there is one branch
  (`OneBranch`) that an announcement can carry (`FitsOneAnnouncement`); without
  the first condition, and with the tree `<<0, 1, 2, 3, 1>>`, `MaxCount = 6` and
  `MaxBusy = 3`, the run `sync` with two nodes violates it after 35 steps.
- **Daemon.** Two starts at once run two servers, of which the file names one.
  A start right after a stop can lose its file to the old server, which removes
  it last. A child faster than the write of the file finds no authorisation
  string. A waiter after a stop writes a file with the PID -1. A look at the
  file while it is written makes `start` report success. A server that is
  stopped before it listens stays until the next connection.

## 6. Proofs

Every theorem is about every value of the constants that the named assumptions
of the modules allow: any tree of blocks, any transactions, any nodes, any
number of processes, handlers and commands. Where a statement is false in some
runs of the program, the theorem says in which it is true, and section 5 what
happens in the others.

### The store and its queries (`ChainStoreProofs`)

| Theorem | Crashes, drops | States |
|---|---|---|
| `TypeCorrect` | any, any | `TypeOK` |
| `IndexStaysLinked` | any, any | `LinkedIndex` |
| `StoredTree` | 0, at most 1 | `ParentsStored` |
| `LongestBranchOnTop` | 0, at most 1 | `TopIsHighest`: until the drop |
| `IndexCorrect` | 0, at most 1 | `IndexIsMainChain` |
| `NoErrorSwallowed` | 0, at most 1 | `NothingSwallowed` |
| `StoreImplementsMainChain` | 0, at most 1 | `ImplementsMainChain` |
| `AnswersAreTrue` | 0, at most 1 | `AddStateIsTrue`: until the drop |
| `LookupsAreAboutTheBranch` | 0, at most 1 | `LookupsFollowBranch` |
| `ReplacementIsExact` | 0, at most 1 | `ReplacementIsTheChange`: until the drop |
| `NextBlocksAreNext` | 0, at most 1 | `NextBlocksAreMainChain` |

One inductive invariant in layers. `LinkInv` adds to the types that the index
is linked and that the walk is on known blocks; it holds whatever dies.
`TreeInv` says that parents are stored and that the top is highest except while
a higher block waits for `SaveTopHash`. `IndexInv` says for each `pc` which
branch the index holds: the old top's while walking, a shrinking part of it
while removing, the merge point's growing towards the new top while adding.
`IndexIsMainChain` alone is not inductive, since it says nothing in the middle
of an operation. `MappingInv` ties the locals to the abstract top for the
refinement, where all steps of an operation but one are stutters. `AnswerInv`
does so for the state the operation is going to return. The queries then follow
from the index being one branch: `LookupProofs` shows, about the operators
alone, what the iterator returns (`DownFacts`), where two branches meet
(`MeetFacts`, `ReplacementFacts`), which block `ChooseHashUnderTip` finds and
what `CheckBlockIsInRange` sees.

### The lock (`DbLockProofs`)

| Theorem | States |
|---|---|
| `TypeCorrect` | `TypeOK` |
| `MutexAlwaysHeld` | `MutexHeld`: whoever works on a database holds the mutex of its process |
| `LockFileAlwaysProtects` | `LockFileProtects` |
| `OnlyOthersMakeWait` | `WaitsForOthersOnly` |

For any processes, goroutines, databases, plans, crashes and hours, from
`LockAssumption`. None of the properties is inductive: the invariant `IInv`
adds where a thread's database is in each step (`AtInv`), that the lock files a
thread created are those of its open databases and of the one it is about to
open or has just closed (`EnteredInv`), that bolt's lock follows the open
databases (`FlockInv`), and, for a database without a race and without an
outlived session, that at most one thread is between the wait and the creation
or about to remove an old file, and then nobody is inside (`OneAtATime`).
`FileInv` says who left a lock file that nobody holds, which is what
`WaitsForOthersOnly` needs.

### The caches, the miner and payments (`LedgerProofs`)

| Theorem | Crashes, drops, rebuilds so far | States |
|---|---|---|
| `LedgerTypes` | any | `TypeOK` |
| `PoolHasNoConflict` | any | `PoolConflictFree` |
| `ReindexAlwaysRepairs` | any | `ReindexRepairs`: with whatever was in the caches before, also by an earlier rebuilding that was cut short |
| `PreparedAlwaysValid` | any | `PreparedIsValid` |
| `NoDoubleSpendAlways` | none | `NoDoubleSpend` |
| `IndexAlwaysComplete` | none | `IndexComplete` |
| `UtxoAlwaysSound` | none | `UtxoSound` |
| `AddingNeverPanics` | none | `Node.AddBlock` never dereferences the missing branches |
| `PaymentsAreAccepted` | none | `PaymentAccepted` |
| `BalanceIsWhatCanBeSpent` | none | `BalanceIsSpendable` |

"None" is `Undisturbed`, a condition on the state and not on the constants: it
covers the past of a node to which a crash may still come. It is needed:
section 5 has the counterexample of each, and the run `ledger_reindex` has the
crashes and drops.

What holds always rests on `BaseInv`: the types, that the set `main` is the
branch of the top, and that a rebuilding is alone in the queue and, after `k` of
its calls, has done what those calls do (`RebuildInv`): the index has the first
blocks from the top down and no other, and the unspent outputs are empty or part
of what the walk finds. What the walk finds is shown apart (`FoundFacts`). Both
its loops have one shape (`IsWalk`), and `WalkFacts` gives their value after `n`
turns in closed form: turn `n` adds what it creates except what the turns before
it used. Inside a block this is `Left`, the outputs that no later transaction of
the block uses, and that is what the block creates and does not use itself
(`LeftFacts`), provided that no block uses an output before it creates it
(`CreatedFirst`). `VerifyBlock` looks for an input in the earlier transactions
of the block and on the branch below it, so a block can only fail this if its
branch holds a transaction twice, which a double spending that passed with an
incomplete index makes possible. Down the chain the walk finds, for each block,
what no block from it up to the top uses (`Unspent`).

`PreparedIsValid`
is not about one question asked twice. The pool is checked against the main
chain, without a top, and the block with its previous block as the top; the two
take different ways through the index. `GoodFromTop` shows that the second
never refuses what the first took, even with an index that a crash, a drop or a
rebuild left incomplete.

What holds while the node is undisturbed is one invariant, `Clean`. The
difficulty is the time between the change of the store and the last call to the
caches. `QueueInv` says that the calls still to make lead, one block at a time,
from the branch the unspent outputs are right for (`Standing`) to the top of
the store: each call starts where the one before it ends. `UtxoInv` is
`UtxoSound` with `Standing` for the top, `IndexInv` is `IndexComplete` but for
the block whose call is pending. `NoDoubleSpend` is part of it, since the
index answers `VerifyBlock` only for stored blocks, and `VerifyBlock` keeps
double spendings out only if the index answers for every branch
(`IndexAnswers`, `VerifiedIsValid`). That the calls for a replaced branch form
such a path is `SwitchLeads`, from `ReplacementFacts`.

`PaymentAccepted` needs that no transaction of the pool is on the main chain
already (`PoolInv`). This says, again, for which branch it is so in the middle
of an operation, and the pool is one call ahead of the outputs (`Clearing`);
that a transaction which returns from a cancelled block is not still on the
branch below it is `HeldOnce`: a branch without double spendings holds a
transaction once, because the first input of one that it held twice would be
created by one it held twice earlier.

`BalanceIsSpendable` compares amounts. The community modules define a sum by a
choice of the next element and prove nothing about it, so the section "Amounts"
shows that all ways to sum up a finite set agree (`SumsAgree`), that there is
one (`SumsExist`), and from these that the total of two disjoint sets is the
sum of their totals (`TotalUnion`). `SmallestFirst` is what the selection of
inputs rests on: outputs taken from the smallest up reach every amount that all
of them reach, and without the last one they do not. What the balance takes off
is then exactly what is unspent and used by the pool, because no output of a
transaction of the pool is among the unspent ones (`AtRest`, from `PoolInv`).

### The server (`NodeServerProofs`)

| Theorem | States |
|---|---|
| `ServerTypes` | `TypeOK` |
| `WalletsAreServed` | `NothingForgotten` |
| `PoolIsNotLeftWaiting` | `NoWakeUpLost` |
| `RunningServerNeverPanics` | `PanicsOnlyWhileStopping` |

`IInv` adds: nothing is handled before the block maker exists (`StartInv`); the
channel of signals is closed only after the signal to stop went out
(`ExitInv`); a signal belongs to a request that was handled (`SignalledInv`);
what a block brought to the main chain went to the other nodes with it
(`PlacedInv`); and while a block is made, it has every transaction that was
waiting, or something came in meanwhile (`MiningInv`), which is the step
between "signalled" and "mined".

### Synchronisation (`SyncProofs`)

| Theorem | States |
|---|---|
| `SyncTypes` | `TypeOK` |
| `NoMissingBlockIsLookedUp` | `NothingToDereference` |
| `ListsAreServed` | `TransitIsServed` |
| `EveryStoreIsAMainChain` | `StoresAreMainChains` |
| `OldNodesFollow` | nodes that were there from the start have the same blocks and the same top, once nothing goes on, no server having stopped |
| `NodesComeToAgree` | `NodesAgree` |

`IInv` says that with a block its whole branch is stored (`StoreInv`), that an
import continues what was imported before it, from the genesis block up
(`ImportInv`), and that every message is `Sound`: it names blocks its receiver
may be asked for, whatever was sent, lost or stored after it (`MessageInv`);
lists that were cut and shifted keep that (`LoopInv`, `TransitInv`). A handler
between its two unlocked steps ("added") counts as work on the list it filled,
whoever empties that list. The refinement is shown per node and action, a step
of one node being a stutter of the others.

`NodesAgree` is about states in which all messages have been handled, so its
invariant must say what the messages in flight still promise, in two parts:

- `OldInv`, while no server stopped and blocks are made one after the other:
  some block and the top before it are such that every old node has all
  that is stored, or all but this block, which is then on its way to it
  (`OnItsWay`): in a handler, in a list, or in a message that carries it or asks
  for it. That an import can only bring the stored blocks is `ImportStored`.
- `NearInv`, while there is one branch that an announcement can carry: some
  server has a highest top, and every other one is at most one block below it
  (`Near`) or an exchange with it goes on (`Coming`). An exchange is one message,
  held once in the bag (`Sole`), or the loop of one handler, and what it carries
  climbs block by block from one the receiver can store up to the top
  (`Climbs`, `Leads`). Since this depends on a message being there exactly
  once, the proof counts messages. The server with the highest top is chosen
  anew when a block is made and when a server starts or stops; while messages
  are handled it stays the same.

### Known nodes (`NodesListProofs`)

| Theorem | States |
|---|---|
| `NodesListTypes` | `TypeOK` |
| `RemovedStaysAway` | `StoredForAReason` |
| `OnlyOverlapLoses` | `OnlyOverlapFails` |
| `KnownIsStored` | `KnownSurvives` |

`IInv` follows a change from the list through the connection to the bucket
(`LockInv`, `ListInv`, `KnownInv`, `StoredInv`, `CopiedInv`), and says that, as
long as nothing overlapped, one handler at most uses the shared connection and
has opened it (`ConnInv`). The first attempt failed for a good reason: a
handler whose connection another one closed drops its change without an error
that anybody reads. The model had lost that case; `failed` is it.

### The daemon (`DaemonProofs`)

| Theorem | States |
|---|---|
| `DaemonTypes` | `TypeOK` |
| `OneServerAtATime` | `OneServer` |
| `FileIsTheServers` | `FileNamesServer` |
| `AnswersAreTrue` | `TrueReport` |

For any number of commands, kills and interrupts, as long as no command starts
before the one before it has ended (`calm`). `Calm` says who may be alive and
at work (`OneActive`, `OneAlive`), what each command knows of the server in its
step (`NobodyServes`, `OwnServer`, `KilledInv`, `SettledServer`), where the
server and its waiter are (`ServerInv`), and what the file says meanwhile
(`NamedInv`, `SettledInv`, `EndingInv`, `ReadInv`, `OpenInv`, `PollInv`,
`LeftInv`, `AnswerInv`). One lemma per action shows that it is kept.

### How the proofs are laid out

Each module has the invariant first, as named conjuncts, then lemmas about the
operators, then one lemma per action or per conjunct, then the theorems. What a
recursively defined function returns is shown without an induction theorem,
which the prover cannot instantiate: the set of the arguments for which the
claim fails has a least element, or a greatest below a bound, if it has any
(`LeastElement` and `GreatestElement` of `LookupProofs`, from the
well-foundedness of inclusion between finite sets), and that element is refuted.
So are the existence of such functions (`VerifiedExists`, `KeepingExists`) and
`HeldOnce` shown.

### What is only model-checked

Liveness, which the prover does not reach: `OperationEnds`, `Quiesces`,
`StopEnds`, `SignalAnswered`, `SessionsEnd`, `CommandsEnd`, `StopIsObeyed`.
Every other property that a passing run checks is a theorem. `NodesComeToAgree`
in particular says what holds when messages have been handled; that they come
to be is `Quiesces`.

## 7. Plan and what is not modelled

Done: the modules above, and proofs about each of them.

Next: crashes inside the other calls to the caches, in `Ledger`, and the
commands of `Daemon` that overlap.

Not modelled:

- Cryptography, hashes, encodings, the proof of work and the Merkle tree: pure
  functions whose results other parts take to be right. Blocks of a faulty peer
  (two uses of one output inside one block, a height that is not the previous
  one plus one, which `VerifyBlock` does not refuse) are excluded by assumptions
  of `LedgerRules` and `BlockTree`.
- The wallet's key file and the command line, which keep no shared state. The
  commands `addnode` and `removenode` without a running server change the
  stored list directly.
- The creation of a blockchain, which is the initial state of the modules.
- Rounding of float amounts.
