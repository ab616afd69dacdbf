-------------------------------- MODULE DbLock --------------------------------
(***************************************************************************)
(* The lock of the two database files.  A node's processes (the server and *)
(* the commands an operator runs beside it) open a database for a session: *)
(* lockDB takes a mutex of the process, waits until no lock file exists,   *)
(* creates one and opens the bolt file, which bolt locks itself; the close *)
(* undoes it in reverse.  A lock file older than an hour counts as left    *)
(* behind.  A session takes its databases when it first needs them, the    *)
(* blockchain before the nodes, and keeps them to its end.                 *)
(***************************************************************************)
EXTENDS Naturals, FiniteSets, Sequences

CONSTANTS
    Thread,     \* the goroutines that open sessions
    Process,    \* the processes of one data directory
    Db,         \* the database files: blockchain and nodes
    None,
    ProcessOf,  \* thread -> its process
    Plan,       \* thread -> the databases of its session, in order
    MaxCrashes, \* bound: how often a process dies
    MaxHours    \* bound: how often an hour passes over a lock file

ASSUME LockAssumption ==
    /\ None \notin Thread
    /\ ProcessOf \in [Thread -> Process]
    /\ Plan \in [Thread -> Seq(Db)]
    /\ MaxCrashes \in Nat
    /\ MaxHours \in Nat

VARIABLES
    pc,       \* where a thread stands in lockDB, its session or the close
    at,       \* the database it is about, while it locks or unlocks one
    opened,   \* the databases it has opened
    mutex,    \* process, database -> the thread that holds the mutex
    file,     \* the databases with a lock file
    old,      \* those of them whose file is older than an hour
    flock,    \* database -> the thread that has the bolt file open
    crashes, hours,
    \* History, for the properties.
    entered,  \* the locks a thread created a file for and did not remove yet
    raced,    \* databases whose lock two threads found free at once
    outlived, \* databases with a session that lasted over an hour
    timedOut  \* bolt.Open gave up waiting

disk == <<file, old, flock>>
bounds == <<crashes, hours>>
history == <<entered, raced, outlived, timedOut>>
vars == <<pc, at, opened, mutex, disk, bounds, history>>

Places == {"idle", "mutex", "look", "remove", "wait", "create", "open",
           "using", "closing", "unlink", "unlock"}

TypeOK ==
    /\ pc \in [Thread -> Places]
    /\ at \in [Thread -> Db \cup {None}]
    /\ opened \in [Thread -> SUBSET Db]
    /\ mutex \in [Process -> [Db -> Thread \cup {None}]]
    /\ file \subseteq Db /\ old \subseteq file
    /\ flock \in [Db -> Thread \cup {None}]
    /\ crashes \in 0 .. MaxCrashes /\ hours \in 0 .. MaxHours
    /\ entered \in [Thread -> SUBSET Db]
    /\ raced \subseteq Db /\ outlived \subseteq Db /\ timedOut \in BOOLEAN

Init ==
    /\ pc = [t \in Thread |-> "idle"] /\ at = [t \in Thread |-> None]
    /\ opened = [t \in Thread |-> {}]
    /\ mutex = [p \in Process |-> [d \in Db |-> None]]
    /\ file = {} /\ old = {} /\ flock = [d \in Db |-> None]
    /\ crashes = 0 /\ hours = 0
    /\ entered = [t \in Thread |-> {}]
    /\ raced = {} /\ outlived = {} /\ timedOut = FALSE

Goto(t, place) == pc' = [pc EXCEPT ![t] = place]
Move(t, here, there) == pc[t] = here /\ Goto(t, there)
MutexOf(t) == mutex[ProcessOf[t]][at[t]]
SetMutex(t, owner) == mutex' = [mutex EXCEPT ![ProcessOf[t]][at[t]] = owner]

(***************************************************************************)
(* lockDB                                                                  *)
(***************************************************************************)

\* getConnectionForObjectWithCheck: the session needs the next database of its
\* plan, which it has not opened yet.
NeedDb(t) ==
    /\ pc[t] \in {"idle", "using"}
    /\ Goto(t, "mutex")
    /\ \E i \in DOMAIN Plan[t] :
          /\ Plan[t][i] \notin opened[t]
          /\ \A j \in 1 .. i - 1 : Plan[t][j] \in opened[t]
          /\ at' = [at EXCEPT ![t] = Plan[t][i]]
    /\ UNCHANGED <<opened, mutex, disk, bounds, history>>

LockMutex(t) ==
    /\ Move(t, "mutex", "look")
    /\ MutexOf(t) = None
    /\ SetMutex(t, t)
    /\ UNCHANGED <<at, opened, disk, bounds, history>>

\* Mutant: the age of the lock file does not matter.
LookAtPresence(t) ==
    /\ Move(t, "look", IF at[t] \in file THEN "remove" ELSE "wait")
    /\ raced' = raced
    /\ UNCHANGED <<at, opened, mutex, disk, bounds, entered, outlived,
                   timedOut>>

\* The age of the lock file is looked at once.
LookAtAge(t) ==
    /\ Move(t, "look", IF at[t] \in old THEN "remove" ELSE "wait")
    /\ raced' = IF \E u \in Thread : pc[u] = "remove" /\ at[u] = at[t]
                THEN raced \cup {at[t]} ELSE raced
    /\ UNCHANGED <<at, opened, mutex, disk, bounds, entered, outlived,
                   timedOut>>

RemoveOld(t) ==
    /\ Move(t, "remove", "wait")
    /\ file' = file \ {at[t]} /\ old' = old \ {at[t]}
    /\ UNCHANGED <<at, opened, mutex, flock, bounds, history>>

SeeNoFile(t) ==
    /\ Move(t, "wait", "create")
    /\ at[t] \notin file
    /\ raced' = IF \E u \in Thread : pc[u] = "create" /\ at[u] = at[t]
                THEN raced \cup {at[t]} ELSE raced
    /\ UNCHANGED <<at, opened, mutex, disk, bounds, entered, outlived,
                   timedOut>>

\* Mutant: the mutex is kept when the lock is given up.
GiveUpLocked(t) ==
    /\ Move(t, "wait", "closing")
    /\ at[t] \in file
    /\ at' = [at EXCEPT ![t] = None]
    /\ UNCHANGED <<opened, mutex, disk, bounds, history>>

\* After ten thousand looks; the operation ends with the error.
GiveUp(t) ==
    /\ Move(t, "wait", "closing")
    /\ at[t] \in file
    /\ SetMutex(t, None)
    /\ at' = [at EXCEPT ![t] = None]
    /\ UNCHANGED <<opened, disk, bounds, history>>

CreateLock(t) ==
    /\ Move(t, "create", "open")
    /\ file' = file \cup {at[t]} /\ old' = old \ {at[t]}
    /\ entered' = [entered EXCEPT ![t] = @ \cup {at[t]}]
    /\ UNCHANGED <<at, opened, mutex, flock, bounds, raced, outlived, timedOut>>

OpenBolt(t) ==
    /\ Move(t, "open", "using")
    /\ flock[at[t]] = None
    /\ flock' = [flock EXCEPT ![at[t]] = t]
    /\ opened' = [opened EXCEPT ![t] = @ \cup {at[t]}]
    /\ at' = [at EXCEPT ![t] = None]
    /\ UNCHANGED <<mutex, file, old, bounds, history>>

\* bolt waits ten seconds.  The error is returned with the mutex locked and
\* the lock file in place.
OpenTimesOut(t) ==
    /\ Move(t, "open", "closing")
    /\ flock[at[t]] # None
    /\ timedOut' = TRUE
    /\ entered' = [entered EXCEPT ![t] = @ \ {at[t]}]
    /\ at' = [at EXCEPT ![t] = None]
    /\ UNCHANGED <<opened, mutex, disk, bounds, raced, outlived>>

(***************************************************************************)
(* CloseConnection                                                         *)
(***************************************************************************)

CloseConnection(t) ==
    /\ Move(t, "using", "closing")
    /\ UNCHANGED <<at, opened, mutex, disk, bounds, history>>

\* Mutant: the mutex is released before the lock file is removed.
CloseBoltAndUnlock(t) ==
    /\ Move(t, "closing", "unlink")
    /\ \E d \in opened[t] :
          /\ at' = [at EXCEPT ![t] = d]
          /\ opened' = [opened EXCEPT ![t] = @ \ {d}]
          /\ flock' = [flock EXCEPT ![d] = None]
          /\ mutex' = [mutex EXCEPT ![ProcessOf[t]][d] = None]
    /\ UNCHANGED <<file, old, bounds, history>>

CloseBolt(t) ==
    /\ Move(t, "closing", "unlink")
    /\ \E i \in DOMAIN Plan[t] :
          /\ Plan[t][i] \in opened[t]
          /\ \A j \in 1 .. i - 1 : Plan[t][j] \notin opened[t]
          /\ at' = [at EXCEPT ![t] = Plan[t][i]]
          /\ opened' = [opened EXCEPT ![t] = @ \ {Plan[t][i]}]
          /\ flock' = [flock EXCEPT ![Plan[t][i]] = None]
    /\ UNCHANGED <<mutex, file, old, bounds, history>>

\* The lock file is removed, whoever created it.
RemoveLock(t) ==
    /\ Move(t, "unlink", "unlock")
    /\ file' = file \ {at[t]} /\ old' = old \ {at[t]}
    /\ entered' = [entered EXCEPT ![t] = @ \ {at[t]}]
    /\ UNCHANGED <<at, opened, mutex, flock, bounds, raced, outlived, timedOut>>

Unlock(t) ==
    /\ Move(t, "unlock", "closing")
    /\ SetMutex(t, None)
    /\ at' = [at EXCEPT ![t] = None]
    /\ UNCHANGED <<opened, disk, bounds, history>>

EndSession(t) ==
    /\ Move(t, "closing", "idle")
    /\ opened[t] = {}
    /\ UNCHANGED <<at, opened, mutex, disk, bounds, history>>

(***************************************************************************)
(* The environment                                                         *)
(***************************************************************************)

\* A process dies and is started again.  Its mutexes and bolt's locks are
\* gone, its lock files stay.
Crash(p) ==
    LET Mine == {t \in Thread : ProcessOf[t] = p}
    IN  /\ crashes < MaxCrashes
        /\ crashes' = crashes + 1
        /\ pc' = [t \in Thread |-> IF t \in Mine THEN "idle" ELSE pc[t]]
        /\ at' = [t \in Thread |-> IF t \in Mine THEN None ELSE at[t]]
        /\ opened' = [t \in Thread |-> IF t \in Mine THEN {} ELSE opened[t]]
        /\ entered' = [t \in Thread |-> IF t \in Mine THEN {} ELSE entered[t]]
        /\ mutex' = [mutex EXCEPT ![p] = [d \in Db |-> None]]
        /\ flock' = [d \in Db |-> IF flock[d] \in Mine THEN None ELSE flock[d]]
        /\ UNCHANGED <<file, old, hours, raced, outlived, timedOut>>

AnHourPasses(d) ==
    /\ hours < MaxHours /\ d \in file \ old
    /\ hours' = hours + 1
    /\ old' = old \cup {d}
    /\ outlived' = IF \E t \in Thread : d \in entered[t]
                   THEN outlived \cup {d} ELSE outlived
    /\ UNCHANGED <<pc, at, opened, mutex, file, flock, crashes, entered, raced,
                   timedOut>>

Locking(t) ==
    \/ LockMutex(t) \/ LookAtAge(t) \/ RemoveOld(t)
    \/ SeeNoFile(t) \/ GiveUp(t) \/ CreateLock(t)
    \/ OpenBolt(t) \/ OpenTimesOut(t)

Closing(t) ==
    \/ CloseConnection(t) \/ CloseBolt(t) \/ RemoveLock(t) \/ Unlock(t)
    \/ EndSession(t)

Next ==
    \/ \E t \in Thread : NeedDb(t) \/ Locking(t) \/ Closing(t)
    \/ \E p \in Process : Crash(p)
    \/ \E d \in Db : AnHourPasses(d)

Spec == Init /\ [][Next]_vars

\* A session ends (the one exception is NodeServer's held), a wait ends with
\* the lock or with an error, and a mutex of Go lets no goroutine starve.
FairSpec ==
    /\ Spec
    /\ \A t \in Thread :
          /\ SF_vars(LockMutex(t))
          /\ WF_vars((Locking(t) /\ ~LockMutex(t)) \/ Closing(t))

(***************************************************************************)
(* Properties                                                              *)
(***************************************************************************)

Entered(d) == {t \in Thread : d \in entered[t]}

\* lockDB controls parallel access, crashes included: two sessions on one
\* database, a session whose lock file is gone and a bolt file that cannot be
\* opened all take either two threads that found the lock free at once or a
\* session of more than an hour.
LockFileProtects ==
    /\ \A d \in Db \ (raced \cup outlived) :
          /\ \A t, u \in Entered(d) : t = u
          /\ Entered(d) # {} => d \in file
    /\ timedOut => raced \cup outlived # {}

\* Inside one process the mutex alone orders the sessions: whoever works on a
\* database, from the first look at its lock file to the removal of the file,
\* holds the mutex of its process.
MutexHeld ==
    \A t \in Thread :
        /\ pc[t] \notin {"idle", "mutex", "using", "closing"} => MutexOf(t) = t
        /\ \A d \in opened[t] : mutex[ProcessOf[t]][d] = t

\* A lock file makes a thread wait only for another process, alive or dead:
\* sessions of its own process never leave it one.
WaitsForOthersOnly ==
    \A t \in Thread :
        (pc[t] = "wait" /\ at[t] \in file) =>
            \/ \E u \in Entered(at[t]) : ProcessOf[u] # ProcessOf[t]
            \/ crashes > 0 \/ timedOut

\* Every session ends, with its databases or with an error, unless bolt gave
\* up and left a mutex locked.
SessionsEnd ==
    \A t \in Thread : (pc[t] # "idle") ~> (pc[t] = "idle" \/ timedOut)

===============================================================================
