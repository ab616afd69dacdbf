----------------------------- MODULE DbLockProofs -----------------------------
(***************************************************************************)
(* Proofs about DbLock, for any number of processes, goroutines, databases *)
(* and crashes: the three safety properties follow from one inductive      *)
(* invariant.                                                              *)
(***************************************************************************)
EXTENDS DbLock, TLAPS

(***************************************************************************)
(* The inductive invariant                                                 *)
(***************************************************************************)

\* A thread that locks or unlocks a database has it closed.
AtInv ==
    \A t \in Thread :
        pc[t] \notin {"idle", "using", "closing"} => at[t] \in Db \ opened[t]

\* Those that created a lock file and did not remove it are those that have
\* the database open, are about to open it, or closed it just now.
EnteredInv ==
    \A t \in Thread :
        /\ \A d \in entered[t] : \/ d \in opened[t]
                                 \/ at[t] = d /\ pc[t] \in {"open", "unlink"}
        /\ opened[t] \subseteq entered[t]
        /\ pc[t] \in {"open", "unlink"} => at[t] \in entered[t]

FlockInv == \A d \in Db : flock[d] # None => d \in opened[flock[d]]

At(place, d) == {t \in Thread : pc[t] = place /\ at[t] = d}

\* While no two threads found the lock free at once and no session outlasted
\* its lock file, at most one thread is past the wait for a database, and at
\* most one is about to remove an old lock file, which nobody uses.
OneAtATime(d) ==
    /\ \A t, u \in At("create", d) : t = u
    /\ At("create", d) # {} => Entered(d) = {} /\ d \notin file
    /\ \A t, u \in At("remove", d) : t = u
    /\ At("remove", d) # {} => d \in old
    /\ \A t, u \in Entered(d) : t = u
    /\ Entered(d) # {} => d \in file \ old

RaceInv == \A d \in Db \ (raced \cup outlived) : OneAtATime(d)

\* A lock file that is found without anybody inside was left by a process
\* that died or by a session that bolt refused.
FileInv ==
    crashes = 0 /\ ~timedOut => \A d \in file : Entered(d) # {}

TimedInv == timedOut => raced \cup outlived # {}

IInv ==
    /\ TypeOK
    /\ AtInv
    /\ MutexHeld
    /\ EnteredInv
    /\ FlockInv
    /\ RaceInv
    /\ FileInv
    /\ TimedInv

(***************************************************************************)
(* Every step keeps it                                                     *)
(***************************************************************************)

\* What Move, SetMutex and the tuples of variables stand for is used all over.
USE DEF Goto, Move, MutexOf, SetMutex, disk, bounds, history

\* A plan names databases.
LEMMA PlanNamesDbs ==
    ASSUME NEW t \in Thread, NEW i \in DOMAIN Plan[t]
    PROVE  Plan[t][i] \in Db
  BY LockAssumption

\* Every action keeps the types; NeedDb takes a name from the plan.
LEMMA TypeStep ==
    ASSUME IInv, [Next]_vars
    PROVE  TypeOK'
  <1> USE LockAssumption DEF IInv, TypeOK, Places, AtInv
  <1>1. ASSUME NEW t \in Thread, NeedDb(t) PROVE TypeOK'
    BY <1>1, PlanNamesDbs DEF NeedDb
  <1>2. ASSUME NEW t \in Thread, LockMutex(t) PROVE TypeOK'
    BY <1>2 DEF LockMutex
  <1>3. ASSUME NEW t \in Thread, LookAtAge(t) PROVE TypeOK'
    BY <1>3 DEF LookAtAge
  <1>4. ASSUME NEW t \in Thread, RemoveOld(t) PROVE TypeOK'
    BY <1>4 DEF RemoveOld
  <1>5. ASSUME NEW t \in Thread, SeeNoFile(t) PROVE TypeOK'
    BY <1>5 DEF SeeNoFile
  <1>6. ASSUME NEW t \in Thread, GiveUp(t) PROVE TypeOK'
    BY <1>6 DEF GiveUp
  <1>7. ASSUME NEW t \in Thread, CreateLock(t) PROVE TypeOK'
    BY <1>7 DEF CreateLock
  <1>8. ASSUME NEW t \in Thread, OpenBolt(t) PROVE TypeOK'
    BY <1>8 DEF OpenBolt
  <1>9. ASSUME NEW t \in Thread, OpenTimesOut(t) PROVE TypeOK'
    BY <1>9 DEF OpenTimesOut
  <1>10. ASSUME NEW t \in Thread, CloseConnection(t) PROVE TypeOK'
    BY <1>10 DEF CloseConnection
  <1>11. ASSUME NEW t \in Thread, CloseBolt(t) PROVE TypeOK'
    BY <1>11 DEF CloseBolt
  <1>12. ASSUME NEW t \in Thread, RemoveLock(t) PROVE TypeOK'
    BY <1>12 DEF RemoveLock
  <1>13. ASSUME NEW t \in Thread, Unlock(t) PROVE TypeOK'
    BY <1>13 DEF Unlock
  <1>14. ASSUME NEW t \in Thread, EndSession(t) PROVE TypeOK'
    BY <1>14 DEF EndSession
  <1>15. ASSUME NEW p \in Process, Crash(p) PROVE TypeOK'
    BY <1>15 DEF Crash
  <1>16. ASSUME NEW d \in Db, AnHourPasses(d) PROVE TypeOK'
    BY <1>16 DEF AnHourPasses
  <1>17. CASE UNCHANGED vars
    BY <1>17 DEF vars
  <1> QED
    BY <1>1, <1>2, <1>3, <1>4, <1>5, <1>6, <1>7, <1>8, <1>9, <1>10, <1>11,
       <1>12, <1>13, <1>14, <1>15, <1>16, <1>17
    DEF Next, Locking, Closing

\* A database is chosen when it is closed, and opened when at moves on.
LEMMA AtStep ==
    ASSUME IInv, [Next]_vars
    PROVE  AtInv'
  <1> USE LockAssumption DEF IInv, TypeOK, Places, AtInv
  <1>1. ASSUME NEW t \in Thread, NeedDb(t) PROVE AtInv'
    BY <1>1, PlanNamesDbs DEF NeedDb
  <1>2. ASSUME NEW t \in Thread, LockMutex(t) PROVE AtInv'
    BY <1>2 DEF LockMutex
  <1>3. ASSUME NEW t \in Thread, LookAtAge(t) PROVE AtInv'
    BY <1>3 DEF LookAtAge
  <1>4. ASSUME NEW t \in Thread, RemoveOld(t) PROVE AtInv'
    BY <1>4 DEF RemoveOld
  <1>5. ASSUME NEW t \in Thread, SeeNoFile(t) PROVE AtInv'
    BY <1>5 DEF SeeNoFile
  <1>6. ASSUME NEW t \in Thread, GiveUp(t) PROVE AtInv'
    BY <1>6 DEF GiveUp
  <1>7. ASSUME NEW t \in Thread, CreateLock(t) PROVE AtInv'
    BY <1>7 DEF CreateLock
  <1>8. ASSUME NEW t \in Thread, OpenBolt(t) PROVE AtInv'
    BY <1>8 DEF OpenBolt
  <1>9. ASSUME NEW t \in Thread, OpenTimesOut(t) PROVE AtInv'
    BY <1>9 DEF OpenTimesOut
  <1>10. ASSUME NEW t \in Thread, CloseConnection(t) PROVE AtInv'
    BY <1>10 DEF CloseConnection
  <1>11. ASSUME NEW t \in Thread, CloseBolt(t) PROVE AtInv'
    BY <1>11 DEF CloseBolt
  <1>12. ASSUME NEW t \in Thread, RemoveLock(t) PROVE AtInv'
    BY <1>12 DEF RemoveLock
  <1>13. ASSUME NEW t \in Thread, Unlock(t) PROVE AtInv'
    BY <1>13 DEF Unlock
  <1>14. ASSUME NEW t \in Thread, EndSession(t) PROVE AtInv'
    BY <1>14 DEF EndSession
  <1>15. ASSUME NEW p \in Process, Crash(p) PROVE AtInv'
    BY <1>15 DEF Crash
  <1>16. ASSUME NEW d \in Db, AnHourPasses(d) PROVE AtInv'
    BY <1>16 DEF AnHourPasses
  <1>17. CASE UNCHANGED vars
    BY <1>17 DEF vars
  <1> QED
    BY <1>1, <1>2, <1>3, <1>4, <1>5, <1>6, <1>7, <1>8, <1>9, <1>10, <1>11,
       <1>12, <1>13, <1>14, <1>15, <1>16, <1>17
    DEF Next, Locking, Closing

\* A mutex that is taken was free, and one that is released belonged to the
\* releasing thread.
LEMMA MutexStep ==
    ASSUME IInv, [Next]_vars
    PROVE  MutexHeld'
  <1> USE LockAssumption DEF IInv, TypeOK, Places, AtInv, MutexHeld
  <1>1. ASSUME NEW t \in Thread, NeedDb(t) PROVE MutexHeld'
    BY <1>1, PlanNamesDbs DEF NeedDb
  <1>2. ASSUME NEW t \in Thread, LockMutex(t) PROVE MutexHeld'
    <2>1. \A u \in Thread : mutex'[ProcessOf[u]] =
              IF ProcessOf[u] = ProcessOf[t]
              THEN [mutex[ProcessOf[u]] EXCEPT ![at[t]] = t]
              ELSE mutex[ProcessOf[u]]
      BY <1>2 DEF LockMutex
    <2>2. ASSUME NEW u \in Thread, u # t
          PROVE  /\ at[u] = at'[u] /\ opened[u] = opened'[u] /\ pc[u] = pc'[u]
                 /\ \A d \in Db : mutex[ProcessOf[u]][d] = u =>
                                      mutex'[ProcessOf[u]][d] = u
      BY <1>2, <2>1, <2>2 DEF LockMutex
    <2>3. MutexOf(t)' = t /\ opened[t] = opened'[t] /\ at[t] = at'[t]
      BY <1>2 DEF LockMutex
    <2>4. \A d \in opened[t] : mutex'[ProcessOf[t]][d] = t
      BY <1>2, <2>1 DEF LockMutex
    <2> HIDE DEF IInv, TypeOK
    <2>5. ASSUME NEW u \in Thread
          PROVE  /\ pc'[u] \notin {"idle", "mutex", "using", "closing"} =>
                        mutex'[ProcessOf[u]][at'[u]] = u
                 /\ \A d \in opened'[u] : mutex'[ProcessOf[u]][d] = u
      <3>1. CASE u = t
        BY <3>1, <2>3, <2>4
      <3>2. CASE u # t
        <4>1. opened[u] \subseteq Db
          BY DEF IInv, TypeOK
        <4> QED BY <3>2, <4>1, <2>2 DEF IInv
      <3> QED BY <3>1, <3>2
    <2> QED BY <2>5
  <1>3. ASSUME NEW t \in Thread, LookAtAge(t) PROVE MutexHeld'
    BY <1>3 DEF LookAtAge
  <1>4. ASSUME NEW t \in Thread, RemoveOld(t) PROVE MutexHeld'
    BY <1>4 DEF RemoveOld
  <1>5. ASSUME NEW t \in Thread, SeeNoFile(t) PROVE MutexHeld'
    BY <1>5 DEF SeeNoFile
  <1>6. ASSUME NEW t \in Thread, GiveUp(t) PROVE MutexHeld'
    BY <1>6 DEF GiveUp
  <1>7. ASSUME NEW t \in Thread, CreateLock(t) PROVE MutexHeld'
    BY <1>7 DEF CreateLock
  <1>8. ASSUME NEW t \in Thread, OpenBolt(t) PROVE MutexHeld'
    BY <1>8 DEF OpenBolt
  <1>9. ASSUME NEW t \in Thread, OpenTimesOut(t) PROVE MutexHeld'
    BY <1>9 DEF OpenTimesOut
  <1>10. ASSUME NEW t \in Thread, CloseConnection(t) PROVE MutexHeld'
    BY <1>10 DEF CloseConnection
  <1>11. ASSUME NEW t \in Thread, CloseBolt(t) PROVE MutexHeld'
    BY <1>11 DEF CloseBolt
  <1>12. ASSUME NEW t \in Thread, RemoveLock(t) PROVE MutexHeld'
    BY <1>12 DEF RemoveLock
  <1>13. ASSUME NEW t \in Thread, Unlock(t) PROVE MutexHeld'
    BY <1>13 DEF Unlock
  <1>14. ASSUME NEW t \in Thread, EndSession(t) PROVE MutexHeld'
    BY <1>14 DEF EndSession
  <1>15. ASSUME NEW p \in Process, Crash(p) PROVE MutexHeld'
    <2>1. ASSUME NEW u \in Thread, ProcessOf[u] # p
          PROVE  /\ at[u] = at'[u] /\ opened[u] = opened'[u] /\ pc[u] = pc'[u]
                 /\ mutex[ProcessOf[u]] = mutex'[ProcessOf[u]]
      BY <1>15, <2>1 DEF Crash
    <2>2. ASSUME NEW u \in Thread, ProcessOf[u] = p
          PROVE  pc'[u] = "idle" /\ opened'[u] = {}
      BY <1>15, <2>2 DEF Crash
    <2> QED BY <2>1, <2>2
  <1>16. ASSUME NEW d \in Db, AnHourPasses(d) PROVE MutexHeld'
    BY <1>16 DEF AnHourPasses
  <1>17. CASE UNCHANGED vars
    BY <1>17 DEF vars
  <1> QED
    BY <1>1, <1>2, <1>3, <1>4, <1>5, <1>6, <1>7, <1>8, <1>9, <1>10, <1>11,
       <1>12, <1>13, <1>14, <1>15, <1>16, <1>17
    DEF Next, Locking, Closing

\* The lock file is created before the bolt file is opened, and removed after
\* it is closed.
LEMMA EnteredStep ==
    ASSUME IInv, [Next]_vars
    PROVE  EnteredInv'
  <1> USE LockAssumption DEF IInv, TypeOK, Places, AtInv, EnteredInv
  <1>1. ASSUME NEW t \in Thread, NeedDb(t) PROVE EnteredInv'
    BY <1>1, PlanNamesDbs DEF NeedDb
  <1>2. ASSUME NEW t \in Thread, LockMutex(t) PROVE EnteredInv'
    BY <1>2 DEF LockMutex
  <1>3. ASSUME NEW t \in Thread, LookAtAge(t) PROVE EnteredInv'
    BY <1>3 DEF LookAtAge
  <1>4. ASSUME NEW t \in Thread, RemoveOld(t) PROVE EnteredInv'
    BY <1>4 DEF RemoveOld
  <1>5. ASSUME NEW t \in Thread, SeeNoFile(t) PROVE EnteredInv'
    BY <1>5 DEF SeeNoFile
  <1>6. ASSUME NEW t \in Thread, GiveUp(t) PROVE EnteredInv'
    BY <1>6 DEF GiveUp
  <1>7. ASSUME NEW t \in Thread, CreateLock(t) PROVE EnteredInv'
    BY <1>7 DEF CreateLock
  <1>8. ASSUME NEW t \in Thread, OpenBolt(t) PROVE EnteredInv'
    BY <1>8 DEF OpenBolt
  <1>9. ASSUME NEW t \in Thread, OpenTimesOut(t) PROVE EnteredInv'
    <2>1. /\ entered'[t] = entered[t] \ {at[t]}
          /\ opened'[t] = opened[t]
          /\ at[t] \notin opened[t]
          /\ pc'[t] = "closing"
      BY <1>9 DEF OpenTimesOut
    <2>2. ASSUME NEW u \in Thread, u # t
          PROVE  /\ entered'[u] = entered[u] /\ opened'[u] = opened[u]
                 /\ at'[u] = at[u] /\ pc'[u] = pc[u]
      BY <1>9, <2>2 DEF OpenTimesOut
    <2>3. \A d \in entered'[t] : d \in opened'[t]
      BY <2>1
    <2>4. opened'[t] \subseteq entered'[t]
      BY <2>1
    <2> HIDE DEF IInv, TypeOK
    <2>5. ASSUME NEW u \in Thread
          PROVE  /\ \A d \in entered'[u] :
                       \/ d \in opened'[u]
                       \/ at'[u] = d /\ pc'[u] \in {"open", "unlink"}
                 /\ opened'[u] \subseteq entered'[u]
                 /\ pc'[u] \in {"open", "unlink"} => at'[u] \in entered'[u]
      <3>1. CASE u = t
        BY <3>1, <2>1, <2>3, <2>4
      <3>2. CASE u # t
        BY <3>2, <2>2 DEF IInv
      <3> QED BY <3>1, <3>2
    <2> QED BY <2>5
  <1>10. ASSUME NEW t \in Thread, CloseConnection(t) PROVE EnteredInv'
    BY <1>10 DEF CloseConnection
  <1>11. ASSUME NEW t \in Thread, CloseBolt(t) PROVE EnteredInv'
    BY <1>11 DEF CloseBolt
  <1>12. ASSUME NEW t \in Thread, RemoveLock(t) PROVE EnteredInv'
    <2>1. /\ entered'[t] = entered[t] \ {at[t]}
          /\ opened'[t] = opened[t]
          /\ at[t] \notin opened[t]
          /\ pc'[t] = "unlock"
      BY <1>12 DEF RemoveLock
    <2>2. ASSUME NEW u \in Thread, u # t
          PROVE  /\ entered'[u] = entered[u] /\ opened'[u] = opened[u]
                 /\ at'[u] = at[u] /\ pc'[u] = pc[u]
      BY <1>12, <2>2 DEF RemoveLock
    <2>3. \A d \in entered'[t] : d \in opened'[t]
      BY <2>1
    <2>4. opened'[t] \subseteq entered'[t]
      BY <2>1
    <2> HIDE DEF IInv, TypeOK
    <2>5. ASSUME NEW u \in Thread
          PROVE  /\ \A d \in entered'[u] :
                       \/ d \in opened'[u]
                       \/ at'[u] = d /\ pc'[u] \in {"open", "unlink"}
                 /\ opened'[u] \subseteq entered'[u]
                 /\ pc'[u] \in {"open", "unlink"} => at'[u] \in entered'[u]
      <3>1. CASE u = t
        BY <3>1, <2>1, <2>3, <2>4
      <3>2. CASE u # t
        BY <3>2, <2>2 DEF IInv
      <3> QED BY <3>1, <3>2
    <2> QED BY <2>5
  <1>13. ASSUME NEW t \in Thread, Unlock(t) PROVE EnteredInv'
    BY <1>13 DEF Unlock
  <1>14. ASSUME NEW t \in Thread, EndSession(t) PROVE EnteredInv'
    BY <1>14 DEF EndSession
  <1>15. ASSUME NEW p \in Process, Crash(p) PROVE EnteredInv'
    BY <1>15 DEF Crash
  <1>16. ASSUME NEW d \in Db, AnHourPasses(d) PROVE EnteredInv'
    BY <1>16 DEF AnHourPasses
  <1>17. CASE UNCHANGED vars
    BY <1>17 DEF vars
  <1> QED
    BY <1>1, <1>2, <1>3, <1>4, <1>5, <1>6, <1>7, <1>8, <1>9, <1>10, <1>11,
       <1>12, <1>13, <1>14, <1>15, <1>16, <1>17
    DEF Next, Locking, Closing

\* Bolt's own lock follows the open databases.
LEMMA FlockStep ==
    ASSUME IInv, [Next]_vars
    PROVE  FlockInv'
  <1> USE LockAssumption DEF IInv, TypeOK, Places, AtInv, FlockInv
  <1>1. ASSUME NEW t \in Thread, NeedDb(t) PROVE FlockInv'
    BY <1>1 DEF NeedDb
  <1>2. ASSUME NEW t \in Thread, LockMutex(t) PROVE FlockInv'
    BY <1>2 DEF LockMutex
  <1>3. ASSUME NEW t \in Thread, LookAtAge(t) PROVE FlockInv'
    BY <1>3 DEF LookAtAge
  <1>4. ASSUME NEW t \in Thread, RemoveOld(t) PROVE FlockInv'
    BY <1>4 DEF RemoveOld
  <1>5. ASSUME NEW t \in Thread, SeeNoFile(t) PROVE FlockInv'
    BY <1>5 DEF SeeNoFile
  <1>6. ASSUME NEW t \in Thread, GiveUp(t) PROVE FlockInv'
    BY <1>6 DEF GiveUp
  <1>7. ASSUME NEW t \in Thread, CreateLock(t) PROVE FlockInv'
    BY <1>7 DEF CreateLock
  <1>8. ASSUME NEW t \in Thread, OpenBolt(t) PROVE FlockInv'
    BY <1>8 DEF OpenBolt
  <1>9. ASSUME NEW t \in Thread, OpenTimesOut(t) PROVE FlockInv'
    BY <1>9 DEF OpenTimesOut
  <1>10. ASSUME NEW t \in Thread, CloseConnection(t) PROVE FlockInv'
    BY <1>10 DEF CloseConnection
  <1>11. ASSUME NEW t \in Thread, CloseBolt(t) PROVE FlockInv'
    BY <1>11 DEF CloseBolt
  <1>12. ASSUME NEW t \in Thread, RemoveLock(t) PROVE FlockInv'
    BY <1>12 DEF RemoveLock
  <1>13. ASSUME NEW t \in Thread, Unlock(t) PROVE FlockInv'
    BY <1>13 DEF Unlock
  <1>14. ASSUME NEW t \in Thread, EndSession(t) PROVE FlockInv'
    BY <1>14 DEF EndSession
  <1>15. ASSUME NEW p \in Process, Crash(p) PROVE FlockInv'
    BY <1>15 DEF Crash
  <1>16. ASSUME NEW d \in Db, AnHourPasses(d) PROVE FlockInv'
    BY <1>16 DEF AnHourPasses
  <1>17. CASE UNCHANGED vars
    BY <1>17 DEF vars
  <1> QED
    BY <1>1, <1>2, <1>3, <1>4, <1>5, <1>6, <1>7, <1>8, <1>9, <1>10, <1>11,
       <1>12, <1>13, <1>14, <1>15, <1>16, <1>17
    DEF Next, Locking, Closing

\* Whoever removes a lock file, or leaves without doing so, is accounted for.
LEMMA FileStep ==
    ASSUME IInv, [Next]_vars
    PROVE  FileInv'
  <1> USE LockAssumption DEF IInv, TypeOK, Places, AtInv, EnteredInv, FileInv,
                             Entered
  <1>1. ASSUME NEW t \in Thread, NeedDb(t) PROVE FileInv'
    BY <1>1 DEF NeedDb
  <1>2. ASSUME NEW t \in Thread, LockMutex(t) PROVE FileInv'
    BY <1>2 DEF LockMutex
  <1>3. ASSUME NEW t \in Thread, LookAtAge(t) PROVE FileInv'
    BY <1>3 DEF LookAtAge
  <1>4. ASSUME NEW t \in Thread, RemoveOld(t) PROVE FileInv'
    BY <1>4 DEF RemoveOld
  <1>5. ASSUME NEW t \in Thread, SeeNoFile(t) PROVE FileInv'
    BY <1>5 DEF SeeNoFile
  <1>6. ASSUME NEW t \in Thread, GiveUp(t) PROVE FileInv'
    BY <1>6 DEF GiveUp
  <1>7. ASSUME NEW t \in Thread, CreateLock(t) PROVE FileInv'
    BY <1>7 DEF CreateLock
  <1>8. ASSUME NEW t \in Thread, OpenBolt(t) PROVE FileInv'
    BY <1>8 DEF OpenBolt
  <1>9. ASSUME NEW t \in Thread, OpenTimesOut(t) PROVE FileInv'
    BY <1>9 DEF OpenTimesOut
  <1>10. ASSUME NEW t \in Thread, CloseConnection(t) PROVE FileInv'
    BY <1>10 DEF CloseConnection
  <1>11. ASSUME NEW t \in Thread, CloseBolt(t) PROVE FileInv'
    BY <1>11 DEF CloseBolt
  <1>12. ASSUME NEW t \in Thread, RemoveLock(t) PROVE FileInv'
    BY <1>12 DEF RemoveLock
  <1>13. ASSUME NEW t \in Thread, Unlock(t) PROVE FileInv'
    BY <1>13 DEF Unlock
  <1>14. ASSUME NEW t \in Thread, EndSession(t) PROVE FileInv'
    BY <1>14 DEF EndSession
  <1>15. ASSUME NEW p \in Process, Crash(p) PROVE FileInv'
    BY <1>15 DEF Crash
  <1>16. ASSUME NEW d \in Db, AnHourPasses(d) PROVE FileInv'
    BY <1>16 DEF AnHourPasses
  <1>17. CASE UNCHANGED vars
    BY <1>17 DEF vars
  <1> QED
    BY <1>1, <1>2, <1>3, <1>4, <1>5, <1>6, <1>7, <1>8, <1>9, <1>10, <1>11,
       <1>12, <1>13, <1>14, <1>15, <1>16, <1>17
    DEF Next, Locking, Closing

\* Bolt refuses a file only while another thread has it open.
LEMMA TimedStep ==
    ASSUME IInv, [Next]_vars
    PROVE  TimedInv'
  <1> USE LockAssumption DEF IInv, TypeOK, Places, AtInv, EnteredInv, TimedInv
  <1>1. ASSUME NEW t \in Thread, NeedDb(t) PROVE TimedInv'
    BY <1>1 DEF NeedDb
  <1>2. ASSUME NEW t \in Thread, LockMutex(t) PROVE TimedInv'
    BY <1>2 DEF LockMutex
  <1>3. ASSUME NEW t \in Thread, LookAtAge(t) PROVE TimedInv'
    BY <1>3 DEF LookAtAge
  <1>4. ASSUME NEW t \in Thread, RemoveOld(t) PROVE TimedInv'
    BY <1>4 DEF RemoveOld
  <1>5. ASSUME NEW t \in Thread, SeeNoFile(t) PROVE TimedInv'
    BY <1>5 DEF SeeNoFile
  <1>6. ASSUME NEW t \in Thread, GiveUp(t) PROVE TimedInv'
    BY <1>6 DEF GiveUp
  <1>7. ASSUME NEW t \in Thread, CreateLock(t) PROVE TimedInv'
    BY <1>7 DEF CreateLock
  <1>8. ASSUME NEW t \in Thread, OpenBolt(t) PROVE TimedInv'
    BY <1>8 DEF OpenBolt
  <1>9. ASSUME NEW t \in Thread, OpenTimesOut(t) PROVE TimedInv'
    <2> DEFINE d == at[t]
               u == flock[d]
    <2>1. d \in Db /\ d \notin opened[t] /\ d \in entered[t]
      BY <1>9 DEF OpenTimesOut
    <2>2. u \in Thread /\ d \in opened[u]
      BY <1>9, <2>1 DEF OpenTimesOut, FlockInv
    <2>3. u # t /\ d \in entered[u]
      BY <2>1, <2>2
    <2>4. u \in Entered(d) /\ t \in Entered(d)
      BY <2>1, <2>2, <2>3 DEF Entered
    <2>5. d \in raced \cup outlived
      BY <2>1, <2>3, <2>4 DEF RaceInv, OneAtATime
    <2> QED BY <1>9, <2>5 DEF OpenTimesOut
  <1>10. ASSUME NEW t \in Thread, CloseConnection(t) PROVE TimedInv'
    BY <1>10 DEF CloseConnection
  <1>11. ASSUME NEW t \in Thread, CloseBolt(t) PROVE TimedInv'
    BY <1>11 DEF CloseBolt
  <1>12. ASSUME NEW t \in Thread, RemoveLock(t) PROVE TimedInv'
    BY <1>12 DEF RemoveLock
  <1>13. ASSUME NEW t \in Thread, Unlock(t) PROVE TimedInv'
    BY <1>13 DEF Unlock
  <1>14. ASSUME NEW t \in Thread, EndSession(t) PROVE TimedInv'
    BY <1>14 DEF EndSession
  <1>15. ASSUME NEW p \in Process, Crash(p) PROVE TimedInv'
    BY <1>15 DEF Crash
  <1>16. ASSUME NEW d \in Db, AnHourPasses(d) PROVE TimedInv'
    BY <1>16 DEF AnHourPasses
  <1>17. CASE UNCHANGED vars
    BY <1>17 DEF vars
  <1> QED
    BY <1>1, <1>2, <1>3, <1>4, <1>5, <1>6, <1>7, <1>8, <1>9, <1>10, <1>11,
       <1>12, <1>13, <1>14, <1>15, <1>16, <1>17
    DEF Next, Locking, Closing

\* Past the wait a thread is alone, or the race is recorded.
LEMMA RaceStep ==
    ASSUME IInv, [Next]_vars
    PROVE  RaceInv'
  <1> USE LockAssumption DEF IInv, TypeOK, Places, AtInv, EnteredInv, RaceInv,
                             OneAtATime, Entered, At
  <1>1. ASSUME NEW t \in Thread, NeedDb(t) PROVE RaceInv'
    BY <1>1 DEF NeedDb
  <1>2. ASSUME NEW t \in Thread, LockMutex(t) PROVE RaceInv'
    BY <1>2 DEF LockMutex
  <1>3. ASSUME NEW t \in Thread, LookAtAge(t) PROVE RaceInv'
    BY <1>3 DEF LookAtAge
  <1>4. ASSUME NEW t \in Thread, RemoveOld(t) PROVE RaceInv'
    BY <1>4 DEF RemoveOld
  <1>5. ASSUME NEW t \in Thread, SeeNoFile(t) PROVE RaceInv'
    BY <1>5 DEF SeeNoFile
  <1>6. ASSUME NEW t \in Thread, GiveUp(t) PROVE RaceInv'
    BY <1>6 DEF GiveUp
  <1>7. ASSUME NEW t \in Thread, CreateLock(t) PROVE RaceInv'
    BY <1>7 DEF CreateLock
  <1>8. ASSUME NEW t \in Thread, OpenBolt(t) PROVE RaceInv'
    BY <1>8 DEF OpenBolt
  <1>9. ASSUME NEW t \in Thread, OpenTimesOut(t) PROVE RaceInv'
    BY <1>9 DEF OpenTimesOut
  <1>10. ASSUME NEW t \in Thread, CloseConnection(t) PROVE RaceInv'
    BY <1>10 DEF CloseConnection
  <1>11. ASSUME NEW t \in Thread, CloseBolt(t) PROVE RaceInv'
    BY <1>11 DEF CloseBolt
  <1>12. ASSUME NEW t \in Thread, RemoveLock(t) PROVE RaceInv'
    BY <1>12 DEF RemoveLock
  <1>13. ASSUME NEW t \in Thread, Unlock(t) PROVE RaceInv'
    BY <1>13 DEF Unlock
  <1>14. ASSUME NEW t \in Thread, EndSession(t) PROVE RaceInv'
    BY <1>14 DEF EndSession
  <1>15. ASSUME NEW p \in Process, Crash(p) PROVE RaceInv'
    <2>1. \A d \in Db : /\ At("create", d)' \subseteq At("create", d)
                        /\ At("remove", d)' \subseteq At("remove", d)
                        /\ Entered(d)' \subseteq Entered(d)
      BY <1>15 DEF Crash
    <2>2. UNCHANGED <<file, old, raced, outlived>>
      BY <1>15 DEF Crash
    <2> QED BY <2>1, <2>2
  <1>16. ASSUME NEW d \in Db, AnHourPasses(d) PROVE RaceInv'
    BY <1>16 DEF AnHourPasses
  <1>17. CASE UNCHANGED vars
    BY <1>17 DEF vars
  <1> QED
    BY <1>1, <1>2, <1>3, <1>4, <1>5, <1>6, <1>7, <1>8, <1>9, <1>10, <1>11,
       <1>12, <1>13, <1>14, <1>15, <1>16, <1>17
    DEF Next, Locking, Closing

(***************************************************************************)
(* Theorems                                                                *)
(***************************************************************************)

\* At the start nothing is locked.
LEMMA InitIInv == Init => IInv
  <1> SUFFICES ASSUME Init PROVE IInv
    OBVIOUS
  <1> USE LockAssumption DEF Init
  <1>1. TypeOK
    <2>1. /\ pc \in [Thread -> Places]
          /\ at \in [Thread -> Db \cup {None}]
          /\ opened \in [Thread -> SUBSET Db]
          /\ entered \in [Thread -> SUBSET Db]
      BY DEF Places
    <2>2. mutex \in [Process -> [Db -> Thread \cup {None}]]
      OBVIOUS
    <2>3. /\ file \subseteq Db /\ old \subseteq file
          /\ flock \in [Db -> Thread \cup {None}]
          /\ raced \subseteq Db /\ outlived \subseteq Db
          /\ timedOut \in BOOLEAN
      OBVIOUS
    <2>4. crashes \in 0 .. MaxCrashes /\ hours \in 0 .. MaxHours
      OBVIOUS
    <2> QED BY <2>1, <2>2, <2>3, <2>4 DEF TypeOK
  <1>2. AtInv /\ MutexHeld /\ EnteredInv
    BY DEF AtInv, MutexHeld, EnteredInv
  <1>3. FlockInv /\ FileInv /\ TimedInv
    BY DEF FlockInv, FileInv, TimedInv
  <1>4. RaceInv
    BY DEF RaceInv, OneAtATime, At, Entered
  <1> QED BY <1>1, <1>2, <1>3, <1>4 DEF IInv

LEMMA Invariance == Spec => []IInv
  <1>1. IInv /\ [Next]_vars => IInv'
    BY TypeStep, AtStep, MutexStep, EnteredStep, FlockStep, RaceStep, FileStep,
       TimedStep
    DEF IInv
  <1> QED BY InitIInv, <1>1, PTL DEF Spec

\* The states of the locks are well typed, whatever dies and however long a
\* session lasts.
THEOREM TypeCorrect == Spec => []TypeOK
  <1>1. IInv => TypeOK
    BY DEF IInv
  <1> QED BY Invariance, <1>1, PTL

\* From its first look at the lock file to its removal a thread holds the mutex
\* of its process: the two steps of Go's test and create cannot meet those of
\* another goroutine (lockDB, unLockDB).
THEOREM MutexAlwaysHeld == Spec => []MutexHeld
  <1>1. IInv => MutexHeld
    BY DEF IInv
  <1> QED BY Invariance, <1>1, PTL

\* Only two causes break the lock between processes: two threads that found it
\* free at once, and a session longer than the hour after which a lock file
\* counts as left behind (lockDB).
THEOREM LockFileAlwaysProtects == Spec => []LockFileProtects
  <1>1. IInv => LockFileProtects
    BY DEF IInv, RaceInv, OneAtATime, TimedInv, LockFileProtects
  <1> QED BY Invariance, <1>1, PTL

\* A thread that finds a lock file while no process died and bolt refused
\* nobody waits for another process: its own process holds no lock file of a
\* database whose mutex it got (lockDB).
THEOREM OnlyOthersMakeWait == Spec => []WaitsForOthersOnly
  <1>1. ASSUME IInv PROVE WaitsForOthersOnly
    <2>1. SUFFICES ASSUME NEW t \in Thread, pc[t] = "wait", at[t] \in file,
                          crashes = 0, ~timedOut
                   PROVE  \E u \in Entered(at[t]) : ProcessOf[u] # ProcessOf[t]
      BY <1>1 DEF WaitsForOthersOnly, IInv, TypeOK
    <2>2. at[t] \in Db /\ at[t] \notin opened[t] /\ MutexOf(t) = t
      BY <1>1, <2>1 DEF IInv, AtInv, MutexHeld
    <2>3. PICK u \in Entered(at[t]) : TRUE
      BY <1>1, <2>1 DEF IInv, FileInv
    <2>4. u \in Thread /\ at[t] \in entered[u]
      BY <2>3 DEF Entered
    <2>5. mutex[ProcessOf[u]][at[t]] = u
      BY <1>1, <2>4 DEF IInv, EnteredInv, MutexHeld
    <2>6. u # t
      BY <1>1, <2>1, <2>2, <2>4 DEF IInv, EnteredInv
    <2> QED BY <2>2, <2>3, <2>5, <2>6
  <1> QED BY Invariance, <1>1, PTL

===============================================================================
