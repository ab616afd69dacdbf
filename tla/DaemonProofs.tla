----------------------------- MODULE DaemonProofs -----------------------------
(***************************************************************************)
(* One server for a data directory and a file that names it, for any       *)
(* number of commands and servers one after the other, whoever is killed.  *)
(***************************************************************************)
EXTENDS Daemon, TLAPS

(***************************************************************************)
(* Whatever happens                                                        *)
(***************************************************************************)

\* A command and the process of its name.
BaseInv ==
    \A c \in Command :
        /\ pc[c] \in {"off", "check", "clean", "spawn", "remove", "kill"}
           => proc[c] = "none"
        /\ pc[c] \in {"create", "write"}
           => (proc[c] = "none" <=> kind[c] # "start")
        /\ pc[c] \in {"clean", "spawn", "create", "write"} => Starts(c)
        /\ pc[c] = "poll" => kind[c] = "start"
        /\ pc[c] \in {"remove", "kill"} =>
               IF kind[c] = "stop" THEN target[c] \in Command
               ELSE kind[c] = "state" /\ pc[c] = "remove" /\ target[c] = None
        /\ proc[c] \in {"none", "loading", "listening", "told"}
           => waiter[c] = "none"
        /\ proc[c] = "dead" => waiter[c] = "done"
        /\ waiter[c] \in {"load", "create", "write"} => result[c] # "none"

(***************************************************************************)
(* While commands come one after the other                                 *)
(***************************************************************************)

\* Who is at work.
OneActive == \A c, d \in Command : Active(c) /\ Active(d) => c = d
OneAlive == \A p, q \in Command : Alive(p) /\ Alive(q) => p = q

\* What a command knows of the servers.
NobodyServes ==
    \A c \in Command :
        pc[c] \in {"clean", "spawn"} => \A p \in Command : ~Alive(p)
OwnServer ==
    \A c \in Command :
        /\ pc[c] \in {"create", "write", "poll"} =>
               \A p \in Command : Alive(p) => p = c
        /\ pc[c] \in {"create", "write"} => proc[c] \in {"none", "loading", "dead"}
KilledInv ==
    \A c \in Command :
        pc[c] \in {"create", "write"} /\ proc[c] = "dead" =>
            <<"kill", c>> \in ends
SettledServer ==
    \A c \in Command :
        /\ pc[c] \in {"check", "remove", "kill"} =>
               \A p \in Command : Alive(p) => Settled(p)
        /\ pc[c] \in {"remove", "kill"} =>
               \A p \in Command : Alive(p) => target[c] = p

\* What a server is doing.
ServerInv ==
    \A p \in Command :
        /\ proc[p] \notin {"told", "deaf", "failed"}
        /\ proc[p] \in {"stopping", "closed", "ending"} =>
               Idle /\ waiter[p] = "done"
        /\ proc[p] \in {"listening", "running"} => auth[p] = p
        /\ waiter[p] \in {"load", "create", "write"} => result[p] = "y"

\* What the file says of it.
Says(content, p) ==
    \E s \in {"n", "y"} : content = [pid |-> p, auth |-> p, started |-> s]
NamedInv ==
    \A p \in Command :
        /\ \/ proc[p] \in {"loading", "listening"}
           \/ proc[p] = "running" /\ waiter[p] \in {"load", "create"}
        /\ pc[p] \notin {"create", "write"}
        => Says(file, p)
SettledInv ==
    \A p \in Command :
        Settled(p) => \/ file = [pid |-> p, auth |-> p, started |-> "y"]
                      \/ \E c \in Command : pc[c] = "kill"
EndingInv == \A p \in Command : proc[p] = "ending" => file = NoFile

\* What those know who write it.
ReadInv ==
    \A p \in Command :
        proc[p] = "running" /\ waiter[p] \in {"create", "write"} =>
            Says(read[p], p)
OpenInv ==
    \A p \in Command :
        /\ pc[p] = "write" => <<"command", p>> \in open
        /\ proc[p] = "running" /\ waiter[p] = "write" => <<"waiter", p>> \in open

\* What a start command finds in it.
PollInv ==
    \A c \in Command :
        pc[c] = "poll" =>
            /\ file # NoFile
            /\ IsContent => /\ file.started # "error"
                            /\ file.started = "y" => result[c] = "y"

\* What is left of a server in it.
LeftInv ==
    IsContent => /\ file.pid \in Command /\ proc[file.pid] # "none"
                 /\ proc[file.pid] = "dead" => <<"kill", file.pid>> \in ends

AnswerInv ==
    \A c \in Command : /\ outcome[c] = "started" => result[c] = "y"
                       /\ outcome[c] # "failed"

Calm ==
    /\ OneActive /\ OneAlive
    /\ NobodyServes /\ OwnServer /\ KilledInv /\ SettledServer
    /\ ServerInv
    /\ NamedInv /\ SettledInv /\ EndingInv /\ ReadInv /\ OpenInv
    /\ PollInv /\ LeftInv /\ AnswerInv
CalmInv == calm => Calm

IInv == TypeOK /\ BaseInv /\ CalmInv

(***************************************************************************)
(* Types                                                                   *)
(***************************************************************************)

CommandTypes ==
    /\ kind \in [Command -> Calls]
    /\ pc \in [Command -> {"off", "check", "clean", "spawn", "create", "write",
                           "poll", "remove", "kill", "serving", "done"}]
    /\ target \in [Command -> Command \cup {None}]
    /\ outcome \in [Command -> {"none", "refused", "started", "failed",
                                "unsure"}]

ServerTypes ==
    /\ proc \in [Command -> {"none", "loading", "listening", "told", "running",
                             "deaf", "failed", "stopping", "closed", "ending",
                             "dead"}]
    /\ auth \in [Command -> Command \cup {None, Other}]
    /\ waiter \in [Command -> {"none", "load", "create", "write", "done"}]
    /\ result \in [Command -> {"none", "y", "error"}]

FileTypes ==
    /\ file \in Content \cup {Empty, NoFile}
    /\ read \in [Command -> Content \cup {NoFile}]
    /\ open \subseteq {"command", "waiter"} \X Command
    /\ ends \subseteq {"kill", "interrupt"} \X Command
    /\ calm \in BOOLEAN

LEMMA Parts == TypeOK <=> CommandTypes /\ ServerTypes /\ FileTypes
  BY DEF TypeOK, CommandTypes, ServerTypes, FileTypes

LEMMA InitTypes == Init => TypeOK
<1> SUFFICES ASSUME Init PROVE CommandTypes /\ ServerTypes /\ FileTypes
  BY Parts
<1>1. CommandTypes
  <2>1. kind \in [Command -> Calls]
    BY DaemonAssumption DEF Init
  <2> QED
    BY <2>1 DEF Init, CommandTypes
<1>2. ServerTypes
  BY DEF Init, ServerTypes
<1>3. FileTypes
  BY DEF Init, FileTypes, NoFile
<1> QED
  BY <1>1, <1>2, <1>3

LEMMA StepTypes ==
    ASSUME TypeOK, BaseInv, [Next]_vars
    PROVE  TypeOK'
<1> USE DEF commands, servers
<1>a. CommandTypes /\ ServerTypes /\ FileTypes
  BY Parts
<1> SUFFICES CommandTypes' /\ ServerTypes' /\ FileTypes'
  BY DEF TypeOK, CommandTypes, ServerTypes, FileTypes
<1>1. CASE UNCHANGED vars
  BY <1>1, <1>a DEF vars, CommandTypes, ServerTypes, FileTypes, Content, NoFile
<1>2. ASSUME NEW c \in Command,
             \/ Call(c) \/ CommandStep(c) \/ WaiterStep(c) \/ ServerStep(c)
             \/ Interrupt(c) \/ Crash(c)
      PROVE  CommandTypes' /\ ServerTypes' /\ FileTypes'
  <2>1. CASE Call(c)
    <3>1. CommandTypes'
      BY <1>a, <2>1 DEF CommandTypes, Call, Move
    <3>2. ServerTypes'
      BY <1>a, <2>1 DEF ServerTypes, Call, Move
    <3>3. FileTypes'
      BY <1>a, <2>1 DEF FileTypes, NoFile, Call, Move
    <3> QED
      BY <3>1, <3>2, <3>3
  <2>2. CASE CheckPIDFile(c)
    <3>1. CommandTypes'
      BY <1>a, <2>2 DEF CommandTypes, CheckPIDFile, Move, Finish
    <3>2. ServerTypes'
      BY <1>a, <2>2 DEF ServerTypes, CheckPIDFile, Move, Finish
    <3>3. FileTypes'
      BY <1>a, <2>2 DEF FileTypes, NoFile, CheckPIDFile, Move, Finish
    <3> QED
      BY <3>1, <3>2, <3>3
  <2>3. CASE CleanPIDFile(c)
    <3>1. CommandTypes'
      BY <1>a, <2>3 DEF CommandTypes, CleanPIDFile, Move, RemoveFile
    <3>2. ServerTypes'
      BY <1>a, <2>3 DEF ServerTypes, CleanPIDFile, Move, RemoveFile
    <3>3. FileTypes'
      BY <1>a, <2>3 DEF FileTypes, NoFile, CleanPIDFile, Move, RemoveFile
    <3> QED
      BY <3>1, <3>2, <3>3
  <2>4. CASE Spawn(c)
    <3>1. CommandTypes'
      BY <1>a, <2>4 DEF CommandTypes, Spawn, Move
    <3>2. ServerTypes'
      BY <1>a, <2>4 DEF ServerTypes, Spawn, Move
    <3>3. FileTypes'
      BY <1>a, <2>4 DEF FileTypes, NoFile, Spawn, Move
    <3> QED
      BY <3>1, <3>2, <3>3
  <2>5. CASE CreatePIDFile(c)
    <3>1. CommandTypes'
      BY <1>a, <2>5 DEF CommandTypes, CreatePIDFile, Move, CreateFile
    <3>2. ServerTypes'
      BY <1>a, <2>5 DEF ServerTypes, CreatePIDFile, Move, CreateFile
    <3>3. FileTypes'
      BY <1>a, <2>5 DEF FileTypes, NoFile, CreatePIDFile, Move, CreateFile
    <3> QED
      BY <3>1, <3>2, <3>3
  <2>6. CASE WritePIDFile(c)
    <3>1. CommandTypes'
      BY <1>a, <2>6 DEF CommandTypes, WritePIDFile, Move, WriteFile
    <3>2. ServerTypes'
      BY <1>a, <2>6 DEF ServerTypes, WritePIDFile, Move, WriteFile
    <3>3. FileTypes'
      BY <1>a, <2>6 DEF FileTypes, NoFile, WritePIDFile, Move, WriteFile,
         Content
    <3> QED
      BY <3>1, <3>2, <3>3
  <2>7. CASE Poll(c)
    <3>1. CommandTypes'
      BY <1>a, <2>7 DEF CommandTypes, Poll, Move, Finish
    <3>2. ServerTypes'
      BY <1>a, <2>7 DEF ServerTypes, Poll, Move, Finish
    <3>3. FileTypes'
      BY <1>a, <2>7 DEF FileTypes, NoFile, Poll, Move, Finish
    <3> QED
      BY <3>1, <3>2, <3>3
  <2>8. CASE PollTimesOut(c)
    <3>1. CommandTypes'
      BY <1>a, <2>8 DEF CommandTypes, PollTimesOut, Move, Finish
    <3>2. ServerTypes'
      BY <1>a, <2>8 DEF ServerTypes, PollTimesOut, Move, Finish
    <3>3. FileTypes'
      BY <1>a, <2>8 DEF FileTypes, NoFile, PollTimesOut, Move, Finish
    <3> QED
      BY <3>1, <3>2, <3>3
  <2>9. CASE ReadPIDFile(c)
    <3>1. CommandTypes'
      BY <1>a, <2>9 DEF CommandTypes, ReadPIDFile, Move, Content, FileTypes,
         IsContent, NoFile
    <3>2. ServerTypes'
      BY <1>a, <2>9 DEF ServerTypes, ReadPIDFile, Move
    <3>3. FileTypes'
      BY <1>a, <2>9 DEF FileTypes, NoFile, ReadPIDFile, Move, Content
    <3> QED
      BY <3>1, <3>2, <3>3
  <2>10. CASE RemovePIDFile(c)
    <3>1. CommandTypes'
      BY <1>a, <2>10 DEF CommandTypes, RemovePIDFile, Move, RemoveFile
    <3>2. ServerTypes'
      BY <1>a, <2>10 DEF ServerTypes, RemovePIDFile, Move, RemoveFile
    <3>3. FileTypes'
      BY <1>a, <2>10 DEF FileTypes, NoFile, RemovePIDFile, Move, RemoveFile
    <3> QED
      BY <3>1, <3>2, <3>3
  <2>11. CASE Kill(c)
    <3>1. CommandTypes'
      BY <1>a, <2>11 DEF CommandTypes, Kill, Move
    <3>2. ServerTypes'
      BY <1>a, <2>11 DEF ServerTypes, Kill, Move
    <3>3. FileTypes'
      BY <1>a, <2>11 DEF FileTypes, NoFile, Kill, Move
    <3> QED
      BY <3>1, <3>2, <3>3
  <2>12. CASE LoadAuth(c)
    <3>1. CommandTypes'
      BY <1>a, <2>12 DEF CommandTypes, LoadAuth, Goes
    <3>2. ServerTypes'
      BY <1>a, <2>12 DEF ServerTypes, LoadAuth, Goes, Content, FileTypes,
         IsContent, NoFile
    <3>3. FileTypes'
      BY <1>a, <2>12 DEF FileTypes, NoFile, LoadAuth, Goes, Content
    <3> QED
      BY <3>1, <3>2, <3>3
  <2>13. CASE Listen(c)
    <3>1. CommandTypes'
      BY <1>a, <2>13 DEF CommandTypes, Listen, Goes, Report
    <3>2. ServerTypes'
      BY <1>a, <2>13 DEF ServerTypes, Listen, Goes, Report
    <3>3. FileTypes'
      BY <1>a, <2>13 DEF FileTypes, NoFile, Listen, Goes, Report
    <3> QED
      BY <3>1, <3>2, <3>3
  <2>14. CASE ListenFails(c)
    <3>1. CommandTypes'
      BY <1>a, <2>14 DEF CommandTypes, ListenFails, Goes, Report
    <3>2. ServerTypes'
      BY <1>a, <2>14 DEF ServerTypes, ListenFails, Goes, Report
    <3>3. FileTypes'
      BY <1>a, <2>14 DEF FileTypes, NoFile, ListenFails, Goes, Report
    <3> QED
      BY <3>1, <3>2, <3>3
  <2>15. CASE StopListening(c)
    <3>1. CommandTypes'
      BY <1>a, <2>15 DEF CommandTypes, StopListening, Goes
    <3>2. ServerTypes'
      BY <1>a, <2>15 DEF ServerTypes, StopListening, Goes
    <3>3. FileTypes'
      BY <1>a, <2>15 DEF FileTypes, NoFile, StopListening, Goes
    <3> QED
      BY <3>1, <3>2, <3>3
  <2>16. CASE RemoveOwnPIDFile(c)
    <3>1. CommandTypes'
      BY <1>a, <2>16 DEF CommandTypes, RemoveOwnPIDFile, Goes, RemoveFile
    <3>2. ServerTypes'
      BY <1>a, <2>16 DEF ServerTypes, RemoveOwnPIDFile, Goes, RemoveFile
    <3>3. FileTypes'
      BY <1>a, <2>16 DEF FileTypes, NoFile, RemoveOwnPIDFile, Goes, RemoveFile
    <3> QED
      BY <3>1, <3>2, <3>3
  <2>17. CASE EndProcess(c)
    <3>1. CommandTypes'
      BY <1>a, <2>17 DEF CommandTypes, EndProcess, Goes, RemoveFile
    <3>2. ServerTypes'
      BY <1>a, <2>17 DEF ServerTypes, EndProcess, Goes, RemoveFile
    <3>3. FileTypes'
      BY <1>a, <2>17 DEF FileTypes, NoFile, EndProcess, Goes, RemoveFile
    <3> QED
      BY <3>1, <3>2, <3>3
  <2>18. CASE WaiterLoads(c)
    <3>1. CommandTypes'
      BY <1>a, <2>18 DEF CommandTypes, WaiterLoads
    <3>2. ServerTypes'
      BY <1>a, <2>18 DEF ServerTypes, WaiterLoads
    <3>3. FileTypes'
      BY <1>a, <2>18 DEF FileTypes, NoFile, WaiterLoads
    <3> QED
      BY <3>1, <3>2, <3>3
  <2>19. CASE WaiterCreates(c)
    <3>1. CommandTypes'
      BY <1>a, <2>19 DEF CommandTypes, WaiterCreates, CreateFile
    <3>2. ServerTypes'
      BY <1>a, <2>19 DEF ServerTypes, WaiterCreates, CreateFile
    <3>3. FileTypes'
      BY <1>a, <2>19 DEF FileTypes, NoFile, WaiterCreates, CreateFile
    <3> QED
      BY <3>1, <3>2, <3>3
  <2>20. CASE WaiterWrites(c)
    <3>1. CommandTypes'
      BY <1>a, <2>20 DEF CommandTypes, WaiterWrites, WriteFile
    <3>2. ServerTypes'
      BY <1>a, <2>20 DEF ServerTypes, WaiterWrites, WriteFile
    <3>3. FileTypes'
      <4>1. result[c] \in {"y", "error"} /\ waiter[c] = "write"
        BY <1>a, <2>20 DEF ServerTypes, BaseInv, WaiterWrites
      <4>2. [pid |-> IF read[c] = NoFile THEN None ELSE read[c].pid,
             auth |-> IF read[c] = NoFile THEN Other ELSE read[c].auth,
             started |-> result[c]] \in Content
        BY <1>a, <4>1 DEF FileTypes, Content, NoFile
      <4>3. file' \in Content \cup {Empty, NoFile}
        BY <1>a, <2>20, <4>2 DEF FileTypes, WaiterWrites, WriteFile
      <4> QED
        BY <1>a, <2>20, <4>3 DEF FileTypes, NoFile, WaiterWrites, WriteFile
    <3> QED
      BY <3>1, <3>2, <3>3
  <2>21. CASE Interrupt(c)
    <3>1. CommandTypes'
      BY <1>a, <2>21 DEF CommandTypes, Interrupt, Goes, Ends
    <3>2. ServerTypes'
      BY <1>a, <2>21 DEF ServerTypes, Interrupt, Goes, Ends
    <3>3. FileTypes'
      BY <1>a, <2>21 DEF FileTypes, NoFile, Interrupt, Goes, Ends
    <3> QED
      BY <3>1, <3>2, <3>3
  <2>22. CASE Crash(c)
    <3>1. CommandTypes'
      BY <1>a, <2>22 DEF CommandTypes, Crash, Ends
    <3>2. ServerTypes'
      BY <1>a, <2>22 DEF ServerTypes, Crash, Ends
    <3>3. FileTypes'
      BY <1>a, <2>22 DEF FileTypes, NoFile, Crash, Ends
    <3> QED
      BY <3>1, <3>2, <3>3
  <2> QED
    BY <2>1, <2>2, <2>3, <2>4, <2>5, <2>6, <2>7, <2>8, <2>9, <2>10, <2>11,
       <2>12, <2>13, <2>14, <2>15, <2>16, <2>17, <2>18, <2>19, <2>20, <2>21,
       <2>22, <1>2
       DEF CommandStep, WaiterStep, ServerStep
<1> QED
  BY <1>1, <1>2 DEF Next

(***************************************************************************)
(* The invariants                                                          *)
(***************************************************************************)

LEMMA InitBase == Init => BaseInv
  BY DEF Init, BaseInv

LEMMA StepBase ==
    ASSUME TypeOK, BaseInv, [Next]_vars
    PROVE  BaseInv'
<1> USE DEF commands, servers
<1>a. CommandTypes /\ ServerTypes /\ FileTypes
  BY Parts
<1>1. CASE UNCHANGED vars
  BY <1>1 DEF vars, BaseInv, Starts
<1>2. ASSUME NEW c \in Command,
             \/ Call(c) \/ CommandStep(c) \/ WaiterStep(c) \/ ServerStep(c)
             \/ Interrupt(c) \/ Crash(c)
      PROVE  BaseInv'
  <2>1. CASE Call(c)
    BY <1>a, <2>1 DEF CommandTypes, ServerTypes, BaseInv, Starts, Call, Move
  <2>2. CASE CheckPIDFile(c)
    BY <1>a, <2>2 DEF CommandTypes, ServerTypes, BaseInv, Starts,
       CheckPIDFile, Finish, Move
  <2>3. CASE CleanPIDFile(c)
    BY <1>a, <2>3 DEF CommandTypes, ServerTypes, BaseInv, Starts,
       CleanPIDFile, Move
  <2>4. CASE Spawn(c)
    BY <1>a, <2>4 DEF CommandTypes, ServerTypes, BaseInv, Starts, Spawn, Move
  <2>5. CASE CreatePIDFile(c)
    BY <1>a, <2>5 DEF CommandTypes, ServerTypes, BaseInv, Starts,
       CreatePIDFile, Move
  <2>6. CASE WritePIDFile(c)
    BY <1>a, <2>6 DEF CommandTypes, ServerTypes, BaseInv, Starts,
       WritePIDFile, Move
  <2>7. CASE Poll(c)
    BY <1>a, <2>7 DEF CommandTypes, ServerTypes, BaseInv, Starts, Poll,
       Finish, Move
  <2>8. CASE PollTimesOut(c)
    BY <1>a, <2>8 DEF CommandTypes, ServerTypes, BaseInv, Starts,
       PollTimesOut, Finish, Move
  <2>9. CASE ReadPIDFile(c)
    <3>1. ~Starts(c) => kind[c] \in {"stop", "state"}
      BY <1>a DEF CommandTypes, Starts, Calls
    <3>2. IsContent => file.pid \in Command \cup {None}
      BY <1>a DEF FileTypes, Content, IsContent, NoFile
    <3> QED
      BY <1>a, <2>9, <3>1, <3>2
         DEF CommandTypes, ServerTypes, BaseInv, Starts, ReadPIDFile, Move
  <2>10. CASE RemovePIDFile(c)
    BY <1>a, <2>10 DEF CommandTypes, ServerTypes, BaseInv, Starts,
       RemovePIDFile, Move
  <2>11. CASE Kill(c)
    BY <1>a, <2>11 DEF CommandTypes, ServerTypes, BaseInv, Starts, Kill, Move
  <2>12. CASE LoadAuth(c)
    BY <1>a, <2>12 DEF CommandTypes, ServerTypes, BaseInv, Starts, LoadAuth,
       Goes
  <2>13. CASE Listen(c)
    BY <1>a, <2>13 DEF CommandTypes, ServerTypes, BaseInv, Starts, Listen,
       Goes, Report
  <2>14. CASE ListenFails(c)
    BY <1>a, <2>14 DEF CommandTypes, ServerTypes, BaseInv, Starts,
       ListenFails, Goes, Report
  <2>15. CASE StopListening(c)
    BY <1>a, <2>15 DEF CommandTypes, ServerTypes, BaseInv, Starts,
       StopListening, Goes
  <2>16. CASE RemoveOwnPIDFile(c)
    BY <1>a, <2>16 DEF CommandTypes, ServerTypes, BaseInv, Starts,
       RemoveOwnPIDFile, Goes
  <2>17. CASE EndProcess(c)
    BY <1>a, <2>17 DEF CommandTypes, ServerTypes, BaseInv, Starts,
       EndProcess, Goes
  <2>18. CASE WaiterLoads(c)
    BY <1>a, <2>18 DEF CommandTypes, ServerTypes, BaseInv, Starts, WaiterLoads
  <2>19. CASE WaiterCreates(c)
    BY <1>a, <2>19 DEF CommandTypes, ServerTypes, BaseInv, Starts,
       WaiterCreates
  <2>20. CASE WaiterWrites(c)
    BY <1>a, <2>20 DEF CommandTypes, ServerTypes, BaseInv, Starts, WaiterWrites
  <2>21. CASE Interrupt(c)
    BY <1>a, <2>21 DEF CommandTypes, ServerTypes, BaseInv, Starts, Interrupt,
       Goes
  <2>22. CASE Crash(c)
    BY <1>a, <2>22 DEF CommandTypes, ServerTypes, BaseInv, Starts, Crash, Alive
  <2> QED
    BY <2>1, <2>2, <2>3, <2>4, <2>5, <2>6, <2>7, <2>8, <2>9, <2>10, <2>11,
       <2>12, <2>13, <2>14, <2>15, <2>16, <2>17, <2>18, <2>19, <2>20, <2>21,
       <2>22, <1>2
       DEF CommandStep, WaiterStep, ServerStep
<1> QED
  BY <1>1, <1>2 DEF Next

(***************************************************************************)
(* Steps while calm                                                        *)
(***************************************************************************)

LEMMA InitCalm == Init => CalmInv
<1> SUFFICES ASSUME Init PROVE Calm
  BY DEF CalmInv
<1>1. \A c \in Command : pc[c] = "off" /\ proc[c] = "none" /\ waiter[c] = "none"
  BY DEF Init
<1>2. OneActive /\ OneAlive
  BY <1>1 DEF OneActive, OneAlive, Active, Alive
<1>3. NobodyServes /\ OwnServer /\ KilledInv /\ SettledServer /\ ServerInv
  BY <1>1 DEF NobodyServes, OwnServer, KilledInv, SettledServer, ServerInv
<1>4. NamedInv /\ SettledInv /\ EndingInv /\ ReadInv /\ OpenInv
  BY <1>1 DEF NamedInv, SettledInv, EndingInv, ReadInv, OpenInv, Settled
<1>5. PollInv /\ LeftInv /\ AnswerInv
  BY <1>1 DEF Init, PollInv, LeftInv, AnswerInv, IsContent
<1> QED
  BY <1>2, <1>3, <1>4, <1>5 DEF Calm

\* While a command is at work, no other is, and no server goes down.
LEMMA AtWork ==
    ASSUME Calm, NEW c \in Command, Active(c)
    PROVE  /\ \A d \in Command : Active(d) => d = c
           /\ \A p \in Command : proc[p] \notin {"told", "deaf", "failed",
                                                 "stopping", "closed", "ending"}
  BY DEF Calm, OneActive, ServerInv, Idle

\* A command that goes on or ends.
LEMMA GoesOn ==
    ASSUME Calm, TypeOK, NEW c \in Command, NEW there, Active(c),
           pc' = [pc EXCEPT ![c] = there]
    PROVE  /\ OneActive'
           /\ pc'[c] = there
           /\ \A d \in Command \ {c} : pc'[d] = pc[d] /\ ~Active(d)
<1>1. pc'[c] = there /\ \A d \in Command \ {c} : pc'[d] = pc[d]
  BY DEF TypeOK
<1>2. \A d \in Command \ {c} : ~Active(d)
  BY AtWork
<1> QED
  BY <1>1, <1>2 DEF OneActive, Active

\* Without a server, little has to hold.
LEMMA NobodyAlive ==
    ASSUME BaseInv', \A p \in Command : proc'[p] \in {"none", "dead"}
    PROVE  /\ OneAlive' /\ NobodyServes' /\ OwnServer' /\ SettledServer'
           /\ ServerInv' /\ NamedInv' /\ SettledInv' /\ EndingInv' /\ ReadInv'
<1>1. \A p \in Command : ~Alive(p)' /\ waiter'[p] \in {"none", "done"}
  BY DEF Alive, BaseInv
<1>2. OneAlive' /\ NobodyServes' /\ OwnServer' /\ SettledServer'
  BY <1>1 DEF OneAlive, NobodyServes, OwnServer, SettledServer
<1>3. ServerInv'
  BY <1>1 DEF ServerInv
<1>4. NamedInv' /\ SettledInv' /\ EndingInv' /\ ReadInv'
  BY DEF NamedInv, SettledInv, EndingInv, ReadInv, Settled
<1> QED
  BY <1>1, <1>2, <1>3, <1>4

\* The contents of a file are not confused with a file without any.
LEMMA ContentIsContent ==
    ASSUME NEW p \in Command, NEW s \in {"n", "y", "error"}
    PROVE  [pid |-> p, auth |-> p, started |-> s] \notin {Empty, NoFile}
<1>1. [pid |-> p, auth |-> p, started |-> s] \in Content
  BY DEF Content
<1> QED
  BY <1>1, DaemonAssumption DEF NoFile

\* A command that looks into the file finds the server that runs.
LEMMA ServerIsNamed ==
    ASSUME Calm, NEW c \in Command, pc[c] = "check", NEW p \in Command, Alive(p)
    PROVE  Names(p)
<1>1. Settled(p)
  BY DEF Calm, SettledServer
<1>2. \A d \in Command : pc[d] # "kill"
  BY DEF Calm, OneActive, Active
<1>3. file = [pid |-> p, auth |-> p, started |-> "y"]
  BY <1>1, <1>2 DEF Calm, SettledInv
<1> QED
  BY <1>3, ContentIsContent, DaemonAssumption DEF Names, IsContent


LEMMA CallCalm ==
    ASSUME TypeOK, BaseInv, BaseInv', Calm, NEW c \in Command, Call(c), calm'
    PROVE  Calm'
<1> USE DEF commands, servers
<1>a. CommandTypes /\ ServerTypes /\ FileTypes
  BY Parts
<1>b. Idle /\ \A p \in Command : Alive(p) => Settled(p)
  BY DEF Call
<1>1. OneAlive' /\ EndingInv' /\ ReadInv' /\ LeftInv' /\ AnswerInv'
  BY DEF Calm, OneAlive, Alive, EndingInv, ReadInv, Says, LeftInv, IsContent,
     AnswerInv, Call, Move
<1>2. OneActive'
  BY <1>a, <1>b DEF OneActive, Active, Idle, Call, Move, CommandTypes
<1>3. NobodyServes'
  BY <1>a DEF Calm, NobodyServes, Alive, CommandTypes, Call, Move
<1>4. OwnServer'
  BY <1>a DEF Calm, OwnServer, Alive, CommandTypes, Call, Move
<1>5. KilledInv'
  BY <1>a DEF Calm, KilledInv, CommandTypes, Call, Move
<1>6. SettledServer'
  BY <1>a DEF Calm, SettledServer, Alive, Settled, CommandTypes, Call, Move
<1>7. ServerInv'
  BY <1>b DEF Calm, ServerInv, Alive, Settled, Call
<1>8. NamedInv'
  BY <1>a DEF Calm, NamedInv, Says, CommandTypes, Call, Move
<1>9. SettledInv'
  BY <1>a DEF Calm, SettledInv, Settled, CommandTypes, Call, Move
<1>10. OpenInv'
  BY <1>a DEF Calm, OpenInv, CommandTypes, Call, Move
<1>11. PollInv'
  BY <1>a DEF Calm, PollInv, IsContent, NoFile, CommandTypes, Call, Move
<1> QED
  BY <1>1, <1>2, <1>3, <1>4, <1>5, <1>6, <1>7, <1>8, <1>9, <1>10,
     <1>11 DEF Calm

LEMMA CheckPIDFileCalm ==
    ASSUME TypeOK, BaseInv, BaseInv', Calm, NEW c \in Command,
    CheckPIDFile(c), calm'
    PROVE  Calm'
<1> USE DEF commands, servers
<1>a. CommandTypes /\ ServerTypes /\ FileTypes
  BY Parts
<1>b. Active(c) /\ pc[c] = "check"
  BY DEF Active, CheckPIDFile, Finish, Move
<1>c. \A p \in Command : proc[p] \notin {"told", "deaf", "failed", "stopping",
                                         "closed", "ending"}
  BY <1>b, AtWork
<1>d. OneActive' /\ \A d \in Command \ {c} : pc'[d] = pc[d] /\ ~Active(d)
  BY <1>b, GoesOn DEF CheckPIDFile, Finish, Move
<1>1. OneAlive' /\ EndingInv' /\ ReadInv' /\ LeftInv'
  BY DEF Calm, OneAlive, Alive, EndingInv, ReadInv, Says, LeftInv, IsContent,
     CheckPIDFile, Finish, Move
<1>2. NobodyServes'
  <2>1. CASE \E p \in Command : Alive(p)
    <3>1. pc' = [pc EXCEPT ![c] = "done"] /\ proc' = proc
      BY <1>b, <2>1, ServerIsNamed DEF CheckPIDFile, Finish, Move
    <3> QED
      BY <1>a, <3>1 DEF Calm, NobodyServes, Alive, CommandTypes
  <2>2. CASE ~\E p \in Command : Alive(p)
    BY <2>2 DEF NobodyServes, Alive, CheckPIDFile
  <2> QED
    BY <2>1, <2>2
<1>3. OwnServer'
  BY <1>a, <1>b, <1>c, <1>d DEF Calm, OwnServer, Alive, CommandTypes,
     CheckPIDFile, Finish, Move, Starts, BaseInv
<1>4. KilledInv'
  BY <1>a, <1>b, <1>c, <1>d DEF Calm, KilledInv, CommandTypes, CheckPIDFile,
     Finish, Move, Starts, BaseInv
<1>5. SettledServer'
  BY <1>a, <1>b, <1>c, <1>d DEF Calm, SettledServer, Alive, Settled,
     CommandTypes, CheckPIDFile, Finish, Move, Starts, BaseInv
<1>6. ServerInv'
  BY <1>a, <1>b, <1>c, <1>d DEF Calm, ServerInv, Idle, Active, CommandTypes,
     CheckPIDFile, Finish, Move, Starts, BaseInv
<1>7. NamedInv'
  BY <1>a, <1>b, <1>c, <1>d DEF Calm, NamedInv, Says, CommandTypes,
     CheckPIDFile, Finish, Move, Starts, BaseInv
<1>8. SettledInv'
  BY <1>a, <1>b, <1>c, <1>d DEF Calm, SettledInv, Settled, CommandTypes,
     CheckPIDFile, Finish, Move, Starts, BaseInv
<1>9. OpenInv'
  <2>1. pc'[c] # "write"
    BY <1>a DEF CommandTypes, CheckPIDFile, Finish, Move
  <2>2. UNCHANGED <<proc, waiter, open>>
    BY DEF CheckPIDFile, servers
  <2> QED
    BY <1>d, <2>1, <2>2 DEF Calm, OpenInv
<1>10. PollInv'
  BY <1>a, <1>b, <1>c, <1>d DEF Calm, PollInv, IsContent, NoFile,
     CommandTypes, CheckPIDFile, Finish, Move, Starts, BaseInv
<1>11. AnswerInv'
  BY <1>a, <1>b, <1>c, <1>d DEF Calm, AnswerInv, CommandTypes, CheckPIDFile,
     Finish, Move, Starts, BaseInv
<1> QED
  BY <1>d, <1>1, <1>2, <1>3, <1>4, <1>5, <1>6, <1>7, <1>8, <1>9, <1>10,
     <1>11 DEF Calm

LEMMA CleanPIDFileCalm ==
    ASSUME TypeOK, BaseInv, BaseInv', Calm, NEW c \in Command,
    CleanPIDFile(c), calm'
    PROVE  Calm'
<1> USE DEF commands, servers
<1>a. CommandTypes /\ ServerTypes /\ FileTypes
  BY Parts
<1>b. Active(c) /\ pc[c] = "clean"
  BY DEF Active, CleanPIDFile, Move
<1>c. \A p \in Command : proc[p] \notin {"told", "deaf", "failed", "stopping",
                                         "closed", "ending"}
  BY <1>b, AtWork
<1>d. OneActive' /\ \A d \in Command \ {c} : pc'[d] = pc[d] /\ ~Active(d)
  BY <1>b, GoesOn DEF CleanPIDFile, Move
<1>1. /\ file' = NoFile /\ open' = {} /\ pc'[c] = "spawn"
      /\ UNCHANGED <<proc, waiter, outcome, result>>
  BY <1>a DEF CleanPIDFile, RemoveFile, Move, CommandTypes
<1>2. \A p \in Command : proc'[p] \in {"none", "dead"}
  BY <1>b, <1>1 DEF Calm, NobodyServes, Alive
<1>3. OpenInv' /\ PollInv'
  BY <1>1, <1>2, <1>d DEF OpenInv, PollInv, Active
<1>4. LeftInv' /\ AnswerInv'
  BY <1>1 DEF Calm, LeftInv, AnswerInv, IsContent
<1>k. KilledInv'
  BY <1>1, <1>d DEF KilledInv, Active
<1> QED
  BY <1>k, <1>2, <1>3, <1>4, <1>d, NobodyAlive DEF Calm

LEMMA SpawnCalm ==
    ASSUME TypeOK, BaseInv, BaseInv', Calm, NEW c \in Command, Spawn(c), calm'
    PROVE  Calm'
<1> USE DEF commands, servers
<1>a. CommandTypes /\ ServerTypes /\ FileTypes
  BY Parts
<1>b. Active(c) /\ pc[c] = "spawn"
  BY DEF Active, Spawn, Move
<1>c. \A p \in Command : proc[p] \notin {"told", "deaf", "failed", "stopping",
                                         "closed", "ending"}
  BY <1>b, AtWork
<1>d. OneActive' /\ \A d \in Command \ {c} : pc'[d] = pc[d] /\ ~Active(d)
  BY <1>b, GoesOn DEF Spawn, Move
<1>1. /\ pc'[c] = "create" /\ proc[c] = "none" /\ Starts(c)
      /\ UNCHANGED <<file, open, waiter, read, auth, outcome, result, ends>>
  BY <1>a, <1>b DEF Spawn, Move, CommandTypes, BaseInv
<1>2. \A p \in Command : proc[p] \in {"none", "dead"} /\ ~Alive(p)
  BY <1>b DEF Calm, NobodyServes, Alive
<1>3. \A d \in Command \ {c} : proc'[d] = proc[d]
  BY <1>a DEF Spawn, ServerTypes
<1>4. proc'[c] \in {"none", "loading"}
  BY <1>a, <1>1 DEF Spawn, ServerTypes
<1>5. PollInv' /\ OpenInv'
  BY <1>1, <1>2, <1>3, <1>4, <1>d DEF PollInv, OpenInv, Active
<1>6. LeftInv'
  BY <1>1, <1>3 DEF Calm, LeftInv, IsContent
<1>7. AnswerInv'
  BY <1>1 DEF Calm, AnswerInv
<1>8. OneAlive' /\ NobodyServes' /\ OwnServer' /\ SettledServer'
  BY <1>1, <1>2, <1>3, <1>4, <1>d
     DEF OneAlive, NobodyServes, OwnServer, SettledServer, Alive, Active
<1>9. ServerInv' /\ NamedInv'
  BY <1>1, <1>2, <1>3, <1>4 DEF Calm, ServerInv, NamedInv
<1>10. SettledInv' /\ EndingInv' /\ ReadInv'
  BY <1>2, <1>3, <1>4 DEF SettledInv, EndingInv, ReadInv, Settled
<1>k. KilledInv'
  BY <1>1, <1>4, <1>d DEF KilledInv, Active
<1> QED
  BY <1>k, <1>5, <1>6, <1>7, <1>8, <1>9, <1>10, <1>d DEF Calm

LEMMA CreatePIDFileCalm ==
    ASSUME TypeOK, BaseInv, BaseInv', Calm, NEW c \in Command,
    CreatePIDFile(c), calm'
    PROVE  Calm'
<1> USE DEF commands, servers
<1>a. CommandTypes /\ ServerTypes /\ FileTypes
  BY Parts
<1>b. Active(c) /\ pc[c] = "create"
  BY DEF Active, CreatePIDFile, Move
<1>c. \A p \in Command : proc[p] \notin {"told", "deaf", "failed", "stopping",
                                         "closed", "ending"}
  BY <1>b, AtWork
<1>d. OneActive' /\ \A d \in Command \ {c} : pc'[d] = pc[d] /\ ~Active(d)
  BY <1>b, GoesOn DEF CreatePIDFile, Move
<1>1. /\ pc'[c] = "write" /\ file' = Empty /\ <<"command", c>> \in open'
      /\ UNCHANGED <<proc, waiter, read, auth, outcome, result, ends>>
  BY <1>a DEF CreatePIDFile, CreateFile, Move, CommandTypes
<1>2. /\ proc[c] \in {"none", "loading", "dead"}
      /\ \A d \in Command \ {c} : proc[d] \in {"none", "dead"}
  BY <1>b DEF Calm, OwnServer, Alive
<1>3. OneAlive' /\ NobodyServes' /\ OwnServer' /\ SettledServer'
  BY <1>1, <1>2, <1>d
     DEF OneAlive, NobodyServes, OwnServer, SettledServer, Alive, Active
<1>4. ServerInv' /\ NamedInv'
  BY <1>1, <1>2, <1>c DEF Calm, ServerInv, NamedInv
<1>5. SettledInv' /\ EndingInv' /\ ReadInv'
  BY <1>1, <1>2 DEF SettledInv, EndingInv, ReadInv, Settled
<1>6. OpenInv' /\ PollInv'
  BY <1>1, <1>2, <1>d DEF OpenInv, PollInv, Active
<1>7. LeftInv' /\ AnswerInv'
  BY <1>1 DEF Calm, LeftInv, AnswerInv, IsContent
<1>k. KilledInv'
  BY <1>1, <1>b, <1>d DEF Calm, KilledInv, Active
<1> QED
  BY <1>k, <1>3, <1>4, <1>5, <1>6, <1>7, <1>d DEF Calm

LEMMA WritePIDFileCalm ==
    ASSUME TypeOK, BaseInv, BaseInv', Calm, NEW c \in Command,
    WritePIDFile(c), calm'
    PROVE  Calm'
<1> USE DEF commands, servers
<1>a. CommandTypes /\ ServerTypes /\ FileTypes
  BY Parts
<1>b. Active(c) /\ pc[c] = "write"
  BY DEF Active, WritePIDFile, Move
<1>c. \A p \in Command : proc[p] \notin {"told", "deaf", "failed", "stopping",
                                         "closed", "ending"}
  BY <1>b, AtWork
<1>d. OneActive' /\ \A d \in Command \ {c} : pc'[d] = pc[d] /\ ~Active(d)
  BY <1>b, GoesOn DEF WritePIDFile, Move
<1> DEFINE s == IF kind[c] = "start" THEN "n" ELSE "y"
           there == IF kind[c] = "start" THEN "poll" ELSE "serving"
<1>1. /\ pc'[c] = there /\ file' = [pid |-> c, auth |-> c, started |-> s]
      /\ UNCHANGED <<kind, waiter, read, auth, outcome, result, ends>>
  BY <1>a, <1>b
     DEF WritePIDFile, WriteFile, Move, CommandTypes, Calm, OpenInv
<1>2. /\ proc[c] \in {"none", "loading", "dead"}
      /\ \A d \in Command \ {c} : proc[d] \in {"none", "dead"}
  BY <1>b DEF Calm, OwnServer, Alive
<1>3. /\ \A d \in Command \ {c} : proc'[d] = proc[d]
      /\ proc'[c] \in {"none", "loading", "dead"}
  BY <1>a, <1>2 DEF WritePIDFile, ServerTypes
<1>4. OneAlive' /\ NobodyServes' /\ OwnServer' /\ SettledServer'
  BY <1>1, <1>2, <1>3, <1>d
     DEF OneAlive, NobodyServes, OwnServer, SettledServer, Alive, Active
<1>5. ServerInv'
  BY <1>1, <1>2, <1>3 DEF Calm, ServerInv
<1>6. NamedInv'
  BY <1>1, <1>2, <1>3 DEF NamedInv, Says
<1>7. SettledInv' /\ EndingInv' /\ ReadInv'
  BY <1>2, <1>3 DEF SettledInv, EndingInv, ReadInv, Settled
<1>8. OpenInv'
  BY <1>1, <1>2, <1>3, <1>d DEF OpenInv, Active
<1>9. PollInv'
  <2>1. \A d \in Command : pc'[d] = "poll" => d = c /\ s = "n"
    BY <1>1, <1>d DEF Active
  <2>2. file' # NoFile
    BY <1>1, ContentIsContent
  <2> QED
    BY <1>1, <2>1, <2>2 DEF PollInv
<1>10. LeftInv'
  <2>1. proc'[c] # "none"
    BY <1>a, <1>b DEF WritePIDFile, BaseInv, ServerTypes
  <2>2. proc'[c] = "dead" => <<"kill", c>> \in ends
    BY <1>a, <1>b DEF WritePIDFile, Calm, KilledInv, ServerTypes
  <2> QED
    BY <1>1, <2>1, <2>2 DEF LeftInv
<1>11. AnswerInv'
  BY <1>1 DEF Calm, AnswerInv
<1>k. KilledInv'
  BY <1>1, <1>d DEF KilledInv, Active
<1> QED
  BY <1>k, <1>4, <1>5, <1>6, <1>7, <1>8, <1>9, <1>10, <1>11, <1>d DEF Calm

LEMMA PollCalm ==
    ASSUME TypeOK, BaseInv, BaseInv', Calm, NEW c \in Command, Poll(c), calm'
    PROVE  Calm'
<1> USE DEF commands, servers
<1>a. CommandTypes /\ ServerTypes /\ FileTypes
  BY Parts
<1>b. Active(c) /\ pc[c] = "poll"
  BY DEF Active, Poll, Finish, Move
<1>c. \A p \in Command : proc[p] \notin {"told", "deaf", "failed", "stopping",
                                         "closed", "ending"}
  BY <1>b, AtWork
<1>d. OneActive' /\ \A d \in Command \ {c} : pc'[d] = pc[d] /\ ~Active(d)
  BY <1>b, GoesOn DEF Poll, Finish, Move
<1>1. OneAlive' /\ EndingInv' /\ ReadInv' /\ LeftInv'
  BY DEF Calm, OneAlive, Alive, EndingInv, ReadInv, Says, LeftInv, IsContent,
     Poll, Finish, Move
<1>2. NobodyServes'
  BY <1>a, <1>b, <1>c, <1>d DEF Calm, NobodyServes, Alive, CommandTypes, Poll,
     Finish, Move, Starts, BaseInv
<1>3. OwnServer'
  BY <1>a, <1>b, <1>c, <1>d DEF Calm, OwnServer, Alive, CommandTypes, Poll,
     Finish, Move, Starts, BaseInv
<1>4. KilledInv'
  BY <1>a, <1>b, <1>c, <1>d DEF Calm, KilledInv, CommandTypes, Poll, Finish,
     Move, Starts, BaseInv
<1>5. SettledServer'
  BY <1>a, <1>b, <1>c, <1>d DEF Calm, SettledServer, Alive, Settled,
     CommandTypes, Poll, Finish, Move, Starts, BaseInv
<1>6. ServerInv'
  BY <1>a, <1>b, <1>c, <1>d DEF Calm, ServerInv, Idle, Active, CommandTypes,
     Poll, Finish, Move, Starts, BaseInv
<1>7. NamedInv'
  BY <1>a, <1>b, <1>c, <1>d DEF Calm, NamedInv, Says, CommandTypes, Poll,
     Finish, Move, Starts, BaseInv
<1>8. SettledInv'
  BY <1>a, <1>b, <1>c, <1>d DEF Calm, SettledInv, Settled, CommandTypes, Poll,
     Finish, Move, Starts, BaseInv
<1>9. OpenInv'
  <2>1. pc'[c] # "write"
    BY <1>a DEF CommandTypes, Poll, Finish, Move
  <2>2. UNCHANGED <<proc, waiter, open>>
    BY DEF Poll, servers
  <2> QED
    BY <1>d, <2>1, <2>2 DEF Calm, OpenInv
<1>10. PollInv'
  BY <1>a, <1>b, <1>c, <1>d DEF Calm, PollInv, IsContent, NoFile,
     CommandTypes, Poll, Finish, Move, Starts, BaseInv
<1>11. AnswerInv'
  <2>1. file # NoFile /\ (IsContent => file.started # "error")
    BY <1>b DEF Calm, PollInv
  <2>2. IsContent /\ file.started = "y" => result[c] = "y"
    BY <1>b DEF Calm, PollInv
  <2>3. /\ \A d \in Command \ {c} : outcome'[d] = outcome[d]
        /\ outcome'[c] \in {"started", "unsure"}
        /\ outcome'[c] = "started" => result[c] = "y"
        /\ result' = result
    BY <1>a, <2>1, <2>2 DEF Poll, Finish, CommandTypes, servers
  <2> QED
    BY <2>3 DEF Calm, AnswerInv
<1> QED
  BY <1>d, <1>1, <1>2, <1>3, <1>4, <1>5, <1>6, <1>7, <1>8, <1>9, <1>10,
     <1>11 DEF Calm

LEMMA PollTimesOutCalm ==
    ASSUME TypeOK, BaseInv, BaseInv', Calm, NEW c \in Command,
    PollTimesOut(c), calm'
    PROVE  Calm'
<1> USE DEF commands, servers
<1>a. CommandTypes /\ ServerTypes /\ FileTypes
  BY Parts
<1>b. Active(c) /\ pc[c] = "poll"
  BY DEF Active, PollTimesOut, Finish, Move
<1>c. \A p \in Command : proc[p] \notin {"told", "deaf", "failed", "stopping",
                                         "closed", "ending"}
  BY <1>b, AtWork
<1>d. OneActive' /\ \A d \in Command \ {c} : pc'[d] = pc[d] /\ ~Active(d)
  BY <1>b, GoesOn DEF PollTimesOut, Finish, Move
<1>1. OneAlive' /\ EndingInv' /\ ReadInv' /\ LeftInv'
  BY DEF Calm, OneAlive, Alive, EndingInv, ReadInv, Says, LeftInv, IsContent,
     PollTimesOut, Finish, Move
<1>2. NobodyServes'
  BY <1>a, <1>b, <1>c, <1>d DEF Calm, NobodyServes, Alive, CommandTypes,
     PollTimesOut, Finish, Move, Starts, BaseInv
<1>3. OwnServer'
  BY <1>a, <1>b, <1>c, <1>d DEF Calm, OwnServer, Alive, CommandTypes,
     PollTimesOut, Finish, Move, Starts, BaseInv
<1>4. KilledInv'
  BY <1>a, <1>b, <1>c, <1>d DEF Calm, KilledInv, CommandTypes, PollTimesOut,
     Finish, Move, Starts, BaseInv
<1>5. SettledServer'
  BY <1>a, <1>b, <1>c, <1>d DEF Calm, SettledServer, Alive, Settled,
     CommandTypes, PollTimesOut, Finish, Move, Starts, BaseInv
<1>6. ServerInv'
  BY <1>a, <1>b, <1>c, <1>d DEF Calm, ServerInv, Idle, Active, CommandTypes,
     PollTimesOut, Finish, Move, Starts, BaseInv
<1>7. NamedInv'
  BY <1>a, <1>b, <1>c, <1>d DEF Calm, NamedInv, Says, CommandTypes,
     PollTimesOut, Finish, Move, Starts, BaseInv
<1>8. SettledInv'
  BY <1>a, <1>b, <1>c, <1>d DEF Calm, SettledInv, Settled, CommandTypes,
     PollTimesOut, Finish, Move, Starts, BaseInv
<1>9. OpenInv'
  <2>1. pc'[c] # "write"
    BY <1>a DEF CommandTypes, PollTimesOut, Finish, Move
  <2>2. UNCHANGED <<proc, waiter, open>>
    BY DEF PollTimesOut, servers
  <2> QED
    BY <1>d, <2>1, <2>2 DEF Calm, OpenInv
<1>10. PollInv'
  BY <1>a, <1>b, <1>c, <1>d DEF Calm, PollInv, IsContent, NoFile,
     CommandTypes, PollTimesOut, Finish, Move, Starts, BaseInv
<1>11. AnswerInv'
  BY <1>a, <1>b, <1>c, <1>d DEF Calm, AnswerInv, CommandTypes, PollTimesOut,
     Finish, Move, Starts, BaseInv
<1> QED
  BY <1>d, <1>1, <1>2, <1>3, <1>4, <1>5, <1>6, <1>7, <1>8, <1>9, <1>10,
     <1>11 DEF Calm

LEMMA ReadPIDFileCalm ==
    ASSUME TypeOK, BaseInv, BaseInv', Calm, NEW c \in Command, ReadPIDFile(c),
    calm'
    PROVE  Calm'
<1> USE DEF commands, servers
<1>a. CommandTypes /\ ServerTypes /\ FileTypes
  BY Parts
<1>b. Active(c) /\ pc[c] = "check"
  BY DEF Active, ReadPIDFile, Move
<1>c. \A p \in Command : proc[p] \notin {"told", "deaf", "failed", "stopping",
                                         "closed", "ending"}
  BY <1>b, AtWork
<1>d. OneActive' /\ \A d \in Command \ {c} : pc'[d] = pc[d] /\ ~Active(d)
  BY <1>b, GoesOn DEF ReadPIDFile, Move
<1>1. OneAlive' /\ EndingInv' /\ ReadInv' /\ LeftInv' /\ AnswerInv'
  BY DEF Calm, OneAlive, Alive, EndingInv, ReadInv, Says, LeftInv, IsContent,
     AnswerInv, ReadPIDFile, Move
<1>2. NobodyServes'
  BY <1>a, <1>b, <1>c, <1>d DEF Calm, NobodyServes, Alive, CommandTypes,
     ReadPIDFile, Move, Starts, BaseInv
<1>3. OwnServer'
  BY <1>a, <1>b, <1>c, <1>d DEF Calm, OwnServer, Alive, CommandTypes,
     ReadPIDFile, Move, Starts, BaseInv
<1>4. KilledInv'
  BY <1>a, <1>b, <1>c, <1>d DEF Calm, KilledInv, CommandTypes, ReadPIDFile,
     Move, Starts, BaseInv
<1>5. SettledServer'
  <2>1. \A p \in Command : Alive(p) => Settled(p) /\ Names(p)
    BY <1>b, ServerIsNamed DEF Calm, SettledServer
  <2>2. ASSUME NEW p \in Command, Alive(p), pc'[c] = "remove"
        PROVE  target'[c] = p
    BY <1>a, <2>1, <2>2 DEF ReadPIDFile, Move, Names, CommandTypes
  <2>3. pc'[c] \in {"remove", "done"} /\ UNCHANGED <<proc, waiter>>
    BY <1>a DEF ReadPIDFile, Move, CommandTypes
  <2> QED
    BY <1>d, <2>1, <2>2, <2>3 DEF SettledServer, Settled, Alive, Active
<1>6. ServerInv'
  BY <1>a, <1>b, <1>c, <1>d DEF Calm, ServerInv, Idle, Active, CommandTypes,
     ReadPIDFile, Move, Starts, BaseInv
<1>7. NamedInv'
  BY <1>a, <1>b, <1>c, <1>d DEF Calm, NamedInv, Says, CommandTypes,
     ReadPIDFile, Move, Starts, BaseInv
<1>8. SettledInv'
  BY <1>a, <1>b, <1>c, <1>d DEF Calm, SettledInv, Settled, CommandTypes,
     ReadPIDFile, Move, Starts, BaseInv
<1>9. OpenInv'
  <2>1. pc'[c] # "write"
    BY <1>a DEF CommandTypes, ReadPIDFile, Finish, Move
  <2>2. UNCHANGED <<proc, waiter, open>>
    BY DEF ReadPIDFile, servers
  <2> QED
    BY <1>d, <2>1, <2>2 DEF Calm, OpenInv
<1>10. PollInv'
  BY <1>a, <1>b, <1>c, <1>d DEF Calm, PollInv, IsContent, NoFile,
     CommandTypes, ReadPIDFile, Move, Starts, BaseInv
<1> QED
  BY <1>d, <1>1, <1>2, <1>3, <1>4, <1>5, <1>6, <1>7, <1>8, <1>9, <1>10 DEF Calm

LEMMA RemovePIDFileCalm ==
    ASSUME TypeOK, BaseInv, BaseInv', Calm, NEW c \in Command,
    RemovePIDFile(c), calm'
    PROVE  Calm'
<1> USE DEF commands, servers
<1>a. CommandTypes /\ ServerTypes /\ FileTypes
  BY Parts
<1>b. Active(c) /\ pc[c] = "remove"
  BY DEF Active, RemovePIDFile, Move
<1>c. \A p \in Command : proc[p] \notin {"told", "deaf", "failed", "stopping",
                                         "closed", "ending"}
  BY <1>b, AtWork
<1>d. OneActive' /\ \A d \in Command \ {c} : pc'[d] = pc[d] /\ ~Active(d)
  BY <1>b, GoesOn DEF RemovePIDFile, Move
<1>1. /\ file' = NoFile /\ open' = {}
      /\ pc'[c] = IF kind[c] = "stop" THEN "kill" ELSE "done"
      /\ UNCHANGED <<target, proc, waiter, read, auth, outcome, result, ends>>
  BY <1>a DEF RemovePIDFile, RemoveFile, Move, CommandTypes
<1>2. \A p \in Command : Alive(p) => Settled(p) /\ target[c] = p
  BY <1>b DEF Calm, SettledServer
<1>3. \A p \in Command : Alive(p) => kind[c] = "stop"
  BY <1>b, <1>2, DaemonAssumption DEF BaseInv
<1>4. \A p \in Command : proc[p] \in {"none", "dead"} \/ Settled(p)
  BY <1>2 DEF Alive
<1>5. OneAlive' /\ NobodyServes' /\ OwnServer' /\ SettledServer'
  BY <1>1, <1>2, <1>d DEF Calm, OneAlive, NobodyServes, OwnServer,
     SettledServer, Alive, Settled, Active
<1>6. ServerInv'
  BY <1>1, <1>4 DEF Calm, ServerInv, Settled
<1>7. NamedInv' /\ EndingInv' /\ ReadInv'
  BY <1>1, <1>4 DEF NamedInv, EndingInv, ReadInv, Settled
<1>8. SettledInv'
  BY <1>1, <1>3 DEF SettledInv, Settled, Alive
<1>9. OpenInv' /\ PollInv'
  BY <1>1, <1>4, <1>d DEF OpenInv, PollInv, Settled, Active
<1>10. LeftInv' /\ AnswerInv'
  BY <1>1 DEF Calm, LeftInv, AnswerInv, IsContent
<1>k. KilledInv'
  BY <1>1, <1>d DEF KilledInv, Active
<1> QED
  BY <1>k, <1>5, <1>6, <1>7, <1>8, <1>9, <1>10, <1>d DEF Calm

LEMMA KillCalm ==
    ASSUME TypeOK, BaseInv, BaseInv', Calm, NEW c \in Command, Kill(c), calm'
    PROVE  Calm'
<1> USE DEF commands, servers
<1>a. CommandTypes /\ ServerTypes /\ FileTypes
  BY Parts
<1>b. Active(c) /\ pc[c] = "kill"
  BY DEF Active, Kill, Move
<1>c. \A p \in Command : proc[p] \notin {"told", "deaf", "failed", "stopping",
                                         "closed", "ending"}
  BY <1>b, AtWork
<1>d. OneActive' /\ \A d \in Command \ {c} : pc'[d] = pc[d] /\ ~Active(d)
  BY <1>b, GoesOn DEF Kill, Move
<1> DEFINE p == target[c]
<1>1. /\ pc'[c] = "done"
      /\ UNCHANGED <<file, read, auth, outcome, result, ends>>
  BY <1>a DEF Kill, Move, CommandTypes
<1>2. Idle' /\ \A d \in Command : pc'[d] # "kill"
  BY <1>1, <1>d DEF Idle, Active
<1>3. p \in Command
  BY <1>b DEF BaseInv
<1>4. \A q \in Command \ {p} : proc[q] \in {"none", "dead"}
  BY <1>b DEF Calm, SettledServer, Alive
<1>5. proc[p] \in {"none", "dead"} \/ (proc[p] = "running" /\ waiter[p] = "done")
  BY <1>3, <1>b DEF Calm, SettledServer, Alive, Settled
<1>6. /\ \A q \in Command \ {p} : proc'[q] = proc[q] /\ waiter'[q] = waiter[q]
      /\ proc'[p] = IF proc[p] = "running" THEN "stopping" ELSE proc[p]
      /\ proc[p] = "running" => waiter'[p] = "done"
  BY <1>a, <1>3, <1>5 DEF Kill, ServerTypes
<1>7. OneAlive' /\ NobodyServes' /\ OwnServer' /\ SettledServer'
  BY <1>2, <1>4, <1>6
     DEF OneAlive, NobodyServes, OwnServer, SettledServer, Alive, Idle, Active
<1>8. ServerInv'
  <2>1. \A q \in Command : proc'[q] \in {"none",
  "dead"} => waiter'[q] \in {"none", "done"}
    BY DEF BaseInv
  <2>2. \A q \in Command \ {p} : proc'[q] \in {"none", "dead"}
    BY <1>4, <1>6
  <2>3. \/ proc'[p] \in {"none", "dead"}
        \/ proc'[p] = "stopping" /\ waiter'[p] = "done"
    BY <1>5, <1>6
  <2> QED
    BY <1>2, <2>1, <2>2, <2>3 DEF ServerInv
<1>9. NamedInv' /\ SettledInv' /\ EndingInv' /\ ReadInv'
  BY <1>4, <1>5, <1>6 DEF NamedInv, SettledInv, EndingInv, ReadInv, Settled
<1>10. OpenInv' /\ PollInv'
  BY <1>2, <1>4, <1>5, <1>6 DEF OpenInv, PollInv, Idle, Active
<1>11. LeftInv'
  BY <1>1, <1>3, <1>5, <1>6 DEF Calm, LeftInv, IsContent
<1>12. AnswerInv'
  BY <1>1 DEF Calm, AnswerInv
<1>k. KilledInv'
  BY <1>2 DEF KilledInv, Idle, Active
<1> QED
  BY <1>k, <1>7, <1>8, <1>9, <1>10, <1>11, <1>12, <1>d DEF Calm

LEMMA LoadAuthCalm ==
    ASSUME TypeOK, BaseInv, BaseInv', Calm, NEW p \in Command, LoadAuth(p),
    calm'
    PROVE  Calm'
<1> USE DEF commands, servers
<1>a. CommandTypes /\ ServerTypes /\ FileTypes
  BY Parts
<1>1. OneActive' /\ PollInv' /\ AnswerInv'
  BY DEF Calm, OneActive, Active, PollInv, IsContent, AnswerInv, LoadAuth, Goes
<1>2. OneAlive'
  BY <1>a DEF Calm, OneAlive, Alive, ServerTypes, LoadAuth, Goes
<1>3. NobodyServes'
  BY <1>a DEF Calm, NobodyServes, Alive, ServerTypes, LoadAuth, Goes
<1>4. OwnServer'
  BY <1>a, ZenonT(40)
  DEF Calm, OwnServer, Alive, ServerTypes, LoadAuth, Goes
<1>5. KilledInv'
  BY <1>a DEF Calm, KilledInv, ServerTypes, LoadAuth, Goes
<1>6. SettledServer'
  BY <1>a DEF Calm, SettledServer, Alive, Settled, ServerTypes, LoadAuth, Goes
<1>7. ServerInv'
  <2>1. pc[p] \notin {"create", "write"} /\ proc[p] = "loading"
    BY DEF LoadAuth, Goes
  <2>2. Says(file, p)
    BY <2>1 DEF Calm, NamedInv
  <2>3. IsContent /\ file.auth = p
    BY <2>2, ContentIsContent DEF Says, IsContent
  <2> QED
    BY <1>a, <2>1, <2>3
       DEF Calm, ServerInv, Idle, Active, LoadAuth, Goes, ServerTypes
<1>8. NamedInv'
  BY <1>a DEF Calm, NamedInv, Says, ServerTypes, LoadAuth, Goes
<1>9. SettledInv'
  BY <1>a DEF Calm, SettledInv, Settled, ServerTypes, LoadAuth, Goes
<1>10. EndingInv'
  BY <1>a DEF Calm, EndingInv, NoFile, ServerTypes, LoadAuth, Goes
<1>11. ReadInv'
  BY <1>a DEF Calm, ReadInv, Says, ServerTypes, LoadAuth, Goes
<1>12. OpenInv'
  BY <1>a DEF Calm, OpenInv, ServerTypes, LoadAuth, Goes
<1>13. LeftInv'
  BY <1>a DEF Calm, LeftInv, IsContent, NoFile, ServerTypes, LoadAuth, Goes
<1> QED
  BY <1>1, <1>2, <1>3, <1>4, <1>5, <1>6, <1>7, <1>8, <1>9, <1>10, <1>11,
     <1>12, <1>13 DEF Calm

LEMMA ListenCalm ==
    ASSUME TypeOK, BaseInv, BaseInv', Calm, NEW p \in Command, Listen(p), calm'
    PROVE  Calm'
<1> USE DEF commands, servers
<1>a. CommandTypes /\ ServerTypes /\ FileTypes
  BY Parts
<1>1. OneActive'
  BY DEF Calm, OneActive, Active, Listen, Report, Goes
<1>2. OneAlive'
  BY <1>a DEF Calm, OneAlive, Alive, ServerTypes, Listen, Report, Goes
<1>3. NobodyServes'
  BY <1>a DEF Calm, NobodyServes, Alive, ServerTypes, Listen, Report, Goes
<1>4. OwnServer'
  BY <1>a DEF Calm, OwnServer, Alive, ServerTypes, Listen, Report, Goes
<1>5. KilledInv'
  BY <1>a DEF Calm, KilledInv, ServerTypes, Listen, Report, Goes
<1>6. SettledServer'
  BY <1>a DEF Calm, SettledServer, Alive, Settled, ServerTypes, Listen,
     Report, Goes
<1>7. ServerInv'
  BY <1>a DEF Calm, ServerInv, Idle, Active, ServerTypes, Listen, Report, Goes
<1>8. NamedInv'
  BY <1>a DEF Calm, NamedInv, Says, ServerTypes, Listen, Report, Goes
<1>9. SettledInv'
  BY <1>a DEF Calm, SettledInv, Settled, ServerTypes, Listen, Report, Goes
<1>10. EndingInv'
  BY <1>a DEF Calm, EndingInv, NoFile, ServerTypes, Listen, Report, Goes
<1>11. ReadInv'
  BY <1>a DEF Calm, ReadInv, Says, ServerTypes, Listen, Report, Goes
<1>12. OpenInv'
  BY <1>a DEF Calm, OpenInv, ServerTypes, Listen, Report, Goes
<1>13. PollInv'
  BY <1>a DEF Calm, PollInv, IsContent, NoFile, ServerTypes, Listen, Report,
     Goes
<1>14. LeftInv'
  BY <1>a DEF Calm, LeftInv, IsContent, NoFile, ServerTypes, Listen, Report,
     Goes
<1>15. AnswerInv'
  BY <1>a DEF Calm, AnswerInv, ServerTypes, Listen, Report, Goes
<1> QED
  BY <1>1, <1>2, <1>3, <1>4, <1>5, <1>6, <1>7, <1>8, <1>9, <1>10, <1>11,
     <1>12, <1>13, <1>14, <1>15 DEF Calm

LEMMA StopListeningCalm ==
    ASSUME TypeOK, BaseInv, BaseInv', Calm, NEW p \in Command,
    StopListening(p), calm'
    PROVE  Calm'
<1> USE DEF commands, servers
<1>a. CommandTypes /\ ServerTypes /\ FileTypes
  BY Parts
<1>1. OneActive' /\ PollInv' /\ AnswerInv'
  BY DEF Calm, OneActive, Active, PollInv, IsContent, AnswerInv,
     StopListening, Goes
<1>2. OneAlive'
  BY <1>a DEF Calm, OneAlive, Alive, ServerTypes, StopListening, Goes
<1>3. NobodyServes'
  BY <1>a DEF Calm, NobodyServes, Alive, ServerTypes, StopListening, Goes
<1>4. OwnServer'
  BY <1>a DEF Calm, OwnServer, Alive, ServerTypes, StopListening, Goes
<1>5. KilledInv'
  BY <1>a DEF Calm, KilledInv, ServerTypes, StopListening, Goes
<1>6. SettledServer'
  BY <1>a DEF Calm, SettledServer, Alive, Settled, ServerTypes, StopListening,
     Goes
<1>7. ServerInv'
  BY <1>a DEF Calm, ServerInv, Idle, Active, ServerTypes, StopListening, Goes
<1>8. NamedInv'
  BY <1>a DEF Calm, NamedInv, Says, ServerTypes, StopListening, Goes
<1>9. SettledInv'
  BY <1>a DEF Calm, SettledInv, Settled, ServerTypes, StopListening, Goes
<1>10. EndingInv'
  BY <1>a DEF Calm, EndingInv, NoFile, ServerTypes, StopListening, Goes
<1>11. ReadInv'
  BY <1>a DEF Calm, ReadInv, Says, ServerTypes, StopListening, Goes
<1>12. OpenInv'
  BY <1>a DEF Calm, OpenInv, ServerTypes, StopListening, Goes
<1>13. LeftInv'
  BY <1>a DEF Calm, LeftInv, IsContent, NoFile, ServerTypes, StopListening,
     Goes
<1> QED
  BY <1>1, <1>2, <1>3, <1>4, <1>5, <1>6, <1>7, <1>8, <1>9, <1>10, <1>11,
     <1>12, <1>13 DEF Calm

LEMMA RemoveOwnPIDFileCalm ==
    ASSUME TypeOK, BaseInv, BaseInv', Calm, NEW p \in Command,
    RemoveOwnPIDFile(p), calm'
    PROVE  Calm'
<1> USE DEF commands, servers
<1>a. CommandTypes /\ ServerTypes /\ FileTypes
  BY Parts
<1>1. /\ file' = NoFile /\ open' = {} /\ proc[p] = "closed"
      /\ UNCHANGED <<pc, target, waiter, read, auth, outcome, result, ends>>
      /\ proc'[p] = "ending" /\ \A q \in Command \ {p} : proc'[q] = proc[q]
  BY <1>a DEF RemoveOwnPIDFile, RemoveFile, Goes, ServerTypes
<1>2. Idle /\ waiter[p] = "done"
  BY <1>1 DEF Calm, ServerInv
<1>3. \A q \in Command \ {p} : proc[q] \in {"none", "dead"}
  BY <1>1 DEF Calm, OneAlive, Alive
<1>4. OneActive' /\ OneAlive' /\ NobodyServes' /\ OwnServer' /\ SettledServer'
  BY <1>1, <1>2, <1>3 DEF OneActive, OneAlive, NobodyServes, OwnServer,
     SettledServer, Alive, Idle, Active
<1>5. ServerInv'
  BY <1>1, <1>2 DEF Calm, ServerInv, Idle, Active
<1>6. NamedInv' /\ SettledInv' /\ EndingInv' /\ ReadInv'
  BY <1>1, <1>3 DEF NamedInv, SettledInv, EndingInv, ReadInv, Settled
<1>7. OpenInv' /\ PollInv'
  BY <1>1, <1>2, <1>3 DEF OpenInv, PollInv, Idle, Active
<1>8. LeftInv' /\ AnswerInv'
  BY <1>1 DEF Calm, LeftInv, AnswerInv, IsContent
<1>k. KilledInv'
  BY <1>1, <1>2 DEF KilledInv, Idle, Active
<1> QED
  BY <1>k, <1>4, <1>5, <1>6, <1>7, <1>8 DEF Calm

LEMMA EndProcessCalm ==
    ASSUME TypeOK, BaseInv, BaseInv', Calm, NEW p \in Command, EndProcess(p),
    calm'
    PROVE  Calm'
<1> USE DEF commands, servers
<1>a. CommandTypes /\ ServerTypes /\ FileTypes
  BY Parts
<1>1. proc[p] = "ending"
  BY DEF EndProcess, Goes, Calm, ServerInv
<1>2. file = NoFile /\ Idle
  BY <1>1 DEF Calm, EndingInv, ServerInv
<1>3. /\ file' = NoFile /\ UNCHANGED <<pc, target, waiter, outcome, result>>
      /\ proc'[p] = "dead" /\ \A q \in Command \ {p} : proc'[q] = proc[q]
  BY <1>a, <1>2 DEF EndProcess, RemoveFile, Goes, ServerTypes
<1>4. \A q \in Command : proc'[q] \in {"none", "dead"}
  BY <1>1, <1>3 DEF Calm, OneAlive, Alive
<1>5. OneActive' /\ OpenInv' /\ PollInv'
  BY <1>2, <1>3, <1>4 DEF OneActive, OpenInv, PollInv, Idle, Active
<1>6. LeftInv' /\ AnswerInv'
  BY <1>3 DEF Calm, LeftInv, AnswerInv, IsContent
<1>k. KilledInv'
  BY <1>2, <1>3 DEF KilledInv, Idle, Active
<1> QED
  BY <1>k, <1>4, <1>5, <1>6, NobodyAlive DEF Calm

LEMMA WaiterLoadsCalm ==
    ASSUME TypeOK, BaseInv, BaseInv', Calm, NEW p \in Command, WaiterLoads(p),
    calm'
    PROVE  Calm'
<1> USE DEF commands, servers
<1>a. CommandTypes /\ ServerTypes /\ FileTypes
  BY Parts
<1>b. proc[p] = "running" /\ waiter[p] = "load"
  BY <1>a DEF WaiterLoads, Calm, ServerInv, BaseInv, ServerTypes
<1>c. \A q \in Command \ {p} : proc[q] \in {"none", "dead"}
  BY <1>b DEF Calm, OneAlive, Alive
<1>d. pc[p] \notin {"create", "write"}
  BY <1>b DEF Calm, OwnServer
<1>e. Says(file, p) /\ file # Empty
  <2>1. Says(file, p)
    BY <1>b, <1>d DEF Calm, NamedInv
  <2> QED
    BY <2>1, ContentIsContent DEF Says
<1>f. /\ waiter'[p] = "create" /\ read'[p] = file
      /\ \A q \in Command \ {p} : waiter'[q] = waiter[q] /\ read'[q] = read[q]
      /\ UNCHANGED <<proc, file, pc>>
  BY <1>a, <1>e DEF WaiterLoads, ServerTypes, FileTypes, commands
<1>1. OneActive' /\ OneAlive' /\ NobodyServes' /\ OwnServer' /\ KilledInv'
      /\ EndingInv' /\ PollInv' /\ LeftInv' /\ AnswerInv'
  BY DEF Calm, OneActive, Active, OneAlive, Alive, NobodyServes, OwnServer,
     KilledInv, EndingInv, PollInv, IsContent, LeftInv, AnswerInv, WaiterLoads
<1>2. SettledServer'
  BY <1>a DEF Calm, SettledServer, Alive, Settled, ServerTypes, WaiterLoads
<1>3. ServerInv'
  BY <1>a DEF Calm, ServerInv, Idle, Active, ServerTypes, WaiterLoads
<1>4. NamedInv'
  BY <1>a DEF Calm, NamedInv, Says, ServerTypes, WaiterLoads
<1>5. SettledInv'
  BY <1>b, <1>c, <1>f DEF SettledInv, Settled
<1>6. ReadInv'
  BY <1>c, <1>e, <1>f DEF ReadInv
<1>7. OpenInv'
  BY <1>a DEF Calm, OpenInv, ServerTypes, WaiterLoads
<1> QED
  BY <1>1, <1>2, <1>3, <1>4, <1>5, <1>6, <1>7 DEF Calm

LEMMA WaiterCreatesCalm ==
    ASSUME TypeOK, BaseInv, BaseInv', Calm, NEW p \in Command,
    WaiterCreates(p), calm'
    PROVE  Calm'
<1> USE DEF commands, servers
<1>a. CommandTypes /\ ServerTypes /\ FileTypes
  BY Parts
<1>b. proc[p] = "running" /\ waiter[p] = "create"
  BY <1>a DEF WaiterCreates, Calm, ServerInv, BaseInv, ServerTypes
<1>c. \A q \in Command \ {p} : proc[q] \in {"none", "dead"}
  BY <1>b DEF Calm, OneAlive, Alive
<1>d. pc[p] \notin {"create", "write"}
  BY <1>b DEF Calm, OwnServer
<1>f. \A c \in Command : pc[c] = "poll" => c = p
  BY <1>b DEF Calm, OwnServer, Alive
<1>g. /\ file' = Empty /\ waiter'[p] = "write" /\ UNCHANGED <<proc, pc>>
  BY <1>a DEF WaiterCreates, CreateFile, ServerTypes, commands
<1>1. OneActive' /\ OneAlive' /\ NobodyServes' /\ OwnServer' /\ KilledInv'
      /\ AnswerInv'
  BY DEF Calm, OneActive, Active, OneAlive, Alive, NobodyServes, OwnServer,
     KilledInv, AnswerInv, WaiterCreates, CreateFile
<1>2. SettledServer'
  BY <1>a DEF Calm, SettledServer, Alive, Settled, ServerTypes, WaiterCreates,
     CreateFile
<1>3. ServerInv'
  BY <1>a DEF Calm, ServerInv, Idle, Active, ServerTypes, WaiterCreates,
     CreateFile
<1>4. NamedInv'
  BY <1>b, <1>c, <1>g DEF NamedInv
<1>5. SettledInv'
  BY <1>b, <1>c, <1>g DEF SettledInv, Settled
<1>6. EndingInv'
  BY <1>b, <1>c, <1>g DEF EndingInv
<1>7. ReadInv'
  BY <1>a DEF Calm, ReadInv, Says, ServerTypes, WaiterCreates, CreateFile
<1>8. OpenInv'
  BY <1>a DEF Calm, OpenInv, ServerTypes, WaiterCreates, CreateFile
<1>9. PollInv'
  BY <1>g, DaemonAssumption DEF PollInv, IsContent, NoFile
<1>10. LeftInv'
  BY <1>a DEF Calm, LeftInv, IsContent, NoFile, WaiterCreates, CreateFile
<1> QED
  BY <1>1, <1>2, <1>3, <1>4, <1>5, <1>6, <1>7, <1>8, <1>9, <1>10 DEF Calm

LEMMA WaiterWritesCalm ==
    ASSUME TypeOK, BaseInv, BaseInv', Calm, NEW p \in Command,
    WaiterWrites(p), calm'
    PROVE  Calm'
<1> USE DEF commands, servers
<1>a. CommandTypes /\ ServerTypes /\ FileTypes
  BY Parts
<1>b. proc[p] = "running" /\ waiter[p] = "write"
  BY <1>a DEF WaiterWrites, Calm, ServerInv, BaseInv, ServerTypes
<1>c. \A q \in Command \ {p} : proc[q] \in {"none", "dead"}
  BY <1>b DEF Calm, OneAlive, Alive
<1>d. pc[p] \notin {"create", "write"}
  BY <1>b DEF Calm, OwnServer
<1>f. \A c \in Command : pc[c] = "poll" => c = p
  BY <1>b DEF Calm, OwnServer, Alive
<1>g. result[p] = "y" /\ <<"waiter", p>> \in open /\ Says(read[p], p)
  BY <1>b DEF Calm, ServerInv, OpenInv, ReadInv
<1>h. read[p] # NoFile /\ read[p].pid = p /\ read[p].auth = p
  BY <1>g, ContentIsContent DEF Says
<1>i. /\ file' = [pid |-> p, auth |-> p, started |-> "y"]
      /\ waiter'[p] = "done" /\ UNCHANGED <<proc, pc, result, ends>>
      /\ \A q \in Command \ {p} : waiter'[q] = waiter[q]
  BY <1>a, <1>g, <1>h DEF WaiterWrites, WriteFile, ServerTypes, commands
<1>j. file' # NoFile
  BY <1>i, ContentIsContent
<1>1. OneActive' /\ OneAlive' /\ NobodyServes' /\ OwnServer' /\ KilledInv'
      /\ AnswerInv'
  BY DEF Calm, OneActive, Active, OneAlive, Alive, NobodyServes, OwnServer,
     KilledInv, AnswerInv, WaiterWrites, WriteFile
<1>2. SettledServer'
  BY <1>a DEF Calm, SettledServer, Alive, Settled, ServerTypes, WaiterWrites,
     WriteFile
<1>3. ServerInv'
  BY <1>a DEF Calm, ServerInv, Idle, Active, ServerTypes, WaiterWrites,
     WriteFile
<1>4. NamedInv'
  BY <1>b, <1>c, <1>i DEF NamedInv
<1>5. SettledInv'
  BY <1>c, <1>i DEF SettledInv, Settled
<1>6. EndingInv'
  BY <1>b, <1>c, <1>i DEF EndingInv
<1>7. ReadInv'
  BY <1>a DEF Calm, ReadInv, Says, FileTypes, ServerTypes, WaiterWrites,
     WriteFile
<1>8. OpenInv'
  BY <1>a DEF Calm, OpenInv, ServerTypes, WaiterWrites, WriteFile
<1>9. PollInv'
  BY <1>f, <1>g, <1>i, <1>j DEF PollInv
<1>10. LeftInv'
  BY <1>b, <1>i DEF LeftInv
<1> QED
  BY <1>1, <1>2, <1>3, <1>4, <1>5, <1>6, <1>7, <1>8, <1>9, <1>10 DEF Calm

LEMMA InterruptCalm ==
    ASSUME TypeOK, BaseInv, BaseInv', Calm, NEW p \in Command, Interrupt(p),
    calm'
    PROVE  Calm'
<1> USE DEF commands, servers
<1>a. CommandTypes /\ ServerTypes /\ FileTypes
  BY Parts
<1>b. Idle /\ proc[p] = "running" /\ waiter[p] = "done"
  BY DEF Interrupt, Settled
<1>c. /\ proc'[p] = "stopping" /\ \A q \in Command \ {p} : proc'[q] = proc[q]
      /\ UNCHANGED <<pc, waiter, auth, result>>
  BY <1>a DEF Interrupt, Goes, ServerTypes
<1>1. OneActive' /\ PollInv' /\ AnswerInv'
  BY DEF Calm, OneActive, Active, PollInv, IsContent, AnswerInv, Interrupt,
     Ends, Goes
<1>2. OneAlive'
  BY <1>a DEF Calm, OneAlive, Alive, ServerTypes, Interrupt, Ends, Goes
<1>3. NobodyServes'
  BY <1>a DEF Calm, NobodyServes, Alive, ServerTypes, Interrupt, Ends, Goes
<1>4. OwnServer'
  BY <1>a DEF Calm, OwnServer, Alive, ServerTypes, Interrupt, Ends, Goes
<1>5. KilledInv'
  BY <1>a DEF Calm, KilledInv, ServerTypes, Interrupt, Ends, Goes
<1>6. SettledServer'
  BY <1>b, <1>c DEF SettledServer, Idle, Active
<1>7. ServerInv'
  BY <1>b, <1>c DEF Calm, ServerInv, Idle, Active
<1>8. NamedInv'
  BY <1>a DEF Calm, NamedInv, Says, ServerTypes, Interrupt, Ends, Goes
<1>9. SettledInv'
  BY <1>a DEF Calm, SettledInv, Settled, ServerTypes, Interrupt, Ends, Goes
<1>10. EndingInv'
  BY <1>a DEF Calm, EndingInv, NoFile, ServerTypes, Interrupt, Ends, Goes
<1>11. ReadInv'
  BY <1>a DEF Calm, ReadInv, Says, ServerTypes, Interrupt, Ends, Goes
<1>12. OpenInv'
  BY <1>a DEF Calm, OpenInv, ServerTypes, Interrupt, Ends, Goes
<1>13. LeftInv'
  BY <1>a DEF Calm, LeftInv, IsContent, NoFile, ServerTypes, Interrupt, Ends,
     Goes
<1> QED
  BY <1>1, <1>2, <1>3, <1>4, <1>5, <1>6, <1>7, <1>8, <1>9, <1>10, <1>11,
     <1>12, <1>13 DEF Calm

LEMMA CrashCalm ==
    ASSUME TypeOK, BaseInv, BaseInv', Calm, NEW p \in Command, Crash(p), calm'
    PROVE  Calm'
<1> USE DEF commands, servers
<1>a. CommandTypes /\ ServerTypes /\ FileTypes
  BY Parts
<1>1. OneActive' /\ PollInv' /\ AnswerInv'
  BY DEF Calm, OneActive, Active, PollInv, IsContent, AnswerInv, Crash, Ends
<1>2. OneAlive'
  BY <1>a DEF Calm, OneAlive, Alive, ServerTypes, Crash, Ends
<1>3. NobodyServes'
  BY <1>a DEF Calm, NobodyServes, Alive, ServerTypes, Crash, Ends
<1>4. OwnServer'
  BY <1>a DEF Calm, OwnServer, Alive, ServerTypes, Crash, Ends
<1>5. KilledInv'
  BY <1>a DEF Calm, KilledInv, ServerTypes, Crash, Ends
<1>6. SettledServer'
  BY <1>a DEF Calm, SettledServer, Alive, Settled, ServerTypes, Crash, Ends
<1>7. ServerInv'
  BY <1>a DEF Calm, ServerInv, Idle, Active, ServerTypes, Crash, Ends
<1>8. NamedInv'
  BY <1>a DEF Calm, NamedInv, Says, ServerTypes, Crash, Ends
<1>9. SettledInv'
  BY <1>a DEF Calm, SettledInv, Settled, ServerTypes, Crash, Ends
<1>10. EndingInv'
  BY <1>a DEF Calm, EndingInv, NoFile, ServerTypes, Crash, Ends
<1>11. ReadInv'
  BY <1>a DEF Calm, ReadInv, Says, ServerTypes, Crash, Ends
<1>12. OpenInv'
  BY <1>a DEF Calm, OpenInv, ServerTypes, Crash, Ends
<1>13. LeftInv'
  BY <1>a DEF Calm, LeftInv, IsContent, NoFile, ServerTypes, Crash, Ends
<1> QED
  BY <1>1, <1>2, <1>3, <1>4, <1>5, <1>6, <1>7, <1>8, <1>9, <1>10, <1>11,
     <1>12, <1>13 DEF Calm

\* Nobody has the port while a server starts.
LEMMA NoPortTaken ==
    ASSUME Calm, NEW p \in Command, ListenFails(p)
    PROVE  FALSE
<1>1. PICK q \in Command : Holds(q)
  BY DEF ListenFails
<1>2. Alive(p) /\ Alive(q) /\ proc[p] \in {"listening", "told"}
  BY <1>1 DEF ListenFails, Goes, Holds, Alive
<1> QED
  BY <1>1, <1>2 DEF Calm, OneAlive, Holds

LEMMA StepCalm ==
    ASSUME TypeOK, BaseInv, BaseInv', CalmInv, [Next]_vars
    PROVE  CalmInv'
<1> SUFFICES ASSUME calm' PROVE Calm'
  BY DEF CalmInv
<1>1. CASE UNCHANGED vars
  <2>1. Calm
    BY <1>1 DEF CalmInv, vars
  <2> QED
    BY <1>1, <2>1 DEF vars, commands, servers, Calm, OneActive, OneAlive,
       NobodyServes, OwnServer, KilledInv, SettledServer, ServerInv, NamedInv,
       SettledInv, EndingInv, ReadInv, OpenInv, PollInv, LeftInv, AnswerInv,
       Active, Alive, Settled, Idle, IsContent
<1>2. ASSUME NEW c \in Command,
             \/ Call(c) \/ CommandStep(c) \/ WaiterStep(c) \/ ServerStep(c)
             \/ Interrupt(c) \/ Crash(c)
      PROVE  Calm'
  <2>1. Calm
    BY <1>2 DEF CalmInv, commands, servers, Call, CommandStep, WaiterStep,
       ServerStep,
       Interrupt, Crash, CheckPIDFile, CleanPIDFile, Spawn, CreatePIDFile,
       WritePIDFile, Poll, PollTimesOut, ReadPIDFile, RemovePIDFile, Kill,
       LoadAuth, Listen, ListenFails, Report, StopListening, RemoveOwnPIDFile,
       EndProcess, WaiterLoads, WaiterCreates, WaiterWrites
  <2> QED
    BY <1>2, <2>1, CallCalm, CheckPIDFileCalm, CleanPIDFileCalm, SpawnCalm,
       CreatePIDFileCalm, WritePIDFileCalm, PollCalm, PollTimesOutCalm,
       ReadPIDFileCalm, RemovePIDFileCalm, KillCalm, LoadAuthCalm, ListenCalm,
       NoPortTaken, StopListeningCalm, RemoveOwnPIDFileCalm, EndProcessCalm,
       WaiterLoadsCalm, WaiterCreatesCalm, WaiterWritesCalm, InterruptCalm,
       CrashCalm
       DEF CommandStep, WaiterStep, ServerStep
<1> QED
  BY <1>1, <1>2 DEF Next

(***************************************************************************)
(* Theorems                                                                *)
(***************************************************************************)

LEMMA Inductive == Spec => []IInv
<1>1. Init => IInv
  BY InitTypes, InitBase, InitCalm DEF IInv
<1>2. IInv /\ [Next]_vars => IInv'
  BY StepTypes, StepBase, StepCalm DEF IInv
<1> QED
  BY <1>1, <1>2, PTL DEF Spec

\* The PID file, the commands and the servers stay what they can be.
THEOREM DaemonTypes == Spec => []TypeOK
<1>1. IInv => TypeOK
  BY DEF IInv
<1> QED
  BY <1>1, Inductive, PTL

\* However many servers were started, stopped and killed one after the other,
\* one at most serves the data directory.
THEOREM OneServerAtATime == Spec => []OneServer
<1>1. IInv => OneServer
  BY DEF IInv, CalmInv, Calm, OneAlive, OneServer
<1> QED
  BY <1>1, Inductive, PTL

\* Between commands the PID file names the server, and nobody once all servers
\* have ended by themselves.
THEOREM FileIsTheServers == Spec => []FileNamesServer
<1>1. IInv => FileNamesServer
  <2> SUFFICES ASSUME TypeOK, BaseInv, Calm, Idle
               PROVE  /\ \A p \in Command :
                            Settled(p) => file = [pid |-> p, auth |-> auth[p],
                                                  started |-> "y"]
                      /\ (\A p \in Command :
                             ~Alive(p) /\ <<"kill", p>> \notin ends)
                         => ~IsContent
    BY DEF IInv, CalmInv, FileNamesServer
  <2>1. \A c \in Command : pc[c] # "kill"
    BY DEF Idle, Active
  <2>2. ASSUME NEW p \in Command, Settled(p)
        PROVE  file = [pid |-> p, auth |-> auth[p], started |-> "y"]
    <3>1. auth[p] = p
      BY <2>2 DEF Calm, ServerInv, Settled
    <3> QED
      BY <2>1, <2>2, <3>1 DEF Calm, SettledInv
  <2>3. IsContent => /\ file.pid \in Command /\ proc[file.pid] # "none"
                     /\ proc[file.pid] = "dead" => <<"kill", file.pid>> \in ends
    BY DEF Calm, LeftInv
  <2> QED
    BY <2>2, <2>3 DEF Alive
<1> QED
  BY <1>1, Inductive, PTL

\* A start command that answers tells the truth.
THEOREM AnswersAreTrue == Spec => []TrueReport
<1>1. IInv => TrueReport
  BY DEF IInv, CalmInv, Calm, AnswerInv, TrueReport
<1> QED
  BY <1>1, Inductive, PTL
===============================================================================
