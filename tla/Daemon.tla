-------------------------------- MODULE Daemon --------------------------------
(***************************************************************************)
(* The commands that start, stop and look for the server of one data       *)
(* directory, and the server processes they start.  All they share is the  *)
(* PID file: who runs, the string that authorises local commands, and how  *)
(* the start went.  A write of the file empties it first.                  *)
(*                                                                         *)
(* A start command and the process it starts have one name.  What a server *)
(* does between its start and its end is NodeServer's.                     *)
(***************************************************************************)
EXTENDS Naturals, FiniteSets

CONSTANTS
    Command,    \* the commands given
    Kinds,      \* command -> what it may be
    None,
    Empty,      \* a file without contents
    MaxAtOnce,  \* bound: how many commands are under way at once
    MaxEnds  \* bound: how often a server is killed or interrupted

Calls == {"start", "interactive", "stop", "state"}

\* What the file holds.  An authorisation string is named after the command
\* that made it up; Other is one made up by a server that found no file.
Other == "other"
Content == [pid : Command \cup {None}, auth : Command \cup {None, Other},
            started : {"n", "y", "error"}]

ASSUME DaemonAssumption ==
    /\ Kinds \in [Command -> SUBSET Calls]
    /\ None \notin Command
    /\ Empty # None /\ {Empty, None} \cap Content = {}
    /\ MaxAtOnce \in Nat /\ MaxEnds \in Nat

VARIABLES
    file,       \* the PID file: None, Empty or a record
    open,       \* who writes to the file that is in the directory now
    kind,       \* the kind of a command
    pc,         \* where a command stands
    target,     \* the process a stop or a query has read in the file
    outcome,    \* what a start command answers
    proc,       \* where a server process stands
    auth,       \* its NodeAuthStr
    waiter,     \* where its waitServerStarted stands
    result,     \* the result it has to save
    read,       \* the file as it has read it
    ends,       \* who has been killed or interrupted
    \* History, for the properties.
    calm        \* commands came one after the other, none while a server
                \* started or went down, and no child was faster than the
                \* write of its file

commands == <<kind, pc, target, outcome>>
servers == <<proc, auth, waiter, result, read>>
vars == <<file, open, commands, servers, ends, calm>>

NoFile == None

TypeOK ==
    /\ file \in Content \cup {Empty, NoFile}
    /\ open \subseteq {"command", "waiter"} \X Command
    /\ kind \in [Command -> Calls]
    /\ pc \in [Command -> {"off", "check", "clean", "spawn", "create", "write",
                           "poll", "remove", "kill", "serving", "done"}]
    /\ target \in [Command -> Command \cup {None}]
    /\ outcome \in [Command -> {"none", "refused", "started", "failed",
                                "unsure"}]
    /\ proc \in [Command -> {"none", "loading", "listening", "told", "running",
                             "deaf", "failed", "stopping", "closed", "ending",
                             "dead"}]
    /\ auth \in [Command -> Command \cup {None, Other}]
    /\ waiter \in [Command -> {"none", "load", "create", "write", "done"}]
    /\ result \in [Command -> {"none", "y", "error"}]
    /\ read \in [Command -> Content \cup {NoFile}]
    /\ ends \subseteq {"kill", "interrupt"} \X Command
    /\ calm \in BOOLEAN

Init ==
    /\ file = NoFile /\ open = {}
    /\ kind \in {k \in [Command -> UNION {Kinds[c] : c \in Command}] :
                    \A c \in Command : k[c] \in Kinds[c]}
    /\ pc = [c \in Command |-> "off"]
    /\ target = [c \in Command |-> None]
    /\ outcome = [c \in Command |-> "none"]
    /\ proc = [c \in Command |-> "none"]
    /\ auth = [c \in Command |-> None]
    /\ waiter = [c \in Command |-> "none"]
    /\ result = [c \in Command |-> "none"]
    /\ read = [c \in Command |-> NoFile]
    /\ ends = {} /\ calm = TRUE

Alive(p) == proc[p] \notin {"none", "dead"}
Holds(p) == proc[p] \in {"running", "deaf", "stopping"}  \* the port
\* Neither starting nor going down.
Settled(p) == proc[p] = "running" /\ waiter[p] = "done"
Active(c) == pc[c] \notin {"off", "serving", "done"}
Idle == \A c \in Command : ~Active(c)
IsContent == file \notin {Empty, NoFile}

\* loadPIDFile gives a process that can be looked for.
Names(p) == IsContent /\ p # None /\ file.pid = p

Move(c, here, there) ==
    /\ pc[c] = here
    /\ pc' = [pc EXCEPT ![c] = there]

Finish(c, here, answer) ==
    /\ Move(c, here, "done")
    /\ outcome' = [outcome EXCEPT ![c] = answer]

\* os.Remove: who still writes, writes to a file nobody finds.
RemoveFile == file' = NoFile /\ open' = {}

\* The two steps of savePIDFile.
CreateFile(who) == file' = Empty /\ open' = open \cup {who}
WriteFile(who, content) ==
    /\ file' = IF who \in open THEN content ELSE file
    /\ open' = open \ {who}

(***************************************************************************)
(* Commands that start a server                                            *)
(***************************************************************************)

Starts(c) == kind[c] \in {"start", "interactive"}

Call(c) ==
    /\ Cardinality({d \in Command : Active(d)}) < MaxAtOnce
    /\ Move(c, "off", "check")
    /\ calm' = /\ calm /\ Idle
               /\ \A p \in Command : Alive(p) => Settled(p)
    /\ UNCHANGED <<file, open, kind, target, outcome, servers, ends>>

\* checkPIDFile.  A file in the wrong format or of a dead process is removed.
CheckPIDFile(c) ==
    /\ Starts(c)
    /\ IF \E p \in Command : Names(p) /\ Alive(p)
       THEN Finish(c, "check", "refused")
       ELSE /\ Move(c, "check", IF file = NoFile THEN "spawn" ELSE "clean")
            /\ outcome' = outcome
    /\ UNCHANGED <<file, open, kind, target, servers, ends, calm>>

CleanPIDFile(c) ==
    /\ Move(c, "clean", "spawn")
    /\ RemoveFile
    /\ UNCHANGED <<kind, target, outcome, servers, ends, calm>>

\* The child of a daemon's start runs at once; an interactive server is the
\* command itself and writes the file first.
Spawn(c) ==
    /\ Move(c, "spawn", "create")
    /\ proc' = IF kind[c] = "start" THEN [proc EXCEPT ![c] = "loading"]
               ELSE proc
    /\ UNCHANGED <<file, open, kind, target, outcome, auth, waiter, result,
                   read, ends, calm>>

CreatePIDFile(c) ==
    /\ Move(c, "create", "write")
    /\ CreateFile(<<"command", c>>)
    /\ UNCHANGED <<kind, target, outcome, servers, ends, calm>>

\* Mutant: the file says that the server has started.
WriteStarted(c) ==
    /\ Move(c, "write", IF kind[c] = "start" THEN "poll" ELSE "serving")
    /\ WriteFile(<<"command", c>>, [pid |-> c, auth |-> c, started |-> "y"])
    /\ proc' = IF kind[c] = "start" THEN proc
               ELSE [proc EXCEPT ![c] = "loading"]
    /\ UNCHANGED <<kind, target, outcome, auth, waiter, result, read, ends,
                   calm>>

WritePIDFile(c) ==
    /\ Move(c, "write", IF kind[c] = "start" THEN "poll" ELSE "serving")
    /\ WriteFile(<<"command", c>>,
                 [pid |-> c, auth |-> c,
                  started |-> IF kind[c] = "start" THEN "n" ELSE "y"])
    /\ proc' = IF kind[c] = "start" THEN proc
               ELSE [proc EXCEPT ![c] = "loading"]
    /\ UNCHANGED <<kind, target, outcome, auth, waiter, result, read, ends,
                   calm>>

\* One look a second.  Without a file the result is the empty string, which
\* counts as an error; a file in the wrong format ends the wait.  "unsure" is
\* the end of a wait that learned nothing: the caller gets nil, as for
\* "started", and only the latter is a report about the server.
Poll(c) ==
    /\ \/ IsContent /\ file.started = "y" /\ Finish(c, "poll", "started")
       \/ IsContent /\ file.started = "error" /\ Finish(c, "poll", "failed")
       \/ file = NoFile /\ Finish(c, "poll", "failed")
       \/ file = Empty /\ Finish(c, "poll", "unsure")
    /\ UNCHANGED <<file, open, kind, target, servers, ends, calm>>

\* Twelve looks found "n".
PollTimesOut(c) ==
    /\ IsContent /\ file.started = "n"
    /\ Finish(c, "poll", "unsure")
    /\ UNCHANGED <<file, open, kind, target, servers, ends, calm>>

(***************************************************************************)
(* Commands that stop or look for a server                                 *)
(***************************************************************************)

\* Mutant: a query removes the file whoever it finds.
ReadAndRemove(c) ==
    /\ ~Starts(c)
    /\ LET p == IF IsContent THEN file.pid ELSE None
       IN  /\ target' = [target EXCEPT
                             ![c] = IF kind[c] = "stop" THEN p ELSE None]
           /\ Move(c, "check", IF p # None THEN "remove" ELSE "done")
    /\ UNCHANGED <<file, open, kind, outcome, servers, ends, calm>>

\* StopServer and GetServerState read the file; a query removes the file of a
\* process that is dead.
ReadPIDFile(c) ==
    /\ ~Starts(c)
    /\ LET p == IF IsContent THEN file.pid ELSE None
       IN  /\ target' = [target EXCEPT
                             ![c] = IF kind[c] = "stop" THEN p ELSE None]
           /\ Move(c, "check",
                   IF p # None /\ (kind[c] = "stop" \/ ~Alive(p)) THEN "remove"
                   ELSE "done")
    /\ UNCHANGED <<file, open, kind, outcome, servers, ends, calm>>

RemovePIDFile(c) ==
    /\ Move(c, "remove", IF kind[c] = "stop" THEN "kill" ELSE "done")
    /\ RemoveFile
    /\ UNCHANGED <<kind, target, outcome, servers, ends, calm>>

\* The signal.  Before the server waits for it, and once it has had one, it
\* just ends the process.  A server that does not listen yet is told, but its
\* call to itself may fail.
Kill(c) ==
    /\ Move(c, "kill", "done")
    /\ target' = [target EXCEPT ![c] = None]
    /\ LET p == target[c]
           After == CASE proc[p] = "running" -> "stopping"
                      [] proc[p] = "listening" -> "told"
                      [] proc[p] \in {"none", "failed"} -> proc[p]
                      [] OTHER -> "dead"
       IN  /\ proc' = [proc EXCEPT ![p] = After]
           /\ waiter' = IF After = "dead" THEN [waiter EXCEPT ![p] = "done"]
                        ELSE waiter
           /\ open' = IF After = "dead" THEN open \ {<<"waiter", p>>} ELSE open
    /\ UNCHANGED <<file, kind, outcome, auth, result, read, ends,
                   calm>>

(***************************************************************************)
(* The server process                                                      *)
(***************************************************************************)

Goes(p, here, there) ==
    /\ proc[p] \in here
    /\ proc' = [proc EXCEPT ![p] = there]

\* DaemonizeServer.  The child may be faster than the write of its file.
LoadAuth(p) ==
    /\ Goes(p, {"loading"}, "listening")
    /\ auth' = [auth EXCEPT ![p] = IF IsContent THEN file.auth ELSE None]
    /\ calm' = (calm /\ pc[p] \notin {"create", "write"})
    /\ UNCHANGED <<file, open, commands, waiter, result, read, ends>>

\* The result goes to waitServerStarted.
Report(p, answer) ==
    /\ result' = [result EXCEPT ![p] = answer]
    /\ waiter' = [waiter EXCEPT ![p] = "load"]
    /\ UNCHANGED <<file, open, commands, auth, read, ends, calm>>

Listen(p) ==
    /\ \A q \in Command : ~Holds(q)
    /\ \/ Goes(p, {"listening"}, "running")
       \/ Goes(p, {"told"}, "stopping")
       \/ Goes(p, {"told"}, "deaf")
    /\ Report(p, "y")

ListenFails(p) ==
    /\ \E q \in Command : Holds(q)
    /\ Goes(p, {"listening", "told"}, "failed")
    /\ Report(p, "error")

\* Mutant: a file that cannot be read is an early return.
WaiterGivesUp(p) ==
    /\ waiter[p] = "load"
    /\ waiter' = [waiter EXCEPT
                     ![p] = IF file = Empty THEN "none" ELSE "create"]
    /\ read' = [read EXCEPT ![p] = IF file = Empty THEN NoFile ELSE file]
    /\ UNCHANGED <<file, open, commands, proc, auth, result, ends, calm>>

\* waitServerStarted: load, and save what was loaded with the result.
WaiterLoads(p) ==
    /\ waiter[p] = "load"
    /\ waiter' = [waiter EXCEPT
                     ![p] = IF file = Empty THEN "done" ELSE "create"]
    /\ read' = [read EXCEPT ![p] = IF file = Empty THEN NoFile ELSE file]
    /\ UNCHANGED <<file, open, commands, proc, auth, result, ends, calm>>

WaiterCreates(p) ==
    /\ waiter[p] = "create"
    /\ waiter' = [waiter EXCEPT ![p] = "write"]
    /\ CreateFile(<<"waiter", p>>)
    /\ UNCHANGED <<commands, proc, auth, result, read, ends, calm>>

\* Mutant: the result is saved with a string of its own.
WaiterWritesAlone(p) ==
    /\ waiter[p] = "write"
    /\ waiter' = [waiter EXCEPT ![p] = "done"]
    /\ WriteFile(<<"waiter", p>>,
                 [pid |-> p, auth |-> Other, started |-> result[p]])
    /\ read' = [read EXCEPT ![p] = NoFile]
    /\ UNCHANGED <<commands, proc, auth, result, ends, calm>>

WaiterWrites(p) ==
    /\ waiter[p] = "write"
    /\ waiter' = [waiter EXCEPT ![p] = "done"]
    /\ WriteFile(<<"waiter", p>>,
                 [pid |-> IF read[p] = NoFile THEN None ELSE read[p].pid,
                  auth |-> IF read[p] = NoFile THEN Other ELSE read[p].auth,
                  started |-> result[p]])
    /\ read' = [read EXCEPT ![p] = NoFile]
    /\ UNCHANGED <<commands, proc, auth, result, ends, calm>>

\* The accept loop ends; a deaf server hears of it at the next connection.
StopListening(p) ==
    /\ Goes(p, {"stopping", "deaf"}, "closed")
    /\ UNCHANGED <<file, open, commands, auth, waiter, result, read, ends,
                   calm>>

RemoveOwnPIDFile(p) ==
    /\ Goes(p, {"closed"}, "ending")
    /\ RemoveFile
    /\ UNCHANGED <<commands, auth, waiter, result, read, ends, calm>>

\* The end of the process.  An interactive server removes the file once more.
EndProcess(p) ==
    /\ waiter[p] = "done"
    /\ Goes(p, {"ending", "failed"}, "dead")
    /\ IF kind[p] = "interactive" THEN RemoveFile ELSE UNCHANGED <<file, open>>
    /\ UNCHANGED <<commands, auth, waiter, result, read, ends, calm>>

Ends(how, p) ==
    /\ Cardinality(ends) < MaxEnds
    /\ ends' = ends \cup {<<how, p>>}

\* A signal that no stop command sends: Ctrl+C, or the system going down.
Interrupt(p) ==
    /\ Goes(p, {"running"}, "stopping")
    /\ Ends("interrupt", p)
    /\ calm' = (calm /\ Settled(p) /\ Idle)
    /\ UNCHANGED <<file, open, commands, auth, waiter, result, read>>

\* The process is killed; what it has written stays.
Crash(p) ==
    /\ Alive(p)
    /\ Ends("kill", p)
    /\ proc' = [proc EXCEPT ![p] = "dead"]
    /\ waiter' = [waiter EXCEPT ![p] = "done"]
    /\ open' = open \ {<<"waiter", p>>}
    /\ UNCHANGED <<file, commands, auth, result, read, calm>>

CommandStep(c) ==
    \/ CheckPIDFile(c) \/ CleanPIDFile(c) \/ Spawn(c)
    \/ CreatePIDFile(c) \/ WritePIDFile(c) \/ Poll(c) \/ PollTimesOut(c)
    \/ ReadPIDFile(c) \/ RemovePIDFile(c) \/ Kill(c)

WaiterStep(p) == WaiterLoads(p) \/ WaiterCreates(p) \/ WaiterWrites(p)

ServerStep(p) ==
    \/ LoadAuth(p) \/ Listen(p) \/ ListenFails(p)
    \/ StopListening(p) \/ RemoveOwnPIDFile(p) \/ EndProcess(p)

Next ==
    \E c \in Command : \/ Call(c)
                       \/ CommandStep(c)
                       \/ WaiterStep(c)
                       \/ ServerStep(c)
                       \/ Interrupt(c)
                       \/ Crash(c)

Spec == Init /\ [][Next]_vars

\* Processes run; nobody has to give a command or to connect to a deaf server.
FairSpec ==
    /\ Spec
    /\ \A c \in Command :
          /\ WF_vars(CommandStep(c))
          /\ WF_vars(WaiterStep(c))
          /\ WF_vars(ServerStep(c) /\ proc[c] # "deaf")

(***************************************************************************)
(* Properties                                                              *)
(***************************************************************************)

\* daemon.go:73: whatever has been killed, started and stopped before, two
\* processes never serve one data directory.
OneServer ==
    calm => \A p, q \in Command : Alive(p) /\ Alive(q) => p = q

\* daemon.go:216, 311, 356: between commands the file names the server that
\* runs, with the string the server knows, so that local commands reach it and
\* stop can end it; and when all servers have ended by themselves, they have
\* left no record of one.
FileNamesServer ==
    calm /\ Idle =>
        /\ \A p \in Command :
              Settled(p) =>
                  file = [pid |-> p, auth |-> auth[p], started |-> "y"]
        /\ (\A p \in Command : ~Alive(p) /\ <<"kill", p>> \notin ends)
           => ~IsContent

\* daemon.go:170-190: a start that has read a result tells what happened to its
\* own server, not to one before it, and none is told that it failed.
TrueReport ==
    calm => \A c \in Command :
                /\ outcome[c] = "started" => result[c] = "y"
                /\ outcome[c] # "failed"

\* A server that has been told to stop ends, and so does every command.
StopIsObeyed ==
    \A p \in Command :
        /\ proc[p] = "stopping" ~> proc[p] = "dead"
        /\ Active(p) ~> ~Active(p)

===============================================================================
