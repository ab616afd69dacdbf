------------------------------ MODULE MCDaemon ------------------------------
(***************************************************************************)
(* Two commands that start a server, the second perhaps without a daemon,  *)
(* and one that stops it or looks for it.                                  *)
(***************************************************************************)
EXTENDS Daemon, TLC

CONSTANTS s1, s2, t

MCCommand == {s1, s2, t}
MCKinds == s1 :> {"start"} @@ s2 :> {"start", "interactive"} @@
           t :> {"stop", "state"}
=============================================================================
