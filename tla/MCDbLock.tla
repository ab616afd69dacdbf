------------------------------- MODULE MCDbLock -------------------------------
(***************************************************************************)
(* A server with a handler and the goroutine that refreshes the list of    *)
(* nodes, and a command beside it.                                         *)
(***************************************************************************)
EXTENDS DbLock, TLC

CONSTANTS handler, nodes, command, server, cli, bc, nd

MCProcessOf == (handler :> server) @@ (nodes :> server) @@ (command :> cli)
MCPlan == (handler :> <<bc, nd>>) @@ (nodes :> <<nd>>) @@ (command :> <<bc>>)
================================================================================
