-------------------------------- MODULE MCSync --------------------------------
(***************************************************************************)
(* The blocks are the numbers 0 .. N, and a tree gives each of 1 .. N its  *)
(* parent.                                                                 *)
(***************************************************************************)
EXTENDS Sync

CONSTANT Tree

\* A branch of three blocks, and a block beside its first.
Fork4 == <<0, 1, 2, 0>>

MCBlock == 0 .. Len(Tree)
MCParent == [b \in MCBlock |-> IF b = 0 THEN None ELSE Tree[b]]
MCHeight[b \in MCBlock] == IF b = 0 THEN 0 ELSE MCHeight[Tree[b]] + 1
MCLine[b \in MCBlock] ==
    IF b = 0 THEN {0} ELSE MCLine[Tree[b]] \cup {b}

=============================================================================
