---------------------------- MODULE MCChainStore ----------------------------
(***************************************************************************)
(* The blocks are the numbers 0 .. N, and a tree gives each of 1 .. N its  *)
(* parent.  The runs meet every part of that tree in every order of        *)
(* arrival.                                                                *)
(***************************************************************************)
EXTENDS ChainQueries

CONSTANT Tree

\* Two blocks at height 1, two children of each, and one child of each of
\* those: four branches of three blocks in two pairs.
Low == <<0, 0, 1, 1, 2, 2>>
Small == Low \o <<3, 4, 5, 6>>

MCBlock == 0 .. Len(Tree)
MCParent == [b \in MCBlock |-> IF b = 0 THEN None ELSE Tree[b]]
MCHeight[b \in MCBlock] == IF b = 0 THEN 0 ELSE MCHeight[Tree[b]] + 1
MCLine[b \in MCBlock] ==
    IF b = 0 THEN {0} ELSE MCLine[Tree[b]] \cup {b}

=============================================================================
