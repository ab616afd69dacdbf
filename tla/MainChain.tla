------------------------------ MODULE MainChain ------------------------------
(***************************************************************************)
(* What the block store promises: it keeps every block it accepts, and its *)
(* main chain is the branch of the first block that reached the greatest   *)
(* height.  Adding a block, with all the rewriting of the chain index it   *)
(* takes, is one step.                                                     *)
(***************************************************************************)
EXTENDS BlockTree

VARIABLES
    known,      \* the accepted blocks
    tip,        \* the top of the main chain
    main        \* the blocks of the main chain

vars == <<known, tip, main>>

Init ==
    /\ known = {Genesis}
    /\ tip = Genesis
    /\ main = {Genesis}

\* A new block on a known one: it becomes the top only if it is higher than
\* the present top, so of two blocks of one height the first one seen stays.
Add(b) ==
    /\ tip # None
    /\ b \notin known
    /\ Parent[b] \in known
    /\ known' = known \cup {b}
    /\ tip' = IF Height[b] > Height[tip] THEN b ELSE tip
    /\ main' = Branch(tip')

\* The operator's "dropblock": the top block goes, its parent becomes the top
\* even when another branch is now the longest.
Drop ==
    /\ tip # None
    /\ known' = known \ {tip}
    /\ tip' = Parent[tip]
    /\ main' = main \ {tip}

Next == Drop \/ \E b \in Block : Add(b)

Spec == Init /\ [][Next]_vars

=============================================================================
