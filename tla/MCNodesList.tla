----------------------------- MODULE MCNodesList -----------------------------
(***************************************************************************)
(* The node x, known at first, is removed while it sends a version; the    *)
(* operator adds y, and z is only known by a block.                        *)
(***************************************************************************)
EXTENDS NodesList, TLC

CONSTANTS x, y, z, v, a, r, b

MCCommands ==
    (v :> {"version", "addr"}) @@ (a :> {"addnode"}) @@ (r :> {"removenode"}) @@
    (b :> {"block"})
MCSubject == (v :> x) @@ (a :> y) @@ (r :> x) @@ (b :> z)
=============================================================================
