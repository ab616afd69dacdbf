------------------------------- MODULE MCLedger -------------------------------
(***************************************************************************)
(* A block is the path to it, written as a number: each pair of digits     *)
(* names the transactions of one block, from the first block after the     *)
(* genesis block, 0, to itself, so 10203 is a block of kind 3 on one of    *)
(* kind 2 on one of kind 1.  A run chooses the kinds and the height, and   *)
(* meets every tree of such blocks in every order of arrival, valid or     *)
(* not.                                                                    *)
(***************************************************************************)
EXTENDS Payments, TLC

CONSTANTS
    t1, t2, t3, t4, t5, t6, t7,
    First,      \* the kinds of the first blocks
    Kinds,      \* the kinds of those above them
    MaxHeight

\* The transactions of each kind of block.
List == <<<<t1>>, <<t2>>, <<t3>>, <<t4>>, <<t5>>, <<t2, t6>>, <<t7>>, <<t1>>,
          \* What this node's miner may find in its pool.
          <<t2>>, <<t3>>, <<t4>>, <<t2, t3>>, <<t3, t2>>, <<t2, t5>>>>
Mined == 9 .. 14

\* The transactions of the run's kinds, and no others, reach the pool.
MCTx == UNION {ToSet(List[k]) : k \in First \cup Kinds}

\* The first transaction splits the reward of the genesis block in two; the
\* others use the halves: t2 and t4 the same one, t3 the other one, t5 what t2
\* creates, t7 the reward of block 1, and t6 both of these.
MCIns ==
    t1 :> <<<<0, 0>>>> @@ t2 :> <<<<t1, 0>>>> @@ t3 :> <<<<t1, 1>>>> @@
    t4 :> <<<<t1, 0>>>> @@ t5 :> <<<<t2, 0>>>> @@
    t6 :> <<<<t2, 0>>, <<1, 0>>>> @@ t7 :> <<<<1, 0>>>>
MCOutCount == [t \in MCTx |-> IF t = t1 THEN 2 ELSE 1]
Times ==
    t1 :> 1 @@ t2 :> 2 @@ t3 :> 2 @@ t4 :> 3 @@ t5 :> 3 @@ t6 :> 3 @@ t7 :> 4
MCTime == [t \in MCTx |-> Times[t]]

MCPaths[h \in Nat] ==
    IF h = 0 THEN {0} ELSE IF h = 1 THEN First
    ELSE {100 * b + k : b \in MCPaths[h - 1], k \in Kinds}
MCBlock == UNION {MCPaths[h] : h \in 0 .. MaxHeight}
MCHeight[b \in MCBlock] == IF b = 0 THEN 0 ELSE MCHeight[b \div 100] + 1
MCParent == [b \in MCBlock |-> IF b = 0 THEN None ELSE b \div 100]
MCLine[b \in MCBlock] == IF b = 0 THEN {0} ELSE MCLine[b \div 100] \cup {b}
MCTxs == [b \in MCBlock |-> IF b = 0 THEN << >> ELSE List[b % 100]]

\* Outputs number 0, the rewards among them, are one wallet's, the other one is
\* another's.
MCOutput ==
    UNION {{x} \X (0 .. IF x = t1 THEN 1 ELSE 0) : x \in MCTx \cup MCBlock}
MCKeyOf == [o \in MCOutput |-> IF o[2] = 0 THEN "miner" ELSE "payee"]
MCValue == [o \in MCOutput |->
               IF o[1] \in {t1, t2} THEN 2 ELSE IF o[1] \in MCTx THEN 3 ELSE 1]
MCOwn == {b \in MCBlock : b % 100 \in Mined}

=============================================================================
