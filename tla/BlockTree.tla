------------------------------ MODULE BlockTree ------------------------------
(***************************************************************************)
(* The blocks that can exist.  A block names its predecessor by hash       *)
(* (structures.Block.PrevBlockHash) and carries its own height, so all the *)
(* blocks ever made form a tree rooted at the genesis block.  A hash and   *)
(* the block it identifies are one value here.                             *)
(***************************************************************************)
EXTENDS Integers

CONSTANTS
    Block,      \* every block that can be received or mined
    Genesis,    \* the first block
    None,       \* the empty hash
    Parent,     \* Block.PrevBlockHash
    Height,     \* Block.Height
    Line        \* Line[b]: b and its ancestors down to the genesis block

ASSUME BlockAssumption ==
    /\ Genesis \in Block
    /\ None \notin Block

\* structures/block.go: the height of a block is the height of the block it
\* was prepared on plus one, and only the genesis block has no previous hash.
ASSUME ParentAssumption ==
    /\ Parent \in [Block -> Block \cup {None}]
    /\ Height \in [Block -> Nat]
    /\ \A b \in Block : Parent[b] = None <=> b = Genesis
    /\ Height[Genesis] = 0
    /\ \A b \in Block \ {Genesis} : Height[b] = Height[Parent[b]] + 1

\* What following Parent from a block meets.
ASSUME LineAssumption ==
    /\ Line \in [Block -> SUBSET Block]
    /\ Line[Genesis] = {Genesis}
    /\ \A b \in Block \ {Genesis} : Line[b] = Line[Parent[b]] \cup {b}
    /\ \A b \in Block : Genesis \in Line[b]
    /\ \A b \in Block : \A c \in Line[b] :
          /\ Line[c] \subseteq Line[b]
          /\ Height[c] <= Height[b]
          /\ Height[c] = Height[b] => c = b
          /\ \A d \in Line[b] : c \in Line[d] \/ d \in Line[c]

\* The blocks of the branch that ends in h; the empty hash ends none.
Branch(h) == IF h = None THEN {} ELSE Line[h]

=============================================================================
