------------------------------ MODULE BestChain -------------------------------
(***************************************************************************)
(* What the import loop promises to its readers: a tree of blocks that     *)
(* only grows, and a main chain, given by its tip, that ends in the first  *)
(* block learned of those whose ancestry has the most bits.                *)
(***************************************************************************)
EXTENDS Integers

CONSTANTS Block, Null, Bits

VARIABLES
  tree,   \* what is known of each block learned: its parent and total bits
  tip     \* the last block of the main chain, or Null

vars == <<tree, tip>>

Total(b) == IF b = Null THEN 0 ELSE tree[b].total

Init == tree = [b \in {} |-> [parent |-> Null, total |-> 0]] /\ tip = Null

\* A block is learned after its parent.
Learn(b, parent, bits) ==
  /\ b \notin DOMAIN tree
  /\ parent \in DOMAIN tree \cup {Null}
  /\ tree' = [c \in DOMAIN tree \cup {b} |->
                IF c = b THEN [parent |-> parent, total |-> Total(parent) + bits]
                ELSE tree[c]]
  /\ tip' = IF Total(parent) + bits > Total(tip) THEN b ELSE tip

Next == \E b \in Block, parent \in Block \cup {Null}, bits \in Bits :
           Learn(b, parent, bits)

Spec == Init /\ [][Next]_vars
=============================================================================
