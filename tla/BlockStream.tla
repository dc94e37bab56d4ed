------------------------------ MODULE BlockStream ------------------------------
(***************************************************************************)
(* What the import loop supposes of the reader of the block files: blocks  *)
(* come one after the other, and a position that was saved is where the    *)
(* reader is after a restart.                                              *)
(***************************************************************************)
EXTENDS Integers

VARIABLES
  written,    \* how many blocks there are
  position,   \* how many of them were read
  saved       \* the position that survives a restart

vars == <<written, position, saved>>

Init == written = 0 /\ position = 0 /\ saved = 0

Write == written' = written + 1 /\ UNCHANGED <<position, saved>>

Read == position < written /\ position' = position + 1 /\ UNCHANGED <<written, saved>>

Save == saved' = position /\ UNCHANGED <<written, position>>

Restart == position' = saved /\ UNCHANGED <<written, saved>>

Next == Write \/ Read \/ Save \/ Restart

Spec == Init /\ [][Next]_vars
=============================================================================
