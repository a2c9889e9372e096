----------------------------- MODULE MCBtSocket -----------------------------
(***************************************************************************)
(* BtSocket with two threads and two objects, any of which may be swapped. *)
(***************************************************************************)
EXTENDS BtSocket, TLC

Symmetry == Permutations(Threads) \cup Permutations(Objects)
=============================================================================
