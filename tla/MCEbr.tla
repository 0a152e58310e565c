------------------------------- MODULE MCEbr -------------------------------
(***************************************************************************)
(* Instances of Ebr for TLC.  Each node is retired once, so the epoch is   *)
(* bounded by the number of nodes.                                         *)
(***************************************************************************)
EXTENDS Ebr, TLC

Symmetry == Permutations(Threads) \cup Permutations(Nodes)
=============================================================================
