------------------------------- MODULE MCPool -------------------------------
(***************************************************************************)
(* Instances of Pool for TLC.  The cursor is a counter of a few values, so *)
(* that it wraps within a run.                                             *)
(***************************************************************************)
EXTENDS Pool, TLC

Symmetry == Permutations(Threads)
=============================================================================
