------------------------------- MODULE MCDedup -------------------------------
(* Three equal requests: one that finishes, one that enters and one that is   *)
(* rejected, at the same time.                                                *)
EXTENDS Dedup, TLC

Symmetry == Permutations(Requests)
=============================================================================
