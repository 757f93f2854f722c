----------------------------- MODULE MCCalcJobs -----------------------------
(* Bounded instances of CalcJobs.  The configurations differ in the faults  *)
(* they let happen; the attempts of a job bound every behaviour.            *)
EXTENDS CalcJobs, TLC

CONSTANTS j1, j2, w1, w2

MCJobs == {j1, j2}
MCWorkers == {w1, w2}

Symmetry == Permutations(MCJobs) \union Permutations(MCWorkers)
=============================================================================
