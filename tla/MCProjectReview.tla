-------------------------- MODULE MCProjectReview --------------------------
(* A project with its creator and two more users of the tenant.  Every      *)
(* editor request is made once, so the set of calls bounds the history.     *)
EXTENDS ProjectReview, TLC

Symmetry == Permutations(Users \ {Creator}) \union Permutations(Calls)
=============================================================================
