-------------------------- MODULE MCProjectService --------------------------
(* TLC instance of ProjectService. *)
EXTENDS ProjectService, TLC

CONSTANTS t1, t2, r1, r2, r3

NoDependencies == [t \in Tasks |-> {}]
RunSymmetry == Permutations(Runs)
=============================================================================
