------------------------------- MODULE MCRun -------------------------------
(***************************************************************************)
(* Instances of F1Run: two runs of one candidate, or a single run.         *)
(***************************************************************************)
EXTENDS F1Run, TLC

CONSTANTS p1, p2, ap

OneCandidate == (p1 :> ap) @@ (p2 :> ap)
Symmetry == Permutations(Run)
=============================================================================
