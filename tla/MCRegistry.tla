---------------------------- MODULE MCRegistry ----------------------------
(* An instance of CandidateRegistry: the runs all name the same candidate,  *)
(* the case the registry exists for.                                        *)
EXTENDS CandidateRegistry

CONSTANTS p1, p2, c1

SameCandidate == [p \in Run |-> c1]
=============================================================================
