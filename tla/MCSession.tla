----------------------------- MODULE MCSession -----------------------------
(***************************************************************************)
(* Instances of AttendedSession: two grants that share an experiment, and a *)
(* run of each experiment.                                                  *)
(***************************************************************************)
EXTENDS AttendedSession

CONSTANTS g1, g2, a1, b1, A, B

TwoExperiments == [r \in Run |-> IF r = b1 THEN B ELSE A]
Catalogs == [g \in Grant |-> IF g = g1 THEN <<A, B>> ELSE <<A>>]
Budgets  == [g \in Grant |-> IF g = g1 THEN 3 ELSE 1]
=============================================================================
