----------------------------- MODULE MCBaseline -----------------------------
(***************************************************************************)
(* Two grants: one for a bootstrap and what may follow it, one to leave    *)
(* the native baseline or to return to it.                                 *)
(***************************************************************************)
EXTENDS BaselineOwner

CONSTANTS g1, g2

TwoThenOne == [g \in {g1, g2} |-> IF g = g1 THEN 2 ELSE 1]
Operations == [g \in {g1, g2} |-> IF g = g1 THEN {"bootstrap", "experiment"}
                                  ELSE {"restore", "android-exit"}]
=============================================================================
