----------------------------- MODULE MCJournal -----------------------------
(* The instance of F1Journal for TLC.                                      *)
EXTENDS F1Journal
=============================================================================
