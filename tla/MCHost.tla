------------------------------- MODULE MCHost -------------------------------
(***************************************************************************)
(* Instances of HostControl: an operator's unsafe command beside a script's *)
(* safe one with recovery; and one command that is listed as safe although  *)
(* it changes the device.                                                   *)
(***************************************************************************)
EXTENDS HostControl

CONSTANTS c1, c2

TwoNames == [c \in Client |-> IF c = c1 THEN "run" ELSE "status"]
WifiNames == [c \in Client |-> "wifi"]
Tries == Client \X (1..MaxTries)
=============================================================================
