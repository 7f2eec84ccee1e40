---------------------------- MODULE ClaimLedger ----------------------------
(***************************************************************************)
(* What the consumed-candidate registry promises its callers, without      *)
(* files, locks or crashes: at most one claim of a candidate key is active,*)
(* a granted claim stays active until its own transfer was classified as   *)
(* an odin_local_parse_failure, and a transfer needs a granted claim.      *)
(* CandidateRegistry implements it file operation by file operation;       *)
(* F1Run uses it as the registry and implements the caller's half.         *)
(***************************************************************************)
CONSTANTS
    Claim,     \* the claims that can be made
    KeyOf,     \* the candidate key of each claim
    Legacy     \* keys on the activation deny list

VARIABLES
    active,    \* claims in force
    granted,   \* claims whose receipt reached the caller
    failures,  \* claims whose transfer was a local parse failure
    sessions   \* claims whose transfer may have opened a device session

vars == <<active, granted, failures, sessions>>

Init == active = {} /\ granted = {} /\ failures = {} /\ sessions = {}

Append(c) ==
    /\ KeyOf[c] \notin Legacy
    /\ \A d \in active : KeyOf[d] # KeyOf[c]
    /\ c \notin granted
    /\ active' = active \cup {c}
    /\ UNCHANGED <<granted, failures, sessions>>

Grant(c) ==
    /\ c \in active
    /\ granted' = granted \cup {c}
    /\ UNCHANGED <<active, failures, sessions>>

Transfer(c) ==
    /\ c \in granted \ (failures \cup sessions)
    /\ \/ failures' = failures \cup {c} /\ UNCHANGED sessions
       \/ sessions' = sessions \cup {c} /\ UNCHANGED failures
    /\ UNCHANGED <<active, granted>>

Release(c) ==
    /\ c \in active \cap failures
    /\ active' = active \ {c}
    /\ UNCHANGED <<granted, failures, sessions>>

\* A power cut may take back what was never confirmed: claims that were not
\* granted disappear, releases are undone.
Lapse ==
    /\ active' \in SUBSET (active \cup failures)
    /\ active \cap granted \subseteq active'
    /\ \A c, d \in active' : KeyOf[c] = KeyOf[d] => c = d
    /\ UNCHANGED <<granted, failures, sessions>>

Next ==
    \/ \E c \in Claim : Append(c) \/ Grant(c) \/ Transfer(c) \/ Release(c)
    \/ Lapse

Spec == Init /\ [][Next]_vars
=============================================================================
