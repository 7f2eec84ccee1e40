--------------------------- MODULE F1JournalRules ---------------------------
(***************************************************************************)
(* What the F1 journal of device_action_f1_v2.py admits: transitions       *)
(* between states, the two orders of timeline events, and the checkpoints  *)
(* that number the transfer attempts.  _append refuses what Admits         *)
(* refuses, and records() refuses a chain that contains it.                *)
(***************************************************************************)
EXTENDS Naturals, Sequences

MAX_TRANSFER_ATTEMPTS == 2

NoState == "NONE"   \* Python's None: no transition recorded yet
STATES == {"PREFLIGHT", "APPROVED", "DOWNLOAD_IDENTIFIED",
           "CANDIDATE_FLASHED", "OBSERVED", "RECOVERY_DOWNLOAD",
           "ROLLBACK_FLASHED", "HEALTH_VERIFIED", "CLOSED", "ABORTED"}

NEXT_STATES ==
    [NONE                |-> {"PREFLIGHT"},
     PREFLIGHT           |-> {"APPROVED", "ABORTED"},
     APPROVED            |-> {"DOWNLOAD_IDENTIFIED", "RECOVERY_DOWNLOAD",
                              "ABORTED"},
     DOWNLOAD_IDENTIFIED |-> {"CANDIDATE_FLASHED", "RECOVERY_DOWNLOAD",
                              "ABORTED"},
     CANDIDATE_FLASHED   |-> {"OBSERVED", "ABORTED"},
     OBSERVED            |-> {"RECOVERY_DOWNLOAD", "ABORTED"},
     RECOVERY_DOWNLOAD   |-> {"ROLLBACK_FLASHED", "ABORTED"},
     ROLLBACK_FLASHED    |-> {"HEALTH_VERIFIED", "ABORTED"},
     HEALTH_VERIFIED     |-> {"CLOSED", "ABORTED"},
     CLOSED              |-> {},
     ABORTED             |-> {}]

TIMELINE == <<"live_session_start", "candidate_flash_start",
              "candidate_flash_done", "candidate_boot_ready",
              "rollback_flash_start", "rollback_flash_done",
              "rollback_boot_ready", "live_session_end">>
RECOVERY_TIMELINE == <<"live_session_start", "rollback_flash_start",
                       "rollback_flash_done", "rollback_boot_ready",
                       "live_session_end">>
RECOVERY_EVENT_STATES == {"RECOVERY_DOWNLOAD", "ROLLBACK_FLASHED",
                          "HEALTH_VERIFIED"}

EVENT_STATE == [live_session_start    |-> "PREFLIGHT",
                candidate_flash_start |-> "DOWNLOAD_IDENTIFIED",
                candidate_flash_done  |-> "CANDIDATE_FLASHED",
                candidate_boot_ready  |-> "OBSERVED",
                rollback_flash_start  |-> "RECOVERY_DOWNLOAD",
                rollback_flash_done   |-> "ROLLBACK_FLASHED",
                rollback_boot_ready   |-> "HEALTH_VERIFIED",
                live_session_end      |-> "HEALTH_VERIFIED"]

CHECKPOINT_STATE == [candidate |-> "DOWNLOAD_IDENTIFIED",
                     rollback  |-> "RECOVERY_DOWNLOAD",
                     revalidation |-> "RECOVERY_DOWNLOAD"]

Kind == {"candidate", "rollback"}

\* A record is its kind, its action (the target state of a transition) and,
\* for a checkpoint, the attempt number it declares.
Transitions == [kind : {"transition"}, action : STATES, attempt : {0}]
Events      == [kind : {"event"}, action : DOMAIN EVENT_STATE, attempt : {0}]
Checkpoints == [kind : {"checkpoint"}, action : DOMAIN CHECKPOINT_STATE,
                attempt : 1..(MAX_TRANSFER_ATTEMPTS + 1)]
JournalRecord == Transitions \cup Events \cup Checkpoints

To(state)          == [kind |-> "transition", action |-> state, attempt |-> 0]
Happened(event)    == [kind |-> "event", action |-> event, attempt |-> 0]
Attempt(kind, n)   == [kind |-> "checkpoint", action |-> kind, attempt |-> n]

\* What a chain of records says: the state, the events in order, and the
\* attempts its checkpoints have counted.
Summary == [state : STATES \cup {NoState},
            events : Seq(DOMAIN EVENT_STATE),
            attempts : [DOMAIN CHECKPOINT_STATE -> 0..MAX_TRANSFER_ATTEMPTS]]
Blank == [state |-> NoState, events |-> << >>,
          attempts |-> [k \in DOMAIN CHECKPOINT_STATE |-> 0]]

Has(s, event) == \E i \in 1..Len(s.events) : s.events[i] = event

\* Mutant of Order: every recovery state uses the shorter timeline.
OrderByState(s) ==
    IF s.state \in RECOVERY_EVENT_STATES THEN RECOVERY_TIMELINE ELSE TIMELINE

\* A run that recovers without ever starting a candidate transfer follows the
\* shorter timeline.
Order(s) == IF s.state \in RECOVERY_EVENT_STATES /\ ~Has(s, "candidate_flash_start")
            THEN RECOVERY_TIMELINE
            ELSE TIMELINE

AdmitsEvent(s, event) ==
    /\ Len(s.events) < Len(Order(s))
    /\ EVENT_STATE[event] = s.state
    /\ Order(s)[Len(s.events) + 1] = event

\* Mutant of AdmitsCheckpoint: the number of attempts is not bounded.
AdmitsAnyAttempt(s, action, attempt) ==
    /\ CHECKPOINT_STATE[action] = s.state
    /\ attempt = s.attempts[action] + 1

\* _validate_checkpoint: attempts are counted from one without gaps.
AdmitsCheckpoint(s, action, attempt) ==
    /\ CHECKPOINT_STATE[action] = s.state
    /\ attempt = s.attempts[action] + 1
    /\ attempt <= IF action = "revalidation" THEN 1 ELSE MAX_TRANSFER_ATTEMPTS

Admits(s, r) ==
    \/ r.kind = "transition" /\ r.action \in NEXT_STATES[s.state]
    \/ r.kind = "event"      /\ AdmitsEvent(s, r.action)
    \/ r.kind = "checkpoint" /\ AdmitsCheckpoint(s, r.action, r.attempt)

Apply(s, r) ==
    CASE r.kind = "transition" -> [s EXCEPT !.state = r.action]
      [] r.kind = "event"      -> [s EXCEPT !.events = Append(@, r.action)]
      [] r.kind = "checkpoint" -> [s EXCEPT !.attempts[r.action] = r.attempt]
=============================================================================
