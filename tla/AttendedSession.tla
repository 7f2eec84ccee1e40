-------------------------- MODULE AttendedSession --------------------------
(***************************************************************************)
(* Attended F1 session grants (s22plus_attended_f1_session_v1.py) around   *)
(* the execution and the recovery of runs (execute_attended_session,       *)
(* execute_prepared and recover_prepared of device_action_f1_live_v2.py).  *)
(*                                                                         *)
(* A grant freezes an ordered catalog of experiments and a budget of       *)
(* reservations.  Executions, recoveries and the opening of a grant hold   *)
(* the target-session lease, so one process at a time is enough; closing a *)
(* grant and the passing of its deadline need no lease and happen between  *)
(* any two of its steps.  The device phase of a run, which F1Run models in *)
(* full, is one step here with the results it can end in.                  *)
(***************************************************************************)
EXTENDS Naturals, Sequences, FiniteSets

CONSTANTS
    Grant,       \* session grants
    Run,         \* prepared runs
    Manifest,    \* experiments
    ManifestOf,  \* the manifest each run was prepared from
    Catalog,     \* the frozen catalog of each grant
    Budget,      \* its reservations
    None,        \* no grant, no run
    MaxFaults    \* bound on interruptions and on failing device phases

LIMIT == 3

\* open_session and load_grant: the shape of an acceptable grant.
ASSUME SessionAssumption ==
    /\ None \notin Grant \cup Run
    /\ MaxFaults \in Nat
    /\ ManifestOf \in [Run -> Manifest]
    /\ Budget \in [Grant -> 1..LIMIT]
    /\ DOMAIN Catalog = Grant
    /\ \A g \in Grant : /\ Catalog[g] \in Seq(Manifest)
                        /\ Len(Catalog[g]) \in 1..Budget[g]
                        /\ \A i, j \in 1..Len(Catalog[g]) :
                              Catalog[g][i] = Catalog[g][j] => i = j

VARIABLES
    session,    \* the files of each grant directory, and whether it has lapsed
    dir,        \* the files of each run directory
    owner,      \* the run named by f1-owner.json
    proc,       \* the process that holds the target-session lease
    faults,     \* interruptions so far
    broken,     \* history: grants one of whose runs was cut before its end
    late,       \* history: runs that asked for Download under a dead grant
    spoiled     \* history: recoveries that published their end, then raised

vars == <<session, dir, owner, proc, faults, broken, late, spoiled>>
history == <<broken, late, spoiled>>

\* live-result.json: how the run ended, and after how many device phases.
\* "required" is RECOVERY_REQUIRED: the journal is then not at an end.  Execution
\* and recovery name a released parse failure differently.
Kind == {"none", "pass", "no_proof", "pre_effect", "local_parse",
         "parse_recovered", "required"}
ClosedKind == {"pass", "no_proof"}
Result == [kind : Kind, at : 0..MaxFaults + 1]
NoResult == [kind |-> "none", at |-> 0]

Authorization == [grant : Grant \cup {None}, ordinal : 0..LIMIT]
NoAuth == [grant |-> None, ordinal |-> 0]

\* "APPROVED" stands for every state from approval to the end of the run.
JournalState == {"none", "PREFLIGHT", "APPROVED", "CLOSED", "ABORTED"}
Terminal == {"CLOSED", "ABORTED"}

Label == {"idle", "publish", "sidecar", "start", "recheck", "approve", "arm",
          "effect", "abort", "own", "request", "device", "result", "retire",
          "finish", "close", "except", "before", "recover"}

\* The files of a grant directory, of a run directory, and the process.
GrantFiles == [open : BOOLEAN, closed : BOOLEAN, lapsed : BOOLEAN,
               reserved : Seq(Run), completed : [1..LIMIT -> Result]]

RunFiles == [auth : Authorization, journal : JournalState,
             by : {"none", "token", "session"}, phases : 0..MaxFaults + 1,
             request : BOOLEAN, result : Result]

Process == [pc : Label, run : Run \cup {None}, grant : Grant \cup {None},
            mode : {"none", "execute", "recover"}, kind : Kind]

\* A process that enters at this label, for this run.
Enter(label, r, g, mode) ==
    [pc |-> label, run |-> r, grant |-> g, mode |-> mode, kind |-> "none"]

IdleProc == Enter("idle", None, None, "none")

\* The type of the files, the process and the history: a grant never has more
\* reservations than its budget (reserve's loop), and results count their
\* device phases.
TypeOK ==
    /\ session \in [Grant -> GrantFiles]
    /\ \A g \in Grant : Len(session[g].reserved) <= Budget[g]
    /\ dir \in [Run -> RunFiles]
    /\ owner \in Run \cup {None}
    /\ proc \in Process
    /\ faults \in 0..MaxFaults
    /\ broken \subseteq Grant /\ late \subseteq Run /\ spoiled \subseteq Run

Init ==
    /\ session = [g \in Grant |->
         [open |-> FALSE, closed |-> FALSE, lapsed |-> FALSE, reserved |-> <<>>,
          completed |-> [i \in 1..LIMIT |-> NoResult]]]
    /\ dir = [r \in Run |-> [auth |-> NoAuth, journal |-> "none", by |-> "none",
                             phases |-> 0, request |-> FALSE,
                             result |-> NoResult]]
    /\ owner = None /\ proc = IdleProc /\ faults = 0
    /\ broken = {} /\ late = {} /\ spoiled = {}

----------------------------------------------------------------------------
(* The grant.                                                               *)

\* Mutant of Active: a closed grant still counts.
ActiveIfTimely(g) == session[g].open /\ ~session[g].lapsed

\* load_grant(active=True): not closed, same host boot, before the deadline,
\* and still the reviewed sources.
Active(g) == session[g].open /\ ~session[g].closed /\ ~session[g].lapsed

OpenSession(g) ==
    /\ proc = IdleProc /\ ~session[g].open
    /\ owner = None                               \* require_no_f1_owner
    /\ session' = [session EXCEPT ![g].open = TRUE]
    /\ UNCHANGED <<dir, owner, proc, faults, history>>

\* close(): published once; a second call finds it.
Closed(g) == [session EXCEPT ![g].closed = TRUE]

\* The operator withdraws the grant; no lease is taken.
Withdraw(g) ==
    /\ session[g].open /\ ~session[g].closed
    /\ session' = Closed(g)
    /\ UNCHANGED <<dir, owner, proc, faults, history>>

\* The deadline passes, or the reviewed sources change.
Lapse(g) ==
    /\ session[g].open /\ ~session[g].lapsed
    /\ session' = [session EXCEPT ![g].lapsed = TRUE]
    /\ UNCHANGED <<dir, owner, proc, faults, history>>

----------------------------------------------------------------------------
(* Steps of the process are written with these.                             *)

At(label) == proc.pc = label
Goto(label) == proc' = [proc EXCEPT !.pc = label]
r_ == proc.run
g_ == proc.grant

\* execute_attended_session closes the grant on the way out of an exception
\* that comes after reserve(); the other callers only give the lease back.
Raise ==
    IF /\ proc.mode = "execute" /\ g_ # None
       /\ proc.pc \notin {"publish", "sidecar", "except"}
    THEN Goto("except") ELSE proc' = IdleProc

\* A cut of the current run leaves its grant broken, unless its journal ended.
Cut == IF g_ # None /\ dir[r_].journal \notin Terminal THEN broken \cup {g_}
                                                       ELSE broken

LocalStep == UNCHANGED <<session, dir, owner, faults, history>>

----------------------------------------------------------------------------
(* reserve                                                                  *)

Ordinals(g) == 1..Len(session[g].reserved)
RunAt(g, i) == session[g].reserved[i]
ReservedIn(g) == { RunAt(g, i) : i \in Ordinals(g) }

\* Mutant of Unreserved: only the sidecar of the run is looked at.
UnreservedLocally(r) == TRUE

\* require_unreserved: the reservation counts even before the sidecar exists.
Unreserved(r) == \A g \in Grant : r \notin ReservedIn(g)

\* finish(): what a result means for the session.
Successful(result) == result.kind = "pass"
Eligible(result) == result.kind \in {"pass", "pre_effect"}

\* finish() closes the grant after ordinal i with this result.
Ends(g, i, result) ==
    \/ ~Eligible(result)
    \/ i = Budget[g]
    \/ /\ Successful(result)
       /\ ManifestOf[RunAt(g, i)] = Catalog[g][Len(Catalog[g])]

\* Where the catalog stands when ordinal i is reserved: one past the earlier
\* reservations whose run is CLOSED.
Index(g, i) ==
    1 + Cardinality({ j \in 1..(i - 1) : dir[RunAt(g, j)].result.kind
                                            \in ClosedKind })

\* Every earlier reservation is completed, with the result its run shows now,
\* and they follow the catalog.
Settled(g) ==
    \A i \in Ordinals(g) :
        /\ session[g].completed[i] # NoResult
        /\ session[g].completed[i] = dir[RunAt(g, i)].result
        /\ Index(g, i) <= Len(Catalog[g])
        /\ ManifestOf[RunAt(g, i)] = Catalog[g][Index(g, i)]

\* What reserve() requires before it follows the earlier reservations.
MayReserve(g, r) ==
    /\ proc = IdleProc /\ Active(g)
    /\ dir[r].journal = "none" /\ dir[r].auth = NoAuth
    /\ owner = None                               \* require_no_f1_owner
    /\ Unreserved(r)
    /\ \E i \in 1..Len(Catalog[g]) : Catalog[g][i] = ManifestOf[r]

NextInCatalog(g, r) ==
    LET n == Len(session[g].reserved) + 1
    IN  /\ n <= Budget[g]
        /\ Index(g, n) <= Len(Catalog[g])
        /\ ManifestOf[r] = Catalog[g][Index(g, n)]

ReplayEnds(g) == \E i \in Ordinals(g) : Ends(g, i, dir[RunAt(g, i)].result)

\* Mutant of Reserve: completed reservations are not followed.
ReserveUnfollowed(g, r) ==
    /\ MayReserve(g, r) /\ NextInCatalog(g, r)
    /\ proc' = Enter("publish", r, g, "execute")
    /\ LocalStep

Reserve(g, r) ==
    /\ MayReserve(g, r) /\ Settled(g) /\ ~ReplayEnds(g)
    /\ NextInCatalog(g, r)
    /\ proc' = Enter("publish", r, g, "execute")
    /\ LocalStep

\* Following an earlier reservation repeats its finish(): a close that a dying
\* process owed is made good, and the reservation is refused.
ReserveRefused(g, r) ==
    /\ MayReserve(g, r) /\ Settled(g) /\ ReplayEnds(g)
    /\ session' = Closed(g)
    /\ UNCHANGED <<dir, owner, proc, faults, history>>

\* Mutant of PublishReservation: written under two ordinals.
PublishTwice ==
    /\ At("publish")
    /\ session' = [session EXCEPT ![g_].reserved = Append(Append(@, r_), r_)]
    /\ Goto("sidecar")
    /\ UNCHANGED <<dir, owner, faults, history>>

PublishReservation ==
    /\ At("publish")
    /\ session' = [session EXCEPT ![g_].reserved = Append(@, r_)]
    /\ Goto("sidecar")
    /\ UNCHANGED <<dir, owner, faults, history>>

PublishSidecar ==
    /\ At("sidecar")
    /\ dir' = [dir EXCEPT ![r_].auth =
                 [grant |-> g_, ordinal |-> Len(session[g_].reserved)]]
    /\ Goto("start")
    /\ UNCHANGED <<session, owner, faults, history>>

----------------------------------------------------------------------------
(* _execute_prepared_locked                                                 *)

\* The exact-token entry refuses a run that any session has reserved.
ExecuteToken(r) ==
    /\ proc = IdleProc
    /\ Unreserved(r) /\ dir[r].auth = NoAuth
    /\ dir[r].journal = "none" /\ owner = None
    /\ proc' = Enter("recheck", r, None, "execute")
    /\ LocalStep

\* check_effect_start
CheckStart ==
    /\ At("start")
    /\ IF Active(g_) THEN Goto("recheck") /\ UNCHANGED broken
                     ELSE Raise /\ broken' = Cut
    /\ UNCHANGED <<session, dir, owner, faults, late, spoiled>>

\* Registry preflight and recheck_android, then Journal.create.
Recheck ==
    /\ At("recheck")
    /\ dir' = [dir EXCEPT ![r_].journal = "PREFLIGHT"]
    /\ Goto("approve")
    /\ UNCHANGED <<session, owner, faults, history>>

RecheckFails ==
    /\ At("recheck")
    /\ Raise /\ broken' = Cut
    /\ UNCHANGED <<session, dir, owner, faults, late, spoiled>>

\* The APPROVED record carries the session's attribution (journal_authority).
Approve ==
    /\ At("approve")
    /\ dir' = [dir EXCEPT ![r_].journal = "APPROVED",
                          ![r_].by = IF g_ = None THEN "token" ELSE "session"]
    /\ Goto("arm")
    /\ UNCHANGED <<session, owner, faults, history>>

\* The observer is armed, or cannot be.
Arm ==
    /\ At("arm")
    /\ \E label \in {"effect", "abort"} : Goto(label)
    /\ LocalStep

\* check_effect_start again, after the observer was armed.
CheckEffect ==
    /\ At("effect")
    /\ Goto(IF g_ # None /\ ~Active(g_) THEN "abort" ELSE "own")
    /\ LocalStep

AbortBeforeEffect ==
    /\ At("abort")
    /\ dir' = [dir EXCEPT ![r_].journal = "ABORTED"]
    /\ proc' = [proc EXCEPT !.pc = "result", !.kind = "pre_effect"]
    /\ UNCHANGED <<session, owner, faults, history>>

BeginOwner ==
    /\ At("own")
    /\ owner' = r_
    /\ Goto("request")
    /\ UNCHANGED <<session, dir, faults, history>>

\* candidate-download-request-intent.json: the first device effect follows.
RequestIntent ==
    /\ At("request")
    /\ dir' = [dir EXCEPT ![r_].request = TRUE]
    /\ late' = IF g_ # None /\ (session[g_].closed \/ session[g_].lapsed)
               THEN late \cup {r_} ELSE late
    /\ Goto("device")
    /\ UNCHANGED <<session, owner, faults, broken, spoiled>>

----------------------------------------------------------------------------
(* The device phase of an execution or a recovery (F1Run).                  *)

\* It ends the run: CLOSED with a verdict, or ABORTED by a parse failure.
DeviceEnds(kind) ==
    /\ At("device")
    /\ kind \in ClosedKind \cup IF proc.mode = "execute" THEN {"local_parse"}
                                                        ELSE {"parse_recovered"}
    /\ dir' = [dir EXCEPT ![r_].phases = @ + 1,
                          ![r_].journal = IF kind \in ClosedKind THEN "CLOSED"
                                                                 ELSE "ABORTED"]
    /\ proc' = [proc EXCEPT !.pc = "result", !.kind = kind]
    /\ UNCHANGED <<session, owner, faults, history>>

\* It publishes that recovery is required: a rollback that failed, or a request
\* that was parked.  A parked request may publish the same result again.
DeviceRequires ==
    /\ At("device") /\ faults < MaxFaults
    /\ faults' = faults + 1
    /\ \/ dir' = [dir EXCEPT ![r_].phases = @ + 1]
       \/ dir[r_].result.kind = "required" /\ UNCHANGED dir
    /\ proc' = [proc EXCEPT !.pc = "result", !.kind = "required"]
    /\ broken' = Cut
    /\ UNCHANGED <<session, owner, late, spoiled>>

DeviceFails ==
    /\ At("device") /\ faults < MaxFaults
    /\ faults' = faults + 1
    /\ Raise /\ broken' = Cut
    /\ UNCHANGED <<session, dir, owner, late, spoiled>>

\* _result: the file is replaced, then a finished run gives the target up.
PublishResult ==
    /\ At("result")
    /\ dir' = [dir EXCEPT ![r_].result =
                 [kind |-> proc.kind, at |-> dir[r_].phases]]
    /\ Goto("retire")
    /\ UNCHANGED <<session, owner, faults, history>>

Retire ==
    /\ At("retire")
    /\ owner' = IF owner = r_ /\ (\/ dir[r_].journal = "CLOSED"
                                  \/ proc.kind = "pre_effect" /\ ~dir[r_].request)
                THEN None ELSE owner
    /\ IF g_ = None THEN proc' = IdleProc ELSE Goto("finish")
    /\ UNCHANGED <<session, dir, faults, history>>

----------------------------------------------------------------------------
(* finish                                                                   *)

Completed == session[g_].completed[dir[r_].auth.ordinal]

\* NN-completed.json names one result; a later, different one raises.
FinishRecord ==
    /\ At("finish") /\ Completed \in {NoResult, dir[r_].result}
    /\ session' = [session EXCEPT
                     ![g_].completed[dir[r_].auth.ordinal] = dir[r_].result]
    /\ Goto("close")
    /\ UNCHANGED <<dir, owner, faults, history>>

FinishDiffers ==
    /\ At("finish") /\ Completed \notin {NoResult, dir[r_].result}
    /\ spoiled' = IF dir[r_].journal \in Terminal THEN spoiled \cup {r_}
                                                  ELSE spoiled
    /\ Raise
    /\ UNCHANGED <<session, dir, owner, faults, broken, late>>

FinishClose ==
    /\ At("close")
    /\ session' = IF Ends(g_, dir[r_].auth.ordinal, dir[r_].result)
                  THEN Closed(g_) ELSE session
    /\ proc' = IdleProc
    /\ UNCHANGED <<dir, owner, faults, history>>

\* execute_attended_session: except Exception
ExceptClose ==
    /\ At("except")
    /\ session' = Closed(g_)
    /\ proc' = IdleProc
    /\ UNCHANGED <<dir, owner, faults, history>>

----------------------------------------------------------------------------
(* recover_prepared                                                         *)

Recover(r) ==
    /\ proc = IdleProc /\ dir[r].journal # "none"
    /\ proc' = Enter(IF dir[r].auth = NoAuth THEN "recover" ELSE "before",
                     r, dir[r].auth.grant, "recover")
    /\ LocalStep

\* The published abort of a run that never asked for Download.
CleanAbort(r) ==
    /\ dir[r].journal = "ABORTED" /\ ~dir[r].request
    /\ dir[r].result.kind = "pre_effect"

\* Mutant of BeforeRecovery: nothing is closed.
BeforeRecoveryKeeps == At("before") /\ Goto("recover") /\ LocalStep

\* Mutant of BeforeRecovery: the grant must still be active.
BeforeRecoveryActive ==
    /\ At("before") /\ Active(g_)
    /\ session' = Closed(g_)
    /\ Goto("recover")
    /\ UNCHANGED <<dir, owner, faults, history>>

\* before_recovery: any run that was cut in its device phase ends its session.
BeforeRecovery ==
    /\ At("before")
    /\ session' = IF dir[r_].journal = "CLOSED" \/ CleanAbort(r_)
                  THEN session ELSE Closed(g_)
    /\ Goto("recover")
    /\ UNCHANGED <<dir, owner, faults, history>>

\* A closed run is published again with the verdict of its result file, or
\* without one with the verdict its evidence gives.
RecoverClosed ==
    /\ At("recover") /\ dir[r_].journal = "CLOSED"
    /\ \E kind \in ClosedKind :
         /\ dir[r_].result.kind \in {"none", kind}
         /\ proc' = [proc EXCEPT !.pc = "result", !.kind = kind]
    /\ LocalStep

\* An aborted run is published again if it never touched the device, or once
\* its parse failure is released again.
RecoverAborted ==
    /\ At("recover") /\ dir[r_].journal = "ABORTED"
    /\ CleanAbort(r_) \/ dir[r_].request
    /\ proc' = [proc EXCEPT !.pc = "result",
                  !.kind = IF dir[r_].request THEN "local_parse" ELSE "pre_effect"]
    /\ LocalStep

\* A stale result does not validate against CLOSED, a repeated release may
\* differ from its receipt, an unpublished abort is "not recoverable", and a
\* live transaction needs the owner file.
RecoverRefused ==
    /\ At("recover")
    /\ CASE dir[r_].journal = "CLOSED"  -> dir[r_].result.kind = "required"
         [] dir[r_].journal = "ABORTED" -> ~CleanAbort(r_)
         [] OTHER                       -> owner # r_
    /\ proc' = IdleProc
    /\ LocalStep

\* No request was ever made: the run is aborted without touching the device.
RecoverAborts ==
    /\ At("recover") /\ dir[r_].journal \notin Terminal
    /\ owner = r_ /\ ~dir[r_].request
    /\ dir' = [dir EXCEPT ![r_].journal = "ABORTED"]
    /\ proc' = [proc EXCEPT !.pc = "result", !.kind = "pre_effect"]
    /\ UNCHANGED <<session, owner, faults, history>>

RecoverDevice ==
    /\ At("recover") /\ dir[r_].journal \notin Terminal
    /\ owner = r_ /\ dir[r_].request
    /\ Goto("device")
    /\ LocalStep

----------------------------------------------------------------------------
(* The process dies, or a call it makes raises.                             *)

Interrupt ==
    /\ proc # IdleProc /\ faults < MaxFaults
    /\ faults' = faults + 1
    /\ proc' = IdleProc \/ Raise
    /\ broken' = IF At("publish") THEN broken ELSE Cut
    /\ UNCHANGED <<session, dir, owner, late, spoiled>>

Step ==
    \/ PublishReservation \/ PublishSidecar \/ CheckStart \/ Recheck
    \/ RecheckFails \/ Approve \/ Arm \/ CheckEffect \/ AbortBeforeEffect
    \/ BeginOwner \/ RequestIntent
    \/ \E kind \in Kind : DeviceEnds(kind)
    \/ DeviceRequires \/ DeviceFails \/ PublishResult \/ Retire
    \/ FinishRecord \/ FinishDiffers \/ FinishClose \/ ExceptClose
    \/ BeforeRecovery \/ RecoverClosed \/ RecoverAborted \/ RecoverRefused \/ RecoverAborts
    \/ RecoverDevice

Next ==
    \/ \E g \in Grant : OpenSession(g) \/ Withdraw(g) \/ Lapse(g)
    \/ \E g \in Grant, r \in Run : Reserve(g, r) \/ ReserveRefused(g, r)
    \/ \E r \in Run : ExecuteToken(r) \/ Recover(r)
    \/ Step \/ Interrupt

Spec == Init /\ [][Next]_vars

----------------------------------------------------------------------------
(* What every behaviour satisfies.                                          *)

\* S22PLUS_FYG8_ATTENDED_F1_SESSION_V1.md: the preceding experiment must pass
\* before the next candidate.  A run that asked for Download follows a passed
\* run of every earlier experiment of the catalog, and nothing but passed runs
\* went to the device before it, whatever was cut, aborted or recovered.
CatalogOrder ==
    \A g \in Grant : \A i \in Ordinals(g) : dir[RunAt(g, i)].request =>
        /\ \A j \in 1..(i - 1) :
              dir[RunAt(g, j)].request => Successful(dir[RunAt(g, j)].result)
        /\ \A k \in 1..Len(Catalog[g]) :
              ManifestOf[RunAt(g, i)] = Catalog[g][k] =>
                 \A m \in 1..(k - 1) : \E j \in 1..(i - 1) :
                    /\ ManifestOf[RunAt(g, j)] = Catalog[g][m]
                    /\ Successful(dir[RunAt(g, j)].result)

\* before_recovery: "A device-session interruption cannot be cleared by later
\* healthy recovery": once a reserved run was cut before its journal ended, its
\* grant reserves nothing any more.
InterruptionFinal ==
    [][\A g \in broken : session'[g].reserved = session[g].reserved]_vars

\* require_unreserved: "The grant reservation is authoritative even before the
\* run sidecar exists".  No run has two reservations, an exact token never
\* executes a reserved run, and a session executes what it reserved.
OneAuthority ==
    /\ \A g, h \in Grant : \A i \in Ordinals(g), j \in Ordinals(h) :
          RunAt(g, i) = RunAt(h, j) => g = h /\ i = j
    /\ \A r \in Run : dir[r].by = "token" => Unreserved(r)
    /\ \A r \in Run : dir[r].by = "session" =>
          /\ dir[r].auth.ordinal \in Ordinals(dir[r].auth.grant)
          /\ RunAt(dir[r].auth.grant, dir[r].auth.ordinal) = r

\* check_effect_start is not atomic with the request it precedes: a withdrawn
\* or expired grant may still see one experiment begin, never a second.
WithdrawnStops ==
    \A r, s \in late : dir[r].auth.grant = dir[s].auth.grant => r = s

----------------------------------------------------------------------------
(* Progress: the process runs and the operator goes on calling recover.     *)

FairSpec == Spec /\ WF_vars(Step) /\ \A r \in Run : SF_vars(Recover(r))

\* Stops of the run itself, which F1Run explains: an abort that keeps the owner
\* file, and a closed run behind a stale result.
RunStops(r) ==
    \/ dir[r].journal = "ABORTED" /\ (dir[r].request \/ dir[r].result = NoResult)
    \/ dir[r].journal = "CLOSED" /\ dir[r].result.kind = "required"

\* close(): "withdrawal cannot cancel existing recovery".  A run that owns the
\* target gives it back, whether or not its grant is still active.
RecoveryUnhindered == \A r \in Run : owner = r ~> (owner # r \/ RunStops(r))

----------------------------------------------------------------------------
(* What a comment says, and the code does not do.                           *)

\* Docstring of s22plus_attended_f1_session_v1.py: "a session never changes
\* consumed-run recovery authority" - a recovery that published the end of its
\* run does not fail because of the session.
SessionNeutral == spoiled = {}
=============================================================================
