------------------------------- MODULE F1Run -------------------------------
(***************************************************************************)
(* Execution and recovery of prepared F1 runs                              *)
(* (device_action_f1_live_v2.py) on one shared target: the target-session  *)
(* lease, the F1 owner file, the claim of the candidate, the numbered      *)
(* transfer attempts, the journal and the published result.                *)
(*                                                                         *)
(* Every durable write and every device effect is one step, and a process  *)
(* can be interrupted between any two of them.  The registry is the        *)
(* ClaimLedger, the journal the summary that F1Journal's chain amounts to. *)
(* The device is external: which image it carries and which mode it is in. *)
(***************************************************************************)
EXTENDS F1JournalRules, FiniteSets

CONSTANTS
    Run,        \* prepared runs of one target
    CandOf,     \* the candidate key each of them names
    None,       \* no run
    MaxFaults   \* bound on interruptions, registry failures and reboots

ASSUME RunAssumption == None \notin Run /\ MaxFaults \in Nat

VARIABLES
    disk,       \* the run directory of each run
    mem,        \* the process executing or recovering each run
    lease,      \* holder of the target-session flock
    owner,      \* the run named by f1-owner.json
    active, granted, failures, sessions,   \* the claim ledger
    mode,       \* what the device is doing
    image,      \* what its boot partition holds
    faults,     \* faults that happened so far
    tries,      \* transfers each run really made, by kind
    refused     \* runs whose journal refused an append

ledger == <<active, granted, failures, sessions>>
device == <<mode, image>>
vars == <<disk, mem, lease, owner, ledger, device, faults, tries, refused>>

COMPLETED   == "odin_transfer_completed"
UNKNOWN     == "odin_device_session_failure_or_unknown"
LOCAL_PARSE == "odin_local_parse_failure"
Outcome     == {COMPLETED, UNKNOWN, LOCAL_PARSE}
MAX_ATTEMPTS == MAX_TRANSFER_ATTEMPTS

Verdict == {"none", "pre_effect", "local_parse", "recovery_required", "closed"}

Label == {"idle", "recheck", "preflight", "session_start", "approve", "arm",
          "arm_failed", "own", "request", "request_download", "wait",
          "identify", "claim_intent", "claim", "claim_receipt", "begin",
          "checkpoint", "flash_start", "transfer", "store", "save", "release",
          "release_receipt", "abort", "advance", "observed", "cut", "parked",
          "revalidation", "exact", "normalize", "repair", "finish", "adopt",
          "capture", "recapture", "verified", "health", "publish", "retire"}

\* The files of a run directory, as far as execution and recovery read them.
Disk == [transaction : BOOLEAN, j : Summary, preflights : 0..MAX_ATTEMPTS,
         request : BOOLEAN, claimIntent : BOOLEAN, claimReceipt : BOOLEAN,
         releaseReceipt : {"none", "first", "retry"},
         starts : [Kind -> 0..MAX_ATTEMPTS],
         result : [Kind -> [1..MAX_ATTEMPTS -> Outcome \cup {"none"}]],
         cls : Outcome \cup {"not-attempted"}, rcls : Outcome \cup {"none"},
         cut : {"none", "exact", "parked"}, accepted : BOOLEAN,
         captures : 0..2, verified : BOOLEAN, live : Verdict]

FreshDisk == [transaction |-> FALSE, j |-> Blank, preflights |-> 0,
              request |-> FALSE, claimIntent |-> FALSE, claimReceipt |-> FALSE,
              releaseReceipt |-> "none",
              starts |-> [k \in Kind |-> 0],
              result |-> [k \in Kind |-> [n \in 1..MAX_ATTEMPTS |-> "none"]],
              cls |-> "not-attempted", rcls |-> "none",
              cut |-> "none", accepted |-> FALSE,
              captures |-> 0, verified |-> FALSE, live |-> "none"]

\* A process: where it is, what called it, and the locals it still needs.
Caller == {"none", "execute", "normalize", "aborted"}
Process == [pc : Label, caller : Caller, kind : Kind, endpoint : BOOLEAN,
            pend : Outcome \cup {"none", "first", "retry"}, verdict : Verdict]
Idle == [pc |-> "idle", caller |-> "none", kind |-> "candidate",
         endpoint |-> FALSE, pend |-> "none", verdict |-> "none"]

Init ==
    /\ disk = [p \in Run |-> FreshDisk]
    /\ mem = [p \in Run |-> Idle]
    /\ lease = None /\ owner = None
    /\ active = {} /\ granted = {} /\ failures = {} /\ sessions = {}
    /\ mode = "android" /\ image = "stock"
    /\ faults = 0
    /\ tries = [p \in Run |-> [k \in Kind |-> 0]]
    /\ refused = {}

----------------------------------------------------------------------------
(* Steps are written with these.                                            *)

At(p, label) == mem[p].pc = label
State(p)     == disk[p].j.state
Recorded(p, event) == Has(disk[p].j, event)

Goto(p, label)    == mem' = [mem EXCEPT ![p].pc = label]
Publishes(p, v)   == mem' = [mem EXCEPT ![p].pc = "publish", ![p].verdict = v]

\* An exception or a return leaves both leases; the files stay.
Leave(p) == mem' = [mem EXCEPT ![p] = Idle] /\ lease' = None
Raise(p) ==
    /\ Leave(p)
    /\ UNCHANGED <<disk, owner, ledger, device, faults, tries, refused>>

\* One journal append.  A refused one raises; that never happens (NeverRefused).
Log(p, r) ==
    /\ IF Admits(disk[p].j, r)
       THEN disk' = [disk EXCEPT ![p].j = Apply(@, r)] /\ UNCHANGED refused
       ELSE refused' = refused \cup {p} /\ UNCHANGED disk
    /\ UNCHANGED <<lease, owner, ledger, device, faults, tries>>

\* One write to the run directory besides the journal.
Write(p, d) ==
    /\ disk' = [disk EXCEPT ![p] = d]
    /\ UNCHANGED <<lease, owner, ledger, device, faults, tries, refused>>

LocalStep == UNCHANGED <<disk, lease, owner, ledger, device, faults, tries, refused>>

\* Candidate keys with an active claim, and what active_claim() finds for p.
ConsumedKeys   == { CandOf[q] : q \in active }
ForeignClaim(p) == \E q \in active : q # p /\ CandOf[q] = CandOf[p]

----------------------------------------------------------------------------
(* _execute_prepared_locked, up to the candidate claim.                     *)

\* _preflight_candidate_global
Unconsumed(p) == CandOf[p] \notin ConsumedKeys

\* Mutant of PreflightsLeft: one preflight too many.
PreflightsLeftThrice(p) == disk[p].preflights <= MAX_ATTEMPTS

\* _next_execute_preflight
PreflightsLeft(p) == disk[p].preflights < MAX_ATTEMPTS

Execute(p) ==
    /\ At(p, "idle") /\ lease = None
    /\ ~disk[p].transaction
    /\ owner = None                           \* require_no_f1_owner
    /\ Unconsumed(p) /\ PreflightsLeft(p)
    /\ lease' = p
    /\ mem' = [mem EXCEPT ![p] = [Idle EXCEPT !.pc = "recheck",
                                              !.caller = "execute"]]
    /\ disk' = [disk EXCEPT ![p].preflights = @ + 1]
    /\ UNCHANGED <<owner, ledger, device, faults, tries, refused>>

\* recheck_android, then the directory of Journal.create.  A recheck that fails
\* is an Interrupt that has used up one preflight.
Recheck(p) ==
    /\ At(p, "recheck") /\ mode = "android" /\ image = "stock"
    /\ Goto(p, "preflight")
    /\ Write(p, [disk[p] EXCEPT !.transaction = TRUE])

Preflight(p) ==
    /\ At(p, "preflight")
    /\ Log(p, To("PREFLIGHT")) /\ Goto(p, "session_start")

SessionStart(p) ==
    /\ At(p, "session_start")
    /\ Log(p, Happened("live_session_start")) /\ Goto(p, "approve")

Approve(p) ==
    /\ At(p, "approve")
    /\ Log(p, To("APPROVED")) /\ Goto(p, "arm")

\* The observer context, and with an attended session its grant.
Arm(p) ==
    /\ At(p, "arm")
    /\ \E label \in {"own", "arm_failed"} : Goto(p, label)
    /\ LocalStep

ArmFailed(p) ==
    /\ At(p, "arm_failed")
    /\ Log(p, To("ABORTED")) /\ Publishes(p, "pre_effect")

\* Mutant of BeginOwner: the owner file is not written.
BeginUnowned(p) ==
    /\ At(p, "own") /\ owner = None
    /\ Goto(p, "request")
    /\ LocalStep

BeginOwner(p) ==
    /\ At(p, "own") /\ owner = None
    /\ owner' = p
    /\ Goto(p, "request")
    /\ UNCHANGED <<disk, lease, ledger, device, faults, tries, refused>>

RequestIntent(p) ==
    /\ At(p, "request")
    /\ Write(p, [disk[p] EXCEPT !.request = TRUE])
    /\ Goto(p, "request_download")

\* The reboot request may be lost; the wait that follows finds out.
RequestDownload(p) ==
    /\ At(p, "request_download")
    /\ mode' \in {mode, "download"}
    /\ Goto(p, "wait")
    /\ UNCHANGED <<disk, lease, owner, ledger, image, faults, tries, refused>>

\* The request may also report an error, whatever the device made of it.
RequestFails(p) ==
    /\ At(p, "request_download")
    /\ mode' \in {mode, "download"}
    /\ Leave(p)
    /\ UNCHANGED <<disk, owner, ledger, image, faults, tries, refused>>

WaitCandidate(p) ==
    /\ At(p, "wait") /\ mode = "download"
    /\ mem' = [mem EXCEPT ![p].pc = "identify", ![p].endpoint = TRUE]
    /\ LocalStep

WaitCandidateFails(p) == At(p, "wait") /\ mode # "download" /\ Raise(p)

Identify(p) ==
    /\ At(p, "identify")
    /\ Log(p, To("DOWNLOAD_IDENTIFIED")) /\ Goto(p, "claim_intent")

ClaimIntent(p) ==
    /\ At(p, "claim_intent")
    /\ Write(p, [disk[p] EXCEPT !.claimIntent = TRUE])
    /\ Goto(p, "claim")

\* Mutant of ClaimCandidate: the claim is assumed, not made.
AssumeClaim(p) ==
    /\ At(p, "claim")
    /\ Goto(p, "claim_receipt")
    /\ LocalStep

ClaimCandidate(p) ==
    /\ At(p, "claim")
    /\ IF CandOf[p] \in ConsumedKeys
       THEN Leave(p) /\ UNCHANGED active
       ELSE /\ active' = active \cup {p}
            /\ Goto(p, "claim_receipt") /\ UNCHANGED lease
    /\ UNCHANGED <<disk, owner, granted, failures, sessions, device,
                   faults, tries, refused>>

\* claim() has returned and its receipt is persisted in the run directory.
ClaimReceipt(p) ==
    /\ At(p, "claim_receipt")
    /\ granted' = granted \cup {p}
    /\ disk' = [disk EXCEPT ![p].claimReceipt = TRUE]
    /\ mem' = [mem EXCEPT ![p].pc = "begin", ![p].kind = "candidate"]
    /\ UNCHANGED <<lease, owner, active, failures, sessions, device, faults,
                   tries, refused>>

----------------------------------------------------------------------------
(* One transfer attempt of either kind.                                     *)

\* _begin_transfer_attempt: the start file, then its checkpoint.
BeginAttempt(p) ==
    /\ At(p, "begin")
    /\ disk[p].starts[mem[p].kind] < MAX_ATTEMPTS
    /\ Write(p, [disk[p] EXCEPT !.starts[mem[p].kind] = @ + 1])
    /\ Goto(p, "checkpoint")

\* Mutant of Checkpoint: the attempt is started without its checkpoint.
SkipCheckpoint(p) ==
    /\ At(p, "checkpoint")
    /\ Goto(p, IF mem[p].kind = "candidate" THEN "flash_start" ELSE "transfer")
    /\ LocalStep

Checkpoint(p) ==
    /\ At(p, "checkpoint")
    /\ Log(p, Attempt(mem[p].kind, disk[p].starts[mem[p].kind]))
    /\ Goto(p, IF mem[p].kind = "candidate" THEN "flash_start" ELSE "transfer")

FlashStart(p) ==
    /\ At(p, "flash_start")
    /\ Log(p, Happened("candidate_flash_start")) /\ Goto(p, "transfer")

Flashed(kind) == IF kind = "candidate" THEN "candidate" ELSE "stock"

\* Odin writes the partition and reboots, or fails before or after it wrote
\* some of it, or fails to parse its own arguments.
DeviceAfter(kind, outcome) ==
    \/ /\ outcome = COMPLETED /\ mode = "download"
       /\ image' = Flashed(kind)
       /\ mode' = IF kind = "candidate" THEN "other" ELSE "android"
    \/ /\ outcome = UNKNOWN /\ mode = "download"
       /\ image' \in {image, "partial", Flashed(kind)}
       /\ mode' \in {"download", "other"}
    \/ /\ \/ outcome = UNKNOWN /\ mode # "download"
          \/ outcome = LOCAL_PARSE
       /\ UNCHANGED device

Transfer(p, outcome) ==
    /\ At(p, "transfer")
    /\ DeviceAfter(mem[p].kind, outcome)
    /\ tries' = [tries EXCEPT ![p][mem[p].kind] = @ + 1]
    /\ IF mem[p].kind # "candidate"
       THEN UNCHANGED <<failures, sessions>>
       ELSE IF outcome = LOCAL_PARSE
            THEN failures' = failures \cup {p} /\ UNCHANGED sessions
            ELSE sessions' = sessions \cup {p} /\ UNCHANGED failures
    /\ mem' = [mem EXCEPT ![p].pc = "store", ![p].pend = outcome,
                          ![p].endpoint = FALSE]
    /\ UNCHANGED <<disk, lease, owner, active, granted, faults, refused>>

StoreResult(p) ==
    /\ At(p, "store")
    /\ Write(p, [disk[p] EXCEPT
                   !.result[mem[p].kind][disk[p].starts[mem[p].kind]] = mem[p].pend])
    /\ Goto(p, "save")

\* Mutant of SaveCandidate: every failure releases the claim.
SaveReleasing(p) ==
    /\ At(p, "save") /\ mem[p].kind = "candidate"
    /\ Write(p, [disk[p] EXCEPT !.cls = mem[p].pend])
    /\ Goto(p, IF mem[p].pend # COMPLETED THEN "release" ELSE "advance")

\* _save_state, and what the classification leads to.
SaveCandidate(p) ==
    /\ At(p, "save") /\ mem[p].kind = "candidate"
    /\ Write(p, [disk[p] EXCEPT !.cls = mem[p].pend])
    /\ Goto(p, IF mem[p].pend = LOCAL_PARSE THEN "release" ELSE "advance")

SaveRollback(p) ==
    /\ At(p, "save") /\ mem[p].kind = "rollback"
    /\ Write(p, [disk[p] EXCEPT !.rcls = mem[p].pend])
    /\ IF mem[p].pend = COMPLETED THEN Goto(p, "adopt")
                                  ELSE Publishes(p, "recovery_required")

----------------------------------------------------------------------------
(* The sole release exception (_release_candidate_global).                  *)

\* The registry's answer to a first release carries its record receipt and
\* head; to a release that is already recorded it carries neither.
Release(p) ==
    /\ At(p, "release") /\ disk[p].claimReceipt
    /\ active' = active \ {p}
    /\ mem' = [mem EXCEPT ![p].pc = "release_receipt",
                  ![p].pend = IF p \in active THEN "first" ELSE "retry"]
    /\ UNCHANGED <<disk, lease, owner, granted, failures, sessions, device,
                   faults, tries, refused>>

\* The registry raises.  _normalize_recovery catches that and goes on as if the
\* candidate were consumed; in the other callers it is an Interrupt.
ReleaseFails(p) ==
    /\ At(p, "release") /\ mem[p].caller = "normalize" /\ faults < MaxFaults
    /\ faults' = faults + 1
    /\ Goto(p, "repair")
    /\ UNCHANGED <<disk, lease, owner, ledger, device, tries, refused>>

\* _persist_registry_event: written once, compared ever after.
ReleaseReceipt(p) ==
    /\ At(p, "release_receipt")
    /\ disk[p].releaseReceipt \in {"none", mem[p].pend}
    /\ Write(p, [disk[p] EXCEPT !.releaseReceipt = mem[p].pend])
    /\ IF mem[p].caller = "aborted" THEN Publishes(p, "local_parse")
                                    ELSE Goto(p, "abort")

ReleaseReceiptDiffers(p) ==
    /\ At(p, "release_receipt")
    /\ disk[p].releaseReceipt \notin {"none", mem[p].pend}
    /\ IF mem[p].caller = "normalize"
       THEN Goto(p, "repair") /\ LocalStep
       ELSE Raise(p)

\* ABORTED: after a released claim, or because no attempt was ever armed.
Abort(p) ==
    /\ At(p, "abort")
    /\ Log(p, To("ABORTED"))
    /\ Publishes(p, IF mem[p].caller = "execute" THEN "local_parse"
                                                 ELSE "pre_effect")

----------------------------------------------------------------------------
(* From the candidate transfer to OBSERVED, shared by the execution and by  *)
(* _normalize_recovery, which only appends what is missing.                 *)

AdvanceStart(p) ==
    /\ At(p, "advance") /\ ~Recorded(p, "candidate_flash_start")
    /\ Log(p, Happened("candidate_flash_start")) /\ UNCHANGED mem

\* A candidate attempt whose classification was never saved is unknown.
AdvanceClassify(p) ==
    /\ At(p, "advance") /\ Recorded(p, "candidate_flash_start")
    /\ disk[p].cls = "not-attempted"
    /\ Write(p, [disk[p] EXCEPT !.cls = UNKNOWN]) /\ UNCHANGED mem

Classified(p) == Recorded(p, "candidate_flash_start") /\ disk[p].cls # "not-attempted"

AdvanceFlashed(p) ==
    /\ At(p, "advance") /\ Classified(p) /\ State(p) = "DOWNLOAD_IDENTIFIED"
    /\ Log(p, To("CANDIDATE_FLASHED")) /\ UNCHANGED mem

AdvanceDone(p) ==
    /\ At(p, "advance") /\ Classified(p) /\ State(p) = "CANDIDATE_FLASHED"
    /\ ~Recorded(p, "candidate_flash_done")
    /\ Log(p, Happened("candidate_flash_done")) /\ UNCHANGED mem

\* observe_candidate: only the execution watches the candidate boot, and only
\* a device that runs it can be accepted.
Observe(p) ==
    /\ At(p, "advance") /\ State(p) = "CANDIDATE_FLASHED"
    /\ Recorded(p, "candidate_flash_done")
    /\ IF mem[p].caller = "execute"
       THEN \E ok \in BOOLEAN :
              /\ ok => image = "candidate"
              /\ Write(p, [disk[p] EXCEPT !.accepted = ok])
       ELSE LocalStep
    /\ Goto(p, "observed")

Observed(p) ==
    /\ At(p, "observed")
    /\ Log(p, To("OBSERVED")) /\ Goto(p, "advance")

AdvanceBootReady(p) ==
    /\ At(p, "advance") /\ State(p) = "OBSERVED"
    /\ ~Recorded(p, "candidate_boot_ready")
    /\ Log(p, Happened("candidate_boot_ready")) /\ UNCHANGED mem

AdvanceToRollback(p) ==
    /\ At(p, "advance") /\ Classified(p)
    /\ \/ State(p) = "OBSERVED" /\ Recorded(p, "candidate_boot_ready")
       \/ State(p) \in RECOVERY_EVENT_STATES
    /\ Goto(p, "finish") /\ LocalStep

----------------------------------------------------------------------------
(* recover_prepared.                                                        *)

\* Which branch of _recover_prepared_locked the journal selects.  A closed run
\* re-emits the verdict of the result file it finds, whatever its age.
Recovery(p) ==
    IF State(p) = "CLOSED"
    THEN [Idle EXCEPT !.pc = "publish",
                      !.verdict = IF disk[p].live = "none" THEN "closed"
                                                           ELSE disk[p].live]
    ELSE IF State(p) # "ABORTED"
    THEN [Idle EXCEPT !.pc = "cut", !.caller = "normalize"]
    ELSE IF disk[p].live = "pre_effect" /\ ~disk[p].request
    THEN [Idle EXCEPT !.pc = "publish", !.verdict = "pre_effect"]
    ELSE [Idle EXCEPT !.pc = "release", !.caller = "aborted"]

\* require_f1_owner for a live transaction; a durable local parse failure for
\* an aborted one.  Otherwise the call raises and nothing changes.
Recover(p) ==
    /\ At(p, "idle") /\ lease = None
    /\ disk[p].transaction
    /\ State(p) \notin {"CLOSED", "ABORTED"} => owner = p
    /\ State(p) = "ABORTED" /\ ~(disk[p].live = "pre_effect" /\ ~disk[p].request)
          => disk[p].cls = LOCAL_PARSE
    /\ lease' = p
    /\ mem' = [mem EXCEPT ![p] = Recovery(p)]
    /\ UNCHANGED <<disk, owner, ledger, device, faults, tries, refused>>

----------------------------------------------------------------------------
(* _recover_download_request_cut: a Download request without a candidate.   *)

CandidateEvidence(p) ==
    \/ disk[p].starts["candidate"] > 0
    \/ disk[p].j.attempts["candidate"] > 0
    \/ Recorded(p, "candidate_flash_start")

\* Mutant of RequestCut: only a request without a claim intent is a cut.
RequestCutUnclaimed(p) ==
    /\ State(p) \in {"APPROVED", "DOWNLOAD_IDENTIFIED"} \cup RECOVERY_EVENT_STATES
    /\ ~CandidateEvidence(p)
    /\ disk[p].request /\ ~disk[p].claimIntent

RequestCut(p) ==
    /\ State(p) \in {"APPROVED", "DOWNLOAD_IDENTIFIED"} \cup RECOVERY_EVENT_STATES
    /\ ~CandidateEvidence(p)
    /\ disk[p].request

CutNormalize(p) ==
    /\ At(p, "cut") /\ ~RequestCut(p)
    /\ Goto(p, "normalize") /\ LocalStep

Parked(p) == disk[p].cut = "parked" \/ disk[p].j.attempts["revalidation"] > 0

CutStaysParked(p) ==
    /\ At(p, "cut") /\ RequestCut(p) /\ Parked(p)
    /\ Publishes(p, "recovery_required") /\ LocalStep

RollbackUnderWay(p) ==
    \/ State(p) \in {"ROLLBACK_FLASHED", "HEALTH_VERIFIED"}
    \/ Recorded(p, "rollback_flash_start")

CutResumes(p) ==
    /\ At(p, "cut") /\ RequestCut(p) /\ disk[p].cut = "exact" /\ ~Parked(p)
    /\ RollbackUnderWay(p)
    /\ Goto(p, "finish") /\ LocalStep

CutOpen(p) == At(p, "cut") /\ RequestCut(p) /\ ~Parked(p) /\ ~RollbackUnderWay(p)

\* The registry cannot be read, and nothing local says a claim was begun.
CutRegistryFails(p) ==
    /\ CutOpen(p) /\ faults < MaxFaults
    /\ State(p) # "RECOVERY_DOWNLOAD" /\ ~disk[p].claimIntent
    /\ faults' = faults + 1
    /\ Goto(p, "parked")
    /\ UNCHANGED <<disk, lease, owner, ledger, device, tries, refused>>

\* wait_download: a first sighting is journalled, a second one revalidates it.
\* A wait that times out or fails parks the run, whatever the device is doing.
\* A claim of another run would stop it here: see EffectsOwned.
CutWait(p) ==
    /\ CutOpen(p) /\ ~ForeignClaim(p)
    /\ \/ /\ mode = "download"
          /\ mem' = [mem EXCEPT ![p].endpoint = TRUE,
                      ![p].pc = IF disk[p].cut = "exact" THEN "finish" ELSE "exact"]
       \/ Goto(p, IF disk[p].cut = "exact" THEN "revalidation" ELSE "parked")
    /\ LocalStep

CutExact(p) ==
    /\ At(p, "exact")
    /\ disk' = [disk EXCEPT ![p].j = Apply(@, To("RECOVERY_DOWNLOAD")),
                            ![p].cut = "exact"]
    /\ refused' = IF Admits(disk[p].j, To("RECOVERY_DOWNLOAD")) THEN refused
                                                               ELSE refused \cup {p}
    /\ Goto(p, "finish")
    /\ UNCHANGED <<lease, owner, ledger, device, faults, tries>>

Park(p) ==
    /\ At(p, "parked")
    /\ disk' = [disk EXCEPT ![p].j = Apply(@, To("RECOVERY_DOWNLOAD")),
                            ![p].cut = "parked"]
    /\ refused' = IF Admits(disk[p].j, To("RECOVERY_DOWNLOAD")) THEN refused
                                                               ELSE refused \cup {p}
    /\ Publishes(p, "recovery_required")
    /\ UNCHANGED <<lease, owner, ledger, device, faults, tries>>

RevalidationPark(p) ==
    /\ At(p, "revalidation")
    /\ Log(p, Attempt("revalidation", 1)) /\ Publishes(p, "recovery_required")

----------------------------------------------------------------------------
(* _normalize_recovery.  A claim of another run would raise here            *)
(* (EffectsOwned), and an active claim without a start file would invent    *)
(* an attempt (NoInventedAttempt): neither branch can be reached.           *)

\* A durable local parse failure is adopted and the release tried again.
NormalizeParsed(p) ==
    /\ At(p, "normalize") /\ ~ForeignClaim(p)
    /\ disk[p].result["candidate"][1] = LOCAL_PARSE
    /\ Write(p, [disk[p] EXCEPT !.cls = LOCAL_PARSE])
    /\ Goto(p, IF disk[p].claimReceipt THEN "release" ELSE "repair")

NormalizeOther(p) ==
    /\ At(p, "normalize") /\ ~ForeignClaim(p)
    /\ disk[p].result["candidate"][1] # LOCAL_PARSE
    /\ Goto(p, "repair") /\ LocalStep

\* Mutant of Orphan: start files without a checkpoint are not noticed.
NeverOrphan(p, kind) == FALSE

\* _reconcile_transfer_attempts: a start file whose checkpoint was cut off.
Orphan(p, kind) == disk[p].starts[kind] = disk[p].j.attempts[kind] + 1

RepairOrphan(p) ==
    /\ At(p, "repair") /\ Orphan(p, "candidate")
    /\ Log(p, Attempt("candidate", disk[p].starts["candidate"]))
    /\ UNCHANGED mem

\* Mutant of Repaired: only a saved classification counts as an attempt.
RepairedByState(p) ==
    /\ At(p, "repair") /\ ~Orphan(p, "candidate")
    /\ Goto(p, IF disk[p].cls = "not-attempted" THEN "abort" ELSE "advance")
    /\ LocalStep

Repaired(p) ==
    /\ At(p, "repair") /\ ~Orphan(p, "candidate")
    /\ Goto(p, IF disk[p].starts["candidate"] = 0 THEN "abort" ELSE "advance")
    /\ LocalStep

----------------------------------------------------------------------------
(* _finish_rollback: every call starts from what the journal says.          *)

Exhausted(p) == disk[p].starts["rollback"] >= MAX_ATTEMPTS

\* The result of the latest rollback attempt is a completed transfer.
RollbackDone(p) ==
    LET n == disk[p].starts["rollback"]
    IN  n > 0 /\ disk[p].result["rollback"][n] = COMPLETED

FinishIdentify(p) ==
    /\ At(p, "finish") /\ State(p) = "OBSERVED"
    /\ mode = "download"
    /\ Log(p, To("RECOVERY_DOWNLOAD"))
    /\ mem' = [mem EXCEPT ![p].endpoint = TRUE]

FinishFlashStart(p) ==
    /\ At(p, "finish") /\ State(p) = "RECOVERY_DOWNLOAD"
    /\ ~Recorded(p, "rollback_flash_start")
    /\ Log(p, Happened("rollback_flash_start")) /\ UNCHANGED mem

FinishRepair(p) ==
    /\ At(p, "finish") /\ State(p) = "RECOVERY_DOWNLOAD"
    /\ Recorded(p, "rollback_flash_start") /\ Orphan(p, "rollback")
    /\ Log(p, Attempt("rollback", disk[p].starts["rollback"])) /\ UNCHANGED mem

Reconciled(p) ==
    /\ At(p, "finish") /\ State(p) = "RECOVERY_DOWNLOAD"
    /\ Recorded(p, "rollback_flash_start") /\ ~Orphan(p, "rollback")

FinishAdopt(p) ==
    /\ Reconciled(p) /\ RollbackDone(p)
    /\ Write(p, [disk[p] EXCEPT !.rcls = COMPLETED]) /\ Goto(p, "adopt")

Adopt(p) ==
    /\ At(p, "adopt")
    /\ Log(p, To("ROLLBACK_FLASHED")) /\ Goto(p, "finish")

FinishBegin(p) ==
    /\ Reconciled(p) /\ ~RollbackDone(p) /\ ~Exhausted(p)
    /\ mem[p].endpoint \/ mode = "download"
    /\ mem' = [mem EXCEPT ![p].pc = "begin", ![p].kind = "rollback",
                          ![p].endpoint = TRUE]
    /\ LocalStep

\* wait_download times out, or both attempts are used up.
FinishStops(p) ==
    /\ \/ At(p, "finish") /\ State(p) = "OBSERVED" /\ mode # "download"
       \/ /\ Reconciled(p) /\ ~RollbackDone(p)
          /\ Exhausted(p) \/ (~mem[p].endpoint /\ mode # "download")
    /\ Raise(p)

FinishFlashDone(p) ==
    /\ At(p, "finish") /\ State(p) = "ROLLBACK_FLASHED"
    /\ ~Recorded(p, "rollback_flash_done")
    /\ Log(p, Happened("rollback_flash_done")) /\ UNCHANGED mem

\* verify_final: Android is back and healthy; then two captures of the marker
\* into files whose names are fixed and created exclusively.
Verify(p) ==
    /\ At(p, "finish") /\ State(p) = "ROLLBACK_FLASHED"
    /\ Recorded(p, "rollback_flash_done")
    /\ IF mode = "android" THEN Goto(p, "capture") /\ LocalStep ELSE Raise(p)

Capture(p) ==
    /\ At(p, "capture") /\ disk[p].captures = 0
    /\ Write(p, [disk[p] EXCEPT !.captures = 1]) /\ Goto(p, "recapture")

CaptureExists(p) == At(p, "capture") /\ disk[p].captures > 0 /\ Raise(p)

Recapture(p) ==
    /\ At(p, "recapture")
    /\ Write(p, [disk[p] EXCEPT !.captures = 2]) /\ Goto(p, "verified")

Verified(p) ==
    /\ At(p, "verified")
    /\ Write(p, [disk[p] EXCEPT !.verified = TRUE]) /\ Goto(p, "health")

Health(p) ==
    /\ At(p, "health")
    /\ Log(p, To("HEALTH_VERIFIED")) /\ Goto(p, "finish")

FinishEvents(p) ==
    /\ At(p, "finish") /\ State(p) = "HEALTH_VERIFIED"
    /\ ~Recorded(p, "live_session_end")
    /\ Log(p, Happened(IF Recorded(p, "rollback_boot_ready")
                       THEN "live_session_end" ELSE "rollback_boot_ready"))
    /\ UNCHANGED mem

Ended(p) ==
    At(p, "finish") /\ State(p) = "HEALTH_VERIFIED" /\ Recorded(p, "live_session_end")

\* "candidate observer acceptance lacks transfer continuity"
Discontinuous(p) == disk[p].accepted /\ disk[p].cls # COMPLETED

Close(p) ==
    /\ Ended(p) /\ ~Discontinuous(p)
    /\ Log(p, To("CLOSED")) /\ Publishes(p, "closed")

CloseRefused(p) == Ended(p) /\ Discontinuous(p) /\ Raise(p)

----------------------------------------------------------------------------
(* _result: validate, publish, retire the owner.                            *)

\* What the attempt files say of a kind of transfer.
Evidence(p, kind) ==
    LET n == disk[p].starts[kind]
        r == disk[p].result[kind][n]
    IN  IF n = 0 THEN "none" ELSE IF r = "none" THEN UNKNOWN ELSE r

\* validate_live_result, for the parts of the live state modelled here.
ValidResult(p) ==
    /\ disk[p].cls # "not-attempted" =>
          /\ ~Orphan(p, "candidate")
          /\ Evidence(p, "candidate") = disk[p].cls
    /\ disk[p].cls = UNKNOWN => ~Discontinuous(p)
    /\ disk[p].rcls # "none" =>
          /\ ~Orphan(p, "rollback")
          /\ Evidence(p, "rollback") = disk[p].rcls
    /\ disk[p].verified => disk[p].rcls = COMPLETED
    /\ State(p) = CASE mem[p].verdict = "closed" -> "CLOSED"
                     [] mem[p].verdict = "recovery_required" -> "RECOVERY_DOWNLOAD"
                     [] OTHER -> "ABORTED"

Publish(p) ==
    /\ At(p, "publish")
    /\ IF ValidResult(p)
       THEN /\ Write(p, [disk[p] EXCEPT !.live = mem[p].verdict])
            /\ Goto(p, "retire")
       ELSE Raise(p)

\* Mutant of EndsOwnership: every abort gives the target back.
EndsOnAbort(p) == State(p) \in {"CLOSED", "ABORTED"}

\* Mutant of EndsOwnership: a run that never reached the device keeps it.
EndsOnClose(p) == State(p) = "CLOSED"

EndsOwnership(p) ==
    \/ State(p) = "CLOSED"
    \/ /\ State(p) = "ABORTED" /\ mem[p].verdict = "pre_effect"
       /\ ~disk[p].request
       /\ \A k \in Kind : disk[p].starts[k] = 0

\* An owner file that names another run raises; the call ends either way.
Retire(p) ==
    /\ At(p, "retire")
    /\ owner' = IF EndsOwnership(p) /\ owner = p THEN None ELSE owner
    /\ Leave(p)
    /\ UNCHANGED <<disk, ledger, device, faults, tries, refused>>

----------------------------------------------------------------------------
(* The environment.                                                         *)

\* The process dies, or a call it makes raises: no file is undone.
Interrupt(p) ==
    /\ ~At(p, "idle") /\ faults < MaxFaults
    /\ faults' = faults + 1
    /\ Leave(p)
    /\ UNCHANGED <<disk, owner, ledger, device, tries, refused>>

\* The device restarts on its own and boots what it carries.
Reboot ==
    /\ mode = "download" \/ (mode = "other" /\ image = "stock")
    /\ faults < MaxFaults
    /\ faults' = faults + 1
    /\ mode' = IF image = "stock" THEN "android" ELSE "other"
    /\ UNCHANGED <<disk, mem, lease, owner, ledger, image, tries, refused>>

\* Where a process polls for the Download endpoint until its timeout.
WaitsForDownload(p) ==
    \/ At(p, "wait") \/ CutOpen(p)
    \/ At(p, "finish") /\ State(p) = "OBSERVED"
    \/ Reconciled(p) /\ ~RollbackDone(p) /\ ~Exhausted(p) /\ ~mem[p].endpoint

\* The operator follows the prompt and puts the device into Download mode.
EnterDownload ==
    /\ mode # "download"
    /\ \E p \in Run : WaitsForDownload(p)
    /\ mode' = "download"
    /\ UNCHANGED <<disk, mem, lease, owner, ledger, image, faults, tries, refused>>

ExecuteStep(p) ==
    \/ Recheck(p) \/ Preflight(p) \/ SessionStart(p)
    \/ Approve(p) \/ Arm(p) \/ ArmFailed(p) \/ BeginOwner(p)
    \/ RequestIntent(p) \/ RequestDownload(p) \/ RequestFails(p)
    \/ WaitCandidate(p)
    \/ WaitCandidateFails(p) \/ Identify(p) \/ ClaimIntent(p) \/ ClaimCandidate(p)
    \/ ClaimReceipt(p)

TransferStep(p) ==
    \/ BeginAttempt(p) \/ Checkpoint(p) \/ FlashStart(p)
    \/ \E outcome \in Outcome : Transfer(p, outcome)
    \/ StoreResult(p) \/ SaveCandidate(p) \/ SaveRollback(p)
    \/ Release(p) \/ ReleaseReceipt(p) \/ ReleaseReceiptDiffers(p) \/ Abort(p)
    \/ AdvanceStart(p) \/ AdvanceClassify(p) \/ AdvanceFlashed(p)
    \/ AdvanceDone(p) \/ Observe(p) \/ Observed(p) \/ AdvanceBootReady(p)
    \/ AdvanceToRollback(p)

RecoverStep(p) ==
    \/ CutNormalize(p) \/ CutStaysParked(p) \/ CutResumes(p) \/ CutWait(p)
    \/ CutExact(p) \/ Park(p) \/ RevalidationPark(p)
    \/ NormalizeParsed(p) \/ NormalizeOther(p) \/ RepairOrphan(p) \/ Repaired(p)

FinishStep(p) ==
    \/ FinishIdentify(p) \/ FinishFlashStart(p) \/ FinishRepair(p)
    \/ FinishAdopt(p) \/ Adopt(p) \/ FinishBegin(p) \/ FinishStops(p)
    \/ FinishFlashDone(p) \/ Verify(p) \/ Capture(p) \/ CaptureExists(p)
    \/ Recapture(p) \/ Verified(p) \/ Health(p) \/ FinishEvents(p)
    \/ Close(p) \/ CloseRefused(p) \/ Publish(p) \/ Retire(p)

ProcessStep(p) == ExecuteStep(p) \/ TransferStep(p) \/ RecoverStep(p) \/ FinishStep(p)
Fault(p) == Interrupt(p) \/ ReleaseFails(p) \/ CutRegistryFails(p)

Next ==
    \/ \E p \in Run : Execute(p) \/ Recover(p) \/ ProcessStep(p) \/ Fault(p)
    \/ Reboot \/ EnterDownload

Spec == Init /\ [][Next]_vars

----------------------------------------------------------------------------
(* What every behaviour satisfies.                                          *)

TypeOK ==
    /\ disk \in [Run -> Disk] /\ mem \in [Run -> Process]
    /\ lease \in Run \cup {None} /\ owner \in Run \cup {None}
    /\ active \subseteq Run /\ granted \subseteq Run
    /\ failures \subseteq Run /\ sessions \subseteq Run
    /\ mode \in {"android", "download", "other"}
    /\ image \in {"stock", "candidate", "partial"}
    /\ faults \in 0..MaxFaults
    /\ tries \in [Run -> [Kind -> 0..MAX_ATTEMPTS]]
    /\ refused \subseteq Run

\* The run's half of the registry contract: claim before transfer, release
\* only what failed to parse, and never twice a session for a candidate.
Ledger == INSTANCE ClaimLedger WITH Claim <- Run, KeyOf <- CandOf, Legacy <- {}

ImplementsLedger == Ledger!Spec

\* A run transfers its candidate at most once, however often it is recovered,
\* and no two runs open a device session for the same candidate.
CandidateOnce ==
    \A p \in Run :
        /\ tries[p]["candidate"] <= 1
        /\ \A q \in Run : {p, q} \subseteq sessions /\ CandOf[p] = CandOf[q] => p = q

\* Every transfer that reached the device has its checkpoint in the journal,
\* so that recovery counts attempts it did not see end.
TransfersRecorded ==
    \A p \in Run : \A k \in Kind : tries[p][k] <= disk[p].j.attempts[k]

\* Odin is started only by the holder of the lease whose owner file is in
\* place, for a checkpointed attempt, and a candidate only under its claim; and
\* no owner is ever blocked by a claim of another run: the preflight under the
\* lease is still true when the claim is made and recovered.
EffectsOwned ==
    /\ \A p \in Run : At(p, "transfer") =>
          /\ lease = p /\ owner = p
          /\ ~Orphan(p, mem[p].kind)
          /\ mem[p].kind = "candidate" => p \in active \cap granted
    /\ owner # None => ~ForeignClaim(owner)

\* A target nobody owns, or whose owner has verified its health, carries the
\* stock image: whatever happened to a run before it gave the target back.
TargetReturned ==
    owner = None \/ State(owner) \in {"HEALTH_VERIFIED", "CLOSED"} => image = "stock"

\* Execution and recovery never append a record the journal refuses, whatever
\* the cut they resume from.
NeverRefused == refused = {}

\* _normalize_recovery never finds a claim, or the intent of one, without a
\* start file, so that its branch which invents an attempt stays unused: neither
\* an active claim, nor a receipt, nor an intent beside an unreadable registry
\* leads there.
NoInventedAttempt ==
    \A p \in Run : At(p, "repair") /\ disk[p].starts["candidate"] = 0
          => p \notin active /\ ~disk[p].claimReceipt /\ ~disk[p].claimIntent

\* Odin was never started for the run, or its one candidate transfer failed to
\* parse its own arguments and opened no device session.
NoCandidateSession(p) ==
    \/ \A k \in Kind : tries[p][k] = 0
    \/ p \in failures \ sessions

\* A result that says no candidate reached the device (PRE_CANDIDATE_DOWNLOAD,
\* ODIN_LOCAL_PARSE_NO_DEVICE_SESSION) is published only after no transfer at
\* all, or after a candidate transfer that failed to parse, although recovery
\* decides it from files that any cut may have left incomplete.  It is silent
\* about a rollback: a release that failed lets one through before such a
\* result, which is what AbortsSafely is about.
PreEffectHonest ==
    \A p \in Run : disk[p].live \in {"pre_effect", "local_parse"}
                      => NoCandidateSession(p)

----------------------------------------------------------------------------
(* Progress: the process runs, the operator recovers a run that stopped and,*)
(* prompted again and again, enters Download mode before one wait times     *)
(* out.  Faults are bounded and need not happen.                            *)

FairSpec ==
    /\ Spec
    /\ \A p \in Run : WF_vars(ProcessStep(p)) /\ WF_vars(Recover(p))
    /\ SF_vars(EnterDownload)

\* Where a run that owns the target stays for good; each is a stop that a
\* person has to resolve.
Stuck(p) ==
    \/ Parked(p)
    \/ State(p) = "RECOVERY_DOWNLOAD" /\ Exhausted(p) /\ ~RollbackDone(p)
    \/ State(p) = "ROLLBACK_FLASHED" /\ disk[p].captures > 0
    \/ State(p) = "HEALTH_VERIFIED" /\ Discontinuous(p)
    \/ State(p) = "CLOSED" /\ disk[p].cls # "not-attempted"
                           /\ disk[p].cls # Evidence(p, "candidate")
    \/ State(p) = "CLOSED" /\ disk[p].live = "recovery_required"
    \/ State(p) = "ABORTED" /\ (disk[p].request \/ disk[p].live = "none")

\* A run that took the target gives it back or stays in one of those stops.
OwnershipEnds == \A p \in Run : owner = p ~> (owner # p \/ []Stuck(p))

----------------------------------------------------------------------------
(* What documents and comments say, and the code does not do.               *)

\* Comment in _recover_prepared_locked: "Terminal-only host finalization may
\* re-emit a result after a publication cut."
ClosedPublishes ==
    \A p \in Run : State(p) = "CLOSED" ~> disk[p].live = "closed"

\* DEVICE_ACTION_PROCESS_V2.md: "If rollback fails after an Odin device session
\* begins, stop experimentation and escalate recovery" - a run that ends as
\* aborted leaves no half-written partition behind.
AbortsSafely == \A p \in Run : State(p) = "ABORTED" /\ owner = p => image # "partial"
=============================================================================
