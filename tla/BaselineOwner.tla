--------------------------- MODULE BaselineOwner ---------------------------
(***************************************************************************)
(* Who may act on the S22+ target: operations of the native baseline       *)
(* (s22plus_native_baseline_owner_v1.py), ordinary reboots of a research   *)
(* goal (s22plus_goal_research_v1.py) and ordinary F1 runs (F1Run has      *)
(* their detail), all under the target-session lease, the F1 owner file    *)
(* and the pending-reboot file of consumed_candidate_registry_v1.py.       *)
(*                                                                         *)
(* The lease is an exclusive flock taken without waiting, and everything   *)
(* below happens under it, so the state of its holder is one variable.  A  *)
(* process may die, and any call may raise, between any two durable        *)
(* records; the device may be rebooted or put into Download mode by hand   *)
(* at any time.  Policy V2; grants expire at any time; approvals, source   *)
(* bindings, lane checks and the event journal are left out: they refuse   *)
(* before anything is written.                                             *)
(***************************************************************************)
EXTENDS Naturals, Sequences

CONSTANTS
    Grant,      \* grants, each opened once
    Budget,     \* request['reservations'] of each
    Allowed,    \* request['operations'] of each
    None, F1,   \* no owner; an ordinary F1 run
    Goal,       \* the research goal, as holder of the lease
    MaxFaults   \* bound on deaths and exceptions that nothing explains

Operation == {"bootstrap", "restore", "android-exit", "experiment"}
Origin == {"android", "native", "physical-download"}

Slot == UNION { {g} \X (1..Budget[g]) : g \in Grant }

ASSUME OwnerAssumption ==
    /\ DOMAIN Budget = Grant /\ \A g \in Grant : Budget[g] \in 1..3
    /\ DOMAIN Allowed = Grant /\ \A g \in Grant : Allowed[g] \subseteq Operation
    /\ MaxFaults \in Nat

\* The file that names an owner tells an operation, an F1 run and nobody apart,
\* and so does the lease.
ASSUME ActorAssumption ==
    /\ None # F1 /\ None # Goal /\ F1 # Goal
    /\ Slot \intersect {None, F1, Goal} = {}

VARIABLES
    holder,    \* the process that has the lease
    owner,     \* f1-owner.json
    pending,   \* pending-d1.json, and whether the device has booted since
    grants,    \* "none", "open" or "over" (closed or expired)
    disk,      \* the directory of every operation
    admitted,  \* the native image N has its admission record
    claims,    \* candidates the registry has claimed
    goal,      \* the research goal is still open
    device,    \* what is on the boot partition, and what runs
    sent,      \* history: transfers begun, by operation and phase
    faults

files == <<owner, pending, grants, disk, admitted, claims, goal>>
vars == <<holder, owner, pending, grants, disk, admitted, claims, goal, device,
          sent, faults>>

Nobody == [who |-> None, doing |-> "none"]

----------------------------------------------------------------------------
(* The plan of an operation: the steps of execute, each of which leaves a  *)
(* durable record.  Only the first n records of a plan exist.              *)

\* The phases that transfer an image.
Phase == {"bootstrap-first", "experiment", "native-final", "android-exit"}

Step(phase, act) == [phase |-> phase, act |-> act]
Claimed(phase) == phase \in {"bootstrap-first", "experiment"}

\* A native phase.  The first ones claim new content, and are left again
\* through wait_native_return.
Install(phase) ==
    LET body == <<Step(phase, "intent"), Step(phase, "flash"), Step(phase, "observe")>>
    IN IF Claimed(phase) THEN <<Step(phase, "claim")>> \o body \o <<Step(phase, "return")>>
       ELSE body

Start(origin) ==
    CASE origin = "android" -> <<Step("android-start", "health"), Step("android-start", "ask"),
                                 Step("android-start", "request")>>
      [] origin = "native"  -> <<Step("native-start", "observe"), Step("native-start", "return")>>
      [] OTHER -> <<>>

Plan(op, origin) ==
    Start(origin) \o
    CASE op = "bootstrap"  -> Install("bootstrap-first") \o Install("native-final")
      [] op = "experiment" -> Install("experiment") \o Install("native-final")
      [] op = "restore"    -> Install("native-final")
      [] OTHER -> <<>>   \* android-exit: the exit below

ImageOf(phase) == IF phase = "experiment" THEN "E" ELSE "N"

\* made: "reserved" has NN-reserved.json, "operation" its operation.json too.
\* next: next-operation.json.  done: records of the plan.  exit: the Android
\* transfer of the plan or of a recovery, which share one intent ("start"), one
\* result ("sent") and one final-health-complete.json ("healthy").
Entry(made, op, origin, prior) ==
    [made |-> made, op |-> op, origin |-> origin, prior |-> prior,
     next |-> FALSE, done |-> 0, exit |-> "none", stop |-> FALSE,
     terminal |-> "none", completed |-> FALSE]
Unused == Entry("none", "none", "none", None)

PlanOf(s) == Plan(disk[s].op, disk[s].origin)
Complete(s) == disk[s].done = Len(PlanOf(s))
Current(s) == PlanOf(s)[disk[s].done + 1]

Init ==
    /\ holder = Nobody /\ owner = None /\ goal = TRUE
    /\ pending = [set |-> FALSE, booted |-> FALSE]
    /\ grants = [g \in Grant |-> "none"]
    /\ disk = [s \in Slot |-> Unused]
    /\ admitted = FALSE /\ claims = {}
    /\ device = [image |-> "A", mode |-> "up", seen |-> None]
    /\ sent = [s \in Slot |-> [ph \in Phase |-> 0]]
    /\ faults = 0

----------------------------------------------------------------------------
(* The device.                                                             *)

\* A boot ends the one in which an operation authenticated (seen).
Boots(image) == [image |-> image, mode |-> "up", seen |-> None]
Healthy == device.image = "A" /\ device.mode = "up"
Booted == pending' = [pending EXCEPT !.booted = pending.set \/ holder.who = Goal]

\* The operator presses the keys for Download mode.
EnterDownload ==
    /\ device.mode # "download"
    /\ device' = [device EXCEPT !.mode = "download", !.seen = None]
    /\ UNCHANGED <<holder, files, sent, faults>>

\* A boot that no process asked for; a half-written image does not boot.
PowerCycle ==
    /\ device.image # "partial"
    /\ device' = Boots(device.image)
    /\ Booted
    /\ UNCHANGED <<holder, owner, grants, disk, admitted, claims, goal, sent, faults>>

----------------------------------------------------------------------------
(* Grants and reservations.                                                *)

\* target_session_lease: the flock, and no reboot that is still unresolved.
Lease == holder = Nobody /\ ~pending.set

Release == holder' = Nobody
Doing(who, what) == holder = [who |-> who, doing |-> what]
Continue(who, what) == holder' = [who |-> who, doing |-> what]

\* load_operation(active=True)
Active(s) == /\ grants[s[1]] = "open" /\ owner = s
             /\ ~disk[s].stop /\ disk[s].terminal = "none"

open_grant(g) ==
    /\ Lease /\ owner = None /\ grants[g] = "none"
    /\ grants' = [grants EXCEPT ![g] = "open"]
    /\ UNCHANGED <<holder, owner, pending, disk, admitted, claims, goal, device, sent, faults>>

\* The deadline, or a new boot of the host.
Lapse(g) ==
    /\ grants[g] = "open"
    /\ grants' = [grants EXCEPT ![g] = "over"]
    /\ UNCHANGED <<holder, owner, pending, disk, admitted, claims, goal, device, sent, faults>>

\* Reservations are made in order, each after the one before has completed.
NextSlot(g) == {s \in Slot : /\ s[1] = g /\ disk[s].made = "none"
                             /\ \A i \in 1..(s[2] - 1) : LET d == disk[<<g, i>>] IN
                                   d.terminal \in {"NATIVE", "ANDROID"} /\ d.completed}

OriginFits(op, origin) ==
    /\ op = "bootstrap" => origin = "android"
    /\ op = "experiment" => origin = "native"
    /\ origin = "physical-download" => op = "android-exit"

\* The native terminals an operation of native origin may name.
Priors(origin) == IF origin # "native" THEN {None}
                  ELSE {t \in Slot : disk[t].terminal = "NATIVE" /\ ~disk[t].next}

Reserve(g) ==
    /\ Lease /\ owner = None /\ grants[g] = "open"
    /\ \E s \in NextSlot(g), op \in Allowed[g], origin \in Origin :
       \E prior \in Priors(origin) :
          /\ OriginFits(op, origin)
          /\ (op = "bootstrap") = ~admitted
          /\ op = "experiment" => "E" \notin claims
          /\ disk' = [disk EXCEPT ![s] = Entry("reserved", op, origin, prior)]
          /\ Continue(s, "reserve")
    /\ UNCHANGED <<owner, pending, grants, admitted, claims, goal, device, sent, faults>>

\* The rest of reserve: operation.json, the owner file, the link from the
\* terminal it starts from.
OpenOperation(s) ==
    /\ Doing(s, "reserve") /\ disk[s].made = "reserved"
    /\ disk' = [disk EXCEPT ![s].made = "operation"]
    /\ UNCHANGED <<holder, owner, pending, grants, admitted, claims, goal, device, sent, faults>>

begin_f1_owner(s) ==
    /\ Doing(s, "reserve") /\ disk[s].made = "operation"
    /\ owner' = s
    /\ Continue(s, "link")
    /\ UNCHANGED <<pending, grants, disk, admitted, claims, goal, device, sent, faults>>

Link(s) ==
    /\ Doing(s, "link")
    /\ disk' = IF disk[s].prior = None THEN disk
               ELSE [disk EXCEPT ![disk[s].prior].next = TRUE]
    /\ Continue(s, "run")
    /\ UNCHANGED <<owner, pending, grants, admitted, claims, goal, device, sent, faults>>

----------------------------------------------------------------------------
(* execute: the steps of the plan.                                         *)

Running(s, act) == Doing(s, "run") /\ ~Complete(s) /\ Current(s).act = act

\* What a step checks before it does anything.  transfer() waits for Download
\* mode and looks at the grant before it claims; validate_arm looks again.
May(s) ==
    LET phase == Current(s).phase
        act == Current(s).act
    IN CASE act = "health" -> Healthy /\ (disk[s].op = "bootstrap" => "N" \notin claims)
         [] act = "ask" -> Active(s)
         [] act = "request" -> Healthy
         [] act = "observe" -> /\ Active(s) /\ device.mode = "up"
                               /\ device.image = ImageOf(phase)
                               /\ phase = "native-start" => device.seen = disk[s].prior
         [] act = "claim" -> Active(s) /\ device.mode = "download" /\ ImageOf(phase) \notin claims
         [] act = "intent" -> Claimed(phase) \/ (Active(s) /\ device.mode = "download")
         [] OTHER -> Active(s) /\ device.mode = "download"

Advance(s) == disk' = [disk EXCEPT ![s].done = @ + 1]

\* Records that touch nothing but the operation's directory.
Note(s, act) ==
    /\ Running(s, act) /\ May(s)
    /\ Advance(s)
    /\ UNCHANGED <<holder, owner, pending, grants, admitted, claims, goal, device, sent, faults>>

collect_android(s) == Note(s, "health")
ask_android(s) == Note(s, "ask")
wait_native_return(s) == Note(s, "return")
role_intent(s) == Note(s, "intent")

claim_candidate(s) ==
    /\ Running(s, "claim") /\ May(s)
    /\ claims' = claims \union {ImageOf(Current(s).phase)}
    /\ Advance(s)
    /\ UNCHANGED <<holder, owner, pending, grants, admitted, goal, device, sent, faults>>

request_android_download(s) ==
    /\ Running(s, "request") /\ May(s)
    /\ device' = [device EXCEPT !.mode = "download"]
    /\ Advance(s)
    /\ UNCHANGED <<holder, owner, pending, grants, admitted, claims, goal, sent, faults>>

\* Mutant: the observation of every phase stands for its return as well.
observe_native_twice(s) ==
    /\ Running(s, "observe") /\ May(s)
    /\ device' = [device EXCEPT !.seen = s]
    /\ disk' = [disk EXCEPT ![s].done = @ + 2]
    /\ UNCHANGED <<holder, owner, pending, grants, admitted, claims, goal, sent, faults>>

\* The last phase detaches from a native system that stays up; the others end
\* with the CONTROL command, after which the device is in Download mode or not.
observe_native(s) ==
    /\ Running(s, "observe") /\ May(s)
    /\ IF Current(s).phase = "native-final"
       THEN device' = [device EXCEPT !.seen = s]
       ELSE \E mode \in {"download", "down"} :
               device' = [device EXCEPT !.mode = mode, !.seen = None]
    /\ Advance(s)
    /\ UNCHANGED <<holder, owner, pending, grants, admitted, claims, goal, sent, faults>>

Sends(s, phase) == sent' = [sent EXCEPT ![s][phase] = @ + 1]

transfer(s) ==
    /\ Running(s, "flash") /\ May(s)
    /\ device' = Boots(ImageOf(Current(s).phase))
    /\ Sends(s, Current(s).phase)
    /\ Advance(s)
    /\ UNCHANGED <<holder, owner, pending, grants, admitted, claims, goal, faults>>

\* The last native session was closed after the deadline of the grant, as far
\* as the model can tell: native_terminal_value raises.
ClosedLate(s) == Complete(s) /\ disk[s].op # "android-exit" /\ grants[s[1]] # "open"

\* A check of a step raises: the except clause of execute.
Refuse(s) ==
    /\ Doing(s, "run")
    /\ ClosedLate(s) \/ (~Complete(s) /\ ~May(s))
    /\ Continue(s, "caught")
    /\ UNCHANGED <<files, device, sent, faults>>

CloseNative(s) ==
    /\ Doing(s, "run") /\ Complete(s) /\ disk[s].op # "android-exit"
    /\ disk' = [disk EXCEPT ![s].terminal = "NATIVE"]
    /\ Continue(s, "finish")
    /\ UNCHANGED <<owner, pending, grants, admitted, claims, goal, device, sent, faults>>

----------------------------------------------------------------------------
(* The Android exit, of execute and of recover.                            *)

Exiting(s) == \/ Doing(s, "exit")
              \/ Doing(s, "run") /\ Complete(s) /\ disk[s].op = "android-exit"

\* recover prompts for Download mode and waits for it.
ExitIntent(s) ==
    /\ Exiting(s) /\ disk[s].exit = "none" /\ device.mode = "download"
    /\ disk' = [disk EXCEPT ![s].exit = "start"]
    /\ UNCHANGED <<holder, owner, pending, grants, admitted, claims, goal, device, sent, faults>>

ExitTransfer(s) ==
    /\ Exiting(s) /\ disk[s].exit = "start" /\ device.mode = "download" /\ owner = s
    /\ device' = Boots("A")
    /\ Sends(s, "android-exit")
    /\ disk' = [disk EXCEPT ![s].exit = "sent"]
    /\ UNCHANGED <<holder, owner, pending, grants, admitted, claims, goal, faults>>

\* The endpoint has gone: the transfer fails and its role stays consumed.
ExitRefused(s) ==
    /\ Exiting(s) /\ disk[s].exit = "start" /\ device.mode # "download"
    /\ IF holder.doing = "run" THEN Continue(s, "caught") ELSE Release
    /\ UNCHANGED <<files, device, sent, faults>>

ExitHealth(s) ==
    /\ Exiting(s) /\ disk[s].exit = "sent" /\ Healthy
    /\ disk' = [disk EXCEPT ![s].exit = "healthy"]
    /\ UNCHANGED <<holder, owner, pending, grants, admitted, claims, goal, device, sent, faults>>

\* The health on record is not taken again, however long ago it was.
CloseAndroid(s) ==
    /\ Exiting(s) /\ disk[s].exit = "healthy"
    /\ disk' = [disk EXCEPT ![s].terminal = "ANDROID"]
    /\ Continue(s, "finish")
    /\ UNCHANGED <<owner, pending, grants, admitted, claims, goal, device, sent, faults>>

----------------------------------------------------------------------------
(* Failure and recovery.                                                   *)

\* Mutant: the stop record does not matter.
RepairableStopped(s) ==
    /\ disk[s].op # "android-exit"
    /\ Complete(s) /\ disk[s].exit = "none"

\* repair_native_terminal: every native record is there and nothing stopped.
Repairable(s) ==
    /\ disk[s].op # "android-exit" /\ ~disk[s].stop
    /\ Complete(s) /\ disk[s].exit = "none"

repair_native_terminal(s) ==
    /\ Doing(s, "caught") \/ Doing(s, "recover")
    /\ Repairable(s)
    /\ disk' = [disk EXCEPT ![s].terminal = "NATIVE"]
    /\ Continue(s, "finish")
    /\ UNCHANGED <<owner, pending, grants, admitted, claims, goal, device, sent, faults>>

\* execute parks here in the deferred and research modes, and otherwise goes
\* on as recover does.
stop(s) ==
    /\ Doing(s, "caught") \/ Doing(s, "recover")
    /\ ~Repairable(s) \/ ClosedLate(s)
    /\ disk' = [disk EXCEPT ![s].stop = TRUE]
    /\ grants' = [grants EXCEPT ![s[1]] = "over"]
    /\ \/ Continue(s, "settle")
       \/ holder.doing = "caught" /\ Release
    /\ UNCHANGED <<owner, pending, admitted, claims, goal, device, sent, faults>>

\* Mutant: only the Android role counts as an intent.
has_android_intent(s) == disk[s].origin # "android" \/ disk[s].exit # "none"

\* As recover asks it: of Android origin with its health and nothing else, or
\* not.
has_device_intent(s) == disk[s].origin # "android" \/ disk[s].done >= 2 \/ disk[s].exit # "none"

\* Mutant: an Android transfer of unknown outcome is tried again.
settle_replays(s) ==
    /\ Doing(s, "settle")
    /\ IF ~has_device_intent(s)
       THEN /\ disk' = [disk EXCEPT ![s].terminal = "ABORTED"]
            /\ Continue(s, "finish")
       ELSE Continue(s, "exit") /\ UNCHANGED disk
    /\ UNCHANGED <<owner, pending, grants, admitted, claims, goal, device, sent, faults>>

settle(s) ==
    /\ Doing(s, "settle")
    /\ IF ~has_device_intent(s)
       THEN /\ disk' = [disk EXCEPT ![s].terminal = "ABORTED"]
            /\ Continue(s, "finish")
       ELSE /\ IF disk[s].exit = "start" THEN Release ELSE Continue(s, "exit")
            /\ UNCHANGED disk
    /\ UNCHANGED <<owner, pending, grants, admitted, claims, goal, device, sent, faults>>

\* Mutant: recovery needs an active operation.
recover_active(s) ==
    /\ Lease /\ disk[s].made = "operation" /\ Active(s)
    /\ Continue(s, "recover")
    /\ UNCHANGED <<files, device, sent, faults>>

\* closed.json of an operation that used the last reservation, and was cut
\* after it had given the target up.
OwesClose(s) == owner = None /\ s[2] = Budget[s[1]] /\ grants[s[1]] = "open"

\* A later process; when it could only be refused again, or would find
\* nothing left to write, nothing happens.
recover(s) ==
    /\ Lease /\ disk[s].made = "operation"
    /\ \/ /\ disk[s].terminal # "none"
          /\ owner = s \/ ~disk[s].completed \/ OwesClose(s)
          /\ Continue(s, "finish")
       \/ /\ disk[s].terminal = "none" /\ owner = s
          /\ ~(disk[s].stop /\ disk[s].exit = "start")
          /\ Continue(s, "recover")
    /\ UNCHANGED <<files, device, sent, faults>>

\* finish: the admission, completed.json, the owner file, closed.json.
register_admission(s) ==
    /\ Doing(s, "finish") /\ ~admitted
    /\ disk[s].terminal = "NATIVE" /\ disk[s].op = "bootstrap"
    /\ admitted' = TRUE
    /\ UNCHANGED <<holder, owner, pending, grants, disk, claims, goal, device, sent, faults>>

complete(s) ==
    /\ Doing(s, "finish")
    /\ disk[s].terminal = "NATIVE" /\ disk[s].op = "bootstrap" => admitted
    /\ disk' = [disk EXCEPT ![s].completed = TRUE]
    /\ Continue(s, "retire")
    /\ UNCHANGED <<owner, pending, grants, admitted, claims, goal, device, sent, faults>>

retire_f1_owner(s) ==
    /\ Doing(s, "retire") /\ owner \in {s, None}
    /\ owner' = None
    /\ Continue(s, "close")
    /\ UNCHANGED <<pending, grants, disk, admitted, claims, goal, device, sent, faults>>

close_grant(s) ==
    /\ Doing(s, "close")
    /\ grants' = IF s[2] = Budget[s[1]] THEN [grants EXCEPT ![s[1]] = "over"] ELSE grants
    /\ Release
    /\ UNCHANGED <<owner, pending, disk, admitted, claims, goal, device, sent, faults>>

\* The states an interrupted step may leave the device in: a step of the plan
\* acts on the device only after its own checks.
Torn(s) ==
    LET act == IF Doing(s, "run") /\ ~Complete(s) /\ May(s) THEN Current(s).act ELSE "none"
        Left(images, modes) == [image : images, mode : modes, seen : {None}]
        Written(image) == Left({device.image, "partial", image}, {"download", "down"})
                             \union {Boots(image)}
    IN CASE act = "flash" -> Written(ImageOf(Current(s).phase))
         [] device.mode = "download" /\ Exiting(s) /\ disk[s].exit = "start" -> Written("A")
         [] act = "request" -> {device, [device EXCEPT !.mode = "download"]}
         [] act = "observe" -> {device} \union Left({device.image}, {"download", "down"})
         [] OTHER -> {device}

\* The process dies at any step, or the step raises where nothing of its
\* checks says so (I/O, timeouts, a transport that fails).  A stop may have
\* written its own record and not the grant's.
Interrupt(s) ==
    /\ holder.who = s /\ faults < MaxFaults
    /\ faults' = faults + 1
    /\ Release \/ (holder.doing = "run" /\ Continue(s, "caught"))
    /\ device' \in Torn(s)
    /\ \/ UNCHANGED disk
       \/ holder.doing \in {"caught", "recover"} /\ disk' = [disk EXCEPT ![s].stop = TRUE]
    /\ LET phase == IF Exiting(s) /\ disk[s].exit = "start" THEN "android-exit"
                    ELSE IF Running(s, "flash") THEN Current(s).phase ELSE "none"
       IN IF device' # device /\ phase # "none" THEN Sends(s, phase) ELSE UNCHANGED sent
    /\ UNCHANGED <<owner, pending, grants, admitted, claims, goal>>

----------------------------------------------------------------------------
(* Reboots of a research goal.  A goal opened after another one was closed *)
(* takes its place: a grant that is not closed is what the reboot needs.   *)

open_goal ==
    /\ ~goal /\ goal' = TRUE
    /\ UNCHANGED <<holder, owner, pending, grants, disk, admitted, claims, device, sent, faults>>

\* Mutant: require_no_f1_owner is forgotten.
reboot_start_owned ==
    /\ Lease /\ goal /\ Healthy
    /\ Continue(Goal, "observed")
    /\ UNCHANGED <<files, device, sent, faults>>

\* execute('normal-reboot'): the checks and the health before it.
reboot_start ==
    /\ Lease /\ owner = None /\ goal /\ Healthy
    /\ Continue(Goal, "observed")
    /\ UNCHANGED <<files, device, sent, faults>>

reboot_intent ==
    /\ Doing(Goal, "observed")
    /\ pending' = [pending EXCEPT !.set = TRUE]
    /\ Continue(Goal, "intent")
    /\ UNCHANGED <<owner, grants, disk, admitted, claims, goal, device, sent, faults>>

reboot_once ==
    /\ Doing(Goal, "intent") /\ Healthy
    /\ device' = Boots("A") /\ Booted
    /\ Continue(Goal, "sent")
    /\ UNCHANGED <<owner, grants, disk, admitted, claims, goal, sent, faults>>

wait_return ==
    /\ Doing(Goal, "sent") /\ pending.booted /\ Healthy
    /\ pending' = [set |-> FALSE, booted |-> FALSE]
    /\ Release
    /\ UNCHANGED <<owner, grants, disk, admitted, claims, goal, device, sent, faults>>

\* An action that fails closes its goal; its intent stays.
reboot_failed ==
    /\ holder.who = Goal
    /\ goal' = FALSE /\ Release
    /\ pending' = [pending EXCEPT !.booted = pending.set /\ pending.booted]
    /\ UNCHANGED <<owner, grants, disk, admitted, claims, device, sent, faults>>

reboot_died ==
    /\ holder.who = Goal /\ faults < MaxFaults
    /\ faults' = faults + 1 /\ Release
    /\ pending' = [pending EXCEPT !.booted = pending.set /\ pending.booted]
    /\ UNCHANGED <<owner, grants, disk, admitted, claims, goal, device, sent>>

reconcile ==
    /\ holder = Nobody /\ pending = [set |-> TRUE, booted |-> TRUE] /\ Healthy
    /\ pending' = [set |-> FALSE, booted |-> FALSE] /\ goal' = FALSE
    /\ UNCHANGED <<holder, owner, grants, disk, admitted, claims, device, sent, faults>>

close_goal ==
    /\ goal /\ goal' = FALSE
    /\ UNCHANGED <<holder, owner, pending, grants, disk, admitted, claims, device, sent, faults>>

----------------------------------------------------------------------------
(* An ordinary F1 run, as far as the others see it.                        *)

f1_begin ==
    /\ Lease /\ owner = None /\ Healthy
    /\ owner' = F1 /\ Continue(F1, "run")
    /\ UNCHANGED <<pending, grants, disk, admitted, claims, goal, device, sent, faults>>

f1_effect ==
    /\ Doing(F1, "run")
    /\ device' \in {Boots("X"), Boots("A"),
                   [image |-> "partial", mode |-> "download", seen |-> None]}
    /\ UNCHANGED <<holder, files, sent, faults>>

f1_end ==
    /\ Doing(F1, "run") /\ Healthy
    /\ owner' = None /\ Release
    /\ UNCHANGED <<pending, grants, disk, admitted, claims, goal, device, sent, faults>>

f1_died ==
    /\ Doing(F1, "run") /\ faults < MaxFaults
    /\ faults' = faults + 1 /\ Release
    /\ UNCHANGED <<files, device, sent>>

f1_recover ==
    /\ Lease /\ owner = F1
    /\ Continue(F1, "run")
    /\ UNCHANGED <<files, device, sent, faults>>

----------------------------------------------------------------------------
Work(s) ==
    \/ OpenOperation(s) \/ begin_f1_owner(s) \/ Link(s)
    \/ collect_android(s) \/ ask_android(s) \/ request_android_download(s)
    \/ observe_native(s) \/ wait_native_return(s)
    \/ claim_candidate(s) \/ role_intent(s) \/ transfer(s)
    \/ Refuse(s) \/ CloseNative(s)
    \/ ExitIntent(s) \/ ExitTransfer(s) \/ ExitRefused(s)
    \/ ExitHealth(s) \/ CloseAndroid(s)
    \/ repair_native_terminal(s) \/ stop(s) \/ settle(s)
    \/ register_admission(s) \/ complete(s) \/ retire_f1_owner(s) \/ close_grant(s)

Research ==
    \/ open_goal \/ reboot_start \/ reboot_intent \/ reboot_once \/ wait_return
    \/ reboot_failed \/ reboot_died \/ reconcile \/ close_goal

Ordinary == f1_begin \/ f1_effect \/ f1_end \/ f1_died \/ f1_recover

Next ==
    \/ EnterDownload \/ PowerCycle
    \/ \E g \in Grant : open_grant(g) \/ Lapse(g) \/ Reserve(g)
    \/ \E s \in Slot : Work(s) \/ recover(s) \/ Interrupt(s)
    \/ Research \/ Ordinary

Spec == Init /\ [][Next]_vars
\* A process goes on while it lives.  recover() prompts the operator, who puts
\* the device into Download mode, restarts a device that did not come back,
\* and runs recover again after a death.
Prompted(s) == Exiting(s) /\ disk[s].exit = "none" /\ EnterDownload
Restarted(s) == Exiting(s) /\ disk[s].exit = "sent" /\ device.mode # "up" /\ PowerCycle

\* Only one operation at a time has the lease, or the owner file.
FairSpec ==
    /\ Spec
    /\ WF_vars(\E s \in Slot : Work(s) \/ recover(s))
    /\ WF_vars(\E s \in Slot : Prompted(s) \/ Restarted(s))
    /\ SF_vars(\E s \in Slot : ExitIntent(s) \/ ExitHealth(s))

----------------------------------------------------------------------------
(* Properties.                                                             *)

Record == [made : {"none", "reserved", "operation"},
           op : Operation \union {"none"}, origin : Origin \union {"none"},
           prior : Slot \union {None}, next : BOOLEAN, done : Nat,
           exit : {"none", "start", "sent", "healthy"}, stop : BOOLEAN,
           terminal : {"none", "NATIVE", "ANDROID", "ABORTED"}, completed : BOOLEAN]

WellFormed(s) ==
    /\ disk[s].made = "none" => disk[s] = Unused
    /\ disk[s].made # "none" => /\ disk[s].op \in Allowed[s[1]]
                                /\ disk[s].done \in 0..Len(PlanOf(s))
    /\ disk[s].terminal # "none" => disk[s].made = "operation"

\* The types of the files and of the device; no operation has more records
\* than its plan, and one that has a terminal has its operation.json.
TypeOK ==
    /\ holder \in [who : Slot \union {None, F1, Goal},
                   doing : {"none", "reserve", "link", "run", "caught", "recover", "settle",
                            "exit", "finish", "retire", "close", "observed", "intent", "sent"}]
    /\ owner \in Slot \union {None, F1}
    /\ pending \in [set : BOOLEAN, booted : BOOLEAN]
    /\ grants \in [Grant -> {"none", "open", "over"}]
    /\ disk \in [Slot -> Record] /\ \A s \in Slot : WellFormed(s)
    /\ admitted \in BOOLEAN /\ claims \subseteq {"N", "E"} /\ goal \in BOOLEAN
    /\ device \in [image : {"A", "N", "E", "X", "partial"}, mode : {"up", "download", "down"},
                   seen : Slot \union {None}]
    /\ sent \in [Slot -> [Phase -> Nat]]
    /\ faults \in 0..MaxFaults

\* At most one actor is answerable for the target: an unresolved reboot and an
\* F1 owner never exist together, and an operation that has recorded a step
\* and has not completed still has the owner file, whoever died when.
OneActor ==
    /\ ~(pending.set /\ owner # None)
    /\ \A s \in Slot : disk[s].done > 0 /\ ~disk[s].completed => owner = s

\* No role is delivered twice: a phase of an operation is transferred at most
\* once, recoveries and restarts included, and new content (the bootstrap of
\* N, the experiment E) at most once over all operations and grants.
RolesOnce ==
    /\ \A s \in Slot : \A ph \in DOMAIN sent[s] : sent[s][ph] <= 1
    /\ \A s, t \in Slot : \A ph \in {"bootstrap-first", "experiment"} :
          sent[s][ph] = 1 /\ sent[t][ph] = 1 => s = t

\* Nobody answers for the target only while it holds the exact Android image
\* or an admitted native one: never an experiment, a candidate, a native image
\* that did not qualify or half of a transfer.
TargetReturned ==
    owner = None => device.image = "A" \/ (device.image = "N" /\ admitted)

\* native_replay_forbidden: after its stop record, or once its grant is closed
\* or has expired, an operation sends no native image; and after the stop
\* record it is never closed as native, whatever evidence it has.
StopFinal ==
    [][\A s \in Slot :
          /\ disk[s].stop \/ grants[s[1]] # "open" =>
                \A ph \in DOMAIN sent[s] \ {"android-exit"} : sent'[s][ph] = sent[s][ph]
          /\ disk[s].stop /\ disk'[s].terminal = "NATIVE" => disk[s].terminal = "NATIVE"]_vars

\* Every operation gives the target up in the end, unless its one Android
\* transfer began and was never seen to complete.
OwnerReleased ==
    owner \in Slot ~> \/ owner \notin Slot
                      \/ owner \in Slot /\ disk[owner].exit = "start"

\* "A native-origin operation consumes an exclusive link from the previous
\* native terminal" (S22PLUS_NATIVE_BASELINE_V1.md): no two operations that
\* owned the target started from the same terminal.
ExclusiveLink ==
    LET Owned == {s \in Slot : owner = s \/ disk[s].stop \/ disk[s].terminal # "none"}
    IN \A s, t \in Owned : disk[s].prior # None /\ disk[s].prior = disk[t].prior => s = t
=============================================================================
