# TLA+ verification of the device-action process

The repository boots experimental native images on phones it must not brick.
What makes that safe is a host-side process: a candidate boot image is flashed
at most once, under a global claim, by a run that owns the target; the exact
stock image is flashed back; every step is journalled so that a host that died
can be told to recover. These modules model that process and check it with TLC
and TLAPS. Paths below are relative to
`src/workspace/public/src/scripts/revalidation/` unless they start with `src/`.

## Inventory

| Part | State | Operations | What is hard |
|---|---|---|---|
| Consumed-candidate registry `consumed_candidate_registry_v1.py` | hash-chained record files, `head.json`, two lock files | `initialize`, `preflight_candidate`, `active_claim`, `claim`, `release`, tail repair | several processes; death and power loss between any two system calls; readers racing a writer |
| F1 journal `device_action_f1_v2.py` (`Journal`) | record files and head of one transaction | `create`, `reopen`, `transition`, `event`, `checkpoint` | the same file hazards; three orders (states, timeline, attempts) that must agree after every resumption |
| F1 live adapter `device_action_f1_live_v2.py` | run directory (live state, intents, receipts, attempt files, result), owner file, target-session lock | `execute_prepared`, `recover_prepared` | recovery from a cut at any step, with the device in an unknown condition and the registry possibly unavailable |
| Attended sessions `s22plus_attended_f1_session_v1.py` | `grant.json`, `NN-reserved.json`, `NN-completed.json`, `closed.json`, a sidecar in the run | open, reserve, check, finish, close, before recovery | files of two directories that a cut leaves apart; withdrawal and expiry without a lock |
| Native baseline owner `s22plus_native_baseline_owner_v1.py` | grants with their reservations, one directory of records per operation, admissions, the owner file | open a grant, reserve, execute (bootstrap, experiment, restore, Android exit), repair, stop, recover, finish | a death between any two records; grants that lapse inside an operation; native evidence that is complete but too late; one Android transfer that may not be repeated |
| Goal research `s22plus_goal_research_v1.py` | a goal, `pending-d1.json` | attended reboot, reconcile, close | a reboot that was announced and perhaps never sent |
| Raw capture, Odin transport, D0 | capture directories, endpoint snapshots | capture, reopen, wait for an endpoint | timeouts against late answers, output bounds |
| Coordinators `src/workspace/public/src/device-action/coordinators/` | reboot journal | autonomous normal reboot | one-shot effects |
| A90 native init `src/workspace/public/src/native-init/a90_*.c` | child processes, services, console, TCP control, handoff | run, start, stop, attach, authenticate, hand off | signals, timeouts, PID 1 must survive |
| Serial bridge and host control `a90ctl.py`, `serial_tcp_bridge.py`, `a90_transport.py`, `a90_serial_lock.py`, `a90_bridge.py` | a lock file, one client connection, a transmit buffer, the device link; a shell on the other end | one framed exchange, retries, recovery, bridge restart | retries of what already ran; frames of one client read by another; the device leaving while lines are queued |
| Harness `src/workspace/public/src/harness/a90harness/` | schedule, evidence, failure records | run a module, observe, gate | an observer thread against the test |
| S22+ runtime and autoboot `src/workspace/public/src/native-init/s22plus_*` | boot phase, watchdog, evidence chain | phases of one boot | watchdog racing progress |

The parts that decide whether a device is flashed, and the line over which a
running native system is commanded, are modelled. They
interact as follows. `execute_prepared` takes the target-session lock, checks
that no owner file exists and that the registry has no claim of its candidate,
creates the journal, writes the owner file, asks Android to reboot to Download
mode, claims the candidate, numbers a transfer attempt and starts Odin. A
`recover_prepared` call starts from the files alone: the journal's state, the
attempt files, the owner file and the registry's claims. The registry never
calls back; the journal knows nothing of the other two. A session wraps an
execution: it reserves the run before and records its result after it, and a
recovery of such a run first tells the session that it was interrupted.
Ordinary runs, operations of the native baseline and research reboots exclude
each other through three things only: the target-session lock while a process
lives, and the owner file and the pending-reboot file after it died. The
serial part shares nothing with them but the phone.

What makes each of them correct:

- registry: no candidate reaches two device sessions; a receipt that was returned
  survives a power cut; only a classified local parse failure releases a claim;
  what a writer appends, every later scan accepts;
- journal: what an append returned is never lost; a journal that reopens does
  not forget what an earlier process was shown; the orders hold over the chain;
- adapter: one candidate transfer per run; transfers only under lease, owner
  file, claim and checkpoint; the target is given up only with its stock image;
  recovery always ends, in a result or in a stop that a person can name;
- sessions: experiments run in catalog order and only after a pass; a cut run
  ends its session; one authority per run; no session stands in the way of recovery;
- baseline and research: at most one actor answers for the target, whoever died
  when; no role is delivered twice; a stop is final, and so is
  the end of a grant; the target is given up only
  with Android or an admitted native image, and it is given up in the end;
- serial line: a command that may not be repeated runs at most once; no line reaches
  a device it was not queued for; a result is a frame of the asker's command name; a
  bridge that lost its client or its device serves again.

The rest is listed in `PROJECT.json` with the reason it is not modelled (yet).

## Modules

| Module | Models |
|---|---|
| `CandidateRegistry` | the registry, one action per file operation, with process death and power cuts |
| `ClaimLedger` | what the registry promises: an abstract ledger of claims |
| `RegistryProofs` | TLAPS proofs about `CandidateRegistry` |
| `F1JournalRules` | what the journal admits: transition table, timelines, attempt numbers |
| `F1Journal` | the journal's files: record, staged head, replace, fsync, reopen |
| `JournalProofs` | TLAPS proofs about `F1Journal` |
| `F1Run` | `execute_prepared` and `recover_prepared` on one target; uses `F1JournalRules` and implements `ClaimLedger` |
| `RunProofs` | TLAPS proofs about `F1Run` |
| `AttendedSession` | session grants around executions and recoveries; the device phase of `F1Run` is one step |
| `SessionProofs` | TLAPS proofs about `AttendedSession` |
| `BaselineOwner` | operations of the native baseline, research reboots and ordinary runs (as far as the others see them) on one target |
| `BaselineProofs` | TLAPS proofs about `BaselineOwner` |
| `SerialBridge` | the bridge: select loop, identity check of the device, one client, transmit buffer, restart |
| `HostControl` | clients of the bridge (lock, exchange, retries, recovery) and the device's shell; extends `SerialBridge` |
| `HostProofs` | TLAPS proofs about `SerialBridge` and `HostControl` together |
| `MCRegistry`, `MCJournal`, `MCRun`, `MCSession`, `MCBaseline`, `MCHost` | instances for TLC |

`CandidateRegistry` and `F1Run` both satisfy `ClaimLedger!Spec`
(`ImplementsLedger`): the first shows that the files implement the ledger, the
second that runs use it as a caller must. That is what allows `F1Run` to keep
the registry as four sets. In the same way `F1Run` keeps the journal as the
`Summary` its chain amounts to, which `F1Journal` shows to survive crashes.

### How the state corresponds to the code

`CandidateRegistry`: `records` are the record files in order, `head` the parsed
`head.json`, with staged files and the part that is already durable beside
them; each process is at one label of `_writer`, `_reader`, `_append` or
`_write_head`. Hashes are not computed: a record names its predecessor by
position, which is what the hash check establishes. An fsync of a directory makes
all entries of it durable, an fsync of a file only that file's bytes; a power cut undoes
any suffix of the rest. A scan may adopt a record that its writer never fsynced, and the next
append then makes its entry durable but not its bytes (`loose`). A power cut may leave such a
record empty behind a later one that was returned: the registry is then `damaged`, every
scan refuses it, and no code repairs it. No claim is lost by that, since nothing can be claimed
any more.

`F1Journal`: the same for the journal, `loose` and `damaged` included, for one process at a
time, since a transaction is used only under its lease.

`F1Run`: `disk[p]` holds the files of a run directory as far as the control flow
reads them: `cls` and `rcls` are `candidate_classification` and
`rollback_classification` of the live state, `starts` and `result` the attempt
files, `cut` the outcome of a request-cut transition, `captures` the two
`rollback-observer-*.bin` files, `live` the published result. `mem[p]` is the
process; `Interrupt` clears it and keeps the files. `tries` and `refused` are
history. Execution and recovery share the steps that the code shares
(`_begin_transfer_attempt`, `_release_candidate_global`, `_finish_rollback`,
`_result`) and, from the candidate transfer to OBSERVED, the steps
`_normalize_recovery` replays "only if missing". The device is external: an image
(`stock`, `candidate`, `partial`) and a mode. Two branches of the code are not
actions because they are unreachable, and an invariant says so: a conjunct of
`EffectsOwned` for the foreign claim that blocks recovery, `NoInventedAttempt`
for the attempt invented for a claim without start file.

`F1Run` is the ordinary bundle: the P3xx variants, the native round trip, named
explorations and USB traces of the adapter add evidence and their own states to
the same skeleton and are left out. So are artifact hashes, schemas and the
contents of the observer's evidence (`accepted` is what remains of it).

`AttendedSession`: `session[g]` are the files of a grant directory (`reserved` and
`completed` by ordinal), `dir[r]` those of a run directory as far as sessions read
them, with the journal reduced to four stages and the result to how the run ended and
after how many device phases, which is what its hash tells apart. Everything but
`Withdraw` and `Lapse` happens under the lease, so `proc` is one process. The
registry's claims are left out: what the session promises must hold without them.
`broken`, `late` and `spoiled` are history.

`BaselineOwner`: `disk[<<g, i>>]` is `operation-0i` of grant `g`. `execute` is a straight line of
steps that each leave a record, so the directory is the number `done` of records of
`Plan(op, origin)`; `May` holds the checks of each step, `Refuse` is the exception
when one fails. `exit` is the Android transfer, which the plan of an `android-exit`
and every recovery share, through its intent, its result, the final health (`ExitHealth`) and the
terminal (`CloseAndroid`). A recovery of an operation that gave the target up and was cut before
its `closed.json` writes that file (`OwesClose`). A research goal may be opened again after it
was closed (`open_goal`). `Interrupt` is a death or an exception at any
step, with the device in any state the interrupted step can leave (`Torn`).
`device.seen` names the operation whose final session authenticated in the boot
that is running, which is what `fresh_same_boot` asks. `finish` is four actions, one per
record. Policy V2 only; whether `execute` parks or recovers at once is a choice in
`stop`. Requests, reviews, source bindings, the lane and the event journal refuse
before anything is written and are left out, as is the research scope whose
children take their authority from another grant.

`SerialBridge` and `HostControl`: the bridge's two sockets, its transmit buffer and
the link it opened are variables; one action per branch of `tick`. A client is
one call of `run_cmdv1_command` or of `run_serial_command_recovered`, each exchange
with its own connection. A line carries only its client, its attempt and the name
by which answers are matched. What the device prints is a sequence of begin, end
and prompt marks; `Verdict` says what the parser makes of it. Unplugging, reboots,
deadlines and bridge restarts happen at any step; an open that fails in an unexpected way
ends the bridge (`open_raises`), a full socket closes a client that stays, and the console that
reattaches when idle drops the lines it finds (`idle_reattach`). Lines are the unit: a write
stops between two lines, so half a line left on the device by a restart, to be ended by the next
client's newline, is not modelled.

## Runs

| Run | Instance | Shows |
|---|---|---|
| `registry` | two runs of one candidate, four records | `NoReplay`, `ReceiptsAreDurable`, `AppendsVerify`, `OnlyParseFailureReleases`, `ReadsReportSessions`, `WriterLeaves`, refinement of the ledger |
| `journal` | every journal of up to eight records | `ReturnedSurvive`, `NoAmnesia`, `OneTimeline` |
| `f1run` | two runs of one candidate, two faults | `CandidateOnce`, `TransfersRecorded`, `EffectsOwned`, `TargetReturned`, `NeverRefused`, `NoInventedAttempt`, `PreEffectHonest`, refinement of the ledger |
| `f1run_fair` | one run, three faults | `OwnershipEnds` |
| `session` | two grants, two experiments, two runs, two faults | `CatalogOrder`, `OneAuthority`, `WithdrawnStops`, `InterruptionFinal`, `RecoveryUnhindered` |
| `baseline` | a grant for a bootstrap and an experiment, one for a restore or an exit, research reboots, ordinary runs, two faults | `OneActor`, `RolesOnce`, `TargetReturned`, `StopFinal`, `OwnerReleased` |
| `host` | a client whose command may not be repeated and a safe one with recovery, two attempts each, two plugs | `UnsafeOnce`, `OwnLink`, `ResultTraced`, `BridgeRecovers` |
| `closed_result`, `late_release`, `session_recovery`, `baseline_link`, `host_replay` | one or two faults | statements of documents and comments that the code does not meet (below) |

Every passing run also checks the `TypeOK` of its module.

Bounds. Two runs are enough for the registry and the adapter because every
property is about one run or a pair of runs, and the theorems cover any number.
Four registry records allow claim, release, claim again, a torn tail and its
repair. Eight journal records reach a resumed second attempt and both timelines
past their divergence. Two faults allow a death during the recovery of a death, or
a failed release followed by a later one; three are checked with a single run.
Two grants that share an experiment, with one run of each experiment, allow a run to be
reserved twice, out of order, and after an abort.
Three baseline slots allow a bootstrap, an operation that starts from its terminal and
one that starts from either; two faults allow a death in the recovery of a failure.
On the serial line every property is about one line, one client or a pair of them,
and a pair with two attempts each reaches every interference of an earlier exchange
with a later one; two plugs are a device lost and found again.
Deadlock is not checked in `HostControl`, where clients finish, in `BaselineOwner`, where an
Android transfer of unknown outcome on a device that does not boot waits for a person, in `AttendedSession`, where runs are used up, and in `F1Run`: a run that was aborted before it was
published has no further step, and that is what the code does.

Fairness. `registry` assumes that a process that holds or waits for the lock
keeps running. `f1run_fair` and the temporal violation runs assume weak fairness of
the process and of the operator calling `recover`, and strong fairness of the
operator entering Download mode: the code prompts for it and times out, so
the opportunity comes and goes. Faults are never fair and bounded by `MaxFaults`.
`session` assumes weak fairness of the process and strong fairness of `Recover`:
the operator calls it again and again between other uses of the target.
`baseline` assumes weak fairness of the process, of `recover`, and of the operator
who answers its prompt or restarts a device that did not come back, and strong fairness of
the two steps of the exit that need the device in the right mode, since the device can
be restarted under them; a timeout of those waits counts as a fault. `host` assumes weak
fairness of the bridge's loop and of live clients, and of a device that is plugged in
again; deadlines are not fair.

### Findings

Each is a violation run whose trace is short enough to follow.

- `closed_result`: a CLOSED run is never published and keeps its owner file, in two
  ways. A death between the candidate's result file and the saved live state is
  normalised to "unknown" although the file says "completed", and the validation
  finds them different. And after a first rollback that failed and was published
  as `RECOVERY_REQUIRED`, a death between CLOSED and its publication makes recovery
  re-emit the verdict of the old file, which does not validate for CLOSED.
- `session_recovery`: a failed rollback, in a session, completes the
  reservation with that result. The recovery that closes the run then publishes,
  gives the target back and raises "completed reservation changed", as does every
  later call.
- `late_release`: a release that failed is tried again by the next recovery even
  after a rollback went wrong. The run becomes ABORTED with
  `recovery_required` false while the partition is half written, and its result denies a
  device session although the rollback had one. `PreEffectHonest` therefore speaks of the
  candidate only.
- `baseline_link`: `reserve` writes the owner file before `next-operation.json`. A death
  between the two leaves the native terminal without its exclusive link, recovery never
  writes it, and a later operation starts from the same terminal. It is caught at
  its first authentication, so nothing native is sent; the target falls back to Android.
- `host_replay`: the list of commands that may be retried names first words, so
  `wifi connect` is retried because `wifi` is listed.

Two more stops of `F1Run` have no run of their own; `Stuck` names them. A repeated
release is answered without `record_receipt` and `head`, and `_persist_registry_event`
then finds the stored receipt different, so a run that died between ABORTED and its
publication is never published. And `verify_final` writes fixed file names
exclusively, so a verification cut after its first capture cannot be repeated.
A local parse failure also keeps the owner file for good: the candidate is released
and still cannot be run, because the target is owned.

`OwnershipEnds` lists these and the intended stops (parked request cut, rollback
attempts used up) as `Stuck` and shows that there are no others.

## Proofs

Every invariant, every action property and both refinements that a passing run
checks are theorems: TLC shows them on the instance above, TLAPS for every value
of the constants that satisfies the named assumptions, hence for any number of
runs, candidates, records, grants, experiments, clients, retries, plugs and faults.
Few of the properties are inductive. Each section names what had to be added and why.

### Registry (`RegistryProofs`)

`RegistryTypes`, `RegistryNoReplay`, `RegistryReceiptsDurable`,
`RegistryAppendsVerify`, `RegistryOnlyParseFailureReleases`,
`RegistryReadsReportSessions`, `RegistryImplementsLedger`; from `RegistryAssumption`.

That a second session of a candidate is impossible depends on
the first claim still being active, hence on its record still being in the
chain, hence on the durable prefix never shrinking below what a receipt names.
`IInv` states these links one by one: a writer is alone, the
pending record is the last one and fits the chain, receipts name durable and
still active records, transfers have receipts, releases are justified. `LInv`
adds that the chain verifies and that a claim is displaced by a later record of
its key only after its own transfer was a parse failure (`DisplacedFailed`). The
refinement needs it for the power cut: a release whose record is torn off makes
the claim before it active again, and that is a ledger step only because the transfer
of that claim failed before it reached the device.

The run `registry` has no legacy candidate: that the deny list holds rests on
these proofs. `AppendsVerify` is about the chain of complete records; the head and a torn or
damaged file are other reasons for a scan to refuse.

### Journal (`JournalProofs`)

`JournalTypes`, `JournalReturnedSurvive`, `JournalNoAmnesia`, `JournalOneTimeline`;
from `JournalAssumption`.

`TypeOK` is more than the shape of the variables (`FilesOK`): the summary of the chain
has no more attempts of a transfer than a checkpoint admits, however many processes counted
them. For durability the invariant (`IInv`) adds that the head covers what was returned, that
an open journal remembers what it showed, and that what was shown is anchored in the
durable head before anyone acts on it.

`OneTimeline` speaks of the summary that a recursive function computes from the chain,
and induction over chains is out of the prover's reach. The journal's own steps
replace it: that every prefix of `records` has exactly one summary, and an ordered one,
is an invariant (`Legible`, in `TInv`) that an append extends by one record and a
power cut restricts. `Ordered` is what the timeline needs
of the other two orders: events of the shorter timeline beyond its start occur only in
the states of a recovery or after them, so an event of the longer one cannot follow.

### Execution and recovery (`RunProofs`)

`RunTypes`, `RunCandidateOnce`, `RunTransfersRecorded`, `RunEffectsOwned`,
`RunTargetReturned`, `RunNeverRefused`, `RunNoInventedAttempt`, `RunPreEffectHonest`,
`RunImplementsLedger`; from `RunAssumption`.

One invariant, `Inv`, carries all of them. For every run it relates the files to each
other: how far the journal's events are in each state (`Chain`), attempts numbered by
start files, then checkpointed, then transferred (`Numbered`), the order in which files appear
(`Files`), what an active claim says of them (`Claimed`), and what owning the target
says of the image (`Owning`). And it says what a process knows at its label:
who has the lease (`Exclusive`), and the position of an execution, a transfer, an ending and
a recovery (`Executing`, `Transferring`, `Ending`, `Recovering`). `Interrupt` forgets the
second half, so the first half must be strong enough to prove the second again when
`recover_prepared` has read the files. The argument across runs is short: whoever is at a step
that touches the device has the lease and, past arming, the owner file, and neither
has two holders; whoever transfers a candidate has a claim, and a key has one active claim.

### Attended sessions (`SessionProofs`)

`SessionTypes`, `SessionOneAuthority`, `SessionWithdrawnStops`,
`SessionInterruptionFinal`, `SessionCatalogOrder`; from `SessionAssumption`.

`Shape` says what the process knows of its run and grant (`Position`, `Publishing`,
`Entitled`) and how the run's files and the grant's reservations name each other
(`Files`, `Authorized`, `ReservedOnce`). On top of it, a run that went on
late has a dead grant (`LateInv`); a broken grant is dead or has a run whose journal has
not ended, which `before_recovery` must close first (`BrokenInv`); and the
reservations before an ordinal let the session go on and passed every experiment
before the next one (`Followed`). The place in the catalog is one past the number of
CLOSED runs (`Index`), so the proof also follows the cardinality of that set of ordinals.

### Native baseline and research (`BaselineProofs`)

`BaselineTypes`, `BaselineOneActor`, `BaselineRolesOnce`, `BaselineTargetReturned`,
`BaselineStopFinal`; from `OwnerAssumption` and `ActorAssumption`.

`Shape` says who has lease, owner file and pending-reboot file (`Actors`), that the
process agrees with the records of its operation (`Working`), and that an operation
with records and without `completed.json` has the owner file (`Directory`). Given
that, roles are delivered once because what the records leave to be sent has not been sent
(`Unsent`), and the target is given up with a settled image because the owner's records
say which image it holds (`Image`).

### Serial line (`HostProofs`)

`HostTypes`, `HostUnsafeOnce`, `HostOwnLink`, `HostResultTraced`; from
`BridgeAssumption` and `HostAssumption`.

The properties speak of the ends of the line, a command that ran or a frame
that was accepted; what makes them inductive lies in between. `Linked` follows the
enumeration a line or a record was written on through every buffer, `Unique` says that the
line of a connection is in one place only until it runs, `Named` ties names to connections and
what the device says it ran to what it ran, and `Calls` bounds how far a client can still get.
In the run `host` the client whose command may not be repeated does not use the recovery, and the
device always comes back on one path: that recovery does not repeat such a command, and that the
pin refuses other paths, rests on these proofs (a second path or a second recovering client
multiplies the states beyond what the run can do).
`ResultTraced` excepts a client that itself asks for `hide`: answers are matched by name, and
the recovery of another client sends `hide` too.

### Only model-checked

Liveness under fairness (`WriterLeaves`, `OwnershipEnds`, `RecoveryUnhindered`,
`BridgeRecovers`, `OwnerReleased`), which the prover does not handle, and the violation
runs, which are counterexamples. The assumptions on constants are evaluated by TLC in every
run that extends their module. That `F1Run` may keep the
journal as a summary rests on `JournalReturnedSurvive` and `JournalNoAmnesia` and on reading the
two modules side by side; it is not a theorem of either.

Two hazards of `PROJECT.json` have no property. A late frame of an earlier command of the same
name is taken for the answer, which the records of the protocol do not allow to tell apart. And
that the evidence of a native boot is of the boot that is running is a guard of the model,
which no property would miss.

## Plan

1. Registry, journal, run execution and recovery, attended sessions (done).
2. Serial bridge and host control; native baseline owner and goal research (done).
3. Proofs of every invariant, action property and refinement of the runs (done).
4. Next: the safety halves of the liveness properties (a run that is
   `Stuck` stays so, an owner file is never removed while its operation lacks
   `completed.json`), an abstract journal that `F1Journal` implements and `F1Run` uses, and
   lemmas shared by the proofs gathered in one place.

## Not modelled

The repository has 1.9 million lines, nearly all of them records of a laboratory:
generated result scripts and archives of one experiment each, builders, vendored kernel code,
and thousands of variants of the same few programs. A model of them would
restate their text, so the modules cover a small share of the lines and the programs that
carry the decisions.

Of those programs, these are left out, with the reason in `PROJECT.json`: raw capture,
result publication and D0 observation (sequential file and `adb` input and output around a
parser); the Odin endpoint session (its outcome, not its polling, is what `F1Run` and `BaselineOwner`
depend on); manifests and bundles (validation without state); the pre-F1 coordinators;
the A90 native init beyond its shell (process supervision, network control and handoff,
storage, self-test); the test harness; the S22+ autoboot phases. Within the modelled
parts: the P3xx variants and native round trip of the adapter, policy V1 and the research
scope of the baseline, the double and slow input modes of the serial client (where a deadline
inside a paced send leaves half a line on the device), and a death inside `Journal.create`,
which leaves a transaction directory without a first record that `reopen` refuses for good.
