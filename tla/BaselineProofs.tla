--------------------------- MODULE BaselineProofs ---------------------------
(***************************************************************************)
(* Proofs about BaselineOwner, for any set of grants, any budgets and      *)
(* requests, and any number of faults: its types, OneActor, RolesOnce,     *)
(* TargetReturned and StopFinal.                                           *)
(*                                                                         *)
(* The invariants are not inductive as they stand.  What makes them so is  *)
(* that the state of the process that has the lease agrees with the        *)
(* records of its operation (Working), that an operation with records and  *)
(* without completed.json has the owner file (Directory), that what the    *)
(* records leave to be sent has not been sent (Unsent), and that the       *)
(* records of the owner say which image the target holds (Image).          *)
(***************************************************************************)
EXTENDS BaselineOwner, TLAPS

----------------------------------------------------------------------------
(* The inductive invariant.                                                *)

\* Who has the lease, the owner file and the pending-reboot file.
Actors ==
    /\ holder.who = None => holder.doing = "none"
    /\ holder.who = F1 => holder.doing = "run" /\ owner = F1
    /\ holder.who = Goal => /\ owner = None
                            /\ holder.doing \in {"observed", "intent", "sent"}
                            /\ pending.set = (holder.doing # "observed")
    /\ pending.set => owner = None /\ holder.who \in {None, Goal}

\* What the process that works on operation s has found or made of it.
Working(s) ==
    LET d == disk[s]
        doing == holder.doing
    IN holder.who = s =>
       /\ doing \in {"reserve", "link", "run", "caught", "recover", "settle", "exit",
                     "finish", "retire", "close"}
       /\ doing = "reserve" => owner = None /\ d.made # "none"
       /\ doing \in {"reserve", "link"} => d.done = 0 /\ d.exit = "none"
       /\ doing \in {"link", "run", "caught", "recover", "settle", "exit"} => owner = s
       /\ doing \notin {"finish", "retire", "close"} => d.terminal = "none" /\ ~d.completed
       /\ doing \in {"reserve", "link", "run"} => ~d.stop
       /\ doing \in {"settle", "exit"} => d.stop
       /\ doing = "finish" => (owner = s \/ (owner = None /\ d.completed)) /\ d.terminal # "none"
       /\ doing = "retire" => owner \in {s, None} /\ d.completed
       /\ doing = "close" => owner = None /\ d.completed

\* What the directory of operation s says of the rest of the files, whoever
\* works on it.
Directory(s) ==
    LET d == disk[s]
    IN /\ owner = s => d.made = "operation"
       /\ (d.done > 0 \/ d.exit # "none" \/ d.stop \/ d.terminal # "none") /\ ~d.completed
             => owner = s
       /\ d.completed => d.terminal # "none"
       /\ d.exit # "none" => d.op = "android-exit" \/ d.stop
       /\ d.made # "none" => /\ d.op \in Operation /\ d.origin \in Origin
                             /\ OriginFits(d.op, d.origin)
                             /\ d.op = "bootstrap" \/ admitted

\* An operation of native origin starts from a terminal.
Linked(s) == disk[s].prior # None => disk[disk[s].prior].terminal # "none"

NewContent == {"bootstrap-first", "experiment"}

\* The claim of a phase that installs new content is on disk.
HasClaim(s, phase) ==
    \/ phase = "bootstrap-first" /\ disk[s].op = "bootstrap" /\ disk[s].done >= 4
    \/ phase = "experiment" /\ disk[s].op = "experiment" /\ disk[s].done >= 3

\* What the records leave to be sent has not been sent.
Unsent(s) ==
    /\ disk[s].made = "none" => \A ph \in Phase : sent[s][ph] = 0
    /\ disk[s].exit = "none" => sent[s]["android-exit"] = 0
    /\ holder.who = s /\ holder.doing \in {"run", "exit"} /\ disk[s].exit = "start"
          => sent[s]["android-exit"] = 0
    /\ holder.who = s /\ holder.doing \in {"reserve", "link", "run"} =>
          \A i \in 1..Len(PlanOf(s)), ph \in Phase :
             /\ i > disk[s].done
             /\ PlanOf(s)[i].act = "flash" /\ PlanOf(s)[i].phase = ph
             => sent[s][ph] = 0

Roles(s) ==
    /\ \A ph \in Phase : sent[s][ph] <= 1
    /\ \A ph \in NewContent :
          /\ sent[s][ph] = 1 => HasClaim(s, ph)
          /\ HasClaim(s, ph) => ImageOf(ph) \in claims

ClaimedOnce ==
    \A s, t \in Slot : \A ph \in NewContent :
       HasClaim(s, ph) /\ HasClaim(t, ph) => s = t

\* The target holds an image that nobody need answer for.
Settled == device.image = "A" \/ (device.image = "N" /\ admitted)

\* What the records of the owner say of the boot partition.
Image(s) ==
    LET d == disk[s]
    IN /\ owner = s =>
             /\ d.origin = "android" /\ d.done < 2 /\ d.exit = "none" => Settled
             /\ d.op # "android-exit" /\ Complete(s) /\ d.exit = "none" => device.image = "N"
             /\ d.exit = "healthy" => device.image = "A"
             /\ d.terminal = "NATIVE" => device.image = "N"
             /\ d.terminal = "ANDROID" => device.image = "A"
             /\ d.terminal = "ABORTED" => Settled
       /\ d.terminal = "NATIVE" /\ d.completed => admitted

\* Shape is inductive on its own; each of the others is, given Shape.
Shape == TypeOK /\ Actors /\ \A s \in Slot : Working(s) /\ Directory(s) /\ Linked(s)

RolesInv == (\A s \in Slot : Unsent(s) /\ Roles(s)) /\ ClaimedOnce

ImageInv == TargetReturned /\ \A s \in Slot : Image(s)

----------------------------------------------------------------------------
(* Constants and plans.                                                    *)

\* An operation is told apart from the other actors, and belongs to a grant.
LEMMA SlotFacts ==
    /\ None \notin Slot /\ F1 \notin Slot /\ Goal \notin Slot
    /\ \A s \in Slot : s[1] \in Grant
  BY OwnerAssumption, ActorAssumption DEF Slot

Facts(op, origin) ==
    LET P == Plan(op, origin)
    IN /\ Len(P) \in Nat
       /\ op # "android-exit" => Len(P) > 2
       /\ op = "bootstrap" => P[4].act = "claim"
       /\ op = "experiment" => P[3].act = "claim"
       /\ \A i \in 1..Len(P) :
             /\ origin = "android" /\ P[i].act \notin {"health", "ask"} => i > 2
             /\ P[i].act = "claim" =>
                   \/ op = "bootstrap" /\ i = 4 /\ P[i].phase = "bootstrap-first"
                   \/ op = "experiment" /\ i = 3 /\ P[i].phase = "experiment"
             /\ op = "android-exit" => P[i].act # "flash"
             /\ P[i].act = "flash" =>
                   \/ P[i].phase = "native-final"
                   \/ P[i].phase = "bootstrap-first" /\ op = "bootstrap" /\ i > 4
                   \/ P[i].phase = "experiment" /\ op = "experiment" /\ i > 3
             /\ op # "android-exit" /\ i = Len(P) =>
                   P[i].act = "observe" /\ P[i].phase = "native-final"
       /\ \A i, j \in 1..Len(P) :
             P[i].act = "flash" /\ P[j].act = "flash" /\ P[i].phase = P[j].phase => i = j

\* What the invariant needs of the plan that execute follows: where new
\* content is claimed, that it is flashed later, that no phase is flashed
\* twice, and that every plan but the exit ends with an observed native-final.
LEMMA PlanFacts ==
    ASSUME NEW op \in Operation, NEW origin \in Origin, OriginFits(op, origin)
    PROVE  Facts(op, origin)
<1> USE DEF Facts, Plan, Start, Install, Claimed, Step
<1>1. CASE op = "bootstrap" /\ origin = "android"
  BY <1>1
<1>2. CASE op = "experiment" /\ origin = "native"
  BY <1>2
<1>3. CASE op = "restore" /\ origin = "android"
  BY <1>3
<1>4. CASE op = "restore" /\ origin = "native"
  BY <1>4
<1>5. CASE op = "android-exit" /\ origin = "android"
  BY <1>5
<1>6. CASE op = "android-exit" /\ origin = "native"
  BY <1>6
<1>7. CASE op = "android-exit" /\ origin = "physical-download"
  BY <1>7
<1>8. QED
  BY <1>1, <1>2, <1>3, <1>4, <1>5, <1>6, <1>7 DEF Operation, Origin, OriginFits

----------------------------------------------------------------------------
(* What the steps write into the directory of an operation.                *)

\* Changing one record of a directory leaves a directory.
LEMMA RecordUpdate ==
    ASSUME NEW d \in Record
    PROVE  /\ \A x \in {"reserved", "operation"} : [d EXCEPT !.made = x] \in Record
           /\ \A x \in {"none", "start", "sent", "healthy"} : [d EXCEPT !.exit = x] \in Record
           /\ \A x \in {"NATIVE", "ANDROID", "ABORTED"} : [d EXCEPT !.terminal = x] \in Record
           /\ \A x \in BOOLEAN : [d EXCEPT !.next = x] \in Record
           /\ \A x \in BOOLEAN : [d EXCEPT !.stop = x] \in Record
           /\ \A x \in BOOLEAN : [d EXCEPT !.completed = x] \in Record
           /\ \A x \in Nat : [d EXCEPT !.done = x] \in Record
  BY DEF Record

Writes(s, d) ==
    /\ disk' \in [Slot -> Record] /\ disk'[s] = d
    /\ \A t \in Slot : t # s => disk'[t] = disk[t]

\* A step that replaces one directory leaves the others alone.
LEMMA DiskUpdate ==
    ASSUME disk \in [Slot -> Record], NEW s \in Slot, NEW d \in Record,
           disk' = [disk EXCEPT ![s] = d]
    PROVE  Writes(s, d)
  BY DEF Writes

\* The record that each step of an operation leaves.
LEMMA DiskSteps ==
    ASSUME disk \in [Slot -> Record], NEW s \in Slot
    PROVE  /\ OpenOperation(s) => Writes(s, [disk[s] EXCEPT !.made = "operation"])
           /\ Link(s) /\ disk[s].prior # None =>
                 Writes(disk[s].prior, [disk[disk[s].prior] EXCEPT !.next = TRUE])
           /\ Advance(s) => Writes(s, [disk[s] EXCEPT !.done = disk[s].done + 1])
           /\ ExitIntent(s) => Writes(s, [disk[s] EXCEPT !.exit = "start"])
           /\ ExitTransfer(s) => Writes(s, [disk[s] EXCEPT !.exit = "sent"])
           /\ ExitHealth(s) => Writes(s, [disk[s] EXCEPT !.exit = "healthy"])
           /\ CloseAndroid(s) => Writes(s, [disk[s] EXCEPT !.terminal = "ANDROID"])
           /\ CloseNative(s) \/ repair_native_terminal(s) =>
                 Writes(s, [disk[s] EXCEPT !.terminal = "NATIVE"])
           /\ stop(s) => Writes(s, [disk[s] EXCEPT !.stop = TRUE])
           /\ settle(s) /\ ~has_device_intent(s) =>
                 Writes(s, [disk[s] EXCEPT !.terminal = "ABORTED"])
           /\ complete(s) => Writes(s, [disk[s] EXCEPT !.completed = TRUE])
           /\ Interrupt(s) /\ disk' # disk => Writes(s, [disk[s] EXCEPT !.stop = TRUE])
<1>1. disk[s] \in Record
  OBVIOUS
<1>2. ASSUME disk[s].prior # None
      PROVE  disk[s].prior \in Slot /\ disk[disk[s].prior] \in Record
  BY <1>1, <1>2 DEF Record
<1> DEFINE n == disk[s].done + 1
<1>3. n \in Nat
  BY <1>1 DEF Record
<1> HIDE DEF n
<1>4. Advance(s) => disk' = [disk EXCEPT ![s] = [disk[s] EXCEPT !.done = n]]
  BY DEF Advance, n
<1> USE <1>1, RecordUpdate, DiskUpdate
<1>5. Advance(s) => Writes(s, [disk[s] EXCEPT !.done = n])
  BY <1>3, <1>4
<1>6. OpenOperation(s) => Writes(s, [disk[s] EXCEPT !.made = "operation"])
  BY DEF OpenOperation
<1>7. Link(s) /\ disk[s].prior # None =>
         Writes(disk[s].prior, [disk[disk[s].prior] EXCEPT !.next = TRUE])
  BY <1>2 DEF Link
<1>8. ExitIntent(s) => Writes(s, [disk[s] EXCEPT !.exit = "start"])
  BY DEF ExitIntent
<1>9. ExitTransfer(s) => Writes(s, [disk[s] EXCEPT !.exit = "sent"])
  BY DEF ExitTransfer
<1>10. ExitHealth(s) => Writes(s, [disk[s] EXCEPT !.exit = "healthy"])
  BY DEF ExitHealth
<1>17. CloseAndroid(s) => Writes(s, [disk[s] EXCEPT !.terminal = "ANDROID"])
  BY DEF CloseAndroid
<1>11. CloseNative(s) \/ repair_native_terminal(s) =>
         Writes(s, [disk[s] EXCEPT !.terminal = "NATIVE"])
  BY DEF CloseNative, repair_native_terminal
<1>12. stop(s) => Writes(s, [disk[s] EXCEPT !.stop = TRUE])
  BY DEF stop
<1>13. settle(s) /\ ~has_device_intent(s) => Writes(s, [disk[s] EXCEPT !.terminal = "ABORTED"])
  BY DEF settle
<1>14. complete(s) => Writes(s, [disk[s] EXCEPT !.completed = TRUE])
  BY DEF complete
<1>15. Interrupt(s) /\ disk' # disk => Writes(s, [disk[s] EXCEPT !.stop = TRUE])
  BY DEF Interrupt
<1>16. QED
  BY <1>5, <1>6, <1>7, <1>8, <1>9, <1>10, <1>11, <1>12, <1>13, <1>14, <1>15, <1>17 DEF n

Reserved(s, op, origin, prior) ==
    /\ OriginFits(op, origin) /\ (op = "bootstrap") = ~admitted
    /\ Writes(s, Entry("reserved", op, origin, prior))
    /\ Continue(s, "reserve")

\* A reservation takes an unused directory, for an operation that fits.
LEMMA ReserveStep ==
    ASSUME disk \in [Slot -> Record], NEW g \in Grant, Reserve(g)
    PROVE  \E s \in NextSlot(g), op \in Allowed[g], origin \in Origin :
           \E prior \in Priors(origin) : Reserved(s, op, origin, prior)
<1>1. \A op \in Allowed[g], origin \in Origin : \A prior \in Priors(origin) :
         Entry("reserved", op, origin, prior) \in Record
  BY OwnerAssumption DEF Record, Entry, Priors
<1>2. \A s \in NextSlot(g) : s \in Slot
  BY DEF NextSlot
<1>3. QED
  BY <1>1, <1>2, DiskUpdate DEF Reserve, Reserved

----------------------------------------------------------------------------
(* The type invariant and the shape of the files.                          *)

\* The facts of the plan hold of every reserved operation.
LEMMA PlanOfFacts ==
    ASSUME NEW s \in Slot, Directory(s), disk[s].made # "none"
    PROVE  Facts(disk[s].op, disk[s].origin)
  BY PlanFacts DEF Directory

Directories == disk \in [Slot -> Record] /\ \A s \in Slot : WellFormed(s) /\ Linked(s)

\* The other directories stay as they are.
LEMMA WriteFrame ==
    ASSUME Directories, NEW s \in Slot, NEW d, Writes(s, d), WellFormed(s)', Linked(s)',
           disk[s].terminal # "none" => d.terminal # "none"
    PROVE  Directories'
<1>1. \A t \in Slot : t # s => WellFormed(t)'
  BY DEF Directories, Writes, WellFormed, PlanOf
<1>2. \A t \in Slot : disk[t].prior \in Slot \union {None}
  BY DEF Directories, Record
<1>3. \A t \in Slot : t # s => Linked(t)'
  BY <1>2 DEF Directories, Writes, Linked
<1>4. QED
  BY <1>1, <1>3 DEF Directories, Writes

\* Whoever works on an operation has its reservation and, after reserve, its
\* operation.json.
LEMMA Made ==
    ASSUME Shape, NEW s \in Slot, holder.who = s
    PROVE  /\ disk[s].made # "none"
           /\ holder.doing # "reserve" => disk[s].made = "operation"
<1>1. disk[s] \in Record /\ WellFormed(s) /\ Working(s) /\ Directory(s)
  BY DEF Shape, TypeOK
<1>2. QED
  BY <1>1 DEF Record, WellFormed, Working, Directory

\* A record that belongs to no plan leaves the plan alone.
LEMMA WriteRecord ==
    ASSUME Directories, NEW s \in Slot, NEW d, Writes(s, d), disk[s].made # "none",
           d.made = "operation", d.op = disk[s].op, d.origin = disk[s].origin,
           d.done = disk[s].done, d.prior = disk[s].prior,
           disk[s].terminal # "none" => d.terminal # "none"
    PROVE  Directories'
<1>1. WellFormed(s)'
  BY DEF Directories, Writes, WellFormed, PlanOf
<1>2. disk[s].prior \in Slot \union {None}
  BY DEF Directories, Record
<1>3. Linked(s)'
  BY <1>2 DEF Directories, Writes, Linked
<1>4. QED
  BY <1>1, <1>3, WriteFrame

\* Every step leaves well-formed directories: no plan has too many records,
\* no terminal lacks its operation.json.
LEMMA DirectoriesStep == ASSUME Shape, Next PROVE Directories'
<1>1. Directories /\ \A s \in Slot : disk[s] \in Record
  BY DEF Shape, TypeOK, Directories
<1>2. CASE UNCHANGED disk
  BY <1>1, <1>2 DEF Directories, WellFormed, PlanOf, Linked
<1>3. ASSUME NEW g \in Grant, Reserve(g) PROVE Directories'
  <2>1. PICK s \in NextSlot(g), op \in Allowed[g], origin \in Origin :
        \E prior \in Priors(origin) : Reserved(s, op, origin, prior)
    BY <1>1, <1>3, ReserveStep DEF Directories
  <2>2. PICK prior \in Priors(origin) : Reserved(s, op, origin, prior)
    BY <2>1
  <2>3. s \in Slot /\ s[1] = g /\ disk[s] = Unused /\ op \in Operation
    BY <1>1, OwnerAssumption DEF NextSlot, Directories, WellFormed
  <2>4. Len(Plan(op, origin)) \in Nat
    BY <2>2, <2>3, PlanFacts DEF Facts, Reserved
  <2>5. WellFormed(s)'
    BY <2>2, <2>3, <2>4 DEF WellFormed, Reserved, Writes, Entry, PlanOf
  <2>6. prior # None => prior \in Slot /\ prior # s /\ disk[prior].terminal # "none"
    BY <2>3 DEF Priors, Unused, Entry
  <2>7. Linked(s)'
    BY <2>2, <2>3, <2>6 DEF Linked, Reserved, Writes, Entry
  <2>8. QED
    BY <1>1, <2>2, <2>3, <2>5, <2>7, WriteFrame DEF Reserved, Unused, Entry
<1>4. ASSUME NEW s \in Slot, Link(s), disk[s].prior # None PROVE Directories'
  <2>1. PICK t \in Slot : t = disk[s].prior
    BY <1>1, <1>4 DEF Record
  <2>2. Writes(t, [disk[t] EXCEPT !.next = TRUE])
    BY <1>1, <1>4, <2>1, DiskSteps DEF Directories
  <2>3. disk[t].made = "operation"
    BY <1>1, <1>4, <2>1 DEF Directories, Linked, WellFormed
  <2>4. QED
    BY <1>1, <2>2, <2>3, WriteRecord DEF Record
<1>5. ASSUME NEW s \in Slot, Doing(s, "run"), ~Complete(s), Advance(s) PROVE Directories'
  <2>1. disk[s].made = "operation" /\ WellFormed(s) /\ Linked(s) /\ Directory(s)
    BY <1>5, Made DEF Shape, Doing, TypeOK
  <2>2. Writes(s, [disk[s] EXCEPT !.done = disk[s].done + 1])
    BY <1>1, <1>5, DiskSteps DEF Directories
  <2>3. Len(PlanOf(s)) \in Nat
    BY <2>1, PlanOfFacts DEF Facts, PlanOf
  <2>4. WellFormed(s)'
    BY <1>1, <1>5, <2>1, <2>2, <2>3 DEF Writes, WellFormed, PlanOf, Complete, Record
  <2>5. disk[s].prior \in Slot \union {None}
    BY <1>1 DEF Record
  <2>6. Linked(s)'
    BY <1>1, <2>1, <2>2, <2>5 DEF Writes, Linked, Record
  <2>7. QED
    BY <1>1, <2>2, <2>4, <2>6, WriteFrame DEF Record
<1>6. ASSUME NEW s \in Slot, OpenOperation(s) PROVE Directories'
  <2>1. Writes(s, [disk[s] EXCEPT !.made = "operation"])
    BY <1>1, <1>6, DiskSteps DEF Directories
  <2>2. disk[s].made # "none"
    BY <1>6, Made DEF OpenOperation, Doing
  <2>3. QED
    BY <1>1, <2>1, <2>2, WriteRecord DEF Record
<1>7. ASSUME NEW s \in Slot, ExitIntent(s) PROVE Directories'
  <2>1. Writes(s, [disk[s] EXCEPT !.exit = "start"])
    BY <1>1, <1>7, DiskSteps DEF Directories
  <2>2. disk[s].made = "operation"
    BY <1>7, Made DEF ExitIntent, Exiting, Doing
  <2>3. QED
    BY <1>1, <2>1, <2>2, WriteRecord DEF Record
<1>8. ASSUME NEW s \in Slot, ExitTransfer(s) PROVE Directories'
  <2>1. Writes(s, [disk[s] EXCEPT !.exit = "sent"])
    BY <1>1, <1>8, DiskSteps DEF Directories
  <2>2. disk[s].made = "operation"
    BY <1>8, Made DEF ExitTransfer, Exiting, Doing
  <2>3. QED
    BY <1>1, <2>1, <2>2, WriteRecord DEF Record
<1>9. ASSUME NEW s \in Slot, ExitHealth(s) PROVE Directories'
  <2>1. Writes(s, [disk[s] EXCEPT !.exit = "healthy"])
    BY <1>1, <1>9, DiskSteps DEF Directories
  <2>2. disk[s].made = "operation"
    BY <1>9, Made DEF ExitHealth, Exiting, Doing
  <2>3. QED
    BY <1>1, <2>1, <2>2, WriteRecord DEF Record
<1>17. ASSUME NEW s \in Slot, CloseAndroid(s) PROVE Directories'
  <2>1. Writes(s, [disk[s] EXCEPT !.terminal = "ANDROID"])
    BY <1>1, <1>17, DiskSteps DEF Directories
  <2>2. disk[s].made = "operation"
    BY <1>17, Made DEF CloseAndroid, Exiting, Doing
  <2>3. QED
    BY <1>1, <2>1, <2>2, WriteRecord DEF Record
<1>10. ASSUME NEW s \in Slot, CloseNative(s) PROVE Directories'
  <2>1. Writes(s, [disk[s] EXCEPT !.terminal = "NATIVE"])
    BY <1>1, <1>10, DiskSteps DEF Directories
  <2>2. disk[s].made = "operation"
    BY <1>10, Made DEF CloseNative, Doing
  <2>3. QED
    BY <1>1, <2>1, <2>2, WriteRecord DEF Record
<1>11. ASSUME NEW s \in Slot, repair_native_terminal(s) PROVE Directories'
  <2>1. Writes(s, [disk[s] EXCEPT !.terminal = "NATIVE"])
    BY <1>1, <1>11, DiskSteps DEF Directories
  <2>2. disk[s].made = "operation"
    BY <1>11, Made DEF repair_native_terminal, Doing
  <2>3. QED
    BY <1>1, <2>1, <2>2, WriteRecord DEF Record
<1>12. ASSUME NEW s \in Slot, stop(s) PROVE Directories'
  <2>1. Writes(s, [disk[s] EXCEPT !.stop = TRUE])
    BY <1>1, <1>12, DiskSteps DEF Directories
  <2>2. disk[s].made = "operation"
    BY <1>12, Made DEF stop, Doing
  <2>3. QED
    BY <1>1, <2>1, <2>2, WriteRecord DEF Record
<1>13. ASSUME NEW s \in Slot, settle(s), ~has_device_intent(s) PROVE Directories'
  <2>1. Writes(s, [disk[s] EXCEPT !.terminal = "ABORTED"])
    BY <1>1, <1>13, DiskSteps DEF Directories
  <2>2. disk[s].made = "operation"
    BY <1>13, Made DEF settle, Doing
  <2>3. QED
    BY <1>1, <2>1, <2>2, WriteRecord DEF Record
<1>14. ASSUME NEW s \in Slot, complete(s) PROVE Directories'
  <2>1. Writes(s, [disk[s] EXCEPT !.completed = TRUE])
    BY <1>1, <1>14, DiskSteps DEF Directories
  <2>2. disk[s].made = "operation"
    BY <1>14, Made DEF complete, Doing
  <2>3. QED
    BY <1>1, <2>1, <2>2, WriteRecord DEF Record
<1>15. ASSUME NEW s \in Slot, Interrupt(s), disk' # disk PROVE Directories'
  <2>1. Writes(s, [disk[s] EXCEPT !.stop = TRUE])
    BY <1>1, <1>15, DiskSteps DEF Directories
  <2>2. disk[s].made = "operation"
    BY <1>15, Made DEF Interrupt
  <2>3. QED
    BY <1>1, <2>1, <2>2, WriteRecord DEF Record
<1>16. QED
  <2>1. ASSUME NEW s \in Slot, Work(s) \/ recover(s) \/ Interrupt(s) PROVE Directories'
    <3>1. CASE \/ collect_android(s) \/ ask_android(s) \/ request_android_download(s)
               \/ observe_native(s) \/ wait_native_return(s)
               \/ claim_candidate(s) \/ role_intent(s) \/ transfer(s)
      BY <1>5, <3>1 DEF collect_android, ask_android, wait_native_return, role_intent, Note,
            request_android_download, observe_native, claim_candidate, transfer, Running
    <3>2. CASE begin_f1_owner(s) \/ Refuse(s) \/ ExitRefused(s) \/ register_admission(s)
               \/ retire_f1_owner(s) \/ close_grant(s) \/ recover(s)
      BY <1>2, <3>2 DEF begin_f1_owner, Refuse, ExitRefused, register_admission, files,
            retire_f1_owner, close_grant, recover
    <3>3. Link(s) /\ disk[s].prior = None => UNCHANGED disk
      BY DEF Link
    <3>4. settle(s) /\ has_device_intent(s) => UNCHANGED disk
      BY DEF settle
    <3>5. QED
      BY <1>2, <1>4, <1>6, <1>7, <1>8, <1>9, <1>10, <1>11, <1>12, <1>13, <1>14, <1>15, <1>17,
         <2>1, <3>1, <3>2, <3>3, <3>4 DEF Work
  <2>2. CASE EnterDownload \/ PowerCycle \/ \E g \in Grant : open_grant(g) \/ Lapse(g)
    BY <1>2, <2>2 DEF EnterDownload, PowerCycle, open_grant, Lapse, files
  <2>3. CASE Research \/ Ordinary
    BY <1>2, <2>3 DEF Research, reboot_start, reboot_intent, reboot_once, wait_return,
          reboot_failed, reboot_died, reconcile, open_goal, close_goal, Ordinary, f1_begin, f1_effect,
          f1_end, f1_died, f1_recover, files
  <2>4. QED
    BY <1>3, <2>1, <2>2, <2>3 DEF Next

\* A running operation that is not complete has a current step.
LEMMA CurrentFacts ==
    ASSUME Shape, NEW s \in Slot, Doing(s, "run"), ~Complete(s)
    PROVE  /\ disk[s].made = "operation" /\ disk[s].done \in Nat
           /\ disk[s].done + 1 \in 1..Len(PlanOf(s)) /\ Len(PlanOf(s)) \in Nat
           /\ Facts(disk[s].op, disk[s].origin)
<1>1. disk[s] \in Record /\ WellFormed(s) /\ Working(s) /\ Directory(s)
  BY DEF Shape, TypeOK
<1>2. disk[s].made = "operation" /\ Facts(disk[s].op, disk[s].origin)
  BY <1>1, Made, PlanOfFacts DEF Doing
<1>3. Len(PlanOf(s)) \in Nat
  BY <1>2 DEF Facts, PlanOf
<1>4. disk[s].done \in 0..Len(PlanOf(s)) /\ disk[s].done # Len(PlanOf(s))
  BY <1>1, <1>2 DEF WellFormed, Complete
<1>5. QED
  BY <1>2, <1>3, <1>4

\* What a running operation transfers is one of the native phases.
LEMMA FlashPhase ==
    ASSUME Shape, NEW s \in Slot, Running(s, "flash")
    PROVE  Current(s).phase \in Phase \ {"android-exit"}
  BY CurrentFacts DEF Running, Facts, PlanOf, Current, Phase

\* Beginning a transfer counts it for its operation and phase only.
LEMMA SendsTyped ==
    ASSUME sent \in [Slot -> [Phase -> Nat]], NEW s \in Slot, NEW ph \in Phase, Sends(s, ph)
    PROVE  /\ sent' \in [Slot -> [Phase -> Nat]]
           /\ sent'[s][ph] = sent[s][ph] + 1
           /\ \A t \in Slot, p \in Phase : t # s \/ p # ph => sent'[t][p] = sent[t][p]
  BY DEF Sends

DeviceStates == [image : {"A", "N", "E", "X", "partial"}, mode : {"up", "download", "down"},
                 seen : Slot \union {None}]

\* The device stays in one of its states when one or two of its fields change.
LEMMA DeviceUpdate ==
    ASSUME NEW d \in DeviceStates
    PROVE  /\ \A x \in {"up", "download", "down"} :
                 /\ [d EXCEPT !.mode = x] \in DeviceStates
                 /\ [d EXCEPT !.mode = x, !.seen = None] \in DeviceStates
           /\ \A x \in Slot : [d EXCEPT !.seen = x] \in DeviceStates
           /\ Boots(d.image) \in DeviceStates /\ Boots("A") \in DeviceStates
  BY DEF DeviceStates, Boots

\* Every step preserves the types.
LEMMA TypeStep == ASSUME Shape, Next PROVE TypeOK'
<1>0. TypeOK /\ Directories' /\ MaxFaults \in Nat
  BY DirectoriesStep, OwnerAssumption DEF Shape
<1>d. device \in DeviceStates /\ grants \in [Grant -> {"none", "open", "over"}]
  BY <1>0 DEF TypeOK, DeviceStates
<1> HIDE DEF DeviceStates
<1>t. device' \in DeviceStates => device' \in [image : {"A", "N", "E", "X", "partial"},
         mode : {"up", "download", "down"}, seen : Slot \union {None}]
  BY DEF DeviceStates
<1>1. CASE EnterDownload
  <2>1. device' \in DeviceStates
    BY <1>1, <1>d, DeviceUpdate DEF EnterDownload
  <2>2. QED
    BY <1>0, <1>1, <1>t, <2>1 DEF EnterDownload, files, TypeOK, Directories
<1>2. CASE PowerCycle
  <2>1. device' \in DeviceStates
    BY <1>2, <1>d, DeviceUpdate DEF PowerCycle
  <2>2. pending' \in [set : BOOLEAN, booted : BOOLEAN]
    BY <1>0, <1>2 DEF PowerCycle, Booted, TypeOK
  <2>3. QED
    BY <1>0, <1>2, <1>t, <2>1, <2>2 DEF PowerCycle, TypeOK, Directories
<1>3. ASSUME NEW g \in Grant, open_grant(g) \/ Lapse(g) PROVE TypeOK'
  <2>1. grants' \in [Grant -> {"none", "open", "over"}]
    BY <1>3, <1>d DEF open_grant, Lapse
  <2>2. UNCHANGED <<holder, owner, pending, disk, admitted, claims, goal, device, sent, faults>>
    BY <1>3 DEF open_grant, Lapse
  <2>3. QED
    BY <1>0, <2>1, <2>2 DEF TypeOK, Directories
<1> USE SlotFacts, <1>0 DEF TypeOK, Directories
<1>4. ASSUME NEW g \in Grant, Reserve(g) PROVE TypeOK'
  <2>1. \E s \in Slot : Continue(s, "reserve")
    BY <1>4 DEF Reserve, NextSlot
  <2>2. QED
    BY <1>4, <2>1 DEF Reserve, Continue
<1>5. ASSUME NEW s \in Slot, OpenOperation(s) PROVE TypeOK'
  BY <1>5 DEF OpenOperation
<1>6. ASSUME NEW s \in Slot, begin_f1_owner(s) PROVE TypeOK'
  BY <1>6 DEF begin_f1_owner, Continue
<1>7. ASSUME NEW s \in Slot, Link(s) PROVE TypeOK'
  BY <1>7 DEF Link, Continue
<1>8. ASSUME NEW s \in Slot, Refuse(s) PROVE TypeOK'
  BY <1>8 DEF Refuse, Continue, files
<1>9. ASSUME NEW s \in Slot, CloseNative(s) PROVE TypeOK'
  BY <1>9 DEF CloseNative, Continue
<1>10. ASSUME NEW s \in Slot, ExitIntent(s) PROVE TypeOK'
  BY <1>10 DEF ExitIntent
<1>11. ASSUME NEW s \in Slot, ExitRefused(s) PROVE TypeOK'
  BY <1>11 DEF ExitRefused, Continue, Release, Nobody, files
<1>12. ASSUME NEW s \in Slot, ExitHealth(s) PROVE TypeOK'
  BY <1>12 DEF ExitHealth
<1>42. ASSUME NEW s \in Slot, CloseAndroid(s) PROVE TypeOK'
  BY <1>42 DEF CloseAndroid, Continue
<1>13. ASSUME NEW s \in Slot, repair_native_terminal(s) PROVE TypeOK'
  BY <1>13 DEF repair_native_terminal, Continue
<1>14. ASSUME NEW s \in Slot, stop(s) PROVE TypeOK'
  BY <1>14 DEF stop, Continue, Release, Nobody
<1>15. ASSUME NEW s \in Slot, settle(s) PROVE TypeOK'
  BY <1>15 DEF settle, Continue, Release, Nobody
<1>16. ASSUME NEW s \in Slot, register_admission(s) PROVE TypeOK'
  BY <1>16 DEF register_admission
<1>17. ASSUME NEW s \in Slot, complete(s) PROVE TypeOK'
  BY <1>17 DEF complete, Continue
<1>18. ASSUME NEW s \in Slot, retire_f1_owner(s) PROVE TypeOK'
  BY <1>18 DEF retire_f1_owner, Continue
<1>19. ASSUME NEW s \in Slot, close_grant(s) PROVE TypeOK'
  BY <1>19 DEF close_grant, Release, Nobody
<1>20. ASSUME NEW s \in Slot, recover(s) PROVE TypeOK'
  BY <1>20 DEF recover, Continue, Nobody, files
<1>21. ASSUME NEW s \in Slot,
             collect_android(s) \/ ask_android(s) \/ wait_native_return(s) \/ role_intent(s)
      PROVE  TypeOK'
  BY <1>21 DEF collect_android, ask_android, wait_native_return, role_intent, Note
<1>22. ASSUME NEW s \in Slot, request_android_download(s) PROVE TypeOK'
  <2>1. device' \in DeviceStates
    BY ONLY <1>22, <1>d, DeviceUpdate DEF request_android_download
  <2>2. QED
    BY <1>22, <1>t, <2>1 DEF request_android_download
<1>23. ASSUME NEW s \in Slot, observe_native(s) PROVE TypeOK'
  <2>1. device' \in DeviceStates
    <3>1. \/ device' = [device EXCEPT !.seen = s]
          \/ \E x \in {"up", "download", "down"} : device' = [device EXCEPT !.mode = x, !.seen = None]
      BY ONLY <1>23 DEF observe_native
    <3>2. [device EXCEPT !.seen = s] \in DeviceStates
      BY ONLY <1>23, <1>d, DeviceUpdate
    <3>3. ASSUME NEW x \in {"up", "download", "down"}
          PROVE  [device EXCEPT !.mode = x, !.seen = None] \in DeviceStates
      BY ONLY <1>d, DeviceUpdate, <3>3
    <3>4. QED
      BY ONLY <3>1, <3>2, <3>3
  <2>2. QED
    BY <1>23, <1>t, <2>1 DEF observe_native
<1>24. ASSUME NEW s \in Slot, claim_candidate(s) PROVE TypeOK'
  BY <1>24 DEF claim_candidate, ImageOf
<1>25. ASSUME NEW s \in Slot, transfer(s) PROVE TypeOK'
  <2>1. sent' \in [Slot -> [Phase -> Nat]]
    BY <1>25, FlashPhase, SendsTyped DEF transfer
  <2>2. QED
    BY <1>25, <2>1 DEF transfer, Boots, ImageOf
<1>26. ASSUME NEW s \in Slot, ExitTransfer(s) PROVE TypeOK'
  <2>1. sent' \in [Slot -> [Phase -> Nat]]
    BY <1>26, SendsTyped DEF ExitTransfer, Phase
  <2>2. QED
    <3>1. device' \in DeviceStates
      BY ONLY <1>26, <1>d, DeviceUpdate DEF ExitTransfer
    <3>2. UNCHANGED <<holder, owner, pending, grants, admitted, claims, goal, faults>>
      BY ONLY <1>26 DEF ExitTransfer
    <3>3. QED
      BY <1>t, <2>1, <3>1, <3>2
<1>27. ASSUME NEW s \in Slot, Interrupt(s) PROVE TypeOK'
  <2>1. sent' \in [Slot -> [Phase -> Nat]]
    BY <1>27, FlashPhase, SendsTyped DEF Interrupt, Phase
  <2>2. device' \in [image : {"A", "N", "E", "X", "partial"}, mode : {"up", "download", "down"},
                     seen : Slot \union {None}]
    BY <1>27 DEF Interrupt, Torn, Boots, ImageOf
  <2>3. holder' = Nobody \/ (holder.doing = "run" /\ holder' = [who |-> s, doing |-> "caught"])
    BY <1>27 DEF Interrupt, Release, Continue
  <2>4. QED
    BY <1>27, <2>1, <2>2, <2>3 DEF Interrupt, Nobody
<1>28. CASE reboot_start
  BY <1>28 DEF reboot_start, Continue, files
<1>29. CASE reboot_intent
  BY <1>29 DEF reboot_intent, Continue
<1>30. CASE reboot_once
  <2>1. pending'.booted \in BOOLEAN /\ pending' = [pending EXCEPT !.booted = pending'.booted]
    BY <1>30 DEF reboot_once, Booted
  <2>2. QED
    BY <1>30, <2>1 DEF reboot_once, Boots, Continue
<1>31. CASE reboot_failed
  BY <1>31 DEF reboot_failed, Release, Nobody
<1>32. CASE reboot_died
  BY <1>32 DEF reboot_died, Release, Nobody
<1>33. CASE wait_return
  BY <1>33 DEF wait_return, Release, Nobody
<1>34. CASE reconcile
  <2>1. goal' \in BOOLEAN
    BY <1>34 DEF reconcile
  <2>2. QED
    BY <1>34, <2>1 DEF reconcile
<1>35. CASE open_goal \/ close_goal
  <2>1. goal' \in BOOLEAN
    BY <1>35 DEF open_goal, close_goal
  <2>2. QED
    BY <1>35, <2>1 DEF open_goal, close_goal
<1>36. CASE f1_begin
  BY <1>36 DEF f1_begin, Continue
<1>37. CASE f1_effect
  BY <1>37 DEF f1_effect, Boots, files
<1>38. CASE f1_end
  BY <1>38 DEF f1_end, Release, Nobody
<1>39. CASE f1_died
  BY <1>39 DEF f1_died, Release, Nobody, files
<1>40. CASE f1_recover
  BY <1>40 DEF f1_recover, Continue, files
<1>41. QED
  BY <1>1, <1>2, <1>3, <1>4, <1>5, <1>6, <1>7, <1>8, <1>9, <1>10, <1>11, <1>12, <1>13, <1>14,
     <1>15, <1>16, <1>17, <1>18, <1>19, <1>20, <1>21, <1>22, <1>23, <1>24, <1>25, <1>26, <1>27,
     <1>28, <1>29, <1>30, <1>31, <1>32, <1>33, <1>34, <1>35, <1>36, <1>37, <1>38, <1>39, <1>40, <1>42
     DEF Next, Work, Research, Ordinary

\* Everything the invariant reads of a directory.
Same(t) ==
    /\ disk'[t].made = disk[t].made /\ disk'[t].op = disk[t].op
    /\ disk'[t].origin = disk[t].origin /\ disk'[t].done = disk[t].done
    /\ disk'[t].exit = disk[t].exit /\ disk'[t].stop = disk[t].stop
    /\ disk'[t].terminal = disk[t].terminal /\ disk'[t].completed = disk[t].completed

\* An operation that a step does not concern.
LEMMA Elsewhere ==
    ASSUME Shape, NEW t \in Slot, Same(t), admitted => admitted',
           holder'.who # t, owner' = owner \/ (owner # t /\ owner' # t)
    PROVE  Working(t)' /\ Directory(t)'
  BY DEF Shape, Working, Directory, Same

\* An operation whose holder and owner file stay as they are.
LEMMA Still ==
    ASSUME Shape, NEW t \in Slot, Same(t), admitted => admitted', UNCHANGED <<holder, owner>>
    PROVE  Working(t)' /\ Directory(t)'
  BY DEF Shape, Working, Directory, Same

\* next-operation.json is the only record that a link changes.
LEMMA LinkSame == ASSUME Shape, NEW s \in Slot, Link(s), NEW t \in Slot PROVE Same(t)
<1>1. disk \in [Slot -> Record] /\ disk[s] \in Record
  BY DEF Shape, TypeOK
<1>2. CASE disk[s].prior = None
  BY <1>2 DEF Link, Same
<1>3. CASE disk[s].prior # None
  <2>1. PICK u \in Slot : u = disk[s].prior
    BY <1>1, <1>3 DEF Record
  <2>2. Writes(u, [disk[u] EXCEPT !.next = TRUE]) /\ disk[u] \in Record
    BY <1>1, <1>3, <2>1, DiskSteps
  <2>3. QED
    BY <2>2 DEF Writes, Same, Record
<1>4. QED
  BY <1>2, <1>3

\* A step of operation s leaves the records of the others alone.
LEMMA OthersSame ==
    ASSUME Shape, NEW s \in Slot, Work(s) \/ recover(s) \/ Interrupt(s), NEW t \in Slot, t # s
    PROVE  Same(t)
<1>1. disk \in [Slot -> Record]
  BY DEF Shape, TypeOK
<1>2. CASE UNCHANGED disk
  BY <1>2 DEF Same
<1>3. ASSUME NEW d, Writes(s, d) PROVE Same(t)
  BY <1>3 DEF Writes, Same
<1>4. CASE \/ collect_android(s) \/ ask_android(s) \/ request_android_download(s)
           \/ observe_native(s) \/ wait_native_return(s)
           \/ claim_candidate(s) \/ role_intent(s) \/ transfer(s)
  <2>1. Advance(s)
    BY <1>4 DEF collect_android, ask_android, wait_native_return, role_intent, Note,
          request_android_download, observe_native, claim_candidate, transfer
  <2>2. QED
    BY <1>1, <1>3, <2>1, DiskSteps
<1>5. CASE begin_f1_owner(s) \/ Refuse(s) \/ ExitRefused(s) \/ register_admission(s)
           \/ retire_f1_owner(s) \/ close_grant(s) \/ recover(s)
  BY <1>2, <1>5 DEF begin_f1_owner, Refuse, ExitRefused, register_admission, files,
        retire_f1_owner, close_grant, recover
<1>6. CASE settle(s)
  <2>1. has_device_intent(s) => UNCHANGED disk
    BY <1>6 DEF settle
  <2>2. QED
    BY <1>1, <1>2, <1>3, <1>6, <2>1, DiskSteps
<1>7. CASE Interrupt(s)
  BY <1>1, <1>2, <1>3, <1>7, DiskSteps
<1>8. CASE \/ OpenOperation(s) \/ CloseNative(s) \/ ExitIntent(s) \/ ExitTransfer(s)
           \/ ExitHealth(s) \/ CloseAndroid(s) \/ repair_native_terminal(s) \/ stop(s) \/ complete(s)
  BY <1>1, <1>3, <1>8, DiskSteps
<1>9. QED
  BY <1>4, <1>5, <1>6, <1>7, <1>8, LinkSame DEF Work

\* What a step of operation s does to the lease and to the owner file.
Keeps(s) ==
    /\ holder'.who \in {s, None}
    /\ owner' = owner \/ (owner \in {s, None} /\ owner' \in {s, None})
    /\ admitted => admitted'

\* A step of operation s keeps its records in agreement with the lease, the
\* owner file and the pending reboot.
LEMMA OwnStep ==
    ASSUME Shape, NEW s \in Slot, Work(s) \/ recover(s) \/ Interrupt(s)
    PROVE  Keeps(s) /\ Actors' /\ Working(s)' /\ Directory(s)'
<1>1. /\ disk \in [Slot -> Record] /\ disk[s] \in Record /\ WellFormed(s)
      /\ Actors /\ Working(s) /\ Directory(s)
      /\ pending \in [set : BOOLEAN, booted : BOOLEAN]
      /\ holder \in [who : Slot \union {None, F1, Goal},
                     doing : {"none", "reserve", "link", "run", "caught", "recover", "settle",
                              "exit", "finish", "retire", "close", "observed", "intent", "sent"}]
  BY DEF Shape, TypeOK
<1> USE <1>1, SlotFacts, ActorAssumption DEF Actors, Working, Directory, Keeps
<1>2. CASE \/ collect_android(s) \/ ask_android(s) \/ request_android_download(s)
           \/ observe_native(s) \/ wait_native_return(s)
           \/ claim_candidate(s) \/ role_intent(s) \/ transfer(s)
  <2>1. /\ Advance(s) /\ Doing(s, "run")
        /\ UNCHANGED <<holder, owner, pending, admitted>>
    BY <1>2 DEF collect_android, ask_android, wait_native_return, role_intent, Note,
          request_android_download, observe_native, claim_candidate, transfer, Running
  <2>2. Writes(s, [disk[s] EXCEPT !.done = disk[s].done + 1])
    BY <2>1, DiskSteps
  <2>3. QED
    BY <2>1, <2>2 DEF Doing, Writes, Record
<1>3. CASE OpenOperation(s)
  <2>1. Writes(s, [disk[s] EXCEPT !.made = "operation"])
    BY <1>3, DiskSteps
  <2>2. QED
    BY <1>3, <2>1 DEF OpenOperation, Doing, Writes, Record
<1>4. CASE begin_f1_owner(s)
  BY <1>4 DEF begin_f1_owner, Doing, Continue
<1>5. CASE Link(s)
  <2>1. Same(s)
    BY <1>5, LinkSame
  <2>2. QED
    BY <1>5, <2>1 DEF Link, Doing, Continue, Same
<1>6. CASE Refuse(s)
  BY <1>6 DEF Refuse, Doing, Continue, files
<1>7. CASE CloseNative(s)
  <2>1. Writes(s, [disk[s] EXCEPT !.terminal = "NATIVE"])
    BY <1>7, DiskSteps
  <2>2. QED
    BY <1>7, <2>1 DEF CloseNative, Doing, Continue, Writes, Record
<1>8. CASE ExitIntent(s)
  <2>1. Writes(s, [disk[s] EXCEPT !.exit = "start"])
    BY <1>8, DiskSteps
  <2>2. QED
    BY <1>8, <2>1 DEF ExitIntent, Exiting, Doing, Writes, Record
<1>9. CASE ExitTransfer(s)
  <2>1. Writes(s, [disk[s] EXCEPT !.exit = "sent"])
    BY <1>9, DiskSteps
  <2>2. QED
    BY <1>9, <2>1 DEF ExitTransfer, Exiting, Doing, Writes, Record
<1>10. CASE ExitRefused(s)
  BY <1>10 DEF ExitRefused, Exiting, Doing, Continue, Release, Nobody, files
<1>11. CASE ExitHealth(s)
  <2>1. Writes(s, [disk[s] EXCEPT !.exit = "healthy"])
    BY <1>11, DiskSteps
  <2>2. QED
    BY <1>11, <2>1 DEF ExitHealth, Exiting, Doing, Writes, Record
<1>24. CASE CloseAndroid(s)
  <2>1. Writes(s, [disk[s] EXCEPT !.terminal = "ANDROID"])
    BY <1>24, DiskSteps
  <2>2. QED
    BY <1>24, <2>1 DEF CloseAndroid, Exiting, Doing, Continue, Writes, Record
<1>12. CASE repair_native_terminal(s)
  <2>1. Writes(s, [disk[s] EXCEPT !.terminal = "NATIVE"])
    BY <1>12, DiskSteps
  <2>2. QED
    BY <1>12, <2>1 DEF repair_native_terminal, Doing, Continue, Writes, Record
<1>13. CASE stop(s)
  <2>1. Writes(s, [disk[s] EXCEPT !.stop = TRUE])
    BY <1>13, DiskSteps
  <2>2. QED
    BY <1>13, <2>1 DEF stop, Doing, Continue, Release, Nobody, Writes, Record
<1>14. CASE settle(s) /\ ~has_device_intent(s)
  <2>1. Writes(s, [disk[s] EXCEPT !.terminal = "ABORTED"])
    BY <1>14, DiskSteps
  <2>2. QED
    BY <1>14, <2>1 DEF settle, Doing, Continue, Writes, Record
<1>15. CASE settle(s) /\ has_device_intent(s)
  BY <1>15 DEF settle, Doing, Continue, Release, Nobody
<1>16. CASE register_admission(s)
  BY <1>16 DEF register_admission, Doing
<1>17. CASE complete(s)
  <2>1. Writes(s, [disk[s] EXCEPT !.completed = TRUE])
    BY <1>17, DiskSteps
  <2>2. QED
    BY <1>17, <2>1 DEF complete, Doing, Continue, Writes, Record
<1>18. CASE retire_f1_owner(s)
  BY <1>18 DEF retire_f1_owner, Doing, Continue
<1>19. CASE close_grant(s)
  BY <1>19 DEF close_grant, Doing, Release, Nobody
<1>20. CASE recover(s)
  BY <1>20 DEF recover, Lease, OwesClose, Continue, Nobody, files
<1>21. CASE Interrupt(s) /\ UNCHANGED disk
  BY <1>21 DEF Interrupt, Release, Nobody, Continue
<1>22. CASE Interrupt(s) /\ disk' # disk
  <2>1. Writes(s, [disk[s] EXCEPT !.stop = TRUE])
    BY <1>22, DiskSteps
  <2>2. QED
    BY <1>22, <2>1 DEF Interrupt, Release, Nobody, Continue, Writes, Record
<1>23. QED
  BY <1>2, <1>3, <1>4, <1>5, <1>6, <1>7, <1>8, <1>9, <1>10, <1>11, <1>12, <1>13, <1>14, <1>15,
     <1>16, <1>17, <1>18, <1>19, <1>20, <1>21, <1>22, <1>24 DEF Work

\* Every step preserves Shape.
LEMMA ShapeStep == ASSUME Shape, Next PROVE Shape'
<1>1. TypeOK' /\ \A t \in Slot : Linked(t)'
  BY TypeStep, DirectoriesStep DEF Directories
<1>2. /\ TypeOK /\ Actors /\ disk \in [Slot -> Record]
      /\ \A t \in Slot : Working(t) /\ Directory(t) /\ WellFormed(t)
  BY DEF Shape, TypeOK
<1>3. SUFFICES Actors' /\ \A t \in Slot : Working(t)' /\ Directory(t)'
  BY <1>1 DEF Shape
<1>4. ASSUME NEW s \in Slot, Work(s) \/ recover(s) \/ Interrupt(s)
      PROVE  Actors' /\ \A t \in Slot : Working(t)' /\ Directory(t)'
  <2>1. Keeps(s) /\ Actors' /\ Working(s)' /\ Directory(s)'
    BY <1>4, OwnStep
  <2>2. ASSUME NEW t \in Slot, t # s PROVE Working(t)' /\ Directory(t)'
    BY <1>4, <2>1, <2>2, SlotFacts, OthersSame, Elsewhere DEF Keeps
  <2>3. QED
    BY <2>1, <2>2
<1>5. ASSUME NEW g \in Grant, Reserve(g)
      PROVE  Actors' /\ \A t \in Slot : Working(t)' /\ Directory(t)'
  <2>1. PICK s \in NextSlot(g), op \in Allowed[g], origin \in Origin :
        \E prior \in Priors(origin) : Reserved(s, op, origin, prior)
    BY <1>2, <1>5, ReserveStep
  <2>2. PICK prior \in Priors(origin) : Reserved(s, op, origin, prior)
    BY <2>1
  <2>3. s \in Slot /\ op \in Operation
    BY OwnerAssumption DEF NextSlot
  <2>4. holder = Nobody /\ ~pending.set /\ owner = None /\ UNCHANGED <<owner, pending, admitted>>
    BY <1>5 DEF Reserve, Lease
  <2>5. holder' = [who |-> s, doing |-> "reserve"]
    BY <2>2 DEF Reserved, Continue
  <2>6. Actors'
    BY <2>3, <2>4, <2>5, SlotFacts DEF Actors
  <2>7. Working(s)' /\ Directory(s)'
    BY <1>2, <2>2, <2>3, <2>4, <2>5, SlotFacts DEF Working, Directory, Reserved, Writes, Entry
  <2>8. ASSUME NEW t \in Slot, t # s PROVE Working(t)' /\ Directory(t)'
    BY <2>2, <2>4, <2>5, <2>8, Elsewhere DEF Reserved, Writes, Same
  <2>9. QED
    BY <2>6, <2>7, <2>8
<1>6. CASE EnterDownload \/ PowerCycle \/ \E g \in Grant : open_grant(g) \/ Lapse(g)
  <2>1. UNCHANGED <<holder, owner, disk, admitted>> /\ pending'.set = pending.set
    BY <1>2, <1>6 DEF EnterDownload, PowerCycle, open_grant, Lapse, files, Booted, TypeOK
  <2>2. QED
    BY <1>2, <2>1, Still DEF Actors, Same
<1>7. ASSUME UNCHANGED <<disk, admitted>>, Actors', holder'.who \notin Slot,
             owner' = owner \/ (owner \notin Slot /\ owner' \notin Slot)
      PROVE  Actors' /\ \A t \in Slot : Working(t)' /\ Directory(t)'
  BY <1>7, Elsewhere DEF Same
<1> USE SlotFacts, ActorAssumption, <1>2 DEF Actors, TypeOK
<1>8. CASE reboot_start
  BY <1>7, <1>8 DEF reboot_start, Lease, Nobody, Continue, files
<1>9. CASE reboot_intent
  BY <1>7, <1>9 DEF reboot_intent, Doing, Continue
<1>10. CASE reboot_once
  BY <1>7, <1>10 DEF reboot_once, Doing, Continue, Booted
<1>11. CASE wait_return
  BY <1>7, <1>11 DEF wait_return, Doing, Release, Nobody
<1>12. CASE reboot_failed
  BY <1>7, <1>12 DEF reboot_failed, Release, Nobody
<1>13. CASE reboot_died
  BY <1>7, <1>13 DEF reboot_died, Release, Nobody
<1>14. CASE reconcile
  BY <1>7, <1>14 DEF reconcile, Nobody
<1>15. CASE open_goal \/ close_goal
  <2>1. UNCHANGED <<holder, owner, pending, disk, admitted>>
    BY <1>15 DEF open_goal, close_goal
  <2>2. QED
    BY <2>1, Still DEF Same
<1>16. CASE f1_begin
  BY <1>7, <1>16 DEF f1_begin, Lease, Nobody, Continue
<1>17. CASE f1_effect
  BY <1>7, <1>17 DEF f1_effect, Doing, files
<1>18. CASE f1_end
  BY <1>7, <1>18 DEF f1_end, Doing, Release, Nobody
<1>19. CASE f1_died
  BY <1>7, <1>19 DEF f1_died, Doing, Release, Nobody, files
<1>20. CASE f1_recover
  BY <1>7, <1>20 DEF f1_recover, Lease, Nobody, Continue, files
<1>21. QED
  BY <1>4, <1>5, <1>6, <1>8, <1>9, <1>10, <1>11, <1>12, <1>13, <1>14, <1>15, <1>16, <1>17,
     <1>18, <1>19, <1>20 DEF Next, Research, Ordinary

\* Shape holds at the start.
LEMMA ShapeInit == Init => Shape
<1> SUFFICES ASSUME Init PROVE Shape
  OBVIOUS
<1> USE SlotFacts, OwnerAssumption, ActorAssumption DEF Init
<1>1. Unused \in Record
  BY DEF Unused, Entry, Record
<1>2. \A s \in Slot : disk[s] = Unused
  OBVIOUS
<1>3. disk \in [Slot -> Record]
  BY <1>1
<1>4. \A s \in Slot : WellFormed(s) /\ Linked(s)
  BY <1>2 DEF WellFormed, Linked, Unused, Entry
<1>5. \A s \in Slot : Working(s) /\ Directory(s)
  BY <1>2 DEF Working, Directory, Unused, Entry, Nobody
<1>6. sent \in [Slot -> [Phase -> Nat]]
  OBVIOUS
<1>7. Actors
  BY DEF Actors, Nobody
<1>8. admitted \in BOOLEAN /\ goal \in BOOLEAN
  OBVIOUS
<1>9. /\ holder = [who |-> None, doing |-> "none"]
      /\ grants \in [Grant -> {"none", "open", "over"}]
      /\ claims \subseteq {"N", "E"} /\ faults \in 0..MaxFaults
  BY DEF Nobody
<1>10. TypeOK
  BY <1>3, <1>4, <1>6, <1>8, <1>9 DEF TypeOK
<1>11. QED
  BY <1>4, <1>5, <1>7, <1>10 DEF Shape

\* Shape holds in every reachable state.
LEMMA ShapeInvariant == Spec => []Shape
<1>1. Shape /\ UNCHANGED vars => Shape'
  BY DEF Shape, TypeOK, Actors, Working, Directory, Linked, WellFormed, PlanOf, vars
<1>2. Shape /\ [Next]_vars => Shape'
  BY <1>1, ShapeStep
<1>3. QED
  BY <1>2, ShapeInit, PTL DEF Spec

----------------------------------------------------------------------------
(* Roles.                                                                  *)

\* The part of a directory that says what has been sent.
SamePlan(t) ==
    /\ disk'[t].made = disk[t].made /\ disk'[t].op = disk[t].op
    /\ disk'[t].origin = disk[t].origin /\ disk'[t].done = disk[t].done
    /\ disk'[t].exit = disk[t].exit

RolesKept(s) ==
    Unsent(s)' /\ Roles(s)' /\ \A ph \in NewContent : HasClaim(s, ph)' <=> HasClaim(s, ph)

\* A step that sends nothing for t and does not start to work on it again.
LEMMA Quiet ==
    ASSUME Shape, NEW t \in Slot, Unsent(t), Roles(t), SamePlan(t), claims \subseteq claims',
           \A ph \in Phase : sent'[t][ph] = sent[t][ph],
           \/ holder' = holder
           \/ holder'.who # t
           \/ holder'.doing \notin {"reserve", "link", "run", "exit"}
    PROVE  RolesKept(t)
<1>1. PlanOf(t)' = PlanOf(t)
  BY DEF SamePlan, PlanOf
<1>2. \A ph \in NewContent : HasClaim(t, ph)' <=> HasClaim(t, ph)
  BY DEF SamePlan, HasClaim
<1>3. Roles(t)'
  BY <1>2 DEF Roles, Phase, NewContent, ImageOf
<1>4. Unsent(t)'
  BY <1>1 DEF Unsent, SamePlan, Phase
<1>5. QED
  BY <1>2, <1>3, <1>4 DEF RolesKept

\* A record of the plan: what it leaves to be sent is less than before.
LEMMA AdvanceFacts ==
    ASSUME Shape, NEW s \in Slot, NEW act, Running(s, act), Advance(s)
    PROVE  /\ disk'[s].made = disk[s].made /\ disk'[s].op = disk[s].op
           /\ disk'[s].exit = disk[s].exit /\ disk'[s].origin = disk[s].origin
           /\ disk'[s].done = disk[s].done + 1 /\ PlanOf(s)' = PlanOf(s)
           /\ holder.who = s /\ holder.doing = "run" /\ disk[s].made = "operation"
           /\ disk[s].done \in Nat /\ disk[s].done + 1 \in 1..Len(PlanOf(s))
           /\ PlanOf(s)[disk[s].done + 1] = Current(s) /\ Current(s).act = act
           /\ Facts(disk[s].op, disk[s].origin)
<1>1. Writes(s, [disk[s] EXCEPT !.done = disk[s].done + 1])
  BY DiskSteps DEF Shape, TypeOK
<1>2. disk[s] \in Record
  BY DEF Shape, TypeOK
<1>3. /\ disk'[s].made = disk[s].made /\ disk'[s].op = disk[s].op
      /\ disk'[s].exit = disk[s].exit /\ disk'[s].origin = disk[s].origin
      /\ disk'[s].done = disk[s].done + 1
  BY <1>1, <1>2 DEF Writes, Record
<1>4. /\ disk[s].made = "operation" /\ disk[s].done \in Nat
      /\ disk[s].done + 1 \in 1..Len(PlanOf(s)) /\ Facts(disk[s].op, disk[s].origin)
  BY CurrentFacts DEF Running
<1>5. QED
  BY <1>3, <1>4 DEF PlanOf, Current, Running, Doing

\* A record that neither claims nor flashes sends nothing and claims nothing.
LEMMA RolesNote ==
    ASSUME Shape, RolesInv, NEW s \in Slot, NEW act, Running(s, act), Advance(s),
           act \notin {"claim", "flash"}, UNCHANGED <<holder, claims, sent>>
    PROVE  RolesKept(s)
<1> USE AdvanceFacts
<1>0. /\ disk[s].op = "bootstrap" => disk[s].done # 3
      /\ disk[s].op = "experiment" => disk[s].done # 2
  BY DEF Facts, PlanOf
<1>1. \A ph \in NewContent : HasClaim(s, ph)' <=> HasClaim(s, ph)
  BY <1>0 DEF HasClaim
<1>2. Roles(s)'
  BY <1>1 DEF RolesInv, Roles
<1>3. Unsent(s)'
  BY DEF RolesInv, Unsent
<1>4. QED
  BY <1>1, <1>2, <1>3 DEF RolesKept

\* A claim is the first one of its content: the registry had none.
LEMMA RolesClaim ==
    ASSUME Shape, RolesInv, NEW s \in Slot, claim_candidate(s)
    PROVE  /\ Unsent(s)' /\ Roles(s)'
           /\ \A ph \in NewContent : HasClaim(s, ph)' =>
                 HasClaim(s, ph) \/ \A t \in Slot : ~HasClaim(t, ph)
<1>1. Running(s, "claim") /\ Advance(s) /\ UNCHANGED <<holder, sent>>
  BY DEF claim_candidate
<1>2. ImageOf(Current(s).phase) \notin claims
  BY <1>1 DEF claim_candidate, May, Running
<1>3. claims' = claims \union {ImageOf(Current(s).phase)}
  BY DEF claim_candidate
<1> USE <1>1, AdvanceFacts
<1>4. Current(s).phase \in NewContent /\ ~HasClaim(s, Current(s).phase)
  BY DEF HasClaim, Facts, PlanOf, NewContent
<1>5. \A ph \in NewContent : HasClaim(s, ph)' => HasClaim(s, ph) \/ ph = Current(s).phase
  BY DEF HasClaim, Facts, PlanOf, NewContent
<1>6. \A ph \in NewContent : HasClaim(s, ph) => HasClaim(s, ph)'
  BY DEF HasClaim
<1>7. Roles(s)'
  BY <1>3, <1>5, <1>6 DEF RolesInv, Roles, ImageOf
<1>8. Unsent(s)'
  BY DEF RolesInv, Unsent
<1>9. \A t \in Slot : ~HasClaim(t, Current(s).phase)
  BY <1>2, <1>4 DEF RolesInv, Roles
<1>10. QED
  BY <1>5, <1>7, <1>8, <1>9

\* The transfer of the current step is the first of its phase, and the claim
\* of new content has been made.
LEMMA FlashFirst ==
    ASSUME Shape, RolesInv, NEW s \in Slot, Running(s, "flash")
    PROVE  /\ Current(s).phase \in Phase \ {"android-exit"} /\ sent[s][Current(s).phase] = 0
           /\ Current(s).phase \in NewContent => HasClaim(s, Current(s).phase)
<1>1. /\ disk[s].made = "operation" /\ disk[s].done \in Nat
      /\ disk[s].done + 1 \in 1..Len(PlanOf(s)) /\ Facts(disk[s].op, disk[s].origin)
  BY CurrentFacts DEF Running
<1>2. Current(s).phase \in Phase \ {"android-exit"}
  BY FlashPhase
<1>3. sent[s][Current(s).phase] = 0
  BY <1>1, <1>2 DEF RolesInv, Unsent, Running, Doing, Current
<1>4. Current(s).phase \in NewContent => HasClaim(s, Current(s).phase)
  BY <1>1 DEF Facts, Running, Current, PlanOf, HasClaim, NewContent
<1>5. QED
  BY <1>2, <1>3, <1>4

\* A transfer is the only one of its phase, and no later step repeats it.
LEMMA RolesTransfer ==
    ASSUME Shape, RolesInv, NEW s \in Slot, transfer(s)
    PROVE  RolesKept(s)
<1>1. Running(s, "flash") /\ Advance(s) /\ UNCHANGED <<holder, claims>>
  BY DEF transfer
<1> DEFINE phase == Current(s).phase
<1>2. phase \in Phase \ {"android-exit"} /\ sent[s][phase] = 0 /\ sent[s] \in [Phase -> Nat]
  BY <1>1, FlashFirst DEF Shape, TypeOK
<1>3. sent'[s][phase] = 1 /\ \A ph \in Phase : ph # phase => sent'[s][ph] = sent[s][ph]
  BY <1>2, SendsTyped DEF transfer, Shape, TypeOK
<1> USE <1>1, AdvanceFacts
<1>4. \A ph \in NewContent : HasClaim(s, ph)' <=> HasClaim(s, ph)
  BY DEF HasClaim, Facts, PlanOf
<1>5. phase \in NewContent => HasClaim(s, phase)
  BY FlashFirst
<1>6. Roles(s)'
  BY <1>2, <1>3, <1>4, <1>5 DEF RolesInv, Roles, NewContent, Phase
<1>7. ASSUME NEW i \in 1..Len(PlanOf(s)), NEW ph \in Phase, i > disk[s].done + 1,
             PlanOf(s)[i].act = "flash", PlanOf(s)[i].phase = ph
      PROVE  sent'[s][ph] = 0
  <2>1. ph # phase
    BY <1>7 DEF Facts, PlanOf
  <2>2. QED
    BY <1>3, <1>7, <2>1 DEF RolesInv, Unsent
<1>8. Unsent(s)'
  <2>1. disk'[s].made # "none" /\ Unsent(s) /\ holder' = holder
    BY DEF RolesInv
  <2>2. sent'[s]["android-exit"] = sent[s]["android-exit"]
    BY <1>2, <1>3 DEF Phase
  <2> HIDE DEF phase
  <2>3. \A i \in 1..Len(PlanOf(s)'), ph \in Phase :
           (i > disk'[s].done /\ PlanOf(s)'[i].act = "flash" /\ PlanOf(s)'[i].phase = ph)
              => sent'[s][ph] = 0
    BY <1>7
  <2>4. QED
    BY <2>1, <2>2, <2>3 DEF Unsent
<1>9. QED
  BY <1>4, <1>6, <1>8 DEF RolesKept

\* The records that are not of the plan, and the changes of hands.
LEMMA RolesOwn ==
    ASSUME Shape, RolesInv, NEW s \in Slot, Work(s) \/ recover(s) \/ Interrupt(s),
           ~claim_candidate(s)
    PROVE  RolesKept(s)
<1>1. /\ disk \in [Slot -> Record] /\ disk[s] \in Record /\ Unsent(s) /\ Roles(s)
      /\ Working(s) /\ sent \in [Slot -> [Phase -> Nat]]
  BY DEF Shape, TypeOK, RolesInv
<1>2. ASSUME SamePlan(s), UNCHANGED sent, claims \subseteq claims',
             \/ holder' = holder
             \/ holder'.who # s
             \/ holder'.doing \notin {"reserve", "link", "run", "exit"}
      PROVE  RolesKept(s)
  BY <1>1, <1>2, Quiet
<1>3. ASSUME SamePlan(s)
      PROVE  PlanOf(s)' = PlanOf(s) /\ \A ph \in NewContent : HasClaim(s, ph)' <=> HasClaim(s, ph)
  BY <1>3 DEF SamePlan, PlanOf, HasClaim
<1>4. ASSUME NEW act, Running(s, act), Advance(s), act \notin {"claim", "flash"},
             UNCHANGED <<holder, claims, sent>>
      PROVE  RolesKept(s)
  BY <1>4, RolesNote
<1>5. CASE \/ collect_android(s) \/ ask_android(s) \/ wait_native_return(s) \/ role_intent(s)
           \/ request_android_download(s) \/ observe_native(s)
  BY <1>4, <1>5 DEF collect_android, ask_android, wait_native_return, role_intent, Note,
        request_android_download, observe_native
<1>6. CASE transfer(s)
  BY <1>6, RolesTransfer
<1>7. CASE OpenOperation(s)
  <2>1. Writes(s, [disk[s] EXCEPT !.made = "operation"])
    BY <1>1, <1>7, DiskSteps
  <2>2. /\ disk'[s].made = "operation" /\ disk'[s].exit = disk[s].exit
        /\ disk'[s].op = disk[s].op /\ disk'[s].done = disk[s].done /\ PlanOf(s)' = PlanOf(s)
    BY <1>1, <2>1 DEF Writes, Record, PlanOf
  <2>3. UNCHANGED <<holder, sent, claims>>
    BY <1>7 DEF OpenOperation
  <2>4. Unsent(s)'
    BY <1>1, <2>2, <2>3 DEF Unsent
  <2>5. \A ph \in NewContent : HasClaim(s, ph)' <=> HasClaim(s, ph)
    BY <2>2 DEF HasClaim
  <2>6. QED
    BY <1>1, <2>3, <2>4, <2>5 DEF Roles, RolesKept
<1>8. CASE begin_f1_owner(s) \/ Link(s)
  <2>1. SamePlan(s)
    BY <1>8, LinkSame DEF begin_f1_owner, SamePlan, Same
  <2>2. disk[s].exit = "none" /\ disk'[s].exit = "none" /\ UNCHANGED <<sent, claims>>
        /\ holder.who = s /\ holder.doing \in {"reserve", "link"}
    BY <1>1, <1>8, <2>1 DEF begin_f1_owner, Link, Doing, Working, SamePlan
  <2>3. Unsent(s)'
    BY <1>1, <1>3, <2>1, <2>2 DEF Unsent, SamePlan
  <2>4. QED
    BY <1>1, <1>3, <2>1, <2>2, <2>3 DEF Roles, RolesKept
<1>9. CASE ExitIntent(s)
  <2>1. Writes(s, [disk[s] EXCEPT !.exit = "start"])
    BY <1>1, <1>9, DiskSteps
  <2>2. /\ disk'[s].made = disk[s].made /\ disk'[s].exit = "start"
        /\ disk'[s].op = disk[s].op /\ disk'[s].done = disk[s].done /\ PlanOf(s)' = PlanOf(s)
    BY <1>1, <2>1 DEF Writes, Record, PlanOf
  <2>3. UNCHANGED <<holder, sent, claims>> /\ disk[s].exit = "none"
    BY <1>9 DEF ExitIntent
  <2>4. Unsent(s)'
    BY <1>1, <2>2, <2>3 DEF Unsent
  <2>5. \A ph \in NewContent : HasClaim(s, ph)' <=> HasClaim(s, ph)
    BY <2>2 DEF HasClaim
  <2>6. QED
    BY <1>1, <2>3, <2>4, <2>5 DEF Roles, RolesKept
<1>10. CASE ExitTransfer(s)
  <2>1. Writes(s, [disk[s] EXCEPT !.exit = "sent"])
    BY <1>1, <1>10, DiskSteps
  <2>2. /\ disk'[s].made = disk[s].made /\ disk'[s].exit = "sent"
        /\ disk'[s].op = disk[s].op /\ disk'[s].done = disk[s].done /\ PlanOf(s)' = PlanOf(s)
    BY <1>1, <2>1 DEF Writes, Record, PlanOf
  <2>3. UNCHANGED <<holder, claims>> /\ sent[s]["android-exit"] = 0 /\ disk[s].made # "none"
    BY <1>1, <1>10, Made DEF ExitTransfer, Exiting, Doing, Unsent
  <2>4. /\ sent'[s]["android-exit"] = 1
        /\ \A ph \in Phase \ {"android-exit"} : sent'[s][ph] = sent[s][ph]
    BY <1>1, <1>10, <2>3, SendsTyped DEF ExitTransfer, Phase
  <2>5. holder.doing \in {"reserve", "link", "run"} => \A i \in 1..Len(PlanOf(s)) :
           PlanOf(s)[i].act = "flash" => PlanOf(s)[i].phase # "android-exit"
    BY <2>3, PlanOfFacts DEF Shape, Facts, PlanOf
  <2>6. Unsent(s)'
    BY <1>1, <2>2, <2>3, <2>4, <2>5 DEF Unsent
  <2>7. \A ph \in NewContent : HasClaim(s, ph)' <=> HasClaim(s, ph)
    BY <2>2 DEF HasClaim
  <2>8. Roles(s)'
    BY <1>1, <2>3, <2>4, <2>7 DEF Roles, NewContent, Phase
  <2>9. QED
    BY <2>6, <2>7, <2>8 DEF RolesKept
<1>11. CASE settle(s) /\ has_device_intent(s)
  <2>1. UNCHANGED <<disk, sent, claims>>
    BY <1>11 DEF settle
  <2>2. holder'.who # s \/ (holder'.doing = "exit" /\ disk[s].exit # "start")
    BY <1>11, SlotFacts DEF settle, Release, Nobody, Continue
  <2>3. SamePlan(s)
    BY <2>1 DEF SamePlan
  <2>4. Unsent(s)'
    BY <1>1, <1>3, <2>1, <2>2, <2>3 DEF Unsent
  <2>5. QED
    BY <1>1, <1>3, <2>1, <2>3, <2>4 DEF Roles, RolesKept
<1>18. CASE ExitHealth(s)
  <2>1. Writes(s, [disk[s] EXCEPT !.exit = "healthy"])
    BY <1>1, <1>18, DiskSteps
  <2>2. /\ disk'[s].made = disk[s].made /\ disk'[s].exit = "healthy"
        /\ disk'[s].op = disk[s].op /\ disk'[s].done = disk[s].done /\ PlanOf(s)' = PlanOf(s)
    BY <1>1, <2>1 DEF Writes, Record, PlanOf
  <2>3. UNCHANGED <<holder, sent, claims>>
    BY <1>18 DEF ExitHealth
  <2>4. Unsent(s)'
    BY <1>1, <2>2, <2>3 DEF Unsent
  <2>5. \A ph \in NewContent : HasClaim(s, ph)' <=> HasClaim(s, ph)
    BY <2>2 DEF HasClaim
  <2>6. QED
    BY <1>1, <2>3, <2>4, <2>5 DEF Roles, RolesKept
<1>12. CASE \/ CloseAndroid(s) \/ CloseNative(s) \/ repair_native_terminal(s) \/ complete(s)
            \/ stop(s) \/ (settle(s) /\ ~has_device_intent(s))
  <2>0. \/ Writes(s, [disk[s] EXCEPT !.terminal = "ANDROID"])
        \/ Writes(s, [disk[s] EXCEPT !.terminal = "NATIVE"])
        \/ Writes(s, [disk[s] EXCEPT !.terminal = "ABORTED"])
        \/ Writes(s, [disk[s] EXCEPT !.completed = TRUE])
        \/ Writes(s, [disk[s] EXCEPT !.stop = TRUE])
    BY <1>1, <1>12, DiskSteps
  <2>1. SamePlan(s)
    BY <1>1, <2>0 DEF Writes, Record, SamePlan
  <2>2. UNCHANGED <<sent, claims>>
    BY <1>12 DEF CloseAndroid, CloseNative, repair_native_terminal, complete, stop, settle
  <2>3. holder'.who # s \/ holder'.doing \in {"finish", "retire", "settle"}
    BY <1>12, SlotFacts DEF CloseAndroid, CloseNative, repair_native_terminal, complete, stop,
          settle, Continue, Release, Nobody
  <2>4. QED
    BY <1>2, <2>1, <2>2, <2>3
<1>13. CASE \/ Refuse(s) \/ ExitRefused(s) \/ register_admission(s) \/ retire_f1_owner(s)
            \/ close_grant(s) \/ recover(s)
  <2>1. UNCHANGED <<disk, sent, claims>>
    BY <1>13 DEF Refuse, ExitRefused, register_admission, retire_f1_owner, close_grant,
          recover, files
  <2>2. \/ holder' = holder \/ holder'.who # s
        \/ holder'.doing \in {"caught", "close", "finish", "recover"}
    BY <1>13, SlotFacts DEF Refuse, ExitRefused, register_admission, retire_f1_owner,
          close_grant, recover, Continue, Release, Nobody
  <2>3. QED
    BY <1>2, <2>1, <2>2 DEF SamePlan
<1>14. CASE Interrupt(s)
  <2>0. UNCHANGED disk \/ Writes(s, [disk[s] EXCEPT !.stop = TRUE])
    BY <1>1, <1>14, DiskSteps
  <2>1. SamePlan(s)
    BY <1>1, <2>0 DEF Writes, Record, SamePlan
  <2>2. UNCHANGED claims /\ (holder'.who # s \/ holder'.doing = "caught")
    BY <1>14, SlotFacts DEF Interrupt, Release, Continue, Nobody
  <2>3. CASE UNCHANGED sent
    BY <1>2, <2>1, <2>2, <2>3
  <2>4. CASE Exiting(s) /\ disk[s].exit = "start" /\ Sends(s, "android-exit")
    <3>1. sent[s]["android-exit"] = 0 /\ disk[s].made # "none"
      BY <1>1, <2>4, Made DEF Exiting, Doing, Unsent
    <3>2. /\ sent'[s]["android-exit"] = 1
          /\ \A ph \in Phase \ {"android-exit"} : sent'[s][ph] = sent[s][ph]
      BY <1>1, <2>4, <3>1, SendsTyped DEF Phase
    <3>3. Unsent(s)'
      BY <1>1, <2>1, <2>2, <2>4, <3>1 DEF Unsent, SamePlan
    <3>4. Roles(s)'
      BY <1>1, <1>3, <2>1, <2>2, <3>2 DEF Roles, NewContent, Phase
    <3>5. QED
      BY <1>3, <2>1, <3>3, <3>4 DEF RolesKept
  <2>5. CASE Running(s, "flash") /\ Sends(s, Current(s).phase)
    <3> DEFINE phase == Current(s).phase
    <3>1. /\ phase \in Phase \ {"android-exit"} /\ sent[s][phase] = 0
          /\ phase \in NewContent => HasClaim(s, phase)
      BY <2>5, FlashFirst
    <3>2. sent'[s][phase] = 1 /\ \A ph \in Phase : ph # phase => sent'[s][ph] = sent[s][ph]
      BY <1>1, <2>5, <3>1, SendsTyped
    <3>3. disk[s].made # "none"
      BY <2>5, Made DEF Running, Doing
    <3>4. Unsent(s)'
      BY <1>1, <2>1, <2>2, <3>1, <3>2, <3>3 DEF Unsent, SamePlan, Phase
    <3>5. Roles(s)'
      BY <1>1, <1>3, <2>1, <2>2, <3>1, <3>2 DEF Roles, NewContent, Phase
    <3>6. QED
      BY <1>3, <2>1, <3>4, <3>5 DEF RolesKept
  <2>6. QED
    BY <1>14, <2>3, <2>4, <2>5 DEF Interrupt
<1>15. CASE settle(s)
  BY <1>11, <1>12, <1>15
<1>16. CASE Work(s)
  BY <1>5, <1>6, <1>7, <1>8, <1>9, <1>10, <1>12, <1>13, <1>15, <1>16, <1>18 DEF Work
<1>17. QED
  BY <1>13, <1>14, <1>16

\* Which steps of operation s send something.
LEMMA SentSteps ==
    ASSUME NEW s \in Slot, Work(s) \/ recover(s), ~transfer(s), ~ExitTransfer(s)
    PROVE  UNCHANGED sent
  BY DEF Work, OpenOperation, begin_f1_owner, Link, collect_android, ask_android,
         Note, wait_native_return, role_intent, request_android_download, observe_native,
         claim_candidate, Refuse, CloseNative, ExitIntent, ExitRefused, ExitHealth, CloseAndroid,
         repair_native_terminal, stop, settle, register_admission, complete,
         retire_f1_owner, close_grant, recover, files

\* A step of operation s sends nothing for another one.
LEMMA SentElsewhere ==
    ASSUME Shape, NEW s \in Slot, Work(s) \/ recover(s) \/ Interrupt(s), NEW t \in Slot, t # s
    PROVE  \A ph \in Phase : sent'[t][ph] = sent[t][ph]
<1>1. sent \in [Slot -> [Phase -> Nat]]
  BY DEF Shape, TypeOK
<1>2. CASE transfer(s)
  BY <1>1, <1>2, FlashPhase, SendsTyped DEF transfer
<1>3. CASE ExitTransfer(s)
  BY <1>1, <1>3, SendsTyped DEF ExitTransfer, Phase
<1>4. CASE Interrupt(s)
  BY <1>1, <1>4, FlashPhase, SendsTyped DEF Interrupt, Phase
<1>5. QED
  BY <1>2, <1>3, <1>4, SentSteps

\* Every step preserves what the records say of the roles.
LEMMA RolesStep == ASSUME Shape, RolesInv, Next PROVE RolesInv'
<1>1. /\ disk \in [Slot -> Record] /\ sent \in [Slot -> [Phase -> Nat]]
      /\ \A t \in Slot : Unsent(t) /\ Roles(t) /\ WellFormed(t)
  BY DEF Shape, TypeOK, RolesInv
<1>2. ASSUME \A t \in Slot : RolesKept(t) PROVE RolesInv'
  BY <1>2 DEF RolesInv, RolesKept, ClaimedOnce
<1>3. ASSUME NEW s \in Slot, Work(s) \/ recover(s) \/ Interrupt(s), NEW t \in Slot, t # s
      PROVE  RolesKept(t)
  <2>1. SamePlan(t)
    BY <1>3, OthersSame DEF Same, SamePlan
  <2>2. holder'.who # t
    BY <1>3, OwnStep, SlotFacts DEF Keeps
  <2>3. claims \subseteq claims'
    BY <1>3 DEF Work, OpenOperation, begin_f1_owner, Link, collect_android, ask_android, Note,
          wait_native_return, role_intent, request_android_download, observe_native,
          claim_candidate, transfer, Refuse, CloseNative, ExitIntent, ExitTransfer,
          ExitRefused, ExitHealth, CloseAndroid, repair_native_terminal, stop, settle, register_admission,
          complete, retire_f1_owner, close_grant, recover, Interrupt, files
  <2>4. \A ph \in Phase : sent'[t][ph] = sent[t][ph]
    BY <1>3, SentElsewhere
  <2>5. QED
    BY <1>1, <2>1, <2>2, <2>3, <2>4, Quiet
<1>4. ASSUME NEW s \in Slot, Work(s) \/ recover(s) \/ Interrupt(s) PROVE RolesInv'
  <2>1. CASE ~claim_candidate(s)
    BY <1>2, <1>3, <1>4, <2>1, RolesOwn
  <2>2. CASE claim_candidate(s)
    <3>1. /\ Unsent(s)' /\ Roles(s)'
          /\ \A ph \in NewContent : HasClaim(s, ph)' =>
                HasClaim(s, ph) \/ \A t \in Slot : ~HasClaim(t, ph)
      BY <2>2, RolesClaim
    <3>2. \A t \in Slot : Unsent(t)' /\ Roles(t)'
      BY <1>3, <1>4, <3>1 DEF RolesKept
    <3>3. \A t \in Slot : t # s => \A ph \in NewContent : HasClaim(t, ph)' <=> HasClaim(t, ph)
      BY <1>3, <1>4 DEF RolesKept
    <3>4. ClaimedOnce'
      BY <3>1, <3>3 DEF ClaimedOnce, RolesInv
    <3>5. QED
      BY <3>2, <3>4 DEF RolesInv
  <2>3. QED
    BY <2>1, <2>2
<1>5. ASSUME NEW g \in Grant, Reserve(g) PROVE RolesInv'
  <2>1. PICK s \in NextSlot(g), op \in Allowed[g], origin \in Origin :
        \E prior \in Priors(origin) : Reserved(s, op, origin, prior)
    BY <1>1, <1>5, ReserveStep
  <2>2. PICK prior \in Priors(origin) : Reserved(s, op, origin, prior)
    BY <2>1
  <2>3. s \in Slot /\ disk[s].made = "none" /\ disk[s].done = 0
    BY <1>1 DEF NextSlot, WellFormed, Unused, Entry
  <2>4. UNCHANGED <<sent, claims>>
    BY <1>5 DEF Reserve
  <2>5. /\ holder' = [who |-> s, doing |-> "reserve"]
        /\ disk'[s] = Entry("reserved", op, origin, prior)
    BY <2>2 DEF Reserved, Continue, Writes
  <2>6. Unsent(s)'
    BY <1>1, <2>3, <2>4, <2>5 DEF Unsent, Entry, Phase
  <2>7. \A ph \in NewContent : ~HasClaim(s, ph)' /\ ~HasClaim(s, ph)
    BY <2>3, <2>5 DEF HasClaim, Entry
  <2>8. Roles(s)'
    BY <1>1, <2>3, <2>4, <2>7 DEF Roles, Unsent, NewContent, Phase
  <2>9. RolesKept(s)
    BY <2>6, <2>7, <2>8 DEF RolesKept
  <2>10. ASSUME NEW t \in Slot, t # s PROVE RolesKept(t)
    <3>1. SamePlan(t)
      BY <2>2, <2>10 DEF Reserved, Writes, SamePlan
    <3>2. QED
      BY <1>1, <2>4, <2>5, <2>10, <3>1, Quiet
  <2>11. QED
    BY <1>2, <2>9, <2>10
<1>6. ASSUME UNCHANGED <<disk, sent, claims>>, holder' = holder \/ holder'.who \notin Slot
      PROVE  RolesInv'
  BY <1>1, <1>2, <1>6, Quiet DEF SamePlan
<1>7. CASE EnterDownload \/ PowerCycle \/ \E g \in Grant : open_grant(g) \/ Lapse(g)
  BY <1>6, <1>7 DEF EnterDownload, PowerCycle, open_grant, Lapse, files
<1>8. CASE Research
  BY <1>6, <1>8, SlotFacts DEF Research, reboot_start, reboot_intent, reboot_once, wait_return,
        reboot_failed, reboot_died, reconcile, open_goal, close_goal, files, Continue, Release, Nobody
<1>9. CASE Ordinary
  BY <1>6, <1>9, SlotFacts DEF Ordinary, f1_begin, f1_effect, f1_end, f1_died, f1_recover,
        files, Continue, Release, Nobody
<1>10. QED
  BY <1>4, <1>5, <1>7, <1>8, <1>9 DEF Next

\* What has been sent and claimed agrees with the records.
LEMMA RolesInvariant == Spec => []RolesInv
<1>1. Init => RolesInv
  <2> SUFFICES ASSUME Init PROVE RolesInv
    OBVIOUS
  <2>1. \A s \in Slot : disk[s] = Unused /\ \A ph \in Phase : sent[s][ph] = 0
    BY DEF Init
  <2>2. \A s \in Slot : Unsent(s)
    BY <2>1, SlotFacts DEF Init, Unsent, Unused, Entry, Nobody, Phase
  <2>3. \A s \in Slot : \A ph \in NewContent : ~HasClaim(s, ph)
    BY <2>1 DEF HasClaim, Unused, Entry
  <2>4. \A s \in Slot : Roles(s)
    BY <2>1, <2>3 DEF Roles, NewContent, Phase
  <2>5. QED
    BY <2>2, <2>3, <2>4 DEF RolesInv, ClaimedOnce
<1>2. RolesInv /\ UNCHANGED vars => RolesInv'
  BY DEF RolesInv, Unsent, Roles, ClaimedOnce, HasClaim, PlanOf, vars
<1>3. Shape /\ RolesInv /\ [Next]_vars => RolesInv'
  BY <1>2, RolesStep
<1>4. QED
  BY <1>1, <1>3, ShapeInvariant, PTL DEF Spec

----------------------------------------------------------------------------
(* The image on the target.                                                *)

\* What Image reads of a directory.
SameImage(t) ==
    /\ disk'[t].op = disk[t].op /\ disk'[t].origin = disk[t].origin
    /\ disk'[t].done = disk[t].done /\ disk'[t].exit = disk[t].exit
    /\ disk'[t].terminal = disk[t].terminal /\ disk'[t].completed = disk[t].completed

\* An operation that a step does not concern: it is not the owner, or nothing
\* of it and of the image has changed.
LEMMA ImageElsewhere ==
    ASSUME NEW t \in Slot, Image(t), SameImage(t), admitted => admitted',
           owner' # t \/ (owner' = owner /\ device'.image = device.image)
    PROVE  Image(t)'
<1>1. Complete(t)' <=> Complete(t)
  BY DEF SameImage, Complete, PlanOf
<1>2. QED
  BY <1>1 DEF Image, SameImage, Settled

\* The owner takes its steps; nobody else is the owner.
LEMMA ImageOwner ==
    ASSUME Shape, ImageInv, NEW s \in Slot, Work(s) \/ recover(s) \/ Interrupt(s),
           owner = s, owner' = s, Image(s)'
    PROVE  ImageInv'
<1>1. ASSUME NEW t \in Slot, t # s PROVE Image(t)'
  <2>1. SameImage(t) /\ (admitted => admitted')
    BY <1>1, OthersSame, OwnStep DEF Same, SameImage, Keeps
  <2>2. QED
    BY <1>1, <2>1, ImageElsewhere DEF ImageInv
<1>2. QED
  BY <1>1, SlotFacts DEF ImageInv, TargetReturned

\* The records of the plan, of an owner that has not stopped.
LEMMA ImagePlan ==
    ASSUME Shape, ImageInv, NEW s \in Slot, NEW act, Running(s, act), Advance(s),
           UNCHANGED <<holder, owner, admitted>>,
           act # "flash" => device'.image = device.image,
           act = "observe" /\ Current(s).phase = "native-final" => device.image = "N"
    PROVE  owner = s /\ Image(s)'
<1>1. /\ disk[s] \in Record /\ Working(s) /\ Image(s)
  BY DEF Shape, TypeOK, ImageInv
<1>2. Writes(s, [disk[s] EXCEPT !.done = disk[s].done + 1])
  BY DiskSteps DEF Shape, TypeOK
<1>3. disk'[s].terminal = disk[s].terminal /\ disk'[s].completed = disk[s].completed
  BY <1>1, <1>2 DEF Writes, Record
<1>4. owner = s /\ disk[s].terminal = "none"
  BY <1>1 DEF Working, Running, Doing
<1> USE AdvanceFacts
<1>5. disk[s].origin = "android" /\ disk[s].done + 1 < 2 => act # "flash"
  BY DEF Facts, PlanOf
<1>6. disk[s].op # "android-exit" /\ Complete(s)' =>
         act = "observe" /\ Current(s).phase = "native-final"
  BY DEF Complete, Facts, PlanOf
<1>7. act = "flash" => disk[s].exit = "none"
  <2>1. act = "flash" => disk[s].op # "android-exit"
    BY DEF Facts, PlanOf
  <2>2. ~disk[s].stop /\ Directory(s)
    BY <1>1 DEF Shape, Working, Running, Doing
  <2>3. QED
    BY <2>1, <2>2 DEF Directory
<1>8. QED
  BY <1>1, <1>3, <1>4, <1>5, <1>6, <1>7 DEF Image, Settled

\* A step of an operation keeps the image in agreement with its records.
LEMMA ImageWork ==
    ASSUME Shape, ImageInv, NEW s \in Slot, Work(s) \/ recover(s) \/ Interrupt(s)
    PROVE  ImageInv'
<1>1. /\ disk \in [Slot -> Record] /\ disk[s] \in Record /\ WellFormed(s)
      /\ Working(s) /\ Directory(s) /\ Image(s)
      /\ device \in [image : {"A", "N", "E", "X", "partial"}, mode : {"up", "download", "down"},
                     seen : Slot \union {None}]
  BY DEF Shape, TypeOK, ImageInv
<1>2. \A t \in Slot : t # s => SameImage(t)
  BY OthersSame DEF Same, SameImage
<1>3. ASSUME owner = s, owner' = s, Image(s)' PROVE ImageInv'
  BY <1>3, ImageOwner
<1>4. ASSUME SameImage(s), UNCHANGED owner, admitted => admitted', device'.image = device.image
      PROVE  ImageInv'
  BY <1>2, <1>4, ImageElsewhere DEF ImageInv, TargetReturned
<1>5. ASSUME NEW act, Running(s, act), Advance(s), UNCHANGED <<holder, owner, admitted>>,
             act # "flash" => device'.image = device.image,
             act = "observe" /\ Current(s).phase = "native-final" => device.image = "N"
      PROVE  ImageInv'
  BY <1>3, <1>5, ImagePlan
<1>6. CASE collect_android(s) \/ ask_android(s) \/ wait_native_return(s) \/ role_intent(s)
  BY <1>5, <1>6 DEF collect_android, ask_android, wait_native_return, role_intent, Note
<1>7. CASE claim_candidate(s)
  BY <1>5, <1>7 DEF claim_candidate
<1>8. CASE request_android_download(s)
  BY <1>1, <1>5, <1>8 DEF request_android_download
<1>9. CASE observe_native(s)
  <2>1. Running(s, "observe") /\ Advance(s) /\ UNCHANGED <<holder, owner, admitted>>
    BY <1>9 DEF observe_native
  <2>2. device'.image = device.image
    BY <1>1, <1>9 DEF observe_native
  <2>3. device.image = ImageOf(Current(s).phase)
    BY <1>9, <2>1 DEF observe_native, May, Running
  <2>4. QED
    BY <1>5, <2>1, <2>2, <2>3 DEF ImageOf
<1>10. CASE transfer(s)
  BY <1>5, <1>10 DEF transfer
<1>11. CASE OpenOperation(s)
  <2>1. Writes(s, [disk[s] EXCEPT !.made = "operation"])
    BY <1>1, <1>11, DiskSteps
  <2>2. SameImage(s)
    BY <1>1, <2>1 DEF Writes, Record, SameImage
  <2>3. QED
    BY <1>4, <1>11, <2>2 DEF OpenOperation
<1>12. CASE begin_f1_owner(s)
  <2>1. /\ holder.who = s /\ holder.doing = "reserve" /\ owner = None /\ owner' = s
        /\ UNCHANGED <<disk, device, admitted>>
        /\ disk[s].done = 0 /\ disk[s].exit = "none" /\ disk[s].terminal = "none" /\ disk[s].made = "operation"
    BY <1>1, <1>12 DEF begin_f1_owner, Doing, Working
  <2>2. disk[s].op # "android-exit" => ~Complete(s)'
    BY <1>1, <2>1, PlanOfFacts DEF Facts, Complete, PlanOf
  <2>3. Image(s)'
    BY <2>1, <2>2 DEF ImageInv, TargetReturned, Image, Settled
  <2>4. \A t \in Slot : t # s => Image(t)'
    BY <1>2, <2>1, ImageElsewhere DEF ImageInv
  <2>5. QED
    BY <2>1, <2>3, <2>4, SlotFacts DEF ImageInv, TargetReturned
<1>13. CASE Link(s)
  <2>1. SameImage(s)
    BY <1>13, LinkSame DEF Same, SameImage
  <2>2. QED
    BY <1>4, <1>13, <2>1 DEF Link
<1>14. CASE Refuse(s) \/ ExitRefused(s) \/ register_admission(s) \/ close_grant(s) \/ recover(s)
  BY <1>4, <1>14 DEF Refuse, ExitRefused, register_admission, close_grant, recover, files, SameImage
<1>15. CASE CloseNative(s) \/ repair_native_terminal(s)
  <2>1. Writes(s, [disk[s] EXCEPT !.terminal = "NATIVE"])
    BY <1>1, <1>15, DiskSteps
  <2>2. /\ disk'[s].terminal = "NATIVE" /\ disk'[s].completed = disk[s].completed
        /\ disk'[s].exit = disk[s].exit /\ disk'[s].origin = disk[s].origin
    BY <1>1, <2>1 DEF Writes, Record
  <2>3. /\ UNCHANGED <<owner, device, admitted>> /\ owner = s /\ ~disk[s].completed
        /\ disk[s].op # "android-exit" /\ Complete(s) /\ disk[s].exit = "none"
    BY <1>1, <1>15 DEF CloseNative, repair_native_terminal, Repairable, Doing, Working, Directory
  <2>4. device.image = "N"
    BY <1>1, <2>3 DEF Image
  <2>5. disk'[s].done = disk[s].done /\ disk'[s].op = disk[s].op
    BY <1>1, <2>1 DEF Writes, Record
  <2>6. Image(s)'
    BY <1>1, <2>2, <2>3, <2>4, <2>5 DEF Image, Settled
  <2>7. QED
    BY <1>3, <2>3, <2>6
<1>16. CASE ExitIntent(s) \/ ExitTransfer(s)
  <2>1. \/ Writes(s, [disk[s] EXCEPT !.exit = "start"])
        \/ Writes(s, [disk[s] EXCEPT !.exit = "sent"])
    BY <1>1, <1>16, DiskSteps
  <2>2. disk'[s].exit \in {"start", "sent"} /\ disk'[s].terminal = disk[s].terminal
        /\ disk'[s].completed = disk[s].completed
    BY <1>1, <2>1 DEF Writes, Record
  <2>3. UNCHANGED <<owner, admitted>> /\ owner = s /\ disk[s].terminal = "none"
    BY <1>1, <1>16 DEF ExitIntent, ExitTransfer, Exiting, Doing, Working
  <2>4. Image(s)'
    BY <2>2, <2>3 DEF Image
  <2>5. QED
    BY <1>3, <2>3, <2>4
<1>27. CASE ExitHealth(s)
  <2>1. Writes(s, [disk[s] EXCEPT !.exit = "healthy"])
    BY <1>1, <1>27, DiskSteps
  <2>2. disk'[s].exit = "healthy" /\ disk'[s].terminal = disk[s].terminal
        /\ disk'[s].completed = disk[s].completed
    BY <1>1, <1>27, <2>1 DEF Writes, Record
  <2>3. UNCHANGED <<owner, admitted, device>> /\ owner = s /\ device.image = "A"
        /\ disk[s].terminal = "none"
    BY <1>1, <1>27 DEF ExitHealth, Healthy, Exiting, Doing, Working
  <2>4. Image(s)'
    BY <2>2, <2>3 DEF Image
  <2>5. QED
    BY <1>3, <2>3, <2>4
<1>17. CASE CloseAndroid(s)
  <2>1. Writes(s, [disk[s] EXCEPT !.terminal = "ANDROID"])
    BY <1>1, <1>17, DiskSteps
  <2>2. disk'[s].exit = "healthy" /\ disk'[s].terminal = "ANDROID"
    BY <1>1, <1>17, <2>1 DEF Writes, Record, CloseAndroid
  <2>3. UNCHANGED <<owner, admitted, device>> /\ owner = s /\ device.image = "A"
    BY <1>1, <1>17 DEF CloseAndroid, Exiting, Doing, Working, Image
  <2>4. Image(s)'
    BY <2>2, <2>3 DEF Image
  <2>5. QED
    BY <1>3, <2>3, <2>4
<1>18. CASE stop(s)
  <2>1. Writes(s, [disk[s] EXCEPT !.stop = TRUE])
    BY <1>1, <1>18, DiskSteps
  <2>2. SameImage(s)
    BY <1>1, <2>1 DEF Writes, Record, SameImage
  <2>3. QED
    BY <1>4, <1>18, <2>2 DEF stop
<1>19. CASE settle(s) /\ has_device_intent(s)
  BY <1>4, <1>19 DEF settle, SameImage
<1>20. CASE settle(s) /\ ~has_device_intent(s)
  <2>1. Writes(s, [disk[s] EXCEPT !.terminal = "ABORTED"])
    BY <1>1, <1>20, DiskSteps
  <2>2. /\ disk'[s].terminal = "ABORTED" /\ disk'[s].exit = disk[s].exit
        /\ disk'[s].op = disk[s].op /\ disk'[s].origin = disk[s].origin
        /\ disk'[s].done = disk[s].done
    BY <1>1, <2>1 DEF Writes, Record
  <2>3. /\ UNCHANGED <<owner, admitted, device>> /\ owner = s
        /\ disk[s].origin = "android" /\ disk[s].done < 2 /\ disk[s].exit = "none"
    BY <1>1, <1>20 DEF settle, has_device_intent, Doing, Working, Record
  <2>4. Settled /\ (Complete(s)' <=> Complete(s))
    BY <1>1, <2>2, <2>3 DEF Image, Complete, PlanOf
  <2>5. Image(s)'
    BY <1>1, <2>2, <2>3, <2>4 DEF Image, Settled
  <2>6. QED
    BY <1>3, <2>3, <2>5
<1>21. CASE complete(s)
  <2>1. Writes(s, [disk[s] EXCEPT !.completed = TRUE])
    BY <1>1, <1>21, DiskSteps
  <2>2. /\ disk'[s].terminal = disk[s].terminal /\ disk'[s].exit = disk[s].exit
        /\ disk'[s].op = disk[s].op /\ disk'[s].origin = disk[s].origin
        /\ disk'[s].done = disk[s].done
    BY <1>1, <2>1 DEF Writes, Record
  <2>3. UNCHANGED <<owner, admitted, device>> /\ disk[s].made = "operation"
        /\ (owner = s \/ disk[s].completed)
    BY <1>1, <1>21, Made DEF complete, Doing, Working
  <2>4. disk[s].terminal = "NATIVE" => admitted
    BY <1>1, <1>21, <2>3 DEF complete, Directory
  <2>5. Complete(s)' <=> Complete(s)
    BY <2>2 DEF Complete, PlanOf
  <2>6. CASE owner = s
    <3>1. Image(s)'
      BY <1>1, <2>2, <2>3, <2>4, <2>5 DEF Image, Settled
    <3>2. QED
      BY <1>3, <2>3, <2>6, <3>1
  <2>7. CASE disk[s].completed
    <3>1. SameImage(s)
      BY <1>1, <2>1, <2>2, <2>7 DEF SameImage, Writes, Record
    <3>2. QED
      BY <1>4, <2>3, <3>1
  <2>8. QED
    BY <2>3, <2>6, <2>7
<1>22. CASE retire_f1_owner(s)
  <2>1. /\ owner \in {s, None} /\ owner' = None /\ UNCHANGED <<disk, device, admitted>>
        /\ disk[s].completed /\ disk[s].terminal \in {"NATIVE", "ANDROID", "ABORTED"}
    BY <1>1, <1>22 DEF retire_f1_owner, Doing, Working, Directory, Record
  <2>2. Settled
    BY <1>1, <2>1 DEF Image, Settled, ImageInv, TargetReturned
  <2>3. \A t \in Slot : Image(t)'
    BY <2>1, SlotFacts, ImageElsewhere DEF ImageInv, SameImage
  <2>4. QED
    BY <2>1, <2>2, <2>3 DEF ImageInv, TargetReturned, Settled
<1>23. CASE Interrupt(s)
  <2>1. UNCHANGED disk \/ Writes(s, [disk[s] EXCEPT !.stop = TRUE])
    BY <1>1, <1>23, DiskSteps
  <2>2. SameImage(s) /\ UNCHANGED <<owner, admitted>> /\ holder.who = s /\ device' \in Torn(s)
    BY <1>1, <1>23, <2>1 DEF Writes, Record, SameImage, Interrupt
  <2>3. CASE device'.image = device.image
    BY <1>4, <2>2, <2>3
  <2>4. CASE Running(s, "flash")
    <3>1. owner = s /\ disk[s].terminal = "none"
      BY <1>1, <2>4 DEF Running, Doing, Working
    <3>2. disk[s].origin = "android" => ~(disk[s].done < 2)
      BY <2>4, CurrentFacts DEF Running, Current, Facts, PlanOf
    <3>3. ~Complete(s) /\ ~Complete(s)'
      BY <2>2, <2>4 DEF Running, SameImage, Complete, PlanOf
    <3>4. Image(s)'
      <4>1. disk[s].exit # "healthy"
        <5>1. disk[s].op # "android-exit"
          BY <2>4, CurrentFacts DEF Running, Current, Facts, PlanOf
        <5>2. ~disk[s].stop
          BY <1>1, <2>4 DEF Running, Doing, Working
        <5>3. QED
          BY <1>1, <5>1, <5>2 DEF Directory
      <4>2. QED
        BY <1>1, <2>2, <3>1, <3>2, <3>3, <4>1 DEF Image, SameImage
    <3>5. QED
      BY <1>3, <2>2, <3>1, <3>4
  <2>5. CASE Exiting(s) /\ disk[s].exit = "start"
    <3>1. owner = s /\ disk[s].terminal = "none"
      BY <1>1, <2>5 DEF Exiting, Doing, Working
    <3>2. Image(s)'
      BY <1>1, <2>2, <2>5, <3>1 DEF Image, SameImage
    <3>3. QED
      BY <1>3, <2>2, <3>1, <3>2
  <2>6. QED
    BY <1>1, <2>2, <2>3, <2>4, <2>5 DEF Torn, Running
<1>24. CASE settle(s)
  BY <1>19, <1>20, <1>24
<1>25. CASE Work(s)
  BY <1>6, <1>7, <1>8, <1>9, <1>10, <1>11, <1>12, <1>13, <1>14, <1>15, <1>16, <1>17, <1>18,
     <1>21, <1>22, <1>24, <1>25, <1>27 DEF Work
<1>26. QED
  BY <1>14, <1>23, <1>25

\* Every step keeps the image in agreement with the records of the owner.
LEMMA ImageStep == ASSUME Shape, ImageInv, Next PROVE ImageInv'
<1>1. /\ device \in [image : {"A", "N", "E", "X", "partial"}, mode : {"up", "download", "down"},
                     seen : Slot \union {None}]
      /\ disk \in [Slot -> Record] /\ Actors /\ \A t \in Slot : WellFormed(t) /\ Image(t)
  BY DEF Shape, TypeOK, ImageInv
<1>2. ASSUME NEW g \in Grant, Reserve(g) PROVE ImageInv'
  <2>1. PICK s \in NextSlot(g), op \in Allowed[g], origin \in Origin :
        \E prior \in Priors(origin) : Reserved(s, op, origin, prior)
    BY <1>1, <1>2, ReserveStep
  <2>2. PICK prior \in Priors(origin) : Reserved(s, op, origin, prior)
    BY <2>1
  <2>3. owner = None /\ UNCHANGED <<owner, device, admitted>>
    BY <1>2 DEF Reserve
  <2>4. s \in Slot /\ disk'[s].completed = FALSE
    BY <2>2 DEF Reserved, Writes, Entry, NextSlot
  <2>5. Image(s)'
    BY <2>3, <2>4, SlotFacts DEF Image
  <2>6. ASSUME NEW t \in Slot, t # s PROVE Image(t)'
    <3>1. SameImage(t)
      BY <2>2, <2>6 DEF Reserved, Writes, SameImage
    <3>2. QED
      BY <1>1, <2>3, <3>1, ImageElsewhere
  <2>7. QED
    BY <2>3, <2>5, <2>6 DEF ImageInv, TargetReturned
<1>3. ASSUME UNCHANGED <<disk, owner, admitted>>, device'.image = device.image PROVE ImageInv'
  BY <1>1, <1>3, ImageElsewhere DEF SameImage, ImageInv, TargetReturned
<1>4. CASE EnterDownload \/ PowerCycle \/ \E g \in Grant : open_grant(g) \/ Lapse(g)
  <2>1. EnterDownload => UNCHANGED <<disk, owner, admitted>> /\ device'.image = device.image
    BY <1>1 DEF EnterDownload, files
  <2>2. PowerCycle => UNCHANGED <<disk, owner, admitted>> /\ device'.image = device.image
    BY DEF PowerCycle, Boots
  <2>3. QED
    BY <1>3, <1>4, <2>1, <2>2 DEF open_grant, Lapse
<1>5. CASE Research
  BY <1>1, <1>3, <1>5 DEF Research, reboot_start, reboot_intent, reboot_once, Healthy, Boots,
        wait_return, reboot_failed, reboot_died, reconcile, open_goal, close_goal, files
<1>6. CASE f1_died \/ f1_recover
  BY <1>3, <1>6 DEF f1_died, f1_recover, files
<1>7. ASSUME UNCHANGED <<disk, admitted>>, owner' \notin Slot, owner' = None => device'.image = "A"
      PROVE  ImageInv'
  BY <1>1, <1>7, ImageElsewhere DEF SameImage, ImageInv, TargetReturned
<1>8. CASE f1_begin \/ f1_end
  BY <1>7, <1>8, SlotFacts DEF f1_begin, f1_end, Healthy
<1>9. CASE f1_effect
  BY <1>1, <1>7, <1>9, SlotFacts, ActorAssumption DEF f1_effect, Doing, files, Actors
<1>10. QED
  BY <1>2, <1>4, <1>5, <1>6, <1>8, <1>9, ImageWork DEF Next, Ordinary

\* The records of the owner say what the target holds, in every reachable
\* state.
LEMMA ImageInvariant == Spec => []ImageInv
<1>1. Init => ImageInv
  <2> SUFFICES ASSUME Init PROVE ImageInv
    OBVIOUS
  <2>1. \A s \in Slot : disk[s].completed = FALSE
    BY DEF Init, Unused, Entry
  <2>2. owner = None /\ device.image = "A"
    BY DEF Init
  <2>3. QED
    BY <2>1, <2>2, SlotFacts DEF ImageInv, TargetReturned, Image
<1>2. ImageInv /\ UNCHANGED vars => ImageInv'
  BY DEF ImageInv, Image, TargetReturned, Settled, Complete, PlanOf, vars
<1>3. Shape /\ ImageInv /\ [Next]_vars => ImageInv'
  BY <1>2, ImageStep
<1>4. QED
  BY <1>1, <1>3, ShapeInvariant, PTL DEF Spec

----------------------------------------------------------------------------
(* The theorems.                                                           *)

\* The types of the files, of the lease and of the device, for any grants,
\* budgets and number of faults.
THEOREM BaselineTypes == Spec => []TypeOK
  BY ShapeInvariant, PTL DEF Shape

\* At most one actor answers for the target: begin_f1_owner, the pending file
\* and retire_f1_owner under the lease, whoever dies when.
THEOREM BaselineOneActor == Spec => []OneActor
<1>1. Shape => OneActor
  BY DEF Shape, Actors, Directory, OneActor
<1>2. QED
  BY <1>1, ShapeInvariant, PTL

\* No role is delivered twice: transfer() and the Android exit of execute and
\* recover, over any number of operations, grants and deaths.
THEOREM BaselineRolesOnce == Spec => []RolesOnce
<1>1. Shape /\ RolesInv => RolesOnce
  <2> SUFFICES ASSUME Shape, RolesInv PROVE RolesOnce
    OBVIOUS
  <2>1. \A s \in Slot : DOMAIN sent[s] = Phase
    BY DEF Shape, TypeOK
  <2>2. QED
    BY <2>1 DEF RolesInv, Roles, ClaimedOnce, RolesOnce, NewContent
<1>2. QED
  BY <1>1, ShapeInvariant, RolesInvariant, PTL

\* Nobody answers for the target only while it holds Android or the admitted
\* native image.
THEOREM BaselineTargetReturned == Spec => []TargetReturned
  BY ImageInvariant, PTL DEF ImageInv

NoReplay == \A s \in Slot :
    /\ disk[s].stop \/ grants[s[1]] # "open" =>
          \A ph \in DOMAIN sent[s] \ {"android-exit"} : sent'[s][ph] = sent[s][ph]
    /\ disk[s].stop /\ disk'[s].terminal = "NATIVE" => disk[s].terminal = "NATIVE"

\* A step sends a native image only for an operation that is active: one that
\* has not stopped, under a grant that is open.
LEMMA NativeSends ==
    ASSUME Shape, Next, NEW s \in Slot, ~Active(s)
    PROVE  \A ph \in Phase \ {"android-exit"} : sent'[s][ph] = sent[s][ph]
<1>1. sent \in [Slot -> [Phase -> Nat]]
  BY DEF Shape, TypeOK
<1>2. CASE Work(s) \/ recover(s)
  <2>1. ~transfer(s)
    BY DEF transfer, May, Running
  <2>2. CASE ExitTransfer(s)
    BY <1>1, <2>2, SendsTyped DEF ExitTransfer, Phase
  <2>3. QED
    BY <1>2, <2>1, <2>2, SentSteps
<1>3. CASE Interrupt(s)
  <2>1. CASE Exiting(s) /\ disk[s].exit = "start"
    BY <1>1, <1>3, <2>1, SendsTyped DEF Interrupt, Phase
  <2>2. CASE ~(Exiting(s) /\ disk[s].exit = "start") /\ Running(s, "flash")
    <3>1. Torn(s) = {device}
      <4>1. ~May(s)
        BY <2>2 DEF May, Running
      <4>2. QED
        BY <2>2, <4>1 DEF Torn
    <3>2. QED
      BY <1>3, <3>1 DEF Interrupt
  <2>3. CASE ~(Exiting(s) /\ disk[s].exit = "start") /\ ~Running(s, "flash")
    BY <1>3, <2>3 DEF Interrupt
  <2>4. QED
    BY <2>1, <2>2, <2>3
<1>4. ASSUME NEW t \in Slot, Work(t) \/ recover(t) \/ Interrupt(t), t # s
      PROVE  \A ph \in Phase : sent'[s][ph] = sent[s][ph]
  BY <1>4, SentElsewhere
<1>5. CASE \E g \in Grant : open_grant(g) \/ Lapse(g) \/ Reserve(g)
  BY <1>5 DEF open_grant, Lapse, Reserve
<1>6. CASE EnterDownload \/ PowerCycle
  BY <1>6 DEF EnterDownload, PowerCycle
<1>7. CASE Research \/ Ordinary
  BY <1>7 DEF Research, reboot_start, reboot_intent, reboot_once, wait_return,
        reboot_failed, reboot_died, reconcile, open_goal, close_goal, Ordinary, f1_begin, f1_effect,
        f1_end, f1_died, f1_recover
<1>8. QED
  BY <1>2, <1>3, <1>4, <1>5, <1>6, <1>7 DEF Next

\* No step closes a stopped operation as native.
LEMMA StopStep == ASSUME Shape, Next PROVE NoReplay
<1> SUFFICES ASSUME NEW s \in Slot, disk[s].stop
             PROVE  disk'[s].terminal = "NATIVE" => disk[s].terminal = "NATIVE"
  <2>1. \A s \in Slot : DOMAIN sent[s] = Phase
    BY DEF Shape, TypeOK
  <2>2. QED
    BY <2>1, NativeSends DEF NoReplay, Active
<1>1. /\ disk \in [Slot -> Record] /\ sent \in [Slot -> [Phase -> Nat]]
      /\ WellFormed(s) /\ Working(s) /\ disk[s] \in Record
  BY DEF Shape, TypeOK
<1>2. CASE UNCHANGED disk
  BY <1>2
<1>3. CASE Work(s) \/ recover(s) \/ Interrupt(s)
  <2>1. ~Doing(s, "run")
    BY <1>1 DEF Working, Doing
  <2>3. ~CloseNative(s) /\ ~repair_native_terminal(s)
    BY <2>1 DEF CloseNative, repair_native_terminal, Repairable
  <2>4. disk'[s].terminal = "NATIVE" => disk[s].terminal = "NATIVE"
    <3>1. CASE UNCHANGED disk
      BY <3>1
    <3>2. ASSUME \/ Writes(s, [disk[s] EXCEPT !.made = "operation"])
                 \/ Writes(s, [disk[s] EXCEPT !.done = disk[s].done + 1])
                 \/ Writes(s, [disk[s] EXCEPT !.exit = "start"])
                 \/ Writes(s, [disk[s] EXCEPT !.exit = "sent"])
                 \/ Writes(s, [disk[s] EXCEPT !.exit = "healthy"])
                 \/ Writes(s, [disk[s] EXCEPT !.stop = TRUE])
                 \/ Writes(s, [disk[s] EXCEPT !.completed = TRUE])
                 \/ Writes(s, [disk[s] EXCEPT !.terminal = "ANDROID"])
                 \/ Writes(s, [disk[s] EXCEPT !.terminal = "ABORTED"])
          PROVE  disk'[s].terminal = "NATIVE" => disk[s].terminal = "NATIVE"
      BY <1>1, <3>2 DEF Writes, Record
    <3>3. CASE \/ OpenOperation(s) \/ ExitIntent(s) \/ ExitTransfer(s) \/ ExitHealth(s) \/ CloseAndroid(s)
               \/ stop(s) \/ complete(s)
      BY <1>1, <3>2, <3>3, DiskSteps
    <3>4. CASE Link(s)
      BY <3>4, LinkSame DEF Same
    <3>5. CASE settle(s)
      <4>1. has_device_intent(s) => UNCHANGED disk
        BY <3>5 DEF settle
      <4>2. QED
        BY <1>1, <3>1, <3>2, <3>5, <4>1, DiskSteps
    <3>6. CASE Interrupt(s)
      BY <1>1, <3>1, <3>2, <3>6, DiskSteps
    <3>7. ~(\/ collect_android(s) \/ ask_android(s) \/ request_android_download(s)
            \/ observe_native(s) \/ wait_native_return(s)
            \/ claim_candidate(s) \/ role_intent(s) \/ transfer(s))
      BY <2>1 DEF collect_android, ask_android, wait_native_return, role_intent, Note,
            request_android_download, observe_native, claim_candidate, transfer, Running
    <3>8. CASE begin_f1_owner(s) \/ Refuse(s) \/ ExitRefused(s) \/ register_admission(s)
               \/ retire_f1_owner(s) \/ close_grant(s) \/ recover(s)
      BY <3>1, <3>8 DEF begin_f1_owner, Refuse, ExitRefused, register_admission, files,
            retire_f1_owner, close_grant, recover
    <3>9. QED
      BY <1>3, <2>3, <3>3, <3>4, <3>5, <3>6, <3>7, <3>8 DEF Work
  <2>5. QED
    BY <2>4
<1>4. ASSUME NEW t \in Slot, Work(t) \/ recover(t) \/ Interrupt(t), t # s
      PROVE  disk'[s].terminal = "NATIVE" => disk[s].terminal = "NATIVE"
  BY <1>4, OthersSame DEF Same
<1>5. ASSUME NEW g \in Grant, Reserve(g)
      PROVE  disk'[s].terminal = "NATIVE" => disk[s].terminal = "NATIVE"
  <2>2. \E t \in NextSlot(g), op \in Allowed[g], origin \in Origin :
        \E prior \in Priors(origin) : Writes(t, Entry("reserved", op, origin, prior))
    BY <1>1, <1>5, ReserveStep DEF Reserved
  <2>3. disk'[s].terminal = "NATIVE" => disk[s].terminal = "NATIVE"
    BY <2>2 DEF Writes, Entry
  <2>4. QED
    BY <2>3
<1>6. CASE EnterDownload \/ PowerCycle \/ \E g \in Grant : open_grant(g) \/ Lapse(g)
  BY <1>2, <1>6 DEF EnterDownload, PowerCycle, open_grant, Lapse, files
<1>7. CASE Research \/ Ordinary
  BY <1>2, <1>7 DEF Research, reboot_start, reboot_intent, reboot_once, wait_return,
        reboot_failed, reboot_died, reconcile, open_goal, close_goal, Ordinary, f1_begin, f1_effect,
        f1_end, f1_died, f1_recover, files
<1>8. QED
  BY <1>3, <1>4, <1>5, <1>6, <1>7 DEF Next

\* transfer() and validate_arm: after its stop record, or once its grant is
\* closed or has expired, an operation sends no native image; repair never
\* closes a stopped operation as native.
THEOREM BaselineStopFinal == Spec => StopFinal
<1>1. Shape /\ [Next]_vars => [NoReplay]_vars
  BY StopStep
<1>2. QED
  BY <1>1, ShapeInvariant, PTL DEF Spec, StopFinal, NoReplay
=============================================================================
