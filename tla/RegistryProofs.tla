--------------------------- MODULE RegistryProofs ---------------------------
(* What TLAPS proves of CandidateRegistry for every number of runs, every   *)
(* candidate set and every record bound.                                    *)
EXTENDS CandidateRegistry, SequenceTheorems, TLAPS

USE RegistryAssumption

\* _claims() keeps one active claim per candidate key.
LEMMA ActiveUnique ==
    ASSUME NEW rs \in Seq(Record), NEW c \in Active(rs), NEW d \in Active(rs),
           c.key = d.key
    PROVE  c = d
<1>1. PICK i \in 1..Len(rs) : ActiveAt(rs, i) /\ c = rs[i].claim
  BY DEF Active
<1>2. PICK j \in 1..Len(rs) : ActiveAt(rs, j) /\ d = rs[j].claim
  BY DEF Active
<1>3. ~(i < j)
  BY <1>1, <1>2 DEF ActiveAt
<1>4. ~(j < i)
  BY <1>1, <1>2 DEF ActiveAt
<1>5. i = j
  BY <1>3, <1>4
<1> QED BY <1>1, <1>2, <1>5

\* Appending a record of another key leaves an active claim active.
LEMMA ActiveAppend ==
    ASSUME NEW rs \in Seq(Record), NEW r \in Record, NEW i \in 1..Len(rs),
           ActiveAt(rs, i), r.claim.key # rs[i].claim.key
    PROVE  ActiveAt(Append(rs, r), i)
<1>1. /\ Len(Append(rs, r)) = Len(rs) + 1
      /\ \A k \in 1..Len(rs) : Append(rs, r)[k] = rs[k]
      /\ Append(rs, r)[Len(rs) + 1] = r
  OBVIOUS
<1>2. Len(rs) \in Nat
  OBVIOUS
<1>3. SUFFICES ASSUME NEW k \in (i + 1)..(Len(rs) + 1)
               PROVE  Append(rs, r)[k].claim.key # rs[i].claim.key
  BY <1>1, <1>2 DEF ActiveAt
<1>4. CASE k = Len(rs) + 1
  BY <1>1, <1>4
<1>5. CASE k # Len(rs) + 1
  <2>1. k \in (i + 1)..Len(rs) /\ k \in 1..Len(rs)
    BY <1>2, <1>5
  <2> QED BY <1>1, <2>1 DEF ActiveAt
<1> QED BY <1>4, <1>5

\* A claim that is active in a chain is active in every prefix that holds it.
LEMMA ActivePrefix ==
    ASSUME NEW rs \in Seq(Record), NEW n \in 0..Len(rs), NEW i \in 1..n,
           ActiveAt(rs, i)
    PROVE  ActiveAt(SubSeq(rs, 1, n), i)
<1>1. /\ Len(SubSeq(rs, 1, n)) = n
      /\ \A k \in 1..n : SubSeq(rs, 1, n)[k] = rs[k]
  OBVIOUS
<1>2. Len(rs) \in Nat
  OBVIOUS
<1> QED BY <1>1, <1>2 DEF ActiveAt

\* Only a claim or a release creates a record, and only three steps of _append
\* touch the chain, its durable prefix or the receipts.
LEMMA StepFrame ==
    ASSUME NEW p \in Run, RegistryStep(p)
    PROVE  \/ WriteRecord(p) \/ SyncRecord(p) \/ FinishAppend(p)
           \/ UNCHANGED <<records, synced, receipts, failures, sessions>>
  BY DEF RegistryStep, InitializeBegin, InitializeEnd, CheckLayout,
         RefuseLayout, AcquireWriter, AcquireReader, Read, CleanStaging,
         ScanClean, ScanRepair, RepairReplace, RepairSync, ScanRefuse,
         Preflight, RefuseAppend, ReleaseAgain, ClaimCandidate, ReleaseClaim, CreateRecord,
         StageHead, ReplaceHead, Leave, Goto, Unlock,
         Forget, files, locks, call, evidence

\* Everything a scan reports as active is a claim of the chain.
LEMMA ActiveIsClaim ==
    ASSUME NEW rs \in Seq(Record)
    PROVE  Active(rs) \subseteq Claim
<1> SUFFICES ASSUME NEW c \in Active(rs) PROVE c \in Claim
  OBVIOUS
<1>1. PICK i \in 1..Len(rs) : c = rs[i].claim
  BY DEF Active
<1>2. rs[i] \in Record
  OBVIOUS
<1> QED BY <1>1, <1>2 DEF Record

\* Leaving a call resets the lease and the locals of one process.
LEMMA LeaveTypes ==
    ASSUME TypeOK, NEW p \in Run, Leave(p)
    PROVE  /\ xlock' \in Run \cup {None} /\ slock' \subseteq Run
           /\ pc' \in [Run -> Label]
           /\ op' \in [Run -> Op \cup {NoOp}]
           /\ arg' \in [Run -> Claim \cup {NoClaim}]
           /\ seen' \in [Run -> SUBSET Run]
           /\ pend' \in [Run -> Record \cup {NoRecord}]
  BY DEF TypeOK, Leave, Goto, Unlock, Forget, Label

LEMMA TypeStep ==
    ASSUME IInv, Next
    PROVE  TypeOK'
<1> USE DEF TypeOK, Label, Op, NoOp
<1>1. ASSUME NEW p \in Run, RegistryStep(p) PROVE TypeOK'
  <2>0. TypeOK /\ PendingFits /\ PendingIsLast
    BY DEF IInv
  <2>1. CASE ClaimCandidate(p)
    <3>1. [event |-> "claim", claim |-> [key |-> CandOf[p], run |-> p,
            id |-> Len(records) + 1]] \in Record
      BY <2>0, <2>1 DEF ClaimCandidate, CreateRecord, Record, Claim
    <3> QED BY <2>0, <2>1, <3>1 DEF ClaimCandidate, CreateRecord, Leave, Goto, Unlock,
         Forget, files, locks, call, evidence
  <2>2. CASE ReleaseClaim(p)
    <3>1. arg[p] \in Claim
      BY <2>0, <2>2, ActiveIsClaim DEF ReleaseClaim
    <3>2. [event |-> "release", claim |-> arg[p]] \in Record
      BY <3>1 DEF Record
    <3> QED BY <2>0, <2>2, <3>2 DEF ReleaseClaim, CreateRecord, Leave, Goto, Unlock,
         Forget, files, locks, call, evidence
  <2>3. CASE WriteRecord(p)
    <3>1. pend[p] \in Record /\ Len(records) < MaxRecords
      BY <2>0, <2>3 DEF WriteRecord, PendingFits
    <3>2. /\ Append(records, pend[p]) \in Seq(Record)
          /\ Len(Append(records, pend[p])) = Len(records) + 1
      BY <2>0, <3>1
    <3>3. /\ records' \in Seq(Record) /\ Len(records') <= MaxRecords
          /\ synced' \in 0..Len(records')
      BY <2>0, <2>3, <3>1, <3>2 DEF WriteRecord
    <3> QED BY <2>0, <2>3, <3>3 DEF WriteRecord, Leave, Goto, Unlock,
         Forget, files, locks, call, evidence
  <2>4. CASE FinishAppend(p)
    <3>1. pend[p] \in Record
      BY <2>0, <2>4 DEF FinishAppend, PendingIsLast, TailLabels
    <3>2. pend[p].claim \in Claim
      BY <3>1 DEF Record
    <3> QED BY <2>0, <2>4, <3>2 DEF FinishAppend, Leave, Goto, Unlock,
         Forget, files, locks, call, evidence
  <2>5. CASE Read(p)
    <3>1. Active(records) \in SUBSET Claim
      BY <2>0, ActiveIsClaim
    <3> QED BY <2>0, <2>5, <3>1 DEF Read, Leave, Goto, Unlock,
         Forget, files, locks, call, evidence
  <2>6. CASE SyncRecord(p) \/ StageHead(p) \/ ReplaceHead(p)
    <3>1. CASE SyncRecord(p)
      BY <2>0, <3>1 DEF SyncRecord, Leave, Goto, Unlock,
           Forget, files, locks, call, evidence
    <3>2. CASE StageHead(p)
      BY <2>0, <3>2 DEF StageHead, Leave, Goto, Unlock,
           Forget, files, locks, call, evidence
    <3>3. CASE ReplaceHead(p)
      BY <2>0, <3>3 DEF ReplaceHead, Leave, Goto, Unlock,
           Forget, files, locks, call, evidence
    <3> QED BY <2>6, <3>1, <3>2, <3>3
  <2>7. CASE InitializeBegin(p) \/ InitializeEnd(p) \/ CheckLayout(p)
             \/ RefuseLayout(p) \/ AcquireWriter(p) \/ AcquireReader(p)
    <3>1. CASE InitializeBegin(p)
      BY <2>0, <3>1 DEF InitializeBegin, Leave, Goto, Unlock,
           Forget, files, locks, call, evidence
    <3>2. CASE InitializeEnd(p)
      BY <2>0, <3>2 DEF InitializeEnd, Leave, Goto, Unlock,
           Forget, files, locks, call, evidence
    <3>3. CASE CheckLayout(p)
      BY <2>0, <3>3 DEF CheckLayout, Leave, Goto, Unlock,
           Forget, files, locks, call, evidence
    <3>4. CASE RefuseLayout(p)
      BY <2>0, <3>4 DEF RefuseLayout, Leave, Goto, Unlock,
           Forget, files, locks, call, evidence
    <3>5. CASE AcquireWriter(p)
      BY <2>0, <3>5 DEF AcquireWriter, Leave, Goto, Unlock,
           Forget, files, locks, call, evidence
    <3>6. CASE AcquireReader(p)
      BY <2>0, <3>6 DEF AcquireReader, Leave, Goto, Unlock,
           Forget, files, locks, call, evidence
    <3> QED BY <2>7, <3>1, <3>2, <3>3, <3>4, <3>5, <3>6
  <2>8. CASE CleanStaging(p)
    BY <2>0, <2>8 DEF CleanStaging, Leave, Goto, Unlock,
         Forget, files, locks, call, evidence
  <2>9. CASE ScanClean(p) \/ ScanRefuse(p)
    <3>1. CASE ScanClean(p)
      BY <2>0, <3>1 DEF ScanClean, Leave, Goto, Unlock,
         Forget, files, locks, call, evidence
    <3>2. CASE ScanRefuse(p)
      BY <2>0, <3>2, LeaveTypes DEF ScanRefuse, files, evidence
    <3> QED BY <2>9, <3>1, <3>2
  <2>10. CASE ScanRepair(p) \/ RepairReplace(p) \/ RepairSync(p)
    <3>1. CASE ScanRepair(p)
      BY <2>0, <3>1 DEF ScanRepair, Leave, Goto, Unlock,
           Forget, files, locks, call, evidence
    <3>2. CASE RepairReplace(p)
      BY <2>0, <3>2 DEF RepairReplace, Leave, Goto, Unlock,
           Forget, files, locks, call, evidence
    <3>3. CASE RepairSync(p)
      BY <2>0, <3>3 DEF RepairSync, Leave, Goto, Unlock,
           Forget, files, locks, call, evidence
    <3> QED BY <2>10, <3>1, <3>2, <3>3
  <2>11. CASE Preflight(p)
    BY <2>0, <2>11 DEF Preflight, Leave, Goto, Unlock,
         Forget, files, locks, call, evidence
  <2>12. CASE RefuseAppend(p) \/ ReleaseAgain(p)
    <3>1. Leave(p) /\ UNCHANGED <<files, evidence>>
      BY <2>12 DEF RefuseAppend, ReleaseAgain
    <3> QED BY <2>0, <3>1, LeaveTypes DEF files, evidence
  <2> QED BY <1>1, <2>1, <2>2, <2>3, <2>4, <2>5, <2>6, <2>7, <2>8, <2>9,
             <2>10, <2>11, <2>12 DEF RegistryStep
<1>2. ASSUME NEW p \in Run, NEW o \in Op, NEW c \in receipts[p] \cup {NoClaim},
             Enter(p, o, c)
      PROVE  TypeOK'
  <2>1. c \in Claim \cup {NoClaim} /\ temps \in SUBSET Run
    BY DEF IInv
  <2>2. /\ op' \in [Run -> Op \cup {NoOp}] /\ pc' \in [Run -> Label]
        /\ arg' \in [Run -> Claim \cup {NoClaim}]
        /\ seen' \in [Run -> SUBSET Run]
    BY <1>2, <2>1 DEF IInv, Enter, Goto
  <2>3. view' \in [Run -> (SUBSET Claim) \cup {NoView}]
    BY <1>2 DEF IInv, Enter
  <2> QED BY <1>2, <2>2, <2>3 DEF IInv, Enter, files, locks
<1>3. ASSUME NEW p \in Run, NEW c \in receipts[p], NEW parsed \in BOOLEAN,
             Transfer(p, c, parsed)
      PROVE  TypeOK'
  BY <1>3 DEF IInv, Transfer, Leave, Goto, Unlock,
         Forget, files, locks, call, evidence
<1>4. ASSUME NEW p \in Run, Interrupt(p) PROVE TypeOK'
  BY <1>4 DEF IInv, Interrupt, Leave, Goto, Unlock,
         Forget, files, locks, call, evidence
<1>5. ASSUME PowerCut PROVE TypeOK'
  <2>1. PICK n \in synced..Len(records) :
            records' = SubSeq(records, 1, n) /\ synced' = n
    BY <1>5 DEF PowerCut
  <2>2. n \in 0..Len(records)
    BY DEF IInv
  <2>3. SubSeq(records, 1, n) \in Seq(Record) /\ Len(SubSeq(records, 1, n)) = n
    BY <2>2 DEF IInv
  <2>4. /\ records' \in Seq(Record) /\ Len(records') <= MaxRecords
        /\ synced' \in 0..Len(records')
    BY <2>1, <2>2, <2>3 DEF IInv
  <2>5. head' \in 0..MaxRecords /\ headSynced' \in 0..MaxRecords
    BY <1>5 DEF IInv, PowerCut
  <2>6. temps' \subseteq Run /\ torn' \in BOOLEAN
    BY <1>5 DEF IInv, PowerCut
  <2>7. /\ pc' \in [Run -> Label] /\ op' \in [Run -> Op \cup {NoOp}]
        /\ arg' \in [Run -> Claim \cup {NoClaim}]
        /\ seen' \in [Run -> SUBSET Run]
        /\ pend' \in [Run -> Record \cup {NoRecord}]
        /\ view' \in [Run -> (SUBSET Claim) \cup {NoView}]
    BY <1>5 DEF PowerCut
  <2>8. /\ layout' \in {"absent", "partial", "ready", "damaged"}
        /\ loose' \in BOOLEAN
    BY <1>5 DEF IInv, PowerCut
  <2> QED BY <1>5, <2>4, <2>5, <2>6, <2>7, <2>8 DEF IInv, PowerCut
<1> QED BY <1>1, <1>2, <1>3, <1>4, <1>5 DEF Next

LEMMA ExclusiveStep ==
    ASSUME IInv, Next
    PROVE  WriterExclusive'
<1> USE DEF IInv, TypeOK, WriterExclusive, CriticalLabels
<1>1. ASSUME NEW p \in Run, RegistryStep(p) PROVE WriterExclusive'
  BY <1>1 DEF RegistryStep, InitializeBegin, InitializeEnd,
         CheckLayout, RefuseLayout, AcquireWriter, AcquireReader, Read,
         CleanStaging, ScanClean, ScanRepair, RepairReplace, RepairSync,
         ScanRefuse, Preflight, RefuseAppend, ReleaseAgain, ClaimCandidate,
         ReleaseClaim, CreateRecord, WriteRecord, SyncRecord, StageHead,
         ReplaceHead, FinishAppend, Leave, Goto, Unlock,
         Forget, files, locks, call, evidence
<1>2. ASSUME NEW p \in Run, NEW o \in Op, NEW c \in receipts[p] \cup {NoClaim},
             Enter(p, o, c)
      PROVE  WriterExclusive'
  BY <1>2 DEF Enter, MayCall, Op, Leave, Goto, Unlock,
         Forget, files, locks, call, evidence
<1>3. ASSUME NEW p \in Run, NEW c \in receipts[p], NEW parsed \in BOOLEAN,
             Transfer(p, c, parsed)
      PROVE  WriterExclusive'
  BY <1>3 DEF Transfer, Op, Leave, Goto, Unlock,
         Forget, files, locks, call, evidence
<1>4. ASSUME NEW p \in Run, Interrupt(p) PROVE WriterExclusive'
  BY <1>4 DEF Interrupt, Op, Leave, Goto, Unlock,
         Forget, files, locks, call, evidence
<1>5. ASSUME PowerCut PROVE WriterExclusive'
  BY <1>5 DEF PowerCut, Op
<1> QED BY <1>1, <1>2, <1>3, <1>4, <1>5 DEF Next

LEMMA JustifiedStep ==
    ASSUME IInv, Next
    PROVE  ReleasesJustified'
<1> USE DEF IInv, TypeOK, ReleasesJustified, NoOp
<1>1. ASSUME NEW p \in Run, RegistryStep(p) PROVE ReleasesJustified'
  BY <1>1 DEF RegistryStep, InitializeBegin, InitializeEnd,
         CheckLayout, RefuseLayout, AcquireWriter, AcquireReader, Read,
         CleanStaging, ScanClean, ScanRepair, RepairReplace, RepairSync,
         ScanRefuse, Preflight, RefuseAppend, ReleaseAgain, ClaimCandidate,
         ReleaseClaim, CreateRecord, WriteRecord, SyncRecord, StageHead,
         ReplaceHead, FinishAppend, Leave, Goto, Unlock,
         Forget, files, locks, call, evidence
<1>2. ASSUME NEW p \in Run, NEW o \in Op, NEW c \in receipts[p] \cup {NoClaim},
             Enter(p, o, c)
      PROVE  ReleasesJustified'
  BY <1>2 DEF Enter, MayCall, Op, Leave, Goto, Unlock,
         Forget, files, locks, call, evidence
<1>3. ASSUME NEW p \in Run, NEW c \in receipts[p], NEW parsed \in BOOLEAN,
             Transfer(p, c, parsed)
      PROVE  ReleasesJustified'
  BY <1>3 DEF Transfer, Op, Leave, Goto, Unlock,
         Forget, files, locks, call, evidence
<1>4. ASSUME NEW p \in Run, Interrupt(p) PROVE ReleasesJustified'
  BY <1>4 DEF Interrupt, Op, Leave, Goto, Unlock,
         Forget, files, locks, call, evidence
<1>5. ASSUME PowerCut PROVE ReleasesJustified'
  BY <1>5 DEF PowerCut, Op
<1> QED BY <1>1, <1>2, <1>3, <1>4, <1>5 DEF Next

LEMMA PendingFitsStep ==
    ASSUME IInv, Next
    PROVE  PendingFits'
<1> USE DEF IInv, TypeOK, PendingFits, Consumed
<1>1. ASSUME NEW p \in Run, RegistryStep(p) PROVE PendingFits'
  <2>1. CASE ClaimCandidate(p)
    <3>1. [event |-> "claim", claim |-> [key |-> CandOf[p], run |-> p,
            id |-> Len(records) + 1]] \in Record
      BY <2>1 DEF ClaimCandidate, CreateRecord, Record, Claim
    <3> QED BY <2>1, <3>1 DEF ClaimCandidate, CreateRecord, Leave, Goto, Unlock,
         Forget, files, locks, call, evidence
  <2>2. CASE ReleaseClaim(p)
    <3>1. arg[p] \in Claim /\ arg[p] \in failures
      BY <2>2, ActiveIsClaim DEF ReleaseClaim, ReleasesJustified
    <3>2. [event |-> "release", claim |-> arg[p]] \in Record
      BY <3>1 DEF Record
    <3> QED BY <2>2, <3>1, <3>2 DEF ReleaseClaim, CreateRecord, Leave, Goto, Unlock,
         Forget, files, locks, call, evidence
  <2>3. CASE WriteRecord(p)
    BY <2>3 DEF WriteRecord, WriterExclusive, CriticalLabels, Leave, Goto, Unlock,
         Forget, files, locks, call, evidence
  <2>4. ASSUME ~ClaimCandidate(p), ~ReleaseClaim(p), ~WriteRecord(p)
        PROVE  PendingFits'
    <3> USE DEF RegistryStep, InitializeBegin, InitializeEnd,
         CheckLayout, RefuseLayout, AcquireWriter, AcquireReader, Read,
         CleanStaging, ScanClean, ScanRepair, RepairReplace, RepairSync,
         ScanRefuse, Preflight, RefuseAppend, ReleaseAgain, SyncRecord, StageHead,
         ReplaceHead, FinishAppend, Leave, Goto, Unlock,
         Forget, files, locks, call, evidence
    <3>1. UNCHANGED <<records, failures>>
      BY <1>1, <2>4
    <3>2. pc'[p] # "record_created" /\ \A q \in Run \ {p} : pc'[q] = pc[q]
      BY <1>1, <2>4
    <3>3. \A q \in Run \ {p} : pend'[q] = pend[q]
      BY <1>1, <2>4
    <3> QED BY <3>1, <3>2, <3>3
  <2> QED BY <2>1, <2>2, <2>3, <2>4
<1>2. ASSUME NEW p \in Run, NEW o \in Op, NEW c \in receipts[p] \cup {NoClaim},
             Enter(p, o, c)
      PROVE  PendingFits'
  BY <1>2 DEF Enter, MayCall, Op, Leave, Goto, Unlock,
         Forget, files, locks, call, evidence
<1>3. ASSUME NEW p \in Run, NEW c \in receipts[p], NEW parsed \in BOOLEAN,
             Transfer(p, c, parsed)
      PROVE  PendingFits'
  BY <1>3 DEF Transfer, Op, Leave, Goto, Unlock,
         Forget, files, locks, call, evidence
<1>4. ASSUME NEW p \in Run, Interrupt(p) PROVE PendingFits'
  BY <1>4 DEF Interrupt, Op, Leave, Goto, Unlock,
         Forget, files, locks, call, evidence
<1>5. ASSUME PowerCut PROVE PendingFits'
  BY <1>5 DEF PowerCut, Op
<1> QED BY <1>1, <1>2, <1>3, <1>4, <1>5 DEF Next

LEMMA PendingIsLastStep ==
    ASSUME IInv, Next
    PROVE  PendingIsLast'
<1> USE DEF IInv, TypeOK, PendingIsLast, TailLabels
<1>1. ASSUME NEW p \in Run, RegistryStep(p) PROVE PendingIsLast'
  <2>1. CASE WriteRecord(p)
    <3>1. pend[p] \in Record /\ pend[p].event \in {"claim", "release"}
      BY <2>1 DEF WriteRecord, PendingFits, Record
    <3>2. /\ Len(Append(records, pend[p])) = Len(records) + 1
          /\ Append(records, pend[p])[Len(records) + 1] = pend[p]
      BY <3>1
    <3>3. pend[p].event = "claim" =>
             /\ pend[p].claim.id = Len(records) + 1
             /\ pend[p].claim.key \notin Legacy
      BY <2>1 DEF WriteRecord, PendingFits, Consumed
    <3>4. \A q \in Run \ {p} : pc'[q] \notin TailLabels
      BY <2>1 DEF WriteRecord, WriterExclusive, CriticalLabels, Goto
    <3>5. records' = Append(records, pend[p]) /\ pend' = pend
      BY <2>1 DEF WriteRecord, call
    <3> QED BY <3>2, <3>3, <3>4, <3>5
  <2>2. ASSUME ~WriteRecord(p) PROVE PendingIsLast'
    BY <1>1, <2>2 DEF RegistryStep, InitializeBegin, InitializeEnd,
         CheckLayout, RefuseLayout, AcquireWriter, AcquireReader, Read,
         CleanStaging, ScanClean, ScanRepair, RepairReplace, RepairSync,
         ScanRefuse, Preflight, RefuseAppend, ReleaseAgain, ClaimCandidate,
         ReleaseClaim, CreateRecord, SyncRecord, StageHead, ReplaceHead,
         FinishAppend, Leave, Goto, Unlock,
         Forget, files, locks, call, evidence
  <2> QED BY <2>1, <2>2
<1>2. ASSUME NEW p \in Run, NEW o \in Op, NEW c \in receipts[p] \cup {NoClaim},
             Enter(p, o, c)
      PROVE  PendingIsLast'
  BY <1>2 DEF Enter, MayCall, Op, Leave, Goto, Unlock,
         Forget, files, locks, call, evidence
<1>3. ASSUME NEW p \in Run, NEW c \in receipts[p], NEW parsed \in BOOLEAN,
             Transfer(p, c, parsed)
      PROVE  PendingIsLast'
  BY <1>3 DEF Transfer, Op, Leave, Goto, Unlock,
         Forget, files, locks, call, evidence
<1>4. ASSUME NEW p \in Run, Interrupt(p) PROVE PendingIsLast'
  BY <1>4 DEF Interrupt, Op, Leave, Goto, Unlock,
         Forget, files, locks, call, evidence
<1>5. ASSUME PowerCut PROVE PendingIsLast'
  BY <1>5 DEF PowerCut, Op
<1> QED BY <1>1, <1>2, <1>3, <1>4, <1>5 DEF Next

\* Where the record of a receipt lies.
LEMMA ReceiptRecord ==
    ASSUME TypeOK, ReceiptsAreDurable, NEW q \in Run, NEW c \in receipts[q]
    PROVE  /\ c.id \in 1..synced /\ c.id \in 1..Len(records)
           /\ records[c.id] = [event |-> "claim", claim |-> c]
           /\ records[c.id].claim = c
<1>1. synced \in Nat /\ Len(records) \in Nat /\ synced <= Len(records)
  BY DEF TypeOK
<1>2. c.id \in 1..synced /\ records[c.id] = [event |-> "claim", claim |-> c]
  BY DEF ReceiptsAreDurable
<1> QED BY <1>1, <1>2

\* Receipts name records that lie in the synced prefix.
LEMMA DurableStep ==
    ASSUME IInv, Next
    PROVE  ReceiptsAreDurable'
<1> USE DEF IInv, TypeOK, ReceiptsAreDurable
<1>1. ASSUME NEW p \in Run, RegistryStep(p) PROVE ReceiptsAreDurable'
  <2>1. CASE WriteRecord(p)
    <3>1. pend[p] \in Record
      BY <2>1 DEF WriteRecord, PendingFits
    <3>2. \A k \in 1..Len(records) : Append(records, pend[p])[k] = records[k]
      BY <3>1
    <3>3. records' = Append(records, pend[p]) /\ UNCHANGED <<synced, receipts>>
      BY <2>1 DEF WriteRecord, evidence
    <3> QED BY <3>2, <3>3, ReceiptRecord
  <2>2. CASE SyncRecord(p)
    <3>1. synced' = Len(records) /\ UNCHANGED <<records, receipts>>
      BY <2>2 DEF SyncRecord, evidence
    <3> QED BY <3>1, ReceiptRecord
  <2>3. CASE FinishAppend(p)
    <3>1. /\ Len(records) > 0 /\ records[Len(records)] = pend[p]
          /\ pend[p].event = "claim" => pend[p].claim.id = Len(records)
      BY <2>3 DEF FinishAppend, PendingIsLast, TailLabels
    <3>2. pend[p] = [event |-> pend[p].event, claim |-> pend[p].claim]
      <4>1. pend[p] \in Record
        BY <3>1
      <4> QED BY <4>1 DEF Record
    <3>3. records' = records /\ synced' = Len(records)
      BY <2>3 DEF FinishAppend
    <3>4. SUFFICES ASSUME NEW q \in Run, NEW c \in receipts'[q]
                   PROVE  c.id \in 1..synced' /\ records'[c.id] =
                            [event |-> "claim", claim |-> c]
      OBVIOUS
    <3>5. CASE c \in receipts[q]
      BY <3>3, <3>5, ReceiptRecord
    <3>6. CASE c \notin receipts[q]
      <4>1. pend[p].event = "claim" /\ c = pend[p].claim
        BY <2>3, <3>4, <3>6 DEF FinishAppend
      <4> QED BY <3>1, <3>2, <3>3, <4>1
    <3> QED BY <3>5, <3>6
  <2> QED BY <1>1, <2>1, <2>2, <2>3, StepFrame
<1>2. ASSUME NEW p \in Run, NEW o \in Op, NEW c \in receipts[p] \cup {NoClaim},
             Enter(p, o, c)
      PROVE  ReceiptsAreDurable'
  BY <1>2 DEF Enter, files
<1>3. ASSUME NEW p \in Run, NEW c \in receipts[p], NEW parsed \in BOOLEAN,
             Transfer(p, c, parsed)
      PROVE  ReceiptsAreDurable'
  BY <1>3 DEF Transfer, files
<1>4. ASSUME NEW p \in Run, Interrupt(p) PROVE ReceiptsAreDurable'
  BY <1>4 DEF Interrupt, evidence
<1>5. ASSUME PowerCut PROVE ReceiptsAreDurable'
  <2>1. PICK n \in synced..Len(records) :
            records' = SubSeq(records, 1, n) /\ synced' = n
    BY <1>5 DEF PowerCut
  <2>2. n \in 0..Len(records) /\ synced \in Nat /\ synced <= n
    OBVIOUS
  <2>3. \A k \in 1..n : SubSeq(records, 1, n)[k] = records[k]
    BY <2>2
  <2>4. receipts' = receipts
    BY <1>5 DEF PowerCut
  <2>5. SUFFICES ASSUME NEW q \in Run, NEW c \in receipts[q]
                 PROVE  c.id \in 1..n /\ SubSeq(records, 1, n)[c.id] =
                          [event |-> "claim", claim |-> c]
    BY <2>1, <2>4
  <2>6. c.id \in 1..synced /\ records[c.id] = [event |-> "claim", claim |-> c]
    BY ReceiptRecord
  <2>7. c.id \in 1..n
    BY <2>2, <2>6
  <2> QED BY <2>3, <2>6, <2>7
<1> HIDE DEF IInv, TypeOK, ReceiptsAreDurable
<1> QED BY <1>1, <1>2, <1>3, <1>4, <1>5 DEF Next

\* A claim with a receipt is displaced only by the release of its own failure.
LEMMA StayActiveStep ==
    ASSUME IInv, Next
    PROVE  ReceiptsStayActive'
<1> USE DEF IInv, TypeOK, ReceiptsStayActive
<1>1. ASSUME NEW p \in Run, RegistryStep(p) PROVE ReceiptsStayActive'
  <2>1. CASE WriteRecord(p)
    <3>1. pend[p] \in Record
      BY <2>1 DEF WriteRecord, PendingFits
    <3>2. SUFFICES ASSUME NEW q \in Run, NEW c \in receipts[q], c \notin failures
                   PROVE  ActiveAt(Append(records, pend[p]), c.id)
      BY <2>1 DEF WriteRecord, evidence
    <3>3. /\ c.id \in 1..Len(records) /\ records[c.id].claim = c
          /\ ActiveAt(records, c.id)
      BY <3>2, ReceiptRecord
    <3>4. c \in Active(records)
      BY <3>3 DEF Active
    <3>5. pend[p].claim.key # c.key
      <4>1. CASE pend[p].event = "claim"
        BY <2>1, <3>4, <4>1 DEF WriteRecord, PendingFits, Consumed, ActiveKeys
      <4>2. CASE pend[p].event = "release"
        <5>1. pend[p].claim \in Active(records) /\ pend[p].claim \in failures
          BY <2>1, <4>2 DEF WriteRecord, PendingFits
        <5> QED BY <3>2, <3>4, <5>1, ActiveUnique
      <4> QED BY <3>1, <4>1, <4>2 DEF Record
    <3> QED BY <3>1, <3>3, <3>5, ActiveAppend
  <2>2. CASE SyncRecord(p)
    BY <2>2 DEF SyncRecord, evidence
  <2>3. CASE FinishAppend(p)
    <3>1. /\ Len(records) > 0 /\ records[Len(records)] = pend[p]
          /\ pend[p].event = "claim" =>
                pend[p].claim.id = Len(records) /\ pend[p].claim.key \notin Legacy
      BY <2>3 DEF FinishAppend, PendingIsLast, TailLabels
    <3>2. pend[p].event = "claim" => ActiveAt(records, pend[p].claim.id)
      BY <3>1 DEF ActiveAt
    <3> QED BY <2>3, <3>1, <3>2 DEF FinishAppend
  <2> QED BY <1>1, <2>1, <2>2, <2>3, StepFrame
<1>2. ASSUME NEW p \in Run, NEW o \in Op, NEW c \in receipts[p] \cup {NoClaim},
             Enter(p, o, c)
      PROVE  ReceiptsStayActive'
  BY <1>2 DEF Enter, files
<1>3. ASSUME NEW p \in Run, NEW c \in receipts[p], NEW parsed \in BOOLEAN,
             Transfer(p, c, parsed)
      PROVE  ReceiptsStayActive'
  BY <1>3 DEF Transfer, files
<1>4. ASSUME NEW p \in Run, Interrupt(p) PROVE ReceiptsStayActive'
  BY <1>4 DEF Interrupt, evidence
<1>5. ASSUME PowerCut PROVE ReceiptsStayActive'
  <2>1. PICK n \in synced..Len(records) : records' = SubSeq(records, 1, n)
    BY <1>5 DEF PowerCut
  <2>2. SUFFICES ASSUME NEW q \in Run, NEW c \in receipts[q], c \notin failures
                 PROVE  ActiveAt(SubSeq(records, 1, n), c.id)
    BY <1>5, <2>1 DEF PowerCut
  <2>3. n \in 0..Len(records) /\ synced \in Nat /\ synced <= n
    OBVIOUS
  <2>4. c.id \in 1..synced /\ ActiveAt(records, c.id)
    BY <2>2, ReceiptRecord
  <2>5. c.id \in 1..n
    BY <2>3, <2>4
  <2> QED BY <2>3, <2>4, <2>5, ActivePrefix
<1> QED BY <1>1, <1>2, <1>3, <1>4, <1>5 DEF Next

LEMMA TransferStep ==
    ASSUME IInv, Next
    PROVE  TransfersHaveReceipts'
<1> USE DEF IInv, TypeOK, TransfersHaveReceipts
<1>1. ASSUME NEW p \in Run, RegistryStep(p) PROVE TransfersHaveReceipts'
  <2>1. CASE WriteRecord(p) \/ SyncRecord(p)
    BY <2>1 DEF WriteRecord, SyncRecord, evidence
  <2>2. CASE FinishAppend(p)
    BY <2>2 DEF FinishAppend
  <2> QED BY <1>1, <2>1, <2>2, StepFrame
<1>2. ASSUME NEW p \in Run, NEW o \in Op, NEW c \in receipts[p] \cup {NoClaim},
             Enter(p, o, c)
      PROVE  TransfersHaveReceipts'
  BY <1>2 DEF Enter
<1>3. ASSUME NEW p \in Run, NEW c \in receipts[p], NEW parsed \in BOOLEAN,
             Transfer(p, c, parsed)
      PROVE  TransfersHaveReceipts'
  BY <1>3 DEF Transfer
<1>4. ASSUME NEW p \in Run, Interrupt(p) PROVE TransfersHaveReceipts'
  BY <1>4 DEF Interrupt, evidence
<1>5. ASSUME PowerCut PROVE TransfersHaveReceipts'
  BY <1>5 DEF PowerCut
<1> QED BY <1>1, <1>2, <1>3, <1>4, <1>5 DEF Next

-----------------------------------------------------------------------------
LEMMA IInvInit == Init => IInv
<1> SUFFICES ASSUME Init PROVE IInv
  OBVIOUS
<1>1. TypeOK
  <2>1. records \in Seq(Record) /\ Len(records) = 0
    BY DEF Init
  <2>2. /\ synced \in 0..Len(records) /\ head \in 0..MaxRecords
        /\ headSynced \in 0..MaxRecords /\ Len(records) <= MaxRecords
    BY <2>1 DEF Init
  <2>3. /\ pc \in [Run -> Label] /\ op \in [Run -> Op \cup {NoOp}]
        /\ arg \in [Run -> Claim \cup {NoClaim}]
        /\ seen \in [Run -> SUBSET Run]
        /\ pend \in [Run -> Record \cup {NoRecord}]
        /\ receipts \in [Run -> SUBSET Claim]
        /\ view \in [Run -> (SUBSET Claim) \cup {NoView}]
    BY DEF Init, Label
  <2> QED BY <2>1, <2>2, <2>3 DEF Init, TypeOK
<1>2. WriterExclusive /\ ReleasesJustified /\ PendingFits /\ PendingIsLast
  BY DEF Init, WriterExclusive, CriticalLabels, ReleasesJustified, NoOp,
         PendingFits, PendingIsLast, TailLabels
<1>3. ReceiptsAreDurable /\ ReceiptsStayActive /\ TransfersHaveReceipts
  BY DEF Init, ReceiptsAreDurable, ReceiptsStayActive, TransfersHaveReceipts
<1> QED BY <1>1, <1>2, <1>3 DEF IInv

LEMMA IInvStep == IInv /\ [Next]_vars => IInv'
<1>1. ASSUME IInv, Next PROVE IInv'
  BY <1>1, TypeStep, ExclusiveStep, JustifiedStep, PendingFitsStep,
     PendingIsLastStep, DurableStep, StayActiveStep, TransferStep DEF IInv
<1>2. ASSUME IInv, UNCHANGED vars PROVE IInv'
  BY <1>2 DEF vars, files, locks, call, evidence, IInv, TypeOK,
     WriterExclusive, ReleasesJustified, PendingFits, PendingIsLast, Consumed,
     ReceiptsAreDurable, ReceiptsStayActive, TransfersHaveReceipts
<1> QED BY <1>1, <1>2

LEMMA IInvAlways == Spec => []IInv
  BY IInvInit, IInvStep, PTL DEF Spec

\* Every variable of the registry keeps its type in every reachable state.
THEOREM RegistryTypes == Spec => []TypeOK
<1>1. IInv => TypeOK
  BY DEF IInv
<1> QED BY <1>1, IInvAlways, PTL

\* claim() before the transfer makes a second device session with the same
\* candidate impossible, for any number of runs, crashes and power cuts.
THEOREM RegistryNoReplay == Spec => []NoReplay
<1>1. IInv => NoReplay
  <2> SUFFICES ASSUME IInv PROVE NoReplay
    OBVIOUS
  <2>1. \A c \in sessions : c \in Active(records) /\ c.key \notin Legacy
    <3> SUFFICES ASSUME NEW c \in sessions
                 PROVE  c \in Active(records) /\ c.key \notin Legacy
      OBVIOUS
    <3>1. PICK p \in Run : c \in receipts[p]
      BY DEF IInv, TransfersHaveReceipts
    <3>2. /\ c.key \notin Legacy /\ ActiveAt(records, c.id)
          /\ c.id \in 1..Len(records) /\ records[c.id].claim = c
      BY <3>1, ReceiptRecord DEF IInv, TransfersHaveReceipts, ReceiptsStayActive
    <3> QED BY <3>2 DEF Active
  <2>2. records \in Seq(Record)
    BY DEF IInv, TypeOK
  <2> QED BY <2>1, <2>2, ActiveUnique DEF NoReplay
<1> QED BY <1>1, IInvAlways, PTL

\* A receipt that claim() returned names a record no power cut can remove.
THEOREM RegistryReceiptsDurable == Spec => []ReceiptsAreDurable
<1>1. IInv => ReceiptsAreDurable
  BY DEF IInv
<1> QED BY <1>1, IInvAlways, PTL
-----------------------------------------------------------------------------
(* The chain itself: what _append writes, _scan accepts, and the registry   *)
(* implements the ledger its callers rely on.                               *)

\* Appending a record keeps the prefixes a scan walks through.
LEMMA PrefixOfAppend ==
    ASSUME NEW rs \in Seq(Record), NEW r \in Record, NEW m \in 0..Len(rs)
    PROVE  SubSeq(Append(rs, r), 1, m) = SubSeq(rs, 1, m)
<1> DEFINE s == SubSeq(Append(rs, r), 1, m)
           t == SubSeq(rs, 1, m)
<1>1. Append(rs, r) \in Seq(Record) /\ Len(Append(rs, r)) = Len(rs) + 1
  OBVIOUS
<1>2. /\ s \in Seq(Record) /\ Len(s) = m
      /\ \A k \in 1..m : s[k] = Append(rs, r)[k]
  BY <1>1
<1>3. t \in Seq(Record) /\ Len(t) = m /\ \A k \in 1..m : t[k] = rs[k]
  OBVIOUS
<1>4. \A k \in 1..m : Append(rs, r)[k] = rs[k]
  OBVIOUS
<1>5. \A k \in 1..Len(s) : s[k] = t[k]
  BY <1>2, <1>3, <1>4
<1> HIDE DEF s, t
<1> QED BY <1>2, <1>3, <1>5, SeqEqual DEF s, t

\* A prefix has the prefixes of the chain it was cut from.
LEMMA PrefixOfPrefix ==
    ASSUME NEW rs \in Seq(Record), NEW n \in 0..Len(rs), NEW m \in 0..n
    PROVE  SubSeq(SubSeq(rs, 1, n), 1, m) = SubSeq(rs, 1, m)
<1> DEFINE u == SubSeq(rs, 1, n)
           s == SubSeq(u, 1, m)
           t == SubSeq(rs, 1, m)
<1>1. u \in Seq(Record) /\ Len(u) = n /\ \A k \in 1..n : u[k] = rs[k]
  OBVIOUS
<1>2. m \in 0..Len(rs)
  OBVIOUS
<1>3. t \in Seq(Record) /\ Len(t) = m /\ \A k \in 1..m : t[k] = rs[k]
  BY <1>2
<1> HIDE DEF u
<1>4. s \in Seq(Record) /\ Len(s) = m /\ \A k \in 1..m : s[k] = u[k]
  BY <1>1
<1>5. \A k \in 1..Len(s) : s[k] = t[k]
  BY <1>1, <1>3, <1>4
<1> HIDE DEF s, t
<1> QED BY <1>3, <1>4, <1>5, SeqEqual DEF s, t, u

\* A chain is the prefix of its own length.
LEMMA WholePrefix ==
    ASSUME NEW rs \in Seq(Record)
    PROVE  SubSeq(rs, 1, Len(rs)) = rs
<1> DEFINE t == SubSeq(rs, 1, Len(rs))
<1>1. t \in Seq(Record) /\ Len(t) = Len(rs) /\ \A k \in 1..Len(rs) : t[k] = rs[k]
  OBVIOUS
<1> HIDE DEF t
<1> QED BY <1>1, SeqEqual DEF t

\* A record that fits the end of an accepted chain leaves it accepted.
LEMMA ChainAppend ==
    ASSUME NEW rs \in Seq(Record), NEW r \in Record, ChainOK(rs),
           r.event = "claim" => /\ r.claim.id = Len(rs) + 1
                                /\ \A c \in Active(rs) : c.key # r.claim.key,
           r.event = "release" => r.claim \in Active(rs)
    PROVE  ChainOK(Append(rs, r))
<1> DEFINE s == Append(rs, r)
<1>1. /\ Len(s) = Len(rs) + 1 /\ Len(rs) \in Nat
      /\ \A k \in 1..Len(rs) : s[k] = rs[k]
      /\ s[Len(rs) + 1] = r
  OBVIOUS
<1>2. \A m \in 0..Len(rs) : SubSeq(s, 1, m) = SubSeq(rs, 1, m)
  BY PrefixOfAppend
<1>3. SubSeq(s, 1, Len(rs)) = rs
  BY <1>1, <1>2, WholePrefix
<1> HIDE DEF s
<1>4. SUFFICES ASSUME NEW i \in 1..Len(s) PROVE RecordFits(s, i)
  BY DEF ChainOK, s
<1>5. CASE i = Len(rs) + 1
  <2>1. SubSeq(s, 1, i - 1) = rs /\ s[i] = r
    BY <1>1, <1>3, <1>5
  <2>2. r.event \in {"claim", "release"}
    BY DEF Record
  <2> QED BY <1>5, <2>1, <2>2 DEF RecordFits
<1>6. CASE i # Len(rs) + 1
  <2>1. i \in 1..Len(rs) /\ i - 1 \in 0..Len(rs)
    BY <1>1, <1>6
  <2>2. SubSeq(s, 1, i - 1) = SubSeq(rs, 1, i - 1) /\ s[i] = rs[i]
    BY <1>1, <1>2, <2>1
  <2>3. RecordFits(rs, i)
    BY <2>1 DEF ChainOK
  <2> QED BY <2>2, <2>3 DEF RecordFits
<1> QED BY <1>5, <1>6

\* Every prefix of an accepted chain is accepted.
LEMMA ChainPrefix ==
    ASSUME NEW rs \in Seq(Record), NEW n \in 0..Len(rs), ChainOK(rs)
    PROVE  ChainOK(SubSeq(rs, 1, n))
<1> DEFINE s == SubSeq(rs, 1, n)
<1>1. Len(s) = n /\ Len(rs) \in Nat /\ \A k \in 1..n : s[k] = rs[k]
  OBVIOUS
<1>2. \A m \in 0..n : SubSeq(s, 1, m) = SubSeq(rs, 1, m)
  BY PrefixOfPrefix
<1> HIDE DEF s
<1>3. SUFFICES ASSUME NEW i \in 1..n PROVE RecordFits(s, i)
  BY <1>1 DEF ChainOK, s
<1>4. i \in 1..Len(rs) /\ i - 1 \in 0..n
  BY <1>1
<1>5. SubSeq(s, 1, i - 1) = SubSeq(rs, 1, i - 1) /\ s[i] = rs[i]
  BY <1>1, <1>2, <1>4
<1>6. RecordFits(rs, i)
  BY <1>4 DEF ChainOK
<1> QED BY <1>5, <1>6 DEF RecordFits

\* A claim of an accepted chain carries the number of its record.
LEMMA ClaimNumber ==
    ASSUME NEW rs \in Seq(Record), ChainOK(rs), NEW i \in 1..Len(rs),
           rs[i].event = "claim"
    PROVE  rs[i].claim.id = i
<1>1. RecordFits(rs, i)
  BY DEF ChainOK
<1> QED BY <1>1 DEF RecordFits

\* The record a process is about to write, in the words of ChainAppend.
LEMMA WrittenFits ==
    ASSUME IInv, NEW p \in Run, WriteRecord(p)
    PROVE  /\ records \in Seq(Record) /\ pend[p] \in Record
           /\ records' = Append(records, pend[p])
           /\ UNCHANGED <<synced, receipts, failures, sessions>>
           /\ pend[p].event \in {"claim", "release"}
           /\ pend[p].event = "claim" =>
                 /\ pend[p].claim.id = Len(records) + 1
                 /\ pend[p].claim.key \notin Legacy
                 /\ \A c \in Active(records) : c.key # pend[p].claim.key
           /\ pend[p].event = "release" =>
                 pend[p].claim \in Active(records) /\ pend[p].claim \in failures
<1>1. pend[p] \in Record
  BY DEF IInv, WriteRecord, PendingFits
<1>2. pend[p].event \in {"claim", "release"}
  BY <1>1 DEF Record
<1>3. records \in Seq(Record)
  BY DEF IInv, TypeOK
<1>4. /\ records' = Append(records, pend[p])
      /\ UNCHANGED <<synced, receipts, failures, sessions>>
  BY DEF WriteRecord, evidence
<1> QED BY <1>1, <1>2, <1>3, <1>4 DEF IInv, WriteRecord, PendingFits, Consumed, ActiveKeys

\* The records left by a power cut.
LEMMA CutPrefix ==
    ASSUME IInv, PowerCut
    PROVE  /\ records \in Seq(Record)
           /\ \E n \in 0..Len(records) :
                 synced \in Nat /\ synced <= n /\ records' = SubSeq(records, 1, n)
           /\ UNCHANGED <<receipts, failures, sessions>>
<1>1. records \in Seq(Record) /\ synced \in 0..Len(records)
  BY DEF IInv, TypeOK
<1>2. PICK n \in synced..Len(records) : records' = SubSeq(records, 1, n)
  BY DEF PowerCut
<1>3. n \in 0..Len(records) /\ synced \in Nat /\ synced <= n
  BY <1>1
<1> QED BY <1>1, <1>2, <1>3 DEF PowerCut

\* Only the write of a record and a power cut change the chain.
LEMMA ChainFrame ==
    ASSUME IInv, Next
    PROVE  \/ \E p \in Run : WriteRecord(p)
           \/ PowerCut
           \/ UNCHANGED records
<1>1. ASSUME NEW p \in Run, RegistryStep(p)
      PROVE  WriteRecord(p) \/ UNCHANGED records
  <2>1. CASE SyncRecord(p) \/ FinishAppend(p)
    BY <2>1 DEF SyncRecord, FinishAppend
  <2> QED BY <1>1, <2>1, StepFrame
<1>2. ASSUME NEW p \in Run, NEW o \in Op, NEW c \in receipts[p] \cup {NoClaim},
             Enter(p, o, c)
      PROVE  UNCHANGED records
  BY <1>2 DEF Enter, files
<1>3. ASSUME NEW p \in Run, NEW c \in receipts[p], NEW parsed \in BOOLEAN,
             Transfer(p, c, parsed)
      PROVE  UNCHANGED records
  BY <1>3 DEF Transfer, files
<1>4. ASSUME NEW p \in Run, Interrupt(p) PROVE UNCHANGED records
  BY <1>4 DEF Interrupt
<1> QED BY <1>1, <1>2, <1>3, <1>4 DEF Next

\* Failures are never taken back.
LEMMA FailuresGrow ==
    ASSUME Next
    PROVE  failures \subseteq failures'
<1>1. ASSUME NEW p \in Run, RegistryStep(p) PROVE failures' = failures
  <2>1. CASE WriteRecord(p) \/ SyncRecord(p) \/ FinishAppend(p)
    BY <2>1 DEF WriteRecord, SyncRecord, FinishAppend, evidence
  <2> QED BY <1>1, <2>1, StepFrame
<1>2. ASSUME NEW p \in Run, NEW o \in Op, NEW c \in receipts[p] \cup {NoClaim},
             Enter(p, o, c)
      PROVE  failures' = failures
  BY <1>2 DEF Enter
<1>3. ASSUME NEW p \in Run, NEW c \in receipts[p], NEW parsed \in BOOLEAN,
             Transfer(p, c, parsed)
      PROVE  failures \subseteq failures'
  BY <1>3 DEF Transfer
<1>4. ASSUME NEW p \in Run, Interrupt(p) PROVE failures' = failures
  BY <1>4 DEF Interrupt, evidence
<1>5. ASSUME PowerCut PROVE failures' = failures
  BY <1>5 DEF PowerCut
<1> QED BY <1>1, <1>2, <1>3, <1>4, <1>5 DEF Next

\* What is active after an append was active before, or is the new claim.
LEMMA ActiveOfAppend ==
    ASSUME NEW rs \in Seq(Record), NEW r \in Record,
           NEW c \in Active(Append(rs, r))
    PROVE  \/ r.event = "claim" /\ c = r.claim
           \/ c \in Active(rs) /\ c.key # r.claim.key
<1> DEFINE s == Append(rs, r)
<1>1. /\ Len(s) = Len(rs) + 1 /\ Len(rs) \in Nat
      /\ \A k \in 1..Len(rs) : s[k] = rs[k]
      /\ s[Len(rs) + 1] = r
  OBVIOUS
<1> HIDE DEF s
<1>2. PICK i \in 1..Len(s) : ActiveAt(s, i) /\ c = s[i].claim
  BY DEF Active, s
<1>3. CASE i = Len(rs) + 1
  BY <1>1, <1>2, <1>3 DEF ActiveAt
<1>4. CASE i # Len(rs) + 1
  <2>1. i \in 1..Len(rs) /\ Len(rs) + 1 \in (i + 1)..Len(s)
    BY <1>1, <1>4
  <2>2. s[i] = rs[i] /\ \A k \in (i + 1)..Len(rs) : s[k] = rs[k] /\ k \in (i + 1)..Len(s)
    BY <1>1, <2>1
  <2>3. ActiveAt(rs, i)
    BY <1>2, <2>2 DEF ActiveAt
  <2>4. c \in Active(rs)
    BY <1>2, <2>1, <2>2, <2>3 DEF Active
  <2>5. c.key # r.claim.key
    BY <1>1, <1>2, <2>1 DEF ActiveAt
  <2> QED BY <2>4, <2>5
<1> QED BY <1>3, <1>4

\* An active claim stays active under a record of another key.
LEMMA ActiveKept ==
    ASSUME NEW rs \in Seq(Record), NEW r \in Record, NEW c \in Active(rs),
           r.claim.key # c.key
    PROVE  c \in Active(Append(rs, r))
<1>1. PICK i \in 1..Len(rs) : ActiveAt(rs, i) /\ c = rs[i].claim
  BY DEF Active
<1>2. ActiveAt(Append(rs, r), i)
  BY <1>1, ActiveAppend
<1>3. Append(rs, r)[i] = rs[i] /\ i \in 1..Len(Append(rs, r))
  OBVIOUS
<1> QED BY <1>1, <1>2, <1>3 DEF Active

\* A claim record makes its claim active.
LEMMA ActiveLast ==
    ASSUME NEW rs \in Seq(Record), Len(rs) > 0, rs[Len(rs)].event = "claim"
    PROVE  rs[Len(rs)].claim \in Active(rs)
<1>1. Len(rs) \in Nat /\ Len(rs) \in 1..Len(rs)
  OBVIOUS
<1>2. ActiveAt(rs, Len(rs))
  BY <1>1 DEF ActiveAt
<1> QED BY <1>1, <1>2 DEF Active

\* Written as sets: what a claim and what a release do to the active claims.
LEMMA ActiveClaimed ==
    ASSUME NEW rs \in Seq(Record), NEW r \in Record, r.event = "claim",
           \A c \in Active(rs) : c.key # r.claim.key
    PROVE  Active(Append(rs, r)) = Active(rs) \cup {r.claim}
<1>1. r.claim \in Active(Append(rs, r))
  <2> DEFINE s == Append(rs, r)
  <2>1. s \in Seq(Record) /\ Len(s) > 0 /\ s[Len(s)] = r
    OBVIOUS
  <2> HIDE DEF s
  <2>2. r.claim \in Active(s)
    BY <2>1, ActiveLast
  <2> QED BY <2>2 DEF s
<1>2. \A c \in Active(rs) : c \in Active(Append(rs, r))
  BY ActiveKept
<1>3. \A c \in Active(Append(rs, r)) : c \in Active(rs) \cup {r.claim}
  BY ActiveOfAppend
<1> QED BY <1>1, <1>2, <1>3

LEMMA ActiveReleased ==
    ASSUME NEW rs \in Seq(Record), NEW r \in Record, r.event = "release",
           r.claim \in Active(rs)
    PROVE  Active(Append(rs, r)) = Active(rs) \ {r.claim}
<1>1. \A c \in Active(rs) : c # r.claim => c.key # r.claim.key
  BY ActiveUnique
<1>2. \A c \in Active(rs) : c # r.claim => c \in Active(Append(rs, r))
  BY <1>1, ActiveKept
<1>3. \A c \in Active(Append(rs, r)) : c \in Active(rs) /\ c # r.claim
  BY ActiveOfAppend
<1> QED BY <1>2, <1>3

LEMMA LInvStep ==
    ASSUME IInv, LInv, Next
    PROVE  LInv'
<1>1. CASE \E p \in Run : WriteRecord(p)
  <2>1. PICK p \in Run : WriteRecord(p)
    BY <1>1
  <2> DEFINE r == pend[p]
  <2>2. /\ records \in Seq(Record) /\ r \in Record
        /\ records' = Append(records, r) /\ failures' = failures
        /\ r.event \in {"claim", "release"}
        /\ r.event = "claim" =>
              /\ r.claim.id = Len(records) + 1
              /\ \A c \in Active(records) : c.key # r.claim.key
        /\ r.event = "release" =>
              r.claim \in Active(records) /\ r.claim \in failures
    BY <2>1, WrittenFits
  <2> HIDE DEF r
  <2>3. ChainOK(Append(records, r))
    BY <2>2, ChainAppend DEF LInv
  <2>4. /\ Len(Append(records, r)) = Len(records) + 1 /\ Len(records) \in Nat
        /\ \A k \in 1..Len(records) : Append(records, r)[k] = records[k]
        /\ Append(records, r)[Len(records) + 1] = r
    BY <2>2
  <2>5. ASSUME NEW i \in 1..Len(records), records[i].event = "claim",
               r.claim.key = records[i].claim.key
        PROVE  records[i].claim \in failures
    <3>1. CASE ActiveAt(records, i)
      <4>1. records[i].claim \in Active(records)
        BY <3>1 DEF Active
      <4> QED BY <2>2, <2>5, <4>1, ActiveUnique
    <3>2. CASE ~ActiveAt(records, i)
      <4>1. PICK k \in (i + 1)..Len(records) :
                records[k].claim.key = records[i].claim.key
        BY <2>5, <3>2 DEF ActiveAt
      <4>2. k \in 1..Len(records) /\ i < k
        BY <2>4
      <4> QED BY <2>5, <4>1, <4>2 DEF LInv, DisplacedFailed
    <3> QED BY <3>1, <3>2
  <2>6. DisplacedFailed'
    <3>1. SUFFICES ASSUME NEW i \in 1..(Len(records) + 1), NEW k \in 1..(Len(records) + 1),
                          i < k, Append(records, r)[i].event = "claim",
                          Append(records, r)[k].claim.key = Append(records, r)[i].claim.key
                   PROVE  Append(records, r)[i].claim \in failures
      BY <2>2, <2>4 DEF DisplacedFailed
    <3>2. i \in 1..Len(records)
      BY <2>4, <3>1
    <3>3. CASE k = Len(records) + 1
      BY <2>4, <2>5, <3>1, <3>2, <3>3
    <3>4. CASE k # Len(records) + 1
      <4>1. k \in 1..Len(records)
        BY <2>4, <3>4
      <4> QED BY <2>4, <3>1, <3>2, <4>1 DEF LInv, DisplacedFailed
    <3> QED BY <3>3, <3>4
  <2> QED BY <2>2, <2>3, <2>6 DEF LInv
<1>2. CASE PowerCut
  <2>1. records \in Seq(Record) /\ failures' = failures
    BY <1>2, CutPrefix
  <2>2. PICK n \in 0..Len(records) : records' = SubSeq(records, 1, n)
    BY <1>2, CutPrefix
  <2>3. ChainOK(records')
    BY <2>1, <2>2, ChainPrefix DEF LInv
  <2>4. /\ Len(SubSeq(records, 1, n)) = n /\ \A k \in 1..n : SubSeq(records, 1, n)[k] = records[k]
        /\ \A k \in 1..n : k \in 1..Len(records)
    BY <2>1
  <2>5. DisplacedFailed'
    BY <2>1, <2>2, <2>4 DEF LInv, DisplacedFailed
  <2> QED BY <2>3, <2>5 DEF LInv
<1>3. CASE UNCHANGED records
  BY <1>3, FailuresGrow DEF LInv, ChainOK, RecordFits, DisplacedFailed
<1> QED BY <1>1, <1>2, <1>3, ChainFrame

LEMMA LInvAlways == Spec => []LInv
<1>1. Init => LInv
  BY DEF Init, LInv, ChainOK, DisplacedFailed
<1>2. IInv /\ LInv /\ [Next]_vars => LInv'
  <2>1. ASSUME IInv, LInv, Next PROVE LInv'
    BY <2>1, LInvStep
  <2>2. ASSUME LInv, UNCHANGED vars PROVE LInv'
    BY <2>2 DEF vars, files, evidence, LInv, ChainOK, RecordFits, DisplacedFailed
  <2> QED BY <2>1, <2>2
<1> QED BY <1>1, <1>2, IInvAlways, PTL DEF Spec

\* Whatever claims, releases, repairs and power cuts came before, the chain of
\* records is one that _scan accepts: the registry never refuses itself.
THEOREM RegistryAppendsVerify == Spec => []AppendsVerify
<1>1. LInv => AppendsVerify
  BY DEF LInv, AppendsVerify
<1> QED BY <1>1, LInvAlways, PTL

\* Sessions are active claims: what NoReplay and every reader rest on.
LEMMA SessionsActive ==
    ASSUME IInv, NEW c \in sessions
    PROVE  c \in Active(records)
<1>1. PICK p \in Run : c \in receipts[p]
  BY DEF IInv, TransfersHaveReceipts
<1>2. /\ ActiveAt(records, c.id)
      /\ c.id \in 1..Len(records) /\ records[c.id].claim = c
  BY <1>1, ReceiptRecord DEF IInv, TransfersHaveReceipts, ReceiptsStayActive
<1> QED BY <1>2 DEF Active

\* A claim with a receipt lies in the prefix that a power cut leaves, so it is
\* active there whenever it was active.
LEMMA CutKeepsReceipts ==
    ASSUME IInv, PowerCut, NEW p \in Run, NEW c \in receipts[p], ActiveAt(records, c.id)
    PROVE  c \in Active(records')
<1>1. records \in Seq(Record)
  BY DEF IInv, TypeOK
<1>2. PICK n \in 0..Len(records) :
          synced \in Nat /\ synced <= n /\ records' = SubSeq(records, 1, n)
  BY CutPrefix
<1>3. c.id \in 1..synced /\ records[c.id].claim = c
  BY ReceiptRecord DEF IInv
<1>4. c.id \in 1..n /\ n \in Nat
  BY <1>2, <1>3
<1>5. ActiveAt(SubSeq(records, 1, n), c.id)
  BY <1>1, <1>4, ActivePrefix
<1>6. SubSeq(records, 1, n)[c.id] = records[c.id] /\ Len(SubSeq(records, 1, n)) = n
  BY <1>1, <1>4
<1> QED BY <1>2, <1>3, <1>4, <1>5, <1>6 DEF Active

\* release() of a claim, however often it is retried, and a power cut, whatever
\* it takes back, end a claim with a receipt only after its own transfer was a
\* local parse failure.
THEOREM RegistryOnlyParseFailureReleases == Spec => OnlyParseFailureReleases
<1> DEFINE Ends(c) == c \in failures \/ \A p \in Run : c \notin receipts[p]
<1>1. ASSUME IInv, Next, NEW c \in Active(records), c \notin Active(records')
      PROVE  Ends(c)
  <2>1. CASE \E p \in Run : WriteRecord(p)
    <3>1. PICK p \in Run : WriteRecord(p)
      BY <2>1
    <3>2. /\ records \in Seq(Record) /\ pend[p] \in Record
          /\ records' = Append(records, pend[p])
          /\ pend[p].event \in {"claim", "release"}
          /\ pend[p].event = "claim" =>
                \A d \in Active(records) : d.key # pend[p].claim.key
          /\ pend[p].event = "release" =>
                pend[p].claim \in Active(records) /\ pend[p].claim \in failures
      BY <1>1, <3>1, WrittenFits
    <3>3. pend[p].claim.key = c.key
      BY <1>1, <3>2, ActiveKept
    <3> QED BY <3>2, <3>3, ActiveUnique
  <2>2. CASE PowerCut
    <3>1. SUFFICES ASSUME NEW p \in Run, c \in receipts[p], c \notin failures
                   PROVE  FALSE
      OBVIOUS
    <3>2. ActiveAt(records, c.id)
      BY <1>1, <3>1 DEF IInv, ReceiptsStayActive
    <3> QED BY <1>1, <2>2, <3>1, <3>2, CutKeepsReceipts
  <2> QED BY <1>1, <2>1, <2>2, ChainFrame
<1>2. IInv /\ [Next]_vars => [\A c \in Active(records) \ Active(records') : Ends(c)]_vars
  BY <1>1
<1> QED BY <1>2, IInvAlways, PTL DEF Spec, OnlyParseFailureReleases

\* A read that succeeds (validate, history, active_claim) reports every candidate
\* that may have reached the device.
THEOREM RegistryReadsReportSessions == Spec => ReadsReportSessions
<1>1. ASSUME IInv, Next, NEW q \in Run, view'[q] \notin {view[q], NoView}
      PROVE  sessions \subseteq view'[q]
  <2> USE DEF Leave, Goto, Unlock, Forget, files, locks, call, evidence
  <2>0. view \in [Run -> (SUBSET Claim) \cup {NoView}]
    BY <1>1 DEF IInv, TypeOK
  <2>1. ASSUME NEW p \in Run, RegistryStep(p), ~Read(p) PROVE view' = view
    BY <2>1 DEF RegistryStep, InitializeBegin, InitializeEnd,
         CheckLayout, RefuseLayout, AcquireWriter, AcquireReader,
         CleanStaging, ScanClean, ScanRepair, RepairReplace, RepairSync,
         ScanRefuse, Preflight, RefuseAppend, ReleaseAgain, ClaimCandidate,
         ReleaseClaim, CreateRecord, WriteRecord, SyncRecord, StageHead,
         ReplaceHead, FinishAppend
  <2>2. ASSUME NEW p \in Run, NEW o \in Op, NEW c \in receipts[p] \cup {NoClaim},
               Enter(p, o, c)
        PROVE  FALSE
    BY <1>1, <2>0, <2>2 DEF Enter
  <2>3. ASSUME NEW p \in Run, NEW c \in receipts[p], NEW parsed \in BOOLEAN,
               Transfer(p, c, parsed)
        PROVE  view' = view
    BY <2>3 DEF Transfer
  <2>4. ASSUME NEW p \in Run, Interrupt(p) PROVE view' = view
    BY <2>4 DEF Interrupt
  <2>5. ASSUME PowerCut PROVE FALSE
    BY <1>1, <2>5 DEF PowerCut
  <2>6. PICK p \in Run : Read(p)
    BY <1>1, <2>1, <2>2, <2>3, <2>4, <2>5 DEF Next
  <2>7. view'[q] = Active(records)
    BY <1>1, <2>0, <2>6 DEF Read
  <2> QED BY <1>1, <2>7, SessionsActive
<1>2. IInv /\ [Next]_vars =>
        [\A p \in Run : view'[p] \notin {view[p], NoView} => sessions \subseteq view'[p]]_vars
  BY <1>1
<1> QED BY <1>2, IInvAlways, PTL DEF Spec, ReadsReportSessions

-----------------------------------------------------------------------------
(* The refinement: a claim takes effect with the write of its record and is *)
(* granted with the return of the call; a power cut is a lapse.             *)

Granted == UNION { receipts[p] : p \in Run }

LEMMA GrantedSame ==
    ASSUME receipts' = receipts PROVE Granted' = Granted
  BY DEF Granted

LEMMA WriteRefines ==
    ASSUME IInv, NEW p \in Run, WriteRecord(p)
    PROVE  Ledger!Next
<1> DEFINE r == pend[p]
<1>1. /\ records \in Seq(Record) /\ r \in Record
      /\ records' = Append(records, r)
      /\ UNCHANGED <<receipts, failures, sessions>>
      /\ r.event \in {"claim", "release"}
      /\ r.event = "claim" =>
            /\ r.claim.id = Len(records) + 1
            /\ r.claim.key \notin Legacy
            /\ \A c \in Active(records) : c.key # r.claim.key
      /\ r.event = "release" =>
            r.claim \in Active(records) /\ r.claim \in failures
  BY WrittenFits
<1> HIDE DEF r
<1>2. r.claim \in Claim /\ Active(records) \subseteq Claim
  BY <1>1, ActiveIsClaim DEF Record
<1>3. Granted' = Granted
  BY <1>1, GrantedSame
<1>4. CASE r.event = "claim"
  <2>1. r.claim \notin Granted
    <3>1. SUFFICES ASSUME NEW q \in Run, r.claim \in receipts[q] PROVE FALSE
      BY DEF Granted
    <3>2. r.claim.id \in 1..Len(records)
      BY <3>1, ReceiptRecord DEF IInv
    <3> QED BY <1>1, <1>4, <3>2
  <2>2. Active(records') = Active(records) \cup {r.claim}
    BY <1>1, <1>4, ActiveClaimed
  <2>3. Ledger!Append(r.claim)
    BY <1>1, <1>2, <1>3, <1>4, <2>1, <2>2 DEF Ledger!Append, Granted
  <2> QED BY <1>2, <2>3 DEF Ledger!Next
<1>5. CASE r.event = "release"
  <2>1. Active(records') = Active(records) \ {r.claim}
    BY <1>1, <1>5, ActiveReleased
  <2>2. Ledger!Release(r.claim)
    BY <1>1, <1>3, <1>5, <2>1 DEF Ledger!Release, Granted
  <2> QED BY <1>2, <2>2 DEF Ledger!Next
<1> QED BY <1>1, <1>4, <1>5

LEMMA FinishRefines ==
    ASSUME IInv, NEW p \in Run, FinishAppend(p)
    PROVE  Ledger!Next \/ UNCHANGED Ledger!vars
<1>1. /\ Len(records) > 0 /\ records[Len(records)] = pend[p]
      /\ records \in Seq(Record) /\ receipts \in [Run -> SUBSET Claim]
  BY DEF IInv, TypeOK, FinishAppend, PendingIsLast, TailLabels
<1>2. UNCHANGED <<records, failures, sessions>>
  BY DEF FinishAppend
<1>3. CASE pend[p].event = "claim"
  <2>0. PICK c : c = pend[p].claim
    OBVIOUS
  <2>1. c \in Active(records)
    BY <1>1, <1>3, <2>0, ActiveLast
  <2>2. c \in Claim
    BY <1>1, <2>1, ActiveIsClaim
  <2>3. receipts' = [receipts EXCEPT ![p] = @ \cup {c}]
    BY <1>3, <2>0 DEF FinishAppend
  <2>4. Granted' = Granted \cup {c}
    <3>1. receipts'[p] = receipts[p] \cup {c} /\ \A q \in Run \ {p} : receipts'[q] = receipts[q]
      BY <1>1, <2>3
    <3> QED BY <3>1 DEF Granted
  <2>5. Ledger!Grant(c)
    BY <1>2, <2>1, <2>4 DEF Ledger!Grant, Granted
  <2> QED BY <2>2, <2>5 DEF Ledger!Next
<1>4. CASE pend[p].event # "claim"
  <2>1. Granted' = Granted
    BY <1>4, GrantedSame DEF FinishAppend
  <2> QED BY <1>2, <2>1 DEF Ledger!vars, Granted
<1> QED BY <1>3, <1>4

LEMMA CutRefines ==
    ASSUME IInv, LInv, PowerCut
    PROVE  Ledger!Next
<1>1. /\ records \in Seq(Record)
      /\ UNCHANGED <<receipts, failures, sessions>>
  BY CutPrefix
<1>2. PICK n \in 0..Len(records) : records' = SubSeq(records, 1, n)
  BY CutPrefix
<1>3. /\ records' \in Seq(Record) /\ Len(records') = n
      /\ \A k \in 1..n : records'[k] = records[k]
  BY <1>1, <1>2
<1>4. Active(records') \subseteq Active(records) \cup failures
  <2>1. SUFFICES ASSUME NEW c \in Active(records'), c \notin failures
                 PROVE  c \in Active(records)
    OBVIOUS
  <2>2. PICK i \in 1..n : ActiveAt(records', i) /\ c = records'[i].claim
    BY <1>3 DEF Active
  <2>3. i \in 1..Len(records) /\ c = records[i].claim /\ records[i].event = "claim"
    BY <1>1, <1>3, <2>2 DEF ActiveAt
  <2>4. \A k \in (i + 1)..Len(records) : k \in 1..Len(records) /\ i < k
    BY <1>1
  <2>5. ActiveAt(records, i)
    BY <2>1, <2>3, <2>4 DEF LInv, DisplacedFailed, ActiveAt
  <2> QED BY <2>3, <2>5 DEF Active
<1>5. Active(records) \cap Granted \subseteq Active(records')
  <2>1. SUFFICES ASSUME NEW c \in Active(records), NEW p \in Run, c \in receipts[p]
                 PROVE  c \in Active(records')
    BY DEF Granted
  <2>2. PICK i \in 1..Len(records) : ActiveAt(records, i) /\ c = records[i].claim
    BY DEF Active
  <2>3. c.id = i
    BY <1>1, <2>2, ClaimNumber DEF LInv, ActiveAt
  <2> QED BY <2>1, <2>2, <2>3, CutKeepsReceipts
<1>6. Active(records') \subseteq Claim
  BY <1>3, ActiveIsClaim
<1>7. \A c, d \in Active(records') : c.key = d.key => c = d
  BY <1>3, ActiveUnique
<1>8. Granted' = Granted
  BY <1>1, GrantedSame
<1>9. Ledger!Lapse
  BY <1>1, <1>4, <1>5, <1>6, <1>7, <1>8 DEF Ledger!Lapse, Granted
<1> QED BY <1>9 DEF Ledger!Next

LEMMA TransferRefines ==
    ASSUME IInv, NEW p \in Run, NEW c \in receipts[p], NEW parsed \in BOOLEAN,
           Transfer(p, c, parsed)
    PROVE  Ledger!Next
<1>1. c \in Claim /\ c \in Granted /\ c \notin failures \cup sessions
  BY DEF IInv, TypeOK, Transfer, Granted
<1>2. UNCHANGED <<records, receipts>>
  BY DEF Transfer, files
<1>3. Granted' = Granted
  BY <1>2, GrantedSame
<1>4. \/ failures' = failures \cup {c} /\ sessions' = sessions
      \/ sessions' = sessions \cup {c} /\ failures' = failures
  BY DEF Transfer
<1>5. Ledger!Transfer(c)
  BY <1>1, <1>2, <1>3, <1>4 DEF Ledger!Transfer, Granted
<1> QED BY <1>1, <1>5 DEF Ledger!Next

LEMMA LedgerFrame ==
    ASSUME UNCHANGED <<records, receipts, failures, sessions>>
    PROVE  UNCHANGED Ledger!vars
<1>1. Granted' = Granted
  BY GrantedSame
<1> QED BY <1>1 DEF Ledger!vars, Granted

\* File by file, crash by crash, the registry is the plain ledger: at most one
\* claim of a key in force, granted claims kept until their own parse failure.
THEOREM RegistryImplementsLedger == Spec => ImplementsLedger
<1>1. Init => Ledger!Init
  <2> SUFFICES ASSUME Init PROVE Ledger!Init
    OBVIOUS
  <2>1. Active(records) = {}
    BY DEF Init, Active
  <2>2. Granted = {}
    BY DEF Init, Granted
  <2> QED BY <2>1, <2>2 DEF Init, Ledger!Init, Granted
<1>2. IInv /\ LInv /\ [Next]_vars => [Ledger!Next]_(Ledger!vars)
  <2>1. ASSUME IInv, LInv, Next
        PROVE  Ledger!Next \/ UNCHANGED Ledger!vars
    <3>1. ASSUME NEW p \in Run, RegistryStep(p)
          PROVE  Ledger!Next \/ UNCHANGED Ledger!vars
      <4>1. CASE WriteRecord(p)
        BY <2>1, <4>1, WriteRefines
      <4>2. CASE SyncRecord(p)
        BY <4>2, LedgerFrame DEF SyncRecord, evidence
      <4>3. CASE FinishAppend(p)
        BY <2>1, <4>3, FinishRefines
      <4> QED BY <3>1, <4>1, <4>2, <4>3, StepFrame, LedgerFrame
    <3>2. ASSUME NEW p \in Run, NEW o \in Op, NEW c \in receipts[p] \cup {NoClaim},
                 Enter(p, o, c)
          PROVE  UNCHANGED Ledger!vars
      BY <3>2, LedgerFrame DEF Enter, files
    <3>3. ASSUME NEW p \in Run, NEW c \in receipts[p], NEW parsed \in BOOLEAN,
                 Transfer(p, c, parsed)
          PROVE  Ledger!Next
      BY <2>1, <3>3, TransferRefines
    <3>4. ASSUME NEW p \in Run, Interrupt(p) PROVE UNCHANGED Ledger!vars
      BY <3>4, LedgerFrame DEF Interrupt, evidence
    <3>5. ASSUME PowerCut PROVE Ledger!Next
      BY <2>1, <3>5, CutRefines
    <3> QED BY <2>1, <3>1, <3>2, <3>3, <3>4, <3>5 DEF Next
  <2>2. ASSUME UNCHANGED vars PROVE UNCHANGED Ledger!vars
    BY <2>2, LedgerFrame DEF vars, files, evidence
  <2> QED BY <2>1, <2>2
<1> QED BY <1>1, <1>2, IInvAlways, LInvAlways, PTL
       DEF Spec, ImplementsLedger, Ledger!Spec
=============================================================================
