------------------------- MODULE CandidateRegistry -------------------------
(***************************************************************************)
(* The global no-replay registry of consumed F1 candidates                 *)
(* (consumed_candidate_registry_v1.py): an append-only chain of claim and  *)
(* release records, a replaceable head that vouches for a prefix of it,    *)
(* and a flock that admits one writer or several readers.                  *)
(*                                                                         *)
(* Every system call that another process, a crash or a power cut can fall *)
(* between is a step.  A record is [event, claim]; a claim is the pair of  *)
(* candidate key and run identity together with the sequence number at     *)
(* which it was appended, which is what _claim_id hashes.  The hash chain  *)
(* is abstracted to the order of the sequence, so the head is the number   *)
(* of records it vouches for.                                              *)
(***************************************************************************)
EXTENDS Integers, Sequences, FiniteSets

CONSTANTS
    Run,         \* host processes, each the process of one prepared run
    Cand,        \* candidate keys (target and AP digest)
    CandOf,      \* the candidate each run's manifest names
    Legacy,      \* candidates on the activation deny list
    MaxRecords,  \* MAX_RECORDS
    None         \* no process holds the writer lease

ASSUME RegistryAssumption ==
    /\ CandOf \in [Run -> Cand]
    /\ Legacy \subseteq Cand
    /\ MaxRecords \in Nat \ {0}
    /\ None \notin Run

VARIABLES
    layout,      \* the registry directory: absent, partial, ready, or after
                 \* a power cut damaged: a record does not parse any more
    records,     \* complete record files, in sequence order
    torn,        \* a record file after them that no scan can parse
    synced,      \* how many record files have a durable directory entry
    loose,       \* one of those files holds bytes that nobody fsynced
    head,        \* record_count of head.json
    headSynced,  \* record_count of the head.json that survives a power cut
    temps,       \* processes whose .head.json.next file exists
    xlock,       \* holder of LOCK_EX on writer.lock
    slock,       \* holders of LOCK_SH on writer.lock
    pc,          \* where each process is inside a registry call
    op,          \* the call each process is in
    arg,         \* the claim a release call presents
    seen,        \* staging files in the first directory listing of a call
    pend,        \* the record a process is appending
    cleared,     \* runs whose preflight_candidate returned
    receipts,    \* claims each run holds the receipt of
    view,        \* what the read each process finished last reported
    failures,    \* claims whose transfer was an odin_local_parse_failure
    sessions     \* claims whose transfer may have opened a device session

files == <<layout, records, torn, synced, loose, head, headSynced, temps>>
locks == <<xlock, slock>>
call  == <<op, arg, seen, pend>>
evidence == <<cleared, receipts, view, failures, sessions>>
vars  == <<files, locks, pc, call, evidence>>

Claim  == [key : Cand, run : Run, id : 1..MaxRecords]
Record == [event : {"claim", "release"}, claim : Claim]
Op     == {"preflight", "claim", "release", "read"}
NoOp   == "none"
Label  == {"idle", "initializing", "listed", "waiting", "reading", "locked",
           "scan", "repair_staged", "repair_replaced", "decide",
           "record_created", "record_written", "record_synced",
           "head_staged", "head_replaced"}
NoClaim  == [key |-> None, run |-> None, id |-> 0]
NoView   == {NoClaim}
NoRecord == [event |-> "none", claim |-> NoClaim]

\* Claims that _claims() and _scan() leave in their "active" dictionary: a
\* later record of the same candidate key replaces or removes the entry.
ActiveAt(rs, i) ==
    /\ rs[i].event = "claim"
    /\ \A k \in (i + 1)..Len(rs) : rs[k].claim.key # rs[i].claim.key

Active(rs) == { rs[i].claim : i \in { j \in 1..Len(rs) : ActiveAt(rs, j) } }

ActiveKeys(rs) == { c.key : c \in Active(rs) }

\* The order rules _scan() enforces on record i given the records before it.
RecordFits(rs, i) ==
    LET before == Active(SubSeq(rs, 1, i - 1))
    IN  \/ /\ rs[i].event = "claim"
           /\ rs[i].claim.id = i
           /\ \A c \in before : c.key # rs[i].claim.key
        \/ /\ rs[i].event = "release"
           /\ rs[i].claim \in before

ChainOK(rs) == \A i \in 1..Len(rs) : RecordFits(rs, i)

\* A scan reaches the comparison with the head only over a readable chain.
Readable == layout # "damaged" /\ ~torn /\ ChainOK(records) /\ head <= Len(records)

Init ==
    /\ layout = "absent"
    /\ records = << >> /\ torn = FALSE /\ synced = 0 /\ loose = FALSE
    /\ head = 0 /\ headSynced = 0 /\ temps = {}
    /\ xlock = None /\ slock = {}
    /\ pc = [p \in Run |-> "idle"]
    /\ op = [p \in Run |-> NoOp]
    /\ arg = [p \in Run |-> NoClaim]
    /\ seen = [p \in Run |-> {}]
    /\ pend = [p \in Run |-> NoRecord]
    /\ cleared = {}
    /\ receipts = [p \in Run |-> {}]
    /\ view = [p \in Run |-> NoView]
    /\ failures = {} /\ sessions = {}

Goto(p, label) == pc' = [pc EXCEPT ![p] = label]

Unlock(p) ==
    /\ xlock' = IF xlock = p THEN None ELSE xlock
    /\ slock' = slock \ {p}

Forget(p) ==
    /\ op' = [op EXCEPT ![p] = NoOp]
    /\ arg' = [arg EXCEPT ![p] = NoClaim]
    /\ seen' = [seen EXCEPT ![p] = {}]
    /\ pend' = [pend EXCEPT ![p] = NoRecord]

\* A call leaves through an exception or a return: the descriptor is closed
\* and the locals are gone.
Leave(p) == Goto(p, "idle") /\ Unlock(p) /\ Forget(p)

----------------------------------------------------------------------------
(* initialize(): mkdir is the exclusive step, activation.json the last.     *)

InitializeBegin(p) ==
    /\ pc[p] = "idle" /\ layout = "absent"
    /\ layout' = "partial"
    /\ Goto(p, "initializing")
    /\ UNCHANGED <<records, torn, synced, loose, head, headSynced, temps, locks,
                   call, evidence>>

InitializeEnd(p) ==
    /\ pc[p] = "initializing"
    /\ layout' = "ready"
    /\ Goto(p, "idle")
    /\ UNCHANGED <<records, torn, synced, loose, head, headSynced, temps, locks,
                   call, evidence>>

----------------------------------------------------------------------------
(* Entering a call: _validate_layout lists the directory, lists the staging *)
(* files again, and the flock follows.                                      *)

MayCall(p, o, c) ==
    CASE o = "preflight" -> c = NoClaim
      [] o = "claim"     -> p \in cleared /\ c = NoClaim
      [] o = "release"   -> c \in receipts[p] \cap failures
      [] o = "read"      -> c = NoClaim

Enter(p, o, c) ==
    /\ pc[p] = "idle" /\ layout \in {"ready", "damaged"}
    /\ MayCall(p, o, c)
    /\ op' = [op EXCEPT ![p] = o]
    /\ arg' = [arg EXCEPT ![p] = c]
    /\ seen' = [seen EXCEPT ![p] = temps]
    /\ view' = [view EXCEPT ![p] = NoView]
    /\ Goto(p, "listed")
    /\ UNCHANGED <<files, locks, pend, cleared, receipts, failures, sessions>>

\* A staging file listed first and gone from the second listing is an
\* unexpected child; readers refuse any staging file before they lock.
LayoutHolds(p) ==
    /\ seen[p] \subseteq temps
    /\ Cardinality(temps) <= 1
    /\ op[p] = "read" => temps = {}

CheckLayout(p) ==
    /\ pc[p] = "listed"
    /\ LayoutHolds(p)
    /\ seen' = [seen EXCEPT ![p] = {}]
    /\ Goto(p, "waiting")
    /\ UNCHANGED <<files, locks, op, arg, pend, evidence>>

RefuseLayout(p) ==
    /\ pc[p] = "listed"
    /\ ~LayoutHolds(p)
    /\ Leave(p)
    /\ UNCHANGED <<files, evidence>>

AcquireWriter(p) ==
    /\ pc[p] = "waiting" /\ op[p] # "read"
    /\ xlock = None /\ slock = {}
    /\ xlock' = p
    /\ Goto(p, "locked")
    /\ UNCHANGED <<files, slock, call, evidence>>

AcquireReader(p) ==
    /\ pc[p] = "waiting" /\ op[p] = "read"
    /\ xlock = None
    /\ slock' = slock \cup {p}
    /\ Goto(p, "reading")
    /\ UNCHANGED <<files, xlock, call, evidence>>

\* Mutant of Read: a key that was ever released is reported free for good.
ReadForgettingReclaims(p) ==
    /\ pc[p] = "reading"
    /\ IF Readable /\ head = Len(records)
       THEN view' = [view EXCEPT ![p] =
                { c \in Active(records) :
                    \A i \in 1..Len(records) : records[i].event = "release"
                                     => records[i].claim.key # c.key }]
       ELSE UNCHANGED view
    /\ Leave(p)
    /\ UNCHANGED <<files, cleared, receipts, failures, sessions>>

\* validate(), history() and active_claim(): a scan that may not repair.
Read(p) ==
    /\ pc[p] = "reading"
    /\ IF Readable /\ head = Len(records)
       THEN view' = [view EXCEPT ![p] = Active(records)]
       ELSE UNCHANGED view
    /\ Leave(p)
    /\ UNCHANGED <<files, cleared, receipts, failures, sessions>>

----------------------------------------------------------------------------
(* The writer prologue: drop a stale staging file, scan, repair the tail.   *)

CleanStaging(p) ==
    /\ pc[p] = "locked"
    /\ temps' = {}
    /\ Goto(p, "scan")
    /\ UNCHANGED <<layout, records, torn, synced, loose, head, headSynced, locks,
                   call, evidence>>

ScanClean(p) ==
    /\ pc[p] = "scan"
    /\ Readable /\ head = Len(records)
    /\ Goto(p, "decide")
    /\ UNCHANGED <<files, locks, call, evidence>>

\* Staging fsyncs the registry directory, so an earlier rename is durable.
ScanRepair(p) ==
    /\ pc[p] = "scan"
    /\ Readable /\ Len(records) = head + 1
    /\ temps' = temps \cup {p} /\ headSynced' = head
    /\ Goto(p, "repair_staged")
    /\ UNCHANGED <<layout, records, torn, synced, loose, head, locks, call,
                   evidence>>

RepairReplace(p) ==
    /\ pc[p] = "repair_staged"
    /\ head' = Len(records) /\ temps' = temps \ {p}
    /\ Goto(p, "repair_replaced")
    /\ UNCHANGED <<layout, records, torn, synced, loose, headSynced, locks, call,
                   evidence>>

RepairSync(p) ==
    /\ pc[p] = "repair_replaced"
    /\ headSynced' = head
    /\ Goto(p, "decide")
    /\ UNCHANGED <<layout, records, torn, synced, loose, head, temps, locks, call,
                   evidence>>

\* Mutant of ScanRefuse: the exception path keeps the descriptor and its flock.
ScanRefuseHoldingLock(p) ==
    /\ pc[p] = "scan"
    /\ ~(Readable /\ Len(records) \in {head, head + 1})
    /\ Goto(p, "idle") /\ Forget(p)
    /\ UNCHANGED <<files, locks, evidence>>

ScanRefuse(p) ==
    /\ pc[p] = "scan"
    /\ ~(Readable /\ Len(records) \in {head, head + 1})
    /\ Leave(p)
    /\ UNCHANGED <<files, evidence>>

----------------------------------------------------------------------------
(* What each writer call decides over the scanned chain.                    *)

\* Keys claim() and preflight_candidate() refuse with DuplicateCandidateClaim.
Consumed == Legacy \cup ActiveKeys(records)

Preflight(p) ==
    /\ pc[p] = "decide" /\ op[p] = "preflight"
    /\ cleared' = IF CandOf[p] \in Consumed THEN cleared ELSE cleared \cup {p}
    /\ Leave(p)
    /\ UNCHANGED <<files, receipts, view, failures, sessions>>

\* Mutant of CreateRecord: the bound admits one record too many.
CreateRecordPastBound(p, r) ==
    /\ Len(records) <= MaxRecords
    /\ pend' = [pend EXCEPT ![p] = r]
    /\ torn' = TRUE
    /\ Goto(p, "record_created")
    /\ UNCHANGED <<layout, records, synced, loose, head, headSynced, temps, locks,
                   op, arg, seen, evidence>>

\* O_CREAT|O_EXCL: from here until the data is written the file is unreadable.
CreateRecord(p, r) ==
    /\ Len(records) < MaxRecords
    /\ pend' = [pend EXCEPT ![p] = r]
    /\ torn' = TRUE
    /\ Goto(p, "record_created")
    /\ UNCHANGED <<layout, records, synced, loose, head, headSynced, temps, locks,
                   op, arg, seen, evidence>>

\* Mutant of ClaimCandidate: trusts the preflight and does not look again.
ClaimOnPreflight(p) ==
    /\ pc[p] = "decide" /\ op[p] = "claim"
    /\ CreateRecord(p, [event |-> "claim",
                        claim |-> [key |-> CandOf[p], run |-> p,
                                   id |-> Len(records) + 1]])

ClaimCandidate(p) ==
    /\ pc[p] = "decide" /\ op[p] = "claim"
    /\ CandOf[p] \notin Consumed
    /\ CreateRecord(p, [event |-> "claim",
                        claim |-> [key |-> CandOf[p], run |-> p,
                                   id |-> Len(records) + 1]])

\* Mutant of ReleaseClaim: a retried release is appended again.
ReleaseUnchecked(p) ==
    /\ pc[p] = "decide" /\ op[p] = "release"
    /\ CreateRecord(p, [event |-> "release", claim |-> arg[p]])

\* Mutant of ReleaseClaim: releases whatever claim of the key is active.
ReleaseByKey(p) ==
    /\ pc[p] = "decide" /\ op[p] = "release"
    /\ \E c \in Active(records) :
         /\ c.key = arg[p].key
         /\ CreateRecord(p, [event |-> "release", claim |-> c])

ReleaseClaim(p) ==
    /\ pc[p] = "decide" /\ op[p] = "release"
    /\ arg[p] \in Active(records)
    /\ CreateRecord(p, [event |-> "release", claim |-> arg[p]])

\* release() of a claim that is no longer active returns the recorded release.
ReleaseAgain(p) ==
    /\ pc[p] = "decide" /\ op[p] = "release"
    /\ arg[p] \notin Active(records)
    /\ Leave(p)
    /\ UNCHANGED <<files, evidence>>

\* DuplicateCandidateClaim, or the record bound.
RefuseAppend(p) ==
    /\ pc[p] = "decide"
    /\ \/ op[p] = "claim" /\ CandOf[p] \in Consumed
       \/ op[p] = "claim" /\ Len(records) >= MaxRecords
       \/ op[p] = "release" /\ arg[p] \in Active(records)
                             /\ Len(records) >= MaxRecords
    /\ Leave(p)
    /\ UNCHANGED <<files, evidence>>

----------------------------------------------------------------------------
(* _append: record data, record directory entry, staged head, head, return. *)

\* Mutant of WriteRecord: the receipt is handed out before any fsync.
WriteRecordAndReturn(p) ==
    /\ pc[p] = "record_created"
    /\ records' = Append(records, pend[p]) /\ torn' = FALSE
    /\ receipts' = IF pend[p].event = "claim"
                   THEN [receipts EXCEPT ![p] = @ \cup {pend[p].claim}]
                   ELSE receipts
    /\ Goto(p, "record_written")
    /\ UNCHANGED <<layout, synced, loose, head, headSynced, temps, locks, call,
                   cleared, view, failures, sessions>>

WriteRecord(p) ==
    /\ pc[p] = "record_created"
    /\ records' = Append(records, pend[p]) /\ torn' = FALSE
    /\ Goto(p, "record_written")
    /\ UNCHANGED <<layout, synced, loose, head, headSynced, temps, locks, call,
                   evidence>>

\* fsync of the new file and of the record directory: every directory entry
\* is durable then, but of an earlier record that a scan adopted unsynced only
\* the entry, not the bytes.
SyncRecord(p) ==
    /\ pc[p] = "record_written"
    /\ synced' = Len(records) /\ loose' = (loose \/ synced + 1 < Len(records))
    /\ Goto(p, "record_synced")
    /\ UNCHANGED <<layout, records, torn, head, headSynced, temps, locks, call,
                   evidence>>

StageHead(p) ==
    /\ pc[p] = "record_synced"
    /\ temps' = temps \cup {p} /\ headSynced' = head
    /\ Goto(p, "head_staged")
    /\ UNCHANGED <<layout, records, torn, synced, loose, head, locks, call,
                   evidence>>

ReplaceHead(p) ==
    /\ pc[p] = "head_staged"
    /\ head' = Len(records) /\ temps' = temps \ {p}
    /\ Goto(p, "head_replaced")
    /\ UNCHANGED <<layout, records, torn, synced, loose, headSynced, locks, call,
                   evidence>>

\* Directory fsyncs, the closing rescan, the unlock and the return.
FinishAppend(p) ==
    /\ pc[p] = "head_replaced"
    /\ headSynced' = head /\ synced' = Len(records)
    /\ receipts' = IF pend[p].event = "claim"
                   THEN [receipts EXCEPT ![p] = @ \cup {pend[p].claim}]
                   ELSE receipts
    /\ Leave(p)
    /\ UNCHANGED <<layout, records, torn, loose, head, temps, cleared, view,
                   failures, sessions>>

----------------------------------------------------------------------------
(* The caller: the candidate backend transfer that a receipt admits.        *)

Transfer(p, c, parsed) ==
    /\ pc[p] = "idle"
    /\ c \in receipts[p] /\ c \notin failures \cup sessions
    /\ IF parsed THEN sessions' = sessions \cup {c} /\ failures' = failures
                 ELSE failures' = failures \cup {c} /\ sessions' = sessions
    /\ UNCHANGED <<files, locks, pc, call, cleared, receipts, view>>

----------------------------------------------------------------------------
(* Interruptions.                                                           *)

\* The process dies or an OSError unwinds it: the kernel drops its flock, the
\* files stay as they are; a failed replace may have unlinked its own staging.
Interrupt(p) ==
    /\ pc[p] # "idle"
    /\ temps' \in {temps, temps \ {p}}
    /\ Leave(p)
    /\ UNCHANGED <<layout, records, torn, synced, loose, head, headSynced,
                   evidence>>

\* The host loses power: directory entries and renames that were never
\* fsynced may be undone, in any combination that keeps the synced prefix.  A
\* record with a durable entry whose bytes nobody fsynced may be found empty or
\* cut; no code repairs it, and every later scan refuses the registry.
PowerCut ==
    /\ \E n \in synced..Len(records) :
         /\ records' = SubSeq(records, 1, n)
         /\ torn' \in (IF torn \/ n < Len(records) THEN BOOLEAN ELSE {FALSE})
         /\ synced' = n
    /\ layout' \in {layout} \cup (IF loose THEN {"damaged"} ELSE {})
    /\ loose' = FALSE
    /\ \E h \in {headSynced, head} : head' = h /\ headSynced' = h
    /\ temps' \in SUBSET temps
    /\ xlock' = None /\ slock' = {}
    /\ pc' = [p \in Run |-> "idle"]
    /\ op' = [p \in Run |-> NoOp]
    /\ arg' = [p \in Run |-> NoClaim]
    /\ seen' = [p \in Run |-> {}]
    /\ pend' = [p \in Run |-> NoRecord]
    /\ view' = [p \in Run |-> NoView]
    /\ UNCHANGED <<cleared, receipts, failures, sessions>>

RegistryStep(p) ==
    \/ InitializeBegin(p) \/ InitializeEnd(p)
    \/ CheckLayout(p) \/ RefuseLayout(p)
    \/ AcquireWriter(p) \/ AcquireReader(p) \/ Read(p)
    \/ CleanStaging(p) \/ ScanClean(p) \/ ScanRepair(p) \/ RepairReplace(p)
    \/ RepairSync(p) \/ ScanRefuse(p)
    \/ Preflight(p) \/ ClaimCandidate(p) \/ RefuseAppend(p)
    \/ ReleaseClaim(p) \/ ReleaseAgain(p)
    \/ WriteRecord(p) \/ SyncRecord(p) \/ StageHead(p) \/ ReplaceHead(p)
    \/ FinishAppend(p)

Next ==
    \/ \E p \in Run :
         \/ RegistryStep(p)
         \/ \E o \in Op, c \in receipts[p] \cup {NoClaim} :
              Enter(p, o, c)
         \/ \E c \in receipts[p], parsed \in BOOLEAN : Transfer(p, c, parsed)
         \/ Interrupt(p)
    \/ PowerCut

----------------------------------------------------------------------------
(* Properties.                                                              *)

\* Every variable keeps the shape the code gives it.
TypeOK ==
    /\ layout \in {"absent", "partial", "ready", "damaged"}
    /\ records \in Seq(Record) /\ Len(records) <= MaxRecords
    /\ torn \in BOOLEAN /\ loose \in BOOLEAN
    /\ synced \in 0..Len(records)
    /\ head \in 0..MaxRecords /\ headSynced \in 0..MaxRecords
    /\ temps \subseteq Run
    /\ xlock \in Run \cup {None} /\ slock \subseteq Run
    /\ pc \in [Run -> Label]
    /\ op \in [Run -> Op \cup {NoOp}]
    /\ arg \in [Run -> Claim \cup {NoClaim}]
    /\ seen \in [Run -> SUBSET Run]
    /\ pend \in [Run -> Record \cup {NoRecord}]
    /\ cleared \subseteq Run
    /\ receipts \in [Run -> SUBSET Claim]
    /\ view \in [Run -> (SUBSET Claim) \cup {NoView}]
    /\ failures \subseteq Claim /\ sessions \subseteq Claim

\* No candidate reaches the device in two transfers that may have opened a
\* device session, and none of the legacy deny list ever does: claim() before
\* the backend call makes the replay of a candidate impossible across runs,
\* crashes and power cuts.
NoReplay ==
    /\ \A c, d \in sessions : c.key = d.key => c = d
    /\ \A c \in sessions : c.key \notin Legacy

\* A claim whose receipt was returned is in the part of the chain that a power
\* cut cannot take back (the fsync order of _write_no_replace and _append).
ReceiptsAreDurable ==
    \A p \in Run : \A c \in receipts[p] :
        c.id \in 1..synced /\ records[c.id] = [event |-> "claim", claim |-> c]

\* The complete records form a chain whose order _scan accepts: no history of
\* claims, releases and repairs appends a record that does not fit those before
\* it.  (The head and a torn or damaged file are other reasons to refuse.)
AppendsVerify == ChainOK(records)

\* A claim with a receipt stops being active only when its own transfer was
\* the local parse failure: retried releases never free a newer claim.
OnlyParseFailureReleases ==
    [][\A c \in Active(records) \ Active(records') :
         c \in failures \/ \A p \in Run : c \notin receipts[p]]_vars

\* A read that succeeds reports every candidate with a possible device session
\* as consumed.
ReadsReportSessions ==
    [][\A p \in Run : view'[p] \notin {view[p], NoView} => sessions \subseteq view'[p]]_vars

\* The writer lease is always given back: every path of a writer call ends in
\* its finally block.
WriterLeaves == \A p \in Run : xlock = p ~> xlock # p

----------------------------------------------------------------------------
(* The inductive strengthening behind NoReplay.                             *)

CriticalLabels == {"locked", "scan", "repair_staged", "repair_replaced",
                   "decide", "record_created", "record_written",
                   "record_synced", "head_staged", "head_replaced"}
TailLabels == {"record_written", "record_synced", "head_staged",
               "head_replaced"}

\* Only the holder of LOCK_EX is past the flock of a writer call.
WriterExclusive == \A p \in Run : pc[p] \in CriticalLabels => xlock = p

\* Claims that a release call presents were classified before the call.
ReleasesJustified ==
    \A p \in Run : op[p] = "release" => arg[p] \in failures

\* The record being created still fits the chain it was decided on.
PendingFits ==
    \A p \in Run : pc[p] = "record_created" =>
        /\ Len(records) < MaxRecords
        /\ pend[p] \in Record
        /\ pend[p].event = "claim" =>
              /\ pend[p].claim.id = Len(records) + 1
              /\ pend[p].claim.key \notin Consumed
        /\ pend[p].event = "release" =>
              pend[p].claim \in Active(records) \cap failures

\* The record just written is the last of the chain until the call returns.
PendingIsLast ==
    \A p \in Run : pc[p] \in TailLabels =>
        /\ Len(records) > 0 /\ records[Len(records)] = pend[p]
        /\ pend[p].event = "claim" =>
              /\ pend[p].claim.id = Len(records)
              /\ pend[p].claim.key \notin Legacy

\* A claim with a receipt is consumed until its transfer is a parse failure.
ReceiptsStayActive ==
    \A p \in Run : \A c \in receipts[p] :
        /\ c.key \notin Legacy
        /\ c \notin failures => ActiveAt(records, c.id)

\* Transfers were admitted by a receipt, and have one outcome.
TransfersHaveReceipts ==
    /\ \A c \in sessions : \E p \in Run : c \in receipts[p]
    /\ sessions \cap failures = {}

IInv == /\ TypeOK /\ WriterExclusive /\ ReleasesJustified /\ PendingFits
        /\ PendingIsLast /\ ReceiptsAreDurable /\ ReceiptsStayActive
        /\ TransfersHaveReceipts

\* A claim is followed by a record of its key only after its own transfer was a
\* parse failure, whether or not anyone holds its receipt.
DisplacedFailed ==
    \A i, k \in 1..Len(records) :
        /\ i < k /\ records[i].event = "claim"
        /\ records[k].claim.key = records[i].claim.key
        => records[i].claim \in failures

\* What the chain itself adds: it verifies, and nothing in it was displaced
\* that a power cut could bring back in force without being a failure.
LInv == ChainOK(records) /\ DisplacedFailed

Spec == Init /\ [][Next]_vars

\* The chain, the flock and the crashes implement the plain ledger its callers
\* rely on: a claim takes effect when its record is complete and is granted
\* when the call returns.
Ledger == INSTANCE ClaimLedger
            WITH KeyOf   <- [c \in Claim |-> c.key],
                 active  <- Active(records),
                 granted <- UNION { receipts[p] : p \in Run }
ImplementsLedger == Ledger!Spec

FairSpec == Spec /\ \A p \in Run : WF_vars(RegistryStep(p))
=============================================================================
