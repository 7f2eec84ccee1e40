----------------------------- MODULE F1Journal -----------------------------
(***************************************************************************)
(* The append-only transaction journal of one F1 run (class Journal of     *)
(* device_action_f1_v2.py): numbered record files created with O_EXCL, and *)
(* a head file replaced after each of them.  One process at a time has the *)
(* journal open (the run holds the target lease), and it can die, or the   *)
(* host lose power, between any two system calls.                          *)
(***************************************************************************)
EXTENDS F1JournalRules

CONSTANT MaxRecords   \* bound on the records of one journal (a model bound)

ASSUME JournalAssumption == MaxRecords \in Nat \ {0}

VARIABLES
    directory,   \* run_dir/journal: absent, ready, or after a power cut lost,
                 \* or damaged: a record before the last one does not parse
    anchored,    \* run_dir was fsynced since the directory was made
    records,     \* complete record files, in sequence order
    torn,        \* a record file after them that load_json cannot parse
    synced,      \* how many record files have a durable directory entry
    loose,       \* one of those files holds bytes that nobody fsynced
    head,        \* record_count of journal-head.json, 0 while it is missing
    headSynced,  \* what a power cut leaves of it
    pc,          \* closed (no process), open, or inside an append or reopen
    pend,        \* the record being appended
    shown,       \* the longest chain a finished append or reopen showed
    returned     \* how many records the last append that returned left

files == <<directory, anchored, records, torn, synced, loose, head, headSynced>>
told  == <<shown, returned>>
vars  == <<files, pc, pend, told>>

Appending == {"record_created", "record_written", "record_synced",
              "head_staged", "head_replaced"}
Label == {"closed", "open", "reopening", "reopen_staged", "reopen_replaced"}
            \cup Appending
NoRecord == [kind |-> "none", action |-> "none", attempt |-> 0]

\* The summary after each prefix of a chain.
Summaries(rs) ==
    LET after[i \in 0..Len(rs)] ==
            IF i = 0 THEN Blank ELSE Apply(after[i - 1], rs[i])
    IN  after

Current == Summaries(records)[Len(records)]

\* The rules records() applies to every record it loads.
ChainOK(rs) ==
    \A i \in 1..Len(rs) : Admits(Summaries(rs)[i - 1], rs[i])

\* _head_count: the head is missing exactly while there are no records.
HeadMatches ==
    IF records = << >> THEN head = 0 ELSE head \in 1..Len(records)

Readable == directory = "ready" /\ ~torn /\ ChainOK(records) /\ HeadMatches

Init ==
    /\ directory = "absent" /\ anchored = FALSE
    /\ records = << >> /\ torn = FALSE /\ synced = 0 /\ loose = FALSE
    /\ head = 0 /\ headSynced = 0
    /\ pc = "closed" /\ pend = NoRecord
    /\ shown = << >> /\ returned = 0

----------------------------------------------------------------------------
(* create() and _append().                                                  *)

\* O_CREAT|O_EXCL of the next record file, after the checks of _append.
CreateRecord(r) ==
    /\ Len(records) < MaxRecords
    /\ torn' = TRUE /\ pend' = r /\ pc' = "record_created"
    /\ UNCHANGED <<records, synced, loose, head, headSynced, told>>

\* create(): mkdir, fsync of the parent, and the PREFLIGHT transition.
Create ==
    /\ pc = "closed" /\ directory = "absent"
    /\ directory' = "ready" /\ anchored' = FALSE
    /\ CreateRecord(To("PREFLIGHT"))

\* transition(), event() and checkpoint(): a record the rules refuse raises
\* before any file is touched, so only admitted ones appear here.
Append_(r) ==
    /\ pc = "open"
    /\ Readable /\ Admits(Current, r)
    /\ CreateRecord(r)
    /\ UNCHANGED <<directory, anchored>>

WriteRecord ==
    /\ pc = "record_created"
    /\ records' = Append(records, pend) /\ torn' = FALSE
    /\ pc' = "record_written"
    /\ UNCHANGED <<directory, anchored, synced, loose, head, headSynced, pend,
                   told>>

\* Mutant of SyncRecord: the record file is not fsynced.
SyncNothing ==
    /\ pc = "record_written"
    /\ pc' = "record_synced"
    /\ UNCHANGED <<files, pend, told>>

\* fsync of the new file and of the journal directory: every directory entry
\* is durable then, but of an earlier record that reopen() adopted unsynced
\* only the entry, not the bytes.
SyncRecord ==
    /\ pc = "record_written"
    /\ synced' = Len(records) /\ loose' = (loose \/ synced + 1 < Len(records))
    /\ pc' = "record_synced"
    /\ UNCHANGED <<directory, anchored, records, torn, head, headSynced, pend,
                   told>>

\* Writing the staged head fsyncs run_dir, and with it the journal directory
\* entry and any earlier rename.
Stage(label) ==
    /\ anchored' = TRUE /\ headSynced' = head
    /\ pc' = label
    /\ UNCHANGED <<directory, records, torn, synced, loose, head, pend, told>>

Replace(label) ==
    /\ head' = Len(records)
    /\ pc' = label
    /\ UNCHANGED <<directory, anchored, records, torn, synced, loose,
                   headSynced, pend, told>>

StageHead   == pc = "record_synced" /\ Stage("head_staged")
ReplaceHead == pc = "head_staged" /\ Replace("head_replaced")

FinishAppend ==
    /\ pc = "head_replaced"
    /\ headSynced' = head
    /\ shown' = records /\ returned' = Len(records)
    /\ pend' = NoRecord /\ pc' = "open"
    /\ UNCHANGED <<directory, anchored, records, torn, synced, loose, head>>

----------------------------------------------------------------------------
(* reopen(): validate everything, then rewrite the head from the last       *)
(* record.  A journal without records opens without touching the head.      *)

\* Mutant of Reopen: the head is left as it was found.
ReopenReadOnly ==
    /\ pc = "closed" /\ Readable
    /\ pc' = "open" /\ shown' = records
    /\ UNCHANGED <<files, pend, returned>>

Reopen ==
    /\ pc = "closed" /\ Readable
    /\ pc' = IF records = << >> THEN "open" ELSE "reopening"
    /\ UNCHANGED <<files, pend, told>>

ReopenStage   == pc = "reopening" /\ Stage("reopen_staged")
ReopenReplace == pc = "reopen_staged" /\ Replace("reopen_replaced")

ReopenFinish ==
    /\ pc = "reopen_replaced"
    /\ headSynced' = head
    /\ shown' = records
    /\ pc' = "open"
    /\ UNCHANGED <<directory, anchored, records, torn, synced, loose, head,
                   pend, returned>>

----------------------------------------------------------------------------
(* The process ends or dies; the host loses power.                          *)

Crash ==
    /\ pc # "closed"
    /\ pc' = "closed" /\ pend' = NoRecord
    /\ UNCHANGED <<files, told>>

\* What was not fsynced may be gone, in any combination.  A record whose
\* directory entry is durable and whose bytes are not is found empty or cut,
\* and no code repairs it: records() refuses the journal from then on.  A
\* journal directory whose own entry was never fsynced may be gone with all of
\* its records.
PowerCut ==
    /\ directory # "absent"
    /\ pc' = "closed" /\ pend' = NoRecord
    /\ \/ /\ \E n \in synced..Len(records) :
               /\ records' = SubSeq(records, 1, n)
               /\ torn' \in (IF torn \/ n < Len(records) THEN BOOLEAN
                                                         ELSE {FALSE})
               /\ synced' = n
          /\ directory' \in {directory} \cup (IF loose THEN {"damaged"} ELSE {})
          /\ loose' = FALSE
          /\ head' \in {headSynced, head} /\ headSynced' = head'
          /\ UNCHANGED anchored
       \/ /\ ~anchored
          /\ directory' = "lost"
          /\ records' = << >> /\ torn' = FALSE /\ synced' = 0 /\ loose' = FALSE
          /\ head' = 0 /\ headSynced' = 0
          /\ UNCHANGED anchored
    /\ UNCHANGED told

ReopenStep == Reopen \/ ReopenStage \/ ReopenReplace \/ ReopenFinish
AppendStep == WriteRecord \/ SyncRecord \/ StageHead \/ ReplaceHead
                \/ FinishAppend

Next ==
    \/ Create \/ AppendStep \/ ReopenStep
    \/ \E r \in JournalRecord : Append_(r)
    \/ Crash \/ PowerCut

Spec == Init /\ [][Next]_vars

----------------------------------------------------------------------------
(* Properties.                                                              *)

IsPrefix(s, t) == Len(s) <= Len(t) /\ \A i \in 1..Len(s) : s[i] = t[i]

\* Every variable keeps its shape.
FilesOK ==
    /\ directory \in {"absent", "ready", "lost", "damaged"} /\ anchored \in BOOLEAN
    /\ records \in Seq(JournalRecord) /\ Len(records) <= MaxRecords
    /\ torn \in BOOLEAN /\ loose \in BOOLEAN /\ synced \in 0..Len(records)
    /\ head \in 0..MaxRecords /\ headSynced \in 0..MaxRecords
    /\ pc \in Label /\ pend \in JournalRecord \cup {NoRecord}
    /\ shown \in Seq(JournalRecord)
    /\ returned \in 0..Len(shown)

\* Every variable keeps the shape the code gives it, and what records() makes
\* of the chain is well formed: a known state, known events, and for each
\* transfer no more attempts than _validate_checkpoint lets through, although
\* each process counts them again from the records it finds.
TypeOK == FilesOK /\ Current \in Summary

\* A record whose append returned is never lost, whatever dies afterwards:
\* _write_exclusive fsyncs the record before _write_head names it.  (A record
\* before it that reopen() adopted has a durable entry only: if a power cut
\* takes its bytes, the journal is damaged and refused, not shortened.)
ReturnedSurvive ==
    /\ returned <= synced
    /\ \A i \in 1..returned : records[i] = shown[i]

\* A journal that can be reopened never forgets what an earlier process was
\* shown: a tail that reopen() adopted before it was durable and that a power
\* cut then took leaves a head that refuses the shorter chain.
NoAmnesia == directory = "ready" /\ HeadMatches => IsPrefix(shown, records)

\* The events of a run are a prefix of one of the two timelines, although
\* _append chooses the order again at every event from the current state.
OneTimeline ==
    \/ IsPrefix(Current.events, TIMELINE)
    \/ IsPrefix(Current.events, RECOVERY_TIMELINE)

----------------------------------------------------------------------------
(* The inductive strengthening behind ReturnedSurvive and NoAmnesia.        *)

\* The head, as it is and as a power cut leaves it, covers what was shown.
HeadCovers == Len(shown) <= head /\ Len(shown) <= headSynced

\* Only a journal that no process has open can have lost a shown record.
OpenRemembers ==
    \/ IsPrefix(shown, records)
    \/ pc = "closed" /\ Len(records) < Len(shown)

\* Nothing is shown before run_dir, and the journal directory in it, is durable.
ShownAnchored ==
    /\ ~anchored => shown = << >>
    /\ directory = "absent" => ~anchored

\* Where the process is inside an append or a reopen says what is durable.
Progress ==
    /\ pc # "closed" => directory # "absent"
    /\ pc = "record_created" => pend \in JournalRecord /\ Len(records) < MaxRecords
    /\ pc \in {"record_synced", "head_staged", "head_replaced"}
          => synced = Len(records)
    /\ pc \in {"head_replaced", "reopen_replaced"} => head = Len(records)
    /\ pc \in {"head_staged", "head_replaced", "reopen_staged",
               "reopen_replaced"} => anchored

IInv == FilesOK /\ ReturnedSurvive /\ HeadCovers /\ OpenRemembers
          /\ ShownAnchored /\ Progress
=============================================================================
