--------------------------- MODULE JournalProofs ---------------------------
(***************************************************************************)
(* What TLAPS proves of F1Journal for every bound on its records: what an  *)
(* append returned survives, what a process was shown is never silently    *)
(* forgotten, and the events of a chain follow one timeline.               *)
(*                                                                         *)
(* The timeline is a property of what records() computes over a chain, a   *)
(* recursive function.  That every prefix of the chain has exactly one     *)
(* such summary is kept as an invariant (Legible) and follows the appends  *)
(* one by one, so that no induction over chains is needed.                 *)
(***************************************************************************)
EXTENDS F1Journal, TLAPS

\* The first record that create() writes is a record of the journal.
LEMMA PreflightRecord == To("PREFLIGHT") \in JournalRecord
  BY DEF To, JournalRecord, Transitions, STATES

\* The empty journal satisfies the inductive invariant.
LEMMA InitInductive == ASSUME Init PROVE IInv
<1>1. Len(records) = 0 /\ Len(shown) = 0 /\ records \in Seq(JournalRecord)
      /\ shown \in Seq(JournalRecord)
  BY DEF Init
<1>2. FilesOK
  <2>1. 0 \in 0..MaxRecords /\ 0 \in 0..Len(records) /\ 0 \in 0..Len(shown)
        /\ Len(records) <= MaxRecords
    BY <1>1, JournalAssumption
  <2>2. pc \in Label /\ pend = NoRecord
    BY DEF Init, Label
  <2>. QED
    BY <1>1, <2>1, <2>2 DEF Init, FilesOK
<1>3. ReturnedSurvive /\ HeadCovers /\ OpenRemembers
  BY <1>1 DEF Init, ReturnedSurvive, HeadCovers, OpenRemembers, IsPrefix
<1>4. ShownAnchored /\ Progress
  BY DEF Init, ShownAnchored, Progress
<1>. QED
  BY <1>2, <1>3, <1>4 DEF IInv

\* Creating a record file touches nothing that is durable or shown.
LEMMA CreateInductive ==
  ASSUME IInv, NEW r \in JournalRecord, CreateRecord(r),
         IsPrefix(shown, records),
         directory' = "ready", anchored' = anchored
  PROVE  IInv'
<1>1. FilesOK'
  BY DEF IInv, FilesOK, CreateRecord, told, Label, Appending
<1>2. ReturnedSurvive' /\ HeadCovers' /\ OpenRemembers'
  BY DEF IInv, CreateRecord, told, ReturnedSurvive, HeadCovers, OpenRemembers,
         IsPrefix
<1>3. ShownAnchored' /\ Progress'
  BY DEF IInv, CreateRecord, told, ShownAnchored, Progress
<1>. QED
  BY <1>1, <1>2, <1>3 DEF IInv

\* Staging a head makes what head.json says durable, and run_dir with it.
LEMMA StageInductive ==
  ASSUME IInv, NEW label \in Label, Stage(label),
         IsPrefix(shown, records),
         label = "head_staged" => synced = Len(records),
         label \in {"head_staged", "reopen_staged"},
         directory # "absent"
  PROVE  IInv'
<1>1. FilesOK'
  BY DEF IInv, FilesOK, Stage, told
<1>2. ReturnedSurvive' /\ HeadCovers' /\ OpenRemembers'
  BY DEF IInv, FilesOK, Stage, told, ReturnedSurvive, HeadCovers,
         OpenRemembers, IsPrefix
<1>3. ShownAnchored' /\ Progress'
  BY DEF IInv, Stage, told, ShownAnchored, Progress
<1>. QED
  BY <1>1, <1>2, <1>3 DEF IInv

\* Replacing the head moves it to the end of the chain.
LEMMA ReplaceInductive ==
  ASSUME IInv, NEW label \in Label, Replace(label),
         IsPrefix(shown, records), anchored,
         label = "head_replaced" => synced = Len(records),
         label \in {"head_replaced", "reopen_replaced"}
  PROVE  IInv'
<1>0. Len(records) \in 0..MaxRecords
  BY JournalAssumption DEF IInv, FilesOK
<1>1. FilesOK'
  BY <1>0 DEF IInv, FilesOK, Replace, told
<1>2. ReturnedSurvive' /\ HeadCovers' /\ OpenRemembers'
  BY DEF IInv, FilesOK, Replace, told, ReturnedSurvive, HeadCovers,
         OpenRemembers, IsPrefix
<1>3. ShownAnchored' /\ Progress'
  BY DEF IInv, Replace, told, ShownAnchored, Progress
<1>. QED
  BY <1>1, <1>2, <1>3 DEF IInv

\* An append or a reopen that returns shows the whole chain, which the head
\* on disk already covers.
LEMMA ReturnInductive ==
  ASSUME IInv, head = Len(records), anchored,
         headSynced' = head, shown' = records, pc' = "open",
         returned' = returned \/ (returned' = Len(records) /\ synced = Len(records)),
         IsPrefix(shown, records),
         pend' \in {pend, NoRecord},
         UNCHANGED <<directory, anchored, records, torn, synced, loose, head>>
  PROVE  IInv'
<1>1. Len(records) \in 0..MaxRecords /\ records \in Seq(JournalRecord)
  BY JournalAssumption DEF IInv, FilesOK
<1>2. FilesOK'
  BY <1>1 DEF IInv, FilesOK, Label, ReturnedSurvive
<1>3. ReturnedSurvive' /\ HeadCovers' /\ OpenRemembers'
  BY <1>1 DEF IInv, FilesOK, ReturnedSurvive, HeadCovers, OpenRemembers, IsPrefix
<1>4. ShownAnchored' /\ Progress'
  BY DEF IInv, ShownAnchored, Progress
<1>. QED
  BY <1>2, <1>3, <1>4 DEF IInv

\* A power cut keeps the durable prefix of the records.
LEMMA PowerCutInductive == ASSUME IInv, PowerCut PROVE IInv'
<1>. USE DEF PowerCut, told
<1>1. CASE /\ \E n \in synced..Len(records) :
               /\ records' = SubSeq(records, 1, n)
               /\ torn' \in (IF torn \/ n < Len(records) THEN BOOLEAN
                                                         ELSE {FALSE})
               /\ synced' = n
           /\ directory' \in {directory} \cup (IF loose THEN {"damaged"} ELSE {})
           /\ loose' = FALSE
           /\ head' \in {headSynced, head} /\ headSynced' = head'
           /\ UNCHANGED anchored
  <2>1. PICK n \in synced..Len(records) :
               /\ records' = SubSeq(records, 1, n)
               /\ torn' \in BOOLEAN
               /\ synced' = n
    BY <1>1
  <2>2. /\ records' \in Seq(JournalRecord) /\ Len(records') = n
        /\ n \in Nat /\ Len(records) \in Nat /\ n <= Len(records)
        /\ \A i \in 1..n : records'[i] = records[i]
    BY <2>1 DEF IInv, FilesOK
  <2>3. FilesOK'
    <3>1. directory' \in {directory, "damaged"}
      BY <1>1
    <3>2. /\ directory' \in {"absent", "ready", "lost", "damaged"}
          /\ loose' \in BOOLEAN /\ torn' \in BOOLEAN /\ anchored' \in BOOLEAN
          /\ pc' \in Label
      BY <1>1, <2>1, <3>1 DEF IInv, FilesOK, Label
    <3>3. synced' \in 0..Len(records') /\ Len(records') <= MaxRecords
      BY <2>1, <2>2, JournalAssumption DEF IInv, FilesOK
    <3>4. head' \in 0..MaxRecords /\ headSynced' \in 0..MaxRecords
      BY <1>1 DEF IInv, FilesOK
    <3>. QED
      BY <1>1, <2>2, <3>2, <3>3, <3>4 DEF IInv, FilesOK
  <2>4. ReturnedSurvive'
    BY <1>1, <2>1, <2>2 DEF IInv, FilesOK, ReturnedSurvive
  <2>5. HeadCovers'
    BY <1>1 DEF IInv, HeadCovers
  <2>6. OpenRemembers'
    BY <2>1, <2>2 DEF IInv, FilesOK, OpenRemembers, IsPrefix
  <2>7. ShownAnchored' /\ Progress'
    BY <1>1 DEF IInv, ShownAnchored, Progress
  <2>. QED
    BY <2>3, <2>4, <2>5, <2>6, <2>7 DEF IInv
<1>2. CASE /\ ~anchored
           /\ directory' = "lost"
           /\ records' = << >> /\ torn' = FALSE /\ synced' = 0 /\ loose' = FALSE
           /\ head' = 0 /\ headSynced' = 0
           /\ UNCHANGED anchored
  <2>1. /\ Len(records') = 0 /\ records' \in Seq(JournalRecord)
        /\ shown = << >> /\ Len(shown) = 0 /\ returned = 0
        /\ shown' = << >> /\ returned' = 0
    BY <1>2 DEF IInv, FilesOK, ShownAnchored
  <2>2. FilesOK'
    <3>1. 0 \in 0..MaxRecords /\ 0 \in 0..Len(records') /\ 0 \in 0..Len(shown')
          /\ Len(records') <= MaxRecords /\ shown' \in Seq(JournalRecord)
      BY <2>1, JournalAssumption
    <3>2. pc' \in Label /\ pend' = NoRecord /\ anchored' \in BOOLEAN
      BY <1>2 DEF IInv, FilesOK, Label
    <3>. QED
      BY <1>2, <2>1, <3>1, <3>2 DEF FilesOK
  <2>3. ReturnedSurvive' /\ HeadCovers' /\ OpenRemembers'
    BY <1>2, <2>1 DEF ReturnedSurvive, HeadCovers, OpenRemembers, IsPrefix
  <2>4. ShownAnchored' /\ Progress'
    BY <1>2, <2>1 DEF ShownAnchored, Progress
  <2>. QED
    BY <2>2, <2>3, <2>4 DEF IInv
<1>. QED
  BY <1>1, <1>2

\* Every step of the journal preserves the inductive invariant.
LEMMA NextInductive == ASSUME IInv, [Next]_vars PROVE IInv'
<1>1. CASE Create
  <2>1. shown = << >> /\ Len(shown) = 0 /\ anchored' = anchored /\ directory' = "ready"
    BY <1>1 DEF Create, IInv, FilesOK, ShownAnchored
  <2>2. IsPrefix(shown, records)
    BY <2>1 DEF IInv, FilesOK, IsPrefix
  <2>. QED
    BY <1>1, <2>1, <2>2, PreflightRecord, CreateInductive DEF Create
<1>2. ASSUME NEW r \in JournalRecord, Append_(r) PROVE IInv'
  <2>1. directory' = "ready" /\ anchored' = anchored /\ CreateRecord(r)
    BY <1>2 DEF Append_, Readable
  <2>2. IsPrefix(shown, records)
    BY <1>2 DEF Append_, IInv, OpenRemembers
  <2>. QED
    BY <2>1, <2>2, CreateInductive
<1>3. CASE WriteRecord
  <2>1. /\ IsPrefix(shown, records) /\ pend \in JournalRecord
        /\ Len(records) < MaxRecords
    BY <1>3 DEF WriteRecord, IInv, OpenRemembers, Progress
  <2>2. /\ records' \in Seq(JournalRecord) /\ Len(records) \in Nat
        /\ Len(records') = Len(records) + 1
        /\ \A i \in 1..Len(records) : records'[i] = records[i]
    BY <1>3, <2>1 DEF WriteRecord, IInv, FilesOK
  <2>3. FilesOK'
    <3>1. Len(records') <= MaxRecords /\ synced' \in 0..Len(records')
      BY <1>3, <2>1, <2>2, JournalAssumption DEF WriteRecord, IInv, FilesOK
    <3>2. pc' \in Label /\ torn' \in BOOLEAN
      BY <1>3 DEF WriteRecord, Label, Appending
    <3>. QED
      BY <1>3, <2>2, <3>1, <3>2 DEF WriteRecord, IInv, FilesOK, told
  <2>4. ReturnedSurvive' /\ HeadCovers' /\ OpenRemembers'
    BY <1>3, <2>1, <2>2
       DEF WriteRecord, IInv, FilesOK, told, ReturnedSurvive, HeadCovers,
           OpenRemembers, IsPrefix
  <2>5. ShownAnchored' /\ Progress'
    BY <1>3 DEF WriteRecord, IInv, told, ShownAnchored, Progress
  <2>. QED
    BY <2>3, <2>4, <2>5 DEF IInv
<1>4. CASE SyncRecord
  <2>1. FilesOK'
    BY <1>4 DEF SyncRecord, IInv, FilesOK, told, Label, Appending
  <2>2. ReturnedSurvive' /\ HeadCovers' /\ OpenRemembers'
    BY <1>4 DEF SyncRecord, IInv, FilesOK, told, ReturnedSurvive, HeadCovers,
                OpenRemembers, IsPrefix
  <2>3. ShownAnchored' /\ Progress'
    BY <1>4 DEF SyncRecord, IInv, told, ShownAnchored, Progress
  <2>. QED
    BY <2>1, <2>2, <2>3 DEF IInv
<1>5. CASE StageHead
  <2>1. "head_staged" \in Label /\ Stage("head_staged") /\ synced = Len(records)
        /\ IsPrefix(shown, records) /\ directory # "absent"
    BY <1>5 DEF StageHead, Label, Appending, IInv, Progress, OpenRemembers
  <2>. QED
    BY <2>1, StageInductive
<1>6. CASE ReplaceHead
  <2>1. "head_replaced" \in Label /\ Replace("head_replaced") /\ anchored
        /\ synced = Len(records) /\ IsPrefix(shown, records)
    BY <1>6 DEF ReplaceHead, Label, Appending, IInv, Progress, OpenRemembers
  <2>. QED
    BY <2>1, ReplaceInductive
<1>7. CASE FinishAppend
  <2>1. /\ IsPrefix(shown, records) /\ anchored /\ head = Len(records)
        /\ synced = Len(records)
    BY <1>7 DEF FinishAppend, IInv, Progress, OpenRemembers
  <2>. QED
    BY <1>7, <2>1, ReturnInductive DEF FinishAppend
<1>8. CASE Reopen
  <2>1. IsPrefix(shown, records)
    BY <1>8 DEF Reopen, Readable, HeadMatches, IInv, FilesOK, OpenRemembers,
                HeadCovers
  <2>2. FilesOK'
    BY <1>8 DEF Reopen, files, told, IInv, FilesOK, Label
  <2>3. ReturnedSurvive' /\ HeadCovers' /\ OpenRemembers'
    BY <1>8, <2>1 DEF Reopen, files, told, IInv, ReturnedSurvive, HeadCovers,
                      OpenRemembers, IsPrefix
  <2>4. ShownAnchored' /\ Progress'
    BY <1>8 DEF Reopen, Readable, files, told, IInv, ShownAnchored, Progress
  <2>. QED
    BY <2>2, <2>3, <2>4 DEF IInv
<1>9. CASE ReopenStage
  <2>1. "reopen_staged" \in Label /\ Stage("reopen_staged")
        /\ IsPrefix(shown, records) /\ directory # "absent"
    BY <1>9 DEF ReopenStage, Label, IInv, OpenRemembers, Progress
  <2>. QED
    BY <2>1, StageInductive
<1>10. CASE ReopenReplace
  <2>1. "reopen_replaced" \in Label /\ Replace("reopen_replaced") /\ anchored
        /\ IsPrefix(shown, records)
    BY <1>10 DEF ReopenReplace, Label, IInv, Progress, OpenRemembers
  <2>. QED
    BY <2>1, ReplaceInductive
<1>11. CASE ReopenFinish
  <2>1. IsPrefix(shown, records) /\ anchored /\ head = Len(records)
    BY <1>11 DEF ReopenFinish, IInv, Progress, OpenRemembers
  <2>. QED
    BY <1>11, <2>1, ReturnInductive DEF ReopenFinish
<1>12. CASE Crash
  <2>1. FilesOK'
    BY <1>12 DEF Crash, files, told, IInv, FilesOK, Label
  <2>2. ReturnedSurvive' /\ HeadCovers' /\ OpenRemembers'
    BY <1>12 DEF Crash, files, told, IInv, ReturnedSurvive, HeadCovers,
                 OpenRemembers, IsPrefix
  <2>3. ShownAnchored' /\ Progress'
    BY <1>12 DEF Crash, files, told, IInv, ShownAnchored, Progress
  <2>. QED
    BY <2>1, <2>2, <2>3 DEF IInv
<1>13. CASE PowerCut
  BY <1>13, PowerCutInductive
<1>14. CASE UNCHANGED vars
  BY <1>14 DEF vars, files, told, IInv, FilesOK, ReturnedSurvive, HeadCovers,
               OpenRemembers, IsPrefix, ShownAnchored, Progress
<1>. QED
  BY <1>1, <1>2, <1>3, <1>4, <1>5, <1>6, <1>7, <1>8, <1>9, <1>10, <1>11, <1>12,
     <1>13, <1>14 DEF Next, AppendStep, ReopenStep

\* The inductive invariant holds in every reachable state of the journal.
THEOREM JournalInductive == Spec => []IInv
<1>1. Init => IInv
  BY InitInductive
<1>2. IInv /\ [Next]_vars => IInv'
  BY NextInductive
<1>. QED
  BY <1>1, <1>2, PTL DEF Spec

\* Appended records that were acknowledged are never lost: _write_exclusive
\* before _write_head, for any number of records, crashes and power cuts.
THEOREM JournalReturnedSurvive == Spec => []ReturnedSurvive
<1>1. IInv => ReturnedSurvive
  BY DEF IInv
<1>. QED
  BY <1>1, JournalInductive, PTL

\* A journal whose head matches still begins with everything that any earlier
\* process was shown of it: reopen() either refuses or remembers.
THEOREM JournalNoAmnesia == Spec => []NoAmnesia
<1>1. IInv => NoAmnesia
  BY DEF IInv, FilesOK, NoAmnesia, HeadMatches, HeadCovers, OpenRemembers, IsPrefix
<1>. QED
  BY <1>1, JournalInductive, PTL

-----------------------------------------------------------------------------
(* OneTimeline.  What a chain amounts to is computed by recursion over it, *)
(* of which TLAPS knows nothing.  But the chain grows by one record at a   *)
(* time, and shrinks to a prefix: that the summaries of every prefix exist *)
(* and are the only ones is itself an invariant of the journal.            *)

Computes(f, rs, m) ==
    f = [i \in 0..m |-> IF i = 0 THEN Blank ELSE Apply(f[i - 1], rs[i])]
Only(f, rs, m) == \A g : Computes(g, rs, m) <=> g = f
SummaryOf(rs, m) == (CHOOSE f : Computes(f, rs, m))[m]

LEMMA CurrentSummary == Current = SummaryOf(records, Len(records))
<1>1. Summaries(records) = CHOOSE f : Computes(f, records, Len(records))
  BY DEF Summaries, Computes
<1>. QED
  BY <1>1 DEF Current, SummaryOf

LEMMA OnlySummary ==
  ASSUME NEW f, NEW rs, NEW m, Only(f, rs, m)
  PROVE  SummaryOf(rs, m) = f[m]
<1>1. Computes(f, rs, m)
  BY DEF Only
<1>2. Computes(CHOOSE g : Computes(g, rs, m), rs, m)
  BY <1>1
<1>3. (CHOOSE g : Computes(g, rs, m)) = f
  BY <1>2 DEF Only
<1>. QED
  BY <1>3 DEF SummaryOf

\* Chains that agree have the same summaries.
LEMMA OnlyAgree ==
  ASSUME NEW f, NEW rs, NEW rt, NEW m \in Nat, Only(f, rs, m),
         \A i \in 1..m : rt[i] = rs[i]
  PROVE  Only(f, rt, m) /\ SummaryOf(rt, m) = SummaryOf(rs, m)
<1>1. ASSUME NEW g PROVE Computes(g, rs, m) <=> Computes(g, rt, m)
  <2>1. \A i \in 0..m : i = 0 \/ rt[i] = rs[i]
    OBVIOUS
  <2>2. [i \in 0..m |-> IF i = 0 THEN Blank ELSE Apply(g[i - 1], rs[i])]
         = [i \in 0..m |-> IF i = 0 THEN Blank ELSE Apply(g[i - 1], rt[i])]
    BY <2>1
  <2>. QED
    BY <2>2 DEF Computes
<1>2. Only(f, rt, m)
  BY <1>1 DEF Only
<1>. QED
  BY <1>2, OnlySummary

LEMMA OnlyEmpty ==
  ASSUME NEW rs
  PROVE  Only([i \in {0} |-> Blank], rs, 0) /\ SummaryOf(rs, 0) = Blank
<1>1. 0..0 = {0}
  OBVIOUS
<1>2. \A g : [i \in 0..0 |-> IF i = 0 THEN Blank ELSE Apply(g[i - 1], rs[i])]
              = [i \in {0} |-> Blank]
  BY <1>1
<1>3. Only([i \in {0} |-> Blank], rs, 0)
  BY <1>2 DEF Only, Computes
<1>. QED
  BY <1>3, OnlySummary

\* One record more.
LEMMA OnlyNext ==
  ASSUME NEW f, NEW rs, NEW n \in Nat, Only(f, rs, n)
  PROVE  \E h : Only(h, rs, n + 1) /\ h[n + 1] = Apply(f[n], rs[n + 1])
<1>. DEFINE h == [i \in 0..(n + 1) |-> IF i <= n THEN f[i] ELSE Apply(f[n], rs[n + 1])]
<1>1. Computes(f, rs, n)
  BY DEF Only
<1>2. f[0] = Blank /\ \A i \in 1..n : f[i] = Apply(f[i - 1], rs[i])
  BY <1>1 DEF Computes
<1>3. h[n + 1] = Apply(f[n], rs[n + 1]) /\ \A i \in 0..n : h[i] = f[i]
  OBVIOUS
<1>4. Computes(h, rs, n + 1)
  <2>1. ASSUME NEW i \in 0..(n + 1)
        PROVE  h[i] = IF i = 0 THEN Blank ELSE Apply(h[i - 1], rs[i])
    <3>1. CASE i = 0
      BY <1>2, <1>3, <3>1
    <3>2. CASE i \in 1..n
      <4>1. i - 1 \in 0..n /\ i \in 0..n
        BY <3>2
      <4>2. h[i] = f[i] /\ h[i - 1] = f[i - 1] /\ f[i] = Apply(f[i - 1], rs[i])
        BY <1>2, <1>3, <3>2, <4>1
      <4>. HIDE DEF h
      <4>. QED
        BY <3>2, <4>2
    <3>3. CASE i = n + 1
      <4>1. i - 1 = n /\ n \in 0..n /\ i # 0
        BY <3>3
      <4>2. h[i - 1] = f[n] /\ h[i] = Apply(f[n], rs[i])
        BY <1>3, <3>3, <4>1
      <4>. HIDE DEF h
      <4>. QED
        BY <4>1, <4>2
    <3>. QED
      BY <3>1, <3>2, <3>3
  <2>2. h = [i \in 0..(n + 1) |-> h[i]]
    OBVIOUS
  <2>. HIDE DEF h
  <2>3. [i \in 0..(n + 1) |-> h[i]]
          = [i \in 0..(n + 1) |-> IF i = 0 THEN Blank ELSE Apply(h[i - 1], rs[i])]
    BY <2>1
  <2>. QED
    BY <2>2, <2>3 DEF Computes
<1>5. ASSUME NEW g, Computes(g, rs, n + 1) PROVE g = h
  <2>0. n + 1 \in Nat
    OBVIOUS
  <2>1. /\ g = [i \in 0..(n + 1) |-> g[i]]
        /\ g[0] = Blank /\ \A i \in 1..(n + 1) : g[i] = Apply(g[i - 1], rs[i])
    BY <1>5, <2>0 DEF Computes
  <2>2. PICK k : k = [i \in 0..n |-> g[i]]
    OBVIOUS
  <2>3. \A i \in 0..n : k[i] = IF i = 0 THEN Blank ELSE Apply(k[i - 1], rs[i])
    <3>1. SUFFICES ASSUME NEW i \in 0..n
                   PROVE  k[i] = IF i = 0 THEN Blank ELSE Apply(k[i - 1], rs[i])
      OBVIOUS
    <3>2. CASE i = 0
      BY <2>1, <2>2, <3>2
    <3>3. CASE i # 0
      <4>1. i \in 1..(n + 1) /\ i - 1 \in 0..n
        BY <3>3
      <4>2. k[i] = g[i] /\ k[i - 1] = g[i - 1]
        BY <2>2, <4>1
      <4>. QED
        BY <2>1, <3>3, <4>1, <4>2
    <3>. QED
      BY <3>2, <3>3
  <2>4. Computes(k, rs, n)
    <3>1. k = [i \in 0..n |-> k[i]]
      BY <2>2
    <3>2. [i \in 0..n |-> k[i]]
            = [i \in 0..n |-> IF i = 0 THEN Blank ELSE Apply(k[i - 1], rs[i])]
      BY <2>3
    <3>. QED
      BY <3>1, <3>2 DEF Computes
  <2>5. k = f
    BY <2>4 DEF Only
  <2>6. \A i \in 0..n : g[i] = f[i]
    BY <2>2, <2>5
  <2>7. g[n + 1] = Apply(f[n], rs[n + 1])
    <3>1. n + 1 \in 1..(n + 1) /\ (n + 1) - 1 = n /\ n \in 0..n
      OBVIOUS
    <3>2. g[n + 1] = Apply(g[(n + 1) - 1], rs[n + 1])
      BY <2>1, <3>1
    <3>. QED
      BY <2>6, <3>1, <3>2
  <2>8. \A i \in 0..(n + 1) : g[i] = h[i]
    <3>. HIDE DEF h
    <3>1. \A i \in 0..(n + 1) : i \in 0..n \/ i = n + 1
      OBVIOUS
    <3>. QED
      BY <1>3, <2>6, <2>7, <3>1
  <2>9. h = [i \in 0..(n + 1) |-> h[i]]
    OBVIOUS
  <2>. HIDE DEF h
  <2>. QED
    BY <2>1, <2>8, <2>9
<1>. HIDE DEF h
<1>6. Only(h, rs, n + 1)
  BY <1>4, <1>5 DEF Only
<1>. QED
  BY <1>3, <1>6

\* The events follow one order; those of the shorter one past its start are only
\* found in the states of a recovery, or after it.
Ordered(s) ==
    \/ IsPrefix(s.events, TIMELINE)
    \/ /\ IsPrefix(s.events, RECOVERY_TIMELINE)
       /\ s.state \in RECOVERY_EVENT_STATES \cup {"CLOSED", "ABORTED"}

LEMMA BlankOrdered == Blank \in Summary /\ Ordered(Blank)
<1>1. << >> \in Seq(DOMAIN EVENT_STATE) /\ 0 \in 0..MAX_TRANSFER_ATTEMPTS
  BY DEF MAX_TRANSFER_ATTEMPTS
<1>2. Blank \in Summary
  BY <1>1 DEF Blank, Summary
<1>3. Blank.events = << >>
  BY DEF Blank
<1>4. IsPrefix(<< >>, TIMELINE)
  BY DEF IsPrefix, TIMELINE
<1>. QED
  BY <1>2, <1>3, <1>4 DEF Ordered

LEMMA SummaryFields ==
  ASSUME NEW s \in Summary
  PROVE  /\ s.state \in STATES \cup {NoState} /\ s.events \in Seq(DOMAIN EVENT_STATE)
         /\ s.attempts \in [DOMAIN CHECKPOINT_STATE -> 0..MAX_TRANSFER_ATTEMPTS]
  BY DEF Summary

LEMMA TransitionOrdered ==
  ASSUME NEW s \in Summary, Ordered(s), NEW x \in STATES, x \in NEXT_STATES[s.state]
  PROVE  [s EXCEPT !.state = x] \in Summary /\ Ordered([s EXCEPT !.state = x])
<1>1. PICK t : t = [s EXCEPT !.state = x]
  OBVIOUS
<1>2. t \in Summary /\ t.state = x /\ t.events = s.events
  BY <1>1 DEF Summary
<1>3. s.state \in RECOVERY_EVENT_STATES \cup {"CLOSED", "ABORTED"}
        => x \in RECOVERY_EVENT_STATES \cup {"CLOSED", "ABORTED"}
  BY DEF RECOVERY_EVENT_STATES, NEXT_STATES
<1>4. Ordered(t)
  BY <1>2, <1>3 DEF Ordered
<1>. QED
  BY <1>1, <1>2, <1>4

LEMMA CheckpointOrdered ==
  ASSUME NEW s \in Summary, Ordered(s), NEW k \in DOMAIN CHECKPOINT_STATE, NEW n,
         AdmitsCheckpoint(s, k, n)
  PROVE  [s EXCEPT !.attempts[k] = n] \in Summary /\ Ordered([s EXCEPT !.attempts[k] = n])
<1>1. PICK t : t = [s EXCEPT !.attempts[k] = n]
  OBVIOUS
<1>2. n \in 0..MAX_TRANSFER_ATTEMPTS
  <2>1. s.attempts[k] \in 0..MAX_TRANSFER_ATTEMPTS
    BY SummaryFields
  <2>. QED
    BY <2>1 DEF AdmitsCheckpoint, MAX_TRANSFER_ATTEMPTS
<1>3. PICK a : a = [s.attempts EXCEPT ![k] = n]
  OBVIOUS
<1>4. a \in [DOMAIN CHECKPOINT_STATE -> 0..MAX_TRANSFER_ATTEMPTS]
  BY <1>2, <1>3, SummaryFields
<1>5. t = [s EXCEPT !.attempts = a]
  BY <1>1, <1>3
<1>6. t \in Summary /\ t.state = s.state /\ t.events = s.events
  BY <1>4, <1>5 DEF Summary
<1>7. Ordered(t)
  BY <1>6 DEF Ordered
<1>. QED
  BY <1>1, <1>6, <1>7

LEMMA EventOrdered ==
  ASSUME NEW s \in Summary, Ordered(s), NEW e \in DOMAIN EVENT_STATE, AdmitsEvent(s, e)
  PROVE  /\ [s EXCEPT !.events = Append(@, e)] \in Summary
         /\ Ordered([s EXCEPT !.events = Append(@, e)])
<1>1. PICK q : q = s.events
  OBVIOUS
<1>2. q \in Seq(DOMAIN EVENT_STATE) /\ s.state \in STATES \cup {NoState}
  BY <1>1, SummaryFields
<1>3. PICK u : u = Append(q, e)
  OBVIOUS
<1>4. /\ u \in Seq(DOMAIN EVENT_STATE) /\ Len(u) = Len(q) + 1 /\ Len(q) \in Nat
      /\ u[Len(q) + 1] = e /\ \A i \in 1..Len(q) : u[i] = q[i]
  BY <1>2, <1>3
<1>5. PICK t : t = [s EXCEPT !.events = u]
  OBVIOUS
<1>6. t \in Summary /\ t.state = s.state /\ t.events = u
  BY <1>4, <1>5 DEF Summary
<1>7. [s EXCEPT !.events = Append(@, e)] = t
  BY <1>1, <1>3, <1>5
<1>8. ASSUME NEW order, IsPrefix(q, order), Len(order) \in Nat, Len(q) < Len(order),
             order[Len(q) + 1] = e
      PROVE  IsPrefix(u, order)
  BY <1>4, <1>8 DEF IsPrefix
<1>9. Len(TIMELINE) = 8 /\ Len(RECOVERY_TIMELINE) = 5
  BY DEF TIMELINE, RECOVERY_TIMELINE
<1>10. s.state \notin {"CLOSED", "ABORTED"}
  BY DEF AdmitsEvent, EVENT_STATE
<1>11. CASE s.state \in RECOVERY_EVENT_STATES /\ ~Has(s, "candidate_flash_start")
  <2>1. /\ Len(q) < Len(RECOVERY_TIMELINE) /\ RECOVERY_TIMELINE[Len(q) + 1] = e
    BY <1>1, <1>11 DEF AdmitsEvent, Order
  <2>2. IsPrefix(q, RECOVERY_TIMELINE)
    <3>1. CASE IsPrefix(q, RECOVERY_TIMELINE)
      BY <3>1
    <3>2. CASE IsPrefix(q, TIMELINE)
      <4>1. ~(2 \in 1..Len(q))
        <5>1. TIMELINE[2] = "candidate_flash_start"
          BY DEF TIMELINE
        <5>. QED
          BY <1>1, <1>11, <3>2, <5>1 DEF IsPrefix, Has
      <4>2. \A i \in 1..Len(q) : i = 1
        BY <1>4, <4>1
      <4>3. TIMELINE[1] = RECOVERY_TIMELINE[1]
        BY DEF TIMELINE, RECOVERY_TIMELINE
      <4>4. \A i \in 1..Len(q) : q[i] = RECOVERY_TIMELINE[i]
        BY <3>2, <4>2, <4>3 DEF IsPrefix
      <4>. QED
        BY <1>4, <1>9, <2>1, <4>4 DEF IsPrefix
    <3>. QED
      BY <1>1, <3>1, <3>2 DEF Ordered
  <2>3. IsPrefix(u, RECOVERY_TIMELINE)
    <3>1. Len(RECOVERY_TIMELINE) \in Nat
      BY <1>9
    <3>. QED
      BY <1>8, <2>1, <2>2, <3>1
  <2>. QED
    BY <1>6, <1>7, <1>11, <2>3 DEF Ordered
<1>12. CASE ~(s.state \in RECOVERY_EVENT_STATES /\ ~Has(s, "candidate_flash_start"))
  <2>1. /\ Len(q) < Len(TIMELINE) /\ TIMELINE[Len(q) + 1] = e
    BY <1>1, <1>12 DEF AdmitsEvent, Order
  <2>2. IsPrefix(q, TIMELINE)
    <3>1. CASE ~IsPrefix(q, TIMELINE)
      <4>1. IsPrefix(q, RECOVERY_TIMELINE) /\ s.state \in RECOVERY_EVENT_STATES
        BY <1>1, <1>10, <3>1 DEF Ordered
      <4>2. PICK i \in 1..Len(q) : q[i] = "candidate_flash_start"
        BY <1>1, <1>12, <4>1 DEF Has
      <4>3. i \in 1..5 /\ RECOVERY_TIMELINE[i] = "candidate_flash_start"
        BY <1>4, <1>9, <4>1, <4>2 DEF IsPrefix
      <4>4. \A j \in 1..5 : RECOVERY_TIMELINE[j] # "candidate_flash_start"
        <5>1. \A j \in 1..5 : j = 1 \/ j = 2 \/ j = 3 \/ j = 4 \/ j = 5
          OBVIOUS
        <5>2. /\ RECOVERY_TIMELINE[1] = "live_session_start"
              /\ RECOVERY_TIMELINE[2] = "rollback_flash_start"
              /\ RECOVERY_TIMELINE[3] = "rollback_flash_done"
              /\ RECOVERY_TIMELINE[4] = "rollback_boot_ready"
              /\ RECOVERY_TIMELINE[5] = "live_session_end"
          BY DEF RECOVERY_TIMELINE
        <5>. QED
          BY <5>1, <5>2
      <4>. QED
        BY <4>3, <4>4
    <3>. QED
      BY <3>1
  <2>3. IsPrefix(u, TIMELINE)
    <3>1. Len(TIMELINE) \in Nat
      BY <1>9
    <3>. QED
      BY <1>8, <2>1, <2>2, <3>1
  <2>. QED
    BY <1>6, <1>7, <2>3 DEF Ordered
<1>. QED
  BY <1>11, <1>12

\* A record that is admitted keeps the order.
LEMMA ApplyOrdered ==
  ASSUME NEW s \in Summary, Ordered(s), NEW r \in JournalRecord, Admits(s, r)
  PROVE  Apply(s, r) \in Summary /\ Ordered(Apply(s, r))
<1>1. CASE r.kind = "transition" /\ r.action \in NEXT_STATES[s.state]
  <2>1. r.action \in STATES
    BY <1>1 DEF JournalRecord, Transitions, Events, Checkpoints
  <2>2. Apply(s, r) = [s EXCEPT !.state = r.action]
    BY <1>1 DEF Apply
  <2>. QED
    BY <1>1, <2>1, <2>2, TransitionOrdered
<1>2. CASE r.kind = "event" /\ AdmitsEvent(s, r.action)
  <2>1. r.action \in DOMAIN EVENT_STATE
    BY <1>2 DEF JournalRecord, Transitions, Events, Checkpoints
  <2>2. Apply(s, r) = [s EXCEPT !.events = Append(@, r.action)]
    BY <1>2 DEF Apply
  <2>. QED
    BY <1>2, <2>1, <2>2, EventOrdered
<1>3. CASE r.kind = "checkpoint" /\ AdmitsCheckpoint(s, r.action, r.attempt)
  <2>1. r.action \in DOMAIN CHECKPOINT_STATE
    BY <1>3 DEF JournalRecord, Transitions, Events, Checkpoints
  <2>2. Apply(s, r) = [s EXCEPT !.attempts[r.action] = r.attempt]
    BY <1>3 DEF Apply
  <2>. QED
    BY <1>3, <2>1, <2>2, CheckpointOrdered
<1>. QED
  BY <1>1, <1>2, <1>3 DEF Admits

\* Every prefix of the chain has one summary, and an ordered one; the record
\* that is being written was admitted at the end of the chain.
Legible ==
    \A m \in 0..Len(records) :
        /\ \E f : Only(f, records, m)
        /\ SummaryOf(records, m) \in Summary /\ Ordered(SummaryOf(records, m))
Admitted == pc = "record_created" => Admits(SummaryOf(records, Len(records)), pend)
Fresh == directory = "absent" => records = << >>

TInv == IInv /\ Legible /\ Admitted /\ Fresh

LEMMA TInvInit == ASSUME Init PROVE TInv
<1>1. IInv
  BY InitInductive
<1>2. Len(records) = 0 /\ 0..0 = {0}
  BY DEF Init
<1>3. Legible
  BY <1>2, OnlyEmpty, BlankOrdered DEF Legible
<1>. QED
  BY <1>1, <1>3 DEF Init, TInv, Admitted, Fresh

\* Steps that leave the records alone.
LEMMA TInvSame ==
  ASSUME TInv, IInv', records' = records,
         pc' = "record_created" => Admits(SummaryOf(records, Len(records)), pend'),
         directory' = "absent" => directory = "absent"
  PROVE  TInv'
<1>1. Legible'
  BY DEF TInv, Legible
<1>. QED
  BY <1>1 DEF TInv, Admitted, Fresh

LEMMA TInvWrite == ASSUME TInv, IInv', WriteRecord PROVE TInv'
<1>1. PICK n \in Nat : n = Len(records)
  BY DEF TInv, IInv, FilesOK
<1>2. /\ records \in Seq(JournalRecord) /\ pend \in JournalRecord
      /\ records' = Append(records, pend)
  BY DEF TInv, IInv, FilesOK, Progress, WriteRecord
<1>3. /\ Len(records') = n + 1 /\ records'[n + 1] = pend
      /\ \A i \in 1..n : records'[i] = records[i]
  BY <1>1, <1>2
<1>4. Admits(SummaryOf(records, n), pend)
  BY <1>1 DEF TInv, Admitted, WriteRecord
<1>5. ASSUME NEW m \in 0..n
      PROVE  /\ \E f : Only(f, records', m)
             /\ SummaryOf(records', m) \in Summary /\ Ordered(SummaryOf(records', m))
             /\ SummaryOf(records', m) = SummaryOf(records, m)
  <2>1. PICK f : Only(f, records, m)
    BY <1>1 DEF TInv, Legible
  <2>2. m \in Nat /\ \A i \in 1..m : records'[i] = records[i]
    BY <1>3
  <2>3. Only(f, records', m) /\ SummaryOf(records', m) = SummaryOf(records, m)
    BY <2>1, <2>2, OnlyAgree
  <2>4. SummaryOf(records, m) \in Summary /\ Ordered(SummaryOf(records, m))
    BY <1>1 DEF TInv, Legible
  <2>. QED
    BY <2>3, <2>4
<1>6. /\ \E f : Only(f, records', n + 1)
      /\ SummaryOf(records', n + 1) \in Summary /\ Ordered(SummaryOf(records', n + 1))
  <2>1. n \in 0..n
    OBVIOUS
  <2>2. PICK f : Only(f, records', n)
    BY <1>5, <2>1
  <2>3. SummaryOf(records', n) = f[n]
    BY <2>2, OnlySummary
  <2>4. PICK h : Only(h, records', n + 1) /\ h[n + 1] = Apply(f[n], records'[n + 1])
    BY <2>2, OnlyNext
  <2>5. SummaryOf(records', n + 1) = Apply(f[n], pend)
    BY <1>3, <2>4, OnlySummary
  <2>6. f[n] \in Summary /\ Ordered(f[n]) /\ Admits(f[n], pend)
    BY <1>4, <1>5, <2>1, <2>3
  <2>. QED
    BY <1>2, <2>4, <2>5, <2>6, ApplyOrdered
<1>7. Legible'
  <2>1. \A m \in 0..(n + 1) : m \in 0..n \/ m = n + 1
    OBVIOUS
  <2>2. \A m \in 0..(n + 1) :
           /\ \E f : Only(f, records', m)
           /\ SummaryOf(records', m) \in Summary /\ Ordered(SummaryOf(records', m))
    BY <1>5, <1>6, <2>1
  <2>. QED
    BY <1>3, <2>2 DEF Legible
<1>8. Admitted' /\ Fresh'
  <2>1. pc' = "record_written" /\ directory' = directory /\ directory # "absent"
    BY DEF WriteRecord, TInv, IInv, Progress
  <2>. QED
    BY <2>1 DEF Admitted, Fresh
<1>. QED
  BY <1>7, <1>8 DEF TInv

LEMMA TInvCut == ASSUME TInv, IInv', PowerCut PROVE TInv'
<1>1. PICK n \in 0..Len(records) :
         Len(records') = n /\ \A i \in 1..n : records'[i] = records[i]
  <2>1. records \in Seq(JournalRecord) /\ synced \in 0..Len(records)
    BY DEF TInv, IInv, FilesOK
  <2>2. CASE records' = << >>
    BY <2>1, <2>2
  <2>3. ASSUME NEW n \in synced..Len(records), records' = SubSeq(records, 1, n)
        PROVE  \E k \in 0..Len(records) :
                  Len(records') = k /\ \A i \in 1..k : records'[i] = records[i]
    BY <2>1, <2>3
  <2>. QED
    BY <2>2, <2>3 DEF PowerCut
<1>2. Legible'
  <2>1. ASSUME NEW m \in 0..n
        PROVE  /\ \E f : Only(f, records', m)
               /\ SummaryOf(records', m) \in Summary /\ Ordered(SummaryOf(records', m))
    <3>1. m \in 0..Len(records) /\ m \in Nat /\ \A i \in 1..m : records'[i] = records[i]
      <4>1. Len(records) \in Nat
        BY DEF TInv, IInv, FilesOK
      <4>. QED
        BY <1>1, <4>1
    <3>2. PICK f : Only(f, records, m)
      BY <3>1 DEF TInv, Legible
    <3>3. Only(f, records', m) /\ SummaryOf(records', m) = SummaryOf(records, m)
      BY <3>1, <3>2, OnlyAgree
    <3>4. SummaryOf(records, m) \in Summary /\ Ordered(SummaryOf(records, m))
      BY <3>1 DEF TInv, Legible
    <3>. QED
      BY <3>3, <3>4
  <2>. QED
    BY <1>1, <2>1 DEF Legible
<1>3. Admitted' /\ Fresh'
  BY DEF PowerCut, Admitted, Fresh
<1>. QED
  BY <1>2, <1>3 DEF TInv

LEMMA TInvStep == ASSUME TInv, [Next]_vars PROVE TInv'
<1>0. IInv'
  BY NextInductive DEF TInv
<1>1. CASE Create
  <2>1. records = << >> /\ Len(records) = 0
    BY <1>1 DEF Create, TInv, Fresh
  <2>2. SummaryOf(records, Len(records)) = Blank
    BY <2>1, OnlyEmpty
  <2>3. Admits(Blank, To("PREFLIGHT"))
    BY DEF Admits, Blank, To, NEXT_STATES, NoState
  <2>4. records' = records /\ pend' = To("PREFLIGHT") /\ directory' # "absent"
    BY <1>1 DEF Create, CreateRecord
  <2>. QED
    BY <1>0, <2>2, <2>3, <2>4, TInvSame
<1>2. ASSUME NEW r \in JournalRecord, Append_(r) PROVE TInv'
  <2>1. Admits(SummaryOf(records, Len(records)), r)
    BY <1>2, CurrentSummary DEF Append_
  <2>2. records' = records /\ pend' = r /\ directory' = directory
    BY <1>2 DEF Append_, CreateRecord
  <2>. QED
    BY <1>0, <2>1, <2>2, TInvSame
<1>3. CASE WriteRecord
  BY <1>0, <1>3, TInvWrite
<1>4. CASE PowerCut
  BY <1>0, <1>4, TInvCut
<1>5. CASE SyncRecord \/ StageHead \/ ReplaceHead \/ FinishAppend \/ ReopenStep \/ Crash
  <2>1. records' = records /\ directory' = directory /\ pc' # "record_created"
    BY <1>5 DEF SyncRecord, StageHead, ReplaceHead, FinishAppend, ReopenStep, Reopen,
                ReopenStage, ReopenReplace, ReopenFinish, Stage, Replace, Crash, files
  <2>. QED
    BY <1>0, <2>1, TInvSame
<1>6. CASE UNCHANGED vars
  <2>1. records' = records /\ directory' = directory /\ pc' = pc /\ pend' = pend
    BY <1>6 DEF vars, files
  <2>. QED
    BY <1>0, <2>1, TInvSame DEF TInv, Admitted
<1>. QED
  BY <1>1, <1>2, <1>3, <1>4, <1>5, <1>6 DEF Next, AppendStep

\* Every prefix of a journal stays legible, whatever happens to it.
THEOREM JournalLegible == Spec => []TInv
<1>1. Init => TInv
  BY TInvInit
<1>2. TInv /\ [Next]_vars => TInv'
  BY TInvStep
<1>. QED
  BY <1>1, <1>2, PTL DEF Spec

LEMMA CurrentOrdered == ASSUME TInv PROVE Current \in Summary /\ Ordered(Current)
<1>1. Len(records) \in 0..Len(records)
  BY DEF TInv, IInv, FilesOK
<1>. QED
  BY <1>1, CurrentSummary DEF TInv, Legible

\* Every reachable journal state is well typed, and the chain never counts more
\* transfer attempts than _validate_checkpoint admits (class Journal).
THEOREM JournalTypes == Spec => []TypeOK
<1>1. TInv => TypeOK
  BY CurrentOrdered DEF TInv, IInv, TypeOK
<1>. QED
  BY <1>1, JournalLegible, PTL

\* The events of a journal follow one of the two timelines, however often
\* _append chooses the order anew, a process dies or the host loses power.
THEOREM JournalOneTimeline == Spec => []OneTimeline
<1>1. TInv => OneTimeline
  BY CurrentOrdered DEF Ordered, OneTimeline
<1>. QED
  BY <1>1, JournalLegible, PTL
=============================================================================
