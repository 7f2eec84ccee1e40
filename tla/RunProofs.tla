----------------------------- MODULE RunProofs -----------------------------
(***************************************************************************)
(* Proofs about F1Run, for any set of runs, any assignment of candidates   *)
(* and any number of faults: its types, CandidateOnce, TransfersRecorded,  *)
(* EffectsOwned, TargetReturned, NeverRefused, NoInventedAttempt,          *)
(* PreEffectHonest, and that it implements the ClaimLedger.                *)
(*                                                                         *)
(* None of them is inductive.  The invariant Inv says of every run how far *)
(* its journal is (Chain), how its attempts are numbered (Numbered), in    *)
(* which order its files appear (Files), what its claim says of them       *)
(* (Claimed) and what owning the target says of the image (Owning), and    *)
(* what a process has found out where it stands (Exclusive to Recovering); *)
(* Claims relates the runs.  A process that is not idle has the lease, so  *)
(* that a step of one run leaves what Inv says of the others (OtherRuns),  *)
(* and the proof is one lemma per action about the run that takes it.      *)
(***************************************************************************)
EXTENDS F1Run, TLAPS

----------------------------------------------------------------------------
(* The inductive invariant.                                                *)

Count(p) == Len(disk[p].j.events)
Begun(p) == Recorded(p, "candidate_flash_start")

\* The events of a journal follow one of the two timelines, from its start.
Told(j) ==
    /\ Has(j, "candidate_flash_start") =>
          Len(j.events) \in 2..8 /\ \A i \in 1..Len(j.events) : j.events[i] = TIMELINE[i]
    /\ ~Has(j, "candidate_flash_start") =>
          Len(j.events) \in 0..5 /\ \A i \in 1..Len(j.events) : j.events[i] = RECOVERY_TIMELINE[i]

\* How many events there are in state s, of a run that began a candidate
\* transfer (c) or did not.
Pace(s, c, n) ==
    /\ s \in {NoState, "PREFLIGHT", "APPROVED"} => ~c
    /\ s \in {"CANDIDATE_FLASHED", "OBSERVED"} => c
    /\ s = NoState => n = 0
    /\ s = "PREFLIGHT" => n \in {0, 1}
    /\ s = "APPROVED" => n = 1
    /\ s = "DOWNLOAD_IDENTIFIED" => n = IF c THEN 2 ELSE 1
    /\ s = "CANDIDATE_FLASHED" => n \in {2, 3}
    /\ s = "OBSERVED" => n \in {3, 4}
    /\ s = "RECOVERY_DOWNLOAD" => n \in IF c THEN {4, 5} ELSE {1, 2}
    /\ s = "ROLLBACK_FLASHED" => n \in IF c THEN {5, 6} ELSE {2, 3}
    /\ s = "HEALTH_VERIFIED" => n \in IF c THEN {6, 7, 8} ELSE {3, 4, 5}

Chain(p) == Told(disk[p].j) /\ Pace(State(p), Begun(p), Count(p))

\* Attempts are numbered by their start files, checkpointed after them and
\* transferred after that.
Ordered(p, k) ==
    /\ tries[p][k] <= disk[p].j.attempts[k]
    /\ disk[p].j.attempts[k] <= disk[p].starts[k]
    /\ disk[p].starts[k] <= disk[p].j.attempts[k] + 1
    /\ \A n \in 1..MAX_ATTEMPTS : n > disk[p].starts[k] => disk[p].result[k][n] = "none"

\* A candidate has one attempt, and a rollback belongs to recovery.
Numbered(p) ==
    /\ Ordered(p, "candidate") /\ Ordered(p, "rollback")
    /\ disk[p].starts["candidate"] <= 1
    /\ disk[p].starts["candidate"] = 1 => State(p) = "DOWNLOAD_IDENTIFIED" \/ Begun(p)
    /\ Begun(p) => disk[p].j.attempts["candidate"] = 1
    /\ disk[p].starts["rollback"] > 0 => State(p) \in RECOVERY_EVENT_STATES \cup {"CLOSED", "ABORTED"}
    /\ State(p) \in {"ROLLBACK_FLASHED", "HEALTH_VERIFIED", "CLOSED"} => RollbackDone(p)

\* The files of a run appear in the order in which they are written.
Files(p) ==
    /\ ~disk[p].transaction => State(p) = NoState
    /\ State(p) \in {NoState, "PREFLIGHT"} => ~disk[p].request
    /\ State(p) = "APPROVED" => ~disk[p].claimIntent
    /\ disk[p].claimIntent => disk[p].request
    /\ disk[p].starts["candidate"] > 0 \/ disk[p].starts["rollback"] > 0 => disk[p].request
    /\ disk[p].cut # "none" => State(p) \in RECOVERY_EVENT_STATES \cup {"CLOSED", "ABORTED"}
    /\ State(p) \in RECOVERY_EVENT_STATES /\ ~Begun(p) => disk[p].cut # "none"

\* The run and its claim.
Claimed(p) ==
    /\ p \in active \/ disk[p].claimReceipt => disk[p].claimIntent
    /\ p \in granted <=> disk[p].claimReceipt
    /\ p \in failures \cup sessions => tries[p]["candidate"] = 1
    /\ tries[p]["candidate"] = 1 => Begun(p)
    /\ p \in failures => p \notin sessions
    /\ p \in sessions => p \in active
    /\ disk[p].cls = LOCAL_PARSE \/ disk[p].result["candidate"][1] = LOCAL_PARSE => p \in failures
    /\ disk[p].live \in {"pre_effect", "local_parse"} => State(p) = "ABORTED" /\ NoCandidateSession(p)

\* A run that asked for Download mode owns the target until it is closed, and
\* the image is the stock one whenever its files would let it go.
Owning(p) ==
    /\ disk[p].request /\ State(p) # "CLOSED" => owner = p
    /\ owner = p => State(p) \notin {NoState, "PREFLIGHT"}
    /\ owner = p /\ (~disk[p].request \/ RollbackDone(p)) => image = "stock"
    /\ At(p, "store") /\ mem[p].kind = "rollback" /\ mem[p].pend = COMPLETED => image = "stock"

Opening == {"recheck", "preflight", "session_start", "approve", "arm", "arm_failed", "own"}
Asking == {"request", "request_download", "wait", "identify"}
Claiming == {"claim_intent", "claim", "claim_receipt"}
Attempting == {"begin", "checkpoint", "flash_start", "transfer", "store", "save"}
Releasing == {"release", "release_receipt"}
Resuming == {"cut", "normalize", "repair"}
Verifying == {"capture", "recapture", "verified", "health"}
Live == Asking \cup Claiming \cup Attempting \cup Resuming \cup Verifying
          \cup {"advance", "observed", "parked", "revalidation", "exact", "finish", "adopt"}
Terminal == {"CLOSED", "ABORTED"}

\* Who executes, and which run owns the target meanwhile.
Exclusive(p) ==
    /\ At(p, "idle") => mem[p] = Idle
    /\ ~At(p, "idle") => lease = p
    /\ mem[p].pc \in Opening => owner = None /\ ~disk[p].request /\ Unconsumed(p)
    /\ mem[p].pc \in Live => owner = p /\ State(p) \notin {NoState} \cup Terminal
    /\ mem[p].pc \in Live \ ({"request"} \cup Resuming) => disk[p].request
    /\ mem[p].pc \in Opening \cup Asking \cup Claiming => mem[p].caller = "execute"
    /\ mem[p].pc \notin {"idle", "recheck"} => disk[p].transaction

\* The execution, label by label.
Executing(p) ==
    /\ mem[p].pc \in {"recheck", "preflight"} => State(p) = NoState
    /\ mem[p].pc \in {"session_start", "approve"} => State(p) = "PREFLIGHT"
    /\ At(p, "session_start") => Count(p) = 0
    /\ At(p, "approve") => Count(p) = 1
    /\ mem[p].pc \in {"arm", "arm_failed", "own"} \cup Asking => State(p) = "APPROVED"
    /\ mem[p].pc \in Claiming => /\ State(p) = "DOWNLOAD_IDENTIFIED"
                                 /\ disk[p].starts["candidate"] = 0
                                 /\ ~disk[p].claimReceipt
    /\ mem[p].pc \in {"claim_intent", "claim"} => p \notin active
    /\ mem[p].pc \in {"claim", "claim_receipt"} => disk[p].claimIntent
    /\ At(p, "claim_receipt") => p \in active

\* A transfer attempt, label by label.
Transferring(p) ==
    LET k == mem[p].kind
        d == disk[p] IN
    /\ mem[p].pc \in Attempting =>
          /\ k = "candidate" => State(p) = "DOWNLOAD_IDENTIFIED"
          /\ k = "rollback" => State(p) = "RECOVERY_DOWNLOAD" /\ Recorded(p, "rollback_flash_start")
    /\ mem[p].pc \in {"begin", "checkpoint", "flash_start", "transfer"} /\ k = "candidate" =>
          p \in active /\ d.claimReceipt /\ tries[p]["candidate"] = 0
    /\ At(p, "begin") => d.starts[k] = d.j.attempts[k]
    /\ At(p, "begin") /\ k = "candidate" => d.starts["candidate"] = 0
    /\ At(p, "checkpoint") => d.starts[k] = d.j.attempts[k] + 1
    /\ mem[p].pc \in {"flash_start", "transfer", "store", "save"} =>
          d.starts[k] = d.j.attempts[k] /\ d.starts[k] > 0
    /\ mem[p].pc \in {"flash_start", "transfer"} => tries[p][k] < d.j.attempts[k]
    /\ At(p, "flash_start") => k = "candidate" /\ ~Begun(p)
    /\ mem[p].pc \in {"checkpoint", "transfer"} => ~RollbackDone(p)
    /\ mem[p].pc \in {"transfer", "store", "save"} /\ k = "candidate" => Begun(p)
    /\ mem[p].pc \in {"store", "save"} => mem[p].pend \in Outcome
    /\ mem[p].pc \in {"store", "save"} /\ k = "candidate" /\ mem[p].pend = LOCAL_PARSE => p \in failures
    /\ mem[p].pc \in Attempting /\ k = "candidate" => mem[p].caller = "execute"
    /\ At(p, "save") => d.result[k][d.starts[k]] = mem[p].pend

\* Release, abort and publication.
Ending(p) ==
    /\ mem[p].pc \in Releasing => p \in failures
    /\ mem[p].pc \in Releasing /\ mem[p].caller # "aborted" => State(p) \notin {NoState} \cup Terminal
    /\ At(p, "release_receipt") => mem[p].pend \in {"first", "retry"}
    /\ At(p, "abort") => /\ State(p) \notin {NoState} \cup Terminal /\ NoCandidateSession(p)
                         /\ disk[p].starts["candidate"] = 1 => Begun(p)
    /\ mem[p].pc \in {"publish", "retire"} /\ mem[p].verdict \in {"pre_effect", "local_parse"}
          => NoCandidateSession(p)

\* Recovery, label by label.
Recovering(p) ==
    /\ mem[p].pc \in Resuming => mem[p].caller = "normalize"
    /\ mem[p].pc \in {"exact", "parked"} =>
          /\ State(p) \in {"APPROVED", "DOWNLOAD_IDENTIFIED"}
          /\ ~Begun(p) /\ disk[p].starts["candidate"] = 0
    /\ At(p, "revalidation") => State(p) = "RECOVERY_DOWNLOAD" /\ disk[p].j.attempts["revalidation"] = 0
    /\ mem[p].pc \in {"normalize", "repair"} /\ disk[p].starts["candidate"] = 0 => ~disk[p].request
    /\ mem[p].pc \in {"advance", "observed"} =>
          /\ disk[p].j.attempts["candidate"] = 1
          /\ State(p) # "APPROVED"
    /\ At(p, "observed") => State(p) = "CANDIDATE_FLASHED" /\ Recorded(p, "candidate_flash_done")
    /\ At(p, "finish") => /\ State(p) \in {"OBSERVED"} \cup RECOVERY_EVENT_STATES
                          /\ State(p) = "OBSERVED" => Recorded(p, "candidate_boot_ready")
    /\ At(p, "adopt") => /\ State(p) = "RECOVERY_DOWNLOAD" /\ RollbackDone(p)
                         /\ Recorded(p, "rollback_flash_start")
    /\ mem[p].pc \in Verifying => State(p) = "ROLLBACK_FLASHED" /\ Recorded(p, "rollback_flash_done")

Local(p) == /\ Chain(p) /\ Numbered(p) /\ Files(p) /\ Claimed(p) /\ Owning(p)
            /\ Exclusive(p) /\ Executing(p) /\ Transferring(p) /\ Ending(p) /\ Recovering(p)

Claims ==
    /\ \A p, q \in active : CandOf[p] = CandOf[q] => p = q
    /\ owner # None => ~ForeignClaim(owner)
    /\ owner = None => image = "stock"

Inv == TypeOK /\ NeverRefused /\ Claims /\ \A p \in Run : Local(p)
----------------------------------------------------------------------------
(* The journal.                                                            *)

\* The order in which the events of a run are recorded, and in which states.
Follows(s, c, n, event) ==
    \/ event = "live_session_start" /\ s = "PREFLIGHT" /\ ~c /\ n = 0
    \/ event = "candidate_flash_start" /\ s = "DOWNLOAD_IDENTIFIED" /\ ~c /\ n = 1
    \/ event = "candidate_flash_done" /\ s = "CANDIDATE_FLASHED" /\ c /\ n = 2
    \/ event = "candidate_boot_ready" /\ s = "OBSERVED" /\ c /\ n = 3
    \/ event = "rollback_flash_start" /\ s = "RECOVERY_DOWNLOAD" /\ ((c /\ n = 4) \/ (~c /\ n = 1))
    \/ event = "rollback_flash_done" /\ s = "ROLLBACK_FLASHED" /\ ((c /\ n = 5) \/ (~c /\ n = 2))
    \/ event = "rollback_boot_ready" /\ s = "HEALTH_VERIFIED" /\ ((c /\ n = 6) \/ (~c /\ n = 3))
    \/ event = "live_session_end" /\ s = "HEALTH_VERIFIED" /\ ((c /\ n = 7) \/ (~c /\ n = 4))

Event == {"live_session_start", "candidate_flash_start", "candidate_flash_done",
          "candidate_boot_ready", "rollback_flash_start", "rollback_flash_done",
          "rollback_boot_ready", "live_session_end"}

\* The timelines, event by event.
LEMMA Timelines ==
    /\ DOMAIN EVENT_STATE = Event /\ Len(TIMELINE) = 8 /\ Len(RECOVERY_TIMELINE) = 5
    /\ TIMELINE[1] = "live_session_start" /\ TIMELINE[2] = "candidate_flash_start"
    /\ TIMELINE[3] = "candidate_flash_done" /\ TIMELINE[4] = "candidate_boot_ready"
    /\ TIMELINE[5] = "rollback_flash_start" /\ TIMELINE[6] = "rollback_flash_done"
    /\ TIMELINE[7] = "rollback_boot_ready" /\ TIMELINE[8] = "live_session_end"
    /\ RECOVERY_TIMELINE[1] = "live_session_start"
    /\ RECOVERY_TIMELINE[2] = "rollback_flash_start"
    /\ RECOVERY_TIMELINE[3] = "rollback_flash_done"
    /\ RECOVERY_TIMELINE[4] = "rollback_boot_ready"
    /\ RECOVERY_TIMELINE[5] = "live_session_end"
<1>1. DOMAIN EVENT_STATE = Event
  BY DEF EVENT_STATE, Event
<1>2. QED
  BY <1>1 DEF TIMELINE, RECOVERY_TIMELINE

\* Every event is at one place of a timeline.
LEMMA Places ==
    /\ \A i \in 1..8 : /\ TIMELINE[i] = "candidate_flash_done" <=> i = 3
                       /\ TIMELINE[i] = "candidate_boot_ready" <=> i = 4
                       /\ TIMELINE[i] = "rollback_flash_start" <=> i = 5
                       /\ TIMELINE[i] = "rollback_flash_done" <=> i = 6
                       /\ TIMELINE[i] = "rollback_boot_ready" <=> i = 7
                       /\ TIMELINE[i] = "live_session_end" <=> i = 8
    /\ \A i \in 1..5 : /\ RECOVERY_TIMELINE[i] = "rollback_flash_start" <=> i = 2
                       /\ RECOVERY_TIMELINE[i] = "rollback_flash_done" <=> i = 3
                       /\ RECOVERY_TIMELINE[i] = "rollback_boot_ready" <=> i = 4
                       /\ RECOVERY_TIMELINE[i] = "live_session_end" <=> i = 5
                       /\ RECOVERY_TIMELINE[i] \notin {"candidate_flash_done", "candidate_boot_ready"}
<1>1. \A i \in 1..8 : i \in {1, 2, 3, 4, 5, 6, 7, 8}
  OBVIOUS
<1>2. \A i \in 1..5 : i \in {1, 2, 3, 4, 5}
  OBVIOUS
<1>3. QED
  BY <1>1, <1>2, Timelines

\* Which events a journal has, from their number.
Marked(j) ==
    LET c == Has(j, "candidate_flash_start")
        n == Len(j.events)
    IN /\ n \in Nat
       /\ Has(j, "candidate_flash_done") <=> c /\ n >= 3
       /\ Has(j, "candidate_boot_ready") <=> c /\ n >= 4
       /\ Has(j, "rollback_flash_start") <=> n >= IF c THEN 5 ELSE 2
       /\ Has(j, "rollback_flash_done") <=> n >= IF c THEN 6 ELSE 3
       /\ Has(j, "rollback_boot_ready") <=> n >= IF c THEN 7 ELSE 4
       /\ Has(j, "live_session_end") <=> n >= IF c THEN 8 ELSE 5

\* The number of its events says which ones a journal has.
LEMMA EventFacts == ASSUME NEW j \in Summary, Told(j) PROVE Marked(j)
<1> DEFINE n == Len(j.events)
<1>1. n \in Nat
  BY DEF Summary
<1>2. CASE Has(j, "candidate_flash_start")
  <2>1. n \in 2..8 /\ \A i \in 1..n : j.events[i] = TIMELINE[i]
    BY <1>2 DEF Told
  <2> HIDE DEF n
  <2>3. \A e : Has(j, e) <=> \E i \in 1..n : TIMELINE[i] = e
    BY <2>1 DEF Has, n
  <2>4. Has(j, "candidate_flash_done") <=> n >= 3
    BY <1>1, <2>1, <2>3, Places
  <2>5. Has(j, "candidate_boot_ready") <=> n >= 4
    BY <1>1, <2>1, <2>3, Places
  <2>6. Has(j, "rollback_flash_start") <=> n >= 5
    BY <1>1, <2>1, <2>3, Places
  <2>7. Has(j, "rollback_flash_done") <=> n >= 6
    BY <1>1, <2>1, <2>3, Places
  <2>8. Has(j, "rollback_boot_ready") <=> n >= 7
    BY <1>1, <2>1, <2>3, Places
  <2>9. Has(j, "live_session_end") <=> n >= 8
    BY <1>1, <2>1, <2>3, Places
  <2>10. QED
    BY <1>1, <1>2, <2>4, <2>5, <2>6, <2>7, <2>8, <2>9 DEF n, Marked
<1>3. CASE ~Has(j, "candidate_flash_start")
  <2>1. n \in 0..5 /\ \A i \in 1..n : j.events[i] = RECOVERY_TIMELINE[i]
    BY <1>3 DEF Told
  <2> HIDE DEF n
  <2>3. \A e : Has(j, e) <=> \E i \in 1..n : RECOVERY_TIMELINE[i] = e
    BY <2>1 DEF Has, n
  <2>4. Has(j, "rollback_flash_start") <=> n >= 2
    BY <1>1, <2>1, <2>3, Places
  <2>5. Has(j, "rollback_flash_done") <=> n >= 3
    BY <1>1, <2>1, <2>3, Places
  <2>6. Has(j, "rollback_boot_ready") <=> n >= 4
    BY <1>1, <2>1, <2>3, Places
  <2>7. Has(j, "live_session_end") <=> n >= 5
    BY <1>1, <2>1, <2>3, Places
  <2>8. ~Has(j, "candidate_flash_done") /\ ~Has(j, "candidate_boot_ready")
    BY <1>1, <2>1, <2>3, Places
  <2>9. QED
    BY <1>1, <1>3, <2>4, <2>5, <2>6, <2>7, <2>8 DEF n, Marked
<1>4. QED
  BY <1>2, <1>3

\* An event that follows is admitted, and the events stay on their timeline.
LEMMA EventStep ==
    ASSUME NEW j \in Summary, Told(j), NEW e,
           Follows(j.state, Has(j, "candidate_flash_start"), Len(j.events), e)
    PROVE  LET k == Apply(j, Happened(e))
           IN /\ Admits(j, Happened(e))
              /\ k \in Summary /\ Told(k) /\ k.state = j.state /\ k.attempts = j.attempts
              /\ Has(k, "candidate_flash_start") <=>
                    Has(j, "candidate_flash_start") \/ e = "candidate_flash_start"
              /\ Len(k.events) = Len(j.events) + 1
<1> DEFINE k == Apply(j, Happened(e))
           n == Len(j.events)
           c == Has(j, "candidate_flash_start")
<1>1. n \in Nat /\ j.events \in Seq(Event) /\ e \in Event
  BY Timelines DEF Summary, Follows, Event
<1>2. k = [j EXCEPT !.events = Append(j.events, e)]
  BY DEF Apply, Happened
<1>3. k \in Summary /\ k.state = j.state /\ k.attempts = j.attempts
      /\ k.events = Append(j.events, e)
  <2> DEFINE q == Append(j.events, e)
  <2>1. q \in Seq(DOMAIN EVENT_STATE)
    BY <1>1, Timelines
  <2> HIDE DEF q
  <2>2. [j EXCEPT !.events = q] \in Summary /\ [j EXCEPT !.events = q].events = q
        /\ [j EXCEPT !.events = q].state = j.state /\ [j EXCEPT !.events = q].attempts = j.attempts
    BY <2>1 DEF Summary
  <2>3. QED
    BY <1>2, <2>2 DEF q
<1>4. /\ Len(k.events) = n + 1 /\ k.events[n + 1] = e
      /\ \A i \in 1..n : k.events[i] = j.events[i]
  BY <1>1, <1>3
<1>5. /\ EVENT_STATE["live_session_start"] = "PREFLIGHT"
      /\ EVENT_STATE["candidate_flash_start"] = "DOWNLOAD_IDENTIFIED"
      /\ EVENT_STATE["candidate_flash_done"] = "CANDIDATE_FLASHED"
      /\ EVENT_STATE["candidate_boot_ready"] = "OBSERVED"
      /\ EVENT_STATE["rollback_flash_start"] = "RECOVERY_DOWNLOAD"
      /\ EVENT_STATE["rollback_flash_done"] = "ROLLBACK_FLASHED"
      /\ EVENT_STATE["rollback_boot_ready"] = "HEALTH_VERIFIED"
      /\ EVENT_STATE["live_session_end"] = "HEALTH_VERIFIED"
  BY DEF EVENT_STATE
<1> HIDE DEF k
<1>6. Has(k, "candidate_flash_start") <=> c \/ e = "candidate_flash_start"
  <2>1. \A i \in 1..Len(k.events) : i \in 1..n \/ i = n + 1
    BY <1>1, <1>4
  <2>2. \A i \in 1..n : i \in 1..Len(k.events)
    BY <1>1, <1>4
  <2>3. n + 1 \in 1..Len(k.events)
    BY <1>1, <1>4
  <2>4. QED
    BY <1>4, <2>1, <2>2, <2>3 DEF Has
<1>7. Order(j) = IF c \/ ~(j.state \in RECOVERY_EVENT_STATES) THEN TIMELINE ELSE RECOVERY_TIMELINE
  BY DEF Order
<1>a. /\ EVENT_STATE[e] = j.state
      /\ c => n + 1 \in 2..8 /\ e = TIMELINE[n + 1]
      /\ ~c /\ e # "candidate_flash_start" => n + 1 \in 1..5 /\ e = RECOVERY_TIMELINE[n + 1]
      /\ j.state \notin RECOVERY_EVENT_STATES => n + 1 \in 1..8 /\ e = TIMELINE[n + 1]
  <2> HIDE DEF c, n
  <2> USE <1>1, <1>5, Timelines DEF RECOVERY_EVENT_STATES
  <2>0. Follows(j.state, c, n, e)
    BY DEF c, n
  <2>1. CASE e = "live_session_start"
    BY <2>0, <2>1 DEF Follows
  <2>2. CASE e = "candidate_flash_start"
    BY <2>0, <2>2 DEF Follows
  <2>3. CASE e = "candidate_flash_done"
    BY <2>0, <2>3 DEF Follows
  <2>4. CASE e = "candidate_boot_ready"
    BY <2>0, <2>4 DEF Follows
  <2>5. CASE e = "rollback_flash_start"
    BY <2>0, <2>5 DEF Follows
  <2>6. CASE e = "rollback_flash_done"
    BY <2>0, <2>6 DEF Follows
  <2>7. CASE e = "rollback_boot_ready"
    BY <2>0, <2>7 DEF Follows
  <2>8. CASE e = "live_session_end"
    BY <2>0, <2>8 DEF Follows
  <2>9. QED
    BY <2>1, <2>2, <2>3, <2>4, <2>5, <2>6, <2>7, <2>8 DEF Event
<1>8. Admits(j, Happened(e))
  <2>0. j.state \in RECOVERY_EVENT_STATES => e # "candidate_flash_start"
    BY DEF Follows, RECOVERY_EVENT_STATES
  <2>1. AdmitsEvent(j, e)
    <3>1. CASE c \/ j.state \notin RECOVERY_EVENT_STATES
      <4>1. Order(j) = TIMELINE /\ n < 8 /\ e = TIMELINE[n + 1]
        BY <1>1, <1>a, <1>7, <3>1
      <4>2. QED
        BY <1>a, <4>1, Timelines DEF AdmitsEvent
    <3>2. CASE ~c /\ j.state \in RECOVERY_EVENT_STATES
      <4>1. Order(j) = RECOVERY_TIMELINE /\ n < 5 /\ e = RECOVERY_TIMELINE[n + 1]
        BY <1>1, <1>a, <1>7, <2>0, <3>2
      <4>2. QED
        BY <1>a, <4>1, Timelines DEF AdmitsEvent
    <3>3. QED
      BY <3>1, <3>2
  <2>2. QED
    BY <2>1 DEF Admits, Happened
<1>9. Told(k)
  <2>1. CASE c
    <3>1. n \in 2..8 /\ \A i \in 1..n : j.events[i] = TIMELINE[i]
      BY <2>1 DEF Told
    <3>2. n + 1 \in 2..8 /\ e = TIMELINE[n + 1]
      BY <2>1, <1>a
    <3>3. \A i \in 1..(n + 1) : k.events[i] = TIMELINE[i]
      BY <1>1, <1>4, <3>1, <3>2
    <3>4. QED
      BY <1>4, <1>6, <2>1, <3>2, <3>3 DEF Told
  <2>2. CASE ~c /\ e # "candidate_flash_start"
    <3>1. n \in 0..5 /\ \A i \in 1..n : j.events[i] = RECOVERY_TIMELINE[i]
      BY <2>2 DEF Told
    <3>2. n + 1 \in 0..5 /\ e = RECOVERY_TIMELINE[n + 1]
      BY <1>1, <2>2, <1>a
    <3>3. \A i \in 1..(n + 1) : k.events[i] = RECOVERY_TIMELINE[i]
      BY <1>1, <1>4, <3>1, <3>2
    <3>4. QED
      BY <1>4, <1>6, <2>2, <3>2, <3>3 DEF Told
  <2>3. CASE ~c /\ e = "candidate_flash_start"
    <3>1. n = 1 /\ \A i \in 1..n : j.events[i] = RECOVERY_TIMELINE[i]
      BY <2>3 DEF Told, Follows
    <3>2. \A i \in 1..2 : k.events[i] = TIMELINE[i]
      <4>1. k.events[1] = TIMELINE[1] /\ k.events[2] = TIMELINE[2]
        BY <1>4, <2>3, <3>1, Timelines
      <4>2. \A i \in 1..2 : i = 1 \/ i = 2
        OBVIOUS
      <4>3. QED
        BY <4>1, <4>2
    <3>3. QED
      BY <1>4, <1>6, <2>3, <3>1, <3>2 DEF Told
  <2>4. QED
    BY <2>1, <2>2, <2>3
<1>10. QED
  BY <1>3, <1>4, <1>6, <1>8, <1>9 DEF k

\* A transition that the table allows is admitted and changes the state only.
LEMMA TransitionStep ==
    ASSUME NEW j \in Summary, NEW x \in STATES
    PROVE  LET k == Apply(j, To(x))
           IN /\ x \in NEXT_STATES[j.state] => Admits(j, To(x))
              /\ k \in Summary /\ k.state = x /\ k.events = j.events /\ k.attempts = j.attempts
<1>1. x \in NEXT_STATES[j.state] => Admits(j, To(x))
  BY DEF Admits, To
<1>2. Apply(j, To(x)) = [j EXCEPT !.state = x]
  BY DEF Apply, To
<1>3. QED
  BY <1>1, <1>2 DEF Summary

\* The next attempt is admitted in its state, and changes its number only.
LEMMA CheckpointStep ==
    ASSUME NEW j \in Summary, NEW kind \in DOMAIN CHECKPOINT_STATE,
           j.state = CHECKPOINT_STATE[kind],
           j.attempts[kind] < IF kind = "revalidation" THEN 1 ELSE MAX_TRANSFER_ATTEMPTS
    PROVE  LET n == j.attempts[kind] + 1
               k == Apply(j, Attempt(kind, n))
           IN /\ Admits(j, Attempt(kind, n))
              /\ k \in Summary /\ k.state = j.state /\ k.events = j.events
              /\ k.attempts[kind] = n
              /\ \A other \in DOMAIN CHECKPOINT_STATE :
                    other # kind => k.attempts[other] = j.attempts[other]
<1> DEFINE n == j.attempts[kind] + 1
           a == [j.attempts EXCEPT ![kind] = n]
<1>1. j.attempts \in [DOMAIN CHECKPOINT_STATE -> 0..MAX_TRANSFER_ATTEMPTS]
  BY DEF Summary
<1>2. j.attempts[kind] \in 0..MAX_TRANSFER_ATTEMPTS /\ MAX_TRANSFER_ATTEMPTS = 2
  BY <1>1 DEF MAX_TRANSFER_ATTEMPTS
<1>3. n \in 0..MAX_TRANSFER_ATTEMPTS
  BY <1>2
<1>4. a \in [DOMAIN CHECKPOINT_STATE -> 0..MAX_TRANSFER_ATTEMPTS]
  BY <1>1, <1>3
<1>5. Admits(j, Attempt(kind, n))
  <2>1. AdmitsCheckpoint(j, kind, n)
    BY <1>2 DEF AdmitsCheckpoint
  <2>2. QED
    BY <2>1 DEF Admits, Attempt
<1>6. Apply(j, Attempt(kind, n)) = [j EXCEPT !.attempts = a]
  BY DEF Apply, Attempt, Summary
<1>7. a[kind] = n /\ \A other \in DOMAIN CHECKPOINT_STATE :
                        other # kind => a[other] = j.attempts[other]
  BY <1>1
<1> HIDE DEF a
<1>8. QED
  BY <1>4, <1>5, <1>6, <1>7 DEF Summary

\* The transitions that the run makes are in the table.
LEMMA TransitionTable ==
    /\ "PREFLIGHT" \in NEXT_STATES[NoState] /\ "APPROVED" \in NEXT_STATES["PREFLIGHT"]
    /\ "DOWNLOAD_IDENTIFIED" \in NEXT_STATES["APPROVED"]
    /\ "RECOVERY_DOWNLOAD" \in NEXT_STATES["APPROVED"]
    /\ "CANDIDATE_FLASHED" \in NEXT_STATES["DOWNLOAD_IDENTIFIED"]
    /\ "RECOVERY_DOWNLOAD" \in NEXT_STATES["DOWNLOAD_IDENTIFIED"]
    /\ "OBSERVED" \in NEXT_STATES["CANDIDATE_FLASHED"]
    /\ "RECOVERY_DOWNLOAD" \in NEXT_STATES["OBSERVED"]
    /\ "ROLLBACK_FLASHED" \in NEXT_STATES["RECOVERY_DOWNLOAD"]
    /\ "HEALTH_VERIFIED" \in NEXT_STATES["ROLLBACK_FLASHED"]
    /\ "CLOSED" \in NEXT_STATES["HEALTH_VERIFIED"]
    /\ \A s \in STATES \ {"CLOSED", "ABORTED"} : "ABORTED" \in NEXT_STATES[s]
<1>1. \A s \in STATES \ {"CLOSED", "ABORTED"} : "ABORTED" \in NEXT_STATES[s]
  BY DEF STATES, NEXT_STATES
<1>2. QED
  BY <1>1 DEF NEXT_STATES, NoState

----------------------------------------------------------------------------
(* What the steps write.                                                   *)

\* The files of run p besides F, and those of every other run, stay.
Keeps(p, F) ==
    /\ disk' \in [Run -> Disk]
    /\ \A q \in Run : q # p => disk'[q] = disk[q]
    /\ "transaction" \notin F => disk'[p].transaction = disk[p].transaction
    /\ "j" \notin F => disk'[p].j = disk[p].j
    /\ "request" \notin F => disk'[p].request = disk[p].request
    /\ "claimIntent" \notin F => disk'[p].claimIntent = disk[p].claimIntent
    /\ "claimReceipt" \notin F => disk'[p].claimReceipt = disk[p].claimReceipt
    /\ "starts" \notin F => disk'[p].starts = disk[p].starts
    /\ "result" \notin F => disk'[p].result = disk[p].result
    /\ "cls" \notin F => disk'[p].cls = disk[p].cls
    /\ "cut" \notin F => disk'[p].cut = disk[p].cut
    /\ "live" \notin F => disk'[p].live = disk[p].live

\* The locals of p's process besides F, and those of the others, stay.
Moves(p, F) ==
    /\ mem' \in [Run -> Process]
    /\ \A q \in Run : q # p => mem'[q] = mem[q]
    /\ "caller" \notin F => mem'[p].caller = mem[p].caller
    /\ "kind" \notin F => mem'[p].kind = mem[p].kind
    /\ "pend" \notin F => mem'[p].pend = mem[p].pend
    /\ "verdict" \notin F => mem'[p].verdict = mem[p].verdict

\* A directory stays a directory when one of its files changes.
LEMMA DiskFields ==
    ASSUME NEW d \in Disk
    PROVE  /\ \A x \in BOOLEAN : /\ [d EXCEPT !.transaction = x] \in Disk
                                 /\ [d EXCEPT !.request = x] \in Disk
                                 /\ [d EXCEPT !.claimIntent = x] \in Disk
                                 /\ [d EXCEPT !.claimReceipt = x] \in Disk
                                 /\ [d EXCEPT !.accepted = x] \in Disk
                                 /\ [d EXCEPT !.verified = x] \in Disk
           /\ \A x \in Summary : [d EXCEPT !.j = x] \in Disk
           /\ \A x \in 0..MAX_ATTEMPTS : [d EXCEPT !.preflights = x] \in Disk
           /\ \A x \in {"first", "retry"} : [d EXCEPT !.releaseReceipt = x] \in Disk
           /\ \A x \in [Kind -> 0..MAX_ATTEMPTS] : [d EXCEPT !.starts = x] \in Disk
           /\ \A x \in [Kind -> [1..MAX_ATTEMPTS -> Outcome \cup {"none"}]] :
                 [d EXCEPT !.result = x] \in Disk
           /\ \A x \in Outcome : [d EXCEPT !.cls = x] \in Disk /\ [d EXCEPT !.rcls = x] \in Disk
           /\ \A x \in {"exact", "parked"} : [d EXCEPT !.cut = x] \in Disk
           /\ \A x \in 0..2 : [d EXCEPT !.captures = x] \in Disk
           /\ \A x \in Verdict : [d EXCEPT !.live = x] \in Disk
<1>1. \A x \in BOOLEAN : [d EXCEPT !.transaction = x] \in Disk
  BY DEF Disk
<1>2. \A x \in BOOLEAN : [d EXCEPT !.request = x] \in Disk
  BY DEF Disk
<1>3. \A x \in BOOLEAN : [d EXCEPT !.claimIntent = x] \in Disk
  BY DEF Disk
<1>4. \A x \in BOOLEAN : [d EXCEPT !.claimReceipt = x] \in Disk
  BY DEF Disk
<1>5. \A x \in BOOLEAN : [d EXCEPT !.accepted = x] \in Disk
  BY DEF Disk
<1>6. \A x \in BOOLEAN : [d EXCEPT !.verified = x] \in Disk
  BY DEF Disk
<1>7. \A x \in Summary : [d EXCEPT !.j = x] \in Disk
  BY DEF Disk
<1>8. \A x \in 0..MAX_ATTEMPTS : [d EXCEPT !.preflights = x] \in Disk
  BY DEF Disk
<1>9. \A x \in {"first", "retry"} : [d EXCEPT !.releaseReceipt = x] \in Disk
  BY DEF Disk
<1>10. \A x \in [Kind -> 0..MAX_ATTEMPTS] : [d EXCEPT !.starts = x] \in Disk
  BY DEF Disk
<1>11. \A x \in [Kind -> [1..MAX_ATTEMPTS -> Outcome \cup {"none"}]] : [d EXCEPT !.result = x] \in Disk
  BY DEF Disk
<1>12. \A x \in Outcome : [d EXCEPT !.cls = x] \in Disk
  BY DEF Disk
<1>13. \A x \in Outcome : [d EXCEPT !.rcls = x] \in Disk
  BY DEF Disk
<1>14. \A x \in {"exact", "parked"} : [d EXCEPT !.cut = x] \in Disk
  BY DEF Disk
<1>15. \A x \in 0..2 : [d EXCEPT !.captures = x] \in Disk
  BY DEF Disk
<1>16. \A x \in Verdict : [d EXCEPT !.live = x] \in Disk
  BY DEF Disk
<1>17. QED
  BY <1>1, <1>2, <1>3, <1>4, <1>5, <1>6, <1>7, <1>8, <1>9, <1>10, <1>11, <1>12, <1>13, <1>14, <1>15, <1>16

\* A step that replaces the directory of p leaves the others alone.
Turns(p, d) == /\ disk' \in [Run -> Disk] /\ disk'[p] = d
               /\ \A q \in Run : q # p => disk'[q] = disk[q]

\* Replacing one directory.
LEMMA DiskUpdate ==
    ASSUME disk \in [Run -> Disk], NEW p \in Run, NEW d \in Disk,
           disk' = [disk EXCEPT ![p] = d]
    PROVE  Turns(p, d)
  BY DEF Turns

\* The files that a write of one field keeps.
LEMMA FieldWrites ==
    ASSUME disk \in [Run -> Disk], NEW p \in Run
    PROVE  LET d == disk[p]
           IN /\ \A x \in BOOLEAN :
                    /\ disk' = [disk EXCEPT ![p] = [d EXCEPT !.transaction = x]]
                          => Keeps(p, {"transaction"}) /\ disk'[p].transaction = x
                    /\ disk' = [disk EXCEPT ![p] = [d EXCEPT !.request = x]]
                          => Keeps(p, {"request"}) /\ disk'[p].request = x
                    /\ disk' = [disk EXCEPT ![p] = [d EXCEPT !.claimIntent = x]]
                          => Keeps(p, {"claimIntent"}) /\ disk'[p].claimIntent = x
                    /\ disk' = [disk EXCEPT ![p] = [d EXCEPT !.claimReceipt = x]]
                          => Keeps(p, {"claimReceipt"}) /\ disk'[p].claimReceipt = x
                    /\ disk' = [disk EXCEPT ![p] = [d EXCEPT !.accepted = x]] => Keeps(p, {})
                    /\ disk' = [disk EXCEPT ![p] = [d EXCEPT !.verified = x]] => Keeps(p, {})
              /\ \A x \in Summary : disk' = [disk EXCEPT ![p] = [d EXCEPT !.j = x]]
                    => Keeps(p, {"j"}) /\ disk'[p].j = x
              /\ \A x \in 0..MAX_ATTEMPTS :
                    disk' = [disk EXCEPT ![p] = [d EXCEPT !.preflights = x]] => Keeps(p, {})
              /\ \A x \in {"first", "retry"} :
                    disk' = [disk EXCEPT ![p] = [d EXCEPT !.releaseReceipt = x]] => Keeps(p, {})
              /\ \A x \in [Kind -> 0..MAX_ATTEMPTS] :
                    disk' = [disk EXCEPT ![p] = [d EXCEPT !.starts = x]]
                       => Keeps(p, {"starts"}) /\ disk'[p].starts = x
              /\ \A x \in [Kind -> [1..MAX_ATTEMPTS -> Outcome \cup {"none"}]] :
                    disk' = [disk EXCEPT ![p] = [d EXCEPT !.result = x]]
                       => Keeps(p, {"result"}) /\ disk'[p].result = x
              /\ \A x \in Outcome :
                    /\ disk' = [disk EXCEPT ![p] = [d EXCEPT !.cls = x]]
                          => Keeps(p, {"cls"}) /\ disk'[p].cls = x
                    /\ disk' = [disk EXCEPT ![p] = [d EXCEPT !.rcls = x]] => Keeps(p, {})
              /\ \A x \in 0..2 :
                    disk' = [disk EXCEPT ![p] = [d EXCEPT !.captures = x]] => Keeps(p, {})
              /\ \A x \in Verdict :
                    disk' = [disk EXCEPT ![p] = [d EXCEPT !.live = x]]
                       => Keeps(p, {"live"}) /\ disk'[p].live = x
<1> DEFINE d == disk[p]
<1>1. d \in Disk
  OBVIOUS
<1> USE <1>1
<1>2. ASSUME NEW x \in BOOLEAN, disk' = [disk EXCEPT ![p] = [d EXCEPT !.transaction = x]]
      PROVE  Keeps(p, {"transaction"}) /\ disk'[p].transaction = x
  <2>1. Turns(p, [d EXCEPT !.transaction = x])
    BY <1>2, DiskFields, DiskUpdate
  <2>2. QED
    BY <2>1 DEF Turns, Keeps, Disk
<1>3. ASSUME NEW x \in BOOLEAN, disk' = [disk EXCEPT ![p] = [d EXCEPT !.request = x]]
      PROVE  Keeps(p, {"request"}) /\ disk'[p].request = x
  <2>1. Turns(p, [d EXCEPT !.request = x])
    BY <1>3, DiskFields, DiskUpdate
  <2>2. QED
    BY <2>1 DEF Turns, Keeps, Disk
<1>4. ASSUME NEW x \in BOOLEAN, disk' = [disk EXCEPT ![p] = [d EXCEPT !.claimIntent = x]]
      PROVE  Keeps(p, {"claimIntent"}) /\ disk'[p].claimIntent = x
  <2>1. Turns(p, [d EXCEPT !.claimIntent = x])
    BY <1>4, DiskFields, DiskUpdate
  <2>2. QED
    BY <2>1 DEF Turns, Keeps, Disk
<1>5. ASSUME NEW x \in BOOLEAN, disk' = [disk EXCEPT ![p] = [d EXCEPT !.claimReceipt = x]]
      PROVE  Keeps(p, {"claimReceipt"}) /\ disk'[p].claimReceipt = x
  <2>1. Turns(p, [d EXCEPT !.claimReceipt = x])
    BY <1>5, DiskFields, DiskUpdate
  <2>2. QED
    BY <2>1 DEF Turns, Keeps, Disk
<1>6. ASSUME NEW x \in BOOLEAN, disk' = [disk EXCEPT ![p] = [d EXCEPT !.accepted = x]]
      PROVE  Keeps(p, {})
  <2>1. Turns(p, [d EXCEPT !.accepted = x])
    BY <1>6, DiskFields, DiskUpdate
  <2>2. QED
    BY <2>1 DEF Turns, Keeps, Disk
<1>7. ASSUME NEW x \in BOOLEAN, disk' = [disk EXCEPT ![p] = [d EXCEPT !.verified = x]]
      PROVE  Keeps(p, {})
  <2>1. Turns(p, [d EXCEPT !.verified = x])
    BY <1>7, DiskFields, DiskUpdate
  <2>2. QED
    BY <2>1 DEF Turns, Keeps, Disk
<1>8. ASSUME NEW x \in Summary, disk' = [disk EXCEPT ![p] = [d EXCEPT !.j = x]]
      PROVE  Keeps(p, {"j"}) /\ disk'[p].j = x
  <2>1. Turns(p, [d EXCEPT !.j = x])
    BY <1>8, DiskFields, DiskUpdate
  <2>2. QED
    BY <2>1 DEF Turns, Keeps, Disk
<1>9. ASSUME NEW x \in 0..MAX_ATTEMPTS, disk' = [disk EXCEPT ![p] = [d EXCEPT !.preflights = x]]
      PROVE  Keeps(p, {})
  <2>1. Turns(p, [d EXCEPT !.preflights = x])
    BY <1>9, DiskFields, DiskUpdate
  <2>2. QED
    BY <2>1 DEF Turns, Keeps, Disk
<1>10. ASSUME NEW x \in {"first", "retry"}, disk' = [disk EXCEPT ![p] = [d EXCEPT !.releaseReceipt = x]]
      PROVE  Keeps(p, {})
  <2>1. Turns(p, [d EXCEPT !.releaseReceipt = x])
    BY <1>10, DiskFields, DiskUpdate
  <2>2. QED
    BY <2>1 DEF Turns, Keeps, Disk
<1>11. ASSUME NEW x \in [Kind -> 0..MAX_ATTEMPTS], disk' = [disk EXCEPT ![p] = [d EXCEPT !.starts = x]]
      PROVE  Keeps(p, {"starts"}) /\ disk'[p].starts = x
  <2>1. Turns(p, [d EXCEPT !.starts = x])
    BY <1>11, DiskFields, DiskUpdate
  <2>2. QED
    BY <2>1 DEF Turns, Keeps, Disk
<1>12. ASSUME NEW x \in [Kind -> [1..MAX_ATTEMPTS -> Outcome \cup {"none"}]], disk' = [disk EXCEPT ![p] = [d EXCEPT !.result = x]]
      PROVE  Keeps(p, {"result"}) /\ disk'[p].result = x
  <2>1. Turns(p, [d EXCEPT !.result = x])
    BY <1>12, DiskFields, DiskUpdate
  <2>2. QED
    BY <2>1 DEF Turns, Keeps, Disk
<1>13. ASSUME NEW x \in Outcome, disk' = [disk EXCEPT ![p] = [d EXCEPT !.cls = x]]
      PROVE  Keeps(p, {"cls"}) /\ disk'[p].cls = x
  <2>1. Turns(p, [d EXCEPT !.cls = x])
    BY <1>13, DiskFields, DiskUpdate
  <2>2. QED
    BY <2>1 DEF Turns, Keeps, Disk
<1>14. ASSUME NEW x \in Outcome, disk' = [disk EXCEPT ![p] = [d EXCEPT !.rcls = x]]
      PROVE  Keeps(p, {})
  <2>1. Turns(p, [d EXCEPT !.rcls = x])
    BY <1>14, DiskFields, DiskUpdate
  <2>2. QED
    BY <2>1 DEF Turns, Keeps, Disk
<1>15. ASSUME NEW x \in 0..2, disk' = [disk EXCEPT ![p] = [d EXCEPT !.captures = x]]
      PROVE  Keeps(p, {})
  <2>1. Turns(p, [d EXCEPT !.captures = x])
    BY <1>15, DiskFields, DiskUpdate
  <2>2. QED
    BY <2>1 DEF Turns, Keeps, Disk
<1>16. ASSUME NEW x \in Verdict, disk' = [disk EXCEPT ![p] = [d EXCEPT !.live = x]]
      PROVE  Keeps(p, {"live"}) /\ disk'[p].live = x
  <2>1. Turns(p, [d EXCEPT !.live = x])
    BY <1>16, DiskFields, DiskUpdate
  <2>2. QED
    BY <2>1 DEF Turns, Keeps, Disk
<1>17. QED
  BY <1>2, <1>3, <1>4, <1>5, <1>6, <1>7, <1>8, <1>9, <1>10, <1>11, <1>12, <1>13, <1>14, <1>15, <1>16

\* What the steps make of a process.
Goes(p, label, F) == Moves(p, F) /\ mem'[p].pc = label

\* A process stays one when its locals change.
LEMMA ProcessFields ==
    ASSUME NEW m \in Process
    PROVE  /\ \A x \in Label : [m EXCEPT !.pc = x] \in Process
           /\ \A x \in Kind : [m EXCEPT !.kind = x] \in Process
           /\ \A x \in BOOLEAN : [m EXCEPT !.endpoint = x] \in Process
           /\ \A x \in Outcome \cup {"first", "retry"} : [m EXCEPT !.pend = x] \in Process
           /\ \A x \in Verdict : [m EXCEPT !.verdict = x] \in Process
<1>1. \A x \in Label : [m EXCEPT !.pc = x] \in Process
  BY DEF Process
<1>2. \A x \in Kind : [m EXCEPT !.kind = x] \in Process
  BY DEF Process
<1>3. \A x \in BOOLEAN : [m EXCEPT !.endpoint = x] \in Process
  BY DEF Process
<1>4. \A x \in Outcome \cup {"first", "retry"} : [m EXCEPT !.pend = x] \in Process
  BY DEF Process
<1>5. \A x \in Verdict : [m EXCEPT !.verdict = x] \in Process
  BY DEF Process
<1>6. QED
  BY <1>1, <1>2, <1>3, <1>4, <1>5

\* The process that has not begun.
LEMMA IdleFields ==
    /\ Idle \in Process /\ Idle.pc = "idle" /\ Idle.caller = "none" /\ Idle.kind = "candidate"
    /\ Idle.pend = "none" /\ Idle.verdict = "none"
  BY DEF Idle, Process, Label, Caller, Kind, Verdict

Becomes(p, m) == /\ mem' \in [Run -> Process] /\ mem'[p] = m
                 /\ \A q \in Run : q # p => mem'[q] = mem[q]

\* A step of p's process leaves the others alone.
LEMMA MemUpdate ==
    ASSUME mem \in [Run -> Process], NEW p \in Run, NEW m \in Process,
           mem' = [mem EXCEPT ![p] = m]
    PROVE  Becomes(p, m)
  BY DEF Becomes

\* The locals of p's process after each kind of step.
LEMMA MemSteps ==
    ASSUME mem \in [Run -> Process], NEW p \in Run, NEW label \in Label
    PROVE  /\ Goto(p, label) => Goes(p, label, {})
           /\ \A v \in Verdict : Publishes(p, v) =>
                 Goes(p, "publish", {"verdict"}) /\ mem'[p].verdict = v
           /\ mem' = [mem EXCEPT ![p].endpoint = TRUE] => Goes(p, mem[p].pc, {})
           /\ mem' = [mem EXCEPT ![p].pc = label, ![p].endpoint = TRUE] => Goes(p, label, {})
           /\ mem' = [mem EXCEPT ![p].endpoint = TRUE, ![p].pc = label] => Goes(p, label, {})
           /\ \A k \in Kind :
                 /\ mem' = [mem EXCEPT ![p].pc = label, ![p].kind = k]
                       => Goes(p, label, {"kind"}) /\ mem'[p].kind = k
                 /\ mem' = [mem EXCEPT ![p].pc = label, ![p].kind = k, ![p].endpoint = TRUE]
                       => Goes(p, label, {"kind"}) /\ mem'[p].kind = k
           /\ \A x \in Outcome \cup {"first", "retry"} :
                 /\ mem' = [mem EXCEPT ![p].pc = label, ![p].pend = x]
                       => Goes(p, label, {"pend"}) /\ mem'[p].pend = x
                 /\ mem' = [mem EXCEPT ![p].pc = label, ![p].pend = x, ![p].endpoint = FALSE]
                       => Goes(p, label, {"pend"}) /\ mem'[p].pend = x
           /\ Leave(p) => Becomes(p, Idle) /\ lease' = None
<1> DEFINE m == mem[p]
           at == [m EXCEPT !.pc = label]
<1>1. m \in Process /\ at \in Process
  BY ProcessFields
<1>2. /\ at.pc = label /\ at.caller = m.caller /\ at.kind = m.kind
      /\ at.pend = m.pend /\ at.verdict = m.verdict
  BY <1>1 DEF Process
<1>3. Goto(p, label) => Goes(p, label, {})
  <2>1. Goto(p, label) => Becomes(p, at)
    BY <1>1, MemUpdate DEF Goto
  <2> HIDE DEF at
  <2>2. QED
    BY <1>2, <2>1 DEF Becomes, Goes, Moves
<1>4. ASSUME NEW v \in Verdict, Publishes(p, v)
      PROVE  Goes(p, "publish", {"verdict"}) /\ mem'[p].verdict = v
  <2> DEFINE a == [m EXCEPT !.pc = "publish"]
  <2>0. a.caller = m.caller /\ a.kind = m.kind /\ a.pend = m.pend /\ a.pc = "publish"
    BY <1>1 DEF Process
  <2>1. a \in Process
    BY <1>1, ProcessFields DEF Label
  <2>2. mem' = [mem EXCEPT ![p] = [a EXCEPT !.verdict = v]]
    BY <1>1, <1>4 DEF Publishes
  <2> HIDE DEF a
  <2>3. Becomes(p, [a EXCEPT !.verdict = v])
    BY <2>1, <2>2, ProcessFields, MemUpdate
  <2>4. QED
    BY <2>0, <2>1, <2>3 DEF Becomes, Goes, Moves, Process
<1>5. ASSUME mem' = [mem EXCEPT ![p].endpoint = TRUE] PROVE Goes(p, mem[p].pc, {})
  <2>1. Becomes(p, [m EXCEPT !.endpoint = TRUE])
    BY <1>1, <1>5, ProcessFields, MemUpdate
  <2>2. QED
    BY <1>1, <2>1 DEF Becomes, Goes, Moves, Process
<1>6. ASSUME \/ mem' = [mem EXCEPT ![p].pc = label, ![p].endpoint = TRUE]
             \/ mem' = [mem EXCEPT ![p].endpoint = TRUE, ![p].pc = label]
      PROVE  Goes(p, label, {})
  <2>1. mem' = [mem EXCEPT ![p] = [at EXCEPT !.endpoint = TRUE]]
    BY <1>1, <1>6 DEF Process
  <2> HIDE DEF at
  <2>2. Becomes(p, [at EXCEPT !.endpoint = TRUE])
    BY <1>1, <2>1, ProcessFields, MemUpdate
  <2>3. QED
    BY <1>1, <1>2, <2>2 DEF Becomes, Goes, Moves, Process
<1>7. ASSUME NEW k \in Kind,
             \/ mem' = [mem EXCEPT ![p].pc = label, ![p].kind = k]
             \/ mem' = [mem EXCEPT ![p].pc = label, ![p].kind = k, ![p].endpoint = TRUE]
      PROVE  Goes(p, label, {"kind"}) /\ mem'[p].kind = k
  <2> DEFINE a == [at EXCEPT !.kind = k]
  <2>1. a \in Process
    BY <1>1, ProcessFields
  <2>2. a.pc = label /\ a.caller = m.caller /\ a.kind = k /\ a.pend = m.pend /\ a.verdict = m.verdict
    BY <1>1, <1>2 DEF Process
  <2>3. mem' = [mem EXCEPT ![p] = a] \/ mem' = [mem EXCEPT ![p] = [a EXCEPT !.endpoint = TRUE]]
    BY <1>1, <1>7 DEF Process
  <2> HIDE DEF a
  <2>4. Becomes(p, a) \/ Becomes(p, [a EXCEPT !.endpoint = TRUE])
    BY <2>1, <2>3, ProcessFields, MemUpdate
  <2>5. QED
    BY <2>1, <2>2, <2>4 DEF Becomes, Goes, Moves, Process
<1>8. ASSUME NEW x \in Outcome \cup {"first", "retry"},
             \/ mem' = [mem EXCEPT ![p].pc = label, ![p].pend = x]
             \/ mem' = [mem EXCEPT ![p].pc = label, ![p].pend = x, ![p].endpoint = FALSE]
      PROVE  Goes(p, label, {"pend"}) /\ mem'[p].pend = x
  <2> DEFINE a == [at EXCEPT !.pend = x]
  <2>1. a \in Process
    BY <1>1, ProcessFields
  <2>2. a.pc = label /\ a.caller = m.caller /\ a.kind = m.kind /\ a.pend = x /\ a.verdict = m.verdict
    BY <1>1, <1>2 DEF Process
  <2>3. mem' = [mem EXCEPT ![p] = a] \/ mem' = [mem EXCEPT ![p] = [a EXCEPT !.endpoint = FALSE]]
    BY <1>1, <1>8 DEF Process
  <2> HIDE DEF a
  <2>4. Becomes(p, a) \/ Becomes(p, [a EXCEPT !.endpoint = FALSE])
    BY <2>1, <2>3, ProcessFields, MemUpdate
  <2>5. QED
    BY <2>1, <2>2, <2>4 DEF Becomes, Goes, Moves, Process
<1>9. Leave(p) => Becomes(p, Idle) /\ lease' = None
  BY IdleFields, MemUpdate DEF Leave
<1>10. QED
  BY <1>3, <1>4, <1>5, <1>6, <1>7, <1>8, <1>9

\* The rest of the state, which an append to the journal leaves alone.
Aside == UNCHANGED <<lease, owner, ledger, device, faults, tries, refused>>

\* The journal of p after a transition, an event and a checkpoint.
ToState(p, x) ==
    /\ Keeps(p, {"j"}) /\ Aside
    /\ disk'[p].j.state = x /\ disk'[p].j.attempts = disk[p].j.attempts
    /\ Told(disk'[p].j) /\ Len(disk'[p].j.events) = Len(disk[p].j.events)
    /\ Has(disk'[p].j, "candidate_flash_start") <=> Has(disk[p].j, "candidate_flash_start")

WithEvent(p, event) ==
    /\ Keeps(p, {"j"}) /\ Aside
    /\ disk'[p].j.state = disk[p].j.state /\ disk'[p].j.attempts = disk[p].j.attempts
    /\ Told(disk'[p].j) /\ Len(disk'[p].j.events) = Len(disk[p].j.events) + 1
    /\ Has(disk'[p].j, "candidate_flash_start") <=>
          Has(disk[p].j, "candidate_flash_start") \/ event = "candidate_flash_start"

WithAttempt(p, kind) ==
    /\ Keeps(p, {"j"}) /\ Aside
    /\ disk'[p].j.state = disk[p].j.state
    /\ disk'[p].j.attempts[kind] = disk[p].j.attempts[kind] + 1
    /\ \A other \in DOMAIN CHECKPOINT_STATE :
          other # kind => disk'[p].j.attempts[other] = disk[p].j.attempts[other]
    /\ Told(disk'[p].j) /\ Len(disk'[p].j.events) = Len(disk[p].j.events)
    /\ Has(disk'[p].j, "candidate_flash_start") <=> Has(disk[p].j, "candidate_flash_start")

\* A journal says the same of its events when they are the same.
LEMMA SameEvents ==
    ASSUME NEW j, NEW k, k.events = j.events
    PROVE  /\ Told(j) => Told(k)
           /\ Has(k, "candidate_flash_start") <=> Has(j, "candidate_flash_start")
  BY DEF Told, Has

\* A record that the journal admits is appended.
LEMMA Logged ==
    ASSUME TypeOK, NEW p \in Run, NEW r, Log(p, r), Admits(disk[p].j, r),
           Apply(disk[p].j, r) \in Summary
    PROVE  Keeps(p, {"j"}) /\ Aside /\ disk'[p].j = Apply(disk[p].j, r)
<1> DEFINE k == Apply(disk[p].j, r)
<1>1. disk \in [Run -> Disk] /\ disk[p] \in Disk
  BY DEF TypeOK
<1>2. disk' = [disk EXCEPT ![p] = [disk[p] EXCEPT !.j = k]] /\ Aside
  BY DEF Log, Aside
<1> HIDE DEF k
<1>3. Keeps(p, {"j"}) /\ disk'[p].j = k
  BY <1>1, <1>2, FieldWrites DEF k
<1>4. QED
  BY <1>2, <1>3 DEF k

\* The journal of every run is a summary.
LEMMA JournalTyped == ASSUME TypeOK, NEW p \in Run PROVE disk[p].j \in Summary
<1>1. disk[p] \in Disk
  BY DEF TypeOK
<1>2. QED
  BY <1>1 DEF Disk

\* A transition of the table.
LEMMA LogTo ==
    ASSUME TypeOK, NEW p \in Run, Told(disk[p].j), NEW x \in STATES,
           x \in NEXT_STATES[disk[p].j.state], Log(p, To(x))
    PROVE  ToState(p, x)
<1>1. /\ Admits(disk[p].j, To(x)) /\ Apply(disk[p].j, To(x)) \in Summary
      /\ Apply(disk[p].j, To(x)).state = x
      /\ Apply(disk[p].j, To(x)).events = disk[p].j.events
      /\ Apply(disk[p].j, To(x)).attempts = disk[p].j.attempts
  BY JournalTyped, TransitionStep
<1>2. Keeps(p, {"j"}) /\ Aside /\ disk'[p].j = Apply(disk[p].j, To(x))
  BY <1>1, Logged
<1>3. QED
  BY <1>1, <1>2, SameEvents DEF ToState

\* An event that follows.
LEMMA LogEvent ==
    ASSUME TypeOK, NEW p \in Run, Told(disk[p].j), NEW e, Log(p, Happened(e)),
           Follows(disk[p].j.state, Has(disk[p].j, "candidate_flash_start"),
                   Len(disk[p].j.events), e)
    PROVE  WithEvent(p, e)
<1> DEFINE k == Apply(disk[p].j, Happened(e))
<1>1. /\ Admits(disk[p].j, Happened(e)) /\ k \in Summary /\ Told(k)
      /\ k.state = disk[p].j.state /\ k.attempts = disk[p].j.attempts
      /\ Has(k, "candidate_flash_start") <=>
            Has(disk[p].j, "candidate_flash_start") \/ e = "candidate_flash_start"
      /\ Len(k.events) = Len(disk[p].j.events) + 1
  BY JournalTyped, EventStep
<1>2. Keeps(p, {"j"}) /\ Aside /\ disk'[p].j = k
  BY <1>1, Logged
<1> HIDE DEF k
<1>3. QED
  BY <1>1, <1>2 DEF WithEvent

\* The next attempt of a kind.
LEMMA LogAttempt ==
    ASSUME TypeOK, NEW p \in Run, Told(disk[p].j), NEW kind \in DOMAIN CHECKPOINT_STATE,
           disk[p].j.state = CHECKPOINT_STATE[kind],
           disk[p].j.attempts[kind] < IF kind = "revalidation" THEN 1 ELSE MAX_TRANSFER_ATTEMPTS,
           Log(p, Attempt(kind, disk[p].j.attempts[kind] + 1))
    PROVE  WithAttempt(p, kind)
<1> DEFINE r == Attempt(kind, disk[p].j.attempts[kind] + 1)
           k == Apply(disk[p].j, r)
<1>1. /\ Admits(disk[p].j, r) /\ k \in Summary
      /\ k.state = disk[p].j.state /\ k.events = disk[p].j.events
      /\ k.attempts[kind] = disk[p].j.attempts[kind] + 1
      /\ \A other \in DOMAIN CHECKPOINT_STATE :
            other # kind => k.attempts[other] = disk[p].j.attempts[other]
  BY JournalTyped, CheckpointStep
<1> HIDE DEF r
<1>2. Keeps(p, {"j"}) /\ Aside /\ disk'[p].j = k
  BY <1>1, Logged DEF r
<1> HIDE DEF k
<1>3. QED
  BY <1>1, <1>2, SameEvents DEF WithAttempt

\* The run of a step is the only one that is not idle: a step of p leaves what
\* the invariant says of another run.
LEMMA OtherRuns ==
    ASSUME NEW p \in Run, NEW q \in Run, q # p, Local(q), lease \in {None, p}, None \notin Run,
           disk'[q] = disk[q], mem'[q] = mem[q], tries'[q] = tries[q],
           q \in active' <=> q \in active, q \in granted' <=> q \in granted,
           q \in failures' <=> q \in failures, q \in sessions' <=> q \in sessions,
           owner' = q <=> owner = q, owner = q => image' = image
    PROVE  Local(q)'
<1>1. mem[q].pc = "idle" /\ mem[q] = Idle
  BY DEF Local, Exclusive, At
<1>2. Chain(q)' /\ Numbered(q)' /\ Files(q)'
  BY DEF Local, Chain, Numbered, Ordered, Files, State, Begun, Count, Recorded, RollbackDone
<1>3. Claimed(q)'
  BY DEF Local, Claimed, State, Begun, Recorded, NoCandidateSession
<1>4. Owning(q)'
  BY <1>1 DEF Local, Owning, State, RollbackDone, At
<1>5. Exclusive(q)' /\ Executing(q)' /\ Ending(q)' /\ Recovering(q)'
  BY <1>1 DEF Exclusive, Executing, Ending, Recovering, At, Opening, Live, Asking, Claiming,
              Attempting, Resuming, Verifying, Releasing
<1>6. Transferring(q)'
  BY <1>1 DEF Transferring, At, Attempting
<1>7. QED
  BY <1>2, <1>3, <1>4, <1>5, <1>6 DEF Local

----------------------------------------------------------------------------
(* Steps that touch neither the owner file nor the ledger nor the image.   *)

Stands(p) == Exclusive(p) /\ Executing(p) /\ Transferring(p) /\ Ending(p) /\ Recovering(p)
Body(p) == Chain(p) /\ Numbered(p) /\ Files(p) /\ Claimed(p)

\* The types that the proofs use.
Typed(p) ==
    /\ disk[p].j \in Summary /\ disk[p].j.state \in STATES \cup {NoState}
    /\ disk[p].starts \in [Kind -> 0..2] /\ tries[p] \in [Kind -> 0..2]
    /\ disk[p].result \in [Kind -> [1..2 -> Outcome \cup {"none"}]]
    /\ \A k \in Kind \cup {"revalidation"} : disk[p].j.attempts[k] \in 0..2
    /\ mem[p].kind \in Kind

\* What the invariant says of one run.
LEMMA Known ==
    ASSUME Inv, NEW p \in Run
    PROVE  /\ TypeOK /\ None \notin Run /\ Typed(p) /\ Body(p) /\ Owning(p) /\ Stands(p)
           /\ Told(disk[p].j) /\ Marked(disk[p].j)
           /\ disk \in [Run -> Disk] /\ mem \in [Run -> Process]
           /\ disk[p] \in Disk /\ mem[p] \in Process
<1>1. TypeOK /\ Local(p) /\ None \notin Run
  BY RunAssumption DEF Inv
<1>2. disk \in [Run -> Disk] /\ disk[p] \in Disk /\ mem \in [Run -> Process] /\ mem[p] \in Process
      /\ tries \in [Run -> [Kind -> 0..MAX_ATTEMPTS]]
  BY <1>1 DEF TypeOK
<1>3. disk[p].j \in Summary /\ mem[p].kind \in Kind
  BY <1>2 DEF Disk, Process
<1>4. Told(disk[p].j) /\ Marked(disk[p].j)
  BY <1>1, <1>3, EventFacts DEF Local, Chain
<1>5. Typed(p)
  <2>1. disk[p].starts \in [Kind -> 0..2] /\ tries[p] \in [Kind -> 0..2]
        /\ disk[p].result \in [Kind -> [1..2 -> Outcome \cup {"none"}]]
    BY <1>2 DEF Disk, MAX_ATTEMPTS, MAX_TRANSFER_ATTEMPTS
  <2>2. disk[p].j.state \in STATES \cup {NoState}
        /\ disk[p].j.attempts \in [DOMAIN CHECKPOINT_STATE -> 0..2]
    BY <1>3 DEF Summary, MAX_TRANSFER_ATTEMPTS
  <2>3. Kind \cup {"revalidation"} = DOMAIN CHECKPOINT_STATE
    BY DEF Kind, CHECKPOINT_STATE
  <2>4. QED
    BY <1>3, <2>1, <2>2, <2>3 DEF Typed
<1>6. QED
  BY <1>1, <1>2, <1>4, <1>5 DEF Local, Body, Stands

\* The files and the claim of p stay.
LEMMA BodyKept ==
    ASSUME NEW p \in Run, Body(p), Keeps(p, {}), UNCHANGED <<ledger, tries>>
    PROVE  Body(p)'
<1>1. Chain(p)'
  BY DEF Body, Keeps, Chain, State, Begun, Count, Recorded
<1>2. Numbered(p)'
  BY DEF Body, Keeps, Numbered, Ordered, State, Begun, Recorded, RollbackDone
<1>3. Files(p)' /\ Claimed(p)'
  BY DEF Body, Keeps, Files, Claimed, State, Begun, Recorded, ledger, NoCandidateSession
<1>4. QED
  BY <1>1, <1>2, <1>3 DEF Body

\* Only the run of the step can break the invariant.
LEMMA Inductive ==
    ASSUME Inv, NEW p \in Run, lease \in {None, p},
           disk' \in [Run -> Disk], mem' \in [Run -> Process],
           \A q \in Run : q # p => disk'[q] = disk[q] /\ mem'[q] = mem[q],
           lease' \in Run \cup {None}, mode' \in {"android", "download", "other"},
           faults' \in 0..MaxFaults,
           UNCHANGED <<owner, ledger, image, tries, refused>>,
           Local(p)'
    PROVE  Inv'
<1>1. TypeOK'
  BY DEF Inv, TypeOK, ledger
<1>2. NeverRefused' /\ Claims'
  BY DEF Inv, NeverRefused, Claims, ForeignClaim, ledger
<1>3. \A q \in Run : q # p => Local(q)'
  BY RunAssumption, OtherRuns DEF Inv, ledger
<1>4. QED
  BY <1>1, <1>2, <1>3 DEF Inv

\* A process that ends leaves its run as it is.
LEMMA Leaves ==
    ASSUME Inv, NEW p \in Run, lease \in {None, p}, Becomes(p, Idle), lease' = None,
           mode' \in {"android", "download", "other"}, faults' \in 0..MaxFaults,
           UNCHANGED <<disk, owner, ledger, image, tries, refused>>
    PROVE  Inv'
<1>1. Body(p) /\ Owning(p) /\ TypeOK /\ disk \in [Run -> Disk]
  BY Known
<1>2. mem' \in [Run -> Process] /\ mem'[p] = Idle /\ mem'[p].pc = "idle"
      /\ \A q \in Run : q # p => mem'[q] = mem[q]
  BY IdleFields DEF Becomes
<1>3. Body(p)'
  <2>1. Keeps(p, {})
    BY <1>1 DEF Keeps
  <2>2. QED
    BY <1>1, <2>1, BodyKept
<1>4. Owning(p)'
  BY <1>1, <1>2 DEF Owning, State, RollbackDone, At
<1>5. Exclusive(p)' /\ Executing(p)' /\ Ending(p)' /\ Recovering(p)'
  BY <1>2 DEF Exclusive, Executing, Ending, Recovering, At, Opening, Live, Asking, Claiming,
              Attempting, Resuming, Verifying, Releasing
<1>6. Transferring(p)'
  BY <1>2 DEF Transferring, At, Attempting
<1>7. Local(p)'
  BY <1>3, <1>4, <1>5, <1>6 DEF Local, Body
<1>8. QED
  BY <1>1, <1>2, <1>7, Inductive

\* A step of the process of p that changes neither the files of p that the
\* invariant speaks of nor the owner, the ledger and the image.
LEMMA QuietStep ==
    ASSUME Inv, NEW p \in Run, lease \in {None, p}, Keeps(p, {}),
           NEW label \in Label, NEW F, Goes(p, label, F), label # "store",
           lease' \in Run \cup {None}, mode' \in {"android", "download", "other"},
           faults' \in 0..MaxFaults,
           UNCHANGED <<owner, ledger, image, tries, refused>>, Stands(p)'
    PROVE  Inv'
<1>1. Body(p)'
  BY Known, BodyKept
<1>2. Owning(p)'
  BY Known DEF Owning, State, RollbackDone, At, Keeps, Goes
<1>3. QED
  BY <1>1, <1>2, Inductive DEF Local, Body, Stands, Keeps, Goes, Moves

\* A write to the directory of p, its journal included.
LEMMA WriteStep ==
    ASSUME Inv, NEW p \in Run, lease = p, NEW F, Keeps(p, F), Aside,
           mem' \in [Run -> Process], \A q \in Run : q # p => mem'[q] = mem[q],
           Body(p)', Owning(p)', Stands(p)'
    PROVE  Inv'
<1>1. lease' \in Run \cup {None} /\ mode' \in {"android", "download", "other"}
      /\ faults' \in 0..MaxFaults
  BY DEF Inv, TypeOK, Aside, device
<1>2. QED
  BY <1>1, Inductive DEF Local, Body, Stands, Keeps, Aside, device, ledger

USE DEF At, State, Begun, Count, Recorded, Opening, Asking, Claiming, Attempting, Releasing,
        Resuming, Verifying, Live, Terminal, Kind, NoState, RECOVERY_EVENT_STATES

\* What the number of its events says of a journal after a step.
LEMMA Marking ==
    ASSUME NEW p \in Run, disk' \in [Run -> Disk], Told(disk'[p].j) PROVE Marked(disk'[p].j)
<1>1. disk'[p] \in Disk
  OBVIOUS
<1>2. disk'[p].j \in Summary
  BY <1>1 DEF Disk
<1>3. QED
  BY <1>2, EventFacts

----------------------------------------------------------------------------
(* Appends to the journal: what they ask of the files.                     *)

\* A transition to x keeps the files in order.
MayTurn(p, x) ==
    /\ disk[p].transaction
    /\ Pace(x, Begun(p), Count(p))
    /\ disk[p].starts["candidate"] = 1 => x = "DOWNLOAD_IDENTIFIED" \/ Begun(p)
    /\ disk[p].starts["rollback"] > 0 => x \in RECOVERY_EVENT_STATES \cup Terminal
    /\ x \in {"ROLLBACK_FLASHED", "HEALTH_VERIFIED", "CLOSED"} => RollbackDone(p)
    /\ x \in {NoState, "PREFLIGHT"} => ~disk[p].request
    /\ x = "APPROVED" => ~disk[p].claimIntent
    /\ disk[p].cut # "none" => x \in RECOVERY_EVENT_STATES \cup Terminal
    /\ x \in RECOVERY_EVENT_STATES /\ ~Begun(p) => disk[p].cut # "none"
    /\ State(p) \notin Terminal
    /\ owner = p => x \notin {NoState, "PREFLIGHT"}

\* An append that does not change the attempts keeps their order.
LEMMA OrderKept ==
    ASSUME NEW p \in Run, NEW k \in Kind, Ordered(p, k), Keeps(p, {"j"}), tries' = tries,
           disk'[p].j.attempts[k] = disk[p].j.attempts[k]
    PROVE  Ordered(p, k)'
  BY DEF Ordered, Keeps

\* An append leaves the results.
LEMMA RollbackKept ==
    ASSUME NEW p \in Run, Keeps(p, {"j"}) PROVE RollbackDone(p)' <=> RollbackDone(p)
  BY DEF RollbackDone, Keeps

\* A transition keeps what the invariant says of the files and of the owner.
LEMMA TransitionBody ==
    ASSUME NEW p \in Run, Body(p), Owning(p), NEW x, ToState(p, x), MayTurn(p, x),
           mem'[p].pc # "store"
    PROVE  Body(p)' /\ Owning(p)'
<1>1. /\ Keeps(p, {"j"}) /\ UNCHANGED <<ledger, tries, owner, image>>
      /\ disk'[p].j.state = x /\ disk'[p].j.attempts = disk[p].j.attempts
      /\ Told(disk'[p].j) /\ Len(disk'[p].j.events) = Len(disk[p].j.events)
      /\ Begun(p)' <=> Begun(p)
  BY DEF ToState, Aside, device
<1>2. RollbackDone(p)' <=> RollbackDone(p)
  BY <1>1, RollbackKept
<1>3. Chain(p)'
  BY <1>1 DEF Chain, MayTurn, Pace
<1>4. Ordered(p, "candidate")' /\ Ordered(p, "rollback")'
  BY <1>1, OrderKept DEF Body, Numbered
<1>5. Numbered(p)'
  BY <1>1, <1>2, <1>4 DEF Numbered, MayTurn, Body, Keeps
<1>6. Files(p)'
  BY <1>1 DEF Files, MayTurn, Body, Keeps
<1>7. Claimed(p)'
  BY <1>1 DEF Claimed, MayTurn, Body, Keeps, ledger
<1>8. Owning(p)'
  BY <1>1, <1>2 DEF Owning, MayTurn, Keeps
<1>9. QED
  BY <1>3, <1>5, <1>6, <1>7, <1>8 DEF Body

\* A write that leaves the journal and the attempt files.
LEMMA ChainKept ==
    ASSUME NEW p \in Run, Body(p), NEW F, Keeps(p, F), {"j", "starts", "result"} \cap F = {},
           tries' = tries
    PROVE  Chain(p)' /\ Numbered(p)'
<1>1. disk'[p].j = disk[p].j /\ disk'[p].starts = disk[p].starts /\ disk'[p].result = disk[p].result
  BY DEF Keeps
<1>2. Chain(p)'
  BY <1>1 DEF Body, Chain
<1>3. Numbered(p)'
  BY <1>1 DEF Body, Numbered, Ordered, RollbackDone
<1>4. QED
  BY <1>2, <1>3

\* An event that follows keeps the pace.
LEMMA PaceStep ==
    ASSUME NEW s, NEW c \in BOOLEAN, NEW b \in BOOLEAN, NEW n \in Nat, NEW e, Pace(s, c, n),
           Follows(s, c, n, e), b <=> (c \/ e = "candidate_flash_start")
    PROVE  Pace(s, b, n + 1)
<1>1. CASE e = "live_session_start"
  BY <1>1 DEF Pace, Follows, NoState
<1>2. CASE e = "candidate_flash_start"
  BY <1>2 DEF Pace, Follows, NoState
<1>3. CASE e = "candidate_flash_done"
  BY <1>3 DEF Pace, Follows, NoState
<1>4. CASE e = "candidate_boot_ready"
  BY <1>4 DEF Pace, Follows, NoState
<1>5. CASE e = "rollback_flash_start"
  BY <1>5 DEF Pace, Follows, NoState
<1>6. CASE e = "rollback_flash_done"
  BY <1>6 DEF Pace, Follows, NoState
<1>7. CASE e = "rollback_boot_ready"
  BY <1>7 DEF Pace, Follows, NoState
<1>8. CASE e = "live_session_end"
  BY <1>8 DEF Pace, Follows, NoState
<1>9. QED
  BY <1>1, <1>2, <1>3, <1>4, <1>5, <1>6, <1>7, <1>8 DEF Follows

\* An event that follows keeps what the invariant says of the files.
LEMMA EventBody ==
    ASSUME NEW p \in Run, Body(p), Owning(p), Typed(p), NEW e, WithEvent(p, e),
           Follows(State(p), Begun(p), Count(p), e),
           e = "candidate_flash_start" => disk[p].j.attempts["candidate"] = 1,
           mem'[p].pc # "store"
    PROVE  Body(p)' /\ Owning(p)'
<1>1. /\ Keeps(p, {"j"}) /\ UNCHANGED <<ledger, tries, owner, image>>
      /\ disk'[p].j.state = disk[p].j.state /\ disk'[p].j.attempts = disk[p].j.attempts
      /\ Told(disk'[p].j) /\ Len(disk'[p].j.events) = Len(disk[p].j.events) + 1
      /\ Begun(p)' <=> Begun(p) \/ e = "candidate_flash_start"
  BY DEF WithEvent, Aside, device
<1>2. RollbackDone(p)' <=> RollbackDone(p)
  BY <1>1, RollbackKept
<1>3. Chain(p)'
  <2> DEFINE c == Has(disk[p].j, "candidate_flash_start")
             b == Has(disk'[p].j, "candidate_flash_start")
             n == Len(disk[p].j.events)
  <2>1. n \in Nat /\ c \in BOOLEAN /\ b \in BOOLEAN
    BY DEF Typed, Summary, Has
  <2>2. Pace(disk[p].j.state, c, n) /\ Follows(disk[p].j.state, c, n, e)
    BY DEF Body, Chain
  <2>3. b <=> (c \/ e = "candidate_flash_start")
    BY <1>1
  <2> HIDE DEF c, b, n
  <2>4. Pace(disk[p].j.state, b, n + 1)
    BY <2>1, <2>2, <2>3, PaceStep
  <2>5. QED
    BY <1>1, <2>4 DEF Chain, b, n
<1>4. Ordered(p, "candidate")' /\ Ordered(p, "rollback")'
  BY <1>1, OrderKept DEF Body, Numbered
<1>5. Numbered(p)'
  BY <1>1, <1>2, <1>4 DEF Numbered, Body, Keeps
<1>6. Files(p)' /\ Claimed(p)'
  BY <1>1 DEF Files, Claimed, Body, Keeps, ledger, NoCandidateSession
<1>7. Owning(p)'
  BY <1>1, <1>2 DEF Owning, Keeps
<1>8. QED
  BY <1>3, <1>5, <1>6, <1>7 DEF Body

\* A checkpoint of a started attempt keeps it too.
LEMMA AttemptBody ==
    ASSUME NEW p \in Run, Body(p), Owning(p), Typed(p),
           NEW k \in DOMAIN CHECKPOINT_STATE, WithAttempt(p, k),
           k \in Kind => Orphan(p, k), mem'[p].pc # "store"
    PROVE  Body(p)' /\ Owning(p)'
<1>0. DOMAIN CHECKPOINT_STATE = {"candidate", "rollback", "revalidation"}
  BY DEF CHECKPOINT_STATE
<1>1. /\ Keeps(p, {"j"}) /\ UNCHANGED <<ledger, tries, owner, image>>
      /\ disk'[p].j.state = disk[p].j.state
      /\ disk'[p].j.attempts[k] = disk[p].j.attempts[k] + 1
      /\ \A other \in Kind : other # k => disk'[p].j.attempts[other] = disk[p].j.attempts[other]
      /\ Told(disk'[p].j) /\ Len(disk'[p].j.events) = Len(disk[p].j.events)
      /\ Begun(p)' <=> Begun(p)
  BY <1>0 DEF WithAttempt, Aside, device
<1>2. RollbackDone(p)' <=> RollbackDone(p)
  BY <1>1, RollbackKept
<1>3. Chain(p)'
  BY <1>1 DEF Chain, Body, Pace
<1>4. ASSUME NEW kind \in Kind PROVE Ordered(p, kind)'
  <2>0. Ordered(p, kind)
    BY DEF Body, Numbered
  <2>1. CASE kind = k
    <3>1. disk[p].starts[kind] \in 0..2 /\ disk[p].j.attempts[kind] \in 0..2 /\ tries[p][kind] \in 0..2
      BY DEF Typed
    <3>2. disk'[p].starts = disk[p].starts /\ disk'[p].result = disk[p].result
      BY <1>1 DEF Keeps
    <3>3. QED
      BY <1>1, <2>0, <2>1, <3>1, <3>2 DEF Ordered, Orphan
  <2>2. CASE kind # k
    BY <1>1, <2>0, <2>2, OrderKept
  <2>3. QED
    BY <2>1, <2>2
<1>5. Numbered(p)'
  <2>1. Begun(p) => k # "candidate"
    BY DEF Body, Numbered, Orphan, Typed
  <2>2. QED
    BY <1>1, <1>2, <1>4, <2>1 DEF Numbered, Body, Keeps
<1>6. Files(p)' /\ Claimed(p)'
  BY <1>1 DEF Files, Claimed, Body, Keeps, ledger, NoCandidateSession
<1>7. Owning(p)'
  BY <1>1, <1>2 DEF Owning, Keeps
<1>8. QED
  BY <1>3, <1>5, <1>6, <1>7 DEF Body

\* The last event of a journal, by its state.
LEMMA Clock ==
    ASSUME NEW p \in Run, Body(p), Marked(disk[p].j)
    PROVE  /\ State(p) \in {"APPROVED", "DOWNLOAD_IDENTIFIED"} => ~Recorded(p, "rollback_flash_start")
           /\ State(p) = "CANDIDATE_FLASHED" =>
                 /\ Begun(p)
                 /\ Recorded(p, "candidate_flash_done") => Count(p) = 3
                 /\ ~Recorded(p, "candidate_flash_done") => Count(p) = 2
           /\ State(p) = "OBSERVED" =>
                 /\ Begun(p)
                 /\ Recorded(p, "candidate_boot_ready") => Count(p) = 4
                 /\ ~Recorded(p, "candidate_boot_ready") => Count(p) = 3
           /\ State(p) = "RECOVERY_DOWNLOAD" /\ Begun(p) =>
                 /\ Recorded(p, "rollback_flash_start") => Count(p) = 5
                 /\ ~Recorded(p, "rollback_flash_start") => Count(p) = 4
           /\ State(p) = "ROLLBACK_FLASHED" /\ Begun(p) =>
                 /\ Recorded(p, "rollback_flash_done") => Count(p) = 6
                 /\ ~Recorded(p, "rollback_flash_done") => Count(p) = 5
           /\ State(p) = "HEALTH_VERIFIED" /\ Begun(p) =>
                 /\ Recorded(p, "live_session_end") => Count(p) = 8
                 /\ ~Recorded(p, "live_session_end") /\ Recorded(p, "rollback_boot_ready") => Count(p) = 7
                 /\ ~Recorded(p, "rollback_boot_ready") => Count(p) = 6
           /\ State(p) = "RECOVERY_DOWNLOAD" /\ ~Begun(p) =>
                 /\ Recorded(p, "rollback_flash_start") => Count(p) = 2
                 /\ ~Recorded(p, "rollback_flash_start") => Count(p) = 1
           /\ State(p) = "ROLLBACK_FLASHED" /\ ~Begun(p) =>
                 /\ Recorded(p, "rollback_flash_done") => Count(p) = 3
                 /\ ~Recorded(p, "rollback_flash_done") => Count(p) = 2
           /\ State(p) = "HEALTH_VERIFIED" /\ ~Begun(p) =>
                 /\ Recorded(p, "live_session_end") => Count(p) = 5
                 /\ ~Recorded(p, "live_session_end") /\ Recorded(p, "rollback_boot_ready") => Count(p) = 4
                 /\ ~Recorded(p, "rollback_boot_ready") => Count(p) = 3
<1> DEFINE c == Begun(p)
           n == Count(p)
           d == Recorded(p, "candidate_flash_done")
           r == Recorded(p, "candidate_boot_ready")
           fs == Recorded(p, "rollback_flash_start")
           fd == Recorded(p, "rollback_flash_done")
           br == Recorded(p, "rollback_boot_ready")
           le == Recorded(p, "live_session_end")
<1>1. n \in Nat /\ c \in BOOLEAN /\ d \in BOOLEAN /\ r \in BOOLEAN /\ fs \in BOOLEAN /\ fd \in BOOLEAN /\ br \in BOOLEAN /\ le \in BOOLEAN
  BY DEF Marked, Has
<1>2. Pace(State(p), c, n)
  BY DEF Body, Chain
<1>3. /\ d <=> c /\ n >= 3
      /\ r <=> c /\ n >= 4
      /\ fs <=> n >= IF c THEN 5 ELSE 2
      /\ fd <=> n >= IF c THEN 6 ELSE 3
      /\ br <=> n >= IF c THEN 7 ELSE 4
      /\ le <=> n >= IF c THEN 8 ELSE 5
  BY DEF Marked
<1> HIDE DEF c, n, d, r, fs, fd, br, le
<1>4. State(p) \in {"APPROVED", "DOWNLOAD_IDENTIFIED"} => ~fs
  BY <1>1, <1>2, <1>3 DEF Pace
<1>5. State(p) = "CANDIDATE_FLASHED" => c /\ (d => n = 3) /\ (~d => n = 2)
  BY <1>1, <1>2, <1>3 DEF Pace
<1>6. State(p) = "OBSERVED" => c /\ (r => n = 4) /\ (~r => n = 3)
  BY <1>1, <1>2, <1>3 DEF Pace
<1>7. State(p) = "RECOVERY_DOWNLOAD" /\ c => (fs => n = 5) /\ (~fs => n = 4)
  BY <1>1, <1>2, <1>3 DEF Pace
<1>8. State(p) = "ROLLBACK_FLASHED" /\ c => (fd => n = 6) /\ (~fd => n = 5)
  BY <1>1, <1>2, <1>3 DEF Pace
<1>9. State(p) = "HEALTH_VERIFIED" /\ c => (le => n = 8) /\ (~le /\ br => n = 7) /\ (~br => n = 6)
  BY <1>1, <1>2, <1>3 DEF Pace
<1>10. State(p) = "RECOVERY_DOWNLOAD" /\ ~c => (fs => n = 2) /\ (~fs => n = 1)
  BY <1>1, <1>2, <1>3 DEF Pace
<1>11. State(p) = "ROLLBACK_FLASHED" /\ ~c => (fd => n = 3) /\ (~fd => n = 2)
  BY <1>1, <1>2, <1>3 DEF Pace
<1>12. State(p) = "HEALTH_VERIFIED" /\ ~c => (le => n = 5) /\ (~le /\ br => n = 4) /\ (~br => n = 3)
  BY <1>1, <1>2, <1>3 DEF Pace
<1>13. QED
  BY <1>4, <1>5, <1>6, <1>7, <1>8, <1>9, <1>10, <1>11, <1>12 DEF c, n, d, r, fs, fd, br, le

----------------------------------------------------------------------------
(* The execution up to the claim.                                          *)

\* _preflight_candidate_global and the lease.
LEMMA ExecuteInv == ASSUME Inv, NEW p \in Run, Execute(p) PROVE Inv'
<1> DEFINE m == [Idle EXCEPT !.pc = "recheck", !.caller = "execute"]
<1>1. m \in Process /\ m.pc = "recheck" /\ m.caller = "execute"
  BY DEF Idle, Process, Label, Caller, Kind, Verdict
<1> HIDE DEF m
<1>2. Becomes(p, m)
  BY <1>1, Known, MemUpdate DEF Execute, m
<1>3. Keeps(p, {})
  <2>1. disk[p].preflights \in 0..MAX_ATTEMPTS
    BY Known DEF Disk
  <2>2. disk[p].preflights + 1 \in 0..MAX_ATTEMPTS
    BY <2>1 DEF Execute, PreflightsLeft, MAX_ATTEMPTS, MAX_TRANSFER_ATTEMPTS
  <2>3. disk' = [disk EXCEPT ![p] = [disk[p] EXCEPT !.preflights = disk[p].preflights + 1]]
    BY Known DEF Execute
  <2>4. QED
    BY <2>2, <2>3, Known, FieldWrites
<1>4. /\ State(p) = NoState /\ ~disk[p].request /\ owner = None /\ Unconsumed(p)
      /\ lease = None /\ lease' = p
  BY Known DEF Execute, Body, Files
<1>5. Body(p)'
  BY <1>3, Known, BodyKept DEF Execute
<1>6. Owning(p)'
  BY <1>1, <1>2, <1>3, Known DEF Execute, Owning, State, RollbackDone, At, Keeps, Becomes, device
<1>7. /\ mem'[p].pc = "recheck" /\ mem'[p].caller = "execute" /\ disk'[p].j = disk[p].j
      /\ ~disk'[p].request /\ UNCHANGED <<owner, active>>
  BY <1>1, <1>2, <1>3, <1>4 DEF Becomes, Keeps, Execute, ledger
<1>8. Exclusive(p)' /\ Executing(p)'
  BY <1>4, <1>7 DEF Exclusive, Executing, At, Opening, Live, Asking, Claiming,
        Attempting, Resuming, Verifying, State, Unconsumed, ConsumedKeys
<1>9. Ending(p)' /\ Recovering(p)' /\ Transferring(p)'
  BY <1>7 DEF Ending, Recovering, Transferring, At, Resuming, Verifying, Releasing, Attempting
<1>10. QED
  BY <1>2, <1>3, <1>4, <1>5, <1>6, <1>8, <1>9, Inductive, Known
     DEF Execute, Local, Body, Becomes, Keeps, TypeOK, device

\* The labels of the execution: what the invariant asks of each.
LEMMA RecheckInv == ASSUME Inv, NEW p \in Run, Recheck(p) PROVE Inv'
<1>1. Keeps(p, {"transaction"}) /\ disk'[p].transaction = TRUE /\ Aside
  BY Known, FieldWrites DEF Recheck, Write, Aside
<1>2. Goes(p, "preflight", {}) /\ mem[p].pc = "recheck"
  BY Known, MemSteps DEF Recheck, Label, At
<1>3. Body(p) /\ Owning(p) /\ Stands(p) /\ lease = p
  BY <1>2, Known DEF Stands, Exclusive, At
<1>4. Body(p)'
  BY <1>1, <1>3 DEF Body, Keeps, Aside, Chain, Numbered, Ordered, Files, Claimed, State, Begun, Count, Recorded,
        RollbackDone, ledger, NoCandidateSession
<1>5. Owning(p)'
  BY <1>1, <1>2, <1>3 DEF Owning, State, RollbackDone, At, Keeps, Goes, Aside, device
<1>6. Stands(p)'
  BY <1>1, <1>2, <1>3 DEF Stands, Exclusive, Executing, Ending, Recovering, Transferring,
        At, Opening, Live, Asking, Claiming, Attempting, Resuming, Verifying, Releasing,
        State, Unconsumed, ConsumedKeys, Keeps, Goes, Moves, Aside, ledger
<1>7. QED
  BY <1>1, <1>2, <1>3, <1>4, <1>5, <1>6, WriteStep DEF Goes, Moves

\* Journal.create writes PREFLIGHT.
LEMMA PreflightInv == ASSUME Inv, NEW p \in Run, Preflight(p) PROVE Inv'
<1>1. Goes(p, "session_start", {}) /\ mem[p].pc = "preflight"
  BY Known, MemSteps DEF Preflight, Label
<1>2. /\ Typed(p) /\ Told(disk[p].j) /\ Marked(disk[p].j)
      /\ Body(p) /\ Owning(p) /\ Stands(p) /\ lease = p
  BY <1>1, Known DEF Stands, Exclusive
<1>4. ToState(p, "PREFLIGHT")
  <2>1. /\ Log(p, To("PREFLIGHT")) /\ "PREFLIGHT" \in STATES
        /\ "PREFLIGHT" \in NEXT_STATES[disk[p].j.state]
    BY <1>1, <1>2, TransitionTable DEF Preflight, STATES, Stands, Exclusive, Executing, Transferring,
     Ending, Recovering, Typed, NoState
  <2>2. QED
    BY <1>2, <2>1, Known, LogTo
<1>5. MayTurn(p, "PREFLIGHT")
  BY <1>1, <1>2 DEF MayTurn, Body, Chain, Pace, Numbered, Files, Claimed, Stands, Exclusive,
     Executing, Transferring, Ending, Recovering, Typed, Owning, NoState, Marked
<1>6. Body(p)' /\ Owning(p)'
  BY <1>1, <1>2, <1>4, <1>5, TransitionBody DEF Goes
<1>7. Stands(p)'
  BY <1>1, <1>2, <1>4 DEF Stands, Exclusive, Executing, Transferring, Ending, Recovering, Keeps,
     Goes, Moves, Aside, ledger, device, ToState, Unconsumed, ConsumedKeys, Body, Chain, Pace
<1>8. QED
  BY <1>1, <1>2, <1>4, <1>6, <1>7, WriteStep DEF Goes, Moves, ToState

\* The session starts.
LEMMA SessionStartInv == ASSUME Inv, NEW p \in Run, SessionStart(p) PROVE Inv'
<1>1. Goes(p, "approve", {}) /\ mem[p].pc = "session_start"
  BY Known, MemSteps DEF SessionStart, Label
<1>2. /\ Typed(p) /\ Told(disk[p].j) /\ Marked(disk[p].j)
      /\ Body(p) /\ Owning(p) /\ Stands(p) /\ lease = p
  BY <1>1, Known DEF Stands, Exclusive
<1>4. WithEvent(p, "live_session_start")
  <2>1. Log(p, Happened("live_session_start"))
    BY <1>1, <1>2 DEF SessionStart
  <2>2. Follows(disk[p].j.state, Has(disk[p].j, "candidate_flash_start"), Len(disk[p].j.events),
                "live_session_start")
    BY <1>1, <1>2 DEF SessionStart, Follows, Stands, Exclusive, Executing, Transferring, Ending,
     Recovering, Body, Chain, Pace, Marked
  <2>3. QED
    BY <1>2, <2>1, <2>2, Known, LogEvent
<1>5. Follows(State(p), Begun(p), Count(p), "live_session_start")
  BY <1>1, <1>2 DEF SessionStart, Follows, Stands, Exclusive, Executing, Transferring, Ending,
     Recovering, Body, Chain, Pace, Marked
<1>6. Body(p)' /\ Owning(p)'
  BY <1>1, <1>2, <1>4, <1>5, EventBody DEF Goes
<1>7. Stands(p)'
  BY <1>1, <1>2, <1>4 DEF Stands, Exclusive, Executing, Transferring, Ending, Recovering, Keeps,
     Goes, Moves, Aside, ledger, device, WithEvent, Unconsumed, ConsumedKeys
<1>8. QED
  BY <1>1, <1>2, <1>4, <1>6, <1>7, WriteStep DEF Goes, Moves, WithEvent

\* The approval is journalled.
LEMMA ApproveInv == ASSUME Inv, NEW p \in Run, Approve(p) PROVE Inv'
<1>1. Goes(p, "arm", {}) /\ mem[p].pc = "approve"
  BY Known, MemSteps DEF Approve, Label
<1>2. /\ Typed(p) /\ Told(disk[p].j) /\ Marked(disk[p].j)
      /\ Body(p) /\ Owning(p) /\ Stands(p) /\ lease = p
  BY <1>1, Known DEF Stands, Exclusive
<1>4. ToState(p, "APPROVED")
  <2>1. /\ Log(p, To("APPROVED")) /\ "APPROVED" \in STATES
        /\ "APPROVED" \in NEXT_STATES[disk[p].j.state]
    BY <1>1, <1>2, TransitionTable DEF Approve, STATES, Stands, Exclusive, Executing, Transferring,
     Ending, Recovering, Typed, NoState
  <2>2. QED
    BY <1>2, <2>1, Known, LogTo
<1>5. MayTurn(p, "APPROVED")
  BY <1>1, <1>2 DEF MayTurn, Body, Chain, Pace, Numbered, Files, Claimed, Stands, Exclusive,
     Executing, Transferring, Ending, Recovering, Typed, Owning, NoState, Marked
<1>6. Body(p)' /\ Owning(p)'
  BY <1>1, <1>2, <1>4, <1>5, TransitionBody DEF Goes
<1>7. Stands(p)'
  BY <1>1, <1>2, <1>4 DEF Stands, Exclusive, Executing, Transferring, Ending, Recovering, Keeps,
     Goes, Moves, Aside, ledger, device, ToState, Unconsumed, ConsumedKeys
<1>8. QED
  BY <1>1, <1>2, <1>4, <1>6, <1>7, WriteStep DEF Goes, Moves, ToState

\* A run that never asked for Download mode has made no transfer.
LEMMA NoTransfer == ASSUME NEW p \in Run, Typed(p), Body(p), ~disk[p].request PROVE NoCandidateSession(p)
<1>1. disk[p].starts["candidate"] = 0 /\ disk[p].starts["rollback"] = 0
  BY DEF Body, Files, Typed, Kind
<1>2. tries[p]["candidate"] = 0 /\ tries[p]["rollback"] = 0
  BY <1>1 DEF Body, Numbered, Ordered, Typed, Kind
<1>3. QED
  BY <1>2 DEF NoCandidateSession, Kind

\* Arming the observer fails.
LEMMA ArmFailedInv == ASSUME Inv, NEW p \in Run, ArmFailed(p) PROVE Inv'
<1>1. Goes(p, "publish", {"verdict"}) /\ mem[p].pc = "arm_failed" /\ mem'[p].verdict = "pre_effect"
  BY Known, MemSteps DEF ArmFailed, Label, Verdict
<1>2. /\ Typed(p) /\ Told(disk[p].j) /\ Marked(disk[p].j)
      /\ Body(p) /\ Owning(p) /\ Stands(p) /\ lease = p
  BY <1>1, Known DEF Stands, Exclusive
<1>3. p \notin sessions
  BY <1>1, <1>2 DEF ArmFailed, Stands, Exclusive, Executing, Transferring, Ending, Recovering,
     Body, Claimed, Chain, Pace
<1>9. NoCandidateSession(p)
  <2>1. ~disk[p].request
    BY <1>1, <1>2 DEF Stands, Exclusive, Opening
  <2>2. QED
    BY <1>2, <2>1, NoTransfer
<1>4. ToState(p, "ABORTED")
  <2>1. /\ Log(p, To("ABORTED")) /\ "ABORTED" \in STATES
        /\ "ABORTED" \in NEXT_STATES[disk[p].j.state]
    BY <1>1, <1>2, <1>3, TransitionTable DEF ArmFailed, STATES, Stands, Exclusive, Executing,
     Transferring, Ending, Recovering, Typed, NoState
  <2>2. QED
    BY <1>2, <2>1, Known, LogTo
<1>5. MayTurn(p, "ABORTED")
  BY <1>1, <1>2, <1>3 DEF MayTurn, Body, Chain, Pace, Numbered, Files, Claimed, Stands, Exclusive,
     Executing, Transferring, Ending, Recovering, Typed, Owning, NoState, Marked
<1>6. Body(p)' /\ Owning(p)'
  BY <1>1, <1>2, <1>4, <1>5, TransitionBody DEF Goes
<1>7. Stands(p)'
  <2>1. /\ mem'[p].pc = "publish" /\ mem'[p].verdict = "pre_effect" /\ lease' = p
        /\ disk'[p].transaction /\ NoCandidateSession(p)'
    BY <1>1, <1>2, <1>4, <1>9 DEF Stands, Exclusive, Keeps, Goes, Moves, Aside, ledger, device, ToState,
       NoCandidateSession
  <2>2. QED
    BY <2>1 DEF Stands, Exclusive, Executing, Transferring, Ending, Recovering, Opening, Asking,
       Claiming, Attempting, Releasing, Resuming, Verifying, Live
<1>8. QED
  BY <1>1, <1>2, <1>4, <1>6, <1>7, WriteStep DEF Goes, Moves, ToState

\* The observer is armed, or not.
LEMMA ArmInv == ASSUME Inv, NEW p \in Run, Arm(p) PROVE Inv'
<1>1. (Goes(p, "own", {}) \/ Goes(p, "arm_failed", {})) /\ mem[p].pc = "arm"
  <2>1. "own" \in Label /\ "arm_failed" \in Label /\ mem \in [Run -> Process]
    BY Known DEF Label
  <2>2. (Goto(p, "own") \/ Goto(p, "arm_failed")) /\ mem[p].pc = "arm"
    BY DEF Arm
  <2>3. QED
    BY <2>1, <2>2, MemSteps
<1>2. /\ Typed(p) /\ Told(disk[p].j) /\ Marked(disk[p].j)
      /\ Body(p) /\ Owning(p) /\ Stands(p) /\ lease = p
  BY <1>1, Known DEF Stands, Exclusive
<1>4. /\ Keeps(p, {}) /\ UNCHANGED <<lease, owner, ledger, image, tries, refused>>
      /\ mode' \in {"android", "download", "other"} /\ faults' \in 0..MaxFaults
  BY Known DEF Arm, LocalStep, Keeps, TypeOK, device
<1>5. Stands(p)'
  BY <1>1, <1>2, <1>4 DEF Stands, Exclusive, Executing, Transferring, Ending, Recovering, Keeps,
     Goes, Moves, Aside, ledger, device, Unconsumed, ConsumedKeys
<1>6. QED
  BY <1>1, <1>2, <1>4, <1>5, QuietStep, Known DEF Label, TypeOK

\* The intent to request Download mode.
LEMMA RequestIntentInv == ASSUME Inv, NEW p \in Run, RequestIntent(p) PROVE Inv'
<1>1. Goes(p, "request_download", {}) /\ mem[p].pc = "request"
  BY Known, MemSteps DEF RequestIntent, Label
<1>2. /\ Typed(p) /\ Told(disk[p].j) /\ Marked(disk[p].j)
      /\ Body(p) /\ Owning(p) /\ Stands(p) /\ lease = p
  BY <1>1, Known DEF Stands, Exclusive
<1>3. State(p) = "APPROVED" /\ owner = p
  BY <1>1, <1>2 DEF RequestIntent, Stands, Exclusive, Executing, Transferring, Ending, Recovering
<1>4. Keeps(p, {"request"}) /\ Aside /\ disk'[p].request = TRUE
  BY Known, FieldWrites DEF RequestIntent, Write, Aside
<1>5. Body(p)'
  <2>1. Chain(p)' /\ Numbered(p)'
    BY <1>2, <1>4, ChainKept DEF Aside
  <2>2. Files(p)' /\ Claimed(p)'
    BY <1>1, <1>2, <1>3, <1>4 DEF Body, Files, Claimed, Keeps, Aside, ledger
  <2>3. QED
    BY <2>1, <2>2 DEF Body
<1>6. Owning(p)'
  BY <1>1, <1>2, <1>3, <1>4 DEF Owning, RollbackDone, Keeps, Goes, Aside, device
<1>7. Stands(p)'
  BY <1>1, <1>2, <1>3, <1>4 DEF Stands, Exclusive, Executing, Transferring, Ending, Recovering,
     Keeps, Goes, Moves, Aside, ledger, device, Unconsumed, ConsumedKeys
<1>8. QED
  BY <1>1, <1>2, <1>4, <1>5, <1>6, <1>7, WriteStep DEF Goes, Moves

\* The reboot request, delivered or lost.
LEMMA RequestDownloadInv == ASSUME Inv, NEW p \in Run, RequestDownload(p) PROVE Inv'
<1>1. Goes(p, "wait", {}) /\ mem[p].pc = "request_download"
  BY Known, MemSteps DEF RequestDownload, Label
<1>2. /\ Typed(p) /\ Told(disk[p].j) /\ Marked(disk[p].j)
      /\ Body(p) /\ Owning(p) /\ Stands(p) /\ lease = p
  BY <1>1, Known DEF Stands, Exclusive
<1>4. /\ Keeps(p, {}) /\ UNCHANGED <<lease, owner, ledger, image, tries, refused>>
      /\ mode' \in {"android", "download", "other"} /\ faults' \in 0..MaxFaults
  BY Known DEF RequestDownload, LocalStep, Keeps, TypeOK, device
<1>5. Stands(p)'
  BY <1>1, <1>2, <1>4 DEF Stands, Exclusive, Executing, Transferring, Ending, Recovering, Keeps,
     Goes, Moves, Aside, ledger, device, Unconsumed, ConsumedKeys
<1>6. QED
  BY <1>1, <1>2, <1>4, <1>5, QuietStep, Known DEF Label, TypeOK

\* The reboot request reports an error.
LEMMA RequestFailsInv == ASSUME Inv, NEW p \in Run, RequestFails(p) PROVE Inv'
<1>1. mem[p].pc = "request_download"
  BY DEF RequestFails
<1>2. lease = p
  BY <1>1, Known DEF Stands, Exclusive
<1>3. Becomes(p, Idle) /\ lease' = None
  BY Known, MemSteps DEF RequestFails, Raise, Label
<1>4. /\ mode' \in {"android", "download", "other"} /\ faults' \in 0..MaxFaults
      /\ UNCHANGED <<disk, owner, ledger, image, tries, refused>>
  BY Known DEF RequestFails, Raise, TypeOK, device
<1>5. QED
  BY <1>2, <1>3, <1>4, Leaves

\* The endpoint appears.
LEMMA WaitCandidateInv == ASSUME Inv, NEW p \in Run, WaitCandidate(p) PROVE Inv'
<1>1. Goes(p, "identify", {}) /\ mem[p].pc = "wait"
  BY Known, MemSteps DEF WaitCandidate, Label
<1>2. /\ Typed(p) /\ Told(disk[p].j) /\ Marked(disk[p].j)
      /\ Body(p) /\ Owning(p) /\ Stands(p) /\ lease = p
  BY <1>1, Known DEF Stands, Exclusive
<1>4. /\ Keeps(p, {}) /\ UNCHANGED <<lease, owner, ledger, image, tries, refused>>
      /\ mode' \in {"android", "download", "other"} /\ faults' \in 0..MaxFaults
  BY Known DEF WaitCandidate, LocalStep, Keeps, TypeOK, device
<1>5. Stands(p)'
  BY <1>1, <1>2, <1>4 DEF Stands, Exclusive, Executing, Transferring, Ending, Recovering, Keeps,
     Goes, Moves, Aside, ledger, device, Unconsumed, ConsumedKeys
<1>6. QED
  BY <1>1, <1>2, <1>4, <1>5, QuietStep, Known DEF Label, TypeOK

\* The endpoint does not appear.
LEMMA WaitCandidateFailsInv == ASSUME Inv, NEW p \in Run, WaitCandidateFails(p) PROVE Inv'
<1>1. mem[p].pc = "wait"
  BY DEF WaitCandidateFails
<1>2. lease = p
  BY <1>1, Known DEF Stands, Exclusive
<1>3. Becomes(p, Idle) /\ lease' = None
  BY Known, MemSteps DEF WaitCandidateFails, Raise, Label
<1>4. /\ mode' \in {"android", "download", "other"} /\ faults' \in 0..MaxFaults
      /\ UNCHANGED <<disk, owner, ledger, image, tries, refused>>
  BY Known DEF WaitCandidateFails, Raise, TypeOK, device
<1>5. QED
  BY <1>2, <1>3, <1>4, Leaves

\* The device is identified in Download mode.
LEMMA IdentifyInv == ASSUME Inv, NEW p \in Run, Identify(p) PROVE Inv'
<1>1. Goes(p, "claim_intent", {}) /\ mem[p].pc = "identify"
  BY Known, MemSteps DEF Identify, Label
<1>2. /\ Typed(p) /\ Told(disk[p].j) /\ Marked(disk[p].j)
      /\ Body(p) /\ Owning(p) /\ Stands(p) /\ lease = p
  BY <1>1, Known DEF Stands, Exclusive
<1>3. p \notin active /\ ~disk[p].claimReceipt /\ disk[p].starts["candidate"] = 0
      /\ disk[p].request /\ owner = p /\ disk[p].transaction /\ mem[p].caller = "execute" /\ lease = p
  BY <1>1, <1>2 DEF Identify, Stands, Exclusive, Executing, Transferring, Ending, Recovering, Body,
     Files, Claimed, Numbered, Typed, Chain, Pace
<1>4. ToState(p, "DOWNLOAD_IDENTIFIED")
  <2>1. /\ Log(p, To("DOWNLOAD_IDENTIFIED")) /\ "DOWNLOAD_IDENTIFIED" \in STATES
        /\ "DOWNLOAD_IDENTIFIED" \in NEXT_STATES[disk[p].j.state]
    BY <1>1, <1>2, <1>3, TransitionTable DEF Identify, STATES, Stands, Exclusive, Executing,
     Transferring, Ending, Recovering, Typed, NoState
  <2>2. QED
    BY <1>2, <2>1, Known, LogTo
<1>5. MayTurn(p, "DOWNLOAD_IDENTIFIED")
  BY <1>1, <1>2, <1>3 DEF MayTurn, Body, Chain, Pace, Numbered, Files, Claimed, Stands, Exclusive,
     Executing, Transferring, Ending, Recovering, Typed, Owning, NoState, Marked
<1>6. Body(p)' /\ Owning(p)'
  BY <1>1, <1>2, <1>4, <1>5, TransitionBody DEF Goes
<1>7. Stands(p)'
  BY <1>1, <1>3, <1>4 DEF Stands, Exclusive, Executing, Transferring, Ending, Recovering, Keeps,
     Goes, Moves, Aside, ledger, device, ToState, Unconsumed, ConsumedKeys
<1>8. QED
  BY <1>1, <1>2, <1>4, <1>6, <1>7, WriteStep DEF Goes, Moves, ToState

\* The intent to claim the candidate.
LEMMA ClaimIntentInv == ASSUME Inv, NEW p \in Run, ClaimIntent(p) PROVE Inv'
<1>1. Goes(p, "claim", {}) /\ mem[p].pc = "claim_intent"
  BY Known, MemSteps DEF ClaimIntent, Label
<1>2. /\ Typed(p) /\ Told(disk[p].j) /\ Marked(disk[p].j)
      /\ Body(p) /\ Owning(p) /\ Stands(p) /\ lease = p
  BY <1>1, Known DEF Stands, Exclusive
<1>3. State(p) = "DOWNLOAD_IDENTIFIED" /\ disk[p].request
  BY <1>1, <1>2 DEF ClaimIntent, Stands, Exclusive, Executing, Transferring, Ending, Recovering
<1>4. Keeps(p, {"claimIntent"}) /\ Aside /\ disk'[p].claimIntent = TRUE
  BY Known, FieldWrites DEF ClaimIntent, Write, Aside
<1>5. Body(p)'
  <2>1. Chain(p)' /\ Numbered(p)'
    BY <1>2, <1>4, ChainKept DEF Aside
  <2>2. Files(p)' /\ Claimed(p)'
    BY <1>1, <1>2, <1>3, <1>4 DEF Body, Files, Claimed, Keeps, Aside, ledger
  <2>3. QED
    BY <2>1, <2>2 DEF Body
<1>6. Owning(p)'
  BY <1>1, <1>2, <1>3, <1>4 DEF Owning, RollbackDone, Keeps, Goes, Aside, device
<1>7. Stands(p)'
  BY <1>1, <1>2, <1>3, <1>4 DEF Stands, Exclusive, Executing, Transferring, Ending, Recovering,
     Keeps, Goes, Moves, Aside, ledger, device, Unconsumed, ConsumedKeys
<1>8. QED
  BY <1>1, <1>2, <1>4, <1>5, <1>6, <1>7, WriteStep DEF Goes, Moves

\* The same for a step that changes the owner file, the ledger, the image or the
\* transfers of its run.
LEMMA Inductive2 ==
    ASSUME Inv, NEW p \in Run, lease = p, TypeOK', refused' = refused, Claims', Local(p)',
           \A q \in Run : q # p =>
              /\ disk'[q] = disk[q] /\ mem'[q] = mem[q] /\ tries'[q] = tries[q]
              /\ (q \in active' <=> q \in active) /\ (q \in granted' <=> q \in granted)
              /\ (q \in failures' <=> q \in failures) /\ (q \in sessions' <=> q \in sessions)
              /\ (owner' = q <=> owner = q) /\ (owner = q => image' = image)
    PROVE  Inv'
<1>1. NeverRefused'
  BY DEF Inv, NeverRefused
<1>2. ASSUME NEW q \in Run, q # p PROVE Local(q)'
  <2>1. Local(q)
    BY DEF Inv
  <2>2. QED
    BY <1>2, <2>1, RunAssumption, OtherRuns
<1>3. QED
  BY <1>1, <1>2 DEF Inv

\* The owner file is created for a run that no claim blocks.
LEMMA BeginOwnerInv == ASSUME Inv, NEW p \in Run, BeginOwner(p) PROVE Inv'
<1>1. Goes(p, "request", {}) /\ mem[p].pc = "own"
  BY Known, MemSteps DEF BeginOwner, Label
<1>2. /\ Typed(p) /\ Body(p) /\ Owning(p) /\ Stands(p) /\ lease = p /\ TypeOK
  BY <1>1, Known DEF Stands, Exclusive
<1>3. /\ ~disk[p].request /\ Unconsumed(p) /\ State(p) = "APPROVED" /\ image = "stock"
      /\ owner = None /\ None \notin Run
  BY <1>1, <1>2, RunAssumption DEF Stands, Exclusive, Executing, Inv, Claims
<1>4. /\ Keeps(p, {}) /\ owner' = p
      /\ UNCHANGED <<lease, ledger, image, mode, faults, tries, refused, disk>>
  BY Known DEF BeginOwner, Keeps, device
<1>5. Body(p)'
  BY <1>2, <1>4, BodyKept
<1>6. Owning(p)'
  BY <1>1, <1>3, <1>4 DEF Owning, Keeps, Goes
<1>7. Stands(p)'
  BY <1>1, <1>2, <1>4 DEF Stands, Exclusive, Executing, Transferring, Ending, Recovering, Keeps,
     Goes, Moves, ledger
<1>8. Claims'
  BY <1>3, <1>4 DEF Inv, Claims, ForeignClaim, Unconsumed, ConsumedKeys, ledger
<1>9. TypeOK'
  BY <1>1, <1>2, <1>4 DEF TypeOK, Goes, Moves, ledger
<1>10. QED
  BY <1>1, <1>2, <1>3, <1>4, <1>5, <1>6, <1>7, <1>8, <1>9, Inductive2
     DEF Local, Body, Stands, Goes, Moves, ledger

\* The claim of the candidate.
LEMMA ClaimCandidateInv == ASSUME Inv, NEW p \in Run, ClaimCandidate(p) PROVE Inv'
<1>1. mem[p].pc = "claim"
  BY DEF ClaimCandidate
<1>2. /\ Typed(p) /\ Body(p) /\ Owning(p) /\ Stands(p) /\ lease = p /\ TypeOK
  BY <1>1, Known DEF Stands, Exclusive
<1>3. CASE CandOf[p] \in ConsumedKeys
  <2>1. /\ Leave(p) /\ UNCHANGED <<disk, owner, ledger, image, mode, faults, tries, refused>>
    BY <1>3 DEF ClaimCandidate, device, ledger
  <2>2. Becomes(p, Idle) /\ lease' = None
    BY <2>1, Known, MemSteps DEF Label
  <2>3. QED
    BY <1>2, <2>1, <2>2, Leaves DEF TypeOK
<1>4. CASE CandOf[p] \notin ConsumedKeys
  <2>1. Goes(p, "claim_receipt", {})
    BY <1>4, Known, MemSteps DEF ClaimCandidate, Label
  <2>2. /\ Keeps(p, {}) /\ active' = active \cup {p}
        /\ UNCHANGED <<lease, owner, granted, failures, sessions, image, mode, faults, tries,
                       refused, disk>>
    BY <1>4, Known DEF ClaimCandidate, Keeps, device
  <2>3. Chain(p)' /\ Numbered(p)'
    BY <1>2, <2>2, ChainKept
  <2>4. Files(p)' /\ Claimed(p)'
    BY <1>1, <1>2, <2>2 DEF Body, Files, Claimed, Keeps, Stands, Executing
  <2>5. Owning(p)'
    BY <1>2, <2>1, <2>2 DEF Owning, Keeps, Goes, RollbackDone
  <2>6. Stands(p)'
    BY <1>1, <1>2, <2>1, <2>2 DEF Stands, Exclusive, Executing, Transferring, Ending, Recovering,
       Keeps, Goes, Moves
  <2>7. Claims'
    <3>1. Claims /\ owner = p
      BY <1>1, <1>2 DEF Inv, Stands, Exclusive
    <3>2. \A c, q \in active' : CandOf[c] = CandOf[q] => c = q
      BY <1>4, <2>2, <3>1 DEF Claims, ConsumedKeys
    <3>3. QED
      BY <2>2, <3>1, <3>2 DEF Claims, ForeignClaim
  <2>8. TypeOK'
    BY <1>2, <2>1, <2>2 DEF TypeOK, Goes, Moves
  <2>9. QED
    BY <1>2, <2>1, <2>2, <2>3, <2>4, <2>5, <2>6, <2>7, <2>8, Inductive2
       DEF Local, Stands, Goes, Moves
<1>5. QED
  BY <1>3, <1>4

\* The receipt of the claim.
LEMMA ClaimReceiptInv == ASSUME Inv, NEW p \in Run, ClaimReceipt(p) PROVE Inv'
<1>1. Goes(p, "begin", {"kind"}) /\ mem'[p].kind = "candidate" /\ mem[p].pc = "claim_receipt"
  BY Known, MemSteps DEF ClaimReceipt, Label
<1>2. /\ Typed(p) /\ Body(p) /\ Owning(p) /\ Stands(p) /\ lease = p /\ TypeOK
  BY <1>1, Known DEF Stands, Exclusive
<1>3. /\ Keeps(p, {"claimReceipt"}) /\ disk'[p].claimReceipt = TRUE
      /\ granted' = granted \cup {p}
      /\ UNCHANGED <<lease, owner, active, failures, sessions, image, mode, faults, tries, refused>>
  <2>1. disk' = [disk EXCEPT ![p] = [disk[p] EXCEPT !.claimReceipt = TRUE]]
    BY Known DEF ClaimReceipt
  <2>2. QED
    BY <2>1, Known, FieldWrites DEF ClaimReceipt, device
<1>4. /\ disk[p].starts["candidate"] = 0 /\ disk[p].j.attempts["candidate"] = 0
      /\ tries[p]["candidate"] = 0 /\ State(p) = "DOWNLOAD_IDENTIFIED" /\ p \in active
      /\ disk[p].request /\ owner = p /\ disk[p].transaction /\ mem[p].caller = "execute"
      /\ disk[p].claimIntent /\ lease = p
  BY <1>1, <1>2 DEF Stands, Exclusive, Executing, Body, Numbered, Ordered, Typed
<1>5. Chain(p)' /\ Numbered(p)'
  BY <1>2, <1>3, ChainKept
<1>6. Files(p)' /\ Claimed(p)'
  BY <1>2, <1>3, <1>4 DEF Body, Files, Claimed, Keeps
<1>7. Owning(p)'
  BY <1>1, <1>2, <1>3 DEF Owning, Keeps, Goes, RollbackDone
<1>8. Stands(p)'
  <2>1. /\ disk'[p].j = disk[p].j /\ disk'[p].starts = disk[p].starts /\ disk'[p].claimReceipt
        /\ disk'[p].request /\ disk'[p].transaction /\ tries' = tries
        /\ mem'[p].pc = "begin" /\ mem'[p].kind = "candidate" /\ mem'[p].caller = "execute"
        /\ p \in active' /\ lease' = p /\ owner' = p
    BY <1>1, <1>3, <1>4 DEF Keeps, Goes, Moves
  <2>2. Exclusive(p)' /\ Executing(p)' /\ Ending(p)' /\ Recovering(p)'
    BY <1>4, <2>1 DEF Exclusive, Executing, Ending, Recovering
  <2>3. Transferring(p)'
    BY <1>4, <2>1 DEF Transferring
  <2>4. QED
    BY <2>2, <2>3 DEF Stands
<1>9. Claims'
  BY <1>3 DEF Inv, Claims, ForeignClaim
<1>10. TypeOK'
  BY <1>1, <1>2, <1>3 DEF TypeOK, Goes, Moves, Keeps
<1>11. QED
  BY <1>1, <1>2, <1>3, <1>5, <1>6, <1>7, <1>8, <1>9, <1>10, Inductive2
     DEF Local, Stands, Goes, Moves, Keeps

----------------------------------------------------------------------------
(* A transfer attempt.                                                     *)

\* The start file of an attempt.
LEMMA BeginAttemptInv == ASSUME Inv, NEW p \in Run, BeginAttempt(p) PROVE Inv'
<1> DEFINE k == mem[p].kind
           s == [disk[p].starts EXCEPT ![k] = disk[p].starts[k] + 1]
<1>1. Goes(p, "checkpoint", {}) /\ mem[p].pc = "begin"
  BY Known, MemSteps DEF BeginAttempt, Label
<1>2. /\ Typed(p) /\ Body(p) /\ Owning(p) /\ Stands(p) /\ lease = p
  BY <1>1, Known DEF Stands, Exclusive
<1>3. /\ k \in Kind /\ disk[p].starts[k] = disk[p].j.attempts[k] /\ disk[p].starts[k] \in 0..1
      /\ k = "candidate" => disk[p].starts["candidate"] = 0 /\ State(p) = "DOWNLOAD_IDENTIFIED"
                            /\ p \in active /\ disk[p].claimReceipt /\ tries[p]["candidate"] = 0
                            /\ mem[p].caller = "execute"
      /\ k = "rollback" => State(p) = "RECOVERY_DOWNLOAD" /\ Recorded(p, "rollback_flash_start")
      /\ disk[p].request /\ owner = p /\ disk[p].transaction
  BY <1>1, <1>2 DEF Stands, Exclusive, Transferring, Typed, BeginAttempt, MAX_ATTEMPTS,
     MAX_TRANSFER_ATTEMPTS
<1>4. s \in [Kind -> 0..2] /\ s[k] = disk[p].starts[k] + 1
      /\ \A other \in Kind : other # k => s[other] = disk[p].starts[other]
  BY <1>2, <1>3 DEF Typed
<1>5. disk' = [disk EXCEPT ![p] = [disk[p] EXCEPT !.starts = s]] /\ Aside
  BY <1>2, Known DEF BeginAttempt, Write, Aside
<1> HIDE DEF s
<1>6. Keeps(p, {"starts"}) /\ disk'[p].starts = s
  <2>1. s \in [Kind -> 0..MAX_ATTEMPTS] /\ disk \in [Run -> Disk]
    BY <1>4, Known DEF MAX_ATTEMPTS, MAX_TRANSFER_ATTEMPTS
  <2>2. QED
    BY <1>5, <2>1, FieldWrites
<1>7. /\ disk'[p].j = disk[p].j /\ disk'[p].result = disk[p].result /\ tries' = tries
      /\ UNCHANGED <<ledger, owner, image, lease>>
  BY <1>5, <1>6 DEF Keeps, Aside, device
<1>8. ~RollbackDone(p)'
  <2>1. disk[p].starts["rollback"] \in 0..2 /\ Ordered(p, "rollback")
    BY <1>2 DEF Typed, Body, Numbered
  <2>2. CASE k = "rollback"
    <3>1. s["rollback"] \in 1..2 /\ s["rollback"] > disk[p].starts["rollback"]
      BY <1>3, <1>4, <2>2
    <3>2. disk[p].result["rollback"][s["rollback"]] = "none"
      BY <2>1, <3>1 DEF Ordered, MAX_ATTEMPTS, MAX_TRANSFER_ATTEMPTS
    <3>3. QED
      BY <1>6, <1>7, <3>2 DEF RollbackDone, COMPLETED
  <2>3. CASE k = "candidate"
    <3>1. disk[p].starts["rollback"] = 0
      BY <1>2, <1>3, <2>1, <2>3 DEF Body, Numbered
    <3>2. s["rollback"] = 0
      BY <1>4, <2>3, <3>1
    <3>3. QED
      BY <1>6, <3>2 DEF RollbackDone
  <2>4. QED
    BY <1>3, <2>2, <2>3
<1>9. ASSUME NEW kind \in Kind PROVE Ordered(p, kind)'
  <2>1. Ordered(p, kind) /\ disk[p].j.attempts[kind] \in 0..2 /\ disk[p].starts[kind] \in 0..2
        /\ tries[p][kind] \in 0..2
    BY <1>2 DEF Body, Numbered, Typed
  <2>2. CASE kind = k
    <3>1. /\ disk'[p].starts[kind] = disk[p].starts[kind] + 1
          /\ disk[p].starts[kind] = disk[p].j.attempts[kind]
          /\ disk'[p].j.attempts[kind] = disk[p].j.attempts[kind]
          /\ disk'[p].result[kind] = disk[p].result[kind] /\ tries'[p][kind] = tries[p][kind]
      BY <1>3, <1>4, <1>6, <1>7, <2>2
    <3>2. QED
      BY <2>1, <3>1 DEF Ordered, MAX_ATTEMPTS, MAX_TRANSFER_ATTEMPTS
  <2>3. CASE kind # k
    BY <1>4, <1>6, <1>7, <2>1, <2>3 DEF Ordered
  <2>4. QED
    BY <2>2, <2>3
<1>10. Chain(p)'
  BY <1>2, <1>7 DEF Body, Chain
<1>11. Numbered(p)'
  <2>1. disk'[p].starts["candidate"] <= 1
    BY <1>2, <1>3, <1>4, <1>6 DEF Body, Numbered
  <2>2. disk'[p].starts["candidate"] = 1 => State(p)' = "DOWNLOAD_IDENTIFIED" \/ Begun(p)'
    BY <1>2, <1>3, <1>4, <1>6, <1>7 DEF Body, Numbered
  <2>3. State(p)' \notin {"ROLLBACK_FLASHED", "HEALTH_VERIFIED", "CLOSED"}
    BY <1>3, <1>7
  <2>4. disk'[p].starts["rollback"] > 0 => State(p)' \in RECOVERY_EVENT_STATES \cup {"CLOSED", "ABORTED"}
    BY <1>2, <1>3, <1>4, <1>6, <1>7 DEF Body, Numbered
  <2>5. Begun(p)' => disk'[p].j.attempts["candidate"] = 1
    BY <1>2, <1>7 DEF Body, Numbered
  <2>6. QED
    BY <1>9, <2>1, <2>2, <2>3, <2>4, <2>5 DEF Numbered
<1>12. Files(p)' /\ Claimed(p)'
  BY <1>2, <1>3, <1>6, <1>7 DEF Body, Files, Claimed, Keeps, ledger
<1>13. Owning(p)'
  BY <1>1, <1>2, <1>6, <1>7, <1>8 DEF Owning, Keeps, Goes
<1>14. Exclusive(p)' /\ Executing(p)' /\ Ending(p)' /\ Recovering(p)'
  BY <1>1, <1>2, <1>3, <1>6, <1>7 DEF Exclusive, Executing, Ending, Recovering, Keeps, Goes, Moves
<1>15. Transferring(p)'
  BY <1>1, <1>3, <1>4, <1>6, <1>7, <1>8 DEF Transferring, Keeps, Goes, Moves, ledger
<1>16. QED
  BY <1>1, <1>2, <1>5, <1>6, <1>10, <1>11, <1>12, <1>13, <1>14, <1>15, WriteStep
     DEF Goes, Moves, Body, Stands

\* Its checkpoint.
LEMMA CheckpointInv == ASSUME Inv, NEW p \in Run, Checkpoint(p) PROVE Inv'
<1> DEFINE k == mem[p].kind
<1>1. mem[p].pc = "checkpoint" /\ k \in Kind
      /\ Goes(p, IF k = "candidate" THEN "flash_start" ELSE "transfer", {})
  <2>1. "flash_start" \in Label /\ "transfer" \in Label /\ mem \in [Run -> Process] /\ k \in Kind
    BY Known DEF Label, Typed
  <2>2. QED
    BY <2>1, MemSteps DEF Checkpoint
<1>2. /\ Typed(p) /\ Told(disk[p].j) /\ Body(p) /\ Owning(p) /\ Stands(p) /\ lease = p
  BY <1>1, Known DEF Stands, Exclusive
<1>3. /\ Orphan(p, k) /\ disk[p].j.attempts[k] \in 0..1 /\ tries[p][k] <= disk[p].j.attempts[k]
      /\ tries[p][k] \in 0..2
      /\ k = "candidate" => disk[p].j.attempts["candidate"] = 0 /\ State(p) = "DOWNLOAD_IDENTIFIED"
                            /\ p \in active /\ disk[p].claimReceipt /\ tries[p]["candidate"] = 0
                            /\ mem[p].caller = "execute" /\ ~Begun(p)
      /\ k = "rollback" => State(p) = "RECOVERY_DOWNLOAD" /\ Recorded(p, "rollback_flash_start")
      /\ disk[p].request /\ owner = p /\ disk[p].transaction /\ ~RollbackDone(p)
  <2>1. Orphan(p, k) /\ disk[p].starts[k] = disk[p].j.attempts[k] + 1
    BY <1>1, <1>2 DEF Stands, Transferring, Orphan
  <2>2. disk[p].starts[k] \in 0..2 /\ disk[p].j.attempts[k] \in 0..2 /\ tries[p][k] \in 0..2
    BY <1>1, <1>2 DEF Typed
  <2>3. tries[p][k] <= disk[p].j.attempts[k] /\ (k = "candidate" => disk[p].starts[k] <= 1)
        /\ (Begun(p) => disk[p].j.attempts["candidate"] = 1)
    BY <1>1, <1>2 DEF Body, Numbered, Ordered
  <2>4. QED
    BY <1>1, <1>2, <2>1, <2>2, <2>3 DEF Stands, Exclusive, Transferring
<1>4. WithAttempt(p, k)
  <2>1. k \in DOMAIN CHECKPOINT_STATE /\ disk[p].j.state = CHECKPOINT_STATE[k]
    BY <1>1, <1>3 DEF CHECKPOINT_STATE
  <2>2. disk[p].j.attempts[k] < IF k = "revalidation" THEN 1 ELSE MAX_TRANSFER_ATTEMPTS
    BY <1>1, <1>3 DEF MAX_TRANSFER_ATTEMPTS
  <2>3. Log(p, Attempt(k, disk[p].j.attempts[k] + 1))
    BY <1>3 DEF Checkpoint, Orphan
  <2>4. QED
    BY <1>2, <2>1, <2>2, <2>3, Known, LogAttempt
<1>5. k \in DOMAIN CHECKPOINT_STATE
  BY <1>1 DEF CHECKPOINT_STATE
<1>6. Body(p)' /\ Owning(p)'
  BY <1>1, <1>2, <1>3, <1>4, <1>5, AttemptBody DEF Goes
<1>7. RollbackDone(p)' <=> RollbackDone(p)
  BY <1>4, RollbackKept DEF WithAttempt
<1>8. Marked(disk[p].j) /\ Marked(disk'[p].j)
  BY <1>4, Known, Marking DEF WithAttempt, Keeps
<1>9. /\ disk'[p].j.state = disk[p].j.state /\ disk'[p].j.attempts[k] = disk[p].j.attempts[k] + 1
      /\ disk'[p].starts = disk[p].starts /\ disk'[p].request = disk[p].request
      /\ disk'[p].transaction = disk[p].transaction /\ disk'[p].claimReceipt = disk[p].claimReceipt
      /\ UNCHANGED <<lease, owner, active, tries>>
      /\ (Begun(p)' <=> Begun(p)) /\ Count(p)' = Count(p)
  BY <1>4 DEF WithAttempt, Keeps, Aside, ledger
<1>10. Recorded(p, "rollback_flash_start") => Recorded(p, "rollback_flash_start")'
  BY <1>8, <1>9 DEF Marked
<1>11. Exclusive(p)' /\ Executing(p)' /\ Ending(p)' /\ Recovering(p)'
  BY <1>1, <1>2, <1>3, <1>9 DEF Exclusive, Executing, Ending, Recovering, Goes, Moves
<1>12. Transferring(p)'
  <2>1. CASE k = "candidate"
    BY <1>1, <1>3, <1>7, <1>9, <2>1 DEF Transferring, Goes, Moves, Orphan
  <2>2. CASE k = "rollback"
    BY <1>1, <1>3, <1>7, <1>9, <1>10, <2>2 DEF Transferring, Goes, Moves, Orphan
  <2>3. QED
    BY <1>1, <2>1, <2>2
<1>13. QED
  BY <1>1, <1>2, <1>4, <1>6, <1>11, <1>12, WriteStep DEF Goes, Moves, Stands, WithAttempt

\* The candidate transfer is announced.
LEMMA FlashStartInv == ASSUME Inv, NEW p \in Run, FlashStart(p) PROVE Inv'
<1>1. Goes(p, "transfer", {}) /\ mem[p].pc = "flash_start"
  BY Known, MemSteps DEF FlashStart, Label
<1>2. /\ Typed(p) /\ Told(disk[p].j) /\ Body(p) /\ Owning(p) /\ Stands(p) /\ lease = p
  BY <1>1, Known DEF Stands, Exclusive
<1>3. /\ mem[p].kind = "candidate" /\ State(p) = "DOWNLOAD_IDENTIFIED" /\ ~Begun(p)
      /\ p \in active /\ disk[p].claimReceipt /\ tries[p]["candidate"] = 0
      /\ disk[p].starts["candidate"] = disk[p].j.attempts["candidate"]
      /\ disk[p].starts["candidate"] = 1 /\ mem[p].caller = "execute"
      /\ disk[p].request /\ owner = p /\ disk[p].transaction /\ ~RollbackDone(p)
  <2>1. mem[p].kind = "candidate"
    BY <1>1, <1>2 DEF Stands, Transferring
  <2>2. disk[p].starts["candidate"] \in 0..2 /\ disk[p].starts["rollback"] \in 0..2
    BY <1>2 DEF Typed
  <2>3. /\ State(p) = "DOWNLOAD_IDENTIFIED" /\ ~Begun(p)
        /\ p \in active /\ disk[p].claimReceipt /\ tries[p]["candidate"] = 0
        /\ disk[p].starts["candidate"] = disk[p].j.attempts["candidate"]
        /\ disk[p].starts["candidate"] > 0 /\ mem[p].caller = "execute"
        /\ disk[p].request /\ owner = p /\ disk[p].transaction
    BY <1>1, <1>2, <2>1 DEF Stands, Exclusive, Transferring
  <2>4. disk[p].starts["candidate"] <= 1 /\ disk[p].starts["rollback"] = 0
    BY <1>2, <2>2, <2>3 DEF Body, Numbered
  <2>5. QED
    BY <2>1, <2>2, <2>3, <2>4 DEF RollbackDone
<1>4. WithEvent(p, "candidate_flash_start")
      /\ Follows(State(p), Begun(p), Count(p), "candidate_flash_start")
  <2>1. Log(p, Happened("candidate_flash_start"))
    BY DEF FlashStart
  <2>2. Follows(disk[p].j.state, Has(disk[p].j, "candidate_flash_start"), Len(disk[p].j.events),
                "candidate_flash_start")
    BY <1>2, <1>3 DEF Follows, Body, Chain, Pace
  <2>3. QED
    BY <1>2, <2>1, <2>2, Known, LogEvent
<1>5. Body(p)' /\ Owning(p)'
  BY <1>1, <1>2, <1>3, <1>4, EventBody DEF Goes
<1>6. RollbackDone(p)' <=> RollbackDone(p)
  BY <1>4, RollbackKept DEF WithEvent
<1>7. /\ disk'[p].j.state = disk[p].j.state /\ disk'[p].j.attempts = disk[p].j.attempts
      /\ disk'[p].starts = disk[p].starts /\ disk'[p].request = disk[p].request
      /\ disk'[p].transaction = disk[p].transaction /\ disk'[p].claimReceipt = disk[p].claimReceipt
      /\ UNCHANGED <<lease, owner, active, tries>> /\ Begun(p)'
  BY <1>4 DEF WithEvent, Keeps, Aside, ledger
<1>8. Exclusive(p)' /\ Executing(p)' /\ Ending(p)' /\ Recovering(p)'
  BY <1>1, <1>2, <1>3, <1>7 DEF Exclusive, Executing, Ending, Recovering, Goes, Moves
<1>9. Transferring(p)'
  <2>1. /\ mem'[p].pc = "transfer" /\ mem'[p].kind = "candidate" /\ mem'[p].caller = "execute"
        /\ p \in active' /\ disk'[p].claimReceipt /\ tries'[p]["candidate"] = 0
        /\ disk'[p].starts["candidate"] = 1 /\ disk'[p].j.attempts["candidate"] = 1
        /\ State(p)' = "DOWNLOAD_IDENTIFIED" /\ Begun(p)' /\ ~RollbackDone(p)'
    BY <1>1, <1>3, <1>6, <1>7 DEF Goes, Moves
  <2>2. QED
    BY <2>1 DEF Transferring
<1>10. QED
  BY <1>1, <1>2, <1>4, <1>5, <1>8, <1>9, WriteStep DEF Goes, Moves, Stands, WithEvent

\* Odin runs: the only step that changes the image and counts a transfer.
LEMMA TransferInv ==
    ASSUME Inv, NEW p \in Run, NEW outcome \in Outcome, Transfer(p, outcome) PROVE Inv'
<1> DEFINE k == mem[p].kind
<1>1. Goes(p, "store", {"pend"}) /\ mem'[p].pend = outcome /\ mem[p].pc = "transfer"
  <2>1. "store" \in Label /\ outcome \in Outcome \cup {"first", "retry"} /\ mem \in [Run -> Process]
    BY Known DEF Label
  <2>2. mem' = [mem EXCEPT ![p].pc = "store", ![p].pend = outcome, ![p].endpoint = FALSE]
    BY DEF Transfer
  <2>3. Goes(p, "store", {"pend"}) /\ mem'[p].pend = outcome
    BY <2>1, <2>2, MemSteps
  <2>4. QED
    BY <2>3 DEF Transfer
<1>2. /\ Typed(p) /\ Body(p) /\ Owning(p) /\ Stands(p) /\ lease = p /\ TypeOK /\ k \in Kind
      /\ None \notin Run
  BY <1>1, Known DEF Stands, Exclusive, Typed
<1>3. /\ disk[p].starts[k] = disk[p].j.attempts[k] /\ disk[p].starts[k] > 0
      /\ tries[p][k] < disk[p].j.attempts[k] /\ ~RollbackDone(p)
      /\ k = "candidate" => State(p) = "DOWNLOAD_IDENTIFIED" /\ p \in active /\ Begun(p)
                            /\ tries[p]["candidate"] = 0 /\ mem[p].caller = "execute"
      /\ k = "rollback" => State(p) = "RECOVERY_DOWNLOAD" /\ Recorded(p, "rollback_flash_start")
      /\ disk[p].request /\ owner = p /\ disk[p].transaction
  BY <1>1, <1>2 DEF Stands, Exclusive, Transferring
<1>4. /\ Keeps(p, {}) /\ UNCHANGED <<lease, owner, active, granted, faults, refused, disk>>
  BY Known DEF Transfer, Keeps
<1>5. /\ tries' \in [Run -> [Kind -> 0..2]] /\ tries'[p][k] = tries[p][k] + 1
      /\ \A other \in Kind : other # k => tries'[p][other] = tries[p][other]
      /\ \A q \in Run : q # p => tries'[q] = tries[q]
  <2> DEFINE t == [tries[p] EXCEPT ![k] = tries[p][k] + 1]
  <2>1. tries \in [Run -> [Kind -> 0..2]]
    BY <1>2 DEF TypeOK, MAX_ATTEMPTS, MAX_TRANSFER_ATTEMPTS
  <2>2. tries[p][k] + 1 \in 0..2
    BY <1>2, <1>3 DEF Typed
  <2>3. t \in [Kind -> 0..2] /\ t[k] = tries[p][k] + 1
        /\ \A other \in Kind : other # k => t[other] = tries[p][other]
    BY <1>2, <2>1, <2>2
  <2>4. tries' = [tries EXCEPT ![p] = t]
    BY <1>2, <2>1 DEF Transfer
  <2> HIDE DEF t
  <2>5. QED
    BY <2>1, <2>3, <2>4
<1>6. /\ image' \in {"stock", "candidate", "partial"} /\ mode' \in {"android", "download", "other"}
      /\ k = "rollback" /\ outcome = COMPLETED => image' = "stock"
  <2>1. DeviceAfter(k, outcome) /\ image \in {"stock", "candidate", "partial"}
        /\ mode \in {"android", "download", "other"}
    BY <1>2 DEF Transfer, TypeOK
  <2>2. QED
    BY <2>1 DEF DeviceAfter, Flashed, COMPLETED, UNKNOWN, LOCAL_PARSE, device
<1>7. /\ k = "rollback" => UNCHANGED <<failures, sessions>>
      /\ k = "candidate" /\ outcome = LOCAL_PARSE => failures' = failures \cup {p} /\ sessions' = sessions
      /\ k = "candidate" /\ outcome # LOCAL_PARSE => sessions' = sessions \cup {p} /\ failures' = failures
  BY DEF Transfer
<1>8. Chain(p)' /\ Files(p)'
  BY <1>2, <1>4 DEF Body, Chain, Files, Keeps
<1>9. Numbered(p)'
  <2>1. ASSUME NEW kind \in Kind PROVE Ordered(p, kind)'
    <3>1. Ordered(p, kind) /\ disk[p].j.attempts[kind] \in 0..2 /\ tries[p][kind] \in 0..2
      BY <1>2 DEF Body, Numbered, Typed
    <3>2. tries'[p][kind] <= disk[p].j.attempts[kind]
      BY <1>3, <1>5, <3>1 DEF Ordered
    <3>3. QED
      BY <1>4, <3>1, <3>2 DEF Ordered
  <2>2. QED
    BY <1>2, <1>4, <2>1 DEF Body, Numbered, RollbackDone
<1>10. Claimed(p)'
  <2>1. CASE k = "rollback"
    <3>1. tries'[p]["candidate"] = tries[p]["candidate"]
      BY <1>5, <2>1
    <3>2. disk[p].live \notin {"pre_effect", "local_parse"}
      BY <1>2, <1>3, <2>1 DEF Body, Claimed
    <3>3. QED
      BY <1>2, <1>4, <1>7, <2>1, <3>1, <3>2 DEF Body, Claimed
  <2>2. CASE k = "candidate"
    <3>1. tries'[p]["candidate"] = 1 /\ p \notin failures /\ p \notin sessions
      BY <1>2, <1>3, <1>5, <2>2 DEF Body, Claimed
    <3>2. disk[p].live \notin {"pre_effect", "local_parse"}
      BY <1>2, <1>3, <2>2 DEF Body, Claimed
    <3>3. QED
      BY <1>2, <1>3, <1>4, <1>7, <2>2, <3>1, <3>2 DEF Body, Claimed
  <2>3. QED
    BY <1>2, <2>1, <2>2
<1>11. Owning(p)'
  BY <1>1, <1>2, <1>3, <1>4, <1>6 DEF Owning, Goes, Moves, RollbackDone
<1>12. Exclusive(p)' /\ Executing(p)' /\ Ending(p)' /\ Recovering(p)'
  BY <1>1, <1>2, <1>3, <1>4 DEF Exclusive, Executing, Ending, Recovering, Goes, Moves
<1>13. Transferring(p)'
  BY <1>1, <1>3, <1>4, <1>7 DEF Transferring, Goes, Moves
<1>14. Claims'
  BY <1>2, <1>3, <1>4 DEF Inv, Claims, ForeignClaim
<1>15. TypeOK'
  <2>1. failures' \subseteq Run /\ sessions' \subseteq Run
    BY <1>2, <1>7 DEF TypeOK
  <2>2. QED
    BY <1>1, <1>2, <1>4, <1>5, <1>6, <2>1 DEF TypeOK, Goes, Moves, MAX_ATTEMPTS, MAX_TRANSFER_ATTEMPTS
<1>16. \A q \in Run : q # p => (q \in failures' <=> q \in failures) /\ (q \in sessions' <=> q \in sessions)
  BY <1>2, <1>7
<1>17. Local(p)'
  BY <1>8, <1>9, <1>10, <1>11, <1>12, <1>13 DEF Local
<1>18. QED
  BY <1>1, <1>2, <1>3, <1>4, <1>5, <1>14, <1>15, <1>16, <1>17, Inductive2 DEF Goes, Moves, Keeps

\* The result file of the attempt.
LEMMA StoreResultInv == ASSUME Inv, NEW p \in Run, StoreResult(p) PROVE Inv'
<1> DEFINE k == mem[p].kind
           n == disk[p].starts[k]
           r == [disk[p].result EXCEPT ![k][n] = mem[p].pend]
<1>1. Goes(p, "save", {}) /\ mem[p].pc = "store"
  BY Known, MemSteps DEF StoreResult, Label
<1>2. /\ Typed(p) /\ Body(p) /\ Owning(p) /\ Stands(p) /\ lease = p /\ k \in Kind
  BY <1>1, Known DEF Stands, Exclusive, Typed
<1>3. /\ n = disk[p].j.attempts[k] /\ n \in 1..2 /\ mem[p].pend \in Outcome
      /\ k = "candidate" => State(p) = "DOWNLOAD_IDENTIFIED" /\ Begun(p) /\ mem[p].caller = "execute"
                            /\ n = 1
      /\ k = "candidate" /\ mem[p].pend = LOCAL_PARSE => p \in failures
      /\ k = "rollback" => State(p) = "RECOVERY_DOWNLOAD" /\ Recorded(p, "rollback_flash_start")
      /\ disk[p].request /\ owner = p /\ disk[p].transaction
      /\ k = "rollback" /\ mem[p].pend = COMPLETED => image = "stock"
  <2>1. n \in 0..2 /\ disk[p].starts["candidate"] \in 0..2
    BY <1>2 DEF Typed
  <2>2. disk[p].starts["candidate"] <= 1
    BY <1>2 DEF Body, Numbered
  <2>3. k = "rollback" /\ mem[p].pend = COMPLETED => image = "stock"
    BY <1>1, <1>2 DEF Owning
  <2>4. QED
    BY <1>1, <1>2, <2>1, <2>2, <2>3 DEF Stands, Exclusive, Transferring
<1>4. /\ r \in [Kind -> [1..2 -> Outcome \cup {"none"}]] /\ r[k][n] = mem[p].pend
      /\ \A other \in Kind : other # k => r[other] = disk[p].result[other]
      /\ \A i \in 1..2 : i # n => r[k][i] = disk[p].result[k][i]
  <2> DEFINE x == [disk[p].result[k] EXCEPT ![n] = mem[p].pend]
  <2>1. x \in [1..2 -> Outcome \cup {"none"}] /\ x[n] = mem[p].pend
        /\ \A i \in 1..2 : i # n => x[i] = disk[p].result[k][i]
    BY <1>2, <1>3 DEF Typed
  <2>2. r = [disk[p].result EXCEPT ![k] = x]
    BY <1>2 DEF Typed
  <2> HIDE DEF x, r, n
  <2>3. QED
    BY <1>2, <2>1, <2>2 DEF Typed
<1>5. disk' = [disk EXCEPT ![p] = [disk[p] EXCEPT !.result = r]] /\ Aside
  BY <1>2, Known DEF StoreResult, Write, Aside
<1> HIDE DEF r
<1>6. Keeps(p, {"result"}) /\ disk'[p].result = r
  <2>1. r \in [Kind -> [1..MAX_ATTEMPTS -> Outcome \cup {"none"}]] /\ disk \in [Run -> Disk]
    BY <1>4, Known DEF MAX_ATTEMPTS, MAX_TRANSFER_ATTEMPTS
  <2>2. QED
    BY <1>5, <2>1, FieldWrites
<1>7. /\ disk'[p].j = disk[p].j /\ disk'[p].starts = disk[p].starts /\ disk'[p].cls = disk[p].cls
      /\ disk'[p].request = disk[p].request /\ disk'[p].transaction = disk[p].transaction
      /\ tries' = tries /\ UNCHANGED <<active, granted, failures, sessions, owner, image, lease>>
  BY <1>5, <1>6 DEF Keeps, Aside, ledger, device
<1>8. Chain(p)' /\ Files(p)'
  BY <1>2, <1>6, <1>7 DEF Body, Chain, Files, Keeps
<1>9. Numbered(p)'
  <2>1. ASSUME NEW kind \in Kind PROVE Ordered(p, kind)'
    <3>1. Ordered(p, kind) /\ disk[p].starts[kind] \in 0..2
      BY <1>2 DEF Body, Numbered, Typed
    <3>2. ASSUME NEW i \in 1..2, i > disk[p].starts[kind] PROVE r[kind][i] = "none"
      <4>1. disk[p].result[kind][i] = "none"
        BY <3>1, <3>2 DEF Ordered, MAX_ATTEMPTS, MAX_TRANSFER_ATTEMPTS
      <4>2. CASE kind = k
        <5>1. i # n
          BY <3>1, <3>2, <4>2
        <5>2. QED
          BY <1>4, <4>1, <4>2, <5>1
      <4>3. CASE kind # k
        BY <1>4, <4>1, <4>3
      <4>4. QED
        BY <4>2, <4>3
    <3>3. QED
      BY <1>6, <1>7, <3>1, <3>2 DEF Ordered, MAX_ATTEMPTS, MAX_TRANSFER_ATTEMPTS
  <2>2. State(p) \notin {"ROLLBACK_FLASHED", "HEALTH_VERIFIED", "CLOSED"}
    BY <1>2, <1>3
  <2>3. QED
    BY <1>2, <1>7, <2>1, <2>2 DEF Body, Numbered
<1>10. Claimed(p)'
  <2>1. disk'[p].result["candidate"][1] = LOCAL_PARSE => p \in failures
    <3>1. disk[p].result["candidate"][1] = LOCAL_PARSE => p \in failures
      BY <1>2 DEF Body, Claimed
    <3>2. CASE k = "candidate"
      <4>1. r["candidate"][1] = mem[p].pend
        BY <1>3, <1>4, <3>2
      <4>2. QED
        BY <1>3, <1>6, <3>2, <4>1
    <3>3. CASE k # "candidate"
      BY <1>4, <1>6, <3>1, <3>3
    <3>4. QED
      BY <3>2, <3>3
  <2>2. QED
    BY <1>2, <1>6, <1>7, <2>1 DEF Body, Claimed, Keeps, NoCandidateSession
<1>11. RollbackDone(p)' => RollbackDone(p) \/ (k = "rollback" /\ mem[p].pend = COMPLETED)
  BY <1>2, <1>4, <1>6, <1>7 DEF RollbackDone
<1>12. Owning(p)'
  BY <1>1, <1>2, <1>3, <1>7, <1>11 DEF Owning, Goes
<1>13. Exclusive(p)' /\ Executing(p)' /\ Ending(p)' /\ Recovering(p)'
  BY <1>1, <1>2, <1>3, <1>7 DEF Exclusive, Executing, Ending, Recovering, Goes, Moves
<1>14. Transferring(p)'
  <2>1. /\ mem'[p].pc = "save" /\ mem'[p].kind = k /\ mem'[p].pend = mem[p].pend
        /\ mem'[p].caller = mem[p].caller /\ disk'[p].result[k][n] = mem[p].pend
        /\ disk'[p].starts[k] = n /\ disk'[p].j = disk[p].j /\ failures' = failures
        /\ k \in Kind
    BY <1>1, <1>2, <1>4, <1>6, <1>7 DEF Goes, Moves
  <2> HIDE DEF k, n
  <2>2. QED
    BY <1>3, <2>1 DEF Transferring
<1>15. QED
  BY <1>1, <1>2, <1>5, <1>6, <1>8, <1>9, <1>10, <1>12, <1>13, <1>14, WriteStep
     DEF Goes, Moves, Body, Stands

----------------------------------------------------------------------------
(* The end of an attempt, and the release.                                 *)

\* The classification of the candidate transfer.
LEMMA SaveCandidateInv == ASSUME Inv, NEW p \in Run, SaveCandidate(p) PROVE Inv'
<1>1. /\ mem[p].pc = "save" /\ mem[p].kind = "candidate"
      /\ Goes(p, IF mem[p].pend = LOCAL_PARSE THEN "release" ELSE "advance", {})
  <2>1. "release" \in Label /\ "advance" \in Label /\ mem \in [Run -> Process]
    BY Known DEF Label
  <2>2. QED
    BY <2>1, MemSteps DEF SaveCandidate
<1>2. /\ Typed(p) /\ Body(p) /\ Owning(p) /\ Stands(p) /\ lease = p
  BY <1>1, Known DEF Stands, Exclusive
<1>3. /\ mem[p].pend \in Outcome /\ State(p) = "DOWNLOAD_IDENTIFIED" /\ Begun(p)
      /\ disk[p].j.attempts["candidate"] = 1 /\ disk[p].request /\ owner = p /\ disk[p].transaction
      /\ mem[p].pend = LOCAL_PARSE => p \in failures
  BY <1>1, <1>2 DEF Stands, Exclusive, Transferring, Body, Numbered
<1>4. Keeps(p, {"cls"}) /\ disk'[p].cls = mem[p].pend /\ Aside
  <2>1. disk' = [disk EXCEPT ![p] = [disk[p] EXCEPT !.cls = mem[p].pend]] /\ Aside
    BY DEF SaveCandidate, Write, Aside
  <2>2. disk \in [Run -> Disk] /\ mem[p].pend \in Outcome
    BY <1>3, Known
  <2>3. Keeps(p, {"cls"}) /\ disk'[p].cls = mem[p].pend
    BY <2>1, <2>2, FieldWrites
  <2>4. QED
    BY <2>1, <2>3
<1>5. /\ disk'[p].j = disk[p].j /\ disk'[p].starts = disk[p].starts /\ disk'[p].request
      /\ disk'[p].transaction /\ disk'[p].result = disk[p].result
      /\ UNCHANGED <<active, granted, failures, sessions, owner, image, lease, tries>>
  BY <1>3, <1>4 DEF Keeps, Aside, ledger, device
<1>6. Chain(p)' /\ Numbered(p)'
  BY <1>2, <1>4, <1>5, ChainKept
<1>7. Files(p)' /\ Claimed(p)'
  BY <1>2, <1>3, <1>4, <1>5 DEF Body, Files, Claimed, Keeps
<1>8. Owning(p)'
  BY <1>1, <1>2, <1>3, <1>5 DEF Owning, Goes, RollbackDone
<1>9. Stands(p)'
  <2>1. CASE mem[p].pend = LOCAL_PARSE
    BY <1>1, <1>2, <1>3, <1>5, <2>1 DEF Stands, Exclusive, Executing, Transferring, Ending,
       Recovering, Goes, Moves
  <2>2. CASE mem[p].pend # LOCAL_PARSE
    BY <1>1, <1>2, <1>3, <1>5, <2>2 DEF Stands, Exclusive, Executing, Transferring, Ending,
       Recovering, Goes, Moves
  <2>3. QED
    BY <2>1, <2>2
<1>10. QED
  BY <1>1, <1>2, <1>4, <1>6, <1>7, <1>8, <1>9, WriteStep DEF Goes, Moves, Body

\* The classification of a rollback transfer.
LEMMA SaveRollbackInv == ASSUME Inv, NEW p \in Run, SaveRollback(p) PROVE Inv'
<1>1. /\ mem[p].pc = "save" /\ mem[p].kind = "rollback"
      /\ mem[p].pend = COMPLETED => Goes(p, "adopt", {})
      /\ mem[p].pend # COMPLETED => Goes(p, "publish", {"verdict"}) /\ mem'[p].verdict = "recovery_required"
  <2>1. "adopt" \in Label /\ "recovery_required" \in Verdict /\ mem \in [Run -> Process]
    BY Known DEF Label, Verdict
  <2>2. QED
    BY <2>1, MemSteps DEF SaveRollback
<1>2. /\ Typed(p) /\ Body(p) /\ Owning(p) /\ Stands(p) /\ lease = p
  BY <1>1, Known DEF Stands, Exclusive
<1>3. /\ mem[p].pend \in Outcome /\ State(p) = "RECOVERY_DOWNLOAD" /\ Recorded(p, "rollback_flash_start")
      /\ mem[p].pend = COMPLETED => RollbackDone(p)
      /\ disk[p].request /\ owner = p /\ disk[p].transaction
  BY <1>1, <1>2 DEF Stands, Exclusive, Transferring, RollbackDone
<1>4. Keeps(p, {}) /\ Aside
  <2>1. disk' = [disk EXCEPT ![p] = [disk[p] EXCEPT !.rcls = mem[p].pend]] /\ Aside
    BY DEF SaveRollback, Write, Aside
  <2>2. disk \in [Run -> Disk] /\ mem[p].pend \in Outcome
    BY <1>3, Known
  <2>3. QED
    BY <2>1, <2>2, FieldWrites
<1>5. /\ disk'[p].j = disk[p].j /\ disk'[p].starts = disk[p].starts /\ disk'[p].request
      /\ disk'[p].transaction /\ disk'[p].result = disk[p].result
      /\ UNCHANGED <<active, granted, failures, sessions, owner, image, lease, tries>>
  BY <1>3, <1>4 DEF Keeps, Aside, ledger, device
<1>6. Body(p)'
  BY <1>2, <1>4, BodyKept DEF Aside
<1>7. (RollbackDone(p)' <=> RollbackDone(p))
  BY <1>5 DEF RollbackDone
<1>8. mem'[p].pc \in {"adopt", "publish"}
  BY <1>1 DEF Goes
<1>9. Owning(p)'
  BY <1>2, <1>3, <1>5, <1>7, <1>8 DEF Owning
<1>10. Stands(p)'
  <2>1. CASE mem[p].pend = COMPLETED
    BY <1>1, <1>2, <1>3, <1>5, <1>7, <2>1 DEF Stands, Exclusive, Executing, Transferring, Ending,
       Recovering, Goes, Moves
  <2>2. CASE mem[p].pend # COMPLETED
    BY <1>1, <1>2, <1>3, <1>5, <2>2 DEF Stands, Exclusive, Executing, Transferring, Ending,
       Recovering, Goes, Moves
  <2>3. QED
    BY <2>1, <2>2
<1>11. QED
  BY <1>1, <1>2, <1>4, <1>6, <1>9, <1>10, WriteStep DEF Goes, Moves

\* A run whose candidate failed to parse has made its attempt.
LEMMA Failed ==
    ASSUME NEW p \in Run, Typed(p), Body(p), Owning(p), p \in failures
    PROVE  /\ Begun(p) /\ disk[p].starts["candidate"] = 1 /\ disk[p].j.attempts["candidate"] = 1
           /\ disk[p].request /\ p \notin sessions /\ (State(p) # "CLOSED" => owner = p)
           /\ State(p) # "APPROVED"
<1>1. Begun(p) /\ p \notin sessions
  BY DEF Body, Claimed
<1>2. disk[p].j.attempts["candidate"] = 1 /\ Ordered(p, "candidate") /\ disk[p].starts["candidate"] <= 1
  BY <1>1 DEF Body, Numbered
<1>3. disk[p].starts["candidate"] = 1
  BY <1>2 DEF Ordered, Typed
<1>4. disk[p].request
  BY <1>3 DEF Body, Files
<1>5. State(p) # "APPROVED"
  BY <1>1 DEF Body, Chain, Pace
<1>6. QED
  BY <1>1, <1>2, <1>3, <1>4, <1>5 DEF Owning

\* The claim is released in the registry.
LEMMA ReleaseInv == ASSUME Inv, NEW p \in Run, Release(p) PROVE Inv'
<1>1. Goes(p, "release_receipt", {"pend"}) /\ mem'[p].pend \in {"first", "retry"}
      /\ mem[p].pc = "release"
  <2> DEFINE x == IF p \in active THEN "first" ELSE "retry"
  <2>1. x \in Outcome \cup {"first", "retry"} /\ "release_receipt" \in Label
        /\ mem \in [Run -> Process]
    BY Known DEF Label
  <2>2. mem' = [mem EXCEPT ![p].pc = "release_receipt", ![p].pend = x]
    BY DEF Release
  <2>3. x \in {"first", "retry"} /\ mem[p].pc = "release"
    BY DEF Release
  <2> HIDE DEF x
  <2>4. Goes(p, "release_receipt", {"pend"}) /\ mem'[p].pend = x
    BY <2>1, <2>2, MemSteps
  <2>5. QED
    BY <2>3, <2>4
<1>2. /\ Typed(p) /\ Body(p) /\ Owning(p) /\ Stands(p) /\ lease = p /\ TypeOK
  BY <1>1, Known DEF Stands, Exclusive
<1>3. p \in failures /\ p \notin sessions
  BY <1>1, <1>2 DEF Stands, Ending, Body, Claimed
<1>4. /\ Keeps(p, {}) /\ active' = active \ {p}
      /\ UNCHANGED <<disk, lease, owner, granted, failures, sessions, image, mode, faults, tries, refused>>
  BY Known DEF Release, Keeps, device
<1>5. Chain(p)' /\ Numbered(p)'
  BY <1>2, <1>4, ChainKept
<1>6. Files(p)' /\ Claimed(p)'
  BY <1>2, <1>3, <1>4 DEF Body, Files, Claimed, NoCandidateSession
<1>7. Owning(p)'
  BY <1>1, <1>2, <1>4 DEF Owning, Goes, RollbackDone
<1>8. Stands(p)'
  BY <1>1, <1>2, <1>3, <1>4 DEF Stands, Exclusive, Executing, Transferring, Ending,
     Recovering, Goes, Moves
<1>9. Claims'
  BY <1>4 DEF Inv, Claims, ForeignClaim
<1>10. TypeOK'
  BY <1>1, <1>2, <1>4 DEF TypeOK, Goes, Moves
<1>11. Local(p)'
  BY <1>5, <1>6, <1>7, <1>8 DEF Local, Stands
<1>12. QED
  BY <1>1, <1>2, <1>4, <1>9, <1>10, <1>11, Inductive2 DEF Goes, Moves

\* The registry raises.
LEMMA ReleaseFailsInv == ASSUME Inv, NEW p \in Run, ReleaseFails(p) PROVE Inv'
<1>1. Goes(p, "repair", {}) /\ mem[p].pc = "release" /\ mem[p].caller = "normalize"
  BY Known, MemSteps DEF ReleaseFails, Label
<1>2. /\ Typed(p) /\ Body(p) /\ Owning(p) /\ Stands(p) /\ lease = p /\ TypeOK
  BY <1>1, Known DEF Stands, Exclusive
<1>3. p \in failures /\ State(p) \notin {NoState} \cup Terminal
  BY <1>1, <1>2 DEF Stands, Ending
<1>4. /\ owner = p /\ disk[p].starts["candidate"] = 1 /\ disk[p].transaction
  BY <1>1, <1>2, <1>3, Failed DEF Stands, Exclusive
<1>5. /\ Keeps(p, {}) /\ UNCHANGED <<lease, owner, ledger, image, mode, tries, refused, disk>>
      /\ faults' \in 0..MaxFaults
  BY Known, RunAssumption DEF ReleaseFails, Keeps, device, TypeOK
<1>6. Stands(p)'
  BY <1>1, <1>2, <1>3, <1>4, <1>5 DEF Stands, Exclusive, Executing, Transferring, Ending,
     Recovering, Goes, Moves
<1>7. QED
  BY <1>1, <1>2, <1>5, <1>6, QuietStep DEF Label, TypeOK

\* The receipt of the release.
LEMMA ReleaseReceiptInv == ASSUME Inv, NEW p \in Run, ReleaseReceipt(p) PROVE Inv'
<1>1. /\ mem[p].pc = "release_receipt"
      /\ mem[p].caller = "aborted" => Goes(p, "publish", {"verdict"})
      /\ mem[p].caller # "aborted" => Goes(p, "abort", {})
  <2>1. "abort" \in Label /\ "local_parse" \in Verdict /\ mem \in [Run -> Process]
    BY Known DEF Label, Verdict
  <2>2. QED
    BY <2>1, MemSteps DEF ReleaseReceipt
<1>2. /\ Typed(p) /\ Body(p) /\ Owning(p) /\ Stands(p) /\ lease = p
  BY <1>1, Known DEF Stands, Exclusive
<1>3. /\ p \in failures /\ mem[p].pend \in {"first", "retry"} /\ p \notin sessions
      /\ mem[p].caller # "aborted" => State(p) \notin {NoState} \cup Terminal
      /\ disk[p].transaction /\ Begun(p)
  BY <1>1, <1>2, Failed DEF Stands, Exclusive, Ending
<1>4. Keeps(p, {}) /\ Aside
  BY <1>3, Known, FieldWrites DEF ReleaseReceipt, Write, Aside
<1>5. /\ disk'[p].j = disk[p].j /\ disk'[p].starts = disk[p].starts
      /\ disk'[p].request = disk[p].request
      /\ disk'[p].transaction /\ disk'[p].result = disk[p].result
      /\ UNCHANGED <<active, granted, failures, sessions, owner, image, lease, tries>>
  BY <1>3, <1>4 DEF Keeps, Aside, ledger, device
<1>6. Body(p)'
  BY <1>2, <1>4, BodyKept DEF Aside
<1>7. mem'[p].pc \in {"abort", "publish"}
  BY <1>1 DEF Goes
<1>8. Owning(p)'
  BY <1>2, <1>5, <1>7 DEF Owning, RollbackDone
<1>9. Stands(p)'
  <2>4. NoCandidateSession(p)'
    BY <1>3, <1>5 DEF NoCandidateSession
  <2>1. CASE mem[p].caller = "aborted"
    BY <1>1, <1>2, <1>3, <1>5, <2>1, <2>4 DEF Stands, Exclusive, Executing, Transferring, Ending,
       Recovering, Goes, Moves
  <2>2. CASE mem[p].caller # "aborted"
    BY <1>1, <1>2, <1>3, <1>5, <2>2, <2>4 DEF Stands, Exclusive, Executing, Transferring, Ending,
       Recovering, Goes, Moves
  <2>3. QED
    BY <2>1, <2>2
<1>10. QED
  BY <1>1, <1>2, <1>4, <1>6, <1>8, <1>9, WriteStep DEF Goes, Moves

\* A receipt that differs from the one on disk.
LEMMA ReleaseReceiptDiffersInv == ASSUME Inv, NEW p \in Run, ReleaseReceiptDiffers(p) PROVE Inv'
<1>1. mem[p].pc = "release_receipt"
  BY DEF ReleaseReceiptDiffers
<1>2. /\ Typed(p) /\ Body(p) /\ Owning(p) /\ Stands(p) /\ lease = p /\ TypeOK
  BY <1>1, Known DEF Stands, Exclusive
<1>3. CASE mem[p].caller = "normalize"
  <2>1. Goes(p, "repair", {}) /\ LocalStep
    BY <1>3, Known, MemSteps DEF ReleaseReceiptDiffers, Label
  <2>2. p \in failures /\ State(p) \notin {NoState} \cup Terminal
    BY <1>1, <1>2, <1>3 DEF Stands, Ending
  <2>3. /\ owner = p /\ disk[p].starts["candidate"] = 1 /\ disk[p].transaction
    BY <1>1, <1>2, <2>2, Failed DEF Stands, Exclusive
  <2>4. /\ Keeps(p, {}) /\ UNCHANGED <<lease, owner, ledger, image, mode, faults, tries, refused, disk>>
    BY <2>1, Known DEF LocalStep, Keeps, device
  <2>5. Stands(p)'
    <3>1. /\ mem'[p].pc = "repair" /\ mem'[p].caller = "normalize" /\ lease' = p /\ owner' = p
          /\ disk'[p].transaction /\ disk'[p].j.state \notin {NoState} \cup Terminal
          /\ disk'[p].starts["candidate"] = 1
      BY <1>2, <1>3, <2>1, <2>2, <2>3, <2>4 DEF Goes, Moves
    <3>2. QED
      BY <3>1 DEF Stands, Exclusive, Executing, Transferring, Ending, Recovering
  <2>6. QED
    BY <1>2, <2>1, <2>4, <2>5, QuietStep DEF Label, TypeOK
<1>4. CASE mem[p].caller # "normalize"
  <2>1. Becomes(p, Idle) /\ lease' = None
        /\ UNCHANGED <<disk, owner, ledger, image, mode, faults, tries, refused>>
    <3>1. Raise(p)
      BY <1>4 DEF ReleaseReceiptDiffers
    <3>2. QED
      BY <3>1, Known, MemSteps DEF Raise, Label, device
  <2>2. QED
    BY <1>2, <2>1, Leaves DEF TypeOK
<1>5. QED
  BY <1>3, <1>4

\* The run is aborted.
LEMMA AbortInv == ASSUME Inv, NEW p \in Run, Abort(p) PROVE Inv'
<1>1. Goes(p, "publish", {"verdict"}) /\ mem[p].pc = "abort"
  <2>1. mem \in [Run -> Process] /\ {"local_parse", "pre_effect"} \subseteq Verdict /\ "publish" \in Label
    BY Known DEF Verdict, Label
  <2>2. (Publishes(p, "local_parse") \/ Publishes(p, "pre_effect")) /\ mem[p].pc = "abort"
    BY DEF Abort
  <2>3. QED
    BY <2>1, <2>2, MemSteps
<1>2. /\ Typed(p) /\ Told(disk[p].j) /\ Body(p) /\ Owning(p) /\ Stands(p) /\ lease = p
  BY <1>1, Known DEF Stands, Exclusive
<1>3. /\ State(p) \notin {NoState} \cup Terminal /\ NoCandidateSession(p) /\ disk[p].transaction
      /\ disk[p].starts["candidate"] = 1 => Begun(p)
  BY <1>1, <1>2 DEF Stands, Exclusive, Ending
<1>4. ToState(p, "ABORTED")
  <2>1. /\ Log(p, To("ABORTED")) /\ "ABORTED" \in STATES
        /\ "ABORTED" \in NEXT_STATES[disk[p].j.state]
    <3>1. disk[p].j.state \in STATES \ {"CLOSED", "ABORTED"}
      BY <1>2, <1>3 DEF Typed
    <3>2. QED
      BY <3>1, TransitionTable DEF Abort, STATES
  <2>2. QED
    BY <1>2, <2>1, Known, LogTo
<1>5. MayTurn(p, "ABORTED")
  BY <1>3 DEF MayTurn, Pace
<1>6. Body(p)' /\ Owning(p)'
  BY <1>1, <1>2, <1>4, <1>5, TransitionBody DEF Goes
<1>7. Stands(p)'
  <2>1. NoCandidateSession(p)'
    BY <1>3, <1>4 DEF NoCandidateSession, ToState, Aside, ledger, device
  <2>2. QED
    BY <1>1, <1>2, <1>3, <1>4, <2>1 DEF Stands, Exclusive, Executing, Transferring, Ending, Recovering,
       Keeps, Goes, Moves, Aside, ledger, ToState
<1>8. QED
  BY <1>1, <1>2, <1>4, <1>6, <1>7, WriteStep DEF Goes, Moves, ToState

----------------------------------------------------------------------------
(* From the candidate transfer to OBSERVED.                                *)

\* Recovery announces the transfer it did not see begin.
LEMMA AdvanceStartInv == ASSUME Inv, NEW p \in Run, AdvanceStart(p) PROVE Inv'
<1>1. Goes(p, "advance", {}) /\ mem[p].pc = "advance"
  BY Known DEF AdvanceStart, Goes, Moves
<1>2. /\ Typed(p) /\ Told(disk[p].j) /\ Marked(disk[p].j)
      /\ Body(p) /\ Owning(p) /\ Stands(p) /\ lease = p
  BY <1>1, Known DEF Stands, Exclusive
<1>3. disk[p].j.attempts["candidate"] = 1 /\ disk[p].request /\ owner = p /\ disk[p].transaction /\ lease = p
      /\ State(p) = "DOWNLOAD_IDENTIFIED" /\ ~Begun(p)
  BY <1>1, <1>2 DEF AdvanceStart, Stands, Exclusive, Executing, Transferring, Ending, Recovering,
     Body, Numbered, Ordered, Typed
<1>4. Follows(disk[p].j.state, Has(disk[p].j, "candidate_flash_start"), Len(disk[p].j.events),
              "candidate_flash_start")
  BY <1>2, <1>3 DEF Follows, Body, Chain, Pace
<1>5. WithEvent(p, "candidate_flash_start")
  <2>1. Log(p, Happened("candidate_flash_start"))
    BY <1>3 DEF AdvanceStart
  <2>2. QED
    BY <1>2, <1>4, <2>1, Known, LogEvent
<1>6. Body(p)' /\ Owning(p)'
  BY <1>1, <1>2, <1>3, <1>4, <1>5, EventBody DEF Goes
<1>7. Stands(p)'
  <2>1. /\ mem'[p].pc = "advance" /\ lease' = p /\ owner' = p /\ disk'[p].request
        /\ disk'[p].transaction /\ disk'[p].j.attempts["candidate"] = 1
        /\ disk'[p].j.state = "DOWNLOAD_IDENTIFIED"
    BY <1>1, <1>3, <1>5 DEF Keeps, Goes, Moves, Aside, ledger, device, WithEvent
  <2>2. QED
    BY <2>1 DEF Stands, Exclusive, Executing, Transferring, Ending, Recovering
<1>8. QED
  BY <1>1, <1>2, <1>5, <1>6, <1>7, WriteStep DEF Goes, Moves, WithEvent

\* An attempt without a classification is unknown.
LEMMA AdvanceClassifyInv == ASSUME Inv, NEW p \in Run, AdvanceClassify(p) PROVE Inv'
<1>1. Goes(p, "advance", {}) /\ mem[p].pc = "advance"
  BY Known DEF AdvanceClassify, Goes, Moves
<1>2. /\ Typed(p) /\ Told(disk[p].j) /\ Marked(disk[p].j)
      /\ Body(p) /\ Owning(p) /\ Stands(p) /\ lease = p
  BY <1>1, Known DEF Stands, Exclusive
<1>4. Keeps(p, {"cls"}) /\ Aside /\ disk'[p].cls = UNKNOWN
  <2>1. disk' = [disk EXCEPT ![p] = [disk[p] EXCEPT !.cls = UNKNOWN]] /\ Aside
    BY DEF AdvanceClassify, Write, Aside
  <2>2. disk \in [Run -> Disk] /\ UNKNOWN \in Outcome
    BY Known DEF Outcome
  <2>3. QED
    BY <2>1, <2>2, FieldWrites
<1>5. Body(p)'
  <2>1. Chain(p)' /\ Numbered(p)'
    BY <1>2, <1>4, ChainKept DEF Aside
  <2>2. Files(p)' /\ Claimed(p)'
    BY <1>1, <1>2, <1>4 DEF Body, Files, Claimed, Keeps, Aside, ledger, UNKNOWN, LOCAL_PARSE, NoCandidateSession
  <2>3. QED
    BY <2>1, <2>2 DEF Body
<1>6. Owning(p)'
  BY <1>1, <1>2, <1>4 DEF Owning, RollbackDone, Keeps, Goes, Aside, device
<1>7. Stands(p)'
  BY <1>1, <1>2, <1>4 DEF Stands, Exclusive, Executing, Transferring, Ending, Recovering, Keeps,
     Goes, Moves, Aside, ledger, device, Unconsumed, ConsumedKeys
<1>8. QED
  BY <1>1, <1>2, <1>4, <1>5, <1>6, <1>7, WriteStep DEF Goes, Moves

\* The transfer is over.
LEMMA AdvanceFlashedInv == ASSUME Inv, NEW p \in Run, AdvanceFlashed(p) PROVE Inv'
<1>1. Goes(p, "advance", {}) /\ mem[p].pc = "advance"
  BY Known DEF AdvanceFlashed, Goes, Moves
<1>2. /\ Typed(p) /\ Told(disk[p].j) /\ Marked(disk[p].j)
      /\ Body(p) /\ Owning(p) /\ Stands(p) /\ lease = p
  BY <1>1, Known DEF Stands, Exclusive
<1>3. disk[p].j.attempts["candidate"] = 1 /\ disk[p].request /\ owner = p /\ disk[p].transaction /\ lease = p
      /\ State(p) = "DOWNLOAD_IDENTIFIED" /\ Begun(p)
  BY <1>1, <1>2 DEF AdvanceFlashed, Stands, Exclusive, Executing, Transferring, Ending, Recovering,
     Classified
<1>4. MayTurn(p, "CANDIDATE_FLASHED")
  BY <1>2, <1>3 DEF MayTurn, Body, Chain, Pace, Numbered, Files, Claimed, Typed, Marked
<1>5. ToState(p, "CANDIDATE_FLASHED")
  <2>1. /\ Log(p, To("CANDIDATE_FLASHED")) /\ "CANDIDATE_FLASHED" \in STATES
        /\ "CANDIDATE_FLASHED" \in NEXT_STATES[disk[p].j.state]
    BY <1>3, TransitionTable DEF AdvanceFlashed, STATES
  <2>2. QED
    BY <1>2, <2>1, Known, LogTo
<1>6. Body(p)' /\ Owning(p)'
  BY <1>1, <1>2, <1>4, <1>5, TransitionBody DEF Goes
<1>7. Stands(p)'
  <2>1. /\ mem'[p].pc = "advance" /\ lease' = p /\ owner' = p /\ disk'[p].request
        /\ disk'[p].transaction /\ disk'[p].j.attempts["candidate"] = 1
        /\ disk'[p].j.state = "CANDIDATE_FLASHED"
    BY <1>1, <1>3, <1>5 DEF Keeps, Goes, Moves, Aside, ledger, device, ToState
  <2>2. QED
    BY <2>1 DEF Stands, Exclusive, Executing, Transferring, Ending, Recovering
<1>8. QED
  BY <1>1, <1>2, <1>5, <1>6, <1>7, WriteStep DEF Goes, Moves, ToState

\* The end of the transfer is recorded.
LEMMA AdvanceDoneInv == ASSUME Inv, NEW p \in Run, AdvanceDone(p) PROVE Inv'
<1>1. Goes(p, "advance", {}) /\ mem[p].pc = "advance"
  BY Known DEF AdvanceDone, Goes, Moves
<1>2. /\ Typed(p) /\ Told(disk[p].j) /\ Marked(disk[p].j)
      /\ Body(p) /\ Owning(p) /\ Stands(p) /\ lease = p
  BY <1>1, Known DEF Stands, Exclusive
<1>3. disk[p].j.attempts["candidate"] = 1 /\ disk[p].request /\ owner = p /\ disk[p].transaction /\ lease = p
      /\ State(p) = "CANDIDATE_FLASHED" /\ ~Recorded(p, "candidate_flash_done")
  BY <1>1, <1>2 DEF AdvanceDone, Stands, Exclusive, Executing, Transferring, Ending, Recovering
<1>4. Follows(disk[p].j.state, Has(disk[p].j, "candidate_flash_start"), Len(disk[p].j.events),
              "candidate_flash_done")
  BY <1>2, <1>3, Clock DEF Follows
<1>5. WithEvent(p, "candidate_flash_done")
  <2>1. Log(p, Happened("candidate_flash_done"))
    BY <1>3 DEF AdvanceDone
  <2>2. QED
    BY <1>2, <1>4, <2>1, Known, LogEvent
<1>6. Body(p)' /\ Owning(p)'
  BY <1>1, <1>2, <1>3, <1>4, <1>5, EventBody DEF Goes
<1>7. Stands(p)'
  <2>1. /\ mem'[p].pc = "advance" /\ lease' = p /\ owner' = p /\ disk'[p].request
        /\ disk'[p].transaction /\ disk'[p].j.attempts["candidate"] = 1
        /\ disk'[p].j.state = "CANDIDATE_FLASHED"
    BY <1>1, <1>3, <1>5 DEF Keeps, Goes, Moves, Aside, ledger, device, WithEvent
  <2>2. QED
    BY <2>1 DEF Stands, Exclusive, Executing, Transferring, Ending, Recovering
<1>8. QED
  BY <1>1, <1>2, <1>5, <1>6, <1>7, WriteStep DEF Goes, Moves, WithEvent

\* The observation ends.
LEMMA ObservedInv == ASSUME Inv, NEW p \in Run, Observed(p) PROVE Inv'
<1>1. Goes(p, "advance", {}) /\ mem[p].pc = "observed"
  BY Known, MemSteps DEF Observed, Label
<1>2. /\ Typed(p) /\ Told(disk[p].j) /\ Marked(disk[p].j)
      /\ Body(p) /\ Owning(p) /\ Stands(p) /\ lease = p
  BY <1>1, Known DEF Stands, Exclusive
<1>3. disk[p].j.attempts["candidate"] = 1 /\ disk[p].request /\ owner = p /\ disk[p].transaction /\ lease = p
      /\ State(p) = "CANDIDATE_FLASHED" /\ Recorded(p, "candidate_flash_done")
  BY <1>1, <1>2 DEF Observed, Stands, Exclusive, Executing, Transferring, Ending, Recovering
<1>4. MayTurn(p, "OBSERVED")
  <2>1. Count(p) = 3 /\ Begun(p)
    BY <1>2, <1>3, Clock
  <2>2. QED
    BY <1>2, <1>3, <2>1 DEF MayTurn, Body, Numbered, Files, Pace, Typed
<1>5. ToState(p, "OBSERVED")
  <2>1. /\ Log(p, To("OBSERVED")) /\ "OBSERVED" \in STATES
        /\ "OBSERVED" \in NEXT_STATES[disk[p].j.state]
    BY <1>3, TransitionTable DEF Observed, STATES
  <2>2. QED
    BY <1>2, <2>1, Known, LogTo
<1>6. Body(p)' /\ Owning(p)'
  BY <1>1, <1>2, <1>4, <1>5, TransitionBody DEF Goes
<1>7. Stands(p)'
  <2>1. /\ mem'[p].pc = "advance" /\ lease' = p /\ owner' = p /\ disk'[p].request
        /\ disk'[p].transaction /\ disk'[p].j.attempts["candidate"] = 1
        /\ disk'[p].j.state = "OBSERVED"
    BY <1>1, <1>3, <1>5 DEF Keeps, Goes, Moves, Aside, ledger, device, ToState
  <2>2. QED
    BY <2>1 DEF Stands, Exclusive, Executing, Transferring, Ending, Recovering
<1>8. QED
  BY <1>1, <1>2, <1>5, <1>6, <1>7, WriteStep DEF Goes, Moves, ToState

\* The boot of the candidate is recorded.
LEMMA AdvanceBootReadyInv == ASSUME Inv, NEW p \in Run, AdvanceBootReady(p) PROVE Inv'
<1>1. Goes(p, "advance", {}) /\ mem[p].pc = "advance"
  BY Known DEF AdvanceBootReady, Goes, Moves
<1>2. /\ Typed(p) /\ Told(disk[p].j) /\ Marked(disk[p].j)
      /\ Body(p) /\ Owning(p) /\ Stands(p) /\ lease = p
  BY <1>1, Known DEF Stands, Exclusive
<1>3. disk[p].j.attempts["candidate"] = 1 /\ disk[p].request /\ owner = p /\ disk[p].transaction /\ lease = p
      /\ State(p) = "OBSERVED" /\ ~Recorded(p, "candidate_boot_ready")
  BY <1>1, <1>2 DEF AdvanceBootReady, Stands, Exclusive, Executing, Transferring, Ending, Recovering
<1>4. Follows(disk[p].j.state, Has(disk[p].j, "candidate_flash_start"), Len(disk[p].j.events),
              "candidate_boot_ready")
  BY <1>2, <1>3, Clock DEF Follows
<1>5. WithEvent(p, "candidate_boot_ready")
  <2>1. Log(p, Happened("candidate_boot_ready"))
    BY <1>3 DEF AdvanceBootReady
  <2>2. QED
    BY <1>2, <1>4, <2>1, Known, LogEvent
<1>6. Body(p)' /\ Owning(p)'
  BY <1>1, <1>2, <1>3, <1>4, <1>5, EventBody DEF Goes
<1>7. Stands(p)'
  <2>1. /\ mem'[p].pc = "advance" /\ lease' = p /\ owner' = p /\ disk'[p].request
        /\ disk'[p].transaction /\ disk'[p].j.attempts["candidate"] = 1
        /\ disk'[p].j.state = "OBSERVED"
    BY <1>1, <1>3, <1>5 DEF Keeps, Goes, Moves, Aside, ledger, device, WithEvent
  <2>2. QED
    BY <2>1 DEF Stands, Exclusive, Executing, Transferring, Ending, Recovering
<1>8. QED
  BY <1>1, <1>2, <1>5, <1>6, <1>7, WriteStep DEF Goes, Moves, WithEvent

\* On to the rollback.
LEMMA AdvanceToRollbackInv == ASSUME Inv, NEW p \in Run, AdvanceToRollback(p) PROVE Inv'
<1>1. Goes(p, "finish", {}) /\ mem[p].pc = "advance"
  BY Known, MemSteps DEF AdvanceToRollback, Label
<1>2. /\ Typed(p) /\ Told(disk[p].j) /\ Marked(disk[p].j)
      /\ Body(p) /\ Owning(p) /\ Stands(p) /\ lease = p
  BY <1>1, Known DEF Stands, Exclusive
<1>3. (State(p) = "OBSERVED" /\ Recorded(p, "candidate_boot_ready")) \/ State(p) \in RECOVERY_EVENT_STATES
  BY <1>1, <1>2 DEF AdvanceToRollback, Stands, Exclusive, Executing, Transferring, Ending,
     Recovering
<1>4. /\ Keeps(p, {}) /\ UNCHANGED <<lease, owner, ledger, image, tries, refused>>
      /\ mode' \in {"android", "download", "other"} /\ faults' \in 0..MaxFaults
  BY Known DEF AdvanceToRollback, LocalStep, Keeps, TypeOK, device
<1>5. Stands(p)'
  BY <1>1, <1>2, <1>3, <1>4 DEF Stands, Exclusive, Executing, Transferring, Ending, Recovering,
     Keeps, Goes, Moves, Aside, ledger, device, Unconsumed, ConsumedKeys
<1>6. QED
  BY <1>1, <1>2, <1>4, <1>5, QuietStep, Known DEF Label, TypeOK

\* The observation of the candidate.
LEMMA ObserveInv == ASSUME Inv, NEW p \in Run, Observe(p) PROVE Inv'
<1>1. Goes(p, "observed", {}) /\ mem[p].pc = "advance"
  BY Known, MemSteps DEF Observe, Label
<1>2. /\ Typed(p) /\ Body(p) /\ Owning(p) /\ Stands(p) /\ lease = p /\ TypeOK
  BY <1>1, Known DEF Stands, Exclusive
<1>3. /\ State(p) = "CANDIDATE_FLASHED" /\ Recorded(p, "candidate_flash_done")
      /\ disk[p].j.attempts["candidate"] = 1 /\ disk[p].request /\ owner = p /\ disk[p].transaction
  BY <1>1, <1>2 DEF Observe, Stands, Exclusive, Recovering
<1>4. Keeps(p, {}) /\ Aside
  <2>1. CASE mem[p].caller = "execute"
    <3>1. PICK ok \in BOOLEAN : Write(p, [disk[p] EXCEPT !.accepted = ok])
      BY <2>1 DEF Observe
    <3>2. QED
      BY <3>1, Known, FieldWrites DEF Write, Aside
  <2>2. CASE mem[p].caller # "execute"
    BY <2>2, Known DEF Observe, LocalStep, Keeps, Aside
  <2>3. QED
    BY <2>1, <2>2
<1>5. Body(p)'
  BY <1>2, <1>4, BodyKept DEF Aside
<1>6. Owning(p)'
  BY <1>1, <1>2, <1>4 DEF Owning, RollbackDone, Keeps, Goes, Aside, device
<1>7. Stands(p)'
  <2>1. /\ mem'[p].pc = "observed" /\ lease' = p /\ owner' = p /\ disk'[p].transaction
        /\ disk'[p].request /\ disk'[p].j.state = "CANDIDATE_FLASHED"
        /\ disk'[p].j.attempts["candidate"] = 1 /\ Has(disk'[p].j, "candidate_flash_done")
    BY <1>1, <1>2, <1>3, <1>4 DEF Keeps, Goes, Moves, Aside
  <2>2. QED
    BY <2>1 DEF Stands, Exclusive, Executing, Transferring, Ending, Recovering
<1>8. QED
  BY <1>1, <1>2, <1>4, <1>5, <1>6, <1>7, WriteStep DEF Goes, Moves

----------------------------------------------------------------------------
(* Recovery.                                                               *)

\* The branch that the journal selects, under the lease.
LEMMA RecoverInv == ASSUME Inv, NEW p \in Run, Recover(p) PROVE Inv'
<1> DEFINE m == Recovery(p)
<1>1. /\ Typed(p) /\ Body(p) /\ Owning(p) /\ TypeOK /\ lease = None /\ lease' = p
      /\ disk[p].live \in Verdict /\ disk[p].transaction
      /\ UNCHANGED <<disk, owner, ledger, mode, image, faults, tries, refused>>
      /\ disk \in [Run -> Disk] /\ mem \in [Run -> Process]
  BY Known DEF Recover, Disk, device
<1>2. /\ m \in Process
      /\ State(p) = "CLOSED" => m.pc = "publish" /\ (m.verdict = "closed" \/ m.verdict = disk[p].live)
      /\ State(p) \notin Terminal => m.pc = "cut" /\ m.caller = "normalize"
      /\ State(p) = "ABORTED" => \/ m.pc = "publish" /\ m.verdict = disk[p].live
                                 \/ m.pc = "release" /\ m.caller = "aborted" /\ disk[p].cls = LOCAL_PARSE
  <2>1. CASE State(p) = "CLOSED"
    <3> DEFINE v == IF disk[p].live = "none" THEN "closed" ELSE disk[p].live
    <3>1. m = [Idle EXCEPT !.pc = "publish", !.verdict = v]
      BY <2>1 DEF Recovery
    <3>2. v \in Verdict /\ (v = "closed" \/ v = disk[p].live) /\ "publish" \in Label
      BY <1>1 DEF Verdict, Label
    <3> HIDE DEF v, m
    <3>3. m \in Process /\ m.pc = "publish" /\ m.verdict = v
      BY <3>1, <3>2, IdleFields DEF Idle, Process
    <3>4. QED
      BY <2>1, <3>2, <3>3
  <2>2. CASE State(p) \notin Terminal
    <3>1. m = [Idle EXCEPT !.pc = "cut", !.caller = "normalize"]
      BY <2>2 DEF Recovery
    <3>2. QED
      BY <2>2, <3>1 DEF Idle, Process, Label, Caller, Verdict
  <2>3. CASE State(p) = "ABORTED" /\ disk[p].live = "pre_effect" /\ ~disk[p].request
    <3>1. m = [Idle EXCEPT !.pc = "publish", !.verdict = "pre_effect"]
      BY <2>3 DEF Recovery
    <3>2. QED
      BY <2>3, <3>1 DEF Idle, Process, Label, Caller, Verdict
  <2>4. CASE State(p) = "ABORTED" /\ ~(disk[p].live = "pre_effect" /\ ~disk[p].request)
    <3>1. m = [Idle EXCEPT !.pc = "release", !.caller = "aborted"]
      BY <2>4 DEF Recovery
    <3>2. disk[p].cls = LOCAL_PARSE
      BY <2>4 DEF Recover
    <3>3. QED
      BY <2>4, <3>1, <3>2 DEF Idle, Process, Label, Caller, Verdict
  <2>5. QED
    BY <2>1, <2>2, <2>3, <2>4
<1> HIDE DEF m
<1>3. Becomes(p, m)
  BY <1>1, <1>2, MemUpdate DEF Recover, m
<1>4. Keeps(p, {})
  BY <1>1 DEF Keeps
<1>5. Body(p)'
  BY <1>1, <1>4, BodyKept
<1>6. mem'[p] = m /\ m.pc \in {"publish", "cut", "release"}
  BY <1>2, <1>3 DEF Becomes
<1>7. Owning(p)'
  BY <1>1, <1>6 DEF Owning, RollbackDone
<1>8. Stands(p)'
  <2>1. CASE State(p) = "CLOSED"
    <3>1. disk[p].live \notin {"pre_effect", "local_parse"}
      BY <1>1, <2>1 DEF Body, Claimed
    <3>2. QED
      BY <1>1, <1>2, <1>6, <2>1, <3>1 DEF Stands, Exclusive, Executing, Transferring, Ending, Recovering
  <2>2. CASE State(p) \notin Terminal
    <3>1. owner = p
      BY <2>2 DEF Recover
    <3>2. State(p) # NoState
      BY <1>1, <3>1 DEF Owning
    <3>3. QED
      BY <1>1, <1>2, <1>6, <2>2, <3>1, <3>2 DEF Stands, Exclusive, Executing, Transferring, Ending, Recovering
  <2>3. CASE State(p) = "ABORTED"
    <3>1. /\ disk[p].live \in {"pre_effect", "local_parse"} => NoCandidateSession(p)
          /\ disk[p].cls = LOCAL_PARSE => p \in failures
      BY <1>1 DEF Body, Claimed
    <3>2. QED
      BY <1>1, <1>2, <1>6, <2>3, <3>1 DEF Stands, Exclusive, Executing, Transferring, Ending, Recovering, ledger, NoCandidateSession
  <2>4. QED
    BY <2>1, <2>2, <2>3
<1>9. QED
  BY <1>1, <1>3, <1>5, <1>7, <1>8, Inductive DEF Local, Body, Stands, Becomes, TypeOK

\* What the request cut says.
LEMMA CutFacts ==
    ASSUME NEW p \in Run, Typed(p), Marked(disk[p].j), Body(p), Owning(p), Stands(p), mem[p].pc = "cut"
    PROVE  /\ owner = p /\ disk[p].transaction /\ State(p) \notin {NoState} \cup Terminal
           /\ mem[p].caller = "normalize" /\ lease = p
           /\ RequestCut(p) => /\ disk[p].request /\ ~Begun(p) /\ disk[p].starts["candidate"] = 0
                               /\ RollbackUnderWay(p) => State(p) \in RECOVERY_EVENT_STATES
                               /\ ~RollbackUnderWay(p) => State(p) \in {"APPROVED", "DOWNLOAD_IDENTIFIED", "RECOVERY_DOWNLOAD"}
                               /\ disk[p].cut # "none" => State(p) \in RECOVERY_EVENT_STATES
                               /\ disk[p].cut = "none" => State(p) \notin RECOVERY_EVENT_STATES
           /\ ~RequestCut(p) /\ disk[p].starts["candidate"] = 0 => ~disk[p].request
<1>1. /\ owner = p /\ disk[p].transaction /\ State(p) \notin {NoState} \cup Terminal
      /\ mem[p].caller = "normalize" /\ lease = p
  BY DEF Stands, Exclusive, Recovering
<1>2. ASSUME RequestCut(p)
      PROVE  /\ disk[p].request /\ ~Begun(p) /\ disk[p].starts["candidate"] = 0
             /\ RollbackUnderWay(p) => State(p) \in RECOVERY_EVENT_STATES
             /\ ~RollbackUnderWay(p) => State(p) \in {"APPROVED", "DOWNLOAD_IDENTIFIED", "RECOVERY_DOWNLOAD"}
             /\ disk[p].cut # "none" => State(p) \in RECOVERY_EVENT_STATES
             /\ disk[p].cut = "none" => State(p) \notin RECOVERY_EVENT_STATES
  <2>1. /\ disk[p].request /\ ~Begun(p) /\ disk[p].starts["candidate"] = 0
        /\ State(p) \in {"APPROVED", "DOWNLOAD_IDENTIFIED"} \cup RECOVERY_EVENT_STATES
    BY <1>2 DEF RequestCut, CandidateEvidence, Typed
  <2>2. disk[p].cut # "none" => State(p) \in RECOVERY_EVENT_STATES
    BY <1>1, <2>1 DEF Body, Files
  <2>3. disk[p].cut = "none" => State(p) \notin RECOVERY_EVENT_STATES
    BY <2>1 DEF Body, Files
  <2>4. RollbackUnderWay(p) => State(p) \in RECOVERY_EVENT_STATES
    BY <2>1, Clock DEF RollbackUnderWay
  <2>5. ~RollbackUnderWay(p) => State(p) \in {"APPROVED", "DOWNLOAD_IDENTIFIED", "RECOVERY_DOWNLOAD"}
    BY <2>1 DEF RollbackUnderWay
  <2>6. QED
    BY <2>1, <2>2, <2>3, <2>4, <2>5
<1>3. ASSUME ~RequestCut(p), disk[p].starts["candidate"] = 0 PROVE ~disk[p].request
  <2>1. disk[p].j.attempts["candidate"] = 0
    BY <1>3 DEF Typed, Body, Numbered, Ordered
  <2>2. ~Begun(p) /\ ~CandidateEvidence(p)
    BY <1>3, <2>1 DEF CandidateEvidence, Body, Numbered
  <2>3. State(p) \in STATES
    BY <1>1 DEF Typed
  <2>4. State(p) \notin {"CANDIDATE_FLASHED", "OBSERVED"}
    BY <2>2 DEF Body, Chain, Pace
  <2>5. State(p) = "PREFLIGHT" => ~disk[p].request
    BY DEF Body, Files
  <2>6. QED
    BY <1>1, <1>3, <2>2, <2>3, <2>4, <2>5 DEF RequestCut, STATES
<1>4. QED
  BY <1>1, <1>2, <1>3

\* No Download request was cut off.
LEMMA CutNormalizeInv == ASSUME Inv, NEW p \in Run, CutNormalize(p) PROVE Inv'
<1>1. Goes(p, "normalize", {}) /\ mem[p].pc = "cut"
  BY Known, MemSteps DEF CutNormalize, Label
<1>2. /\ Typed(p) /\ Told(disk[p].j) /\ Marked(disk[p].j)
      /\ Body(p) /\ Owning(p) /\ Stands(p) /\ lease = p
  BY <1>1, Known DEF Stands, Exclusive
<1>3. owner = p /\ lease = p /\ disk[p].transaction
      /\ State(p) \notin {NoState} \cup Terminal /\ mem[p].caller = "normalize"
      /\ (disk[p].starts["candidate"] = 0 => ~disk[p].request)
  BY <1>1, <1>2, CutFacts DEF CutNormalize
<1>4. /\ Keeps(p, {}) /\ UNCHANGED <<lease, owner, ledger, image, tries, refused>>
      /\ mode' \in {"android", "download", "other"} /\ faults' \in 0..MaxFaults
  BY Known DEF CutNormalize, LocalStep, Keeps, TypeOK, device
<1>5. Stands(p)'
  BY <1>1, <1>3, <1>4 DEF Stands, Exclusive, Executing, Transferring, Ending, Recovering, Keeps,
     Goes, Moves, Aside, ledger, device, Unconsumed, ConsumedKeys
<1>6. QED
  BY <1>1, <1>2, <1>4, <1>5, QuietStep, Known DEF Label, TypeOK

\* A parked run stays parked.
LEMMA CutStaysParkedInv == ASSUME Inv, NEW p \in Run, CutStaysParked(p) PROVE Inv'
<1>1. Goes(p, "publish", {"verdict"}) /\ mem[p].pc = "cut" /\ mem'[p].verdict = "recovery_required"
  BY Known, MemSteps DEF CutStaysParked, Label, Verdict
<1>2. /\ Typed(p) /\ Told(disk[p].j) /\ Marked(disk[p].j)
      /\ Body(p) /\ Owning(p) /\ Stands(p) /\ lease = p
  BY <1>1, Known DEF Stands, Exclusive
<1>3. owner = p /\ lease = p /\ disk[p].transaction
      /\ disk[p].request
  BY <1>1, <1>2, CutFacts DEF CutStaysParked
<1>4. /\ Keeps(p, {}) /\ UNCHANGED <<lease, owner, ledger, image, tries, refused>>
      /\ mode' \in {"android", "download", "other"} /\ faults' \in 0..MaxFaults
  BY Known DEF CutStaysParked, LocalStep, Keeps, TypeOK, device
<1>5. Stands(p)'
  BY <1>1, <1>3, <1>4 DEF Stands, Exclusive, Executing, Transferring, Ending, Recovering, Keeps,
     Goes, Moves, Aside, ledger, device, Unconsumed, ConsumedKeys
<1>6. QED
  BY <1>1, <1>2, <1>4, <1>5, QuietStep, Known DEF Label, TypeOK

\* A rollback under way goes on.
LEMMA CutResumesInv == ASSUME Inv, NEW p \in Run, CutResumes(p) PROVE Inv'
<1>1. Goes(p, "finish", {}) /\ mem[p].pc = "cut"
  BY Known, MemSteps DEF CutResumes, Label
<1>2. /\ Typed(p) /\ Told(disk[p].j) /\ Marked(disk[p].j)
      /\ Body(p) /\ Owning(p) /\ Stands(p) /\ lease = p
  BY <1>1, Known DEF Stands, Exclusive
<1>3. owner = p /\ lease = p /\ disk[p].transaction
      /\ disk[p].request /\ State(p) \in RECOVERY_EVENT_STATES
  BY <1>1, <1>2, CutFacts DEF CutResumes
<1>4. /\ Keeps(p, {}) /\ UNCHANGED <<lease, owner, ledger, image, tries, refused>>
      /\ mode' \in {"android", "download", "other"} /\ faults' \in 0..MaxFaults
  BY Known DEF CutResumes, LocalStep, Keeps, TypeOK, device
<1>5. Stands(p)'
  BY <1>1, <1>3, <1>4 DEF Stands, Exclusive, Executing, Transferring, Ending, Recovering, Keeps,
     Goes, Moves, Aside, ledger, device, Unconsumed, ConsumedKeys
<1>6. QED
  BY <1>1, <1>2, <1>4, <1>5, QuietStep, Known DEF Label, TypeOK

\* The registry cannot be read.
LEMMA CutRegistryFailsInv == ASSUME Inv, NEW p \in Run, CutRegistryFails(p) PROVE Inv'
<1>1. Goes(p, "parked", {}) /\ mem[p].pc = "cut"
  BY Known, MemSteps DEF CutRegistryFails, Label, CutOpen
<1>2. /\ Typed(p) /\ Told(disk[p].j) /\ Marked(disk[p].j)
      /\ Body(p) /\ Owning(p) /\ Stands(p) /\ lease = p
  BY <1>1, Known DEF Stands, Exclusive
<1>3. owner = p /\ lease = p /\ disk[p].transaction
      /\ disk[p].request /\ ~Begun(p) /\ disk[p].starts["candidate"] = 0
      /\ State(p) \in {"APPROVED", "DOWNLOAD_IDENTIFIED"}
  BY <1>1, <1>2, CutFacts DEF CutRegistryFails, CutOpen
<1>4. /\ Keeps(p, {}) /\ UNCHANGED <<lease, owner, ledger, image, tries, refused>>
      /\ mode' \in {"android", "download", "other"} /\ faults' \in 0..MaxFaults
  BY Known, RunAssumption DEF CutRegistryFails, LocalStep, Keeps, TypeOK, device
<1>5. Stands(p)'
  BY <1>1, <1>3, <1>4 DEF Stands, Exclusive, Executing, Transferring, Ending, Recovering, Keeps,
     Goes, Moves, Aside, ledger, device, Unconsumed, ConsumedKeys
<1>6. QED
  BY <1>1, <1>2, <1>4, <1>5, QuietStep, Known DEF Label, TypeOK

\* The wait for Download mode.
LEMMA CutWaitInv == ASSUME Inv, NEW p \in Run, CutWait(p) PROVE Inv'
<1>1. mem[p].pc = "cut" /\ CutOpen(p) /\ LocalStep
  BY DEF CutWait, CutOpen
<1>2. /\ Typed(p) /\ Marked(disk[p].j) /\ Body(p) /\ Owning(p) /\ Stands(p) /\ lease = p /\ TypeOK
  BY <1>1, Known DEF Stands, Exclusive
<1>3. /\ owner = p /\ lease = p /\ disk[p].transaction /\ disk[p].request /\ ~Begun(p)
      /\ disk[p].starts["candidate"] = 0
      /\ State(p) \in {"APPROVED", "DOWNLOAD_IDENTIFIED", "RECOVERY_DOWNLOAD"}
      /\ disk[p].cut = "exact" => State(p) = "RECOVERY_DOWNLOAD"
      /\ disk[p].cut # "exact" => State(p) \in {"APPROVED", "DOWNLOAD_IDENTIFIED"}
      /\ disk[p].j.attempts["revalidation"] = 0
  <2>1. disk[p].cut \in {"none", "exact", "parked"}
    BY Known DEF Disk
  <2>2. disk[p].j.attempts["revalidation"] = 0 /\ disk[p].cut # "parked"
    BY <1>1, <1>2 DEF CutOpen, Parked, Typed
  <2>3. QED
    BY <1>1, <1>2, <2>1, <2>2, CutFacts DEF CutOpen
<1>4. \/ Goes(p, "finish", {}) /\ disk[p].cut = "exact"
      \/ Goes(p, "exact", {}) /\ disk[p].cut # "exact"
      \/ Goes(p, "revalidation", {}) /\ disk[p].cut = "exact"
      \/ Goes(p, "parked", {}) /\ disk[p].cut # "exact"
  <2>1. {"finish", "exact", "revalidation", "parked"} \subseteq Label /\ mem \in [Run -> Process]
    BY Known DEF Label
  <2>2. \/ /\ disk[p].cut = "exact"
           /\ \/ mem' = [mem EXCEPT ![p].endpoint = TRUE, ![p].pc = "finish"]
              \/ Goto(p, "revalidation")
        \/ /\ disk[p].cut # "exact"
           /\ \/ mem' = [mem EXCEPT ![p].endpoint = TRUE, ![p].pc = "exact"]
              \/ Goto(p, "parked")
    BY DEF CutWait
  <2>3. QED
    BY <2>1, <2>2, MemSteps
<1>5. /\ Keeps(p, {}) /\ UNCHANGED <<disk, lease, owner, ledger, image, mode, faults, tries, refused>>
  BY <1>1, Known DEF LocalStep, Keeps, device
<1>6. Stands(p)'
  <2>1. CASE Goes(p, "finish", {}) /\ disk[p].cut = "exact"
    BY <1>3, <1>5, <2>1 DEF Stands, Exclusive, Executing, Transferring, Ending, Recovering, Goes, Moves
  <2>2. CASE Goes(p, "exact", {}) /\ disk[p].cut # "exact"
    BY <1>3, <1>5, <2>2 DEF Stands, Exclusive, Executing, Transferring, Ending, Recovering, Goes, Moves
  <2>3. CASE Goes(p, "revalidation", {}) /\ disk[p].cut = "exact"
    BY <1>3, <1>5, <2>3 DEF Stands, Exclusive, Executing, Transferring, Ending, Recovering, Goes, Moves
  <2>4. CASE Goes(p, "parked", {}) /\ disk[p].cut # "exact"
    BY <1>3, <1>5, <2>4 DEF Stands, Exclusive, Executing, Transferring, Ending, Recovering, Goes, Moves
  <2>5. QED
    BY <1>4, <2>1, <2>2, <2>3, <2>4
<1>7. QED
  <2>1. \E label \in Label : Goes(p, label, {}) /\ label # "store"
    BY <1>4 DEF Label
  <2>2. QED
    BY <1>2, <1>5, <1>6, <2>1, QuietStep DEF TypeOK

\* A first sighting of Download mode, or its absence, is journalled.
LEMMA CutTurn ==
    ASSUME Inv, NEW p \in Run, NEW x \in {"exact", "parked"}, mem[p].pc = x,
           disk' = [disk EXCEPT ![p].j = Apply(@, To("RECOVERY_DOWNLOAD")), ![p].cut = x],
           refused' = IF Admits(disk[p].j, To("RECOVERY_DOWNLOAD")) THEN refused
                                                                   ELSE refused \cup {p},
           UNCHANGED <<lease, owner, ledger, device, faults, tries>>,
           mem'[p].pc \in {"finish", "publish"}
    PROVE  /\ Keeps(p, {"j", "cut"}) /\ Aside /\ Body(p)' /\ Owning(p)' /\ lease = p /\ owner = p
           /\ disk'[p].j.state = "RECOVERY_DOWNLOAD" /\ disk'[p].request /\ disk'[p].transaction
<1> DEFINE k == Apply(disk[p].j, To("RECOVERY_DOWNLOAD"))
<1>1. /\ Typed(p) /\ Body(p) /\ Owning(p) /\ Stands(p) /\ disk \in [Run -> Disk]
  BY Known
<1>2. /\ lease = p /\ owner = p /\ disk[p].request /\ disk[p].transaction /\ ~Begun(p)
      /\ State(p) \in {"APPROVED", "DOWNLOAD_IDENTIFIED"} /\ disk[p].starts["candidate"] = 0
  BY <1>1 DEF Stands, Exclusive, Recovering
<1>3. /\ Admits(disk[p].j, To("RECOVERY_DOWNLOAD")) /\ k \in Summary
      /\ k.state = "RECOVERY_DOWNLOAD" /\ k.events = disk[p].j.events
      /\ k.attempts = disk[p].j.attempts
  <2>1. "RECOVERY_DOWNLOAD" \in STATES /\ "RECOVERY_DOWNLOAD" \in NEXT_STATES[disk[p].j.state]
    BY <1>2, TransitionTable DEF STATES
  <2>2. QED
    BY <1>1, <2>1, TransitionStep DEF Typed
<1> HIDE DEF k
<1>4. /\ Keeps(p, {"j", "cut"}) /\ disk'[p].j = k /\ disk'[p].cut = x
  <2> DEFINE d == [disk[p] EXCEPT !.j = k]
  <2>1. d \in Disk /\ d.j = k /\ d.request = disk[p].request /\ d.transaction = disk[p].transaction
        /\ d.claimIntent = disk[p].claimIntent /\ d.claimReceipt = disk[p].claimReceipt
        /\ d.starts = disk[p].starts /\ d.result = disk[p].result /\ d.cls = disk[p].cls
        /\ d.live = disk[p].live
    <3>1. disk[p] \in Disk
      BY <1>1
    <3>2. QED
      BY <1>3, <3>1 DEF Disk
  <2>2. disk' = [disk EXCEPT ![p] = [d EXCEPT !.cut = x]]
    BY <1>1 DEF k
  <2> HIDE DEF d
  <2>3. Turns(p, [d EXCEPT !.cut = x])
    BY <1>1, <2>1, <2>2, DiskFields, DiskUpdate
  <2> DEFINE e == [d EXCEPT !.cut = x]
  <2>4. e.cut = x /\ e.j = d.j /\ e.request = d.request /\ e.transaction = d.transaction
        /\ e.claimIntent = d.claimIntent /\ e.claimReceipt = d.claimReceipt
        /\ e.starts = d.starts /\ e.result = d.result /\ e.cls = d.cls /\ e.live = d.live
    BY <2>1 DEF Disk
  <2> HIDE DEF e
  <2>5. Turns(p, e)
    BY <2>3 DEF e
  <2>6. QED
    BY <2>1, <2>4, <2>5 DEF Turns, Keeps
<1>5. Aside
  BY <1>3 DEF Aside
<1>6. /\ disk'[p].j.state = "RECOVERY_DOWNLOAD" /\ disk'[p].j.attempts = disk[p].j.attempts
      /\ Told(disk'[p].j) /\ Len(disk'[p].j.events) = Len(disk[p].j.events) /\ ~Begun(p)'
  BY <1>1, <1>2, <1>3, <1>4, SameEvents DEF Body, Chain
<1>7. /\ disk'[p].starts = disk[p].starts /\ disk'[p].result = disk[p].result
      /\ disk'[p].request = disk[p].request /\ disk'[p].transaction = disk[p].transaction
      /\ UNCHANGED <<tries, owner, image, active, granted, failures, sessions>>
  BY <1>4, <1>5 DEF Keeps, Aside, ledger, device
<1>8. Chain(p)'
  BY <1>1, <1>2, <1>6 DEF Body, Chain, Pace
<1>9. Numbered(p)'
  <2>1. Ordered(p, "candidate")' /\ Ordered(p, "rollback")'
    BY <1>1, <1>6, <1>7 DEF Body, Numbered, Ordered
  <2>2. QED
    BY <1>1, <1>2, <1>6, <1>7, <2>1 DEF Body, Numbered
<1>10. Files(p)'
  BY <1>1, <1>2, <1>4, <1>6, <1>7 DEF Body, Files, Keeps
<1>11. Claimed(p)'
  BY <1>1, <1>2, <1>4, <1>6, <1>7 DEF Body, Claimed, Keeps
<1>12. Owning(p)'
  BY <1>1, <1>2, <1>6, <1>7 DEF Owning, RollbackDone
<1>13. QED
  BY <1>2, <1>4, <1>5, <1>6, <1>7, <1>8, <1>9, <1>10, <1>11, <1>12 DEF Body

\* The device is in Download mode: the rollback follows.
LEMMA CutExactInv == ASSUME Inv, NEW p \in Run, CutExact(p) PROVE Inv'
<1>1. Goes(p, "finish", {}) /\ mem[p].pc = "exact"
  BY Known, MemSteps DEF CutExact, Label
<1>2. /\ Keeps(p, {"j", "cut"}) /\ Aside /\ Body(p)' /\ Owning(p)' /\ lease = p /\ owner = p
      /\ disk'[p].j.state = "RECOVERY_DOWNLOAD" /\ disk'[p].request /\ disk'[p].transaction
  BY <1>1, CutTurn DEF CutExact, Goes
<1>3. Stands(p)'
  BY <1>1, <1>2 DEF Stands, Exclusive, Executing, Transferring, Ending, Recovering, Goes, Moves, Aside
<1>4. QED
  BY <1>1, <1>2, <1>3, WriteStep DEF Goes, Moves

\* The device is not, and the run is parked.
LEMMA ParkInv == ASSUME Inv, NEW p \in Run, Park(p) PROVE Inv'
<1>1. Goes(p, "publish", {"verdict"}) /\ mem'[p].verdict = "recovery_required" /\ mem[p].pc = "parked"
  BY Known, MemSteps DEF Park, Label, Verdict
<1>2. /\ Keeps(p, {"j", "cut"}) /\ Aside /\ Body(p)' /\ Owning(p)' /\ lease = p /\ owner = p
      /\ disk'[p].j.state = "RECOVERY_DOWNLOAD" /\ disk'[p].request /\ disk'[p].transaction
  BY <1>1, CutTurn DEF Park, Goes
<1>3. Stands(p)'
  BY <1>1, <1>2 DEF Stands, Exclusive, Executing, Transferring, Ending, Recovering, Goes, Moves, Aside
<1>4. QED
  BY <1>1, <1>2, <1>3, WriteStep DEF Goes, Moves

\* A second sighting fails: the revalidation is checkpointed.
LEMMA RevalidationParkInv == ASSUME Inv, NEW p \in Run, RevalidationPark(p) PROVE Inv'
<1>1. Goes(p, "publish", {"verdict"}) /\ mem'[p].verdict = "recovery_required"
      /\ mem[p].pc = "revalidation"
  BY Known, MemSteps DEF RevalidationPark, Label, Verdict
<1>2. /\ Typed(p) /\ Told(disk[p].j) /\ Body(p) /\ Owning(p) /\ Stands(p) /\ lease = p
  BY <1>1, Known DEF Stands, Exclusive
<1>3. /\ State(p) = "RECOVERY_DOWNLOAD" /\ disk[p].j.attempts["revalidation"] = 0
      /\ disk[p].transaction /\ lease = p
  BY <1>1, <1>2 DEF Stands, Exclusive, Recovering
<1>4. WithAttempt(p, "revalidation") /\ "revalidation" \in DOMAIN CHECKPOINT_STATE
  <2>1. "revalidation" \in DOMAIN CHECKPOINT_STATE /\ CHECKPOINT_STATE["revalidation"] = "RECOVERY_DOWNLOAD"
    BY DEF CHECKPOINT_STATE
  <2>2. Log(p, Attempt("revalidation", disk[p].j.attempts["revalidation"] + 1))
    BY <1>3 DEF RevalidationPark
  <2>3. QED
    BY <1>2, <1>3, <2>1, <2>2, Known, LogAttempt
<1>5. Body(p)' /\ Owning(p)'
  BY <1>1, <1>2, <1>4, AttemptBody DEF Goes
<1>6. Stands(p)'
  BY <1>1, <1>3, <1>4 DEF Stands, Exclusive, Executing, Transferring, Ending, Recovering, Goes, Moves,
     Aside, WithAttempt, Keeps
<1>7. QED
  BY <1>1, <1>2, <1>4, <1>5, <1>6, WriteStep DEF Goes, Moves, WithAttempt

----------------------------------------------------------------------------
(* Normalisation and the rollback.                                         *)

\* A local parse failure is adopted.
LEMMA NormalizeParsedInv == ASSUME Inv, NEW p \in Run, NormalizeParsed(p) PROVE Inv'
<1>1. /\ mem[p].pc = "normalize" /\ disk[p].result["candidate"][1] = LOCAL_PARSE
      /\ disk[p].claimReceipt => Goes(p, "release", {})
      /\ ~disk[p].claimReceipt => Goes(p, "repair", {})
  <2>1. "release" \in Label /\ "repair" \in Label /\ mem \in [Run -> Process]
    BY Known DEF Label
  <2>2. QED
    BY <2>1, MemSteps DEF NormalizeParsed
<1>2. /\ Typed(p) /\ Body(p) /\ Owning(p) /\ Stands(p) /\ lease = p
  BY <1>1, Known DEF Stands, Exclusive
<1>3. /\ p \in failures /\ owner = p /\ disk[p].transaction /\ mem[p].caller = "normalize"
      /\ State(p) \notin {NoState} \cup Terminal
      /\ (disk[p].starts["candidate"] = 0 => ~disk[p].request) /\ lease = p
  BY <1>1, <1>2 DEF Stands, Exclusive, Recovering, Body, Claimed
<1>4. Keeps(p, {"cls"}) /\ disk'[p].cls = LOCAL_PARSE /\ Aside
  <2>1. disk' = [disk EXCEPT ![p] = [disk[p] EXCEPT !.cls = LOCAL_PARSE]] /\ Aside
    BY DEF NormalizeParsed, Write, Aside
  <2>2. disk \in [Run -> Disk] /\ LOCAL_PARSE \in Outcome
    BY Known DEF Outcome
  <2>3. QED
    BY <2>1, <2>2, FieldWrites
<1>5. /\ disk'[p].j = disk[p].j /\ disk'[p].starts = disk[p].starts
      /\ disk'[p].request = disk[p].request /\ disk'[p].transaction
      /\ disk'[p].result = disk[p].result
      /\ UNCHANGED <<active, granted, failures, sessions, owner, image, lease, tries>>
  BY <1>3, <1>4 DEF Keeps, Aside, ledger, device
<1>6. Chain(p)' /\ Numbered(p)'
  BY <1>2, <1>4, <1>5, ChainKept
<1>7. Files(p)' /\ Claimed(p)'
  BY <1>2, <1>3, <1>4, <1>5 DEF Body, Files, Claimed, Keeps
<1>8. mem'[p].pc \in {"release", "repair"}
  BY <1>1 DEF Goes
<1>9. Owning(p)'
  BY <1>2, <1>5, <1>8 DEF Owning, RollbackDone
<1>10. Stands(p)'
  <2>1. CASE disk[p].claimReceipt
    BY <1>1, <1>3, <1>5, <2>1 DEF Stands, Exclusive, Executing, Transferring, Ending, Recovering,
       Goes, Moves
  <2>2. CASE ~disk[p].claimReceipt
    BY <1>1, <1>3, <1>5, <2>2 DEF Stands, Exclusive, Executing, Transferring, Ending, Recovering,
       Goes, Moves
  <2>3. QED
    BY <2>1, <2>2
<1>11. QED
  BY <1>1, <1>2, <1>4, <1>6, <1>7, <1>9, <1>10, WriteStep DEF Goes, Moves, Body

\* There is none.
LEMMA NormalizeOtherInv == ASSUME Inv, NEW p \in Run, NormalizeOther(p) PROVE Inv'
<1>1. Goes(p, "repair", {}) /\ mem[p].pc = "normalize"
  BY Known, MemSteps DEF NormalizeOther, Label
<1>2. /\ Typed(p) /\ Told(disk[p].j) /\ Marked(disk[p].j)
      /\ Body(p) /\ Owning(p) /\ Stands(p) /\ lease = p
  BY <1>1, Known DEF Stands, Exclusive
<1>3. owner = p /\ lease = p /\ disk[p].transaction
      /\ State(p) \notin {NoState} \cup Terminal /\ mem[p].caller = "normalize"
      /\ (disk[p].starts["candidate"] = 0 => ~disk[p].request)
  BY <1>1, <1>2 DEF NormalizeOther, Stands, Exclusive, Executing, Transferring, Ending, Recovering
<1>4. /\ Keeps(p, {}) /\ UNCHANGED <<lease, owner, ledger, image, tries, refused>>
      /\ mode' \in {"android", "download", "other"} /\ faults' \in 0..MaxFaults
  BY Known DEF NormalizeOther, LocalStep, Keeps, TypeOK, device
<1>5. Stands(p)'
  BY <1>1, <1>3, <1>4 DEF Stands, Exclusive, Executing, Transferring, Ending, Recovering, Keeps,
     Goes, Moves, Aside, ledger, device, Unconsumed, ConsumedKeys
<1>6. QED
  BY <1>1, <1>2, <1>4, <1>5, QuietStep, Known DEF Label, TypeOK

\* A start file without its checkpoint is repaired.
LEMMA RepairOrphanInv == ASSUME Inv, NEW p \in Run, RepairOrphan(p) PROVE Inv'
<1>1. Goes(p, "repair", {}) /\ mem[p].pc = "repair" /\ Orphan(p, "candidate")
  BY Known DEF RepairOrphan, Goes, Moves
<1>2. /\ Typed(p) /\ Told(disk[p].j) /\ Body(p) /\ Owning(p) /\ Stands(p) /\ lease = p
  BY <1>1, Known DEF Stands, Exclusive
<1>3. /\ owner = p /\ lease = p /\ disk[p].transaction
      /\ State(p) \notin {NoState} \cup Terminal /\ mem[p].caller = "normalize"
      /\ disk[p].starts["candidate"] = 1 /\ disk[p].j.attempts["candidate"] = 0
      /\ State(p) = "DOWNLOAD_IDENTIFIED"
  <2>1. /\ owner = p /\ lease = p /\ disk[p].transaction
        /\ State(p) \notin {NoState} \cup Terminal /\ mem[p].caller = "normalize"
    BY <1>1, <1>2 DEF Stands, Exclusive, Recovering
  <2>2. disk[p].starts["candidate"] = 1 /\ disk[p].j.attempts["candidate"] = 0
    BY <1>1, <1>2 DEF Body, Numbered, Orphan, Typed
  <2>3. State(p) = "DOWNLOAD_IDENTIFIED"
    BY <1>2, <2>2 DEF Body, Numbered
  <2>4. QED
    BY <2>1, <2>2, <2>3
<1>4. WithAttempt(p, "candidate") /\ "candidate" \in DOMAIN CHECKPOINT_STATE
  <2>1. "candidate" \in DOMAIN CHECKPOINT_STATE /\ CHECKPOINT_STATE["candidate"] = "DOWNLOAD_IDENTIFIED"
    BY DEF CHECKPOINT_STATE
  <2>2. Log(p, Attempt("candidate", disk[p].j.attempts["candidate"] + 1))
    BY <1>3 DEF RepairOrphan
  <2>3. QED
    BY <1>2, <1>3, <2>1, <2>2, Known, LogAttempt DEF MAX_TRANSFER_ATTEMPTS
<1>5. Body(p)' /\ Owning(p)'
  BY <1>1, <1>2, <1>4, AttemptBody DEF Goes
<1>6. Stands(p)'
  <2>1. /\ mem'[p].pc = "repair" /\ mem'[p].caller = "normalize" /\ lease' = p /\ owner' = p
        /\ disk'[p].transaction /\ disk'[p].j.state = "DOWNLOAD_IDENTIFIED"
        /\ disk'[p].starts["candidate"] = 1
    BY <1>1, <1>3, <1>4 DEF Goes, Moves, Aside, WithAttempt, Keeps
  <2>2. QED
    BY <2>1 DEF Stands, Exclusive, Executing, Transferring, Ending, Recovering
<1>7. QED
  BY <1>1, <1>2, <1>4, <1>5, <1>6, WriteStep DEF Goes, Moves, WithAttempt

\* With an attempt the run advances, without one it is aborted.
LEMMA RepairedInv == ASSUME Inv, NEW p \in Run, Repaired(p) PROVE Inv'
<1>1. /\ mem[p].pc = "repair" /\ ~Orphan(p, "candidate") /\ LocalStep
      /\ disk[p].starts["candidate"] = 0 => Goes(p, "abort", {})
      /\ disk[p].starts["candidate"] # 0 => Goes(p, "advance", {})
  <2>1. "abort" \in Label /\ "advance" \in Label /\ mem \in [Run -> Process]
    BY Known DEF Label
  <2>2. QED
    BY <2>1, MemSteps DEF Repaired
<1>2. /\ Typed(p) /\ Body(p) /\ Owning(p) /\ Stands(p) /\ lease = p /\ TypeOK
  BY <1>1, Known DEF Stands, Exclusive
<1>3. /\ owner = p /\ lease = p /\ disk[p].transaction /\ State(p) \notin {NoState} \cup Terminal
  BY <1>1, <1>2 DEF Stands, Exclusive
<1>4. /\ Keeps(p, {}) /\ UNCHANGED <<disk, lease, owner, ledger, image, mode, faults, tries, refused>>
      /\ sessions' = sessions
  BY <1>1, Known DEF LocalStep, Keeps, device, ledger
<1>5. Stands(p)'
  <2>1. CASE disk[p].starts["candidate"] = 0
    <3>1. ~disk[p].request
      BY <1>1, <1>2, <2>1 DEF Stands, Recovering
    <3>2. NoCandidateSession(p)
      BY <1>2, <3>1, NoTransfer
    <3>3. NoCandidateSession(p)'
      BY <1>4, <3>2 DEF NoCandidateSession, ledger
    <3>4. QED
      BY <1>1, <1>3, <1>4, <2>1, <3>3 DEF Stands, Exclusive, Executing, Transferring, Ending,
         Recovering, Goes, Moves
  <2>2. CASE disk[p].starts["candidate"] # 0
    <3>1. disk[p].starts["candidate"] = 1 /\ disk[p].j.attempts["candidate"] = 1
      BY <1>1, <1>2, <2>2 DEF Body, Numbered, Ordered, Orphan, Typed
    <3>2. disk[p].request
      BY <1>2, <3>1 DEF Body, Files
    <3>3. State(p) # "APPROVED"
      BY <1>2, <3>1 DEF Body, Numbered, Chain, Pace
    <3>4. QED
      BY <1>1, <1>3, <1>4, <2>2, <3>1, <3>2, <3>3 DEF Stands, Exclusive, Executing, Transferring,
         Ending, Recovering, Goes, Moves
  <2>3. QED
    BY <2>1, <2>2
<1>6. QED
  <2>1. \E label \in Label : Goes(p, label, {}) /\ label # "store"
    BY <1>1 DEF Label
  <2>2. QED
    BY <1>2, <1>4, <1>5, <2>1, QuietStep DEF TypeOK

\* The device is in Download mode again.
LEMMA FinishIdentifyInv == ASSUME Inv, NEW p \in Run, FinishIdentify(p) PROVE Inv'
<1>1. Goes(p, "finish", {}) /\ mem[p].pc = "finish"
  <2>1. mem' = [mem EXCEPT ![p].endpoint = TRUE] /\ mem[p].pc = "finish" /\ "finish" \in Label
    BY DEF FinishIdentify, Label
  <2>2. Goes(p, mem[p].pc, {})
    BY <2>1, Known, MemSteps
  <2>3. QED
    BY <2>1, <2>2
<1>2. /\ Typed(p) /\ Told(disk[p].j) /\ Marked(disk[p].j)
      /\ Body(p) /\ Owning(p) /\ Stands(p) /\ lease = p
  BY <1>1, Known DEF Stands, Exclusive
<1>3. owner = p /\ lease = p /\ disk[p].transaction /\ disk[p].request
      /\ State(p) = "OBSERVED" /\ Recorded(p, "candidate_boot_ready")
  BY <1>1, <1>2 DEF FinishIdentify, Stands, Exclusive, Executing, Transferring, Ending, Recovering
<1>4. MayTurn(p, "RECOVERY_DOWNLOAD")
  <2>1. Count(p) = 4 /\ Begun(p)
    BY <1>2, <1>3, Clock
  <2>2. QED
    BY <1>2, <1>3, <2>1 DEF MayTurn, Body, Numbered, Files, Pace, Typed
<1>5. ToState(p, "RECOVERY_DOWNLOAD")
  <2>1. /\ Log(p, To("RECOVERY_DOWNLOAD")) /\ "RECOVERY_DOWNLOAD" \in STATES
        /\ "RECOVERY_DOWNLOAD" \in NEXT_STATES[disk[p].j.state]
    BY <1>3, TransitionTable DEF FinishIdentify, STATES
  <2>2. QED
    BY <1>2, <2>1, Known, LogTo
<1>6. Body(p)' /\ Owning(p)'
  BY <1>1, <1>2, <1>4, <1>5, TransitionBody DEF Goes
<1>7. Stands(p)'
  <2>1. /\ mem'[p].pc = "finish" /\ lease' = p /\ owner' = p /\ disk'[p].request
        /\ disk'[p].transaction /\ disk'[p].j.state = "RECOVERY_DOWNLOAD"
    BY <1>1, <1>3, <1>5 DEF Keeps, Goes, Moves, Aside, ledger, device, ToState
  <2>2. QED
    BY <2>1 DEF Stands, Exclusive, Executing, Transferring, Ending, Recovering
<1>8. QED
  BY <1>1, <1>2, <1>5, <1>6, <1>7, WriteStep DEF Goes, Moves, ToState

\* The rollback is announced.
LEMMA FinishFlashStartInv == ASSUME Inv, NEW p \in Run, FinishFlashStart(p) PROVE Inv'
<1>1. Goes(p, "finish", {}) /\ mem[p].pc = "finish"
  BY Known DEF FinishFlashStart, Goes, Moves
<1>2. /\ Typed(p) /\ Told(disk[p].j) /\ Marked(disk[p].j)
      /\ Body(p) /\ Owning(p) /\ Stands(p) /\ lease = p
  BY <1>1, Known DEF Stands, Exclusive
<1>3. owner = p /\ lease = p /\ disk[p].transaction /\ disk[p].request
      /\ State(p) = "RECOVERY_DOWNLOAD" /\ ~Recorded(p, "rollback_flash_start")
  BY <1>1, <1>2 DEF FinishFlashStart, Stands, Exclusive, Executing, Transferring, Ending, Recovering
<1>4. Follows(disk[p].j.state, Has(disk[p].j, "candidate_flash_start"), Len(disk[p].j.events),
              "rollback_flash_start")
  <2>1. (Begun(p) => Count(p) = 4) /\ (~Begun(p) => Count(p) = 1)
    BY <1>2, <1>3, Clock
  <2>2. CASE Begun(p)
    BY <1>3, <2>1, <2>2 DEF Follows
  <2>3. CASE ~Begun(p)
    BY <1>3, <2>1, <2>3 DEF Follows
  <2>4. QED
    BY <2>2, <2>3
<1>5. WithEvent(p, "rollback_flash_start")
  <2>1. Log(p, Happened("rollback_flash_start"))
    BY <1>3 DEF FinishFlashStart
  <2>2. QED
    BY <1>2, <1>4, <2>1, Known, LogEvent
<1>6. Body(p)' /\ Owning(p)'
  BY <1>1, <1>2, <1>3, <1>4, <1>5, EventBody DEF Goes
<1>7. Stands(p)'
  <2>1. /\ mem'[p].pc = "finish" /\ lease' = p /\ owner' = p /\ disk'[p].request
        /\ disk'[p].transaction /\ disk'[p].j.state = "RECOVERY_DOWNLOAD"
    BY <1>1, <1>3, <1>5 DEF Keeps, Goes, Moves, Aside, ledger, device, WithEvent
  <2>2. QED
    BY <2>1 DEF Stands, Exclusive, Executing, Transferring, Ending, Recovering
<1>8. QED
  BY <1>1, <1>2, <1>5, <1>6, <1>7, WriteStep DEF Goes, Moves, WithEvent

\* A rollback attempt without its checkpoint is repaired.
LEMMA FinishRepairInv == ASSUME Inv, NEW p \in Run, FinishRepair(p) PROVE Inv'
<1>1. Goes(p, "finish", {}) /\ mem[p].pc = "finish" /\ Orphan(p, "rollback")
      /\ State(p) = "RECOVERY_DOWNLOAD"
  BY Known DEF FinishRepair, Goes, Moves
<1>2. /\ Typed(p) /\ Told(disk[p].j) /\ Body(p) /\ Owning(p) /\ Stands(p) /\ lease = p
  BY <1>1, Known DEF Stands, Exclusive
<1>3. /\ owner = p /\ lease = p /\ disk[p].transaction /\ disk[p].request
      /\ disk[p].j.attempts["rollback"] \in 0..1
  <2>1. owner = p /\ lease = p /\ disk[p].transaction /\ disk[p].request
    BY <1>1, <1>2 DEF Stands, Exclusive
  <2>2. disk[p].j.attempts["rollback"] \in 0..1
    BY <1>1, <1>2 DEF Orphan, Typed
  <2>3. QED
    BY <2>1, <2>2
<1>4. WithAttempt(p, "rollback") /\ "rollback" \in DOMAIN CHECKPOINT_STATE
  <2>1. "rollback" \in DOMAIN CHECKPOINT_STATE /\ CHECKPOINT_STATE["rollback"] = "RECOVERY_DOWNLOAD"
    BY DEF CHECKPOINT_STATE
  <2>2. Log(p, Attempt("rollback", disk[p].j.attempts["rollback"] + 1))
    BY <1>1 DEF FinishRepair, Orphan
  <2>3. disk[p].j.attempts["rollback"] < MAX_TRANSFER_ATTEMPTS
    BY <1>3 DEF MAX_TRANSFER_ATTEMPTS
  <2>4. QED
    BY <1>1, <1>2, <2>1, <2>2, <2>3, Known, LogAttempt
<1>5. Body(p)' /\ Owning(p)'
  BY <1>1, <1>2, <1>4, AttemptBody DEF Goes
<1>6. Stands(p)'
  BY <1>1, <1>3, <1>4 DEF Stands, Exclusive, Executing, Transferring, Ending, Recovering, Goes, Moves,
     Aside, WithAttempt, Keeps
<1>7. QED
  BY <1>1, <1>2, <1>4, <1>5, <1>6, WriteStep DEF Goes, Moves, WithAttempt

\* A completed rollback is adopted.
LEMMA FinishAdoptInv == ASSUME Inv, NEW p \in Run, FinishAdopt(p) PROVE Inv'
<1>1. Goes(p, "adopt", {}) /\ mem[p].pc = "finish"
  BY Known, MemSteps DEF FinishAdopt, Label, Reconciled
<1>2. /\ Typed(p) /\ Told(disk[p].j) /\ Marked(disk[p].j)
      /\ Body(p) /\ Owning(p) /\ Stands(p) /\ lease = p
  BY <1>1, Known DEF Stands, Exclusive
<1>3. owner = p /\ lease = p /\ disk[p].transaction /\ disk[p].request
      /\ State(p) = "RECOVERY_DOWNLOAD" /\ Recorded(p, "rollback_flash_start") /\ RollbackDone(p)
  BY <1>1, <1>2 DEF FinishAdopt, Stands, Exclusive, Executing, Transferring, Ending, Recovering,
     Reconciled
<1>4. Keeps(p, {}) /\ Aside
  <2>1. disk' = [disk EXCEPT ![p] = [disk[p] EXCEPT !.rcls = COMPLETED]] /\ Aside
    BY DEF FinishAdopt, Write, Aside
  <2>2. disk \in [Run -> Disk] /\ COMPLETED \in Outcome
    BY Known DEF Outcome
  <2>3. QED
    BY <2>1, <2>2, FieldWrites
<1>5. Body(p)'
  BY <1>2, <1>4, BodyKept DEF Aside
<1>6. Owning(p)'
  BY <1>1, <1>2, <1>3, <1>4 DEF Owning, RollbackDone, Keeps, Goes, Aside, device
<1>7. Stands(p)'
  BY <1>1, <1>3, <1>4 DEF Stands, Exclusive, Executing, Transferring, Ending, Recovering, Keeps,
     Goes, Moves, Aside, ledger, device, Unconsumed, ConsumedKeys, RollbackDone
<1>8. QED
  BY <1>1, <1>2, <1>4, <1>5, <1>6, <1>7, WriteStep DEF Goes, Moves

\* The rollback is over.
LEMMA AdoptInv == ASSUME Inv, NEW p \in Run, Adopt(p) PROVE Inv'
<1>1. Goes(p, "finish", {}) /\ mem[p].pc = "adopt"
  BY Known, MemSteps DEF Adopt, Label
<1>2. /\ Typed(p) /\ Told(disk[p].j) /\ Marked(disk[p].j)
      /\ Body(p) /\ Owning(p) /\ Stands(p) /\ lease = p
  BY <1>1, Known DEF Stands, Exclusive
<1>3. owner = p /\ lease = p /\ disk[p].transaction /\ disk[p].request
      /\ State(p) = "RECOVERY_DOWNLOAD" /\ Recorded(p, "rollback_flash_start") /\ RollbackDone(p)
  BY <1>1, <1>2 DEF Adopt, Stands, Exclusive, Executing, Transferring, Ending, Recovering
<1>4. MayTurn(p, "ROLLBACK_FLASHED")
  <2>1. (Begun(p) => Count(p) = 5) /\ (~Begun(p) => Count(p) = 2)
    BY <1>2, <1>3, Clock
  <2>2. Pace("ROLLBACK_FLASHED", Begun(p), Count(p))
    BY <2>1 DEF Pace
  <2>3. QED
    BY <1>2, <1>3, <2>2 DEF MayTurn, Body, Numbered, Files, Typed
<1>5. ToState(p, "ROLLBACK_FLASHED")
  <2>1. /\ Log(p, To("ROLLBACK_FLASHED")) /\ "ROLLBACK_FLASHED" \in STATES
        /\ "ROLLBACK_FLASHED" \in NEXT_STATES[disk[p].j.state]
    BY <1>3, TransitionTable DEF Adopt, STATES
  <2>2. QED
    BY <1>2, <2>1, Known, LogTo
<1>6. Body(p)' /\ Owning(p)'
  BY <1>1, <1>2, <1>4, <1>5, TransitionBody DEF Goes
<1>7. Stands(p)'
  <2>1. /\ mem'[p].pc = "finish" /\ lease' = p /\ owner' = p /\ disk'[p].request
        /\ disk'[p].transaction /\ disk'[p].j.state = "ROLLBACK_FLASHED"
    BY <1>1, <1>3, <1>5 DEF Keeps, Goes, Moves, Aside, ledger, device, ToState
  <2>2. QED
    BY <2>1 DEF Stands, Exclusive, Executing, Transferring, Ending, Recovering
<1>8. QED
  BY <1>1, <1>2, <1>5, <1>6, <1>7, WriteStep DEF Goes, Moves, ToState

\* Another rollback attempt begins.
LEMMA FinishBeginInv == ASSUME Inv, NEW p \in Run, FinishBegin(p) PROVE Inv'
<1>1. Goes(p, "begin", {"kind"}) /\ mem[p].pc = "finish" /\ mem'[p].kind = "rollback"
  BY Known, MemSteps DEF FinishBegin, Label, Reconciled
<1>2. /\ Typed(p) /\ Told(disk[p].j) /\ Marked(disk[p].j)
      /\ Body(p) /\ Owning(p) /\ Stands(p) /\ lease = p
  BY <1>1, Known DEF Stands, Exclusive
<1>3. owner = p /\ lease = p /\ disk[p].transaction /\ disk[p].request
      /\ State(p) = "RECOVERY_DOWNLOAD" /\ Recorded(p, "rollback_flash_start")
      /\ disk[p].starts["rollback"] = disk[p].j.attempts["rollback"]
  BY <1>1, <1>2 DEF FinishBegin, Stands, Exclusive, Executing, Transferring, Ending, Recovering,
     Reconciled, Orphan, Body, Numbered, Ordered, Typed
<1>4. /\ Keeps(p, {}) /\ UNCHANGED <<lease, owner, ledger, image, tries, refused>>
      /\ mode' \in {"android", "download", "other"} /\ faults' \in 0..MaxFaults
  BY Known DEF FinishBegin, LocalStep, Keeps, TypeOK, device
<1>5. Stands(p)'
  BY <1>1, <1>3, <1>4 DEF Stands, Exclusive, Executing, Transferring, Ending, Recovering, Keeps,
     Goes, Moves, Aside, ledger, device, Unconsumed, ConsumedKeys
<1>6. QED
  BY <1>1, <1>2, <1>4, <1>5, QuietStep, Known DEF Label, TypeOK

\* The rollback cannot go on now.
LEMMA FinishStopsInv == ASSUME Inv, NEW p \in Run, FinishStops(p) PROVE Inv'
<1>2. lease = p
  BY Known DEF FinishStops, Stands, Exclusive, Reconciled
<1>3. Becomes(p, Idle) /\ lease' = None
  BY Known, MemSteps DEF FinishStops, Raise, Label, Reconciled
<1>4. /\ mode' \in {"android", "download", "other"} /\ faults' \in 0..MaxFaults
      /\ UNCHANGED <<disk, owner, ledger, image, tries, refused>>
  BY Known DEF FinishStops, Raise, TypeOK, device, Reconciled
<1>5. QED
  BY <1>2, <1>3, <1>4, Leaves

\* The end of the rollback is recorded.
LEMMA FinishFlashDoneInv == ASSUME Inv, NEW p \in Run, FinishFlashDone(p) PROVE Inv'
<1>1. Goes(p, "finish", {}) /\ mem[p].pc = "finish"
  BY Known DEF FinishFlashDone, Goes, Moves
<1>2. /\ Typed(p) /\ Told(disk[p].j) /\ Marked(disk[p].j)
      /\ Body(p) /\ Owning(p) /\ Stands(p) /\ lease = p
  BY <1>1, Known DEF Stands, Exclusive
<1>3. owner = p /\ lease = p /\ disk[p].transaction /\ disk[p].request
      /\ State(p) = "ROLLBACK_FLASHED" /\ ~Recorded(p, "rollback_flash_done")
  BY <1>1, <1>2 DEF FinishFlashDone, Stands, Exclusive, Executing, Transferring, Ending, Recovering
<1>4. Follows(disk[p].j.state, Has(disk[p].j, "candidate_flash_start"), Len(disk[p].j.events),
              "rollback_flash_done")
  <2>1. (Begun(p) => Count(p) = 5) /\ (~Begun(p) => Count(p) = 2)
    BY <1>2, <1>3, Clock
  <2>2. CASE Begun(p)
    BY <1>3, <2>1, <2>2 DEF Follows
  <2>3. CASE ~Begun(p)
    BY <1>3, <2>1, <2>3 DEF Follows
  <2>4. QED
    BY <2>2, <2>3
<1>5. WithEvent(p, "rollback_flash_done")
  <2>1. Log(p, Happened("rollback_flash_done"))
    BY <1>3 DEF FinishFlashDone
  <2>2. QED
    BY <1>2, <1>4, <2>1, Known, LogEvent
<1>6. Body(p)' /\ Owning(p)'
  BY <1>1, <1>2, <1>3, <1>4, <1>5, EventBody DEF Goes
<1>7. Stands(p)'
  <2>1. /\ mem'[p].pc = "finish" /\ lease' = p /\ owner' = p /\ disk'[p].request
        /\ disk'[p].transaction /\ disk'[p].j.state = "ROLLBACK_FLASHED"
    BY <1>1, <1>3, <1>5 DEF Keeps, Goes, Moves, Aside, ledger, device, WithEvent
  <2>2. QED
    BY <2>1 DEF Stands, Exclusive, Executing, Transferring, Ending, Recovering
<1>8. QED
  BY <1>1, <1>2, <1>5, <1>6, <1>7, WriteStep DEF Goes, Moves, WithEvent

----------------------------------------------------------------------------
(* Verification, the end of the run and its result.                        *)

\* The target is back in Android.
LEMMA VerifyPassedInv == ASSUME Inv, NEW p \in Run, Verify(p), mode = "android" PROVE Inv'
<1>1. Goes(p, "capture", {}) /\ mem[p].pc = "finish"
  BY Known, MemSteps DEF Verify, Label
<1>2. /\ Typed(p) /\ Told(disk[p].j) /\ Marked(disk[p].j)
      /\ Body(p) /\ Owning(p) /\ Stands(p) /\ lease = p
  BY <1>1, Known DEF Stands, Exclusive
<1>3. owner = p /\ lease = p /\ disk[p].transaction /\ disk[p].request
      /\ State(p) = "ROLLBACK_FLASHED" /\ Recorded(p, "rollback_flash_done")
  BY <1>1, <1>2 DEF Verify, Stands, Exclusive, Executing, Transferring, Ending, Recovering
<1>4. /\ Keeps(p, {}) /\ UNCHANGED <<lease, owner, ledger, image, tries, refused>>
      /\ mode' \in {"android", "download", "other"} /\ faults' \in 0..MaxFaults
  BY Known DEF Verify, LocalStep, Keeps, TypeOK, device
<1>5. Stands(p)'
  BY <1>1, <1>3, <1>4 DEF Stands, Exclusive, Executing, Transferring, Ending, Recovering, Keeps,
     Goes, Moves, Aside, ledger, device, Unconsumed, ConsumedKeys
<1>6. QED
  BY <1>1, <1>2, <1>4, <1>5, QuietStep, Known DEF Label, TypeOK

\* It is not.
LEMMA VerifyFailedInv == ASSUME Inv, NEW p \in Run, Verify(p), mode # "android" PROVE Inv'
<1>1. mem[p].pc = "finish"
  BY DEF Verify
<1>2. lease = p
  BY <1>1, Known DEF Stands, Exclusive
<1>3. Becomes(p, Idle) /\ lease' = None
  BY Known, MemSteps DEF Verify, Raise, Label
<1>4. /\ mode' \in {"android", "download", "other"} /\ faults' \in 0..MaxFaults
      /\ UNCHANGED <<disk, owner, ledger, image, tries, refused>>
  BY Known DEF Verify, Raise, TypeOK, device
<1>5. QED
  BY <1>2, <1>3, <1>4, Leaves

\* The first capture.
LEMMA CaptureInv == ASSUME Inv, NEW p \in Run, Capture(p) PROVE Inv'
<1>1. Goes(p, "recapture", {}) /\ mem[p].pc = "capture"
  BY Known, MemSteps DEF Capture, Label
<1>2. /\ Typed(p) /\ Told(disk[p].j) /\ Marked(disk[p].j)
      /\ Body(p) /\ Owning(p) /\ Stands(p) /\ lease = p
  BY <1>1, Known DEF Stands, Exclusive
<1>3. owner = p /\ lease = p /\ disk[p].transaction /\ disk[p].request
      /\ State(p) = "ROLLBACK_FLASHED" /\ Recorded(p, "rollback_flash_done")
  BY <1>1, <1>2 DEF Capture, Stands, Exclusive, Executing, Transferring, Ending, Recovering
<1>4. Keeps(p, {}) /\ Aside
  <2>1. disk' = [disk EXCEPT ![p] = [disk[p] EXCEPT !.captures = 1]] /\ Aside
    BY DEF Capture, Write, Aside
  <2>2. disk \in [Run -> Disk] /\ 1 \in 0..2
    BY Known
  <2>3. QED
    BY <2>1, <2>2, FieldWrites
<1>5. Body(p)'
  BY <1>2, <1>4, BodyKept DEF Aside
<1>6. Owning(p)'
  BY <1>1, <1>2, <1>3, <1>4 DEF Owning, RollbackDone, Keeps, Goes, Aside, device
<1>7. Stands(p)'
  BY <1>1, <1>3, <1>4 DEF Stands, Exclusive, Executing, Transferring, Ending, Recovering, Keeps,
     Goes, Moves, Aside, ledger, device, Unconsumed, ConsumedKeys
<1>8. QED
  BY <1>1, <1>2, <1>4, <1>5, <1>6, <1>7, WriteStep DEF Goes, Moves

\* A capture of an earlier call is in the way.
LEMMA CaptureExistsInv == ASSUME Inv, NEW p \in Run, CaptureExists(p) PROVE Inv'
<1>1. mem[p].pc = "capture"
  BY DEF CaptureExists
<1>2. lease = p
  BY <1>1, Known DEF Stands, Exclusive
<1>3. Becomes(p, Idle) /\ lease' = None
  BY Known, MemSteps DEF CaptureExists, Raise, Label
<1>4. /\ mode' \in {"android", "download", "other"} /\ faults' \in 0..MaxFaults
      /\ UNCHANGED <<disk, owner, ledger, image, tries, refused>>
  BY Known DEF CaptureExists, Raise, TypeOK, device
<1>5. QED
  BY <1>2, <1>3, <1>4, Leaves

\* The second capture.
LEMMA RecaptureInv == ASSUME Inv, NEW p \in Run, Recapture(p) PROVE Inv'
<1>1. Goes(p, "verified", {}) /\ mem[p].pc = "recapture"
  BY Known, MemSteps DEF Recapture, Label
<1>2. /\ Typed(p) /\ Told(disk[p].j) /\ Marked(disk[p].j)
      /\ Body(p) /\ Owning(p) /\ Stands(p) /\ lease = p
  BY <1>1, Known DEF Stands, Exclusive
<1>3. owner = p /\ lease = p /\ disk[p].transaction /\ disk[p].request
      /\ State(p) = "ROLLBACK_FLASHED" /\ Recorded(p, "rollback_flash_done")
  BY <1>1, <1>2 DEF Recapture, Stands, Exclusive, Executing, Transferring, Ending, Recovering
<1>4. Keeps(p, {}) /\ Aside
  <2>1. disk' = [disk EXCEPT ![p] = [disk[p] EXCEPT !.captures = 2]] /\ Aside
    BY DEF Recapture, Write, Aside
  <2>2. disk \in [Run -> Disk] /\ 2 \in 0..2
    BY Known
  <2>3. QED
    BY <2>1, <2>2, FieldWrites
<1>5. Body(p)'
  BY <1>2, <1>4, BodyKept DEF Aside
<1>6. Owning(p)'
  BY <1>1, <1>2, <1>3, <1>4 DEF Owning, RollbackDone, Keeps, Goes, Aside, device
<1>7. Stands(p)'
  BY <1>1, <1>3, <1>4 DEF Stands, Exclusive, Executing, Transferring, Ending, Recovering, Keeps,
     Goes, Moves, Aside, ledger, device, Unconsumed, ConsumedKeys
<1>8. QED
  BY <1>1, <1>2, <1>4, <1>5, <1>6, <1>7, WriteStep DEF Goes, Moves

\* The captures agree.
LEMMA VerifiedInv == ASSUME Inv, NEW p \in Run, Verified(p) PROVE Inv'
<1>1. Goes(p, "health", {}) /\ mem[p].pc = "verified"
  BY Known, MemSteps DEF Verified, Label
<1>2. /\ Typed(p) /\ Told(disk[p].j) /\ Marked(disk[p].j)
      /\ Body(p) /\ Owning(p) /\ Stands(p) /\ lease = p
  BY <1>1, Known DEF Stands, Exclusive
<1>3. owner = p /\ lease = p /\ disk[p].transaction /\ disk[p].request
      /\ State(p) = "ROLLBACK_FLASHED" /\ Recorded(p, "rollback_flash_done")
  BY <1>1, <1>2 DEF Verified, Stands, Exclusive, Executing, Transferring, Ending, Recovering
<1>4. Keeps(p, {}) /\ Aside
  BY Known, FieldWrites DEF Verified, Write, Aside
<1>5. Body(p)'
  BY <1>2, <1>4, BodyKept DEF Aside
<1>6. Owning(p)'
  BY <1>1, <1>2, <1>3, <1>4 DEF Owning, RollbackDone, Keeps, Goes, Aside, device
<1>7. Stands(p)'
  BY <1>1, <1>3, <1>4 DEF Stands, Exclusive, Executing, Transferring, Ending, Recovering, Keeps,
     Goes, Moves, Aside, ledger, device, Unconsumed, ConsumedKeys
<1>8. QED
  BY <1>1, <1>2, <1>4, <1>5, <1>6, <1>7, WriteStep DEF Goes, Moves

\* The target is healthy.
LEMMA HealthInv == ASSUME Inv, NEW p \in Run, Health(p) PROVE Inv'
<1>1. Goes(p, "finish", {}) /\ mem[p].pc = "health"
  BY Known, MemSteps DEF Health, Label
<1>2. /\ Typed(p) /\ Told(disk[p].j) /\ Marked(disk[p].j)
      /\ Body(p) /\ Owning(p) /\ Stands(p) /\ lease = p
  BY <1>1, Known DEF Stands, Exclusive
<1>3. owner = p /\ lease = p /\ disk[p].transaction /\ disk[p].request
      /\ State(p) = "ROLLBACK_FLASHED" /\ Recorded(p, "rollback_flash_done")
  BY <1>1, <1>2 DEF Health, Stands, Exclusive, Executing, Transferring, Ending, Recovering
<1>4. MayTurn(p, "HEALTH_VERIFIED")
  <2>1. (Begun(p) => Count(p) = 6) /\ (~Begun(p) => Count(p) = 3)
    BY <1>2, <1>3, Clock
  <2>2. Pace("HEALTH_VERIFIED", Begun(p), Count(p))
    BY <2>1 DEF Pace
  <2>3. RollbackDone(p)
    BY <1>2, <1>3 DEF Body, Numbered
  <2>4. QED
    BY <1>2, <1>3, <2>2, <2>3 DEF MayTurn, Body, Numbered, Files, Typed
<1>5. ToState(p, "HEALTH_VERIFIED")
  <2>1. /\ Log(p, To("HEALTH_VERIFIED")) /\ "HEALTH_VERIFIED" \in STATES
        /\ "HEALTH_VERIFIED" \in NEXT_STATES[disk[p].j.state]
    BY <1>3, TransitionTable DEF Health, STATES
  <2>2. QED
    BY <1>2, <2>1, Known, LogTo
<1>6. Body(p)' /\ Owning(p)'
  BY <1>1, <1>2, <1>4, <1>5, TransitionBody DEF Goes
<1>7. Stands(p)'
  <2>1. /\ mem'[p].pc = "finish" /\ lease' = p /\ owner' = p /\ disk'[p].request
        /\ disk'[p].transaction /\ disk'[p].j.state = "HEALTH_VERIFIED"
    BY <1>1, <1>3, <1>5 DEF Keeps, Goes, Moves, Aside, ledger, device, ToState
  <2>2. QED
    BY <2>1 DEF Stands, Exclusive, Executing, Transferring, Ending, Recovering
<1>8. QED
  BY <1>1, <1>2, <1>5, <1>6, <1>7, WriteStep DEF Goes, Moves, ToState

\* The boot after the rollback is recorded.
LEMMA FinishBootReadyInv == ASSUME Inv, NEW p \in Run, FinishEvents(p), ~Recorded(p, "rollback_boot_ready") PROVE Inv'
<1>1. Goes(p, "finish", {}) /\ mem[p].pc = "finish"
  BY Known DEF FinishEvents, Goes, Moves
<1>2. /\ Typed(p) /\ Told(disk[p].j) /\ Marked(disk[p].j)
      /\ Body(p) /\ Owning(p) /\ Stands(p) /\ lease = p
  BY <1>1, Known DEF Stands, Exclusive
<1>3. owner = p /\ lease = p /\ disk[p].transaction /\ disk[p].request
      /\ State(p) = "HEALTH_VERIFIED" /\ ~Recorded(p, "live_session_end")
      /\ ~Recorded(p, "rollback_boot_ready")
  BY <1>1, <1>2 DEF FinishEvents, Stands, Exclusive, Executing, Transferring, Ending, Recovering
<1>4. Follows(disk[p].j.state, Has(disk[p].j, "candidate_flash_start"), Len(disk[p].j.events),
              "rollback_boot_ready")
  <2>1. (Begun(p) => Count(p) = 6) /\ (~Begun(p) => Count(p) = 3)
    BY <1>2, <1>3, Clock
  <2>2. CASE Begun(p)
    BY <1>3, <2>1, <2>2 DEF Follows
  <2>3. CASE ~Begun(p)
    BY <1>3, <2>1, <2>3 DEF Follows
  <2>4. QED
    BY <2>2, <2>3
<1>5. WithEvent(p, "rollback_boot_ready")
  <2>1. Log(p, Happened("rollback_boot_ready"))
    BY <1>3 DEF FinishEvents
  <2>2. QED
    BY <1>2, <1>4, <2>1, Known, LogEvent
<1>6. Body(p)' /\ Owning(p)'
  BY <1>1, <1>2, <1>3, <1>4, <1>5, EventBody DEF Goes
<1>7. Stands(p)'
  <2>1. /\ mem'[p].pc = "finish" /\ lease' = p /\ owner' = p /\ disk'[p].request
        /\ disk'[p].transaction /\ disk'[p].j.state = "HEALTH_VERIFIED"
    BY <1>1, <1>3, <1>5 DEF Keeps, Goes, Moves, Aside, ledger, device, WithEvent
  <2>2. QED
    BY <2>1 DEF Stands, Exclusive, Executing, Transferring, Ending, Recovering
<1>8. QED
  BY <1>1, <1>2, <1>5, <1>6, <1>7, WriteStep DEF Goes, Moves, WithEvent

\* The end of the session is recorded.
LEMMA FinishSessionEndInv == ASSUME Inv, NEW p \in Run, FinishEvents(p), Recorded(p, "rollback_boot_ready") PROVE Inv'
<1>1. Goes(p, "finish", {}) /\ mem[p].pc = "finish"
  BY Known DEF FinishEvents, Goes, Moves
<1>2. /\ Typed(p) /\ Told(disk[p].j) /\ Marked(disk[p].j)
      /\ Body(p) /\ Owning(p) /\ Stands(p) /\ lease = p
  BY <1>1, Known DEF Stands, Exclusive
<1>3. owner = p /\ lease = p /\ disk[p].transaction /\ disk[p].request
      /\ State(p) = "HEALTH_VERIFIED" /\ ~Recorded(p, "live_session_end")
      /\ Recorded(p, "rollback_boot_ready")
  BY <1>1, <1>2 DEF FinishEvents, Stands, Exclusive, Executing, Transferring, Ending, Recovering
<1>4. Follows(disk[p].j.state, Has(disk[p].j, "candidate_flash_start"), Len(disk[p].j.events),
              "live_session_end")
  <2>1. (Begun(p) => Count(p) = 7) /\ (~Begun(p) => Count(p) = 4)
    BY <1>2, <1>3, Clock
  <2>2. CASE Begun(p)
    BY <1>3, <2>1, <2>2 DEF Follows
  <2>3. CASE ~Begun(p)
    BY <1>3, <2>1, <2>3 DEF Follows
  <2>4. QED
    BY <2>2, <2>3
<1>5. WithEvent(p, "live_session_end")
  <2>1. Log(p, Happened("live_session_end"))
    BY <1>3 DEF FinishEvents
  <2>2. QED
    BY <1>2, <1>4, <2>1, Known, LogEvent
<1>6. Body(p)' /\ Owning(p)'
  BY <1>1, <1>2, <1>3, <1>4, <1>5, EventBody DEF Goes
<1>7. Stands(p)'
  <2>1. /\ mem'[p].pc = "finish" /\ lease' = p /\ owner' = p /\ disk'[p].request
        /\ disk'[p].transaction /\ disk'[p].j.state = "HEALTH_VERIFIED"
    BY <1>1, <1>3, <1>5 DEF Keeps, Goes, Moves, Aside, ledger, device, WithEvent
  <2>2. QED
    BY <2>1 DEF Stands, Exclusive, Executing, Transferring, Ending, Recovering
<1>8. QED
  BY <1>1, <1>2, <1>5, <1>6, <1>7, WriteStep DEF Goes, Moves, WithEvent

\* The run is closed.
LEMMA CloseInv == ASSUME Inv, NEW p \in Run, Close(p) PROVE Inv'
<1>1. Goes(p, "publish", {"verdict"}) /\ mem[p].pc = "finish" /\ mem'[p].verdict = "closed"
  BY Known, MemSteps DEF Close, Label, Ended, Verdict
<1>2. /\ Typed(p) /\ Told(disk[p].j) /\ Marked(disk[p].j)
      /\ Body(p) /\ Owning(p) /\ Stands(p) /\ lease = p
  BY <1>1, Known DEF Stands, Exclusive
<1>3. owner = p /\ lease = p /\ disk[p].transaction /\ disk[p].request
      /\ State(p) = "HEALTH_VERIFIED" /\ Recorded(p, "live_session_end")
  BY <1>1, <1>2 DEF Close, Stands, Exclusive, Executing, Transferring, Ending, Recovering, Ended
<1>4. MayTurn(p, "CLOSED")
  <2>1. Pace("CLOSED", Begun(p), Count(p))
    BY DEF Pace
  <2>2. RollbackDone(p)
    BY <1>2, <1>3 DEF Body, Numbered
  <2>3. QED
    BY <1>2, <1>3, <2>1, <2>2 DEF MayTurn, Body, Numbered, Files, Typed
<1>5. ToState(p, "CLOSED")
  <2>1. /\ Log(p, To("CLOSED")) /\ "CLOSED" \in STATES
        /\ "CLOSED" \in NEXT_STATES[disk[p].j.state]
    BY <1>3, TransitionTable DEF Close, STATES
  <2>2. QED
    BY <1>2, <2>1, Known, LogTo
<1>6. Body(p)' /\ Owning(p)'
  BY <1>1, <1>2, <1>4, <1>5, TransitionBody DEF Goes
<1>7. Stands(p)'
  <2>1. /\ mem'[p].pc = "publish" /\ lease' = p /\ owner' = p /\ disk'[p].request
        /\ disk'[p].transaction /\ disk'[p].j.state = "CLOSED" /\ mem'[p].verdict = "closed"
    BY <1>1, <1>3, <1>5 DEF Keeps, Goes, Moves, Aside, ledger, device, ToState
  <2>2. QED
    BY <2>1 DEF Stands, Exclusive, Executing, Transferring, Ending, Recovering
<1>8. QED
  BY <1>1, <1>2, <1>5, <1>6, <1>7, WriteStep DEF Goes, Moves, ToState

\* Its observations do not fit together.
LEMMA CloseRefusedInv == ASSUME Inv, NEW p \in Run, CloseRefused(p) PROVE Inv'
<1>2. lease = p
  BY Known DEF CloseRefused, Stands, Exclusive, Ended
<1>3. Becomes(p, Idle) /\ lease' = None
  BY Known, MemSteps DEF CloseRefused, Raise, Label, Ended
<1>4. /\ mode' \in {"android", "download", "other"} /\ faults' \in 0..MaxFaults
      /\ UNCHANGED <<disk, owner, ledger, image, tries, refused>>
  BY Known DEF CloseRefused, Raise, TypeOK, device, Ended
<1>5. QED
  BY <1>2, <1>3, <1>4, Leaves

\* The result is validated and published.
LEMMA PublishInv == ASSUME Inv, NEW p \in Run, Publish(p) PROVE Inv'
<1>1. mem[p].pc = "publish"
  BY DEF Publish
<1>2. /\ Typed(p) /\ Body(p) /\ Owning(p) /\ Stands(p) /\ lease = p /\ mem[p].verdict \in Verdict
  BY <1>1, Known DEF Stands, Exclusive, Process
<1>3. CASE ~ValidResult(p)
  <2>1. Raise(p)
    BY <1>3 DEF Publish
  <2>2. Becomes(p, Idle) /\ lease' = None
    BY <2>1, Known, MemSteps DEF Raise, Label
  <2>3. /\ mode' \in {"android", "download", "other"} /\ faults' \in 0..MaxFaults
        /\ UNCHANGED <<disk, owner, ledger, image, tries, refused>>
    BY <2>1, Known DEF Raise, TypeOK, device
  <2>4. QED
    BY <1>2, <2>2, <2>3, Leaves
<1>4. CASE ValidResult(p)
  <2>1. Goes(p, "retire", {})
    BY <1>4, Known, MemSteps DEF Publish, Label
  <2>2. /\ mem[p].verdict \in {"pre_effect", "local_parse"} => State(p) = "ABORTED" /\ NoCandidateSession(p)
        /\ disk[p].transaction
    <3>1. mem[p].verdict \in {"pre_effect", "local_parse"} => State(p) = "ABORTED"
      BY <1>4 DEF ValidResult
    <3>2. QED
      BY <1>1, <1>2, <3>1 DEF Stands, Exclusive, Ending, NoCandidateSession
  <2>3. Keeps(p, {"live"}) /\ disk'[p].live = mem[p].verdict /\ Aside
    <3>1. disk' = [disk EXCEPT ![p] = [disk[p] EXCEPT !.live = mem[p].verdict]] /\ Aside
      BY <1>4 DEF Publish, Write, Aside
    <3>2. QED
      BY <1>2, <3>1, Known, FieldWrites
  <2>4. Chain(p)' /\ Numbered(p)'
    BY <1>2, <2>3, ChainKept DEF Aside
  <2>5. Files(p)' /\ Claimed(p)'
    <3>1. NoCandidateSession(p)' <=> NoCandidateSession(p)
      BY <2>3 DEF NoCandidateSession, Aside, ledger, device
    <3>2. QED
      BY <1>2, <2>2, <2>3, <3>1 DEF Body, Files, Claimed, Keeps, Aside, ledger
  <2>6. Owning(p)'
    BY <1>2, <2>1, <2>3 DEF Owning, RollbackDone, Keeps, Goes, Aside, device
  <2>7. Stands(p)'
    <3>1. /\ mem'[p].pc = "retire" /\ mem'[p].verdict = mem[p].verdict /\ lease' = p
          /\ disk'[p].transaction /\ NoCandidateSession(p)' = NoCandidateSession(p)
      BY <1>2, <2>1, <2>2, <2>3 DEF Goes, Moves, Keeps, Aside, ledger, device, NoCandidateSession
    <3>2. QED
      BY <2>2, <3>1 DEF Stands, Exclusive, Executing, Transferring, Ending, Recovering
  <2>8. QED
    BY <1>2, <2>1, <2>3, <2>4, <2>5, <2>6, <2>7, WriteStep DEF Body, Goes, Moves
<1>5. QED
  BY <1>3, <1>4

\* The owner file is removed for a run whose image is the stock one again.
LEMMA RetireInv == ASSUME Inv, NEW p \in Run, Retire(p) PROVE Inv'
<1>1. /\ mem[p].pc = "retire" /\ Becomes(p, Idle) /\ lease' = None
      /\ UNCHANGED <<disk, ledger, mode, image, faults, tries, refused>>
  BY Known, MemSteps DEF Retire, Label, device
<1>2. /\ Typed(p) /\ Body(p) /\ Owning(p) /\ Stands(p) /\ lease = p /\ TypeOK /\ None \notin Run
  BY <1>1, Known DEF Stands, Exclusive
<1>3. CASE ~(EndsOwnership(p) /\ owner = p)
  <2>1. owner' = owner
    BY <1>3 DEF Retire
  <2>2. QED
    BY <1>1, <1>2, <2>1, Leaves DEF TypeOK
<1>4. CASE EndsOwnership(p) /\ owner = p
  <2>1. owner' = None /\ owner = p
    BY <1>4 DEF Retire
  <2>2. image = "stock" /\ (State(p) = "CLOSED" \/ ~disk[p].request)
    BY <1>2, <1>4 DEF EndsOwnership, Body, Numbered, Owning
  <2>3. mem' \in [Run -> Process] /\ mem'[p] = Idle /\ mem'[p].pc = "idle"
        /\ \A q \in Run : q # p => mem'[q] = mem[q]
    BY <1>1, IdleFields DEF Becomes
  <2>4. Body(p)'
    <3>1. Keeps(p, {})
      BY <1>1, <1>2 DEF Keeps, TypeOK
    <3>2. QED
      BY <1>1, <1>2, <3>1, BodyKept
  <2>5. Owning(p)'
    BY <1>1, <1>2, <2>1, <2>2, <2>3 DEF Owning
  <2>6. Exclusive(p)' /\ Executing(p)' /\ Ending(p)' /\ Recovering(p)'
    BY <2>3 DEF Exclusive, Executing, Ending, Recovering
  <2>7. Transferring(p)'
    BY <2>3 DEF Transferring
  <2>8. Claims'
    BY <1>1, <2>1, <2>2 DEF Inv, Claims, ledger
  <2>9. TypeOK'
    BY <1>1, <1>2, <2>1, <2>3 DEF TypeOK, ledger
  <2>10. Local(p)'
    BY <2>4, <2>5, <2>6, <2>7 DEF Local, Body
  <2>11. QED
    BY <1>1, <1>2, <2>1, <2>3, <2>8, <2>9, <2>10, Inductive2 DEF ledger
<1>5. QED
  BY <1>3, <1>4

\* An interruption.
LEMMA InterruptInv == ASSUME Inv, NEW p \in Run, Interrupt(p) PROVE Inv'
<1>1. lease = p
  BY Known DEF Interrupt, Stands, Exclusive
<1>2. Becomes(p, Idle) /\ lease' = None
  BY Known, MemSteps DEF Interrupt, Label
<1>3. /\ mode' \in {"android", "download", "other"} /\ faults' \in 0..MaxFaults
      /\ UNCHANGED <<disk, owner, ledger, image, tries, refused>>
  BY Known, RunAssumption DEF Interrupt, TypeOK, device
<1>4. QED
  BY <1>1, <1>2, <1>3, Leaves

\* The mode of the device is not part of what the invariant says.
LEMMA ModeStep ==
    ASSUME Inv, mode' \in {"android", "download", "other"}, faults' \in 0..MaxFaults,
           UNCHANGED <<disk, mem, lease, owner, ledger, image, tries, refused>>
    PROVE  Inv'
<1>1. TypeOK' /\ NeverRefused' /\ Claims'
  BY DEF Inv, TypeOK, NeverRefused, Claims, ForeignClaim, ledger
<1>2. ASSUME NEW q \in Run PROVE Local(q)'
  <2>1. Local(q)
    BY DEF Inv
  <2>2. Chain(q)' /\ Numbered(q)' /\ Files(q)'
    BY <2>1 DEF Local, Chain, Numbered, Ordered, Files, RollbackDone
  <2>3. Claimed(q)' /\ Owning(q)'
    BY <2>1 DEF Local, Claimed, Owning, RollbackDone, ledger, NoCandidateSession
  <2>4. Exclusive(q)' /\ Executing(q)'
    BY <2>1 DEF Local, Exclusive, Executing, Unconsumed, ConsumedKeys, ledger
  <2>5. Transferring(q)'
    BY <2>1 DEF Local, Transferring, RollbackDone, ledger
  <2>6. Ending(q)' /\ Recovering(q)'
    BY <2>1 DEF Local, Ending, Recovering, RollbackDone, ledger, NoCandidateSession
  <2>7. QED
    BY <2>2, <2>3, <2>4, <2>5, <2>6 DEF Local
<1>3. QED
  BY <1>1, <1>2 DEF Inv

----------------------------------------------------------------------------
(* The invariant is inductive.                                             *)

\* The directory of a run that was prepared and not executed.
LEMMA FreshFields ==
    /\ FreshDisk \in Disk
    /\ FreshDisk.j = Blank /\ ~FreshDisk.transaction /\ ~FreshDisk.request /\ ~FreshDisk.claimIntent
    /\ ~FreshDisk.claimReceipt /\ FreshDisk.cls = "not-attempted" /\ FreshDisk.cut = "none"
    /\ FreshDisk.live = "none"
    /\ \A k \in Kind : FreshDisk.starts[k] = 0 /\ \A n \in 1..2 : FreshDisk.result[k][n] = "none"
<1>1. Blank \in Summary
  BY DEF Blank, Summary, STATES, CHECKPOINT_STATE, EVENT_STATE, MAX_TRANSFER_ATTEMPTS
<1> DEFINE s == [k \in Kind |-> 0]
           r == [k \in Kind |-> [n \in 1..MAX_ATTEMPTS |-> "none"]]
<1>2. /\ s \in [Kind -> 0..MAX_ATTEMPTS] /\ r \in [Kind -> [1..MAX_ATTEMPTS -> Outcome \cup {"none"}]]
      /\ \A k \in Kind : s[k] = 0 /\ \A n \in 1..2 : r[k][n] = "none"
  BY DEF MAX_ATTEMPTS, MAX_TRANSFER_ATTEMPTS
<1>3. FreshDisk = [transaction |-> FALSE, j |-> Blank, preflights |-> 0, request |-> FALSE,
                   claimIntent |-> FALSE, claimReceipt |-> FALSE, releaseReceipt |-> "none",
                   starts |-> s, result |-> r, cls |-> "not-attempted", rcls |-> "none",
                   cut |-> "none", accepted |-> FALSE, captures |-> 0, verified |-> FALSE,
                   live |-> "none"]
  BY DEF FreshDisk
<1> HIDE DEF s, r
<1>4. FreshDisk \in Disk
  BY <1>1, <1>2, <1>3 DEF Disk, Verdict, MAX_ATTEMPTS, MAX_TRANSFER_ATTEMPTS
<1>5. /\ FreshDisk.j = Blank /\ ~FreshDisk.transaction /\ ~FreshDisk.request
      /\ ~FreshDisk.claimIntent /\ ~FreshDisk.claimReceipt /\ FreshDisk.cls = "not-attempted"
      /\ FreshDisk.cut = "none" /\ FreshDisk.live = "none" /\ FreshDisk.starts = s
      /\ FreshDisk.result = r
  BY <1>3
<1>6. QED
  BY <1>2, <1>4, <1>5

\* Initially the invariant holds.
LEMMA InitInv == Init => Inv
<1> SUFFICES ASSUME Init PROVE Inv
  OBVIOUS
<1>1. /\ lease = None /\ owner = None /\ image = "stock" /\ mode = "android" /\ faults = 0
      /\ active = {} /\ granted = {} /\ failures = {} /\ sessions = {} /\ refused = {}
      /\ \A p \in Run : disk[p] = FreshDisk /\ mem[p] = Idle
      /\ \A p \in Run : tries[p]["candidate"] = 0 /\ tries[p]["rollback"] = 0
  BY DEF Init
<1>2. TypeOK
  <2>1. disk \in [Run -> Disk]
    BY FreshFields DEF Init
  <2>2. mem \in [Run -> Process]
    BY IdleFields DEF Init
  <2>3. tries \in [Run -> [Kind -> 0..MAX_ATTEMPTS]]
    BY DEF Init, MAX_ATTEMPTS, MAX_TRANSFER_ATTEMPTS
  <2>4. QED
    BY <1>1, <2>1, <2>2, <2>3, RunAssumption DEF TypeOK
<1>3. NeverRefused /\ Claims
  BY <1>1 DEF NeverRefused, Claims
<1>4. ASSUME NEW p \in Run PROVE Local(p)
  <2>1. /\ disk[p].j.state = "NONE" /\ disk[p].j.events = << >>
        /\ disk[p].j.attempts["candidate"] = 0 /\ disk[p].j.attempts["rollback"] = 0
    BY <1>1, FreshFields DEF Blank, CHECKPOINT_STATE
  <2>2. /\ ~disk[p].transaction /\ ~disk[p].request /\ ~disk[p].claimIntent
        /\ ~disk[p].claimReceipt /\ disk[p].cls = "not-attempted" /\ disk[p].cut = "none"
        /\ disk[p].live = "none" /\ disk[p].starts["candidate"] = 0
        /\ disk[p].starts["rollback"] = 0
        /\ \A n \in 1..2 : disk[p].result["candidate"][n] = "none" /\ disk[p].result["rollback"][n] = "none"
    BY <1>1, FreshFields
  <2>3. mem[p] = Idle /\ mem[p].pc = "idle"
    BY <1>1, IdleFields
  <2>4. Len(disk[p].j.events) = 0
    BY <2>1
  <2>5. \A e : ~Has(disk[p].j, e)
    BY <2>4 DEF Has
  <2>6. Chain(p)
    BY <2>1, <2>4, <2>5 DEF Chain, Told, Pace
  <2>7. Numbered(p)
    BY <1>1, <2>1, <2>2, <2>5 DEF Numbered, Ordered, MAX_ATTEMPTS, MAX_TRANSFER_ATTEMPTS
  <2>8. Files(p) /\ Claimed(p)
    <3>1. disk[p].result["candidate"][1] = "none"
      BY <2>2
    <3>2. QED
      BY <1>1, <2>1, <2>2, <3>1 DEF Files, Claimed, LOCAL_PARSE
  <2>9. Owning(p)
    BY <1>1, <2>2, <2>3, RunAssumption DEF Owning
  <2>10. Exclusive(p) /\ Executing(p) /\ Transferring(p) /\ Ending(p) /\ Recovering(p)
    BY <2>3 DEF Exclusive, Executing, Transferring, Ending, Recovering
  <2>11. QED
    BY <2>6, <2>7, <2>8, <2>9, <2>10 DEF Local
<1>5. QED
  BY <1>2, <1>3, <1>4 DEF Inv

\* The execution keeps the invariant.
LEMMA ExecuteStepInv == ASSUME Inv, NEW p \in Run, ExecuteStep(p) PROVE Inv'
  BY RecheckInv, PreflightInv, SessionStartInv, ApproveInv, ArmInv, ArmFailedInv, BeginOwnerInv,
     RequestIntentInv, RequestDownloadInv, RequestFailsInv, WaitCandidateInv, WaitCandidateFailsInv,
     IdentifyInv, ClaimIntentInv, ClaimCandidateInv, ClaimReceiptInv DEF ExecuteStep

\* A transfer attempt and what follows it keep the invariant.
LEMMA TransferStepInv == ASSUME Inv, NEW p \in Run, TransferStep(p) PROVE Inv'
  BY BeginAttemptInv, CheckpointInv, FlashStartInv, TransferInv, StoreResultInv, SaveCandidateInv,
     SaveRollbackInv, ReleaseInv, ReleaseReceiptInv, ReleaseReceiptDiffersInv, AbortInv,
     AdvanceStartInv, AdvanceClassifyInv, AdvanceFlashedInv, AdvanceDoneInv, ObserveInv, ObservedInv,
     AdvanceBootReadyInv, AdvanceToRollbackInv DEF TransferStep

\* Recovery keeps the invariant.
LEMMA RecoverStepInv == ASSUME Inv, NEW p \in Run, RecoverStep(p) PROVE Inv'
  BY CutNormalizeInv, CutStaysParkedInv, CutResumesInv, CutWaitInv, CutExactInv, ParkInv,
     RevalidationParkInv, NormalizeParsedInv, NormalizeOtherInv, RepairOrphanInv, RepairedInv
     DEF RecoverStep

\* The rollback and the end of the run keep the invariant.
LEMMA FinishStepInv == ASSUME Inv, NEW p \in Run, FinishStep(p) PROVE Inv'
<1>1. Verify(p) => Inv'
  BY VerifyPassedInv, VerifyFailedInv
<1>2. FinishEvents(p) => Inv'
  BY FinishBootReadyInv, FinishSessionEndInv
<1>3. QED
  BY <1>1, <1>2, FinishIdentifyInv, FinishFlashStartInv, FinishRepairInv, FinishAdoptInv, AdoptInv,
     FinishBeginInv, FinishStopsInv, FinishFlashDoneInv, CaptureInv, CaptureExistsInv, RecaptureInv,
     VerifiedInv, HealthInv, CloseInv, CloseRefusedInv, PublishInv, RetireInv DEF FinishStep

\* Every step keeps the invariant.
LEMMA NextInv == Inv /\ [Next]_vars => Inv'
<1> SUFFICES ASSUME Inv, [Next]_vars PROVE Inv'
  OBVIOUS
<1>1. ASSUME NEW p \in Run, Execute(p) \/ Recover(p) \/ ProcessStep(p) \/ Fault(p) PROVE Inv'
  BY <1>1, ExecuteInv, RecoverInv, ExecuteStepInv, TransferStepInv, RecoverStepInv, FinishStepInv,
     InterruptInv, ReleaseFailsInv, CutRegistryFailsInv DEF ProcessStep, Fault
<1>2. TypeOK
  BY DEF Inv
<1>3. CASE Reboot
  <2>1. mode' \in {"android", "download", "other"} /\ faults' \in 0..MaxFaults
        /\ UNCHANGED <<disk, mem, lease, owner, ledger, image, tries, refused>>
    BY <1>2, <1>3, RunAssumption DEF Reboot, TypeOK
  <2>2. QED
    BY <2>1, ModeStep
<1>4. CASE EnterDownload
  <2>1. mode' \in {"android", "download", "other"} /\ faults' \in 0..MaxFaults
        /\ UNCHANGED <<disk, mem, lease, owner, ledger, image, tries, refused>>
    BY <1>2, <1>4 DEF EnterDownload, TypeOK
  <2>2. QED
    BY <2>1, ModeStep
<1>5. CASE UNCHANGED vars
  <2>1. mode' \in {"android", "download", "other"} /\ faults' \in 0..MaxFaults
        /\ UNCHANGED <<disk, mem, lease, owner, ledger, image, tries, refused>>
    BY <1>2, <1>5 DEF vars, device, TypeOK
  <2>2. QED
    BY <2>1, ModeStep
<1>6. QED
  BY <1>1, <1>3, <1>4, <1>5 DEF Next

\* The invariant holds in every reachable state.
THEOREM RunInvariant == Spec => []Inv
  BY InitInv, NextInv, PTL DEF Spec

----------------------------------------------------------------------------
(* What the runs check, for every set of runs and any number of faults.    *)

\* The state of the runs has its type.
THEOREM RunTypes == Spec => []TypeOK
<1>1. Inv => TypeOK
  BY DEF Inv
<1>2. QED
  BY <1>1, RunInvariant, PTL

\* A run transfers its candidate at most once, however often it is interrupted
\* and recovered, and no two runs open a device session for one candidate
\* (_begin_transfer_attempt, _normalize_recovery, the candidate claim).
THEOREM RunCandidateOnce == Spec => []CandidateOnce
<1>1. Inv => CandidateOnce
  <2> SUFFICES ASSUME Inv, NEW p \in Run PROVE
        /\ tries[p]["candidate"] <= 1
        /\ \A q \in Run : {p, q} \subseteq sessions /\ CandOf[p] = CandOf[q] => p = q
    BY DEF CandidateOnce
  <2>1. tries[p]["candidate"] <= 1
    <3>1. tries[p]["candidate"] \in 0..2 /\ disk[p].starts["candidate"] \in 0..2
          /\ disk[p].j.attempts["candidate"] \in 0..2
      BY Known DEF Typed
    <3>2. QED
      BY <3>1, Known DEF Body, Numbered, Ordered
  <2>2. \A q \in Run : q \in sessions => q \in active
    BY Known DEF Body, Claimed
  <2>3. QED
    BY <2>1, <2>2 DEF Inv, Claims
<1>2. QED
  BY <1>1, RunInvariant, PTL

\* Every transfer that reached the device has its checkpoint in the journal
\* (_begin_transfer_attempt, Journal.checkpoint).
THEOREM RunTransfersRecorded == Spec => []TransfersRecorded
<1>1. Inv => TransfersRecorded
  <2> SUFFICES ASSUME Inv, NEW p \in Run PROVE
        /\ tries[p]["candidate"] <= disk[p].j.attempts["candidate"]
        /\ tries[p]["rollback"] <= disk[p].j.attempts["rollback"]
    BY DEF TransfersRecorded
  <2>1. QED
    BY Known DEF Body, Numbered, Ordered
<1>2. QED
  BY <1>1, RunInvariant, PTL

\* Odin is started only under the lease, the owner file, a checkpointed attempt
\* and, for a candidate, its claim; and no owner meets a claim of another run
\* (_execute_prepared_locked, _recover_prepared_locked).
THEOREM RunEffectsOwned == Spec => []EffectsOwned
<1>1. Inv => EffectsOwned
  <2> SUFFICES ASSUME Inv PROVE EffectsOwned
    OBVIOUS
  <2>1. ASSUME NEW p \in Run, At(p, "transfer")
        PROVE  /\ lease = p /\ owner = p /\ ~Orphan(p, mem[p].kind)
               /\ mem[p].kind = "candidate" => p \in active \cap granted
    <3>1. Typed(p) /\ Body(p) /\ Stands(p)
      BY Known
    <3>2. lease = p /\ owner = p
      BY <2>1, <3>1 DEF Stands, Exclusive
    <3>3. ~Orphan(p, mem[p].kind)
      BY <2>1, <3>1 DEF Stands, Transferring, Orphan, Typed
    <3>4. mem[p].kind = "candidate" => p \in active \cap granted
      BY <2>1, <3>1 DEF Stands, Transferring, Body, Claimed
    <3>5. QED
      BY <3>2, <3>3, <3>4
  <2>2. owner # None => ~ForeignClaim(owner)
    BY DEF Inv, Claims
  <2>3. QED
    BY <2>1, <2>2 DEF EffectsOwned
<1>2. QED
  BY <1>1, RunInvariant, PTL

\* A target nobody owns, or whose owner has verified its health, carries the
\* stock image (_finish_rollback, verify_final, _result, retire_f1_owner).
THEOREM RunTargetReturned == Spec => []TargetReturned
<1>1. Inv => TargetReturned
  <2> SUFFICES ASSUME Inv, owner = None \/ State(owner) \in {"HEALTH_VERIFIED", "CLOSED"}
               PROVE  image = "stock"
    BY DEF TargetReturned
  <2>1. CASE owner = None
    BY <2>1 DEF Inv, Claims
  <2>2. CASE owner # None
    <3>1. owner \in Run
      BY <2>2 DEF Inv, TypeOK
    <3>2. Body(owner) /\ Owning(owner)
      BY <3>1, Known
    <3>3. RollbackDone(owner)
      BY <2>2, <3>2 DEF Body, Numbered
    <3>4. QED
      BY <3>2, <3>3 DEF Owning
  <2>3. QED
    BY <2>1, <2>2
<1>2. QED
  BY <1>1, RunInvariant, PTL

\* No append of the execution or the recovery is refused by the journal
\* (Journal._append).
THEOREM RunNeverRefused == Spec => []NeverRefused
<1>1. Inv => NeverRefused
  BY DEF Inv
<1>2. QED
  BY <1>1, RunInvariant, PTL

\* Recovery never finds a claim without a start file (_normalize_recovery).
THEOREM RunNoInventedAttempt == Spec => []NoInventedAttempt
<1>1. Inv => NoInventedAttempt
  <2> SUFFICES ASSUME Inv, NEW p \in Run, At(p, "repair"), disk[p].starts["candidate"] = 0
               PROVE  p \notin active /\ ~disk[p].claimReceipt /\ ~disk[p].claimIntent
    BY DEF NoInventedAttempt
  <2>1. Body(p) /\ Stands(p)
    BY Known
  <2>2. ~disk[p].request
    BY <2>1 DEF Stands, Recovering
  <2>3. QED
    BY <2>1, <2>2 DEF Body, Files, Claimed
<1>2. QED
  BY <1>1, RunInvariant, PTL

\* A result that denies a candidate session (_result, validate_live_result) is
\* published only when Odin was never started for the run, or when its one
\* candidate transfer failed to parse its arguments.  A rollback made before such
\* a result is not excluded.
THEOREM RunPreEffectHonest == Spec => []PreEffectHonest
<1>1. Inv => PreEffectHonest
  BY Known DEF PreEffectHonest, Body, Claimed
<1>2. QED
  BY <1>1, RunInvariant, PTL

----------------------------------------------------------------------------
(* The caller's half of the registry contract.                             *)

\* A claim is appended by a run that has no receipt yet.
LEMMA ClaimAppends == ASSUME Inv, NEW p \in Run, ClaimCandidate(p) PROVE [Ledger!Next]_Ledger!vars
<1>1. Body(p) /\ Stands(p) /\ mem[p].pc = "claim"
  BY Known DEF ClaimCandidate
<1>2. p \notin granted
  BY <1>1 DEF Body, Claimed, Stands, Executing
<1>3. CASE CandOf[p] \in ConsumedKeys
  BY <1>3 DEF ClaimCandidate, Ledger!vars
<1>4. CASE CandOf[p] \notin ConsumedKeys
  <2>1. Ledger!Append(p)
    BY <1>2, <1>4 DEF ClaimCandidate, ConsumedKeys, Ledger!Append
  <2>2. QED
    BY <2>1 DEF Ledger!Next
<1>5. QED
  BY <1>3, <1>4

\* Its receipt is persisted while it is active.
LEMMA ReceiptGrants == ASSUME Inv, NEW p \in Run, ClaimReceipt(p) PROVE [Ledger!Next]_Ledger!vars
<1>1. Stands(p) /\ mem[p].pc = "claim_receipt"
  BY Known DEF ClaimReceipt
<1>2. Ledger!Grant(p)
  BY <1>1 DEF Stands, Executing, ClaimReceipt, Ledger!Grant
<1>3. QED
  BY <1>2 DEF Ledger!Next

\* A candidate is transferred once, under a granted claim.
LEMMA TransferSpends ==
    ASSUME Inv, NEW p \in Run, NEW outcome \in Outcome, Transfer(p, outcome)
    PROVE  [Ledger!Next]_Ledger!vars
<1>1. Typed(p) /\ Body(p) /\ Stands(p) /\ mem[p].pc = "transfer"
  BY Known DEF Transfer
<1>2. CASE mem[p].kind # "candidate"
  BY <1>2 DEF Transfer, Ledger!vars
<1>3. CASE mem[p].kind = "candidate"
  <2>1. disk[p].claimReceipt /\ tries[p]["candidate"] = 0
    BY <1>1, <1>3 DEF Stands, Transferring
  <2>2. p \in granted \ (failures \cup sessions)
    BY <1>1, <2>1 DEF Body, Claimed
  <2>3. Ledger!Transfer(p)
    BY <1>3, <2>2 DEF Transfer, Ledger!Transfer
  <2>4. QED
    BY <2>3 DEF Ledger!Next
<1>4. QED
  BY <1>2, <1>3

\* Only what failed to parse is released.
LEMMA ReleaseReleases == ASSUME Inv, NEW p \in Run, Release(p) PROVE [Ledger!Next]_Ledger!vars
<1>1. p \in failures
  BY Known DEF Release, Stands, Ending
<1>2. CASE p \in active
  <2>1. Ledger!Release(p)
    BY <1>1, <1>2 DEF Release, Ledger!Release
  <2>2. QED
    BY <2>1 DEF Ledger!Next
<1>3. CASE p \notin active
  BY <1>3 DEF Release, Ledger!vars
<1>4. QED
  BY <1>2, <1>3

\* Every other step of a run leaves the ledger alone.
LEMMA LedgerKept ==
    ASSUME NEW p \in Run,
           Execute(p) \/ Recover(p) \/ ProcessStep(p) \/ Fault(p),
           ~ClaimCandidate(p), ~ClaimReceipt(p), ~Release(p),
           \A outcome \in Outcome : ~Transfer(p, outcome)
    PROVE  ledger' = ledger
<1>1. CASE Execute(p) \/ Recover(p) \/ Interrupt(p) \/ ReleaseFails(p) \/ CutRegistryFails(p)
  BY <1>1 DEF Execute, Recover, Interrupt, ReleaseFails, CutRegistryFails, Log, Write, LocalStep,
     Raise, ledger
<1>2. CASE Recheck(p) \/ Preflight(p) \/ SessionStart(p) \/ Approve(p) \/ Arm(p) \/ ArmFailed(p) \/
          BeginOwner(p) \/ RequestIntent(p) \/ RequestDownload(p) \/ RequestFails(p) \/
          WaitCandidate(p) \/ WaitCandidateFails(p) \/ Identify(p) \/ ClaimIntent(p)
  BY <1>2 DEF Recheck, Preflight, SessionStart, Approve, Arm, ArmFailed, BeginOwner, RequestIntent,
     RequestDownload, RequestFails, WaitCandidate, WaitCandidateFails, Identify, ClaimIntent, Log,
     Write, LocalStep, Raise, ledger
<1>3. CASE BeginAttempt(p) \/ Checkpoint(p) \/ FlashStart(p) \/ StoreResult(p) \/
          SaveCandidate(p) \/ SaveRollback(p) \/ ReleaseReceipt(p) \/ ReleaseReceiptDiffers(p) \/
          Abort(p)
  BY <1>3 DEF BeginAttempt, Checkpoint, FlashStart, StoreResult, SaveCandidate, SaveRollback,
     ReleaseReceipt, ReleaseReceiptDiffers, Abort, Log, Write, LocalStep, Raise, ledger
<1>4. CASE AdvanceStart(p) \/ AdvanceClassify(p) \/ AdvanceFlashed(p) \/ AdvanceDone(p) \/
          Observe(p) \/ Observed(p) \/ AdvanceBootReady(p) \/ AdvanceToRollback(p)
  BY <1>4 DEF AdvanceStart, AdvanceClassify, AdvanceFlashed, AdvanceDone, Observe, Observed,
     AdvanceBootReady, AdvanceToRollback, Log, Write, LocalStep, Raise, ledger
<1>5. CASE CutNormalize(p) \/ CutStaysParked(p) \/ CutResumes(p) \/ CutWait(p) \/ CutExact(p) \/
          Park(p) \/ RevalidationPark(p) \/ NormalizeParsed(p) \/ NormalizeOther(p) \/
          RepairOrphan(p) \/ Repaired(p)
  BY <1>5 DEF CutNormalize, CutStaysParked, CutResumes, CutWait, CutExact, Park, RevalidationPark,
     NormalizeParsed, NormalizeOther, RepairOrphan, Repaired, Log, Write, LocalStep, Raise, ledger
<1>6. CASE FinishIdentify(p) \/ FinishFlashStart(p) \/ FinishRepair(p) \/ FinishAdopt(p) \/
          Adopt(p) \/ FinishBegin(p) \/ FinishStops(p) \/ FinishFlashDone(p) \/ Verify(p)
  BY <1>6 DEF FinishIdentify, FinishFlashStart, FinishRepair, FinishAdopt, Adopt, FinishBegin,
     FinishStops, FinishFlashDone, Verify, Log, Write, LocalStep, Raise, ledger
<1>7. CASE Capture(p) \/ CaptureExists(p) \/ Recapture(p) \/ Verified(p) \/ Health(p) \/
          FinishEvents(p) \/ Close(p) \/ CloseRefused(p) \/ Publish(p) \/ Retire(p)
  BY <1>7 DEF Capture, CaptureExists, Recapture, Verified, Health, FinishEvents, Close,
     CloseRefused, Publish, Retire, Log, Write, LocalStep, Raise, ledger
<1>8. QED
  BY <1>1, <1>2, <1>3, <1>4, <1>5, <1>6, <1>7 DEF ProcessStep, Fault, ExecuteStep, TransferStep,
     RecoverStep, FinishStep

\* A run claims before it transfers, releases only what failed to parse, and
\* never opens a second session for a candidate: execution and recovery
\* implement the abstract ledger (the registry's callers in
\* device_action_f1_live_v2.py).
THEOREM RunImplementsLedger == Spec => ImplementsLedger
<1>1. Init => Ledger!Init
  BY DEF Init, Ledger!Init
<1>2. Inv /\ [Next]_vars => [Ledger!Next]_Ledger!vars
  <2> SUFFICES ASSUME Inv, [Next]_vars PROVE [Ledger!Next]_Ledger!vars
    OBVIOUS
  <2>1. ASSUME NEW p \in Run, Execute(p) \/ Recover(p) \/ ProcessStep(p) \/ Fault(p)
        PROVE  [Ledger!Next]_Ledger!vars
    <3>1. CASE ClaimCandidate(p) \/ ClaimReceipt(p) \/ Release(p)
      BY <3>1, ClaimAppends, ReceiptGrants, ReleaseReleases
    <3>2. CASE \E outcome \in Outcome : Transfer(p, outcome)
      BY <3>2, TransferSpends
    <3>3. CASE /\ ~(ClaimCandidate(p) \/ ClaimReceipt(p) \/ Release(p))
               /\ ~\E outcome \in Outcome : Transfer(p, outcome)
      <4>1. ledger' = ledger
        BY <2>1, <3>3, LedgerKept
      <4>2. QED
        BY <4>1 DEF ledger, Ledger!vars
    <3>4. QED
      BY <3>1, <3>2, <3>3
  <2>2. CASE Reboot \/ EnterDownload \/ UNCHANGED vars
    BY <2>2 DEF Reboot, EnterDownload, vars, ledger, Ledger!vars
  <2>3. QED
    BY <2>1, <2>2 DEF Next
<1>3. QED
  BY <1>1, <1>2, RunInvariant, PTL DEF Spec, ImplementsLedger, Ledger!Spec

=============================================================================
