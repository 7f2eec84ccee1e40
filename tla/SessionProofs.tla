--------------------------- MODULE SessionProofs ---------------------------
(***************************************************************************)
(* Proofs about AttendedSession, for any sets of grants, runs and          *)
(* experiments, any catalogs and budgets, and any number of faults: its    *)
(* types, OneAuthority, WithdrawnStops, InterruptionFinal and CatalogOrder. *)
(*                                                                         *)
(* One process at a time writes the files of a run, so the invariant says  *)
(* at each label what that process knows of its run and its grant          *)
(* (Position, Entitled, Publishing), and what the files of a run and the   *)
(* reservations of a grant say about each other once it is gone (Files,    *)
(* Authorized, Followed).                                                  *)
(***************************************************************************)
EXTENDS AttendedSession, FiniteSetTheorems, TLAPS

----------------------------------------------------------------------------
(* The inductive invariant.                                                *)

\* The labels that only an execution has.
Opening == {"publish", "sidecar", "start", "recheck", "approve", "arm", "effect",
            "abort", "own", "request"}

\* The labels of a process, and how far the journal of its run is there.
Position ==
    /\ At("idle") => proc = IdleProc
    /\ ~At("idle") => r_ \in Run /\ proc.mode \in {"execute", "recover"}
    /\ proc.pc \in Opening \cup {"except"} => proc.mode = "execute"
    /\ proc.pc \in {"before", "recover"} => proc.mode = "recover" /\ dir[r_].journal # "none"
    /\ proc.pc \in {"publish", "sidecar", "start", "before", "except", "finish", "close"}
          => g_ # None
    /\ proc.pc \in Opening => ~dir[r_].request
    /\ proc.pc \in {"publish", "sidecar", "start", "recheck"} => dir[r_].journal = "none"
    /\ proc.pc \in Opening \cup {"device"} => dir[r_].journal \notin Terminal
    /\ proc.pc \in {"approve", "arm", "effect", "abort", "own", "request", "device"}
          => dir[r_].journal # "none"

\* The result that the process is about to publish: it fits the journal, and
\* repeats a result that let a session go on.
Publishing ==
    At("result") =>
       /\ proc.kind \in ClosedKind => dir[r_].journal = "CLOSED"
       /\ proc.kind \in {"local_parse", "parse_recovered"} => dir[r_].journal = "ABORTED"
       /\ proc.kind = "pre_effect" => dir[r_].journal = "ABORTED" /\ ~dir[r_].request
       /\ Eligible(dir[r_].result) => proc.kind = dir[r_].result.kind

\* The files of a run directory agree.
Files(r) ==
    /\ dir[r].phases <= faults + 1
    /\ dir[r].journal \notin Terminal =>
          dir[r].phases <= faults /\ dir[r].result.kind \in {"none", "required"}
    /\ dir[r].journal = "none" => ~dir[r].request /\ dir[r].by = "none"
    /\ dir[r].result.kind \in ClosedKind => dir[r].journal = "CLOSED"
    /\ dir[r].result.kind = "pre_effect" => dir[r].journal = "ABORTED" /\ ~dir[r].request

\* The run of a process, and the reservation it works under.
Entitled ==
    /\ At("publish") => /\ Unreserved(r_) /\ dir[r_].auth = NoAuth
                        /\ Len(session[g_].reserved) < Budget[g_]
    /\ At("sidecar") => /\ dir[r_].auth = NoAuth
                        /\ Len(session[g_].reserved) \in Ordinals(g_)
                        /\ RunAt(g_, Len(session[g_].reserved)) = r_
    /\ proc.pc \notin {"idle", "publish", "sidecar"} =>
          /\ g_ = dir[r_].auth.grant
          /\ g_ = None => Unreserved(r_)

\* A sidecar names the reservation of its run, and a run that was executed
\* without one is reserved by nobody.
Authorized(r) ==
    /\ \/ dir[r].auth = NoAuth
       \/ /\ dir[r].auth.grant \in Grant
          /\ dir[r].auth.ordinal \in Ordinals(dir[r].auth.grant)
          /\ RunAt(dir[r].auth.grant, dir[r].auth.ordinal) = r
    /\ dir[r].auth = NoAuth /\ dir[r].journal # "none" => Unreserved(r)
    /\ dir[r].by = "token" => dir[r].auth = NoAuth
    /\ dir[r].by = "session" => dir[r].auth # NoAuth

ReservedOnce ==
    \A g, h \in Grant : \A i \in Ordinals(g), j \in Ordinals(h) :
       RunAt(g, i) = RunAt(h, j) => g = h /\ i = j

Shape == /\ TypeOK /\ Position /\ Publishing /\ Entitled /\ ReservedOnce
         /\ \A r \in Run : Files(r) /\ Authorized(r)

Dead(g) == session[g].closed \/ session[g].lapsed

\* A late run's grant is dead, and the process that passed the check had none.
LateInv ==
    /\ \A r \in late : dir[r].auth.grant \in Grant /\ Dead(dir[r].auth.grant)
    /\ proc.pc \in {"own", "request"} /\ g_ # None =>
          \A r \in late : dir[r].auth.grant # g_
    /\ WithdrawnStops

\* A broken grant is dead or has a run whose journal did not end: such a run
\* has no result that lets the session go on, and before_recovery closes the
\* grant before the journal may end.
BrokenInv ==
    /\ \A g \in broken : Dead(g) \/ \E i \in Ordinals(g) : dir[RunAt(g, i)].journal \notin Terminal
    /\ proc.pc \in Opening \cup {"device"} /\ proc.mode = "execute" => g_ \notin broken
    /\ proc.pc \notin {"idle", "before"} /\ proc.mode = "recover" /\ g_ # None =>
          session[g_].closed \/ dir[r_].journal \in Terminal

\* What the reservations before ordinal n leave for it: they let the session go
\* on, and every experiment before the next of the catalog was passed by one of
\* them.
Followed(g, n) ==
    /\ \A j \in 1..(n - 1) : Eligible(dir[RunAt(g, j)].result)
    /\ Index(g, n) \in 1..Len(Catalog[g])
    /\ \A m \in 1..(Index(g, n) - 1) : \E j \in 1..(n - 1) :
          /\ ManifestOf[RunAt(g, j)] = Catalog[g][m]
          /\ Successful(dir[RunAt(g, j)].result)

\* The run at ordinal n is due: it is the next experiment.
Due(g, r, n) == Followed(g, n) /\ ManifestOf[r] = Catalog[g][Index(g, n)]

OrderInv ==
    /\ \A g \in Grant : \A i \in Ordinals(g) : Due(g, RunAt(g, i), i)
    /\ \A g \in Grant, r \in Run, n \in 1..LIMIT :
          At("publish") /\ g_ = g /\ r_ = r /\ n = Len(session[g].reserved) + 1 => Due(g, r, n)

----------------------------------------------------------------------------
(* What the steps write.                                                   *)

\* Only PublishReservation adds a reservation, and nothing revives a grant.
Kept ==
    /\ session' \in [Grant -> GrantFiles]
    /\ \A g \in Grant : /\ session'[g].reserved = session[g].reserved
                        /\ session[g].closed => session'[g].closed
                        /\ session[g].lapsed => session'[g].lapsed

\* The files of a grant stay files of a grant.
LEMMA GrantUpdate ==
    ASSUME NEW s \in GrantFiles
    PROVE  /\ [s EXCEPT !.open = TRUE] \in GrantFiles
           /\ [s EXCEPT !.closed = TRUE] \in GrantFiles
           /\ [s EXCEPT !.lapsed = TRUE] \in GrantFiles
           /\ \A q \in Seq(Run) : [s EXCEPT !.reserved = q] \in GrantFiles
           /\ \A c \in [1..LIMIT -> Result] : [s EXCEPT !.completed = c] \in GrantFiles
  BY DEF GrantFiles

Replaces(g, s) ==
    /\ session' \in [Grant -> GrantFiles] /\ session'[g] = s
    /\ \A h \in Grant : h # g => session'[h] = session[h]

\* A step that replaces the files of one grant leaves the others alone.
LEMMA SessionUpdate ==
    ASSUME session \in [Grant -> GrantFiles], NEW g \in Grant, NEW s \in GrantFiles,
           session' = [session EXCEPT ![g] = s]
    PROVE  Replaces(g, s)
  BY DEF Replaces

\* Each step on a grant's flags keeps its reservations.
LEMMA FlagSteps ==
    ASSUME session \in [Grant -> GrantFiles], NEW g \in Grant
    PROVE  /\ session' = [session EXCEPT ![g].open = TRUE] => Kept
           /\ session' = Closed(g) => Kept /\ session'[g].closed
           /\ session' = [session EXCEPT ![g].lapsed = TRUE] => Kept
<1>1. session[g] \in GrantFiles
  OBVIOUS
<1>2. session' = [session EXCEPT ![g].open = TRUE]
         => Replaces(g, [session[g] EXCEPT !.open = TRUE])
  BY <1>1, GrantUpdate, SessionUpdate
<1>3. session' = [session EXCEPT ![g].lapsed = TRUE]
         => Replaces(g, [session[g] EXCEPT !.lapsed = TRUE])
  BY <1>1, GrantUpdate, SessionUpdate
<1>4. session' = Closed(g) => Replaces(g, [session[g] EXCEPT !.closed = TRUE])
  BY <1>1, GrantUpdate, SessionUpdate DEF Closed
<1>5. Replaces(g, [session[g] EXCEPT !.open = TRUE]) => Kept
  BY <1>1 DEF Replaces, Kept, GrantFiles
<1>6. Replaces(g, [session[g] EXCEPT !.lapsed = TRUE]) => Kept
  BY <1>1 DEF Replaces, Kept, GrantFiles
<1>7. Replaces(g, [session[g] EXCEPT !.closed = TRUE]) => Kept /\ session'[g].closed
  BY <1>1 DEF Replaces, Kept, GrantFiles
<1>8. QED
  BY <1>2, <1>3, <1>4, <1>5, <1>6, <1>7

\* A result recorded for a reservation leaves the reservations as they are.
LEMMA CompletedUpdate ==
    ASSUME session \in [Grant -> GrantFiles], NEW g \in Grant, NEW i \in 1..LIMIT,
           NEW res \in Result,
           session' = [session EXCEPT ![g].completed[i] = res]
    PROVE  Kept
<1> DEFINE c == [session[g].completed EXCEPT ![i] = res]
<1>1. session[g] \in GrantFiles
  OBVIOUS
<1>2. c \in [1..LIMIT -> Result]
  <2>1. session[g].completed \in [1..LIMIT -> Result]
    BY <1>1 DEF GrantFiles
  <2>2. QED
    BY <2>1
<1>3. session' = [session EXCEPT ![g] = [session[g] EXCEPT !.completed = c]]
  OBVIOUS
<1> HIDE DEF c
<1>4. Replaces(g, [session[g] EXCEPT !.completed = c])
  BY <1>1, <1>2, <1>3, GrantUpdate, SessionUpdate
<1>5. QED
  BY <1>1, <1>4 DEF Replaces, Kept, GrantFiles

Adds(g, r) ==
    /\ session' \in [Grant -> GrantFiles]
    /\ session'[g].reserved = Append(session[g].reserved, r)
    /\ session'[g].closed = session[g].closed /\ session'[g].lapsed = session[g].lapsed
    /\ \A h \in Grant : h # g => session'[h] = session[h]

\* PublishReservation adds the run at the next ordinal of its grant.
LEMMA ReservedUpdate ==
    ASSUME session \in [Grant -> GrantFiles], NEW g \in Grant, NEW r \in Run,
           session' = [session EXCEPT ![g].reserved = Append(@, r)]
    PROVE  Adds(g, r)
<1> DEFINE q == Append(session[g].reserved, r)
<1>1. session[g] \in GrantFiles
  OBVIOUS
<1>2. q \in Seq(Run)
  <2>1. session[g].reserved \in Seq(Run)
    BY <1>1 DEF GrantFiles
  <2>2. QED
    BY <2>1
<1>3. session' = [session EXCEPT ![g] = [session[g] EXCEPT !.reserved = q]]
  OBVIOUS
<1> HIDE DEF q
<1>4. Replaces(g, [session[g] EXCEPT !.reserved = q])
  BY <1>1, <1>2, <1>3, GrantUpdate, SessionUpdate
<1>5. /\ session'[g].reserved = q
      /\ session'[g].closed = session[g].closed /\ session'[g].lapsed = session[g].lapsed
  BY <1>1, <1>4 DEF Replaces, GrantFiles
<1>6. QED
  BY <1>4, <1>5 DEF Adds, Replaces, q

\* The files of a run stay files of a run.
LEMMA RunUpdate ==
    ASSUME NEW d \in RunFiles
    PROVE  /\ \A x \in Authorization : [d EXCEPT !.auth = x] \in RunFiles
           /\ \A x \in JournalState : [d EXCEPT !.journal = x] \in RunFiles
           /\ \A x \in {"token", "session"} : [d EXCEPT !.by = x] \in RunFiles
           /\ \A x \in 0..MaxFaults + 1 : [d EXCEPT !.phases = x] \in RunFiles
           /\ [d EXCEPT !.request = TRUE] \in RunFiles
           /\ \A x \in Result : [d EXCEPT !.result = x] \in RunFiles
  BY DEF RunFiles

Writes(d) ==
    /\ dir' \in [Run -> RunFiles] /\ dir'[r_] = d
    /\ \A t \in Run : t # r_ => dir'[t] = dir[t]

\* A step that replaces the files of its run leaves the others alone.
LEMMA DirUpdate ==
    ASSUME dir \in [Run -> RunFiles], r_ \in Run, NEW d \in RunFiles,
           dir' = [dir EXCEPT ![r_] = d]
    PROVE  Writes(d)
  BY DEF Writes

\* The files of the run after a step of its process, one by one.
Becomes(auth, journal, by, phases, request, result) ==
    /\ dir' \in [Run -> RunFiles]
    /\ dir'[r_].auth = auth /\ dir'[r_].journal = journal /\ dir'[r_].by = by
    /\ dir'[r_].phases = phases /\ dir'[r_].request = request /\ dir'[r_].result = result
    /\ \A t \in Run : t # r_ => dir'[t] = dir[t]

\* What each step of a process writes into the directory of its run.
LEMMA DirSteps ==
    ASSUME Shape, r_ \in Run
    PROVE  LET d == dir[r_]
           IN /\ PublishSidecar =>
                    Becomes([grant |-> g_, ordinal |-> Len(session[g_].reserved)],
                            d.journal, d.by, d.phases, d.request, d.result)
              /\ Recheck =>
                    Becomes(d.auth, "PREFLIGHT", d.by, d.phases, d.request, d.result)
              /\ Approve =>
                    Becomes(d.auth, "APPROVED", IF g_ = None THEN "token" ELSE "session",
                            d.phases, d.request, d.result)
              /\ AbortBeforeEffect \/ RecoverAborts =>
                    Becomes(d.auth, "ABORTED", d.by, d.phases, d.request, d.result)
              /\ RequestIntent =>
                    Becomes(d.auth, d.journal, d.by, d.phases, TRUE, d.result)
              /\ \A kind \in Kind : DeviceEnds(kind) =>
                    Becomes(d.auth, IF kind \in ClosedKind THEN "CLOSED" ELSE "ABORTED",
                            d.by, d.phases + 1, d.request, d.result)
              /\ DeviceRequires /\ dir' # dir =>
                    Becomes(d.auth, d.journal, d.by, d.phases + 1, d.request, d.result)
              /\ PublishResult =>
                    Becomes(d.auth, d.journal, d.by, d.phases, d.request,
                            [kind |-> proc.kind, at |-> d.phases])
<1> DEFINE d == dir[r_]
<1>1. dir \in [Run -> RunFiles] /\ d \in RunFiles
  BY DEF Shape, TypeOK
<1>2. ASSUME NEW x \in Authorization, dir' = [dir EXCEPT ![r_].auth = x]
      PROVE  Becomes(x, d.journal, d.by, d.phases, d.request, d.result)
  <2>1. Writes([d EXCEPT !.auth = x])
    BY <1>1, <1>2, RunUpdate, DirUpdate
  <2>2. QED
    BY <1>1, <2>1 DEF Writes, Becomes, RunFiles
<1>3. ASSUME NEW x \in JournalState, dir' = [dir EXCEPT ![r_].journal = x]
      PROVE  Becomes(d.auth, x, d.by, d.phases, d.request, d.result)
  <2>1. Writes([d EXCEPT !.journal = x])
    BY <1>1, <1>3, RunUpdate, DirUpdate
  <2>2. QED
    BY <1>1, <2>1 DEF Writes, Becomes, RunFiles
<1>4. ASSUME NEW x \in JournalState, NEW y \in {"token", "session"},
             dir' = [dir EXCEPT ![r_].journal = x, ![r_].by = y]
      PROVE  Becomes(d.auth, x, y, d.phases, d.request, d.result)
  <2> DEFINE e == [d EXCEPT !.journal = x]
  <2>1. e \in RunFiles
    BY <1>1, RunUpdate
  <2>2. dir' = [dir EXCEPT ![r_] = [e EXCEPT !.by = y]]
    BY <1>4, <1>1
  <2>3. /\ e.auth = d.auth /\ e.journal = x /\ e.phases = d.phases
        /\ e.request = d.request /\ e.result = d.result
    BY <1>1 DEF RunFiles
  <2> HIDE DEF e
  <2>4. Writes([e EXCEPT !.by = y])
    BY <1>1, <2>1, <2>2, RunUpdate, DirUpdate
  <2>5. QED
    BY <2>1, <2>3, <2>4 DEF Writes, Becomes, RunFiles
<1>5. ASSUME dir' = [dir EXCEPT ![r_].request = TRUE]
      PROVE  Becomes(d.auth, d.journal, d.by, d.phases, TRUE, d.result)
  <2>1. Writes([d EXCEPT !.request = TRUE])
    BY <1>1, <1>5, RunUpdate, DirUpdate
  <2>2. QED
    BY <1>1, <2>1 DEF Writes, Becomes, RunFiles
<1>6. ASSUME NEW x \in 0..MaxFaults + 1, NEW y \in JournalState,
             dir' = [dir EXCEPT ![r_].phases = x, ![r_].journal = y]
      PROVE  Becomes(d.auth, y, d.by, x, d.request, d.result)
  <2> DEFINE e == [d EXCEPT !.phases = x]
  <2>1. e \in RunFiles
    BY <1>1, RunUpdate
  <2>2. dir' = [dir EXCEPT ![r_] = [e EXCEPT !.journal = y]]
    BY <1>6, <1>1
  <2>3. /\ e.auth = d.auth /\ e.by = d.by /\ e.phases = x
        /\ e.request = d.request /\ e.result = d.result
    BY <1>1 DEF RunFiles
  <2> HIDE DEF e
  <2>4. Writes([e EXCEPT !.journal = y])
    BY <1>1, <2>1, <2>2, RunUpdate, DirUpdate
  <2>5. QED
    BY <2>1, <2>3, <2>4 DEF Writes, Becomes, RunFiles
<1>7. ASSUME NEW x \in 0..MaxFaults + 1, dir' = [dir EXCEPT ![r_].phases = x]
      PROVE  Becomes(d.auth, d.journal, d.by, x, d.request, d.result)
  <2>1. Writes([d EXCEPT !.phases = x])
    BY <1>1, <1>7, RunUpdate, DirUpdate
  <2>2. QED
    BY <1>1, <2>1 DEF Writes, Becomes, RunFiles
<1>8. ASSUME NEW x \in Result, dir' = [dir EXCEPT ![r_].result = x]
      PROVE  Becomes(d.auth, d.journal, d.by, d.phases, d.request, x)
  <2>1. Writes([d EXCEPT !.result = x])
    BY <1>1, <1>8, RunUpdate, DirUpdate
  <2>2. QED
    BY <1>1, <2>1 DEF Writes, Becomes, RunFiles
<1>9. At("sidecar") => [grant |-> g_, ordinal |-> Len(session[g_].reserved)] \in Authorization
  <2> SUFFICES ASSUME At("sidecar")
               PROVE  g_ \in Grant /\ Len(session[g_].reserved) \in 0..LIMIT
    BY DEF Authorization
  <2>1. g_ \in Grant
    BY DEF Shape, TypeOK, Process, Position, At, g_
  <2>2. /\ session[g_] \in GrantFiles /\ Len(session[g_].reserved) <= Budget[g_]
        /\ Budget[g_] \in 1..LIMIT /\ LIMIT \in Nat
    BY <2>1, SessionAssumption DEF Shape, TypeOK, LIMIT
  <2>3. Len(session[g_].reserved) \in Nat
    BY <2>2 DEF GrantFiles
  <2>4. QED
    BY <2>1, <2>2, <2>3
<1>10. /\ d.phases \in Nat /\ MaxFaults \in Nat /\ faults \in 0..MaxFaults
       /\ At("device") => d.phases <= faults
  BY <1>1, SessionAssumption DEF Shape, TypeOK, RunFiles, Files, Position, At
<1>11. At("device") => d.phases + 1 \in 0..MaxFaults + 1
  BY <1>10
<1>12. [kind |-> proc.kind, at |-> d.phases] \in Result
  BY <1>1 DEF Shape, TypeOK, Process, RunFiles, Result
<1>13. \A x \in {"PREFLIGHT", "APPROVED", "CLOSED", "ABORTED"} : x \in JournalState
  BY DEF JournalState
<1>20. PublishSidecar =>
         Becomes([grant |-> g_, ordinal |-> Len(session[g_].reserved)],
                 d.journal, d.by, d.phases, d.request, d.result)
  BY <1>2, <1>9 DEF PublishSidecar
<1>21. Recheck => Becomes(d.auth, "PREFLIGHT", d.by, d.phases, d.request, d.result)
  BY <1>3, <1>13 DEF Recheck
<1>22. Approve => Becomes(d.auth, "APPROVED", IF g_ = None THEN "token" ELSE "session",
                          d.phases, d.request, d.result)
  BY <1>4, <1>13 DEF Approve
<1>23. AbortBeforeEffect \/ RecoverAborts =>
         Becomes(d.auth, "ABORTED", d.by, d.phases, d.request, d.result)
  BY <1>3, <1>13 DEF AbortBeforeEffect, RecoverAborts
<1>24. RequestIntent => Becomes(d.auth, d.journal, d.by, d.phases, TRUE, d.result)
  BY <1>5 DEF RequestIntent
<1>25. \A kind \in Kind : DeviceEnds(kind) =>
         Becomes(d.auth, IF kind \in ClosedKind THEN "CLOSED" ELSE "ABORTED",
                 d.by, d.phases + 1, d.request, d.result)
  BY <1>6, <1>11, <1>13 DEF DeviceEnds
<1>26. DeviceRequires /\ dir' # dir =>
         Becomes(d.auth, d.journal, d.by, d.phases + 1, d.request, d.result)
  BY <1>7, <1>11 DEF DeviceRequires
<1>27. PublishResult => Becomes(d.auth, d.journal, d.by, d.phases, d.request,
                                [kind |-> proc.kind, at |-> d.phases])
  BY <1>8, <1>12 DEF PublishResult
<1>28. QED
  BY <1>20, <1>21, <1>22, <1>23, <1>24, <1>25, <1>26, <1>27

\* Where a step leaves its process.
Goes(label, kind) ==
    /\ proc' \in Process /\ proc'.pc = label /\ proc'.kind = kind
    /\ r_' = r_ /\ g_' = g_ /\ proc'.mode = proc.mode

Enters(label, r, g, mode) ==
    /\ proc' \in Process /\ proc'.pc = label /\ proc'.mode = mode
    /\ r_' = r /\ g_' = g

\* A process keeps its run, its grant and its mode until it is idle again.
LEMMA ProcUpdate ==
    ASSUME proc \in Process
    PROVE  /\ \A label \in Label : Goto(label) => Goes(label, proc.kind)
           /\ \A kind \in Kind : proc' = [proc EXCEPT !.pc = "result", !.kind = kind]
                                    => Goes("result", kind)
           /\ \A label \in Label, r \in Run, g \in Grant \cup {None}, mode \in {"execute", "recover"} :
                 proc' = Enter(label, r, g, mode) => Enters(label, r, g, mode)
           /\ IdleProc \in Process
<1>1. \A label \in Label : Goto(label) => Goes(label, proc.kind)
  BY DEF Goto, Goes, Process, r_, g_
<1>2. \A kind \in Kind : proc' = [proc EXCEPT !.pc = "result", !.kind = kind]
                            => Goes("result", kind)
  <2> TAKE kind \in Kind
  <2> HAVE proc' = [proc EXCEPT !.pc = "result", !.kind = kind]
  <2> QED
    BY DEF Goes, Process, Label, r_, g_
<1>3. \A label \in Label, r \in Run, g \in Grant \cup {None}, mode \in {"execute", "recover"} :
         proc' = Enter(label, r, g, mode) => Enters(label, r, g, mode)
  BY DEF Enter, Enters, Process, Kind, r_, g_
<1>4. IdleProc \in Process
  BY DEF IdleProc, Enter, Process, Label, Kind
<1>5. QED
  BY <1>1, <1>2, <1>3, <1>4

\* A process at work has a run; one that has a grant has one of the grants.
LEMMA AtWork ==
    ASSUME Shape
    PROVE  /\ proc \in Process /\ proc.pc \in Label /\ proc.kind \in Kind
           /\ r_ \in Run \cup {None} /\ g_ \in Grant \cup {None}
           /\ proc.pc # "idle" => r_ \in Run /\ dir[r_] \in RunFiles
           /\ proc.pc = "idle" <=> proc = IdleProc
           /\ g_ # None => g_ \in Grant /\ session[g_] \in GrantFiles
<1>1. proc \in Process /\ Position
  BY DEF Shape, TypeOK
<1>2. proc.pc \in Label /\ proc.kind \in Kind /\ r_ \in Run \cup {None} /\ g_ \in Grant \cup {None}
  BY <1>1 DEF Process, r_, g_
<1>3. proc.pc = "idle" <=> proc = IdleProc
  BY <1>1 DEF Position, At, IdleProc, Enter
<1>4. proc.pc # "idle" => r_ \in Run /\ dir[r_] \in RunFiles
  BY <1>1 DEF Position, At, Shape, TypeOK
<1>5. g_ # None => g_ \in Grant /\ session[g_] \in GrantFiles
  BY <1>2 DEF Shape, TypeOK
<1>6. QED
  BY <1>1, <1>2, <1>3, <1>4, <1>5

\* Every step but PublishReservation keeps the reservations and the ends of the
\* grants.
LEMMA SessionSteps ==
    ASSUME Shape, Next
    PROVE  Kept \/ (PublishReservation /\ Adds(g_, r_))
<1>1. session \in [Grant -> GrantFiles]
  BY DEF Shape, TypeOK
<1>2. CASE UNCHANGED session
  BY <1>1, <1>2 DEF Kept
<1>3. ASSUME NEW g \in Grant,
             OpenSession(g) \/ Withdraw(g) \/ Lapse(g) \/ \E r \in Run : ReserveRefused(g, r)
      PROVE  Kept
  BY <1>1, <1>3, FlagSteps DEF OpenSession, Withdraw, Lapse, ReserveRefused
<1>4. CASE PublishReservation
  <2>1. g_ \in Grant /\ r_ \in Run
    BY <1>4, AtWork DEF PublishReservation, At, Shape, Position
  <2>2. QED
    BY <1>1, <1>4, <2>1, ReservedUpdate DEF PublishReservation
<1>5. CASE FinishClose \/ ExceptClose \/ BeforeRecovery
  <2>1. g_ \in Grant
    BY <1>5, AtWork DEF FinishClose, ExceptClose, BeforeRecovery, At, Shape, Position
  <2>2. session' = Closed(g_) \/ UNCHANGED session
    BY <1>5 DEF FinishClose, ExceptClose, BeforeRecovery
  <2>3. QED
    BY <1>1, <1>2, <2>1, <2>2, FlagSteps
<1>6. CASE FinishRecord
  <2>1. g_ \in Grant /\ r_ \in Run /\ dir[r_] \in RunFiles /\ dir[r_].auth.grant = g_
    BY <1>6, AtWork DEF FinishRecord, At, Shape, Position, Entitled
  <2>2. dir[r_].auth.ordinal \in Ordinals(g_) /\ Authorized(r_)
    BY <2>1, SessionAssumption DEF Shape, Authorized, NoAuth
  <2>3. Len(session[g_].reserved) \in Nat
    BY <1>1, <2>1 DEF GrantFiles
  <2>4. Len(session[g_].reserved) <= Budget[g_] /\ Budget[g_] \in 1..3
    BY <2>1, SessionAssumption DEF Shape, TypeOK, LIMIT
  <2>5. dir[r_].auth.ordinal \in 1..LIMIT
    BY <2>2, <2>3, <2>4 DEF Ordinals, LIMIT
  <2>6. dir[r_].result \in Result
    BY <2>1 DEF RunFiles
  <2>7. session' = [session EXCEPT ![g_].completed[dir[r_].auth.ordinal] = dir[r_].result]
    BY <1>6 DEF FinishRecord
  <2>8. QED
    BY <1>1, <2>1, <2>5, <2>6, <2>7, CompletedUpdate
<1>7. CASE \/ PublishSidecar \/ CheckStart \/ Recheck \/ RecheckFails \/ Approve \/ Arm
           \/ CheckEffect \/ AbortBeforeEffect \/ BeginOwner \/ RequestIntent
           \/ \E kind \in Kind : DeviceEnds(kind)
           \/ DeviceRequires \/ DeviceFails \/ PublishResult \/ Retire \/ FinishDiffers
           \/ RecoverClosed \/ RecoverAborted \/ RecoverRefused \/ RecoverAborts
           \/ RecoverDevice \/ Interrupt
  BY <1>2, <1>7 DEF PublishSidecar, CheckStart, Recheck, RecheckFails, Approve, Arm,
        CheckEffect, AbortBeforeEffect, BeginOwner, RequestIntent, DeviceEnds, DeviceRequires,
        DeviceFails, PublishResult, Retire, FinishDiffers, RecoverClosed, RecoverAborted,
        RecoverRefused, RecoverAborts, RecoverDevice, Interrupt, LocalStep
<1>8. CASE \/ \E g \in Grant, r \in Run : Reserve(g, r)
           \/ \E r \in Run : ExecuteToken(r) \/ Recover(r)
  BY <1>2, <1>8 DEF Reserve, ExecuteToken, Recover, LocalStep
<1>9. QED
  BY <1>3, <1>4, <1>5, <1>6, <1>7, <1>8 DEF Next, Step

\* The process is gone, or has only its grant left to close.
Leaves ==
    /\ UNCHANGED dir
    /\ \/ proc' = IdleProc
       \/ /\ Goes("except", proc.kind) /\ proc.mode = "execute" /\ g_ # None
          /\ proc.pc \notin {"idle", "publish", "sidecar"}

\* The steps that end a process, a failure or a death at any label among them.
LEMMA LeaveSteps ==
    ASSUME Shape,
           \/ CheckStart /\ ~Active(g_)
           \/ RecheckFails \/ DeviceFails \/ FinishDiffers \/ FinishClose \/ ExceptClose
           \/ Retire /\ g_ = None
           \/ RecoverRefused \/ Interrupt
    PROVE  Leaves
<1>1. Raise => \/ proc' = IdleProc
               \/ /\ Goes("except", proc.kind) /\ proc.mode = "execute" /\ g_ # None
                  /\ proc.pc \notin {"publish", "sidecar"}
  BY AtWork, ProcUpdate DEF Raise, Label
<1>2. proc.pc # "idle"
  BY AtWork DEF CheckStart, RecheckFails, DeviceFails, FinishDiffers, FinishClose, ExceptClose,
        Retire, RecoverRefused, Interrupt, At
<1>3. proc' = IdleProc \/ Raise
  BY DEF CheckStart, RecheckFails, DeviceFails, FinishDiffers, FinishClose, ExceptClose,
        Retire, RecoverRefused, Interrupt
<1>4. UNCHANGED dir
  BY DEF CheckStart, RecheckFails, DeviceFails, FinishDiffers, FinishClose, ExceptClose,
        Retire, RecoverRefused, Interrupt, LocalStep
<1>5. QED
  BY <1>1, <1>2, <1>3, <1>4 DEF Leaves

\* Where each step leaves its process.
LEMMA ProcSteps ==
    ASSUME Shape
    PROVE  /\ PublishReservation => Goes("sidecar", proc.kind)
           /\ PublishSidecar => Goes("start", proc.kind)
           /\ CheckStart => Leaves \/ Goes("recheck", proc.kind)
           /\ Recheck => Goes("approve", proc.kind)
           /\ Approve => Goes("arm", proc.kind)
           /\ Arm => Goes("effect", proc.kind) \/ Goes("abort", proc.kind)
           /\ CheckEffect => \/ Goes("abort", proc.kind)
                             \/ Goes("own", proc.kind) /\ (g_ = None \/ Active(g_))
           /\ BeginOwner => Goes("request", proc.kind)
           /\ RequestIntent \/ RecoverDevice => Goes("device", proc.kind)
           /\ \A kind \in Kind : DeviceEnds(kind) => Goes("result", kind)
           /\ DeviceRequires => Goes("result", "required")
           /\ AbortBeforeEffect \/ RecoverAborts => Goes("result", "pre_effect")
           /\ RecoverClosed => \E kind \in ClosedKind : /\ dir[r_].result.kind \in {"none", kind}
                                                        /\ Goes("result", kind)
           /\ RecoverAborted =>
                 Goes("result", IF dir[r_].request THEN "local_parse" ELSE "pre_effect")
           /\ PublishResult => Goes("retire", proc.kind)
           /\ Retire => Leaves \/ (g_ # None /\ Goes("finish", proc.kind))
           /\ FinishRecord => Goes("close", proc.kind)
           /\ BeforeRecovery => Goes("recover", proc.kind)
<1>1. proc \in Process
  BY AtWork
<1>2. \A label \in Label : Goto(label) => Goes(label, proc.kind)
  BY <1>1, ProcUpdate
<1>3. \A kind \in Kind : proc' = [proc EXCEPT !.pc = "result", !.kind = kind] => Goes("result", kind)
  BY <1>1, ProcUpdate
<1>4. CheckStart => Leaves \/ Goes("recheck", proc.kind)
  BY <1>2, LeaveSteps DEF CheckStart, Label
<1>5. Retire => Leaves \/ (g_ # None /\ Goes("finish", proc.kind))
  BY <1>2, LeaveSteps DEF Retire, Label
<1>6. /\ PublishReservation => Goes("sidecar", proc.kind)
      /\ PublishSidecar => Goes("start", proc.kind)
      /\ Recheck => Goes("approve", proc.kind)
      /\ Approve => Goes("arm", proc.kind)
      /\ Arm => Goes("effect", proc.kind) \/ Goes("abort", proc.kind)
      /\ BeginOwner => Goes("request", proc.kind)
      /\ RequestIntent \/ RecoverDevice => Goes("device", proc.kind)
      /\ PublishResult => Goes("retire", proc.kind)
      /\ FinishRecord => Goes("close", proc.kind)
      /\ BeforeRecovery => Goes("recover", proc.kind)
  BY <1>2 DEF PublishReservation, PublishSidecar, Recheck, Approve, Arm, BeginOwner,
        RequestIntent, RecoverDevice, PublishResult, FinishRecord, BeforeRecovery, Label
<1>7. CheckEffect => \/ Goes("abort", proc.kind)
                     \/ Goes("own", proc.kind) /\ (g_ = None \/ Active(g_))
  BY <1>2 DEF CheckEffect, Label
<1>8. /\ \A kind \in Kind : DeviceEnds(kind) => Goes("result", kind)
      /\ DeviceRequires => Goes("result", "required")
      /\ AbortBeforeEffect \/ RecoverAborts => Goes("result", "pre_effect")
      /\ RecoverAborted =>
            Goes("result", IF dir[r_].request THEN "local_parse" ELSE "pre_effect")
  BY <1>3 DEF DeviceEnds, DeviceRequires, AbortBeforeEffect, RecoverAborts, RecoverAborted, Kind
<1>9. RecoverClosed => \E kind \in ClosedKind : /\ dir[r_].result.kind \in {"none", kind}
                                                /\ Goes("result", kind)
  BY <1>3 DEF RecoverClosed, ClosedKind, Kind
<1>10. QED
  BY <1>4, <1>5, <1>6, <1>7, <1>8, <1>9

\* Reservations that stay say the same of every run.
LEMMA KeptFrame ==
    ASSUME Kept
    PROVE  /\ \A g \in Grant : /\ session'[g].reserved = session[g].reserved
                               /\ Ordinals(g)' = Ordinals(g)
                               /\ \A i : RunAt(g, i)' = RunAt(g, i)
           /\ \A r : Unreserved(r)' <=> Unreserved(r)
           /\ ReservedOnce' <=> ReservedOnce
<1>1. \A g \in Grant : /\ session'[g].reserved = session[g].reserved
                       /\ Ordinals(g)' = Ordinals(g)
                       /\ \A i : RunAt(g, i)' = RunAt(g, i)
  BY DEF Kept, Ordinals, RunAt
<1>2. \A g \in Grant : ReservedIn(g)' = ReservedIn(g)
  BY <1>1 DEF ReservedIn
<1>3. \A r : Unreserved(r)' <=> Unreserved(r)
  BY <1>2 DEF Unreserved
<1>4. ReservedOnce' <=> ReservedOnce
  BY <1>1 DEF ReservedOnce
<1>5. QED
  BY <1>1, <1>3, <1>4

\* The steps that write into no run directory.
LEMMA DirKept ==
    ASSUME Next, dir' # dir
    PROVE  \/ PublishSidecar \/ Recheck \/ Approve \/ AbortBeforeEffect \/ RequestIntent
           \/ \E kind \in Kind : DeviceEnds(kind)
           \/ DeviceRequires \/ PublishResult \/ RecoverAborts
<1>1. ~ \E g \in Grant : OpenSession(g) \/ Withdraw(g) \/ Lapse(g)
  BY DEF OpenSession, Withdraw, Lapse
<1>2. ~ \E g \in Grant, r \in Run : Reserve(g, r) \/ ReserveRefused(g, r)
  BY DEF Reserve, ReserveRefused, LocalStep
<1>3. ~ \E r \in Run : ExecuteToken(r) \/ Recover(r)
  BY DEF ExecuteToken, Recover, LocalStep
<1>4. ~ (\/ PublishReservation \/ CheckStart \/ RecheckFails \/ Arm \/ CheckEffect \/ BeginOwner
         \/ DeviceFails \/ Retire \/ FinishRecord \/ FinishDiffers \/ FinishClose \/ ExceptClose
         \/ BeforeRecovery \/ RecoverClosed \/ RecoverAborted \/ RecoverRefused
         \/ RecoverDevice \/ Interrupt)
  BY DEF PublishReservation, CheckStart, RecheckFails, Arm, CheckEffect, BeginOwner, DeviceFails,
         Retire, FinishRecord, FinishDiffers, FinishClose, ExceptClose, BeforeRecovery,
         RecoverClosed, RecoverAborted, RecoverRefused, RecoverDevice, Interrupt, LocalStep
<1>5. QED
  BY <1>1, <1>2, <1>3, <1>4 DEF Next, Step

----------------------------------------------------------------------------
(* Shape is inductive.                                                     *)

\* Interruptions are counted.
LEMMA FaultsGrow == ASSUME Shape, Next PROVE faults' \in 0..MaxFaults /\ faults <= faults'
<1>1. faults \in 0..MaxFaults /\ MaxFaults \in Nat
  BY SessionAssumption DEF Shape, TypeOK
<1>2. CASE DeviceRequires \/ DeviceFails \/ Interrupt
  BY <1>1, <1>2 DEF DeviceRequires, DeviceFails, Interrupt
<1>3. CASE UNCHANGED faults
  BY <1>1, <1>3
<1>4. CASE \E g \in Grant : OpenSession(g) \/ Withdraw(g) \/ Lapse(g)
  BY <1>3, <1>4 DEF OpenSession, Withdraw, Lapse
<1>5. CASE \E g \in Grant, r \in Run : Reserve(g, r) \/ ReserveRefused(g, r)
  BY <1>3, <1>5 DEF Reserve, ReserveRefused, LocalStep
<1>6. CASE \E r \in Run : ExecuteToken(r) \/ Recover(r)
  BY <1>3, <1>6 DEF ExecuteToken, Recover, LocalStep
<1>7. CASE Step
  BY <1>2, <1>3, <1>7 DEF Step, PublishReservation, PublishSidecar, CheckStart, Recheck, RecheckFails,
        Approve, Arm, CheckEffect, AbortBeforeEffect, BeginOwner, RequestIntent, DeviceEnds,
        PublishResult, Retire, FinishRecord, FinishDiffers, FinishClose, ExceptClose,
        BeforeRecovery, RecoverClosed, RecoverAborted, RecoverRefused, RecoverAborts,
        RecoverDevice, LocalStep
<1>8. QED
  BY <1>2, <1>4, <1>5, <1>6, <1>7 DEF Next

\* The labels at which a run directory is written.
LEMMA FilesStep ==
    ASSUME Shape, Next
    PROVE  dir' \in [Run -> RunFiles] /\ \A r \in Run : Files(r)'
<1>1. /\ dir \in [Run -> RunFiles] /\ \A r \in Run : Files(r) /\ dir[r].phases \in Nat
      /\ faults \in Nat /\ faults' \in Nat /\ faults <= faults'
  BY FaultsGrow, SessionAssumption DEF Shape, TypeOK, RunFiles
<1>2. CASE UNCHANGED dir
  BY <1>1, <1>2 DEF Files
<1>3. \A r \in Run : dir'[r] = dir[r] => Files(r)'
  BY <1>1 DEF Files
<1> SUFFICES ASSUME dir' # dir
             PROVE  dir' \in [Run -> RunFiles] /\ \A r \in Run : Files(r)'
  BY <1>2
<1> DEFINE d == dir[r_]
<1>4. /\ Position /\ Publishing /\ proc.kind \in Kind /\ proc.pc # "idle" /\ r_ \in Run
      /\ Files(r_) /\ d.phases \in Nat
  <2>1. proc.pc # "idle"
    BY DirKept DEF PublishSidecar, Recheck, Approve, AbortBeforeEffect, RequestIntent,
           DeviceEnds, DeviceRequires, PublishResult, RecoverAborts, At
  <2>2. QED
    BY <1>1, <2>1, AtWork DEF Shape
<1> USE DEF Becomes, Files, Terminal, ClosedKind, At
<1>5. CASE PublishSidecar
  BY <1>1, <1>3, <1>4, <1>5, DirSteps
<1>6. CASE Recheck
  BY <1>1, <1>3, <1>4, <1>6, DirSteps DEF Recheck, Position
<1>7. CASE Approve
  BY <1>1, <1>3, <1>4, <1>7, DirSteps DEF Approve, Position, Opening
<1>8. CASE AbortBeforeEffect
  BY <1>1, <1>3, <1>4, <1>8, DirSteps DEF AbortBeforeEffect, Position, Opening
<1>9. CASE RecoverAborts
  BY <1>1, <1>3, <1>4, <1>9, DirSteps DEF RecoverAborts
<1>10. CASE RequestIntent
  BY <1>1, <1>3, <1>4, <1>10, DirSteps DEF RequestIntent, Position, Opening
<1>11. ASSUME NEW kind \in Kind, DeviceEnds(kind)
       PROVE  dir' \in [Run -> RunFiles] /\ \A r \in Run : Files(r)'
  <2>1. Becomes(d.auth, IF kind \in ClosedKind THEN "CLOSED" ELSE "ABORTED",
                d.by, d.phases + 1, d.request, d.result)
    BY <1>4, <1>11, DirSteps
  <2>2. d.phases <= faults /\ d.result.kind \in {"none", "required"}
    BY <1>4, <1>11 DEF DeviceEnds, Position
  <2>3. QED
    BY <1>1, <1>3, <1>4, <2>1, <2>2
<1>12. CASE DeviceRequires
  BY <1>1, <1>3, <1>4, <1>12, DirSteps DEF DeviceRequires, Position
<1>13. CASE PublishResult
  BY <1>1, <1>3, <1>4, <1>13, DirSteps DEF PublishResult, Publishing, Kind
<1>14. QED
  BY <1>5, <1>6, <1>7, <1>8, <1>9, <1>10, <1>11, <1>12, <1>13, DirKept

\* A run stays authorized while its reservations and what its files say of its
\* authority stay.
LEMMA AuthorizedFrame ==
    ASSUME Kept, NEW r \in Run, Authorized(r),
           dir'[r].auth = dir[r].auth, dir'[r].by = dir[r].by,
           \/ dir'[r].journal = dir[r].journal
           \/ dir[r].auth = NoAuth => Unreserved(r)
    PROVE  Authorized(r)'
  BY KeptFrame DEF Authorized

Extended(g, r, n) ==
    /\ n = Len(session[g].reserved) + 1 /\ n \notin Ordinals(g)
    /\ Ordinals(g)' = Ordinals(g) \cup {n} /\ session'[g].reserved[n] = r
    /\ Len(session'[g].reserved) = n
    /\ \A h \in Grant : h # g => Ordinals(h)' = Ordinals(h)
    /\ \A h \in Grant : \A i \in Ordinals(h) : i \in Ordinals(h)' /\ RunAt(h, i)' = RunAt(h, i)

\* A new reservation is the last of its grant.
LEMMA AddsFrame ==
    ASSUME session \in [Grant -> GrantFiles], NEW g \in Grant, NEW r \in Run, Adds(g, r)
    PROVE  \E n \in Nat : Extended(g, r, n)
<1>1. session[g].reserved \in Seq(Run)
  BY DEF GrantFiles
<1>2. PICK n \in Nat : n = Len(session[g].reserved) + 1
  BY <1>1
<1>3. session'[g].reserved = Append(session[g].reserved, r)
  BY DEF Adds
<1>4. n \notin Ordinals(g) /\ Len(session'[g].reserved) = n /\ session'[g].reserved[n] = r
  BY <1>1, <1>2, <1>3 DEF Ordinals
<1>5. Ordinals(g)' = Ordinals(g) \cup {n}
  BY <1>1, <1>2, <1>4 DEF Ordinals
<1>6. \A i \in Ordinals(g) : RunAt(g, i)' = RunAt(g, i)
  BY <1>1, <1>3 DEF Ordinals, RunAt
<1>7. \A h \in Grant : h # g => Ordinals(h)' = Ordinals(h) /\ \A i : RunAt(h, i)' = RunAt(h, i)
  BY DEF Adds, Ordinals, RunAt
<1>8. QED
  BY <1>2, <1>4, <1>5, <1>6, <1>7 DEF Extended

\* It reserves no run but its own.
LEMMA ExtendedFrame ==
    ASSUME NEW g \in Grant, NEW r, NEW n, Extended(g, r, n)
    PROVE  /\ \A t : t # r /\ Unreserved(t) => Unreserved(t)'
           /\ \A h \in Grant : \A i \in Ordinals(h)' : \/ i \in Ordinals(h)
                                                       \/ h = g /\ i = n /\ RunAt(h, i)' = r
<1>1. \A h \in Grant : \A i \in Ordinals(h)' : \/ i \in Ordinals(h)
                                               \/ h = g /\ i = n /\ RunAt(h, i)' = r
  BY DEF Extended, RunAt
<1>2. ASSUME NEW t, t # r, Unreserved(t), NEW h \in Grant, NEW i \in Ordinals(h)'
      PROVE  RunAt(h, i)' # t
  <2>1. \A j \in Ordinals(h) : RunAt(h, j) # t
    BY <1>2 DEF Unreserved, ReservedIn
  <2>2. QED
    BY <1>1, <1>2, <2>1 DEF Extended
<1>3. QED
  BY <1>1, <1>2 DEF Unreserved, ReservedIn

\* The reservations and the sidecars go on naming each other.
LEMMA AuthorityStep ==
    ASSUME Shape, Next
    PROVE  /\ \A r \in Run : Authorized(r)'
           /\ ReservedOnce'
           /\ session' \in [Grant -> GrantFiles]
           /\ \A g \in Grant : Len(session'[g].reserved) <= Budget[g]
<1>1. /\ session \in [Grant -> GrantFiles] /\ \A g \in Grant : Len(session[g].reserved) <= Budget[g]
      /\ ReservedOnce /\ \A r \in Run : Authorized(r)
      /\ Position /\ Entitled
  BY DEF Shape, TypeOK
<1>2. Kept => /\ ReservedOnce' /\ session' \in [Grant -> GrantFiles]
              /\ \A g \in Grant : Len(session'[g].reserved) <= Budget[g]
  BY <1>1, KeptFrame DEF Kept
<1>3. CASE PublishReservation
  <2>0. g_ \in Grant /\ r_ \in Run /\ UNCHANGED dir
    BY <1>1, <1>3, AtWork DEF PublishReservation, At, Position
  <2>1. PICK o \in Grant, w \in Run : o = g_ /\ w = r_
    BY <2>0
  <2>2. Adds(o, w)
    BY <1>1, <1>3, <2>1, ReservedUpdate DEF PublishReservation
  <2>3. Unreserved(w) /\ dir[w].auth = NoAuth /\ dir[w].journal = "none"
    BY <1>1, <1>3, <2>1 DEF PublishReservation, At, Position, Entitled
  <2>4. PICK n \in Nat : Extended(o, w, n)
    BY <1>1, <2>1, <2>2, AddsFrame
  <2>5. Len(session[o].reserved) < Budget[o] /\ Budget[o] \in Nat /\ Len(session[o].reserved) \in Nat
    <3>1. session[o] \in GrantFiles /\ Budget[o] \in Nat
      BY <1>1, SessionAssumption DEF LIMIT
    <3>2. QED
      BY <1>1, <1>3, <2>1, <3>1 DEF PublishReservation, At, Entitled, GrantFiles
  <2>6. n <= Budget[o]
    BY <2>4, <2>5 DEF Extended
  <2>7. \A h \in Grant : \A i \in Ordinals(h) : RunAt(h, i) # w
    BY <2>3 DEF Unreserved, ReservedIn
  <2>8. ReservedOnce'
    <3> SUFFICES ASSUME NEW g \in Grant, NEW h \in Grant, NEW i \in Ordinals(g)', NEW j \in Ordinals(h)',
                        RunAt(g, i)' = RunAt(h, j)'
                 PROVE  g = h /\ i = j
      BY DEF ReservedOnce
    <3>1. CASE i \in Ordinals(g) /\ j \in Ordinals(h)
      BY <1>1, <2>4, <3>1 DEF ReservedOnce, Extended
    <3>2. CASE i \notin Ordinals(g)
      BY <2>4, <2>7, <3>2, ExtendedFrame DEF Extended
    <3>3. CASE j \notin Ordinals(h)
      BY <2>4, <2>7, <3>3, ExtendedFrame DEF Extended
    <3>4. QED
      BY <3>1, <3>2, <3>3
  <2>9. \A r \in Run : Authorized(r)'
    <3> SUFFICES ASSUME NEW r \in Run PROVE Authorized(r)'
      OBVIOUS
    <3>1. CASE r = w
      BY <1>1, <2>0, <2>3, <3>1 DEF Authorized
    <3>2. CASE r # w
      BY <1>1, <2>0, <2>4, <3>2, ExtendedFrame DEF Authorized, Extended
    <3>3. QED
      BY <3>1, <3>2
  <2>10. session' \in [Grant -> GrantFiles] /\ \A g \in Grant : Len(session'[g].reserved) <= Budget[g]
    BY <1>1, <2>2, <2>4, <2>6 DEF Adds, Extended
  <2>11. QED
    BY <2>8, <2>9, <2>10
<1> SUFFICES ASSUME Kept PROVE \A r \in Run : Authorized(r)'
  BY <1>2, <1>3, SessionSteps
<1>4. CASE UNCHANGED dir
  BY <1>1, <1>4, AuthorizedFrame
<1>5. ASSUME dir' # dir PROVE r_ \in Run /\ proc.pc # "idle" /\ proc.pc # "publish"
  <2>1. proc.pc # "idle" /\ proc.pc # "publish"
    BY <1>5, DirKept DEF PublishSidecar, Recheck, Approve, AbortBeforeEffect, RequestIntent,
           DeviceEnds, DeviceRequires, PublishResult, RecoverAborts, At
  <2>2. QED
    BY <2>1, AtWork
<1>6. proc.pc \notin {"idle", "publish", "sidecar"} =>
         (dir[r_].auth = NoAuth => g_ = None /\ Unreserved(r_))
  BY <1>1 DEF Entitled, NoAuth
<1>7. CASE PublishSidecar
  <2>1. proc.pc = "sidecar" /\ r_ \in Run /\ g_ \in Grant
    BY <1>1, <1>7, AtWork DEF PublishSidecar, At, Position
  <2>2. /\ dir'[r_].auth = [grant |-> g_, ordinal |-> Len(session[g_].reserved)]
        /\ dir'[r_].by = dir[r_].by /\ \A t \in Run : t # r_ => dir'[t] = dir[t]
    BY <1>7, <2>1, DirSteps DEF Becomes
  <2>3. dir[r_].by = "none" /\ None \notin Grant
    BY <1>1, <2>1, SessionAssumption DEF Position, Shape, Files
  <2>4. /\ Len(session[g_].reserved) \in Ordinals(g_)
        /\ RunAt(g_, Len(session[g_].reserved)) = r_
    BY <1>1, <2>1 DEF Entitled, At
  <2>5. \A r \in Run : r = r_ => Authorized(r)'
    BY <2>1, <2>2, <2>3, <2>4, KeptFrame DEF Authorized, NoAuth
  <2>6. QED
    BY <1>1, <2>2, <2>5, AuthorizedFrame
<1>8. CASE Approve
  <2>1. proc.pc = "approve" /\ r_ \in Run
    BY <1>8, AtWork DEF Approve, At
  <2>2. /\ dir'[r_].auth = dir[r_].auth
        /\ dir'[r_].by = IF g_ = None THEN "token" ELSE "session"
        /\ \A t \in Run : t # r_ => dir'[t] = dir[t]
    BY <1>8, <2>1, DirSteps DEF Becomes
  <2>3. g_ = dir[r_].auth.grant /\ (g_ = None => Unreserved(r_))
    BY <1>1, <2>1 DEF Entitled
  <2>4. g_ = None <=> dir[r_].auth = NoAuth
    BY <1>1, <2>1, <2>3, SessionAssumption DEF Authorized, NoAuth
  <2>5. \A r \in Run : r = r_ => Authorized(r)'
    BY <1>1, <2>1, <2>2, <2>3, <2>4, KeptFrame DEF Authorized
  <2>6. QED
    BY <1>1, <2>2, <2>5, AuthorizedFrame
<1>9. ASSUME \/ Recheck \/ AbortBeforeEffect \/ RequestIntent
             \/ \E kind \in Kind : DeviceEnds(kind)
             \/ DeviceRequires \/ PublishResult \/ RecoverAborts,
             dir' # dir
      PROVE  \A r \in Run : Authorized(r)'
  <2>1. proc.pc \notin {"idle", "publish", "sidecar"} /\ r_ \in Run
    BY <1>5, <1>9 DEF Recheck, AbortBeforeEffect, RequestIntent,
           DeviceEnds, DeviceRequires, PublishResult, RecoverAborts, At
  <2>2. /\ dir'[r_].auth = dir[r_].auth /\ dir'[r_].by = dir[r_].by
        /\ \A t \in Run : t # r_ => dir'[t] = dir[t]
    BY <1>9, <2>1, DirSteps DEF Becomes
  <2>3. QED
    BY <1>1, <1>6, <2>1, <2>2, AuthorizedFrame
<1>10. QED
  BY <1>4, <1>7, <1>8, <1>9, DirKept

Known == proc \in Process /\ Position /\ Publishing /\ Entitled

\* A process keeps its reservation from label to label.
LEMMA GoesFrame ==
    ASSUME Kept, Entitled, g_ \in Grant \cup {None},
           proc.pc \notin {"idle", "publish", "sidecar"},
           NEW label \in Label \ {"idle", "publish", "sidecar"}, NEW kind, Goes(label, kind),
           dir'[r_].auth = dir[r_].auth
    PROVE  Entitled' /\ (label # "result" => Publishing')
<1>1. /\ proc'.pc = label /\ r_' = r_ /\ g_' = g_ /\ dir[r_]' = dir'[r_]
      /\ g_ = dir[r_].auth.grant /\ (g_ = None => Unreserved(r_))
  BY DEF Goes, Entitled
<1>2. \A r : Unreserved(r)' <=> Unreserved(r)
  BY KeptFrame
<1>3. g_ = None => Unreserved(r_)'
  BY <1>1, <1>2 DEF Unreserved
<1>4. QED
  BY <1>1, <1>3 DEF Entitled, Publishing, At

\* What a process knows of its run, at every label it reaches.
LEMMA KnownStep == ASSUME Shape, Next PROVE Known'
<1>1. /\ Known /\ dir \in [Run -> RunFiles]
      /\ \A r \in Run : Files(r) /\ Authorized(r)
  BY DEF Shape, TypeOK, Known
<1>2. ASSUME Kept, UNCHANGED <<proc, dir>> PROVE Known'
  <2>1. UNCHANGED <<r_, g_>>
    BY <1>2 DEF r_, g_
  <2>2. /\ \A r : Unreserved(r)' <=> Unreserved(r)
        /\ \A g \in Grant : /\ session'[g].reserved = session[g].reserved
                            /\ Ordinals(g)' = Ordinals(g)
                            /\ \A i : RunAt(g, i)' = RunAt(g, i)
    BY <1>2, KeptFrame
  <2>3. Entitled'
    <3>1. proc.pc \in {"publish", "sidecar"} => g_ \in Grant
      BY <1>1, AtWork DEF Known, Position
    <3>2. QED
      BY <1>1, <1>2, <2>1, <2>2, <3>1 DEF Known, Entitled, At, Unreserved, Ordinals, RunAt, ReservedIn
  <2>4. QED
    BY <1>1, <1>2, <2>1, <2>3 DEF Known, Position, Publishing, At
<1>3. ASSUME Kept, Leaves PROVE Known'
  <2>1. CASE proc' = IdleProc
    <3>1. proc'.pc = "idle" /\ proc' \in Process
      BY <1>1, <2>1, ProcUpdate DEF IdleProc, Enter, Known
    <3>2. QED
      BY <2>1, <3>1 DEF Known, Position, Publishing, Entitled, At, Opening, IdleProc
  <2>2. CASE proc' # IdleProc
    <3>1. Goes("except", proc.kind) /\ proc.mode = "execute" /\ g_ # None /\ UNCHANGED dir
      BY <1>3, <2>2 DEF Leaves
    <3>2. proc.pc \notin {"idle", "publish", "sidecar"}
      BY <1>3, <2>2 DEF Leaves
    <3>3. r_ \in Run /\ g_ \in Grant \cup {None}
      BY <3>2, AtWork
    <3>4. Entitled' /\ Publishing'
      BY <1>1, <1>3, <3>1, <3>2, <3>3, GoesFrame DEF Known, Label
    <3>5. Position'
      BY <3>1, <3>3 DEF Goes, Position, At, Opening
    <3>6. QED
      BY <3>1, <3>4, <3>5 DEF Known, Goes
  <2>3. QED
    BY <2>1, <2>2
<1>4. ASSUME NEW g \in Grant, OpenSession(g) \/ Withdraw(g) \/ Lapse(g) \/ \E r \in Run : ReserveRefused(g, r)
      PROVE  Known'
  <2>1. Kept
    BY <1>4, FlagSteps DEF OpenSession, Withdraw, Lapse, ReserveRefused, Shape, TypeOK
  <2>2. QED
    BY <1>2, <1>4, <2>1 DEF OpenSession, Withdraw, Lapse, ReserveRefused
<1>5. ASSUME NEW g \in Grant, NEW r \in Run, Reserve(g, r) PROVE Known'
  <2>1. Enters("publish", r, g, "execute") /\ UNCHANGED <<session, dir>>
    BY <1>1, <1>5, ProcUpdate DEF Reserve, LocalStep, Known, Label
  <2>2. /\ dir[r].journal = "none" /\ dir[r].auth = NoAuth /\ Unreserved(r)
        /\ Len(session[g].reserved) + 1 <= Budget[g]
    BY <1>5 DEF Reserve, MayReserve, NextInCatalog
  <2>3. Len(session[g].reserved) \in Nat /\ Budget[g] \in Nat
    <3>1. session[g] \in GrantFiles /\ Budget[g] \in Nat
      BY SessionAssumption DEF Shape, TypeOK, LIMIT
    <3>2. QED
      BY <3>1 DEF GrantFiles
  <2>4. Len(session[g].reserved) < Budget[g]
    BY <2>2, <2>3
  <2>5. Unreserved(r)' /\ g # None
    BY <2>1, <2>2, SessionAssumption DEF Unreserved, ReservedIn, Ordinals, RunAt
  <2>6. ~dir[r].request
    BY <1>1, <2>2 DEF Files
  <2>7. Position'
    BY <2>1, <2>2, <2>5, <2>6 DEF Enters, Position, At, Opening, Terminal
  <2>8. Entitled'
    BY <2>1, <2>2, <2>4, <2>5 DEF Enters, Entitled, At, Unreserved
  <2>9. QED
    BY <2>1, <2>7, <2>8 DEF Known, Enters, Publishing, At
<1>6. ASSUME NEW r \in Run, ExecuteToken(r) PROVE Known'
  <2>1. Enters("recheck", r, None, "execute") /\ UNCHANGED <<session, dir>>
    BY <1>1, <1>6, ProcUpdate DEF ExecuteToken, LocalStep, Known, Label
  <2>2. dir[r].journal = "none" /\ dir[r].auth = NoAuth /\ Unreserved(r)
    BY <1>6 DEF ExecuteToken
  <2>3. Unreserved(r)' /\ ~dir[r].request
    BY <1>1, <2>1, <2>2 DEF Unreserved, ReservedIn, Ordinals, RunAt, Files
  <2>4. Position'
    BY <2>1, <2>2, <2>3 DEF Enters, Position, At, Opening, Terminal
  <2>5. Entitled'
    BY <2>1, <2>2, <2>3 DEF Enters, Entitled, At, Unreserved, NoAuth
  <2>6. QED
    BY <2>1, <2>4, <2>5 DEF Known, Enters, Publishing, At
<1>7. ASSUME NEW r \in Run, Recover(r) PROVE Known'
  <2> DEFINE l == IF dir[r].auth = NoAuth THEN "recover" ELSE "before"
             g == dir[r].auth.grant
  <2>0. g \in Grant \cup {None} /\ l \in {"recover", "before"}
    BY <1>1 DEF RunFiles, Authorization
  <2>1. Enters(l, r, g, "recover") /\ UNCHANGED <<session, dir>>
    BY <1>1, <1>7, <2>0, ProcUpdate DEF Recover, LocalStep, Known, Label
  <2>2. dir[r].journal # "none" /\ Authorized(r)
    BY <1>1, <1>7 DEF Recover
  <2>3. /\ g = None => Unreserved(r)
        /\ l = "before" => g # None
    BY <2>2, SessionAssumption DEF Authorized, NoAuth
  <2>4. g = None => Unreserved(r)'
    BY <2>1, <2>3 DEF Unreserved, ReservedIn, Ordinals, RunAt
  <2>5. g_' = g /\ r_' = r /\ dir[r_]' = dir[r]
    BY <2>1 DEF Enters
  <2> HIDE DEF g, l
  <2>6. Position'
    BY <2>0, <2>1, <2>2, <2>3, <2>5 DEF Enters, Position, At, Opening, Terminal
  <2>7. Entitled'
    BY <2>0, <2>1, <2>4, <2>5 DEF Enters, Entitled, At, Unreserved, g
  <2>8. QED
    BY <2>0, <2>1, <2>6, <2>7 DEF Known, Enters, Publishing, At
<1>8. CASE PublishReservation
  <2>1. proc.pc = "publish" /\ g_ \in Grant /\ r_ \in Run /\ UNCHANGED dir
    BY <1>1, <1>8, AtWork DEF PublishReservation, At, Known, Position
  <2>2. PICK o \in Grant, w \in Run : o = g_ /\ w = r_
    BY <2>1
  <2>3. Goes("sidecar", proc.kind)
    BY <1>8, ProcSteps
  <2>4. Adds(o, w) /\ session \in [Grant -> GrantFiles]
    BY <1>8, <2>2, ReservedUpdate DEF PublishReservation, Shape, TypeOK
  <2>5. PICK n \in Nat : Extended(o, w, n)
    BY <2>4, AddsFrame
  <2>6. g_' = o /\ r_' = w /\ dir[r_]' = dir[r_]
    BY <2>1, <2>2, <2>3 DEF Goes
  <2>7. Entitled'
    <3>1. Len(session[g_].reserved)' = n /\ n \in Ordinals(g_)' /\ RunAt(g_, Len(session[g_].reserved))' = w
      BY <2>5, <2>6 DEF Extended, RunAt, Ordinals
    <3>2. dir[r_].auth = NoAuth
      BY <1>1, <2>1 DEF Known, Entitled, At
    <3>3. QED
      BY <2>3, <2>6, <3>1, <3>2 DEF Goes, Entitled, At
  <2>8. Position'
    BY <1>1, <2>1, <2>3, <2>6, SessionAssumption DEF Known, Goes, Position, At, Opening, Terminal
  <2>9. QED
    BY <2>3, <2>7, <2>8 DEF Known, Goes, Publishing, At
<1>9. CASE PublishSidecar
  <2>1. proc.pc = "sidecar" /\ g_ \in Grant /\ r_ \in Run /\ UNCHANGED session
    BY <1>1, <1>9, AtWork DEF PublishSidecar, At, Known, Position
  <2>2. Goes("start", proc.kind)
    BY <1>9, ProcSteps
  <2>3. Becomes([grant |-> g_, ordinal |-> Len(session[g_].reserved)],
                dir[r_].journal, dir[r_].by, dir[r_].phases, dir[r_].request, dir[r_].result)
    BY <1>9, <2>1, DirSteps
  <2>4. Position'
    BY <1>1, <2>1, <2>2, <2>3 DEF Known, Goes, Position, At, Opening, Terminal, Becomes
  <2>5. Entitled'
    BY <2>1, <2>2, <2>3, SessionAssumption DEF Goes, Entitled, At, Becomes
  <2>6. QED
    BY <2>2, <2>4, <2>5 DEF Known, Goes, Publishing, At
<1> SUFFICES ASSUME Kept, proc.pc \notin {"idle", "publish", "sidecar"}, Step, ~Leaves
             PROVE  Known'
  <2>1. CASE Step
    <3>1. Kept \/ PublishReservation
      BY SessionSteps
    <3>2. proc.pc = "publish" => PublishReservation
      BY <2>1 DEF Step, PublishSidecar, CheckStart, Recheck, RecheckFails,
        Approve, Arm, CheckEffect, AbortBeforeEffect, BeginOwner, RequestIntent, DeviceEnds,
        DeviceRequires, DeviceFails, PublishResult, Retire, FinishRecord, FinishDiffers, FinishClose,
        ExceptClose, BeforeRecovery, RecoverClosed, RecoverAborted, RecoverRefused, RecoverAborts,
        RecoverDevice, At
    <3>3. proc.pc = "sidecar" => PublishSidecar
      BY <2>1 DEF Step, PublishReservation, CheckStart, Recheck, RecheckFails,
        Approve, Arm, CheckEffect, AbortBeforeEffect, BeginOwner, RequestIntent, DeviceEnds,
        DeviceRequires, DeviceFails, PublishResult, Retire, FinishRecord, FinishDiffers, FinishClose,
        ExceptClose, BeforeRecovery, RecoverClosed, RecoverAborted, RecoverRefused, RecoverAborts,
        RecoverDevice, At
    <3>4. proc.pc # "idle"
      BY <2>1 DEF Step, PublishReservation, PublishSidecar, CheckStart, Recheck, RecheckFails,
        Approve, Arm, CheckEffect, AbortBeforeEffect, BeginOwner, RequestIntent, DeviceEnds,
        DeviceRequires, DeviceFails, PublishResult, Retire, FinishRecord, FinishDiffers, FinishClose,
        ExceptClose, BeforeRecovery, RecoverClosed, RecoverAborted, RecoverRefused, RecoverAborts,
        RecoverDevice, At
    <3>5. QED
      BY <1>3, <1>8, <1>9, <2>1, <3>1, <3>2, <3>3, <3>4
  <2>2. CASE Interrupt
    <3>1. Kept
      BY <2>2 DEF Interrupt, Kept, Shape, TypeOK
    <3>2. QED
      BY <1>3, <2>2, <3>1, LeaveSteps
  <2>3. QED
    BY <1>4, <1>5, <1>6, <1>7, <2>1, <2>2 DEF Next
<1>10. r_ \in Run /\ g_ \in Grant \cup {None} /\ proc \in Process
  BY AtWork
<1> DEFINE Lab == Label \ {"idle", "publish", "sidecar"}
<1>11. ASSUME NEW label \in Lab, NEW kind, Goes(label, kind), dir'[r_].auth = dir[r_].auth,
              Position', label = "result" => Publishing'
       PROVE  Known'
  BY <1>1, <1>10, <1>11, GoesFrame DEF Known, Goes
<1>12. CASE CheckStart
  <2>1. Goes("recheck", proc.kind) /\ UNCHANGED dir
    BY <1>12, ProcSteps DEF CheckStart, LocalStep
  <2>2. Position'
    BY <1>1, <1>10, <1>12, <2>1 DEF CheckStart, Known, Goes, Position, At, Opening, Terminal
  <2>3. QED
    BY <1>11, <2>1, <2>2 DEF Label
<1>13. CASE Arm
  <2>1. (Goes("effect", proc.kind) \/ Goes("abort", proc.kind)) /\ UNCHANGED dir
    BY <1>13, ProcSteps DEF Arm, LocalStep
  <2>2. Position'
    BY <1>1, <1>10, <1>13, <2>1 DEF Arm, Known, Goes, Position, At, Opening, Terminal
  <2>3. QED
    BY <1>11, <2>1, <2>2 DEF Label
<1>14. CASE CheckEffect
  <2>1. (Goes("abort", proc.kind) \/ Goes("own", proc.kind)) /\ UNCHANGED dir
    BY <1>14, ProcSteps DEF CheckEffect, LocalStep
  <2>2. Position'
    BY <1>1, <1>10, <1>14, <2>1 DEF CheckEffect, Known, Goes, Position, At, Opening, Terminal
  <2>3. QED
    BY <1>11, <2>1, <2>2 DEF Label
<1>15. CASE BeginOwner
  <2>1. Goes("request", proc.kind) /\ UNCHANGED dir
    BY <1>15, ProcSteps DEF BeginOwner, LocalStep
  <2>2. Position'
    BY <1>1, <1>10, <1>15, <2>1 DEF BeginOwner, Known, Goes, Position, At, Opening, Terminal
  <2>3. QED
    BY <1>11, <2>1, <2>2 DEF Label
<1>16. CASE Retire
  <2>1. Goes("finish", proc.kind) /\ UNCHANGED dir /\ g_ # None
    BY <1>16, ProcSteps DEF Retire, LocalStep
  <2>2. Position'
    BY <1>1, <1>10, <1>16, <2>1 DEF Retire, Known, Goes, Position, At, Opening, Terminal
  <2>3. QED
    BY <1>11, <2>1, <2>2 DEF Label
<1>17. CASE FinishRecord
  <2>1. Goes("close", proc.kind) /\ UNCHANGED dir
    BY <1>17, ProcSteps DEF FinishRecord, LocalStep
  <2>2. Position'
    BY <1>1, <1>10, <1>17, <2>1 DEF FinishRecord, Known, Goes, Position, At, Opening, Terminal
  <2>3. QED
    BY <1>11, <2>1, <2>2 DEF Label
<1>18. CASE BeforeRecovery
  <2>1. Goes("recover", proc.kind) /\ UNCHANGED dir
    BY <1>18, ProcSteps DEF BeforeRecovery, LocalStep
  <2>2. Position'
    BY <1>1, <1>10, <1>18, <2>1 DEF BeforeRecovery, Known, Goes, Position, At, Opening, Terminal
  <2>3. QED
    BY <1>11, <2>1, <2>2 DEF Label
<1>19. CASE RecoverDevice
  <2>1. Goes("device", proc.kind) /\ UNCHANGED dir
    BY <1>19, ProcSteps DEF RecoverDevice, LocalStep
  <2>2. Position'
    BY <1>1, <1>10, <1>19, <2>1 DEF RecoverDevice, Known, Goes, Position, At, Opening, Terminal
  <2>3. QED
    BY <1>11, <2>1, <2>2 DEF Label
<1>20. CASE RecoverClosed
  <2>1. PICK kind \in ClosedKind : /\ dir[r_].result.kind \in {"none", kind}
                                  /\ Goes("result", kind) /\ UNCHANGED dir
    BY <1>20, ProcSteps DEF RecoverClosed, LocalStep
  <2>2. Position'
    BY <1>1, <1>10, <2>1 DEF Known, Goes, Position, At, Opening
  <2>3. Publishing'
    BY <1>20, <2>1 DEF RecoverClosed, Goes, Publishing, At, Eligible, ClosedKind
  <2>4. QED
    BY <1>11, <2>1, <2>2, <2>3 DEF Label
<1>21. CASE RecoverAborted
  <2>1. /\ Goes("result", IF dir[r_].request THEN "local_parse" ELSE "pre_effect")
        /\ UNCHANGED dir
    BY <1>21, ProcSteps DEF RecoverAborted, LocalStep
  <2>2. Position'
    BY <1>1, <1>10, <2>1 DEF Known, Goes, Position, At, Opening
  <2>3. dir[r_].journal = "ABORTED" /\ Files(r_)
    BY <1>21, <1>1, <1>10 DEF RecoverAborted
  <2>4. Publishing'
    BY <2>1, <2>3 DEF Goes, Publishing, At, Eligible, ClosedKind, Files
  <2>5. QED
    BY <1>11, <2>1, <2>2, <2>4 DEF Label
<1>22. CASE Recheck
  <2>1. Goes("approve", proc.kind)
    BY <1>22, ProcSteps
  <2>2. Becomes(dir[r_].auth, "PREFLIGHT", dir[r_].by, dir[r_].phases, dir[r_].request,
                dir[r_].result)
    BY <1>22, <1>10, DirSteps
  <2>3. Position'
    BY <1>1, <1>10, <1>22, <2>1, <2>2 DEF Recheck, Known, Goes, Position, At, Opening, Terminal, Becomes
  <2>4. QED
    BY <1>11, <2>1, <2>2, <2>3 DEF Label, Becomes
<1>23. CASE Approve
  <2>1. Goes("arm", proc.kind)
    BY <1>23, ProcSteps
  <2>2. Becomes(dir[r_].auth, "APPROVED", IF g_ = None THEN "token" ELSE "session",
                dir[r_].phases, dir[r_].request, dir[r_].result)
    BY <1>23, <1>10, DirSteps
  <2>3. Position'
    BY <1>1, <1>10, <1>23, <2>1, <2>2 DEF Approve, Known, Goes, Position, At, Opening, Terminal, Becomes
  <2>4. QED
    BY <1>11, <2>1, <2>2, <2>3 DEF Label, Becomes
<1>24. CASE RequestIntent
  <2>1. Goes("device", proc.kind)
    BY <1>24, ProcSteps
  <2>2. Becomes(dir[r_].auth, dir[r_].journal, dir[r_].by, dir[r_].phases, TRUE,
                dir[r_].result)
    BY <1>24, <1>10, DirSteps
  <2>3. Position'
    BY <1>1, <1>10, <1>24, <2>1, <2>2 DEF RequestIntent, Known, Goes, Position, At, Opening, Terminal, Becomes
  <2>4. QED
    BY <1>11, <2>1, <2>2, <2>3 DEF Label, Becomes
<1>25. CASE PublishResult
  <2>1. Goes("retire", proc.kind)
    BY <1>25, ProcSteps
  <2>2. Becomes(dir[r_].auth, dir[r_].journal, dir[r_].by, dir[r_].phases,
                dir[r_].request, [kind |-> proc.kind, at |-> dir[r_].phases])
    BY <1>25, <1>10, DirSteps
  <2>3. Position'
    BY <1>1, <1>10, <1>25, <2>1, <2>2 DEF PublishResult, Known, Goes, Position, At, Opening, Terminal, Becomes
  <2>4. QED
    BY <1>11, <2>1, <2>2, <2>3 DEF Label, Becomes
<1>26. CASE AbortBeforeEffect \/ RecoverAborts
  <2>1. Goes("result", "pre_effect")
    BY <1>26, ProcSteps
  <2>2. Becomes(dir[r_].auth, "ABORTED", dir[r_].by, dir[r_].phases, dir[r_].request,
                dir[r_].result)
    BY <1>26, <1>10, DirSteps
  <2>3. Position'
    BY <1>1, <1>10, <2>1 DEF Known, Goes, Position, At, Opening
  <2>4. ~dir[r_].request /\ dir[r_].result.kind \in {"none", "required"}
    BY <1>26, <1>1, <1>10 DEF AbortBeforeEffect, RecoverAborts, Known, Position, At, Opening, Files
  <2>5. Publishing'
    BY <2>1, <2>2, <2>4 DEF Goes, Publishing, At, Eligible, ClosedKind, Becomes
  <2>6. QED
    BY <1>11, <2>1, <2>2, <2>3, <2>5 DEF Label, Becomes
<1>27. ASSUME NEW kind \in Kind, DeviceEnds(kind) PROVE Known'
  <2>1. Goes("result", kind)
    BY <1>27, ProcSteps
  <2>2. Becomes(dir[r_].auth, IF kind \in ClosedKind THEN "CLOSED" ELSE "ABORTED",
                dir[r_].by, dir[r_].phases + 1, dir[r_].request, dir[r_].result)
    BY <1>27, <1>10, DirSteps
  <2>3. Position'
    BY <1>1, <1>10, <2>1 DEF Known, Goes, Position, At, Opening
  <2>4. /\ kind \in {"pass", "no_proof", "local_parse", "parse_recovered"}
        /\ dir[r_].result.kind \in {"none", "required"}
    BY <1>27, <1>1, <1>10 DEF DeviceEnds, ClosedKind, Known, Position, At, Files
  <2>5. Publishing'
    BY <2>1, <2>2, <2>4 DEF Goes, Publishing, At, Eligible, ClosedKind, Becomes
  <2>6. QED
    BY <1>11, <2>1, <2>2, <2>3, <2>5 DEF Label, Becomes
<1>28. CASE DeviceRequires
  <2>1. Goes("result", "required")
    BY <1>28, ProcSteps
  <2>2. Position'
    BY <1>1, <1>10, <2>1 DEF Known, Goes, Position, At, Opening
  <2>3. dir[r_].result.kind \in {"none", "required"}
    BY <1>28, <1>1, <1>10 DEF DeviceRequires, Known, Position, At, Files
  <2>4. dir'[r_].result = dir[r_].result /\ dir'[r_].auth = dir[r_].auth
    BY <1>28, <1>10, DirSteps DEF Becomes
  <2>5. Publishing'
    BY <2>1, <2>3, <2>4 DEF Goes, Publishing, At, Eligible, ClosedKind
  <2>6. QED
    BY <1>11, <2>1, <2>2, <2>4, <2>5 DEF Label
<1>29. QED
  BY <1>12, <1>13, <1>14, <1>15, <1>16, <1>17, <1>18, <1>19, <1>20, <1>21, <1>22, <1>23,
     <1>24, <1>25, <1>26, <1>27, <1>28, <1>8, <1>9, LeaveSteps DEF Step

\* The owner file and the histories name runs and grants.
LEMMA NamesStep ==
    ASSUME Shape, Next
    PROVE  /\ owner' \in Run \cup {None}
           /\ broken' \subseteq Grant /\ late' \subseteq Run /\ spoiled' \subseteq Run
<1>1. owner \in Run \cup {None} /\ broken \subseteq Grant /\ late \subseteq Run /\ spoiled \subseteq Run
  BY DEF Shape, TypeOK
<1>2. /\ proc.pc # "idle" => r_ \in Run
      /\ g_ # None => g_ \in Grant
  BY AtWork
<1>3. Cut \subseteq Grant
  BY <1>1, <1>2 DEF Cut
<1>4. CASE UNCHANGED <<owner, history>>
  BY <1>1, <1>4 DEF history
<1>5. CASE BeginOwner \/ Retire
  BY <1>1, <1>2, <1>5 DEF BeginOwner, Retire, At, history
<1>6. CASE RequestIntent
  BY <1>1, <1>2, <1>6 DEF RequestIntent, At
<1>7. CASE FinishDiffers
  BY <1>1, <1>2, <1>7 DEF FinishDiffers, At
<1>8. CASE CheckStart \/ RecheckFails \/ DeviceRequires \/ DeviceFails \/ Interrupt
  BY <1>1, <1>3, <1>8 DEF CheckStart, RecheckFails, DeviceRequires, DeviceFails, Interrupt
<1>9. CASE \E g \in Grant : OpenSession(g) \/ Withdraw(g) \/ Lapse(g)
  BY <1>4, <1>9 DEF OpenSession, Withdraw, Lapse
<1>10. CASE \E g \in Grant, r \in Run : Reserve(g, r) \/ ReserveRefused(g, r)
  BY <1>4, <1>10 DEF Reserve, ReserveRefused, LocalStep
<1>11. CASE \E r \in Run : ExecuteToken(r) \/ Recover(r)
  BY <1>4, <1>11 DEF ExecuteToken, Recover, LocalStep
<1>12. CASE Step
  BY <1>4, <1>5, <1>6, <1>7, <1>8, <1>12 DEF Step, PublishReservation, PublishSidecar, Recheck,
        Approve, Arm, CheckEffect, AbortBeforeEffect, DeviceEnds, PublishResult, FinishRecord,
        FinishClose, ExceptClose, BeforeRecovery, RecoverClosed, RecoverAborted, RecoverRefused,
        RecoverAborts, RecoverDevice, LocalStep
<1>13. QED
  BY <1>8, <1>9, <1>10, <1>11, <1>12 DEF Next

\* Nothing is reserved, opened or executed yet.
LEMMA ShapeInit == ASSUME Init PROVE Shape
<1>1. NoResult \in Result /\ NoAuth \in Authorization /\ MaxFaults \in Nat
  BY SessionAssumption DEF NoResult, Result, Kind, NoAuth, Authorization, LIMIT
<1>2. session \in [Grant -> GrantFiles]
  <2>1. [i \in 1..LIMIT |-> NoResult] \in [1..LIMIT -> Result]
    BY <1>1
  <2>2. [open |-> FALSE, closed |-> FALSE, lapsed |-> FALSE, reserved |-> <<>>,
         completed |-> [i \in 1..LIMIT |-> NoResult]] \in GrantFiles
    BY <2>1 DEF GrantFiles
  <2>3. QED
    BY <2>2 DEF Init
<1>3. dir \in [Run -> RunFiles]
  <2>1. [auth |-> NoAuth, journal |-> "none", by |-> "none", phases |-> 0, request |-> FALSE,
         result |-> NoResult] \in RunFiles
    BY <1>1 DEF RunFiles, JournalState
  <2>2. QED
    BY <2>1 DEF Init
<1>4. proc.pc = "idle" /\ proc = IdleProc /\ proc \in Process
  BY DEF Init, IdleProc, Enter, Process, Label, Kind
<1>5. \A g \in Grant : session[g].reserved = <<>> /\ Ordinals(g) = {} /\ Len(session[g].reserved) = 0
  BY DEF Init, Ordinals
<1>6. TypeOK
  <2>1. \A g \in Grant : Len(session[g].reserved) <= Budget[g]
    BY <1>5, SessionAssumption DEF LIMIT
  <2>2. owner = None /\ faults = 0 /\ broken = {} /\ late = {} /\ spoiled = {}
    BY DEF Init
  <2>3. QED
    BY <1>1, <1>2, <1>3, <1>4, <2>1, <2>2 DEF TypeOK
<1>7. Position /\ Publishing /\ Entitled
  BY <1>4 DEF Position, Publishing, Entitled, At, Opening
<1>8. ReservedOnce
  BY <1>5 DEF ReservedOnce
<1>9. \A r \in Run : Files(r) /\ Authorized(r)
  BY <1>1 DEF Init, Files, Authorized, NoResult, ClosedKind
<1>10. QED
  BY <1>6, <1>7, <1>8, <1>9 DEF Shape

\* Shape is preserved by every step.
LEMMA ShapeStep == ASSUME Shape, [Next]_vars PROVE Shape'
<1>1. CASE Next
  <2>1. TypeOK'
    BY <1>1, FaultsGrow, FilesStep, AuthorityStep, KnownStep, NamesStep DEF TypeOK, Known
  <2>2. QED
    BY <1>1, <2>1, FilesStep, AuthorityStep, KnownStep DEF Shape, Known
<1>2. CASE UNCHANGED vars
  BY <1>2 DEF Shape, TypeOK, Position, Publishing, Entitled, ReservedOnce, Files, Authorized,
        vars, history, At, r_, g_, Ordinals, RunAt, Unreserved, ReservedIn, Eligible
<1>3. QED
  BY <1>1, <1>2

\* Every file of a session has its type: above all, reserve never goes past the
\* budget of a grant, and a result counts no more device phases than there were.
THEOREM SessionTypes == Spec => []TypeOK
<1>1. Init => Shape
  BY ShapeInit
<1>2. Shape /\ [Next]_vars => Shape'
  BY ShapeStep
<1>3. Shape => TypeOK
  BY DEF Shape
<1>4. QED
  BY <1>1, <1>2, <1>3, PTL DEF Spec

\* The reservation is the authority: no run has two, an exact token never
\* executes a reserved run, and a session executes what it reserved.
THEOREM SessionOneAuthority == Spec => []OneAuthority
<1>1. Init => Shape
  BY ShapeInit
<1>2. Shape /\ [Next]_vars => Shape'
  BY ShapeStep
<1>3. Shape => OneAuthority
  <2> SUFFICES ASSUME Shape PROVE OneAuthority
    OBVIOUS
  <2>1. ReservedOnce /\ \A r \in Run : Files(r) /\ Authorized(r)
    BY DEF Shape
  <2>2. \A r \in Run : dir[r].by = "token" => Unreserved(r)
    BY <2>1 DEF Files, Authorized
  <2>3. QED
    BY <2>1, <2>2 DEF OneAuthority, ReservedOnce, Authorized
<1>4. QED
  BY <1>1, <1>2, <1>3, PTL DEF Spec

----------------------------------------------------------------------------
(* A withdrawn or expired grant.                                           *)

\* A dead grant stays dead.
LEMMA DeadStays ==
    ASSUME Shape, Next, NEW g \in Grant, Dead(g)
    PROVE  Dead(g)'
<1>1. CASE Kept
  BY <1>1 DEF Kept, Dead
<1>2. CASE Adds(g_, r_)
  BY <1>2 DEF Adds, Dead
<1>3. QED
  BY <1>1, <1>2, SessionSteps

\* The grant in a sidecar is never rewritten.
LEMMA AuthStays ==
    ASSUME Shape, Next, NEW r \in Run, dir[r].auth # NoAuth
    PROVE  dir'[r].auth = dir[r].auth
<1>1. CASE UNCHANGED dir
  BY <1>1
<1> SUFFICES ASSUME dir' # dir PROVE dir'[r].auth = dir[r].auth
  BY <1>1
<1>2. /\ PublishSidecar \/ Recheck \/ Approve \/ AbortBeforeEffect \/ RequestIntent
         \/ (\E kind \in Kind : DeviceEnds(kind))
         \/ DeviceRequires \/ PublishResult \/ RecoverAborts
      /\ proc.pc # "idle"
  BY DirKept DEF PublishSidecar, Recheck, Approve, AbortBeforeEffect, RequestIntent,
         DeviceEnds, DeviceRequires, PublishResult, RecoverAborts, At
<1>3. r_ \in Run
  BY <1>2, AtWork
<1>4. CASE PublishSidecar
  <2>1. dir[r_].auth = NoAuth
    BY <1>4 DEF Shape, Entitled, PublishSidecar, At
  <2>2. QED
    BY <1>3, <1>4, <2>1, DirSteps DEF Becomes
<1>5. QED
  BY <1>2, <1>3, <1>4, DirSteps DEF Becomes

\* The steps of a process are these; anyone else leaves it alone.
LEMMA Movers ==
    ASSUME Shape, Next
    PROVE  \/ UNCHANGED proc
           \/ Leaves
           \/ \E g \in Grant, r \in Run : Reserve(g, r)
           \/ \E r \in Run : ExecuteToken(r) \/ Recover(r)
           \/ Step /\ proc.pc # "idle"
<1>1. ASSUME NEW g \in Grant, OpenSession(g) \/ Withdraw(g) \/ Lapse(g)
      PROVE  UNCHANGED proc
  BY <1>1 DEF OpenSession, Withdraw, Lapse
<1>2. ASSUME NEW g \in Grant, NEW r \in Run, ReserveRefused(g, r) PROVE UNCHANGED proc
  BY <1>2 DEF ReserveRefused
<1>3. Interrupt => Leaves
  BY LeaveSteps
<1>4. Step => proc.pc # "idle"
  BY DEF Step, PublishReservation, PublishSidecar, CheckStart, Recheck, RecheckFails,
        Approve, Arm, CheckEffect, AbortBeforeEffect, BeginOwner, RequestIntent, DeviceEnds,
        DeviceRequires, DeviceFails, PublishResult, Retire, FinishRecord, FinishDiffers,
        FinishClose, ExceptClose, BeforeRecovery, RecoverClosed, RecoverAborted,
        RecoverRefused, RecoverAborts, RecoverDevice, At
<1>5. QED
  BY <1>1, <1>2, <1>3, <1>4 DEF Next

\* A process comes to its request from the check.
LEMMA Checked ==
    ASSUME Shape, Next, proc'.pc \in {"own", "request"}
    PROVE  \/ UNCHANGED proc
           \/ CheckEffect /\ Goes("own", proc.kind) /\ (g_ = None \/ Active(g_))
           \/ BeginOwner /\ Goes("request", proc.kind)
<1>1. ~Leaves
  BY DEF Leaves, Goes, IdleProc, Enter
<1>2. ~ \E g \in Grant, r \in Run : Reserve(g, r)
  BY DEF Reserve, Enter
<1>3. ~ \E r \in Run : ExecuteToken(r) \/ Recover(r)
  BY DEF ExecuteToken, Recover, Enter
<1>4. CASE Step
  BY <1>1, <1>4, ProcSteps, LeaveSteps DEF Step, Goes
<1>5. QED
  BY <1>1, <1>2, <1>3, <1>4, Movers

\* The history of late requests grows with RequestIntent only.
LEMMA LateGrows ==
    ASSUME Next
    PROVE  UNCHANGED late \/ RequestIntent
  BY DEF Next, Step, OpenSession, Withdraw, Lapse, Reserve, ReserveRefused, ExecuteToken,
        Recover, PublishReservation, PublishSidecar, CheckStart, Recheck, RecheckFails, Approve,
        Arm, CheckEffect, AbortBeforeEffect, BeginOwner, DeviceEnds, DeviceRequires,
        DeviceFails, PublishResult, Retire, FinishRecord, FinishDiffers, FinishClose,
        ExceptClose, BeforeRecovery, RecoverClosed, RecoverAborted, RecoverRefused,
        RecoverAborts, RecoverDevice, Interrupt, LocalStep, history

\* A second late request would need an active grant at its check, after the first.
LEMMA LateStep == ASSUME Shape, LateInv, [Next]_vars PROVE LateInv'
<1>1. late \subseteq Run /\ None \notin Grant
  BY SessionAssumption DEF Shape, TypeOK
<1>2. CASE UNCHANGED vars
  BY <1>2 DEF LateInv, vars, history, Dead, WithdrawnStops, g_
<1> SUFFICES ASSUME Next PROVE LateInv'
  BY <1>2
<1>3. \A r \in late : /\ r \in Run /\ dir[r].auth.grant \in Grant
                      /\ Dead(dir[r].auth.grant) /\ dir[r].auth # NoAuth
  BY <1>1 DEF LateInv, NoAuth
<1>4. \A r \in late : dir'[r].auth = dir[r].auth
  BY <1>3, AuthStays
<1>5. \A r \in late : dir'[r].auth.grant \in Grant /\ Dead(dir[r].auth.grant)'
  <2> TAKE r \in late
  <2>1. PICK g \in Grant : g = dir[r].auth.grant
    BY <1>3
  <2>2. Dead(g)'
    BY <1>3, <2>1, DeadStays
  <2>3. QED
    BY <1>4, <2>1, <2>2 DEF Dead
<1>6. CASE UNCHANGED late
  <2>1. WithdrawnStops'
    BY <1>4, <1>6 DEF LateInv, WithdrawnStops
  <2>2. ASSUME proc'.pc \in {"own", "request"}, g_' # None
        PROVE  \A r \in late : dir'[r].auth.grant # g_'
    <3>1. CASE UNCHANGED proc
      BY <1>4, <2>2, <3>1 DEF LateInv, g_
    <3>2. CASE CheckEffect /\ Goes("own", proc.kind) /\ (g_ = None \/ Active(g_))
      BY <1>3, <1>4, <2>2, <3>2 DEF Goes, Active, Dead
    <3>3. CASE BeginOwner /\ Goes("request", proc.kind)
      BY <1>4, <2>2, <3>3 DEF LateInv, Goes, BeginOwner, At
    <3>4. QED
      BY <2>2, <3>1, <3>2, <3>3, Checked
  <2>3. QED
    BY <1>5, <1>6, <2>1, <2>2 DEF LateInv
<1>7. CASE RequestIntent /\ late' # late
  <2>1. /\ At("request") /\ g_ # None /\ late' = late \cup {r_} /\ UNCHANGED session
        /\ session[g_].closed \/ session[g_].lapsed
    BY <1>7 DEF RequestIntent
  <2>2. r_ \in Run /\ g_ \in Grant /\ dir[r_].auth.grant = g_ /\ dir'[r_].auth = dir[r_].auth
    <3>1. r_ \in Run /\ g_ \in Grant /\ dir[r_].auth.grant = g_
      BY <2>1, AtWork DEF Shape, Entitled, At
    <3>2. QED
      BY <1>7, <3>1, DirSteps DEF Becomes
  <2>3. proc'.pc = "device"
    BY <1>7, ProcSteps DEF Goes
  <2>4. \A r \in late : dir[r].auth.grant # g_
    BY <2>1 DEF LateInv, At
  <2>5. WithdrawnStops'
    BY <1>4, <2>1, <2>2, <2>4 DEF LateInv, WithdrawnStops
  <2>6. \A r \in late' : dir'[r].auth.grant \in Grant /\ Dead(dir[r].auth.grant)'
    BY <1>5, <2>1, <2>2 DEF Dead
  <2>7. QED
    BY <2>3, <2>5, <2>6 DEF LateInv
<1>8. QED
  BY <1>6, <1>7, LateGrows

\* check_effect_start is not atomic with the request it precedes: a withdrawn
\* or expired grant may see one experiment begin, never a second.
THEOREM SessionWithdrawnStops == Spec => []WithdrawnStops
<1>1. Init => Shape /\ LateInv
  <2> SUFFICES ASSUME Init PROVE LateInv
    BY ShapeInit
  <2>1. late = {} /\ proc.pc = "idle"
    BY DEF Init, IdleProc, Enter
  <2>2. QED
    BY <2>1 DEF LateInv, WithdrawnStops
<1>2. Shape /\ LateInv /\ [Next]_vars => Shape' /\ LateInv'
  BY ShapeStep, LateStep
<1>3. LateInv => WithdrawnStops
  BY DEF LateInv
<1>4. QED
  BY <1>1, <1>2, <1>3, PTL DEF Spec

----------------------------------------------------------------------------
(* A cut run ends its session.                                             *)

\* The reservation that the process of a reserved run works under.
LEMMA OwnReservation ==
    ASSUME Shape, proc.pc \notin {"idle", "publish"}, g_ # None
    PROVE  g_ \in Grant /\ r_ \in Run /\ \E i \in Ordinals(g_) : RunAt(g_, i) = r_
<1>1. g_ \in Grant /\ r_ \in Run
  BY AtWork
<1>2. CASE proc.pc = "sidecar"
  BY <1>1, <1>2 DEF Shape, Entitled, At
<1>3. CASE proc.pc # "sidecar"
  <2>1. dir[r_].auth.grant = g_ /\ Authorized(r_)
    BY <1>1, <1>3 DEF Shape, Entitled
  <2>2. dir[r_].auth # NoAuth
    BY <2>1 DEF NoAuth
  <2>3. QED
    BY <1>1, <2>1, <2>2 DEF Authorized
<1>4. QED
  BY <1>2, <1>3

\* The journal of a run ends in three steps of its process, and never begins
\* again.
LEMMA JournalEnds ==
    ASSUME Shape, Next, NEW r \in Run
    PROVE  /\ dir[r].journal \in Terminal => dir'[r].journal \in Terminal
           /\ dir[r].journal \notin Terminal /\ dir'[r].journal \in Terminal =>
                 /\ r = r_
                 /\ AbortBeforeEffect \/ RecoverAborts \/ \E kind \in Kind : DeviceEnds(kind)
<1>1. CASE UNCHANGED dir
  BY <1>1
<1> SUFFICES ASSUME dir' # dir
             PROVE  /\ dir[r].journal \in Terminal => dir'[r].journal \in Terminal
                    /\ dir[r].journal \notin Terminal /\ dir'[r].journal \in Terminal =>
                          /\ r = r_
                          /\ \/ AbortBeforeEffect \/ RecoverAborts
                             \/ \E kind \in Kind : DeviceEnds(kind)
  BY <1>1
<1>2. /\ \/ PublishSidecar \/ Recheck \/ Approve \/ AbortBeforeEffect \/ RequestIntent
         \/ (\E kind \in Kind : DeviceEnds(kind))
         \/ DeviceRequires \/ PublishResult \/ RecoverAborts
      /\ proc.pc # "idle"
  BY DirKept DEF PublishSidecar, Recheck, Approve, AbortBeforeEffect, RequestIntent,
         DeviceEnds, DeviceRequires, PublishResult, RecoverAborts, At
<1>3. r_ \in Run
  BY <1>2, AtWork
<1>4. CASE PublishSidecar \/ RequestIntent \/ DeviceRequires \/ PublishResult
  BY <1>3, <1>4, DirSteps DEF Becomes
<1>5. CASE Recheck \/ Approve
  <2>1. dir[r_].journal \notin Terminal
    BY <1>5 DEF Shape, Position, Opening, Recheck, Approve, At
  <2>2. dir'[r_].journal \notin Terminal /\ (r # r_ => dir'[r] = dir[r])
    BY <1>3, <1>5, DirSteps DEF Becomes, Terminal
  <2>3. QED
    BY <2>1, <2>2
<1>6. CASE AbortBeforeEffect \/ RecoverAborts \/ \E kind \in Kind : DeviceEnds(kind)
  <2>1. dir'[r_].journal \in Terminal /\ (r # r_ => dir'[r] = dir[r])
    BY <1>3, <1>6, DirSteps DEF Becomes, Terminal
  <2>2. QED
    BY <1>6, <2>1
<1>7. QED
  BY <1>2, <1>4, <1>5, <1>6

\* A grant is broken by a cut of the run of its process, which ends no journal.
LEMMA BrokenGrows ==
    ASSUME Shape, Next
    PROVE  \/ UNCHANGED broken
           \/ /\ broken' = Cut /\ proc.pc \notin {"idle", "publish"}
              /\ Leaves \/ (DeviceRequires /\ Goes("result", "required"))
<1>1. CASE \/ CheckStart /\ ~Active(g_)
           \/ RecheckFails \/ DeviceFails \/ Interrupt
  <2>1. Leaves
    BY <1>1, LeaveSteps
  <2>2. UNCHANGED broken \/ (broken' = Cut /\ proc.pc \notin {"idle", "publish"})
    BY <1>1, AtWork DEF CheckStart, RecheckFails, DeviceFails, Interrupt, At
  <2>3. QED
    BY <2>1, <2>2
<1>2. CASE DeviceRequires
  BY <1>2, ProcSteps DEF DeviceRequires, At
<1>3. CASE CheckStart /\ Active(g_)
  BY <1>3 DEF CheckStart
<1>4. CASE \E g \in Grant : OpenSession(g) \/ Withdraw(g) \/ Lapse(g)
  BY <1>4 DEF OpenSession, Withdraw, Lapse, history
<1>5. CASE \E g \in Grant, r \in Run : Reserve(g, r) \/ ReserveRefused(g, r)
  BY <1>5 DEF Reserve, ReserveRefused, LocalStep, history
<1>6. CASE \E r \in Run : ExecuteToken(r) \/ Recover(r)
  BY <1>6 DEF ExecuteToken, Recover, LocalStep, history
<1>7. CASE Step
  BY <1>1, <1>2, <1>3, <1>7 DEF Step, PublishReservation, PublishSidecar, Recheck, Approve,
        Arm, CheckEffect, AbortBeforeEffect, BeginOwner, RequestIntent, DeviceEnds,
        PublishResult, Retire, FinishRecord, FinishDiffers, FinishClose, ExceptClose,
        BeforeRecovery, RecoverClosed, RecoverAborted, RecoverRefused, RecoverAborts,
        RecoverDevice, LocalStep, history
<1>8. QED
  BY <1>1, <1>4, <1>5, <1>6, <1>7 DEF Next

\* A broken grant stays dead, or keeps its run without an end.
LEMMA BrokenStays ==
    ASSUME Shape, BrokenInv, Next, NEW g \in broken'
    PROVE  Dead(g)' \/ \E i \in Ordinals(g)' : dir'[RunAt(g, i)'].journal \notin Terminal
<1>1. broken \subseteq Grant /\ broken' \subseteq Grant /\ session \in [Grant -> GrantFiles]
  BY NamesStep DEF Shape, TypeOK
<1>2. g \in Grant
  BY <1>1
<1>3. \A i \in Ordinals(g) : i \in Ordinals(g)' /\ RunAt(g, i)' = RunAt(g, i) /\ RunAt(g, i) \in Run
  <2>1. session[g].reserved \in Seq(Run)
    BY <1>1, <1>2 DEF GrantFiles
  <2>2. \A i \in Ordinals(g) : RunAt(g, i) \in Run
    BY <2>1 DEF Ordinals, RunAt
  <2>3. CASE Kept
    BY <1>2, <2>2, <2>3, KeptFrame
  <2>4. CASE PublishReservation /\ Adds(g_, r_)
    <3>1. PICK o \in Grant, w \in Run : o = g_ /\ w = r_
      BY <2>4, AtWork DEF PublishReservation, At, Shape, Position
    <3>2. PICK n \in Nat : Extended(o, w, n)
      BY <1>1, <2>4, <3>1, AddsFrame
    <3>3. QED
      BY <1>2, <2>2, <3>2 DEF Extended
  <2>5. QED
    BY <2>3, <2>4, SessionSteps
<1>4. CASE g \in broken /\ Dead(g)
  BY <1>2, <1>4, DeadStays
<1>5. CASE g \in broken /\ ~Dead(g)
  <2>1. PICK i \in Ordinals(g) : dir[RunAt(g, i)].journal \notin Terminal
    BY <1>5 DEF BrokenInv
  <2>2. PICK w \in Run : w = RunAt(g, i)
    BY <1>3
  <2>3. ASSUME dir'[w].journal \in Terminal PROVE FALSE
    <3>1. w = r_ /\ (AbortBeforeEffect \/ RecoverAborts \/ \E kind \in Kind : DeviceEnds(kind))
      BY <2>1, <2>2, <2>3, JournalEnds
    <3>2. proc.pc \in {"abort", "recover", "device"}
      BY <3>1 DEF AbortBeforeEffect, RecoverAborts, DeviceEnds, At
    <3>3. g_ # None
      <4>1. ~Unreserved(r_)
        BY <1>2, <2>2, <3>1 DEF Unreserved, ReservedIn
      <4>2. QED
        BY <3>2, <4>1 DEF Shape, Entitled
    <3>4. g_ = g
      BY <1>2, <2>2, <3>1, <3>2, <3>3, OwnReservation DEF Shape, ReservedOnce
    <3>5. proc.mode = "recover"
      BY <1>5, <3>2, <3>4 DEF Shape, Position, At, BrokenInv, Opening
    <3>6. session[g].closed
      BY <2>1, <2>2, <3>1, <3>2, <3>3, <3>4, <3>5 DEF BrokenInv
    <3>7. QED
      BY <1>5, <3>6 DEF Dead
  <2>4. QED
    BY <1>3, <2>1, <2>2, <2>3
<1>6. CASE g \notin broken
  <2>1. /\ broken' = Cut /\ proc.pc \notin {"idle", "publish"}
        /\ Leaves \/ DeviceRequires
    BY <1>6, BrokenGrows
  <2>2. g = g_ /\ g_ # None /\ dir[r_].journal \notin Terminal
    BY <1>6, <2>1 DEF Cut
  <2>3. PICK i \in Ordinals(g) : RunAt(g, i) = r_
    BY <2>1, <2>2, OwnReservation
  <2>4. dir'[r_].journal = dir[r_].journal
    <3>1. r_ \in Run
      BY <2>1, AtWork
    <3>2. CASE UNCHANGED dir
      BY <3>2
    <3>3. QED
      BY <2>1, <3>1, <3>2, DirSteps DEF Leaves, Becomes
  <2>5. QED
    BY <1>3, <2>2, <2>3, <2>4
<1>7. QED
  BY <1>4, <1>5, <1>6

\* reserve follows the earlier reservations: it refuses a broken grant.
LEMMA BrokenRefused ==
    ASSUME Shape, BrokenInv, NEW g \in Grant, NEW r \in Run, Reserve(g, r)
    PROVE  g \notin broken
<1> SUFFICES ASSUME g \in broken PROVE FALSE
  OBVIOUS
<1>1. Active(g) /\ ~ReplayEnds(g)
  BY DEF Reserve, MayReserve
<1>2. PICK i \in Ordinals(g) : dir[RunAt(g, i)].journal \notin Terminal
  BY <1>1 DEF BrokenInv, Active, Dead
<1>3. RunAt(g, i) \in Run
  <2>1. session[g] \in GrantFiles
    BY DEF Shape, TypeOK
  <2>2. session[g].reserved \in Seq(Run)
    BY <2>1 DEF GrantFiles
  <2>3. QED
    BY <2>2 DEF Ordinals, RunAt
<1>4. dir[RunAt(g, i)].result.kind \in {"none", "required"}
  BY <1>2, <1>3 DEF Shape, Files
<1>5. QED
  BY <1>1, <1>2, <1>4 DEF ReplayEnds, Ends, Eligible

\* An execution goes on only while its grant is not broken.
LEMMA UnbrokenStep ==
    ASSUME Shape, BrokenInv, Next,
           proc'.pc \in Opening \cup {"device"}, proc'.mode = "execute"
    PROVE  g_' \notin broken'
<1>1. broken \subseteq Grant /\ None \notin Grant
  BY SessionAssumption DEF Shape, TypeOK
<1>2. ~Leaves /\ UNCHANGED broken
  BY BrokenGrows DEF Leaves, Goes, IdleProc, Enter, Opening
<1>3. CASE UNCHANGED proc
  BY <1>2, <1>3 DEF BrokenInv, g_
<1>4. ASSUME NEW g \in Grant, NEW r \in Run, Reserve(g, r) PROVE g_' \notin broken'
  BY <1>2, <1>4, BrokenRefused DEF Reserve, Enter, g_
<1>5. ASSUME NEW r \in Run, ExecuteToken(r) PROVE g_' \notin broken'
  BY <1>1, <1>2, <1>5 DEF ExecuteToken, Enter, g_
<1>6. ~ \E r \in Run : Recover(r)
  BY DEF Recover, Enter
<1>7. CASE Step
  <2>1. g_' = g_ /\ proc'.mode = proc.mode
    BY <1>2, <1>7, ProcSteps, LeaveSteps DEF Step, Goes
  <2>2. proc.pc \in Opening
    <3>1. ~RecoverDevice /\ ~BeforeRecovery
      BY <2>1 DEF RecoverDevice, BeforeRecovery, At, Shape, Position
    <3>2. QED
      BY <1>2, <1>7, <3>1, ProcSteps, LeaveSteps DEF Step, Goes, Opening, PublishReservation,
            PublishSidecar, CheckStart, Recheck, Approve, Arm, CheckEffect, BeginOwner,
            RequestIntent, At
  <2>3. QED
    BY <1>2, <2>1, <2>2 DEF BrokenInv
<1>8. QED
  BY <1>2, <1>3, <1>4, <1>5, <1>6, <1>7, Movers

\* before_recovery closed the grant, or found the journal of the run at its end.
LEMMA RecoveringStep ==
    ASSUME Shape, BrokenInv, Next,
           proc'.pc \notin {"idle", "before"}, proc'.mode = "recover", g_' # None
    PROVE  session'[g_'].closed \/ dir'[r_'].journal \in Terminal
<1>1. ~Leaves
  BY DEF Leaves, Goes, IdleProc, Enter
<1>2. ASSUME g_' = g_, r_' = r_, proc.pc \notin {"idle", "before"}, proc.mode = "recover"
      PROVE  session'[g_'].closed \/ dir'[r_'].journal \in Terminal
  <2>1. g_ \in Grant /\ r_ \in Run
    BY <1>2, AtWork
  <2>2. session[g_].closed \/ dir[r_].journal \in Terminal
    BY <1>2 DEF BrokenInv
  <2>3. session[g_].closed => session'[g_].closed
    BY <2>1, SessionSteps DEF Kept, Adds
  <2>4. QED
    BY <1>2, <2>1, <2>2, <2>3, JournalEnds
<1>3. CASE UNCHANGED proc
  BY <1>2, <1>3 DEF g_, r_
<1>4. ~ \E g \in Grant, r \in Run : Reserve(g, r)
  BY DEF Reserve, Enter
<1>5. ~ \E r \in Run : ExecuteToken(r) \/ Recover(r)
  BY DEF ExecuteToken, Recover, Enter, g_, NoAuth
<1>6. CASE BeforeRecovery
  <2>1. Goes("recover", proc.kind) /\ UNCHANGED dir /\ g_ \in Grant /\ session \in [Grant -> GrantFiles]
    BY <1>6, ProcSteps, AtWork DEF BeforeRecovery, At, Shape, Position, TypeOK
  <2>2. session' = Closed(g_) \/ dir[r_].journal \in Terminal
    BY <1>6 DEF BeforeRecovery, CleanAbort, Terminal
  <2>3. QED
    BY <2>1, <2>2, FlagSteps DEF Goes
<1>7. CASE Step /\ ~BeforeRecovery
  <2>1. g_' = g_ /\ r_' = r_ /\ proc'.mode = proc.mode
    BY <1>1, <1>7, ProcSteps, LeaveSteps DEF Step, Goes
  <2>2. proc.pc \notin {"idle", "before"}
    BY <1>1, <1>7, LeaveSteps DEF Step, PublishReservation, PublishSidecar, CheckStart, Recheck,
          Approve, Arm, CheckEffect, AbortBeforeEffect, BeginOwner, RequestIntent, DeviceEnds,
          DeviceRequires, PublishResult, Retire, FinishRecord, RecoverClosed, RecoverAborted,
          RecoverAborts, RecoverDevice, At
  <2>3. QED
    BY <1>2, <2>1, <2>2
<1>8. QED
  BY <1>1, <1>3, <1>4, <1>5, <1>6, <1>7, Movers

\* BrokenInv is preserved by every step.
LEMMA BrokenStep == ASSUME Shape, BrokenInv, [Next]_vars PROVE BrokenInv'
<1>1. CASE Next
  BY <1>1, BrokenStays, UnbrokenStep, RecoveringStep DEF BrokenInv
<1>2. CASE UNCHANGED vars
  BY <1>2 DEF BrokenInv, vars, history, Dead, g_, r_, Ordinals, RunAt
<1>3. QED
  BY <1>1, <1>2

\* before_recovery: "A device-session interruption cannot be cleared by later
\* healthy recovery".  Once a reserved run was cut before its journal ended, its
\* grant reserves nothing any more.
THEOREM SessionInterruptionFinal == Spec => InterruptionFinal
<1> DEFINE Kept1 == \A g \in broken : session'[g].reserved = session[g].reserved
<1>1. Init => Shape /\ BrokenInv
  <2> SUFFICES ASSUME Init PROVE BrokenInv
    BY ShapeInit
  <2>1. broken = {} /\ proc.pc = "idle"
    BY DEF Init, IdleProc, Enter
  <2>2. QED
    BY <2>1 DEF BrokenInv, Opening
<1>2. Shape /\ BrokenInv /\ [Next]_vars => Shape' /\ BrokenInv'
  BY ShapeStep, BrokenStep
<1>3. Shape /\ BrokenInv /\ [Next]_vars => [Kept1]_vars
  <2> SUFFICES ASSUME Shape, BrokenInv, Next PROVE Kept1
    OBVIOUS
  <2>1. broken \subseteq Grant
    BY DEF Shape, TypeOK
  <2>2. CASE Kept
    BY <2>1, <2>2 DEF Kept
  <2>3. CASE PublishReservation /\ Adds(g_, r_)
    <3>1. g_ \notin broken
      BY <2>3 DEF PublishReservation, At, BrokenInv, Opening, Shape, Position
    <3>2. QED
      BY <2>1, <2>3, <3>1 DEF Adds
  <2>4. QED
    BY <2>2, <2>3, SessionSteps
<1>4. QED
  BY <1>1, <1>2, <1>3, PTL DEF Spec, InterruptionFinal

----------------------------------------------------------------------------
(* The order of the catalog.                                               *)

Closing(g, n) == { j \in 1..(n - 1) : dir[RunAt(g, j)].result.kind \in ClosedKind }

\* The catalog moves on by one with each reservation that closed.
LEMMA IndexNext ==
    ASSUME NEW g, NEW n \in Nat \ {0}
    PROVE  /\ Index(g, n) \in Nat \ {0}
           /\ n = 1 => Index(g, n) = 1
           /\ dir[RunAt(g, n)].result.kind \in ClosedKind => Index(g, n + 1) = Index(g, n) + 1
           /\ dir[RunAt(g, n)].result.kind \notin ClosedKind => Index(g, n + 1) = Index(g, n)
<1>1. IsFiniteSet(Closing(g, n)) /\ Cardinality(Closing(g, n)) \in Nat
  <2>1. IsFiniteSet(1..(n - 1))
    BY FS_Interval
  <2>2. IsFiniteSet(Closing(g, n))
    BY <2>1, FS_Subset DEF Closing
  <2>3. QED
    BY <2>2, FS_CardinalityType
<1>2. \A m \in Nat : Index(g, m) = 1 + Cardinality(Closing(g, m))
  BY DEF Index, Closing
<1>3. n = 1 => Closing(g, n) = {}
  BY DEF Closing
<1>4. n = 1 => Index(g, n) = 1
  BY <1>2, <1>3, FS_EmptySet
<1>5. n \notin Closing(g, n)
  BY DEF Closing
<1>6. CASE dir[RunAt(g, n)].result.kind \in ClosedKind
  <2>1. Closing(g, n + 1) = Closing(g, n) \cup {n}
    BY <1>6 DEF Closing
  <2>2. Cardinality(Closing(g, n + 1)) = Cardinality(Closing(g, n)) + 1
    BY <1>1, <1>5, <2>1, FS_AddElement
  <2>3. QED
    BY <1>1, <1>2, <1>4, <1>6, <2>2
<1>7. CASE dir[RunAt(g, n)].result.kind \notin ClosedKind
  <2>1. Closing(g, n + 1) = Closing(g, n)
    BY <1>7 DEF Closing
  <2>2. QED
    BY <1>1, <1>2, <1>4, <1>7, <2>1
<1>8. QED
  BY <1>6, <1>7

\* A result that lets the session go on is published again as it was.
LEMMA ResultStays ==
    ASSUME Shape, Next, NEW r \in Run, Eligible(dir[r].result)
    PROVE  dir'[r].result.kind = dir[r].result.kind
<1>1. CASE UNCHANGED dir
  BY <1>1
<1> SUFFICES ASSUME dir' # dir PROVE dir'[r].result.kind = dir[r].result.kind
  BY <1>1
<1>2. /\ \/ PublishSidecar \/ Recheck \/ Approve \/ AbortBeforeEffect \/ RequestIntent
         \/ (\E kind \in Kind : DeviceEnds(kind))
         \/ DeviceRequires \/ PublishResult \/ RecoverAborts
      /\ proc.pc # "idle"
  BY DirKept DEF PublishSidecar, Recheck, Approve, AbortBeforeEffect, RequestIntent,
         DeviceEnds, DeviceRequires, PublishResult, RecoverAborts, At
<1>3. r_ \in Run
  BY <1>2, AtWork
<1>4. CASE PublishResult
  <2>1. Eligible(dir[r_].result) => proc.kind = dir[r_].result.kind
    BY <1>4 DEF Shape, Publishing, PublishResult, At
  <2>2. dir'[r_].result.kind = proc.kind /\ (r # r_ => dir'[r] = dir[r])
    BY <1>3, <1>4, DirSteps DEF Becomes
  <2>3. QED
    BY <2>1, <2>2
<1>5. CASE ~PublishResult
  BY <1>2, <1>3, <1>5, DirSteps DEF Becomes
<1>6. QED
  BY <1>4, <1>5

\* What the earlier reservations left stays with their runs and their results.
LEMMA FollowedFrame ==
    ASSUME NEW g \in Grant, NEW n \in Nat, Followed(g, n),
           \A j \in 1..(n - 1) :
              /\ RunAt(g, j)' = RunAt(g, j)
              /\ dir'[RunAt(g, j)].result.kind = dir[RunAt(g, j)].result.kind
    PROVE  Followed(g, n)' /\ Index(g, n)' = Index(g, n)
<1>1. \A j \in 1..(n - 1) : dir[RunAt(g, j)]'.result.kind = dir[RunAt(g, j)].result.kind
  OBVIOUS
<1>2. Closing(g, n)' = Closing(g, n)
  BY <1>1 DEF Closing
<1>3. Index(g, n)' = Index(g, n)
  BY <1>2 DEF Index, Closing
<1>4. \A j \in 1..(n - 1) : /\ Eligible(dir[RunAt(g, j)].result)'
                            /\ Successful(dir[RunAt(g, j)].result)' <=> Successful(dir[RunAt(g, j)].result)
  BY <1>1 DEF Followed, Eligible, Successful
<1>5. \A m \in 1..(Index(g, n) - 1) : \E j \in 1..(n - 1) :
         /\ ManifestOf[RunAt(g, j)'] = Catalog[g][m]
         /\ Successful(dir[RunAt(g, j)].result)'
  BY <1>4 DEF Followed
<1>6. Index(g, n) \in 1..Len(Catalog[g])
  BY DEF Followed
<1>7. QED
  BY <1>3, <1>4, <1>5, <1>6 DEF Followed

\* The runs of a grant's reservations.
LEMMA ReservedRuns ==
    ASSUME Shape, NEW g \in Grant
    PROVE  /\ Len(session[g].reserved) \in Nat
           /\ Ordinals(g) = 1..Len(session[g].reserved)
           /\ \A i \in Ordinals(g) : RunAt(g, i) \in Run /\ i \in Nat \ {0}
<1>1. session[g] \in GrantFiles
  BY DEF Shape, TypeOK
<1>2. session[g].reserved \in Seq(Run)
  BY <1>1 DEF GrantFiles
<1>3. QED
  BY <1>2 DEF Ordinals, RunAt

\* What the reservations of a grant leave for the one after ordinal n - 1 stays.
LEMMA FollowedStays ==
    ASSUME Shape, Next, NEW g \in Grant, NEW n \in Nat, n - 1 <= Len(session[g].reserved),
           Followed(g, n)
    PROVE  Followed(g, n)' /\ Index(g, n)' = Index(g, n)
<1>1. \A j \in 1..(n - 1) : j \in Ordinals(g) /\ RunAt(g, j) \in Run
  BY ReservedRuns
<1>2. \A j \in 1..(n - 1) : RunAt(g, j)' = RunAt(g, j)
  <2>1. CASE Kept
    BY <2>1, KeptFrame
  <2>2. CASE PublishReservation /\ Adds(g_, r_)
    <3>1. PICK o \in Grant, w \in Run : o = g_ /\ w = r_
      BY <2>2, AtWork DEF PublishReservation, At, Shape, Position
    <3>2. PICK k \in Nat : Extended(o, w, k)
      BY <2>2, <3>1, AddsFrame DEF Shape, TypeOK
    <3>3. QED
      BY <1>1, <3>2 DEF Extended
  <2>3. QED
    BY <2>1, <2>2, SessionSteps
<1>3. \A j \in 1..(n - 1) :
         dir'[RunAt(g, j)].result.kind = dir[RunAt(g, j)].result.kind
  BY <1>1, ResultStays DEF Followed
<1>4. QED
  BY <1>2, <1>3, FollowedFrame

\* reserve puts the next experiment of the catalog after passed ones.
LEMMA ReserveFollows ==
    ASSUME Shape, OrderInv, NEW g \in Grant, NEW r \in Run, Reserve(g, r),
           NEW n \in Nat, n = Len(session[g].reserved) + 1
    PROVE  Due(g, r, n)
<1>1. /\ Index(g, n) <= Len(Catalog[g]) /\ ManifestOf[r] = Catalog[g][Index(g, n)]
      /\ ~ReplayEnds(g) /\ Len(Catalog[g]) \in Nat
  BY SessionAssumption DEF Reserve, NextInCatalog
<1>2. n \in Nat \ {0} /\ Ordinals(g) = 1..(n - 1)
  BY ReservedRuns
<1>3. \A j \in 1..(n - 1) : Eligible(dir[RunAt(g, j)].result)
  BY <1>1, <1>2 DEF ReplayEnds, Ends
<1>4. Index(g, n) \in 1..Len(Catalog[g])
  BY <1>1, <1>2, IndexNext
<1>5. ASSUME NEW m \in 1..(Index(g, n) - 1)
      PROVE  \E j \in 1..(n - 1) : /\ ManifestOf[RunAt(g, j)] = Catalog[g][m]
                                   /\ Successful(dir[RunAt(g, j)].result)
  <2>1. CASE n = 1
    BY <1>2, <2>1, IndexNext
  <2>2. CASE n # 1
    <3>1. PICK l \in Nat \ {0} : n = l + 1
      BY <1>2, <2>2
    <3>2. l \in Ordinals(g) /\ l \in 1..(n - 1)
      BY <1>2, <3>1
    <3>3. Followed(g, l) /\ ManifestOf[RunAt(g, l)] = Catalog[g][Index(g, l)]
      BY <3>2 DEF OrderInv, Due
    <3>4. dir[RunAt(g, l)].result.kind \in {"pass", "pre_effect"}
      BY <1>3, <3>2 DEF Eligible
    <3>5. CASE m < Index(g, l)
      <4>1. m \in 1..(Index(g, l) - 1)
        BY <3>1, <3>5, IndexNext
      <4>2. PICK j \in 1..(l - 1) : /\ ManifestOf[RunAt(g, j)] = Catalog[g][m]
                                    /\ Successful(dir[RunAt(g, j)].result)
        BY <3>3, <4>1 DEF Followed
      <4>3. j \in 1..(n - 1)
        BY <3>1
      <4>4. QED
        BY <4>2, <4>3
    <3>6. CASE ~(m < Index(g, l))
      <4>1. m = Index(g, l) /\ dir[RunAt(g, l)].result.kind = "pass"
        <5>1. /\ Index(g, l) \in Nat
              /\ dir[RunAt(g, l)].result.kind \in ClosedKind => Index(g, n) = Index(g, l) + 1
              /\ dir[RunAt(g, l)].result.kind \notin ClosedKind => Index(g, n) = Index(g, l)
          BY <3>1, IndexNext
        <5>2. QED
          BY <3>4, <3>6, <5>1 DEF ClosedKind
      <4>2. QED
        BY <3>2, <3>3, <4>1 DEF Successful
    <3>7. QED
      BY <3>5, <3>6
  <2>3. QED
    BY <2>1, <2>2
<1>6. QED
  BY <1>1, <1>3, <1>4, <1>5 DEF Followed, Due

\* The catalog's order is kept by every step.
LEMMA OrderStep == ASSUME Shape, OrderInv, [Next]_vars PROVE OrderInv'
<1>1. CASE UNCHANGED vars
  <2>1. UNCHANGED <<g_, r_, proc, session, dir>>
    BY <1>1 DEF vars, g_, r_
  <2>2. \A g, r, n : Due(g, r, n)' <=> Due(g, r, n)
    BY <2>1 DEF Due, Followed, Index, RunAt, Eligible, Successful
  <2>3. QED
    BY <2>1, <2>2 DEF OrderInv, Ordinals, RunAt, At
<1> SUFFICES ASSUME Next PROVE OrderInv'
  BY <1>1
<1>2. ASSUME NEW g \in Grant, NEW i \in Ordinals(g)
      PROVE  Due(g, RunAt(g, i), i)'
  <2>1. i \in Nat /\ i - 1 <= Len(session[g].reserved)
    BY <1>2, ReservedRuns
  <2>2. Followed(g, i) /\ ManifestOf[RunAt(g, i)] = Catalog[g][Index(g, i)]
    BY <1>2 DEF OrderInv, Due
  <2>3. Followed(g, i)' /\ Index(g, i)' = Index(g, i)
    BY <2>1, <2>2, FollowedStays
  <2>4. RunAt(g, i)' = RunAt(g, i)
    <3>1. CASE Kept
      BY <3>1, KeptFrame
    <3>2. CASE PublishReservation /\ Adds(g_, r_)
      <4>1. PICK o \in Grant, w \in Run : o = g_ /\ w = r_
        BY <3>2, AtWork DEF PublishReservation, At, Shape, Position
      <4>2. PICK k \in Nat : Extended(o, w, k)
        BY <3>2, <4>1, AddsFrame DEF Shape, TypeOK
      <4>3. QED
        BY <1>2, <4>2 DEF Extended
    <3>3. QED
      BY <3>1, <3>2, SessionSteps
  <2>5. QED
    BY <2>2, <2>3, <2>4 DEF Due
<1>3. CASE PublishReservation
  <2>1. PICK o \in Grant, w \in Run : o = g_ /\ w = r_
    BY <1>3, AtWork DEF PublishReservation, At, Shape, Position
  <2>2. PICK n \in Nat : Extended(o, w, n)
    BY <1>3, <2>1, ReservedUpdate, AddsFrame DEF PublishReservation, Shape, TypeOK
  <2>3. n \in 1..LIMIT /\ n = Len(session[o].reserved) + 1
    <3>1. Len(session[o].reserved) < Budget[o]
      BY <1>3, <2>1 DEF PublishReservation, Shape, Entitled
    <3>2. Budget[o] \in 1..3 /\ Len(session[o].reserved) \in Nat
      BY SessionAssumption, ReservedRuns DEF LIMIT
    <3>3. QED
      BY <2>2, <3>1, <3>2 DEF Extended, LIMIT
  <2>4. Followed(o, n) /\ ManifestOf[w] = Catalog[o][Index(o, n)]
    BY <1>3, <2>1, <2>3 DEF PublishReservation, OrderInv, Due
  <2>5. n - 1 <= Len(session[o].reserved)
    BY <2>3, ReservedRuns
  <2>6. Followed(o, n)' /\ Index(o, n)' = Index(o, n)
    BY <2>4, <2>5, FollowedStays
  <2>7. RunAt(o, n)' = w
    BY <2>2 DEF Extended, RunAt
  <2>8. \A g \in Grant : \A i \in Ordinals(g)' : i \in Ordinals(g) \/ (g = o /\ i = n)
    BY <2>2, ExtendedFrame
  <2>9. proc'.pc # "publish"
    BY <1>3, ProcSteps DEF Goes
  <2>10. Due(o, RunAt(o, n), n)'
    BY <2>4, <2>6, <2>7 DEF Due
  <2>11. ASSUME NEW g \in Grant, NEW i \in Ordinals(g)'
         PROVE  Due(g, RunAt(g, i), i)'
    BY <1>2, <2>8, <2>10
  <2>12. QED
    BY <2>9, <2>11 DEF OrderInv, At
<1>4. CASE Kept
  <2>1. \A g \in Grant : Ordinals(g)' = Ordinals(g) /\ session'[g].reserved = session[g].reserved
    BY <1>4, KeptFrame
  <2>2. ASSUME NEW g \in Grant, NEW i \in Ordinals(g)'
        PROVE  Due(g, RunAt(g, i), i)'
    BY <1>2, <2>1
  <2>3. ASSUME NEW g \in Grant, NEW r \in Run, NEW n \in 1..LIMIT,
               proc'.pc = "publish", g_' = g, r_' = r, n = Len(session'[g].reserved) + 1
        PROVE  Due(g, r, n)'
    <3>1. n = Len(session[g].reserved) + 1 /\ n \in Nat /\ n - 1 <= Len(session[g].reserved)
      BY <2>1, <2>3, ReservedRuns
    <3>2. Due(g, r, n)
      <4>1. CASE UNCHANGED proc
        BY <2>3, <3>1, <4>1 DEF OrderInv, At, g_, r_
      <4>2. ASSUME NEW h \in Grant, NEW t \in Run, Reserve(h, t) PROVE Due(g, r, n)
        <5>1. h = g /\ t = r
          BY <2>3, <4>2 DEF Reserve, Enter, g_, r_
        <5>2. QED
          BY <3>1, <4>2, <5>1, ReserveFollows
      <4>3. ~Leaves /\ ~ \E t \in Run : ExecuteToken(t) \/ Recover(t)
        BY <2>3 DEF Leaves, Goes, IdleProc, Enter, ExecuteToken, Recover
      <4>4. ~Step
        BY <2>3, <4>3, ProcSteps, LeaveSteps DEF Step, Goes
      <4>5. QED
        BY <4>1, <4>2, <4>3, <4>4, Movers
    <3>3. QED
      BY <3>1, <3>2, FollowedStays DEF Due
  <2>4. QED
    BY <2>2, <2>3 DEF OrderInv, At
<1>5. QED
  BY <1>3, <1>4, SessionSteps

\* Each experiment follows a passed run of every earlier one, and nothing but
\* passed runs went to the device before it.
LEMMA OrderFollows == ASSUME Shape, OrderInv PROVE CatalogOrder
<1> SUFFICES ASSUME NEW g \in Grant, NEW i \in Ordinals(g), dir[RunAt(g, i)].request
             PROVE  /\ \A j \in 1..(i - 1) :
                          dir[RunAt(g, j)].request => Successful(dir[RunAt(g, j)].result)
                    /\ \A k \in 1..Len(Catalog[g]) :
                          ManifestOf[RunAt(g, i)] = Catalog[g][k] =>
                             \A m \in 1..(k - 1) : \E j \in 1..(i - 1) :
                                /\ ManifestOf[RunAt(g, j)] = Catalog[g][m]
                                /\ Successful(dir[RunAt(g, j)].result)
  BY DEF CatalogOrder
<1>1. Followed(g, i) /\ ManifestOf[RunAt(g, i)] = Catalog[g][Index(g, i)]
  BY DEF OrderInv, Due
<1>2. ASSUME NEW j \in 1..(i - 1), dir[RunAt(g, j)].request
      PROVE  Successful(dir[RunAt(g, j)].result)
  <2>1. RunAt(g, j) \in Run
    BY ReservedRuns
  <2>2. Eligible(dir[RunAt(g, j)].result) /\ Files(RunAt(g, j))
    BY <1>1, <2>1 DEF Followed, Shape
  <2>3. QED
    BY <1>2, <2>2 DEF Eligible, Successful, Files
<1>3. ASSUME NEW k \in 1..Len(Catalog[g]), ManifestOf[RunAt(g, i)] = Catalog[g][k]
      PROVE  k = Index(g, i)
  <2>1. Index(g, i) \in 1..Len(Catalog[g])
    BY <1>1 DEF Followed
  <2>2. QED
    BY <1>1, <1>3, <2>1, SessionAssumption
<1>4. QED
  BY <1>1, <1>2, <1>3 DEF Followed

\* S22PLUS_FYG8_ATTENDED_F1_SESSION_V1.md: the preceding experiment must pass
\* before the next candidate, whatever was cut, aborted or recovered.
THEOREM SessionCatalogOrder == Spec => []CatalogOrder
<1>1. Init => Shape /\ OrderInv
  <2> SUFFICES ASSUME Init PROVE OrderInv
    BY ShapeInit
  <2>1. proc.pc = "idle" /\ \A g \in Grant : Ordinals(g) = {}
    BY DEF Init, IdleProc, Enter, Ordinals
  <2>2. QED
    BY <2>1 DEF OrderInv, At
<1>2. Shape /\ OrderInv /\ [Next]_vars => Shape' /\ OrderInv'
  BY ShapeStep, OrderStep
<1>3. Shape /\ OrderInv => CatalogOrder
  BY OrderFollows
<1>4. QED
  BY <1>1, <1>2, <1>3, PTL DEF Spec

=============================================================================
