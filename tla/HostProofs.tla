----------------------------- MODULE HostProofs -----------------------------
(***************************************************************************)
(* What TLAPS proves of HostControl and SerialBridge, for any number of    *)
(* clients, retries and enumerations of the device.                        *)
(*                                                                         *)
(* The three safety properties speak of the ends of the line: a command    *)
(* that ran, a frame that was accepted.  What makes them inductive lies in *)
(* between.  Linked follows the enumeration a line or a record was written *)
(* on through every buffer; Unique says that the line of a connection is   *)
(* in one place only, the socket, the transmit buffer or the device, until *)
(* it runs; Named ties names to connections and "ran" to the history; and  *)
(* Calls describes how far each client can still get.                      *)
(***************************************************************************)
EXTENDS HostControl, Integers, TLAPS

Elems(s) == {s[i] : i \in DOMAIN s}
Ofs(s) == {s[i].of : i \in DOMAIN s}
Distinct(s) == \A i, j \in DOMAIN s : s[i].of = s[j].of => i = j

\* An absent device holds nothing.
Plugged == usb.path = NoPath => din = <<>> /\ rx = <<>> /\ usb.gen < MaxPlugs

\* What is queued belongs to the link it is queued for.
Linked ==
    /\ \A l \in Elems(din) : l.gen = usb.gen
    /\ \A x \in Elems(rx) : x.gen = usb.gen
    /\ \A l \in Elems(bridge.tx) : l.gen = bridge.serial
    /\ bridge.serial = 0 => bridge.client = NoConn /\ bridge.tx = <<>>
    /\ bridge.client # NoConn => /\ conns[bridge.client].state = "open"
                                 /\ conns[bridge.client].gen = bridge.serial
    /\ \A a \in Conn : \A x \in Elems(conns[a].out) : x.gen = conns[a].gen
    /\ ~stale

\* A connection is made once, waits in the listen queue once, and is given
\* nothing before it is accepted.
Queued ==
    /\ \A i \in DOMAIN bridge.backlog : conns[bridge.backlog[i]].state = "syn"
    /\ \A i, j \in DOMAIN bridge.backlog : bridge.backlog[i] = bridge.backlog[j] => i = j
    /\ \A a \in Conn : conns[a].state \in {"none", "syn"} => conns[a].out = <<>>
    /\ \A a \in Conn : cl[a[1]].n < a[2] => conns[a].state = "none"

\* The line of connection a is still in its socket, or was never sent.
Unsent(a) == conns[a].state = "none" \/ conns[a].inq # <<>>

\* The line of a connection is in one place, and runs from the last of them.
Unique ==
    /\ Distinct(bridge.tx) /\ Distinct(din)
    /\ Ofs(bridge.tx) \cap Ofs(din) = {}
    /\ \A a \in Conn :
          /\ Len(conns[a].inq) <= 1 /\ Ofs(conns[a].inq) \subseteq {a}
          /\ conns[a].state = "none" => conns[a].inq = <<>>
          /\ Unsent(a) => a \notin Ofs(bridge.tx) \cup Ofs(din) /\ ran[a] = 0
          /\ a \in Ofs(bridge.tx) \cup Ofs(din) => ran[a] = 0
          /\ ran[a] <= 1

\* A line is its client's command or the hide of its recovery; a command that
\* may not be retried is sent on the first connection only.
LineOK(l) ==
    /\ l.name \in {NameOf[l.of[1]], "hide"}
    /\ l.name # "hide" /\ NameOf[l.of[1]] \notin Listed => l.of[2] = 1

\* "ran" is printed for what ran.
ItemOK(x) ==
    /\ x.name \in {NameOf[x.of[1]], "hide"}
    /\ x.st = "ran" /\ x.name # "hide" => ran[x.of] > 0

Named ==
    /\ \A l \in Elems(din) : LineOK(l)
    /\ \A l \in Elems(bridge.tx) : LineOK(l)
    /\ \A a \in Conn : \A l \in Elems(conns[a].inq) : LineOK(l)
    /\ shell # Waiting => LineOK(shell.line)
    /\ shell.st = "ran" /\ shell.line.name # "hide" => ran[shell.line.of] > 0
    /\ \A x \in Elems(rx) : ItemOK(x)
    /\ \A a \in Conn : \A x \in Elems(conns[a].out) : ItemOK(x)
    /\ \A c \in Client : \A x \in Elems(cl[c].got) : ItemOK(x)
    /\ \A a \in Conn : ran[a] > 0 /\ NameOf[a[1]] \notin Listed => a[2] = 1

\* A command that may not be retried has one exchange; the recovery may add
\* those of a hide, and then stops.
CallOK(c, r) ==
    /\ r.pc \in {"lock", "stop", "start"} => r.n < MaxTries
    /\ r.pc = "read" => 0 < r.n
    /\ NameOf[c] \notin Listed =>
          /\ r.pc \notin {"stop", "start"}
          /\ r.phase = "again" => r.pc = "done"
          /\ r.phase = "first" /\ r.pc = "lock" => r.n = 0
          /\ r.phase = "first" /\ r.pc = "read" => r.n = 1

FrameOK(c, r) ==
    r.frame # NoConn /\ NameOf[c] # "hide" =>
        /\ NameOf[r.frame[1]] = NameOf[c]
        /\ r.why = "ran" => ran[r.frame] > 0

Calls == \A c \in Client : CallOK(c, cl[c]) /\ FrameOK(c, cl[c])

HInv == TypeOK /\ Plugged /\ Linked /\ Queued /\ Unique /\ Named /\ Calls

-----------------------------------------------------------------------------
(* Sequences.                                                              *)

LEMMA ElemsType ==
    ASSUME NEW S, NEW s \in Seq(S) PROVE Elems(s) \subseteq S
  BY DEF Elems

LEMMA ElemsEmpty == Elems(<<>>) = {} /\ Ofs(<<>>) = {} /\ Distinct(<<>>)
  BY DEF Elems, Ofs, Distinct

LEMMA ElemsNone ==
    ASSUME NEW S, NEW s \in Seq(S), s # <<>>
    PROVE  Len(s) \in Nat /\ Len(s) >= 1 /\ s[1] \in Elems(s) /\ Head(s) = s[1]
  BY DEF Elems

LEMMA OfsElems ==
    ASSUME NEW s, NEW l \in Elems(s) PROVE l.of \in Ofs(s)
  BY DEF Elems, Ofs

LEMMA ElemsConcat ==
    ASSUME NEW S, NEW s \in Seq(S), NEW t \in Seq(S)
    PROVE  /\ s \o t \in Seq(S)
           /\ Elems(s \o t) = Elems(s) \cup Elems(t)
           /\ Ofs(s \o t) = Ofs(s) \cup Ofs(t)
<1>1. /\ s \o t \in Seq(S) /\ Len(s \o t) = Len(s) + Len(t)
      /\ Len(s) \in Nat /\ Len(t) \in Nat
      /\ DOMAIN s = 1..Len(s) /\ DOMAIN t = 1..Len(t)
      /\ DOMAIN (s \o t) = 1..(Len(s) + Len(t))
  OBVIOUS
<1>2. \A i \in 1..Len(s) : (s \o t)[i] = s[i] /\ i \in 1..(Len(s) + Len(t))
  OBVIOUS
<1>3. \A i \in 1..Len(t) : (s \o t)[Len(s) + i] = t[i] /\ Len(s) + i \in 1..(Len(s) + Len(t))
  OBVIOUS
<1>4. \A i \in 1..(Len(s) + Len(t)) :
         \/ i \in 1..Len(s)
         \/ i - Len(s) \in 1..Len(t) /\ i = Len(s) + (i - Len(s))
  BY <1>1
<1> DEFINE u == s \o t
<1>5. \A i \in DOMAIN u :
         \/ \E j \in DOMAIN s : u[i] = s[j]
         \/ \E j \in DOMAIN t : u[i] = t[j]
  BY <1>1, <1>2, <1>3, <1>4
<1>6. \A i \in DOMAIN s : \E j \in DOMAIN u : u[j] = s[i]
  BY <1>1, <1>2
<1>7. \A i \in DOMAIN t : \E j \in DOMAIN u : u[j] = t[i]
  BY <1>1, <1>3
<1> HIDE DEF u
<1>8. Elems(u) = Elems(s) \cup Elems(t)
  BY <1>5, <1>6, <1>7 DEF Elems
<1>9. Ofs(u) = Ofs(s) \cup Ofs(t)
  <2>1. Ofs(u) \subseteq Ofs(s) \cup Ofs(t)
    BY <1>5 DEF Ofs
  <2>2. Ofs(s) \subseteq Ofs(u) /\ Ofs(t) \subseteq Ofs(u)
    BY <1>6, <1>7 DEF Ofs
  <2> QED BY <2>1, <2>2
<1> QED BY <1>1, <1>8, <1>9 DEF u

LEMMA DistinctConcat ==
    ASSUME NEW S, NEW s \in Seq(S), NEW t \in Seq(S), Distinct(s), Distinct(t),
           Ofs(s) \cap Ofs(t) = {}
    PROVE  Distinct(s \o t)
<1>1. /\ Len(s) \in Nat /\ Len(t) \in Nat
      /\ DOMAIN s = 1..Len(s) /\ DOMAIN t = 1..Len(t)
      /\ DOMAIN (s \o t) = 1..(Len(s) + Len(t))
  OBVIOUS
<1>2. \A i \in DOMAIN (s \o t) :
         \/ i \in DOMAIN s /\ (s \o t)[i] = s[i]
         \/ i - Len(s) \in DOMAIN t /\ (s \o t)[i] = t[i - Len(s)]
  BY <1>1
<1> DEFINE u == s \o t
           n == Len(s)
<1> HIDE DEF u, n
<1>3. SUFFICES ASSUME NEW i \in DOMAIN u, NEW j \in DOMAIN u, u[i].of = u[j].of
               PROVE  i = j
  BY DEF Distinct, u
<1>4. \A k \in DOMAIN s : s[k].of \in Ofs(s)
  BY DEF Ofs
<1>5. \A k \in DOMAIN t : t[k].of \in Ofs(t)
  BY DEF Ofs
<1>6. i \in Int /\ j \in Int /\ n \in Int
  BY <1>1 DEF u, n
<1>7. CASE i \in DOMAIN s /\ u[i] = s[i] /\ j \in DOMAIN s /\ u[j] = s[j]
  BY <1>3, <1>7 DEF Distinct
<1>8. CASE i - n \in DOMAIN t /\ u[i] = t[i - n] /\ j - n \in DOMAIN t /\ u[j] = t[j - n]
  <2>1. i - n = j - n
    BY <1>3, <1>8 DEF Distinct
  <2> QED BY <1>6, <2>1
<1> QED BY <1>2, <1>3, <1>4, <1>5, <1>7, <1>8 DEF u, n

\* A write that stops after k lines splits the buffer.
LEMMA SplitSeq ==
    ASSUME NEW S, NEW s \in Seq(S), NEW k \in 0..Len(s)
    PROVE  /\ SubSeq(s, 1, k) \in Seq(S) /\ SubSeq(s, k + 1, Len(s)) \in Seq(S)
           /\ Elems(SubSeq(s, 1, k)) \subseteq Elems(s)
           /\ Elems(SubSeq(s, k + 1, Len(s))) \subseteq Elems(s)
           /\ Ofs(SubSeq(s, 1, k)) \subseteq Ofs(s)
           /\ Ofs(SubSeq(s, k + 1, Len(s))) \subseteq Ofs(s)
<1> DEFINE u == SubSeq(s, 1, k)
           v == SubSeq(s, k + 1, Len(s))
<1>1. /\ u \in Seq(S) /\ DOMAIN u = 1..k /\ DOMAIN s = 1..Len(s)
      /\ \A i \in 1..k : u[i] = s[i] /\ i \in 1..Len(s)
  OBVIOUS
<1>2. /\ v \in Seq(S) /\ DOMAIN v = 1..(Len(s) - k)
      /\ \A i \in 1..(Len(s) - k) : v[i] = s[i + k] /\ i + k \in 1..Len(s)
  OBVIOUS
<1> HIDE DEF u, v
<1>3. \A i \in DOMAIN u : \E j \in DOMAIN s : u[i] = s[j]
  BY <1>1
<1>4. \A i \in DOMAIN v : \E j \in DOMAIN s : v[i] = s[j]
  BY <1>1, <1>2
<1>5. Elems(u) \subseteq Elems(s) /\ Elems(v) \subseteq Elems(s)
  BY <1>3, <1>4 DEF Elems
<1>6. Ofs(u) \subseteq Ofs(s) /\ Ofs(v) \subseteq Ofs(s)
  BY <1>3, <1>4 DEF Ofs
<1> QED BY <1>1, <1>2, <1>5, <1>6 DEF u, v

LEMMA SplitDistinct ==
    ASSUME NEW S, NEW s \in Seq(S), NEW k \in 0..Len(s), Distinct(s)
    PROVE  /\ Distinct(SubSeq(s, 1, k)) /\ Distinct(SubSeq(s, k + 1, Len(s)))
           /\ Ofs(SubSeq(s, 1, k)) \cap Ofs(SubSeq(s, k + 1, Len(s))) = {}
<1> DEFINE u == SubSeq(s, 1, k)
           v == SubSeq(s, k + 1, Len(s))
<1>1. /\ DOMAIN u = 1..k /\ DOMAIN s = 1..Len(s) /\ Len(s) \in Nat
      /\ \A i \in 1..k : u[i] = s[i] /\ i \in 1..Len(s)
  OBVIOUS
<1>2. /\ DOMAIN v = 1..(Len(s) - k)
      /\ \A i \in 1..(Len(s) - k) : v[i] = s[i + k] /\ i + k \in 1..Len(s)
  OBVIOUS
<1> HIDE DEF u, v
<1>3. Distinct(u)
  BY <1>1 DEF Distinct
<1>4. Distinct(v)
  <2> SUFFICES ASSUME NEW i \in 1..(Len(s) - k), NEW j \in 1..(Len(s) - k), v[i].of = v[j].of
               PROVE  i = j
    BY <1>2 DEF Distinct
  <2>1. i + k = j + k
    BY <1>1, <1>2 DEF Distinct
  <2> QED BY <2>1
<1>5. ASSUME NEW i \in DOMAIN u, NEW j \in DOMAIN v PROVE u[i].of # v[j].of
  <2>1. i \in DOMAIN s /\ j + k \in DOMAIN s /\ u[i] = s[i] /\ v[j] = s[j + k]
    BY <1>1, <1>2, <1>5
  <2>2. i # j + k
    BY <1>1, <1>2, <1>5
  <2> QED BY <2>1, <2>2 DEF Distinct
<1>6. Ofs(u) \cap Ofs(v) = {}
  BY <1>5 DEF Ofs
<1> QED BY <1>3, <1>4, <1>6 DEF u, v

\* The line that is read leaves the queue.
LEMMA TailSeq ==
    ASSUME NEW S, NEW s \in Seq(S), s # <<>>
    PROVE  /\ Head(s) \in S /\ Head(s) \in Elems(s)
           /\ Tail(s) \in Seq(S) /\ Elems(Tail(s)) \subseteq Elems(s)
           /\ Ofs(Tail(s)) \subseteq Ofs(s)
           /\ Distinct(s) => Distinct(Tail(s)) /\ Head(s).of \notin Ofs(Tail(s))
<1> DEFINE v == Tail(s)
<1>1. /\ Len(s) \in Nat /\ Len(s) >= 1 /\ DOMAIN s = 1..Len(s) /\ Head(s) = s[1]
      /\ v \in Seq(S) /\ DOMAIN v = 1..(Len(s) - 1)
      /\ \A i \in 1..(Len(s) - 1) : v[i] = s[i + 1]
  OBVIOUS
<1> HIDE DEF v
<1>2. \A i \in DOMAIN v : i + 1 \in DOMAIN s /\ v[i] = s[i + 1] /\ i + 1 # 1
  BY <1>1
<1>3. Head(s) \in S /\ 1 \in DOMAIN s
  BY <1>1
<1>4. Head(s) \in Elems(s)
  BY <1>1, <1>3 DEF Elems
<1>5. Elems(v) \subseteq Elems(s) /\ Ofs(v) \subseteq Ofs(s)
  BY <1>2 DEF Elems, Ofs
<1>6. ASSUME Distinct(s) PROVE Head(s).of \notin Ofs(v)
  BY <1>1, <1>2, <1>3, <1>6 DEF Distinct, Ofs
<1>7. ASSUME Distinct(s) PROVE Distinct(v)
  <2> SUFFICES ASSUME NEW i \in DOMAIN v, NEW j \in DOMAIN v, v[i].of = v[j].of
               PROVE  i = j
    BY DEF Distinct
  <2>1. i + 1 = j + 1
    BY <1>2, <1>7 DEF Distinct
  <2> QED BY <1>1, <2>1
<1> QED BY <1>1, <1>3, <1>4, <1>5, <1>6, <1>7 DEF v
-----------------------------------------------------------------------------
(* Records.                                                                *)

LEMMA EmptySeqs == <<>> \in Seq(LineSet) /\ <<>> \in Seq(ItemSet) /\ <<>> \in Seq(Conn)
  OBVIOUS

LEMMA ZeroSerial == 0 \in 0..MaxPlugs /\ 1 \in 1..MaxPlugs
  BY BridgeAssumption

LEMMA BridgeFields ==
    ASSUME NEW b \in BridgeSet
    PROVE  /\ b.up \in BOOLEAN /\ b.serial \in 0..MaxPlugs
           /\ b.pinned \in Path \union {NoPath} /\ b.client \in Conn \union {NoConn}
           /\ b.tx \in Seq(LineSet) /\ b.backlog \in Seq(Conn)
  BY DEF BridgeSet

\* Each edit of the bridge's record, field by field.
LEMMA EditPinned ==
    ASSUME NEW b \in BridgeSet, NEW p \in Path,
           NEW r, r = [b EXCEPT !.pinned = p]
    PROVE  /\ r \in BridgeSet
           /\ r.pinned = p
           /\ r.up = b.up /\ r.serial = b.serial /\ r.client = b.client /\ r.tx = b.tx /\ r.backlog = b.backlog
  BY DEF BridgeSet

LEMMA EditOpened ==
    ASSUME NEW b \in BridgeSet, NEW s \in 0..MaxPlugs, NEW p \in Path,
           NEW r, r = [b EXCEPT !.serial = s, !.pinned = p]
    PROVE  /\ r \in BridgeSet
           /\ r.serial = s /\ r.pinned = p
           /\ r.up = b.up /\ r.client = b.client /\ r.tx = b.tx /\ r.backlog = b.backlog
  BY DEF BridgeSet

LEMMA EditClosed ==
    ASSUME NEW b \in BridgeSet,
           NEW r, r = [b EXCEPT !.serial = 0, !.tx = <<>>, !.client = NoConn]
    PROVE  /\ r \in BridgeSet
           /\ r.serial = 0 /\ r.tx = <<>> /\ r.client = NoConn
           /\ r.up = b.up /\ r.pinned = b.pinned /\ r.backlog = b.backlog
  BY ZeroSerial, EmptySeqs DEF BridgeSet

LEMMA EditClient ==
    ASSUME NEW b \in BridgeSet, NEW a \in Conn \union {NoConn},
           NEW r, r = [b EXCEPT !.client = a]
    PROVE  /\ r \in BridgeSet
           /\ r.client = a
           /\ r.up = b.up /\ r.serial = b.serial /\ r.pinned = b.pinned /\ r.tx = b.tx /\ r.backlog = b.backlog
  BY DEF BridgeSet

LEMMA EditTx ==
    ASSUME NEW b \in BridgeSet, NEW t \in Seq(LineSet),
           NEW r, r = [b EXCEPT !.tx = t]
    PROVE  /\ r \in BridgeSet
           /\ r.tx = t
           /\ r.up = b.up /\ r.serial = b.serial /\ r.pinned = b.pinned /\ r.client = b.client /\ r.backlog = b.backlog
  BY DEF BridgeSet

LEMMA EditBacklog ==
    ASSUME NEW b \in BridgeSet, NEW q \in Seq(Conn),
           NEW r, r = [b EXCEPT !.backlog = q]
    PROVE  /\ r \in BridgeSet
           /\ r.backlog = q
           /\ r.up = b.up /\ r.serial = b.serial /\ r.pinned = b.pinned /\ r.client = b.client /\ r.tx = b.tx
  BY DEF BridgeSet

LEMMA DownFields ==
    /\ Down \in BridgeSet /\ [Down EXCEPT !.up = TRUE] \in BridgeSet
    /\ Down.serial = 0 /\ Down.client = NoConn /\ Down.tx = <<>> /\ Down.backlog = <<>>
    /\ [Down EXCEPT !.up = TRUE].serial = 0 /\ [Down EXCEPT !.up = TRUE].client = NoConn
    /\ [Down EXCEPT !.up = TRUE].tx = <<>> /\ [Down EXCEPT !.up = TRUE].backlog = <<>>
<1>1. Down \in BridgeSet
  BY ZeroSerial, EmptySeqs DEF BridgeSet, Down
<1>2. [Down EXCEPT !.up = TRUE] \in BridgeSet
  BY <1>1 DEF BridgeSet
<1> QED BY <1>1, <1>2 DEF Down

LEMMA ConnFields ==
    ASSUME NEW k \in ConnSet
    PROVE  /\ k.state \in {"none", "syn", "open", "busy", "missing", "shut"}
           /\ k.inq \in Seq(LineSet) /\ k.out \in Seq(ItemSet)
           /\ k.hup \in BOOLEAN /\ k.gen \in 0..MaxPlugs
  BY DEF ConnSet

\* Each edit of one connection; the others are kept.
LEMMA ConnShut ==
    ASSUME NEW f \in [Conn -> ConnSet], NEW a \in Conn,
           NEW g, g = [f EXCEPT ![a].state = "shut", ![a].inq = <<>>]
    PROVE  /\ g \in [Conn -> ConnSet]
           /\ g[a].state = "shut" /\ \A b \in Conn \ {a} : g[b].state = f[b].state
           /\ g[a].inq = <<>> /\ \A b \in Conn \ {a} : g[b].inq = f[b].inq
           /\ \A b \in Conn : g[b].out = f[b].out
           /\ \A b \in Conn : g[b].gen = f[b].gen
<1>1. f[a] \in ConnSet
  OBVIOUS
<1>2. PICK r : r = g[a]
  OBVIOUS
<1>3. r = [f[a] EXCEPT !.state = "shut", !.inq = <<>>] /\ \A b \in Conn \ {a} : g[b] = f[b]
  BY <1>2
<1>4. /\ r \in ConnSet
      /\ r.state = "shut" /\ r.inq = <<>> /\ r.out = f[a].out /\ r.hup = f[a].hup /\ r.gen = f[a].gen
  BY <1>1, <1>3, EmptySeqs DEF ConnSet
<1>5. g \in [Conn -> ConnSet]
  <2>1. DOMAIN g = Conn /\ g = [b \in Conn |-> g[b]]
    OBVIOUS
  <2>2. \A b \in Conn : g[b] \in ConnSet
    BY <1>2, <1>3, <1>4
  <2> QED BY <2>1, <2>2
<1> QED BY <1>2, <1>3, <1>4, <1>5

WithState(f, a, x) == [f EXCEPT ![a].state = x]

LEMMA ConnState ==
    ASSUME NEW f \in [Conn -> ConnSet], NEW a \in Conn, NEW x \in {"busy", "missing"},
           NEW g, g = WithState(f, a, x)
    PROVE  /\ g \in [Conn -> ConnSet]
           /\ g[a].state = x /\ \A b \in Conn \ {a} : g[b].state = f[b].state
           /\ \A b \in Conn : g[b].inq = f[b].inq
           /\ \A b \in Conn : g[b].out = f[b].out
           /\ \A b \in Conn : g[b].gen = f[b].gen
<1>1. f[a] \in ConnSet
  OBVIOUS
<1>2. PICK r : r = g[a]
  OBVIOUS
<1>3. r = [f[a] EXCEPT !.state = x] /\ \A b \in Conn \ {a} : g[b] = f[b]
  BY <1>2 DEF WithState
<1>4. /\ r \in ConnSet
      /\ r.state = x /\ r.inq = f[a].inq /\ r.out = f[a].out /\ r.hup = f[a].hup /\ r.gen = f[a].gen
  BY <1>1, <1>3, EmptySeqs DEF ConnSet
<1>5. g \in [Conn -> ConnSet]
  <2>1. DOMAIN g = Conn /\ g = [b \in Conn |-> g[b]]
    BY DEF WithState
  <2>2. \A b \in Conn : g[b] \in ConnSet
    BY <1>2, <1>3, <1>4
  <2> QED BY <2>1, <2>2
<1> QED BY <1>2, <1>3, <1>4, <1>5

Accepted(f, a, s) == [f EXCEPT ![a].state = "open", ![a].gen = s]

LEMMA ConnOpen ==
    ASSUME NEW f \in [Conn -> ConnSet], NEW a \in Conn, NEW s \in 0..MaxPlugs,
           NEW g, g = Accepted(f, a, s)
    PROVE  /\ g \in [Conn -> ConnSet]
           /\ g[a].state = "open" /\ \A b \in Conn \ {a} : g[b].state = f[b].state
           /\ \A b \in Conn : g[b].inq = f[b].inq
           /\ \A b \in Conn : g[b].out = f[b].out
           /\ g[a].gen = s /\ \A b \in Conn \ {a} : g[b].gen = f[b].gen
<1>1. f[a] \in ConnSet
  OBVIOUS
<1>2. PICK r : r = g[a]
  OBVIOUS
<1>3. r = [f[a] EXCEPT !.state = "open", !.gen = s] /\ \A b \in Conn \ {a} : g[b] = f[b]
  BY <1>2 DEF Accepted
<1>4. /\ r \in ConnSet
      /\ r.state = "open" /\ r.inq = f[a].inq /\ r.out = f[a].out /\ r.hup = f[a].hup /\ r.gen = s
  BY <1>1, <1>3, EmptySeqs DEF ConnSet
<1>5. g \in [Conn -> ConnSet]
  <2>1. DOMAIN g = Conn /\ g = [b \in Conn |-> g[b]]
    BY DEF Accepted
  <2>2. \A b \in Conn : g[b] \in ConnSet
    BY <1>2, <1>3, <1>4
  <2> QED BY <2>1, <2>2
<1> QED BY <1>2, <1>3, <1>4, <1>5

Drained(f, a) == [f EXCEPT ![a].inq = <<>>]

LEMMA ConnRead ==
    ASSUME NEW f \in [Conn -> ConnSet], NEW a \in Conn,
           NEW g, g = Drained(f, a)
    PROVE  /\ g \in [Conn -> ConnSet]
           /\ \A b \in Conn : g[b].state = f[b].state
           /\ g[a].inq = <<>> /\ \A b \in Conn \ {a} : g[b].inq = f[b].inq
           /\ \A b \in Conn : g[b].out = f[b].out
           /\ \A b \in Conn : g[b].gen = f[b].gen
<1>1. f[a] \in ConnSet
  OBVIOUS
<1>2. PICK r : r = g[a]
  OBVIOUS
<1>3. r = [f[a] EXCEPT !.inq = <<>>] /\ \A b \in Conn \ {a} : g[b] = f[b]
  BY <1>2 DEF Drained
<1>4. /\ r \in ConnSet
      /\ r.state = f[a].state /\ r.inq = <<>> /\ r.out = f[a].out /\ r.hup = f[a].hup /\ r.gen = f[a].gen
  BY <1>1, <1>3, EmptySeqs DEF ConnSet
<1>5. g \in [Conn -> ConnSet]
  <2>1. DOMAIN g = Conn /\ g = [b \in Conn |-> g[b]]
    BY DEF Drained
  <2>2. \A b \in Conn : g[b] \in ConnSet
    BY <1>2, <1>3, <1>4
  <2> QED BY <2>1, <2>2
<1> QED BY <1>2, <1>3, <1>4, <1>5

Connected(f, a, q) == [f EXCEPT ![a].state = "syn", ![a].inq = q]

LEMMA ConnSyn ==
    ASSUME NEW f \in [Conn -> ConnSet], NEW a \in Conn, NEW q \in Seq(LineSet),
           NEW g, g = Connected(f, a, q)
    PROVE  /\ g \in [Conn -> ConnSet]
           /\ g[a].state = "syn" /\ \A b \in Conn \ {a} : g[b].state = f[b].state
           /\ g[a].inq = q /\ \A b \in Conn \ {a} : g[b].inq = f[b].inq
           /\ \A b \in Conn : g[b].out = f[b].out
           /\ \A b \in Conn : g[b].gen = f[b].gen
<1>1. f[a] \in ConnSet
  OBVIOUS
<1>2. PICK r : r = g[a]
  OBVIOUS
<1>3. r = [f[a] EXCEPT !.state = "syn", !.inq = q] /\ \A b \in Conn \ {a} : g[b] = f[b]
  BY <1>2 DEF Connected
<1>4. /\ r \in ConnSet
      /\ r.state = "syn" /\ r.inq = q /\ r.out = f[a].out /\ r.hup = f[a].hup /\ r.gen = f[a].gen
  BY <1>1, <1>3, EmptySeqs DEF ConnSet
<1>5. g \in [Conn -> ConnSet]
  <2>1. DOMAIN g = Conn /\ g = [b \in Conn |-> g[b]]
    BY DEF Connected
  <2>2. \A b \in Conn : g[b] \in ConnSet
    BY <1>2, <1>3, <1>4
  <2> QED BY <2>1, <2>2
<1> QED BY <1>2, <1>3, <1>4, <1>5

WithOut(f, a, o) == [f EXCEPT ![a].out = o]

LEMMA ConnOut ==
    ASSUME NEW f \in [Conn -> ConnSet], NEW a \in Conn, NEW o \in Seq(ItemSet),
           NEW g, g = WithOut(f, a, o)
    PROVE  /\ g \in [Conn -> ConnSet]
           /\ \A b \in Conn : g[b].state = f[b].state
           /\ \A b \in Conn : g[b].inq = f[b].inq
           /\ g[a].out = o /\ \A b \in Conn \ {a} : g[b].out = f[b].out
           /\ \A b \in Conn : g[b].gen = f[b].gen
<1>1. f[a] \in ConnSet
  OBVIOUS
<1>2. PICK r : r = g[a]
  OBVIOUS
<1>3. r = [f[a] EXCEPT !.out = o] /\ \A b \in Conn \ {a} : g[b] = f[b]
  BY <1>2 DEF WithOut
<1>4. /\ r \in ConnSet
      /\ r.state = f[a].state /\ r.inq = f[a].inq /\ r.out = o /\ r.hup = f[a].hup /\ r.gen = f[a].gen
  BY <1>1, <1>3, EmptySeqs DEF ConnSet
<1>5. g \in [Conn -> ConnSet]
  <2>1. DOMAIN g = Conn /\ g = [b \in Conn |-> g[b]]
    BY DEF WithOut
  <2>2. \A b \in Conn : g[b] \in ConnSet
    BY <1>2, <1>3, <1>4
  <2> QED BY <2>1, <2>2
<1> QED BY <1>2, <1>3, <1>4, <1>5

HungUp(f, a) == [f EXCEPT ![a].hup = TRUE, ![a].out = <<>>]

LEMMA ConnHup ==
    ASSUME NEW f \in [Conn -> ConnSet], NEW a \in Conn,
           NEW g, g = HungUp(f, a)
    PROVE  /\ g \in [Conn -> ConnSet]
           /\ \A b \in Conn : g[b].state = f[b].state
           /\ \A b \in Conn : g[b].inq = f[b].inq
           /\ g[a].out = <<>> /\ \A b \in Conn \ {a} : g[b].out = f[b].out
           /\ \A b \in Conn : g[b].gen = f[b].gen
<1>1. f[a] \in ConnSet
  OBVIOUS
<1>2. PICK r : r = g[a]
  OBVIOUS
<1>3. r = [f[a] EXCEPT !.hup = TRUE, !.out = <<>>] /\ \A b \in Conn \ {a} : g[b] = f[b]
  BY <1>2 DEF HungUp
<1>4. /\ r \in ConnSet
      /\ r.state = f[a].state /\ r.inq = f[a].inq /\ r.out = <<>> /\ r.hup = TRUE /\ r.gen = f[a].gen
  BY <1>1, <1>3, EmptySeqs DEF ConnSet
<1>5. g \in [Conn -> ConnSet]
  <2>1. DOMAIN g = Conn /\ g = [b \in Conn |-> g[b]]
    BY DEF HungUp
  <2>2. \A b \in Conn : g[b] \in ConnSet
    BY <1>2, <1>3, <1>4
  <2> QED BY <2>1, <2>2
<1> QED BY <1>2, <1>3, <1>4, <1>5

-----------------------------------------------------------------------------
(* What TypeOK says of each part, and what keeps each part of the          *)
(* invariant.                                                              *)

LEMMA Types ==
    ASSUME TypeOK
    PROVE  /\ usb \in [path : Path \union {NoPath}, gen : 1..MaxPlugs]
           /\ usb.path \in Path \union {NoPath} /\ usb.gen \in 1..MaxPlugs /\ usb.gen \in Nat
           /\ bridge \in BridgeSet /\ conns \in [Conn -> ConnSet]
           /\ bridge.serial \in 0..MaxPlugs /\ bridge.client \in Conn \union {NoConn}
           /\ bridge.tx \in Seq(LineSet) /\ bridge.backlog \in Seq(Conn)
           /\ rx \in Seq(ItemSet) /\ din \in Seq(LineSet)
           /\ cl \in [Client -> ClientSet] /\ ran \in [Conn -> Nat]
           /\ NoConn \notin Conn /\ NoPath \notin Path
<1>1. usb \in [path : Path \union {NoPath}, gen : 1..MaxPlugs]
  BY DEF TypeOK
<1>2. usb.path \in Path \union {NoPath} /\ usb.gen \in 1..MaxPlugs /\ usb.gen \in Nat
  BY <1>1, BridgeAssumption
<1>3. bridge \in BridgeSet
  BY DEF TypeOK
<1> QED BY <1>1, <1>2, <1>3, BridgeFields, BridgeAssumption DEF TypeOK

LEMMA ConnTypes ==
    ASSUME TypeOK, NEW a \in Conn
    PROVE  /\ conns[a] \in ConnSet
           /\ conns[a].state \in {"none", "syn", "open", "busy", "missing", "shut"}
           /\ conns[a].inq \in Seq(LineSet) /\ conns[a].out \in Seq(ItemSet)
           /\ conns[a].gen \in 0..MaxPlugs
<1>1. conns[a] \in ConnSet
  BY Types
<1> QED BY <1>1, ConnFields

LEMMA UniqueFrame ==
    ASSUME Unique, ran' = ran,
           bridge'.tx \in {bridge.tx, <<>>}, din' \in {din, <<>>},
           \A a \in Conn : /\ conns'[a].inq \in {conns[a].inq, <<>>}
                           /\ conns'[a].state = "none" => conns[a].state = "none"
    PROVE  Unique'
<1>1. Distinct(bridge'.tx) /\ Distinct(din')
  BY ElemsEmpty DEF Unique
<1>2. Ofs(bridge'.tx) \subseteq Ofs(bridge.tx) /\ Ofs(din') \subseteq Ofs(din)
  BY ElemsEmpty
<1>3. ASSUME NEW a \in Conn
      PROVE  /\ Len(conns'[a].inq) <= 1 /\ Ofs(conns'[a].inq) \subseteq {a}
             /\ conns'[a].state = "none" => conns'[a].inq = <<>>
  <2>1. CASE conns'[a].inq = conns[a].inq
    BY <2>1 DEF Unique
  <2>2. CASE conns'[a].inq = <<>>
    BY <2>2, ElemsEmpty
  <2> QED BY <2>1, <2>2
<1>4. \A a \in Conn : Unsent(a)' => Unsent(a)
  BY DEF Unsent
<1> QED BY <1>1, <1>2, <1>3, <1>4 DEF Unique

LEMMA NamedLines ==
    ASSUME Named, ran' = ran, shell' \in {shell, Waiting},
           \A l \in Elems(din') : LineOK(l), \A l \in Elems(bridge'.tx) : LineOK(l),
           \A a \in Conn : \A l \in Elems(conns'[a].inq) : LineOK(l),
           Elems(rx') \subseteq Elems(rx),
           \A a \in Conn : Elems(conns'[a].out) \subseteq Elems(conns[a].out) \cup Elems(rx),
           \A c \in Client : \A x \in Elems(cl'[c].got) :
              x \in Elems(cl[c].got) \/ \E a \in Conn : x \in Elems(conns[a].out)
    PROVE  Named'
<1>1. \A x : ItemOK(x) => ItemOK(x)'
  BY DEF ItemOK
<1>2. \A l : LineOK(l) => LineOK(l)'
  BY DEF LineOK
<1>3. Waiting.st # "ran"
  BY DEF Waiting
<1> QED BY <1>1, <1>2, <1>3 DEF Named

LEMMA NamedFrame ==
    ASSUME Named, ran' = ran, shell' \in {shell, Waiting},
           Elems(din') \subseteq Elems(din) \cup Elems(bridge.tx),
           Elems(bridge'.tx) \subseteq Elems(bridge.tx),
           \A a \in Conn : Elems(conns'[a].inq) \subseteq Elems(conns[a].inq),
           Elems(rx') \subseteq Elems(rx),
           \A a \in Conn : Elems(conns'[a].out) \subseteq Elems(conns[a].out) \cup Elems(rx),
           \A c \in Client : \A x \in Elems(cl'[c].got) :
              x \in Elems(cl[c].got) \/ \E a \in Conn : x \in Elems(conns[a].out)
    PROVE  Named'
<1>1. /\ \A l \in Elems(din') : LineOK(l)
      /\ \A l \in Elems(bridge'.tx) : LineOK(l)
      /\ \A a \in Conn : \A l \in Elems(conns'[a].inq) : LineOK(l)
  BY DEF Named
<1> QED BY <1>1, NamedLines

LEMMA QueuedFrame ==
    ASSUME Queued, bridge'.backlog = bridge.backlog,
           bridge.backlog \in Seq(Conn),
           \A a \in Conn :
              /\ conns[a].state \in {"none", "syn"} => conns'[a].state = conns[a].state
              /\ conns'[a].state \in {"none", "syn"} =>
                    /\ conns'[a].state = conns[a].state
                    /\ conns'[a].out \in {conns[a].out, <<>>},
           \A c \in Client : cl'[c].n = cl[c].n
    PROVE  Queued'
<1>1. \A i \in DOMAIN bridge.backlog : bridge.backlog[i] \in Conn
  OBVIOUS
<1>2. \A a \in Conn : a[1] \in Client
  BY HostAssumption
<1> QED BY <1>1, <1>2 DEF Queued

LEMMA CallsFrame ==
    ASSUME Calls, ran' = ran, cl' = cl PROVE Calls'
  BY DEF Calls, CallOK, FrameOK

\* Nothing but the bridge and its links changed.
LEMMA HostFrame ==
    ASSUME TypeOK, UNCHANGED hostVars,
           usb' \in [path : Path \union {NoPath}, gen : 1..MaxPlugs],
           bridge' \in BridgeSet, conns' \in [Conn -> ConnSet],
           rx' \in Seq(ItemSet), din' \in Seq(LineSet)
    PROVE  /\ TypeOK' /\ ran' = ran /\ cl' = cl /\ shell' = shell /\ stale' = stale
  BY DEF TypeOK, hostVars, Waiting, Line

-----------------------------------------------------------------------------
(* The bridge.                                                             *)

LEMMA OpenStep ==
    ASSUME HInv, open_serial, UNCHANGED hostVars PROVE HInv'
<1>0. TypeOK /\ Plugged /\ Linked /\ Queued /\ Unique /\ Named /\ Calls
  BY DEF HInv
<1>1. usb' = usb /\ conns' = conns /\ din' = din /\ bridge.serial = 0 /\ usb.path \in Path
  BY <1>0, Types DEF open_serial
<1>2. /\ bridge' \in BridgeSet /\ bridge'.client = bridge.client
      /\ bridge'.tx = bridge.tx /\ bridge'.backlog = bridge.backlog
  <2>1. bridge \in BridgeSet /\ usb.gen \in 0..MaxPlugs
    BY <1>0, Types
  <2>2. CASE bridge' = [bridge EXCEPT !.pinned = usb.path]
    BY <1>1, <2>1, <2>2, EditPinned
  <2>3. CASE bridge' = [bridge EXCEPT !.serial = usb.gen, !.pinned = usb.path]
    BY <1>1, <2>1, <2>3 DEF BridgeSet
  <2> QED BY <2>2, <2>3 DEF open_serial
<1>3. rx' \in Seq(ItemSet) /\ Elems(rx') \subseteq Elems(rx)
  <2>1. CASE rx' = rx
    BY <1>0, <2>1, Types
  <2>2. CASE \E k \in 0..Len(rx) : rx' = SubSeq(rx, k + 1, Len(rx))
    BY <1>0, <2>2, Types, SplitSeq
  <2> QED BY <2>1, <2>2 DEF open_serial
<1>4. TypeOK' /\ ran' = ran /\ cl' = cl /\ shell' = shell /\ stale' = stale
  BY <1>0, <1>1, <1>2, <1>3, Types, HostFrame
<1>5. Plugged'
  BY <1>1, BridgeAssumption DEF Plugged
<1>6. Linked'
  BY <1>0, <1>1, <1>2, <1>3, <1>4, ElemsEmpty DEF Linked
<1>7. Queued'
  BY <1>0, <1>1, <1>2, <1>4, Types, QueuedFrame
<1>8. Unique'
  BY <1>0, <1>1, <1>2, <1>4, UniqueFrame
<1>9. Named'
  BY <1>0, <1>1, <1>2, <1>3, <1>4, NamedFrame
<1>10. Calls'
  BY <1>0, <1>4, CallsFrame
<1> QED BY <1>4, <1>5, <1>6, <1>7, <1>8, <1>9, <1>10 DEF HInv

\* Closing a connection that is open, or none.
LEMMA ShutEffect ==
    ASSUME TypeOK, Linked, NEW a, a = bridge.client, conns' = Shut(a)
    PROVE  /\ conns' \in [Conn -> ConnSet]
           /\ \A b \in Conn :
                 /\ conns'[b].out = conns[b].out /\ conns'[b].gen = conns[b].gen
                 /\ conns'[b].inq \in {conns[b].inq, <<>>}
                 /\ conns'[b].state = conns[b].state
                    \/ (conns[b].state = "open" /\ conns'[b].state = "shut")
<1>1. conns \in [Conn -> ConnSet] /\ a \in Conn \union {NoConn} /\ NoConn \notin Conn
  BY Types
<1>2. CASE a = NoConn
  BY <1>1, <1>2 DEF Shut
<1>3. CASE a # NoConn
  <2>1. a \in Conn /\ conns[a].state = "open"
    BY <1>1, <1>3 DEF Linked
  <2>2. conns' = [conns EXCEPT ![a].state = "shut", ![a].inq = <<>>]
    BY <1>3 DEF Shut
  <2> QED BY <1>1, <2>1, <2>2, ConnShut
<1> QED BY <1>2, <1>3

LEMMA LostStep ==
    ASSUME HInv, serial_lost, UNCHANGED hostVars PROVE HInv'
<1>0. TypeOK /\ Plugged /\ Linked /\ Queued /\ Unique /\ Named /\ Calls
  BY DEF HInv
<1>1. usb' = usb /\ rx' = rx /\ din' = din
  BY DEF serial_lost
<1>2. /\ bridge' \in BridgeSet /\ bridge'.client = NoConn /\ bridge'.serial = 0
      /\ bridge'.tx = <<>> /\ bridge'.backlog = bridge.backlog
  BY <1>0, Types, EditClosed DEF serial_lost, close_serial
<1>3. /\ conns' \in [Conn -> ConnSet]
      /\ \A b \in Conn :
            /\ conns'[b].out = conns[b].out /\ conns'[b].gen = conns[b].gen
            /\ conns'[b].inq \in {conns[b].inq, <<>>}
            /\ conns'[b].state = conns[b].state
               \/ (conns[b].state = "open" /\ conns'[b].state = "shut")
  BY <1>0, ShutEffect DEF serial_lost, close_serial
<1>4. TypeOK' /\ ran' = ran /\ cl' = cl /\ shell' = shell /\ stale' = stale
  BY <1>0, <1>1, <1>2, <1>3, Types, HostFrame
<1>5. Plugged'
  BY <1>0, <1>1, BridgeAssumption DEF Plugged
<1>6. Linked'
  BY <1>0, <1>1, <1>2, <1>3, <1>4, ElemsEmpty DEF Linked
<1>7. Queued'
  BY <1>0, <1>2, <1>3, <1>4, Types, QueuedFrame
<1>8. Unique'
  BY <1>0, <1>1, <1>2, <1>3, <1>4, UniqueFrame
<1>9. Named'
  BY <1>0, <1>1, <1>2, <1>3, <1>4, ElemsEmpty, NamedFrame
<1>10. Calls'
  BY <1>0, <1>4, CallsFrame
<1> QED BY <1>4, <1>5, <1>6, <1>7, <1>8, <1>9, <1>10 DEF HInv

LEMMA LeftStep ==
    ASSUME HInv, client_left, UNCHANGED hostVars PROVE HInv'
<1>0. TypeOK /\ Plugged /\ Linked /\ Queued /\ Unique /\ Named /\ Calls
  BY DEF HInv
<1>1. usb' = usb /\ rx' = rx /\ din' = din
  BY DEF client_left
<1>2. /\ bridge' \in BridgeSet /\ bridge'.client = NoConn /\ bridge'.serial = bridge.serial
      /\ bridge'.tx = bridge.tx /\ bridge'.backlog = bridge.backlog
  BY <1>0, Types, EditClient DEF client_left
<1>3. /\ conns' \in [Conn -> ConnSet]
      /\ \A b \in Conn :
            /\ conns'[b].out = conns[b].out /\ conns'[b].gen = conns[b].gen
            /\ conns'[b].inq \in {conns[b].inq, <<>>}
            /\ conns'[b].state = conns[b].state
               \/ (conns[b].state = "open" /\ conns'[b].state = "shut")
  BY <1>0, ShutEffect DEF client_left
<1>4. TypeOK' /\ ran' = ran /\ cl' = cl /\ shell' = shell /\ stale' = stale
  BY <1>0, <1>1, <1>2, <1>3, Types, HostFrame
<1>5. Plugged'
  BY <1>0, <1>1, BridgeAssumption DEF Plugged
<1>6. Linked'
  BY <1>0, <1>1, <1>2, <1>3, <1>4 DEF Linked
<1>7. Queued'
  BY <1>0, <1>2, <1>3, <1>4, Types, QueuedFrame
<1>8. Unique'
  BY <1>0, <1>1, <1>2, <1>3, <1>4, UniqueFrame
<1>9. Named'
  BY <1>0, <1>1, <1>2, <1>3, <1>4, ElemsEmpty, NamedFrame
<1>10. Calls'
  BY <1>0, <1>4, CallsFrame
<1> QED BY <1>4, <1>5, <1>6, <1>7, <1>8, <1>9, <1>10 DEF HInv

LEMMA ForwardStep ==
    ASSUME HInv, forward_serial, UNCHANGED hostVars PROVE HInv'
<1>0. TypeOK /\ Plugged /\ Linked /\ Queued /\ Unique /\ Named /\ Calls
  BY DEF HInv
<1>1. /\ usb' = usb /\ din' = din /\ rx' = <<>>
      /\ bridge.serial = usb.gen /\ usb.path # NoPath
  BY DEF forward_serial, LinkUp
<1>2. /\ bridge' \in BridgeSet /\ bridge'.serial = bridge.serial
      /\ bridge'.tx = bridge.tx /\ bridge'.backlog = bridge.backlog
      /\ bridge'.client \in {bridge.client, NoConn}
      /\ conns' \in [Conn -> ConnSet]
      /\ \A b \in Conn :
            /\ conns'[b].gen = conns[b].gen
            /\ conns'[b].inq \in {conns[b].inq, <<>>}
            /\ conns'[b].state = conns[b].state
               \/ (/\ conns[b].state = "open" /\ conns'[b].state = "shut"
                   /\ bridge'.client = NoConn)
            /\ conns'[b].out = conns[b].out
               \/ (b = bridge.client /\ conns'[b].out = conns[b].out \o rx)
  <2>1. bridge \in BridgeSet /\ conns \in [Conn -> ConnSet]
    BY <1>0, Types
  <2>2. CASE bridge' = bridge /\ conns' = conns
    BY <2>1, <2>2
  <2>3. CASE /\ bridge' = bridge /\ bridge.client # NoConn
             /\ conns' = [conns EXCEPT ![bridge.client].out = @ \o rx]
    <3>1. PICK a \in Conn : a = bridge.client
      BY <1>0, <2>3, Types
    <3>2. PICK o \in Seq(ItemSet) : o = conns[a].out \o rx
      BY <1>0, Types, ConnTypes, ElemsConcat
    <3>3. conns' = WithOut(conns, a, o)
      BY <2>3, <3>1, <3>2 DEF WithOut
    <3>4. /\ conns' \in [Conn -> ConnSet] /\ conns'[a].out = o
          /\ \A b \in Conn \ {a} : conns'[b].out = conns[b].out
          /\ \A b \in Conn : /\ conns'[b].gen = conns[b].gen /\ conns'[b].inq = conns[b].inq
                             /\ conns'[b].state = conns[b].state
      BY <2>1, <3>3, ConnOut
    <3>5. \A b \in Conn : conns'[b].out = conns[b].out
               \/ (b = bridge.client /\ conns'[b].out = conns[b].out \o rx)
      BY <3>1, <3>2, <3>4
    <3>6. bridge' = bridge
      BY <2>3
    <3> QED BY <2>1, <3>4, <3>5, <3>6
  <2>4. CASE /\ bridge' = [bridge EXCEPT !.client = NoConn]
             /\ conns' = Shut(bridge.client)
    <3>1. /\ bridge' \in BridgeSet /\ bridge'.serial = bridge.serial
          /\ bridge'.tx = bridge.tx /\ bridge'.backlog = bridge.backlog
          /\ bridge'.client = NoConn
      BY <2>1, <2>4, EditClient
    <3> QED BY <1>0, <2>4, <3>1, ShutEffect
  <2> QED BY <2>2, <2>3, <2>4 DEF forward_serial
<1>3. \A b \in Conn : Elems(conns'[b].out) \subseteq Elems(conns[b].out) \cup Elems(rx)
  <2>1. SUFFICES ASSUME NEW b \in Conn
                 PROVE  Elems(conns'[b].out) \subseteq Elems(conns[b].out) \cup Elems(rx)
    OBVIOUS
  <2>2. Elems(conns[b].out \o rx) = Elems(conns[b].out) \cup Elems(rx)
    BY <1>0, Types, ConnTypes, ElemsConcat
  <2> QED BY <1>2, <2>2
<1>4. TypeOK' /\ ran' = ran /\ cl' = cl /\ shell' = shell /\ stale' = stale
  BY <1>0, <1>1, <1>2, Types, EmptySeqs, HostFrame
<1>5. Plugged'
  BY <1>0, <1>1, BridgeAssumption DEF Plugged
<1>6. Linked'
  <2>1. ASSUME NEW a \in Conn, NEW x \in Elems(conns'[a].out)
        PROVE  x.gen = conns'[a].gen
    <3>1. CASE x \in Elems(conns[a].out)
      BY <1>0, <1>2, <3>1 DEF Linked
    <3>2. CASE x \notin Elems(conns[a].out)
      <4>1. a = bridge.client /\ x \in Elems(rx)
        BY <1>2, <1>3, <2>1, <3>2
      <4>2. x.gen = usb.gen /\ conns[a].gen = bridge.serial
        BY <1>0, <4>1, Types DEF Linked
      <4> QED BY <1>1, <1>2, <4>2
    <3> QED BY <3>1, <3>2
  <2>2. bridge'.client # NoConn => /\ conns'[bridge'.client].state = "open"
                                   /\ conns'[bridge'.client].gen = bridge'.serial
    BY <1>0, <1>2, Types DEF Linked
  <2> QED BY <1>0, <1>1, <1>2, <1>4, <2>1, <2>2, ElemsEmpty DEF Linked
<1>7. Queued'
  <2>1. \A a \in Conn : conns'[a].state \in {"none", "syn"} =>
           /\ conns'[a].state = conns[a].state /\ conns'[a].out = conns[a].out
    <3>1. SUFFICES ASSUME NEW a \in Conn, conns'[a].state \in {"none", "syn"}
                   PROVE  conns'[a].state = conns[a].state /\ conns'[a].out = conns[a].out
      OBVIOUS
    <3>2. conns'[a].state = conns[a].state
      BY <1>2, <3>1
    <3>3. a # bridge.client
      BY <1>0, <3>1, <3>2, Types DEF Linked
    <3> QED BY <1>2, <3>2, <3>3
  <2> QED BY <1>0, <1>2, <1>4, <2>1, Types, QueuedFrame
<1>8. Unique'
  BY <1>0, <1>1, <1>2, <1>4, UniqueFrame
<1>9. Named'
  BY <1>0, <1>1, <1>2, <1>3, <1>4, ElemsEmpty, NamedFrame
<1>10. Calls'
  BY <1>0, <1>4, CallsFrame
<1> QED BY <1>4, <1>5, <1>6, <1>7, <1>8, <1>9, <1>10 DEF HInv

LEMMA FlushStep ==
    ASSUME HInv, flush_serial_tx, UNCHANGED hostVars PROVE HInv'
<1>0. TypeOK /\ Plugged /\ Linked /\ Queued /\ Unique /\ Named /\ Calls
  BY DEF HInv
<1>1. /\ usb' = usb /\ conns' = conns /\ rx' = rx
      /\ bridge.serial = usb.gen /\ usb.path # NoPath
  BY DEF flush_serial_tx, LinkUp
<1>2. PICK k \in 1..Len(bridge.tx) : Written(bridge.tx, k)
  BY DEF flush_serial_tx
<1>3. PICK u : u = SubSeq(bridge.tx, 1, k)
  OBVIOUS
<1>4. PICK v : v = SubSeq(bridge.tx, k + 1, Len(bridge.tx))
  OBVIOUS
<1>5. bridge.tx \in Seq(LineSet) /\ din \in Seq(LineSet) /\ k \in 0..Len(bridge.tx)
  BY <1>0, <1>2, Types
<1>6. /\ u \in Seq(LineSet) /\ v \in Seq(LineSet)
      /\ Elems(u) \subseteq Elems(bridge.tx) /\ Elems(v) \subseteq Elems(bridge.tx)
      /\ Ofs(u) \subseteq Ofs(bridge.tx) /\ Ofs(v) \subseteq Ofs(bridge.tx)
  BY <1>3, <1>4, <1>5, SplitSeq
<1>7. Distinct(u) /\ Distinct(v) /\ Ofs(u) \cap Ofs(v) = {}
  BY <1>0, <1>3, <1>4, <1>5, SplitDistinct DEF Unique
<1>8. din' = din \o u /\ bridge' = [bridge EXCEPT !.tx = v]
  BY <1>2, <1>3, <1>4 DEF Written
<1>9. /\ bridge' \in BridgeSet /\ bridge'.serial = bridge.serial /\ bridge'.tx = v
      /\ bridge'.client = bridge.client /\ bridge'.backlog = bridge.backlog
  BY <1>0, <1>6, <1>8, Types, EditTx
<1>10. /\ din' \in Seq(LineSet) /\ Elems(din') = Elems(din) \cup Elems(u)
       /\ Ofs(din') = Ofs(din) \cup Ofs(u)
  BY <1>5, <1>6, <1>8, ElemsConcat
<1>11. TypeOK' /\ ran' = ran /\ cl' = cl /\ shell' = shell /\ stale' = stale
  BY <1>0, <1>1, <1>9, <1>10, Types, HostFrame
<1>12. Plugged'
  BY <1>1, BridgeAssumption DEF Plugged
<1>13. Linked'
  <2>1. \A l \in Elems(din') : l.gen = usb.gen
    BY <1>0, <1>1, <1>6, <1>10 DEF Linked
  <2>2. \A l \in Elems(v) : l.gen = bridge.serial
    BY <1>0, <1>6 DEF Linked
  <2>3. bridge.serial # 0
    BY <1>0, <1>1, Types
  <2> QED BY <1>0, <1>1, <1>9, <1>11, <2>1, <2>2, <2>3 DEF Linked
<1>14. Queued'
  BY <1>0, <1>1, <1>9, <1>11, Types, QueuedFrame
<1>15. Unique'
  <2>1. Distinct(din')
    BY <1>0, <1>5, <1>6, <1>7, <1>8, DistinctConcat DEF Unique
  <2>2. Ofs(v) \cap Ofs(din') = {}
    BY <1>0, <1>6, <1>7, <1>10 DEF Unique
  <2>3. Ofs(v) \cup Ofs(din') \subseteq Ofs(bridge.tx) \cup Ofs(din)
    BY <1>6, <1>10
  <2> QED BY <1>0, <1>1, <1>7, <1>9, <1>11, <2>1, <2>2, <2>3 DEF Unique, Unsent
<1>16. Named'
  BY <1>0, <1>1, <1>6, <1>9, <1>10, <1>11, NamedFrame
<1>17. Calls'
  BY <1>0, <1>11, CallsFrame
<1> QED BY <1>11, <1>12, <1>13, <1>14, <1>15, <1>16, <1>17 DEF HInv

LEMMA AcceptStep ==
    ASSUME HInv, accept_client, UNCHANGED hostVars PROVE HInv'
<1>0. TypeOK /\ Plugged /\ Linked /\ Queued /\ Unique /\ Named /\ Calls
  BY DEF HInv
<1>1. usb' = usb /\ rx' = rx /\ din' = din /\ bridge.backlog # <<>>
  BY DEF accept_client
<1>2. PICK q : q = Tail(bridge.backlog)
  OBVIOUS
<1>3. PICK a : a = Head(bridge.backlog)
  OBVIOUS
<1>4. /\ bridge.backlog \in Seq(Conn) /\ bridge \in BridgeSet
      /\ conns \in [Conn -> ConnSet] /\ bridge.serial \in 0..MaxPlugs
  BY <1>0, Types
<1>5. /\ q \in Seq(Conn) /\ a \in Conn /\ a = bridge.backlog[1] /\ 1 \in DOMAIN bridge.backlog
      /\ \A i \in DOMAIN q : i + 1 \in DOMAIN bridge.backlog /\ q[i] = bridge.backlog[i + 1]
  BY <1>1, <1>2, <1>3, <1>4
<1>6. conns[a].state = "syn" /\ conns[a].out = <<>>
  BY <1>0, <1>5 DEF Queued
<1>7. PICK b : b = [bridge EXCEPT !.backlog = q]
  OBVIOUS
<1>8. /\ b \in BridgeSet /\ b.backlog = q /\ b.serial = bridge.serial
      /\ b.client = bridge.client /\ b.tx = bridge.tx
  BY <1>4, <1>5, <1>7, EditBacklog
<1>9. \/ /\ b.serial = 0 /\ bridge' = b
         /\ conns' = [conns EXCEPT ![a].state = "missing"]
      \/ /\ b.serial # 0 /\ b.client # NoConn /\ bridge' = b
         /\ conns' = [conns EXCEPT ![a].state = "busy"]
      \/ /\ b.serial # 0 /\ b.client = NoConn /\ bridge' = [b EXCEPT !.client = a]
         /\ conns' = [conns EXCEPT ![a].state = "open", ![a].gen = b.serial]
  BY <1>2, <1>3, <1>7 DEF accept_client
<1>10. /\ bridge' \in BridgeSet /\ bridge'.backlog = q /\ bridge'.serial = bridge.serial
       /\ bridge'.tx = bridge.tx
       /\ conns' \in [Conn -> ConnSet] /\ conns'[a].state \in {"missing", "busy", "open"}
       /\ \A d \in Conn : conns'[d].inq = conns[d].inq /\ conns'[d].out = conns[d].out
       /\ \A d \in Conn \ {a} : /\ conns'[d].state = conns[d].state
                                /\ conns'[d].gen = conns[d].gen
       /\ \/ bridge'.client = bridge.client
          \/ /\ bridge'.client = a /\ conns'[a].gen = bridge.serial /\ bridge.serial # 0
             /\ conns'[a].state = "open"
  <2>1. CASE \E x \in {"busy", "missing"} :
                bridge' = b /\ conns' = [conns EXCEPT ![a].state = x]
    <3>1. PICK x \in {"busy", "missing"} :
                bridge' = b /\ conns' = [conns EXCEPT ![a].state = x]
      BY <2>1
    <3>0. conns' = WithState(conns, a, x)
      BY <3>1 DEF WithState
    <3>2. /\ conns' \in [Conn -> ConnSet] /\ conns'[a].state = x
          /\ \A d \in Conn : conns'[d].inq = conns[d].inq /\ conns'[d].out = conns[d].out
          /\ \A d \in Conn \ {a} : /\ conns'[d].state = conns[d].state
                                   /\ conns'[d].gen = conns[d].gen
      BY <1>4, <1>5, <3>0, ConnState
    <3> QED BY <1>8, <3>1, <3>2
  <2>2. CASE /\ b.serial # 0 /\ bridge' = [b EXCEPT !.client = a]
             /\ conns' = [conns EXCEPT ![a].state = "open", ![a].gen = b.serial]
    <3>1. /\ bridge' \in BridgeSet /\ bridge'.backlog = q /\ bridge'.serial = bridge.serial
          /\ bridge'.tx = bridge.tx /\ bridge'.client = a
      BY <1>5, <1>8, <2>2, EditClient
    <3>2. b.serial \in 0..MaxPlugs
      BY <1>4, <1>8
    <3>0. conns' = Accepted(conns, a, b.serial)
      BY <2>2 DEF Accepted
    <3>3. /\ conns' \in [Conn -> ConnSet] /\ conns'[a].state = "open"
          /\ conns'[a].gen = b.serial
          /\ \A d \in Conn : conns'[d].inq = conns[d].inq /\ conns'[d].out = conns[d].out
          /\ \A d \in Conn \ {a} : /\ conns'[d].state = conns[d].state
                                   /\ conns'[d].gen = conns[d].gen
      BY <1>4, <1>5, <3>0, <3>2, ConnOpen
    <3> QED BY <1>8, <2>2, <3>1, <3>3
  <2> QED BY <1>9, <2>1, <2>2
<1>11. TypeOK' /\ ran' = ran /\ cl' = cl /\ shell' = shell /\ stale' = stale
  BY <1>0, <1>1, <1>10, Types, HostFrame
<1>12. Plugged'
  BY <1>0, <1>1, BridgeAssumption DEF Plugged
<1>13. Linked'
  <2>1. bridge.client # NoConn => bridge.client \in Conn \ {a}
    BY <1>0, <1>6, Types DEF Linked
  <2>2. \A d \in Conn : \A x \in Elems(conns'[d].out) : x.gen = conns'[d].gen
    <3>1. ASSUME NEW d \in Conn, NEW x \in Elems(conns'[d].out)
          PROVE  x.gen = conns'[d].gen
      <4>1. conns'[d].out = conns[d].out
        BY <1>10
      <4>2. d # a
        BY <1>6, <3>1, <4>1, ElemsEmpty
      <4> QED BY <1>0, <1>10, <3>1, <4>1, <4>2 DEF Linked
    <3> QED BY <3>1
  <2>3. bridge'.client # NoConn => /\ conns'[bridge'.client].state = "open"
                                   /\ conns'[bridge'.client].gen = bridge'.serial
    BY <1>0, <1>10, <2>1 DEF Linked
  <2>4. bridge'.serial = 0 => bridge'.client = NoConn /\ bridge'.tx = <<>>
    BY <1>0, <1>10 DEF Linked
  <2> QED BY <1>0, <1>1, <1>10, <1>11, <2>2, <2>3, <2>4 DEF Linked
<1>14. Queued'
  <2>1. \A i \in DOMAIN q : q[i] # a
    BY <1>0, <1>4, <1>5 DEF Queued
  <2>2. \A i \in DOMAIN q : q[i] \in Conn /\ conns[q[i]].state = "syn"
    BY <1>0, <1>5 DEF Queued
  <2>3. \A i, j \in DOMAIN q : q[i] = q[j] => i = j
    <3>1. SUFFICES ASSUME NEW i \in DOMAIN q, NEW j \in DOMAIN q, q[i] = q[j]
                   PROVE  i = j
      OBVIOUS
    <3>2. i + 1 = j + 1
      BY <1>0, <1>5, <3>1 DEF Queued
    <3>3. i \in Int /\ j \in Int
      BY <1>5
    <3> QED BY <3>2, <3>3
  <2>4. \A d \in Conn : conns'[d].state \in {"none", "syn"} => d # a
    BY <1>10
  <2>5. \A i \in DOMAIN q : conns'[q[i]].state = "syn"
    BY <1>10, <2>1, <2>2
  <2>6. \A d \in Conn : conns'[d].state \in {"none", "syn"} => conns'[d].out = <<>>
    BY <1>0, <1>10, <2>4 DEF Queued
  <2>7. \A d \in Conn : cl[d[1]].n < d[2] => conns'[d].state = "none"
    BY <1>0, <1>6, <1>10 DEF Queued
  <2> QED BY <1>10, <1>11, <2>3, <2>5, <2>6, <2>7 DEF Queued
<1>15. Unique'
  BY <1>0, <1>1, <1>10, <1>11, UniqueFrame
<1>16. Named'
  BY <1>0, <1>1, <1>10, <1>11, NamedFrame
<1>17. Calls'
  BY <1>0, <1>11, CallsFrame
<1> QED BY <1>11, <1>12, <1>13, <1>14, <1>15, <1>16, <1>17 DEF HInv

\* Lines that are queued remember the link they are queued for.
Requeued(q, s) == [i \in DOMAIN q |-> [q[i] EXCEPT !.gen = s]]

\* Two lines that differ in what the host cannot see.
Alike(l, k) == l.of = k.of /\ l.name = k.name

LEMMA RequeuedLines ==
    ASSUME NEW q \in Seq(LineSet), Len(q) <= 1, NEW s \in 0..MaxPlugs
    PROVE  /\ Requeued(q, s) \in Seq(LineSet) /\ Distinct(Requeued(q, s))
           /\ Ofs(Requeued(q, s)) = Ofs(q)
           /\ \A l \in Elems(Requeued(q, s)) :
                 l.gen = s /\ \E k \in Elems(q) : Alike(l, k)
<1>0. PICK t : t = Requeued(q, s)
  OBVIOUS
<1>1. s \in Nat /\ DOMAIN q = 1..Len(q) /\ \A i \in DOMAIN q : q[i] \in LineSet
  BY BridgeAssumption
<1>2. DOMAIN t = 1..Len(q) /\ \A i \in 1..Len(q) : t[i] = [q[i] EXCEPT !.gen = s]
  BY <1>0, <1>1 DEF Requeued
<1>3. \A i \in 1..Len(q) :
         t[i] \in LineSet /\ t[i].gen = s /\ t[i].of = q[i].of /\ t[i].name = q[i].name
  BY <1>1, <1>2 DEF LineSet
<1>4. t \in Seq(LineSet)
  <2>1. t \in [1..Len(q) -> LineSet]
    <3>1. t = [i \in DOMAIN t |-> t[i]]
      BY <1>0 DEF Requeued
    <3> QED BY <1>2, <1>3, <3>1
  <2> QED BY <2>1
<1>5. Distinct(t)
  BY <1>2 DEF Distinct
<1>6. Ofs(t) = Ofs(q)
  BY <1>1, <1>2, <1>3 DEF Ofs
<1>7. \A l \in Elems(t) : l.gen = s /\ \E k \in Elems(q) : Alike(l, k)
  BY <1>1, <1>2, <1>3 DEF Elems, Alike
<1> QED BY <1>0, <1>4, <1>5, <1>6, <1>7

LEMMA AlikeOK ==
    ASSUME NEW l, NEW k, Alike(l, k), LineOK(k) PROVE LineOK(l)
  BY DEF Alike, LineOK

LEMMA ForwardClientStep ==
    ASSUME HInv, forward_client, UNCHANGED hostVars PROVE HInv'
<1>0. TypeOK /\ Plugged /\ Linked /\ Queued /\ Unique /\ Named /\ Calls
  BY DEF HInv
<1>1. PICK a \in Conn : a = bridge.client
  BY <1>0, Types DEF forward_client
<1>2. PICK new : new = Requeued(conns[a].inq, bridge.serial)
  OBVIOUS
<1>3. PICK all : all = bridge.tx \o new
  OBVIOUS
<1>4. /\ usb' = usb /\ rx' = rx /\ conns[a].inq # <<>>
      /\ conns' = [conns EXCEPT ![a].inq = <<>>]
      /\ \E k \in (IF LinkUp THEN 0..Len(all) ELSE {0}) : Written(all, k)
  BY <1>1, <1>2, <1>3 DEF forward_client, Requeued
<1>5. PICK k : /\ k \in (IF LinkUp THEN 0..Len(all) ELSE {0})
               /\ Written(all, k)
  BY <1>4
<1>6. /\ conns[a].inq \in Seq(LineSet) /\ Len(conns[a].inq) <= 1
      /\ bridge.serial \in 0..MaxPlugs
      /\ bridge.tx \in Seq(LineSet) /\ din \in Seq(LineSet)
      /\ conns \in [Conn -> ConnSet] /\ bridge \in BridgeSet
  BY <1>0, Types, ConnTypes DEF Unique
<1>7. /\ new \in Seq(LineSet) /\ Distinct(new) /\ Ofs(new) = Ofs(conns[a].inq)
      /\ \A l \in Elems(new) : l.gen = bridge.serial /\ \E j \in Elems(conns[a].inq) : Alike(l, j)
  BY <1>2, <1>6, RequeuedLines
<1>8. /\ Ofs(new) \subseteq {a} /\ a \notin Ofs(bridge.tx) \cup Ofs(din) /\ ran[a] = 0
  BY <1>0, <1>4, <1>7 DEF Unique, Unsent
<1>9. /\ all \in Seq(LineSet) /\ Elems(all) = Elems(bridge.tx) \cup Elems(new)
      /\ Ofs(all) = Ofs(bridge.tx) \cup Ofs(new)
  BY <1>3, <1>6, <1>7, ElemsConcat
<1>10. Distinct(all)
  BY <1>0, <1>3, <1>6, <1>7, <1>8, DistinctConcat DEF Unique
<1>11. k \in 0..Len(all)
  BY <1>5, <1>9
<1>12. PICK u : u = SubSeq(all, 1, k)
  OBVIOUS
<1>13. PICK v : v = SubSeq(all, k + 1, Len(all))
  OBVIOUS
<1>14. /\ u \in Seq(LineSet) /\ v \in Seq(LineSet)
       /\ Elems(u) \subseteq Elems(all) /\ Elems(v) \subseteq Elems(all)
       /\ Ofs(u) \subseteq Ofs(all) /\ Ofs(v) \subseteq Ofs(all)
  BY <1>9, <1>11, <1>12, <1>13, SplitSeq
<1>15. Distinct(u) /\ Distinct(v) /\ Ofs(u) \cap Ofs(v) = {}
  BY <1>9, <1>10, <1>11, <1>12, <1>13, SplitDistinct
<1>16. din' = din \o u /\ bridge' = [bridge EXCEPT !.tx = v]
  BY <1>5, <1>12, <1>13 DEF Written
<1>17. /\ bridge' \in BridgeSet /\ bridge'.serial = bridge.serial /\ bridge'.tx = v
       /\ bridge'.client = bridge.client /\ bridge'.backlog = bridge.backlog
  BY <1>6, <1>14, <1>16, EditTx
<1>18. /\ din' \in Seq(LineSet) /\ Elems(din') = Elems(din) \cup Elems(u)
       /\ Ofs(din') = Ofs(din) \cup Ofs(u)
  BY <1>6, <1>14, <1>16, ElemsConcat
<1>19. /\ conns' \in [Conn -> ConnSet] /\ conns'[a].inq = <<>>
       /\ \A b \in Conn \ {a} : conns'[b].inq = conns[b].inq
       /\ \A b \in Conn : /\ conns'[b].state = conns[b].state
                          /\ conns'[b].out = conns[b].out /\ conns'[b].gen = conns[b].gen
  <2>1. conns' = Drained(conns, a)
    BY <1>4 DEF Drained
  <2> QED BY <1>6, <2>1, ConnRead
<1>20. TypeOK' /\ ran' = ran /\ cl' = cl /\ shell' = shell /\ stale' = stale
  BY <1>0, <1>4, <1>17, <1>18, <1>19, Types, HostFrame
<1>21. LinkUp \/ u = <<>>
  <2>1. SubSeq(all, 1, 0) = <<>>
    BY <1>9
  <2> QED BY <1>5, <1>12, <2>1
<1>22. Plugged'
  <2>1. usb.path = NoPath => u = <<>>
    BY <1>21 DEF LinkUp
  <2>2. usb.path = NoPath => din' = din
    BY <1>6, <1>16, <2>1
  <2> QED BY <1>0, <1>4, <2>2, BridgeAssumption DEF Plugged
<1>23. Linked'
  <2>1. \A l \in Elems(all) : l.gen = bridge.serial
    BY <1>0, <1>7, <1>9 DEF Linked
  <2>2. \A l \in Elems(u) : l.gen = usb.gen
    <3>1. CASE LinkUp
      BY <1>14, <2>1, <3>1 DEF LinkUp
    <3>2. CASE u = <<>>
      BY <3>2, ElemsEmpty
    <3> QED BY <1>21, <3>1, <3>2
  <2>3. \A l \in Elems(din') : l.gen = usb.gen
    BY <1>0, <1>18, <2>2 DEF Linked
  <2>4. bridge.serial # 0
    BY <1>0, <1>1, BridgeAssumption DEF Linked
  <2>5. \A l \in Elems(v) : l.gen = bridge.serial
    BY <1>14, <2>1
  <2>6. /\ conns'[bridge.client].state = "open"
        /\ conns'[bridge.client].gen = bridge.serial
    BY <1>0, <1>1, <1>19, Types DEF Linked
  <2> QED BY <1>0, <1>4, <1>17, <1>19, <1>20, <2>3, <2>4, <2>5, <2>6 DEF Linked
<1>24. Queued'
  BY <1>0, <1>17, <1>19, <1>20, Types, QueuedFrame
<1>25. Unique'
  <2>1. Ofs(all) \cap Ofs(din) = {}
    BY <1>0, <1>8, <1>9 DEF Unique
  <2>2. Distinct(din')
    BY <1>0, <1>6, <1>14, <1>15, <1>16, <2>1, DistinctConcat DEF Unique
  <2>3. Ofs(v) \cap Ofs(din') = {}
    BY <1>14, <1>15, <1>18, <2>1
  <2>4. Ofs(v) \cup Ofs(din') \subseteq Ofs(bridge.tx) \cup Ofs(din) \cup {a}
    BY <1>8, <1>9, <1>14, <1>18
  <2>5. conns[a].state # "none"
    BY <1>0, <1>4 DEF Unique
  <2>6. \A b \in Conn : Unsent(b)' => Unsent(b) /\ b # a
    BY <1>19, <2>5 DEF Unsent
  <2>7. \A b \in Conn : Len(conns'[b].inq) <= 1 /\ Ofs(conns'[b].inq) \subseteq {b}
                        /\ (conns'[b].state = "none" => conns'[b].inq = <<>>)
    <3>1. Len(<<>>) <= 1
      OBVIOUS
    <3> QED BY <1>0, <1>19, <3>1, ElemsEmpty DEF Unique
  <2>8. \A b \in Conn : b \in Ofs(v) \cup Ofs(din') => ran[b] = 0
    BY <1>0, <1>8, <2>4 DEF Unique
  <2>9. \A b \in Conn : Unsent(b)' => b \notin Ofs(v) \cup Ofs(din') /\ ran[b] = 0
    BY <1>0, <2>4, <2>6 DEF Unique
  <2> QED BY <1>0, <1>15, <1>17, <1>20, <2>2, <2>3, <2>7, <2>8, <2>9 DEF Unique
<1>26. Named'
  <2>1. \A l \in Elems(all) : LineOK(l)
    BY <1>0, <1>7, <1>9, AlikeOK DEF Named
  <2>2. \A l \in Elems(din') : LineOK(l)
    BY <1>0, <1>14, <1>18, <2>1 DEF Named
  <2>3. \A b \in Conn : \A l \in Elems(conns'[b].inq) : LineOK(l)
    BY <1>0, <1>19, ElemsEmpty DEF Named
  <2> QED BY <1>0, <1>4, <1>14, <1>17, <1>19, <1>20, <2>1, <2>2, <2>3, NamedLines
<1>27. Calls'
  BY <1>0, <1>20, CallsFrame
<1> QED BY <1>20, <1>22, <1>23, <1>24, <1>25, <1>26, <1>27 DEF HInv

\* The end of the process closes every connection that was made.
LEMMA StopEffect ==
    ASSUME TypeOK, BridgeStop
    PROVE  /\ bridge' = Down /\ bridge' # bridge
           /\ conns' \in [Conn -> ConnSet]
           /\ \A b \in Conn : /\ conns'[b].inq \in {conns[b].inq, <<>>}
                              /\ conns'[b].out = conns[b].out /\ conns'[b].gen = conns[b].gen
                              /\ conns'[b].state \in {conns[b].state, "shut"}
                              /\ conns[b].state = "none" => conns'[b].state = "none"
<1>1. bridge' = Down /\ bridge' # bridge
  <2>1. bridge.up /\ ~bridge'.up /\ bridge' = Down
    BY DEF BridgeStop, Down
  <2> QED BY <2>1
<1>2. conns' = [b \in Conn |-> conns'[b]]
  BY DEF BridgeStop
<1>3. ASSUME NEW b \in Conn
      PROVE  /\ conns'[b] \in ConnSet
             /\ conns'[b].inq \in {conns[b].inq, <<>>}
             /\ conns'[b].out = conns[b].out /\ conns'[b].gen = conns[b].gen
             /\ conns'[b].state \in {conns[b].state, "shut"}
             /\ conns[b].state = "none" => conns'[b].state = "none"
  <2>1. PICK k \in ConnSet : k = conns[b]
    BY Types
  <2>2. PICK j : j = [k EXCEPT !.state = "shut", !.inq = <<>>]
    OBVIOUS
  <2>3. /\ j \in ConnSet /\ j.state = "shut" /\ j.inq = <<>>
        /\ j.out = k.out /\ j.gen = k.gen
    BY <2>2, EmptySeqs DEF ConnSet
  <2>4. conns'[b] = IF k.state \in {"syn", "open"} THEN j ELSE k
    BY <2>1, <2>2 DEF BridgeStop
  <2> QED BY <2>1, <2>3, <2>4
<1> QED BY <1>1, <1>2, <1>3

LEMMA RaisesStep ==
    ASSUME HInv, open_raises, UNCHANGED hostVars PROVE HInv'
<1>0. TypeOK /\ Plugged /\ Linked /\ Queued /\ Unique /\ Named /\ Calls
  BY DEF HInv
<1>1. usb' = usb /\ rx' = rx /\ din' = din /\ BridgeStop
  BY DEF open_raises, BridgeStop
<1>2. /\ bridge' \in BridgeSet /\ bridge'.serial = 0 /\ bridge'.client = NoConn
      /\ bridge'.tx = <<>> /\ bridge'.backlog = <<>>
  BY <1>0, <1>1, StopEffect, DownFields
<1>3. /\ conns' \in [Conn -> ConnSet]
      /\ \A b \in Conn : /\ conns'[b].inq \in {conns[b].inq, <<>>}
                         /\ conns'[b].out = conns[b].out /\ conns'[b].gen = conns[b].gen
                         /\ conns'[b].state \in {conns[b].state, "shut"}
                         /\ conns[b].state = "none" => conns'[b].state = "none"
  BY <1>0, <1>1, StopEffect
<1>4. TypeOK' /\ ran' = ran /\ cl' = cl /\ shell' = shell /\ stale' = stale
  BY <1>0, <1>1, <1>2, <1>3, Types, HostFrame
<1>5. Plugged'
  BY <1>0, <1>1, BridgeAssumption DEF Plugged
<1>6. Linked'
  BY <1>0, <1>1, <1>2, <1>3, <1>4, ElemsEmpty DEF Linked
<1>7. Queued'
  <2>1. DOMAIN bridge'.backlog = {}
    BY <1>2
  <2>2. \A b \in Conn : conns'[b].state \in {"none", "syn"} => conns'[b].out = <<>>
    BY <1>0, <1>3 DEF Queued
  <2>3. \A b \in Conn : cl'[b[1]].n < b[2] => conns'[b].state = "none"
    BY <1>0, <1>3, <1>4 DEF Queued
  <2> QED BY <2>1, <2>2, <2>3 DEF Queued
<1>8. Unique'
  BY <1>0, <1>1, <1>2, <1>3, <1>4, UniqueFrame
<1>9. Named'
  BY <1>0, <1>1, <1>2, <1>3, <1>4, ElemsEmpty, NamedFrame
<1>10. Calls'
  BY <1>0, <1>4, CallsFrame
<1> QED BY <1>4, <1>5, <1>6, <1>7, <1>8, <1>9, <1>10 DEF HInv

LEMMA TickStep ==
    ASSUME HInv, BridgeTick, UNCHANGED hostVars PROVE HInv'
  BY OpenStep, RaisesStep, LostStep, ForwardStep, FlushStep, AcceptStep, ForwardClientStep, LeftStep
     DEF BridgeTick

-----------------------------------------------------------------------------
(* The device.                                                             *)

LEMMA PlugStep ==
    ASSUME HInv, Plug, UNCHANGED hostVars PROVE HInv'
<1>0. TypeOK /\ Plugged /\ Linked /\ Queued /\ Unique /\ Named /\ Calls
  BY DEF HInv
<1>1. /\ bridge' = bridge /\ conns' = conns /\ rx' = rx /\ din' = din
      /\ rx = <<>> /\ din = <<>> /\ usb.gen < MaxPlugs
  BY <1>0 DEF Plug, Plugged
<1>2. PICK p \in Path : usb' = [path |-> p, gen |-> usb.gen + 1]
  BY DEF Plug
<1>3. /\ usb' \in [path : Path \union {NoPath}, gen : 1..MaxPlugs] /\ usb'.path \in Path
  <2>1. usb.gen + 1 \in 1..MaxPlugs
    BY <1>0, <1>1, Types, BridgeAssumption
  <2> QED BY <1>2, <2>1
<1>4. TypeOK' /\ ran' = ran /\ cl' = cl /\ shell' = shell /\ stale' = stale
  BY <1>0, <1>1, <1>3, Types, HostFrame
<1>5. Plugged'
  BY <1>3, BridgeAssumption DEF Plugged
<1>6. Linked'
  BY <1>0, <1>1, <1>4, ElemsEmpty DEF Linked
<1>7. Queued'
  BY <1>0, <1>1, <1>4, Types, QueuedFrame
<1>8. Unique'
  BY <1>0, <1>1, <1>4, UniqueFrame
<1>9. Named'
  BY <1>0, <1>1, <1>4, NamedFrame
<1>10. Calls'
  BY <1>0, <1>4, CallsFrame
<1> QED BY <1>4, <1>5, <1>6, <1>7, <1>8, <1>9, <1>10 DEF HInv

LEMMA LoseStep ==
    ASSUME HInv, LoseDevice PROVE HInv'
<1>0. TypeOK /\ Plugged /\ Linked /\ Queued /\ Unique /\ Named /\ Calls
  BY DEF HInv
<1>1. /\ bridge' = bridge /\ conns' = conns /\ rx' = <<>> /\ din' = <<>>
      /\ usb' = [usb EXCEPT !.path = NoPath] /\ usb.gen < MaxPlugs
      /\ shell' \in {shell, Waiting} /\ lock' = lock /\ cl' = cl /\ ran' = ran /\ stale' = stale
  BY DEF LoseDevice, Unplug, history
<1>2. /\ usb' \in [path : Path \union {NoPath}, gen : 1..MaxPlugs] /\ usb'.gen = usb.gen
  BY <1>0, <1>1, Types
<1>3. TypeOK'
  BY <1>0, <1>1, <1>2, EmptySeqs DEF TypeOK, Waiting, Line
<1>5. Plugged'
  BY <1>1, <1>2 DEF Plugged
<1>6. Linked'
  BY <1>0, <1>1, ElemsEmpty DEF Linked
<1>7. Queued'
  BY <1>0, <1>1, Types, QueuedFrame
<1>8. Unique'
  BY <1>0, <1>1, UniqueFrame
<1>9. Named'
  BY <1>0, <1>1, ElemsEmpty, NamedFrame
<1>10. Calls'
  BY <1>0, <1>1, CallsFrame
<1> QED BY <1>3, <1>5, <1>6, <1>7, <1>8, <1>9, <1>10 DEF HInv

LEMMA LineFields ==
    ASSUME NEW l \in LineSet
    PROVE  l.of \in Conn /\ l.name \in Word /\ l.whole \in BOOLEAN /\ l.gen \in Nat
  BY DEF LineSet

LEMMA ItemFields ==
    ASSUME NEW x \in ItemSet PROVE x.of \in Conn /\ x.st \in Status \union {"none"}
  BY DEF ItemSet

LEMMA ClientFields ==
    ASSUME NEW r \in ClientSet
    PROVE  /\ r.pc \in {"lock", "read", "stop", "start", "done"} /\ r.n \in 0..MaxTries
           /\ r.phase \in {"first", "hide", "again"} /\ r.got \in Seq(ItemSet)
           /\ r.why \in Status \union {"none", "noend", "rejected", "mismatch", "refused",
                                       "oserror"}
           /\ r.frame \in Conn \union {NoConn}
  BY DEF ClientSet

\* What the shell prints about a line.
LEMMA ItemTypes ==
    ASSUME TypeOK, NEW l \in LineSet, NEW k \in {"begin", "end", "echo", "prompt"},
           NEW st \in Status \union {"none"}, NEW x, x = Item(k, l, st)
    PROVE  /\ x \in ItemSet /\ x.of = l.of /\ x.name = l.name /\ x.st = st
           /\ x.gen = usb.gen
<1>1. usb.gen \in Nat
  BY Types
<1>2. l.of \in Conn /\ l.name \in Word
  BY LineFields
<1> QED BY <1>1, <1>2 DEF Item, ItemSet

LEMMA OneLine ==
    ASSUME NEW S, NEW x \in S
    PROVE  <<x>> \in Seq(S) /\ Elems(<<x>>) = {x} /\ Ofs(<<x>>) = {x.of} /\ Distinct(<<x>>)
<1>1. <<x>> \in Seq(S) /\ DOMAIN <<x>> = {1} /\ <<x>>[1] = x
  OBVIOUS
<1>2. PICK w : w = <<x>>
  OBVIOUS
<1>3. DOMAIN w = {1} /\ w[1] = x
  BY <1>1, <1>2
<1>4. Elems(w) = {x} /\ Ofs(w) = {x.of} /\ Distinct(w)
  BY <1>3 DEF Elems, Ofs, Distinct
<1> QED BY <1>1, <1>2, <1>4

LEMMA OneElem ==
    ASSUME NEW S, NEW s \in Seq(S), NEW x \in S
    PROVE  /\ s \o <<x>> \in Seq(S) /\ Elems(s \o <<x>>) = Elems(s) \cup {x}
<1>1. <<x>> \in Seq(S) /\ Elems(<<x>>) = {x}
  BY DEF Elems
<1> QED BY <1>1, ElemsConcat

\* The history only grows, and so does what it vouches for.
LEMMA HistoryGrows ==
    ASSUME TypeOK, \A a \in Conn : ran[a] > 0 => ran'[a] > 0
    PROVE  /\ \A x \in ItemSet : ItemOK(x) => ItemOK(x)'
           /\ \A r \in ClientSet, c \in Client : FrameOK(c, r) => FrameOK(c, r)'
<1>1. \A x \in ItemSet : x.of \in Conn
  BY ItemFields
<1>2. \A r \in ClientSet : r.frame \in Conn \union {NoConn}
  BY ClientFields
<1> QED BY <1>1, <1>2 DEF ItemOK, FrameOK

\* Every record on its way is well formed.
LEMMA ItemsTyped ==
    ASSUME TypeOK
    PROVE  /\ \A x \in Elems(rx) : x \in ItemSet
           /\ \A a \in Conn : \A x \in Elems(conns[a].out) : x \in ItemSet
           /\ \A c \in Client : \A x \in Elems(cl[c].got) : x \in ItemSet
<1>1. rx \in Seq(ItemSet)
  BY Types
<1>2. \A a \in Conn : conns[a].out \in Seq(ItemSet)
  BY ConnTypes
<1>3. \A c \in Client : cl[c].got \in Seq(ItemSet)
  BY Types, ClientFields
<1> QED BY <1>1, <1>2, <1>3, ElemsType

LEMMA ReadStep ==
    ASSUME HInv, shell_read PROVE HInv'
<1>0. TypeOK /\ Plugged /\ Linked /\ Queued /\ Unique /\ Named /\ Calls
  BY DEF HInv
<1>1. PICK l : l = Head(din)
  OBVIOUS
<1>2. PICK x : x = Item(IF l.whole THEN "begin" ELSE "echo", l, "none")
  OBVIOUS
<1>3. /\ din # <<>> /\ din' = Tail(din) /\ Emit(<<x>>)
      /\ usb' = usb /\ bridge' = bridge /\ conns' = conns /\ lock' = lock /\ cl' = cl
  BY <1>1, <1>2 DEF shell_read
<1>4. PICK st \in Status :
         /\ shell' = [st |-> st, line |-> l]
         /\ IF st = "ran" THEN Call(l) ELSE UNCHANGED history
  BY <1>1 DEF shell_read, Status
<1>5. rx' = rx \o <<x>>
  BY <1>0, <1>3 DEF Plugged, Emit
<1>6. /\ din \in Seq(LineSet) /\ l \in LineSet /\ l \in Elems(din)
      /\ din' \in Seq(LineSet) /\ Elems(din') \subseteq Elems(din)
      /\ Ofs(din') \subseteq Ofs(din) /\ Distinct(din') /\ l.of \notin Ofs(din')
  BY <1>0, <1>1, <1>3, Types, TailSeq DEF Unique
<1>7. /\ l.of \in Conn /\ l.of \in Ofs(din) /\ LineOK(l) /\ l.gen = usb.gen
  BY <1>0, <1>6, LineFields, OfsElems DEF Linked, Named
<1>8. /\ x \in ItemSet /\ x.of = l.of /\ x.name = l.name /\ x.st = "none" /\ x.gen = usb.gen
  <2>1. PICK k \in {"begin", "end", "echo", "prompt"} : x = Item(k, l, "none")
    BY <1>2
  <2>2. "none" \in Status \union {"none"}
    OBVIOUS
  <2> QED BY <1>0, <1>6, <2>1, <2>2, ItemTypes
<1>9. rx' \in Seq(ItemSet) /\ Elems(rx') = Elems(rx) \cup {x}
  BY <1>0, <1>5, <1>8, Types, OneElem
<1>10. ran[l.of] = 0 /\ ~Unsent(l.of) /\ l.of \notin Ofs(bridge.tx)
  BY <1>0, <1>7 DEF Unique
<1>11. /\ ran' \in [Conn -> Nat] /\ stale' = FALSE
       /\ \A a \in Conn \ {l.of} : ran'[a] = ran[a]
       /\ \/ ran'[l.of] = 0 /\ (st = "ran" => l.name = "hide")
          \/ ran'[l.of] = 1 /\ l.name # "hide"
  <2>1. ran \in [Conn -> Nat] /\ stale = FALSE
    BY <1>0, Types DEF Linked, TypeOK
  <2>2. CASE st = "ran" /\ l.name # "hide"
    <3>1. ran' = [ran EXCEPT ![l.of] = @ + 1] /\ stale' = (stale \/ l.gen # usb.gen)
      BY <1>4, <2>2 DEF Call
    <3>2. stale' = FALSE
      BY <1>7, <2>1, <3>1
    <3>3. /\ ran' \in [Conn -> Nat] /\ ran'[l.of] = 1
          /\ \A a \in Conn \ {l.of} : ran'[a] = ran[a]
      <4>1. ran' = [ran EXCEPT ![l.of] = 1]
        BY <1>7, <1>10, <2>1, <3>1
      <4> QED BY <1>7, <2>1, <4>1
    <3> QED BY <2>2, <3>2, <3>3
  <2>3. CASE st = "ran" /\ l.name = "hide"
    <3>1. ran' = ran /\ stale' = (stale \/ l.gen # usb.gen)
      BY <1>4, <2>3 DEF Call
    <3> QED BY <1>7, <1>10, <2>1, <2>3, <3>1
  <2>4. CASE st # "ran"
    <3>1. ran' = ran /\ stale' = stale
      BY <1>4, <2>4 DEF history
    <3> QED BY <1>7, <1>10, <2>1, <2>4, <3>1
  <2> QED BY <2>2, <2>3, <2>4
<1>12. \A a \in Conn : ran[a] > 0 => ran'[a] > 0
  BY <1>10, <1>11
<1>13. TypeOK'
  <2>1. shell' \in [st : Status, line : LineSet]
    BY <1>4, <1>6
  <2> QED BY <1>0, <1>3, <1>6, <1>9, <1>11, <2>1 DEF TypeOK
<1>14. Plugged'
  BY <1>0, <1>3 DEF Plugged
<1>15. Linked'
  BY <1>0, <1>3, <1>6, <1>8, <1>9, <1>11 DEF Linked
<1>16. Queued'
  BY <1>0, <1>3, Types, QueuedFrame
<1>17. Unique'
  <2>1. \A a \in Conn : Unsent(a)' <=> Unsent(a)
    BY <1>3 DEF Unsent
  <2>2. \A a \in Conn : a \in Ofs(bridge.tx) \cup Ofs(din') => ran'[a] = 0
    BY <1>0, <1>6, <1>10, <1>11 DEF Unique
  <2>3. \A a \in Conn : Unsent(a) => a \notin Ofs(bridge.tx) \cup Ofs(din') /\ ran'[a] = 0
    BY <1>0, <1>6, <1>10, <1>11 DEF Unique
  <2>4. \A a \in Conn : ran'[a] <= 1
    BY <1>0, <1>11 DEF Unique
  <2>5. Ofs(bridge.tx) \cap Ofs(din') = {}
    BY <1>0, <1>6 DEF Unique
  <2> QED BY <1>0, <1>3, <1>6, <2>1, <2>2, <2>3, <2>4, <2>5 DEF Unique
<1>18. Named'
  <2>1. /\ \A y \in Elems(rx) : ItemOK(y)'
        /\ \A a \in Conn : \A y \in Elems(conns[a].out) : ItemOK(y)'
        /\ \A c \in Client : \A y \in Elems(cl[c].got) : ItemOK(y)'
    BY <1>0, <1>12, ItemsTyped, HistoryGrows DEF Named
  <2>2. ItemOK(x)'
    BY <1>7, <1>8 DEF ItemOK, LineOK
  <2>3. \A k : LineOK(k) => LineOK(k)'
    BY DEF LineOK
  <2>4. LineOK(shell'.line) /\ (shell'.st = "ran" /\ shell'.line.name # "hide" => ran'[shell'.line.of] > 0)
    BY <1>4, <1>7, <1>11
  <2>5. \A a \in Conn : ran'[a] > 0 /\ NameOf[a[1]] \notin Listed => a[2] = 1
    BY <1>0, <1>7, <1>11 DEF Named, LineOK
  <2> QED BY <1>0, <1>3, <1>6, <1>9, <2>1, <2>2, <2>3, <2>4, <2>5 DEF Named
<1>19. Calls'
  <2>1. cl \in [Client -> ClientSet]
    BY <1>0, Types
  <2> QED BY <1>0, <1>3, <1>12, <2>1, HistoryGrows DEF Calls, CallOK
<1> QED BY <1>13, <1>14, <1>15, <1>16, <1>17, <1>18, <1>19 DEF HInv

LEMMA EndStep ==
    ASSUME HInv, shell_end PROVE HInv'
<1>0. TypeOK /\ Plugged /\ Linked /\ Queued /\ Unique /\ Named /\ Calls
  BY DEF HInv
<1>1. PICK x : x = Item(IF shell.line.whole THEN "end" ELSE "prompt", shell.line, shell.st)
  OBVIOUS
<1>2. /\ shell # Waiting /\ Emit(<<x>>) /\ shell' = Waiting
      /\ usb' = usb /\ bridge' = bridge /\ conns' = conns /\ lock' = lock /\ cl' = cl
      /\ din' = din /\ ran' = ran /\ stale' = stale
  BY <1>1 DEF shell_end, history
<1>3. shell.st \in Status /\ shell.line \in LineSet
  BY <1>0, <1>2 DEF TypeOK
<1>4. /\ x \in ItemSet /\ x.of = shell.line.of /\ x.name = shell.line.name
      /\ x.st = shell.st /\ x.gen = usb.gen
  <2>1. PICK k \in {"begin", "end", "echo", "prompt"} : x = Item(k, shell.line, shell.st)
    BY <1>1
  <2>2. PICK l \in LineSet : l = shell.line
    BY <1>3
  <2>3. PICK st \in Status \union {"none"} : st = shell.st
    BY <1>3
  <2>4. x = Item(k, l, st)
    BY <2>1, <2>2, <2>3
  <2>5. x \in ItemSet /\ x.of = l.of /\ x.name = l.name /\ x.st = st /\ x.gen = usb.gen
    BY <1>0, <2>4, ItemTypes
  <2> QED BY <2>2, <2>3, <2>5
<1>5. /\ rx' \in Seq(ItemSet) /\ Elems(rx') \subseteq Elems(rx) \cup {x}
      /\ usb.path = NoPath => rx' = rx
  BY <1>0, <1>2, <1>4, Types, OneElem DEF Emit
<1>6. ItemOK(x)
  BY <1>0, <1>2, <1>4 DEF Named, ItemOK, LineOK
<1>7. TypeOK'
  BY <1>0, <1>2, <1>5 DEF TypeOK, Waiting, Line
<1>8. Plugged'
  BY <1>0, <1>2, <1>5 DEF Plugged
<1>9. Linked'
  BY <1>0, <1>2, <1>4, <1>5 DEF Linked
<1>10. Queued'
  BY <1>0, <1>2, Types, QueuedFrame
<1>11. Unique'
  BY <1>0, <1>2, UniqueFrame
<1>12. Named'
  <2>1. \A y : ItemOK(y) => ItemOK(y)'
    BY <1>2 DEF ItemOK
  <2>2. \A k : LineOK(k) => LineOK(k)'
    BY DEF LineOK
  <2>3. Waiting.st # "ran" /\ Waiting' = Waiting
    BY DEF Waiting, Line
  <2> QED BY <1>0, <1>2, <1>5, <1>6, <2>1, <2>2, <2>3 DEF Named
<1>13. Calls'
  BY <1>0, <1>2, CallsFrame
<1> QED BY <1>7, <1>8, <1>9, <1>10, <1>11, <1>12, <1>13 DEF HInv

\* A line whose start is eaten keeps its place.
LEMMA EatenHead ==
    ASSUME NEW s \in Seq(LineSet), s # <<>>, Distinct(s),
           NEW h \in LineSet, Alike(h, Head(s)), h.gen = Head(s).gen
    PROVE  /\ <<h>> \o Tail(s) \in Seq(LineSet) /\ Ofs(<<h>> \o Tail(s)) \subseteq Ofs(s)
           /\ Distinct(<<h>> \o Tail(s))
           /\ \A l \in Elems(<<h>> \o Tail(s)) :
                 \E k \in Elems(s) : Alike(l, k) /\ l.gen = k.gen
<1>1. /\ Head(s) \in Elems(s) /\ Tail(s) \in Seq(LineSet)
      /\ Elems(Tail(s)) \subseteq Elems(s) /\ Ofs(Tail(s)) \subseteq Ofs(s)
      /\ Distinct(Tail(s)) /\ Head(s).of \notin Ofs(Tail(s))
  BY TailSeq
<1>2. Head(s).of \in Ofs(s) /\ h.of = Head(s).of
  BY <1>1, OfsElems DEF Alike
<1>3. PICK w : w = <<h>>
  OBVIOUS
<1>4. w \in Seq(LineSet) /\ Elems(w) = {h} /\ Ofs(w) = {h.of} /\ Distinct(w)
  <2>1. <<h>> \in Seq(LineSet)
    BY OneLine
  <2> QED BY <1>3, <2>1, OneLine
<1>5. PICK v : v = Tail(s)
  OBVIOUS
<1>6. PICK t : t = w \o v
  OBVIOUS
<1>7. v \in Seq(LineSet)
  BY <1>1, <1>5
<1>8. /\ t \in Seq(LineSet) /\ Elems(t) = Elems(w) \cup Elems(v)
      /\ Ofs(t) = Ofs(w) \cup Ofs(v)
  BY <1>4, <1>6, <1>7, ElemsConcat
<1>9. Distinct(t)
  BY <1>1, <1>2, <1>4, <1>5, <1>6, <1>7, DistinctConcat
<1>10. Ofs(t) \subseteq Ofs(s)
  BY <1>1, <1>2, <1>4, <1>5, <1>8
<1>11. \A l \in Elems(t) : \E k \in Elems(s) : Alike(l, k) /\ l.gen = k.gen
  <2>1. \A k \in Elems(s) : Alike(k, k)
    BY DEF Alike
  <2> QED BY <1>1, <1>4, <1>5, <1>8, <2>1
<1> QED BY <1>3, <1>5, <1>6, <1>8, <1>9, <1>10, <1>11

LEMMA PollStep ==
    ASSUME HInv, shell_poll_cancel PROVE HInv'
<1>0. TypeOK /\ Plugged /\ Linked /\ Queued /\ Unique /\ Named /\ Calls
  BY DEF HInv
<1>1. /\ usb' = usb /\ bridge' = bridge /\ conns' = conns /\ lock' = lock /\ cl' = cl
      /\ rx' = rx /\ ran' = ran /\ stale' = stale /\ shell' = shell /\ din # <<>>
      /\ \/ din' = Tail(din)
         \/ din' = <<[Head(din) EXCEPT !.whole = FALSE]>> \o Tail(din)
  BY DEF shell_poll_cancel, history
<1>2. /\ din' \in Seq(LineSet) /\ Ofs(din') \subseteq Ofs(din) /\ Distinct(din')
      /\ \A l \in Elems(din') : \E k \in Elems(din) : Alike(l, k) /\ l.gen = k.gen
  <2>1. din \in Seq(LineSet) /\ Distinct(din)
    BY <1>0, Types DEF Unique
  <2>2. CASE din' = Tail(din)
    BY <1>1, <2>1, <2>2, TailSeq DEF Alike
  <2>3. CASE din' = <<[Head(din) EXCEPT !.whole = FALSE]>> \o Tail(din)
    <3>1. PICK h : h = [Head(din) EXCEPT !.whole = FALSE]
      OBVIOUS
    <3>2. Head(din) \in LineSet
      BY <1>1, <2>1, TailSeq
    <3>3. h \in LineSet /\ Alike(h, Head(din)) /\ h.gen = Head(din).gen
      BY <3>1, <3>2 DEF LineSet, Alike
    <3>4. din' = <<h>> \o Tail(din)
      BY <2>3, <3>1
    <3> QED BY <1>1, <2>1, <3>3, <3>4, EatenHead
  <2> QED BY <1>1, <2>2, <2>3
<1>3. TypeOK'
  BY <1>0, <1>1, <1>2 DEF TypeOK, Waiting, Line
<1>4. Plugged'
  BY <1>0, <1>1 DEF Plugged
<1>5. Linked'
  BY <1>0, <1>1, <1>2 DEF Linked
<1>6. Queued'
  BY <1>0, <1>1, Types, QueuedFrame
<1>7. Unique'
  <2>1. \A a \in Conn : Unsent(a)' <=> Unsent(a)
    BY <1>1 DEF Unsent
  <2> QED BY <1>0, <1>1, <1>2, <2>1 DEF Unique
<1>8. Named'
  <2>1. \A l \in Elems(din') : LineOK(l)
    BY <1>0, <1>2, AlikeOK DEF Named
  <2>2. /\ \A l \in Elems(bridge'.tx) : LineOK(l)
        /\ \A a \in Conn : \A l \in Elems(conns'[a].inq) : LineOK(l)
    BY <1>0, <1>1 DEF Named
  <2> QED BY <1>0, <1>1, <2>1, <2>2, NamedLines
<1>9. Calls'
  BY <1>0, <1>1, CallsFrame
<1> QED BY <1>3, <1>4, <1>5, <1>6, <1>7, <1>8, <1>9 DEF HInv

LEMMA IdleStep ==
    ASSUME HInv, idle_reattach PROVE HInv'
<1>0. TypeOK /\ Plugged /\ Linked /\ Queued /\ Unique /\ Named /\ Calls
  BY DEF HInv
<1>1. /\ usb' = usb /\ bridge' = bridge /\ conns' = conns /\ lock' = lock /\ cl' = cl
      /\ rx' = rx /\ ran' = ran /\ stale' = stale /\ shell' = shell /\ din' = <<>>
  BY DEF idle_reattach, history
<1>2. TypeOK'
  BY <1>0, <1>1, EmptySeqs DEF TypeOK, Waiting, Line
<1>3. Plugged'
  BY <1>0, <1>1 DEF Plugged
<1>4. Linked'
  BY <1>0, <1>1, ElemsEmpty DEF Linked
<1>5. Queued'
  BY <1>0, <1>1, Types, QueuedFrame
<1>6. Unique'
  BY <1>0, <1>1, UniqueFrame
<1>7. Named'
  BY <1>0, <1>1, ElemsEmpty, NamedFrame
<1>8. Calls'
  BY <1>0, <1>1, CallsFrame
<1> QED BY <1>2, <1>3, <1>4, <1>5, <1>6, <1>7, <1>8 DEF HInv

-----------------------------------------------------------------------------
(* The clients.                                                            *)

WithCl(f, c, r) == [f EXCEPT ![c] = r]

LEMMA ClSet ==
    ASSUME NEW f \in [Client -> ClientSet], NEW c \in Client, NEW r \in ClientSet,
           NEW g, g = WithCl(f, c, r)
    PROVE  /\ g \in [Client -> ClientSet] /\ g[c] = r
           /\ \A d \in Client \ {c} : g[d] = f[d]
  BY DEF WithCl

LEMMA CallTypes ==
    ASSUME HInv, NEW c \in Client
    PROVE  /\ cl[c] \in ClientSet /\ cl[c].n \in 0..MaxTries /\ MaxTries \in Nat
           /\ cl[c].got \in Seq(ItemSet) /\ NameOf[c] \in Word
           /\ cl[c].phase \in {"first", "hide", "again"}
           /\ cl[c].pc \in {"lock", "read", "stop", "start", "done"}
           /\ \A x \in Elems(cl[c].got) : ItemOK(x)
           /\ CallOK(c, cl[c]) /\ FrameOK(c, cl[c])
<1>1. cl[c] \in ClientSet
  BY Types DEF HInv
<1>2. NameOf[c] \in Word
  BY DEF Word
<1> QED BY <1>1, <1>2, ClientFields, HostAssumption DEF HInv, Named, Calls

\* One client moves.
LEMMA CallsStep ==
    ASSUME Calls, ran' = ran, NEW c \in Client, CallOK(c, cl'[c]), FrameOK(c, cl'[c]),
           \A d \in Client \ {c} : cl'[d] = cl[d]
    PROVE  Calls'
<1>1. \A d \in Client : CallOK(d, cl'[d]) /\ FrameOK(d, cl'[d])
  BY DEF Calls
<1>2. \A d \in Client : CallOK(d, cl'[d]) => CallOK(d, cl[d])'
  BY DEF CallOK
<1>3. \A d \in Client : FrameOK(d, cl'[d]) => FrameOK(d, cl[d])'
  BY DEF FrameOK
<1> QED BY <1>1, <1>2, <1>3 DEF Calls

\* The connection a client reads from.
LEMMA AtConn ==
    ASSUME HInv, NEW c \in Client, cl[c].pc = "read" PROVE At(c) \in Conn
<1>1. cl[c].n \in 1..MaxTries
  BY CallTypes DEF CallOK
<1> QED BY <1>1, HostAssumption DEF At

-----------------------------------------------------------------------------
(* What an exchange means.                                                 *)

LEMMA LastFrameIn ==
    ASSUME NEW s, Strict(s) PROVE LastFrame(s) \in Elems(s)
<1>1. \E i \in DOMAIN s : IsLast(s, i)
  BY DEF Strict
<1>2. (CHOOSE i \in DOMAIN s : IsLast(s, i)) \in DOMAIN s
  BY <1>1
<1> QED BY <1>2 DEF LastFrame, Elems

Why == Status \union {"none", "noend", "rejected", "mismatch", "refused", "oserror"}

LEMMA VerdictFacts ==
    ASSUME HInv, NEW c \in Client, NEW got \in Seq(ItemSet),
           \A x \in Elems(got) : ItemOK(x), NEW text
    PROVE  /\ Verdict(c, got, text) \in Why
           /\ FrameOf(c, got, text) \in Conn \union {NoConn}
           /\ FrameOf(c, got, text) # NoConn /\ Sent(c) = NameOf[c] /\ NameOf[c] # "hide" =>
                 /\ NameOf[FrameOf(c, got, text)[1]] = NameOf[c]
                 /\ Verdict(c, got, text) = "ran" => ran[FrameOf(c, got, text)] > 0
<1>1. PICK v : v = Verdict(c, got, text)
  OBVIOUS
<1>2. PICK f : f = FrameOf(c, got, text)
  OBVIOUS
<1>3. PICK x : x = LastFrame(got)
  OBVIOUS
<1>4. f = IF v \in Status THEN x.of ELSE NoConn
  BY <1>1, <1>2, <1>3 DEF FrameOf, Status
<1>5. \/ Strict(got) /\ x.name = Sent(c) /\ v = x.st
      \/ v \in {"noend", "rejected", "mismatch", "refused", "oserror"}
  BY <1>1, <1>3 DEF Verdict, Names
<1>6. CASE Strict(got) /\ x.name = Sent(c) /\ v = x.st
  <2>1. x \in Elems(got)
    BY <1>3, <1>6, LastFrameIn
  <2>2. x \in ItemSet /\ ItemOK(x)
    BY <2>1, ElemsType
  <2>3. x.of \in Conn /\ x.st \in Status \union {"none"}
    BY <2>2, ItemFields
  <2>4. v \in Why /\ f \in Conn \union {NoConn}
    BY <1>4, <1>6, <2>3 DEF Why
  <2>5. ASSUME f # NoConn, Sent(c) = NameOf[c], NameOf[c] # "hide"
        PROVE  NameOf[f[1]] = NameOf[c] /\ (v = "ran" => ran[f] > 0)
    BY <1>4, <1>6, <2>2, <2>5 DEF ItemOK
  <2> QED BY <1>1, <1>2, <2>4, <2>5
<1>7. CASE v \in {"noend", "rejected", "mismatch", "refused", "oserror"}
  <2>1. v \in Why /\ f = NoConn
    BY <1>4, <1>7 DEF Why, Status
  <2> QED BY <1>1, <1>2, <2>1
<1> QED BY <1>5, <1>6, <1>7

Over(r, v, f) == [r EXCEPT !.pc = "done", !.got = <<>>, !.why = v, !.frame = f]
Calling(r, phase, pc) == [r EXCEPT !.phase = phase, !.pc = pc, !.got = <<>>]
Hiding(r, v, f) == [Over(r, v, f) EXCEPT !.phase = "hide", !.pc = "lock"]

LEMMA OverFields ==
    ASSUME NEW r \in ClientSet, NEW v \in Why, NEW f \in Conn \union {NoConn}
    PROVE  /\ Over(r, v, f) \in ClientSet /\ Over(r, v, f).pc = "done"
           /\ Over(r, v, f).n = r.n /\ Over(r, v, f).got = <<>>
           /\ Over(r, v, f).phase = r.phase /\ Over(r, v, f).why = v
           /\ Over(r, v, f).frame = f
  BY EmptySeqs DEF Over, ClientSet, Why

LEMMA HidingFields ==
    ASSUME NEW r \in ClientSet, NEW v \in Why, NEW f \in Conn \union {NoConn}
    PROVE  /\ Hiding(r, v, f) \in ClientSet /\ Hiding(r, v, f).pc = "lock"
           /\ Hiding(r, v, f).n = r.n /\ Hiding(r, v, f).got = <<>>
           /\ Hiding(r, v, f).phase = "hide" /\ Hiding(r, v, f).why = v
           /\ Hiding(r, v, f).frame = f
<1>1. PICK o : o = Over(r, v, f)
  OBVIOUS
<1>2. /\ o \in ClientSet /\ o.n = r.n /\ o.got = <<>> /\ o.why = v /\ o.frame = f
  BY <1>1, OverFields
<1>3. Hiding(r, v, f) = [o EXCEPT !.phase = "hide", !.pc = "lock"]
  BY <1>1 DEF Hiding
<1> QED BY <1>2, <1>3 DEF ClientSet

LEMMA CallingFields ==
    ASSUME NEW r \in ClientSet, NEW phase \in {"first", "hide", "again"},
           NEW pc \in {"lock", "stop", "done"}
    PROVE  /\ Calling(r, phase, pc) \in ClientSet /\ Calling(r, phase, pc).pc = pc
           /\ Calling(r, phase, pc).n = r.n /\ Calling(r, phase, pc).got = <<>>
           /\ Calling(r, phase, pc).phase = phase /\ Calling(r, phase, pc).why = r.why
           /\ Calling(r, phase, pc).frame = r.frame
  BY EmptySeqs DEF Calling, ClientSet

\* The ways an exchange may go on.
LEMMA AfterCases ==
    ASSUME NEW c \in Client, NEW got, NEW text, NEW late,
           cl[c].phase \in {"first", "hide", "again"},
           NEW r, r = After(c, got, text, late),
           NEW v, v = Verdict(c, got, text), NEW f, f = FrameOf(c, got, text)
    PROVE  \/ /\ Sent(c) \in Listed /\ cl[c].n < MaxTries
              /\ r = Calling(cl[c], cl[c].phase, "lock")
           \/ /\ cl[c].phase = "hide"
              /\ \/ r = Calling(cl[c], "again", "done")
                 \/ /\ NameOf[c] \in Listed /\ cl[c].n < MaxTries
                    /\ r = Calling(cl[c], "again", "lock")
           \/ cl[c].phase # "hide" /\ r = Over(cl[c], v, f)
           \/ cl[c].phase # "hide" /\ cl[c].n < MaxTries /\ r = Hiding(cl[c], v, f)
           \/ /\ NameOf[c] \in Listed /\ cl[c].n < MaxTries
              /\ r = Calling(cl[c], "again", "stop")
<1>1. PICK o : o = Over(cl[c], v, f)
  OBVIOUS
<1>2. PICK may : may = (command_allows_retry(NameOf[c]) /\ cl[c].n < MaxTries)
  OBVIOUS
<1>3. CASE Retries(c, got, text, late)
  <2>1. r = Calling(cl[c], cl[c].phase, "lock")
    BY <1>3 DEF After, Calling
  <2> QED BY <1>3, <2>1 DEF Retries, command_allows_retry
<1>4. CASE ~Retries(c, got, text, late) /\ cl[c].phase = "hide"
  <2>1. \/ r = Calling(cl[c], "again", "done")
        \/ /\ command_allows_retry(NameOf[c]) /\ cl[c].n < MaxTries
           /\ r = Calling(cl[c], "again", "lock")
    <3>1. CASE command_allows_retry(NameOf[c]) /\ cl[c].n < MaxTries
      BY <1>4, <3>1 DEF After, Calling
    <3>2. CASE ~(command_allows_retry(NameOf[c]) /\ cl[c].n < MaxTries)
      BY <1>4, <3>2 DEF After, Calling
    <3> QED BY <3>1, <3>2
  <2> QED BY <1>4, <2>1 DEF command_allows_retry
<1>5. CASE ~Retries(c, got, text, late) /\ cl[c].phase # "hide"
  <2>1. \/ r = o
        \/ cl[c].n < MaxTries /\ r = [o EXCEPT !.phase = "hide", !.pc = "lock"]
        \/ may /\ r = Calling(cl[c], "again", "stop")
    BY <1>1, <1>2, <1>5 DEF After, Calling, Over
  <2> QED BY <1>1, <1>2, <1>5, <2>1 DEF Hiding, command_allows_retry
<1> QED BY <1>3, <1>4, <1>5

LEMMA AfterFacts ==
    ASSUME HInv, NEW c \in Client, NEW got \in Seq(ItemSet),
           \A x \in Elems(got) : ItemOK(x), NEW text, NEW late,
           cl[c].pc \in {"lock", "read"}, NEW r, r = After(c, got, text, late)
    PROVE  /\ r \in ClientSet /\ r.n = cl[c].n /\ r.got = <<>>
           /\ CallOK(c, r) /\ FrameOK(c, r)
<1>1. /\ cl[c] \in ClientSet /\ cl[c].phase \in {"first", "hide", "again"}
      /\ CallOK(c, cl[c]) /\ FrameOK(c, cl[c])
  BY CallTypes
<1>2. PICK v : v = Verdict(c, got, text)
  OBVIOUS
<1>3. PICK f : f = FrameOf(c, got, text)
  OBVIOUS
<1>4. /\ v \in Why /\ f \in Conn \union {NoConn}
      /\ f # NoConn /\ Sent(c) = NameOf[c] /\ NameOf[c] # "hide" =>
            NameOf[f[1]] = NameOf[c] /\ (v = "ran" => ran[f] > 0)
  BY <1>2, <1>3, VerdictFacts
<1>5. ASSUME NEW phase \in {"first", "hide", "again"}, NEW pc \in {"lock", "stop", "done"},
             r = Calling(cl[c], phase, pc), pc # "done" => cl[c].n < MaxTries,
             NameOf[c] \notin Listed => \/ phase = "hide" /\ pc = "lock"
                                        \/ pc = "done"
      PROVE  /\ r \in ClientSet /\ r.n = cl[c].n /\ r.got = <<>>
             /\ CallOK(c, r) /\ FrameOK(c, r)
  <2>1. /\ r \in ClientSet /\ r.pc = pc /\ r.n = cl[c].n /\ r.got = <<>>
        /\ r.phase = phase /\ r.why = cl[c].why /\ r.frame = cl[c].frame
    BY <1>1, <1>5, CallingFields
  <2>2. CallOK(c, r)
    BY <1>5, <2>1 DEF CallOK
  <2>3. FrameOK(c, r)
    BY <1>1, <2>1 DEF FrameOK
  <2> QED BY <2>1, <2>2, <2>3
<1>6. ASSUME cl[c].phase # "hide",
             \/ r = Over(cl[c], v, f)
             \/ cl[c].n < MaxTries /\ r = Hiding(cl[c], v, f)
      PROVE  /\ r \in ClientSet /\ r.n = cl[c].n /\ r.got = <<>>
             /\ CallOK(c, r) /\ FrameOK(c, r)
  <2>1. /\ r \in ClientSet /\ r.n = cl[c].n /\ r.got = <<>>
        /\ r.why = v /\ r.frame = f
        /\ \/ r.pc = "done"
           \/ r.pc = "lock" /\ r.phase = "hide" /\ cl[c].n < MaxTries
    BY <1>1, <1>4, <1>6, OverFields, HidingFields
  <2>2. CallOK(c, r)
    BY <2>1 DEF CallOK
  <2>3. Sent(c) = NameOf[c]
    BY <1>6 DEF Sent
  <2>4. FrameOK(c, r)
    BY <1>4, <2>1, <2>3 DEF FrameOK
  <2> QED BY <2>1, <2>2, <2>4
<1>7. \/ /\ Sent(c) \in Listed /\ cl[c].n < MaxTries
         /\ r = Calling(cl[c], cl[c].phase, "lock")
      \/ /\ cl[c].phase = "hide"
         /\ \/ r = Calling(cl[c], "again", "done")
            \/ /\ NameOf[c] \in Listed /\ cl[c].n < MaxTries
               /\ r = Calling(cl[c], "again", "lock")
      \/ cl[c].phase # "hide" /\ r = Over(cl[c], v, f)
      \/ cl[c].phase # "hide" /\ cl[c].n < MaxTries /\ r = Hiding(cl[c], v, f)
      \/ /\ NameOf[c] \in Listed /\ cl[c].n < MaxTries
         /\ r = Calling(cl[c], "again", "stop")
  BY <1>1, <1>2, <1>3, AfterCases
<1>8. CASE /\ Sent(c) \in Listed /\ cl[c].n < MaxTries
           /\ r = Calling(cl[c], cl[c].phase, "lock")
  <2>1. PICK phase \in {"first", "hide", "again"} : phase = cl[c].phase
    BY <1>1
  <2>2. NameOf[c] \notin Listed => phase = "hide"
    BY <1>8, <2>1 DEF Sent
  <2> QED BY <1>5, <1>8, <2>1, <2>2
<1> QED BY <1>5, <1>6, <1>7, <1>8

-----------------------------------------------------------------------------
(* The steps of a client.                                                  *)

LEMMA LeaveStep ==
    ASSUME HInv, NEW c \in Client, NEW r \in ClientSet, r.n = cl[c].n, r.got = <<>>,
           CallOK(c, r), FrameOK(c, r), cl' = WithCl(cl, c, r),
           usb' = usb, bridge' = bridge, rx' = rx, din' = din, shell' = shell,
           ran' = ran, stale' = stale, lock' \in Client \union {NoClient},
           conns' = conns \/ \E a \in Conn : conns' = HungUp(conns, a)
    PROVE  HInv'
<1>0. TypeOK /\ Plugged /\ Linked /\ Queued /\ Unique /\ Named /\ Calls
  BY DEF HInv
<1>1. cl \in [Client -> ClientSet] /\ conns \in [Conn -> ConnSet]
  BY <1>0, Types
<1>2. /\ cl' \in [Client -> ClientSet] /\ cl'[c] = r
      /\ \A d \in Client \ {c} : cl'[d] = cl[d]
  BY <1>1, ClSet
<1>3. /\ conns' \in [Conn -> ConnSet]
      /\ \A b \in Conn : /\ conns'[b].state = conns[b].state /\ conns'[b].gen = conns[b].gen
                         /\ conns'[b].inq = conns[b].inq
                         /\ conns'[b].out \in {conns[b].out, <<>>}
  <2>1. CASE conns' = conns
    BY <1>1, <2>1
  <2>2. ASSUME NEW a \in Conn, conns' = HungUp(conns, a)
        PROVE  /\ conns' \in [Conn -> ConnSet]
               /\ \A b \in Conn : /\ conns'[b].state = conns[b].state
                                  /\ conns'[b].gen = conns[b].gen
                                  /\ conns'[b].inq = conns[b].inq
                                  /\ conns'[b].out \in {conns[b].out, <<>>}
    <3>1. /\ conns' \in [Conn -> ConnSet]
          /\ \A b \in Conn : conns'[b].state = conns[b].state
          /\ \A b \in Conn : conns'[b].inq = conns[b].inq
          /\ conns'[a].out = <<>> /\ \A b \in Conn \ {a} : conns'[b].out = conns[b].out
          /\ \A b \in Conn : conns'[b].gen = conns[b].gen
      <4>1. PICK g : g = conns'
        OBVIOUS
      <4>2. g = HungUp(conns, a)
        BY <2>2, <4>1
      <4> QED BY <1>1, <2>2, <4>1, <4>2, ConnHup
    <3> QED BY <3>1
  <2> QED BY <2>1, <2>2
<1>4. TypeOK'
  BY <1>0, <1>2, <1>3 DEF TypeOK, Waiting, Line
<1>5. Plugged'
  BY <1>0 DEF Plugged
<1>6. Linked'
  <2>1. \A b \in Conn : \A x \in Elems(conns'[b].out) : x.gen = conns'[b].gen
    BY <1>0, <1>3, ElemsEmpty DEF Linked
  <2>2. bridge.client # NoConn => /\ conns'[bridge.client].state = "open"
                                  /\ conns'[bridge.client].gen = bridge.serial
    BY <1>0, <1>3, Types DEF Linked
  <2> QED BY <1>0, <2>1, <2>2 DEF Linked
<1>7. \A d \in Client : cl'[d].n = cl[d].n /\ Elems(cl'[d].got) \subseteq Elems(cl[d].got)
  BY <1>2, ElemsEmpty
<1>8. Queued'
  BY <1>0, <1>3, <1>7, Types, QueuedFrame
<1>9. Unique'
  BY <1>0, <1>3, UniqueFrame
<1>10. Named'
  <2>1. \A b \in Conn : Elems(conns'[b].out) \subseteq Elems(conns[b].out)
    BY <1>3, ElemsEmpty
  <2>2. \A b \in Conn : Elems(conns'[b].inq) \subseteq Elems(conns[b].inq)
    BY <1>3
  <2> QED BY <1>0, <1>7, <2>1, <2>2, NamedFrame
<1>11. Calls'
  BY <1>0, <1>2, CallsStep
<1> QED BY <1>4, <1>5, <1>6, <1>8, <1>9, <1>10, <1>11 DEF HInv

LEMMA NotConnectedStep ==
    ASSUME HInv, NEW c \in Client, NotConnected(c) PROVE HInv'
<1>1. PICK late \in BOOLEAN : cl' = [cl EXCEPT ![c] = After(c, <<>>, "oserror", late)]
  BY DEF NotConnected
<1>2. PICK r : r = After(c, <<>>, "oserror", late)
  OBVIOUS
<1>3. /\ r \in ClientSet /\ r.n = cl[c].n /\ r.got = <<>> /\ CallOK(c, r) /\ FrameOK(c, r)
  <2>1. PICK got \in Seq(ItemSet) : got = <<>>
    BY EmptySeqs
  <2>2. \A x \in Elems(got) : ItemOK(x)
    BY <2>1, ElemsEmpty
  <2>3. cl[c].pc \in {"lock", "read"}
    BY DEF NotConnected
  <2>4. r = After(c, got, "oserror", late)
    BY <1>2, <2>1
  <2> QED BY <2>2, <2>3, <2>4, AfterFacts
<1>4. cl' = WithCl(cl, c, r)
  BY <1>1, <1>2 DEF WithCl
<1>5. /\ usb' = usb /\ bridge' = bridge /\ rx' = rx /\ din' = din /\ shell' = shell
      /\ ran' = ran /\ stale' = stale /\ lock' = lock /\ conns' = conns
  BY DEF NotConnected, bridgeVars, history
<1>6. lock' \in Client \union {NoClient}
  BY <1>5 DEF HInv, TypeOK
<1> QED BY <1>3, <1>4, <1>5, <1>6, LeaveStep

LEMMA LeavesStep ==
    ASSUME HInv, NEW c \in Client, cl[c].pc = "read", NEW got \in Seq(ItemSet),
           \A x \in Elems(got) : ItemOK(x), NEW text, NEW late, Leave(c, got, text, late)
    PROVE  HInv'
<1>1. PICK r : r = After(c, got, text, late)
  OBVIOUS
<1>2. /\ r \in ClientSet /\ r.n = cl[c].n /\ r.got = <<>> /\ CallOK(c, r) /\ FrameOK(c, r)
  BY <1>1, AfterFacts
<1>3. cl' = WithCl(cl, c, r)
  BY <1>1 DEF Leave, WithCl
<1>4. /\ usb' = usb /\ bridge' = bridge /\ rx' = rx /\ din' = din /\ shell' = shell
      /\ ran' = ran /\ stale' = stale /\ lock' = NoClient
  BY DEF Leave, history
<1>5. \E a \in Conn : conns' = HungUp(conns, a)
  <2>1. At(c) \in Conn
    BY AtConn
  <2>2. conns' = HungUp(conns, At(c))
    BY DEF Leave, HungUp
  <2> QED BY <2>1, <2>2
<1> QED BY <1>2, <1>3, <1>4, <1>5, LeaveStep

LEMMA ClosedStep ==
    ASSUME HInv, NEW c \in Client, BridgeClosed(c) \/ Deadline(c) PROVE HInv'
<1>1. cl[c].got \in Seq(ItemSet) /\ \A x \in Elems(cl[c].got) : ItemOK(x)
  BY CallTypes
<1>2. PICK text, late : cl[c].pc = "read" /\ Leave(c, cl[c].got, text, late)
  BY DEF BridgeClosed, Deadline
<1> QED BY <1>1, <1>2, LeavesStep

\* What arrives is read, and its socket emptied.
LEMMA ReceiveStep ==
    ASSUME HInv, NEW c \in Client, Receive(c) PROVE HInv'
<1>0. TypeOK /\ Plugged /\ Linked /\ Queued /\ Unique /\ Named /\ Calls
  BY DEF HInv
<1>1. PICK a \in Conn : a = At(c)
  BY AtConn DEF Receive
<1>2. PICK got : got = cl[c].got \o conns[a].out
  OBVIOUS
<1>3. /\ cl[c] \in ClientSet /\ cl[c].got \in Seq(ItemSet) /\ CallOK(c, cl[c])
      /\ FrameOK(c, cl[c]) /\ conns[a].out \in Seq(ItemSet)
      /\ cl \in [Client -> ClientSet] /\ conns \in [Conn -> ConnSet]
  BY <1>0, CallTypes, ConnTypes, Types
<1>4. got \in Seq(ItemSet) /\ Elems(got) = Elems(cl[c].got) \cup Elems(conns[a].out)
  BY <1>2, <1>3, ElemsConcat
<1>5. \A x \in Elems(got) : ItemOK(x)
  BY <1>0, <1>4 DEF Named
<1>6. /\ cl[c].pc = "read"
      /\ \/ /\ cl' = [cl EXCEPT ![c].got = got]
            /\ conns' = [conns EXCEPT ![a].out = <<>>]
            /\ usb' = usb /\ bridge' = bridge /\ rx' = rx /\ din' = din /\ shell' = shell
            /\ ran' = ran /\ stale' = stale /\ lock' = lock
         \/ Leave(c, got, "none", FALSE)
  BY <1>1, <1>2 DEF Receive, history
<1>7. CASE Leave(c, got, "none", FALSE)
  BY <1>4, <1>5, <1>6, <1>7, LeavesStep
<1>8. CASE /\ cl' = [cl EXCEPT ![c].got = got]
           /\ conns' = [conns EXCEPT ![a].out = <<>>]
           /\ usb' = usb /\ bridge' = bridge /\ rx' = rx /\ din' = din /\ shell' = shell
           /\ ran' = ran /\ stale' = stale /\ lock' = lock
  <2>1. PICK r : r = [cl[c] EXCEPT !.got = got]
    OBVIOUS
  <2>2. /\ r \in ClientSet /\ r.got = got /\ r.n = cl[c].n /\ r.pc = cl[c].pc
        /\ r.phase = cl[c].phase /\ r.why = cl[c].why /\ r.frame = cl[c].frame
    BY <1>3, <1>4, <2>1 DEF ClientSet
  <2>3. cl' = WithCl(cl, c, r)
    BY <1>8, <2>1 DEF WithCl
  <2>4. /\ cl' \in [Client -> ClientSet] /\ cl'[c] = r
        /\ \A d \in Client \ {c} : cl'[d] = cl[d]
    BY <1>3, <2>2, <2>3, ClSet
  <2>5. conns' = WithOut(conns, a, <<>>)
    BY <1>8 DEF WithOut
  <2>6. /\ conns' \in [Conn -> ConnSet]
        /\ \A b \in Conn : conns'[b].state = conns[b].state
        /\ \A b \in Conn : conns'[b].inq = conns[b].inq
        /\ conns'[a].out = <<>> /\ \A b \in Conn \ {a} : conns'[b].out = conns[b].out
        /\ \A b \in Conn : conns'[b].gen = conns[b].gen
    <3>1. PICK o \in Seq(ItemSet) : o = <<>>
      BY EmptySeqs
    <3>2. conns' = WithOut(conns, a, o)
      BY <2>5, <3>1
    <3>3. /\ conns' \in [Conn -> ConnSet]
          /\ \A b \in Conn : conns'[b].state = conns[b].state
          /\ \A b \in Conn : conns'[b].inq = conns[b].inq
          /\ conns'[a].out = o /\ \A b \in Conn \ {a} : conns'[b].out = conns[b].out
          /\ \A b \in Conn : conns'[b].gen = conns[b].gen
      BY <1>3, <3>2, ConnOut
    <3> QED BY <3>1, <3>3
  <2>7. TypeOK'
    BY <1>0, <1>8, <2>4, <2>6 DEF TypeOK, Waiting, Line
  <2>8. Plugged'
    BY <1>0, <1>8 DEF Plugged
  <2>9. Linked'
    <3>1. \A b \in Conn : \A x \in Elems(conns'[b].out) : x.gen = conns'[b].gen
      BY <1>0, <2>6, ElemsEmpty DEF Linked
    <3>2. bridge.client # NoConn => /\ conns'[bridge.client].state = "open"
                                    /\ conns'[bridge.client].gen = bridge.serial
      BY <1>0, <2>6, Types DEF Linked
    <3> QED BY <1>0, <1>8, <3>1, <3>2 DEF Linked
  <2>10. \A d \in Client : cl'[d].n = cl[d].n
    BY <2>2, <2>4
  <2>11. Queued'
    BY <1>0, <1>8, <2>6, <2>10, Types, QueuedFrame
  <2>12. Unique'
    BY <1>0, <1>8, <2>6, UniqueFrame
  <2>13. Named'
    <3>1. \A b \in Conn : /\ Elems(conns'[b].out) \subseteq Elems(conns[b].out)
                          /\ Elems(conns'[b].inq) \subseteq Elems(conns[b].inq)
      BY <2>6, ElemsEmpty
    <3>2. \A d \in Client : \A x \in Elems(cl'[d].got) :
              x \in Elems(cl[d].got) \/ \E b \in Conn : x \in Elems(conns[b].out)
      BY <1>4, <2>2, <2>4
    <3> QED BY <1>0, <1>8, <3>1, <3>2, NamedFrame
  <2>14. Calls'
    <3>1. CallOK(c, r) /\ FrameOK(c, r)
      BY <1>3, <2>2 DEF CallOK, FrameOK
    <3> QED BY <1>0, <1>8, <2>4, <3>1, CallsStep
  <2> QED BY <2>7, <2>8, <2>9, <2>11, <2>12, <2>13, <2>14 DEF HInv
<1> QED BY <1>6, <1>7, <1>8

LEMMA AppendSeq ==
    ASSUME NEW q \in Seq(Conn), NEW a \in Conn, \A i \in DOMAIN q : q[i] # a,
           \A i, j \in DOMAIN q : q[i] = q[j] => i = j,
           NEW t, t = Append(q, a)
    PROVE  /\ t \in Seq(Conn)
           /\ \A i \in DOMAIN t : t[i] = a \/ (i \in DOMAIN q /\ t[i] = q[i])
           /\ \A i, j \in DOMAIN t : t[i] = t[j] => i = j
<1>1. /\ t \in Seq(Conn) /\ Len(q) \in Nat /\ DOMAIN q = 1..Len(q)
      /\ DOMAIN t = 1..(Len(q) + 1) /\ t[Len(q) + 1] = a
      /\ \A i \in 1..Len(q) : t[i] = q[i]
  <2>1. /\ Append(q, a) \in Seq(Conn) /\ Len(q) \in Nat /\ DOMAIN q = 1..Len(q)
        /\ DOMAIN Append(q, a) = 1..(Len(q) + 1) /\ Append(q, a)[Len(q) + 1] = a
        /\ \A i \in 1..Len(q) : Append(q, a)[i] = q[i]
    OBVIOUS
  <2> QED BY <2>1
<1>2. \A i \in DOMAIN t : (i = Len(q) + 1 /\ t[i] = a) \/ (i \in DOMAIN q /\ t[i] = q[i])
  BY <1>1
<1>3. ASSUME NEW i \in DOMAIN t, NEW j \in DOMAIN t, t[i] = t[j] PROVE i = j
  BY <1>2, <1>3
<1> QED BY <1>1, <1>2, <1>3

LEMMA ExchangeStep ==
    ASSUME HInv, NEW c \in Client, Exchange(c) PROVE HInv'
<1>0. TypeOK /\ Plugged /\ Linked /\ Queued /\ Unique /\ Named /\ Calls
  BY DEF HInv
<1>1. /\ cl[c] \in ClientSet /\ cl[c].n \in 0..MaxTries /\ MaxTries \in Nat
      /\ cl[c].phase \in {"first", "hide", "again"} /\ NameOf[c] \in Word
      /\ CallOK(c, cl[c]) /\ FrameOK(c, cl[c]) /\ cl[c].pc = "lock"
      /\ cl \in [Client -> ClientSet] /\ conns \in [Conn -> ConnSet]
      /\ bridge \in BridgeSet /\ bridge.backlog \in Seq(Conn)
  BY <1>0, CallTypes, Types DEF Exchange
<1>2. cl[c].n + 1 \in 1..MaxTries /\ cl[c].n < cl[c].n + 1
  BY <1>1 DEF CallOK
<1>3. PICK a : a = <<c, cl[c].n + 1>>
  OBVIOUS
<1>4. a \in Conn /\ a[1] = c /\ a[2] = cl[c].n + 1
  BY <1>2, <1>3, HostAssumption
<1>5. conns[a].state = "none" /\ conns[a].out = <<>> /\ conns[a].inq = <<>>
  BY <1>0, <1>2, <1>4 DEF Queued, Unique
<1>6. PICK q \in {<<>>, <<Line(a, Sent(c))>>} :
         conns' = [conns EXCEPT ![a].state = "syn", ![a].inq = q]
  BY <1>3 DEF Exchange
<1>7. PICK t : t = Append(bridge.backlog, a)
  OBVIOUS
<1>8. /\ bridge' = [bridge EXCEPT !.backlog = t] /\ lock' = c
      /\ cl' = [cl EXCEPT ![c].n = @ + 1, ![c].pc = "read"]
      /\ usb' = usb /\ rx' = rx /\ din' = din /\ shell' = shell
      /\ ran' = ran /\ stale' = stale
  BY <1>3, <1>7 DEF Exchange, history
<1>9. PICK l : l = Line(a, Sent(c))
  OBVIOUS
<1>10. Sent(c) \in {NameOf[c], "hide"} /\ Sent(c) \in Word
  <2>1. Sent(c) = NameOf[c] \/ Sent(c) = "hide"
    BY DEF Sent
  <2>2. "hide" \in Word
    BY DEF Word
  <2> QED BY <1>1, <2>1, <2>2
<1>11. l \in LineSet /\ l.of = a /\ l.name = Sent(c)
  BY <1>4, <1>9, <1>10 DEF Line, LineSet
<1>12. LineOK(l)
  <2>1. ASSUME Sent(c) # "hide", NameOf[c] \notin Listed PROVE cl[c].n + 1 = 1
    <3>1. cl[c].phase = "first"
      BY <1>1, <2>1 DEF Sent, CallOK
    <3>2. cl[c].n = 0
      BY <1>1, <2>1, <3>1 DEF CallOK
    <3> QED BY <3>2
  <2> QED BY <1>4, <1>10, <1>11, <2>1 DEF LineOK
<1>13. /\ q \in Seq(LineSet) /\ Len(q) <= 1 /\ Ofs(q) \subseteq {a}
       /\ \A k \in Elems(q) : LineOK(k)
  <2>1. CASE q = <<>>
    BY <2>1, EmptySeqs, ElemsEmpty
  <2>2. CASE q = <<l>>
    <3>1. Len(<<l>>) <= 1
      OBVIOUS
    <3> QED BY <1>11, <1>12, <2>2, <3>1, OneLine
  <2> QED BY <1>6, <1>9, <2>1, <2>2
<1>14. /\ conns' \in [Conn -> ConnSet]
       /\ conns'[a].state = "syn" /\ \A b \in Conn \ {a} : conns'[b].state = conns[b].state
       /\ conns'[a].inq = q /\ \A b \in Conn \ {a} : conns'[b].inq = conns[b].inq
       /\ \A b \in Conn : conns'[b].out = conns[b].out
       /\ \A b \in Conn : conns'[b].gen = conns[b].gen
  <2>1. conns' = Connected(conns, a, q)
    BY <1>6 DEF Connected
  <2>2. conns \in [Conn -> ConnSet] /\ a \in Conn /\ q \in Seq(LineSet)
    BY <1>1, <1>4, <1>13
  <2> QED BY <2>1, <2>2, ConnSyn
<1>15. /\ t \in Seq(Conn)
       /\ \A i \in DOMAIN t :
             t[i] = a \/ (i \in DOMAIN bridge.backlog /\ t[i] = bridge.backlog[i])
       /\ \A i, j \in DOMAIN t : t[i] = t[j] => i = j
  <2>1. \A i \in DOMAIN bridge.backlog : bridge.backlog[i] # a
    BY <1>0, <1>5 DEF Queued
  <2>2. \A i, j \in DOMAIN bridge.backlog : bridge.backlog[i] = bridge.backlog[j] => i = j
    BY <1>0 DEF Queued
  <2> QED BY <1>1, <1>4, <1>7, <2>1, <2>2, AppendSeq
<1>16. /\ bridge' \in BridgeSet /\ bridge'.backlog = t /\ bridge'.serial = bridge.serial
       /\ bridge'.client = bridge.client /\ bridge'.tx = bridge.tx
  BY <1>1, <1>8, <1>15, EditBacklog
<1>17. PICK r : r = [cl[c] EXCEPT !.n = @ + 1, !.pc = "read"]
  OBVIOUS
<1>18. /\ r \in ClientSet /\ r.n = cl[c].n + 1 /\ r.pc = "read" /\ r.got = cl[c].got
       /\ r.phase = cl[c].phase /\ r.why = cl[c].why /\ r.frame = cl[c].frame
  <2>1. PICK m \in 0..MaxTries : m = cl[c].n + 1
    BY <1>1, <1>2
  <2>2. r = [cl[c] EXCEPT !.n = m, !.pc = "read"]
    BY <1>17, <2>1
  <2>3. /\ r \in ClientSet /\ r.n = m /\ r.pc = "read" /\ r.got = cl[c].got
        /\ r.phase = cl[c].phase /\ r.why = cl[c].why /\ r.frame = cl[c].frame
    BY <1>1, <2>2 DEF ClientSet
  <2> QED BY <2>1, <2>3
<1>19. /\ cl' \in [Client -> ClientSet] /\ cl'[c] = r
       /\ \A d \in Client \ {c} : cl'[d] = cl[d]
  <2>1. cl' = WithCl(cl, c, r)
    BY <1>8, <1>17 DEF WithCl
  <2> QED BY <1>1, <1>18, <2>1, ClSet
<1>20. TypeOK'
  BY <1>0, <1>8, <1>14, <1>16, <1>19 DEF TypeOK, Waiting, Line
<1>21. Plugged'
  BY <1>0, <1>8 DEF Plugged
<1>22. Linked'
  <2>1. bridge.client # NoConn => bridge.client \in Conn \ {a}
    BY <1>0, <1>5, Types DEF Linked
  <2>2. bridge.client # NoConn => /\ conns'[bridge.client].state = "open"
                                  /\ conns'[bridge.client].gen = bridge.serial
    BY <1>0, <1>14, <2>1 DEF Linked
  <2>3. \A b \in Conn : \A x \in Elems(conns'[b].out) : x.gen = conns'[b].gen
    BY <1>0, <1>14 DEF Linked
  <2> QED BY <1>0, <1>8, <1>16, <2>2, <2>3 DEF Linked
<1>23. Queued'
  <2>1. \A i \in DOMAIN t : conns'[t[i]].state = "syn"
    <3>1. \A i \in DOMAIN t : t[i] \in Conn
      BY <1>15
    <3> QED BY <1>0, <1>14, <1>15, <3>1 DEF Queued
  <2>2. \A b \in Conn : conns'[b].state \in {"none", "syn"} => conns'[b].out = <<>>
    BY <1>0, <1>5, <1>14 DEF Queued
  <2>3. ASSUME NEW b \in Conn, cl'[b[1]].n < b[2] PROVE conns'[b].state = "none"
    <3>1. b[1] \in Client /\ b[2] \in Nat
      BY HostAssumption
    <3>2. cl[b[1]].n < b[2] /\ b # a
      BY <1>1, <1>2, <1>4, <1>18, <1>19, <2>3, <3>1
    <3> QED BY <1>0, <1>14, <3>2 DEF Queued
  <2> QED BY <1>15, <1>16, <2>1, <2>2, <2>3 DEF Queued
<1>24. Unique'
  <2>1. Unsent(a)
    BY <1>5 DEF Unsent
  <2>2. \A b \in Conn : Unsent(b)' => Unsent(b)
    BY <1>14, <2>1 DEF Unsent
  <2>3. \A b \in Conn : /\ Len(conns'[b].inq) <= 1 /\ Ofs(conns'[b].inq) \subseteq {b}
                        /\ conns'[b].state = "none" => conns'[b].inq = <<>>
    BY <1>0, <1>13, <1>14 DEF Unique
  <2> QED BY <1>0, <1>8, <1>16, <2>2, <2>3 DEF Unique
<1>25. Named'
  <2>1. \A b \in Conn : \A k \in Elems(conns'[b].inq) : LineOK(k)
    BY <1>0, <1>13, <1>14 DEF Named
  <2>2. /\ \A k \in Elems(din') : LineOK(k)
        /\ \A k \in Elems(bridge'.tx) : LineOK(k)
    BY <1>0, <1>8, <1>16 DEF Named
  <2>3. \A d \in Client : cl'[d].got = cl[d].got
    BY <1>18, <1>19
  <2> QED BY <1>0, <1>8, <1>14, <2>1, <2>2, <2>3, NamedLines
<1>26. Calls'
  <2>1. CallOK(c, r)
    <3>1. 0 < cl[c].n + 1
      BY <1>1
    <3>2. ASSUME NameOf[c] \notin Listed
          PROVE  /\ cl[c].phase # "again"
                 /\ cl[c].phase = "first" => cl[c].n + 1 = 1
      BY <1>1, <3>2 DEF CallOK
    <3> QED BY <1>18, <3>1, <3>2 DEF CallOK
  <2>2. FrameOK(c, r)
    BY <1>1, <1>18 DEF FrameOK
  <2> QED BY <1>0, <1>8, <1>19, <2>1, <2>2, CallsStep
<1> QED BY <1>20, <1>21, <1>22, <1>23, <1>24, <1>25, <1>26 DEF HInv

LEMMA RestartStep ==
    ASSUME HInv, NEW c \in Client, Restart(c) PROVE HInv'
<1>0. TypeOK /\ Plugged /\ Linked /\ Queued /\ Unique /\ Named /\ Calls
  BY DEF HInv
<1>1. /\ cl[c] \in ClientSet /\ CallOK(c, cl[c]) /\ FrameOK(c, cl[c])
      /\ cl \in [Client -> ClientSet] /\ conns \in [Conn -> ConnSet] /\ bridge \in BridgeSet
  BY <1>0, CallTypes, Types
<1>2. PICK x \in {"start", "lock"} : cl' = [cl EXCEPT ![c].pc = x]
  BY DEF Restart
<1>3. /\ usb' = usb /\ rx' = rx /\ din' = din /\ shell' = shell
      /\ ran' = ran /\ stale' = stale /\ lock' = lock /\ cl[c].pc \in {"stop", "start"}
  BY DEF Restart, BridgeStop, BridgeStart, bridgeVars, history
<1>4. PICK r : r = [cl[c] EXCEPT !.pc = x]
  OBVIOUS
<1>5. /\ r \in ClientSet /\ r.pc = x /\ r.n = cl[c].n /\ r.got = cl[c].got
      /\ r.phase = cl[c].phase /\ r.why = cl[c].why /\ r.frame = cl[c].frame
  BY <1>1, <1>4 DEF ClientSet
<1>6. /\ cl' \in [Client -> ClientSet] /\ cl'[c] = r
      /\ \A d \in Client \ {c} : cl'[d] = cl[d]
  <2>1. cl' = WithCl(cl, c, r)
    BY <1>2, <1>4 DEF WithCl
  <2>2. cl \in [Client -> ClientSet] /\ r \in ClientSet
    BY <1>1, <1>5
  <2> QED BY <2>1, <2>2, ClSet
<1>7. Calls'
  <2>1. CallOK(c, r) /\ FrameOK(c, r)
    BY <1>1, <1>3, <1>5 DEF CallOK, FrameOK
  <2> QED BY <1>0, <1>3, <1>6, <2>1, CallsStep
<1>8. \A d \in Client : cl'[d].n = cl[d].n /\ cl'[d].got = cl[d].got
  BY <1>5, <1>6
<1>9. /\ bridge' \in BridgeSet
      /\ \/ bridge' = bridge
         \/ /\ bridge'.serial = 0 /\ bridge'.client = NoConn /\ bridge'.tx = <<>>
            /\ bridge'.backlog = <<>>
  BY <1>1, DownFields DEF Restart, BridgeStop, BridgeStart, bridgeVars
<1>10. /\ conns' \in [Conn -> ConnSet]
       /\ \A b \in Conn : /\ conns'[b].inq \in {conns[b].inq, <<>>}
                          /\ conns'[b].out = conns[b].out /\ conns'[b].gen = conns[b].gen
                          /\ conns'[b].state \in {conns[b].state, "shut"}
                          /\ conns[b].state = "none" => conns'[b].state = "none"
                          /\ bridge' = bridge => conns'[b].state = conns[b].state
  <2>1. CASE conns' = conns
    BY <1>1, <2>1
  <2>2. CASE BridgeStop
    BY <1>0, <2>2, StopEffect
  <2> QED BY <2>1, <2>2 DEF Restart, BridgeStart, bridgeVars
<1>11. TypeOK'
  BY <1>0, <1>3, <1>6, <1>9, <1>10 DEF TypeOK, Waiting, Line
<1>12. Plugged'
  BY <1>0, <1>3 DEF Plugged
<1>13. Linked'
  <2>1. \A b \in Conn : \A y \in Elems(conns'[b].out) : y.gen = conns'[b].gen
    BY <1>0, <1>10 DEF Linked
  <2>2. CASE bridge' = bridge
    <3>1. bridge.client # NoConn => /\ conns'[bridge.client].state = "open"
                                    /\ conns'[bridge.client].gen = bridge.serial
      BY <1>0, <1>10, <2>2, Types DEF Linked
    <3> QED BY <1>0, <1>3, <2>1, <2>2, <3>1 DEF Linked
  <2>3. CASE /\ bridge'.serial = 0 /\ bridge'.client = NoConn /\ bridge'.tx = <<>>
             /\ bridge'.backlog = <<>>
    BY <1>0, <1>3, <2>1, <2>3, ElemsEmpty DEF Linked
  <2> QED BY <1>9, <2>2, <2>3
<1>14. Queued'
  <2>1. CASE bridge' = bridge
    <3>1. bridge'.backlog = bridge.backlog
      BY <2>1
    <3> QED BY <1>0, <1>8, <1>10, <2>1, <3>1, Types, QueuedFrame
  <2>2. CASE bridge'.backlog = <<>>
    <3>1. DOMAIN bridge'.backlog = {}
      BY <2>2
    <3>2. \A b \in Conn : conns'[b].state \in {"none", "syn"} => conns'[b].out = <<>>
      BY <1>0, <1>10 DEF Queued
    <3>3. \A b \in Conn : cl'[b[1]].n < b[2] => conns'[b].state = "none"
      <4>1. \A b \in Conn : b[1] \in Client
        BY HostAssumption
      <4> QED BY <1>0, <1>8, <1>10, <4>1 DEF Queued
    <3> QED BY <3>1, <3>2, <3>3 DEF Queued
  <2> QED BY <1>9, <2>1, <2>2
<1>15. Unique'
  <2>1. bridge'.tx \in {bridge.tx, <<>>}
    BY <1>9
  <2> QED BY <1>0, <1>3, <1>10, <2>1, UniqueFrame
<1>16. Named'
  <2>1. Elems(bridge'.tx) \subseteq Elems(bridge.tx)
    BY <1>9, ElemsEmpty
  <2>2. \A b \in Conn : /\ Elems(conns'[b].inq) \subseteq Elems(conns[b].inq)
                        /\ Elems(conns'[b].out) \subseteq Elems(conns[b].out)
    BY <1>10, ElemsEmpty
  <2> QED BY <1>0, <1>3, <1>8, <2>1, <2>2, NamedFrame
<1> QED BY <1>7, <1>11, <1>12, <1>13, <1>14, <1>15, <1>16 DEF HInv

-----------------------------------------------------------------------------
(* The invariant.                                                          *)

LEMMA HInvInit == Init => HInv
<1> SUFFICES ASSUME Init PROVE HInv
  OBVIOUS
<1>1. PICK p \in Path : usb = [path |-> p, gen |-> 1]
  BY DEF Init, BridgeInit
<1>2. /\ bridge = [Down EXCEPT !.up = TRUE] /\ conns = [a \in Conn |-> NewConn]
      /\ rx = <<>> /\ din = <<>> /\ lock = NoClient /\ cl = [c \in Client |-> FirstCall]
      /\ shell = Waiting /\ ran = [a \in Conn |-> 0] /\ stale = FALSE
  BY DEF Init, BridgeInit
<1>3. /\ bridge \in BridgeSet /\ bridge.serial = 0 /\ bridge.client = NoConn
      /\ bridge.tx = <<>> /\ bridge.backlog = <<>>
  BY <1>2, DownFields
<1>4. NewConn \in ConnSet
  BY EmptySeqs, ZeroSerial DEF NewConn, ConnSet
<1>5. FirstCall \in ClientSet
  <2>1. 0 \in 0..MaxTries
    BY HostAssumption
  <2> QED BY <2>1, EmptySeqs DEF FirstCall, ClientSet
<1>6. \A a \in Conn : /\ conns[a] = NewConn /\ conns[a].state = "none"
                      /\ conns[a].inq = <<>> /\ conns[a].out = <<>> /\ ran[a] = 0
  BY <1>2 DEF NewConn
<1>7. \A c \in Client : /\ cl[c].pc = "lock" /\ cl[c].n = 0 /\ cl[c].phase = "first"
                        /\ cl[c].got = <<>> /\ cl[c].frame = NoConn
  BY <1>2 DEF FirstCall
<1>8. TypeOK
  <2>1. usb \in [path : Path \union {NoPath}, gen : 1..MaxPlugs]
    BY <1>1, ZeroSerial
  <2>2. conns \in [Conn -> ConnSet] /\ cl \in [Client -> ClientSet]
    BY <1>2, <1>4, <1>5
  <2>3. ran \in [Conn -> Nat]
    BY <1>2
  <2>4. stale \in BOOLEAN
    BY <1>2
  <2> QED BY <1>2, <1>3, <2>1, <2>2, <2>3, <2>4, EmptySeqs DEF TypeOK
<1>9. Plugged
  BY <1>1, BridgeAssumption DEF Plugged
<1>10. Linked
  BY <1>2, <1>3, <1>6, ElemsEmpty DEF Linked
<1>11. Queued
  <2>1. DOMAIN bridge.backlog = {}
    BY <1>3
  <2> QED BY <1>6, <2>1 DEF Queued
<1>12. Unique
  <2>1. Len(<<>>) <= 1
    OBVIOUS
  <2>2. 0 <= 1
    OBVIOUS
  <2> QED BY <1>2, <1>3, <1>6, <2>1, <2>2, ElemsEmpty DEF Unique
<1>13. Named
  <2>1. Waiting.st # "ran"
    BY DEF Waiting
  <2> QED BY <1>2, <1>3, <1>6, <1>7, <2>1, ElemsEmpty DEF Named
<1>14. Calls
  <2>1. 0 < MaxTries
    BY HostAssumption
  <2> QED BY <1>7, <2>1 DEF Calls, CallOK, FrameOK
<1> QED BY <1>8, <1>9, <1>10, <1>11, <1>12, <1>13, <1>14 DEF HInv

LEMMA HInvStep == HInv /\ [Next]_vars => HInv'
<1> SUFFICES ASSUME HInv, [Next]_vars PROVE HInv'
  OBVIOUS
<1>1. CASE BridgeTick /\ UNCHANGED hostVars
  BY <1>1, TickStep
<1>2. CASE Plug /\ UNCHANGED hostVars
  BY <1>2, PlugStep
<1>3. CASE LoseDevice
  BY <1>3, LoseStep
<1>4. CASE shell_read
  BY <1>4, ReadStep
<1>5. CASE shell_end
  BY <1>5, EndStep
<1>6. CASE shell_poll_cancel
  BY <1>6, PollStep
<1>9. CASE idle_reattach
  BY <1>9, IdleStep
<1>7. ASSUME NEW c \in Client, ClientStep(c) PROVE HInv'
  BY <1>7, ExchangeStep, NotConnectedStep, ReceiveStep, ClosedStep, RestartStep
     DEF ClientStep
<1>8. CASE UNCHANGED vars
  <2>1. /\ usb' = usb /\ bridge' = bridge /\ conns' = conns /\ rx' = rx /\ din' = din
        /\ lock' = lock /\ cl' = cl /\ shell' = shell /\ ran' = ran /\ stale' = stale
    BY <1>8 DEF vars
  <2>2. TypeOK' /\ Plugged' /\ Linked'
    BY <2>1 DEF HInv, TypeOK, Plugged, Linked
  <2>3. Queued' /\ Calls'
    BY <2>1, CallsFrame DEF HInv, Queued
  <2>4. Unique'
    BY <2>1, UniqueFrame DEF HInv
  <2>5. Named'
    BY <2>1, NamedFrame DEF HInv
  <2> QED BY <2>2, <2>3, <2>4, <2>5 DEF HInv
<1> QED BY <1>1, <1>2, <1>3, <1>4, <1>5, <1>6, <1>7, <1>8, <1>9 DEF Next

LEMMA HInvAlways == Spec => []HInv
  BY HInvInit, HInvStep, PTL DEF Spec

-----------------------------------------------------------------------------

\* Every buffer between a client and the shell, and what each process
\* remembers, has its type, whatever is unplugged, restarted or late.
THEOREM HostTypes == Spec => []TypeOK
<1>1. HInv => TypeOK
  BY DEF HInv
<1> QED BY <1>1, HInvAlways, PTL

\* NATIVE_INIT_BOOT_TRANSPORT_CONTRACT.md, "Unsafe root commands must not be
\* replayed automatically", for any number of clients, retries and
\* re-enumerations: a command outside SAFE_RETRY_COMMANDS is sent on its client's
\* first connection only, its line is in one buffer at a time, and it is gone
\* from the last of them once it runs.
THEOREM HostUnsafeOnce == Spec => []UnsafeOnce
<1>1. HInv => UnsafeOnce
  <2>1. SUFFICES ASSUME HInv, NEW c \in Client, NameOf[c] \notin Listed,
                        NEW m \in 1..MaxTries, NEW n \in 1..MaxTries
                 PROVE  /\ ran[<<c, m>>] <= 1
                        /\ ran[<<c, m>>] = 1 /\ ran[<<c, n>>] = 1 => m = n
    BY DEF UnsafeOnce, Once
  <2>2. PICK a \in Conn : a = <<c, m>>
    BY HostAssumption
  <2>3. PICK b \in Conn : b = <<c, n>>
    BY HostAssumption
  <2>4. a[1] = c /\ a[2] = m /\ b[1] = c /\ b[2] = n
    BY <2>2, <2>3
  <2>5. ran[a] <= 1 /\ (ran[a] > 0 => m = 1) /\ (ran[b] > 0 => n = 1)
    BY <2>1, <2>4 DEF HInv, Unique, Named
  <2> QED BY <2>2, <2>3, <2>5
<1> QED BY <1>1, HInvAlways, PTL

\* Nothing crosses a re-enumeration: what close_serial drops, and what it leaves
\* to the device, never reaches a client or a shell of another enumeration.
THEOREM HostOwnLink == Spec => []OwnLink
<1>1. HInv => OwnLink
  BY DEF HInv, Linked, OwnLink, Elems
<1> QED BY <1>1, HInvAlways, PTL

\* The frame a client takes for the answer was printed for a command of that
\* name, "ran" for one whose handler ran, and it is the client's own when nobody
\* else uses the name.
THEOREM HostResultTraced == Spec => []ResultTraced
<1>1. HInv => ResultTraced
  <2>1. SUFFICES ASSUME HInv, NEW c \in Client, cl[c].frame # NoConn, NameOf[c] # "hide"
                 PROVE  /\ NameOf[cl[c].frame[1]] = NameOf[c]
                        /\ cl[c].why = "ran" => ran[cl[c].frame] > 0
                        /\ (\A d \in Client \ {c} : NameOf[d] # NameOf[c]) =>
                              cl[c].frame[1] = c
    BY DEF ResultTraced
  <2>2. cl[c].frame \in Conn
    BY <2>1, CallTypes, ClientFields
  <2>3. cl[c].frame[1] \in Client
    BY <2>2, HostAssumption
  <2>4. FrameOK(c, cl[c])
    BY <2>1, CallTypes
  <2> QED BY <2>1, <2>3, <2>4 DEF FrameOK
<1> QED BY <1>1, HInvAlways, PTL
=============================================================================
