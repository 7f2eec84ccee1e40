---------------------------- MODULE HostControl ----------------------------
(***************************************************************************)
(* Commands from host processes to the A90's shell: the serial transaction *)
(* lock (a90_serial_lock.py), one framed exchange and its retries          *)
(* (a90ctl.py), the recovery around them (a90_transport.py), the bridge    *)
(* (SerialBridge) and the device's shell (shell_loop,                      *)
(* execute_shell_command, and the polling for a cancel character of        *)
(* a90_run_wait, which reads whatever is on the line).                     *)
(*                                                                         *)
(* Input mode "normal".  Deadlines may pass at any step; a client that is  *)
(* killed looks to the others like one whose deadline passed, because the  *)
(* kernel closes its socket and drops its lock.                            *)
(***************************************************************************)
EXTENDS SerialBridge

CONSTANTS
    Client,      \* host processes, each with one command to run
    NoClient,    \* the lock is free
    NameOf,      \* the first word of each client's command
    Listed,      \* names in SAFE_RETRY_COMMANDS
    Mutating,    \* clients whose command changes the device
    Recovering,  \* clients that call run_serial_command_recovered
    MaxTries     \* bound on the connections of one client

ASSUME HostAssumption ==
    /\ NoClient \notin Client
    /\ NameOf \in [Client -> STRING]
    /\ Mutating \subseteq Client /\ Recovering \subseteq Client
    /\ MaxTries \in Nat \ {0}
    /\ Conn = Client \X (1..MaxTries)

VARIABLES
    lock,     \* who holds the flock on a90-serial-bridge.lock
    cl,       \* the client processes
    shell,    \* the line the device is executing
    ran,      \* history: how often the command ran, by connection (not "hide")
    stale     \* history: a line ran on a link it was not queued for

history == <<ran, stale>>
hostVars == <<lock, cl, shell, ran, stale>>
vars == <<usb, bridge, conns, rx, din, lock, cl, shell, ran, stale>>

\* A line on its way: who sent it, which command it is, whether its start was
\* eaten, and the enumeration it was queued for.
Line(a, name) == [of |-> a, name |-> name, whole |-> TRUE, gen |-> 0]

\* The shell at its prompt; otherwise st is what becomes of the line.
Waiting == [st |-> "idle", line |-> Line(NoConn, "none")]

Item(k, l, st) == [k |-> k, of |-> l.of, name |-> l.name, st |-> st, gen |-> usb.gen]

\* pc: "lock" waits for the lock, "read" for the answer, "stop" and "start" are
\* the halves of a bridge restart.  phase: which call of
\* run_serial_command_recovered it is in.  why: the outcome of its command, the
\* status of a frame ("ran", "busy", "unknown") or an exception; nothing depends
\* on the value a handler returned.  frame: whose frame it was.
FirstCall == [pc |-> "lock", n |-> 0, phase |-> "first", got |-> <<>>,
              why |-> "none", frame |-> NoConn]

Init ==
    /\ BridgeInit
    /\ lock = NoClient
    /\ cl = [c \in Client |-> FirstCall]
    /\ shell = Waiting
    /\ ran = [a \in Conn |-> 0]
    /\ stale = FALSE

----------------------------------------------------------------------------
(* The device: shell_loop.                                                 *)

\* Console output is lost while the device is off the bus.
Emit(items) == rx' = IF usb.path = NoPath THEN rx ELSE rx \o items

\* The handler of line l is called.
Call(l) == /\ ran' = IF l.name = "hide" THEN ran ELSE [ran EXCEPT ![l.of] = @ + 1]
           /\ stale' = (stale \/ l.gen # usb.gen)

\* A line is read and gets its BEGIN; the menu may block it, and it may be
\* unknown.  A line that lost its start may still be a command, which then runs,
\* or is told busy, without a frame.
shell_read ==
    /\ shell.st = "idle" /\ din # <<>>
    /\ din' = Tail(din)
    /\ LET l == Head(din) IN
       /\ Emit(<<Item(IF l.whole THEN "begin" ELSE "echo", l, "none")>>)
       /\ \E st \in {"ran", "busy", "unknown"} :
             /\ shell' = [st |-> st, line |-> l]
             /\ IF st = "ran" THEN Call(l) ELSE UNCHANGED history
    /\ UNCHANGED <<usb, bridge, conns, lock, cl>>

\* Mutant: the line is not forgotten with its END.
shell_end_keeps_line ==
    /\ shell # Waiting
    /\ Emit(<<Item(IF shell.line.whole THEN "end" ELSE "prompt", shell.line, shell.st)>>)
    /\ shell' = [shell EXCEPT !.st = "idle"]
    /\ UNCHANGED <<usb, bridge, conns, din, lock, cl, history>>

\* The handler returns, or the command is turned away: END and the next prompt.
shell_end ==
    /\ shell # Waiting
    /\ Emit(<<Item(IF shell.line.whole THEN "end" ELSE "prompt", shell.line, shell.st)>>)
    /\ shell' = Waiting
    /\ UNCHANGED <<usb, bridge, conns, din, lock, cl, history>>

\* a90_run_wait polls the console for q or Ctrl-C while a child runs: the
\* start of the next line is consumed, or all of it, and a q in it cancels the
\* command that runs, which then ends like any other.
shell_poll_cancel ==
    /\ shell.st = "ran" /\ din # <<>>
    /\ \/ din' = Tail(din)
       \/ Head(din).whole /\ din' = <<[Head(din) EXCEPT !.whole = FALSE]>> \o Tail(din)
    /\ UNCHANGED <<usb, bridge, conns, rx, lock, cl, shell, history>>

\* a90_console_readline closes and reopens a console that was idle, and drains it
\* until it has been silent for a while: what arrives meanwhile is lost, by lines.
idle_reattach ==
    /\ shell = Waiting /\ din # <<>>
    /\ din' = <<>>
    /\ UNCHANGED <<usb, bridge, conns, rx, lock, cl, shell, history>>

\* The link goes, and with it perhaps the whole device (a reboot).
LoseDevice ==
    /\ Unplug
    /\ shell' \in {shell, Waiting}
    /\ UNCHANGED <<lock, cl, history>>

----------------------------------------------------------------------------
(* run_cmdv1_command: what the text of one exchange means.                 *)

At(c) == <<c, cl[c].n>>
Sent(c) == IF cl[c].phase = "hide" THEN "hide" ELSE NameOf[c]

\* Mutant: every command may be sent again.
allows_any_retry(name) == TRUE

command_allows_retry(name) == name \in Listed

Ends(s) == {i \in DOMAIN s : s[i].k = "end"}
Records(s) == {i \in DOMAIN s : s[i].k \in {"begin", "end"}}

\* i and j are neighbours among the records of s.
Adjacent(s, i, j) == i < j /\ \A m \in Records(s) : m <= i \/ j <= m

IsLast(s, i) == i \in Ends(s) /\ \A m \in Records(s) : m <= i
LastFrame(s) == s[CHOOSE i \in DOMAIN s : IsLast(s, i)]

\* parse_a90p1_chunks: BEGIN and END alternate and agree, and the last is an END.
Strict(s) ==
    /\ \E i \in DOMAIN s : IsLast(s, i)
    /\ \A j \in Ends(s) : \E i \in Records(s) \ Ends(s) :
          Adjacent(s, i, j) /\ s[i].of = s[j].of
    /\ \A i \in Records(s) \ Ends(s) : \E j \in Ends(s) : Adjacent(s, i, j)

\* Mutant: any frame will do.
NamesAny(c, x) == TRUE

\* validate_protocol_command
Names(c, x) == x.name = Sent(c)

\* The last frame's status, or the exception raised.  "noend" stands for every
\* message with "A90P1 END marker not found": a listed command's failures all
\* end in one, when its deadline passes.
Verdict(c, got, text) ==
    IF Ends(got) # {} /\ text # "oserror"
    THEN IF ~Strict(got) THEN "rejected"
         ELSE IF Names(c, LastFrame(got)) THEN LastFrame(got).st ELSE "mismatch"
    ELSE IF command_allows_retry(Sent(c)) \/ text \in {"none", "missing"} THEN "noend"
         ELSE IF text = "busy" THEN "refused" ELSE "oserror"

FrameOf(c, got, text) ==
    IF Verdict(c, got, text) \in {"ran", "busy", "unknown"}
    THEN LastFrame(got).of ELSE NoConn

\* should_retry_cmdv1_exchange, and the socket errors: nothing came back, or the
\* bridge refused the connection.
Retries(c, got, text, late) ==
    /\ command_allows_retry(Sent(c)) /\ ~late /\ cl[c].n < MaxTries
    /\ text # "none" \/ got = <<>>

\* run_serial_command_recovered looks for "[busy]" in the whole output, which a
\* framing rejection does not carry, and then for signs of noise.
SawBusy(c, got, text) ==
    /\ Verdict(c, got, text) \notin {"rejected", "oserror"}
    /\ \E i \in DOMAIN got : got[i].st = "busy"

Noise(c, got, text) == Verdict(c, got, text) \in {"noend", "mismatch"}

\* What the client does after an exchange: the same again, hide the menu, restart
\* the bridge, call again, or return.  The answer to "hide" is not looked at.
After(c, got, text, late) ==
    LET over  == [cl[c] EXCEPT !.pc = "done", !.got = <<>>,
                     !.why = Verdict(c, got, text), !.frame = FrameOf(c, got, text)]
        next(phase, pc) == [cl[c] EXCEPT !.phase = phase, !.pc = pc, !.got = <<>>]
        may   == command_allows_retry(NameOf[c]) /\ cl[c].n < MaxTries IN
    IF Retries(c, got, text, late) THEN next(cl[c].phase, "lock")
    ELSE IF cl[c].phase = "hide" THEN next("again", IF may THEN "lock" ELSE "done")
    ELSE IF cl[c].phase = "again" \/ c \notin Recovering THEN over
    ELSE IF SawBusy(c, got, text) /\ cl[c].n < MaxTries
         THEN [over EXCEPT !.phase = "hide", !.pc = "lock"]
    ELSE IF Noise(c, got, text) /\ may THEN next("again", "stop")
    ELSE over

----------------------------------------------------------------------------
(* One exchange: bridge_exchange under the lock.                           *)

\* The flock is taken and the kernel completes the connection before the bridge
\* accepts it.  The line is sent, unless too little of the deadline is left.
\* The lock is held until the answer has been read.
Exchange(c) ==
    /\ cl[c].pc = "lock" /\ lock = NoClient /\ bridge.up
    /\ LET a == <<c, cl[c].n + 1>> IN
       /\ bridge' = [bridge EXCEPT !.backlog = Append(@, a)]
       /\ \E q \in {<<>>, <<Line(a, Sent(c))>>} :
             conns' = [conns EXCEPT ![a].state = "syn", ![a].inq = q]
    /\ lock' = c
    /\ cl' = [cl EXCEPT ![c].n = @ + 1, ![c].pc = "read"]
    /\ UNCHANGED <<usb, rx, din, shell, history>>

\* The lock stays busy until the deadline, or nothing listens on the port.
NotConnected(c) ==
    /\ cl[c].pc = "lock"
    /\ \/ lock # NoClient /\ cl' = [cl EXCEPT ![c] = After(c, <<>>, "oserror", TRUE)]
       \/ lock = NoClient /\ ~bridge.up
          /\ \E late \in BOOLEAN : cl' = [cl EXCEPT ![c] = After(c, <<>>, "oserror", late)]
    /\ UNCHANGED <<bridgeVars, lock, shell, history>>

\* The socket is closed and the lock released, whatever ended the exchange.
Leave(c, got, text, late) ==
    /\ lock' = NoClient
    /\ conns' = [conns EXCEPT ![At(c)].hup = TRUE, ![At(c)].out = <<>>]
    /\ cl' = [cl EXCEPT ![c] = After(c, got, text, late)]
    /\ UNCHANGED <<usb, bridge, rx, din, shell, history>>

\* read_until: what has arrived; an END ends the exchange.  (The prompt that has
\* to follow it is printed at once, and the last read, after a pause, is no
\* different from a later one.)
Receive(c) ==
    LET a == At(c)
        got == cl[c].got \o conns[a].out IN
    /\ cl[c].pc = "read" /\ conns[a].out # <<>>
    /\ \/ /\ Ends(got) = {}
          /\ cl' = [cl EXCEPT ![c].got = got]
          /\ conns' = [conns EXCEPT ![a].out = <<>>]
          /\ UNCHANGED <<usb, bridge, rx, din, lock, shell, history>>
       \/ Ends(got) # {} /\ Leave(c, got, "none", FALSE)

\* End of file, after the bridge's own text if it refused the connection; or a
\* reset, which drops that text.
BridgeClosed(c) ==
    /\ cl[c].pc = "read"
    /\ conns[At(c)].state \in {"busy", "missing", "shut"}
    /\ \/ conns[At(c)].out = <<>>
          /\ Leave(c, cl[c].got, IF conns[At(c)].state = "shut" THEN "none"
                                 ELSE conns[At(c)].state, FALSE)
       \/ Leave(c, cl[c].got, "oserror", FALSE)

\* The deadline passes, while reading or before the line was sent.
Deadline(c) ==
    /\ cl[c].pc = "read"
    /\ \/ Leave(c, cl[c].got, "none", TRUE)
       \/ Leave(c, cl[c].got, "oserror", TRUE)

\* restart_bridge, in a process of its own and without the transaction lock.
\* Either half may fail or refuse (no bridge of ours to stop, a listener already
\* there), which the caller does not look at.
Restart(c) ==
    \/ /\ cl[c].pc = "stop"
       /\ BridgeStop
       /\ cl' = [cl EXCEPT ![c].pc = "start"]
       /\ UNCHANGED <<lock, shell, history>>
    \/ /\ cl[c].pc \in {"stop", "start"}
       /\ BridgeStart \/ UNCHANGED bridgeVars
       /\ cl' = [cl EXCEPT ![c].pc = "lock"]
       /\ UNCHANGED <<lock, shell, history>>

ClientStep(c) ==
    \/ Exchange(c) \/ NotConnected(c) \/ Receive(c) \/ BridgeClosed(c)
    \/ Deadline(c) \/ Restart(c)

Next ==
    \/ BridgeTick /\ UNCHANGED hostVars
    \/ Plug /\ UNCHANGED hostVars
    \/ LoseDevice
    \/ shell_read \/ shell_end \/ shell_poll_cancel \/ idle_reattach
    \/ \E c \in Client : ClientStep(c)

Spec == Init /\ [][Next]_vars

\* The select loop serves every ready descriptor and checks the device's
\* identity twice a second, and an open that failed is tried again; nothing else
\* is sure to happen.
FairSpec == /\ Spec
            /\ WF_vars(open_serial /\ bridge'.serial # 0 /\ UNCHANGED hostVars)
            /\ WF_vars(serial_lost /\ UNCHANGED hostVars)
            /\ WF_vars(forward_client /\ UNCHANGED hostVars)
            /\ WF_vars(client_left /\ UNCHANGED hostVars)

----------------------------------------------------------------------------
(* Properties.                                                             *)

Status == {"ran", "busy", "unknown"}
Word == {NameOf[c] : c \in Client} \union {"hide"}
LineSet == [of : Conn, name : Word, whole : BOOLEAN, gen : Nat]
ItemSet == [k : {"begin", "end", "echo", "prompt"}, of : Conn, name : Word,
            st : Status \union {"none"}, gen : Nat]
BridgeSet == [up : BOOLEAN, serial : 0..MaxPlugs, pinned : Path \union {NoPath},
              client : Conn \union {NoConn}, tx : Seq(LineSet), backlog : Seq(Conn)]
ConnSet == [state : {"none", "syn", "open", "busy", "missing", "shut"},
            inq : Seq(LineSet), out : Seq(ItemSet), hup : BOOLEAN, gen : 0..MaxPlugs]
ClientSet == [pc : {"lock", "read", "stop", "start", "done"}, n : 0..MaxTries,
              phase : {"first", "hide", "again"}, got : Seq(ItemSet),
              why : Status \union {"none", "noend", "rejected", "mismatch", "refused",
                                  "oserror"},
              frame : Conn \union {NoConn}]

TypeOK ==
    /\ usb \in [path : Path \union {NoPath}, gen : 1..MaxPlugs]
    /\ bridge \in BridgeSet
    /\ conns \in [Conn -> ConnSet]
    /\ rx \in Seq(ItemSet) /\ din \in Seq(LineSet)
    /\ lock \in Client \union {NoClient}
    /\ cl \in [Client -> ClientSet]
    /\ shell = Waiting \/ shell \in [st : Status, line : LineSet]
    /\ ran \in [Conn -> Nat] /\ stale \in BOOLEAN

\* The command of c ran at most once, over all its connections.
Once(c) ==
    \A m, n \in 1..MaxTries :
        /\ ran[<<c, m>>] <= 1
        /\ ran[<<c, m>>] = 1 /\ ran[<<c, n>>] = 1 => m = n

\* NATIVE_INIT_BOOT_TRANSPORT_CONTRACT.md, "Unsafe root commands must not be
\* replayed automatically": whatever is lost, refused, restarted or late, a
\* command outside SAFE_RETRY_COMMANDS runs at most once per call
\* (run_cmdv1_command and run_serial_command_recovered together).
UnsafeOnce ==
    \A c \in Client : NameOf[c] \notin Listed => Once(c)

\* Nothing crosses a re-enumeration (close_serial).  A line runs on the link it
\* was queued for, if at all: the device that comes back never receives the
\* commands meant for the one that left.  And what a client is given was produced
\* on the link it was accepted on.
OwnLink ==
    /\ ~stale
    /\ \A a \in Conn : \A i \in DOMAIN conns[a].out : conns[a].out[i].gen = conns[a].gen

\* A frame that is taken for the answer belongs to a command of the same name
\* that the shell did receive, and "ran" to one whose handler ran; it is the
\* client's own unless another client uses the name.  (The records carry no
\* more: FrameTrust.STRUCTURAL_ONLY.  Who asks for hide may be answered by the
\* hide that another client's recovery sent.)
ResultTraced ==
    \A c \in Client : cl[c].frame # NoConn /\ NameOf[c] # "hide" =>
        /\ NameOf[cl[c].frame[1]] = NameOf[c]
        /\ cl[c].why = "ran" => ran[cl[c].frame] > 0
        /\ (\A d \in Client \ {c} : NameOf[d] # NameOf[c]) => cl[c].frame[1] = c

\* The bridge is never lost to a client that left, nor to a cable that was
\* pulled: it takes the device back whenever that stays on the pinned path.
BridgeRecovers ==
    /\ []<>(bridge.client = NoConn \/ ~conns[bridge.client].hup)
    /\ <>[](bridge.up /\ usb.path # NoPath /\ serial_realpath_allowed) => <>[]LinkUp

\* NATIVE_INIT_BOOT_TRANSPORT_CONTRACT.md again, for every command that changes
\* the device.
MutatingOnce == \A c \in Mutating : Once(c)
=============================================================================
