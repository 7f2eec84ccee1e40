---------------------------- MODULE SerialBridge ----------------------------
(***************************************************************************)
(* The bridge between local TCP clients and the serial line of the A90     *)
(* (serial_tcp_bridge.py, class Bridge), started and stopped by            *)
(* a90_bridge.py, with its default options: the device path is pinned, one *)
(* client at a time, and no client while the serial device is absent.      *)
(*                                                                         *)
(* Bytes are abstracted to command lines on their way to the device and to *)
(* the records the host tells apart (echo, BEGIN, END, prompt) on their    *)
(* way back.  A write may stop after any line (EAGAIN).  The USB link      *)
(* comes and goes.                                                         *)
(***************************************************************************)
EXTENDS Naturals, Sequences

CONSTANTS
    Conn,      \* TCP connections, each made at most once
    NoConn,    \* no connection
    Path,      \* real paths of the serial device node
    NoPath,    \* unplugged, or nothing pinned
    MaxPlugs   \* bound on enumerations of the device

ASSUME BridgeAssumption ==
    NoConn \notin Conn /\ NoPath \notin Path /\ MaxPlugs \in Nat \ {0}

VARIABLES
    usb,      \* the device node: its path, and how often it was enumerated
    bridge,   \* the bridge process
    conns,    \* both ends of every TCP connection
    rx,       \* device output the bridge has not read
    din       \* lines the device has not read

bridgeVars == <<usb, bridge, conns, rx, din>>

\* bridge.serial is the enumeration of the open descriptor, 0 for None.
Down == [up |-> FALSE, serial |-> 0, pinned |-> NoPath, client |-> NoConn,
         tx |-> <<>>, backlog |-> <<>>]

\* state: "syn" is in the listen queue; "busy" and "missing" were answered with
\* that text and closed; "shut" was closed by the bridge.  hup: the client has
\* closed its end.  gen: the enumeration the client was accepted on.
NewConn == [state |-> "none", inq |-> <<>>, out |-> <<>>, hup |-> FALSE, gen |-> 0]

BridgeInit ==
    /\ \E p \in Path : usb = [path |-> p, gen |-> 1]
    /\ bridge = [Down EXCEPT !.up = TRUE]
    /\ conns = [a \in Conn |-> NewConn]
    /\ rx = <<>>
    /\ din = <<>>

----------------------------------------------------------------------------
(* The serial side.                                                        *)

\* The open descriptor still belongs to the device that is plugged in.
LinkUp == bridge.serial = usb.gen /\ usb.path # NoPath

serial_realpath_allowed == bridge.pinned \in {NoPath, usb.path}

Shut(a) == IF a = NoConn THEN conns
           ELSE [conns EXCEPT ![a].state = "shut", ![a].inq = <<>>]

\* The process ends, and with it every connection, queued ones too: on a signal
\* of a90_bridge.py stop.
BridgeStop ==
    /\ bridge.up
    /\ bridge' = Down
    /\ conns' = [a \in Conn |->
                    IF conns[a].state \in {"syn", "open"}
                    THEN [conns[a] EXCEPT !.state = "shut", !.inq = <<>>] ELSE conns[a]]
    /\ UNCHANGED <<usb, rx, din>>

\* The path is pinned before the node is opened, which may fail.  tcflush
\* discards what has arrived; the device may still hold the rest.
open_serial ==
    /\ bridge.up /\ bridge.serial = 0
    /\ usb.path # NoPath /\ serial_realpath_allowed
    /\ \/ /\ bridge' = [bridge EXCEPT !.pinned = usb.path]
          /\ UNCHANGED rx
       \/ /\ bridge' = [bridge EXCEPT !.serial = usb.gen, !.pinned = usb.path]
          /\ \E k \in 0..Len(rx) : rx' = SubSeq(rx, k + 1, Len(rx))
    /\ UNCHANGED <<usb, conns, din>>

\* An error other than the four that mean "not ready" ends the process.
open_raises ==
    /\ bridge.serial = 0
    /\ usb.path # NoPath /\ serial_realpath_allowed
    /\ BridgeStop

\* Mutant: the bytes queued for the lost device are kept.
close_serial_keeps_tx ==
    /\ bridge' = [bridge EXCEPT !.serial = 0, !.client = NoConn]
    /\ conns' = Shut(bridge.client)

close_serial ==
    /\ bridge' = [bridge EXCEPT !.serial = 0, !.tx = <<>>, !.client = NoConn]
    /\ conns' = Shut(bridge.client)

\* check_serial_identity, or a read or write that fails, or an end of file.
serial_lost ==
    /\ bridge.serial # 0 /\ ~LinkUp
    /\ close_serial
    /\ UNCHANGED <<usb, rx, din>>

\* What has arrived goes to the current client, and nowhere without one.  What
\* is sent to a client that left is lost, at once with an error or not.  A client
\* that stays is closed if its socket is full (EAGAIN); the part of this read that
\* still got through is no different from an earlier read.
forward_serial ==
    /\ LinkUp /\ rx # <<>>
    /\ rx' = <<>>
    /\ \/ /\ bridge.client = NoConn
          /\ UNCHANGED <<bridge, conns>>
       \/ /\ bridge.client # NoConn
          /\ conns' = IF conns[bridge.client].hup THEN conns
                      ELSE [conns EXCEPT ![bridge.client].out = @ \o rx]
          /\ UNCHANGED bridge
       \/ /\ bridge.client # NoConn
          /\ bridge' = [bridge EXCEPT !.client = NoConn]
          /\ conns' = Shut(bridge.client)
    /\ UNCHANGED <<usb, din>>

\* What is left of s after a write that stops (EAGAIN) after k lines.
Written(s, k) ==
    /\ din' = din \o SubSeq(s, 1, k)
    /\ bridge' = [bridge EXCEPT !.tx = SubSeq(s, k + 1, Len(s))]

flush_serial_tx ==
    /\ LinkUp /\ bridge.tx # <<>>
    /\ \E k \in 1..Len(bridge.tx) : Written(bridge.tx, k)
    /\ UNCHANGED <<usb, conns, rx>>

----------------------------------------------------------------------------
(* The TCP side.                                                           *)

\* The client missing a serial device or finding another client is told so and
\* closed; what it sent is never read.
accept_client ==
    /\ bridge.backlog # <<>>
    /\ LET a == Head(bridge.backlog)
           b == [bridge EXCEPT !.backlog = Tail(@)] IN
       \/ /\ b.serial = 0
          /\ bridge' = b
          /\ conns' = [conns EXCEPT ![a].state = "missing"]
       \/ /\ b.serial # 0 /\ b.client # NoConn
          /\ bridge' = b
          /\ conns' = [conns EXCEPT ![a].state = "busy"]
       \/ /\ b.serial # 0 /\ b.client = NoConn
          /\ bridge' = [b EXCEPT !.client = a]
          /\ conns' = [conns EXCEPT ![a].state = "open", ![a].gen = b.serial]
    /\ UNCHANGED <<usb, rx, din>>

\* Everything the client has sent is queued, and flushed as far as the line
\* takes it.  Queued lines remember the enumeration they were queued for.
forward_client ==
    LET a == bridge.client IN
    /\ a # NoConn /\ conns[a].inq # <<>>
    /\ LET new  == [i \in DOMAIN conns[a].inq |->
                       [conns[a].inq[i] EXCEPT !.gen = bridge.serial]]
           all  == bridge.tx \o new IN
       /\ conns' = [conns EXCEPT ![a].inq = <<>>]
       /\ \E k \in (IF LinkUp THEN 0..Len(all) ELSE {0}) : Written(all, k)
    /\ UNCHANGED <<usb, rx>>

\* Mutant: close_client forgets to forget the client.
client_left_kept ==
    LET a == bridge.client IN
    /\ a # NoConn /\ conns[a].inq = <<>> /\ conns[a].hup
    /\ conns' = Shut(a)
    /\ UNCHANGED <<usb, bridge, rx, din>>

\* End of file from a client.  Lines it left in the buffer stay there.
client_left ==
    LET a == bridge.client IN
    /\ a # NoConn /\ conns[a].inq = <<>> /\ conns[a].hup
    /\ bridge' = [bridge EXCEPT !.client = NoConn]
    /\ conns' = Shut(a)
    /\ UNCHANGED <<usb, rx, din>>

BridgeTick ==
    \/ open_serial \/ open_raises \/ serial_lost \/ forward_serial \/ flush_serial_tx
    \/ accept_client \/ forward_client \/ client_left

----------------------------------------------------------------------------
(* The process, and the USB link.                                          *)

\* a90_bridge.py start: nothing is pinned yet.
BridgeStart ==
    /\ ~bridge.up
    /\ bridge' = [Down EXCEPT !.up = TRUE]
    /\ UNCHANGED <<usb, conns, rx, din>>

\* The device leaves the bus: bytes in flight are lost both ways
\* (a90_console_reattach flushes the device's side).
Unplug ==
    /\ usb.path # NoPath /\ usb.gen < MaxPlugs
    /\ usb' = [usb EXCEPT !.path = NoPath]
    /\ rx' = <<>>
    /\ din' = <<>>
    /\ UNCHANGED <<bridge, conns>>

Plug ==
    /\ usb.path = NoPath
    /\ \E p \in Path : usb' = [path |-> p, gen |-> usb.gen + 1]
    /\ UNCHANGED <<bridge, conns, rx, din>>
=============================================================================
