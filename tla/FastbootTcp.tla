----------------------------- MODULE FastbootTcp -----------------------------
(***************************************************************************)
(* The TCP transport of fastboot, src/fastboot/tcp.c, over uIP and a       *)
(* network, with hosts at the other end.                                   *)
(*                                                                         *)
(* Firmware is one thread: net_poll hands an event of one connection to    *)
(* fastboot_tcp_net_callback, which runs to its end.  Here the events are  *)
(* actions; data opens a callback (`buf' of connection `cur'), one action  *)
(* is one turn of the loop of fastboot_tcp_recv, and EndCallback is the    *)
(* fastboot_tcp_send_packet that closes it.                                *)
(*                                                                         *)
(* A stream is a sequence of units <<t, m>>: handshake, header, command    *)
(* and data units of the message m they belong to.  A header is HeaderLen  *)
(* units, the handshake HandshakeLen units; TCP may cut a stream anywhere. *)
(* uIP and the hosts are modelled from how tcp.c uses them: a host sends   *)
(* a command once the one before is answered, and the data once it got     *)
(* DATA; it may cut the data into several messages, close, reset the       *)
(* connection, or vanish.                                                  *)
(***************************************************************************)
EXTENDS FastbootSession

CONSTANTS
    Hosts,          \* remote ends of connections: an address and a port
    None,           \* no host, no packet
    HeaderLen,      \* sizeof(uint64_t)
    HandshakeLen,   \* handshake_len
    MsgMax,         \* FASTBOOT_MSG_MAX
    MaxRtx,         \* CONFIG_UIP_MAXRTX
    Requests        \* commands that the hosts use, with their sizes and lengths

ASSUME TcpAssumption ==
    /\ {HeaderLen, HandshakeLen, MsgMax, MaxRtx} \subseteq Nat \ {0}
    /\ Requests \subseteq [cmd : Commands, size : 0 .. MaxDownload, len : Nat \ {0}]
    /\ \A m \in Requests : m.size > 0 <=> m.cmd = "download"
    /\ None \notin Hosts

VARIABLES
    tstate,        \* fastboot_tcp_session.state
    collected,     \* header_bytes_collected
    left,          \* data_left_to_receive
    offset,        \* segment_offset
    txq, last_packet,
    peer,          \* ripaddr and rport
    cur, buf,      \* the callback's connection, and the data left of it
    conn,          \* uIP: state of every connection
    out,           \* uIP: the packet that the other end has not acknowledged
    nrtx,          \* uIP: how often it was sent again
    rx,            \* what a host sent and the device has not received
    got,           \* the host received the packet `out'
    host, todo     \* the host's phase, and the data it has still to send

tcp == <<tstate, collected, left, offset, txq, last_packet, peer>>
uip == <<conn, out, nrtx>>
remote == <<rx, got, host, todo>>
all == <<session, tcp, cur, buf, uip, remote>>

\* Data, if taken for a command, is none that exists.
Data(len) == [cmd |-> "other", size |-> 0, len |-> len]
Handshake == Data(HandshakeLen)
Messages == Requests \cup {Data(n) : n \in 1 .. MaxDownload} \cup {Handshake}

Units(t, m, n) == [i \in 1 .. n |-> <<t, m>>]
Framed(t, m) == Units("header", m, HeaderLen) \o Units(t, m, m.len)

Packet(t, n) == [t |-> t, n |-> n]
Packets == [t : {"HS", "INFO", "DATA", "PAYLOAD", "OKAY", "FAIL"}, n : 0 .. MaxDownload]

\* A packet is not NULL.
ASSUME PacketAssumption == None \notin Packets

TcpTypeOK ==
    /\ TypeOK
    /\ tstate \in {"HANDSHAKE", "HEADER", "COMMAND", "SEGMENT", "DOWNLOAD"}
    /\ collected \in 0 .. HeaderLen /\ left \in Nat /\ offset \in Nat
    /\ txq \in Seq(Packets) /\ last_packet \in Packets \cup {None}
    /\ peer \in Hosts \cup {None} /\ cur \in Hosts \cup {None}
    /\ conn \in [Hosts -> {"CLOSED", "ESTABLISHED", "FIN_WAIT", "LAST_ACK"}]
    /\ out \in [Hosts -> Packets \cup {None}]
    /\ nrtx \in [Hosts -> 0 .. MaxRtx]
    /\ \A h \in Hosts :
          rx[h] \in Seq({"handshake", "header", "command", "data"} \X Messages)
    /\ got \in [Hosts -> BOOLEAN]
    /\ host \in [Hosts -> {"closed", "hello", "idle", "sent", "sending",
                           "waiting", "uploading", "closing", "gone"}]
    /\ todo \in [Hosts -> 0 .. MaxDownload]

TcpInit ==
    /\ Init
    /\ tstate = "HANDSHAKE" /\ collected = 0 /\ left = 0 /\ offset = 0
    /\ txq = <<>> /\ last_packet = None /\ peer = None
    /\ cur = None /\ buf = <<>>
    /\ conn = [h \in Hosts |-> "CLOSED"]
    /\ out = [h \in Hosts |-> None] /\ nrtx = [h \in Hosts |-> 0]
    /\ rx = [h \in Hosts |-> <<>>] /\ got = [h \in Hosts |-> FALSE]
    /\ host = [h \in Hosts |-> "closed"] /\ todo = [h \in Hosts |-> 0]

Set(f, h, v) == [f EXCEPT ![h] = v]

-----------------------------------------------------------------------------
(* Sessions and connections.                                                *)

is_valid_connMutant(h) == TRUE
fastboot_tcp_is_valid_conn(h) == tstate = "HANDSHAKE" \/ peer = h

\* fastboot_tcp_enter_state(WAIT_FOR_HANDSHAKE).
tcp_resetMutant ==
    /\ tstate' = "HANDSHAKE"
    /\ last_packet' = None
    /\ UNCHANGED <<txq, collected, left, offset, peer>>
fastboot_tcp_reset ==
    /\ tstate' = "HANDSHAKE"
    /\ last_packet' = None
    /\ txq' = <<>>
    /\ UNCHANGED <<collected, left, offset, peer>>

\* uip_close, and what uIP does for it when the callback returns: the
\* connection becomes FIN_WAIT_1 and what was not acknowledged is forgotten.
uip_close(h) ==
    /\ conn' = Set(conn, h, "FIN_WAIT")
    /\ out' = Set(out, h, None)
    /\ nrtx' = Set(nrtx, h, 0)
    /\ rx' = Set(rx, h, <<>>)
    /\ UNCHANGED <<got, host, todo>>

\* The device is in fastboot_poll, between two callbacks.
Polling == cur = None /\ ~fastboot_is_finished

\* fastboot_tcp_handle_session for uip_closed, uip_aborted and uip_timedout.
ConnectionEndsMutant(h, st) ==
    /\ conn' = Set(conn, h, st)
    /\ out' = Set(out, h, None) /\ nrtx' = Set(nrtx, h, 0)
    /\ IF fastboot_tcp_is_valid_conn(h)
       THEN /\ state' = "COMMAND" /\ fastboot_reset_staging
            /\ UNCHANGED <<download_progress, content>>
            /\ fastboot_tcp_reset
       ELSE UNCHANGED <<session, tcp>>
    /\ UNCHANGED <<cur, buf>>
ConnectionEnds(h, st) ==
    /\ conn' = Set(conn, h, st)
    /\ out' = Set(out, h, None) /\ nrtx' = Set(nrtx, h, 0)
    /\ IF fastboot_tcp_is_valid_conn(h)
       THEN fastboot_reset_session /\ fastboot_tcp_reset
       ELSE UNCHANGED <<session, tcp>>
    /\ UNCHANGED <<cur, buf>>

-----------------------------------------------------------------------------
(* One turn of fastboot_tcp_recv: n units of `buf' are consumed.            *)

MinOf(a, b) == IF a < b THEN a ELSE b
Consume(n) == buf' = SubSeq(buf, n + 1, Len(buf)) /\ UNCHANGED cur

\* fastboot_tcp_send for every response.
Replies(r) == [i \in DOMAIN r |->
                 Packet(r[i], IF r[i] = "PAYLOAD" THEN memory_buffer_len ELSE 0)]

\* fastboot_handle_packet with n units of the message m.
fastboot_handle_packet(m, n) ==
    \E r \in Responses :
        /\ \/ fastboot_handle_command(m.cmd, m.size, r)
           \/ fastboot_handle_download(n, r)
           \/ IgnorePacket(r)
        /\ txq' = txq \o Replies(r)

\* collected shares a union with left and offset: the data of a state is lost
\* when the next one is entered.
EnterHeaderMutant == tstate' = "HEADER" /\ collected' = 1 /\ left' = 0 /\ offset' = 0
EnterHeader == tstate' = "HEADER" /\ collected' = 0 /\ left' = 0 /\ offset' = 0

fastboot_tcp_handshake ==
    /\ tstate = "HANDSHAKE" /\ buf # <<>>
    /\ IF Len(buf) >= HandshakeLen
          /\ \A i \in 1 .. HandshakeLen : buf[i][1] = "handshake"
       THEN /\ txq' = Append(txq, Packet("HS", 0))
            /\ peer' = cur
            /\ EnterHeader
            /\ Consume(HandshakeLen)
            /\ UNCHANGED <<session, last_packet, uip, remote>>
       ELSE /\ uip_close(cur)
            /\ buf' = <<>>
            /\ UNCHANGED <<session, tcp, cur>>

\* bytes_to_collect.
HeaderPart == MinOf(Len(buf), HeaderLen - collected)

fastboot_tcp_recv_header ==
    /\ tstate = "HEADER" /\ buf # <<>>
    /\ LET n == HeaderPart
       IN  /\ Consume(n)
           /\ IF collected + n = HeaderLen
              THEN /\ collected' = 0
                   /\ left' = buf[n][2].len
                   /\ tstate' = IF state = "DOWNLOAD" THEN "DOWNLOAD" ELSE "COMMAND"
              ELSE collected' = collected + n /\ UNCHANGED <<left, tstate>>
    /\ UNCHANGED <<session, offset, txq, last_packet, peer, uip, remote>>

\* A command that came in part may be collected in segment_buf.
Collectable == left <= MsgMax

fastboot_tcp_recv_command ==
    /\ tstate = "COMMAND" /\ buf # <<>>
    /\ \/ /\ Len(buf) >= left
          /\ fastboot_handle_packet(buf[1][2], left)
          /\ EnterHeader
          /\ Consume(left)
          /\ UNCHANGED <<last_packet, peer, uip, remote>>
       \/ /\ Len(buf) < left /\ Collectable
          /\ tstate' = "SEGMENT" /\ offset' = 0
          /\ UNCHANGED <<session, collected, left, txq, last_packet, peer,
                         cur, buf, uip, remote>>
       \/ /\ Len(buf) < left /\ ~Collectable
          /\ uip_close(cur)
          /\ fastboot_reset_session /\ fastboot_tcp_reset
          /\ buf' = <<>> /\ UNCHANGED cur

fastboot_tcp_recv_segment ==
    /\ tstate = "SEGMENT" /\ buf # <<>>
    /\ LET n == MinOf(left, Len(buf))
       IN  /\ Consume(n)
           /\ IF left = n
              THEN fastboot_handle_packet(buf[1][2], offset + n) /\ EnterHeader
              ELSE /\ offset' = offset + n /\ left' = left - n
                   /\ UNCHANGED <<session, txq, tstate, collected>>
    /\ UNCHANGED <<last_packet, peer, uip, remote>>

fastboot_tcp_recv_download ==
    /\ tstate = "DOWNLOAD" /\ buf # <<>>
    /\ LET n == MinOf(left, Len(buf))
       IN  /\ Consume(n)
           /\ fastboot_handle_packet(buf[1][2], n)
           /\ IF left = n
              THEN EnterHeader
              ELSE left' = left - n /\ UNCHANGED <<tstate, collected, offset>>
    /\ UNCHANGED <<last_packet, peer, uip, remote>>

CanSend == last_packet = None /\ txq # <<>> /\ tstate # "HANDSHAKE"

\* fastboot_tcp_send_packet, at the end of a callback.  uIP takes a new packet
\* only when the one before is acknowledged.
EndCallback ==
    /\ cur # None /\ buf = <<>>
    /\ IF CanSend
       THEN /\ last_packet' = Head(txq)
            /\ txq' = Tail(txq)
            /\ IF out[cur] = None
               THEN out' = Set(out, cur, Head(txq)) /\ got' = Set(got, cur, FALSE)
               ELSE UNCHANGED <<out, got>>
            /\ UNCHANGED <<tstate, collected, left, offset, peer>>
       ELSE UNCHANGED <<tcp, out, got>>
    /\ nrtx' = Set(nrtx, cur, 0)
    /\ cur' = None
    /\ UNCHANGED <<session, buf, conn, rx, host, todo>>

-----------------------------------------------------------------------------
(* Events of connection h.                                                  *)

AckedMutant(h) ==
    /\ IF out[h] # None /\ got[h]
       THEN out' = Set(out, h, None) /\ nrtx' = Set(nrtx, h, 0)
       ELSE UNCHANGED <<out, nrtx>>
    /\ UNCHANGED last_packet
\* uip_acked: the host's segments acknowledge whatever it has received.
Acked(h) ==
    IF out[h] # None /\ got[h]
    THEN /\ last_packet' = None
         /\ out' = Set(out, h, None) /\ nrtx' = Set(nrtx, h, 0)
    ELSE UNCHANGED <<last_packet, out, nrtx>>

\* A callback with n units of new data, or with none.
Open(h, n) ==
    /\ Acked(h)
    /\ cur' = h
    /\ buf' = SubSeq(rx[h], 1, n)
    /\ rx' = Set(rx, h, SubSeq(rx[h], n + 1, Len(rx[h])))
    /\ UNCHANGED <<session, tstate, collected, left, offset, txq, peer, conn,
                   got, host, todo>>

Segment(h) ==
    /\ Polling /\ conn[h] = "ESTABLISHED" /\ rx[h] # <<>>
    /\ fastboot_tcp_is_valid_conn(h)
    /\ \E n \in 1 .. Len(rx[h]) : Open(h, n)

Ack(h) ==
    /\ Polling /\ conn[h] = "ESTABLISHED" /\ out[h] # None /\ got[h]
    /\ fastboot_tcp_is_valid_conn(h)
    /\ Open(h, 0)

\* Any callback, at the latest the periodic one, of someone else's connection.
CloseForeign(h) ==
    /\ Polling /\ conn[h] = "ESTABLISHED"
    /\ ~fastboot_tcp_is_valid_conn(h)
    /\ uip_close(h)
    /\ UNCHANGED <<session, tcp, cur, buf>>

\* uip_rexmit: sends last_packet again.
Rexmit(h) ==
    /\ Polling /\ conn[h] = "ESTABLISHED" /\ out[h] # None /\ nrtx[h] < MaxRtx
    /\ fastboot_tcp_is_valid_conn(h)
    /\ nrtx' = Set(nrtx, h, nrtx[h] + 1)
    /\ out' = Set(out, h, last_packet)
    /\ UNCHANGED <<session, tcp, cur, buf, conn, remote>>

HostEnds(h, phase) ==
    /\ host' = Set(host, h, phase)
    /\ rx' = Set(rx, h, <<>>) /\ todo' = Set(todo, h, 0) /\ got' = Set(got, h, FALSE)

\* uip_timedout, after MaxRtx attempts.
TimedOut(h) ==
    /\ Polling /\ conn[h] = "ESTABLISHED" /\ out[h] # None /\ nrtx[h] = MaxRtx
    /\ ConnectionEnds(h, "CLOSED")
    /\ HostEnds(h, "closed")

\* uip_closed, with the host's FIN: uIP drops it while data is outstanding.
Fin(h) ==
    /\ Polling /\ conn[h] = "ESTABLISHED" /\ host[h] = "closing"
    /\ rx[h] = <<>> /\ (out[h] = None \/ got[h])
    /\ ConnectionEnds(h, "LAST_ACK")
    /\ UNCHANGED remote

\* uip_closed again, or uip_timedout, when a half closed connection ends.
LateClose(h) ==
    /\ Polling /\ conn[h] \in {"FIN_WAIT", "LAST_ACK"}
    /\ ConnectionEnds(h, "CLOSED")
    /\ HostEnds(h, "closed")

\* FIN_WAIT_2 and TIME_WAIT run out: no callback.
Expires(h) ==
    /\ Polling /\ conn[h] = "FIN_WAIT"
    /\ conn' = Set(conn, h, "CLOSED")
    /\ HostEnds(h, "closed")
    /\ UNCHANGED <<session, tcp, cur, buf, out, nrtx>>

\* uip_aborted: the host resets the connection.
Rst(h) ==
    /\ Polling /\ conn[h] = "ESTABLISHED" /\ host[h] # "gone"
    /\ ConnectionEnds(h, "CLOSED")
    /\ HostEnds(h, "closed")

\* net_poll finds no device, at the next poll of the session.
LinkLost ==
    /\ Polling
    /\ Disconnect
    /\ UNCHANGED <<tcp, cur, buf, uip, remote>>

\* fastboot_release, then fastboot_init: fastboot_setup_tcp and uip_init.
TcpReinit ==
    /\ state = "DISCONNECTED"
    /\ fastboot_init
    /\ fastboot_tcp_reset
    /\ cur' = None /\ buf' = <<>>
    /\ conn' = [h \in Hosts |-> "CLOSED"]
    /\ out' = [h \in Hosts |-> None] /\ nrtx' = [h \in Hosts |-> 0]
    /\ rx' = [h \in Hosts |-> <<>>] /\ got' = [h \in Hosts |-> FALSE]
    /\ host' = [h \in Hosts |-> "closed"] /\ todo' = [h \in Hosts |-> 0]

\* continue and reboot end the loop of fastboot(): nothing is polled again.
Exit == cur = None /\ state \in {"FINISHED", "REBOOT"} /\ UNCHANGED all

-----------------------------------------------------------------------------
(* The hosts.                                                               *)

device == <<session, tcp, cur, buf>>

Connect(h) ==
    /\ Polling /\ conn[h] = "CLOSED" /\ host[h] = "closed"
    /\ conn' = Set(conn, h, "ESTABLISHED")
    /\ host' = Set(host, h, "hello")
    /\ rx' = Set(rx, h, Units("handshake", Handshake, HandshakeLen))
    /\ UNCHANGED <<device, out, nrtx, got, todo>>

SendCommand(h) ==
    /\ host[h] = "idle" /\ conn[h] = "ESTABLISHED"
    /\ host' = Set(host, h, "sent")
    /\ \E m \in Requests :
          /\ rx' = Set(rx, h, rx[h] \o Framed("command", m))
          /\ todo' = Set(todo, h, m.size)
    /\ UNCHANGED <<device, uip, got>>

SendData(h) ==
    /\ host[h] = "sending"
    /\ \E n \in 1 .. todo[h] :
          /\ rx' = Set(rx, h, rx[h] \o Framed("data", Data(n)))
          /\ todo' = Set(todo, h, todo[h] - n)
    /\ host' = Set(host, h, IF todo'[h] = 0 THEN "waiting" ELSE "sending")
    /\ UNCHANGED <<device, uip, got>>

HostCloses(h) ==
    /\ host[h] \in {"hello", "idle"} /\ conn[h] = "ESTABLISHED"
    /\ host' = Set(host, h, "closing")
    /\ UNCHANGED <<device, uip, rx, got, todo>>

HostVanishes(h) ==
    /\ conn[h] = "ESTABLISHED" /\ host[h] # "gone"
    /\ HostEnds(h, "gone")
    /\ UNCHANGED <<device, uip>>

\* What the host does with the packet on its way, by its phase.
Reaction(h) == [
    hello |-> [HS |-> "idle"],
    sent |-> [INFO |-> "sent", OKAY |-> "idle", FAIL |-> "idle",
              DATA |-> IF todo[h] > 0 THEN "sending" ELSE "uploading"],
    uploading |-> [PAYLOAD |-> "waiting"],
    waiting |-> [INFO |-> "waiting", OKAY |-> "idle", FAIL |-> "idle"],
    closing |-> [t \in {"HS", "INFO", "DATA", "PAYLOAD", "OKAY", "FAIL"} |-> "closing"]]

Expected(h) ==
    /\ host[h] \in DOMAIN Reaction(h)
    /\ out[h].t \in DOMAIN Reaction(h)[host[h]]

Arrive(h) ==
    /\ out[h] # None /\ ~got[h] /\ host[h] # "gone"
    /\ Expected(h)
    /\ got' = Set(got, h, TRUE)
    /\ host' = Set(host, h, Reaction(h)[host[h]][out[h].t])
    /\ UNCHANGED <<device, uip, rx, todo>>

-----------------------------------------------------------------------------
recv == \/ fastboot_tcp_handshake
        \/ fastboot_tcp_recv_header
        \/ fastboot_tcp_recv_command
        \/ fastboot_tcp_recv_segment
        \/ fastboot_tcp_recv_download

DeviceEvent(h) == \/ Segment(h) \/ Ack(h) \/ CloseForeign(h) \/ Rexmit(h)
                  \/ TimedOut(h) \/ Fin(h) \/ LateClose(h) \/ Expires(h) \/ Rst(h)
HostStep(h) == \/ Connect(h) \/ SendCommand(h) \/ SendData(h)
               \/ HostCloses(h) \/ HostVanishes(h) \/ Arrive(h)

TcpNext == \/ recv \/ EndCallback
           \/ \E h \in Hosts : DeviceEvent(h) \/ HostStep(h)
           \/ LinkLost \/ TcpReinit \/ Exit

\* The firmware's loop runs on; the network delivers in the end, or uIP's
\* timer gives up.  net_poll runs that timer for every connection, also while
\* others are busy: a half closed connection ends however many callbacks of
\* another come between.  Nothing makes a host connect, command or close.
TcpFairness ==
    /\ WF_all(recv \/ EndCallback)
    /\ WF_all(TcpReinit)
    /\ \A h \in Hosts :
          /\ WF_all(Segment(h)) /\ WF_all(Ack(h)) /\ WF_all(CloseForeign(h))
          /\ WF_all(TimedOut(h)) /\ SF_all(LateClose(h))
          /\ WF_all(Arrive(h)) /\ WF_all(SendData(h))

TcpSpec == TcpInit /\ [][TcpNext]_all /\ TcpFairness

-----------------------------------------------------------------------------
(* Properties.                                                              *)

Connected == tstate # "HANDSHAKE" /\ state # "DISCONNECTED" /\ host[peer] # "gone"

\* What the session has still to read of its host's stream.
Stream == (IF cur = peer THEN buf ELSE <<>>) \o rx[peer]

AllOf(n, t) == n <= Len(Stream) /\ \A i \in 1 .. n : Stream[i][1] = t

\* However TCP cuts the stream, and whatever sessions came before, the state
\* machine of fastboot_tcp_recv and the stream agree on where headers,
\* commands and data begin and end, and data arrives only in DOWNLOAD.
InFrame ==
    Connected => CASE tstate = "HEADER" ->
                        IF Stream = <<>> THEN collected = 0
                        ELSE LET n == HeaderLen - collected
                             IN  /\ AllOf(n, "header")
                                 /\ (state = "DOWNLOAD") <=> (Stream[n + 1][1] = "data")
                   [] tstate \in {"COMMAND", "SEGMENT"} ->
                        AllOf(left, "command") /\ state # "DOWNLOAD"
                   [] tstate = "DOWNLOAD" ->
                        AllOf(left, "data") /\ state = "DOWNLOAD"

\* A command collected from segments never runs over segment_buf.
SegmentInBuffer == tstate = "SEGMENT" => offset + left <= MsgMax

\* While uIP may ask to send a packet again it belongs to the session, and
\* last_packet is that packet: it was not freed, nor replaced by a later one.
RetransmitsSame ==
    \A h \in Hosts :
        conn[h] = "ESTABLISHED" /\ out[h] # None =>
            /\ peer = h /\ tstate # "HANDSHAKE"
            /\ last_packet = out[h]

\* A host only ever gets what its own last request may be answered with: no
\* reply of an earlier session, or to somebody else, and none twice.
RepliesExpected ==
    \A h \in Hosts :
        out[h] # None /\ ~got[h] /\ host[h] # "gone" => Expected(h)

\* A session ends only with its own connection, or with the link: no other
\* host, and no late event of an old connection, ends or takes it over.
SessionEndsWithConnection ==
    [][tstate # "HANDSHAKE" /\ (tstate' = "HANDSHAKE" \/ peer' # peer)
         => conn'[peer] # "ESTABLISHED"]_all

\* Over TCP the session of FastbootSession runs, so what is proved of it holds
\* for the staging memory that this transport fills.
ImplementsSession == Spec

Waits(h) == host[h] \in {"sent", "sending", "waiting", "uploading"}

\* A host that waits for an answer gets one, or sees the connection end, unless
\* the session is over.
HostAnswered ==
    \A h \in Hosts : Waits(h) ~> (~Waits(h) \/ fastboot_is_finished)

\* When continue or reboot ends the session, its answer was sent.
AnsweredBeforeExit ==
    cur = None /\ state \in {"FINISHED", "REBOOT"} => txq = <<>>

\* The state machine of fastboot_tcp_recv is in step with the stream, with its
\* fields in range and its segments inside segment_buf.
ParserInStep == TcpTypeOK /\ InFrame /\ SegmentInBuffer
=============================================================================
