-------------------------- MODULE FastbootTcp_proofs --------------------------
(***************************************************************************)
(* The TCP transport of fastboot, for any number of hosts, any requests,   *)
(* any lengths of messages and headers, and any way TCP cuts the streams:  *)
(* who has the session, what uIP may send again, that the session over TCP *)
(* is a session of FastbootSession, that the parser is in step with the    *)
(* stream, and that a host gets only replies to its own requests.          *)
(*                                                                         *)
(* LinksInv is about connections and packets, and is inductive by itself.  *)
(* TcpInv adds the hosts: what each of them has sent and not had answered, *)
(* which decides what the stream holds and which replies are pending.      *)
(***************************************************************************)
EXTENDS FastbootTcp, TLAPS

-----------------------------------------------------------------------------
(* The invariant, by parts.                                                 *)

Unit == {"handshake", "header", "command", "data"} \X Messages

\* What arrived of a download fits its announced size (fastboot_handle_download).
DownloadInv == state = "DOWNLOAD" => download_progress <= memory_buffer_len

\* The bytes in the callback's buffer and on their way are units of messages.
UnitsInv == buf \in Seq(Unit) /\ rx \in [Hosts -> Seq(Unit)]

\* A callback runs for a connection that may have the session.  What finished the
\* session in it has a reply.  When it has closed its connection, nothing is left to do.
CallbackInv ==
    /\ cur = None => buf = <<>>
    /\ cur # None =>
          /\ state # "DISCONNECTED"
          /\ state \in {"FINISHED", "REBOOT"} => txq # <<>>
          /\ conn[cur] = "ESTABLISHED" => tstate = "HANDSHAKE" \/ peer = cur
          /\ conn[cur] # "ESTABLISHED" => tstate = "HANDSHAKE" /\ buf = <<>>

\* The session has an established connection, no packet is kept without a session,
\* and what uIP may send again is the session's last packet.
LinkInv ==
    /\ tstate # "HANDSHAKE" => peer \in Hosts /\ conn[peer] = "ESTABLISHED"
    /\ tstate = "HANDSHAKE" => txq = <<>> /\ last_packet = None
    /\ \A h \in Hosts : out[h] # None =>
          /\ conn[h] = "ESTABLISHED"
          /\ tstate # "HANDSHAKE" /\ peer = h
          /\ last_packet = out[h]

\* What the parser has still to read is part of one message, it reads commands only
\* while no data is expected, and a command collected in segments fits segment_buf.
ParserInv ==
    /\ tstate = "HEADER" => collected < HeaderLen
    /\ tstate \in {"COMMAND", "SEGMENT", "DOWNLOAD"} => \E m \in Messages : left \in 1 .. m.len
    /\ tstate \in {"HANDSHAKE", "COMMAND", "SEGMENT"} => state # "DOWNLOAD"
    /\ SegmentInBuffer

\* The rest of TcpTypeOK, by whose variables they are.
ParserTypes ==
    /\ tstate \in {"HANDSHAKE", "HEADER", "COMMAND", "SEGMENT", "DOWNLOAD"}
    /\ collected \in 0 .. HeaderLen /\ left \in Nat /\ offset \in Nat
    /\ txq \in Seq(Packets) /\ last_packet \in Packets \cup {None}
    /\ peer \in Hosts \cup {None}

NetTypes ==
    /\ cur \in Hosts \cup {None}
    /\ conn \in [Hosts -> {"CLOSED", "ESTABLISHED", "FIN_WAIT", "LAST_ACK"}]
    /\ out \in [Hosts -> Packets \cup {None}]
    /\ nrtx \in [Hosts -> 0 .. MaxRtx]

HostTypes ==
    /\ got \in [Hosts -> BOOLEAN]
    /\ host \in [Hosts -> {"closed", "hello", "idle", "sent", "sending",
                           "waiting", "uploading", "closing", "gone"}]
    /\ todo \in [Hosts -> 0 .. MaxDownload]

\* The replies that end a command.
Answers == Fails \cup {<<"OKAY">>, <<"INFO", "OKAY">>}

SessionInv == TypeOK /\ DownloadInv

LinksInv ==
    /\ SessionInv /\ ParserTypes /\ NetTypes /\ HostTypes /\ UnitsInv
    /\ CallbackInv /\ LinkInv /\ ParserInv

-----------------------------------------------------------------------------
(* Hosts, replies and the stream.                                           *)

InSession(h) == tstate # "HANDSHAKE" /\ peer = h

\* What the device has still to read of a host's stream.
Incoming(h) == (IF cur = h THEN buf ELSE <<>>) \o rx[h]

\* A host without a session has sent a handshake, and nothing of it was read.
HelloInv ==
    \A h \in Hosts : conn[h] = "ESTABLISHED" /\ ~InSession(h) /\ host[h] # "gone" =>
        /\ host[h] \in {"hello", "closing"}
        /\ Len(Incoming(h)) = HandshakeLen

\* A connection that is closed has a host that is, too.
ClosedInv == \A h \in Hosts : conn[h] = "CLOSED" => host[h] = "closed"

\* The replies that a host has not received: one with uIP, the others queued.
Kinds(q) == [i \in 1 .. Len(q) |-> q[i].t]
PendingOf(o, g, q) == IF o # None /\ ~g THEN <<o.t>> \o Kinds(q) ELSE Kinds(q)
Pending == PendingOf(out[peer], got[peer], txq)

\* A host in phase w, with d units of data to send, is prepared for the replies p.
Awaits(w, d, p) ==
    \/ w = "hello" /\ p = <<"HS">>
    \/ w = "closing" /\ p \in {<<>>, <<"HS">>}
    \/ w = "idle" /\ p = <<>>
    \/ w = "sent" /\ p \in Answers \cup {<<>>}
    \/ w = "sent" /\ d > 0 /\ p = <<"DATA">>
    \/ w = "sent" /\ d = 0 /\ p = <<"DATA", "PAYLOAD", "OKAY">>
    \/ w = "sending" /\ d > 0 /\ p = <<>>
    \/ w = "uploading" /\ d = 0 /\ p = <<"PAYLOAD", "OKAY">>
    \/ w = "waiting" /\ d = 0 /\ p \in {<<>>, <<"OKAY">>}

ReplyInv ==
    tstate # "HANDSHAKE" /\ host[peer] # "gone" => Awaits(host[peer], todo[peer], Pending)

\* Units from + 1 to `to' of the stream s are <<t, m>>.
Run(s, t, m, from, to) == \A i \in from + 1 .. to : s[i] = <<t, m>>

\* The stream s is the rest of the command m, of which the parser is in state ts.
CommandIn(s, m, ts, col, lf) ==
    \/ /\ ts = "HEADER"
       /\ Len(s) = HeaderLen - col + m.len
       /\ Run(s, "header", m, 0, HeaderLen - col)
       /\ Run(s, "command", m, HeaderLen - col, Len(s))
    \/ /\ ts \in {"COMMAND", "SEGMENT"}
       /\ Len(s) = lf
       /\ Run(s, "command", m, 0, lf)

\* The stream s has hdr units of a header, dat units of its data, and k whole
\* messages: the first ends after b[0], the others after b[1] to b[k] units.  c[i] is
\* the data among the first b[i] units.
Frames(s, n, hdr, dat, k, b, c) ==
    /\ b[0] = hdr + dat /\ c[0] = dat /\ b[k] = Len(s)
    /\ Run(s, "header", Data(n), 0, hdr)
    /\ Run(s, "data", Data(n), hdr, hdr + dat)
    /\ \A i, j \in 0 .. k : i < j => b[i] < b[j] /\ c[i] < c[j]
    /\ \A i \in 0 .. k - 1 :
          /\ b[i + 1] = b[i] + HeaderLen + c[i + 1] - c[i]
          /\ c[i + 1] - c[i] \in 1 .. MaxDownload
          /\ Run(s, "header", Data(c[i + 1] - c[i]), b[i], b[i] + HeaderLen)
          /\ Run(s, "data", Data(c[i + 1] - c[i]), b[i] + HeaderLen, b[i + 1])

\* There are such messages, k after the first, with d units of data.
Framing(s, n, hdr, dat, k, d) ==
    \E b, c \in [0 .. k -> Nat] : c[k] = d /\ Frames(s, n, hdr, dat, k, b, c)

\* The stream s is the rest of messages with d units of data.
DataIn(s, d, ts, col, lf) ==
    \E n \in 1 .. MaxDownload, k \in Nat :
        \/ ts = "HEADER" /\ Framing(s, n, HeaderLen - col, n, k, d)
        \/ ts = "DOWNLOAD" /\ lf \in 1 .. n /\ Framing(s, n, 0, lf, k, d)

\* Nothing is on its way, and the host is to get a reply or has nothing to wait for.
Quiet ==
    /\ Stream = <<>> /\ tstate = "HEADER" /\ collected = 0
    /\ host[peer] \in {"sent", "waiting"} => Pending # <<>>
    /\ host[peer] # "sending"
    /\ Pending = <<"DATA">> =>
          state = "DOWNLOAD" /\ todo[peer] = memory_buffer_len /\ download_progress = 0
    /\ Pending # <<"DATA">> => state # "DOWNLOAD"

\* A command is on its way, or being read.
CommandComes ==
    /\ host[peer] = "sent" /\ Pending = <<>> /\ state # "DOWNLOAD"
    /\ \E m \in Requests : todo[peer] = m.size /\ CommandIn(Stream, m, tstate, collected, left)

\* Data is on its way, or being read: with what the host has still to send it is
\* exactly what the device expects.
DataComes ==
    /\ host[peer] \in {"sending", "waiting"} /\ Pending = <<>> /\ state = "DOWNLOAD"
    /\ \/ /\ Stream = <<>> /\ tstate = "HEADER" /\ collected = 0
          /\ todo[peer] = Left /\ todo[peer] > 0
       \/ DataIn(Stream, Left - todo[peer], tstate, collected, left)

StreamInv == Connected => Quiet \/ CommandComes \/ DataComes

TcpInv == LinksInv /\ ClosedInv /\ HelloInv /\ ReplyInv /\ StreamInv
-----------------------------------------------------------------------------
(* The types of messages, streams and packets.                              *)

\* The constants that streams are made of.
LEMMA Lengths ==
    /\ HeaderLen \in Nat \ {0} /\ HandshakeLen \in Nat \ {0} /\ MsgMax \in Nat \ {0}
    /\ MaxDownload \in Nat \ {0}
BY TcpAssumption, SessionAssumption

\* Every message has a command, a size and a length.
LEMMA MessageType ==
    ASSUME NEW m \in Messages
    PROVE  m.cmd \in Commands /\ m.size \in 0 .. MaxDownload /\ m.len \in Nat \ {0}
<1>1. CASE m \in Requests
  BY <1>1, TcpAssumption, SessionAssumption
<1>2. ASSUME NEW n \in Nat \ {0}, m = Data(n)
      PROVE  m.cmd \in Commands /\ m.size \in 0 .. MaxDownload /\ m.len \in Nat \ {0}
  BY <1>2, SessionAssumption DEF Data, Commands
<1>3. QED
  BY <1>1, <1>2, Lengths DEF Messages, Handshake

\* A message as it goes over the wire is a sequence of units.
LEMMA UnitsType ==
    ASSUME NEW t \in {"handshake", "header", "command", "data"}, NEW m \in Messages,
           NEW n \in Nat
    PROVE  Units(t, m, n) \in Seq(Unit) /\ Len(Units(t, m, n)) = n
BY DEF Units, Unit

\* With its header it is one, too.
LEMMA FramedType ==
    ASSUME NEW t \in {"command", "data"}, NEW m \in Messages
    PROVE  Framed(t, m) \in Seq(Unit)
<1>1. Units("header", m, HeaderLen) \in Seq(Unit) /\ Units(t, m, m.len) \in Seq(Unit)
  BY UnitsType, MessageType, Lengths
<1>2. QED
  BY <1>1 DEF Framed

\* Parts of a sequence of units are sequences of units.
LEMMA PartType ==
    ASSUME NEW s \in Seq(Unit), NEW n \in 0 .. Len(s)
    PROVE  /\ SubSeq(s, 1, n) \in Seq(Unit) /\ Len(SubSeq(s, 1, n)) = n
           /\ SubSeq(s, n + 1, Len(s)) \in Seq(Unit)
           /\ Len(SubSeq(s, n + 1, Len(s))) = Len(s) - n
           /\ \A i \in 1 .. Len(s) - n : SubSeq(s, n + 1, Len(s))[i] = s[n + i]
           /\ \A i \in 1 .. n : SubSeq(s, 1, n)[i] = s[i]
OBVIOUS

-----------------------------------------------------------------------------
(* Streams: what is cut, joined and read of them.                           *)

\* The stream s2 is s without its first n units.
Behind(s, s2, n) ==
    /\ s \in Seq(Unit) /\ s2 \in Seq(Unit) /\ n \in 0 .. Len(s)
    /\ Len(s2) = Len(s) - n
    /\ \A i \in 1 .. Len(s) - n : s2[i] = s[n + i]

\* Sequences with the same elements are the same.
LEMMA SameSeq ==
    ASSUME NEW T, NEW s \in Seq(T), NEW s2 \in Seq(T), Len(s) = Len(s2),
           \A i \in 1 .. Len(s) : s[i] = s2[i]
    PROVE  s = s2
OBVIOUS

\* Length and elements of two streams that are joined.
LEMMA Joined ==
    ASSUME NEW a \in Seq(Unit), NEW b \in Seq(Unit)
    PROVE  /\ a \o b \in Seq(Unit) /\ Len(a) \in Nat /\ Len(b) \in Nat
           /\ Len(a \o b) = Len(a) + Len(b)
           /\ \A i \in 1 .. Len(a) : (a \o b)[i] = a[i]
           /\ \A i \in 1 .. Len(b) : (a \o b)[Len(a) + i] = b[i]
OBVIOUS

\* TCP may cut a stream anywhere: the segment and the rest are the stream.
LEMMA CutStream ==
    ASSUME NEW s \in Seq(Unit), NEW n \in 0 .. Len(s)
    PROVE  SubSeq(s, 1, n) \o SubSeq(s, n + 1, Len(s)) = s
<1> DEFINE a == SubSeq(s, 1, n)
           b == SubSeq(s, n + 1, Len(s))
<1>1. /\ a \in Seq(Unit) /\ Len(a) = n /\ b \in Seq(Unit) /\ Len(b) = Len(s) - n
      /\ \A i \in 1 .. n : a[i] = s[i]
      /\ \A i \in 1 .. Len(s) - n : b[i] = s[n + i]
  BY PartType
<1> HIDE DEF a, b
<1>0. Len(s) \in Nat /\ n \in Nat /\ n <= Len(s)
  OBVIOUS
<1>2. /\ a \o b \in Seq(Unit) /\ Len(a \o b) = Len(s)
      /\ \A i \in 1 .. n : (a \o b)[i] = a[i]
      /\ \A i \in 1 .. Len(s) - n : (a \o b)[n + i] = b[i]
  BY <1>0, <1>1, Joined
<1>3. ASSUME NEW i \in 1 .. Len(s) PROVE (a \o b)[i] = s[i]
  <2>1. CASE i \in 1 .. n
    BY <1>1, <1>2, <2>1
  <2>2. CASE i \notin 1 .. n
    <3> DEFINE j == i - n
    <3>1. j \in 1 .. Len(s) - n /\ n + j = i
      BY <1>0, <2>2
    <3> HIDE DEF j
    <3>2. QED
      BY <1>1, <1>2, <3>1
  <2>3. QED
    BY <2>1, <2>2
<1>4. a \o b = s
  BY <1>2, <1>3, SameSeq
<1>5. QED
  BY <1>4 DEF a, b

\* What is consumed of the buffer is consumed of the stream.
LEMMA ConsumedStream ==
    ASSUME NEW a \in Seq(Unit), NEW b \in Seq(Unit), NEW n \in 0 .. Len(a)
    PROVE  Behind(a \o b, SubSeq(a, n + 1, Len(a)) \o b, n)
<1> DEFINE r == SubSeq(a, n + 1, Len(a))
<1>1. /\ r \in Seq(Unit) /\ Len(r) = Len(a) - n
      /\ \A i \in 1 .. Len(a) - n : r[i] = a[n + i]
  BY PartType
<1> HIDE DEF r
<1>0. Len(a) \in Nat /\ Len(b) \in Nat /\ n \in Nat /\ n <= Len(a)
  OBVIOUS
<1>2. /\ a \o b \in Seq(Unit) /\ Len(a \o b) = Len(a) + Len(b)
      /\ \A i \in 1 .. Len(a) : (a \o b)[i] = a[i]
      /\ \A i \in 1 .. Len(b) : (a \o b)[Len(a) + i] = b[i]
  BY Joined
<1>3. /\ r \o b \in Seq(Unit) /\ Len(r \o b) = Len(r) + Len(b)
      /\ \A i \in 1 .. Len(r) : (r \o b)[i] = r[i]
      /\ \A i \in 1 .. Len(b) : (r \o b)[Len(r) + i] = b[i]
  BY <1>1, Joined
<1>6. ASSUME NEW i \in 1 .. Len(a \o b) - n PROVE (r \o b)[i] = (a \o b)[n + i]
  <2>0. i \in 1 .. Len(a) + Len(b) - n
    BY <1>2
  <2>1. CASE i \in 1 .. Len(a) - n
    <3>1. n + i \in 1 .. Len(a)
      BY <1>0, <2>0, <2>1
    <3>2. QED
      BY <1>1, <1>2, <1>3, <2>1, <3>1
  <2>2. CASE i \notin 1 .. Len(a) - n
    <3> DEFINE j == i - Len(r)
    <3>1. j \in 1 .. Len(b) /\ Len(r) + j = i /\ Len(a) + j = n + i
      BY <1>0, <1>1, <2>0, <2>2
    <3> HIDE DEF j
    <3>2. QED
      BY <1>2, <1>3, <3>1
  <2>3. QED
    BY <2>1, <2>2
<1>4. Behind(a \o b, r \o b, n)
  <2>1. n \in 0 .. Len(a \o b) /\ Len(r \o b) = Len(a \o b) - n
    BY <1>0, <1>1, <1>2, <1>3
  <2>2. \A i \in 1 .. Len(a \o b) - n : (r \o b)[i] = (a \o b)[n + i]
    BY <1>6
  <2>3. QED
    BY <1>2, <1>3, <2>1, <2>2 DEF Behind
<1>5. QED
  BY <1>4 DEF r

\* A run of units, after n units were read.
LEMMA RunBehind ==
    ASSUME NEW s, NEW s2, NEW n \in Nat, Behind(s, s2, n), NEW t, NEW m,
           NEW from \in Nat, NEW to \in Nat, n <= from, to <= Len(s), Run(s, t, m, from, to)
    PROVE  Run(s2, t, m, from - n, to - n)
<1>1. ASSUME NEW i \in from - n + 1 .. to - n PROVE s2[i] = <<t, m>>
  <2>1. n + i \in from + 1 .. to /\ i \in 1 .. Len(s) - n
    <3>1. Len(s) \in Nat
      BY DEF Behind
    <3>2. QED
      BY <3>1
  <2>2. QED
    BY <2>1 DEF Behind, Run
<1>2. QED
  BY <1>1 DEF Run

\* The same for a run of which the first units were read.
LEMMA RunRead ==
    ASSUME NEW s, NEW s2, NEW n \in Nat, Behind(s, s2, n), NEW t, NEW m,
           NEW to \in Nat, n <= to, to <= Len(s), Run(s, t, m, 0, to)
    PROVE  Run(s2, t, m, 0, to - n)
<1>1. ASSUME NEW i \in 1 .. to - n PROVE s2[i] = <<t, m>>
  <2>1. n + i \in 0 + 1 .. to /\ i \in 1 .. Len(s) - n
    <3>1. Len(s) \in Nat
      BY DEF Behind
    <3>2. QED
      BY <3>1
  <2>2. QED
    BY <2>1 DEF Behind, Run
<1>2. QED
  BY <1>1 DEF Run

\* What is appended does not change a run.
LEMMA RunBefore ==
    ASSUME NEW s \in Seq(Unit), NEW s2 \in Seq(Unit), NEW t, NEW m,
           NEW from \in Nat, NEW to \in Nat, to <= Len(s), Run(s, t, m, from, to)
    PROVE  Run(s \o s2, t, m, from, to)
<1>1. ASSUME NEW i \in from + 1 .. to PROVE (s \o s2)[i] = <<t, m>>
  <2>1. i \in 1 .. Len(s)
    OBVIOUS
  <2>2. (s \o s2)[i] = s[i]
    BY <2>1
  <2>3. QED
    BY <2>2 DEF Run
<1>2. QED
  BY <1>1 DEF Run

\* A message with its header, after the stream s.
LEMMA FramedRuns ==
    ASSUME NEW s \in Seq(Unit), NEW t \in {"command", "data"}, NEW m \in Messages
    PROVE  /\ s \o Framed(t, m) \in Seq(Unit)
           /\ Len(s \o Framed(t, m)) = Len(s) + HeaderLen + m.len
           /\ Run(s \o Framed(t, m), "header", m, Len(s), Len(s) + HeaderLen)
           /\ Run(s \o Framed(t, m), t, m, Len(s) + HeaderLen, Len(s) + HeaderLen + m.len)
<1> DEFINE u == Units("header", m, HeaderLen)
           v == Units(t, m, m.len)
<1>0. m.len \in Nat /\ HeaderLen \in Nat
  BY MessageType, TcpAssumption
<1>1. /\ u \in Seq(Unit) /\ Len(u) = HeaderLen /\ \A i \in 1 .. HeaderLen : u[i] = <<"header", m>>
      /\ v \in Seq(Unit) /\ Len(v) = m.len /\ \A i \in 1 .. m.len : v[i] = <<t, m>>
  <2>1. u \in Seq(Unit) /\ Len(u) = HeaderLen /\ v \in Seq(Unit) /\ Len(v) = m.len
    BY <1>0, UnitsType
  <2>2. QED
    BY <2>1 DEF Units
<1>2. Framed(t, m) = u \o v
  BY DEF Framed
<1> HIDE DEF u, v
<1>3. /\ u \o v \in Seq(Unit) /\ Len(u \o v) = HeaderLen + m.len /\ Len(s) \in Nat
      /\ \A i \in 1 .. HeaderLen : (u \o v)[i] = <<"header", m>>
      /\ \A i \in 1 .. m.len : (u \o v)[HeaderLen + i] = <<t, m>>
  <2>1. /\ u \o v \in Seq(Unit) /\ Len(u \o v) = Len(u) + Len(v)
        /\ \A i \in 1 .. Len(u) : (u \o v)[i] = u[i]
        /\ \A i \in 1 .. Len(v) : (u \o v)[Len(u) + i] = v[i]
    BY <1>1, Joined
  <2>2. Len(u \o v) = HeaderLen + m.len /\ \A i \in 1 .. HeaderLen : (u \o v)[i] = <<"header", m>>
    BY <1>1, <2>1
  <2>3. \A i \in 1 .. m.len : (u \o v)[HeaderLen + i] = <<t, m>>
    BY <1>1, <2>1
  <2>4. Len(s) \in Nat
    OBVIOUS
  <2>5. QED
    BY <2>1, <2>2, <2>3, <2>4
<1> DEFINE w == u \o v
<1> HIDE DEF w
<1>4. /\ s \o w \in Seq(Unit) /\ Len(s \o w) = Len(s) + HeaderLen + m.len
      /\ \A i \in 1 .. HeaderLen + m.len : (s \o w)[Len(s) + i] = w[i]
  <2>1. /\ s \o w \in Seq(Unit) /\ Len(s \o w) = Len(s) + Len(w)
        /\ \A i \in 1 .. Len(w) : (s \o w)[Len(s) + i] = w[i]
    BY <1>3, Joined DEF w
  <2>2. Len(w) = HeaderLen + m.len
    BY <1>3 DEF w
  <2>3. Len(s \o w) = Len(s) + HeaderLen + m.len
    BY <1>0, <1>3, <2>1, <2>2
  <2>4. QED
    BY <2>1, <2>2, <2>3, Zenon
<1>5. ASSUME NEW i \in Len(s) + 1 .. Len(s) + HeaderLen PROVE (s \o w)[i] = <<"header", m>>
  <2> DEFINE j == i - Len(s)
  <2>1. j \in 1 .. HeaderLen /\ j \in 1 .. HeaderLen + m.len /\ Len(s) + j = i
    BY <1>0, <1>3
  <2> HIDE DEF j
  <2>2. QED
    BY <1>3, <1>4, <2>1 DEF w
<1>6. ASSUME NEW i \in Len(s) + HeaderLen + 1 .. Len(s) + HeaderLen + m.len
      PROVE  (s \o w)[i] = <<t, m>>
  <2> DEFINE j == i - Len(s) - HeaderLen
  <2>1. j \in 1 .. m.len /\ HeaderLen + j \in 1 .. HeaderLen + m.len
    <3> DEFINE l == m.len
    <3>1. l \in Nat /\ i \in Len(s) + HeaderLen + 1 .. Len(s) + HeaderLen + l
      BY <1>0
    <3> HIDE DEF l
    <3>2. j \in 1 .. l /\ HeaderLen + j \in 1 .. HeaderLen + l
      BY <1>0, <1>3, <3>1
    <3>3. QED
      BY <3>2 DEF l
  <2>2. Len(s) + (HeaderLen + j) = i
    BY <1>0, <1>3
  <2> HIDE DEF j
  <2>3. w[HeaderLen + j] = <<t, m>>
    BY <1>3, <2>1 DEF w
  <2>4. (s \o w)[Len(s) + (HeaderLen + j)] = w[HeaderLen + j]
    BY <1>4, <2>1
  <2>5. QED
    BY <2>2, <2>3, <2>4
<1>7. QED
  BY <1>2, <1>4, <1>5, <1>6 DEF Run, w

-----------------------------------------------------------------------------
(* What is left of a command, and of a download, when part of it was read.  *)

\* Part of the header of a command was read, or all that was missing.
LEMMA CommandHeaderRead ==
    ASSUME NEW s, NEW s2, NEW m \in Requests, NEW col \in 0 .. HeaderLen - 1, NEW lf,
           NEW n \in 1 .. HeaderLen - col, Behind(s, s2, n), CommandIn(s, m, "HEADER", col, lf)
    PROVE  /\ s[n] = <<"header", m>>
           /\ CommandIn(s2, m, "HEADER", col + n, lf)
           /\ n = HeaderLen - col => CommandIn(s2, m, "COMMAND", 0, m.len)
<1> DEFINE H == HeaderLen - col
           l == m.len
<1>0. H \in Nat /\ l \in Nat /\ n \in 1 .. H
  BY Lengths, MessageType DEF Messages
<1>1. /\ Len(s) = H + l /\ Run(s, "header", m, 0, H) /\ Run(s, "command", m, H, H + l)
  BY DEF CommandIn
<1>2. HeaderLen - (col + n) = H - n
  BY Lengths
<1>3. Len(s2) = H - n + l
  BY <1>0, <1>1 DEF Behind
<1> HIDE DEF H, l
<1>4. s[n] = <<"header", m>>
  BY <1>0, <1>1 DEF Run
<1>5. Run(s2, "header", m, 0, H - n)
  BY <1>0, <1>1, RunRead
<1>6. Run(s2, "command", m, H - n, H + l - n)
  BY <1>0, <1>1, RunBehind
<1>7. H + l - n = H - n + l /\ H - n \in Nat
  BY <1>0
<1>8. CommandIn(s2, m, "HEADER", col + n, lf)
  BY <1>2, <1>3, <1>5, <1>6, <1>7 DEF CommandIn, l
<1>9. ASSUME n = H PROVE CommandIn(s2, m, "COMMAND", 0, m.len)
  <2>1. H - n = 0 /\ H + l - n = l /\ Len(s2) = l
    BY <1>0, <1>3, <1>9
  <2>2. QED
    BY <1>6, <2>1 DEF CommandIn, l
<1>10. QED
  BY <1>4, <1>8, <1>9 DEF H

\* Every message ends before the stream does, and after the first.
LEMMA FramesBounds ==
    ASSUME NEW s \in Seq(Unit), NEW x, NEW hdr \in Nat, NEW dat \in Nat, NEW k \in Nat,
           NEW b \in [0 .. k -> Nat], NEW c \in [0 .. k -> Nat], Frames(s, x, hdr, dat, k, b, c),
           NEW i \in 0 .. k
    PROVE  b[i] \in hdr + dat .. Len(s) /\ c[i] \in Nat /\ c[i] >= dat
<1>0. 0 \in 0 .. k /\ k \in 0 .. k
  OBVIOUS
<1>1. /\ b[0] = hdr + dat /\ c[0] = dat /\ b[k] = Len(s)
      /\ 0 < i => b[0] < b[i] /\ c[0] < c[i]
      /\ i < k => b[i] < b[k]
  BY <1>0 DEF Frames
<1>2. b[i] \in Nat /\ c[i] \in Nat /\ Len(s) \in Nat /\ (i = 0 \/ 0 < i) /\ (i = k \/ i < k)
  OBVIOUS
<1>3. QED
  BY <1>1, <1>2

\* A later message, after n units were read.
LEMMA MessageBehind ==
    ASSUME NEW s, NEW s2, NEW n \in Nat, Behind(s, s2, n), NEW y \in Nat,
           NEW b0 \in Nat, NEW b1 \in Nat, n <= b0, b1 <= Len(s), b1 = b0 + HeaderLen + y,
           Run(s, "header", Data(y), b0, b0 + HeaderLen),
           Run(s, "data", Data(y), b0 + HeaderLen, b1)
    PROVE  /\ Run(s2, "header", Data(y), b0 - n, (b0 - n) + HeaderLen)
           /\ Run(s2, "data", Data(y), (b0 - n) + HeaderLen, b1 - n)
<1> DEFINE mid == b0 + HeaderLen
<1>0. HeaderLen \in Nat /\ Len(s) \in Nat
  BY Lengths DEF Behind
<1>1. /\ mid \in Nat /\ n <= mid /\ mid <= Len(s) /\ mid - n = (b0 - n) + HeaderLen
  BY <1>0
<1>2. Run(s, "header", Data(y), b0, mid) /\ Run(s, "data", Data(y), mid, b1)
  OBVIOUS
<1> HIDE DEF mid
<1>3. Run(s2, "header", Data(y), b0 - n, mid - n)
  BY <1>1, <1>2, RunBehind
<1>4. Run(s2, "data", Data(y), mid - n, b1 - n)
  BY <1>1, <1>2, RunBehind
<1>5. QED
  BY <1>1, <1>3, <1>4

\* n units were read of a stream that began with hdr units of a header and dat units of
\* its data; h2 and d2 of them are left, e units of data are not.
ReadOf(s, s2, n, x, hdr, dat, e, h2, d2) ==
    /\ n \in Nat /\ hdr \in Nat /\ dat \in Nat /\ e \in Nat /\ h2 \in Nat /\ d2 \in Nat
    /\ Behind(s, s2, n) /\ d2 + e = dat /\ h2 + d2 + n = hdr + dat
    /\ Run(s2, "header", Data(x), 0, h2) /\ Run(s2, "data", Data(x), h2, h2 + d2)

\* What is left are messages, too.
LEMMA FramingRead ==
    ASSUME NEW s, NEW s2, NEW n, NEW x, NEW hdr, NEW dat, NEW e, NEW h2, NEW d2,
           ReadOf(s, s2, n, x, hdr, dat, e, h2, d2), NEW k \in Nat, NEW d,
           Framing(s, x, hdr, dat, k, d)
    PROVE  Framing(s2, x, h2, d2, k, d - e)
<1>p. PICK b \in [0 .. k -> Nat], c \in [0 .. k -> Nat] :
        c[k] = d /\ Frames(s, x, hdr, dat, k, b, c)
  BY DEF Framing
<1>r. /\ n \in Nat /\ hdr \in Nat /\ dat \in Nat /\ e \in Nat /\ h2 \in Nat /\ d2 \in Nat
      /\ Behind(s, s2, n) /\ d2 + e = dat /\ h2 + d2 + n = hdr + dat
      /\ Run(s2, "header", Data(x), 0, h2) /\ Run(s2, "data", Data(x), h2, h2 + d2)
  BY DEF ReadOf
<1> USE <1>p, <1>r
<1> DEFINE b2 == [i \in 0 .. k |-> b[i] - n]
           c2 == [i \in 0 .. k |-> c[i] - e]
<1>s. s \in Seq(Unit) /\ Len(s) \in Nat /\ Len(s2) = Len(s) - n
  BY DEF Behind
<1>1. ASSUME NEW i \in 0 .. k
      PROVE  b[i] \in Nat /\ n <= b[i] /\ b[i] <= Len(s) /\ c[i] \in Nat /\ e <= c[i]
  <2>1. b[i] \in hdr + dat .. Len(s) /\ c[i] \in Nat /\ c[i] >= dat
    BY <1>s, FramesBounds
  <2>2. b[i] \in Nat
    OBVIOUS
  <2>3. ASSUME NEW p \in Nat, NEW q \in Nat, NEW l \in Nat, p \in hdr + dat .. l, q >= dat
        PROVE  n <= p /\ p <= l /\ e <= q
    BY <2>3
  <2>4. QED
    BY <1>s, <2>1, <2>2, <2>3
<1>2. b2 \in [0 .. k -> Nat] /\ c2 \in [0 .. k -> Nat]
  <2>1. \A i \in 0 .. k : b[i] - n \in Nat /\ c[i] - e \in Nat
    <3>1. ASSUME NEW p \in Nat, NEW q \in Nat, q <= p PROVE p - q \in Nat
      BY <3>1
    <3>2. QED
      BY <1>1, <3>1
  <2>2. QED
    BY <2>1
<1>3. \A i \in 0 .. k : b2[i] = b[i] - n /\ c2[i] = c[i] - e
  OBVIOUS
<1> HIDE DEF b2, c2
<1>4. b2[0] = h2 + d2 /\ c2[0] = d2 /\ b2[k] = Len(s2)
  <2>1. b[0] = hdr + dat /\ c[0] = dat /\ b[k] = Len(s)
    BY DEF Frames
  <2>2. b2[0] = b[0] - n /\ c2[0] = c[0] - e /\ b2[k] = b[k] - n
    BY <1>3
  <2>3. hdr + dat - n = h2 + d2 /\ dat - e = d2
    OBVIOUS
  <2>4. QED
    BY <1>s, <2>1, <2>2, <2>3
<1>5. ASSUME NEW i \in 0 .. k, NEW j \in 0 .. k, i < j
      PROVE  b2[i] < b2[j] /\ c2[i] < c2[j]
  <2>1. b[i] < b[j] /\ c[i] < c[j]
    BY <1>5 DEF Frames
  <2>2. b[i] \in Nat /\ b[j] \in Nat /\ c[i] \in Nat /\ c[j] \in Nat
    OBVIOUS
  <2>3. b2[i] = b[i] - n /\ b2[j] = b[j] - n /\ c2[i] = c[i] - e /\ c2[j] = c[j] - e
    BY <1>3
  <2>4. ASSUME NEW p \in Nat, NEW q \in Nat, NEW a \in Nat, p < q PROVE p - a < q - a
    BY <2>4
  <2>5. QED
    BY <2>1, <2>2, <2>3, <2>4
<1>6. ASSUME NEW i \in 0 .. k - 1
      PROVE  /\ b2[i + 1] = b2[i] + HeaderLen + c2[i + 1] - c2[i]
             /\ c2[i + 1] - c2[i] \in 1 .. MaxDownload
             /\ Run(s2, "header", Data(c2[i + 1] - c2[i]), b2[i], b2[i] + HeaderLen)
             /\ Run(s2, "data", Data(c2[i + 1] - c2[i]), b2[i] + HeaderLen, b2[i + 1])
  <2> DEFINE y == c[i + 1] - c[i]
             j == i + 1
  <2>1. i \in 0 .. k /\ j \in 0 .. k
    OBVIOUS
  <2>2. /\ b[j] = b[i] + HeaderLen + c[j] - c[i] /\ y \in 1 .. MaxDownload
        /\ Run(s, "header", Data(y), b[i], b[i] + HeaderLen)
        /\ Run(s, "data", Data(y), b[i] + HeaderLen, b[j])
    BY DEF Frames
  <2>3. y = c[j] - c[i]
    OBVIOUS
  <2> HIDE DEF y, j
  <2>4. /\ b[i] \in Nat /\ b[j] \in Nat /\ c[i] \in Nat /\ c[j] \in Nat
        /\ n <= b[i] /\ b[j] <= Len(s)
    BY <1>1, <2>1
  <2>5. /\ b2[i] = b[i] - n /\ b2[j] = b[j] - n /\ c2[i] = c[i] - e /\ c2[j] = c[j] - e
    BY <1>3, <2>1
  <2>6. y \in Nat /\ HeaderLen \in Nat /\ b[j] = b[i] + HeaderLen + y
    BY <2>2, <2>3, <2>4, Lengths
  <2>7. /\ Run(s2, "header", Data(y), b[i] - n, (b[i] - n) + HeaderLen)
        /\ Run(s2, "data", Data(y), (b[i] - n) + HeaderLen, b[j] - n)
    BY <2>2, <2>4, <2>6, MessageBehind
  <2>8. PICK p \in Nat, q \in Nat, u \in Nat, v \in Nat :
          p = c[i] /\ q = c[j] /\ u = b[i] /\ v = b[j]
    BY <2>4
  <2>a. y = q - p /\ v = u + HeaderLen + y
    BY <2>3, <2>6, <2>8
  <2>b. c2[i] = p - e /\ c2[j] = q - e /\ b2[i] = u - n /\ b2[j] = v - n
    BY <2>5, <2>8
  <2>9. c2[j] - c2[i] = y /\ b2[j] = b2[i] + HeaderLen + c2[j] - c2[i]
    BY <2>6, <2>a, <2>b
  <2>10. QED
    BY <2>2, <2>5, <2>7, <2>9, Zenon DEF j
<1>7. c2[k] = c[k] - e
  BY <1>3
<1>8. Frames(s2, x, h2, d2, k, b2, c2)
  BY <1>4, <1>5, <1>6 DEF Frames
<1>9. QED
  BY <1>2, <1>7, <1>8 DEF Framing

\* The first message was read, and others follow.
LEMMA FramingNext ==
    ASSUME NEW s \in Seq(Unit), NEW x, NEW k \in Nat \ {0}, NEW d, Framing(s, x, 0, 0, k, d)
    PROVE  \E x2 \in 1 .. MaxDownload : Framing(s, x2, HeaderLen, x2, k - 1, d)
<1>p. PICK b \in [0 .. k -> Nat], c \in [0 .. k -> Nat] : c[k] = d /\ Frames(s, x, 0, 0, k, b, c)
  BY DEF Framing
<1> USE <1>p
<1> DEFINE l == k - 1
           b2 == [i \in 0 .. l |-> b[i + 1]]
           c2 == [i \in 0 .. l |-> c[i + 1]]
           x2 == c[1]
<1>0. /\ l \in Nat /\ 0 \in 0 .. k - 1 /\ 0 \in 0 .. k /\ l \in 0 .. l /\ l + 1 = k
      /\ HeaderLen \in Nat
  BY Lengths
<1>1. \A i \in 0 .. l : i + 1 \in 0 .. k
  BY <1>0
<1>2. b2 \in [0 .. l -> Nat] /\ c2 \in [0 .. l -> Nat]
  BY <1>1
<1>3. \A i \in 0 .. l : b2[i] = b[i + 1] /\ c2[i] = c[i + 1]
  OBVIOUS
<1>4. /\ x2 \in 1 .. MaxDownload /\ b[1] = HeaderLen + x2
      /\ Run(s, "header", Data(x2), 0, HeaderLen)
      /\ Run(s, "data", Data(x2), HeaderLen, HeaderLen + x2)
  <2>1. b[0] = 0 /\ c[0] = 0
    BY DEF Frames
  <2>2. /\ b[0 + 1] = b[0] + HeaderLen + c[0 + 1] - c[0]
        /\ c[0 + 1] - c[0] \in 1 .. MaxDownload
        /\ Run(s, "header", Data(c[0 + 1] - c[0]), b[0], b[0] + HeaderLen)
        /\ Run(s, "data", Data(c[0 + 1] - c[0]), b[0] + HeaderLen, b[0 + 1])
    BY <1>0 DEF Frames
  <2>3. 1 \in 0 .. k /\ c[1] \in Nat /\ b[1] \in Nat
    BY <1>0
  <2>4. c[0 + 1] - c[0] = c[1] /\ b[0] + HeaderLen = HeaderLen /\ b[0 + 1] = HeaderLen + c[1]
    BY <1>0, <2>1, <2>2, <2>3
  <2>5. b[0 + 1] = b[1]
    OBVIOUS
  <2>6. QED
    BY <2>1, <2>2, <2>4, <2>5
<1>5. b2[0] = HeaderLen + x2 /\ c2[0] = x2 /\ b2[l] = Len(s) /\ c2[l] = c[k]
  <2>1. b[k] = Len(s)
    BY DEF Frames
  <2>2. 0 \in 0 .. l /\ l + 1 = k
    BY <1>0
  <2>3. QED
    BY <1>0, <1>3, <1>4, <2>1, <2>2
<1> HIDE DEF b2, c2, x2, l
<1>6. ASSUME NEW i \in 0 .. l, NEW j \in 0 .. l, i < j
      PROVE  b2[i] < b2[j] /\ c2[i] < c2[j]
  <2>1. i + 1 \in 0 .. k /\ j + 1 \in 0 .. k /\ i + 1 < j + 1
    BY <1>1, <1>6
  <2>2. b[i + 1] < b[j + 1] /\ c[i + 1] < c[j + 1]
    BY <2>1 DEF Frames
  <2>3. QED
    BY <1>3, <2>2
<1>7. ASSUME NEW i \in 0 .. l - 1
      PROVE  /\ b2[i + 1] = b2[i] + HeaderLen + c2[i + 1] - c2[i]
             /\ c2[i + 1] - c2[i] \in 1 .. MaxDownload
             /\ Run(s, "header", Data(c2[i + 1] - c2[i]), b2[i], b2[i] + HeaderLen)
             /\ Run(s, "data", Data(c2[i + 1] - c2[i]), b2[i] + HeaderLen, b2[i + 1])
  <2>1. i \in 0 .. l /\ i + 1 \in 0 .. l /\ i + 1 \in 0 .. k - 1
    BY <1>0
  <2>2. b2[i] = b[i + 1] /\ c2[i] = c[i + 1] /\ b2[i + 1] = b[i + 1 + 1] /\ c2[i + 1] = c[i + 1 + 1]
    BY <1>3, <2>1
  <2>3. /\ b[i + 1 + 1] = b[i + 1] + HeaderLen + c[i + 1 + 1] - c[i + 1]
        /\ c[i + 1 + 1] - c[i + 1] \in 1 .. MaxDownload
        /\ Run(s, "header", Data(c[i + 1 + 1] - c[i + 1]), b[i + 1], b[i + 1] + HeaderLen)
        /\ Run(s, "data", Data(c[i + 1 + 1] - c[i + 1]), b[i + 1] + HeaderLen, b[i + 1 + 1])
    BY <2>1, Zenon DEF Frames
  <2>4. QED
    BY <2>2, <2>3, Zenon
<1>8. Frames(s, x2, HeaderLen, x2, l, b2, c2)
  BY <1>4, <1>5, <1>6, <1>7 DEF Frames
<1>9. Framing(s, x2, HeaderLen, x2, k - 1, d)
  BY <1>2, <1>5, <1>8 DEF Framing, l
<1>10. QED
  BY <1>4, <1>9

\* One more message was sent.
LEMMA FramingAppend ==
    ASSUME NEW s \in Seq(Unit), NEW x, NEW hdr \in Nat, NEW dat \in Nat, NEW k \in Nat, NEW d,
           Framing(s, x, hdr, dat, k, d), NEW y \in 1 .. MaxDownload
    PROVE  Framing(s \o Framed("data", Data(y)), x, hdr, dat, k + 1, d + y)
<1>p. PICK b \in [0 .. k -> Nat], c \in [0 .. k -> Nat] :
        c[k] = d /\ Frames(s, x, hdr, dat, k, b, c)
  BY DEF Framing
<1> USE <1>p
<1> DEFINE s2 == s \o Framed("data", Data(y))
           l == k + 1
           b2 == [i \in 0 .. l |-> IF i = l THEN b[k] + HeaderLen + y ELSE b[i]]
           c2 == [i \in 0 .. l |-> IF i = l THEN c[k] + y ELSE c[i]]
<1>0. /\ y \in Nat /\ HeaderLen \in Nat /\ l \in Nat /\ l \in 0 .. l /\ l \notin 0 .. k
      /\ 0 \in 0 .. k /\ k \in 0 .. k
  BY Lengths
<1>1. \A i \in 0 .. l : i = l \/ i \in 0 .. k
  BY <1>0
<1>2. \A i \in 0 .. k : i \in 0 .. l /\ i # l /\ b[i] \in Nat /\ c[i] \in Nat
  BY <1>0
<1>3. b2 \in [0 .. l -> Nat] /\ c2 \in [0 .. l -> Nat]
  BY <1>0, <1>1, <1>2
<1>4. /\ b2[l] = b[k] + HeaderLen + y /\ c2[l] = c[k] + y
      /\ \A i \in 0 .. k : b2[i] = b[i] /\ c2[i] = c[i]
  BY <1>0, <1>2
<1>5. /\ b[0] = hdr + dat /\ c[0] = dat /\ b[k] = Len(s)
      /\ Run(s, "header", Data(x), 0, hdr) /\ Run(s, "data", Data(x), hdr, hdr + dat)
  BY DEF Frames
<1>d. Data(y) \in Messages /\ Data(y).len = y
  BY DEF Messages, Data
<1>6. /\ s2 \in Seq(Unit) /\ Len(s2) = Len(s) + HeaderLen + y
      /\ Run(s2, "header", Data(y), Len(s), Len(s) + HeaderLen)
      /\ Run(s2, "data", Data(y), Len(s) + HeaderLen, Len(s) + HeaderLen + y)
  BY <1>d, FramedRuns
<1>f. Framed("data", Data(y)) \in Seq(Unit)
  BY <1>d, FramedType
<1>g. ASSUME NEW t, NEW m, NEW from \in Nat, NEW to \in Nat, to <= Len(s), Run(s, t, m, from, to)
      PROVE  Run(s2, t, m, from, to)
  BY <1>f, <1>g, RunBefore
<1>7. ASSUME NEW i \in 0 .. k
      PROVE  b[i] \in Nat /\ b[i] >= hdr + dat /\ b[i] <= Len(s) /\ b[i] <= b[k] /\ c[i] <= c[k]
             /\ c[i] \in Nat
  <2>1. b[i] \in hdr + dat .. Len(s) /\ b[i] \in Nat /\ c[i] \in Nat /\ Len(s) \in Nat
    <3>1. b[i] \in hdr + dat .. Len(s)
      BY FramesBounds
    <3>2. b[i] \in Nat /\ c[i] \in Nat /\ Len(s) \in Nat
      OBVIOUS
    <3>3. QED
      BY <3>1, <3>2
  <2>2. c[i] <= c[k]
    <3>1. i = k \/ i < k
      OBVIOUS
    <3>2. i < k => c[i] < c[k]
      BY <1>0 DEF Frames
    <3>3. c[k] \in Nat
      BY <1>0
    <3>4. QED
      BY <2>1, <3>1, <3>2, <3>3
  <2>3. QED
    BY <1>5, <2>1, <2>2
<1> HIDE DEF s2, b2, c2, l
<1>8. /\ b2[0] = hdr + dat /\ c2[0] = dat /\ b2[l] = Len(s2)
      /\ Run(s2, "header", Data(x), 0, hdr) /\ Run(s2, "data", Data(x), hdr, hdr + dat)
  <2>1. hdr + dat \in Nat /\ hdr + dat <= Len(s) /\ hdr <= Len(s)
    <3>1. b[0] <= Len(s)
      BY <1>0, <1>7
    <3>2. Len(s) \in Nat
      OBVIOUS
    <3>3. QED
      BY <1>5, <3>1, <3>2
  <2>2. Run(s2, "header", Data(x), 0, hdr) /\ Run(s2, "data", Data(x), hdr, hdr + dat)
    BY <1>5, <1>g, <2>1
  <2>3. b2[0] = hdr + dat /\ c2[0] = dat /\ b2[l] = Len(s2)
    BY <1>0, <1>4, <1>5, <1>6
  <2>4. QED
    BY <2>2, <2>3
<1>9. ASSUME NEW i \in 0 .. l, NEW j \in 0 .. l, i < j
      PROVE  b2[i] < b2[j] /\ c2[i] < c2[j]
  <2>1. i \in 0 .. k
    <3>1. i # l
      BY <1>0, <1>9
    <3>2. QED
      BY <1>1, <3>1
  <2>2. CASE j \in 0 .. k
    BY <1>4, <1>9, <2>1, <2>2 DEF Frames
  <2>3. CASE j = l
    <3>1. /\ b[i] \in Nat /\ c[i] \in Nat /\ b[i] <= b[k] /\ c[i] <= c[k]
          /\ b[k] \in Nat /\ c[k] \in Nat
      BY <1>0, <1>7, <2>1
    <3>2. b2[i] = b[i] /\ c2[i] = c[i] /\ b2[j] = b[k] + HeaderLen + y /\ c2[j] = c[k] + y
      BY <1>4, <2>1, <2>3
    <3>3. PICK p \in Nat, q \in Nat, u \in Nat, v \in Nat :
            p = c[i] /\ q = c[k] /\ u = b[i] /\ v = b[k]
      BY <3>1
    <3>4. y > 0 /\ p <= q /\ u <= v
      BY <3>1, <3>3
    <3>5. u < v + HeaderLen + y /\ p < q + y
      BY <1>0, <3>4
    <3>6. QED
      BY <3>2, <3>3, <3>5
  <2>4. QED
    BY <1>1, <2>2, <2>3
<1>10. ASSUME NEW i \in 0 .. l - 1
      PROVE  /\ b2[i + 1] = b2[i] + HeaderLen + c2[i + 1] - c2[i]
             /\ c2[i + 1] - c2[i] \in 1 .. MaxDownload
             /\ Run(s2, "header", Data(c2[i + 1] - c2[i]), b2[i], b2[i] + HeaderLen)
             /\ Run(s2, "data", Data(c2[i + 1] - c2[i]), b2[i] + HeaderLen, b2[i + 1])
  <2>1. CASE i = k
    <3>1. b2[i] = b[k] /\ c2[i] = c[k] /\ i + 1 = l
      BY <1>0, <1>4, <2>1 DEF l
    <3>2. b2[i + 1] = b[k] + HeaderLen + y /\ c2[i + 1] = c[k] + y
      BY <1>4, <3>1
    <3>3. PICK q \in Nat, v \in Nat : q = c[k] /\ v = b[k]
      BY <1>0
    <3>4. c2[i + 1] - c2[i] = y /\ b2[i + 1] = b2[i] + HeaderLen + c2[i + 1] - c2[i]
      <4>1. c2[i] = q /\ c2[i + 1] = q + y /\ b2[i] = v /\ b2[i + 1] = v + HeaderLen + y
        BY <3>1, <3>2, <3>3
      <4>2. QED
        BY <1>0, <4>1
    <3>5. QED
      BY <1>5, <1>6, <3>1, <3>2, <3>4
  <2>2. CASE i # k
    <3>1. i \in 0 .. k /\ i + 1 \in 0 .. k /\ i \in 0 .. k - 1
      BY <2>2 DEF l
    <3>2. b2[i] = b[i] /\ c2[i] = c[i] /\ b2[i + 1] = b[i + 1] /\ c2[i + 1] = c[i + 1]
      BY <1>4, <3>1
    <3>3. /\ b[i + 1] = b[i] + HeaderLen + c[i + 1] - c[i]
          /\ c[i + 1] - c[i] \in 1 .. MaxDownload
          /\ Run(s, "header", Data(c[i + 1] - c[i]), b[i], b[i] + HeaderLen)
          /\ Run(s, "data", Data(c[i + 1] - c[i]), b[i] + HeaderLen, b[i + 1])
      BY <3>1, Zenon DEF Frames
    <3>4. /\ b[i] \in Nat /\ b[i + 1] \in Nat /\ b[i + 1] <= Len(s)
          /\ b[i] + HeaderLen \in Nat /\ b[i] + HeaderLen <= Len(s)
      <4>1. /\ b[i] \in Nat /\ b[i + 1] \in Nat /\ b[i + 1] <= Len(s)
            /\ c[i] \in Nat /\ c[i + 1] \in Nat
        BY <1>7, <3>1
      <4>2. PICK p \in Nat, q \in Nat, u \in Nat, v \in Nat :
              p = c[i] /\ q = c[i + 1] /\ u = b[i] /\ v = b[i + 1]
        BY <4>1
      <4>3. v = u + HeaderLen + q - p /\ q - p \in 1 .. MaxDownload /\ v <= Len(s)
        BY <3>3, <4>1, <4>2
      <4>4. u + HeaderLen \in Nat /\ u + HeaderLen <= v
        BY <1>0, <4>3, Lengths
      <4>5. Len(s) \in Nat
        OBVIOUS
      <4>6. u + HeaderLen <= Len(s)
        BY <1>0, <4>3, <4>4, <4>5
      <4>7. QED
        BY <4>1, <4>2, <4>4, <4>6
    <3>5. /\ Run(s2, "header", Data(c[i + 1] - c[i]), b[i], b[i] + HeaderLen)
          /\ Run(s2, "data", Data(c[i + 1] - c[i]), b[i] + HeaderLen, b[i + 1])
      BY <1>g, <3>3, <3>4, Zenon
    <3>6. QED
      BY <3>2, <3>3, <3>5, Zenon
  <2>3. QED
    BY <2>1, <2>2
<1>11. Frames(s2, x, hdr, dat, l, b2, c2)
  BY <1>8, <1>9, <1>10 DEF Frames
<1>12. QED
  BY <1>3, <1>4, <1>11 DEF Framing, s2, l

\* The first message of a download was sent.
LEMMA FramingFirst ==
    ASSUME NEW y \in 1 .. MaxDownload
    PROVE  Framing(Framed("data", Data(y)), y, HeaderLen, y, 0, y)
<1> DEFINE s == Framed("data", Data(y))
           b == [i \in 0 .. 0 |-> HeaderLen + y]
           c == [i \in 0 .. 0 |-> y]
<1>0. y \in Nat /\ HeaderLen \in Nat /\ 0 \in 0 .. 0
  BY Lengths
<1>1. b \in [0 .. 0 -> Nat] /\ c \in [0 .. 0 -> Nat] /\ b[0] = HeaderLen + y /\ c[0] = y
  BY <1>0
<1>2. Data(y) \in Messages /\ Data(y).len = y
  BY DEF Messages, Data
<1>3. /\ Len(<<>> \o s) = HeaderLen + y
      /\ Run(<<>> \o s, "header", Data(y), 0, HeaderLen)
      /\ Run(<<>> \o s, "data", Data(y), HeaderLen, HeaderLen + y)
  <2>1. <<>> \in Seq(Unit) /\ Len(<<>>) = 0
    OBVIOUS
  <2>2. /\ Len(<<>> \o s) = 0 + HeaderLen + y
        /\ Run(<<>> \o s, "header", Data(y), 0, 0 + HeaderLen)
        /\ Run(<<>> \o s, "data", Data(y), 0 + HeaderLen, 0 + HeaderLen + y)
    BY <1>2, <2>1, FramedRuns
  <2>3. 0 + HeaderLen = HeaderLen
    BY <1>0
  <2>4. QED
    BY <2>2, <2>3
<1>4. <<>> \o s = s
  <2>1. s \in Seq(Unit)
    BY <1>2, FramedType
  <2>2. QED
    BY <2>1
<1> HIDE DEF s, b, c
<1>5. Frames(s, y, HeaderLen, y, 0, b, c)
  <2>1. \A i, j \in 0 .. 0 : ~(i < j)
    OBVIOUS
  <2>2. 0 .. 0 - 1 = {}
    OBVIOUS
  <2>3. QED
    BY <1>1, <1>3, <1>4, <2>1, <2>2 DEF Frames
<1>6. QED
  BY <1>1, <1>5 DEF Framing, s

\* The first message is in the stream, and the others come after it.
LEMMA FramingFacts ==
    ASSUME NEW s \in Seq(Unit), NEW x, NEW hdr \in Nat, NEW dat \in Nat, NEW k \in Nat, NEW d,
           Framing(s, x, hdr, dat, k, d)
    PROVE  /\ Run(s, "header", Data(x), 0, hdr) /\ Run(s, "data", Data(x), hdr, hdr + dat)
           /\ hdr + dat <= Len(s) /\ d \in Nat /\ dat <= d
           /\ \/ k = 0 /\ d = dat /\ Len(s) = hdr + dat
              \/ k # 0 /\ dat < d
<1>1. PICK b \in [0 .. k -> Nat], c \in [0 .. k -> Nat] :
        c[k] = d /\ Frames(s, x, hdr, dat, k, b, c)
  BY DEF Framing
<1>2. k \in 0 .. k /\ 0 \in 0 .. k /\ c[k] \in Nat /\ Len(s) \in Nat
  OBVIOUS
<1>3. /\ Run(s, "header", Data(x), 0, hdr) /\ Run(s, "data", Data(x), hdr, hdr + dat)
      /\ b[0] = hdr + dat /\ c[0] = dat /\ b[k] = Len(s)
      /\ 0 < k => c[0] < c[k]
  BY <1>1, <1>2 DEF Frames
<1>4. b[k] \in hdr + dat .. Len(s) /\ c[k] >= dat
  BY <1>1, <1>2, FramesBounds
<1>5. hdr + dat <= Len(s)
  BY <1>2, <1>3, <1>4
<1>6. QED
  BY <1>1, <1>2, <1>3, <1>4, <1>5

\* A download of which part of a header was read, or all that was missing.
LEMMA DataHeaderRead ==
    ASSUME NEW s, NEW s2, NEW d, NEW col \in 0 .. HeaderLen - 1, NEW lf,
           NEW n \in 1 .. HeaderLen - col, Behind(s, s2, n), DataIn(s, d, "HEADER", col, lf)
    PROVE  \E x \in 1 .. MaxDownload :
              /\ s[n] = <<"header", Data(x)>>
              /\ DataIn(s2, d, "HEADER", col + n, lf)
              /\ n = HeaderLen - col => DataIn(s2, d, "DOWNLOAD", 0, x)
<1>1. PICK x \in 1 .. MaxDownload, k \in Nat : Framing(s, x, HeaderLen - col, x, k, d)
  BY DEF DataIn
<1>2. PICK H \in Nat, H2 \in Nat :
        H = HeaderLen - col /\ H2 = HeaderLen - (col + n) /\ H2 + n = H /\ n \in 1 .. H
  <2>1. HeaderLen - col \in Nat /\ HeaderLen - (col + n) \in Nat
    BY Lengths
  <2>2. HeaderLen - (col + n) + n = HeaderLen - col
    BY Lengths
  <2>3. QED
    BY <2>1, <2>2
<1>3. s \in Seq(Unit) /\ x \in Nat /\ Len(s) \in Nat
  BY Lengths DEF Behind
<1>4. Framing(s, x, H, x, k, d)
  BY <1>1, <1>2
<1>5. /\ Run(s, "header", Data(x), 0, H) /\ Run(s, "data", Data(x), H, H + x)
      /\ H + x <= Len(s) /\ d \in Nat
  BY <1>3, <1>4, FramingFacts
<1>6. s[n] = <<"header", Data(x)>>
  BY <1>2, <1>5 DEF Run
<1>7. Run(s2, "header", Data(x), 0, H2)
  <2>1. H <= Len(s) /\ n \in Nat /\ n <= H /\ H - n = H2
    BY <1>2, <1>3, <1>5
  <2>2. Run(s2, "header", Data(x), 0, H - n)
    BY <1>5, <2>1, RunRead
  <2>3. QED
    BY <2>1, <2>2
<1>8. Run(s2, "data", Data(x), H2, H2 + x)
  <2>1. PICK to \in Nat : to = H + x
    BY <1>3
  <2>2. n \in Nat /\ n <= H /\ H - n = H2 /\ to - n = H2 + x /\ to <= Len(s)
    BY <1>2, <1>3, <1>5, <2>1
  <2>3. Run(s2, "data", Data(x), H - n, to - n)
    BY <1>5, <2>1, <2>2, RunBehind
  <2>4. QED
    BY <2>2, <2>3
<1>9. ReadOf(s, s2, n, x, H, x, 0, H2, x)
  <2>1. n \in Nat /\ 0 \in Nat /\ x + 0 = x /\ H2 + x + n = H + x
    BY <1>2, <1>3
  <2>2. QED
    BY <1>3, <1>7, <1>8, <2>1 DEF ReadOf
<1>10. Framing(s2, x, H2, x, k, d)
  <2>1. Framing(s2, x, H2, x, k, d - 0)
    BY <1>4, <1>9, FramingRead
  <2>2. QED
    BY <1>5, <2>1
<1>11. DataIn(s2, d, "HEADER", col + n, lf)
  BY <1>2, <1>10 DEF DataIn
<1>12. ASSUME n = HeaderLen - col PROVE DataIn(s2, d, "DOWNLOAD", 0, x)
  <2>1. H2 = 0 /\ x \in 1 .. x
    BY <1>2, <1>3, <1>12
  <2>2. QED
    BY <1>10, <2>1 DEF DataIn
<1>13. QED
  BY <1>6, <1>11, <1>12

\* A download of which data was read: the end of a message is the end of the stream,
\* or the next message follows.
LEMMA DataRead ==
    ASSUME NEW s, NEW s2, NEW d, NEW col, NEW lf \in Nat, NEW n \in 1 .. lf,
           Behind(s, s2, n), DataIn(s, d, "DOWNLOAD", col, lf)
    PROVE  /\ d \in Nat /\ n <= d
           /\ n < lf => n < d /\ DataIn(s2, d - n, "DOWNLOAD", col, lf - n)
           /\ n = lf => \/ s2 = <<>> /\ n = d
                        \/ n < d /\ DataIn(s2, d - n, "HEADER", 0, 0)
<1>1. PICK x \in 1 .. MaxDownload, k \in Nat : lf \in 1 .. x /\ Framing(s, x, 0, lf, k, d)
  BY DEF DataIn
<1>2. /\ s \in Seq(Unit) /\ s2 \in Seq(Unit) /\ Len(s) \in Nat /\ Len(s2) = Len(s) - n
      /\ n \in Nat /\ n <= lf /\ n <= Len(s)
  BY DEF Behind
<1>3. /\ Run(s, "data", Data(x), 0, 0 + lf) /\ 0 + lf <= Len(s) /\ d \in Nat /\ lf <= d
      /\ k = 0 => d = lf /\ Len(s) = 0 + lf
      /\ k # 0 => lf < d
  <2>1. s \in Seq(Unit)
    BY <1>2
  <2>2. Run(s, "data", Data(x), 0, 0 + lf) /\ 0 + lf <= Len(s) /\ d \in Nat /\ lf <= d
    BY <1>1, <2>1, FramingFacts
  <2>3. \/ k = 0 /\ d = lf /\ Len(s) = 0 + lf
        \/ k # 0 /\ lf < d
    BY <1>1, <2>1, FramingFacts
  <2>4. QED
    BY <2>2, <2>3
<1>4. PICK l \in Nat : l = lf - n
  BY <1>2
<1>5. Run(s2, "data", Data(x), 0, 0 + l) /\ Run(s2, "header", Data(x), 0, 0)
  <2>1. Run(s, "data", Data(x), 0, lf) /\ lf <= Len(s)
    BY <1>3
  <2>2. Run(s2, "data", Data(x), 0, lf - n)
    BY <1>2, <2>1, RunRead
  <2>3. QED
    BY <1>4, <2>2 DEF Run
<1>6. ReadOf(s, s2, n, x, 0, lf, n, 0, l)
  <2>1. l + n = lf /\ 0 + l + n = 0 + lf /\ 0 \in Nat
    BY <1>2, <1>4
  <2>2. QED
    BY <1>2, <1>5, <2>1 DEF ReadOf
<1>7. Framing(s2, x, 0, l, k, d - n)
  BY <1>1, <1>6, FramingRead
<1>8. ASSUME n < lf PROVE n < d /\ DataIn(s2, d - n, "DOWNLOAD", col, lf - n)
  <2>1. n < d /\ lf - n \in 1 .. x /\ l = lf - n
    BY <1>1, <1>2, <1>3, <1>4, <1>8
  <2>2. QED
    BY <1>7, <2>1 DEF DataIn
<1>9. ASSUME n = lf
      PROVE  \/ s2 = <<>> /\ n = d
             \/ n < d /\ DataIn(s2, d - n, "HEADER", 0, 0)
  <2>1. CASE k = 0
    <3>1. Len(s2) = 0 /\ n = d
      BY <1>2, <1>3, <1>9, <2>1
    <3>2. QED
      BY <1>2, <3>1
  <2>2. CASE k # 0
    <3>1. n < d /\ l = 0 /\ k \in Nat \ {0} /\ k - 1 \in Nat
      BY <1>2, <1>3, <1>4, <1>9, <2>2
    <3>2. PICK x2 \in 1 .. MaxDownload : Framing(s2, x2, HeaderLen, x2, k - 1, d - n)
      BY <1>2, <1>7, <3>1, FramingNext
    <3>3. HeaderLen - 0 = HeaderLen
      BY Lengths
    <3>4. DataIn(s2, d - n, "HEADER", 0, 0)
      BY <3>1, <3>2, <3>3 DEF DataIn
    <3>5. QED
      BY <3>1, <3>4
  <2>3. QED
    BY <2>1, <2>2
<1>10. n <= d
  BY <1>2, <1>3
<1>11. QED
  BY <1>3, <1>8, <1>9, <1>10

\* One more message of a download was sent.
LEMMA DataAppend ==
    ASSUME NEW s \in Seq(Unit), NEW d, NEW ts, NEW col \in 0 .. HeaderLen, NEW lf \in Nat,
           DataIn(s, d, ts, col, lf), NEW y \in 1 .. MaxDownload
    PROVE  DataIn(s \o Framed("data", Data(y)), d + y, ts, col, lf)
<1>1. CASE ts = "HEADER"
  <2>1. PICK x \in 1 .. MaxDownload, k \in Nat : Framing(s, x, HeaderLen - col, x, k, d)
    BY <1>1 DEF DataIn
  <2>2. x \in Nat /\ k + 1 \in Nat /\ HeaderLen - col \in Nat
    BY Lengths
  <2>3. Framing(s \o Framed("data", Data(y)), x, HeaderLen - col, x, k + 1, d + y)
    BY <2>1, <2>2, FramingAppend
  <2>4. QED
    BY <1>1, <2>2, <2>3 DEF DataIn
<1>2. CASE ts = "DOWNLOAD"
  <2>1. PICK x \in 1 .. MaxDownload, k \in Nat : lf \in 1 .. x /\ Framing(s, x, 0, lf, k, d)
    BY <1>2 DEF DataIn
  <2>2. k + 1 \in Nat /\ 0 \in Nat
    OBVIOUS
  <2>3. Framing(s \o Framed("data", Data(y)), x, 0, lf, k + 1, d + y)
    BY <2>1, <2>2, FramingAppend
  <2>4. QED
    BY <1>2, <2>1, <2>2, <2>3 DEF DataIn
<1>3. QED
  BY <1>1, <1>2 DEF DataIn

\* The first message of a download was sent.
LEMMA DataFirst ==
    ASSUME NEW lf, NEW y \in 1 .. MaxDownload
    PROVE  DataIn(Framed("data", Data(y)), y, "HEADER", 0, lf)
<1>1. HeaderLen - 0 = HeaderLen /\ 0 \in Nat
  BY Lengths
<1>2. QED
  BY <1>1, FramingFirst DEF DataIn

\* What the parser is to find next of a download.
LEMMA DataShape ==
    ASSUME NEW s \in Seq(Unit), NEW d, NEW ts, NEW col \in 0 .. HeaderLen, NEW lf \in Nat,
           DataIn(s, d, ts, col, lf)
    PROVE  /\ s # <<>> /\ d \in Nat
           /\ ts = "HEADER" => /\ HeaderLen - col < Len(s)
                               /\ \A i \in 1 .. HeaderLen - col : s[i][1] = "header"
                               /\ s[HeaderLen - col + 1][1] = "data"
           /\ ts = "DOWNLOAD" => lf <= Len(s) /\ \A i \in 1 .. lf : s[i][1] = "data"
<1>0. Len(s) \in Nat
  OBVIOUS
<1>1. PICK H \in Nat : H = HeaderLen - col
  BY Lengths
<1>2. ASSUME ts = "HEADER"
      PROVE  /\ H < Len(s) /\ d \in Nat
             /\ \A i \in 1 .. H : s[i][1] = "header"
             /\ s[H + 1][1] = "data"
  <2>1. PICK x \in 1 .. MaxDownload, k \in Nat : Framing(s, x, H, x, k, d)
    BY <1>1, <1>2 DEF DataIn
  <2>2. x \in Nat /\ x > 0
    BY Lengths
  <2>3. /\ Run(s, "header", Data(x), 0, H) /\ Run(s, "data", Data(x), H, H + x)
        /\ H + x <= Len(s) /\ d \in Nat
    BY <2>1, <2>2, FramingFacts
  <2>4. H < Len(s) /\ H + 1 \in H + 1 .. H + x
    BY <1>0, <2>2, <2>3
  <2>5. s[H + 1] = <<"data", Data(x)>>
    BY <2>3, <2>4 DEF Run
  <2>6. \A i \in 1 .. H : s[i] = <<"header", Data(x)>>
    BY <2>3 DEF Run
  <2>7. QED
    BY <2>3, <2>4, <2>5, <2>6
<1>3. ASSUME ts = "DOWNLOAD"
      PROVE  /\ lf > 0 /\ lf <= Len(s) /\ d \in Nat
             /\ \A i \in 1 .. lf : s[i][1] = "data"
  <2>1. PICK x \in 1 .. MaxDownload, k \in Nat : lf \in 1 .. x /\ Framing(s, x, 0, lf, k, d)
    BY <1>3 DEF DataIn
  <2>2. Run(s, "data", Data(x), 0, 0 + lf) /\ 0 + lf <= Len(s) /\ d \in Nat
    BY <2>1, FramingFacts
  <2>3. lf > 0 /\ lf <= Len(s)
    BY <2>1, <2>2
  <2>4. \A i \in 1 .. lf : s[i] = <<"data", Data(x)>>
    BY <2>2 DEF Run
  <2>5. QED
    BY <2>2, <2>3, <2>4
<1>4. ts \in {"HEADER", "DOWNLOAD"}
  BY DEF DataIn
<1>5. s # <<>> /\ d \in Nat
  BY <1>0, <1>2, <1>3, <1>4
<1>6. QED
  BY <1>1, <1>2, <1>3, <1>5
-----------------------------------------------------------------------------
(* The session, as the transport sees it.                                   *)

USE SessionAssumption, SizeAssumption, TcpAssumption, PacketAssumption

\* The replies of a handler are packets, and as many.
LEMMA RepliesType ==
    ASSUME TypeOK, NEW r \in Responses
    PROVE  Replies(r) \in Seq(Packets) /\ Len(Replies(r)) = Len(r)
<1>1. r \in Seq({"INFO", "DATA", "PAYLOAD", "OKAY", "FAIL"})
  <2> DEFINE T == {"INFO", "DATA", "PAYLOAD", "OKAY", "FAIL"}
  <2>1. <<>> \in Seq(T) /\ <<"FAIL">> \in Seq(T) /\ <<"OKAY">> \in Seq(T) /\ <<"DATA">> \in Seq(T)
    OBVIOUS
  <2>2. <<"INFO", "FAIL">> \in Seq(T) /\ <<"INFO", "OKAY">> \in Seq(T)
    OBVIOUS
  <2>3. <<"DATA", "PAYLOAD", "OKAY">> \in Seq(T)
    OBVIOUS
  <2>4. QED
    BY <2>1, <2>2, <2>3, Zenon DEF Responses, Fails
<1>2. \A i \in DOMAIN r :
        Packet(r[i], IF r[i] = "PAYLOAD" THEN memory_buffer_len ELSE 0) \in Packets
  BY <1>1 DEF Packet, Packets, TypeOK
<1>3. QED
  BY <1>1, <1>2 DEF Replies

\* A download keeps its progress within the announced size, for any chunk.
LEMMA DownloadStep ==
    ASSUME SessionInv, NEW len \in Nat, NEW r, fastboot_handle_download(len, r)
    PROVE  SessionInv'
<1> USE DEF SessionInv, TypeOK, DownloadInv
<1>1. CASE TooMuch(len)
  BY <1>1 DEF fastboot_handle_download, staging
<1>2. CASE ~TooMuch(len)
  <2>1. /\ content' = [from |-> "download", len |-> download_progress + len]
        /\ memory_buffer_len' = memory_buffer_len
        /\ state' \in {"COMMAND", "DOWNLOAD"} /\ has_staged_data' \in BOOLEAN
        /\ download_progress' \in {0, download_progress + len}
    BY <1>2 DEF fastboot_handle_download
  <2>2. download_progress + len \in 0 .. MaxDownload /\ download_progress + len <= memory_buffer_len
    BY <1>2 DEF TooMuch, Left, fastboot_handle_download
  <2>3. content' \in [from : Sources, len : 0 .. MaxDownload]
    BY <2>1, <2>2 DEF Sources
  <2>4. download_progress' \in 0 .. MaxDownload /\ download_progress' <= memory_buffer_len
    BY <2>1, <2>2
  <2>5. QED
    BY <2>1, <2>3, <2>4
<1>3. QED
  BY <1>1, <1>2

\* Every command keeps the session's fields in range, and none disconnects it.
LEMMA CommandStep ==
    ASSUME SessionInv, NEW cmd, NEW size \in Nat, NEW r,
           fastboot_handle_command(cmd, size, r)
    PROVE  SessionInv' /\ state' # "DISCONNECTED"
<1> USE DEF SessionInv, DownloadInv
<1>s. state = "COMMAND" /\ 0 \in 0 .. MaxDownload
  BY DEF fastboot_handle_command
<1>u. CASE UNCHANGED session
  BY <1>s, <1>u DEF session, TypeOK
<1>1. CASE fastboot_cmd_continue(r) \/ fastboot_cmd_reboot(r)
  BY <1>1 DEF fastboot_cmd_continue, fastboot_cmd_reboot, staging, TypeOK
<1>2. CASE fastboot_cmd_upload(r) \/ fastboot_cmd_oem_write_ufs_descriptor(r)
  BY <1>s, <1>u, <1>2 DEF fastboot_cmd_upload, fastboot_cmd_oem_write_ufs_descriptor,
                          fastboot_reset_staging, TypeOK
<1>3. CASE fastboot_cmd_download(size, r)
  <2>1. CASE Fits(size) /\ fastboot_prepare_download(size)
    <3>1. size \in 0 .. MaxDownload
      BY <2>1 DEF Fits
    <3>2. TypeOK' /\ state' = "DOWNLOAD"
      BY <1>s, <2>1, <3>1, Zenon DEF fastboot_prepare_download, TypeOK
    <3>3. download_progress' <= memory_buffer_len'
      BY <2>1, <3>1 DEF fastboot_prepare_download
    <3>4. QED
      BY <3>2, <3>3
  <2>2. QED
    BY <1>u, <1>3, <2>1 DEF fastboot_cmd_download
<1>4. CASE fastboot_cmd_flash(r) \/ OtherCommand(r)
  BY <1>u, <1>4 DEF fastboot_cmd_flash, OtherCommand
<1>5. CASE fastboot_cmd_oem_sha256(r)
  <2>1. CASE /\ fastboot_reset_staging
             /\ content' = [from |-> "hashed", len |-> 0]
             /\ UNCHANGED <<state, download_progress>>
    <3>1. content' \in [from : Sources, len : 0 .. MaxDownload]
      BY <2>1 DEF Sources
    <3>2. TypeOK'
      BY <1>s, <2>1, <3>1, Zenon DEF fastboot_reset_staging, TypeOK
    <3>3. QED
      BY <1>s, <2>1, <3>2
  <2>2. QED
    BY <1>u, <1>5, <2>1 DEF fastboot_cmd_oem_sha256
<1>6. CASE fastboot_cmd_oem_read_ufs_descriptor(r)
  <2>1. CASE /\ content' = [from |-> "cleared", len |-> 0]
             /\ UNCHANGED <<state, staging, download_progress>>
    BY <1>s, <2>1 DEF staging, TypeOK, Sources
  <2>2. CASE /\ has_staged_data' = TRUE
             /\ memory_buffer_len' \in 0 .. UFS_DESCRIPTOR_MAX_SIZE
             /\ content' = [from |-> "descriptor", len |-> memory_buffer_len']
             /\ UNCHANGED <<state, download_progress>>
    <3>1. memory_buffer_len' \in 0 .. MaxDownload
      BY <2>2 DEF UFS_DESCRIPTOR_MAX_SIZE
    <3>2. QED
      BY <1>s, <2>2, <3>1 DEF TypeOK, Sources
  <2>3. QED
    BY <1>u, <1>6, <2>1, <2>2 DEF fastboot_cmd_oem_read_ufs_descriptor
<1>7. CASE fastboot_cmd_reboot_to_target(r)
  <2>1. CASE state' = "REBOOT" /\ UNCHANGED <<staging, download_progress, content>>
    BY <2>1 DEF staging, TypeOK
  <2>2. QED
    BY <1>u, <1>7, <2>1 DEF fastboot_cmd_reboot_to_target
<1>8. QED
  BY <1>1, <1>2, <1>3, <1>4, <1>5, <1>6, <1>7 DEF fastboot_handle_command

\* How a command may be answered: with an answer that ends it, or, for a transfer,
\* with DATA first.
LEMMA CommandReplies ==
    ASSUME NEW cmd, NEW size, NEW r, fastboot_handle_command(cmd, size, r)
    PROVE  \/ r \in Answers /\ state' # "DOWNLOAD"
           \/ /\ cmd = "upload" /\ r = <<"DATA", "PAYLOAD", "OKAY">> /\ state' # "DOWNLOAD"
           \/ /\ cmd = "download" /\ r = <<"DATA">> /\ state' = "DOWNLOAD"
              /\ memory_buffer_len' = size /\ download_progress' = 0
<1> USE DEF Answers, Fails
<1>0. state = "COMMAND"
  BY DEF fastboot_handle_command
<1>1. ASSUME NEW q \in {<<"FAIL">>, <<"INFO", "FAIL">>, <<"OKAY">>, <<"INFO", "OKAY">>}
      PROVE  q \in Answers
  BY <1>1, Zenon
<1>2. CASE \/ fastboot_cmd_continue(r) \/ fastboot_cmd_reboot(r) \/ fastboot_cmd_reboot_to_target(r)
  BY <1>0, <1>1, <1>2 DEF fastboot_cmd_continue, fastboot_cmd_reboot,
                          fastboot_cmd_reboot_to_target,
                          session
<1>3. CASE cmd = "upload" /\ fastboot_cmd_upload(r)
  BY <1>0, <1>1, <1>3 DEF fastboot_cmd_upload, session
<1>4. CASE cmd = "download" /\ fastboot_cmd_download(size, r)
  BY <1>0, <1>1, <1>4 DEF fastboot_cmd_download, fastboot_prepare_download, session
<1>5. CASE fastboot_cmd_flash(r) \/ OtherCommand(r)
  BY <1>0, <1>1, <1>5 DEF fastboot_cmd_flash, OtherCommand, session
<1>6. CASE \/ fastboot_cmd_oem_sha256(r) \/ fastboot_cmd_oem_read_ufs_descriptor(r)
           \/ fastboot_cmd_oem_write_ufs_descriptor(r)
  BY <1>0, <1>1, <1>6 DEF fastboot_cmd_oem_sha256, fastboot_cmd_oem_read_ufs_descriptor,
                          fastboot_cmd_oem_write_ufs_descriptor, session
<1>7. QED
  BY <1>2, <1>3, <1>4, <1>5, <1>6 DEF fastboot_handle_command

\* A packet adds replies to the queue and keeps the session in range; the command that
\* finishes the session has a reply.
LEMMA PacketStep ==
    ASSUME SessionInv, txq \in Seq(Packets), NEW m \in Messages, NEW n \in Nat,
           fastboot_handle_packet(m, n), state # "DISCONNECTED",
           state \in {"FINISHED", "REBOOT"} => txq # <<>>
    PROVE  /\ SessionInv' /\ txq' \in Seq(Packets) /\ state' # "DISCONNECTED"
           /\ state' \in {"FINISHED", "REBOOT"} => txq' # <<>>
<1>1. PICK r \in Responses :
        /\ \/ fastboot_handle_command(m.cmd, m.size, r)
           \/ fastboot_handle_download(n, r)
           \/ IgnorePacket(r)
        /\ txq' = txq \o Replies(r)
  BY DEF fastboot_handle_packet
<1>r. Replies(r) \in Seq(Packets) /\ Len(Replies(r)) = Len(r)
  BY RepliesType DEF SessionInv
<1>2. txq' \in Seq(Packets) /\ Len(txq') = Len(txq) + Len(r)
  <2>1. txq' = txq \o Replies(r)
    BY <1>1
  <2>2. \A q \in Seq(Packets) : txq \o q \in Seq(Packets) /\ Len(txq \o q) = Len(txq) + Len(q)
    OBVIOUS
  <2>3. QED
    BY <1>r, <2>1, <2>2
<1>3. CASE fastboot_handle_command(m.cmd, m.size, r)
  <2>1. SessionInv' /\ state' # "DISCONNECTED"
    BY <1>3, CommandStep, MessageType
  <2>2. \A q \in Answers : Len(q) > 0
    <3>1. /\ Len(<<"FAIL">>) > 0 /\ Len(<<"INFO", "FAIL">>) > 0
          /\ Len(<<"OKAY">>) > 0 /\ Len(<<"INFO", "OKAY">>) > 0
      OBVIOUS
    <3>2. QED
      BY <3>1, Zenon DEF Answers, Fails
  <2>3. Len(r) > 0
    <3>1. Len(<<"DATA">>) > 0 /\ Len(<<"DATA", "PAYLOAD", "OKAY">>) > 0
      OBVIOUS
    <3>2. QED
      BY <1>3, <2>2, <3>1, CommandReplies
  <2>4. txq' # <<>>
    BY <1>2, <2>3
  <2>5. QED
    BY <1>2, <2>1, <2>4
<1>4. CASE fastboot_handle_download(n, r)
  BY <1>2, <1>4, DownloadStep DEF fastboot_handle_download
<1>5. CASE IgnorePacket(r)
  <2>1. SessionInv' /\ state' = state
    BY <1>5 DEF IgnorePacket, session, SessionInv, TypeOK, DownloadInv
  <2>2. state' \in {"FINISHED", "REBOOT"} => txq' # <<>>
    BY <1>2, <2>1
  <2>3. QED
    BY <1>2, <2>1, <2>2
<1>6. QED
  BY <1>1, <1>3, <1>4, <1>5

\* So do a reset of the session, the loss of the link, and the next fastboot_init.
LEMMA ResetStep ==
    ASSUME SessionInv, fastboot_reset_session \/ Disconnect \/ fastboot_init \/ UNCHANGED session
    PROVE  SessionInv'
<1>1. 0 \in 0 .. MaxDownload
  OBVIOUS
<1>2. CASE fastboot_reset_session
  BY <1>1, <1>2 DEF fastboot_reset_session, staging, SessionInv, TypeOK, DownloadInv
<1>3. CASE Disconnect
  BY <1>3 DEF Disconnect, staging, SessionInv, TypeOK, DownloadInv
<1>4. CASE fastboot_init
  BY <1>1, <1>4 DEF fastboot_init, fastboot_reset_staging, SessionInv, TypeOK, DownloadInv
<1>5. CASE UNCHANGED session
  BY <1>5 DEF session, SessionInv, TypeOK, DownloadInv
<1>6. QED
  BY <1>2, <1>3, <1>4, <1>5

-----------------------------------------------------------------------------
(* What a host has still to receive.                                        *)

Types == {"HS", "INFO", "DATA", "PAYLOAD", "OKAY", "FAIL"}

\* The kinds of the packets in a queue.
LEMMA KindsType ==
    ASSUME NEW q \in Seq(Packets)
    PROVE  /\ Kinds(q) \in Seq(Types) /\ Len(Kinds(q)) = Len(q)
           /\ \A i \in 1 .. Len(q) : Kinds(q)[i] = q[i].t
           /\ Kinds(q) = <<>> => q = <<>>
<1>1. \A i \in 1 .. Len(q) : q[i].t \in Types
  <2>1. \A p \in Packets : p.t \in Types
    BY DEF Packets, Types
  <2>2. QED
    BY <2>1
<1>2. Kinds(q) \in Seq(Types) /\ Len(Kinds(q)) = Len(q)
  BY <1>1 DEF Kinds
<1>3. \A i \in 1 .. Len(q) : Kinds(q)[i] = q[i].t
  BY DEF Kinds
<1>4. ASSUME Kinds(q) = <<>> PROVE q = <<>>
  BY <1>2, <1>4
<1>5. QED
  BY <1>2, <1>3, <1>4

\* Nothing is pending when nothing is queued and the last packet was received.
LEMMA NonePending ==
    ASSUME NEW o, NEW g \in BOOLEAN, NEW q \in Seq(Packets), PendingOf(o, g, q) = <<>>
    PROVE  q = <<>> /\ (o = None \/ g)
<1>1. CASE o # None /\ ~g
  <2>1. <<o.t>> \o Kinds(q) = <<>>
    BY <1>1 DEF PendingOf
  <2>2. Len(<<o.t>> \o Kinds(q)) = 1 + Len(Kinds(q)) /\ Len(Kinds(q)) \in Nat
    <3>1. Kinds(q) \in Seq({Kinds(q)[i] : i \in 1 .. Len(q)} \cup {o.t})
      BY DEF Kinds
    <3>2. <<o.t>> \in Seq({Kinds(q)[i] : i \in 1 .. Len(q)} \cup {o.t})
      OBVIOUS
    <3>3. QED
      BY <3>1, <3>2
  <2>3. QED
    BY <2>1, <2>2
<1>2. CASE ~(o # None /\ ~g)
  BY <1>2, KindsType DEF PendingOf
<1>3. QED
  BY <1>1, <1>2

\* The replies to a packet are queued while nothing is pending.
LEMMA RepliesPending ==
    ASSUME TypeOK, NEW o, NEW g \in BOOLEAN, o = None \/ g, NEW r \in Responses
    PROVE  PendingOf(o, g, <<>> \o Replies(r)) = r
<1>1. r \in Seq(Types)
  <2>1. <<>> \in Seq(Types) /\ <<"FAIL">> \in Seq(Types) /\ <<"OKAY">> \in Seq(Types)
    BY DEF Types
  <2>2. <<"DATA">> \in Seq(Types) /\ <<"INFO", "FAIL">> \in Seq(Types)
    BY DEF Types
  <2>3. <<"INFO", "OKAY">> \in Seq(Types) /\ <<"DATA", "PAYLOAD", "OKAY">> \in Seq(Types)
    BY DEF Types
  <2>4. QED
    BY <2>1, <2>2, <2>3, Zenon DEF Responses, Fails
<1>2. Replies(r) \in Seq(Packets) /\ Len(Replies(r)) = Len(r)
  BY RepliesType
<1>3. \A i \in 1 .. Len(r) : Replies(r)[i].t = r[i]
  BY <1>1 DEF Replies, Packet
<1>4. Kinds(Replies(r)) \in Seq(Types) /\ Len(Kinds(Replies(r))) = Len(r)
  BY <1>2, KindsType
<1>5. \A i \in 1 .. Len(r) : Kinds(Replies(r))[i] = r[i]
  BY <1>2, <1>3, KindsType
<1>6. Kinds(Replies(r)) = r
  BY <1>1, <1>4, <1>5, SameSeq
<1>7. <<>> \o Replies(r) = Replies(r)
  BY <1>2
<1>8. QED
  BY <1>6, <1>7 DEF PendingOf

\* A packet that is given to uIP stays pending.
LEMMA SentPending ==
    ASSUME NEW g \in BOOLEAN, NEW q \in Seq(Packets), q # <<>>
    PROVE  PendingOf(Head(q), FALSE, Tail(q)) = PendingOf(None, g, q)
<1>1. /\ Head(q) \in Packets /\ Tail(q) \in Seq(Packets) /\ Len(Tail(q)) = Len(q) - 1
      /\ Len(q) \in Nat \ {0} /\ Head(q) = q[1]
      /\ \A i \in 1 .. Len(q) - 1 : Tail(q)[i] = q[i + 1]
  OBVIOUS
<1>2. Head(q) # None /\ Head(q).t \in Types
  BY <1>1 DEF Packets, Types
<1>3. /\ Kinds(Tail(q)) \in Seq(Types) /\ Len(Kinds(Tail(q))) = Len(q) - 1
      /\ \A i \in 1 .. Len(q) - 1 : Kinds(Tail(q))[i] = q[i + 1].t
  <2>1. /\ Kinds(Tail(q)) \in Seq(Types) /\ Len(Kinds(Tail(q))) = Len(Tail(q))
        /\ \A i \in 1 .. Len(Tail(q)) : Kinds(Tail(q))[i] = Tail(q)[i].t
    BY <1>1, KindsType
  <2>2. \A i \in 1 .. Len(q) - 1 : Kinds(Tail(q))[i] = Tail(q)[i].t
    BY <1>1, <2>1
  <2>3. QED
    BY <1>1, <2>1, <2>2
<1>4. /\ Kinds(q) \in Seq(Types) /\ Len(Kinds(q)) = Len(q)
      /\ \A i \in 1 .. Len(q) : Kinds(q)[i] = q[i].t
  BY KindsType
<1> DEFINE p == <<Head(q).t>> \o Kinds(Tail(q))
<1>5. p \in Seq(Types) /\ Len(p) = Len(q)
  <2>1. <<Head(q).t>> \in Seq(Types) /\ Len(<<Head(q).t>>) = 1
    BY <1>2
  <2>2. p \in Seq(Types) /\ Len(p) = 1 + Len(Kinds(Tail(q)))
    BY <1>3, <2>1
  <2>3. Len(Kinds(Tail(q))) = Len(q) - 1 /\ 1 + (Len(q) - 1) = Len(q)
    <3>1. Len(q) \in Nat
      BY <1>1
    <3>2. 1 + (Len(q) - 1) = Len(q)
      BY <3>1
    <3>3. QED
      BY <1>3, <3>2
  <2>4. QED
    BY <2>2, <2>3, Zenon
<1>6. \A i \in 1 .. Len(q) : p[i] = Kinds(q)[i]
  <2>1. p[1] = Head(q).t
    BY <1>2, <1>3
  <2>2. \A i \in 1 .. Len(q) - 1 : p[1 + i] = Kinds(Tail(q))[i]
    BY <1>2, <1>3
  <2>3. ASSUME NEW i \in 1 .. Len(q), i # 1 PROVE p[i] = Kinds(q)[i]
    <3>1. PICK j \in 1 .. Len(q) - 1 : i = 1 + j /\ i = j + 1
      BY <1>1, <2>3
    <3>2. QED
      BY <1>3, <1>4, <2>2, <3>1
  <2>4. QED
    BY <1>1, <1>4, <2>1, <2>3
<1>7. p = Kinds(q)
  BY <1>4, <1>5, <1>6, SameSeq
<1>8. QED
  BY <1>2, <1>7 DEF PendingOf

\* A packet that was received is no longer pending, acknowledged or not.
LEMMA ReceivedPending ==
    ASSUME NEW o \in Packets, NEW g, NEW q \in Seq(Packets)
    PROVE  /\ PendingOf(o, TRUE, q) = PendingOf(None, g, q)
           /\ PendingOf(o, FALSE, q) # <<>>
           /\ Head(PendingOf(o, FALSE, q)) = o.t
           /\ Tail(PendingOf(o, FALSE, q)) = PendingOf(o, TRUE, q)
<1>1. o # None /\ o.t \in Types
  BY DEF Packets, Types
<1>2. Kinds(q) \in Seq(Types) /\ <<o.t>> \in Seq(Types)
  BY <1>1, KindsType
<1>3. <<o.t>> \o Kinds(q) # <<>> /\ Head(<<o.t>> \o Kinds(q)) = o.t
  BY <1>2
<1>4. Tail(<<o.t>> \o Kinds(q)) = Kinds(q)
  BY <1>2
<1>5. QED
  BY <1>1, <1>3, <1>4 DEF PendingOf

\* The answer to a handshake.
LEMMA HandshakePending ==
    ASSUME NEW g
    PROVE  PendingOf(None, g, Append(<<>>, Packet("HS", 0))) = <<"HS">>
<1>1. Append(<<>>, Packet("HS", 0)) = <<Packet("HS", 0)>>
  OBVIOUS
<1>2. Kinds(<<Packet("HS", 0)>>) = <<"HS">>
  BY DEF Kinds, Packet
<1>3. QED
  BY <1>1, <1>2 DEF PendingOf

\* A host that gets the first of the replies it is prepared for is prepared for the others.
\* Only DATA, without more to come, makes it send.
LEMMA AwaitsNext ==
    ASSUME NEW h, NEW p, Awaits(host[h], todo[h], p), p # <<>>, NEW w,
           w = Reaction(h)[host[h]][Head(p)]
    PROVE  /\ host[h] \in DOMAIN Reaction(h)
           /\ Head(p) \in DOMAIN Reaction(h)[host[h]]
           /\ Awaits(w, todo[h], Tail(p))
           /\ \/ p = <<"DATA">> /\ Tail(p) = <<>> /\ w = "sending" /\ todo[h] > 0
              \/ /\ p # <<"DATA">> /\ Tail(p) # <<"DATA">> /\ w # "sending"
                 /\ w \in {"sent", "waiting"} => Tail(p) # <<>>
<1> DEFINE d == todo[h]
<1>t. \A a, b, c : /\ Head(<<a>>) = a /\ Tail(<<a>>) = <<>>
                   /\ Head(<<a, b>>) = a /\ Tail(<<a, b>>) = <<b>>
                   /\ Head(<<a, b, c>>) = a /\ Tail(<<a, b, c>>) = <<b, c>>
  OBVIOUS
<1>e. \A a, b, c : <<a>> # <<>> /\ <<a, b>> # <<>> /\ <<a, b>> # <<c>> /\ <<a, b, c>> # <<a>>
  OBVIOUS
<1>1. CASE host[h] = "hello" /\ p = <<"HS">>
  <2>1. w = "idle" /\ Head(p) = "HS" /\ Tail(p) = <<>>
    BY <1>1, <1>t DEF Reaction
  <2>2. QED
    BY <1>1, <2>1 DEF Reaction, Awaits
<1>2. CASE host[h] = "closing" /\ p = <<"HS">>
  <2>1. w = "closing" /\ Head(p) = "HS" /\ Tail(p) = <<>>
    BY <1>2, <1>t DEF Reaction
  <2>2. QED
    BY <1>2, <2>1 DEF Reaction, Awaits
<1>3. ASSUME NEW a \in {"OKAY", "FAIL"}, host[h] = "sent" /\ p = <<a>>
      PROVE  /\ host[h] \in DOMAIN Reaction(h) /\ Head(p) \in DOMAIN Reaction(h)[host[h]]
             /\ Awaits(w, todo[h], Tail(p)) /\ p # <<"DATA">> /\ Tail(p) = <<>> /\ w = "idle"
  <2>1. w = "idle" /\ Head(p) = a /\ Tail(p) = <<>>
    BY <1>3, <1>t DEF Reaction
  <2>2. QED
    BY <1>3, <2>1 DEF Reaction, Awaits
<1>4. ASSUME NEW a \in {"OKAY", "FAIL"}, host[h] = "sent" /\ p = <<"INFO", a>>
      PROVE  /\ host[h] \in DOMAIN Reaction(h) /\ Head(p) \in DOMAIN Reaction(h)[host[h]]
             /\ Awaits(w, todo[h], Tail(p)) /\ p # <<"DATA">> /\ Tail(p) = <<a>> /\ w = "sent"
  <2>1. w = "sent" /\ Head(p) = "INFO" /\ Tail(p) = <<a>>
    BY <1>4, <1>t DEF Reaction
  <2>2. <<a>> \in Answers
    BY DEF Answers, Fails
  <2>3. QED
    BY <1>4, <1>e, <2>1, <2>2 DEF Reaction, Awaits
<1>5. CASE host[h] = "sent" /\ d > 0 /\ p = <<"DATA">>
  <2>1. w = "sending" /\ Head(p) = "DATA" /\ Tail(p) = <<>>
    BY <1>5, <1>t DEF Reaction
  <2>2. QED
    BY <1>5, <2>1 DEF Reaction, Awaits
<1>6. CASE host[h] = "sent" /\ d = 0 /\ p = <<"DATA", "PAYLOAD", "OKAY">>
  <2>1. w = "uploading" /\ Head(p) = "DATA" /\ Tail(p) = <<"PAYLOAD", "OKAY">>
    BY <1>6, <1>t DEF Reaction
  <2>2. QED
    BY <1>6, <1>e, <2>1 DEF Reaction, Awaits
<1>7. CASE host[h] = "uploading" /\ d = 0 /\ p = <<"PAYLOAD", "OKAY">>
  <2>1. w = "waiting" /\ Head(p) = "PAYLOAD" /\ Tail(p) = <<"OKAY">>
    BY <1>7, <1>t DEF Reaction
  <2>2. QED
    BY <1>7, <1>e, <2>1 DEF Reaction, Awaits
<1>8. CASE host[h] = "waiting" /\ d = 0 /\ p = <<"OKAY">>
  <2>1. w = "idle" /\ Head(p) = "OKAY" /\ Tail(p) = <<>>
    BY <1>8, <1>t DEF Reaction
  <2>2. QED
    BY <1>8, <2>1 DEF Reaction, Awaits
<1>9. ASSUME host[h] = "sent", p \in Answers
      PROVE  \E a \in {"OKAY", "FAIL"} : p = <<a>> \/ p = <<"INFO", a>>
  BY <1>9 DEF Answers, Fails
<1>10. QED
  <2>1. CASE host[h] = "sent" /\ p \in Answers
    <3>1. PICK a \in {"OKAY", "FAIL"} : p = <<a>> \/ p = <<"INFO", a>>
      BY <1>9, <2>1
    <3>2. <<a>> # <<"DATA">> /\ <<a>> # <<>> /\ <<>> # <<"DATA">>
      OBVIOUS
    <3>3. CASE p = <<a>>
      BY <1>3, <2>1, <3>2, <3>3
    <3>4. CASE p = <<"INFO", a>>
      BY <1>4, <2>1, <3>2, <3>4
    <3>5. QED
      BY <3>1, <3>3, <3>4
  <2>2. QED
    BY <1>1, <1>2, <1>5, <1>6, <1>7, <1>8, <2>1 DEF Awaits

-----------------------------------------------------------------------------
(* Who has the session, and the packets that uIP may ask for again: one     *)
(* lemma per action of the device.                                          *)

\* A callback with data left runs for the session's connection, or for one that
\* may get the session.
LEMMA InCallback ==
    ASSUME LinksInv, buf # <<>>
    PROVE  /\ cur \in Hosts /\ conn[cur] = "ESTABLISHED" /\ state # "DISCONNECTED"
           /\ tstate # "HANDSHAKE" => peer = cur
           /\ state \in {"FINISHED", "REBOOT"} => txq # <<>>
           /\ Len(buf) \in Nat \ {0} /\ buf[1] \in Unit
<1>1. cur \in Hosts /\ conn[cur] = "ESTABLISHED" /\ state # "DISCONNECTED"
  BY DEF LinksInv, CallbackInv, NetTypes
<1>2. /\ tstate # "HANDSHAKE" => peer = cur
      /\ state \in {"FINISHED", "REBOOT"} => txq # <<>>
  BY <1>1 DEF LinksInv, CallbackInv
<1>3. Len(buf) \in Nat \ {0} /\ buf[1] \in Unit
  BY DEF LinksInv, UnitsInv
<1>4. QED
  BY <1>1, <1>2, <1>3

\* The session ends, and with it the packets it had for its connection.
LEMMA ResetLinks ==
    ASSUME LinksInv, NEW h \in Hosts, fastboot_tcp_is_valid_conn(h), fastboot_tcp_reset,
           state' # "DOWNLOAD",
           conn' \in [Hosts -> {"CLOSED", "ESTABLISHED", "FIN_WAIT", "LAST_ACK"}],
           conn'[h] # "ESTABLISHED", \A g \in Hosts \ {h} : conn'[g] = conn[g],
           out' = Set(out, h, None)
    PROVE  ParserTypes' /\ LinkInv' /\ ParserInv'
<1>1. ParserTypes'
  BY DEF fastboot_tcp_reset, LinksInv, ParserTypes
<1>2. \A g \in Hosts : out'[g] = None
  <2>1. ASSUME NEW g \in Hosts, out[g] # None PROVE g = h
    BY <2>1 DEF LinksInv, LinkInv, fastboot_tcp_is_valid_conn
  <2>2. QED
    BY <2>1 DEF Set, LinksInv, NetTypes
<1>3. LinkInv' /\ ParserInv'
  BY <1>2 DEF fastboot_tcp_reset, LinkInv, ParserInv, SegmentInBuffer
<1>4. QED
  BY <1>1, <1>3

\* What uip_close leaves.
LEMMA CloseTypes ==
    ASSUME LinksInv, NEW h \in Hosts, uip_close(h)
    PROVE  /\ conn' \in [Hosts -> {"CLOSED", "ESTABLISHED", "FIN_WAIT", "LAST_ACK"}]
           /\ conn'[h] = "FIN_WAIT" /\ \A g \in Hosts \ {h} : conn'[g] = conn[g]
           /\ out' = Set(out, h, None) /\ out' \in [Hosts -> Packets \cup {None}]
           /\ nrtx' \in [Hosts -> 0 .. MaxRtx]
           /\ rx' \in [Hosts -> Seq(Unit)] /\ rx'[h] = <<>>
           /\ \A g \in Hosts \ {h} : rx'[g] = rx[g]
           /\ HostTypes'
<1>1. <<>> \in Seq(Unit) /\ 0 \in 0 .. MaxRtx
  OBVIOUS
<1>2. HostTypes'
  BY DEF uip_close, LinksInv, HostTypes
<1>3. QED
  BY <1>1, <1>2 DEF uip_close, Set, LinksInv, NetTypes, UnitsInv

\* The answer to a handshake starts a session; anything else closes the connection.
LEMMA HandshakeLinks ==
    ASSUME LinksInv, fastboot_tcp_handshake
    PROVE  LinksInv'
<1>0. tstate = "HANDSHAKE" /\ buf # <<>>
  BY DEF fastboot_tcp_handshake
<1>1. cur \in Hosts /\ conn[cur] = "ESTABLISHED" /\ state # "DISCONNECTED" /\ Len(buf) \in Nat
  BY <1>0, InCallback
<1>2. CASE /\ Len(buf) >= HandshakeLen
           /\ txq' = Append(txq, Packet("HS", 0))
           /\ peer' = cur
           /\ EnterHeader
           /\ Consume(HandshakeLen)
           /\ UNCHANGED <<session, last_packet, uip, remote>>
  <2>1. Packet("HS", 0) \in Packets
    BY DEF Packet, Packets
  <2>2. ParserTypes'
    BY <1>1, <1>2, <2>1 DEF EnterHeader, LinksInv, ParserTypes
  <2>3. buf' \in Seq(Unit) /\ cur' = cur
    BY <1>1, <1>2, PartType DEF Consume, LinksInv, UnitsInv
  <2>4. SessionInv' /\ NetTypes' /\ HostTypes' /\ UnitsInv'
    BY <1>2, <2>3, ResetStep DEF LinksInv, NetTypes, HostTypes, UnitsInv, uip, remote
  <2>5. CallbackInv'
    BY <1>1, <1>2, <2>3 DEF CallbackInv, EnterHeader, session, uip
  <2>6. LinkInv'
    BY <1>0, <1>1, <1>2 DEF LinksInv, LinkInv, EnterHeader, uip
  <2>7. ParserInv'
    BY <1>2 DEF ParserInv, EnterHeader, SegmentInBuffer
  <2>8. QED
    BY <2>2, <2>4, <2>5, <2>6, <2>7 DEF LinksInv
<1>3. CASE uip_close(cur) /\ buf' = <<>> /\ UNCHANGED <<session, tcp, cur>>
  <2>1. ParserTypes' /\ ParserInv' /\ SessionInv'
    BY <1>3, ResetStep DEF LinksInv, ParserTypes, ParserInv, SegmentInBuffer, session, tcp
  <2>2. NetTypes' /\ HostTypes' /\ UnitsInv'
    BY <1>1, <1>3, CloseTypes DEF LinksInv, NetTypes, UnitsInv
  <2>3. CallbackInv'
    BY <1>0, <1>1, <1>3 DEF LinksInv, CallbackInv, session, tcp
  <2>4. LinkInv'
    BY <1>0, <1>1, <1>3, CloseTypes DEF LinksInv, LinkInv, tcp, Set, NetTypes
  <2>5. QED
    BY <2>1, <2>2, <2>3, <2>4 DEF LinksInv
<1>4. QED
  BY <1>2, <1>3 DEF fastboot_tcp_handshake

\* A turn of the parser that keeps connection and session.
LEMMA ParserLinks ==
    ASSUME LinksInv, buf # <<>>, tstate # "HANDSHAKE", tstate' # "HANDSHAKE",
           NEW n \in 0 .. Len(buf), Consume(n),
           UNCHANGED <<last_packet, peer, uip, remote>>,
           SessionInv', state' # "DISCONNECTED", ParserTypes', ParserInv',
           state' \in {"FINISHED", "REBOOT"} => txq' # <<>>
    PROVE  LinksInv'
<1>1. cur \in Hosts /\ conn[cur] = "ESTABLISHED" /\ peer = cur
  BY InCallback
<1>2. buf' \in Seq(Unit) /\ cur' = cur
  BY PartType DEF Consume, LinksInv, UnitsInv
<1>3. NetTypes' /\ HostTypes' /\ UnitsInv'
  BY <1>2 DEF LinksInv, NetTypes, HostTypes, UnitsInv, uip, remote
<1>4. CallbackInv' /\ LinkInv'
  BY <1>1, <1>2 DEF LinksInv, CallbackInv, LinkInv, uip
<1>5. QED
  BY <1>3, <1>4 DEF LinksInv

\* The header: its last byte gives the length of what follows.
LEMMA HeaderLinks ==
    ASSUME LinksInv, fastboot_tcp_recv_header
    PROVE  LinksInv'
<1> DEFINE n == HeaderPart
<1>0. /\ tstate = "HEADER" /\ buf # <<>> /\ Consume(n)
      /\ UNCHANGED <<session, offset, txq, last_packet, peer, uip, remote>>
  BY DEF fastboot_tcp_recv_header
<1>1. /\ state # "DISCONNECTED" /\ (state \in {"FINISHED", "REBOOT"} => txq # <<>>)
      /\ Len(buf) \in Nat \ {0} /\ collected \in 0 .. HeaderLen - 1
  BY <1>0, InCallback DEF LinksInv, ParserInv, ParserTypes
<1>2. n \in 1 .. Len(buf) /\ collected + n <= HeaderLen
  BY <1>1 DEF HeaderPart, MinOf
<1>3. SessionInv' /\ state' = state
  BY <1>0, ResetStep DEF LinksInv, session
<1>4. CASE collected + n = HeaderLen
  <2>1. /\ collected' = 0 /\ left' = buf[n][2].len
        /\ tstate' = IF state = "DOWNLOAD" THEN "DOWNLOAD" ELSE "COMMAND"
    BY <1>4 DEF fastboot_tcp_recv_header
  <2>2. buf[n][2] \in Messages
    BY <1>2 DEF LinksInv, UnitsInv, Unit
  <2>3. left' \in Nat \ {0} /\ \E m \in Messages : left' \in 1 .. m.len
    BY <2>1, <2>2, MessageType
  <2>4. ParserTypes'
    BY <1>0, <2>1, <2>3 DEF LinksInv, ParserTypes
  <2>5. ParserInv'
    BY <1>3, <2>1, <2>3 DEF ParserInv, SegmentInBuffer
  <2>6. tstate' # "HANDSHAKE"
    BY <2>1
  <2>7. QED
    BY <1>0, <1>1, <1>2, <1>3, <2>4, <2>5, <2>6, ParserLinks
<1>5. CASE collected + n # HeaderLen
  <2>1. collected' = collected + n /\ UNCHANGED <<left, tstate>>
    BY <1>5 DEF fastboot_tcp_recv_header
  <2>2. ParserTypes' /\ ParserInv'
    BY <1>0, <1>1, <1>2, <1>5, <2>1 DEF LinksInv, ParserTypes, ParserInv, SegmentInBuffer
  <2>3. QED
    BY <1>0, <1>1, <1>2, <1>3, <2>1, <2>2, ParserLinks
<1>6. QED
  BY <1>4, <1>5

\* A packet that was read whole is handled, and the parser waits for a header.
LEMMA HandledLinks ==
    ASSUME LinksInv, buf # <<>>, tstate # "HANDSHAKE", NEW n \in 0 .. Len(buf), NEW k \in Nat,
           fastboot_handle_packet(buf[1][2], k), EnterHeader, Consume(n),
           UNCHANGED <<last_packet, peer, uip, remote>>
    PROVE  LinksInv'
<1>1. /\ buf[1][2] \in Messages /\ state # "DISCONNECTED"
      /\ state \in {"FINISHED", "REBOOT"} => txq # <<>>
  BY InCallback DEF Unit
<1>2. /\ SessionInv' /\ txq' \in Seq(Packets) /\ state' # "DISCONNECTED"
      /\ state' \in {"FINISHED", "REBOOT"} => txq' # <<>>
  BY <1>1, PacketStep DEF LinksInv, ParserTypes
<1>3. ParserTypes' /\ ParserInv' /\ tstate' # "HANDSHAKE"
  BY <1>2 DEF EnterHeader, LinksInv, ParserTypes, ParserInv, SegmentInBuffer
<1>4. QED
  BY <1>2, <1>3, ParserLinks

\* A command: handled at once, collected in segments, or too long for that.
LEMMA CommandLinks ==
    ASSUME LinksInv, fastboot_tcp_recv_command
    PROVE  LinksInv'
<1>0. tstate = "COMMAND" /\ buf # <<>>
  BY DEF fastboot_tcp_recv_command
<1>1. /\ cur \in Hosts /\ conn[cur] = "ESTABLISHED" /\ state # "DISCONNECTED" /\ peer = cur
      /\ Len(buf) \in Nat \ {0} /\ left \in Nat
  BY <1>0, InCallback DEF LinksInv, ParserTypes
<1>2. CASE /\ Len(buf) >= left
           /\ fastboot_handle_packet(buf[1][2], left)
           /\ EnterHeader /\ Consume(left)
           /\ UNCHANGED <<last_packet, peer, uip, remote>>
  BY <1>0, <1>1, <1>2, HandledLinks
<1>3. CASE /\ Len(buf) < left /\ Collectable
           /\ tstate' = "SEGMENT" /\ offset' = 0
           /\ UNCHANGED <<session, collected, left, txq, last_packet, peer, cur, buf, uip, remote>>
  <2>1. SessionInv'
    BY <1>3, ResetStep DEF LinksInv
  <2>2. ParserTypes'
    BY <1>3 DEF LinksInv, ParserTypes
  <2>3. ParserInv'
    BY <1>0, <1>1, <1>3 DEF LinksInv, ParserInv, SegmentInBuffer, Collectable, session
  <2>4. NetTypes' /\ HostTypes' /\ UnitsInv'
    BY <1>3 DEF LinksInv, NetTypes, HostTypes, UnitsInv, uip, remote
  <2>5. CallbackInv' /\ LinkInv'
    BY <1>0, <1>1, <1>3 DEF LinksInv, CallbackInv, LinkInv, uip, session
  <2>6. QED
    BY <2>1, <2>2, <2>3, <2>4, <2>5 DEF LinksInv
<1>4. CASE /\ uip_close(cur)
           /\ fastboot_reset_session /\ fastboot_tcp_reset
           /\ buf' = <<>> /\ UNCHANGED cur
  <2>1. SessionInv' /\ state' = "COMMAND"
    BY <1>4, ResetStep DEF LinksInv, fastboot_reset_session
  <2>2. NetTypes' /\ HostTypes' /\ UnitsInv'
    BY <1>1, <1>4, CloseTypes DEF LinksInv, NetTypes, UnitsInv
  <2>3. ParserTypes' /\ LinkInv' /\ ParserInv'
    BY <1>1, <1>4, <2>1, CloseTypes, ResetLinks DEF fastboot_tcp_is_valid_conn
  <2>4. CallbackInv'
    BY <1>1, <1>4, <2>1 DEF CallbackInv, fastboot_tcp_reset
  <2>5. QED
    BY <2>1, <2>2, <2>3, <2>4 DEF LinksInv
<1>5. QED
  BY <1>2, <1>3, <1>4 DEF fastboot_tcp_recv_command

\* A segment of a command: the last one completes it.
LEMMA SegmentLinks ==
    ASSUME LinksInv, fastboot_tcp_recv_segment
    PROVE  LinksInv'
<1> DEFINE n == MinOf(left, Len(buf))
<1>0. /\ tstate = "SEGMENT" /\ buf # <<>> /\ Consume(n)
      /\ UNCHANGED <<last_packet, peer, uip, remote>>
  BY DEF fastboot_tcp_recv_segment
<1>1. /\ state # "DISCONNECTED" /\ (state \in {"FINISHED", "REBOOT"} => txq # <<>>)
      /\ Len(buf) \in Nat \ {0} /\ offset \in Nat /\ left \in Nat
      /\ n \in 0 .. Len(buf) /\ n <= left
  BY <1>0, InCallback DEF LinksInv, ParserTypes, MinOf
<1>2. CASE left = n
  BY <1>0, <1>1, <1>2, HandledLinks DEF fastboot_tcp_recv_segment
<1>3. CASE left # n
  <2>1. offset' = offset + n /\ left' = left - n /\ UNCHANGED <<session, txq, tstate, collected>>
    BY <1>3 DEF fastboot_tcp_recv_segment
  <2>2. SessionInv' /\ state' = state
    BY <2>1, ResetStep DEF LinksInv, session
  <2>3. PICK m \in Messages : left \in 1 .. m.len
    BY <1>0 DEF LinksInv, ParserInv
  <2>4. m.len \in Nat /\ left' \in 1 .. m.len
    BY <1>1, <1>3, <2>1, <2>3, MessageType
  <2>5. ParserTypes' /\ ParserInv'
    <3>1. ParserTypes'
      BY <1>0, <1>1, <2>1, <2>2, <2>4 DEF LinksInv, ParserTypes
    <3>2. \E x \in Messages : left' \in 1 .. x.len
      BY <2>4
    <3>3. ParserInv'
      BY <1>0, <1>1, <2>1, <2>2, <3>2 DEF LinksInv, ParserInv, SegmentInBuffer
    <3>4. QED
      BY <3>1, <3>3
  <2>6. QED
    BY <1>0, <1>1, <2>1, <2>2, <2>5, ParserLinks
<1>4. QED
  BY <1>2, <1>3

\* Data goes to the session as it comes.
LEMMA DataLinks ==
    ASSUME LinksInv, fastboot_tcp_recv_download
    PROVE  LinksInv'
<1> DEFINE n == MinOf(left, Len(buf))
<1>0. /\ tstate = "DOWNLOAD" /\ buf # <<>> /\ Consume(n) /\ fastboot_handle_packet(buf[1][2], n)
      /\ UNCHANGED <<last_packet, peer, uip, remote>>
  BY DEF fastboot_tcp_recv_download
<1>1. /\ state # "DISCONNECTED" /\ (state \in {"FINISHED", "REBOOT"} => txq # <<>>)
      /\ Len(buf) \in Nat \ {0} /\ left \in Nat
      /\ n \in 0 .. Len(buf) /\ n <= left /\ buf[1][2] \in Messages
  BY <1>0, InCallback DEF LinksInv, ParserTypes, MinOf, Unit
<1>2. CASE left = n
  BY <1>0, <1>1, <1>2, HandledLinks DEF fastboot_tcp_recv_download
<1>3. CASE left # n
  <2>1. left' = left - n /\ UNCHANGED <<tstate, collected, offset>>
    BY <1>3 DEF fastboot_tcp_recv_download
  <2>2. /\ SessionInv' /\ txq' \in Seq(Packets) /\ state' # "DISCONNECTED"
        /\ state' \in {"FINISHED", "REBOOT"} => txq' # <<>>
    BY <1>0, <1>1, PacketStep DEF LinksInv, ParserTypes
  <2>3. PICK m \in Messages : left \in 1 .. m.len
    BY <1>0 DEF LinksInv, ParserInv
  <2>4. m.len \in Nat /\ left' \in 1 .. m.len
    BY <1>1, <1>3, <2>1, <2>3, MessageType
  <2>5. ParserTypes' /\ ParserInv'
    <3>1. ParserTypes'
      BY <1>0, <1>1, <2>1, <2>2, <2>4 DEF LinksInv, ParserTypes
    <3>2. \E x \in Messages : left' \in 1 .. x.len
      BY <2>4
    <3>3. ParserInv'
      BY <1>0, <1>1, <2>1, <2>2, <3>2 DEF LinksInv, ParserInv, SegmentInBuffer
    <3>4. QED
      BY <3>1, <3>3
  <2>6. QED
    BY <1>0, <1>1, <2>1, <2>2, <2>5, ParserLinks
<1>4. QED
  BY <1>2, <1>3

\* The end of a callback sends the next packet, if the one before was acknowledged.
LEMMA EndLinks ==
    ASSUME LinksInv, EndCallback
    PROVE  LinksInv'
<1>0. /\ cur \in Hosts /\ buf = <<>> /\ cur' = None /\ nrtx' = Set(nrtx, cur, 0)
      /\ UNCHANGED <<session, buf, conn, rx, host, todo>>
  BY DEF EndCallback, LinksInv, NetTypes
<1>1. SessionInv' /\ CallbackInv' /\ UnitsInv'
  BY <1>0, ResetStep DEF LinksInv, CallbackInv, UnitsInv
<1>2. nrtx' \in [Hosts -> 0 .. MaxRtx]
  <2>1. 0 \in 0 .. MaxRtx
    OBVIOUS
  <2>2. QED
    BY <1>0, <2>1 DEF LinksInv, NetTypes, Set
<1>3. CASE CanSend
  <2>1. /\ last_packet = None /\ txq # <<>> /\ tstate # "HANDSHAKE"
        /\ last_packet' = Head(txq) /\ txq' = Tail(txq)
        /\ UNCHANGED <<tstate, collected, left, offset, peer>>
    BY <1>3 DEF EndCallback, CanSend
  <2>2. peer = cur /\ conn[cur] = "ESTABLISHED"
    BY <1>0, <2>1 DEF LinksInv, CallbackInv
  <2>3. Head(txq) \in Packets /\ Tail(txq) \in Seq(Packets)
    BY <2>1 DEF LinksInv, ParserTypes
  <2>4. ASSUME NEW h \in Hosts PROVE out[h] = None
    BY <2>1, PacketAssumption DEF LinksInv, LinkInv, NetTypes
  <2>5. out' = Set(out, cur, Head(txq)) /\ got' = Set(got, cur, FALSE)
    BY <1>0, <1>3, <2>4 DEF EndCallback
  <2>6. ParserTypes' /\ ParserInv'
    BY <1>0, <2>1, <2>3 DEF LinksInv, ParserTypes, ParserInv, SegmentInBuffer, session
  <2>7. NetTypes' /\ HostTypes'
    BY <1>0, <1>2, <2>3, <2>5 DEF LinksInv, NetTypes, HostTypes, Set
  <2>8. LinkInv'
    BY <1>0, <2>1, <2>2, <2>4, <2>5 DEF LinksInv, LinkInv, NetTypes, Set
  <2>9. QED
    BY <1>1, <2>6, <2>7, <2>8 DEF LinksInv
<1>4. CASE ~CanSend
  <2>1. UNCHANGED <<tcp, out, got>>
    BY <1>4 DEF EndCallback
  <2>2. ParserTypes' /\ ParserInv'
    BY <1>0, <2>1 DEF LinksInv, ParserTypes, ParserInv, SegmentInBuffer, session, tcp
  <2>3. NetTypes' /\ HostTypes'
    BY <1>0, <1>2, <2>1 DEF LinksInv, NetTypes, HostTypes
  <2>4. LinkInv'
    BY <1>0, <2>1 DEF LinksInv, LinkInv, tcp
  <2>5. QED
    BY <1>1, <2>2, <2>3, <2>4 DEF LinksInv
<1>5. QED
  BY <1>3, <1>4

\* An acknowledged packet is freed, and its connection may send the next one.
LEMMA OpenLinks ==
    ASSUME LinksInv, NEW h \in Hosts, Polling, conn[h] = "ESTABLISHED",
           fastboot_tcp_is_valid_conn(h), NEW n \in 0 .. Len(rx[h]), Open(h, n)
    PROVE  LinksInv'
<1>0. /\ Acked(h) /\ cur' = h /\ buf' = SubSeq(rx[h], 1, n)
      /\ rx' = Set(rx, h, SubSeq(rx[h], n + 1, Len(rx[h])))
      /\ UNCHANGED <<session, tstate, collected, left, offset, txq, peer, conn, got, host, todo>>
  BY DEF Open
<1>1. SessionInv' /\ state' \notin {"FINISHED", "REBOOT", "DISCONNECTED"}
  BY <1>0, ResetStep DEF LinksInv, Polling, fastboot_is_finished, session
<1>2. UnitsInv'
  <2>1. rx[h] \in Seq(Unit) /\ rx \in [Hosts -> Seq(Unit)]
    BY DEF LinksInv, UnitsInv
  <2>2. QED
    BY <1>0, <2>1, PartType DEF UnitsInv, Set
<1>3. HostTypes' /\ CallbackInv'
  BY <1>0, <1>1 DEF LinksInv, HostTypes, CallbackInv, fastboot_tcp_is_valid_conn
<1>4. CASE /\ out[h] # None /\ last_packet' = None
           /\ out' = Set(out, h, None) /\ nrtx' = Set(nrtx, h, 0)
  <2>1. 0 \in 0 .. MaxRtx
    OBVIOUS
  <2>2. NetTypes' /\ ParserTypes'
    BY <1>0, <1>4, <2>1 DEF LinksInv, NetTypes, ParserTypes, Set
  <2>3. tstate # "HANDSHAKE" /\ peer = h /\ \A g \in Hosts : out'[g] = None
    BY <1>4 DEF LinksInv, LinkInv, NetTypes, Set
  <2>4. LinkInv' /\ ParserInv'
    BY <1>0, <2>3 DEF LinksInv, LinkInv, ParserInv, SegmentInBuffer, session
  <2>5. QED
    BY <1>1, <1>2, <1>3, <2>2, <2>4 DEF LinksInv
<1>5. CASE UNCHANGED <<last_packet, out, nrtx>>
  <2>1. NetTypes' /\ ParserTypes'
    BY <1>0, <1>5 DEF LinksInv, NetTypes, ParserTypes
  <2>2. LinkInv' /\ ParserInv'
    BY <1>0, <1>5 DEF LinksInv, LinkInv, ParserInv, SegmentInBuffer, session
  <2>3. QED
    BY <1>1, <1>2, <1>3, <2>1, <2>2 DEF LinksInv
<1>6. QED
  BY <1>0, <1>4, <1>5 DEF Acked

\* A callback of somebody else's connection only closes it.
LEMMA ForeignLinks ==
    ASSUME LinksInv, NEW h \in Hosts, CloseForeign(h)
    PROVE  LinksInv'
<1>0. /\ cur = None /\ tstate # "HANDSHAKE" /\ peer # h /\ uip_close(h)
      /\ UNCHANGED <<session, tcp, cur, buf>>
  BY DEF CloseForeign, Polling, fastboot_tcp_is_valid_conn
<1>1. SessionInv' /\ ParserTypes' /\ ParserInv'
  BY <1>0, ResetStep DEF LinksInv, ParserTypes, ParserInv, SegmentInBuffer, session, tcp
<1>2. NetTypes' /\ HostTypes' /\ UnitsInv'
  BY <1>0, CloseTypes DEF LinksInv, NetTypes, UnitsInv
<1>3. CallbackInv' /\ LinkInv'
  BY <1>0, CloseTypes DEF LinksInv, LinkInv, CallbackInv, tcp, Set, NetTypes
<1>4. QED
  BY <1>1, <1>2, <1>3 DEF LinksInv

\* What is sent again is what was sent.
LEMMA RexmitLinks ==
    ASSUME LinksInv, NEW h \in Hosts, Rexmit(h)
    PROVE  LinksInv' /\ out' = out
<1>0. /\ out[h] # None /\ nrtx' = Set(nrtx, h, nrtx[h] + 1) /\ nrtx[h] < MaxRtx
      /\ out' = Set(out, h, last_packet)
      /\ UNCHANGED <<session, tcp, cur, buf, conn, remote>>
  BY DEF Rexmit
<1>1. out' = out
  BY <1>0 DEF LinksInv, LinkInv, NetTypes, Set
<1>2. nrtx' \in [Hosts -> 0 .. MaxRtx]
  <2>1. nrtx[h] + 1 \in 0 .. MaxRtx
    BY <1>0 DEF LinksInv, NetTypes
  <2>2. QED
    BY <1>0, <2>1 DEF LinksInv, NetTypes, Set
<1>3. SessionInv' /\ ParserTypes' /\ ParserInv'
  BY <1>0, ResetStep DEF LinksInv, ParserTypes, ParserInv, SegmentInBuffer, session, tcp
<1>4. NetTypes' /\ HostTypes' /\ UnitsInv'
  BY <1>0, <1>1, <1>2 DEF LinksInv, NetTypes, HostTypes, UnitsInv, remote
<1>5. CallbackInv' /\ LinkInv'
  BY <1>0, <1>1 DEF LinksInv, LinkInv, CallbackInv, tcp, session
<1>6. QED
  BY <1>1, <1>3, <1>4, <1>5 DEF LinksInv

\* The end of a connection ends the session that has it, or that nobody has.
LEMMA EndsLinks ==
    ASSUME LinksInv, NEW h \in Hosts, Polling, NEW st \in {"CLOSED", "LAST_ACK"},
           ConnectionEnds(h, st), UnitsInv', HostTypes'
    PROVE  LinksInv'
<1>0. /\ cur = None /\ cur' = None /\ buf' = buf
      /\ conn' = Set(conn, h, st) /\ out' = Set(out, h, None) /\ nrtx' = Set(nrtx, h, 0)
  BY DEF Polling, ConnectionEnds
<1>1. CallbackInv'
  BY <1>0 DEF LinksInv, CallbackInv
<1>2. /\ conn' \in [Hosts -> {"CLOSED", "ESTABLISHED", "FIN_WAIT", "LAST_ACK"}]
      /\ conn'[h] # "ESTABLISHED" /\ \A g \in Hosts \ {h} : conn'[g] = conn[g]
  BY <1>0 DEF LinksInv, NetTypes, Set
<1>3. NetTypes'
  <2>1. 0 \in 0 .. MaxRtx
    OBVIOUS
  <2>2. QED
    BY <1>0, <1>2, <2>1 DEF LinksInv, NetTypes, Set
<1>4. CASE fastboot_tcp_is_valid_conn(h)
  <2>1. fastboot_reset_session /\ fastboot_tcp_reset
    BY <1>4 DEF ConnectionEnds
  <2>2. SessionInv' /\ state' = "COMMAND"
    BY <2>1, ResetStep DEF LinksInv, fastboot_reset_session
  <2>3. ParserTypes' /\ LinkInv' /\ ParserInv'
    BY <1>0, <1>2, <1>4, <2>1, <2>2, ResetLinks
  <2>4. QED
    BY <1>1, <1>3, <2>2, <2>3 DEF LinksInv
<1>5. CASE ~fastboot_tcp_is_valid_conn(h)
  <2>1. UNCHANGED <<session, tcp>>
    BY <1>5 DEF ConnectionEnds
  <2>2. SessionInv' /\ ParserTypes' /\ ParserInv'
    BY <2>1, ResetStep DEF LinksInv, ParserTypes, ParserInv, SegmentInBuffer, session, tcp
  <2>3. LinkInv'
    BY <1>0, <1>2, <1>5, <2>1 DEF LinksInv, LinkInv, NetTypes, Set, tcp,
                                  fastboot_tcp_is_valid_conn
  <2>4. QED
    BY <1>1, <1>3, <2>2, <2>3 DEF LinksInv
<1>6. QED
  BY <1>4, <1>5

\* A host that ends leaves nothing on its way.
LEMMA HostEndsTypes ==
    ASSUME LinksInv, NEW h \in Hosts, NEW phase \in {"closed", "gone"}, HostEnds(h, phase)
    PROVE  HostTypes' /\ rx' \in [Hosts -> Seq(Unit)]
<1>1. <<>> \in Seq(Unit) /\ 0 \in 0 .. MaxDownload
  OBVIOUS
<1>2. QED
  BY <1>1 DEF HostEnds, Set, LinksInv, HostTypes, UnitsInv

\* All the ways in which a connection ends.
LEMMA LostLinks ==
    ASSUME LinksInv, NEW h \in Hosts,
           TimedOut(h) \/ Fin(h) \/ LateClose(h) \/ Rst(h) \/ Expires(h)
    PROVE  LinksInv'
<1>1. CASE Fin(h)
  <2>1. Polling /\ ConnectionEnds(h, "LAST_ACK") /\ UNCHANGED remote
    BY <1>1 DEF Fin
  <2>2. UnitsInv' /\ HostTypes'
    BY <2>1 DEF LinksInv, UnitsInv, HostTypes, remote, ConnectionEnds
  <2>3. QED
    BY <2>1, <2>2, EndsLinks
<1>2. CASE TimedOut(h) \/ LateClose(h) \/ Rst(h)
  <2>1. Polling /\ ConnectionEnds(h, "CLOSED") /\ HostEnds(h, "closed")
    BY <1>2 DEF TimedOut, LateClose, Rst
  <2>2. UnitsInv' /\ HostTypes'
    BY <2>1, HostEndsTypes DEF LinksInv, UnitsInv, ConnectionEnds
  <2>3. QED
    BY <2>1, <2>2, EndsLinks
<1>3. CASE Expires(h)
  <2>1. /\ cur = None /\ conn[h] = "FIN_WAIT" /\ conn' = Set(conn, h, "CLOSED")
        /\ HostEnds(h, "closed") /\ UNCHANGED <<session, tcp, cur, buf, out, nrtx>>
    BY <1>3 DEF Expires, Polling
  <2>2. UnitsInv' /\ HostTypes'
    BY <2>1, HostEndsTypes DEF LinksInv, UnitsInv
  <2>3. SessionInv' /\ ParserTypes' /\ ParserInv'
    BY <2>1, ResetStep DEF LinksInv, ParserTypes, ParserInv, SegmentInBuffer, session, tcp
  <2>4. NetTypes' /\ CallbackInv'
    BY <2>1 DEF LinksInv, NetTypes, CallbackInv, Set
  <2>5. LinkInv'
    BY <2>1 DEF LinksInv, LinkInv, NetTypes, Set, tcp
  <2>6. QED
    BY <2>2, <2>3, <2>4, <2>5 DEF LinksInv
<1>4. QED
  BY <1>1, <1>2, <1>3

\* Nothing depends on more than the variables.
LEMMA SameLinks ==
    ASSUME LinksInv, UNCHANGED all
    PROVE  LinksInv'
<1>1. UNCHANGED <<session, tcp, cur, buf, uip, remote>>
  BY DEF all
<1>2. SessionInv' /\ ParserTypes' /\ NetTypes' /\ HostTypes' /\ UnitsInv'
  BY <1>1, ResetStep DEF LinksInv, ParserTypes, NetTypes, HostTypes, UnitsInv, tcp, uip,
                         remote
<1>3. CallbackInv' /\ LinkInv' /\ ParserInv'
  BY <1>1 DEF LinksInv, CallbackInv, LinkInv, ParserInv, SegmentInBuffer, tcp, uip, session
<1>4. QED
  BY <1>2, <1>3 DEF LinksInv

\* The loss of the link, the next fastboot_init, and the end of the loop.
LEMMA LoopLinks ==
    ASSUME LinksInv, LinkLost \/ TcpReinit \/ Exit
    PROVE  LinksInv'
<1>1. CASE LinkLost
  <2>1. cur = None /\ Disconnect /\ UNCHANGED <<tcp, cur, buf, uip, remote>>
    BY <1>1 DEF LinkLost, Polling, Disconnect
  <2>2. SessionInv' /\ ParserTypes' /\ NetTypes' /\ HostTypes' /\ UnitsInv'
    BY <2>1, ResetStep DEF LinksInv, ParserTypes, NetTypes, HostTypes, UnitsInv, tcp, uip,
                           remote
  <2>3. CallbackInv' /\ LinkInv' /\ ParserInv'
    BY <1>1, <2>1 DEF LinksInv, CallbackInv, LinkInv, ParserInv, SegmentInBuffer, tcp, uip,
                      Disconnect, LinkLost, Polling
  <2>4. QED
    BY <2>2, <2>3 DEF LinksInv
<1>2. CASE TcpReinit
  <2>1. /\ fastboot_init /\ fastboot_tcp_reset /\ cur' = None /\ buf' = <<>>
        /\ conn' = [h \in Hosts |-> "CLOSED"] /\ out' = [h \in Hosts |-> None]
        /\ nrtx' = [h \in Hosts |-> 0] /\ rx' = [h \in Hosts |-> <<>>]
        /\ got' = [h \in Hosts |-> FALSE] /\ host' = [h \in Hosts |-> "closed"]
        /\ todo' = [h \in Hosts |-> 0]
    BY <1>2 DEF TcpReinit
  <2>2. SessionInv'
    BY <2>1, ResetStep DEF LinksInv
  <2>3. ParserTypes'
    BY <2>1 DEF LinksInv, ParserTypes, fastboot_tcp_reset
  <2>4. NetTypes' /\ HostTypes' /\ UnitsInv'
    BY <2>1 DEF NetTypes, HostTypes, UnitsInv
  <2>5. CallbackInv' /\ LinkInv' /\ ParserInv'
    BY <2>1 DEF CallbackInv, LinkInv, ParserInv, SegmentInBuffer, fastboot_tcp_reset,
                fastboot_init
  <2>6. QED
    BY <2>2, <2>3, <2>4, <2>5 DEF LinksInv
<1>3. CASE Exit
  BY <1>3, SameLinks DEF Exit
<1>4. QED
  BY <1>1, <1>2, <1>3

\* A step of a host changes nothing of the device but what is on its way.
LEMMA HostLinks ==
    ASSUME LinksInv, NEW h \in Hosts, HostStep(h)
    PROVE  LinksInv'
<1>0. ASSUME UNCHANGED <<device, out, nrtx>>, rx' \in [Hosts -> Seq(Unit)], HostTypes',
             \/ UNCHANGED conn
             \/ conn[h] = "CLOSED" /\ conn' = Set(conn, h, "ESTABLISHED") /\ cur = None
      PROVE  LinksInv'
  <2>1. SessionInv' /\ ParserTypes' /\ ParserInv'
    BY <1>0, ResetStep DEF LinksInv, ParserTypes, ParserInv, SegmentInBuffer, session, tcp,
                           device
  <2>2. NetTypes' /\ UnitsInv'
    BY <1>0 DEF LinksInv, NetTypes, UnitsInv, device, Set
  <2>3. CallbackInv' /\ LinkInv'
    BY <1>0 DEF LinksInv, CallbackInv, LinkInv, NetTypes, device, tcp, session, Set
  <2>4. QED
    BY <1>0, <2>1, <2>2, <2>3 DEF LinksInv
<1>t. /\ rx \in [Hosts -> Seq(Unit)] /\ HostTypes
  BY DEF LinksInv, UnitsInv
<1>1. CASE Connect(h)
  <2>1. Handshake \in Messages
    BY DEF Messages
  <2>2. Units("handshake", Handshake, HandshakeLen) \in Seq(Unit)
    BY <2>1, UnitsType
  <2>3. rx' \in [Hosts -> Seq(Unit)] /\ HostTypes'
    BY <1>1, <1>t, <2>2 DEF Connect, HostTypes, Set
  <2>4. QED
    BY <1>0, <1>1, <2>3 DEF Connect, Polling
<1>2. CASE SendCommand(h)
  <2>1. PICK m \in Requests : /\ rx' = Set(rx, h, rx[h] \o Framed("command", m))
                              /\ todo' = Set(todo, h, m.size)
    BY <1>2 DEF SendCommand
  <2>2. Framed("command", m) \in Seq(Unit) /\ m.size \in 0 .. MaxDownload
    BY FramedType, MessageType DEF Messages
  <2>3. rx' \in [Hosts -> Seq(Unit)]
    BY <1>t, <2>1, <2>2 DEF Set
  <2>4. HostTypes'
    BY <1>2, <1>t, <2>1, <2>2 DEF SendCommand, HostTypes, Set
  <2>5. QED
    BY <1>0, <1>2, <2>3, <2>4 DEF SendCommand, uip
<1>3. CASE SendData(h)
  <2>1. PICK n \in 1 .. todo[h] : /\ rx' = Set(rx, h, rx[h] \o Framed("data", Data(n)))
                                  /\ todo' = Set(todo, h, todo[h] - n)
    BY <1>3 DEF SendData
  <2>2. Framed("data", Data(n)) \in Seq(Unit) /\ todo[h] - n \in 0 .. MaxDownload
    <3>1. todo[h] \in 0 .. MaxDownload
      BY <1>t DEF HostTypes
    <3>2. Data(n) \in Messages
      BY <3>1 DEF Messages
    <3>3. QED
      BY <3>1, <3>2, FramedType
  <2>3. rx' \in [Hosts -> Seq(Unit)]
    BY <1>t, <2>1, <2>2 DEF Set
  <2>4. HostTypes'
    BY <1>3, <1>t, <2>1, <2>2 DEF SendData, HostTypes, Set
  <2>5. QED
    BY <1>0, <1>3, <2>3, <2>4 DEF SendData, uip
<1>4. CASE HostCloses(h)
  BY <1>0, <1>4, <1>t DEF HostCloses, HostTypes, uip, Set
<1>5. CASE HostVanishes(h)
  BY <1>0, <1>5, HostEndsTypes DEF HostVanishes, uip
<1>6. CASE Arrive(h)
  <2>1. Reaction(h)[host[h]][out[h].t] \in
          {"idle", "sent", "sending", "uploading", "waiting", "closing"}
    BY <1>6 DEF Arrive, Expected, Reaction
  <2>2. HostTypes'
    BY <1>6, <1>t, <2>1 DEF Arrive, HostTypes, Set
  <2>3. QED
    BY <1>0, <1>6, <1>t, <2>2 DEF Arrive, uip
<1>7. QED
  BY <1>1, <1>2, <1>3, <1>4, <1>5, <1>6 DEF HostStep

\* Every step keeps who has the session and what may be sent again.
LEMMA LinksStep ==
    ASSUME LinksInv, [TcpNext]_all
    PROVE  LinksInv'
<1>1. CASE recv
  BY <1>1, HandshakeLinks, HeaderLinks, CommandLinks, SegmentLinks, DataLinks DEF recv
<1>2. CASE EndCallback
  BY <1>2, EndLinks
<1>3. ASSUME NEW h \in Hosts, DeviceEvent(h)
      PROVE  LinksInv'
  <2>1. rx[h] \in Seq(Unit)
    BY DEF LinksInv, UnitsInv
  <2>2. CASE Segment(h)
    <3>1. PICK n \in 1 .. Len(rx[h]) : Open(h, n)
      BY <2>2 DEF Segment
    <3>2. n \in 0 .. Len(rx[h])
      BY <2>1, <3>1
    <3>3. QED
      BY <2>2, <3>1, <3>2, OpenLinks DEF Segment
  <2>3. CASE Ack(h)
    <3>1. 0 \in 0 .. Len(rx[h])
      BY <2>1
    <3>2. QED
      BY <2>3, <3>1, OpenLinks DEF Ack
  <2>4. QED
    BY <1>3, <2>2, <2>3, ForeignLinks, RexmitLinks, LostLinks DEF DeviceEvent
<1>4. CASE LinkLost \/ TcpReinit \/ Exit
  BY <1>4, LoopLinks
<1>5. CASE UNCHANGED all
  BY <1>5, SameLinks
<1>6. QED
  BY <1>1, <1>2, <1>3, <1>4, <1>5, HostLinks DEF TcpNext

\* Nobody has the session at the start.
LEMMA LinksInit == TcpInit => LinksInv
<1> SUFFICES ASSUME TcpInit PROVE LinksInv
  OBVIOUS
<1>1. SessionInv
  <2>1. 0 \in 0 .. MaxDownload
    OBVIOUS
  <2>2. QED
    BY <2>1 DEF TcpInit, Init, SessionInv, TypeOK, DownloadInv, Sources
<1>2. ParserTypes /\ ParserInv
  BY DEF TcpInit, Init, ParserTypes, ParserInv, SegmentInBuffer
<1>3. NetTypes /\ HostTypes /\ UnitsInv
  BY DEF TcpInit, NetTypes, HostTypes, UnitsInv
<1>4. CallbackInv /\ LinkInv
  BY DEF TcpInit, CallbackInv, LinkInv
<1>5. QED
  BY <1>1, <1>2, <1>3, <1>4 DEF LinksInv

\* The parts give the type invariant.
LEMMA LinksTypes == LinksInv => TcpTypeOK
BY DEF LinksInv, SessionInv, ParserTypes, NetTypes, HostTypes, UnitsInv, Unit, TcpTypeOK

\* Who has the session, and what may be sent again, for any number of hosts.
THEOREM LinksHold == TcpSpec => []LinksInv
BY LinksInit, LinksStep, PTL DEF TcpSpec

\* uIP never sends again a packet that was freed or replaced: last_packet is what the
\* host has not acknowledged, however callbacks, acknowledgements and connections mix.
THEOREM RetransmitTheorem == TcpSpec => []RetransmitsSame
<1>1. LinksInv => RetransmitsSame
  BY DEF LinksInv, LinkInv, RetransmitsSame
<1>2. QED
  BY <1>1, LinksHold, PTL

\* Only the end of its own connection, or of the link, ends a session.
LEMMA SessionStep ==
    ASSUME LinksInv, [TcpNext]_all, tstate # "HANDSHAKE", tstate' = "HANDSHAKE" \/ peer' # peer
    PROVE  conn'[peer] # "ESTABLISHED"
<1>0. peer \in Hosts /\ conn \in [Hosts -> {"CLOSED", "ESTABLISHED", "FIN_WAIT", "LAST_ACK"}]
  BY DEF LinksInv, LinkInv, NetTypes
<1>1. CASE fastboot_tcp_recv_command
  <2>1. buf # <<>>
    BY <1>1 DEF fastboot_tcp_recv_command
  <2>2. cur = peer
    BY <2>1, InCallback
  <2>3. uip_close(cur)
    BY <1>1 DEF fastboot_tcp_recv_command, EnterHeader
  <2>4. QED
    BY <1>0, <2>2, <2>3 DEF uip_close, Set
<1>2. CASE recv /\ ~fastboot_tcp_recv_command
  BY <1>2 DEF recv, fastboot_tcp_handshake, fastboot_tcp_recv_header,
              fastboot_tcp_recv_segment,
              fastboot_tcp_recv_download, EnterHeader
<1>3. ASSUME NEW h \in Hosts, NEW st, st # "ESTABLISHED", ConnectionEnds(h, st)
      PROVE  conn'[peer] # "ESTABLISHED"
  BY <1>0, <1>3 DEF ConnectionEnds, Set, tcp, fastboot_tcp_is_valid_conn
<1>4. ASSUME NEW h \in Hosts, DeviceEvent(h)
      PROVE  conn'[peer] # "ESTABLISHED"
  <2>1. CASE Segment(h) \/ Ack(h) \/ CloseForeign(h) \/ Rexmit(h) \/ Expires(h)
    BY <2>1 DEF Segment, Ack, Open, CloseForeign, Rexmit, Expires, tcp
  <2>2. QED
    BY <1>3, <1>4, <2>1 DEF DeviceEvent, TimedOut, Fin, LateClose, Rst
<1>5. CASE TcpReinit
  BY <1>0, <1>5 DEF TcpReinit
<1>6. CASE EndCallback \/ LinkLost \/ Exit \/ UNCHANGED all
  BY <1>6 DEF EndCallback, LinkLost, Exit, all, tcp
<1>7. ASSUME NEW h \in Hosts, HostStep(h)
      PROVE  UNCHANGED tcp
  BY <1>7 DEF HostStep, Connect, SendCommand, SendData, HostCloses, HostVanishes, Arrive,
              device
<1>8. QED
  BY <1>1, <1>2, <1>4, <1>5, <1>6, <1>7 DEF TcpNext, tcp

\* No other host, and no late event of an old connection, ends or takes over a session.
THEOREM SessionTheorem == TcpSpec => SessionEndsWithConnection
<1>1. LinksInv /\ [TcpNext]_all =>
        [tstate # "HANDSHAKE" /\ (tstate' = "HANDSHAKE" \/ peer' # peer)
           => conn'[peer] # "ESTABLISHED"]_all
  BY SessionStep
<1>2. QED
  BY <1>1, LinksHold, PTL DEF TcpSpec, SessionEndsWithConnection

-----------------------------------------------------------------------------
(* Replies and stream: steps that leave the session's view of them alone.   *)

\* What the session of the peer is about.
SameView ==
    /\ UNCHANGED <<session, tstate, collected, left, peer>>
    /\ Stream' = Stream /\ Pending' = Pending
    /\ host'[peer] = host[peer] /\ todo'[peer] = todo[peer]

\* Nothing is claimed without a session.
LEMMA NoSession ==
    ASSUME tstate' = "HANDSHAKE"
    PROVE  ReplyInv' /\ StreamInv'
BY DEF ReplyInv, StreamInv, Connected

\* What the session does not notice disturbs neither.
LEMMA ViewStep ==
    ASSUME ReplyInv, StreamInv, SameView
    PROVE  ReplyInv' /\ StreamInv'
<1>1. ReplyInv'
  BY DEF SameView, ReplyInv
<1>2. Connected' = Connected /\ Left' = Left
  BY DEF SameView, Connected, Left, session
<1>3. Quiet' = Quiet
  BY DEF SameView, Quiet, session
<1>4. CommandComes' = CommandComes
  BY DEF SameView, CommandComes, session
<1>5. DataComes' = DataComes
  BY <1>2 DEF SameView, DataComes, session
<1>6. QED
  BY <1>1, <1>2, <1>3, <1>4, <1>5 DEF StreamInv

\* The session's peer, its stream and what it is to get.
LEMMA SessionTypes ==
    ASSUME LinksInv, tstate # "HANDSHAKE"
    PROVE  /\ peer \in Hosts /\ conn[peer] = "ESTABLISHED" /\ buf \in Seq(Unit)
           /\ rx[peer] \in Seq(Unit) /\ Stream \in Seq(Unit)
           /\ out[peer] \in Packets \cup {None} /\ got[peer] \in BOOLEAN /\ txq \in Seq(Packets)
           /\ todo[peer] \in 0 .. MaxDownload /\ collected \in 0 .. HeaderLen /\ left \in Nat
<1>1. peer \in Hosts /\ conn[peer] = "ESTABLISHED"
  BY DEF LinksInv, LinkInv
<1>2. buf \in Seq(Unit) /\ rx[peer] \in Seq(Unit)
  BY <1>1 DEF LinksInv, UnitsInv
<1>3. Stream \in Seq(Unit)
  <2>1. (IF cur = peer THEN buf ELSE <<>>) \in Seq(Unit)
    BY <1>2
  <2>2. QED
    BY <1>2, <2>1 DEF Stream
<1>4. QED
  BY <1>1, <1>2, <1>3 DEF LinksInv, NetTypes, HostTypes, ParserTypes

\* A stream of which nothing is in a callback.
LEMMA EmptyFront ==
    ASSUME NEW s \in Seq(Unit)
    PROVE  <<>> \o s = s
OBVIOUS

\* fastboot_tcp_send_packet gives the first of the replies to uIP.
LEMMA EndView ==
    ASSUME TcpInv, EndCallback
    PROVE  ReplyInv' /\ StreamInv'
<1>0. LinksInv /\ ReplyInv /\ StreamInv
  BY DEF TcpInv
<1>1. CASE tstate = "HANDSHAKE"
  <2>1. tstate' = "HANDSHAKE"
    BY <1>1 DEF EndCallback, CanSend, tcp
  <2>2. QED
    BY <2>1, NoSession
<1>2. CASE tstate # "HANDSHAKE"
  <2>1. cur # None /\ buf = <<>> /\ cur' = None /\ UNCHANGED <<session, buf, conn, rx, host, todo>>
    BY DEF EndCallback
  <2>2. cur = peer
    BY <1>0, <1>2, <2>1 DEF LinksInv, CallbackInv, NetTypes
  <2>3. UNCHANGED <<tstate, collected, left, peer>>
    BY DEF EndCallback, tcp
  <2>4. peer \in Hosts /\ rx[peer] \in Seq(Unit) /\ got[peer] \in BOOLEAN /\ txq \in Seq(Packets)
    BY <1>0, <1>2, SessionTypes
  <2>5. Stream' = Stream
    <3>1. cur' # peer'
      BY <2>1, <2>3, <2>4
    <3>2. Stream' = <<>> \o rx[peer]
      BY <2>1, <2>3, <3>1 DEF Stream
    <3>3. QED
      BY <2>1, <2>2, <3>2 DEF Stream
  <2>6. Pending' = Pending
    <3>1. CASE CanSend
      <4>1. out[peer] = None
        BY <1>0, <2>4, <3>1 DEF CanSend, LinksInv, LinkInv
      <4>2. /\ txq' = Tail(txq) /\ out' = Set(out, peer, Head(txq)) /\ got' = Set(got, peer, FALSE)
        BY <2>2, <3>1, <4>1 DEF EndCallback
      <4>3. out'[peer] = Head(txq) /\ got'[peer] = FALSE
        BY <1>0, <2>4, <4>2 DEF LinksInv, NetTypes, HostTypes, Set
      <4>4. Pending' = PendingOf(Head(txq), FALSE, Tail(txq))
        BY <2>3, <4>2, <4>3 DEF Pending
      <4>5. txq # <<>>
        BY <3>1 DEF CanSend
      <4>6. QED
        BY <2>4, <4>1, <4>4, <4>5, SentPending DEF Pending
    <3>2. CASE ~CanSend
      BY <2>3, <3>2 DEF EndCallback, tcp, Pending
    <3>3. QED
      BY <3>1, <3>2
  <2>7. SameView
    BY <2>1, <2>3, <2>5, <2>6 DEF SameView, session
  <2>8. QED
    BY <1>0, <2>7, ViewStep
<1>3. QED
  BY <1>1, <1>2

\* However TCP cuts the stream, and whatever it acknowledges, both are the same.
LEMMA OpenView ==
    ASSUME TcpInv, NEW h \in Hosts, Polling, fastboot_tcp_is_valid_conn(h),
           NEW n \in 0 .. Len(rx[h]), Open(h, n)
    PROVE  ReplyInv' /\ StreamInv'
<1>0. LinksInv /\ ReplyInv /\ StreamInv
  BY DEF TcpInv
<1>1. /\ Acked(h) /\ cur' = h /\ buf' = SubSeq(rx[h], 1, n)
      /\ rx' = Set(rx, h, SubSeq(rx[h], n + 1, Len(rx[h])))
      /\ UNCHANGED <<session, tstate, collected, left, offset, txq, peer, conn, got, host, todo>>
  BY DEF Open
<1>2. CASE tstate = "HANDSHAKE"
  <2>1. tstate' = "HANDSHAKE"
    BY <1>1, <1>2
  <2>2. QED
    BY <2>1, NoSession
<1>3. CASE tstate # "HANDSHAKE"
  <2>1. peer = h /\ cur = None
    BY <1>3 DEF fastboot_tcp_is_valid_conn, Polling
  <2>2. /\ rx[h] \in Seq(Unit) /\ got[h] \in BOOLEAN /\ txq \in Seq(Packets)
        /\ out[h] \in Packets \cup {None}
    BY <1>0, <1>3, <2>1, SessionTypes
  <2>3. Stream' = Stream
    <3>1. rx'[h] = SubSeq(rx[h], n + 1, Len(rx[h]))
      BY <1>0, <1>1 DEF LinksInv, UnitsInv, Set
    <3>2. Stream' = SubSeq(rx[h], 1, n) \o SubSeq(rx[h], n + 1, Len(rx[h]))
      BY <1>1, <2>1, <3>1 DEF Stream
    <3>3. Stream = <<>> \o rx[h]
      BY <2>1 DEF Stream
    <3>4. QED
      BY <2>2, <3>2, <3>3, CutStream, EmptyFront
  <2>4. Pending' = Pending
    <3>1. CASE out[h] # None /\ got[h]
      <4>1. out'[h] = None /\ got'[h] = TRUE
        BY <1>0, <1>1, <2>2, <3>1 DEF Acked, LinksInv, NetTypes, Set
      <4>2. Pending' = PendingOf(None, TRUE, txq) /\ Pending = PendingOf(out[h], TRUE, txq)
        BY <1>1, <2>1, <2>2, <3>1, <4>1 DEF Pending
      <4>3. PendingOf(None, TRUE, txq) = Kinds(txq) /\ PendingOf(out[h], TRUE, txq) = Kinds(txq)
        BY DEF PendingOf
      <4>4. QED
        BY <4>2, <4>3
    <3>2. CASE ~(out[h] # None /\ got[h])
      BY <1>1, <3>2 DEF Acked, Pending
    <3>3. QED
      BY <3>1, <3>2
  <2>5. SameView
    BY <1>1, <2>3, <2>4 DEF SameView, session
  <2>6. QED
    BY <1>0, <2>5, ViewStep
<1>4. QED
  BY <1>2, <1>3

\* What happens to another connection is none of the session's business.
LEMMA OtherView ==
    ASSUME TcpInv, NEW h \in Hosts, tstate = "HANDSHAKE" \/ peer # h,
           UNCHANGED <<session, tcp, cur, buf>>,
           \A g \in Hosts \ {h} : /\ out'[g] = out[g] /\ got'[g] = got[g] /\ rx'[g] = rx[g]
                                  /\ host'[g] = host[g] /\ todo'[g] = todo[g]
    PROVE  ReplyInv' /\ StreamInv'
<1>0. LinksInv /\ ReplyInv /\ StreamInv
  BY DEF TcpInv
<1>1. CASE tstate = "HANDSHAKE"
  BY <1>1, NoSession DEF tcp
<1>2. CASE tstate # "HANDSHAKE"
  <2>1. peer \in Hosts \ {h}
    BY <1>0, <1>2, SessionTypes
  <2>2. UNCHANGED <<tstate, collected, left, peer, txq, session, cur, buf>>
    BY DEF tcp
  <2>3. Stream' = Stream /\ Pending' = Pending
    BY <2>1, <2>2 DEF Stream, Pending
  <2>4. SameView
    BY <2>1, <2>2, <2>3 DEF SameView
  <2>5. QED
    BY <1>0, <2>4, ViewStep
<1>3. QED
  BY <1>1, <1>2

-----------------------------------------------------------------------------
(* Replies and stream: the turns of fastboot_tcp_recv.                      *)

\* A turn in a session reads n units of its stream.
LEMMA TurnView ==
    ASSUME TcpInv, buf # <<>>, tstate # "HANDSHAKE", NEW n \in 0 .. Len(buf), Consume(n),
           UNCHANGED <<peer, uip, remote>>
    PROVE  /\ peer = cur /\ state # "DISCONNECTED" /\ Behind(Stream, Stream', n)
           /\ Stream # <<>> /\ \A i \in 1 .. Len(buf) : Stream[i] = buf[i]
           /\ host' = host /\ todo' = todo /\ out' = out /\ got' = got
<1>0. LinksInv
  BY DEF TcpInv
<1>1. peer = cur /\ state # "DISCONNECTED" /\ Len(buf) \in Nat \ {0}
  BY <1>0, InCallback
<1>2. buf \in Seq(Unit) /\ rx[peer] \in Seq(Unit)
  BY <1>0, SessionTypes
<1>3. Stream = buf \o rx[peer] /\ Stream' = SubSeq(buf, n + 1, Len(buf)) \o rx[peer]
  BY <1>1 DEF Stream, Consume, remote
<1>4. Behind(Stream, Stream', n)
  BY <1>2, <1>3, ConsumedStream
<1>5. /\ \A i \in 1 .. Len(buf) : (buf \o rx[peer])[i] = buf[i]
      /\ Len(buf \o rx[peer]) = Len(buf) + Len(rx[peer]) /\ Len(rx[peer]) \in Nat
  BY <1>2, Joined
<1>6. Stream # <<>>
  <2>1. Len(Stream) = Len(buf) + Len(rx[peer])
    BY <1>3, <1>5
  <2>2. Len(Stream) # 0
    BY <1>1, <1>5, <2>1
  <2>3. QED
    BY <2>2
<1>7. QED
  BY <1>1, <1>3, <1>4, <1>5, <1>6 DEF uip, remote

\* Part of a header is read, or the rest of it.
LEMMA HeaderView ==
    ASSUME TcpInv, fastboot_tcp_recv_header
    PROVE  ReplyInv' /\ StreamInv'
<1> DEFINE n == HeaderPart
<1>0. LinksInv /\ ReplyInv /\ StreamInv
  BY DEF TcpInv
<1>1. /\ tstate = "HEADER" /\ buf # <<>> /\ Consume(n)
      /\ UNCHANGED <<session, offset, txq, last_packet, peer, uip, remote>>
      /\ IF collected + n = HeaderLen
         THEN /\ collected' = 0
              /\ left' = buf[n][2].len
              /\ tstate' = IF state = "DOWNLOAD" THEN "DOWNLOAD" ELSE "COMMAND"
         ELSE collected' = collected + n /\ UNCHANGED <<left, tstate>>
  BY DEF fastboot_tcp_recv_header
<1>2. Len(buf) \in Nat \ {0} /\ collected \in 0 .. HeaderLen - 1 /\ HeaderLen \in Nat
  BY <1>0, <1>1, InCallback, Lengths DEF LinksInv, ParserTypes, ParserInv
<1>3. n \in 1 .. Len(buf) /\ n \in 1 .. HeaderLen - collected /\ n \in 0 .. Len(buf)
  BY <1>2 DEF HeaderPart, MinOf
<1> HIDE DEF n
<1>4. /\ peer = cur /\ state # "DISCONNECTED" /\ Behind(Stream, Stream', n)
      /\ Stream # <<>> /\ Stream[n] = buf[n]
      /\ host' = host /\ todo' = todo /\ out' = out /\ got' = got
  BY <1>1, <1>3, TurnView
<1>5. Pending' = Pending /\ Left' = Left
  BY <1>1, <1>4 DEF Pending, Left, session
<1>6. ReplyInv'
  BY <1>0, <1>1, <1>4, <1>5 DEF ReplyInv
<1>7. collected + n = HeaderLen <=> n = HeaderLen - collected
  BY <1>2, <1>3
<1>8. ASSUME Connected' PROVE CommandComes' \/ DataComes'
  <2>1. Connected
    BY <1>1, <1>4, <1>8 DEF Connected, session
  <2>2. CommandComes \/ DataComes
    BY <1>0, <1>4, <2>1 DEF StreamInv, Quiet
  <2>3. CASE CommandComes
    <3>1. PICK m \in Requests :
            todo[peer] = m.size /\ CommandIn(Stream, m, "HEADER", collected, left)
      BY <1>1, <2>3 DEF CommandComes
    <3>2. /\ Stream[n] = <<"header", m>>
          /\ CommandIn(Stream', m, "HEADER", collected + n, left)
          /\ n = HeaderLen - collected => CommandIn(Stream', m, "COMMAND", 0, m.len)
      <4>1. CommandIn(Stream, m, "HEADER", collected, left) /\ Behind(Stream, Stream', n)
        BY <1>4, <3>1
      <4>2. collected \in 0 .. HeaderLen - 1 /\ n \in 1 .. HeaderLen - collected
        BY <1>2, <1>3
      <4>3. CommandIn(Stream', m, "HEADER", collected + n, left)
        BY <4>1, <4>2, CommandHeaderRead
      <4>4. Stream[n] = <<"header", m>>
        BY <1>2, <4>1, <4>2 DEF CommandIn, Run
      <4>5. n = HeaderLen - collected => CommandIn(Stream', m, "COMMAND", 0, m.len)
        BY <4>1, <4>2, <4>3, CommandHeaderRead
      <4>6. QED
        BY <4>3, <4>4, <4>5
    <3>3. buf[n][2].len = m.len /\ state # "DOWNLOAD"
      BY <1>4, <2>3, <3>2 DEF CommandComes
    <3>4. CommandIn(Stream', m, tstate', collected', left')
      BY <1>1, <1>7, <3>2, <3>3
    <3>5. QED
      BY <1>1, <1>4, <1>5, <2>3, <3>1, <3>4 DEF CommandComes, session
  <2>4. CASE DataComes
    <3> DEFINE d == Left - todo[peer]
    <3>1. DataIn(Stream, d, "HEADER", collected, left) /\ state = "DOWNLOAD"
      BY <1>1, <1>4, <2>4 DEF DataComes
    <3> HIDE DEF d
    <3>2. PICK x \in 1 .. MaxDownload :
            /\ Stream[n] = <<"header", Data(x)>>
            /\ DataIn(Stream', d, "HEADER", collected + n, left)
            /\ n = HeaderLen - collected => DataIn(Stream', d, "DOWNLOAD", 0, x)
      BY <1>2, <1>3, <1>4, <3>1, DataHeaderRead
    <3>3. buf[n][2].len = x
      BY <1>4, <3>2 DEF Data
    <3>4. DataIn(Stream', d, tstate', collected', left')
      BY <1>1, <1>7, <3>1, <3>2, <3>3
    <3>5. QED
      BY <1>1, <1>4, <1>5, <2>4, <3>4 DEF DataComes, session, d
  <2>5. QED
    BY <2>2, <2>3, <2>4
<1>9. QED
  BY <1>6, <1>8 DEF StreamInv

\* Answers are neither empty nor DATA.
LEMMA AnswerKinds ==
    ASSUME NEW r \in Answers
    PROVE  r # <<>> /\ r # <<"DATA">>
<1>1. /\ <<"FAIL">> # <<>> /\ <<"INFO", "FAIL">> # <<>> /\ <<"OKAY">> # <<>>
      /\ <<"INFO", "OKAY">> # <<>>
  OBVIOUS
<1>2. /\ <<"FAIL">> # <<"DATA">> /\ <<"INFO", "FAIL">> # <<"DATA">> /\ <<"OKAY">> # <<"DATA">>
      /\ <<"INFO", "OKAY">> # <<"DATA">>
  OBVIOUS
<1>3. QED
  BY <1>1, <1>2, Zenon DEF Answers, Fails

\* A turn in which a session's host is gone claims nothing.
LEMMA GoneView ==
    ASSUME host'[peer'] = "gone"
    PROVE  ReplyInv' /\ StreamInv'
BY DEF ReplyInv, StreamInv, Connected

\* A command that has arrived whole is answered, and nothing else is on its way.
LEMMA CommandView ==
    ASSUME TcpInv, buf # <<>>, tstate \in {"COMMAND", "SEGMENT"}, left \in 0 .. Len(buf),
           Consume(left), NEW k, fastboot_handle_packet(buf[1][2], k), EnterHeader,
           UNCHANGED <<last_packet, peer, uip, remote>>
    PROVE  ReplyInv' /\ StreamInv'
<1>0. LinksInv /\ ReplyInv /\ StreamInv
  BY DEF TcpInv
<1>1. /\ peer = cur /\ state # "DISCONNECTED" /\ Behind(Stream, Stream', left)
      /\ \A i \in 1 .. Len(buf) : Stream[i] = buf[i]
      /\ host' = host /\ todo' = todo /\ out' = out /\ got' = got /\ peer' = peer
  BY TurnView
<1>2. /\ Len(buf) \in Nat \ {0} /\ state \in {"FINISHED", "REBOOT"} => txq # <<>>
  BY <1>0, InCallback
<1>3. left \in Nat \ {0} /\ state # "DOWNLOAD" /\ TypeOK
  BY <1>0 DEF LinksInv, ParserInv, SessionInv
<1>4. CASE host[peer] = "gone"
  BY <1>1, <1>4, GoneView
<1>5. CASE host[peer] # "gone"
  <2>1. CommandComes
    BY <1>0, <1>1, <1>3, <1>5 DEF StreamInv, Connected, Quiet, DataComes
  <2>2. PICK m \in Requests :
          todo[peer] = m.size /\ CommandIn(Stream, m, tstate, collected, left)
    BY <2>1 DEF CommandComes
  <2>5. Stream' = <<>>
    <3>1. Len(Stream) = left
      BY <2>2 DEF CommandIn
    <3>2. Len(Stream') = 0 /\ Stream' \in Seq(Unit)
      BY <1>1, <1>3, <3>1 DEF Behind
    <3>3. QED
      BY <3>2
  <2>6. buf[1] = <<"command", m>>
    BY <1>1, <1>2, <1>3, <2>2 DEF CommandIn, Run
  <2>7. host[peer] = "sent" /\ Pending = <<>>
    BY <2>1 DEF CommandComes
  <2>8. peer \in Hosts /\ got[peer] \in BOOLEAN /\ txq \in Seq(Packets)
    BY <1>0, SessionTypes
  <2>9. txq = <<>> /\ (out[peer] = None \/ got[peer])
    BY <2>7, <2>8, NonePending DEF Pending
  <2>10. state = "COMMAND"
    BY <1>1, <1>2, <1>3, <2>9 DEF TypeOK
  <2>11. PICK r \in Responses :
           fastboot_handle_command(m.cmd, m.size, r) /\ txq' = <<>> \o Replies(r)
    <3>1. buf[1][2] = m
      BY <2>6
    <3>2. QED
      BY <2>9, <2>10, <3>1 DEF fastboot_handle_packet, fastboot_handle_download,
                               IgnorePacket,
                               fastboot_is_finished
  <2>12. Pending' = r
    <3>1. Pending' = PendingOf(out[peer], got[peer], <<>> \o Replies(r))
      BY <1>1, <2>11 DEF Pending
    <3>2. QED
      BY <1>3, <2>8, <2>9, <3>1, RepliesPending
  <2>13. m.size \in Nat /\ (m.size > 0 <=> m.cmd = "download")
    BY MessageType DEF Messages
  <2>14. /\ \/ r \in Answers /\ state' # "DOWNLOAD"
            \/ /\ m.cmd = "upload" /\ r = <<"DATA", "PAYLOAD", "OKAY">> /\ state' # "DOWNLOAD"
            \/ /\ m.cmd = "download" /\ r = <<"DATA">> /\ state' = "DOWNLOAD"
               /\ memory_buffer_len' = m.size /\ download_progress' = 0
    BY <2>11, CommandReplies
  <2>15. /\ <<"DATA", "PAYLOAD", "OKAY">> # <<>> /\ <<"DATA", "PAYLOAD", "OKAY">> # <<"DATA">>
         /\ <<"DATA">> # <<>>
    OBVIOUS
  <2>16. Awaits("sent", m.size, r)
    BY <2>13, <2>14 DEF Awaits
  <2>17. /\ r # <<>>
         /\ r = <<"DATA">> => /\ state' = "DOWNLOAD" /\ m.size = memory_buffer_len'
                              /\ download_progress' = 0
         /\ r # <<"DATA">> => state' # "DOWNLOAD"
    BY <2>14, <2>15, AnswerKinds
  <2>18. ReplyInv'
    BY <1>1, <2>2, <2>7, <2>12, <2>16 DEF ReplyInv
  <2>19. tstate' = "HEADER" /\ collected' = 0
    BY DEF EnterHeader
  <2>20. Quiet'
    BY <1>1, <2>2, <2>5, <2>7, <2>12, <2>17, <2>19 DEF Quiet
  <2>21. QED
    BY <2>18, <2>20 DEF StreamInv
<1>6. QED
  BY <1>4, <1>5

\* A command that comes in part stays the command that is being read.
LEMMA PartView ==
    ASSUME TcpInv, tstate \in {"COMMAND", "SEGMENT"}, tstate' = "SEGMENT", state # "DISCONNECTED",
           UNCHANGED <<session, collected, txq, peer, out, got, host, todo>>,
           NEW n \in 0 .. left, Behind(Stream, Stream', n), left' = left - n
    PROVE  ReplyInv' /\ StreamInv'
<1>0. LinksInv /\ ReplyInv /\ StreamInv
  BY DEF TcpInv
<1>1. left \in Nat \ {0} /\ state # "DOWNLOAD"
  BY <1>0 DEF LinksInv, ParserInv
<1>2. Pending' = Pending
  BY DEF Pending
<1>3. ReplyInv'
  BY <1>0, <1>2 DEF ReplyInv
<1>4. ASSUME Connected' PROVE CommandComes'
  <2>1. Connected
    BY <1>4 DEF Connected
  <2>2. CommandComes
    BY <1>0, <1>1, <2>1 DEF StreamInv, Quiet, DataComes
  <2>3. PICK m \in Requests :
          todo[peer] = m.size /\ CommandIn(Stream, m, tstate, collected, left)
    BY <2>2 DEF CommandComes
  <2>4. CommandIn(Stream', m, "SEGMENT", collected, left - n)
    <3>1. Len(Stream) = left /\ Run(Stream, "command", m, 0, left)
      BY <2>3 DEF CommandIn
    <3>2. n \in Nat /\ n <= left /\ left <= Len(Stream)
      BY <1>1, <3>1
    <3>3. Run(Stream', "command", m, 0, left - n)
      BY <1>1, <3>1, <3>2, RunRead
    <3>4. Len(Stream') = left - n
      BY <3>1 DEF Behind
    <3>5. QED
      BY <3>3, <3>4 DEF CommandIn
  <2>5. QED
    BY <1>2, <2>2, <2>3, <2>4 DEF CommandComes, session
<1>5. QED
  BY <1>3, <1>4 DEF StreamInv

\* The turns that read a command.
LEMMA CommandTurnView ==
    ASSUME TcpInv, fastboot_tcp_recv_command \/ fastboot_tcp_recv_segment
    PROVE  ReplyInv' /\ StreamInv'
<1>0. LinksInv
  BY DEF TcpInv
<1>1. CASE fastboot_tcp_recv_command
  <2>0. tstate = "COMMAND" /\ buf # <<>>
    BY <1>1 DEF fastboot_tcp_recv_command
  <2>1. /\ left \in Nat \ {0} /\ Len(buf) \in Nat \ {0} /\ state # "DISCONNECTED"
        /\ Stream \in Seq(Unit)
    BY <1>0, <2>0, InCallback, SessionTypes DEF LinksInv, ParserInv
  <2>2. CASE /\ Len(buf) >= left
             /\ fastboot_handle_packet(buf[1][2], left)
             /\ EnterHeader
             /\ Consume(left)
             /\ UNCHANGED <<last_packet, peer, uip, remote>>
    <3>1. left \in 0 .. Len(buf)
      BY <2>1, <2>2
    <3>2. QED
      BY <2>0, <2>2, <3>1, CommandView
  <2>3. CASE /\ tstate' = "SEGMENT"
             /\ UNCHANGED <<session, collected, left, txq, last_packet, peer,
                            cur, buf, uip, remote>>
    <3>1. Stream' = Stream
      BY <2>3 DEF Stream, remote
    <3>2. Behind(Stream, Stream', 0) /\ 0 \in 0 .. left /\ left' = left - 0
      BY <2>1, <2>3, <3>1 DEF Behind
    <3>3. UNCHANGED <<session, collected, txq, peer, out, got, host, todo>>
      BY <2>3 DEF uip, remote
    <3>4. QED
      BY <2>0, <2>1, <2>3, <3>2, <3>3, PartView
  <2>4. CASE fastboot_tcp_reset
    BY <2>4, NoSession DEF fastboot_tcp_reset
  <2>5. QED
    BY <1>1, <2>2, <2>3, <2>4 DEF fastboot_tcp_recv_command
<1>2. CASE fastboot_tcp_recv_segment
  <2> DEFINE n == MinOf(left, Len(buf))
  <2>0. /\ tstate = "SEGMENT" /\ buf # <<>> /\ Consume(n)
        /\ IF left = n
           THEN fastboot_handle_packet(buf[1][2], offset + n) /\ EnterHeader
           ELSE /\ offset' = offset + n /\ left' = left - n
                /\ UNCHANGED <<session, txq, tstate, collected>>
        /\ UNCHANGED <<last_packet, peer, uip, remote>>
    BY <1>2 DEF fastboot_tcp_recv_segment
  <2>1. /\ left \in Nat \ {0} /\ Len(buf) \in Nat \ {0} /\ state # "DISCONNECTED"
    BY <1>0, <2>0, InCallback DEF LinksInv, ParserInv
  <2>2. n \in 0 .. Len(buf) /\ n \in 0 .. left
    BY <2>1 DEF MinOf
  <2> HIDE DEF n
  <2>3. CASE left = n
    BY <2>0, <2>2, <2>3, CommandView
  <2>4. CASE left # n
    <3>1. Behind(Stream, Stream', n)
      BY <2>0, <2>2, TurnView
    <3>2. UNCHANGED <<session, collected, txq, peer, out, got, host, todo>>
      BY <2>0, <2>4 DEF uip, remote
    <3>3. QED
      BY <2>0, <2>1, <2>2, <2>4, <3>1, <3>2, PartView
  <2>5. QED
    BY <2>3, <2>4
<1>3. QED
  BY <1>1, <1>2

\* A chunk of data is what the device expects; the last one completes the download.
LEMMA DataView ==
    ASSUME TcpInv, fastboot_tcp_recv_download
    PROVE  ReplyInv' /\ StreamInv'
<1> DEFINE n == MinOf(left, Len(buf))
           d == Left - todo[peer]
<1>0. LinksInv /\ ReplyInv /\ StreamInv
  BY DEF TcpInv
<1>1. /\ tstate = "DOWNLOAD" /\ buf # <<>> /\ Consume(n)
      /\ fastboot_handle_packet(buf[1][2], n)
      /\ IF left = n
         THEN EnterHeader
         ELSE left' = left - n /\ UNCHANGED <<tstate, collected, offset>>
      /\ UNCHANGED <<last_packet, peer, uip, remote>>
  BY DEF fastboot_tcp_recv_download
<1>2. Len(buf) \in Nat \ {0} /\ left \in Nat \ {0} /\ TypeOK /\ DownloadInv
  BY <1>0, <1>1, InCallback DEF LinksInv, ParserInv, SessionInv
<1>3. n \in 1 .. left /\ n \in 0 .. Len(buf)
  BY <1>2 DEF MinOf
<1> HIDE DEF n
<1>4. /\ peer = cur /\ state # "DISCONNECTED" /\ Behind(Stream, Stream', n)
      /\ host' = host /\ todo' = todo /\ out' = out /\ got' = got /\ peer' = peer
  BY <1>1, <1>3, TurnView
<1>5. CASE host[peer] = "gone"
  BY <1>4, <1>5, GoneView
<1>6. CASE host[peer] # "gone"
  <2>1. DataComes
    BY <1>0, <1>1, <1>4, <1>6 DEF StreamInv, Connected, Quiet, CommandComes, CommandIn
  <2>2. /\ host[peer] \in {"sending", "waiting"} /\ Pending = <<>> /\ state = "DOWNLOAD"
        /\ DataIn(Stream, d, "DOWNLOAD", collected, left)
    BY <1>1, <2>1 DEF DataComes
  <2> HIDE DEF d
  <2>3. /\ d \in Nat /\ n <= d
        /\ n < left => n < d /\ DataIn(Stream', d - n, "DOWNLOAD", collected, left - n)
        /\ n = left => \/ Stream' = <<>> /\ n = d
                       \/ n < d /\ DataIn(Stream', d - n, "HEADER", 0, 0)
    BY <1>2, <1>3, <1>4, <2>2, DataRead
  <2>4. /\ Left \in Nat /\ todo[peer] \in Nat /\ d = Left - todo[peer]
    <3>1. memory_buffer_len \in Nat /\ download_progress \in Nat
          /\ download_progress <= memory_buffer_len
      BY <1>2, <2>2 DEF TypeOK, DownloadInv
    <3>2. todo[peer] \in Nat
      BY <1>0, <1>1, SessionTypes
    <3>3. Left \in Nat
      BY <3>1 DEF Left
    <3>4. QED
      BY <3>2, <3>3 DEF d
  <2>5. peer \in Hosts /\ got[peer] \in BOOLEAN /\ txq \in Seq(Packets)
    BY <1>0, <1>1, SessionTypes
  <2>6. txq = <<>> /\ (out[peer] = None \/ got[peer])
    BY <2>2, <2>5, NonePending DEF Pending
  <2>7. PICK r \in Responses : fastboot_handle_download(n, r) /\ txq' = <<>> \o Replies(r)
    BY <1>1, <2>2, <2>6 DEF fastboot_handle_packet, fastboot_handle_command, IgnorePacket,
                            fastboot_is_finished
  <2>8. Pending' = r
    <3>1. Pending' = PendingOf(out[peer], got[peer], <<>> \o Replies(r))
      BY <1>4, <2>7 DEF Pending
    <3>2. QED
      BY <1>2, <2>5, <2>6, <3>1, RepliesPending
  <2>9. n <= Left /\ (n = Left => todo[peer] = 0 /\ n = d) /\ (n < Left /\ n = d => todo[peer] > 0)
    <3>1. n \in Nat
      BY <1>2, <1>3
    <3>2. QED
      BY <2>3, <2>4, <3>1
  <2>10. Awaits(host[peer], todo[peer], <<>>)
    BY <1>0, <1>1, <1>6, <2>2 DEF ReplyInv
  <2>11. CASE n = Left
    <3>1. r = <<"OKAY">> /\ state' = "COMMAND"
      BY <2>4, <2>7, <2>9, <2>11 DEF fastboot_handle_download, TooMuch, Complete
    <3>2. todo[peer] = 0 /\ host[peer] = "waiting"
      BY <2>2, <2>9, <2>10, <2>11 DEF Awaits
    <3>3. n = left /\ Stream' = <<>>
      BY <1>2, <1>3, <2>3, <2>4, <2>9, <2>11
    <3>4. tstate' = "HEADER" /\ collected' = 0
      BY <1>1, <3>3 DEF EnterHeader
    <3>5. Awaits("waiting", 0, <<"OKAY">>) /\ <<"OKAY">> # <<>> /\ <<"OKAY">> # <<"DATA">>
      BY DEF Awaits
    <3>6. ReplyInv'
      BY <1>4, <2>8, <3>1, <3>2, <3>5 DEF ReplyInv
    <3>7. Quiet'
      BY <1>4, <2>8, <3>1, <3>2, <3>3, <3>4, <3>5 DEF Quiet
    <3>8. QED
      BY <3>6, <3>7 DEF StreamInv
  <2>12. CASE n < Left
    <3>1. /\ r = <<>> /\ state' = "DOWNLOAD" /\ memory_buffer_len' = memory_buffer_len
          /\ download_progress' = download_progress + n
      BY <1>3, <2>2, <2>4, <2>7, <2>12 DEF fastboot_handle_download, TooMuch, Complete
    <3>2. ReplyInv'
      BY <1>4, <1>6, <2>8, <2>10, <3>1 DEF ReplyInv
    <3>3. Left' = Left - n /\ Left' - todo[peer] = d - n
      <4>1. memory_buffer_len \in Nat /\ download_progress \in Nat /\ n \in Nat
        BY <1>2, <1>3 DEF TypeOK
      <4>2. Left' = Left - n
        BY <3>1, <4>1 DEF Left
      <4>3. QED
        BY <2>4, <4>1, <4>2
    <3>4. CASE n < left
      <4>1. tstate' = "DOWNLOAD" /\ collected' = collected /\ left' = left - n
        BY <1>1, <1>2, <1>3, <3>4
      <4>2. DataIn(Stream', Left' - todo'[peer'], tstate', collected', left')
        BY <1>4, <2>3, <3>3, <3>4, <4>1
      <4>3. DataComes'
        BY <1>4, <2>2, <2>8, <3>1, <4>2 DEF DataComes
      <4>4. QED
        BY <3>2, <4>3 DEF StreamInv
    <3>5. CASE n = left
      <4>1. tstate' = "HEADER" /\ collected' = 0 /\ left' = 0
        BY <1>1, <3>5 DEF EnterHeader
      <4>2. \/ Stream' = <<>> /\ n = d
            \/ DataIn(Stream', Left' - todo'[peer'], tstate', collected', left')
        BY <1>4, <2>3, <3>3, <3>5, <4>1
      <4>3. n = d => todo'[peer'] = Left' /\ todo'[peer'] > 0
        <5>1. n \in Nat
          BY <1>3
        <5>2. QED
          BY <1>4, <2>4, <2>9, <2>12, <3>3, <5>1
      <4>4. DataComes'
        BY <1>4, <2>2, <2>8, <3>1, <4>1, <4>2, <4>3 DEF DataComes
      <4>5. QED
        BY <3>2, <4>4 DEF StreamInv
    <3>6. QED
      BY <1>2, <1>3, <3>4, <3>5
  <2>13. QED
    BY <1>2, <1>3, <2>4, <2>9, <2>11, <2>12
<1>7. QED
  BY <1>5, <1>6

\* A handshake that is answered was all that its host has sent.
LEMMA HandshakeView ==
    ASSUME TcpInv, fastboot_tcp_handshake
    PROVE  ReplyInv' /\ StreamInv'
<1>0. LinksInv /\ HelloInv /\ tstate = "HANDSHAKE" /\ buf # <<>>
  BY DEF TcpInv, fastboot_tcp_handshake
<1>1. CASE /\ Len(buf) >= HandshakeLen
           /\ txq' = Append(txq, Packet("HS", 0))
           /\ peer' = cur
           /\ EnterHeader
           /\ Consume(HandshakeLen)
           /\ UNCHANGED <<session, last_packet, uip, remote>>
  <2>1. /\ cur \in Hosts /\ conn[cur] = "ESTABLISHED" /\ buf \in Seq(Unit)
        /\ rx[cur] \in Seq(Unit)
    BY <1>0, InCallback DEF LinksInv, UnitsInv
  <2>2. txq = <<>> /\ out[cur] = None /\ state # "DOWNLOAD"
    BY <1>0, <2>1 DEF LinksInv, LinkInv, ParserInv
  <2>3. /\ host' = host /\ out' = out /\ cur' = cur /\ rx' = rx /\ state' = state
        /\ tstate' = "HEADER" /\ collected' = 0 /\ buf' = SubSeq(buf, HandshakeLen + 1, Len(buf))
    BY <1>1 DEF uip, remote, session, EnterHeader, Consume
  <2>4. CASE host[cur] = "gone"
    BY <1>1, <2>3, <2>4, GoneView
  <2>5. CASE host[cur] # "gone"
    <3>1. host[cur] \in {"hello", "closing"} /\ Len(Incoming(cur)) = HandshakeLen
      BY <1>0, <2>1, <2>5 DEF HelloInv, InSession
    <3>2. Len(buf) + Len(rx[cur]) = HandshakeLen /\ Len(buf) \in Nat /\ Len(rx[cur]) \in Nat
      BY <2>1, <3>1, Joined DEF Incoming
    <3>3. Len(rx[cur]) = 0 /\ Len(buf) = HandshakeLen /\ HandshakeLen \in 0 .. Len(buf)
      BY <1>1, <3>2, Lengths
    <3>4. buf' \in Seq(Unit) /\ Len(buf') = Len(buf) - HandshakeLen
      BY <2>1, <2>3, <3>3, PartType
    <3>5. buf' = <<>> /\ rx[cur] = <<>>
      BY <2>1, <3>2, <3>3, <3>4
    <3>6. Stream' = <<>>
      BY <1>1, <2>3, <3>5 DEF Stream
    <3>7. Pending' = <<"HS">>
      BY <1>1, <2>2, <2>3, HandshakePending DEF Pending
    <3>8. <<"HS">> # <<>> /\ <<"HS">> # <<"DATA">>
      OBVIOUS
    <3>9. ReplyInv'
      BY <1>1, <2>3, <3>1, <3>7 DEF ReplyInv, Awaits
    <3>10. Quiet'
      BY <1>1, <2>2, <2>3, <3>1, <3>6, <3>7, <3>8 DEF Quiet
    <3>11. QED
      BY <3>9, <3>10 DEF StreamInv
  <2>6. QED
    BY <2>4, <2>5
<1>2. CASE UNCHANGED <<session, tcp, cur>>
  BY <1>0, <1>2, NoSession DEF tcp
<1>3. QED
  BY <1>1, <1>2 DEF fastboot_tcp_handshake

-----------------------------------------------------------------------------
(* Replies and stream: the other steps.                                     *)

\* The events of a connection.
LEMMA EventView ==
    ASSUME TcpInv, NEW h \in Hosts, DeviceEvent(h)
    PROVE  ReplyInv' /\ StreamInv'
<1>0. LinksInv /\ ReplyInv /\ StreamInv /\ rx[h] \in Seq(Unit)
  BY DEF TcpInv, LinksInv, UnitsInv
<1>1. CASE Segment(h)
  <2>1. PICK n \in 1 .. Len(rx[h]) : Open(h, n)
    BY <1>1 DEF Segment
  <2>2. n \in 0 .. Len(rx[h])
    BY <1>0, <2>1
  <2>3. QED
    BY <1>1, <2>1, <2>2, OpenView DEF Segment
<1>2. CASE Ack(h)
  <2>1. 0 \in 0 .. Len(rx[h])
    BY <1>0
  <2>2. QED
    BY <1>2, <2>1, OpenView DEF Ack
<1>3. CASE CloseForeign(h)
  <2>1. peer # h /\ UNCHANGED <<session, tcp, cur, buf>> /\ uip_close(h)
    BY <1>3 DEF CloseForeign, fastboot_tcp_is_valid_conn
  <2>2. \A g \in Hosts \ {h} : /\ out'[g] = out[g] /\ got'[g] = got[g] /\ rx'[g] = rx[g]
                               /\ host'[g] = host[g] /\ todo'[g] = todo[g]
    BY <1>0, <2>1 DEF uip_close, Set, LinksInv, NetTypes, UnitsInv
  <2>3. QED
    BY <2>1, <2>2, OtherView
<1>4. CASE Rexmit(h)
  <2>1. out' = out
    BY <1>0, <1>4, RexmitLinks
  <2>2. UNCHANGED <<session, tcp, cur, buf, remote>>
    BY <1>4 DEF Rexmit
  <2>3. SameView
    BY <2>1, <2>2 DEF SameView, Stream, Pending, tcp, remote
  <2>4. QED
    BY <1>0, <2>3, ViewStep
<1>5. ASSUME NEW st, ConnectionEnds(h, st),
             \A g \in Hosts \ {h} : /\ got'[g] = got[g] /\ rx'[g] = rx[g]
                                    /\ host'[g] = host[g] /\ todo'[g] = todo[g]
      PROVE  ReplyInv' /\ StreamInv'
  <2>1. CASE fastboot_tcp_is_valid_conn(h)
    BY <1>5, <2>1, NoSession DEF ConnectionEnds, fastboot_tcp_reset
  <2>2. CASE ~fastboot_tcp_is_valid_conn(h)
    <3>1. peer # h /\ UNCHANGED <<session, tcp, cur, buf>> /\ out' = Set(out, h, None)
      BY <1>5, <2>2 DEF ConnectionEnds, fastboot_tcp_is_valid_conn
    <3>2. \A g \in Hosts \ {h} : out'[g] = out[g]
      BY <1>0, <3>1 DEF Set, LinksInv, NetTypes
    <3>3. QED
      BY <1>5, <3>1, <3>2, OtherView
  <2>3. QED
    BY <2>1, <2>2
<1>6. ASSUME NEW phase, HostEnds(h, phase)
      PROVE  \A g \in Hosts \ {h} : /\ got'[g] = got[g] /\ rx'[g] = rx[g]
                                    /\ host'[g] = host[g] /\ todo'[g] = todo[g]
  BY <1>0, <1>6 DEF HostEnds, Set, LinksInv, HostTypes, UnitsInv
<1>7. CASE TimedOut(h) \/ LateClose(h) \/ Rst(h)
  BY <1>5, <1>6, <1>7 DEF TimedOut, LateClose, Rst
<1>8. CASE Fin(h)
  BY <1>5, <1>8 DEF Fin, remote
<1>9. CASE Expires(h)
  <2>1. /\ conn[h] = "FIN_WAIT" /\ HostEnds(h, "closed")
        /\ UNCHANGED <<session, tcp, cur, buf, out, nrtx>>
    BY <1>9 DEF Expires
  <2>2. tstate = "HANDSHAKE" \/ peer # h
    BY <1>0, <2>1 DEF LinksInv, LinkInv
  <2>3. QED
    BY <1>6, <2>1, <2>2, OtherView
<1>10. QED
  BY <1>1, <1>2, <1>3, <1>4, <1>7, <1>8, <1>9 DEF DeviceEvent

\* The loss of the link, the next fastboot_init, the end of the loop, and nothing at all.
LEMMA LoopView ==
    ASSUME TcpInv, LinkLost \/ TcpReinit \/ Exit \/ UNCHANGED all
    PROVE  ReplyInv' /\ StreamInv'
<1>0. ReplyInv /\ StreamInv
  BY DEF TcpInv
<1>1. CASE LinkLost
  <2>1. state' = "DISCONNECTED" /\ UNCHANGED <<tcp, cur, buf, uip, remote>>
    BY <1>1 DEF LinkLost, Disconnect
  <2>2. Pending' = Pending
    BY <2>1 DEF Pending, tcp, uip, remote
  <2>3. ReplyInv'
    BY <1>0, <2>1, <2>2 DEF ReplyInv, tcp, remote
  <2>4. QED
    BY <2>1, <2>3 DEF StreamInv, Connected
<1>2. CASE TcpReinit
  BY <1>2, NoSession DEF TcpReinit, fastboot_tcp_reset
<1>3. CASE Exit \/ UNCHANGED all
  <2>1. UNCHANGED <<session, tcp, cur, buf, uip, remote>>
    BY <1>3 DEF Exit, all
  <2>2. SameView
    BY <2>1 DEF SameView, Stream, Pending, tcp, uip, remote
  <2>3. QED
    BY <1>0, <2>2, ViewStep
<1>4. QED
  BY <1>1, <1>2, <1>3

\* Joining streams is associative.
LEMMA JoinedTwice ==
    ASSUME NEW a \in Seq(Unit), NEW b \in Seq(Unit), NEW c \in Seq(Unit)
    PROVE  a \o (b \o c) = (a \o b) \o c
<1> DEFINE p == a \o b
           q == b \o c
<1>1. /\ p \in Seq(Unit) /\ Len(p) = Len(a) + Len(b)
      /\ Len(a) \in Nat /\ Len(b) \in Nat /\ Len(c) \in Nat
      /\ \A i \in 1 .. Len(a) : p[i] = a[i]
      /\ \A i \in 1 .. Len(b) : p[Len(a) + i] = b[i]
  BY Joined
<1>2. /\ q \in Seq(Unit) /\ Len(q) = Len(b) + Len(c)
      /\ \A i \in 1 .. Len(b) : q[i] = b[i]
      /\ \A i \in 1 .. Len(c) : q[Len(b) + i] = c[i]
  BY Joined
<1> HIDE DEF p, q
<1>3. /\ a \o q \in Seq(Unit) /\ Len(a \o q) = Len(a) + Len(q)
      /\ \A i \in 1 .. Len(a) : (a \o q)[i] = a[i]
      /\ \A i \in 1 .. Len(q) : (a \o q)[Len(a) + i] = q[i]
  BY <1>2, Joined
<1>4. /\ p \o c \in Seq(Unit) /\ Len(p \o c) = Len(p) + Len(c)
      /\ \A i \in 1 .. Len(p) : (p \o c)[i] = p[i]
      /\ \A i \in 1 .. Len(c) : (p \o c)[Len(p) + i] = c[i]
  BY <1>1, Joined
<1>5. PICK x \in Nat, y \in Nat, z \in Nat : x = Len(a) /\ y = Len(b) /\ z = Len(c)
  BY <1>1
<1>6. Len(a \o q) = x + y + z /\ Len(p \o c) = x + y + z /\ Len(p) = x + y /\ Len(q) = y + z
  BY <1>1, <1>2, <1>3, <1>4, <1>5
<1>7. ASSUME NEW i \in 1 .. x + y + z PROVE (a \o q)[i] = (p \o c)[i]
  <2>0. i \in 1 .. x \/ i \in x + 1 .. x + y \/ i \in x + y + 1 .. x + y + z
    OBVIOUS
  <2>1. CASE i \in 1 .. x
    <3>1. i \in 1 .. x + y
      BY <2>1
    <3>2. QED
      BY <1>1, <1>3, <1>4, <1>5, <1>6, <2>1, <3>1
  <2>2. CASE i \in x + 1 .. x + y
    <3>1. PICK j \in 1 .. y : i = x + j /\ j \in 1 .. y + z
      <4>1. i - x \in 1 .. y /\ i = x + (i - x) /\ i - x \in 1 .. y + z
        BY <2>2
      <4>2. QED
        BY <4>1
    <3>2. (a \o q)[i] = b[j]
      BY <1>2, <1>3, <1>5, <1>6, <3>1
    <3>3. i \in 1 .. x + y
      BY <2>2
    <3>4. (p \o c)[i] = b[j]
      BY <1>1, <1>4, <1>5, <1>6, <3>1, <3>3
    <3>5. QED
      BY <3>2, <3>4
  <2>3. CASE i \in x + y + 1 .. x + y + z
    <3>1. PICK j \in 1 .. z : i = x + (y + j) /\ i = (x + y) + j /\ y + j \in 1 .. y + z
      <4>1. /\ i - x - y \in 1 .. z /\ i = x + (y + (i - x - y)) /\ i = (x + y) + (i - x - y)
            /\ y + (i - x - y) \in 1 .. y + z
        BY <2>3
      <4>2. QED
        BY <4>1
    <3>2. (a \o q)[i] = c[j]
      BY <1>2, <1>3, <1>5, <1>6, <3>1
    <3>3. (p \o c)[i] = c[j]
      BY <1>4, <1>5, <1>6, <3>1
    <3>4. QED
      BY <3>2, <3>3
  <2>4. QED
    BY <2>0, <2>1, <2>2, <2>3, Zenon
<1>8. \A i \in 1 .. Len(a \o q) : (a \o q)[i] = (p \o c)[i]
  BY <1>6, <1>7
<1>9. a \o q = p \o c
  BY <1>3, <1>4, <1>6, <1>8, SameSeq
<1>10. QED
  BY <1>9 DEF p, q

\* What a host sends is appended to its stream.
LEMMA SentStream ==
    ASSUME LinksInv, tstate # "HANDSHAKE", NEW f \in Seq(Unit), rx' = Set(rx, peer, rx[peer] \o f),
           UNCHANGED <<cur, buf, peer>>
    PROVE  Stream' = Stream \o f
<1>1. buf \in Seq(Unit) /\ rx[peer] \in Seq(Unit) /\ peer \in Hosts
  BY SessionTypes
<1>2. rx'[peer] = rx[peer] \o f
  BY <1>1 DEF LinksInv, UnitsInv, Set
<1> DEFINE a == IF cur = peer THEN buf ELSE <<>>
<1>3. a \in Seq(Unit)
  BY <1>1
<1>4. Stream = a \o rx[peer] /\ Stream' = a \o (rx[peer] \o f)
  BY <1>2 DEF Stream
<1> HIDE DEF a
<1>5. QED
  BY <1>1, <1>3, <1>4, JoinedTwice

\* A host with the session sends a command.
LEMMA SendCommandView ==
    ASSUME TcpInv, NEW h \in Hosts, InSession(h), SendCommand(h)
    PROVE  ReplyInv' /\ StreamInv'
<1>0. LinksInv /\ ReplyInv /\ StreamInv /\ tstate # "HANDSHAKE" /\ peer = h
  BY DEF TcpInv, InSession
<1>1. /\ host[h] = "idle" /\ host' = Set(host, h, "sent")
      /\ UNCHANGED <<device, uip, got>>
  BY DEF SendCommand
<1>2. PICK m \in Requests : /\ rx' = Set(rx, h, rx[h] \o Framed("command", m))
                            /\ todo' = Set(todo, h, m.size)
  BY DEF SendCommand
<1>3. host'[h] = "sent" /\ todo'[h] = m.size
  BY <1>0, <1>1, <1>2 DEF LinksInv, HostTypes, Set
<1>4. /\ UNCHANGED <<session, tcp, cur, buf, out, got>>
      /\ UNCHANGED <<tstate, collected, left, txq, peer>>
  BY <1>1 DEF device, uip, tcp
<1>5. Pending' = Pending
  BY <1>4 DEF Pending
<1>6. Pending = <<>>
  BY <1>0, <1>1 DEF ReplyInv, Awaits
<1>7. ReplyInv'
  BY <1>0, <1>3, <1>4, <1>5, <1>6 DEF ReplyInv, Awaits
<1>8. ASSUME Connected' PROVE CommandComes'
  <2>1. Connected
    BY <1>0, <1>1, <1>4, <1>8 DEF Connected, session
  <2>2. Quiet
    BY <1>0, <1>1, <2>1 DEF StreamInv, CommandComes, DataComes
  <2>3. <<>> # <<"DATA">>
    OBVIOUS
  <2>4. Stream = <<>> /\ tstate = "HEADER" /\ collected = 0 /\ state # "DOWNLOAD"
    BY <1>6, <2>2, <2>3 DEF Quiet
  <2>5. m \in Messages /\ m.len \in Nat /\ HeaderLen \in Nat
    BY MessageType, Lengths DEF Messages
  <2>6. Framed("command", m) \in Seq(Unit)
    BY <2>5, FramedType
  <2>7. Stream' = <<>> \o Framed("command", m)
    BY <1>0, <1>2, <1>4, <2>4, <2>6, SentStream
  <2>8. /\ Len(<<>> \o Framed("command", m)) = Len(<<>>) + HeaderLen + m.len
        /\ Run(<<>> \o Framed("command", m), "header", m, Len(<<>>), Len(<<>>) + HeaderLen)
        /\ Run(<<>> \o Framed("command", m), "command", m,
               Len(<<>>) + HeaderLen, Len(<<>>) + HeaderLen + m.len)
    <3>1. <<>> \in Seq(Unit)
      OBVIOUS
    <3>2. QED
      BY <2>5, <3>1, FramedRuns
  <2>9. /\ Len(<<>>) = 0 /\ Len(<<>>) + HeaderLen = HeaderLen /\ HeaderLen - 0 = HeaderLen
        /\ Len(<<>>) + HeaderLen + m.len = HeaderLen + m.len
    <3>1. Len(<<>>) = 0
      OBVIOUS
    <3>2. ASSUME NEW x \in Nat, NEW y \in Nat
          PROVE 0 + x = x /\ x - 0 = x /\ 0 + x + y = x + y
      OBVIOUS
    <3>3. QED
      BY <2>5, <3>1, <3>2
  <2>10. /\ Len(Stream') = HeaderLen - 0 + m.len
         /\ Run(Stream', "header", m, 0, HeaderLen - 0)
         /\ Run(Stream', "command", m, HeaderLen - 0, Len(Stream'))
    BY <2>7, <2>8, <2>9
  <2>11. CommandIn(Stream', m, "HEADER", 0, left)
    BY <2>10 DEF CommandIn
  <2>12. QED
    BY <1>0, <1>3, <1>4, <1>5, <1>6, <2>4, <2>11 DEF CommandComes, session
<1>9. QED
  BY <1>7, <1>8 DEF StreamInv

\* A host with the session sends data.
LEMMA SendDataView ==
    ASSUME TcpInv, NEW h \in Hosts, InSession(h), SendData(h)
    PROVE  ReplyInv' /\ StreamInv'
<1>0. LinksInv /\ ReplyInv /\ StreamInv /\ tstate # "HANDSHAKE" /\ peer = h
  BY DEF TcpInv, InSession
<1>1. /\ host[h] = "sending" /\ UNCHANGED <<device, uip, got>>
      /\ host' = Set(host, h, IF todo'[h] = 0 THEN "waiting" ELSE "sending")
  BY DEF SendData
<1>2. PICK n \in 1 .. todo[h] : /\ rx' = Set(rx, h, rx[h] \o Framed("data", Data(n)))
                                /\ todo' = Set(todo, h, todo[h] - n)
  BY DEF SendData
<1>3. /\ todo[h] \in 0 .. MaxDownload /\ n \in 1 .. MaxDownload /\ todo'[h] = todo[h] - n
      /\ MaxDownload \in Nat
  BY <1>0, <1>2, Lengths DEF LinksInv, HostTypes, Set
<1>4. /\ UNCHANGED <<session, tcp, cur, buf, out, got>>
      /\ UNCHANGED <<tstate, collected, left, txq, peer>>
  BY <1>1 DEF device, uip, tcp
<1>5. Pending' = Pending /\ Left' = Left
  BY <1>4 DEF Pending, Left, session
<1>6. Pending = <<>>
  BY <1>0, <1>1 DEF ReplyInv, Awaits
<1>7. \/ todo'[h] = 0 /\ host'[h] = "waiting"
      \/ todo'[h] > 0 /\ host'[h] = "sending"
  BY <1>0, <1>1, <1>2, <1>3 DEF LinksInv, HostTypes, Set
<1>8. ReplyInv'
  BY <1>0, <1>4, <1>5, <1>6, <1>7 DEF ReplyInv, Awaits
<1>9. ASSUME Connected' PROVE DataComes'
  <2>1. Connected
    BY <1>0, <1>1, <1>4, <1>9 DEF Connected, session
  <2>2. DataComes
    BY <1>0, <1>1, <2>1 DEF StreamInv, CommandComes, Quiet
  <2>3. Data(n) \in Messages
    BY <1>3 DEF Messages
  <2>4. Framed("data", Data(n)) \in Seq(Unit)
    BY <2>3, FramedType
  <2>5. Stream' = Stream \o Framed("data", Data(n))
    BY <1>0, <1>2, <1>4, <2>4, SentStream
  <2>6. Left \in Nat /\ state = "DOWNLOAD"
    <3>1. state = "DOWNLOAD"
      BY <2>2 DEF DataComes
    <3>2. memory_buffer_len \in Nat /\ download_progress \in Nat
          /\ download_progress <= memory_buffer_len
      BY <1>0, <3>1 DEF LinksInv, SessionInv, TypeOK, DownloadInv
    <3>3. QED
      BY <3>1, <3>2 DEF Left
  <2>7. DataIn(Stream', Left - todo'[h], tstate, collected, left)
    <3>1. CASE Stream = <<>> /\ tstate = "HEADER" /\ collected = 0 /\ todo[h] = Left
      <4>1. Stream' = Framed("data", Data(n))
        BY <2>4, <2>5, <3>1, EmptyFront
      <4>2. Left - todo'[h] = n
        BY <1>3, <2>6, <3>1
      <4>3. DataIn(Framed("data", Data(n)), n, "HEADER", 0, left)
        BY <1>3, DataFirst
      <4>4. QED
        BY <3>1, <4>1, <4>2, <4>3
    <3>2. CASE DataIn(Stream, Left - todo[h], tstate, collected, left)
      <4>1. Left - todo'[h] = (Left - todo[h]) + n
        BY <1>3, <2>6
      <4>2. Stream \in Seq(Unit) /\ collected \in 0 .. HeaderLen /\ left \in Nat
        BY <1>0, SessionTypes
      <4>3. DataIn(Stream \o Framed("data", Data(n)), (Left - todo[h]) + n, tstate, collected, left)
        BY <1>3, <3>2, <4>2, DataAppend
      <4>4. QED
        BY <2>5, <4>1, <4>3
    <3>3. QED
      BY <1>0, <2>2, <3>1, <3>2 DEF DataComes
  <2>8. QED
    BY <1>0, <1>4, <1>5, <1>6, <1>7, <2>6, <2>7 DEF DataComes, session
<1>10. QED
  BY <1>8, <1>9 DEF StreamInv

\* A host with the session gets the first of its replies.
LEMMA ArriveView ==
    ASSUME TcpInv, NEW h \in Hosts, InSession(h), Arrive(h)
    PROVE  ReplyInv' /\ StreamInv'
<1>0. LinksInv /\ ReplyInv /\ StreamInv /\ tstate # "HANDSHAKE" /\ peer = h
  BY DEF TcpInv, InSession
<1> DEFINE w == Reaction(h)[host[h]][out[h].t]
<1>1. /\ out[h] # None /\ ~got[h] /\ host[h] # "gone"
      /\ got' = Set(got, h, TRUE) /\ host' = Set(host, h, w)
      /\ UNCHANGED <<device, uip, rx, todo>>
  BY DEF Arrive
<1>2. host'[h] = w /\ got'[h] = TRUE
  BY <1>0, <1>1 DEF LinksInv, HostTypes, Set
<1> HIDE DEF w
<1>3. /\ UNCHANGED <<session, cur, buf, out, rx, todo>>
      /\ UNCHANGED <<tstate, collected, left, txq, peer>>
  BY <1>1 DEF device, uip, tcp
<1>4. out[h] \in Packets /\ got[h] = FALSE /\ txq \in Seq(Packets)
  BY <1>0, <1>1, SessionTypes
<1>5. Pending = PendingOf(out[h], FALSE, txq) /\ Pending' = PendingOf(out[h], TRUE, txq)
  BY <1>0, <1>2, <1>3, <1>4 DEF Pending
<1>6. Pending # <<>> /\ Head(Pending) = out[h].t /\ Tail(Pending) = Pending'
  BY <1>4, <1>5, ReceivedPending
<1>7. Awaits(host[h], todo[h], Pending)
  BY <1>0, <1>1 DEF ReplyInv
<1>8. w = Reaction(h)[host[h]][Head(Pending)]
  BY <1>6 DEF w
<1>9. /\ Awaits(w, todo[h], Tail(Pending))
      /\ \/ /\ Pending = <<"DATA">> /\ Tail(Pending) = <<>> /\ w = "sending" /\ todo[h] > 0
         \/ /\ Pending # <<"DATA">> /\ Tail(Pending) # <<"DATA">> /\ w # "sending"
            /\ w \in {"sent", "waiting"} => Tail(Pending) # <<>>
  <2>1. Pending # <<>>
    BY <1>6
  <2>2. Awaits(w, todo[h], Tail(Pending))
    BY <1>7, <1>8, <2>1, AwaitsNext
  <2>3. QED
    BY <1>7, <1>8, <2>1, <2>2, AwaitsNext
<1>10. ReplyInv'
  BY <1>0, <1>2, <1>3, <1>6, <1>9 DEF ReplyInv
<1>11. ASSUME Connected' PROVE Quiet' \/ DataComes'
  <2>1. Connected
    BY <1>0, <1>1, <1>3, <1>11 DEF Connected, session
  <2>2. Quiet
    BY <1>0, <1>6, <2>1 DEF StreamInv, CommandComes, DataComes
  <2>3. Stream' = Stream
    BY <1>3 DEF Stream
  <2>4. CASE Pending = <<"DATA">>
    <3>1. state = "DOWNLOAD" /\ todo[h] = memory_buffer_len /\ download_progress = 0
      BY <1>0, <2>2, <2>4 DEF Quiet
    <3>2. Left' = todo[h]
      <4>1. memory_buffer_len \in Nat
        BY <1>0 DEF LinksInv, SessionInv, TypeOK
      <4>2. memory_buffer_len' = memory_buffer_len /\ download_progress' = 0
        BY <1>3, <3>1 DEF session
      <4>3. QED
        BY <3>1, <4>1, <4>2 DEF Left
    <3>3. Tail(Pending) = <<>> /\ w = "sending" /\ todo[h] > 0
      BY <1>9, <2>4
    <3>4. Stream = <<>> /\ tstate = "HEADER" /\ collected = 0
      BY <2>2 DEF Quiet
    <3>5. DataComes'
      BY <1>0, <1>2, <1>3, <1>6, <2>3, <3>1, <3>2, <3>3, <3>4 DEF DataComes, session
    <3>6. QED
      BY <3>5
  <2>5. CASE Pending # <<"DATA">>
    <3>1. /\ Tail(Pending) # <<"DATA">> /\ w # "sending"
          /\ w \in {"sent", "waiting"} => Tail(Pending) # <<>>
      BY <1>9, <2>5
    <3>2. Stream = <<>> /\ tstate = "HEADER" /\ collected = 0 /\ state # "DOWNLOAD"
      BY <2>2, <2>5 DEF Quiet
    <3>3. Quiet'
      BY <1>0, <1>2, <1>3, <1>6, <2>3, <3>1, <3>2 DEF Quiet, session
    <3>4. QED
      BY <3>3
  <2>6. QED
    BY <2>4, <2>5
<1>12. QED
  BY <1>10, <1>11 DEF StreamInv

\* A host with the session closes its end.
LEMMA HostClosesView ==
    ASSUME TcpInv, NEW h \in Hosts, InSession(h), HostCloses(h)
    PROVE  ReplyInv' /\ StreamInv'
<1>0. LinksInv /\ ReplyInv /\ StreamInv /\ tstate # "HANDSHAKE" /\ peer = h
  BY DEF TcpInv, InSession
<1>1. /\ host[h] \in {"hello", "idle"} /\ host' = Set(host, h, "closing")
      /\ UNCHANGED <<device, uip, rx, got, todo>>
  BY DEF HostCloses
<1>2. host'[h] = "closing"
  BY <1>0, <1>1 DEF LinksInv, HostTypes, Set
<1>3. /\ UNCHANGED <<session, cur, buf, out, rx, got, todo>>
      /\ UNCHANGED <<tstate, collected, left, txq, peer>>
  BY <1>1 DEF device, uip, tcp
<1>4. Pending' = Pending /\ Stream' = Stream
  BY <1>3 DEF Pending, Stream
<1>5. ReplyInv'
  BY <1>0, <1>1, <1>2, <1>3, <1>4 DEF ReplyInv, Awaits
<1>6. ASSUME Connected' PROVE Quiet'
  <2>1. Connected
    BY <1>0, <1>1, <1>3, <1>6 DEF Connected, session
  <2>2. Quiet
    BY <1>0, <1>1, <2>1 DEF StreamInv, CommandComes, DataComes
  <2>3. QED
    BY <1>0, <1>2, <1>3, <1>4, <2>2 DEF Quiet, session
<1>7. QED
  BY <1>5, <1>6 DEF StreamInv

\* What a host does.
LEMMA HostView ==
    ASSUME TcpInv, NEW h \in Hosts, HostStep(h)
    PROVE  ReplyInv' /\ StreamInv'
<1>0. LinksInv
  BY DEF TcpInv
<1>1. UNCHANGED <<session, tcp, cur, buf, out>>
  BY DEF HostStep, Connect, SendCommand, SendData, HostCloses, HostVanishes, Arrive, device,
         uip
<1>2. \A g \in Hosts \ {h} : /\ got'[g] = got[g] /\ rx'[g] = rx[g]
                             /\ host'[g] = host[g] /\ todo'[g] = todo[g]
  <2>1. /\ rx \in [Hosts -> Seq(Unit)] /\ HostTypes
    BY <1>0 DEF LinksInv, UnitsInv
  <2>2. CASE Connect(h) \/ HostCloses(h) \/ Arrive(h)
    BY <2>1, <2>2 DEF Connect, HostCloses, Arrive, Set, HostTypes
  <2>3. CASE SendCommand(h)
    BY <2>1, <2>3 DEF SendCommand, Set, HostTypes
  <2>4. CASE SendData(h)
    BY <2>1, <2>4 DEF SendData, Set, HostTypes
  <2>5. CASE HostVanishes(h)
    BY <2>1, <2>5 DEF HostVanishes, HostEnds, Set, HostTypes
  <2>6. QED
    BY <2>2, <2>3, <2>4, <2>5 DEF HostStep
<1>3. CASE ~InSession(h)
  <2>1. tstate = "HANDSHAKE" \/ peer # h
    BY <1>3 DEF InSession
  <2>2. QED
    BY <1>1, <1>2, <2>1, OtherView
<1>4. CASE InSession(h)
  <2>1. conn[h] = "ESTABLISHED" /\ peer = h
    BY <1>0, <1>4 DEF InSession, LinksInv, LinkInv
  <2>2. CASE Connect(h)
    BY <2>1, <2>2 DEF Connect
  <2>3. CASE HostVanishes(h)
    <3>1. host'[peer'] = "gone"
      BY <1>0, <1>1, <2>1, <2>3 DEF HostVanishes, HostEnds, Set, LinksInv, HostTypes, tcp
    <3>2. QED
      BY <3>1, GoneView
  <2>4. QED
    BY <1>4, <2>2, <2>3, SendCommandView, SendDataView, HostClosesView, ArriveView DEF
       HostStep
<1>5. QED
  BY <1>3, <1>4

-----------------------------------------------------------------------------
(* Hosts without a session, and without a connection.                       *)

\* What HelloInv and ClosedInv say of one host.
HostFine(h) ==
    /\ conn[h] = "CLOSED" => host[h] = "closed"
    /\ conn[h] = "ESTABLISHED" /\ ~InSession(h) /\ host[h] # "gone" =>
          /\ host[h] \in {"hello", "closing"}
          /\ Len(Incoming(h)) = HandshakeLen

\* A step that leaves a host alone, or gives it the session.
Spared(h) ==
    /\ conn'[h] = conn[h] /\ host'[h] = host[h] /\ Len(Incoming(h)') = Len(Incoming(h))
    /\ InSession(h) => InSession(h)'

\* A step of one host, or of its connection, spares the others.
LEMMA HostsFine ==
    ASSUME TcpInv, NEW h, HostFine(h)' \/ Spared(h), \A g \in Hosts \ {h} : Spared(g)
    PROVE  HelloInv' /\ ClosedInv'
<1>1. ASSUME NEW g \in Hosts, Spared(g) PROVE HostFine(g)'
  BY <1>1 DEF TcpInv, HelloInv, ClosedInv, HostFine, Spared
<1>2. \A g \in Hosts : HostFine(g)'
  BY <1>1
<1>3. QED
  BY <1>2 DEF HostFine, HelloInv, ClosedInv

\* Every turn of the parser gives the connection the session, keeps it there, or closes it.
LEMMA TurnHosts ==
    ASSUME TcpInv, recv
    PROVE  HelloInv' /\ ClosedInv'
<1>0. LinksInv /\ buf # <<>>
  BY DEF TcpInv, recv, fastboot_tcp_handshake, fastboot_tcp_recv_header,
         fastboot_tcp_recv_command, fastboot_tcp_recv_segment, fastboot_tcp_recv_download
<1>1. cur \in Hosts /\ conn[cur] = "ESTABLISHED" /\ (tstate # "HANDSHAKE" => peer = cur)
  BY <1>0, InCallback
<1>2. cur' = cur
  BY DEF recv, fastboot_tcp_handshake, fastboot_tcp_recv_header, fastboot_tcp_recv_command,
         fastboot_tcp_recv_segment, fastboot_tcp_recv_download, Consume
<1>3. \/ uip_close(cur)
      \/ UNCHANGED <<uip, remote>> /\ tstate' # "HANDSHAKE" /\ peer' = cur
  BY <1>1 DEF recv, fastboot_tcp_handshake, fastboot_tcp_recv_header,
              fastboot_tcp_recv_command,
         fastboot_tcp_recv_segment, fastboot_tcp_recv_download, EnterHeader
<1>4. HostFine(cur)'
  <2>1. CASE uip_close(cur)
    <3>1. conn'[cur] = "FIN_WAIT"
      BY <1>0, <1>1, <2>1, CloseTypes
    <3>2. QED
      BY <1>2, <3>1 DEF HostFine
  <2>2. CASE UNCHANGED <<uip, remote>> /\ tstate' # "HANDSHAKE" /\ peer' = cur
    BY <1>1, <1>2, <2>2 DEF HostFine, InSession, uip
  <2>3. QED
    BY <1>3, <2>1, <2>2
<1>5. ASSUME NEW g \in Hosts \ {cur} PROVE Spared(g)
  <2>1. ~InSession(g)
    BY <1>1 DEF InSession
  <2>2. conn'[g] = conn[g] /\ host'[g] = host[g] /\ rx'[g] = rx[g]
    BY <1>0, <1>1, <1>3, CloseTypes DEF uip_close, uip, remote
  <2>3. QED
    BY <1>2, <2>1, <2>2 DEF Spared, Incoming
<1>6. PICK c \in Hosts : c = cur
  BY <1>1
<1>7. HostFine(c)'
  BY <1>2, <1>4, <1>6 DEF HostFine, InSession, Incoming
<1>8. QED
  BY <1>5, <1>6, <1>7, HostsFine

\* Everything else the device does.
LEMMA DeviceHosts ==
    ASSUME TcpInv, NEW h \in Hosts, DeviceEvent(h)
    PROVE  HelloInv' /\ ClosedInv'
<1>0. LinksInv /\ rx \in [Hosts -> Seq(Unit)] /\ cur = None
  BY DEF TcpInv, LinksInv, UnitsInv, DeviceEvent, Segment, Ack, CloseForeign, Rexmit,
         TimedOut,
         Fin, LateClose, Expires, Rst, Polling
<1>1. ASSUME NEW n \in 0 .. Len(rx[h]), Open(h, n)
      PROVE  HelloInv' /\ ClosedInv'
  <2>1. /\ cur' = h /\ buf' = SubSeq(rx[h], 1, n)
        /\ rx' = Set(rx, h, SubSeq(rx[h], n + 1, Len(rx[h])))
        /\ UNCHANGED <<tstate, peer, conn, host>>
    BY <1>1 DEF Open
  <2>2. Spared(h)
    <3>1. rx'[h] = SubSeq(rx[h], n + 1, Len(rx[h]))
      BY <1>0, <2>1 DEF Set
    <3>2. Incoming(h)' = SubSeq(rx[h], 1, n) \o SubSeq(rx[h], n + 1, Len(rx[h]))
      BY <2>1, <3>1 DEF Incoming
    <3>3. Incoming(h) = <<>> \o rx[h]
      BY <1>0 DEF Incoming
    <3>4. Incoming(h)' = Incoming(h)
      BY <1>0, <3>2, <3>3, CutStream, EmptyFront
    <3>5. QED
      BY <2>1, <3>4 DEF Spared, InSession
  <2>3. \A g \in Hosts \ {h} : Spared(g)
    BY <1>0, <2>1 DEF Spared, InSession, Incoming, Set
  <2>4. QED
    BY <2>2, <2>3, HostsFine
<1>2. CASE Segment(h)
  <2>1. PICK n \in 1 .. Len(rx[h]) : Open(h, n)
    BY <1>2 DEF Segment
  <2>2. n \in 0 .. Len(rx[h])
    BY <1>0, <2>1
  <2>3. QED
    BY <1>1, <2>1, <2>2
<1>3. CASE Ack(h)
  <2>1. 0 \in 0 .. Len(rx[h])
    BY <1>0
  <2>2. QED
    BY <1>1, <1>3, <2>1 DEF Ack
<1>4. CASE CloseForeign(h)
  <2>1. uip_close(h) /\ UNCHANGED <<tcp, cur>>
    BY <1>4 DEF CloseForeign
  <2>2. HostFine(h)'
    BY <1>0, <2>1, CloseTypes DEF HostFine
  <2>3. \A g \in Hosts \ {h} : Spared(g)
    BY <1>0, <2>1, CloseTypes DEF Spared, InSession, Incoming, uip_close, tcp
  <2>4. QED
    BY <2>2, <2>3, HostsFine
<1>5. CASE Rexmit(h)
  <2>1. UNCHANGED <<tcp, cur, buf, conn, remote>>
    BY <1>5 DEF Rexmit
  <2>2. \A g : Spared(g)
    BY <2>1 DEF Spared, InSession, Incoming, tcp, remote
  <2>3. QED
    BY <2>2, HostsFine
<1>6. ASSUME NEW st \in {"CLOSED", "LAST_ACK"}, ConnectionEnds(h, st),
             st = "CLOSED" => host'[h] = "closed",
             \A g \in Hosts \ {h} : host'[g] = host[g] /\ rx'[g] = rx[g]
      PROVE  HelloInv' /\ ClosedInv'
  <2>1. conn' = Set(conn, h, st) /\ cur' = None
    BY <1>0, <1>6 DEF ConnectionEnds
  <2>2. conn'[h] = st /\ \A g \in Hosts \ {h} : conn'[g] = conn[g]
    BY <1>0, <2>1 DEF Set, LinksInv, NetTypes
  <2>3. HostFine(h)'
    BY <1>6, <2>2 DEF HostFine
  <2>4. \A g \in Hosts \ {h} : InSession(g) => InSession(g)'
    BY <1>6 DEF ConnectionEnds, fastboot_tcp_is_valid_conn, InSession, tcp
  <2>5. \A g \in Hosts \ {h} : Incoming(g)' = Incoming(g)
    BY <1>0, <1>6, <2>1 DEF Incoming
  <2>6. \A g \in Hosts \ {h} : Spared(g)
    BY <1>6, <2>2, <2>4, <2>5 DEF Spared
  <2>7. QED
    BY <2>3, <2>6, HostsFine
<1>7. ASSUME HostEnds(h, "closed")
      PROVE  /\ host'[h] = "closed"
             /\ \A g \in Hosts \ {h} : host'[g] = host[g] /\ rx'[g] = rx[g]
  BY <1>0, <1>7 DEF HostEnds, Set, LinksInv, HostTypes
<1>8. CASE TimedOut(h) \/ LateClose(h) \/ Rst(h)
  BY <1>6, <1>7, <1>8 DEF TimedOut, LateClose, Rst
<1>9. CASE Fin(h)
  BY <1>6, <1>9 DEF Fin, remote
<1>10. CASE Expires(h)
  <2>1. conn' = Set(conn, h, "CLOSED") /\ HostEnds(h, "closed") /\ UNCHANGED <<tcp, cur, buf>>
    BY <1>10 DEF Expires
  <2>2. conn'[h] = "CLOSED" /\ \A g \in Hosts \ {h} : conn'[g] = conn[g]
    BY <1>0, <2>1 DEF Set, LinksInv, NetTypes
  <2>3. HostFine(h)'
    BY <1>7, <2>1, <2>2 DEF HostFine
  <2>4. \A g \in Hosts \ {h} : Spared(g)
    BY <1>7, <2>1, <2>2 DEF Spared, InSession, Incoming, tcp
  <2>5. QED
    BY <2>3, <2>4, HostsFine
<1>11. QED
  BY <1>2, <1>3, <1>4, <1>5, <1>8, <1>9, <1>10 DEF DeviceEvent

\* The end of a callback, the loss of the link, the next fastboot_init, and the end.
LEMMA LoopHosts ==
    ASSUME TcpInv, EndCallback \/ LinkLost \/ TcpReinit \/ Exit \/ UNCHANGED all
    PROVE  HelloInv' /\ ClosedInv'
<1>1. CASE EndCallback
  <2>1. cur # None /\ buf = <<>> /\ cur' = None /\ UNCHANGED <<buf, conn, rx, host, tstate, peer>>
    BY <1>1 DEF EndCallback, tcp
  <2>2. \A g \in Hosts : Incoming(g)' = Incoming(g)
    BY <2>1 DEF Incoming
  <2>3. \A g \in Hosts : Spared(g)
    BY <2>1, <2>2 DEF Spared, InSession
  <2>4. PICK h \in Hosts : TRUE
    BY <2>1 DEF TcpInv, LinksInv, NetTypes
  <2>5. QED
    BY <2>3, HostsFine
<1>2. CASE LinkLost \/ Exit \/ UNCHANGED all
  <2>1. UNCHANGED <<tcp, cur, buf, uip, remote>>
    BY <1>2 DEF LinkLost, Exit, all
  <2>2. \A g : Spared(g)
    BY <2>1 DEF Spared, InSession, Incoming, tcp, uip, remote
  <2>3. QED
    BY <2>2, HostsFine
<1>3. CASE TcpReinit
  BY <1>3 DEF TcpReinit, HelloInv, ClosedInv
<1>4. QED
  BY <1>1, <1>2, <1>3

\* What a host does.
LEMMA HostHosts ==
    ASSUME TcpInv, NEW h \in Hosts, HostStep(h)
    PROVE  HelloInv' /\ ClosedInv'
<1>0. /\ LinksInv /\ HelloInv /\ ClosedInv
      /\ rx \in [Hosts -> Seq(Unit)] /\ HostTypes /\ NetTypes
  BY DEF TcpInv, LinksInv, UnitsInv
<1>1. UNCHANGED <<tstate, peer, cur, buf>>
  BY DEF HostStep, Connect, SendCommand, SendData, HostCloses, HostVanishes, Arrive, device,
         tcp
<1>2. InSession(h)' <=> InSession(h)
  BY <1>1 DEF InSession
<1>3. ASSUME HostFine(h)' \/ Spared(h),
             \A g \in Hosts \ {h} : conn'[g] = conn[g] /\ host'[g] = host[g] /\ rx'[g] = rx[g]
      PROVE  HelloInv' /\ ClosedInv'
  <2>1. \A g \in Hosts \ {h} : Spared(g)
    BY <1>1, <1>3 DEF Spared, InSession, Incoming
  <2>2. QED
    BY <1>3, <2>1, HostsFine
<1>4. CASE Connect(h)
  <2>1. Handshake \in Messages
    BY DEF Messages
  <2>2. /\ Units("handshake", Handshake, HandshakeLen) \in Seq(Unit)
        /\ Len(Units("handshake", Handshake, HandshakeLen)) = HandshakeLen
    BY <2>1, UnitsType, Lengths
  <2>3. /\ cur = None /\ conn' = Set(conn, h, "ESTABLISHED") /\ host' = Set(host, h, "hello")
        /\ rx' = Set(rx, h, Units("handshake", Handshake, HandshakeLen))
    BY <1>4 DEF Connect, Polling
  <2>4. /\ conn'[h] = "ESTABLISHED" /\ host'[h] = "hello"
        /\ rx'[h] = Units("handshake", Handshake, HandshakeLen)
    BY <1>0, <2>3 DEF Set, HostTypes, NetTypes
  <2>5. Incoming(h)' = <<>> \o rx'[h]
    BY <1>1, <2>3 DEF Incoming
  <2>6. Incoming(h)' = rx'[h]
    BY <2>2, <2>4, <2>5, EmptyFront
  <2>7. HostFine(h)'
    BY <2>2, <2>4, <2>6 DEF HostFine
  <2>8. \A g \in Hosts \ {h} : conn'[g] = conn[g] /\ host'[g] = host[g] /\ rx'[g] = rx[g]
    BY <1>0, <2>3 DEF Set, HostTypes, NetTypes
  <2>9. QED
    BY <1>3, <2>7, <2>8
<1>5. CASE SendCommand(h) \/ SendData(h)
  <2>1. host[h] \in {"idle", "sending"} /\ UNCHANGED conn
    BY <1>5 DEF SendCommand, SendData, uip
  <2>2. conn[h] = "ESTABLISHED" => InSession(h)
    BY <1>0, <2>1 DEF HelloInv
  <2>3. conn[h] # "CLOSED"
    BY <1>0, <2>1 DEF ClosedInv
  <2>4. HostFine(h)'
    BY <1>2, <2>1, <2>2, <2>3 DEF HostFine
  <2>5. \A g \in Hosts \ {h} : host'[g] = host[g] /\ rx'[g] = rx[g]
    BY <1>0, <1>5 DEF SendCommand, SendData, Set, HostTypes
  <2>6. QED
    BY <1>3, <2>1, <2>4, <2>5
<1>6. CASE HostCloses(h)
  <2>1. /\ host[h] \in {"hello", "idle"} /\ conn[h] = "ESTABLISHED"
        /\ host' = Set(host, h, "closing") /\ UNCHANGED <<conn, rx>>
    BY <1>6 DEF HostCloses, uip
  <2>2. host'[h] = "closing" /\ \A g \in Hosts \ {h} : host'[g] = host[g]
    BY <1>0, <2>1 DEF Set, HostTypes
  <2>3. Incoming(h)' = Incoming(h)
    BY <1>1, <2>1 DEF Incoming
  <2>4. HostFine(h)'
    BY <1>0, <1>2, <2>1, <2>2, <2>3 DEF HostFine, HelloInv
  <2>5. QED
    BY <1>3, <2>1, <2>2, <2>4
<1>7. CASE HostVanishes(h)
  <2>1. conn[h] = "ESTABLISHED" /\ HostEnds(h, "gone") /\ UNCHANGED conn
    BY <1>7 DEF HostVanishes, uip
  <2>2. /\ host'[h] = "gone"
        /\ \A g \in Hosts \ {h} : host'[g] = host[g] /\ rx'[g] = rx[g]
    BY <1>0, <2>1 DEF HostEnds, Set, HostTypes
  <2>3. HostFine(h)'
    BY <2>1, <2>2 DEF HostFine
  <2>4. QED
    BY <1>3, <2>1, <2>2, <2>3
<1>8. CASE Arrive(h)
  <2>1. /\ out[h] # None /\ UNCHANGED <<conn, rx>>
        /\ host' = Set(host, h, Reaction(h)[host[h]][out[h].t])
    BY <1>8 DEF Arrive, uip
  <2>2. conn[h] = "ESTABLISHED" /\ InSession(h)
    BY <1>0, <2>1 DEF LinksInv, LinkInv, InSession
  <2>3. HostFine(h)'
    BY <1>2, <2>1, <2>2 DEF HostFine
  <2>4. \A g \in Hosts \ {h} : host'[g] = host[g]
    BY <1>0, <2>1 DEF Set, HostTypes
  <2>5. QED
    BY <1>3, <2>1, <2>3, <2>4
<1>9. QED
  BY <1>4, <1>5, <1>6, <1>7, <1>8 DEF HostStep

-----------------------------------------------------------------------------
(* The parser and the hosts agree.                                          *)

\* Nothing is on its way at the start.
LEMMA TcpInvInit == TcpInit => TcpInv
<1>1. TcpInit => ClosedInv /\ HelloInv /\ ReplyInv /\ StreamInv
  BY DEF TcpInit, ClosedInv, HelloInv, ReplyInv, StreamInv, Connected
<1>2. QED
  BY <1>1, LinksInit DEF TcpInv

\* Every step keeps the invariant.
LEMMA TcpInvStep ==
    ASSUME TcpInv, [TcpNext]_all
    PROVE  TcpInv'
<1>1. LinksInv'
  BY LinksStep DEF TcpInv
<1>2. ReplyInv' /\ StreamInv'
  <2>1. CASE recv
    BY <2>1, HandshakeView, HeaderView, CommandTurnView, DataView DEF recv
  <2>2. CASE EndCallback
    BY <2>2, EndView
  <2>3. CASE LinkLost \/ TcpReinit \/ Exit \/ UNCHANGED all
    BY <2>3, LoopView
  <2>4. QED
    BY <2>1, <2>2, <2>3, EventView, HostView DEF TcpNext
<1>3. HelloInv' /\ ClosedInv'
  <2>1. CASE recv
    BY <2>1, TurnHosts
  <2>2. CASE EndCallback \/ LinkLost \/ TcpReinit \/ Exit \/ UNCHANGED all
    BY <2>2, LoopHosts
  <2>3. QED
    BY <2>1, <2>2, DeviceHosts, HostHosts DEF TcpNext
<1>4. QED
  BY <1>1, <1>2, <1>3 DEF TcpInv

\* The stream and the state machine agree, in every reachable state.
THEOREM TcpInvHolds == TcpSpec => []TcpInv
BY TcpInvInit, TcpInvStep, PTL DEF TcpSpec

\* What the parser is to find next of a command.
LEMMA CommandShape ==
    ASSUME NEW s \in Seq(Unit), NEW m \in Requests, NEW ts, NEW col \in 0 .. HeaderLen,
           NEW lf \in Nat, CommandIn(s, m, ts, col, lf)
    PROVE  /\ ts = "HEADER" => /\ s # <<>> /\ HeaderLen - col < Len(s)
                               /\ \A i \in 1 .. HeaderLen - col : s[i][1] = "header"
                               /\ s[HeaderLen - col + 1][1] = "command"
           /\ ts # "HEADER" => lf <= Len(s) /\ \A i \in 1 .. lf : s[i][1] = "command"
<1>0. Len(s) \in Nat /\ m.len \in Nat \ {0}
  BY MessageType DEF Messages
<1>1. PICK H \in Nat, l \in Nat \ {0} : H = HeaderLen - col /\ l = m.len
  <2>1. HeaderLen - col \in Nat
    BY Lengths
  <2>2. QED
    BY <1>0, <2>1
<1>2. ASSUME ts = "HEADER"
      PROVE  /\ s # <<>> /\ H < Len(s) /\ \A i \in 1 .. H : s[i][1] = "header"
             /\ s[H + 1][1] = "command"
  <2>1. Len(s) = H + l /\ Run(s, "header", m, 0, H) /\ Run(s, "command", m, H, Len(s))
    BY <1>1, <1>2 DEF CommandIn
  <2>2. H < Len(s) /\ H + 1 \in H + 1 .. Len(s)
    BY <1>1, <2>1
  <2>3. s # <<>>
    BY <2>2
  <2>4. \A i \in 1 .. H : s[i] = <<"header", m>>
    BY <2>1 DEF Run
  <2>5. s[H + 1] = <<"command", m>>
    BY <2>1, <2>2 DEF Run
  <2>6. QED
    BY <2>2, <2>3, <2>4, <2>5
<1>3. ASSUME ts # "HEADER"
      PROVE  lf <= Len(s) /\ \A i \in 1 .. lf : s[i][1] = "command"
  BY <1>3 DEF CommandIn, Run
<1>4. QED
  BY <1>1, <1>2, <1>3

\* So headers, commands and data begin and end where the parser expects them.
LEMMA TcpInFrame == TcpInv => InFrame
<1> SUFFICES ASSUME TcpInv, Connected PROVE InFrame
  BY DEF InFrame
<1>0. /\ LinksInv /\ tstate # "HANDSHAKE" /\ Stream \in Seq(Unit) /\ Len(Stream) \in Nat
      /\ collected \in 0 .. HeaderLen /\ left \in Nat /\ HeaderLen \in Nat
      /\ tstate \in {"HEADER", "COMMAND", "SEGMENT", "DOWNLOAD"}
  BY SessionTypes, Lengths DEF TcpInv, Connected, LinksInv, ParserTypes
<1>1. Quiet \/ CommandComes \/ DataComes
  BY DEF TcpInv, StreamInv
<1>2. CASE Stream = <<>> /\ tstate = "HEADER" /\ collected = 0
  BY <1>2 DEF InFrame
<1>3. PICK n \in Nat : n = HeaderLen - collected
  BY <1>0
<1>4. CASE CommandComes
  <2>1. state # "DOWNLOAD" /\ \E m \in Requests : CommandIn(Stream, m, tstate, collected, left)
    BY <1>4 DEF CommandComes
  <2>2. CASE tstate = "HEADER"
    <3>1. /\ Stream # <<>> /\ n < Len(Stream) /\ \A i \in 1 .. n : Stream[i][1] = "header"
          /\ Stream[n + 1][1] = "command"
      BY <1>0, <1>3, <2>1, <2>2, CommandShape
    <3>2. QED
      BY <1>0, <1>3, <2>1, <2>2, <3>1 DEF InFrame, AllOf
  <2>3. CASE tstate # "HEADER"
    <3>1. left <= Len(Stream) /\ \A i \in 1 .. left : Stream[i][1] = "command"
      BY <1>0, <2>1, <2>3, CommandShape
    <3>2. tstate \in {"COMMAND", "SEGMENT"}
      BY <2>1, <2>3 DEF CommandIn
    <3>3. QED
      BY <2>1, <3>1, <3>2 DEF InFrame, AllOf
  <2>4. QED
    BY <2>2, <2>3
<1>5. CASE DataComes /\ DataIn(Stream, Left - todo[peer], tstate, collected, left)
  <2>1. state = "DOWNLOAD" /\ Stream # <<>>
    BY <1>0, <1>5, DataShape DEF DataComes
  <2>2. CASE tstate = "HEADER"
    <3>1. /\ n < Len(Stream) /\ \A i \in 1 .. n : Stream[i][1] = "header"
          /\ Stream[n + 1][1] = "data"
      <4>1. DataIn(Stream, Left - todo[peer], "HEADER", collected, left)
        BY <1>5, <2>2
      <4>2. /\ HeaderLen - collected < Len(Stream)
            /\ \A i \in 1 .. HeaderLen - collected : Stream[i][1] = "header"
            /\ Stream[HeaderLen - collected + 1][1] = "data"
        BY <1>0, <4>1, DataShape
      <4>3. QED
        BY <1>3, <4>2
    <3>2. QED
      BY <1>0, <1>3, <2>1, <2>2, <3>1 DEF InFrame, AllOf
  <2>3. CASE tstate = "DOWNLOAD"
    <3>1. left <= Len(Stream) /\ \A i \in 1 .. left : Stream[i][1] = "data"
      BY <1>0, <1>5, <2>3, DataShape
    <3>2. QED
      BY <2>1, <2>3, <3>1 DEF InFrame, AllOf
  <2>4. QED
    BY <1>5, <2>2, <2>3 DEF DataIn
<1>6. QED
  BY <1>1, <1>2, <1>4, <1>5 DEF Quiet, DataComes

\* However TCP cuts the streams of any number of hosts, and whatever sessions came before,
\* fastboot_tcp_recv is in step with the stream, and its segments stay inside segment_buf.
THEOREM ParserTheorem == TcpSpec => []ParserInStep
<1>1. TcpInv => ParserInStep
  BY TcpInFrame, LinksTypes DEF TcpInv, LinksInv, ParserInv, ParserInStep
<1>2. QED
  BY <1>1, TcpInvHolds, PTL

\* A host only ever gets a reply that its own last request may be answered with.
THEOREM RepliesTheorem == TcpSpec => []RepliesExpected
<1>1. ASSUME TcpInv, NEW h \in Hosts, out[h] # None, ~got[h], host[h] # "gone"
      PROVE  Expected(h)
  <2>0. LinksInv /\ ReplyInv
    BY <1>1 DEF TcpInv
  <2>1. tstate # "HANDSHAKE" /\ peer = h
    BY <1>1, <2>0 DEF LinksInv, LinkInv
  <2>2. out[h] \in Packets /\ got[h] = FALSE /\ txq \in Seq(Packets)
    BY <1>1, <2>0, <2>1, SessionTypes
  <2>3. Pending # <<>> /\ Head(Pending) = out[h].t
    BY <2>1, <2>2, ReceivedPending DEF Pending
  <2>4. Awaits(host[h], todo[h], Pending)
    BY <1>1, <2>0, <2>1 DEF ReplyInv
  <2>5. host[h] \in DOMAIN Reaction(h) /\ Head(Pending) \in DOMAIN Reaction(h)[host[h]]
    BY <2>3, <2>4, AwaitsNext
  <2>6. QED
    BY <2>3, <2>5 DEF Expected
<1>2. TcpInv => RepliesExpected
  BY <1>1 DEF RepliesExpected
<1>3. QED
  BY <1>2, TcpInvHolds, PTL

-----------------------------------------------------------------------------
(* The session of FastbootSession runs over TCP.                            *)

\* The abstract session knows the sizes that the hosts announce, and chunks of
\* whatever length TCP cuts their messages into.
HostsCovered == \A m \in Messages : m.size \in Sizes /\ 1 .. m.len \subseteq Chunks

\* A packet of the transport is a packet of the session.
LEMMA PacketImplements ==
    ASSUME HostsCovered, NEW m \in Messages, NEW n, fastboot_handle_packet(m, n),
           state = "DOWNLOAD" => n \in Chunks
    PROVE  Next
<1>1. PICK r \in Responses : \/ fastboot_handle_command(m.cmd, m.size, r)
                             \/ fastboot_handle_download(n, r)
                             \/ IgnorePacket(r)
  BY DEF fastboot_handle_packet
<1>2. CASE fastboot_handle_command(m.cmd, m.size, r)
  <2>1. m.cmd \in Commands /\ m.size \in Sizes
    BY MessageType DEF HostsCovered
  <2>2. QED
    BY <1>2, <2>1 DEF Next, HandleCommand
<1>3. CASE fastboot_handle_download(n, r)
  <2>1. n \in Chunks
    BY <1>3 DEF fastboot_handle_download
  <2>2. QED
    BY <1>3, <2>1 DEF Next, HandleDownload
<1>4. CASE IgnorePacket(r)
  <2>1. r = <<>>
    BY <1>4 DEF IgnorePacket
  <2>2. QED
    BY <1>4, <2>1 DEF Next, HandleIgnored
<1>5. QED
  BY <1>1, <1>2, <1>3, <1>4

\* Every turn of fastboot_tcp_recv is a step of the session, or none.
LEMMA RecvImplements ==
    ASSUME HostsCovered, LinksInv, recv
    PROVE  [Next]_session
<1>0. buf # <<>>
  BY DEF recv, fastboot_tcp_handshake, fastboot_tcp_recv_header, fastboot_tcp_recv_command,
         fastboot_tcp_recv_segment, fastboot_tcp_recv_download
<1>1. Len(buf) \in Nat \ {0} /\ buf[1][2] \in Messages /\ left \in Nat
  BY <1>0, InCallback DEF Unit, LinksInv, ParserTypes
<1>2. CASE fastboot_tcp_handshake \/ fastboot_tcp_recv_header
  BY <1>2 DEF fastboot_tcp_handshake, fastboot_tcp_recv_header
<1>3. CASE fastboot_tcp_recv_command
  <2>1. state # "DOWNLOAD"
    BY <1>3 DEF fastboot_tcp_recv_command, LinksInv, ParserInv
  <2>2. CASE fastboot_handle_packet(buf[1][2], left)
    BY <1>1, <2>1, <2>2, PacketImplements
  <2>3. QED
    BY <1>3, <2>2 DEF fastboot_tcp_recv_command, Next
<1>4. CASE fastboot_tcp_recv_segment
  <2> DEFINE n == MinOf(left, Len(buf))
  <2>1. state # "DOWNLOAD"
    BY <1>4 DEF fastboot_tcp_recv_segment, LinksInv, ParserInv
  <2>2. CASE fastboot_handle_packet(buf[1][2], offset + n)
    BY <1>1, <2>1, <2>2, PacketImplements
  <2>3. QED
    BY <1>4, <2>2 DEF fastboot_tcp_recv_segment
<1>5. CASE fastboot_tcp_recv_download
  <2> DEFINE n == MinOf(left, Len(buf))
  <2>1. fastboot_handle_packet(buf[1][2], n) /\ tstate = "DOWNLOAD"
    BY <1>5 DEF fastboot_tcp_recv_download
  <2>2. PICK m \in Messages : left \in 1 .. m.len
    BY <2>1 DEF LinksInv, ParserInv
  <2>3. n \in 1 .. m.len
    BY <1>1, <2>2, MessageType DEF MinOf
  <2>4. n \in Chunks
    BY <2>3 DEF HostsCovered
  <2>5. QED
    BY <1>1, <2>1, <2>4, PacketImplements
<1>6. QED
  BY <1>2, <1>3, <1>4, <1>5 DEF recv

\* Every step of the transport is one of the session, or none.
LEMMA SessionImplemented ==
    ASSUME HostsCovered, LinksInv, [TcpNext]_all
    PROVE  [Next]_session
<1>1. CASE EndCallback \/ LinkLost \/ TcpReinit \/ Exit \/ UNCHANGED all
  BY <1>1 DEF EndCallback, LinkLost, TcpReinit, Exit, all, Next
<1>2. ASSUME NEW h \in Hosts, NEW st, ConnectionEnds(h, st)
      PROVE  [Next]_session
  BY <1>2 DEF ConnectionEnds, Next
<1>3. ASSUME NEW h \in Hosts, DeviceEvent(h)
      PROVE  [Next]_session
  <2>1. CASE Segment(h) \/ Ack(h) \/ CloseForeign(h) \/ Rexmit(h) \/ Expires(h)
    BY <2>1 DEF Segment, Ack, Open, CloseForeign, Rexmit, Expires
  <2>2. QED
    BY <1>2, <1>3, <2>1 DEF DeviceEvent, TimedOut, Fin, LateClose, Rst
<1>4. ASSUME NEW h \in Hosts, HostStep(h)
      PROVE  UNCHANGED session
  BY <1>4 DEF HostStep, Connect, SendCommand, SendData, HostCloses, HostVanishes, Arrive,
              device
<1>5. QED
  BY <1>1, <1>3, <1>4, RecvImplements DEF TcpNext

\* Over TCP the session of FastbootSession runs, with any hosts and however the network
\* cuts their streams: what is proved of the session holds for this transport.
THEOREM TcpImplementsSession == HostsCovered => (TcpSpec => ImplementsSession)
<1> SUFFICES ASSUME HostsCovered PROVE TcpSpec => ImplementsSession
  OBVIOUS
<1>1. TcpInit => Init
  BY DEF TcpInit
<1>2. LinksInv /\ [TcpNext]_all => [Next]_session
  BY SessionImplemented
<1>3. QED
  BY <1>1, <1>2, LinksHold, PTL DEF TcpSpec, ImplementsSession, Spec

=============================================================================
