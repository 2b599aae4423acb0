--------------------------- MODULE Netboot_proofs ---------------------------
(***************************************************************************)
(* Theorems about Netboot, for any number of DHCP servers, transfer ids,   *)
(* connections and blocks: the address in use is leased (AddressHeld), a   *)
(* connection is left for every read (ConnectionsHeld), and what is booted *)
(* is the file that the server holds, block by block (FilesWhole).         *)
(***************************************************************************)
EXTENDS Netboot, FiniteSetTheorems, TLAPS

-----------------------------------------------------------------------------
(* The inductive invariant: DHCP.                                           *)

\* Replies that carry the current id answer what dhcp_request is waiting for;
\* an acknowledgement is about a lease that stands, as nothing is released
\* before the end.
RepliesInv ==
    step = "dhcp" =>
        /\ at = "discover" => \A p \in air : p.xid = xid => p.type \in {"discover", "offer"}
        /\ at = "request" =>
            /\ server_id # None
            /\ \A p \in air : p.xid = xid =>
                   p.type \in {"request", "ack", "nak"} /\ p.server = server_id
        /\ \A p \in air : p.type # "release" /\ (p.type = "ack" => p.server \in lease)

\* There is no address before dhcp_request is over.
AddressInv ==
    /\ step = "dhcp" => hostaddr = None /\ dhcp_state # "Bound"
    /\ step # "dhcp" => at = "out"
    /\ AddressHeld

\* Who holds a connection.
Reading == step \in {"bootfile", "ramdisk", "args"}

ConnsInv ==
    /\ at # "out" => conns >= 1
    /\ Reading => conns >= 1
    /\ ConnectionLeft

-----------------------------------------------------------------------------
(* The inductive invariant: TFTP.                                           *)

\* The newest block that transfer t has been asked for.
Newest(t) == IF t = rport THEN tftp_blocknum ELSE 1

\* How far each transfer is; only the client's own gets beyond its first block.
TransferInv ==
    tftp_status = "Pending" =>
        /\ rport = NoPort => tftp_blocknum = 1
        /\ \A t \in Tids : sending[t] \in 0 .. Newest(t) \cup {Done}
        /\ rport # NoPort => sending[rport] >= tftp_blocknum - 1

\* What is on the network of a transfer is at most Life blocks old.
PacketsInv ==
    tftp_status = "Pending" =>
        \A p \in tnet :
            /\ p.op = "data" => p.block <= Newest(p.tid) /\ p.block <= sending[p.tid]
            /\ p.op = "ack" => p.tid = rport /\ p.block < tftp_blocknum
            /\ p.op \in {"data", "ack"} => p.block + Life >= Newest(p.tid) - 1

\* The blocks received so far.
DestInv ==
    /\ FileIntact
    /\ tftp_status # "Success" => Len(tftp_dest) = tftp_blocknum - 1

\* What the reads that are over have left in memory.
MemoryInv ==
    /\ memory \in [Files -> Seq(Nat)]
    /\ Reading => file = step
    /\ step \in {"loaded", "ramdisk", "ramdisk done", "args", "done", "booted", "returned"} =>
           Whole("bootfile")
    /\ ramdisk => step \in {"ramdisk done", "args", "done", "booted", "returned"}
                  /\ Whole("ramdisk")

IInv ==
    /\ NetbootTypeOK /\ RepliesInv /\ AddressInv /\ ConnsInv
    /\ TransferInv /\ PacketsInv /\ DestInv /\ MemoryInv

-----------------------------------------------------------------------------
(* DHCP.                                                                    *)

\* The fields of a packet.
LEMMA PacketFields ==
    ASSUME NEW p \in Packets
    PROVE  /\ p.xid \in Xids
           /\ p.type \in {"discover", "request", "offer", "ack", "nak", "release"}
           /\ p.type # "discover" => p.server \in Servers
BY DEF Packets

\* Packets with an id and a server.
LEMMA PacketMade ==
    ASSUME NEW x \in Xids
    PROVE  /\ [type |-> "discover", xid |-> x] \in Packets
           /\ \A s \in Servers, ty \in {"request", "offer", "ack", "nak", "release"} :
                  [type |-> ty, xid |-> x, server |-> s] \in Packets
BY DEF Packets

\* After SendNew only the new packet carries the new id.
LEMMA SentNew ==
    ASSUME DhcpTypeOK, NEW p, SendNew(p),
           \/ p = [type |-> "discover", xid |-> xid]
           \/ /\ p.type \in {"request", "release"} /\ p.server \in Servers
              /\ p = [type |-> p.type, xid |-> xid, server |-> p.server]
    PROVE  /\ xid' \in Xids
           /\ air' \subseteq Packets
           /\ \A q \in air' : \/ q \in air /\ q.xid # xid'
                              \/ /\ q.type = p.type
                                 /\ p.type # "discover" => q.server = p.server
<1>1. PICK x \in Xids \ {xid} :
        xid' = x /\ air' = {q \in air : q.xid # x} \cup {[p EXCEPT !.xid = x]}
  BY DEF SendNew
<1>2. \/ /\ p.type = "discover"
         /\ [p EXCEPT !.xid = x] = [type |-> "discover", xid |-> x]
      \/ /\ p.type \in {"request", "release"} /\ p.server \in Servers
         /\ [p EXCEPT !.xid = x] = [type |-> p.type, xid |-> x, server |-> p.server]
  <2>1. CASE p = [type |-> "discover", xid |-> xid]
    BY <2>1
  <2>2. CASE /\ p.type \in {"request", "release"} /\ p.server \in Servers
             /\ p = [type |-> p.type, xid |-> xid, server |-> p.server]
    <3>1. [[type |-> p.type, xid |-> xid, server |-> p.server] EXCEPT !.xid = x]
            = [type |-> p.type, xid |-> x, server |-> p.server]
      OBVIOUS
    <3>2. QED
      BY <2>2, <3>1
  <2>3. QED
    BY <2>1, <2>2
<1>3. [p EXCEPT !.xid = x] \in Packets
  <2>1. /\ [type |-> "discover", xid |-> x] \in Packets
        /\ \A s \in Servers, ty \in {"request", "offer", "ack", "nak", "release"} :
               [type |-> ty, xid |-> x, server |-> s] \in Packets
    BY PacketMade
  <2>2. QED
    BY <1>2, <2>1
<1>4. xid' \in Xids /\ air' \subseteq Packets
  BY <1>1, <1>3 DEF DhcpTypeOK
<1>5. QED
  BY <1>1, <1>2, <1>4

\* The address in use, the packets in the air and the connections, over every
\* step of netboot() and of the servers.
LEMMA DhcpStep ==
    ASSUME IInv, Next
    PROVE  DhcpTypeOK' /\ RepliesInv' /\ AddressInv' /\ ConnsInv'
<1>1. /\ DhcpTypeOK /\ RepliesInv /\ AddressInv /\ ConnsInv
      /\ step \in Steps /\ None \notin Servers
      /\ MaxConns \in Nat /\ MaxConns > 0 /\ Sends \in Nat /\ Sends > 0
  BY DhcpAssumption DEF IInv, NetbootTypeOK
<1>2. ASSUME step = "dhcp", StartRequest, step' = IF hostaddr' # None THEN "bound" ELSE "dhcp"
      PROVE  DhcpTypeOK' /\ RepliesInv' /\ AddressInv' /\ ConnsInv'
  <2>1. /\ step' = "dhcp" /\ hostaddr' = None /\ at = "out"
        /\ UNCHANGED <<dhcp_state, server_id, lease>>
    BY <1>2 DEF StartRequest
  <2>2. CASE conns = MaxConns /\ UNCHANGED <<at, xid, waits, conns, air>>
    BY <1>1, <1>2, <2>1, <2>2 DEF DhcpTypeOK, RepliesInv, AddressInv, ConnsInv, AddressHeld,
                            ConnectionLeft, Reading
  <2>3. CASE /\ conns # MaxConns
             /\ conns' = conns + 1 /\ at' = "discover" /\ waits' = 0
             /\ SendNew([type |-> "discover", xid |-> xid])
    <3>1. /\ xid' \in Xids /\ air' \subseteq Packets
          /\ \A q \in air' : (q \in air /\ q.xid # xid') \/ q.type = "discover"
      BY <1>1, <2>3, SentNew
    <3>2. DhcpTypeOK'
      BY <1>1, <2>1, <2>3, <3>1 DEF DhcpTypeOK
    <3>3. RepliesInv'
      BY <1>1, <1>2, <2>1, <2>3, <3>1 DEF RepliesInv
    <3>4. AddressInv' /\ ConnsInv'
      BY <1>1, <1>2, <2>1, <2>3 DEF AddressInv, ConnsInv, AddressHeld, ConnectionLeft,
                                    Reading,
                              DhcpTypeOK
    <3>5. QED
      BY <3>2, <3>3, <3>4
  <2>4. QED
    BY <1>2, <2>2, <2>3 DEF StartRequest
<1>3. ASSUME step = "dhcp", NEW p \in air, TakeOffer(p),
             step' = IF hostaddr' # None THEN "bound" ELSE "dhcp"
      PROVE  DhcpTypeOK' /\ RepliesInv' /\ AddressInv' /\ ConnsInv'
  <2>1. /\ step' = "dhcp" /\ at = "discover" /\ p.xid = xid
        /\ UNCHANGED <<hostaddr, conns, lease>>
    BY <1>1, <1>3 DEF TakeOffer, Accepts, AddressInv
  <2>2. p.type = "offer" /\ p.server \in Servers
    BY <1>1, <1>3, <2>1, PacketFields DEF RepliesInv, TakeOffer, Accepts, DhcpTypeOK
  <2>3. CASE /\ server_id' = p.server /\ dhcp_state' = "Requesting"
             /\ SendNew([type |-> "request", xid |-> xid, server |-> p.server])
             /\ at' = "request" /\ waits' = 0
    <3>1. /\ xid' \in Xids /\ air' \subseteq Packets
          /\ \A q \in air' : \/ q \in air /\ q.xid # xid'
                             \/ q.type = "request" /\ q.server = p.server
      BY <1>1, <2>2, <2>3, SentNew
    <3>2. DhcpTypeOK'
      BY <1>1, <2>1, <2>2, <2>3, <3>1 DEF DhcpTypeOK
    <3>3. RepliesInv'
      BY <1>1, <1>3, <2>1, <2>2, <2>3, <3>1 DEF RepliesInv
    <3>4. AddressInv' /\ ConnsInv'
      BY <1>1, <1>3, <2>1, <2>3 DEF AddressInv, ConnsInv, AddressHeld, ConnectionLeft,
                                    Reading
    <3>5. QED
      BY <3>2, <3>3, <3>4
  <2>4. CASE at' = "out" /\ waits' = 0 /\ UNCHANGED <<dhcp_state, server_id, xid, air>>
    BY <1>1, <1>3, <2>1, <2>4 DEF DhcpTypeOK, RepliesInv, AddressInv, ConnsInv, AddressHeld,
                            ConnectionLeft, Reading
  <2>5. QED
    BY <1>3, <2>3, <2>4 DEF TakeOffer
<1>4. ASSUME step = "dhcp", NEW p \in air, TakeReply(p),
             step' = IF hostaddr' # None THEN "bound" ELSE "dhcp"
      PROVE  DhcpTypeOK' /\ RepliesInv' /\ AddressInv' /\ ConnsInv'
  <2>1. /\ at = "request" /\ at' = "out" /\ waits' = 0 /\ p.xid = xid
        /\ UNCHANGED <<xid, server_id, air, lease>>
    BY <1>4 DEF TakeReply, Accepts
  <2>2. p.type \in {"ack", "nak"} /\ p.server = server_id /\ p.server \in Servers
    BY <1>1, <1>4, <2>1, PacketFields DEF RepliesInv, TakeReply, Accepts, DhcpTypeOK
  <2>3. p.type = "ack" => p.server \in lease
    BY <1>1, <1>4 DEF RepliesInv
  <2>4. conns \in 1 .. MaxConns /\ hostaddr = None
    BY <1>1, <1>4, <2>1 DEF ConnsInv, AddressInv, DhcpTypeOK
  <2>5. CASE dhcp_state' = "Init" /\ hostaddr' = hostaddr /\ conns' \in {conns, conns - 1}
    BY <1>1, <1>4, <2>1, <2>4, <2>5 DEF DhcpTypeOK, RepliesInv, AddressInv, ConnsInv,
                                        AddressHeld,
                            ConnectionLeft, Reading
  <2>6. CASE p.type # "nak" /\ conns' = conns - 1 /\ dhcp_state' = "Bound" /\ hostaddr' = p.server
    BY <1>1, <1>4, <2>1, <2>2, <2>3, <2>4, <2>6
       DEF DhcpTypeOK, RepliesInv, AddressInv, ConnsInv, AddressHeld, ConnectionLeft,
           Reading
  <2>7. QED
    BY <1>4, <2>5, <2>6 DEF TakeReply, IsNak, ConnRemoved
<1>5. ASSUME step = "dhcp", WaitTimesOut, step' = IF hostaddr' # None THEN "bound" ELSE "dhcp"
      PROVE  DhcpTypeOK' /\ RepliesInv' /\ AddressInv' /\ ConnsInv'
  <2>1. /\ step' = "dhcp" /\ at # "out" /\ air' = air \cup {Outgoing}
        /\ UNCHANGED <<dhcp_state, xid, server_id, hostaddr, conns, lease>>
        /\ at' \in {at, "out"}
    BY <1>1, <1>5 DEF WaitTimesOut, AddressInv
  <2>2. waits' \in 0 .. Sends - 1
    BY <1>1, <1>5 DEF WaitTimesOut, DhcpTypeOK
  <2>3. /\ Outgoing \in Packets
        /\ Outgoing.xid = xid
        /\ at = "discover" => Outgoing.type = "discover"
        /\ at # "discover" =>
              at = "request" /\ Outgoing.type = "request" /\ Outgoing.server = server_id
    <3>1. xid \in Xids
      BY <1>1 DEF DhcpTypeOK
    <3>2. CASE at = "discover"
      BY <3>1, <3>2, PacketMade DEF Outgoing
    <3>3. CASE at # "discover"
      <4>1. at = "request" /\ server_id \in Servers
        BY <1>1, <1>5, <2>1, <3>3 DEF DhcpTypeOK, RepliesInv
      <4>2. [type |-> "request", xid |-> xid, server |-> server_id] \in Packets
        BY <3>1, <4>1, PacketMade
      <4>3. QED
        BY <3>3, <4>1, <4>2 DEF Outgoing
    <3>4. QED
      BY <3>2, <3>3
  <2>4. DhcpTypeOK'
    BY <1>1, <2>1, <2>2, <2>3 DEF DhcpTypeOK
  <2>5. RepliesInv'
    BY <1>1, <1>5, <2>1, <2>3 DEF RepliesInv
  <2>6. AddressInv' /\ ConnsInv'
    BY <1>1, <1>5, <2>1 DEF AddressInv, ConnsInv, AddressHeld, ConnectionLeft, Reading
  <2>7. QED
    BY <2>4, <2>5, <2>6
<1>6. CASE RequestAddress
  BY <1>2, <1>3, <1>4, <1>5, <1>6 DEF RequestAddress
<1>7. ASSUME step \in {"bound", "loaded", "ramdisk done"}, NEW f, NEW room,
             NEW next \in {"bootfile", "ramdisk", "args"}, ReadFile(f, room, next)
      PROVE  DhcpTypeOK' /\ RepliesInv' /\ AddressInv' /\ ConnsInv'
  <2>1. /\ conns < MaxConns /\ conns' = conns + 1 /\ air' = {} /\ step' = next
        /\ UNCHANGED <<dhcp_state, at, xid, waits, server_id, hostaddr, lease>>
    BY <1>7 DEF ReadFile
  <2>2. conns \in 0 .. MaxConns /\ conns' \in 1 .. MaxConns
    BY <1>1, <2>1 DEF DhcpTypeOK
  <2>3. DhcpTypeOK'
    BY <1>1, <2>1, <2>2 DEF DhcpTypeOK
  <2>4. RepliesInv' /\ AddressInv'
    BY <1>1, <1>7, <2>1 DEF RepliesInv, AddressInv, AddressHeld
  <2>5. ConnsInv'
    <3>1. step' \in {"bootfile", "ramdisk", "args"}
      BY <1>7, <2>1
    <3>2. MaxConns \in Nat
      BY <1>1
    <3>3. conns' >= 1
      BY <2>2, <3>2
    <3>4. QED
      BY <3>1, <3>3 DEF ConnsInv, ConnectionLeft
  <2>6. QED
    BY <2>3, <2>4, <2>5
<1>8. CASE ReadBootfile \/ ReadRamdisk \/ ReadArgs
  BY <1>7, <1>8 DEF ReadBootfile, ReadRamdisk, ReadArgs
<1>9. CASE BootfileEnds \/ RamdiskEnds \/ ArgsEnds
  <2>1. /\ Reading /\ conns' = conns - 1
        /\ step' \in {"loaded", "failed", "ramdisk done", "done"}
        /\ UNCHANGED <<dhcp_state, at, xid, waits, server_id, hostaddr, air, lease>>
    BY <1>9 DEF BootfileEnds, RamdiskEnds, ArgsEnds, AfterBootfile, ReadEnds, Reading
  <2>2. conns \in 1 .. MaxConns /\ conns' \in 0 .. MaxConns /\ conns' < MaxConns
    <3>1. conns \in 0 .. MaxConns /\ conns >= 1
      BY <1>1, <2>1 DEF DhcpTypeOK, ConnsInv, Reading
    <3>2. MaxConns \in Nat /\ conns' = conns - 1
      BY <1>1, <2>1
    <3>3. QED
      BY <3>1, <3>2
  <2>3. DhcpTypeOK'
    BY <1>1, <2>1, <2>2 DEF DhcpTypeOK
  <2>4. RepliesInv' /\ AddressInv'
    BY <1>1, <2>1 DEF RepliesInv, AddressInv, AddressHeld, Reading
  <2>5. ConnsInv'
    BY <1>1, <2>1, <2>2 DEF ConnsInv, AddressInv, ConnectionLeft, Reading
  <2>6. QED
    BY <2>3, <2>4, <2>5
<1>10. CASE NoRamdisk \/ NoArgs
  BY <1>1, <1>10 DEF NoRamdisk, NoArgs, dhcpVars, client, DhcpTypeOK, RepliesInv,
                     AddressInv,
                     ConnsInv, AddressHeld, ConnectionLeft, Reading
<1>11. CASE Release
  <2>1. /\ dhcp_release /\ step \in {"done", "failed"}
        /\ step' \in {"booted", "returned", "halted"}
    BY <1>11 DEF Release
  <2>2. /\ at = "out" /\ dhcp_state' = "Init"
        /\ SendNew([type |-> "release", xid |-> xid, server |-> server_id])
        /\ UNCHANGED <<at, waits, server_id, hostaddr, conns, lease>>
    BY <2>1 DEF dhcp_release
  <2>3. server_id \in Servers
    BY <1>1, <2>1 DEF AddressInv, AddressHeld, DhcpTypeOK
  <2>4. xid' \in Xids /\ air' \subseteq Packets
    BY <1>1, <2>2, <2>3, SentNew
  <2>5. DhcpTypeOK'
    BY <1>1, <2>2, <2>4 DEF DhcpTypeOK
  <2>6. RepliesInv' /\ AddressInv' /\ ConnsInv'
    BY <1>1, <2>1, <2>2 DEF RepliesInv, AddressInv, ConnsInv, AddressHeld, ConnectionLeft,
                            Reading
  <2>7. QED
    BY <2>5, <2>6
<1>12. CASE Network
  <2>1. /\ step = "dhcp" \/ step \in {"booted", "returned", "halted"}
        /\ step' = step /\ UNCHANGED client
    BY <1>12 DEF Network, Terminal, bootVars, Serve, Lose
  <2>2. AddressInv' /\ ConnsInv'
    BY <1>1, <2>1 DEF client, AddressInv, ConnsInv, AddressHeld, ConnectionLeft, Reading
  <2>3. ASSUME NEW s \in Servers, NEW p \in air, Serve(s, p)
        PROVE  DhcpTypeOK' /\ RepliesInv'
    <3>1. p \in Packets /\ p.xid \in Xids
      BY <1>1, PacketFields DEF DhcpTypeOK
    <3>2. /\ [type |-> "offer", xid |-> p.xid, server |-> s] \in Packets
          /\ [type |-> "ack", xid |-> p.xid, server |-> s] \in Packets
          /\ [type |-> "nak", xid |-> p.xid, server |-> s] \in Packets
      BY <3>1, PacketMade
    <3>3. CASE p.type = "discover" /\ lease' = lease
               /\ air' = air \cup {[type |-> "offer", xid |-> p.xid, server |-> s]}
      BY <1>1, <2>1, <3>2, <3>3 DEF client, DhcpTypeOK, RepliesInv
    <3>4. CASE p.type = "request" /\ p.server = s /\ lease' = lease \cup {s}
               /\ air' = air \cup {[type |-> "ack", xid |-> p.xid, server |-> s]}
      BY <1>1, <2>1, <3>2, <3>4 DEF client, DhcpTypeOK, RepliesInv
    <3>5. CASE p.type = "request" /\ p.server = s /\ lease' = lease
               /\ air' = air \cup {[type |-> "nak", xid |-> p.xid, server |-> s]}
      BY <1>1, <2>1, <3>2, <3>5 DEF client, DhcpTypeOK, RepliesInv
    <3>6. CASE p.type = "release" /\ lease' = lease \ {s} /\ air' = air \ {p}
      BY <1>1, <2>1, <3>6 DEF client, DhcpTypeOK, RepliesInv
    <3>7. QED
      BY <2>3, <3>3, <3>4, <3>5, <3>6 DEF Serve, Send
  <2>4. ASSUME NEW p \in air, Lose(p)
        PROVE  DhcpTypeOK' /\ RepliesInv'
    BY <1>1, <2>1, <2>4 DEF Lose, client, DhcpTypeOK, RepliesInv
  <2>5. QED
    BY <1>12, <2>2, <2>3, <2>4 DEF Network
<1>13. CASE TftpRuns
  BY <1>1, <1>13 DEF TftpRuns, dhcpVars, bootVars, client, DhcpTypeOK, RepliesInv,
                     AddressInv,
                     ConnsInv, AddressHeld, ConnectionLeft, Reading
<1>14. QED
  BY <1>6, <1>8, <1>9, <1>10, <1>11, <1>12, <1>13 DEF Next

-----------------------------------------------------------------------------
(* TFTP.                                                                    *)

TftpInv == TftpTypeOK /\ TransferInv /\ PacketsInv /\ DestInv

\* The quotient and the remainder.
LEMMA Division ==
    ASSUME NEW a \in Nat, NEW m \in Nat, m > 0
    PROVE  a \div m \in Nat /\ a = m * (a \div m) + (a % m)
OBVIOUS

\* A multiple of m strictly between -m and m is 0.
LEMMA SmallMultiple ==
    ASSUME NEW m \in Nat, NEW k \in Int, m > 0, m * k < m, m * k > 0 - m
    PROVE  k = 0
<1>1. CASE k >= 1
  <2>1. m * k >= m
    BY <1>1
  <2>2. QED
    BY <2>1
<1>2. CASE k <= -1
  <2>1. m * k <= 0 - m
    BY <1>2
  <2>2. QED
    BY <2>1
<1>3. QED
  BY <1>1, <1>2

\* Within a window of Modulus blocks the number on the wire identifies a block.
LEMMA SameOnWire ==
    ASSUME NEW a \in Nat, NEW b \in Nat, OnWire(a) = OnWire(b), a <= b, b < a + Modulus
    PROVE  a = b
<1> DEFINE k == (b \div Modulus) - (a \div Modulus)
<1>1. Modulus \in Nat /\ Modulus > 0
  BY TftpAssumption
<1>2. a = Modulus * (a \div Modulus) + (a % Modulus) /\ a \div Modulus \in Nat
  BY <1>1, Division
<1>3. b = Modulus * (b \div Modulus) + (b % Modulus) /\ b \div Modulus \in Nat
  BY <1>1, Division
<1>4. k \in Int /\ b - a = Modulus * k
  BY <1>1, <1>2, <1>3 DEF OnWire
<1>5. Modulus * k < Modulus /\ Modulus * k > 0 - Modulus
  BY <1>1, <1>4
<1>6. k = 0
  BY <1>1, <1>4, <1>5, SmallMultiple
<1> HIDE DEF k
<1>7. QED
  BY <1>1, <1>4, <1>6

\* The constants, and the size of the file.
LEMMA TftpNumbers ==
    ASSUME TftpTypeOK
    PROVE  /\ LastBlock \in Nat /\ LastBlock >= 1
           /\ Life \in Nat /\ Life >= 1
           /\ Modulus \in Nat /\ Life + 1 < Modulus
           /\ NoPort \notin Tids
BY TftpAssumption DEF TftpTypeOK, LastBlock

NetPackets ==
    {ReadRequest} \cup {Error(t) : t \in Tids}
    \cup {Data(t, i) : t \in Tids, i \in 1 .. LastBlock}
    \cup {Ack(t, i) : t \in Tids, i \in 1 .. LastBlock}

\* The fields of a packet on the network.
LEMMA NetFields ==
    ASSUME NEW p \in NetPackets
    PROVE  /\ p.op \in {"rrq", "error", "data", "ack"}
           /\ p.op = "error" => p.tid \in Tids
           /\ p.op \in {"data", "ack"} => p.tid \in Tids /\ p.block \in 1 .. LastBlock
BY DEF NetPackets, ReadRequest, Error, Data, Ack

\* After Sent the network holds the packet and what is young enough.
LEMMA SentPacket ==
    ASSUME TftpTypeOK, NEW t \in Tids, NEW i \in 1 .. LastBlock, NEW p,
           p \in {Data(t, i), Ack(t, i)}, Sent(p)
    PROVE  /\ tnet' \subseteq NetPackets
           /\ \A q \in tnet' :
                \/ q = p
                \/ q \in tnet /\ (q.op \in {"data", "ack"} /\ q.tid = t => q.block + Life >= i)
<1>1. tnet \subseteq NetPackets
  BY DEF TftpTypeOK, NetPackets
<1>2. p \in NetPackets /\ p.tid = t /\ p.block = i
  BY DEF NetPackets, Data, Ack
<1>3. QED
  BY <1>1, <1>2 DEF Sent

\* One more block in order.
LEMMA OneMore ==
    ASSUME NEW n \in Nat, NEW dest \in Seq(Nat), Len(dest) = n, dest = [i \in 1 .. n |-> i]
    PROVE  /\ Append(dest, n + 1) \in Seq(Nat)
           /\ Len(Append(dest, n + 1)) = n + 1
           /\ Append(dest, n + 1) = [i \in 1 .. n + 1 |-> i]
<1>1. /\ Append(dest, n + 1) \in Seq(Nat) /\ Len(Append(dest, n + 1)) = n + 1
      /\ \A i \in 1 .. n + 1 : Append(dest, n + 1)[i] = i
  OBVIOUS
<1>2. QED
  BY <1>1

\* tftp_callback takes the block it waits for, and no other that looks like it.
LEMMA CallbackStep ==
    ASSUME TftpInv, tftp_status = "Pending", NEW p \in tnet, Arrives(p), Callback(p)
    PROVE  TftpInv'
<1>1. /\ TftpTypeOK /\ TransferInv /\ PacketsInv /\ DestInv
      /\ LastBlock \in Nat /\ LastBlock >= 1 /\ Life \in Nat /\ NoPort \notin Tids
      /\ Modulus \in Nat /\ Life + 1 < Modulus
  BY TftpNumbers DEF TftpInv
<1>2. /\ p.tid \in Tids /\ p.op \in {"data", "error"} /\ rport \in {NoPort, p.tid}
      /\ p.op = "data" => p.block \in 1 .. LastBlock
  <2>1. p \in NetPackets
    BY <1>1 DEF TftpTypeOK, NetPackets
  <2>2. QED
    BY <2>1, NetFields DEF Arrives
<1>3. /\ UNCHANGED <<tftp_room, file, sending>> /\ rport' = p.tid
      /\ LastBlock' = LastBlock /\ Done' = Done
  BY DEF Callback, LastBlock, Done
<1>4. tftp_blocknum \in 1 .. LastBlock /\ tftp_blocknum \in Nat
  BY <1>1 DEF TftpTypeOK
<1>5. /\ Newest(p.tid) = tftp_blocknum
      /\ \A t \in Tids \ {p.tid} : Newest(t) = 1
  BY <1>1, <1>2 DEF Newest, TransferInv
<1>6. CASE UNCHANGED <<tftp_blocknum, tftp_dest, tnet>> /\ tftp_status' \in {"Pending", "Failure"}
  <2>1. \A t \in Tids : Newest(t)' = Newest(t)
    BY <1>2, <1>3, <1>5, <1>6 DEF Newest
  <2>2. TftpTypeOK'
    BY <1>1, <1>2, <1>3, <1>6 DEF TftpTypeOK
  <2>3. TransferInv'
    <3>1. sending[p.tid] >= tftp_blocknum - 1
      BY <1>1, <1>2, <1>4 DEF TransferInv, TftpTypeOK
    <3>2. QED
      BY <1>1, <1>2, <1>3, <1>6, <2>1, <3>1 DEF TransferInv
  <2>4. PacketsInv'
    <3>1. \A q \in tnet : q.op \in {"data", "ack"} => q.tid \in Tids
      <4>1. tnet \subseteq NetPackets
        BY <1>1 DEF TftpTypeOK, NetPackets
      <4>2. QED
        BY <4>1, NetFields
    <3>2. QED
      BY <1>1, <1>2, <1>3, <1>6, <2>1, <3>1 DEF PacketsInv
  <2>5. DestInv'
    BY <1>1, <1>3, <1>6 DEF DestInv, FileIntact
  <2>6. QED
    BY <2>2, <2>3, <2>4, <2>5 DEF TftpInv
<1>7. CASE /\ p.op = "data" /\ IsNext(p)
           /\ tftp_dest' = Append(tftp_dest, p.block)
           /\ Sent(Ack(p.tid, tftp_blocknum))
           /\ IF p.block = LastBlock
              THEN tftp_status' = "Success" /\ UNCHANGED tftp_blocknum
              ELSE tftp_blocknum' = tftp_blocknum + 1 /\ UNCHANGED tftp_status
  <2>1. p.block = tftp_blocknum /\ sending[p.tid] >= tftp_blocknum
    <3>1. /\ p.block <= tftp_blocknum /\ p.block <= sending[p.tid]
          /\ p.block + Life >= tftp_blocknum - 1
      BY <1>1, <1>5, <1>7 DEF PacketsInv
    <3>2. p.block \in Nat /\ tftp_blocknum < p.block + Modulus
      BY <1>1, <1>2, <1>4, <1>7, <3>1
    <3>3. p.block = tftp_blocknum
      BY <1>4, <1>7, <3>1, <3>2, SameOnWire DEF IsNext
    <3>4. QED
      BY <3>1, <3>3
  <2>2. /\ tnet' \subseteq NetPackets
        /\ \A q \in tnet' :
                \/ q = Ack(p.tid, tftp_blocknum)
                \/ /\ q \in tnet
                   /\ q.op \in {"data", "ack"} /\ q.tid = p.tid => q.block + Life >= tftp_blocknum
    BY <1>1, <1>2, <1>4, <1>7, SentPacket
  <2>3. /\ tftp_dest' \in Seq(1 .. LastBlock)
        /\ Len(tftp_dest') = tftp_blocknum
        /\ tftp_dest' = [i \in 1 .. tftp_blocknum |-> i]
    <3>1. /\ tftp_dest \in Seq(1 .. LastBlock) /\ Len(tftp_dest) = tftp_blocknum - 1
          /\ tftp_dest = [i \in 1 .. Len(tftp_dest) |-> i]
      BY <1>1 DEF TftpTypeOK, DestInv, FileIntact
    <3>2. tftp_dest \in Seq(Nat) /\ tftp_blocknum - 1 \in Nat
      BY <1>1, <1>4, <3>1
    <3>3. /\ Len(Append(tftp_dest, tftp_blocknum)) = tftp_blocknum
          /\ Append(tftp_dest, tftp_blocknum) = [i \in 1 .. tftp_blocknum |-> i]
      <4> DEFINE n == tftp_blocknum - 1
      <4>1. n \in Nat /\ tftp_dest \in Seq(Nat) /\ Len(tftp_dest) = n
            /\ tftp_dest = [i \in 1 .. n |-> i]
        BY <3>1, <3>2
      <4>2. n + 1 = tftp_blocknum
        BY <1>4
      <4> HIDE DEF n
      <4>3. /\ Len(Append(tftp_dest, n + 1)) = n + 1
            /\ Append(tftp_dest, n + 1) = [i \in 1 .. n + 1 |-> i]
        BY <4>1, OneMore
      <4>4. QED
        BY <4>2, <4>3
    <3>4. Append(tftp_dest, tftp_blocknum) \in Seq(1 .. LastBlock)
      BY <1>4, <3>1
    <3>5. QED
      BY <1>7, <2>1, <3>3, <3>4
  <2>4. TftpTypeOK'
    BY <1>1, <1>2, <1>3, <1>4, <1>7, <2>1, <2>2, <2>3 DEF TftpTypeOK, NetPackets
  <2>5. DestInv'
    <3>1. tftp_dest' = [i \in 1 .. Len(tftp_dest') |-> i]
      BY <2>3
    <3>2. tftp_status' = "Success" => Len(tftp_dest') = LastBlock'
      BY <1>3, <1>7, <2>1, <2>3
    <3>3. tftp_status' # "Success" => Len(tftp_dest') = tftp_blocknum' - 1
      BY <1>4, <1>7, <2>3
    <3>4. QED
      BY <3>1, <3>2, <3>3 DEF DestInv, FileIntact
  <2>6. CASE tftp_status' = "Success"
    BY <2>4, <2>5, <2>6 DEF TftpInv, TransferInv, PacketsInv
  <2>7. CASE tftp_blocknum' = tftp_blocknum + 1 /\ tftp_status' = tftp_status
    <3>1. /\ Newest(p.tid)' = tftp_blocknum + 1
          /\ \A t \in Tids \ {p.tid} : Newest(t)' = 1
      BY <1>3, <2>7 DEF Newest
    <3>2. TransferInv'
      <4>1. \A t \in Tids : sending[t] \in 0 .. Newest(t) \cup {Done}
        BY <1>1 DEF TransferInv
      <4>2. \A t \in Tids : sending[t] \in 0 .. Newest(t)' \cup {Done}
        BY <1>2, <1>4, <1>5, <3>1, <4>1
      <4>3. QED
        BY <1>1, <1>2, <1>3, <1>4, <2>1, <2>7, <4>2 DEF TransferInv
    <3>3. PacketsInv'
      <4> SUFFICES ASSUME NEW q \in tnet'
                   PROVE  /\ q.op = "data" =>
                                q.block <= Newest(q.tid)' /\ q.block <= sending'[q.tid]
                          /\ q.op = "ack" => q.tid = rport' /\ q.block < tftp_blocknum'
                          /\ q.op \in {"data", "ack"} => q.block + Life >= Newest(q.tid)' - 1
        BY DEF PacketsInv
      <4>1. CASE q = Ack(p.tid, tftp_blocknum)
        BY <1>1, <1>3, <1>4, <2>7, <3>1, <4>1 DEF Ack
      <4>2. CASE /\ q \in tnet
                 /\ q.op \in {"data", "ack"} /\ q.tid = p.tid => q.block + Life >= tftp_blocknum
        <5>1. /\ q.op = "data" => q.block <= Newest(q.tid) /\ q.block <= sending[q.tid]
              /\ q.op = "ack" => q.tid = rport /\ q.block < tftp_blocknum
              /\ q.op \in {"data", "ack"} => q.block + Life >= Newest(q.tid) - 1
          BY <1>1, <4>2 DEF PacketsInv
        <5>2. q.op \in {"data", "ack"} => q.tid \in Tids /\ q.block \in Nat
          BY <1>1, <2>2, NetFields
        <5>3. QED
          BY <1>1, <1>2, <1>3, <1>4, <1>5, <2>7, <3>1, <4>2, <5>1, <5>2
      <4>3. QED
        BY <2>2, <4>1, <4>2
    <3>4. QED
      BY <2>4, <2>5, <3>2, <3>3 DEF TftpInv
  <2>8. QED
    BY <1>7, <2>6, <2>7
<1>8. QED
  BY <1>2, <1>6, <1>7 DEF Callback

\* The server moves a transfer on by no more than the client has acknowledged.
LEMMA ServerKeeps ==
    ASSUME TftpInv, tftp_status = "Pending",
           UNCHANGED <<tftp_status, tftp_blocknum, tftp_dest, tftp_room, rport, file>>,
           NEW t \in Tids, NEW v \in 0 .. Newest(t) \cup {Done}, v >= sending[t],
           sending' = [sending EXCEPT ![t] = v],
           tnet' \subseteq NetPackets,
           \A q \in tnet' :
              \/ q \in tnet
              \/ q.op \notin {"data", "ack"}
              \/ \E i \in 1 .. LastBlock : /\ q = Data(t, i) /\ i <= Newest(t) /\ i <= v
                                           /\ i + Life >= Newest(t) - 1
    PROVE  TftpInv'
<1>1. /\ TftpTypeOK /\ TransferInv /\ PacketsInv /\ DestInv
      /\ LastBlock \in Nat /\ LastBlock >= 1 /\ Life \in Nat
      /\ LastBlock' = LastBlock /\ Done' = Done
  BY TftpNumbers DEF TftpInv, LastBlock, Done
<1>2. /\ \A u : Newest(u)' = Newest(u)
      /\ \A u : Newest(u) \in 1 .. LastBlock
  BY <1>1 DEF Newest, TftpTypeOK
<1>3. v \in 0 .. Done /\ v \in Nat
  BY <1>1, <1>2 DEF Done
<1>4. /\ sending \in [Tids -> 0 .. Done] /\ sending' \in [Tids -> 0 .. Done]
      /\ sending'[t] = v /\ \A u \in Tids \ {t} : sending'[u] = sending[u]
  BY <1>1, <1>3 DEF TftpTypeOK
<1>5. \A u \in Tids : sending[u] \in Nat /\ sending'[u] \in Nat /\ sending'[u] >= sending[u]
  BY <1>1, <1>3, <1>4 DEF Done
<1>6. TftpTypeOK'
  BY <1>1, <1>4 DEF TftpTypeOK, NetPackets
<1>7. TransferInv'
  <2>1. \A u \in Tids : sending'[u] \in 0 .. Newest(u)' \cup {Done'}
    BY <1>1, <1>2, <1>4 DEF TransferInv
  <2>2. rport' # NoPort => sending'[rport'] >= tftp_blocknum' - 1
    BY <1>1, <1>5 DEF TransferInv, TftpTypeOK
  <2>3. QED
    BY <1>1, <2>1, <2>2 DEF TransferInv
<1>8. PacketsInv'
  <2> SUFFICES ASSUME NEW q \in tnet'
               PROVE  /\ q.op = "data" => q.block <= Newest(q.tid) /\ q.block <= sending'[q.tid]
                      /\ q.op = "ack" => q.tid = rport /\ q.block < tftp_blocknum
                      /\ q.op \in {"data", "ack"} => q.block + Life >= Newest(q.tid) - 1
    BY <1>2 DEF PacketsInv
  <2>1. CASE q \in tnet
    <3>1. q.op \in {"data", "ack"} => q.tid \in Tids /\ q.block \in Nat
      BY <1>1, NetFields
    <3>2. /\ q.op = "data" => q.block <= Newest(q.tid) /\ q.block <= sending[q.tid]
          /\ q.op = "ack" => q.tid = rport /\ q.block < tftp_blocknum
          /\ q.op \in {"data", "ack"} => q.block + Life >= Newest(q.tid) - 1
      BY <1>1, <2>1 DEF PacketsInv
    <3>3. q.op = "data" => q.block <= sending'[q.tid]
      BY <1>5, <3>1, <3>2
    <3>4. QED
      BY <3>2, <3>3
  <2>2. CASE q.op \notin {"data", "ack"}
    BY <2>2
  <2>3. CASE \E i \in 1 .. LastBlock : /\ q = Data(t, i) /\ i <= Newest(t) /\ i <= v
                                       /\ i + Life >= Newest(t) - 1
    BY <1>4, <2>3 DEF Data
  <2>4. QED
    BY <2>1, <2>2, <2>3
<1>9. DestInv'
  BY <1>1 DEF DestInv, FileIntact
<1>10. QED
  BY <1>6, <1>7, <1>8, <1>9 DEF TftpInv

\* The server opens a transfer, goes on to the next block, repeats one or refuses.
LEMMA ServerStep ==
    ASSUME TftpInv, tftp_status = "Pending", Server
    PROVE  TftpInv'
<1>1. PICK t \in Tids : Open(t) \/ Acknowledged(t) \/ SendAgain(t) \/ Refuse(t)
  BY DEF Server
<1>2. UNCHANGED <<tftp_status, tftp_blocknum, tftp_dest, tftp_room, rport, file>>
  BY DEF Server
<1>3. /\ TftpTypeOK /\ TransferInv /\ PacketsInv
      /\ LastBlock \in Nat /\ LastBlock >= 1 /\ Life \in Nat
      /\ Modulus \in Nat /\ Life + 1 < Modulus
      /\ tnet \subseteq NetPackets /\ sending \in [Tids -> 0 .. Done]
  <2>1. TftpTypeOK /\ TransferInv /\ PacketsInv
    BY DEF TftpInv
  <2>2. tnet \subseteq NetPackets /\ sending \in [Tids -> 0 .. Done]
    BY <2>1 DEF TftpTypeOK, NetPackets
  <2>3. QED
    BY <2>1, <2>2, TftpNumbers
<1>4. /\ Newest(t) \in 1 .. LastBlock
      /\ sending[t] \in 0 .. Newest(t) \cup {Done} /\ sending[t] \in Nat
      /\ sending[t] >= Newest(t) - 1
  BY <1>3 DEF Newest, TransferInv, TftpTypeOK, Done
<1>5. CASE Open(t)
  <2>1. sending[t] = 0 /\ sending' = [sending EXCEPT ![t] = 1] /\ Sent(Data(t, 1))
    BY <1>5 DEF Open
  <2>2. /\ tnet' \subseteq NetPackets
        /\ \A q \in tnet' : q = Data(t, 1) \/ q \in tnet
    BY <1>3, <2>1, SentPacket
  <2>3. /\ 1 \in 1 .. LastBlock /\ 1 \in 0 .. Newest(t) \cup {Done} /\ 1 >= sending[t]
        /\ 1 <= Newest(t) /\ 1 <= 1 /\ 1 + Life >= Newest(t) - 1
    BY <1>3, <1>4, <2>1
  <2>4. QED
    BY <1>2, <2>1, <2>2, <2>3, ServerKeeps
<1>6. CASE Acknowledged(t)
  <2>1. PICK p \in tnet :
          /\ p.op = "ack" /\ p.tid = t
          /\ sending[t] \in 1 .. LastBlock
          /\ OnWire(p.block) = OnWire(sending[t])
          /\ sending' = [sending EXCEPT ![t] = @ + 1]
          /\ IF sending[t] = LastBlock THEN UNCHANGED tnet
                                       ELSE Sent(Data(t, sending[t] + 1))
    BY <1>6 DEF Acknowledged
  <2>2. t = rport /\ p.block < Newest(t) /\ p.block + Life >= Newest(t) - 1 /\ p.block \in Nat
    BY <1>3, <2>1, NetFields DEF PacketsInv, Newest
  <2>3. sending[t] \in {Newest(t) - 1, Newest(t)}
    BY <1>3, <1>4, <2>1 DEF Done
  <2>4. sending[t] = Newest(t) - 1
    <3>1. CASE sending[t] = Newest(t)
      <4>1. p.block <= sending[t] /\ sending[t] < p.block + Modulus
        BY <1>3, <1>4, <2>2, <3>1
      <4>2. p.block = sending[t]
        BY <1>4, <2>1, <2>2, <4>1, SameOnWire
      <4>3. QED
        BY <1>4, <2>2, <3>1, <4>2
    <3>2. QED
      BY <2>3, <3>1
  <2>5. /\ sending[t] + 1 = Newest(t) /\ sending[t] # LastBlock
        /\ sending' = [sending EXCEPT ![t] = Newest(t)]
    <3>1. sending[t] + 1 = Newest(t) /\ sending[t] # LastBlock
      BY <1>3, <1>4, <2>4
    <3>2. QED
      BY <2>1, <3>1
  <2>6. /\ tnet' \subseteq NetPackets
        /\ \A q \in tnet' : q = Data(t, Newest(t)) \/ q \in tnet
    BY <1>3, <1>4, <2>1, <2>5, SentPacket
  <2>7. /\ Newest(t) \in 0 .. Newest(t) \cup {Done} /\ Newest(t) >= sending[t]
        /\ Newest(t) <= Newest(t) /\ Newest(t) + Life >= Newest(t) - 1
    BY <1>3, <1>4, <2>5
  <2>8. QED
    BY <1>2, <1>4, <2>5, <2>6, <2>7, ServerKeeps
<1>7. CASE SendAgain(t)
  <2>1. sending[t] \in 1 .. LastBlock /\ Sent(Data(t, sending[t])) /\ sending' = sending
    BY <1>7 DEF SendAgain
  <2>2. /\ tnet' \subseteq NetPackets
        /\ \A q \in tnet' : q = Data(t, sending[t]) \/ q \in tnet
    BY <1>3, <2>1, SentPacket
  <2>3. sending[t] <= Newest(t) /\ sending[t] + Life >= Newest(t) - 1 /\ sending[t] <= sending[t]
    BY <1>3, <1>4, <2>1 DEF Done
  <2>4. sending' = [sending EXCEPT ![t] = sending[t]]
    BY <1>3, <2>1
  <2>5. QED
    BY <1>2, <1>4, <2>1, <2>2, <2>3, <2>4, ServerKeeps
<1>8. CASE Refuse(t)
  <2>1. sending' = [sending EXCEPT ![t] = Done] /\ tnet' = tnet \cup {Error(t)}
    BY <1>8 DEF Refuse
  <2>2. Done >= sending[t] /\ Done \in 0 .. Newest(t) \cup {Done}
    BY <1>3, <1>4 DEF Done
  <2>3. /\ tnet' \subseteq NetPackets
        /\ \A q \in tnet' : q \in tnet \/ q.op \notin {"data", "ack"}
    BY <1>3, <2>1 DEF NetPackets, Error
  <2>4. QED
    BY <1>2, <2>1, <2>2, <2>3, ServerKeeps
<1>9. QED
  BY <1>1, <1>5, <1>6, <1>7, <1>8

\* The timer of the client, and the network.
LEMMA ResendStep ==
    ASSUME TftpInv, tftp_status = "Pending", Resend \/ LosePacket
    PROVE  TftpInv'
<1>1. UNCHANGED <<tftp_status, tftp_blocknum, tftp_dest, tftp_room, file, sending>>
  BY DEF Resend, LosePacket
<1>2. /\ TftpTypeOK /\ TransferInv /\ PacketsInv /\ DestInv
      /\ LastBlock \in Nat /\ LastBlock >= 1 /\ Life \in Nat /\ NoPort \notin Tids
      /\ tnet \subseteq NetPackets /\ tftp_blocknum \in 1 .. LastBlock
      /\ rport \in Tids \cup {NoPort}
      /\ LastBlock' = LastBlock /\ Done' = Done
  <2>1. TftpTypeOK /\ TransferInv /\ PacketsInv /\ DestInv
    BY DEF TftpInv
  <2>2. /\ tnet \subseteq NetPackets /\ tftp_blocknum \in 1 .. LastBlock
        /\ rport \in Tids \cup {NoPort}
    BY <2>1 DEF TftpTypeOK, NetPackets
  <2>3. LastBlock' = LastBlock /\ Done' = Done
    BY <1>1 DEF LastBlock, Done
  <2>4. QED
    BY <2>1, <2>2, <2>3, TftpNumbers
<1>3. /\ tnet' \subseteq NetPackets
      /\ rport' \in {rport, NoPort}
      /\ rport' # rport => tftp_blocknum = 1
      /\ \A q \in tnet' : \/ q \in tnet
                          \/ q.op \notin {"data", "ack"}
                          \/ /\ q = Ack(rport, tftp_blocknum - 1)
                             /\ rport # NoPort /\ rport' = rport /\ tftp_blocknum > 1
  <2>1. CASE Resend /\ tftp_blocknum = 1
    BY <1>2, <2>1 DEF Resend, NetPackets, ReadRequest
  <2>2. CASE Resend /\ tftp_blocknum # 1
    <3>1. rport \in Tids /\ rport # NoPort
      BY <1>2, <2>2 DEF TransferInv
    <3>2. tftp_blocknum - 1 \in 1 .. LastBlock /\ tftp_blocknum > 1
      BY <1>2, <2>2
    <3>3. Sent(Ack(rport, tftp_blocknum - 1)) /\ rport' = rport
      BY <2>2 DEF Resend, ResentBlock
    <3>4. /\ tnet' \subseteq NetPackets
          /\ \A q \in tnet' : q = Ack(rport, tftp_blocknum - 1) \/ q \in tnet
      BY <1>2, <3>1, <3>2, <3>3, SentPacket
    <3>5. QED
      BY <3>1, <3>2, <3>3, <3>4
  <2>3. CASE LosePacket
    BY <1>2, <2>3 DEF LosePacket
  <2>4. QED
    BY <2>1, <2>2, <2>3
<1>4. \A u \in Tids : Newest(u)' = Newest(u)
  BY <1>1, <1>2, <1>3 DEF Newest
<1>5. TftpTypeOK'
  BY <1>1, <1>2, <1>3 DEF TftpTypeOK, NetPackets
<1>6. TransferInv'
  BY <1>1, <1>2, <1>3, <1>4 DEF TransferInv
<1>7. PacketsInv'
  <2> SUFFICES ASSUME NEW q \in tnet'
               PROVE  /\ q.op = "data" => q.block <= Newest(q.tid)' /\ q.block <= sending'[q.tid]
                      /\ q.op = "ack" => q.tid = rport' /\ q.block < tftp_blocknum'
                      /\ q.op \in {"data", "ack"} => q.block + Life >= Newest(q.tid)' - 1
    BY DEF PacketsInv
  <2>1. CASE q \in tnet
    <3>1. q.op \in {"data", "ack"} => q.tid \in Tids /\ q.block \in Nat /\ q.block >= 1
      BY <1>2, <2>1, NetFields
    <3>2. /\ q.op = "data" => q.block <= Newest(q.tid) /\ q.block <= sending[q.tid]
          /\ q.op = "ack" => q.tid = rport /\ q.block < tftp_blocknum
          /\ q.op \in {"data", "ack"} => q.block + Life >= Newest(q.tid) - 1
      BY <1>2, <2>1 DEF PacketsInv
    <3>3. q.op = "ack" => rport' = rport
      BY <1>2, <1>3, <3>1, <3>2
    <3>4. QED
      BY <1>1, <1>4, <3>1, <3>2, <3>3
  <2>2. CASE q.op \notin {"data", "ack"}
    BY <2>2
  <2>3. CASE /\ q = Ack(rport, tftp_blocknum - 1)
             /\ rport # NoPort /\ rport' = rport /\ tftp_blocknum > 1
    <3>1. q.op = "ack" /\ q.tid = rport /\ q.block = tftp_blocknum - 1
      BY <2>3 DEF Ack
    <3>2. Newest(rport)' = tftp_blocknum
      BY <1>1, <2>3 DEF Newest
    <3>3. QED
      BY <1>1, <1>2, <2>3, <3>1, <3>2
  <2>4. QED
    BY <1>3, <2>1, <2>2, <2>3
<1>8. DestInv'
  BY <1>1, <1>2 DEF DestInv, FileIntact
<1>9. QED
  BY <1>5, <1>6, <1>7, <1>8 DEF TftpInv

\* Every step of netboot(): a transfer goes on, or the next one starts afresh.
LEMMA TftpStep ==
    ASSUME IInv, Next
    PROVE  TftpInv'
<1>1. TftpInv
  BY DEF IInv, NetbootTypeOK, TftpInv
<1>2. CASE UNCHANGED tftpVars
  BY <1>1, <1>2 DEF tftpVars, TftpInv, TftpTypeOK, TransferInv, PacketsInv, DestInv,
                    FileIntact,
                    LastBlock, Done, Newest
<1>3. ASSUME NEW f \in Files, NEW room \in Nat, tftp_read(f, room)
      PROVE  TftpInv'
  <2>1. /\ tftp_status' = "Pending" /\ tftp_blocknum' = 1 /\ tftp_dest' = << >>
        /\ tftp_room' = room /\ rport' = NoPort /\ file' = f
        /\ sending' = [t \in Tids |-> 0] /\ tnet' = {ReadRequest}
    BY <1>3 DEF tftp_read
  <2>2. /\ LastBlock' \in Nat /\ LastBlock' >= 1 /\ Done' \in Nat
    BY <1>3, <2>1, TftpAssumption DEF LastBlock, Done
  <2>3. TftpTypeOK'
    <3>1. << >> \in Seq(1 .. LastBlock') /\ 1 \in 1 .. LastBlock' /\ 0 \in 0 .. Done'
      BY <2>2
    <3>2. QED
      BY <1>3, <2>1, <3>1 DEF TftpTypeOK
  <2>4. TransferInv' /\ PacketsInv'
    <3>1. \A t \in Tids : Newest(t)' = 1
      BY <2>1 DEF Newest
    <3>2. QED
      BY <2>1, <3>1 DEF TransferInv, PacketsInv, ReadRequest
  <2>5. DestInv'
    <3>1. Len(<< >>) = 0 /\ << >> = [i \in 1 .. 0 |-> i]
      OBVIOUS
    <3>2. QED
      BY <2>1, <3>1 DEF DestInv, FileIntact
  <2>6. QED
    BY <2>3, <2>4, <2>5 DEF TftpInv
<1>4. CASE ReadBootfile \/ ReadRamdisk \/ ReadArgs
  <2>1. Files = {"bootfile", "ramdisk", "args"} /\ Room \in Nat /\ ArgsRoom \in Nat
    BY NetbootAssumption
  <2>2. CASE ReadBootfile
    BY <1>3, <2>1, <2>2 DEF ReadBootfile, ReadFile
  <2>3. CASE ReadArgs
    BY <1>3, <2>1, <2>3 DEF ReadArgs, ReadFile
  <2>4. CASE ReadRamdisk
    <3>1. memory["bootfile"] \in Seq(Nat)
      BY <2>1 DEF IInv, MemoryInv
    <3>2. KernelSize \in Int
      BY <3>1 DEF KernelSize
    <3>3. Room - KernelSize \in Nat
      BY <2>1, <2>4, <3>2 DEF ReadRamdisk
    <3>4. QED
      BY <1>3, <2>1, <2>4, <3>3 DEF ReadRamdisk, ReadFile
  <2>5. QED
    BY <1>4, <2>2, <2>3, <2>4
<1>5. CASE TftpRuns /\ (tftp_callback \/ Resend \/ Server \/ LosePacket)
  BY <1>1, <1>5, CallbackStep, ServerStep, ResendStep DEF TftpRuns, tftp_callback
<1>6. QED
  BY <1>2, <1>4, <1>5
     DEF Next, RequestAddress, BootfileEnds, RamdiskEnds, ArgsEnds, ReadEnds, NoRamdisk,
         NoArgs,
         Release, Network

\* Length of what is in order.
LEMMA WholeFile ==
    ASSUME TftpTypeOK, DestInv, tftp_status = "Success"
    PROVE  tftp_dest = [i \in 1 .. Blocks[file] |-> i]
BY DEF DestInv, FileIntact, LastBlock

\* What a read has put into memory is the whole file when it was successful.
LEMMA MemoryStep ==
    ASSUME IInv, Next
    PROVE  step' \in Steps /\ ramdisk' \in BOOLEAN /\ MemoryInv'
<1>1. /\ step \in Steps /\ ramdisk \in BOOLEAN /\ MemoryInv /\ TftpTypeOK /\ DestInv
      /\ {"bootfile", "ramdisk", "args"} = Files
      /\ memory \in [Files -> Seq(Nat)]
  BY NetbootAssumption DEF IInv, NetbootTypeOK, MemoryInv
<1>2. tftp_dest \in Seq(Nat)
  <2>1. tftp_dest \in Seq(1 .. LastBlock) /\ LastBlock \in Nat
    BY <1>1, TftpNumbers DEF TftpTypeOK
  <2>2. 1 .. LastBlock \subseteq Nat
    BY <2>1
  <2>3. QED
    BY <2>1, <2>2
<1>3. CASE RequestAddress
  BY <1>1, <1>3 DEF RequestAddress, MemoryInv, Reading, Whole, Steps
<1>4. CASE ReadBootfile \/ ReadRamdisk \/ ReadArgs
  <2>1. /\ UNCHANGED <<memory, ramdisk>>
        /\ \/ step = "bound" /\ step' = "bootfile" /\ file' = "bootfile"
           \/ step = "loaded" /\ step' = "ramdisk" /\ file' = "ramdisk"
           \/ step = "ramdisk done" /\ step' = "args" /\ file' = "args"
    BY <1>4 DEF ReadBootfile, ReadRamdisk, ReadArgs, ReadFile, tftp_read
  <2>2. QED
    BY <1>1, <2>1 DEF MemoryInv, Reading, Whole, Steps
<1>5. CASE BootfileEnds \/ RamdiskEnds \/ ArgsEnds
  <2>1. /\ file = step /\ file \in Files
        /\ memory' = [memory EXCEPT ![file] = tftp_dest]
    BY <1>1, <1>5 DEF BootfileEnds, RamdiskEnds, ArgsEnds, ReadEnds, MemoryInv, Reading
  <2>2. /\ memory' \in [Files -> Seq(Nat)]
        /\ memory'[file] = tftp_dest
        /\ \A f \in Files \ {file} : memory'[f] = memory[f]
    BY <1>1, <1>2, <2>1
  <2>3. \A f \in Files : f = file /\ tftp_status = "Success" => Whole(f)'
    BY <1>1, <2>2, WholeFile DEF Whole
  <2>4. \A f \in Files \ {file} : Whole(f) => Whole(f)'
    BY <2>2 DEF Whole
  <2>5. CASE BootfileEnds
    <3>1. /\ step = "bootfile" /\ ramdisk' = ramdisk /\ ~ramdisk
          /\ step' = IF tftp_status = "Success" THEN "loaded" ELSE "failed"
      BY <1>1, <2>5 DEF BootfileEnds, AfterBootfile, MemoryInv
    <3>2. tftp_status = "Success" => Whole("bootfile")'
      BY <1>1, <2>1, <2>3, <3>1
    <3>3. file' = file /\ memory' \in [Files -> Seq(Nat)]
      BY <2>2, <2>5 DEF BootfileEnds, ReadEnds, tftpVars
    <3>4. CASE tftp_status = "Success"
      <4>1. step' = "loaded" /\ Whole("bootfile")'
        BY <3>1, <3>2, <3>4
      <4>2. QED
        BY <1>1, <3>1, <3>3, <4>1 DEF MemoryInv, Reading, Steps
    <3>5. CASE tftp_status # "Success"
      <4>1. step' = "failed"
        BY <3>1, <3>5
      <4>2. QED
        BY <1>1, <3>1, <3>3, <4>1 DEF MemoryInv, Reading, Steps
    <3>6. QED
      BY <3>4, <3>5
  <2>6. CASE RamdiskEnds
    <3>1. step = "ramdisk" /\ step' = "ramdisk done" /\ ramdisk' = (tftp_status = "Success")
      BY <2>6 DEF RamdiskEnds
    <3>2. Whole("bootfile")'
      BY <1>1, <2>1, <2>4, <3>1 DEF MemoryInv
    <3>3. ramdisk' \in BOOLEAN /\ (ramdisk' => Whole("ramdisk")')
      BY <1>1, <2>1, <2>3, <3>1
    <3>4. step' = "ramdisk done" /\ memory' \in [Files -> Seq(Nat)]
      BY <2>2, <3>1
    <3>5. QED
      BY <1>1, <3>2, <3>3, <3>4 DEF MemoryInv, Reading, Steps
  <2>7. CASE ArgsEnds
    <3>1. step = "args" /\ step' = "done" /\ ramdisk' = ramdisk
      BY <2>7 DEF ArgsEnds
    <3>2. Whole("bootfile")' /\ (ramdisk => Whole("ramdisk")')
      BY <1>1, <2>1, <2>4, <3>1 DEF MemoryInv
    <3>3. QED
      BY <1>1, <2>2, <3>1, <3>2 DEF MemoryInv, Reading, Steps
  <2>8. QED
    BY <1>5, <2>5, <2>6, <2>7
<1>6. CASE NoRamdisk \/ NoArgs \/ Release
  <2>1. /\ UNCHANGED <<memory, ramdisk>>
        /\ \/ step = "loaded" /\ step' = "ramdisk done"
           \/ step = "ramdisk done" /\ step' = "done"
           \/ step = "done" /\ step' \in {"booted", "returned"}
           \/ step = "failed" /\ step' = "halted"
    BY <1>6 DEF NoRamdisk, NoArgs, Release
  <2>2. QED
    BY <1>1, <2>1 DEF MemoryInv, Reading, Whole, Steps
<1>7. CASE Network \/ (TftpRuns /\ (tftp_callback \/ Resend \/ Server \/ LosePacket))
  <2>1. UNCHANGED <<step, memory, ramdisk, file>>
    BY <1>7 DEF Network, TftpRuns, bootVars, tftpVars, tftp_callback, Callback, Resend,
                Server,
                LosePacket
  <2>2. QED
    BY <1>1, <2>1 DEF MemoryInv, Reading, Whole
<1>8. QED
  BY <1>3, <1>4, <1>5, <1>6, <1>7 DEF Next

-----------------------------------------------------------------------------
(* The theorems.                                                            *)

\* netboot() starts without address, connection, packet or file.
LEMMA InitIInv == Init => IInv
<1> SUFFICES ASSUME Init
             PROVE  IInv
  OBVIOUS
<1>1. /\ Files = {"bootfile", "ramdisk", "args"} /\ None \notin Servers
      /\ MaxConns \in Nat /\ MaxConns > 0 /\ Sends \in Nat /\ Sends > 0
  BY NetbootAssumption, DhcpAssumption
<1>2. xid \in Xids
  <2>1. Xids # {}
    BY DhcpAssumption, FS_EmptySet
  <2>2. QED
    BY <2>1 DEF Init, DhcpInit
<1>3. DhcpTypeOK
  BY <1>1, <1>2 DEF Init, DhcpInit, DhcpTypeOK
<1>4. /\ LastBlock \in Nat /\ LastBlock >= 1
      /\ Len(<< >>) = 0 /\ << >> = [i \in 1 .. 0 |-> i] /\ << >> \in Seq(Nat)
      /\ << >> \in Seq(1 .. LastBlock)
  BY <1>1, TftpAssumption DEF Init, LastBlock
<1>5. TftpTypeOK
  BY <1>1, <1>4 DEF Init, TftpTypeOK, Done
<1>6. DestInv /\ TransferInv /\ PacketsInv
  BY <1>4 DEF Init, DestInv, FileIntact, TransferInv, PacketsInv
<1>7. RepliesInv /\ AddressInv /\ ConnsInv
  BY <1>1 DEF Init, DhcpInit, RepliesInv, AddressInv, ConnsInv, AddressHeld, ConnectionLeft,
              Reading
<1>8. MemoryInv /\ NetbootTypeOK
  BY <1>1, <1>3, <1>4, <1>5 DEF Init, MemoryInv, NetbootTypeOK, Steps, Reading
<1>9. QED
  BY <1>3, <1>5, <1>6, <1>7, <1>8 DEF IInv

\* Every step keeps the whole invariant.
LEMMA StepIInv == IInv /\ [Next]_vars => IInv'
<1> SUFFICES ASSUME IInv, [Next]_vars
             PROVE  IInv'
  OBVIOUS
<1>1. CASE Next
  <2>1. DhcpTypeOK' /\ RepliesInv' /\ AddressInv' /\ ConnsInv'
    BY <1>1, DhcpStep
  <2>2. TftpTypeOK' /\ TransferInv' /\ PacketsInv' /\ DestInv'
    BY <1>1, TftpStep DEF TftpInv
  <2>3. step' \in Steps /\ ramdisk' \in BOOLEAN /\ MemoryInv'
    BY <1>1, MemoryStep
  <2>4. NetbootTypeOK'
    BY <2>1, <2>2, <2>3 DEF NetbootTypeOK, MemoryInv
  <2>5. QED
    BY <2>1, <2>2, <2>3, <2>4 DEF IInv
<1>2. CASE UNCHANGED vars
  <2>1. UNCHANGED <<dhcpVars, tftpVars, bootVars>>
    BY <1>2 DEF vars
  <2>2. DhcpTypeOK' /\ RepliesInv'
    <3>1. DhcpTypeOK'
      BY <2>1 DEF dhcpVars, client, IInv, NetbootTypeOK, DhcpTypeOK
    <3>2. RepliesInv
      BY DEF IInv
    <3>3. RepliesInv'
      BY <2>1, <3>2 DEF dhcpVars, client, bootVars, RepliesInv
    <3>4. QED
      BY <3>1, <3>3
  <2>3. AddressInv' /\ ConnsInv'
    BY <2>1 DEF dhcpVars, client, bootVars, IInv, AddressInv, ConnsInv, AddressHeld,
                ConnectionLeft, Reading
  <2>4. LastBlock' = LastBlock /\ Done' = Done /\ \A t \in Tids : Newest(t)' = Newest(t)
    BY <2>1 DEF tftpVars, LastBlock, Done, Newest
  <2>5. TftpTypeOK' /\ TransferInv'
    BY <2>1, <2>4 DEF tftpVars, IInv, NetbootTypeOK, TftpTypeOK, TransferInv
  <2>6. PacketsInv' /\ DestInv'
    <3>1. PacketsInv /\ DestInv
      BY DEF IInv
    <3>2. PacketsInv'
      BY <2>1, <3>1 DEF tftpVars, PacketsInv, Newest
    <3>3. DestInv'
      BY <2>1, <3>1 DEF tftpVars, DestInv, FileIntact, LastBlock
    <3>4. QED
      BY <3>2, <3>3
  <2>7. step' \in Steps /\ ramdisk' \in BOOLEAN /\ DOMAIN memory' = Files
    BY <2>1 DEF bootVars, IInv, NetbootTypeOK
  <2>8. MemoryInv'
    BY <2>1 DEF tftpVars, bootVars, IInv, MemoryInv, Reading, Whole
  <2>9. QED
    BY <2>2, <2>3, <2>5, <2>6, <2>7, <2>8 DEF IInv, NetbootTypeOK
<1>3. QED
  BY <1>1, <1>2

\* The invariant holds throughout every network boot, whatever is fair.
THEOREM Invariant == Init /\ [][Next]_vars => []IInv
BY InitIInv, StepIInv, PTL

\* From the end of dhcp_request to dhcp_release the address is one that a
\* server has leased to this client, and that server is the one which will be
\* told of the release.
THEOREM AddressTheorem == Spec => []AddressHeld
<1>1. IInv => AddressHeld
  BY DEF IInv, AddressInv
<1>2. QED
  BY <1>1, Invariant, PTL DEF Spec

\* Variables keep their types, and tftp_read and dhcp_release always find a
\* free entry of uip_udp_conns once there is an address.
THEOREM ConnectionsTheorem == Spec => []ConnectionsHeld
<1>1. IInv => ConnectionsHeld
  BY DEF IInv, ConnsInv, ConnectionsHeld
<1>2. QED
  BY <1>1, Invariant, PTL DEF Spec

\* For files of any number of blocks, also more than block numbers on the wire
\* can tell apart: the destination always holds a prefix of the file, the whole
\* of it on success, and what is booted is whole.
THEOREM FilesTheorem == Spec => []FilesWhole
<1>1. IInv => FilesWhole
  <2> SUFFICES ASSUME IInv
               PROVE  FilesWhole
    OBVIOUS
  <2>1. InStep
    <3> SUFFICES ASSUME rport # NoPort, tftp_status = "Pending"
                 PROVE  sending[rport] \in {tftp_blocknum - 1, tftp_blocknum, Done}
      BY DEF InStep
    <3>1. /\ rport \in Tids /\ LastBlock \in Nat /\ tftp_blocknum \in 1 .. LastBlock
      BY TftpNumbers DEF IInv, NetbootTypeOK, TftpTypeOK
    <3>2. /\ sending[rport] \in 0 .. tftp_blocknum \cup {Done}
          /\ sending[rport] >= tftp_blocknum - 1
      BY <3>1 DEF IInv, TransferInv, Newest
    <3>3. QED
      BY <3>1, <3>2
  <2>2. FileIntact /\ BootsWhole
    BY DEF IInv, DestInv, MemoryInv, BootsWhole
  <2>3. QED
    BY <2>1, <2>2 DEF FilesWhole
<1>2. QED
  BY <1>1, Invariant, PTL DEF Spec
=============================================================================
