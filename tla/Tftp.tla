-------------------------------- MODULE Tftp --------------------------------
(***************************************************************************)
(* The TFTP client, src/netboot/tftp.c, with the server it reads from.     *)
(*                                                                         *)
(* A transfer is stop and wait: the server sends a block, the client       *)
(* acknowledges it, the server sends the next.  Block numbers have 16 bits *)
(* on the wire.  The server answers each read request from a port of its   *)
(* own, the transfer id; the client learns it from the first packet.       *)
(*                                                                         *)
(* The network loses, repeats, delays and reorders packets: a packet stays *)
(* in `tnet' for any time and may arrive more than once, but dies out      *)
(* before its transfer is Life blocks further.  A block is named by its    *)
(* place in the file; only the last one is short.                          *)
(***************************************************************************)
EXTENDS Naturals, Sequences

CONSTANTS
    Files,         \* the files that are read
    Blocks,        \* blocks of each file
    EmptyEnd,      \* the files whose last block is empty
    Modulus,       \* 2^16: block numbers on the wire
    Life,          \* how far a transfer gets while a packet of it is alive
    Tids,          \* transfer ids of the server
    NoPort         \* rport = 0

ASSUME TftpAssumption ==
    /\ Blocks \in [Files -> Nat \ {0}] /\ EmptyEnd \subseteq Files
    /\ Modulus \in Nat /\ Life \in Nat \ {0} /\ Life + 1 < Modulus
    /\ NoPort \notin Tids

VARIABLES
    tftp_status,   \* "Pending", "Success", "Failure"
    tftp_blocknum, \* the block that is waited for
    tftp_dest,     \* the blocks copied to the destination
    tftp_room,     \* blocks that fit there (tftp_max_size)
    rport,         \* conn->rport
    file,          \* the file that is read
    sending,       \* by transfer id, the block the server sends; 0: unused
    tnet           \* packets on the network

tftpVars == <<tftp_status, tftp_blocknum, tftp_dest, tftp_room, rport, file, sending, tnet>>

ReadRequest == [op |-> "rrq"]
Data(t, i) == [op |-> "data", tid |-> t, block |-> i]
Ack(t, i) == [op |-> "ack", tid |-> t, block |-> i]
Error(t) == [op |-> "error", tid |-> t]

LastBlock == Blocks[file]
Done == LastBlock + 1          \* the server has closed the transfer

TftpTypeOK ==
    /\ tftp_status \in {"Pending", "Success", "Failure"}
    /\ tftp_blocknum \in 1 .. LastBlock
    /\ tftp_dest \in Seq(1 .. LastBlock)
    /\ tftp_room \in Nat
    /\ rport \in Tids \cup {NoPort}
    /\ file \in Files
    /\ sending \in [Tids -> 0 .. Done]
    /\ tnet \subseteq {ReadRequest} \cup {Error(t) : t \in Tids}
            \cup {Data(t, i) : t \in Tids, i \in 1 .. LastBlock}
            \cup {Ack(t, i) : t \in Tids, i \in 1 .. LastBlock}

\* A packet of transfer t leaves; older ones of the transfer have died out.
Sent(p) ==
    tnet' = {p} \cup {q \in tnet :
                        q.op \in {"data", "ack"} /\ q.tid = p.tid => q.block + Life >= p.block}

\* What the wire carries of a block number.
OnWire(i) == i % Modulus

-----------------------------------------------------------------------------
(* The client.                                                              *)

\* tftp_read of file f into a destination with room for n blocks.  Its local
\* port is new: nothing that an earlier transfer left on the network reaches it.
tftp_read(f, n) ==
    /\ tftp_status' = "Pending"
    /\ tftp_blocknum' = 1
    /\ tftp_dest' = << >>
    /\ tftp_room' = n
    /\ rport' = NoPort
    /\ file' = f
    /\ sending' = [t \in Tids |-> 0]
    /\ tnet' = {ReadRequest}

\* The packets that uip_process hands to the connection.
ArrivesMutant(p) ==
    /\ p \in tnet /\ p.op \in {"data", "error"}
Arrives(p) ==
    /\ p \in tnet /\ p.op \in {"data", "error"}
    /\ rport \in {NoPort, p.tid}

\* A block is the next one when the low 16 bits of its number are.
IsNextMutant(p) == OnWire(p.block) = tftp_blocknum
IsNext(p) == OnWire(p.block) = OnWire(tftp_blocknum)

\* A block that goes behind what is there; an empty one needs no room.
Fits(p) == Len(tftp_dest) < tftp_room \/ (p.block = LastBlock /\ file \in EmptyEnd)

\* tftp_callback with packet p.
Callback(p) ==
    /\ rport' = p.tid
    /\ IF p.op = "error"
       THEN /\ tftp_status' = "Failure"
            /\ UNCHANGED <<tftp_blocknum, tftp_dest, tnet>>
       ELSE IF ~IsNext(p)
       THEN UNCHANGED <<tftp_status, tftp_blocknum, tftp_dest, tnet>>
       ELSE IF ~Fits(p)
       THEN /\ tftp_status' = "Failure"
            /\ UNCHANGED <<tftp_blocknum, tftp_dest, tnet>>
       ELSE /\ tftp_dest' = Append(tftp_dest, p.block)
            /\ Sent(Ack(p.tid, tftp_blocknum))
            /\ IF p.block = LastBlock
               THEN tftp_status' = "Success" /\ UNCHANGED tftp_blocknum
               ELSE tftp_blocknum' = tftp_blocknum + 1 /\ UNCHANGED tftp_status
    /\ UNCHANGED <<tftp_room, file, sending>>

tftp_callback ==
    /\ tftp_status = "Pending"
    /\ \E p \in tnet : Arrives(p) /\ Callback(p)

ResentBlock == tftp_blocknum - 1

\* The resend timer expires: the request again, to the server's well known
\* port, or the last acknowledgement.
Resend ==
    /\ tftp_status = "Pending"
    /\ IF tftp_blocknum = 1
       THEN rport' = NoPort /\ tnet' = tnet \cup {ReadRequest}
       ELSE Sent(Ack(rport, ResentBlock)) /\ UNCHANGED rport
    /\ UNCHANGED <<tftp_status, tftp_blocknum, tftp_dest, tftp_room, file, sending>>

-----------------------------------------------------------------------------
(* The server and the network.                                              *)

\* A read request opens a transfer, once more for each copy of it.
Open(t) ==
    /\ ReadRequest \in tnet
    /\ sending[t] = 0
    /\ sending' = [sending EXCEPT ![t] = 1]
    /\ Sent(Data(t, 1))

\* The acknowledgement of the block that is being sent.
Acknowledged(t) ==
    \E p \in tnet :
        /\ p.op = "ack" /\ p.tid = t
        /\ sending[t] \in 1 .. LastBlock
        /\ OnWire(p.block) = OnWire(sending[t])
        /\ sending' = [sending EXCEPT ![t] = @ + 1]
        /\ IF sending[t] = LastBlock THEN UNCHANGED tnet
                                     ELSE Sent(Data(t, sending[t] + 1))

\* The server's own timer.
SendAgain(t) ==
    /\ sending[t] \in 1 .. LastBlock
    /\ Sent(Data(t, sending[t]))
    /\ UNCHANGED sending

\* The file cannot be read, or the server gives the transfer up; to what comes
\* for a transfer that is closed it answers with an error, too.
Refuse(t) ==
    /\ \/ ReadRequest \in tnet
       \/ sending[t] \in 1 .. LastBlock
       \/ \E p \in tnet : p.op = "ack" /\ p.tid = t
    /\ sending' = [sending EXCEPT ![t] = Done]
    /\ tnet' = tnet \cup {Error(t)}

Server ==
    /\ \E t \in Tids : Open(t) \/ Acknowledged(t) \/ SendAgain(t) \/ Refuse(t)
    /\ UNCHANGED <<tftp_status, tftp_blocknum, tftp_dest, tftp_room, rport, file>>

LosePacket ==
    /\ \E p \in tnet : tnet' = tnet \ {p}
    /\ UNCHANGED <<tftp_status, tftp_blocknum, tftp_dest, tftp_room, rport, file, sending>>

-----------------------------------------------------------------------------
(* Properties.                                                              *)

\* The destination holds the file from its start, block by block, and all of
\* it when tftp_read reports success: no block twice, none left out, none of a
\* second transfer that a repeated request has opened mixed up with the first.
FileIntact ==
    /\ tftp_dest = [i \in 1 .. Len(tftp_dest) |-> i]
    /\ tftp_status = "Success" => Len(tftp_dest) = LastBlock

\* The client and the transfer it follows stay in step, so that the 16 bits of
\* a number identify the block: the server never runs ahead of what the client
\* has acknowledged.
InStep ==
    rport # NoPort /\ tftp_status = "Pending" =>
        sending[rport] \in {tftp_blocknum - 1, tftp_blocknum, Done}
=============================================================================
