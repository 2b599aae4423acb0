------------------------------ MODULE Netboot ------------------------------
(***************************************************************************)
(* Network boot, src/netboot/netboot.c, over the DHCP and TFTP clients and *)
(* the table of UDP connections that they share.                           *)
(*                                                                         *)
(* netboot() asks for an address until it gets one, reads the kernel, a    *)
(* ramdisk and a file with the command line, gives the address back and    *)
(* boots.  netboot_entry hands the buffer of the command line over as its  *)
(* default; the other callers have no default.                             *)
(***************************************************************************)
EXTENDS Dhcp, Tftp

CONSTANTS
    Room,          \* blocks that fit into CONFIG_KERNEL_SIZE
    ArgsRoom       \* blocks that fit into cmd_line

ASSUME NetbootAssumption ==
    /\ Files = {"bootfile", "ramdisk", "args"}
    /\ Room \in Nat /\ ArgsRoom \in Nat

VARIABLES
    step,          \* where netboot() is
    memory,        \* by file, what its destination holds
    ramdisk        \* the ramdisk is handed to the kernel

bootVars == <<step, memory, ramdisk>>
vars == <<dhcpVars, tftpVars, bootVars>>

Steps == {"dhcp", "bound", "bootfile", "loaded", "ramdisk", "ramdisk done",
          "args", "done", "failed", "booted", "returned", "halted"}

NetbootTypeOK ==
    /\ DhcpTypeOK
    /\ TftpTypeOK
    /\ step \in Steps
    /\ DOMAIN memory = Files
    /\ ramdisk \in BOOLEAN

\* The client waits for DHCP with an empty table after uip_init.
Init ==
    /\ DhcpInit
    /\ tftp_status = "Failure" /\ tftp_blocknum = 1 /\ tftp_dest = << >> /\ tftp_room = 0
    /\ rport = NoPort /\ file = "bootfile" /\ sending = [t \in Tids |-> 0] /\ tnet = {}
    /\ step = "dhcp"
    /\ memory = [f \in Files |-> << >>]
    /\ ramdisk = FALSE

\* while (dhcp_request(...)): until there is an address.
RequestAddress ==
    /\ step = "dhcp"
    /\ \/ StartRequest
       \/ \E p \in air : TakeOffer(p) \/ TakeReply(p)
       \/ WaitTimesOut
    /\ step' = IF hostaddr' # None THEN "bound" ELSE "dhcp"
    /\ UNCHANGED <<tftpVars, memory, ramdisk>>

\* A read takes a connection; one that finds none would fail.  What is left of
\* the DHCP exchange in the air finds nobody who listens.
ReadFile(f, room, next) ==
    /\ conns < MaxConns
    /\ conns' = conns + 1
    /\ tftp_read(f, room)
    /\ step' = next
    /\ air' = {}
    /\ UNCHANGED <<dhcp_state, at, xid, waits, server_id, hostaddr, lease, memory, ramdisk>>

\* The loop of tftp_read ends: the connection is given back.
ReadEnds ==
    /\ tftp_status # "Pending"
    /\ conns' = conns - 1
    /\ memory' = [memory EXCEPT ![file] = tftp_dest]
    /\ UNCHANGED <<dhcp_state, at, xid, waits, server_id, hostaddr, air, lease, tftpVars>>

ReadBootfile == step = "bound" /\ ReadFile("bootfile", Room, "bootfile")

AfterBootfile == IF tftp_status = "Success" THEN "loaded" ELSE "failed"

BootfileEnds ==
    /\ step = "bootfile"
    /\ ReadEnds
    /\ step' = AfterBootfile
    /\ UNCHANGED ramdisk

\* The room that the kernel takes.
KernelSize == Len(memory["bootfile"]) - (IF "bootfile" \in EmptyEnd THEN 1 ELSE 0)

\* The ramdisk goes behind the kernel, when one is asked for and fits.
ReadRamdisk ==
    /\ step = "loaded"
    /\ KernelSize < Room
    /\ ReadFile("ramdisk", Room - KernelSize, "ramdisk")

RamdiskEnds ==
    /\ step = "ramdisk"
    /\ ReadEnds
    /\ step' = "ramdisk done"
    /\ ramdisk' = (tftp_status = "Success")

NoRamdisk ==
    /\ step = "loaded"
    /\ step' = "ramdisk done"
    /\ UNCHANGED <<dhcpVars, tftpVars, memory, ramdisk>>

\* The command line, straight into its buffer.
ReadArgs == step = "ramdisk done" /\ ReadFile("args", ArgsRoom, "args")

ArgsEnds ==
    /\ step = "args"
    /\ ReadEnds
    /\ step' = "done"
    /\ UNCHANGED ramdisk

NoArgs ==
    /\ step = "ramdisk done"
    /\ step' = "done"
    /\ UNCHANGED <<dhcpVars, tftpVars, memory, ramdisk>>

\* The address is given back.  The server's address may not fit on the command
\* line any more, or crossystem may fail: then netboot() returns.
Release ==
    /\ dhcp_release
    /\ \/ step = "done" /\ step' \in {"booted", "returned"}
       \/ step = "failed" /\ step' = "halted"
    /\ UNCHANGED <<tftpVars, memory, ramdisk>>

Terminal == step \in {"booted", "returned", "halted"}

\* The servers: during the requests, and after the release.
Network ==
    /\ step = "dhcp" \/ Terminal
    /\ \/ (\E s \in Servers, p \in air : Serve(s, p)) /\ UNCHANGED tftpVars
       \/ (\E p \in air : Lose(p)) /\ UNCHANGED tftpVars
    /\ UNCHANGED bootVars

TftpRuns == tftp_status = "Pending" /\ UNCHANGED <<dhcpVars, bootVars>>

Next ==
    \/ RequestAddress
    \/ ReadBootfile \/ BootfileEnds
    \/ ReadRamdisk \/ RamdiskEnds \/ NoRamdisk
    \/ ReadArgs \/ ArgsEnds \/ NoArgs
    \/ Release
    \/ Network
    \/ TftpRuns /\ (tftp_callback \/ Resend \/ Server \/ LosePacket)

\* The firmware runs on.
OwnStep ==
    \/ ReadBootfile \/ BootfileEnds \/ ReadRamdisk \/ RamdiskEnds \/ NoRamdisk
    \/ ReadArgs \/ ArgsEnds \/ NoArgs \/ Release

\* The timer of tftp_read expires, and of what is sent again and again some
\* time a copy arrives and is answered, on either side.
ReadFairness ==
    /\ WF_vars(OwnStep)
    /\ WF_vars(TftpRuns /\ Resend)
    /\ SF_vars(TftpRuns /\ tftp_callback /\ (tftp_blocknum' # tftp_blocknum \/ tftp_status' # "Pending"))
    /\ SF_vars(TftpRuns /\ Server /\ \E t \in Tids :
                    rport \in {NoPort, t} /\ (Open(t) \/ Acknowledged(t)))
    /\ SF_vars(TftpRuns /\ Server /\ \E t \in Tids :
                    rport \in {NoPort, t} /\ (SendAgain(t) \/ (sending[t] = Done /\ Refuse(t))))

\* The same for DHCP: a server answers, and an offer and an acknowledgement
\* arrive in time, whenever that is possible again and again.
RequestFairness ==
    /\ WF_vars(RequestAddress)
    /\ SF_vars(Network /\ at = "discover" /\ \E s \in Servers, p \in air :
                    p.type = "discover" /\ p.xid = xid /\ Serve(s, p))
    /\ SF_vars(Network /\ at = "request" /\ \E s \in Servers, p \in air :
                    p.type = "request" /\ p.xid = xid /\ Serve(s, p) /\ lease' # {})
    /\ SF_vars(RequestAddress /\ \E p \in air : TakeOffer(p) /\ at' = "request")
    /\ SF_vars(RequestAddress /\ \E p \in air : TakeReply(p) /\ hostaddr' # None)

Spec == Init /\ [][Next]_vars /\ ReadFairness

RequestSpec == Init /\ [][Next]_vars /\ RequestFairness

-----------------------------------------------------------------------------
(* Properties.                                                              *)

Whole(f) == memory[f] = [i \in 1 .. Blocks[f] |-> i]

\* Once there is an address a connection is left for each read and for the
\* release, however many requests failed before and left theirs behind; and
\* each read gives its own back.
ConnectionLeft ==
    step \in {"bound", "loaded", "ramdisk done", "done", "failed"} => conns < MaxConns

\* What is booted is the whole kernel, with the whole ramdisk or none.
BootsWhole ==
    step = "booted" => Whole("bootfile") /\ (ramdisk => Whole("ramdisk"))

\* Until the end we use an address that a server has leased to us, of the server
\* that dhcp_release will name: whatever offers, acknowledgements and refusals
\* of this and of earlier transactions arrive, late or twice.
AddressHeld ==
    step \notin {"dhcp", "booted", "returned", "halted"} =>
        hostaddr \in lease /\ hostaddr = server_id

\* The command line is the file's or the predefined one: "If that fails or file
\* wasn't specified fall back to args parameter".
ArgsFallBack == step = "booted" => Whole("args") \/ memory["args"] = << >>

\* Each read comes to an end, and netboot() with them, once it has an address.
ReadsEnd == step = "bound" ~> Terminal

\* "Dhcp failed, retrying.": the request is repeated until it succeeds.
RetriesSucceed == <>(step # "dhcp")

\* Connections, timers and block numbers stay in range, and a connection is left
\* for whatever netboot() does next.
ConnectionsHeld == NetbootTypeOK /\ ConnectionLeft

\* From the first block to the kernel's start, what is used of a file is the
\* file: received in order, in step with one transfer, and whole when booted.
FilesWhole == InStep /\ FileIntact /\ BootsWhole
=============================================================================
