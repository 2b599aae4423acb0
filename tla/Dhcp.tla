-------------------------------- MODULE Dhcp --------------------------------
(***************************************************************************)
(* The DHCP client, src/net/dhcp.c, with the servers that answer it.       *)
(*                                                                         *)
(* dhcp_request sends a discover and, for the first offer, a request; each *)
(* is sent again after a timeout.  The replies come through net_poll to    *)
(* dhcp_callback.  The static dhcp_state outlives the call.                *)
(*                                                                         *)
(* The network loses, repeats, delays and reorders packets: a packet stays *)
(* in `air' for any time and may arrive more than once.  rand() never      *)
(* gives a transaction id that is still in the air.  The address that a    *)
(* server leases is named after the server.                                *)
(***************************************************************************)
EXTENDS Naturals, FiniteSets

CONSTANTS
    Servers,       \* DHCP servers
    Xids,          \* transaction ids
    Sends,         \* how often dhcp_send_packet waits for a reply: 3
    MaxConns,      \* CONFIG_UIP_UDP_CONNS
    None

ASSUME DhcpAssumption ==
    /\ None \notin Servers
    /\ Cardinality(Xids) > 1
    /\ Sends \in Nat \ {0}
    /\ MaxConns \in Nat \ {0}

VARIABLES
    dhcp_state,    \* the static of dhcp.c
    at,            \* where dhcp_request is: "out" of it, "discover", "request"
    xid,           \* dhcp_out->transaction_id
    waits,         \* i in dhcp_send_packet
    server_id,     \* the server whose offer was taken
    hostaddr,      \* uip_hostaddr, None for 0.0.0.0
    conns,         \* entries of uip_udp_conns in use
    air,           \* packets on the network
    lease          \* servers that have leased their address to us

client == <<dhcp_state, at, xid, waits, server_id, hostaddr, conns>>
dhcpVars == <<client, air, lease>>

Packets ==
    [type : {"discover"}, xid : Xids]
    \cup [type : {"request", "offer", "ack", "nak", "release"}, xid : Xids, server : Servers]

DhcpTypeOK ==
    /\ dhcp_state \in {"Init", "Requesting", "Bound"}
    /\ at \in {"out", "discover", "request"}
    /\ xid \in Xids
    /\ waits \in 0 .. Sends - 1
    /\ server_id \in Servers \cup {None}
    /\ hostaddr \in Servers \cup {None}
    /\ conns \in 0 .. MaxConns
    /\ air \subseteq Packets
    /\ lease \subseteq Servers

DhcpInit ==
    /\ dhcp_state = "Init"
    /\ at = "out"
    /\ xid = CHOOSE x \in Xids : TRUE
    /\ waits = 0
    /\ server_id = None
    /\ hostaddr = None
    /\ conns = 0
    /\ air = {}
    /\ lease = {}

-----------------------------------------------------------------------------
(* The client.                                                              *)

\* dhcp_prep_packet with a new id, and the first send of dhcp_send_packet.
\* Packets that still carry the id have died out by now.
SendNew(p) ==
    \E x \in Xids \ {xid} :
        /\ xid' = x
        /\ air' = {q \in air : q.xid # x} \cup {[p EXCEPT !.xid = x]}

\* dhcp_request begins; uip_udp_new may have no entry left for it.
StartRequest ==
    /\ at = "out"
    /\ hostaddr' = None
    /\ IF conns = MaxConns
       THEN UNCHANGED <<dhcp_state, at, xid, waits, server_id, conns, air>>
       ELSE /\ conns' = conns + 1
            /\ SendNew([type |-> "discover", xid |-> xid])
            /\ at' = "discover"
            /\ waits' = 0
            /\ UNCHANGED <<dhcp_state, server_id>>
    /\ UNCHANGED lease

\* What dhcp_callback takes for the reply, by the state of the client.
Accepts(p) ==
    /\ p.type \in {"offer", "ack", "nak"}
    /\ p.xid = xid
    /\ \/ dhcp_state = "Init" /\ p.type = "offer"
       \/ dhcp_state = "Requesting" /\ p.type \in {"ack", "nak"}
       \/ dhcp_state = "Bound"

\* The reply to the discover: the server is asked for the address it offers,
\* unless its id cannot be extracted.
TakeOffer(p) ==
    /\ at = "discover"
    /\ p \in air /\ Accepts(p)
    /\ \/ /\ server_id' = p.server
          /\ dhcp_state' = "Requesting"
          /\ SendNew([type |-> "request", xid |-> xid, server |-> p.server])
          /\ at' = "request"
          /\ waits' = 0
       \/ /\ at' = "out"
          /\ waits' = 0
          /\ UNCHANGED <<dhcp_state, server_id, xid, air>>
    /\ UNCHANGED <<hostaddr, conns, lease>>

\* The reply to the request: refused, or the address is ours.  Only now is the
\* connection given back; the options may still turn out to be unusable.
IsNakMutant(p) == FALSE
IsNak(p) == p.type = "nak"

ConnRemovedMutant == conns
ConnRemoved == conns - 1

TakeReply(p) ==
    /\ at = "request"
    /\ p \in air /\ Accepts(p)
    /\ at' = "out"
    /\ waits' = 0
    /\ \/ /\ IsNak(p)
          /\ dhcp_state' = "Init"
          /\ UNCHANGED <<conns, hostaddr>>
       \/ /\ ~IsNak(p)
          /\ conns' = ConnRemoved
          /\ \/ dhcp_state' = "Init" /\ UNCHANGED hostaddr
             \/ dhcp_state' = "Bound" /\ hostaddr' = p.server
    /\ UNCHANGED <<xid, server_id, air, lease>>

\* The packet that dhcp_send_packet sends again.
Outgoing ==
    IF at = "discover" THEN [type |-> "discover", xid |-> xid]
                       ELSE [type |-> "request", xid |-> xid, server |-> server_id]

\* A wait of dhcp_send_packet ends without a reply.  The packet is sent again,
\* the last time too; then dhcp_request returns as it stands.
WaitTimesOut ==
    /\ at # "out"
    /\ air' = air \cup {Outgoing}
    /\ IF waits + 1 = Sends THEN at' = "out" /\ waits' = 0
                            ELSE waits' = waits + 1 /\ UNCHANGED at
    /\ UNCHANGED <<dhcp_state, xid, server_id, hostaddr, conns, lease>>

\* dhcp_release: one packet that nobody answers.
dhcp_release ==
    /\ at = "out"
    /\ conns < MaxConns
    /\ SendNew([type |-> "release", xid |-> xid, server |-> server_id])
    /\ dhcp_state' = "Init"
    /\ UNCHANGED <<at, waits, server_id, hostaddr, conns, lease>>

-----------------------------------------------------------------------------
(* Servers and the network.                                                 *)

Send(p) == air' = air \cup {p}

\* A server offers, leases, refuses an address it has not leased, or takes it
\* back.
Serve(s, p) ==
    /\ p \in air
    /\ \/ /\ p.type = "discover"
          /\ Send([type |-> "offer", xid |-> p.xid, server |-> s])
          /\ UNCHANGED lease
       \/ /\ p.type = "request" /\ p.server = s
          /\ Send([type |-> "ack", xid |-> p.xid, server |-> s])
          /\ lease' = lease \cup {s}
       \/ /\ p.type = "request" /\ p.server = s /\ s \notin lease
          /\ Send([type |-> "nak", xid |-> p.xid, server |-> s])
          /\ UNCHANGED lease
       \/ /\ p.type = "release" /\ p.server = s
          /\ lease' = lease \ {s}
          /\ air' = air \ {p}
    /\ UNCHANGED client

Lose(p) ==
    /\ p \in air
    /\ air' = air \ {p}
    /\ UNCHANGED <<client, lease>>

=============================================================================
