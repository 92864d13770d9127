---------------------------- MODULE IsolatedDhcp ----------------------------
(***************************************************************************)
(* The DHCP server of the direct link (isolated_dhcp_server.cpp and        *)
(* isolated_dhcp_protocol.cpp): it has one address to give, and gives it   *)
(* to the first client that asks.  A decision changes the lease only once  *)
(* the reply has left; a reply that cannot be sent never happened.         *)
(***************************************************************************)
EXTENDS Naturals

CONSTANTS Clients,  \* MAC addresses on the link
          OwnMac,   \* the adapter's own, whose requests other programs here send
          HasOwnMac \* whether Windows tells the server that address

ASSUME DhcpAssumption == OwnMac \notin Clients /\ HasOwnMac \in BOOLEAN

VARIABLES dhcp,    \* the server
          bound    \* clients that this run of the server has acknowledged

dhcpVars == <<dhcp, bound>>

NoMac == "no_mac"

DhcpTypeOK ==
    /\ dhcp \in [running: BOOLEAN, offer: BOOLEAN, lease: BOOLEAN,
                 mac: Clients \cup {OwnMac, NoMac}]
    /\ bound \subseteq Clients \cup {OwnMac}

Stopped == [running |-> FALSE, offer |-> FALSE, lease |-> FALSE, mac |-> NoMac]

(* What a client can put into a message.  "ours" is this server or its one *)
(* address; a request names at most one of the three, which is enough to   *)
(* tell the answers apart, and repeats the transaction number of the last  *)
(* offer (offered_xid_) or has another.                                    *)
Requests ==
    {m \in [type: {"discover", "request"}, mac: Clients \cup {OwnMac}, xid: {"offered", "other"},
            server: {"none", "ours", "other"}, asked: {"none", "ours", "other"}, has: {"none", "ours", "other"}] :
       /\ m.type = "discover" => m.server = "none" /\ m.asked = "none" /\ m.has = "none"
       /\ m.server = "none" \/ m.asked = "none"
       /\ m.has = "none" \/ (m.server = "none" /\ m.asked = "none")}

AcceptsMutant(m) ==
    /\ HasOwnMac => m.mac # OwnMac
    /\ m.type = "discover" \/ (m.mac = dhcp.mac /\ (dhcp.lease \/ m.xid = "offered"))
Accepts(m) ==
    /\ HasOwnMac => m.mac # OwnMac
    /\ IF m.type = "discover"
       THEN dhcp.offer \/ dhcp.lease => m.mac = dhcp.mac
       ELSE /\ dhcp.offer \/ dhcp.lease
            /\ m.mac = dhcp.mac
            /\ "other" \notin {m.server, m.asked, m.has}
            /\ \/ dhcp.lease
               \/ (m.server # "none" \/ m.asked # "none") /\ m.xid = "offered"

Committed(m) ==
    IF m.type = "discover" THEN [dhcp EXCEPT !.offer = TRUE, !.mac = m.mac]
                           ELSE [dhcp EXCEPT !.lease = TRUE, !.mac = m.mac]

(* A datagram of another interface never gets here: the socket filters     *)
(* interfaces, or every packet must name its interface.                    *)
Answer(m, ok) ==
    /\ dhcp.running
    /\ Accepts(m)
    /\ IF ok
       THEN /\ dhcp' = Committed(m)
            /\ bound' = IF m.type = "request" THEN bound \cup {m.mac} ELSE bound
       ELSE UNCHANGED dhcpVars

(* start(): the protocol is a local of the thread, so a new thread knows   *)
(* nothing of earlier leases.                                              *)
StartDhcp == dhcp' = [Stopped EXCEPT !.running = TRUE] /\ bound' = {}
StopDhcp == dhcp' = Stopped /\ bound' = {}

-----------------------------------------------------------------------------
(* The server never acknowledges a client other than the one it offered    *)
(* the address to, never the machine it runs on where it knows that one's  *)
(* address, and once it has leased the address it does not move it.        *)
LeaseStaysWithClient ==
    [][/\ dhcp.running /\ dhcp'.running /\ dhcp.lease => dhcp'.mac = dhcp.mac /\ dhcp'.lease
       /\ bound' \ bound # {} => /\ dhcp.offer \/ dhcp.lease
                                 /\ bound' \ bound = {dhcp.mac}
                                 /\ HasOwnMac => dhcp.mac # OwnMac]_dhcpVars
=============================================================================
