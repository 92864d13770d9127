-------------------------- MODULE MobileDiscovery --------------------------
(***************************************************************************)
(* How the Host finds its phone and measures the way to it                 *)
(* (host_cat6_session.cpp): over a wireless LAN, where the phone may       *)
(* announce itself or answer a broadcast, and over a known pair of         *)
(* addresses.  Every datagram may be lost, late, repeated or somebody      *)
(* else's, so that any may arrive at any time.  Times are left out: the    *)
(* next round of probes and the deadline may come whenever the loop looks. *)
(***************************************************************************)
EXTENDS Naturals, FiniteSets

CONSTANTS
    AddressBits,   \* width of an address (32)
    Private,       \* the addresses of private networks
    Wired,         \* kWiredMobileIpv4
    Senders,       \* addresses that datagrams come from
    NetworkAdapters,      \* the network adapters of the Host
    AcksNeeded,    \* kWirelessDiscoveryProbeAcks
    MaxToken       \* how many probes a search sends (bound)

ASSUME DiscoveryAssumption ==
    /\ AddressBits \in Nat /\ MaxToken \in Nat /\ AcksNeeded \in Nat \ {0}
    /\ Private \subseteq Nat \ {0}
    /\ Senders \cup {Wired} \subseteq Nat \ {0}
    /\ \A a \in NetworkAdapters : a.index \in Nat /\ \A u \in a.addresses : {u.ip, u.prefix} \subseteq Nat

VARIABLES
    search,     \* the call: what it looks for, what it has found and what it still sends
    pending,    \* probes that nobody has acknowledged
    observed,   \* Observation: the counters that the quality is computed from
    evidence    \* the acknowledgements that were counted (history)

discoveryVars == << search, pending, observed, evidence >>

-----------------------------------------------------------------------------
(* The Host's own addresses *)

IsPrivateUnicast(a) == a \in Private

EnumerateCandidates ==
    UNION {{[index |-> a.index, local |-> u.ip, prefix |-> u.prefix, operational |-> a.up,
             multicast |-> ~a.loopback /\ a.multicast, preferred |-> u.preferred] :
              u \in a.addresses} : a \in NetworkAdapters}

SelectInterfaces(candidates) ==
    {[index |-> c.index, local |-> c.local, prefix |-> c.prefix] :
       c \in {c \in candidates : /\ c.operational /\ c.multicast /\ c.preferred
                                 /\ c.index # 0
                                 /\ IsPrivateUnicast(c.local)}}

\* The last address of a subnet, all host bits set.
BroadcastAddress(i) ==
    LET hosts == 2 ^ (AddressBits - i.prefix) IN (i.local - (i.local % hosts)) + (hosts - 1)

\* One per subnet and interface: the same subnet on two interfaces is two.
DirectedBroadcastTargets(interfaces) ==
    {[to |-> BroadcastAddress(i), via |-> [index |-> i.index, local |-> i.local], prefix |-> i.prefix] :
       i \in {i \in interfaces : /\ i.prefix \in 1 .. AddressBits - 2
                                 /\ IsPrivateUnicast(BroadcastAddress(i))
                                 /\ BroadcastAddress(i) # i.local}}

Targets == DirectedBroadcastTargets(SelectInterfaces(EnumerateCandidates))

-----------------------------------------------------------------------------
NoPeer == 0
NoRoute == [index |-> 0, local |-> 0]
Known(route) == route # NoRoute

\* The ways to a peer that Windows may name, and none while it has published
\* none: only one from a private address counts.
LocalRoutes ==
    {NoRoute} \cup {[index |-> c.index, local |-> c.local] :
                      c \in {c \in EnumerateCandidates : c.index # 0 /\ IsPrivateUnicast(c.local)}}

NewObservation == [sent |-> 0, received |-> 0]

\* loss is what packet_loss_ratio is a ratio of; the times are left out.
Quality(seen) == [reachable |-> seen.received > 0, loss |-> seen.sent - seen.received]

NoOutcome == [found |-> FALSE]
Outcome(s, seen) ==
    [found |-> TRUE, host |-> s.route.local, mobile |-> s.mobile, quality |-> Quality(seen)]

Searching(mode, mobile, route, broadcast) ==
    [mode |-> mode, pc |-> "off", mobile |-> mobile, route |-> route, broadcast |-> broadcast,
     todo |-> {}, next |-> 1, outcome |-> NoOutcome]

Idle == Searching("wireless", NoPeer, NoRoute, FALSE)

DiscoveryInit ==
    /\ search = Idle
    /\ pending = {} /\ observed = NewObservation /\ evidence = {}

\* A call that cannot open its sockets ends at once.
Starts(s, opened) ==
    /\ search.pc # "loop"
    /\ search' = [s EXCEPT !.pc = IF opened THEN "loop" ELSE "done"]
    /\ pending' = {} /\ observed' = NewObservation /\ evidence' = {}

\* measure_known_session, for the wired pair and to revalidate an endpoint: its
\* sockets are bound to the Host's address, whatever the interface.  Its loop
\* is that of a search whose peer and way are known from the start.
MeasureKnown(host, mobile, opened) ==
    Starts(Searching("known", mobile, [index |-> 0, local |-> host], FALSE), opened)

\* Probes are broadcast if the socket may.  Where the group cannot be joined,
\* by index or by address, announcements still come by broadcast.
WirelessSockets ==
    {[opened |-> FALSE, broadcast |-> FALSE]} \cup [opened: {TRUE}, broadcast: BOOLEAN]

DiscoverWireless(sockets) ==
    Starts(Searching("wireless", NoPeer, NoRoute, sockets.broadcast), sockets.opened)

-----------------------------------------------------------------------------
(* Probes *)

\* Every target until the way to the peer is known, then those on that way.
ProbeTargets(route) == {t \in Targets : Known(route) => t.via = route}

\* One to the peer, and the broadcasts.
Round(s) ==
    (IF s.mobile # NoPeer /\ Known(s.route)
     THEN {[to |-> s.mobile, via |-> s.route, prefix |-> 0]} ELSE {})
    \cup (IF s.broadcast THEN ProbeTargets(s.route) ELSE {})

\* The loop is between two rounds and between two datagrams.
AtLoop == search.pc = "loop" /\ search.todo = {}

ProbeRound ==
    /\ AtLoop /\ search.next <= MaxToken
    /\ search' = [search EXCEPT !.todo = Round(search)]
    /\ UNCHANGED << pending, observed, evidence >>

\* A probe that could not be sent has used its token all the same.
SendProbe(p, ok) ==
    /\ p \in search.todo
    /\ search' = [search EXCEPT !.todo = @ \ {p}, !.next = @ + 1]
    /\ IF ok THEN /\ pending' = pending \cup {[token |-> search.next, via |-> p.via]}
                  /\ observed' = [observed EXCEPT !.sent = @ + 1]
       ELSE UNCHANGED << pending, observed >>
    /\ UNCHANGED evidence

-----------------------------------------------------------------------------
(* Datagrams *)

\* The way to the peer is asked for until it is known.
RefreshRoute(route, found) == IF Known(route) THEN route ELSE found

\* An announcement names the address it comes from: that of the known peer, or
\* of any phone of the LAN until one is chosen.
ReadyAccepted(from, claimed) ==
    /\ claimed = from
    /\ search.mobile \in {NoPeer, from}
    /\ search.mode = "wireless" => IsPrivateUnicast(from) /\ from # Wired

\* The first announcement chooses the peer, and all that was sent and counted
\* before is forgotten; every one is answered with probes once the way is known.
ReceiveReady(from, claimed, found) ==
    /\ AtLoop /\ search.next <= MaxToken
    /\ ReadyAccepted(from, claimed)
    /\ LET s == [search EXCEPT !.mobile = from, !.route = RefreshRoute(@, found)]
       IN search' = [s EXCEPT !.todo = IF Known(s.route) THEN Round(s) ELSE {}]
    /\ IF search.mobile = NoPeer
       THEN pending' = {} /\ observed' = NewObservation /\ evidence' = {}
       ELSE UNCHANGED << pending, observed, evidence >>

EvidenceReady(s, seen) == seen.received >= AcksNeeded /\ Known(s.route) /\ s.mobile # NoPeer

\* With enough evidence a search is over at once; a known pair is measured
\* until the deadline.
Concludes(s, seen) ==
    search' = IF s.mode = "wireless" /\ EvidenceReady(s, seen)
              THEN [s EXCEPT !.pc = "done", !.outcome = Outcome(s, seen)] ELSE s

\* record_probe_ack
Records(s, seen, probe, from) ==
    LET counted == [seen EXCEPT !.received = @ + 1]
    IN /\ observed' = counted
       /\ evidence' = evidence \cup {[token |-> probe.token, from |-> from]}
       /\ Concludes(s, counted)

\* Mutant: the broadcast that was answered is forgotten with the others.
ChosenByAckMutant(probe, from) ==
    /\ search.mobile = NoPeer /\ from # Wired
    /\ pending' = {}
    /\ Records([search EXCEPT !.mobile = from, !.route = probe.via], NewObservation, probe, from)

\* Nobody has been chosen yet: who answers a broadcast is the peer, on the way
\* that broadcast went, and of all probes only this one stays counted.
ChosenByAck(probe, from) ==
    /\ search.mobile = NoPeer /\ from # Wired
    /\ pending' = {}
    /\ Records([search EXCEPT !.mobile = from, !.route = probe.via],
               [sent |-> 1, received |-> 0], probe, from)

AckOfPeer(probe, from, found) ==
    /\ search.mobile = from
    /\ pending' = pending \ {probe}
    /\ Records([search EXCEPT !.route = RefreshRoute(@, found)], observed, probe, from)

ReceiveAck(probe, from, found) ==
    /\ AtLoop
    /\ search.mode = "wireless" => IsPrivateUnicast(from)
    /\ ChosenByAck(probe, from) \/ AckOfPeer(probe, from, found)

\* An acknowledgement of no pending probe counts for nothing, but the way to
\* the peer is asked for on this occasion as well.
ReceiveStaleAck(from, found) ==
    /\ AtLoop /\ search.mode = "wireless" /\ search.mobile = from
    /\ Concludes([search EXCEPT !.route = RefreshRoute(@, found)], observed)
    /\ UNCHANGED << pending, observed, evidence >>

-----------------------------------------------------------------------------
\* The deadline has passed, or a wireless search is told to stop.
Leave(cancelled) ==
    /\ AtLoop
    /\ cancelled => search.mode = "wireless"
    /\ LET found == IF search.mode = "wireless" THEN EvidenceReady(search, observed)
                    ELSE Quality(observed).reachable
       IN search' = [search EXCEPT !.pc = "done",
                                   !.outcome = IF found /\ ~cancelled
                                               THEN Outcome(search, observed) ELSE NoOutcome]
    /\ UNCHANGED << pending, observed, evidence >>

DiscoveryNext ==
    \/ \E r \in LocalRoutes \ {NoRoute}, mobile \in Senders, opened \in BOOLEAN :
         MeasureKnown(r.local, mobile, opened)
    \/ \E sockets \in WirelessSockets : DiscoverWireless(sockets)
    \/ ProbeRound
    \/ \E p \in search.todo, ok \in BOOLEAN : SendProbe(p, ok)
    \/ \E from, claimed \in Senders, found \in LocalRoutes : ReceiveReady(from, claimed, found)
    \/ \E from \in Senders, found \in LocalRoutes :
         (\E probe \in pending : ReceiveAck(probe, from, found)) \/ ReceiveStaleAck(from, found)
    \/ \E cancelled \in BOOLEAN : Leave(cancelled)

DiscoverySpec == DiscoveryInit /\ [][DiscoveryNext]_discoveryVars

-----------------------------------------------------------------------------
(* Properties *)

Routes == [index: Nat, local: Nat]
Attempts == [to: Nat, via: Routes, prefix: Nat]
Acks == [token: Nat, from: Nat]
Observations == [sent: Nat, received: Nat]
PendingProbes == [token: Nat, via: Routes]
Qualities == [reachable: BOOLEAN, loss: Nat]
Outcomes == {NoOutcome} \cup [found: {TRUE}, host: Nat, mobile: Nat, quality: Qualities]

Searches ==
    [mode: {"known", "wireless"}, pc: {"off", "loop", "done"}, mobile: Nat, route: Routes,
     broadcast: BOOLEAN, todo: SUBSET Attempts, next: Nat, outcome: Outcomes]

DiscoveryTypeOK ==
    /\ search \in Searches
    /\ pending \subseteq PendingProbes
    /\ observed \in Observations
    /\ evidence \subseteq Acks

\* What was sent has been acknowledged once or is still waited for: a lost,
\* late or repeated acknowledgement never makes more answers than probes, and
\* packet_loss_ratio is never negative.
LossIsARatio == observed.received + Cardinality(pending) = observed.sent

\* Every acknowledgement that counts is the chosen peer's, of a probe of its
\* own; and a peer of the LAN is a private address, never the wired one.
OnePeer ==
    /\ Cardinality(evidence) = observed.received
    /\ \A e \in evidence : e.from = search.mobile
    /\ search.mode = "wireless" /\ search.mobile # NoPeer => search.mobile \in Private \ {Wired}

\* What is reported was measured: with the evidence a search needs, on a
\* private address of the Host, and with the quality of the last count.
GroundedOutcome ==
    search.outcome.found =>
        /\ search.outcome = Outcome(search, observed)
        /\ observed.received >= (IF search.mode = "wireless" THEN AcksNeeded ELSE 1)
        /\ search.outcome.host \in Private

\* A peer and the way to it are chosen once; from then on nothing is sent to
\* the Host's other networks.
StaysOnRoute ==
    [][search.pc = "loop" =>
         /\ search.mobile # NoPeer => search'.mobile = search.mobile
         /\ Known(search.route) => /\ search'.route = search.route
                                   /\ \A p \in pending' \ pending : p.via = search.route]_discoveryVars

\* The Host measures one peer on one way, and reports what it measured.
MeasuredOnOnePeer ==
    [](DiscoveryTypeOK /\ LossIsARatio /\ OnePeer /\ GroundedOutcome) /\ StaysOnRoute
=============================================================================
