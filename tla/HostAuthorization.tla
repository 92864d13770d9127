-------------------------- MODULE HostAuthorization --------------------------
(***************************************************************************)
(* How the Host's data plane is authorised: the authenticated control      *)
(* channel's worker (HostRuntimeAuthorizationCoordinator), the lease gate  *)
(* and its anchored clock (HostDataPlaneAuthorizationGate), and the clocks *)
(* of the machine.                                                         *)
(*                                                                         *)
(* The APP offers a lease over the channel, the Host verifies it and       *)
(* answers with a commitment, the APP commits, and only then the gate is   *)
(* given the lease. The worker treats one record at a time and is the only *)
(* thread that installs, resets or submits; the others evaluate the gate,  *)
(* and whoever closes the channel joins the worker first. Each record is   *)
(* therefore one step. Any failure ends the worker, which revokes the gate.*)
(***************************************************************************)
EXTENDS UsageLeaseGate, Sequences

CONSTANTS MaxEpoch,      \* bound on the server's time, in seconds
          Skews,         \* what the Host's wall clock may be off by
          MaxChannels,   \* bound on the channels that are installed
          MaxBackSteps   \* bound on the steps back of the monotonic clock

ASSUME ClockAssumption ==
    /\ MaxEpoch \in Nat /\ MaxChannels \in Nat /\ MaxBackSteps \in Nat
    /\ Skews \subseteq Int /\ 0 \in Skews

VARIABLES clock,    \* the server's time, the wall clock's skew, the monotonic
                    \* clock's steps back
          gate,     \* HostDataPlaneAuthorizationGate
          ctl,      \* the worker of the control channel and its leases
          line,     \* the leases admitted by the gate in place, in order
          proofs    \* the leases named by the usage proofs signed since then

vars == <<clock, gate, ctl, line, proofs>>

Wall == IF clock.epoch + clock.skew > 0 THEN clock.epoch + clock.skew ELSE 0
Mono == clock.epoch - clock.back

ClosedGate == [lease |-> NoGate, confirmed |-> FALSE, anchored |-> FALSE,
               epoch |-> 0, mono |-> 0, rollback |-> FALSE]

NoChannel(n) == [open |-> FALSE, channel |-> n, installed |-> FALSE,
                 pending |-> NoTicket, committed |-> NoTicket]

Init ==
    /\ clock = [epoch |-> 1, skew |-> 0, back |-> 0]
    /\ gate = ClosedGate
    /\ ctl = NoChannel(0)
    /\ line = <<>>
    /\ proofs = {}

-----------------------------------------------------------------------------
(* HostDataPlaneAuthorizationGate *)

GateRevoked(g) == [g EXCEPT !.lease = Revoked(@)]

\* The trusted time that the anchor and the monotonic clock give; -1 stands
\* for the rollback of the clock.
TrustedNow(g, mono) == IF mono < g.mono THEN -1 ELSE g.epoch + (mono - g.mono)

\* derive_trusted_now_locked and snapshot_locked: a snapshot evaluates the
\* lease, and a clock that ran back closes the gate for good.
SnapshotGate(g, mono) ==
    CASE ~g.confirmed \/ ~g.anchored \/ g.rollback -> g
      [] OTHER -> IF TrustedNow(g, mono) < 0
                  THEN [GateRevoked(g) EXCEPT !.rollback = TRUE]
                  ELSE [g EXCEPT !.lease = Evaluated(@, TrustedNow(g, mono))]

\* permits_data_plane().
GatePermits(g, mono) ==
    /\ g.confirmed /\ g.anchored /\ ~g.rollback
    /\ TrustedNow(g, mono) >= 0
    /\ Permits(g.lease, TrustedNow(g, mono))

\* install_confirmed_peer_binding: a new lease gate without an anchor; a
\* binding that is not valid leaves none.
GateInstalled(session, channel, valid) ==
    IF valid THEN [ClosedGate EXCEPT !.lease = NewGate(session, channel), !.confirmed = TRUE]
    ELSE ClosedGate

\* submit_verified_ticket: now must not be behind the anchored time; whatever
\* is admitted moves the anchor.
GateSubmit(g, t, now, mono) ==
    LET refused(h) == [admission |-> "rejected", gate |-> h]
        s == Submit(g.lease, t, now)
    IN CASE ~g.confirmed \/ g.rollback \/ now = 0 -> refused(g)
         [] g.confirmed /\ g.anchored /\ ~g.rollback /\ now # 0 /\ TrustedNow(g, mono) < 0 ->
                refused([GateRevoked(g) EXCEPT !.rollback = TRUE])
         [] g.confirmed /\ g.anchored /\ ~g.rollback /\ now # 0
            /\ TrustedNow(g, mono) >= 0 /\ now < TrustedNow(g, mono) ->
                refused(GateRevoked(g))
         [] OTHER ->
                [admission |-> s.admission,
                 gate |-> IF s.admission = "rejected"
                          THEN [g EXCEPT !.lease = s.gate]
                          ELSE [g EXCEPT !.lease = s.gate, !.anchored = TRUE,
                                         !.epoch = now, !.mono = mono]]

-----------------------------------------------------------------------------
(* The control channel *)

\* The end of run_authenticated_control, or close(): the connection is closed
\* and the gate revoked.
WorkerEnded == gate' = GateRevoked(gate) /\ ctl' = NoChannel(ctl.channel)

\* install_authenticated_channel: close() ends the worker before, then the
\* handshake's session is checked (ok) and the new worker starts.
InstallChannel(ok) ==
    /\ ctl.channel < MaxChannels
    /\ gate' = GateRevoked(gate)
    /\ ctl' = [NoChannel(ctl.channel + 1) EXCEPT !.open = ok]
    /\ proofs' = {}
    /\ UNCHANGED <<clock, line>>

\* A read, a decryption, a send or a record that fails, a commit that does not
\* match the pending lease, and close().
LoseChannel ==
    /\ ctl.open
    /\ WorkerEnded
    /\ UNCHANGED <<clock, line, proofs>>

\* verify_for_confirmed_peer_with_signed_session at the wall clock's time.
Verified(t) ==
    /\ t.channel = ctl.channel
    /\ ClaimsValid(t, Wall)
    /\ t.exp > Wall

\* The session before is over: its lease has expired or was stopped.
PriorSessionTerminal ==
    LET g == SnapshotGate(gate, Mono)
    IN /\ g.confirmed /\ g.anchored /\ ~g.rollback
       /\ g.lease.state \in {"expired", "stopped"}

SuccessorGenesis(t) ==
    /\ ctl.committed # NoTicket
    /\ t.seq = 0
    /\ t.session # ctl.committed.session
    /\ PriorSessionTerminal

\* What an offer may be: the first lease, the committed one again, the next of
\* its session, or the first of a session that follows a finished one.
MayOffer(t) ==
    \/ ctl.committed = NoTicket /\ t.seq = 0
    \/ t = ctl.committed
    \/ /\ ctl.committed # NoTicket
       /\ t.seq = ctl.committed.seq + 1
       /\ t.prev = ctl.committed.id
       /\ t.session = ctl.committed.session
    \/ SuccessorGenesis(t)

\* lease_offer: the lease that waits for the commit cannot be replaced.
LeaseOffer(t) ==
    /\ ctl.open
    /\ IF Verified(t) /\ ctl.pending \in {NoTicket, t} /\ MayOffer(t)
       THEN /\ ctl' = [ctl EXCEPT !.pending = t]
            /\ gate' = SnapshotGate(gate, Mono)
       ELSE /\ ctl' = NoChannel(ctl.channel)
            /\ gate' = GateRevoked(IF Verified(t) THEN SnapshotGate(gate, Mono) ELSE gate)
    /\ UNCHANGED <<clock, line, proofs>>

\* The gate a commit submits to: reset for a new session, installed once.
GateForCommit(t, valid) ==
    IF SuccessorGenesis(t) \/ ~ctl.installed
    THEN GateInstalled(t.session, ctl.channel, valid)
    ELSE SnapshotGate(gate, Mono)

\* The committed lease belongs to another session that is not over.
SessionFork(t) ==
    /\ ctl.installed
    /\ ctl.committed # NoTicket
    /\ ctl.committed.session # t.session
    /\ ~SuccessorGenesis(t)

\* lease_commit of the pending lease.
LeaseCommit(valid) ==
    LET t == ctl.pending
        g == GateForCommit(t, valid)
        s == GateSubmit(g, t, Wall, Mono)
        fresh == SuccessorGenesis(t) \/ ~ctl.installed
    IN /\ ctl.open
       /\ t # NoTicket
       /\ IF SessionFork(t) \/ s.admission = "rejected"
          THEN /\ gate' = GateRevoked(g)
               /\ ctl' = NoChannel(ctl.channel)
               /\ line' = IF fresh THEN <<>> ELSE line
          ELSE /\ gate' = s.gate
               /\ ctl' = [ctl EXCEPT !.pending = NoTicket, !.committed = t, !.installed = TRUE]
               /\ line' = IF fresh THEN <<t>>
                          ELSE IF s.admission = "accepted_idempotent" THEN line
                          ELSE Append(line, t)
       /\ proofs' = IF fresh THEN {} ELSE proofs
       /\ UNCHANGED clock

ProofKinds == {"start_challenge", "start", "start_cancel", "heartbeat", "stop"}

\* sign_typed_usage_request: a heartbeat and a stop must name the session and
\* the hash of the committed lease, a heartbeat its next number too; the proofs
\* of a start name only the peers.
LeasesNamed(kind) == IF kind \in {"heartbeat", "stop"} THEN {ctl.committed} ELSE {}

\* usage_authorization_sign_request. Any other proof ends the worker.
SignUsageProof(kind) ==
    /\ ctl.open
    /\ kind \in {"heartbeat", "stop"} => ctl.committed # NoTicket
    /\ proofs' = proofs \cup LeasesNamed(kind)
    /\ UNCHANGED <<clock, gate, ctl, line>>

\* entitlement_status_sign_request: the Host states pair and entitlement.
SignStatusProof ==
    /\ ctl.open
    /\ UNCHANGED vars

-----------------------------------------------------------------------------
(* The threads that only ask the gate, the operator, and the clocks *)

\* permits_data_plane() or authorization_snapshot().
Snapshot ==
    /\ gate' = SnapshotGate(gate, Mono)
    /\ UNCHANGED <<clock, ctl, line, proofs>>

\* HostRuntimeService::stop and request_stop.
OperatorStop ==
    /\ gate' = [gate EXCEPT !.lease = Stopped(@)]
    /\ UNCHANGED <<clock, ctl, line, proofs>>

Tick ==
    /\ clock.epoch < MaxEpoch
    /\ clock' = [clock EXCEPT !.epoch = @ + 1]
    /\ UNCHANGED <<gate, ctl, line, proofs>>

\* Somebody, or a time service, sets the Host's clock.
CorrectWallClock(skew) ==
    /\ skew # clock.skew
    /\ clock' = [clock EXCEPT !.skew = skew]
    /\ UNCHANGED <<gate, ctl, line, proofs>>

MonotonicStepsBack ==
    /\ clock.back < MaxBackSteps
    /\ clock' = [clock EXCEPT !.back = @ + 1]
    /\ UNCHANGED <<gate, ctl, line, proofs>>

Next ==
    \/ \E ok \in BOOLEAN : InstallChannel(ok)
    \/ LoseChannel
    \/ \E t \in Tickets : LeaseOffer(t)
    \/ \E valid \in BOOLEAN : LeaseCommit(valid)
    \/ \E kind \in ProofKinds : SignUsageProof(kind)
    \/ SignStatusProof
    \/ Snapshot \/ OperatorStop
    \/ Tick \/ MonotonicStepsBack
    \/ \E skew \in Skews : CorrectWallClock(skew)

Spec == Init /\ [][Next]_vars

-----------------------------------------------------------------------------
(* Properties *)

AnyTicket == Tickets \cup {NoTicket}

LeaseGates ==
    [state : {"none", "empty", "active", "expired", "stopped", "revoked",
              "trusted_time_rollback"},
     session : Nat, channel : Nat, current : AnyTicket, future : AnyTicket, last : Nat]

(* The values of the variables of the gate and of the control worker.        *)
TypeOK ==
    /\ clock \in [epoch : Nat, skew : Skews, back : Nat]
    /\ gate \in [lease : LeaseGates, confirmed : BOOLEAN, anchored : BOOLEAN,
                  epoch : Nat, mono : Int, rollback : BOOLEAN]
    /\ ctl \in [open : BOOLEAN, channel : Nat, installed : BOOLEAN,
                pending : AnyTicket, committed : AnyTicket]
    /\ line \in Seq(Tickets)
    /\ proofs \subseteq Tickets

(* The data plane is open only under a lease of the channel in place, and    *)
(* the head of the gate's chain is the lease that the APP has committed on   *)
(* it: gate and worker never disagree about the chain.                       *)
OpenUnderTheCommittedLease ==
    gate.lease.state \in {"active", "expired"} =>
        /\ ctl.open
        /\ gate.lease.channel = ctl.channel
        /\ ctl.committed \in {gate.lease.current, gate.lease.future}
        /\ gate.lease.future # NoTicket => ctl.committed = gate.lease.future

(* What one gate has admitted is one chain: every lease names the one before *)
(* it, counts on from it and begins no earlier than its end. No fork and no  *)
(* overlap is ever served, in whatever order offers and commits arrive.      *)
AdmittedLeasesAreOneChain ==
    \A i \in 1 .. Len(line) - 1 :
        /\ line[i + 1].prev = line[i].id
        /\ line[i + 1].seq = line[i].seq + 1
        /\ line[i + 1].session = line[i].session
        /\ line[i + 1].nbf >= line[i].exp

(* While a gate stays in place its trusted time does not run back, whatever  *)
(* the wall clock and the monotonic clock do, so that a lease that has ended *)
(* for it never serves again.                                                *)
EndedLeaseStaysEnded ==
    [][line' # <<>> /\ line # <<>> /\ line'[1] = line[1] /\ ctl'.channel = ctl.channel =>
         \A t \in Tickets :
            (gate.lease.last >= t.exp /\ gate'.lease.current = t)
                => ~GatePermits(gate, Mono)' ]_vars

(* The heartbeats and stops that the Host signs while a gate is in place     *)
(* name leases of its chain, so that it takes no part in a fork of the       *)
(* session.                                                                  *)
ProofsFollowTheChain == \A t \in proofs : \E i \in 1 .. Len(line) : line[i] = t

(* Gate, worker and signer follow one chain of leases: what is open is what  *)
(* the APP committed, what was admitted forms one chain, and what the Host   *)
(* signs names leases of that chain only.                                    *)
OneChainServes ==
    /\ TypeOK
    /\ OpenUnderTheCommittedLease
    /\ AdmittedLeasesAreOneChain
    /\ ProofsFollowTheChain

-----------------------------------------------------------------------------
(* The checked instance: tickets of two sessions on two channels, namely a   *)
(* chain of three, a fork of its second lease that overlaps the first, a     *)
(* lease that leaves a gap, and the first lease of a second session on the   *)
(* same channel.                                                             *)

Lease(id, session, channel, seq, prev, nbf, exp) ==
    [id |-> id, session |-> session, channel |-> channel, seq |-> seq,
     prev |-> prev, iat |-> 1, nbf |-> nbf, exp |-> exp]

MCTickets ==
    { Lease(1, 1, 1, 0, 0, 1, 3), Lease(2, 1, 1, 1, 1, 3, 5),
      Lease(3, 1, 1, 1, 1, 2, 5), Lease(4, 1, 1, 2, 2, 6, 7),
      Lease(5, 2, 1, 0, 0, 4, 6), Lease(6, 3, 2, 0, 0, 2, 4) }

MCSkews == {-1, 0, 1}
=============================================================================
