---------------------- MODULE HostAuthorizationProofs ----------------------
(* Proofs about HostAuthorization, for every set of signed tickets, every   *)
(* skew of the wall clock and every number of channels and steps back of    *)
(* the monotonic clock.                                                     *)
EXTENDS HostAuthorization, TLAPS

Serving == {"active", "expired"}

(* The lease that the next one has to follow.                               *)
ChainHead(g) == IF g.future = NoTicket THEN g.current ELSE g.future

(* A serving gate has a current lease of its session, a staged one counts   *)
(* on from it, and a current lease whose end was seen is not active; any    *)
(* other gate has no lease.                                                 *)
SoundLease(g) ==
    /\ g.state \notin Serving => g.current = NoTicket /\ g.future = NoTicket
    /\ g.state = "active" => g.last < g.current.exp
    /\ g.state = "expired" => g.future = NoTicket
    /\ g.state \in Serving =>
         /\ g.current \in Tickets
         /\ g.current.session = g.session
         /\ g.future # NoTicket => /\ g.future.session = g.session
                                   /\ g.future.seq = g.current.seq + 1

(* What an operation that admits nothing may do to the lease gate.          *)
Keeps(g, h) ==
    /\ h \in LeaseGates
    /\ SoundLease(h)
    /\ h.last >= g.last
    /\ h.session = g.session /\ h.channel = g.channel
    /\ h.state = "empty" => g.state = "empty"
    /\ h.state \in Serving => g.state \in Serving /\ ChainHead(h) = ChainHead(g)

(* A signed ticket has the fields of its claims and is not the missing one. *)
LEMMA TicketFields ==
  /\ NoTicket \notin Tickets
  /\ \A t \in AnyTicket : /\ t.id \in Nat /\ t.session \in Nat /\ t.channel \in Nat
                          /\ t.seq \in Nat /\ t.prev \in Nat /\ t.iat \in Nat
                          /\ t.nbf \in Nat /\ t.exp \in Nat
  BY TicketAssumption DEF NoTicket, AnyTicket

(* close_locked with a terminal state.                                      *)
LEMMA CloseKeeps ==
  ASSUME NEW g \in LeaseGates, SoundLease(g),
         NEW state \in {"stopped", "revoked", "trusted_time_rollback"}
  PROVE  Keeps(g, Closed(g, state)) /\ Closed(g, state).state = state
  <1> DEFINE h == Closed(g, state)
  <1>1. /\ h \in LeaseGates /\ h.state = state /\ h.last = g.last
        /\ h.current = NoTicket /\ h.future = NoTicket
        /\ h.session = g.session /\ h.channel = g.channel
    BY DEF Closed, LeaseGates, AnyTicket
  <1> HIDE DEF h
  <1>2. h.state \notin Serving /\ h.state # "empty"
    BY <1>1 DEF Serving
  <1>3. SoundLease(h)
    BY <1>1, <1>2 DEF SoundLease, Serving
  <1>4. Keeps(g, h)
    BY <1>1, <1>2, <1>3 DEF Keeps, LeaseGates
  <1> QED
    BY <1>1, <1>4 DEF h

(* What does not touch the gate keeps it.                                   *)
LEMMA SameKeeps ==
  ASSUME NEW g \in LeaseGates, SoundLease(g)
  PROVE  Keeps(g, g)
  BY DEF Keeps, LeaseGates

(* The end of the current lease, seen at a time that is not behind the last.*)
LEMMA RollOverKeeps ==
  ASSUME NEW g \in LeaseGates, SoundLease(g), NEW now \in Nat, now >= g.last
  PROVE  LET h == RolledOver([g EXCEPT !.last = now], now)
         IN Keeps(g, h) /\ h.last = now
  <1> DEFINE l == [g EXCEPT !.last = now]
             h == RolledOver(l, now)
  <1> SUFFICES Keeps(g, h) /\ h.last = now
    OBVIOUS
  <1>1. /\ l \in LeaseGates /\ l.last = now /\ l.state = g.state
        /\ l.current = g.current /\ l.future = g.future
        /\ l.session = g.session /\ l.channel = g.channel
    BY DEF LeaseGates
  <1> HIDE DEF l
  <1>2. CASE l.state # "active" \/ now < l.current.exp
    <2>1. h = l
      BY <1>2 DEF RolledOver
    <2>2. SoundLease(l)
      BY <1>1, <1>2 DEF SoundLease, Serving
    <2> HIDE DEF h
    <2> QED
      BY <1>1, <2>1, <2>2 DEF Keeps, ChainHead, LeaseGates
  <1>3. CASE /\ ~(l.state # "active" \/ now < l.current.exp)
             /\ l.future # NoTicket /\ Within(l.future, now)
    <2>1. h = [l EXCEPT !.current = l.future, !.future = NoTicket]
      BY <1>3 DEF RolledOver
    <2>2. /\ h \in LeaseGates /\ h.last = now /\ h.state = "active"
          /\ h.current = l.future /\ h.future = NoTicket
          /\ h.session = l.session /\ h.channel = l.channel
      BY <1>1, <1>3, <2>1 DEF LeaseGates, AnyTicket
    <2> HIDE DEF h
    <2>3. h.current \in Tickets
      BY <1>1, <1>3, <2>2 DEF LeaseGates, AnyTicket
    <2>4. SoundLease(h)
      BY <1>1, <1>3, <2>2, <2>3 DEF SoundLease, Serving, Within
    <2> QED
      BY <1>1, <1>3, <2>2, <2>4 DEF Keeps, ChainHead, LeaseGates, Serving
  <1>4. CASE /\ ~(l.state # "active" \/ now < l.current.exp)
             /\ ~(l.future # NoTicket /\ Within(l.future, now))
    <2>1. h = Expired(l)
      BY <1>4 DEF RolledOver
    <2>2. /\ h \in LeaseGates /\ h.last = now /\ h.state = "expired"
          /\ h.current = ChainHead(l) /\ h.future = NoTicket
          /\ h.session = l.session /\ h.channel = l.channel
      BY <1>1, <2>1 DEF Expired, LeaseGates, AnyTicket, ChainHead
    <2> HIDE DEF h
    <2>3. h.current \in Tickets /\ h.current.session = h.session
      BY <1>1, <1>4, <2>2 DEF SoundLease, Serving, ChainHead, LeaseGates, AnyTicket
    <2>4. SoundLease(h)
      BY <2>2, <2>3 DEF SoundLease, Serving
    <2> QED
      BY <1>1, <1>4, <2>2, <2>4 DEF Keeps, ChainHead, LeaseGates, Serving
  <1> QED
    BY <1>2, <1>3, <1>4

(* evaluate_locked never moves the gate's time back, never gives the chain  *)
(* another head and never re-opens a gate that does not serve; a gate that  *)
(* is not closed by it has seen that time.                                  *)
LEMMA EvaluationKeeps ==
  ASSUME NEW g \in LeaseGates, SoundLease(g), NEW now \in Nat
  PROVE  /\ Keeps(g, Evaluated(g, now))
         /\ Evaluated(g, now).state \in {"empty", "active", "expired"} =>
              Evaluated(g, now).last = now
  <1> DEFINE unmoved == Terminal(g.state) \/ g.state = "none" \/ (now = 0 /\ g.last = 0)
  <1>1. CASE unmoved
    <2>1. Evaluated(g, now) = g
      BY <1>1 DEF Evaluated
    <2>2. g.state \in {"empty", "active", "expired"} => g.last = now
      BY <1>1 DEF Terminal
    <2> QED
      BY <2>1, <2>2, SameKeeps
  <1>2. CASE ~unmoved /\ now < g.last
    <2>1. Evaluated(g, now) = Closed(g, "trusted_time_rollback")
      BY <1>2 DEF Evaluated
    <2> QED
      BY <2>1, CloseKeeps
  <1>3. CASE ~unmoved /\ ~(now < g.last)
    <2>1. Evaluated(g, now) = RolledOver([g EXCEPT !.last = now], now)
      BY <1>3 DEF Evaluated
    <2>2. now >= g.last
      BY <1>3 DEF LeaseGates
    <2> QED
      BY <2>1, <2>2, RollOverKeeps
  <1> QED
    BY <1>1, <1>2, <1>3

(* What an admission that is not a rejection says about the ticket t, the   *)
(* gate g it was submitted to and the gate h after it: t is the head of the *)
(* chain or the lease before a staged one, or it opens an empty gate, or it *)
(* follows the head.                                                        *)
Admitted(g, t, admission, h) ==
    /\ h \in LeaseGates /\ SoundLease(h) /\ h.state \in Serving
    /\ h.last >= g.last
    /\ h.session = g.session /\ h.channel = g.channel
    /\ t.session = g.session /\ t.channel = g.channel
    /\ \/ /\ admission = "accepted_idempotent"
          /\ g.state \in Serving
          /\ ChainHead(h) = ChainHead(g)
          /\ t = ChainHead(g) \/ t.seq + 1 = ChainHead(g).seq
       \/ /\ admission # "accepted_idempotent"
          /\ g.state = "empty"
          /\ ChainHead(h) = t
       \/ /\ admission # "accepted_idempotent"
          /\ g.state \in Serving
          /\ ChainHead(h) = t
          /\ t.seq = ChainHead(g).seq + 1
          /\ t.prev = ChainHead(g).id
          /\ t.nbf >= ChainHead(g).exp

(* submit_verified_ticket of a gate that was evaluated at the same time.    *)
LEMMA AdmitAdmits ==
  ASSUME NEW g \in LeaseGates, SoundLease(g), NEW t \in Tickets, NEW now \in Nat,
         g.state \in {"empty", "active", "expired"} => g.last = now,
         Admit(g, t, now).admission # "rejected"
  PROVE  Admitted(g, t, Admit(g, t, now).admission, Admit(g, t, now).gate)
  <1> DEFINE r == Admit(g, t, now)
             h == r.gate
  <1>1. t # NoTicket /\ t \in AnyTicket /\ t.exp \in Nat /\ t.seq \in Nat
    BY TicketFields DEF AnyTicket
  <1>2. ~Terminal(g.state) /\ ClaimsValid(t, now) /\ BindingMatches(g, t)
    BY DEF Admit
  <1>3. t.session = g.session /\ t.channel = g.channel
    BY <1>2 DEF BindingMatches
  <1>4. CASE g.state = "empty"
    <2>1. /\ Genesis(g, t, now)
          /\ r.admission \in {"accepted_current", "staged_future"}
          /\ h = [g EXCEPT !.state = "active", !.current = t]
      BY <1>2, <1>4 DEF Admit
    <2>2. /\ h \in LeaseGates /\ h.state = "active" /\ h.current = t
          /\ h.future = g.future /\ h.last = g.last
          /\ h.session = g.session /\ h.channel = g.channel
      BY <1>1, <2>1 DEF LeaseGates
    <2> HIDE DEF h
    <2>3. h.future = NoTicket /\ h.last < t.exp
      BY <1>4, <2>1, <2>2 DEF SoundLease, Serving, Genesis
    <2>4. SoundLease(h)
      BY <1>3, <2>2, <2>3 DEF SoundLease, Serving
    <2>5. Admitted(g, t, r.admission, h)
      BY <1>3, <1>4, <2>1, <2>2, <2>3, <2>4 DEF Admitted, ChainHead, Serving, LeaseGates
    <2> QED
      BY <2>5 DEF h
  <1>5. CASE g.state # "empty" /\ t \in {g.current, g.future}
    <2>1. r.admission = "accepted_idempotent" /\ h = g
      BY <1>2, <1>5 DEF Admit
    <2>2. g.state \in Serving
      BY <1>1, <1>5 DEF SoundLease
    <2>3. t = ChainHead(g) \/ t.seq + 1 = ChainHead(g).seq
      BY <1>1, <1>5, <2>2 DEF SoundLease, ChainHead
    <2> QED
      BY <1>3, <2>1, <2>2, <2>3 DEF Admitted, LeaseGates
  <1>6. CASE /\ g.state # "empty" /\ t \notin {g.current, g.future}
             /\ g.state = "expired" /\ Follows(g, t) /\ Within(t, now)
    <2>1. /\ r.admission = "accepted_current"
          /\ h = [g EXCEPT !.state = "active", !.current = t]
      BY <1>2, <1>6 DEF Admit
    <2>2. /\ h \in LeaseGates /\ h.state = "active" /\ h.current = t
          /\ h.future = g.future /\ h.last = g.last
          /\ h.session = g.session /\ h.channel = g.channel
      BY <1>1, <2>1 DEF LeaseGates
    <2> HIDE DEF h
    <2>3. h.future = NoTicket /\ h.last < t.exp
      BY <1>6, <2>2 DEF SoundLease, Within
    <2>4. SoundLease(h)
      BY <1>3, <2>2, <2>3 DEF SoundLease, Serving
    <2>5. Admitted(g, t, r.admission, h)
      BY <1>3, <1>6, <2>1, <2>2, <2>3, <2>4 DEF Admitted, ChainHead, Serving, LeaseGates, Follows
    <2> QED
      BY <2>5 DEF h
  <1>7. CASE /\ g.state # "empty" /\ t \notin {g.current, g.future}
             /\ ~(g.state = "expired" /\ Follows(g, t) /\ Within(t, now))
    <2>1. /\ g.state = "active" /\ Follows(g, t) /\ g.future = NoTicket
          /\ r.admission = "staged_future" /\ h = [g EXCEPT !.future = t]
      BY <1>2, <1>7 DEF Admit
    <2>2. /\ h \in LeaseGates /\ h.state = "active" /\ h.current = g.current
          /\ h.future = t /\ h.last = g.last
          /\ h.session = g.session /\ h.channel = g.channel
      BY <1>1, <2>1 DEF LeaseGates
    <2> HIDE DEF h
    <2>3. SoundLease(h)
      BY <1>3, <2>1, <2>2 DEF SoundLease, Serving, Follows
    <2>4. Admitted(g, t, r.admission, h)
      BY <1>1, <1>3, <2>1, <2>2, <2>3 DEF Admitted, ChainHead, Serving, LeaseGates, Follows
    <2> QED
      BY <2>4 DEF h
  <1> QED
    BY <1>4, <1>5, <1>6, <1>7

(* submit_verified_ticket with its evaluation.                              *)
LEMMA SubmitAdmits ==
  ASSUME NEW g \in LeaseGates, SoundLease(g), NEW t \in Tickets, NEW now \in Nat,
         Submit(g, t, now).admission # "rejected"
  PROVE  Admitted(g, t, Submit(g, t, now).admission, Submit(g, t, now).gate)
  <1> DEFINE e == Evaluated(g, now)
             r == Admit(e, t, now)
  <1>1. Keeps(g, e) /\ (e.state \in {"empty", "active", "expired"} => e.last = now)
    BY EvaluationKeeps
  <1>2. Submit(g, t, now) = r
    BY DEF Submit
  <1> HIDE DEF e
  <1>3. e \in LeaseGates /\ SoundLease(e)
    BY <1>1 DEF Keeps
  <1>4. Admitted(e, t, r.admission, r.gate)
    BY <1>1, <1>2, <1>3, AdmitAdmits
  <1> HIDE DEF r
  <1>5. Admitted(g, t, r.admission, r.gate)
    BY <1>1, <1>3, <1>4 DEF Admitted, Keeps, LeaseGates, Serving
  <1> QED
    BY <1>2, <1>5

-----------------------------------------------------------------------------
(* HostDataPlaneAuthorizationGate *)

Gates == [lease : LeaseGates, confirmed : BOOLEAN, anchored : BOOLEAN,
          epoch : Nat, mono : Int, rollback : BOOLEAN]

(* A gate g that became h without an admission.                             *)
GateKeeps(g, h) == h \in Gates /\ Keeps(g.lease, h.lease)

(* Whatever revokes the gate keeps nothing open.                            *)
LEMMA RevocationKeeps ==
  ASSUME NEW g \in Gates, SoundLease(g.lease)
  PROVE  /\ GateKeeps(g, GateRevoked(g))
         /\ GateRevoked(g).lease.state \in {"none", "revoked"}
  <1> DEFINE r == Revoked(g.lease)
  <1>1. g.lease \in LeaseGates
    BY DEF Gates
  <1>2. Keeps(g.lease, r) /\ r.state \in {"none", "revoked"}
    BY <1>1, SameKeeps, CloseKeeps DEF Revoked
  <1> HIDE DEF r
  <1>3. GateRevoked(g) = [g EXCEPT !.lease = r]
    BY DEF GateRevoked, r
  <1>4. r \in LeaseGates
    BY <1>2 DEF Keeps
  <1>5. GateRevoked(g) \in Gates /\ GateRevoked(g).lease = r
    BY <1>3, <1>4 DEF Gates
  <1> QED
    BY <1>2, <1>5 DEF GateKeeps

(* stop() of the lease gate.                                                *)
LEMMA StopKeeps ==
  ASSUME NEW g \in Gates, SoundLease(g.lease)
  PROVE  GateKeeps(g, [g EXCEPT !.lease = Stopped(@)])
  <1> DEFINE r == Stopped(g.lease)
  <1>1. g.lease \in LeaseGates
    BY DEF Gates
  <1>2. Keeps(g.lease, r)
    BY <1>1, SameKeeps, CloseKeeps DEF Stopped
  <1> HIDE DEF r
  <1>3. [g EXCEPT !.lease = Stopped(@)] = [g EXCEPT !.lease = r]
    BY DEF r
  <1>4. r \in LeaseGates
    BY <1>2 DEF Keeps
  <1>5. [g EXCEPT !.lease = r] \in Gates /\ [g EXCEPT !.lease = r].lease = r
    BY <1>4 DEF Gates
  <1> QED
    BY <1>2, <1>3, <1>5 DEF GateKeeps

(* derive_trusted_now_locked: without a rollback the time is a natural      *)
(* number.                                                                  *)
LEMMA TrustedNowType ==
  ASSUME NEW g \in Gates, NEW mono \in Int
  PROVE  TrustedNow(g, mono) \in Int /\ (TrustedNow(g, mono) >= 0 => TrustedNow(g, mono) \in Nat)
  BY DEF TrustedNow, Gates

(* snapshot_locked keeps the chain and never re-opens a gate.               *)
LEMMA SnapshotKeeps ==
  ASSUME NEW g \in Gates, SoundLease(g.lease), NEW mono \in Int
  PROVE  GateKeeps(g, SnapshotGate(g, mono))
  <1> DEFINE now == TrustedNow(g, mono)
  <1>1. g.lease \in LeaseGates
    BY DEF Gates
  <1>2. now \in Int /\ (now >= 0 => now \in Nat)
    BY TrustedNowType
  <1>3. CASE ~g.confirmed \/ ~g.anchored \/ g.rollback
    BY <1>1, <1>3, SameKeeps DEF SnapshotGate, GateKeeps
  <1>4. CASE ~(~g.confirmed \/ ~g.anchored \/ g.rollback) /\ now < 0
    <2>1. SnapshotGate(g, mono) = [GateRevoked(g) EXCEPT !.rollback = TRUE]
      BY <1>4 DEF SnapshotGate
    <2>2. GateKeeps(g, GateRevoked(g))
      BY RevocationKeeps
    <2> DEFINE h == GateRevoked(g)
    <2>3. h \in Gates
      BY <2>2 DEF GateKeeps
    <2> HIDE DEF h
    <2>4. [h EXCEPT !.rollback = TRUE] \in Gates /\ [h EXCEPT !.rollback = TRUE].lease = h.lease
      BY <2>3 DEF Gates
    <2> QED
      BY <2>1, <2>2, <2>4 DEF GateKeeps, h
  <1>5. CASE ~(~g.confirmed \/ ~g.anchored \/ g.rollback) /\ ~(now < 0)
    <2> DEFINE e == Evaluated(g.lease, now)
    <2>1. SnapshotGate(g, mono) = [g EXCEPT !.lease = e]
      BY <1>5 DEF SnapshotGate
    <2>2. Keeps(g.lease, e)
      BY <1>1, <1>2, <1>5, EvaluationKeeps
    <2>3. e \in LeaseGates
      BY <2>2 DEF Keeps
    <2> HIDE DEF e
    <2>4. [g EXCEPT !.lease = e] \in Gates /\ [g EXCEPT !.lease = e].lease = e
      BY <2>3 DEF Gates
    <2> QED
      BY <2>1, <2>2, <2>4 DEF GateKeeps
  <1> QED
    BY <1>3, <1>4, <1>5

(* A gate just installed is empty, and one that was not valid does not      *)
(* exist.                                                                   *)
LEMMA InstalledGate ==
  ASSUME NEW session \in Nat, NEW channel \in Nat, NEW valid \in BOOLEAN
  PROVE  LET g == GateInstalled(session, channel, valid)
         IN /\ g \in Gates
            /\ SoundLease(g.lease)
            /\ valid => /\ g.lease.state = "empty" /\ g.lease.session = session
                        /\ g.lease.channel = channel
            /\ ~valid => ~g.confirmed /\ g.lease.state = "none"
  <1>1. NoGate \in LeaseGates /\ NewGate(session, channel) \in LeaseGates
    BY DEF NoGate, NewGate, LeaseGates, AnyTicket
  <1>2. SoundLease(NoGate) /\ SoundLease(NewGate(session, channel))
    BY DEF NoGate, NewGate, SoundLease, Serving
  <1>3. /\ NewGate(session, channel).state = "empty"
        /\ NewGate(session, channel).session = session
        /\ NewGate(session, channel).channel = channel
        /\ NoGate.state = "none"
    BY DEF NoGate, NewGate
  <1> DEFINE n == NewGate(session, channel)
  <1> HIDE DEF n
  <1>n. n \in LeaseGates
    BY <1>1 DEF n
  <1>4. ClosedGate \in Gates /\ ClosedGate.lease = NoGate /\ ~ClosedGate.confirmed
    BY <1>1 DEF ClosedGate, Gates
  <1> DEFINE c == ClosedGate
  <1> HIDE DEF c
  <1>5. /\ [c EXCEPT !.lease = n, !.confirmed = TRUE] \in Gates
        /\ [c EXCEPT !.lease = n, !.confirmed = TRUE].lease = n
    <2>1. c \in Gates
      BY <1>4 DEF c
    <2> QED
      BY <2>1, <1>n DEF Gates
  <1> QED
    BY <1>2, <1>3, <1>4, <1>5 DEF GateInstalled, n, c

(* submit_verified_ticket of the gate admits what its lease gate admits.    *)
LEMMA GateSubmitAdmits ==
  ASSUME NEW g \in Gates, SoundLease(g.lease), NEW t \in Tickets, NEW now \in Nat,
         NEW mono \in Int, GateSubmit(g, t, now, mono).admission # "rejected"
  PROVE  LET s == GateSubmit(g, t, now, mono)
         IN /\ g.confirmed
            /\ s.gate \in Gates
            /\ Admitted(g.lease, t, s.admission, s.gate.lease)
  <1> DEFINE s == GateSubmit(g, t, now, mono)
             r == Submit(g.lease, t, now)
             l == r.gate
  <1>1. /\ g.confirmed
        /\ s = [admission |-> r.admission,
                gate |-> IF r.admission = "rejected"
                         THEN [g EXCEPT !.lease = l]
                         ELSE [g EXCEPT !.lease = l, !.anchored = TRUE,
                                        !.epoch = now, !.mono = mono]]
    BY DEF GateSubmit
  <1>2. r.admission # "rejected"
    BY <1>1
  <1>3. g.lease \in LeaseGates
    BY DEF Gates
  <1>4. Admitted(g.lease, t, r.admission, l)
    BY <1>2, <1>3, SubmitAdmits
  <1>5. l \in LeaseGates
    BY <1>4 DEF Admitted
  <1> HIDE DEF l, r
  <1>6. s.admission = r.admission /\ s.gate \in Gates /\ s.gate.lease = l
    <2> DEFINE h == [g EXCEPT !.lease = l, !.anchored = TRUE, !.epoch = now, !.mono = mono]
    <2>1. h \in Gates /\ h.lease = l
      BY <1>5 DEF Gates
    <2> HIDE DEF h
    <2>2. s = [admission |-> r.admission, gate |-> h]
      BY <1>1, <1>2 DEF h
    <2> HIDE DEF s
    <2> QED
      BY <2>1, <2>2
  <1> HIDE DEF s
  <1>7. g.confirmed /\ s.gate \in Gates /\ Admitted(g.lease, t, s.admission, s.gate.lease)
    BY <1>1, <1>4, <1>6
  <1> QED
    BY <1>7 DEF s

-----------------------------------------------------------------------------
(* The inductive invariant *)

(* The worker has installed a gate exactly when a lease is committed, and   *)
(* that lease is the last one of the line.                                  *)
CommittedIsLast ==
    /\ ctl.committed # NoTicket <=> ctl.installed
    /\ ctl.installed => /\ ctl.open
                        /\ line # <<>>
                        /\ ctl.committed = line[Len(line)]

(* What waits for its commit is the committed lease, counts on from it or   *)
(* belongs to another session.                                              *)
PendingIsNext ==
    ctl.pending # NoTicket /\ ctl.committed # NoTicket =>
        \/ ctl.pending = ctl.committed
        \/ ctl.pending.seq = ctl.committed.seq + 1
        \/ ctl.pending.session # ctl.committed.session

(* A serving gate is of the channel and at the head that the worker knows.  *)
GateAtTheHead ==
    /\ SoundLease(gate.lease)
    /\ gate.lease.state # "empty"
    /\ gate.lease.state \in Serving =>
         /\ ctl.installed
         /\ gate.lease.channel = ctl.channel
         /\ ChainHead(gate.lease) = ctl.committed

(* A line belongs to one session, and to the channel in place only when a   *)
(* gate was installed for it.                                               *)
LineOfOneSession ==
    \A i \in 1 .. Len(line) :
        /\ line[i].session = line[1].session
        /\ line[i].channel <= ctl.channel
        /\ ctl.open /\ ~ctl.installed => line[i].channel < ctl.channel

IndInv ==
    /\ TypeOK
    /\ CommittedIsLast
    /\ PendingIsNext
    /\ GateAtTheHead
    /\ LineOfOneSession
    /\ AdmittedLeasesAreOneChain
    /\ ProofsFollowTheChain

-----------------------------------------------------------------------------

(* The clocks that an action reads.                                         *)
LEMMA ClockReadings == TypeOK => Wall \in Nat /\ Mono \in Int
  <1> SUFFICES ASSUME TypeOK PROVE Wall \in Nat /\ Mono \in Int
    OBVIOUS
  <1>1. clock.epoch \in Nat /\ clock.skew \in Int /\ clock.back \in Nat
    BY ClockAssumption DEF TypeOK
  <1> QED
    BY <1>1 DEF Wall, Mono

(* Before the first channel there is no gate, no lease and no proof.        *)
LEMMA InitInv == Init => IndInv
  <1> SUFFICES ASSUME Init PROVE IndInv
    OBVIOUS
  <1>1. NoGate \in LeaseGates /\ NoGate.state = "none" /\ SoundLease(NoGate)
    BY DEF NoGate, LeaseGates, AnyTicket, SoundLease, Serving
  <1>2. gate.lease = NoGate /\ line = <<>> /\ proofs = {} /\ ctl = NoChannel(0)
    BY DEF Init, ClosedGate
  <1>3. TypeOK
    BY <1>1, ClockAssumption DEF Init, TypeOK, ClosedGate, NoChannel, AnyTicket
  <1>4. CommittedIsLast /\ PendingIsNext
    BY <1>2 DEF CommittedIsLast, PendingIsNext, NoChannel
  <1>5. GateAtTheHead
    BY <1>1, <1>2 DEF GateAtTheHead, Serving
  <1>6. LineOfOneSession /\ AdmittedLeasesAreOneChain /\ ProofsFollowTheChain
    BY <1>2 DEF LineOfOneSession, AdmittedLeasesAreOneChain, ProofsFollowTheChain
  <1> QED
    BY <1>3, <1>4, <1>5, <1>6 DEF IndInv

(* The threads that only ask the gate, and stop(), admit nothing.           *)
LEMMA AskedGateInv ==
  ASSUME IndInv, GateKeeps(gate, gate'), UNCHANGED <<clock, ctl, line, proofs>>
  PROVE  IndInv'
  <1>1. TypeOK'
    BY DEF IndInv, TypeOK, GateKeeps, Gates
  <1>2. GateAtTheHead'
    BY DEF IndInv, GateAtTheHead, GateKeeps, Keeps
  <1>3. /\ CommittedIsLast' /\ PendingIsNext' /\ LineOfOneSession'
        /\ AdmittedLeasesAreOneChain' /\ ProofsFollowTheChain'
    BY DEF IndInv, CommittedIsLast, PendingIsNext, LineOfOneSession,
           AdmittedLeasesAreOneChain, ProofsFollowTheChain
  <1> QED
    BY <1>1, <1>2, <1>3 DEF IndInv

(* The worker has ended or a new one begins: nothing is committed and the   *)
(* gate is closed.                                                          *)
LEMMA NewWorkerInv ==
  ASSUME IndInv, gate' \in Gates, SoundLease(gate'.lease),
         gate'.lease.state \in {"none", "revoked"},
         NEW n \in Nat, NEW ok \in BOOLEAN,
         ctl' = [open |-> ok, channel |-> n, installed |-> FALSE,
                 pending |-> NoTicket, committed |-> NoTicket],
         n >= ctl.channel, ok => n > ctl.channel,
         \/ line' = line /\ proofs' \in {proofs, {}}
         \/ line' = <<>> /\ proofs' = {},
         clock' = clock
  PROVE  IndInv'
  <1>1. /\ ctl'.open = ok /\ ctl'.channel = n /\ ~ctl'.installed
        /\ ctl'.pending = NoTicket /\ ctl'.committed = NoTicket
    OBVIOUS
  <1>2. TypeOK'
    <2>1. ctl' \in [open : BOOLEAN, channel : Nat, installed : BOOLEAN,
                    pending : AnyTicket, committed : AnyTicket]
      BY DEF AnyTicket
    <2>2. line' \in Seq(Tickets) /\ proofs' \subseteq Tickets
      <3>1. line \in Seq(Tickets) /\ proofs \subseteq Tickets /\ <<>> \in Seq(Tickets)
        BY DEF IndInv, TypeOK
      <3>2. line' \in {line, <<>>} /\ proofs' \in {proofs, {}}
        OBVIOUS
      <3> QED
        BY <3>1, <3>2
    <2> QED
      BY <2>1, <2>2 DEF IndInv, TypeOK, Gates
  <1>3. GateAtTheHead'
    BY DEF GateAtTheHead, Serving
  <1>4. CommittedIsLast' /\ PendingIsNext'
    BY <1>1 DEF CommittedIsLast, PendingIsNext
  <1>5. LineOfOneSession'
    <2>1. CASE line' = line
      <3> SUFFICES ASSUME NEW i \in 1 .. Len(line)
                   PROVE  /\ line[i].session = line[1].session
                          /\ line[i].channel <= n
                          /\ ok => line[i].channel < n
        BY <1>1, <2>1 DEF LineOfOneSession
      <3>1. line[i] \in Tickets /\ ctl.channel \in Nat
        BY DEF IndInv, TypeOK
      <3>2. line[i].channel \in Nat
        BY <3>1, TicketFields DEF AnyTicket
      <3> QED
        BY <3>1, <3>2 DEF IndInv, LineOfOneSession
    <2>2. CASE line' = <<>>
      BY <2>2 DEF LineOfOneSession
    <2> QED
      BY <2>1, <2>2
  <1>6. AdmittedLeasesAreOneChain' /\ ProofsFollowTheChain'
    BY DEF IndInv, AdmittedLeasesAreOneChain, ProofsFollowTheChain
  <1> QED
    BY <1>2, <1>3, <1>4, <1>5, <1>6 DEF IndInv

(* Facts about the gate in a state of the invariant.                        *)
LEMMA GateFacts ==
  IndInv => /\ gate \in Gates /\ SoundLease(gate.lease) /\ gate.lease.state # "empty"
            /\ Wall \in Nat /\ Mono \in Int
            /\ ctl.channel \in Nat /\ ctl.open \in BOOLEAN /\ ctl.installed \in BOOLEAN
  BY ClockReadings DEF IndInv, TypeOK, Gates, GateAtTheHead

(* install_authenticated_channel: the line is of an older channel.          *)
LEMMA InstallChannelInv ==
  ASSUME IndInv, NEW ok \in BOOLEAN, InstallChannel(ok)
  PROVE  IndInv'
  <1>1. GateKeeps(gate, GateRevoked(gate)) /\ GateRevoked(gate).lease.state \in {"none", "revoked"}
    BY GateFacts, RevocationKeeps
  <1>2. gate' = GateRevoked(gate)
    BY DEF InstallChannel
  <1>3. gate' \in Gates /\ SoundLease(gate'.lease) /\ gate'.lease.state \in {"none", "revoked"}
    BY <1>1, <1>2 DEF GateKeeps, Keeps
  <1>4. /\ ctl.channel + 1 \in Nat
        /\ ctl.channel + 1 > ctl.channel /\ ctl.channel + 1 >= ctl.channel
    BY GateFacts
  <1>5. ctl' = [open |-> ok, channel |-> ctl.channel + 1, installed |-> FALSE,
                pending |-> NoTicket, committed |-> NoTicket]
    BY DEF InstallChannel, NoChannel
  <1>6. line' = line /\ proofs' = {} /\ clock' = clock
    BY DEF InstallChannel
  <1>7. proofs' \in {proofs, {}}
    BY <1>6
  <1> DEFINE n == ctl.channel + 1
  <1>8. n \in Nat /\ n > ctl.channel /\ n >= ctl.channel
    BY <1>4
  <1>9. ctl' = [open |-> ok, channel |-> n, installed |-> FALSE,
                pending |-> NoTicket, committed |-> NoTicket]
    BY <1>5
  <1> HIDE DEF n
  <1> QED
    BY <1>3, <1>6, <1>7, <1>8, <1>9, NewWorkerInv

(* The end of the worker, behind whatever its last record did to the gate.  *)
LEMMA EndedWorkerInv ==
  ASSUME IndInv, NEW g \in Gates, SoundLease(g.lease),
         gate' = GateRevoked(g), ctl' = NoChannel(ctl.channel),
         \/ line' = line /\ proofs' = proofs
         \/ line' = <<>> /\ proofs' = {},
         clock' = clock
  PROVE  IndInv'
  <1>1. GateKeeps(g, GateRevoked(g)) /\ GateRevoked(g).lease.state \in {"none", "revoked"}
    BY RevocationKeeps
  <1>2. gate' \in Gates /\ SoundLease(gate'.lease) /\ gate'.lease.state \in {"none", "revoked"}
    BY <1>1 DEF GateKeeps, Keeps
  <1>3. ctl' = [open |-> FALSE, channel |-> ctl.channel, installed |-> FALSE,
                pending |-> NoTicket, committed |-> NoTicket]
    BY DEF NoChannel
  <1>4. ctl.channel \in Nat /\ ctl.channel >= ctl.channel
    BY GateFacts
  <1> QED
    BY <1>2, <1>3, <1>4, NewWorkerInv

(* lease_offer, taken or refused.                                           *)
LEMMA LeaseOfferInv ==
  ASSUME IndInv, NEW t \in Tickets, LeaseOffer(t)
  PROVE  IndInv'
  <1>1. GateKeeps(gate, SnapshotGate(gate, Mono))
    BY GateFacts, SnapshotKeeps
  <1>2. CASE Verified(t) /\ ctl.pending \in {NoTicket, t} /\ MayOffer(t)
    <2>1. ctl' = [ctl EXCEPT !.pending = t] /\ gate' = SnapshotGate(gate, Mono)
      BY <1>2 DEF LeaseOffer
    <2>2. UNCHANGED <<clock, line, proofs>>
      BY DEF LeaseOffer
    <2>3. /\ ctl'.open = ctl.open /\ ctl'.channel = ctl.channel /\ ctl'.pending = t
          /\ ctl'.installed = ctl.installed /\ ctl'.committed = ctl.committed
      BY <2>1 DEF IndInv, TypeOK
    <2>4. TypeOK'
      <3>1. gate' \in Gates
        BY <1>1, <2>1 DEF GateKeeps
      <3>2. ctl' \in [open : BOOLEAN, channel : Nat, installed : BOOLEAN,
                      pending : AnyTicket, committed : AnyTicket]
        BY <2>1 DEF IndInv, TypeOK, AnyTicket
      <3> QED
        BY <2>2, <3>1, <3>2 DEF IndInv, TypeOK, Gates
    <2>5. GateAtTheHead'
      BY <1>1, <2>1, <2>3 DEF IndInv, GateAtTheHead, GateKeeps, Keeps
    <2>6. CommittedIsLast' /\ LineOfOneSession'
      BY <2>2, <2>3 DEF IndInv, CommittedIsLast, LineOfOneSession
    <2>7. PendingIsNext'
      BY <1>2, <2>3 DEF PendingIsNext, MayOffer, SuccessorGenesis
    <2>8. AdmittedLeasesAreOneChain' /\ ProofsFollowTheChain'
      BY <2>2 DEF IndInv, AdmittedLeasesAreOneChain, ProofsFollowTheChain
    <2> QED
      BY <2>4, <2>5, <2>6, <2>7, <2>8 DEF IndInv
  <1>3. CASE ~(Verified(t) /\ ctl.pending \in {NoTicket, t} /\ MayOffer(t))
    <2> DEFINE g == IF Verified(t) THEN SnapshotGate(gate, Mono) ELSE gate
    <2>1. g \in Gates /\ SoundLease(g.lease)
      BY <1>1, GateFacts DEF GateKeeps, Keeps
    <2>2. gate' = GateRevoked(g) /\ ctl' = NoChannel(ctl.channel)
      BY <1>3 DEF LeaseOffer
    <2>3. line' = line /\ proofs' = proofs /\ clock' = clock
      BY DEF LeaseOffer
    <2> HIDE DEF g
    <2> QED
      BY <2>1, <2>2, <2>3, EndedWorkerInv
  <1> QED
    BY <1>2, <1>3

(* The chain grows by a lease that follows its last one.                    *)
LEMMA LineGrows ==
  ASSUME IndInv, ctl.installed, NEW t \in Tickets, line' = Append(line, t),
         t.prev = ctl.committed.id, t.seq = ctl.committed.seq + 1,
         t.session = ctl.committed.session, t.nbf >= ctl.committed.exp
  PROVE  /\ line' \in Seq(Tickets) /\ line' # <<>> /\ line'[Len(line')] = t
         /\ Len(line') = Len(line) + 1
         /\ \A i \in 1 .. Len(line) : line'[i] = line[i]
         /\ AdmittedLeasesAreOneChain'
         /\ \A i \in 1 .. Len(line') : line'[i].session = line'[1].session
  <1>1. /\ line \in Seq(Tickets) /\ line # <<>> /\ ctl.committed = line[Len(line)]
        /\ Len(line) \in Nat /\ Len(line) > 0
    BY DEF IndInv, TypeOK, CommittedIsLast
  <1>2. /\ line' \in Seq(Tickets) /\ line' # <<>> /\ line'[Len(line')] = t
        /\ Len(line') = Len(line) + 1
        /\ \A i \in 1 .. Len(line) : line'[i] = line[i]
    BY <1>1
  <1>3. AdmittedLeasesAreOneChain'
    <2> SUFFICES ASSUME NEW i \in 1 .. Len(line)
                 PROVE  /\ line'[i + 1].prev = line'[i].id
                        /\ line'[i + 1].seq = line'[i].seq + 1
                        /\ line'[i + 1].session = line'[i].session
                        /\ line'[i + 1].nbf >= line'[i].exp
      BY <1>1, <1>2 DEF AdmittedLeasesAreOneChain
    <2>1. CASE i = Len(line)
      BY <1>1, <1>2, <2>1
    <2>2. CASE i # Len(line)
      <3>1. i \in 1 .. Len(line) - 1 /\ i + 1 \in 1 .. Len(line)
        BY <1>1, <2>2
      <3> QED
        BY <1>2, <3>1 DEF IndInv, AdmittedLeasesAreOneChain
    <2> QED
      BY <2>1, <2>2
  <1>4. ASSUME NEW i \in 1 .. Len(line')
        PROVE  line'[i].session = line'[1].session
    <2>1. 1 \in 1 .. Len(line) /\ Len(line) \in 1 .. Len(line)
      BY <1>1
    <2>2. line[Len(line)].session = line[1].session
      BY <2>1 DEF IndInv, LineOfOneSession
    <2>3. CASE i = Len(line')
      BY <1>1, <1>2, <2>1, <2>2, <2>3
    <2>4. CASE i # Len(line')
      <3>1. i \in 1 .. Len(line)
        BY <1>1, <1>2, <2>4
      <3> QED
        BY <1>2, <2>1, <3>1 DEF IndInv, LineOfOneSession
    <2> QED
      BY <2>3, <2>4
  <1> QED
    BY <1>2, <1>3, <1>4

(* A gate that is reset or installed for the lease it is given.             *)
Fresh == SuccessorGenesis(ctl.pending) \/ ~ctl.installed

(* The gate that a commit submits to.                                       *)
LEMMA CommitGate ==
  ASSUME IndInv, ctl.pending # NoTicket, NEW valid \in BOOLEAN
  PROVE  LET g == GateForCommit(ctl.pending, valid)
         IN /\ ctl.pending \in Tickets
            /\ g \in Gates /\ SoundLease(g.lease)
            /\ Fresh => /\ g.confirmed => g.lease.state = "empty"
                        /\ g.confirmed => g.lease.channel = ctl.channel
            /\ ~Fresh => g = SnapshotGate(gate, Mono) /\ GateKeeps(gate, g)
  <1> DEFINE t == ctl.pending
             g == GateForCommit(t, valid)
  <1>1. t \in Tickets /\ t.session \in Nat
    BY TicketFields DEF IndInv, TypeOK, AnyTicket
  <1>2. CASE Fresh
    <2>1. g = GateInstalled(t.session, ctl.channel, valid)
      BY <1>2 DEF GateForCommit, Fresh
    <2> QED
      BY <1>1, <1>2, <2>1, GateFacts, InstalledGate
  <1>3. CASE ~Fresh
    <2>1. g = SnapshotGate(gate, Mono)
      BY <1>3 DEF GateForCommit, Fresh
    <2>2. GateKeeps(gate, SnapshotGate(gate, Mono))
      BY GateFacts, SnapshotKeeps
    <2> QED
      BY <1>1, <1>3, <2>1, <2>2 DEF GateKeeps, Keeps
  <1> QED
    BY <1>2, <1>3

(* lease_commit, admitted or refused, into a new gate or the one in place.  *)
LEMMA LeaseCommitInv ==
  ASSUME IndInv, NEW valid \in BOOLEAN, LeaseCommit(valid)
  PROVE  IndInv'
  <1> DEFINE t == ctl.pending
             g == GateForCommit(t, valid)
             s == GateSubmit(g, t, Wall, Mono)
             h == s.gate.lease
  <1>1. ctl.open /\ t # NoTicket /\ clock' = clock
    BY DEF LeaseCommit
  <1>2. /\ t \in Tickets /\ g \in Gates /\ SoundLease(g.lease)
        /\ Fresh => /\ g.confirmed => g.lease.state = "empty"
                    /\ g.confirmed => g.lease.channel = ctl.channel
        /\ ~Fresh => g = SnapshotGate(gate, Mono) /\ GateKeeps(gate, g)
    BY <1>1, CommitGate
  <1>3. proofs' = IF Fresh THEN {} ELSE proofs
    BY DEF LeaseCommit, Fresh
  <1>4. CASE SessionFork(t) \/ s.admission = "rejected"
    <2>1. /\ gate' = GateRevoked(g) /\ ctl' = NoChannel(ctl.channel)
          /\ line' = IF Fresh THEN <<>> ELSE line
      BY <1>4 DEF LeaseCommit, Fresh
    <2> HIDE DEF g
    <2> QED
      BY <1>1, <1>2, <1>3, <2>1, EndedWorkerInv
  <1>5. CASE ~(SessionFork(t) \/ s.admission = "rejected")
    <2>1. /\ gate' = s.gate
          /\ ctl' = [ctl EXCEPT !.pending = NoTicket, !.committed = t, !.installed = TRUE]
          /\ line' = IF Fresh THEN <<t>>
                     ELSE IF s.admission = "accepted_idempotent" THEN line
                     ELSE Append(line, t)
      BY <1>5 DEF LeaseCommit, Fresh
    <2>2. /\ g.confirmed /\ s.gate \in Gates
          /\ Admitted(g.lease, t, s.admission, h)
      <3> HIDE DEF g
      <3> QED
        BY <1>2, <1>5, GateFacts, GateSubmitAdmits
    <2> HIDE DEF g, s
    <2>3. /\ ctl' \in [open : BOOLEAN, channel : Nat, installed : BOOLEAN,
                       pending : AnyTicket, committed : AnyTicket]
          /\ ctl'.open = ctl.open /\ ctl'.channel = ctl.channel /\ ctl'.installed
          /\ ctl'.pending = NoTicket /\ ctl'.committed = t
      BY <1>2, <2>1 DEF IndInv, TypeOK, AnyTicket
    <2>4. PendingIsNext'
      BY <2>3 DEF PendingIsNext
    <2>5. SUFFICES /\ line' \in Seq(Tickets) /\ line' # <<>> /\ line'[Len(line')] = t
                   /\ proofs' \subseteq Tickets
                   /\ g.lease.channel = ctl.channel /\ ChainHead(h) = t
                   /\ \A i \in 1 .. Len(line') : line'[i].session = line'[1].session
                   /\ \A i \in 1 .. Len(line') : line'[i].channel <= ctl.channel
                   /\ AdmittedLeasesAreOneChain' /\ ProofsFollowTheChain'
      <3>1. TypeOK'
        BY <1>1, <2>1, <2>2, <2>3, <2>5 DEF IndInv, TypeOK, Gates
      <3>2. CommittedIsLast'
        BY <1>1, <1>2, <2>3, <2>5, TicketFields DEF CommittedIsLast
      <3>3. GateAtTheHead'
        BY <2>1, <2>2, <2>3, <2>5 DEF GateAtTheHead, Admitted, Serving
      <3>4. LineOfOneSession'
        BY <2>3, <2>5 DEF LineOfOneSession
      <3> QED
        BY <2>4, <2>5, <3>1, <3>2, <3>3, <3>4 DEF IndInv
    <2>6. t.channel \in Nat /\ ctl.channel \in Nat /\ t.channel = g.lease.channel
      BY <1>2, <2>2, TicketFields, GateFacts DEF Admitted, AnyTicket
    <2>7. CASE Fresh
      <3>1. line' = <<t>> /\ proofs' = {}
        BY <1>3, <2>1, <2>7
      <3>2. g.lease.state = "empty" /\ g.lease.channel = ctl.channel
        BY <1>2, <2>2, <2>7
      <3>3. ChainHead(h) = t
        BY <2>2, <3>2 DEF Admitted, Serving
      <3>4. AdmittedLeasesAreOneChain' /\ ProofsFollowTheChain'
        BY <3>1 DEF AdmittedLeasesAreOneChain, ProofsFollowTheChain
      <3> QED
        BY <1>2, <2>6, <3>1, <3>2, <3>3, <3>4
    <2>8. CASE ~Fresh
      <3>1. /\ ctl.installed /\ proofs' = proofs /\ g.lease.state # "empty"
            /\ ctl.committed # NoTicket /\ ctl.committed \in Tickets
        BY <1>2, <1>3, <2>8, GateFacts
           DEF Fresh, GateKeeps, Keeps, IndInv, CommittedIsLast, TypeOK, AnyTicket
      <3>2. g.lease.state \in Serving
        BY <2>2, <3>1 DEF Admitted
      <3>3. /\ gate.lease.state \in Serving
            /\ ChainHead(g.lease) = ctl.committed
            /\ g.lease.channel = ctl.channel
        BY <1>2, <2>8, <3>2 DEF GateKeeps, Keeps, IndInv, GateAtTheHead
      <3>4. ctl.committed.session = g.lease.session /\ t.session = ctl.committed.session
        BY <1>2, <2>2, <3>2, <3>3 DEF SoundLease, ChainHead, Admitted
      <3>5. /\ line \in Seq(Tickets) /\ line # <<>> /\ line[Len(line)] = ctl.committed
            /\ proofs \subseteq Tickets
            /\ \A i \in 1 .. Len(line) : line[i].session = line[1].session
            /\ \A i \in 1 .. Len(line) : line[i].channel <= ctl.channel
        BY <3>1 DEF IndInv, TypeOK, CommittedIsLast, LineOfOneSession
      <3>6. CASE s.admission = "accepted_idempotent"
        <4>1. line' = line
          BY <2>1, <2>8, <3>6
        <4>2. ChainHead(h) = ctl.committed /\ (t = ctl.committed \/ t.seq + 1 = ctl.committed.seq)
          BY <2>2, <3>3, <3>6 DEF Admitted
        <4>3. t.seq \in Nat /\ ctl.committed.seq \in Nat
          BY <1>2, <3>1, TicketFields DEF AnyTicket
        <4>4. t = ctl.committed
          BY <1>1, <3>1, <3>4, <4>2, <4>3 DEF IndInv, PendingIsNext
        <4>5. AdmittedLeasesAreOneChain' /\ ProofsFollowTheChain'
          BY <3>1, <4>1 DEF IndInv, AdmittedLeasesAreOneChain, ProofsFollowTheChain
        <4> QED
          BY <3>1, <3>3, <3>5, <4>1, <4>2, <4>4, <4>5
      <3>7. CASE s.admission # "accepted_idempotent"
        <4>1. line' = Append(line, t)
          BY <2>1, <2>8, <3>7
        <4>2. /\ ChainHead(h) = t /\ t.prev = ctl.committed.id
              /\ t.seq = ctl.committed.seq + 1 /\ t.nbf >= ctl.committed.exp
          BY <2>2, <3>1, <3>3, <3>7 DEF Admitted
        <4>3. /\ line' \in Seq(Tickets) /\ line' # <<>> /\ line'[Len(line')] = t
              /\ Len(line') = Len(line) + 1
              /\ \A i \in 1 .. Len(line) : line'[i] = line[i]
              /\ AdmittedLeasesAreOneChain'
              /\ \A i \in 1 .. Len(line') : line'[i].session = line'[1].session
          <5> HIDE DEF t
          <5> QED
            BY <1>2, <3>1, <3>4, <4>1, <4>2, LineGrows
        <4>4. \A i \in 1 .. Len(line') : i \in 1 .. Len(line) \/ i = Len(line')
          BY <3>5, <4>3
        <4>5. \A i \in 1 .. Len(line') : line'[i].channel <= ctl.channel
          BY <2>6, <3>3, <3>5, <4>3, <4>4
        <4>6. ProofsFollowTheChain'
          <5> SUFFICES ASSUME NEW p \in proofs
                       PROVE  \E i \in 1 .. Len(line') : line'[i] = p
            BY <3>1 DEF ProofsFollowTheChain
          <5>1. PICK i \in 1 .. Len(line) : line[i] = p
            BY DEF IndInv, ProofsFollowTheChain
          <5>2. i \in 1 .. Len(line') /\ line'[i] = p
            BY <3>5, <4>3, <5>1
          <5> QED
            BY <5>2
        <4> QED
          BY <3>1, <3>3, <3>5, <4>2, <4>3, <4>5, <4>6
      <3> QED
        BY <3>6, <3>7
    <2> QED
      BY <2>7, <2>8
  <1> QED
    BY <1>4, <1>5

(* usage_authorization_sign_request names the committed lease only.         *)
LEMMA SignUsageProofInv ==
  ASSUME IndInv, NEW kind \in ProofKinds, SignUsageProof(kind)
  PROVE  IndInv'
  <1>1. UNCHANGED <<clock, gate, ctl, line>> /\ proofs' = proofs \cup LeasesNamed(kind)
    BY DEF SignUsageProof
  <1>2. \A t \in LeasesNamed(kind) :
           t \in Tickets /\ line # <<>> /\ t = line[Len(line)] /\ line \in Seq(Tickets)
    BY DEF IndInv, TypeOK, AnyTicket, CommittedIsLast, LeasesNamed, SignUsageProof
  <1>3. \A t \in LeasesNamed(kind) : \E i \in 1 .. Len(line) : line[i] = t
    <2> SUFFICES ASSUME NEW t \in LeasesNamed(kind)
                 PROVE  \E i \in 1 .. Len(line) : line[i] = t
      OBVIOUS
    <2>1. Len(line) \in 1 .. Len(line) /\ line[Len(line)] = t
      BY <1>2
    <2> QED
      BY <2>1
  <1>4. TypeOK'
    <2>1. proofs' \subseteq Tickets
      BY <1>1, <1>2 DEF IndInv, TypeOK
    <2> QED
      BY <1>1, <2>1 DEF IndInv, TypeOK
  <1>5. ProofsFollowTheChain'
    BY <1>1, <1>3 DEF IndInv, ProofsFollowTheChain
  <1>6. /\ CommittedIsLast' /\ PendingIsNext' /\ GateAtTheHead' /\ LineOfOneSession'
        /\ AdmittedLeasesAreOneChain'
    BY <1>1 DEF IndInv, CommittedIsLast, PendingIsNext, GateAtTheHead, LineOfOneSession,
                AdmittedLeasesAreOneChain
  <1> QED
    BY <1>4, <1>5, <1>6 DEF IndInv

(* The clocks move without the gate.                                        *)
LEMMA ClockInv ==
  ASSUME IndInv, UNCHANGED <<gate, ctl, line, proofs>>,
         clock' \in [epoch : Nat, skew : Skews, back : Nat]
  PROVE  IndInv'
  <1>1. TypeOK'
    BY DEF IndInv, TypeOK
  <1> QED
    BY <1>1 DEF IndInv, CommittedIsLast, PendingIsNext, GateAtTheHead, LineOfOneSession,
                AdmittedLeasesAreOneChain, ProofsFollowTheChain

(* Every step of the Host and of its clocks keeps the invariant.            *)
LEMMA NextInv == IndInv /\ [Next]_vars => IndInv'
  <1> SUFFICES ASSUME IndInv, [Next]_vars PROVE IndInv'
    OBVIOUS
  <1> USE DEF Next
  <1>1. ASSUME NEW ok \in BOOLEAN, InstallChannel(ok) PROVE IndInv'
    BY <1>1, InstallChannelInv
  <1>2. CASE LoseChannel
    <2>1. gate' = GateRevoked(gate) /\ ctl' = NoChannel(ctl.channel)
      BY <1>2 DEF LoseChannel, WorkerEnded
    <2>2. line' = line /\ proofs' = proofs /\ clock' = clock
      BY <1>2 DEF LoseChannel
    <2> QED
      BY <2>1, <2>2, GateFacts, EndedWorkerInv
  <1>3. ASSUME NEW t \in Tickets, LeaseOffer(t) PROVE IndInv'
    BY <1>3, LeaseOfferInv
  <1>4. ASSUME NEW valid \in BOOLEAN, LeaseCommit(valid) PROVE IndInv'
    BY <1>4, LeaseCommitInv
  <1>5. ASSUME NEW kind \in ProofKinds, SignUsageProof(kind) PROVE IndInv'
    BY <1>5, SignUsageProofInv
  <1>6. CASE UNCHANGED vars \/ SignStatusProof
    <2>1. UNCHANGED <<gate, ctl, line, proofs>> /\ clock' = clock
      BY <1>6 DEF vars, SignStatusProof
    <2>2. clock' \in [epoch : Nat, skew : Skews, back : Nat]
      BY <2>1 DEF IndInv, TypeOK
    <2> QED
      BY <2>1, <2>2, ClockInv
  <1>7. CASE Snapshot
    <2>1. GateKeeps(gate, gate')
      BY <1>7, GateFacts, SnapshotKeeps DEF Snapshot
    <2> QED
      BY <1>7, <2>1, AskedGateInv DEF Snapshot
  <1>8. CASE OperatorStop
    <2>1. GateKeeps(gate, gate')
      BY <1>8, GateFacts, StopKeeps DEF OperatorStop
    <2> QED
      BY <1>8, <2>1, AskedGateInv DEF OperatorStop
  <1>9. CASE Tick \/ MonotonicStepsBack \/ \E skew \in Skews : CorrectWallClock(skew)
    <2>1. clock' \in [epoch : Nat, skew : Skews, back : Nat]
      BY <1>9 DEF Tick, MonotonicStepsBack, CorrectWallClock, IndInv, TypeOK
    <2>2. UNCHANGED <<gate, ctl, line, proofs>>
      BY <1>9 DEF Tick, MonotonicStepsBack, CorrectWallClock
    <2> QED
      BY <2>1, <2>2, ClockInv
  <1> QED
    BY <1>1, <1>2, <1>3, <1>4, <1>5, <1>6, <1>7, <1>8, <1>9

(* IndInv holds throughout.                                                 *)
LEMMA Invariance == Spec => []IndInv
  <1> QED
    BY InitInv, NextInv, PTL DEF Spec

-----------------------------------------------------------------------------
(* What the parts of the Host agree on *)

(* Gate, worker and signer follow one chain of leases, in whatever order    *)
(* offers, commits, losses of the channel, stops and clock changes come:    *)
(* what is open is what the APP committed on the channel in place, what one *)
(* gate admitted is one chain without a fork or an overlap, and the Host    *)
(* signs heartbeats and stops for leases of that chain only.                *)
THEOREM ChainTheorem == Spec => []OneChainServes
  <1>1. IndInv => OneChainServes
    <2> SUFFICES ASSUME IndInv PROVE OneChainServes
      OBVIOUS
    <2>1. OpenUnderTheCommittedLease
      BY DEF IndInv, GateAtTheHead, CommittedIsLast, OpenUnderTheCommittedLease, ChainHead,
             Serving
    <2> QED
      BY <2>1 DEF IndInv, OneChainServes
  <1> QED
    BY <1>1, Invariance, PTL

(* A gate whose current lease has ended for it opens no data plane.         *)
LEMMA EndedLeaseIsShut ==
  ASSUME NEW g \in Gates, SoundLease(g.lease), NEW mono \in Int,
         g.lease.last >= g.lease.current.exp
  PROVE  ~GatePermits(g, mono)
  <1> SUFFICES ASSUME GatePermits(g, mono) PROVE FALSE
    OBVIOUS
  <1> DEFINE now == TrustedNow(g, mono)
             l == g.lease
             e == Evaluated(l, now)
  <1>1. l \in LeaseGates /\ now \in Nat
    BY TrustedNowType DEF GatePermits, Gates
  <1>2. e.state = "active"
    BY DEF GatePermits, Permits
  <1>3. Keeps(l, e)
    BY <1>1, EvaluationKeeps
  <1>4. l.state \in Serving
    BY <1>2, <1>3 DEF Keeps, Serving
  <1>5. l.current.exp \in Nat /\ l.last \in Nat
    BY <1>1, TicketFields DEF LeaseGates
  <1>6. l.state = "expired"
    BY <1>4, <1>5 DEF SoundLease, Serving
  <1>7. e.state \in {"expired", "trusted_time_rollback"}
    BY <1>1, <1>6 DEF Evaluated, RolledOver, Terminal, Closed, LeaseGates
  <1> QED
    BY <1>2, <1>7

(* The gate's time never runs back while it stays in place.                 *)
LEMMA GateTimeMovesOn ==
  ASSUME IndInv, [Next]_vars, line # <<>>, line' # <<>>, line'[1] = line[1],
         ctl'.channel = ctl.channel
  PROVE  gate'.lease.last >= gate.lease.last
  <1>0. gate.lease.last \in Nat
    BY GateFacts DEF Gates, LeaseGates
  <1> USE DEF Next
  <1>1. ASSUME NEW ok \in BOOLEAN, InstallChannel(ok) PROVE FALSE
    <2>1. ctl'.channel = ctl.channel + 1
      BY <1>1 DEF InstallChannel, NoChannel
    <2> QED
      BY <2>1, GateFacts
  <1>2. CASE LoseChannel
    BY <1>2, GateFacts, RevocationKeeps DEF LoseChannel, WorkerEnded, GateKeeps, Keeps
  <1>3. ASSUME NEW t \in Tickets, LeaseOffer(t) PROVE gate'.lease.last >= gate.lease.last
    <2> DEFINE g == SnapshotGate(gate, Mono)
    <2>1. GateKeeps(gate, g)
      BY GateFacts, SnapshotKeeps
    <2>2. g \in Gates /\ SoundLease(g.lease) /\ g.lease.last >= gate.lease.last /\ g.lease.last \in Nat
      BY <2>1 DEF GateKeeps, Keeps, LeaseGates
    <2>3. gate' \in {g, GateRevoked(g), GateRevoked(gate)}
      BY <1>3 DEF LeaseOffer
    <2> HIDE DEF g
    <2>4. GateKeeps(g, GateRevoked(g)) /\ GateKeeps(gate, GateRevoked(gate))
      BY <2>2, GateFacts, RevocationKeeps
    <2>5. /\ GateRevoked(g).lease.last >= g.lease.last /\ GateRevoked(g).lease.last \in Nat
          /\ GateRevoked(gate).lease.last >= gate.lease.last
      BY <2>4 DEF GateKeeps, Keeps, LeaseGates
    <2> QED
      BY <1>0, <2>2, <2>3, <2>5
  <1>4. ASSUME NEW valid \in BOOLEAN, LeaseCommit(valid) PROVE gate'.lease.last >= gate.lease.last
    <2> DEFINE t == ctl.pending
               g == GateForCommit(t, valid)
               s == GateSubmit(g, t, Wall, Mono)
    <2>1. /\ t \in Tickets /\ g \in Gates /\ SoundLease(g.lease)
          /\ ~Fresh => g = SnapshotGate(gate, Mono) /\ GateKeeps(gate, g)
      BY <1>4, CommitGate DEF LeaseCommit
    <2>2. CASE Fresh
      <3>1. line' = <<t>> /\ t.channel = ctl.channel
        <4>1. /\ ~(SessionFork(t) \/ s.admission = "rejected")
              /\ line' = <<t>>
          BY <1>4, <2>2 DEF LeaseCommit, Fresh
        <4>2. g.confirmed /\ Admitted(g.lease, t, s.admission, s.gate.lease)
          <5> HIDE DEF g
          <5> QED
            BY <2>1, <4>1, GateFacts, GateSubmitAdmits
        <4>3. g.lease.channel = ctl.channel
          BY <1>4, <2>2, <4>2, CommitGate DEF LeaseCommit
        <4> QED
          BY <4>1, <4>2, <4>3 DEF Admitted
      <3>2. line[1] = t /\ Len(line) \in Nat /\ Len(line) > 0
        BY <3>1 DEF IndInv, TypeOK
      <3>3. ctl.open /\ ctl.channel \in Nat
        BY <1>4, GateFacts DEF LeaseCommit
      <3>4. ctl.installed
        BY <3>1, <3>2, <3>3 DEF IndInv, LineOfOneSession
      <3>5. SuccessorGenesis(t)
        BY <2>2, <3>4 DEF Fresh
      <3>6. ctl.committed.session = line[1].session
        BY <3>2, <3>4 DEF IndInv, CommittedIsLast, LineOfOneSession
      <3> QED
        BY <3>2, <3>5, <3>6 DEF SuccessorGenesis
    <2>3. CASE ~Fresh
      <3>1. g.lease.last >= gate.lease.last /\ g.lease.last \in Nat
        BY <2>1, <2>3 DEF GateKeeps, Keeps, LeaseGates
      <3>2. CASE SessionFork(t) \/ s.admission = "rejected"
        <4>1. gate' = GateRevoked(g)
          BY <1>4, <3>2 DEF LeaseCommit
        <4> HIDE DEF g
        <4>2. gate'.lease.last >= g.lease.last /\ gate'.lease.last \in Nat
          BY <2>1, <4>1, RevocationKeeps DEF GateKeeps, Keeps, LeaseGates
        <4> QED
          BY <1>0, <3>1, <4>2
      <3>3. CASE ~(SessionFork(t) \/ s.admission = "rejected")
        <4>1. gate' = s.gate
          BY <1>4, <3>3 DEF LeaseCommit
        <4> HIDE DEF g
        <4>2. Admitted(g.lease, t, s.admission, s.gate.lease)
          BY <2>1, <3>3, GateFacts, GateSubmitAdmits
        <4> HIDE DEF s
        <4>3. gate'.lease.last >= g.lease.last /\ gate'.lease.last \in Nat
          BY <4>1, <4>2 DEF Admitted, LeaseGates
        <4> QED
          BY <1>0, <3>1, <4>3
      <3> QED
        BY <3>2, <3>3
    <2> QED
      BY <2>2, <2>3
  <1>5. CASE Snapshot
    BY <1>5, GateFacts, SnapshotKeeps DEF Snapshot, GateKeeps, Keeps
  <1>6. CASE OperatorStop
    BY <1>6, GateFacts, StopKeeps DEF OperatorStop, GateKeeps, Keeps
  <1>7. CASE gate' = gate
    BY <1>0, <1>7
  <1>8. \/ \E ok \in BOOLEAN : InstallChannel(ok)
        \/ LoseChannel
        \/ \E t \in Tickets : LeaseOffer(t)
        \/ \E valid \in BOOLEAN : LeaseCommit(valid)
        \/ Snapshot
        \/ OperatorStop
        \/ gate' = gate
    BY DEF SignUsageProof, SignStatusProof, Tick, MonotonicStepsBack, CorrectWallClock, vars
  <1> QED
    BY <1>1, <1>2, <1>3, <1>4, <1>5, <1>6, <1>7, <1>8

(* A lease that has ended for a gate never serves again while that gate     *)
(* stays in place, whatever the wall clock and the monotonic clock do.      *)
THEOREM EndedTheorem == Spec => EndedLeaseStaysEnded
  <1>1. ASSUME IndInv, IndInv', [Next]_vars,
               line' # <<>>, line # <<>>, line'[1] = line[1], ctl'.channel = ctl.channel,
               NEW t \in Tickets, gate.lease.last >= t.exp, gate'.lease.current = t
        PROVE  ~GatePermits(gate', Mono')
    <2>1. gate'.lease.last >= gate.lease.last
      BY <1>1, GateTimeMovesOn
    <2>2. gate' \in Gates /\ SoundLease(gate'.lease) /\ Mono' \in Int
      <3>1. gate' \in Gates /\ SoundLease(gate'.lease)
        BY <1>1 DEF IndInv, TypeOK, Gates, GateAtTheHead
      <3>2. clock'.epoch \in Nat /\ clock'.back \in Nat
        BY <1>1 DEF IndInv, TypeOK
      <3> QED
        BY <3>1, <3>2 DEF Mono
    <2>3. gate'.lease.last \in Nat /\ gate.lease.last \in Nat /\ t.exp \in Nat
      BY <1>1, <2>2, GateFacts, TicketFields DEF Gates, LeaseGates, AnyTicket
    <2>4. gate'.lease.last >= gate'.lease.current.exp
      BY <1>1, <2>1, <2>3
    <2> QED
      BY <2>2, <2>4, EndedLeaseIsShut
  <1>2. IndInv /\ IndInv' /\ [Next]_vars =>
          [line' # <<>> /\ line # <<>> /\ line'[1] = line[1] /\ ctl'.channel = ctl.channel =>
             \A t \in Tickets :
                (gate.lease.last >= t.exp /\ gate'.lease.current = t)
                    => ~GatePermits(gate, Mono)' ]_vars
    BY <1>1
  <1> QED
    BY <1>2, Invariance, PTL DEF Spec, EndedLeaseStaysEnded

=============================================================================
