--------------------------- MODULE UsageLeaseGate ---------------------------
(***************************************************************************)
(* UsageLeaseGate: the chain of usage leases that keeps the Host's data    *)
(* plane open. The gate holds the current lease and at most one staged     *)
(* successor; it is a record that the caller's lock protects, so its       *)
(* operations are operators on it.                                         *)
(*                                                                         *)
(* A lease is what its verified claims say: the session and the channel it *)
(* is bound to, its number in the session, the lease it follows (prev, the *)
(* hash of a ticket being its id and 0 the empty hash) and its interval.   *)
(* Entitlement, pair, keys, protocol and revocation version are one with   *)
(* the channel: all of them are fixed by the handshake.                    *)
(***************************************************************************)
EXTENDS Integers, FiniteSets

CONSTANTS Tickets,      \* the tickets the server has signed
          Grace,        \* kUsageLeaseServerAheadGraceSeconds: 2
          MaxTtl        \* kMaximumUsageLeaseTtlSeconds: 10

ASSUME TicketAssumption ==
    /\ Grace \in Nat /\ MaxTtl \in Nat
    /\ \A t \in Tickets :
          t \in [id : Nat \ {0}, session : Nat, channel : Nat, seq : Nat,
                 prev : Nat, iat : Nat, nbf : Nat, exp : Nat]

NoTicket == [id |-> 0, session |-> 0, channel |-> 0, seq |-> 0,
             prev |-> 0, iat |-> 0, nbf |-> 0, exp |-> 0]

\* The states of a gate; "none" is the lease_gate_ that does not exist.
Terminal(state) ==
    state \in {"invalid_binding", "stopped", "revoked", "trusted_time_rollback"}

NoGate == [state |-> "none", session |-> 0, channel |-> 0,
           current |-> NoTicket, future |-> NoTicket, last |-> 0]

NewGate(session, channel) ==
    [NoGate EXCEPT !.state = "empty", !.session = session, !.channel = channel]

\* close_locked.
Closed(g, state) ==
    [g EXCEPT !.state = state, !.current = NoTicket, !.future = NoTicket]

Stopped(g) == IF g.state \in {"none", "revoked"} THEN g ELSE Closed(g, "stopped")

Revoked(g) == IF g.state = "none" THEN g ELSE Closed(g, "revoked")

\* Whether now lies inside the lease.
Within(t, now) == t.nbf <= now /\ now < t.exp

\* expire_locked: a staged successor that came too late is still the head of
\* the chain that the next lease has to follow.
Expired(g) ==
    [g EXCEPT !.state = "expired",
              !.current = IF g.future = NoTicket THEN g.current ELSE g.future,
              !.future = NoTicket]

\* The end of the current lease: the staged one takes over inside its interval.
RolledOver(g, now) ==
    IF g.state # "active" \/ now < g.current.exp
    THEN g
    ELSE IF g.future # NoTicket /\ Within(g.future, now)
         THEN [g EXCEPT !.current = g.future, !.future = NoTicket]
         ELSE Expired(g)

\* Mutant: permission is only a matter of the time that is asked for; an end
\* that was seen is not kept.
EvaluatedByTimeOnly(g, now) ==
    IF Terminal(g.state) \/ g.state = "none" \/ now = 0 THEN g ELSE [g EXCEPT !.last = now]

\* evaluate_locked: the gate after the evaluation at trusted time now.
Evaluated(g, now) ==
    CASE Terminal(g.state) \/ g.state = "none" \/ (now = 0 /\ g.last = 0) -> g
      [] OTHER -> IF now < g.last THEN Closed(g, "trusted_time_rollback")
                  ELSE RolledOver([g EXCEPT !.last = now], now)

\* permits_data_plane of the snapshot that evaluate returns.
Permits(g, now) ==
    LET e == Evaluated(g, now) IN e.state = "active" /\ Within(e.current, now)

\* claims_valid.
ClaimsValid(t, now) ==
    /\ now # 0
    /\ t.iat # 0
    /\ t.iat <= t.nbf
    /\ t.iat <= now + Grace
    /\ t.exp > t.nbf
    /\ t.exp - t.nbf <= MaxTtl

BindingMatches(g, t) == t.session = g.session /\ t.channel = g.channel

\* The first lease of a session.
Genesis(g, t, now) ==
    /\ t.seq = 0
    /\ t.prev = 0
    /\ now < t.exp
    /\ t.nbf <= now + Grace

\* Mutant: a late lease may begin before the end of the one it follows.
FollowsOverlapping(g, t) == t.seq = g.current.seq + 1 /\ t.prev = g.current.id

\* The lease continues the chain without overlapping its head.
Follows(g, t) ==
    /\ t.seq = g.current.seq + 1
    /\ t.prev = g.current.id
    /\ t.nbf >= g.current.exp

\* submit_verified_ticket behind its evaluation: the admission and the gate.
Admit(g, t, now) ==
    LET rejected  == [admission |-> "rejected", gate |-> g]
        current   == [admission |-> "accepted_current",
                      gate |-> [g EXCEPT !.state = "active", !.current = t]]
        ahead     == [current EXCEPT !.admission = "staged_future"]
        staged    == [admission |-> "staged_future", gate |-> [g EXCEPT !.future = t]]
        unchanged == [admission |-> "accepted_idempotent", gate |-> g]
    IN IF Terminal(g.state) \/ ~ClaimsValid(t, now) \/ ~BindingMatches(g, t) THEN rejected
       ELSE IF g.state = "empty"
       THEN CASE Genesis(g, t, now) /\ now >= t.nbf -> current
              [] Genesis(g, t, now) /\ now < t.nbf  -> ahead
              [] OTHER -> rejected
       ELSE IF t \in {g.current, g.future} THEN unchanged
       ELSE CASE g.state = "expired" /\ Follows(g, t) /\ Within(t, now) -> current
              [] g.state = "active" /\ Follows(g, t) /\ g.future = NoTicket
                 /\ t.nbf = g.current.exp /\ t.nbf > now                -> staged
              [] OTHER -> rejected

\* submit_verified_ticket.
Submit(g, t, now) == Admit(Evaluated(g, now), t, now)

=============================================================================
