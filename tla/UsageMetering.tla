---------------------------- MODULE UsageMetering ----------------------------
(***************************************************************************)
(* The server side of paid use: UsageService (usage_service.py) over the   *)
(* SQLite tables of UsageRepository, for one entitlement.                  *)
(*                                                                         *)
(* A client prepares a start request, obtains a challenge for it, starts a *)
(* session, renews its five-second lease with heartbeats, and stops the    *)
(* session or cancels the start.  Every answer may be lost and every       *)
(* request may be sent again, late or twice; an administrator may revoke,  *)
(* restore, unbind or rebind the entitlement between any two of them, and  *)
(* a new card may refill an exhausted one.                                 *)
(*                                                                         *)
(* One handler is one BEGIN IMMEDIATE transaction and so one action; a     *)
(* handler that raises rolls back and is no step.  Handlers read the clock *)
(* before they wait for the write lock: each runs with a time that is up   *)
(* to Lag seconds old.  stop_usage checks the lease before its transaction *)
(* and is two actions.                                                     *)
(*                                                                         *)
(* Left out: signatures, proofs and token encoding (a command or a ticket  *)
(* is genuine), the anti-replay nonces (they only refuse requests, and the *)
(* model shows that replays are harmless without them), audit rows, client *)
(* version floors, and cancellations migrated from schema V5.              *)
(***************************************************************************)
EXTENDS Integers, FiniteSets, FiniteSetsExt

CONSTANTS
    Requests,      \* start requests; a session is named by its request
    HbIds,         \* request ids of heartbeats
    Pairs,         \* device pairs an entitlement can be bound to
    Cards,         \* cards that can be activated: [kind, seconds]
    TTL,           \* usage_lease_ttl_seconds
    Window,        \* usage_renewal_window_seconds
    Grace,         \* LEASE_RETRY_GRACE_SECONDS
    ChallengeTTL,  \* USAGE_START_CHALLENGE_TTL_SECONDS
    Lag,           \* longest wait between reading the clock and the lock
    MaxTime,       \* bound of the clock
    MaxRv,         \* bound of the revocation version
    None           \* no pair, no command, no challenge, no ticket, no request id

Kinds == {"metered", "permanent"}

\* _is_permanent of an entitlement, a card or a ticket
IsPermanent(x) == x.kind = "permanent"

ASSUME SettingsAssumption ==
    /\ TTL \in Nat /\ Window \in Nat /\ Grace \in Nat
    /\ ChallengeTTL \in Nat /\ Lag \in Nat
    /\ MaxTime \in Nat /\ MaxRv \in Nat
    /\ 1 <= Window /\ Window < TTL

ASSUME CardAssumption ==
    /\ Cards \subseteq [kind : Kinds, seconds : Nat]
    /\ \A c \in Cards : IsPermanent(c) <=> c.seconds = 0

ASSUME NoneAssumption == None \notin Pairs /\ None \notin HbIds

VARIABLES
    clock,       \* server time in seconds
    ent,         \* the row of dm_entitlements
    bound,       \* pairs with a row in dm_entitlement_device_bindings
    commands,    \* the start command of each request, once a client made it
    challenges,  \* dm_usage_start_challenges, by request
    sessions,    \* dm_usage_sessions, by start request
    cancelled,   \* requests with a row in dm_usage_start_cancellations
    ledger,      \* dm_usage_ledger
    issued,      \* every ticket the server ever put into an answer
    stopping     \* stop requests between their checks and their transaction

vars == <<clock, ent, bound, commands, challenges, sessions, cancelled,
          ledger, issued, stopping>>
-----------------------------------------------------------------------------
NoSession ==
    [status |-> "none", reason |-> "", pair |-> None, seq |-> 0,
     lease |-> None, previous |-> None, heartbeat |-> None, consumed |-> 0]

\* The times a handler that runs now may have read before it got the lock.
Reads == {n \in 0 .. clock : clock <= n + Lag}

Binding(command) == command.pair = ent.pair /\ command.rv = ent.rv

\* _require_active_entitlement
Usable == ent.status = "active" /\ (IsPermanent(ent) \/ ent.remaining > 0)

\* What the next lease costs, and for how long it is valid.
Charged == IF IsPermanent(ent) THEN 0
           ELSE IF TTL < ent.remaining THEN TTL ELSE ent.remaining

Duration == IF IsPermanent(ent) THEN TTL ELSE Charged

\* issue_usage_lease: the signed claims; equal claims are equal bytes.
Ticket(sid, seq, now, notBefore, duration, remaining) ==
    [sid |-> sid, seq |-> seq, iat |-> now, nbf |-> notBefore,
     exp |-> notBefore + duration, remaining |-> remaining,
     rv |-> ent.rv, pair |-> ent.pair, kind |-> ent.kind]

\* verify_usage_lease, for a heartbeat
LeaseAccepted(ticket, now) == ticket.nbf <= now /\ now < ticket.exp + Grace

\* Mutant: a repeated answer is dated with the time of the repetition.
ReissueMutant(session) ==
    [session.lease EXCEPT !.rv = ent.rv, !.pair = ent.pair,
                          !.kind = ent.kind, !.iat = clock]

\* _session_response signs the stored lease again, for the entitlement of now.
Reissue(session) ==
    [session.lease EXCEPT !.rv = ent.rv, !.pair = ent.pair,
                          !.kind = ent.kind]

Answer(session) ==
    IF session.status = "active" THEN {Reissue(session)} ELSE {}

Ended(session, status, reason) ==
    [session EXCEPT !.status = status, !.reason = reason]

\* Ends every active session, as the administrative operations do.
AllEnded(status, reason) ==
    [r \in Requests |->
        IF sessions[r].status = "active"
        THEN Ended(sessions[r], status, reason) ELSE sessions[r]]

\* expire_stale_sessions
Unexpired(now) ==
    [r \in Requests |->
        IF sessions[r].status = "active" /\ sessions[r].lease.exp <= now
        THEN Ended(sessions[r], "ended", "usage_lease_expired")
        ELSE sessions[r]]

\* UPDATE dm_usage_start_challenges SET status = 'expired' WHERE status = 'issued'
ChallengesExpired(stale) ==
    [r \in Requests |->
        IF /\ r \in stale
           /\ challenges[r] # None
           /\ challenges[r].status = "issued"
        THEN [challenges[r] EXCEPT !.status = "expired"]
        ELSE challenges[r]]

AllChallengesExpired == ChallengesExpired(Requests)

\* debit_entitlement
Debited(seconds) ==
    [ent EXCEPT !.remaining = @ - seconds,
                !.consumed  = @ + seconds,
                !.status    = IF ent.remaining = seconds THEN "exhausted" ELSE @]

\* add_ledger_charge; a permanent card is never charged.
LedgerRow(ticket) ==
    [sid |-> ticket.sid, seq |-> ticket.seq, from |-> ticket.nbf,
     to |-> ticket.exp, charged |-> ticket.exp - ticket.nbf,
     before |-> ent.remaining, after |-> ticket.remaining, rv |-> ticket.rv]

\* What a start and a renewal have in common: debit, sign, write the ledger.
Pay(ticket) ==
    /\ ent'    = IF IsPermanent(ent) THEN ent ELSE Debited(Charged)
    /\ ledger' = IF IsPermanent(ent) THEN ledger
                 ELSE ledger \cup {LedgerRow(ticket)}
    /\ issued' = issued \cup {ticket}
-----------------------------------------------------------------------------
\* What the app does before a start: the request and its cancellation are
\* signed together, for the pair and the revocation version of that moment.
Prepare(r) ==
    /\ commands[r] = None
    /\ ent.pair # None
    /\ commands' = [commands EXCEPT ![r] = [pair |-> ent.pair, rv |-> ent.rv]]
    /\ UNCHANGED <<clock, ent, bound, challenges, sessions, cancelled, ledger,
                   issued, stopping>>

\* create_start_challenge: one open challenge per entitlement, none twice.
CreateStartChallenge(r, now) ==
    LET stale == {q \in Requests : challenges[q] # None /\ challenges[q].exp <= now}
        open  == ChallengesExpired(stale)
    IN /\ commands[r] # None
       /\ Binding(commands[r])
       /\ Usable
       /\ \/ /\ open[r] # None
             /\ open[r].status = "issued"
             /\ challenges' = open
          \/ /\ open[r] = None
             /\ \A q \in Requests : open[q] # None => open[q].status # "issued"
             /\ challenges' = [open EXCEPT ![r] =
                    [status |-> "issued", exp |-> now + ChallengeTTL,
                     pair |-> commands[r].pair]]
       /\ UNCHANGED <<clock, ent, bound, commands, sessions, cancelled, ledger,
                      issued, stopping>>

\* start_usage of a request that already has its session: the same answer
\* again.  The commit keeps the expiry of stale sessions.
StartReplay(r, now) ==
    LET live == Unexpired(now)
    IN /\ commands[r] # None
       /\ r \notin cancelled
       /\ Binding(commands[r])
       /\ live[r].status # "none"
       /\ sessions' = live
       /\ issued' = issued \cup Answer(live[r])
       /\ UNCHANGED <<clock, ent, bound, commands, challenges, cancelled,
                      ledger, stopping>>

\* _verify_start_challenge: the open challenge of the entitlement, issued for the
\* pair. It need not have been issued for the request that starts.
VerifyStartChallenge(q, command, now) ==
    /\ challenges[q] # None
    /\ challenges[q].status = "issued"
    /\ now < challenges[q].exp
    /\ challenges[q].pair = command.pair

\* Mutant: does not look for a cancellation of the request.
StartUsageMutant(r, now) ==
    LET live   == Unexpired(now)
        ticket == Ticket(r, 0, now, now, Duration, ent.remaining - Charged)
    IN /\ commands[r] # None
       /\ Binding(commands[r])
       /\ live[r].status = "none"
       /\ Usable
       /\ \A q \in Requests : live[q].status # "active"
       /\ \E q \in Requests :
             /\ VerifyStartChallenge(q, commands[r], now)
             /\ challenges' = [challenges EXCEPT ![q].status = "consumed"]
       /\ Pay(ticket)
       /\ sessions' = [live EXCEPT ![r] =
              [status |-> "active", reason |-> "", pair |-> commands[r].pair,
               seq |-> 0, lease |-> ticket, previous |-> None,
               heartbeat |-> None, consumed |-> Charged]]
       /\ UNCHANGED <<clock, bound, commands, cancelled, stopping>>

\* start_usage: charges the first lease and opens the session.
StartUsage(r, now) ==
    LET live   == Unexpired(now)
        ticket == Ticket(r, 0, now, now, Duration, ent.remaining - Charged)
    IN /\ commands[r] # None
       /\ r \notin cancelled
       /\ Binding(commands[r])
       /\ live[r].status = "none"
       /\ Usable
       /\ \A q \in Requests : live[q].status # "active"
       /\ \E q \in Requests :
             /\ VerifyStartChallenge(q, commands[r], now)
             /\ challenges' = [challenges EXCEPT ![q].status = "consumed"]
       /\ Pay(ticket)
       /\ sessions' = [live EXCEPT ![r] =
              [status |-> "active", reason |-> "", pair |-> commands[r].pair,
               seq |-> 0, lease |-> ticket, previous |-> None,
               heartbeat |-> None, consumed |-> Charged]]
       /\ UNCHANGED <<clock, bound, commands, cancelled, stopping>>

\* _verify_start_cancellation_authority: the current pair, also with the
\* version of before a revocation, or a former pair for its own request.
MayCancel(r) ==
    LET command == commands[r]
    IN \/ /\ command.pair = ent.pair
          /\ \/ command.rv = ent.rv
             \/ ent.status = "revoked" /\ command.rv < ent.rv
       \/ /\ command.rv < ent.rv
          /\ command.pair \in bound \ {ent.pair}
          /\ \/ sessions[r].status # "none" /\ sessions[r].pair = command.pair
             \/ sessions[r].status = "none" /\ challenges[r] # None
                                            /\ challenges[r].pair = command.pair

\* cancel_start_usage: ends the session of the request, or makes sure that
\* there never is one.  A second cancellation only repeats the first answer.
CancelStartUsage(r) ==
    /\ commands[r] # None
    /\ r \notin cancelled
    /\ MayCancel(r)
    /\ cancelled' = cancelled \cup {r}
    /\ sessions' = IF sessions[r].status = "active"
                   THEN [sessions EXCEPT ![r] =
                            Ended(@, "ended", "client_start_cancelled")]
                   ELSE sessions
    /\ UNCHANGED <<clock, ent, bound, commands, challenges, ledger, issued,
                   stopping>>
-----------------------------------------------------------------------------
\* heartbeat_usage up to the row: the client proves a lease of this session
\* and the entitlement is still the one the lease was signed for.
HeartbeatVerified(r, ticket, now) ==
    /\ ticket.sid = r
    /\ LeaseAccepted(ticket, now)
    /\ ticket.rv = ent.rv
    /\ sessions[r].status # "none"
    /\ sessions[r].pair = ent.pair

\* _duplicate_heartbeat_response: the last renewal asked for again.
HeartbeatReplay(r, ticket, id, now) ==
    /\ HeartbeatVerified(r, ticket, now)
    /\ sessions[r].heartbeat = id
    /\ sessions[r].previous = ticket
    /\ issued' = issued \cup Answer(sessions[r])
    /\ UNCHANGED <<clock, ent, bound, commands, challenges, sessions, cancelled,
                   ledger, stopping>>

\* _require_lease_binding and the first checks of _apply_heartbeat
RenewalOpen(r, ticket, now) ==
    /\ HeartbeatVerified(r, ticket, now)
    /\ sessions[r].status = "active"
    /\ sessions[r].lease = ticket
    /\ ticket.exp <= now + Window

\* Mutant: the next lease starts when it is asked for.
HeartbeatRenewMutant(r, ticket, id, now) ==
    LET next == Ticket(r, ticket.seq + 1, now, now, Duration,
                       ent.remaining - Charged)
    IN /\ RenewalOpen(r, ticket, now)
       /\ Usable
       /\ Pay(next)
       /\ sessions' = [sessions EXCEPT
              ![r].seq = next.seq, ![r].lease = next, ![r].previous = ticket,
              ![r].heartbeat = id, ![r].consumed = @ + Charged]
       /\ UNCHANGED <<clock, bound, commands, challenges, cancelled, stopping>>

\* _apply_heartbeat: the next lease starts where the current one ends.
HeartbeatRenew(r, ticket, id, now) ==
    LET notBefore == IF now < ticket.exp THEN ticket.exp ELSE now
        next == Ticket(r, ticket.seq + 1, now, notBefore, Duration,
                       ent.remaining - Charged)
    IN /\ RenewalOpen(r, ticket, now)
       /\ Usable
       /\ Pay(next)
       /\ sessions' = [sessions EXCEPT
              ![r].seq = next.seq, ![r].lease = next, ![r].previous = ticket,
              ![r].heartbeat = id, ![r].consumed = @ + Charged]
       /\ UNCHANGED <<clock, bound, commands, challenges, cancelled, stopping>>

\* _apply_heartbeat ends the session when the frame counters did not grow or
\* nothing is left to pay with; it commits before it raises.
HeartbeatEnds(r, ticket, now) ==
    /\ RenewalOpen(r, ticket, now)
    /\ \/ sessions' = [sessions EXCEPT ![r] =
              Ended(@, "ended", "usage_progress_not_confirmed")]
       \/ /\ ~Usable
          /\ sessions' = [sessions EXCEPT ![r] =
                 Ended(@, "ended", "balance_exhausted")]
    /\ UNCHANGED <<clock, ent, bound, commands, challenges, cancelled, ledger,
                   issued, stopping>>

\* stop_usage before its transaction: an expired lease is good enough.
StopVerified(ticket, now) ==
    /\ ticket.nbf <= now + Window
    /\ ticket.rv = ent.rv
    /\ sessions[ticket.sid].pair = ent.pair
    /\ sessions[ticket.sid].lease = ticket
    /\ stopping' = stopping \cup {ticket}
    /\ UNCHANGED <<clock, ent, bound, commands, challenges, sessions, cancelled,
                   ledger, issued>>

\* stop_usage in its transaction: the session is read again, and an active one
\* must still have the lease of the request.
StopUsage(ticket) ==
    LET r == ticket.sid
    IN /\ ticket \in stopping
       /\ stopping' = stopping \ {ticket}
       /\ sessions' = IF sessions[r].status = "active" /\ sessions[r].lease = ticket
                      THEN [sessions EXCEPT ![r] = Ended(@, "ended", "user_stopped")]
                      ELSE sessions
       /\ UNCHANGED <<clock, ent, bound, commands, challenges, cancelled,
                      ledger, issued>>

\* entitlement_status: a read that also ends sessions whose lease is over.
EntitlementStatus(now) ==
    /\ ent.pair # None
    /\ sessions' = Unexpired(now)
    /\ UNCHANGED <<clock, ent, bound, commands, challenges, cancelled, ledger,
                   issued, stopping>>
-----------------------------------------------------------------------------
\* revoke_entitlement, and revoke_batch for an entitlement of the batch
RevokeEntitlement ==
    /\ ent.status # "revoked"
    /\ ent.rv < MaxRv
    /\ ent' = [ent EXCEPT !.status = "revoked", !.rv = @ + 1]
    /\ sessions' = AllEnded("revoked", "entitlement_revoked")
    /\ challenges' = AllChallengesExpired
    /\ UNCHANGED <<clock, bound, commands, cancelled, ledger, issued, stopping>>

\* restore_entitlement gives no time back.
RestoreEntitlement ==
    /\ ent.status = "revoked"
    /\ ent.rv < MaxRv
    /\ ent' = [ent EXCEPT !.rv = @ + 1,
                          !.status = IF IsPermanent(ent) \/ ent.remaining > 0
                                     THEN "active" ELSE "exhausted"]
    /\ UNCHANGED <<clock, bound, commands, challenges, sessions, cancelled,
                   ledger, issued, stopping>>

\* unbind_entitlement_device: the pair id becomes one nobody holds.
UnbindDevice ==
    /\ ent.pair # None
    /\ ent.rv < MaxRv
    /\ ent' = [ent EXCEPT !.pair = None, !.rv = @ + 1]
    /\ sessions' = AllEnded("ended", "admin_device_unbound")
    /\ challenges' = AllChallengesExpired
    /\ UNCHANGED <<clock, bound, commands, cancelled, ledger, issued, stopping>>

\* Mutant: leaves the session of the former pair alone.
BindDeviceMutant(p) ==
    /\ ent.status # "revoked"
    /\ ent.rv < MaxRv
    /\ ent' = [ent EXCEPT !.pair = p, !.rv = @ + 1]
    /\ bound' = bound \cup {p}
    /\ challenges' = AllChallengesExpired
    /\ UNCHANGED <<clock, commands, sessions, cancelled, ledger, issued,
                   stopping>>

\* _confirm_device_binding: the card is bound to a pair, perhaps the same one.
\* Pairs differ in the Host; that the Android device stays the same unless it
\* was unbound only refuses bindings and is left out.
BindDevice(p) ==
    /\ ent.status # "revoked"
    /\ ent.rv < MaxRv
    /\ ent' = [ent EXCEPT !.pair = p, !.rv = @ + 1]
    /\ bound' = bound \cup {p}
    /\ sessions' = AllEnded("ended", "device_rebound")
    /\ challenges' = AllChallengesExpired
    /\ UNCHANGED <<clock, commands, cancelled, ledger, issued, stopping>>

\* Mutant: keeps what was consumed on the former card.
ReactivateMutant(card) ==
    /\ ent.status = "exhausted"
    /\ ent.pair # None
    /\ ent.rv < MaxRv
    /\ ent.remaining = 0
    /\ ent.consumed = ent.credited
    /\ \A r \in Requests : sessions[r].status # "active"
    /\ ent' = [ent EXCEPT !.status = "active", !.rv = @ + 1,
                          !.remaining = card.seconds, !.credited = card.seconds,
                          !.kind = card.kind, !.since = ent.rv + 1]
    /\ UNCHANGED <<clock, bound, commands, challenges, sessions, cancelled,
                   ledger, issued, stopping>>

\* reactivate_exhausted_entitlement: a new card replaces a used-up one.
Reactivate(card) ==
    /\ ent.status = "exhausted"
    /\ ent.pair # None
    /\ ent.rv < MaxRv
    /\ ent.remaining = 0
    /\ ent.consumed = ent.credited
    /\ \A r \in Requests : sessions[r].status # "active"
    /\ ent' = [ent EXCEPT !.status = "active", !.rv = @ + 1,
                          !.remaining = card.seconds, !.credited = card.seconds,
                          !.consumed = 0, !.kind = card.kind,
                          !.since = ent.rv + 1]
    /\ UNCHANGED <<clock, bound, commands, challenges, sessions, cancelled,
                   ledger, issued, stopping>>

Tick ==
    /\ clock < MaxTime
    /\ clock' = clock + 1
    /\ UNCHANGED <<ent, bound, commands, challenges, sessions, cancelled,
                   ledger, issued, stopping>>
-----------------------------------------------------------------------------
\* The entitlement right after the activation of its first card.
Init ==
    /\ clock = 0
    /\ \E card \in Cards, p \in Pairs :
          /\ ent = [status |-> "active", rv |-> 1, pair |-> p,
                    remaining |-> card.seconds, credited |-> card.seconds,
                    consumed |-> 0, kind |-> card.kind, since |-> 1]
          /\ bound = {p}
    /\ commands = [r \in Requests |-> None]
    /\ challenges = [r \in Requests |-> None]
    /\ sessions = [r \in Requests |-> NoSession]
    /\ cancelled = {}
    /\ ledger = {}
    /\ issued = {}
    /\ stopping = {}

ClientNext ==
    \E r \in Requests :
        \/ Prepare(r)
        \/ CancelStartUsage(r)
        \/ \E now \in Reads :
              \/ CreateStartChallenge(r, now)
              \/ StartReplay(r, now)
              \/ StartUsage(r, now)
              \/ EntitlementStatus(now)

LeaseNext ==
    \E ticket \in issued, now \in Reads :
        \/ StopVerified(ticket, now)
        \/ HeartbeatEnds(ticket.sid, ticket, now)
        \/ \E id \in HbIds : \/ HeartbeatReplay(ticket.sid, ticket, id, now)
                             \/ HeartbeatRenew(ticket.sid, ticket, id, now)

AdminNext ==
    \/ RevokeEntitlement
    \/ RestoreEntitlement
    \/ UnbindDevice
    \/ \E p \in Pairs : BindDevice(p)
    \/ \E card \in Cards : Reactivate(card)

Next ==
    \/ Tick
    \/ ClientNext
    \/ LeaseNext
    \/ \E ticket \in stopping : StopUsage(ticket)
    \/ AdminNext

Spec == Init /\ [][Next]_vars
-----------------------------------------------------------------------------
Tickets ==
    [sid : Requests, seq : Nat, iat : Nat, nbf : Nat, exp : Nat,
     remaining : Nat, rv : Nat, pair : Pairs, kind : Kinds]

Reasons ==
    {"", "usage_lease_expired", "client_start_cancelled",
     "usage_progress_not_confirmed", "balance_exhausted", "user_stopped",
     "entitlement_revoked", "admin_device_unbound", "device_rebound"}

SessionType ==
    [status : {"active", "ended", "revoked"}, reason : Reasons, pair : Pairs,
     seq : Nat, lease : Tickets, previous : Tickets \cup {None},
     heartbeat : HbIds \cup {None}, consumed : Nat]

EntitlementType ==
    [status : {"active", "exhausted", "revoked"}, rv : Nat,
     pair : Pairs \cup {None}, remaining : Nat, credited : Nat,
     consumed : Nat, kind : Kinds, since : Nat]

ChallengeType ==
    [status : {"issued", "consumed", "expired"}, exp : Nat, pair : Pairs]

\* The types of the tables of the sidecar database and of the history kept
\* about its answers.
TypeOK ==
    /\ clock \in Nat
    /\ ent \in EntitlementType
    /\ bound \subseteq Pairs
    /\ commands \in [Requests -> [pair : Pairs, rv : Nat] \cup {None}]
    /\ challenges \in [Requests -> ChallengeType \cup {None}]
    /\ sessions \in [Requests -> SessionType \cup {NoSession}]
    /\ cancelled \subseteq Requests
    /\ ledger \subseteq [sid : Requests, seq : Nat, from : Nat, to : Nat,
                         charged : Nat, before : Nat, after : Nat, rv : Nat]
    /\ issued \subseteq Tickets
    /\ stopping \subseteq issued

\* Every ticket the server ever signed for a metered card, also in answers it
\* repeated, stands in the ledger once, for exactly the seconds it is valid;
\* and one renewal of one session never has two different tickets
\* (_session_response, add_ledger_charge).
TicketsPaidOnce ==
    /\ \A t, u \in issued : t.sid = u.sid /\ t.seq = u.seq => t = u
    /\ \A t \in issued :
          LET rows == {w \in ledger : w.sid = t.sid /\ w.seq = t.seq}
          IN IF IsPermanent(t) THEN rows = {}
             ELSE \E w \in rows : /\ rows = {w}
                                  /\ w.from = t.nbf /\ w.to = t.exp
                                  /\ w.charged = t.exp - t.nbf

\* The balance, the totals of the entitlement, the consumption of every
\* session and the ledger of the current card always agree
\* (debit_entitlement, record_heartbeat, add_ledger_charge).
LedgerBalances ==
    LET Spent(rows) == MapThenSumSet(LAMBDA w : w.charged, rows)
    IN /\ ent.credited = ent.remaining + ent.consumed
       /\ ent.consumed = Spent({w \in ledger : w.rv >= ent.since})
       /\ \A r \in Requests :
             sessions[r].consumed = Spent({w \in ledger : w.sid = r})

\* An active session is always one of the pair and the revocation version the
\* entitlement has now: whoever changes either of them ends the session in the
\* same transaction.  Repeating an answer therefore signs the very same ticket,
\* and "stored usage lease digest mismatch" is never raised.
ActiveSessionIsCurrent ==
    \A r \in Requests :
        sessions[r].status = "active" =>
            /\ sessions[r].pair = ent.pair
            /\ Reissue(sessions[r]) = sessions[r].lease

\* When everything stops, at most one lease and one renewal window of paid time
\* are lost: no ticket reaches further into the future (renewal_opens_at and
\* nbf of _apply_heartbeat).
PaidAheadBounded == \A t \in issued : t.exp <= t.iat + TTL + Window

\* Once a start is cancelled nothing is charged for it and no session of it
\* is or becomes active, whatever arrives late (start_cancellation,
\* _terminal_start_cancellation_session).
CancelIsFinal ==
    [][\A r \in cancelled :
          /\ r \in cancelled'
          /\ sessions'[r].status # "active"
          /\ {w \in ledger' : w.sid = r} = {w \in ledger : w.sid = r}]_vars

\* A session opens only when the leases of an expired one are over, up to the
\* seconds a start may have waited for the lock with the time it had read
\* (expire_stale_sessions, active_session).
StartsAfterExpiry ==
    [][\A r \in Requests, t \in issued :
          /\ sessions[r].status = "none" /\ sessions'[r].status = "active"
          /\ sessions'[t.sid].reason = "usage_lease_expired"
          => t.exp <= sessions'[r].lease.nbf + Lag]_vars

\* The metering implements the abstract prepaid meter: charges once, without
\* overlap in a session, and nobody else touches the balance.
Meter == INSTANCE PrepaidMeter WITH
            Sessions <- Requests,
            balance  <- ent.remaining,
            paid     <- {[sid |-> w.sid, seq |-> w.seq, from |-> w.from,
                          to |-> w.to] : w \in ledger}

\* usage_service.py over its tables is a PrepaidMeter.
ImplementsMeter == Meter!Init /\ [][Meter!Next]_(Meter!vars)

-----------------------------------------------------------------------------
\* The tickets of a session end with its current lease, one behind the other.
TicketsOfSessions ==
    /\ \A t \in issued :
          /\ t.iat <= t.nbf
          /\ t.nbf < t.exp
          /\ sessions[t.sid].status # "none"
          /\ \/ t = sessions[t.sid].lease
             \/ /\ t.seq < sessions[t.sid].seq
                /\ t.exp <= sessions[t.sid].lease.nbf
    /\ \A t, u \in issued : t.sid = u.sid /\ t.seq = u.seq => t = u
    /\ \A r \in Requests :
          sessions[r].status # "none" =>
              /\ sessions[r].lease \in issued
              /\ sessions[r].lease.sid = r
              /\ sessions[r].lease.seq = sessions[r].seq

\* The rows of the ledger are the metered tickets.
LedgerOfTickets ==
    /\ \A w \in ledger :
          /\ w.charged = w.to - w.from
          /\ \E t \in issued : /\ ~IsPermanent(t)
                               /\ t.sid = w.sid /\ t.seq = w.seq
                               /\ t.nbf = w.from /\ t.exp = w.to
    /\ \A t \in issued :
          IsPermanent(t) \/ \E w \in ledger : w.sid = t.sid /\ w.seq = t.seq
    /\ \A v, w \in ledger : v.sid = w.sid /\ v.seq = w.seq => v = w

\* A cancelled start or a revoked entitlement has no active session, an expired
\* session no lease ahead.
ClosedSessions ==
    \A r \in Requests :
        /\ r \in cancelled => sessions[r].status # "active"
        /\ ent.status = "revoked" => sessions[r].status # "active"
        /\ sessions[r].reason = "usage_lease_expired" =>
              /\ sessions[r].status = "ended"
              /\ sessions[r].lease.exp <= clock

\* The inductive invariant of the proofs: types, the tie between sessions,
\* tickets and ledger, and what closing a session means.
IndInv ==
    /\ TypeOK
    /\ TicketsOfSessions
    /\ LedgerOfTickets
    /\ ClosedSessions
    /\ ActiveSessionIsCurrent
    /\ PaidAheadBounded
=============================================================================
