------------------------- MODULE UsageMeteringProofs -------------------------
(***************************************************************************)
(* Proofs about UsageMetering, for every number of requests, pairs, cards  *)
(* and every setting of the lease times.                                   *)
(***************************************************************************)
EXTENDS UsageMetering, TLAPS

-----------------------------------------------------------------------------
(* Records *)

(* The fields of a ticket.                                                  *)
LEMMA TicketFields ==
  ASSUME NEW t \in Tickets
  PROVE  /\ t.sid \in Requests /\ t.seq \in Nat /\ t.iat \in Nat
         /\ t.nbf \in Nat /\ t.exp \in Nat /\ t.remaining \in Nat
         /\ t.rv \in Nat /\ t.pair \in Pairs
  BY DEF Tickets

(* A row of dm_usage_sessions, or its absence.                              *)
SessionRows == SessionType \cup {NoSession}

(* What one transaction may do to a session it does not pay for.            *)
Closed(s, t) ==
    \/ t = s
    \/ /\ s.status = "active"
       /\ \E status \in {"ended", "revoked"}, reason \in Reasons :
             t = Ended(s, status, reason)

(* A session that exists has a ticket as its lease.                         *)
LEMMA SessionFields ==
  ASSUME NEW s \in SessionRows, s.status # "none"
  PROVE  /\ s \in SessionType /\ s.lease \in Tickets /\ s.seq \in Nat
         /\ s.pair \in Pairs /\ s.consumed \in Nat
  <1>1. NoSession.status = "none"
    BY DEF NoSession
  <1>2. s \in SessionType
    BY <1>1 DEF SessionRows
  <1> QED
    BY <1>2 DEF SessionType

(* Closing a session changes its status and the reason, nothing else.       *)
LEMMA ClosedFacts ==
  ASSUME NEW s \in SessionRows, NEW t, Closed(s, t)
  PROVE  /\ t \in SessionRows
         /\ t.lease = s.lease /\ t.seq = s.seq /\ t.pair = s.pair
         /\ t.status = "none" <=> s.status = "none"
         /\ t.status = "active" => t = s
  <1>1. CASE t = s
    BY <1>1
  <1>2. CASE t # s
    <2>1. PICK status \in {"ended", "revoked"}, reason \in Reasons :
             s.status = "active" /\ t = Ended(s, status, reason)
      BY <1>2 DEF Closed
    <2>2. s \in SessionType
      BY <2>1, SessionFields
    <2>3. /\ t.status = status /\ t.lease = s.lease /\ t.seq = s.seq
          /\ t.pair = s.pair
      BY <2>1, <2>2 DEF Ended, SessionType
    <2>4. t \in SessionType
      BY <2>1, <2>2 DEF Ended, SessionType
    <2> QED
      BY <2>1, <2>3, <2>4 DEF SessionRows
  <1> QED
    BY <1>1, <1>2

-----------------------------------------------------------------------------
(* The two kinds of transactions *)

(* A transaction that only closes sessions leaves tickets and ledger tied.  *)
LEMMA ClosingStep ==
  ASSUME TypeOK, TicketsOfSessions, LedgerOfTickets, PaidAheadBounded,
         UNCHANGED <<issued, ledger>>,
         \A r \in Requests : Closed(sessions[r], sessions'[r])
  PROVE  TicketsOfSessions' /\ LedgerOfTickets' /\ PaidAheadBounded'
  <1>1. /\ issued' = issued /\ ledger' = ledger
        /\ \A t \in issued : t \in Tickets
        /\ \A r \in Requests : sessions[r] \in SessionRows
    BY DEF TypeOK, SessionRows
  <1>2. \A r \in Requests :
           /\ sessions'[r].lease = sessions[r].lease
           /\ sessions'[r].seq = sessions[r].seq
           /\ sessions'[r].status = "none" <=> sessions[r].status = "none"
    BY <1>1, ClosedFacts
  <1>3. \A t \in issued : t.sid \in Requests
    BY <1>1, TicketFields
  <1>4. TicketsOfSessions'
    BY <1>1, <1>2, <1>3 DEF TicketsOfSessions
  <1>5. LedgerOfTickets'
    BY <1>1 DEF LedgerOfTickets
  <1>6. PaidAheadBounded'
    BY <1>1 DEF PaidAheadBounded
  <1> QED
    BY <1>4, <1>5, <1>6

(* A ticket that continues its session comes behind all of its tickets.     *)
LEMMA LaterTicket ==
  ASSUME TypeOK, TicketsOfSessions, NEW n \in Tickets,
         \/ sessions[n.sid].status = "none"
         \/ /\ sessions[n.sid].status # "none"
            /\ n.seq = sessions[n.sid].seq + 1
            /\ sessions[n.sid].lease.exp <= n.nbf,
         NEW t \in issued, t.sid = n.sid
  PROVE  t.seq < n.seq /\ t.exp <= n.nbf
  <1>1. /\ \A r \in Requests : sessions[r] \in SessionRows
        /\ n.sid \in Requests /\ n.seq \in Nat /\ n.nbf \in Nat
    BY TicketFields DEF TypeOK, SessionRows
  <1>3. t.sid \in Requests /\ t.seq \in Nat /\ t.exp \in Nat
    BY TicketFields DEF TypeOK
  <1>4. /\ sessions[n.sid].status # "none"
        /\ n.seq = sessions[n.sid].seq + 1
        /\ sessions[n.sid].lease.exp <= n.nbf
    BY DEF TicketsOfSessions
  <1>5. /\ sessions[n.sid].lease \in Tickets /\ sessions[n.sid].seq \in Nat
    BY <1>1, <1>4, SessionFields
  <1>6. /\ sessions[n.sid].lease.nbf \in Nat /\ sessions[n.sid].lease.exp \in Nat
    BY <1>5, TicketFields
  <1>7. sessions[n.sid].lease \in issued /\ sessions[n.sid].lease.seq = sessions[n.sid].seq
    BY <1>1, <1>4 DEF TicketsOfSessions
  <1>8. sessions[n.sid].lease.nbf < sessions[n.sid].lease.exp
    BY <1>7 DEF TicketsOfSessions
  <1>9. CASE t = sessions[n.sid].lease
    BY <1>1, <1>4, <1>5, <1>7, <1>9
  <1>10. CASE t.seq < sessions[n.sid].seq /\ t.exp <= sessions[n.sid].lease.nbf
    BY <1>1, <1>3, <1>4, <1>5, <1>6, <1>8, <1>10
  <1> QED
    BY <1>9, <1>10 DEF TicketsOfSessions

(* A paid ticket that follows those of its session extends both.            *)
LEMMA PayingStep ==
  ASSUME TypeOK, TicketsOfSessions, LedgerOfTickets, PaidAheadBounded,
         NEW n \in Tickets,
         n.iat <= n.nbf, n.nbf < n.exp, n.exp <= n.iat + TTL + Window,
         \/ sessions[n.sid].status = "none"
         \/ /\ sessions[n.sid].status # "none"
            /\ n.seq = sessions[n.sid].seq + 1
            /\ sessions[n.sid].lease.exp <= n.nbf,
         issued' = issued \cup {n},
         ledger' = IF IsPermanent(n) THEN ledger ELSE ledger \cup {LedgerRow(n)},
         sessions'[n.sid].status = "active",
         sessions'[n.sid].lease = n,
         sessions'[n.sid].seq = n.seq,
         \A q \in Requests \ {n.sid} : Closed(sessions[q], sessions'[q])
  PROVE  TicketsOfSessions' /\ LedgerOfTickets' /\ PaidAheadBounded'
  <1>1. /\ \A t \in issued : t \in Tickets
        /\ \A r \in Requests : sessions[r] \in SessionRows
        /\ n.sid \in Requests /\ n.seq \in Nat /\ n.nbf \in Nat
    BY TicketFields DEF TypeOK, SessionRows
  <1>2. \A q \in Requests \ {n.sid} :
           /\ sessions'[q].lease = sessions[q].lease
           /\ sessions'[q].seq = sessions[q].seq
           /\ sessions'[q].status = "none" <=> sessions[q].status = "none"
    BY <1>1, ClosedFacts
  <1>3. \A t \in issued : t.sid \in Requests /\ t.seq \in Nat /\ t.exp \in Nat
    BY <1>1, TicketFields
  <1>4. \A t \in issued : t.sid = n.sid => t.seq < n.seq /\ t.exp <= n.nbf
    BY LaterTicket
  <1>5. TicketsOfSessions'
    <2>1. ASSUME NEW t \in issued'
          PROVE  /\ t.iat <= t.nbf
                 /\ t.nbf < t.exp
                 /\ sessions'[t.sid].status # "none"
                 /\ \/ t = sessions'[t.sid].lease
                    \/ /\ t.seq < sessions'[t.sid].seq
                       /\ t.exp <= sessions'[t.sid].lease.nbf
      <3>1. CASE t = n
        BY <3>1
      <3>2. CASE t \in issued /\ t.sid = n.sid
        BY <1>4, <3>2 DEF TicketsOfSessions
      <3>3. CASE t \in issued /\ t.sid # n.sid
        BY <1>2, <1>3, <3>3 DEF TicketsOfSessions
      <3> QED
        BY <2>1, <3>1, <3>2, <3>3
    <2>2. ASSUME NEW t \in issued', NEW u \in issued', t.sid = u.sid, t.seq = u.seq
          PROVE  t = u
      BY <1>1, <1>3, <1>4, <2>2 DEF TicketsOfSessions
    <2>3. ASSUME NEW r \in Requests, sessions'[r].status # "none"
          PROVE  /\ sessions'[r].lease \in issued'
                 /\ sessions'[r].lease.sid = r
                 /\ sessions'[r].lease.seq = sessions'[r].seq
      BY <1>2, <2>3 DEF TicketsOfSessions
    <2> QED
      BY <2>1, <2>2, <2>3 DEF TicketsOfSessions
  <1>6. LedgerOfTickets'
    <2>0. /\ LedgerRow(n).sid = n.sid /\ LedgerRow(n).seq = n.seq
          /\ LedgerRow(n).from = n.nbf /\ LedgerRow(n).to = n.exp
          /\ LedgerRow(n).charged = n.exp - n.nbf
      BY DEF LedgerRow
    <2>1. \A w \in ledger : ~(w.sid = n.sid /\ w.seq = n.seq)
      BY <1>1, <1>3, <1>4 DEF LedgerOfTickets
    <2>2. ASSUME NEW w \in ledger'
          PROVE  /\ w.charged = w.to - w.from
                 /\ \E t \in issued' : /\ ~IsPermanent(t)
                                       /\ t.sid = w.sid /\ t.seq = w.seq
                                       /\ t.nbf = w.from /\ t.exp = w.to
      <3>1. CASE w \in ledger
        BY <3>1 DEF LedgerOfTickets
      <3>2. CASE w \notin ledger
        <4>1. ~IsPermanent(n) /\ w = LedgerRow(n)
          BY <2>2, <3>2
        <4> QED
          BY <2>0, <4>1
      <3> QED
        BY <3>1, <3>2
    <2>3. ASSUME NEW t \in issued'
          PROVE  IsPermanent(t) \/ \E w \in ledger' : w.sid = t.sid /\ w.seq = t.seq
      <3>1. CASE t \in issued
        BY <3>1 DEF LedgerOfTickets
      <3>2. CASE t = n
        BY <2>0, <3>2
      <3> QED
        BY <2>3, <3>1, <3>2
    <2>4. ASSUME NEW v \in ledger', NEW w \in ledger', v.sid = w.sid, v.seq = w.seq
          PROVE  v = w
      BY <2>0, <2>1, <2>4 DEF LedgerOfTickets
    <2> QED
      BY <2>2, <2>3, <2>4 DEF LedgerOfTickets
  <1>7. PaidAheadBounded'
    BY DEF PaidAheadBounded
  <1> QED
    BY <1>5, <1>6, <1>7

-----------------------------------------------------------------------------
(* Closing sessions *)

(* New contents of the sessions table that only close sessions, and blame   *)
(* the expiry of a lease only when it has passed.                           *)
Closes(new) ==
    /\ new \in [Requests -> SessionRows]
    /\ \A r \in Requests :
          /\ Closed(sessions[r], new[r])
          /\ new[r].reason = "usage_lease_expired" =>
                new[r].status = "ended" /\ new[r].lease.exp <= clock

(* Doing nothing closes sessions.                                           *)
LEMMA ClosesSame ==
  ASSUME IndInv
  PROVE  Closes(sessions)
  BY DEF IndInv, TypeOK, ClosedSessions, Closes, Closed, SessionRows

(* Ending a session for another reason than expiry.                         *)
LEMMA EndedFacts ==
  ASSUME NEW s \in SessionRows, s.status = "active",
         NEW status \in {"ended", "revoked"}, NEW reason \in Reasons
  PROVE  /\ Closed(s, Ended(s, status, reason))
         /\ Ended(s, status, reason) \in SessionRows
         /\ Ended(s, status, reason).status = status
         /\ Ended(s, status, reason).reason = reason
         /\ Ended(s, status, reason).lease = s.lease
  <1>1. s \in SessionType
    BY SessionFields
  <1>2. Closed(s, Ended(s, status, reason))
    BY DEF Closed
  <1>3. /\ Ended(s, status, reason).status = status
        /\ Ended(s, status, reason).reason = reason
        /\ Ended(s, status, reason).lease = s.lease
    BY <1>1 DEF Ended, SessionType
  <1> QED
    BY <1>2, <1>3, ClosedFacts

(* The administrative operations leave no session active.                   *)
LEMMA ClosesAll ==
  ASSUME IndInv, NEW status \in {"ended", "revoked"},
         NEW reason \in Reasons \ {"usage_lease_expired"}
  PROVE  /\ Closes(AllEnded(status, reason))
         /\ \A r \in Requests : AllEnded(status, reason)[r].status # "active"
  <1>1. \A r \in Requests : sessions[r] \in SessionRows
    BY DEF IndInv, TypeOK, SessionRows
  <1>2. Closes(sessions)
    BY ClosesSame
  <1>3. ASSUME NEW r \in Requests
        PROVE  /\ AllEnded(status, reason)[r] \in SessionRows
               /\ Closed(sessions[r], AllEnded(status, reason)[r])
               /\ AllEnded(status, reason)[r].reason = "usage_lease_expired" =>
                     /\ AllEnded(status, reason)[r].status = "ended"
                     /\ AllEnded(status, reason)[r].lease.exp <= clock
               /\ AllEnded(status, reason)[r].status # "active"
    <2>1. CASE sessions[r].status = "active"
      <3>1. AllEnded(status, reason)[r] = Ended(sessions[r], status, reason)
        BY <2>1 DEF AllEnded
      <3> QED
        BY <1>1, <2>1, <3>1, EndedFacts
    <2>2. CASE sessions[r].status # "active"
      <3>1. AllEnded(status, reason)[r] = sessions[r]
        BY <2>2 DEF AllEnded
      <3> QED
        BY <1>1, <1>2, <2>2, <3>1 DEF Closes
    <2> QED
      BY <2>1, <2>2
  <1>4. AllEnded(status, reason) \in [Requests -> SessionRows]
    BY <1>3 DEF AllEnded
  <1> QED
    BY <1>3, <1>4 DEF Closes

(* expire_stale_sessions closes sessions.                                   *)
LEMMA ClosesStale ==
  ASSUME IndInv, NEW now \in Reads
  PROVE  Closes(Unexpired(now))
  <1>1. \A r \in Requests : sessions[r] \in SessionRows
    BY DEF IndInv, TypeOK, SessionRows
  <1>2. Closes(sessions) /\ clock \in Nat /\ now \in Nat /\ now <= clock
    BY ClosesSame DEF Reads, IndInv, TypeOK
  <1>3. ASSUME NEW r \in Requests
        PROVE  /\ Unexpired(now)[r] \in SessionRows
               /\ Closed(sessions[r], Unexpired(now)[r])
               /\ Unexpired(now)[r].reason = "usage_lease_expired" =>
                     /\ Unexpired(now)[r].status = "ended"
                     /\ Unexpired(now)[r].lease.exp <= clock
    <2>1. CASE sessions[r].status = "active" /\ sessions[r].lease.exp <= now
      <3>1. Unexpired(now)[r] = Ended(sessions[r], "ended", "usage_lease_expired")
        BY <2>1 DEF Unexpired
      <3>2. sessions[r].lease.exp \in Nat
        BY <1>1, <2>1, SessionFields, TicketFields
      <3>3. sessions[r].lease.exp <= clock
        BY <1>2, <2>1, <3>2
      <3> DEFINE s == sessions[r]
                 e == Ended(s, "ended", "usage_lease_expired")
      <3>4. s \in SessionRows /\ s.status = "active"
        BY <1>1, <2>1
      <3> HIDE DEF s
      <3>5. /\ Closed(s, e) /\ e \in SessionRows
            /\ e.status = "ended" /\ e.lease = s.lease
        <4>1. "ended" \in {"ended", "revoked"} /\ "usage_lease_expired" \in Reasons
          BY DEF Reasons
        <4> QED
          BY <3>4, <4>1, EndedFacts
      <3> QED
        BY <3>1, <3>3, <3>5 DEF s
    <2>2. CASE ~(sessions[r].status = "active" /\ sessions[r].lease.exp <= now)
      <3>1. Unexpired(now)[r] = sessions[r]
        BY <2>2 DEF Unexpired
      <3> QED
        BY <1>1, <1>2, <3>1 DEF Closes
    <2> QED
      BY <2>1, <2>2
  <1>4. Unexpired(now) \in [Requests -> SessionRows]
    BY <1>3 DEF Unexpired
  <1> QED
    BY <1>3, <1>4 DEF Closes

(* Ending one session closes sessions.                                      *)
LEMMA ClosesOne ==
  ASSUME IndInv, NEW r \in Requests, sessions[r].status = "active",
         NEW reason \in Reasons \ {"usage_lease_expired"}
  PROVE  /\ Closes([sessions EXCEPT ![r] = Ended(@, "ended", reason)])
         /\ [sessions EXCEPT ![r] = Ended(@, "ended", reason)][r].status = "ended"
  <1> DEFINE new == [sessions EXCEPT ![r] = Ended(@, "ended", reason)]
  <1>1. sessions \in [Requests -> SessionRows]
    BY DEF IndInv, TypeOK, SessionRows
  <1>2. Closes(sessions)
    BY ClosesSame
  <1>3. new[r] = Ended(sessions[r], "ended", reason)
    BY <1>1
  <1>4. \A q \in Requests \ {r} : new[q] = sessions[q]
    BY <1>1
  <1>5. /\ Ended(sessions[r], "ended", reason) \in SessionRows
        /\ Closed(sessions[r], Ended(sessions[r], "ended", reason))
        /\ Ended(sessions[r], "ended", reason).status = "ended"
        /\ Ended(sessions[r], "ended", reason).reason = reason
    BY <1>1, EndedFacts
  <1>6. new \in [Requests -> SessionRows]
    BY <1>1, <1>5
  <1> HIDE DEF new
  <1>7. Closes(new)
    BY <1>2, <1>3, <1>4, <1>5, <1>6 DEF Closes
  <1> QED
    BY <1>3, <1>5, <1>7 DEF new

(* A step that charges nothing and closes sessions, if anything.            *)
Closing ==
    /\ Closes(sessions')
    /\ UNCHANGED <<issued, ledger>>
    /\ clock' \in Nat /\ clock <= clock'
    /\ ent' \in EntitlementType
    /\ bound' \subseteq Pairs
    /\ commands' \in [Requests -> [pair : Pairs, rv : Nat] \cup {None}]
    /\ challenges' \in [Requests -> ChallengeType \cup {None}]
    /\ cancelled \subseteq cancelled' /\ cancelled' \subseteq Requests
    /\ stopping' \subseteq issued
    /\ \A r \in cancelled' : sessions'[r].status # "active"
    /\ ent' = ent \/ \A r \in Requests : sessions'[r].status # "active"
    /\ ent'.remaining = ent.remaining \/ ent.remaining = 0

(* The invariant after a step that only closes sessions.                    *)
LEMMA ClosingInv ==
  ASSUME IndInv, Closing
  PROVE  IndInv'
  <1>1. TicketsOfSessions' /\ LedgerOfTickets' /\ PaidAheadBounded'
    BY ClosingStep DEF IndInv, Closes, Closing
  <1>2. TypeOK'
    BY DEF IndInv, TypeOK, Closes, SessionRows, Closing
  <1>3. \A r \in Requests : sessions'[r].status = "active" => sessions'[r] = sessions[r]
    BY ClosedFacts DEF Closing, Closes, IndInv, TypeOK, SessionRows
  <1>4. ClosedSessions'
    <2>1. ASSUME NEW r \in Requests,
                 sessions'[r].reason = "usage_lease_expired"
          PROVE  /\ sessions'[r].status = "ended"
                 /\ sessions'[r].lease.exp <= clock'
      <3>1. sessions'[r].status = "ended" /\ sessions'[r].lease.exp <= clock
        BY <2>1 DEF Closing, Closes
      <3>2. sessions'[r].lease.exp \in Nat /\ clock \in Nat
        BY <3>1, SessionFields, TicketFields DEF Closing, Closes, IndInv, TypeOK
      <3> QED
        BY <3>1, <3>2 DEF Closing
    <2>2. ASSUME NEW r \in Requests, ent'.status = "revoked"
          PROVE  sessions'[r].status # "active"
      BY <1>3, <2>2 DEF Closing, IndInv, ClosedSessions
    <2> QED
      BY <2>1, <2>2 DEF ClosedSessions, Closing
  <1>5. ActiveSessionIsCurrent'
    <2> SUFFICES ASSUME NEW r \in Requests, sessions'[r].status = "active"
                 PROVE  /\ sessions'[r].pair = ent'.pair
                        /\ Reissue(sessions[r])' = sessions'[r].lease
      BY DEF ActiveSessionIsCurrent
    <2>1. sessions'[r] = sessions[r] /\ ent' = ent
      BY <1>3 DEF Closing
    <2>2. sessions[r].pair = ent.pair /\ Reissue(sessions[r]) = sessions[r].lease
      BY <2>1 DEF IndInv, ActiveSessionIsCurrent
    <2> QED
      BY <2>1, <2>2 DEF Reissue
  <1> QED
    BY <1>1, <1>2, <1>4, <1>5 DEF IndInv

-----------------------------------------------------------------------------
(* Paying *)

(* What a lease costs can be paid, and it lasts as long as it costs.        *)
LEMMA ChargeFacts ==
  ASSUME TypeOK, Usable
  PROVE  /\ Charged \in Nat /\ ent.remaining - Charged \in Nat
         /\ Duration \in Nat /\ 1 <= Duration /\ Duration <= TTL
         /\ IsPermanent(ent) => Charged = 0
         /\ ~IsPermanent(ent) => Charged = Duration
  <1>1. ent.remaining \in Nat
    BY DEF TypeOK, EntitlementType
  <1>2. TTL \in Nat /\ 1 <= TTL
    BY SettingsAssumption
  <1>3. CASE IsPermanent(ent)
    BY <1>1, <1>2, <1>3 DEF Charged, Duration
  <1>4. CASE ~IsPermanent(ent)
    <2>1. ent.remaining > 0
      BY <1>4 DEF Usable
    <2> QED
      BY <1>1, <1>2, <1>4, <2>1 DEF Charged, Duration
  <1> QED
    BY <1>3, <1>4

(* A debit keeps the entitlement an entitlement of the same pair, version   *)
(* and kind.                                                                *)
LEMMA DebitFacts ==
  ASSUME TypeOK, Usable, ~IsPermanent(ent)
  PROVE  /\ Debited(Charged) \in EntitlementType
         /\ Debited(Charged).rv = ent.rv /\ Debited(Charged).pair = ent.pair
         /\ Debited(Charged).kind = ent.kind
         /\ Debited(Charged).remaining = ent.remaining - Charged
  <1>1. /\ Charged \in Nat /\ ent.remaining - Charged \in Nat
        /\ ent.consumed + Charged \in Nat
    BY ChargeFacts DEF TypeOK, EntitlementType
  <1>2. ent \in EntitlementType
    BY DEF TypeOK
  <1>3. ent.status \in {"active", "exhausted", "revoked"}
    BY <1>2 DEF EntitlementType
  <1> DEFINE status == IF ent.remaining = Charged THEN "exhausted" ELSE ent.status
             left   == ent.remaining - Charged
             used   == ent.consumed + Charged
  <1>4. status \in {"active", "exhausted", "revoked"}
    BY <1>3
  <1>5. Debited(Charged) = [ent EXCEPT !.remaining = left, !.consumed = used,
                                       !.status = status]
    BY DEF Debited
  <1>6. left \in Nat /\ used \in Nat
    BY <1>1
  <1> HIDE DEF status, left, used
  <1> DEFINE e == Debited(Charged)
  <1> HIDE DEF e
  <1>7. e = [ent EXCEPT !.remaining = left, !.consumed = used, !.status = status]
    BY <1>5 DEF e
  <1>8. /\ e \in EntitlementType
        /\ e.rv = ent.rv /\ e.pair = ent.pair /\ e.kind = ent.kind
        /\ e.remaining = left
    BY <1>2, <1>4, <1>6, <1>7 DEF EntitlementType
  <1> QED
    BY <1>8 DEF left, e

(* A step that pays for the ticket n.                                       *)
Paying(n) ==
    /\ n \in Tickets
    /\ n.iat <= n.nbf /\ n.nbf < n.exp /\ n.exp <= n.iat + TTL + Window
    /\ n.exp - n.nbf = Duration
    /\ n.rv = ent.rv /\ n.pair = ent.pair /\ n.kind = ent.kind
    /\ n.sid \notin cancelled
    /\ \/ sessions[n.sid].status = "none"
       \/ /\ sessions[n.sid].status # "none"
          /\ n.seq = sessions[n.sid].seq + 1
          /\ sessions[n.sid].lease.exp <= n.nbf
    /\ Usable
    /\ Pay(n)
    /\ sessions' \in [Requests -> SessionRows]
    /\ sessions'[n.sid].status = "active"
    /\ sessions'[n.sid].lease = n
    /\ sessions'[n.sid].seq = n.seq
    /\ sessions'[n.sid].pair = n.pair
    /\ sessions'[n.sid].reason # "usage_lease_expired"
    /\ \A q \in Requests \ {n.sid} :
          /\ Closed(sessions[q], sessions'[q])
          /\ sessions'[q].reason = "usage_lease_expired" =>
                sessions'[q].status = "ended" /\ sessions'[q].lease.exp <= clock
    /\ challenges' \in [Requests -> ChallengeType \cup {None}]
    /\ UNCHANGED <<clock, bound, commands, cancelled, stopping>>

(* What paying does to the entitlement.                                     *)
LEMMA PayingEntitlement ==
  ASSUME TypeOK, NEW n, Paying(n)
  PROVE  /\ ent' \in EntitlementType
         /\ ent'.rv = ent.rv /\ ent'.pair = ent.pair /\ ent'.kind = ent.kind
         /\ ent'.status # "revoked"
  <1>1. Usable /\ Pay(n) /\ ent \in EntitlementType
    BY DEF Paying, TypeOK
  <1>2. CASE IsPermanent(ent)
    <2>1. ent' = ent
      BY <1>1, <1>2 DEF Pay
    <2> QED
      BY <1>1, <2>1 DEF Usable
  <1>3. CASE ~IsPermanent(ent)
    <2>1. ent' = Debited(Charged)
      BY <1>1, <1>3 DEF Pay
    <2>2. Debited(Charged).status # "revoked"
      BY <1>1 DEF Debited, Usable, EntitlementType
    <2> QED
      BY <1>1, <1>3, <2>1, <2>2, DebitFacts
  <1> QED
    BY <1>2, <1>3

(* The invariant after a paid step.                                         *)
LEMMA PayingInv ==
  ASSUME IndInv, NEW n, Paying(n)
  PROVE  IndInv'
  <1>1. TypeOK /\ n \in Tickets /\ n.sid \in Requests
    BY TicketFields DEF IndInv, Paying
  <1>2. /\ ent' \in EntitlementType
        /\ ent'.rv = ent.rv /\ ent'.pair = ent.pair /\ ent'.kind = ent.kind
        /\ ent'.status # "revoked"
    BY <1>1, PayingEntitlement
  <1>3. /\ issued' = issued \cup {n}
        /\ ledger' = IF IsPermanent(n) THEN ledger ELSE ledger \cup {LedgerRow(n)}
    BY DEF Paying, Pay, IsPermanent
  <1>4. TicketsOfSessions' /\ LedgerOfTickets' /\ PaidAheadBounded'
    BY <1>3, PayingStep DEF IndInv, Paying
  <1>5. TypeOK'
    <2>1. /\ n.exp - n.nbf \in Nat /\ ent.remaining \in Nat /\ n.nbf \in Nat
          /\ n.exp \in Nat /\ n.remaining \in Nat /\ n.rv \in Nat /\ n.seq \in Nat
      BY <1>1, TicketFields, ChargeFacts DEF Paying, TypeOK, EntitlementType
    <2>2. LedgerRow(n) \in [sid : Requests, seq : Nat, from : Nat, to : Nat,
                            charged : Nat, before : Nat, after : Nat, rv : Nat]
      BY <1>1, <2>1 DEF LedgerRow
    <2>3. ledger' \subseteq [sid : Requests, seq : Nat, from : Nat, to : Nat,
                             charged : Nat, before : Nat, after : Nat, rv : Nat]
      BY <1>1, <1>3, <2>2 DEF TypeOK
    <2>4. issued' \subseteq Tickets /\ stopping' \subseteq issued'
      BY <1>1, <1>3 DEF TypeOK, Paying
    <2> QED
      BY <1>1, <1>2, <2>3, <2>4 DEF TypeOK, Paying, SessionRows
  <1>6. \A q \in Requests \ {n.sid} :
           sessions'[q].status = "active" => sessions'[q] = sessions[q]
    BY <1>1, ClosedFacts DEF Paying, TypeOK, SessionRows
  <1>7. ClosedSessions'
    <2> SUFFICES ASSUME NEW r \in Requests
                 PROVE  /\ r \in cancelled => sessions'[r].status # "active"
                        /\ sessions'[r].reason = "usage_lease_expired" =>
                              /\ sessions'[r].status = "ended"
                              /\ sessions'[r].lease.exp <= clock
      BY <1>2 DEF ClosedSessions, Paying
    <2>1. CASE r = n.sid
      BY <2>1 DEF Paying
    <2>2. CASE r # n.sid
      BY <1>6, <2>2 DEF Paying, IndInv, ClosedSessions
    <2> QED
      BY <2>1, <2>2
  <1>8. ActiveSessionIsCurrent'
    <2> SUFFICES ASSUME NEW r \in Requests, sessions'[r].status = "active"
                 PROVE  /\ sessions'[r].pair = ent'.pair
                        /\ Reissue(sessions[r])' = sessions'[r].lease
      BY DEF ActiveSessionIsCurrent
    <2>1. CASE r = n.sid
      <3>1. sessions'[r].lease = n /\ sessions'[r].pair = n.pair
        BY <2>1 DEF Paying
      <3>2. ent'.rv = n.rv /\ ent'.pair = n.pair /\ ent'.kind = n.kind
        BY <1>2 DEF Paying
      <3>3. Reissue(sessions[r])' = [n EXCEPT !.rv = n.rv, !.pair = n.pair,
                                              !.kind = n.kind]
        BY <3>1, <3>2 DEF Reissue
      <3>4. [n EXCEPT !.rv = n.rv, !.pair = n.pair, !.kind = n.kind] = n
        BY <1>1 DEF Tickets
      <3> QED
        BY <3>1, <3>2, <3>3, <3>4
    <2>2. CASE r # n.sid
      <3>1. sessions'[r] = sessions[r]
        BY <1>6, <2>2
      <3>2. sessions[r].pair = ent.pair /\ Reissue(sessions[r]) = sessions[r].lease
        BY <3>1 DEF IndInv, ActiveSessionIsCurrent
      <3> QED
        BY <1>2, <3>1, <3>2 DEF Reissue
    <2> QED
      BY <2>1, <2>2
  <1> QED
    BY <1>4, <1>5, <1>7, <1>8 DEF IndInv

(* A step by which a session that waits for nothing pays: the shape of      *)
(* start_usage.                                                             *)
LEMMA StartPays ==
  ASSUME IndInv, NEW r \in Requests, NEW now \in Reads, StartUsage(r, now)
  PROVE  Paying(Ticket(r, 0, now, now, Duration, ent.remaining - Charged))
  <1> DEFINE n    == Ticket(r, 0, now, now, Duration, ent.remaining - Charged)
             live == Unexpired(now)
             row  == [status |-> "active", reason |-> "", pair |-> commands[r].pair,
                      seq |-> 0, lease |-> n, previous |-> None,
                      heartbeat |-> None, consumed |-> Charged]
  <1>1. /\ commands[r] # None /\ r \notin cancelled /\ commands[r].pair = ent.pair
        /\ live[r].status = "none" /\ Usable /\ Pay(n)
        /\ sessions' = [live EXCEPT ![r] = row]
        /\ UNCHANGED <<clock, bound, commands, cancelled, stopping>>
    BY DEF StartUsage, Binding
  <1>2. /\ TypeOK /\ now \in Nat /\ TTL \in Nat /\ Window \in Nat
    BY SettingsAssumption DEF IndInv, Reads
  <1>3. commands[r] \in [pair : Pairs, rv : Nat]
    BY <1>1, <1>2 DEF TypeOK
  <1>4. ent.pair \in Pairs
    BY <1>1, <1>3
  <1>5. /\ Charged \in Nat /\ ent.remaining - Charged \in Nat
        /\ Duration \in Nat /\ 1 <= Duration /\ Duration <= TTL
    BY <1>1, <1>2, ChargeFacts
  <1>6. /\ n \in Tickets
        /\ n.sid = r /\ n.seq = 0 /\ n.iat = now /\ n.nbf = now
        /\ n.exp = now + Duration
        /\ n.rv = ent.rv /\ n.pair = ent.pair /\ n.kind = ent.kind
    <2>1. /\ ent.rv \in Nat /\ ent.kind \in Kinds /\ now + Duration \in Nat
      BY <1>2, <1>5 DEF TypeOK, EntitlementType
    <2>2. n \in Tickets
      BY <1>2, <1>4, <1>5, <2>1 DEF Ticket, Tickets
    <2> QED
      BY <2>2 DEF Ticket
  <1> HIDE DEF n
  <1>7. /\ n.iat <= n.nbf /\ n.nbf < n.exp /\ n.exp <= n.iat + TTL + Window
        /\ n.exp - n.nbf = Duration
    BY <1>2, <1>5, <1>6
  <1>8. Closes(live)
    BY ClosesStale
  <1> HIDE DEF live
  <1>9. sessions[r].status = "none"
    <2>1. Closed(sessions[r], live[r]) /\ sessions[r] \in SessionRows
      BY <1>2, <1>8 DEF Closes, TypeOK, SessionRows
    <2> QED
      BY <1>1, <2>1, ClosedFacts
  <1>10. row \in SessionType
    BY <1>1, <1>4, <1>5, <1>6 DEF SessionType, Reasons
  <1>11. /\ row.status = "active" /\ row.lease = n /\ row.seq = 0
         /\ row.pair = ent.pair /\ row.reason = ""
    BY <1>1
  <1> HIDE DEF row
  <1>12. /\ sessions' \in [Requests -> SessionRows]
         /\ sessions'[r] = row
         /\ \A q \in Requests \ {r} : sessions'[q] = live[q]
    BY <1>1, <1>8, <1>10 DEF Closes, SessionRows
  <1>13. challenges' \in [Requests -> ChallengeType \cup {None}]
    <2>1. PICK q \in Requests : /\ challenges[q] # None
                               /\ challenges' = [challenges EXCEPT ![q].status = "consumed"]
      BY DEF StartUsage, VerifyStartChallenge
    <2>2. challenges[q] \in ChallengeType
      BY <1>2, <2>1 DEF TypeOK
    <2>3. [challenges[q] EXCEPT !.status = "consumed"] \in ChallengeType
      BY <2>2 DEF ChallengeType
    <2> QED
      BY <1>2, <2>1, <2>3 DEF TypeOK
  <1>14. \A q \in Requests \ {r} :
            /\ Closed(sessions[q], sessions'[q])
            /\ sessions'[q].reason = "usage_lease_expired" =>
                  sessions'[q].status = "ended" /\ sessions'[q].lease.exp <= clock
    BY <1>8, <1>12 DEF Closes
  <1>15. Paying(n)
    BY <1>1, <1>6, <1>7, <1>9, <1>11, <1>12, <1>13, <1>14 DEF Paying
  <1> QED
    BY <1>15 DEF n

(* A heartbeat that renews pays for the lease behind the current one.       *)
LEMMA RenewPays ==
  ASSUME IndInv, NEW ticket \in issued, NEW now \in Reads, NEW id \in HbIds,
         HeartbeatRenew(ticket.sid, ticket, id, now)
  PROVE  /\ \E n : Paying(n) /\ n.sid = ticket.sid
         /\ sessions[ticket.sid].status = "active"
  <1> DEFINE r == ticket.sid
             notBefore == IF now < ticket.exp THEN ticket.exp ELSE now
             n == Ticket(r, ticket.seq + 1, now, notBefore, Duration,
                         ent.remaining - Charged)
  <1>1. /\ Usable /\ Pay(n)
        /\ sessions[r].status = "active" /\ sessions[r].lease = ticket
        /\ sessions[r].pair = ent.pair
        /\ ticket.exp <= now + Window
        /\ sessions' = [sessions EXCEPT
              ![r].seq = n.seq, ![r].lease = n, ![r].previous = ticket,
              ![r].heartbeat = id, ![r].consumed = @ + Charged]
        /\ UNCHANGED <<clock, bound, commands, challenges, cancelled, stopping>>
    BY DEF HeartbeatRenew, RenewalOpen, HeartbeatVerified
  <1>2. /\ TypeOK /\ now \in Nat /\ TTL \in Nat /\ Window \in Nat
    BY SettingsAssumption DEF IndInv, Reads
  <1>3. ticket \in Tickets /\ r \in Requests /\ ticket.seq \in Nat /\ ticket.exp \in Nat
    BY <1>2, TicketFields DEF TypeOK
  <1>4. sessions[r] \in SessionType /\ sessions[r].pair \in Pairs /\ ent.pair \in Pairs
    BY <1>1, <1>2, <1>3, SessionFields DEF TypeOK, SessionRows
  <1>5. /\ Charged \in Nat /\ ent.remaining - Charged \in Nat
        /\ Duration \in Nat /\ 1 <= Duration /\ Duration <= TTL
    BY <1>1, <1>2, ChargeFacts
  <1>6. notBefore \in Nat /\ now <= notBefore /\ ticket.exp <= notBefore
        /\ notBefore <= now + Window /\ ticket.seq + 1 \in Nat
    BY <1>1, <1>2, <1>3
  <1> HIDE DEF notBefore, r
  <1>7. /\ n \in Tickets
        /\ n.sid = r /\ n.seq = ticket.seq + 1 /\ n.iat = now /\ n.nbf = notBefore
        /\ n.exp = notBefore + Duration
        /\ n.rv = ent.rv /\ n.pair = ent.pair /\ n.kind = ent.kind
    <2>1. /\ ent.rv \in Nat /\ ent.kind \in Kinds /\ notBefore + Duration \in Nat
          /\ r \in Requests
      BY <1>2, <1>3, <1>5, <1>6 DEF TypeOK, EntitlementType
    <2>2. n \in Tickets
      BY <1>2, <1>4, <1>5, <1>6, <2>1 DEF Ticket, Tickets
    <2> QED
      BY <2>2 DEF Ticket
  <1> HIDE DEF n
  <1>8. /\ n.iat <= n.nbf /\ n.nbf < n.exp /\ n.exp <= n.iat + TTL + Window
        /\ n.exp - n.nbf = Duration
    BY <1>2, <1>5, <1>6, <1>7
  <1>9. /\ n.seq = sessions[r].seq + 1 /\ sessions[r].lease.exp <= n.nbf
        /\ r \notin cancelled /\ sessions[r].reason # "usage_lease_expired"
    BY <1>1, <1>3, <1>6, <1>7 DEF IndInv, TicketsOfSessions, ClosedSessions
  <1>10. /\ sessions'[r] = [sessions[r] EXCEPT !.seq = n.seq, !.lease = n,
                               !.previous = ticket, !.heartbeat = id,
                               !.consumed = sessions[r].consumed + Charged]
         /\ \A q \in Requests \ {r} : sessions'[q] = sessions[q]
         /\ DOMAIN sessions' = Requests
    BY <1>1, <1>2, <1>3 DEF TypeOK
  <1>11. sessions[r].consumed + Charged \in Nat /\ n.seq \in Nat
    BY <1>3, <1>4, <1>5, <1>7 DEF SessionType
  <1>12. /\ sessions'[r] \in SessionType
         /\ sessions'[r].status = "active" /\ sessions'[r].lease = n
         /\ sessions'[r].seq = n.seq /\ sessions'[r].pair = n.pair
         /\ sessions'[r].reason = sessions[r].reason
    BY <1>1, <1>3, <1>4, <1>7, <1>10, <1>11 DEF SessionType
  <1>13. /\ sessions' \in [Requests -> SessionRows]
         /\ challenges' \in [Requests -> ChallengeType \cup {None}]
    BY <1>1, <1>2, <1>10, <1>12 DEF TypeOK, SessionRows
  <1>14. \A q \in Requests \ {r} :
            /\ Closed(sessions[q], sessions'[q])
            /\ sessions'[q].reason = "usage_lease_expired" =>
                  sessions'[q].status = "ended" /\ sessions'[q].lease.exp <= clock
    BY <1>10 DEF Closed, IndInv, ClosedSessions
  <1>15. Paying(n)
    <2>1. /\ Usable /\ Pay(n) /\ sessions[r].status # "none"
          /\ UNCHANGED <<clock, bound, commands, cancelled, stopping>>
      BY <1>1
    <2> HIDE DEF r
    <2>2. /\ n.sid \notin cancelled /\ sessions[n.sid].status # "none"
          /\ n.seq = sessions[n.sid].seq + 1 /\ sessions[n.sid].lease.exp <= n.nbf
      BY <1>7, <1>9, <2>1
    <2>3. /\ sessions'[n.sid].status = "active" /\ sessions'[n.sid].lease = n
          /\ sessions'[n.sid].seq = n.seq /\ sessions'[n.sid].pair = n.pair
          /\ sessions'[n.sid].reason # "usage_lease_expired"
      BY <1>7, <1>9, <1>12
    <2>4. \A q \in Requests \ {n.sid} :
             /\ Closed(sessions[q], sessions'[q])
             /\ sessions'[q].reason = "usage_lease_expired" =>
                   sessions'[q].status = "ended" /\ sessions'[q].lease.exp <= clock
      BY <1>7, <1>14
    <2> QED
      BY <1>7, <1>8, <1>13, <2>1, <2>2, <2>3, <2>4 DEF Paying
  <1> QED
    BY <1>1, <1>7, <1>15 DEF r

-----------------------------------------------------------------------------
(* The steps *)

(* Expiring open challenges leaves a table of challenges.                   *)
LEMMA ExpiredChallenges ==
  ASSUME TypeOK
  PROVE  AllChallengesExpired \in [Requests -> ChallengeType \cup {None}]
  <1>1. ASSUME NEW r \in Requests, challenges[r] # None
        PROVE  [challenges[r] EXCEPT !.status = "expired"] \in ChallengeType
    BY <1>1 DEF TypeOK, ChallengeType
  <1> QED
    BY <1>1 DEF AllChallengesExpired, ChallengesExpired, TypeOK

(* A step that changes neither the sessions nor what is paid is a Closing.  *)
LEMMA QuietStep ==
  ASSUME IndInv, UNCHANGED <<ent, bound, sessions, cancelled, ledger, issued>>,
         clock' \in Nat, clock <= clock',
         commands' \in [Requests -> [pair : Pairs, rv : Nat] \cup {None}],
         challenges' \in [Requests -> ChallengeType \cup {None}],
         stopping' \subseteq issued
  PROVE  Closing
  <1>1. Closes(sessions')
    BY ClosesSame DEF Closes
  <1> QED
    BY <1>1 DEF Closing, IndInv, TypeOK, ClosedSessions

(* A step of one handler that ends sessions, and nothing more, is a Closing.*)
LEMMA EndingStep ==
  ASSUME IndInv, Closes(sessions'),
         UNCHANGED <<clock, ent, bound, commands, challenges, ledger, issued>>,
         cancelled \subseteq cancelled', cancelled' \subseteq Requests,
         \A r \in cancelled' \ cancelled : sessions'[r].status # "active",
         stopping' \subseteq issued
  PROVE  Closing
  <1>1. ASSUME NEW r \in cancelled
        PROVE  sessions'[r].status # "active"
    <2>1. r \in Requests /\ sessions[r].status # "active"
      BY DEF IndInv, TypeOK, ClosedSessions
    <2>2. sessions[r] \in SessionRows /\ Closed(sessions[r], sessions'[r])
      BY <2>1 DEF IndInv, TypeOK, SessionRows, Closes
    <2> QED
      BY <2>1, <2>2, ClosedFacts
  <1>2. clock \in Nat /\ clock <= clock'
    BY DEF IndInv, TypeOK
  <1> QED
    BY <1>1, <1>2 DEF Closing, IndInv, TypeOK

(* A step of the administration leaves no session active and is a Closing.  *)
LEMMA AdminStep ==
  ASSUME IndInv, Closes(sessions'),
         \A r \in Requests : sessions'[r].status # "active",
         ent' \in EntitlementType,
         ent'.remaining = ent.remaining \/ ent.remaining = 0,
         bound' \subseteq Pairs,
         challenges' \in [Requests -> ChallengeType \cup {None}],
         UNCHANGED <<clock, commands, cancelled, ledger, issued, stopping>>
  PROVE  Closing
  <1>1. clock \in Nat /\ clock <= clock'
    BY DEF IndInv, TypeOK
  <1> QED
    BY <1>1 DEF Closing, IndInv, TypeOK

(* A repeated answer repeats a ticket.                                      *)
LEMMA AnswerIssued ==
  ASSUME IndInv, NEW r \in Requests, NEW s, Closed(sessions[r], s)
  PROVE  Answer(s) \subseteq issued
  <1>1. CASE s.status = "active"
    <2>1. sessions[r] \in SessionRows
      BY DEF IndInv, TypeOK, SessionRows
    <2>2. s = sessions[r]
      BY <1>1, <2>1, ClosedFacts
    <2>3. Reissue(s) = sessions[r].lease /\ sessions[r].lease \in issued
      BY <1>1, <2>2 DEF IndInv, ActiveSessionIsCurrent, TicketsOfSessions
    <2> QED
      BY <2>3 DEF Answer
  <1>2. CASE s.status # "active"
    BY <1>2 DEF Answer
  <1> QED
    BY <1>1, <1>2

(* Every step of the client's start requests closes sessions or pays.       *)
LEMMA ClientSteps ==
  ASSUME IndInv, NEW r \in Requests,
         \/ Prepare(r) \/ CancelStartUsage(r)
         \/ \E now \in Reads : \/ CreateStartChallenge(r, now)
                               \/ StartReplay(r, now)
                               \/ EntitlementStatus(now)
  PROVE  Closing
  <1>0. /\ TypeOK /\ clock \in Nat /\ clock <= clock /\ stopping \subseteq issued
        /\ commands \in [Requests -> [pair : Pairs, rv : Nat] \cup {None}]
        /\ challenges \in [Requests -> ChallengeType \cup {None}]
        /\ ent.rv \in Nat /\ ent.pair \in Pairs \cup {None}
        /\ cancelled \subseteq Requests
    BY DEF IndInv, TypeOK, EntitlementType
  <1>1. CASE Prepare(r)
    <2>1. [pair |-> ent.pair, rv |-> ent.rv] \in [pair : Pairs, rv : Nat]
      BY <1>0, <1>1 DEF Prepare
    <2>2. commands' \in [Requests -> [pair : Pairs, rv : Nat] \cup {None}]
      BY <1>0, <1>1, <2>1 DEF Prepare
    <2> QED
      BY <1>0, <1>1, <2>2, QuietStep DEF Prepare
  <1>2. CASE CancelStartUsage(r)
    <2>1. CASE sessions[r].status = "active"
      <3>1. "client_start_cancelled" \in Reasons \ {"usage_lease_expired"}
        BY DEF Reasons
      <3>2. sessions' = [sessions EXCEPT ![r] =
                            Ended(@, "ended", "client_start_cancelled")]
        BY <1>2, <2>1 DEF CancelStartUsage
      <3>3. Closes(sessions') /\ sessions'[r].status = "ended"
        BY <2>1, <3>1, <3>2, ClosesOne DEF Closes
      <3> QED
        BY <1>0, <1>2, <3>3, EndingStep DEF CancelStartUsage
    <2>2. CASE sessions[r].status # "active"
      <3>1. sessions' = sessions
        BY <1>2, <2>2 DEF CancelStartUsage
      <3>2. Closes(sessions')
        BY <3>1, ClosesSame DEF Closes
      <3> QED
        BY <1>0, <1>2, <2>2, <3>1, <3>2, EndingStep DEF CancelStartUsage
    <2> QED
      BY <2>1, <2>2
  <1>3. ASSUME NEW now \in Reads, CreateStartChallenge(r, now)
        PROVE  Closing
    <2> DEFINE stale == {q \in Requests : challenges[q] # None
                                           /\ challenges[q].exp <= now}
               open  == ChallengesExpired(stale)
    <2>1. ASSUME NEW q \in Requests, challenges[q] # None
          PROVE  [challenges[q] EXCEPT !.status = "expired"] \in ChallengeType
      BY <1>0, <2>1 DEF ChallengeType
    <2>2. open \in [Requests -> ChallengeType \cup {None}]
      BY <1>0, <2>1 DEF ChallengesExpired
    <2>3. \/ challenges' = open
          \/ challenges' = [open EXCEPT ![r] =
                [status |-> "issued", exp |-> now + ChallengeTTL,
                 pair |-> commands[r].pair]]
      BY <1>3 DEF CreateStartChallenge
    <2>4. /\ commands[r] \in [pair : Pairs, rv : Nat] /\ now \in Nat
          /\ ChallengeTTL \in Nat
      BY <1>0, <1>3, SettingsAssumption DEF CreateStartChallenge, Reads
    <2>5. [status |-> "issued", exp |-> now + ChallengeTTL,
           pair |-> commands[r].pair] \in ChallengeType
      BY <2>4 DEF ChallengeType
    <2> HIDE DEF open
    <2>6. challenges' \in [Requests -> ChallengeType \cup {None}]
      BY <2>2, <2>3, <2>5
    <2> QED
      BY <1>0, <1>3, <2>6, QuietStep DEF CreateStartChallenge
  <1>4. ASSUME NEW now \in Reads, StartReplay(r, now)
        PROVE  Closing
    <2>1. Closes(sessions') /\ sessions' = Unexpired(now)
      BY <1>4, ClosesStale DEF StartReplay, Closes
    <2>2. Answer(Unexpired(now)[r]) \subseteq issued
      BY <2>1, AnswerIssued DEF Closes
    <2>3. issued' = issued
      BY <1>4, <2>2 DEF StartReplay
    <2> QED
      BY <1>0, <1>4, <2>1, <2>3, EndingStep DEF StartReplay
  <1>5. ASSUME NEW now \in Reads, EntitlementStatus(now)
        PROVE  Closing
    <2>1. Closes(sessions')
      BY <1>5, ClosesStale DEF EntitlementStatus, Closes
    <2> QED
      BY <1>0, <1>5, <2>1, EndingStep DEF EntitlementStatus
  <1> QED
    BY <1>1, <1>2, <1>3, <1>4, <1>5

(* Every step of a lease that does not renew it closes sessions.            *)
LEMMA LeaseSteps ==
  ASSUME IndInv, NEW ticket \in issued,
         \/ StopUsage(ticket)
         \/ \E now \in Reads :
               \/ StopVerified(ticket, now)
               \/ HeartbeatEnds(ticket.sid, ticket, now)
               \/ \E id \in HbIds : HeartbeatReplay(ticket.sid, ticket, id, now)
  PROVE  Closing
  <1> DEFINE r == ticket.sid
  <1>0. /\ TypeOK /\ clock \in Nat /\ clock <= clock /\ stopping \subseteq issued
        /\ commands \in [Requests -> [pair : Pairs, rv : Nat] \cup {None}]
        /\ challenges \in [Requests -> ChallengeType \cup {None}]
        /\ cancelled \subseteq Requests /\ r \in Requests
    BY TicketFields DEF IndInv, TypeOK
  <1>1. ASSUME sessions[r].status = "active",
               NEW reason \in Reasons \ {"usage_lease_expired"},
               sessions' = [sessions EXCEPT ![r] = Ended(@, "ended", reason)]
        PROVE  Closes(sessions')
    BY <1>0, <1>1, ClosesOne DEF Closes
  <1>2. {"user_stopped", "usage_progress_not_confirmed", "balance_exhausted"}
           \subseteq Reasons \ {"usage_lease_expired"}
    BY DEF Reasons
  <1>3. CASE StopUsage(ticket)
    <2>1. CASE sessions' = sessions
      <3>1. Closes(sessions')
        BY <2>1, ClosesSame DEF Closes
      <3> QED
        BY <1>0, <1>3, <3>1, EndingStep DEF StopUsage
    <2>2. CASE sessions' # sessions
      <3>1. /\ sessions[r].status = "active"
            /\ sessions' = [sessions EXCEPT ![r] = Ended(@, "ended", "user_stopped")]
        BY <1>3, <2>2 DEF StopUsage
      <3>2. Closes(sessions')
        BY <1>1, <1>2, <3>1
      <3> QED
        BY <1>0, <1>3, <3>2, EndingStep DEF StopUsage
    <2> QED
      BY <2>1, <2>2
  <1>4. ASSUME NEW now \in Reads, StopVerified(ticket, now)
        PROVE  Closing
    BY <1>0, <1>4, QuietStep DEF StopVerified
  <1>5. ASSUME NEW now \in Reads, HeartbeatEnds(r, ticket, now)
        PROVE  Closing
    <2>1. /\ sessions[r].status = "active"
          /\ \/ sessions' = [sessions EXCEPT ![r] =
                   Ended(@, "ended", "usage_progress_not_confirmed")]
             \/ sessions' = [sessions EXCEPT ![r] =
                   Ended(@, "ended", "balance_exhausted")]
      BY <1>5 DEF HeartbeatEnds, RenewalOpen
    <2>2. Closes(sessions')
      BY <1>1, <1>2, <2>1
    <2> QED
      BY <1>0, <1>5, <2>2, EndingStep DEF HeartbeatEnds
  <1>6. ASSUME NEW now \in Reads, NEW id \in HbIds,
               HeartbeatReplay(r, ticket, id, now)
        PROVE  Closing
    <2>1. Closed(sessions[r], sessions[r])
      BY DEF Closed
    <2>2. Answer(sessions[r]) \subseteq issued
      BY <1>0, <2>1, AnswerIssued
    <2>3. issued' = issued
      BY <1>6, <2>2 DEF HeartbeatReplay
    <2> QED
      BY <1>0, <1>6, <2>3, QuietStep DEF HeartbeatReplay
  <1> QED
    BY <1>3, <1>4, <1>5, <1>6

(* Whoever changes the binding, the version or the card leaves no session   *)
(* active.                                                                  *)
LEMMA AdminSteps ==
  ASSUME IndInv, AdminNext
  PROVE  Closing
  <1>0. /\ TypeOK /\ ent \in EntitlementType /\ ent.rv \in Nat
        /\ ent.rv + 1 \in Nat /\ bound \subseteq Pairs
        /\ challenges \in [Requests -> ChallengeType \cup {None}]
        /\ AllChallengesExpired \in [Requests -> ChallengeType \cup {None}]
    BY ExpiredChallenges DEF IndInv, TypeOK, EntitlementType
  <1>1. /\ {"entitlement_revoked", "admin_device_unbound", "device_rebound"}
              \subseteq Reasons \ {"usage_lease_expired"}
    BY DEF Reasons
  <1>2. ASSUME NEW status \in {"ended", "revoked"},
               NEW reason \in Reasons \ {"usage_lease_expired"},
               sessions' = AllEnded(status, reason)
        PROVE  /\ Closes(sessions')
               /\ \A r \in Requests : sessions'[r].status # "active"
    BY <1>2, ClosesAll DEF Closes
  <1>3. CASE RevokeEntitlement
    <2>1. ent' \in EntitlementType /\ ent'.remaining = ent.remaining
      BY <1>0, <1>3 DEF RevokeEntitlement, EntitlementType
    <2>2. sessions' = AllEnded("revoked", "entitlement_revoked")
      BY <1>3 DEF RevokeEntitlement
    <2>3. /\ Closes(sessions')
          /\ \A r \in Requests : sessions'[r].status # "active"
      BY <1>1, <1>2, <2>2
    <2> QED
      BY <1>0, <1>3, <2>1, <2>3, AdminStep DEF RevokeEntitlement
  <1>4. CASE RestoreEntitlement
    <2>1. ent' \in EntitlementType /\ ent'.remaining = ent.remaining
      BY <1>0, <1>4 DEF RestoreEntitlement, EntitlementType
    <2>2. /\ Closes(sessions')
          /\ \A r \in Requests : sessions'[r].status # "active"
      BY <1>4, ClosesSame DEF RestoreEntitlement, Closes, IndInv, ClosedSessions
    <2> QED
      BY <1>0, <1>4, <2>1, <2>2, AdminStep DEF RestoreEntitlement
  <1>5. CASE UnbindDevice
    <2>1. ent' \in EntitlementType /\ ent'.remaining = ent.remaining
      BY <1>0, <1>5 DEF UnbindDevice, EntitlementType
    <2>2. sessions' = AllEnded("ended", "admin_device_unbound")
      BY <1>5 DEF UnbindDevice
    <2>3. /\ Closes(sessions')
          /\ \A r \in Requests : sessions'[r].status # "active"
      BY <1>1, <1>2, <2>2
    <2> QED
      BY <1>0, <1>5, <2>1, <2>3, AdminStep DEF UnbindDevice
  <1>6. ASSUME NEW p \in Pairs, BindDevice(p)
        PROVE  Closing
    <2>1. ent' \in EntitlementType /\ ent'.remaining = ent.remaining
      BY <1>0, <1>6 DEF BindDevice, EntitlementType
    <2>2. sessions' = AllEnded("ended", "device_rebound")
      BY <1>6 DEF BindDevice
    <2>3. /\ Closes(sessions')
          /\ \A r \in Requests : sessions'[r].status # "active"
      BY <1>1, <1>2, <2>2
    <2>4. bound' \subseteq Pairs
      BY <1>0, <1>6 DEF BindDevice
    <2> QED
      BY <1>0, <1>6, <2>1, <2>3, <2>4, AdminStep DEF BindDevice
  <1>7. ASSUME NEW card \in Cards, Reactivate(card)
        PROVE  Closing
    <2>1. card.seconds \in Nat /\ card.kind \in Kinds
      BY CardAssumption
    <2>2. ent' = [status |-> "active", rv |-> ent.rv + 1, pair |-> ent.pair,
                  remaining |-> card.seconds, credited |-> card.seconds,
                  consumed |-> 0, kind |-> card.kind, since |-> ent.rv + 1]
      BY <1>0, <1>7 DEF Reactivate, EntitlementType
    <2>3. ent' \in EntitlementType
      BY <1>0, <2>1, <2>2 DEF EntitlementType
    <2>4. /\ Closes(sessions')
          /\ \A r \in Requests : sessions'[r].status # "active"
      BY <1>7, ClosesSame DEF Reactivate, Closes
    <2>5. ent.remaining = 0
      BY <1>7 DEF Reactivate
    <2> QED
      BY <1>0, <1>7, <2>3, <2>4, <2>5, AdminStep DEF Reactivate
  <1> QED
    BY <1>3, <1>4, <1>5, <1>6, <1>7 DEF AdminNext

(* Every step either charges nothing and at most closes sessions, or pays   *)
(* for exactly one ticket; it does so as the start of a session or as the   *)
(* renewal of an active one.                                                *)
LEMMA StepKinds ==
  ASSUME IndInv, Next
  PROVE  \/ Closing
         \/ \E r \in Requests, now \in Reads :
               /\ StartUsage(r, now)
               /\ Paying(Ticket(r, 0, now, now, Duration, ent.remaining - Charged))
         \/ \E n : Paying(n) /\ sessions[n.sid].status = "active"
  <1>1. CASE Tick
    <2>1. /\ clock \in Nat /\ stopping \subseteq issued
          /\ commands \in [Requests -> [pair : Pairs, rv : Nat] \cup {None}]
          /\ challenges \in [Requests -> ChallengeType \cup {None}]
      BY DEF IndInv, TypeOK
    <2> QED
      BY <1>1, <2>1, QuietStep DEF Tick
  <1>2. CASE ClientNext
    BY <1>2, ClientSteps, StartPays DEF ClientNext
  <1>3. CASE LeaseNext
    <2>1. PICK ticket \in issued, now \in Reads :
             \/ StopVerified(ticket, now)
             \/ HeartbeatEnds(ticket.sid, ticket, now)
             \/ \E id \in HbIds : \/ HeartbeatReplay(ticket.sid, ticket, id, now)
                                  \/ HeartbeatRenew(ticket.sid, ticket, id, now)
      BY <1>3 DEF LeaseNext
    <2>2. CASE \E id \in HbIds : HeartbeatRenew(ticket.sid, ticket, id, now)
      BY <2>2, RenewPays
    <2>3. CASE ~\E id \in HbIds : HeartbeatRenew(ticket.sid, ticket, id, now)
      BY <2>1, <2>3, LeaseSteps
    <2> QED
      BY <2>2, <2>3
  <1>4. CASE \E ticket \in stopping : StopUsage(ticket)
    <2>1. stopping \subseteq issued
      BY DEF IndInv, TypeOK
    <2> QED
      BY <1>4, <2>1, LeaseSteps
  <1>5. CASE AdminNext
    BY <1>5, AdminSteps
  <1> QED
    BY <1>1, <1>2, <1>3, <1>4, <1>5 DEF Next

(* Standing still is a Closing.                                             *)
LEMMA StutterCloses ==
  ASSUME IndInv, UNCHANGED vars
  PROVE  Closing
  BY QuietStep DEF vars, IndInv, TypeOK

(* The first card, and nothing used of it.                                  *)
LEMMA InitIndInv == Init => IndInv
  <1> SUFFICES ASSUME Init PROVE IndInv
    OBVIOUS
  <1>1. PICK card \in Cards, p \in Pairs :
           /\ ent = [status |-> "active", rv |-> 1, pair |-> p,
                     remaining |-> card.seconds, credited |-> card.seconds,
                     consumed |-> 0, kind |-> card.kind, since |-> 1]
           /\ bound = {p}
    BY DEF Init
  <1>2. card.seconds \in Nat /\ card.kind \in Kinds
    BY CardAssumption
  <1>3. ent \in EntitlementType
    BY <1>1, <1>2 DEF EntitlementType
  <1>4. \A r \in Requests : sessions[r] = NoSession
    BY DEF Init
  <1>5. NoSession.status = "none" /\ NoSession.reason = ""
    BY DEF NoSession
  <1>6. TypeOK
    BY <1>1, <1>3 DEF Init, TypeOK
  <1>7. TicketsOfSessions /\ LedgerOfTickets /\ PaidAheadBounded
    BY <1>4, <1>5 DEF Init, TicketsOfSessions, LedgerOfTickets, PaidAheadBounded
  <1>8. ClosedSessions /\ ActiveSessionIsCurrent
    BY <1>4, <1>5 DEF ClosedSessions, ActiveSessionIsCurrent
  <1> QED
    BY <1>6, <1>7, <1>8 DEF IndInv

(* The server keeps its inductive invariant, whatever is lost, repeated or  *)
(* delayed and whatever the administration does in between.                 *)
THEOREM MeteringInvariant == Spec => []IndInv
  <1>1. ASSUME IndInv, [Next]_vars
        PROVE  IndInv'
    BY <1>1, StepKinds, StutterCloses, ClosingInv, PayingInv
  <1> QED
    BY <1>1, InitIndInv, PTL DEF Spec

-----------------------------------------------------------------------------
(* What follows from it *)

(* However often answers are lost and requests repeated, every ticket of a  *)
(* metered card is in the ledger once, for exactly its seconds, and no      *)
(* renewal has two different tickets.                                       *)
THEOREM TicketsArePaidOnce == Spec => []TicketsPaidOnce
  <1>1. IndInv => TicketsPaidOnce
    <2> SUFFICES ASSUME IndInv PROVE TicketsPaidOnce
      OBVIOUS
    <2>1. ASSUME NEW t \in issued, IsPermanent(t)
          PROVE  {w \in ledger : w.sid = t.sid /\ w.seq = t.seq} = {}
      <3>1. ASSUME NEW w \in ledger, w.sid = t.sid, w.seq = t.seq
            PROVE  FALSE
        <4>1. PICK u \in issued : /\ ~IsPermanent(u)
                                  /\ u.sid = w.sid /\ u.seq = w.seq
          BY DEF IndInv, LedgerOfTickets
        <4>2. u = t
          BY <3>1, <4>1 DEF IndInv, TicketsOfSessions
        <4> QED
          BY <2>1, <4>1, <4>2
      <3> QED
        BY <3>1
    <2>2. ASSUME NEW t \in issued, ~IsPermanent(t)
          PROVE  \E w \in {w \in ledger : w.sid = t.sid /\ w.seq = t.seq} :
                    /\ {v \in ledger : v.sid = t.sid /\ v.seq = t.seq} = {w}
                    /\ w.from = t.nbf /\ w.to = t.exp
                    /\ w.charged = t.exp - t.nbf
      <3>1. PICK w \in ledger : w.sid = t.sid /\ w.seq = t.seq
        BY <2>2 DEF IndInv, LedgerOfTickets
      <3>2. PICK u \in issued : /\ u.sid = w.sid /\ u.seq = w.seq
                                /\ u.nbf = w.from /\ u.exp = w.to
        BY DEF IndInv, LedgerOfTickets
      <3>3. u = t
        BY <3>1, <3>2 DEF IndInv, TicketsOfSessions
      <3>4. w.charged = w.to - w.from
        BY DEF IndInv, LedgerOfTickets
      <3>5. \A v \in ledger : v.sid = t.sid /\ v.seq = t.seq => v = w
        BY <3>1 DEF IndInv, LedgerOfTickets
      <3>6. {v \in ledger : v.sid = t.sid /\ v.seq = t.seq} = {w}
        BY <3>1, <3>5
      <3> QED
        BY <3>1, <3>2, <3>3, <3>4, <3>6
    <2>3. \A t, u \in issued : t.sid = u.sid /\ t.seq = u.seq => t = u
      BY DEF IndInv, TicketsOfSessions
    <2> QED
      BY <2>1, <2>2, <2>3 DEF TicketsPaidOnce
  <1> QED
    BY <1>1, MeteringInvariant, PTL

(* The tables keep their types: in particular neither the balance nor a     *)
(* charge is ever negative, however short the last lease is.                *)
THEOREM TypeCorrect == Spec => []TypeOK
  <1>1. IndInv => TypeOK
    BY DEF IndInv
  <1> QED
    BY <1>1, MeteringInvariant, PTL

(* An active session always has the pair and the version of the             *)
(* entitlement, so that repeating an answer repeats the same ticket.        *)
THEOREM ActiveSessionsAreCurrent == Spec => []ActiveSessionIsCurrent
  <1>1. IndInv => ActiveSessionIsCurrent
    BY DEF IndInv
  <1> QED
    BY <1>1, MeteringInvariant, PTL

(* No ticket reaches further than one lease and one window ahead.           *)
THEOREM PaidAheadIsBounded == Spec => []PaidAheadBounded
  <1>1. IndInv => PaidAheadBounded
    BY DEF IndInv
  <1> QED
    BY <1>1, MeteringInvariant, PTL

(* A cancelled start is never charged and never active again.               *)
THEOREM CancellationIsFinal == Spec => CancelIsFinal
  <1>1. ASSUME IndInv, IndInv', [Next]_vars, NEW r \in cancelled
        PROVE  /\ r \in cancelled'
               /\ sessions'[r].status # "active"
               /\ {w \in ledger' : w.sid = r} = {w \in ledger : w.sid = r}
    <2>1. CASE Closing
      <3>1. r \in cancelled' /\ ledger' = ledger /\ sessions'[r].status # "active"
        BY <2>1 DEF Closing
      <3> QED
        BY <3>1
    <2>2. ASSUME NEW n, Paying(n)
          PROVE  /\ r \in cancelled'
                 /\ sessions'[r].status # "active"
                 /\ {w \in ledger' : w.sid = r} = {w \in ledger : w.sid = r}
      <3>1. cancelled' = cancelled /\ n.sid # r
        BY <2>2 DEF Paying
      <3>2. ledger' = ledger \/ ledger' = ledger \cup {LedgerRow(n)}
        BY <2>2 DEF Paying, Pay
      <3>3. LedgerRow(n).sid = n.sid
        BY DEF LedgerRow
      <3>4. r \in Requests
        BY <1>1 DEF IndInv, TypeOK
      <3>5. sessions'[r].status # "active"
        BY <1>1, <3>1, <3>4 DEF IndInv, ClosedSessions
      <3> QED
        BY <3>1, <3>2, <3>3, <3>5
    <2> QED
      BY <1>1, <2>1, <2>2, StepKinds, StutterCloses
  <1>2. IndInv /\ IndInv' /\ [Next]_vars =>
           [\A r \in cancelled :
              /\ r \in cancelled'
              /\ sessions'[r].status # "active"
              /\ {w \in ledger' : w.sid = r} = {w \in ledger : w.sid = r}]_vars
    BY <1>1
  <1> QED
    BY <1>2, MeteringInvariant, PTL DEF Spec, CancelIsFinal

(* A session opens only when the leases of an expired session are over, up  *)
(* to the longest wait for the write lock.                                  *)
THEOREM StartsFollowExpiry == Spec => StartsAfterExpiry
  <1>1. ASSUME IndInv, [Next]_vars, NEW r \in Requests, NEW t \in issued,
               sessions[r].status = "none", sessions'[r].status = "active",
               sessions'[t.sid].reason = "usage_lease_expired"
        PROVE  t.exp <= sessions'[r].lease.nbf + Lag
    <2>0. \A q \in Requests : sessions[q] \in SessionRows
      BY <1>1 DEF IndInv, TypeOK, SessionRows
    <2>1. ~Closing
      BY <1>1, <2>0, ClosedFacts DEF Closing, Closes
    <2>2. ASSUME NEW n, Paying(n), sessions[n.sid].status = "active"
          PROVE  FALSE
      <3>1. r # n.sid
        BY <1>1, <2>2
      <3>2. Closed(sessions[r], sessions'[r])
        BY <2>2, <3>1 DEF Paying
      <3> QED
        BY <1>1, <2>0, <3>2, ClosedFacts
    <2>3. Next
      BY <1>1, <2>1, StutterCloses
    <2>4. PICK q \in Requests, now \in Reads :
             /\ StartUsage(q, now)
             /\ Paying(Ticket(q, 0, now, now, Duration, ent.remaining - Charged))
      BY <1>1, <2>1, <2>2, <2>3, StepKinds
    <2> DEFINE n == Ticket(q, 0, now, now, Duration, ent.remaining - Charged)
    <2>5. n.sid = q /\ n.nbf = now /\ Paying(n)
      BY <2>4 DEF Ticket
    <2> HIDE DEF n
    <2>6. q = r
      <3>1. CASE q # r
        <4>1. Closed(sessions[r], sessions'[r])
          BY <2>5, <3>1 DEF Paying
        <4> QED
          BY <1>1, <2>0, <4>1, ClosedFacts
      <3> QED
        BY <3>1
    <2>7. sessions'[r].lease = n /\ sessions'[r].reason # "usage_lease_expired"
      BY <2>5, <2>6 DEF Paying
    <2>8. /\ t \in Tickets /\ t.sid \in Requests /\ t.exp \in Nat /\ t.nbf \in Nat
          /\ clock \in Nat /\ now \in Nat /\ clock <= now + Lag /\ Lag \in Nat
      BY <1>1, TicketFields, SettingsAssumption DEF IndInv, TypeOK, Reads
    <2>9. t.sid # r
      BY <1>1, <2>7
    <2>10. /\ Closed(sessions[t.sid], sessions'[t.sid])
           /\ sessions'[t.sid].lease.exp <= clock
      BY <1>1, <2>5, <2>6, <2>8, <2>9 DEF Paying
    <2>11. sessions[t.sid].status # "none"
      BY <1>1 DEF IndInv, TicketsOfSessions
    <2>12. /\ sessions[t.sid].lease \in issued
           /\ sessions'[t.sid].lease = sessions[t.sid].lease
      BY <1>1, <2>0, <2>8, <2>10, <2>11, ClosedFacts DEF IndInv, TicketsOfSessions
    <2>13. /\ sessions[t.sid].lease.exp \in Nat /\ sessions[t.sid].lease.nbf \in Nat
      BY <1>1, <2>12, TicketFields DEF IndInv, TypeOK
    <2>14. sessions[t.sid].lease.nbf < sessions[t.sid].lease.exp
      BY <1>1, <2>12 DEF IndInv, TicketsOfSessions
    <2>15. t.exp <= sessions[t.sid].lease.exp
      <3>1. CASE t = sessions[t.sid].lease
        BY <2>8, <3>1
      <3>2. CASE t.exp <= sessions[t.sid].lease.nbf
        BY <2>8, <2>13, <2>14, <3>2
      <3> QED
        BY <1>1, <3>1, <3>2 DEF IndInv, TicketsOfSessions
    <2> QED
      BY <2>5, <2>7, <2>8, <2>10, <2>12, <2>13, <2>15
  <1>2. IndInv /\ [Next]_vars =>
           [\A r \in Requests, t \in issued :
              /\ sessions[r].status = "none" /\ sessions'[r].status = "active"
              /\ sessions'[t.sid].reason = "usage_lease_expired"
              => t.exp <= sessions'[r].lease.nbf + Lag]_vars
    BY <1>1
  <1> QED
    BY <1>2, MeteringInvariant, PTL DEF Spec, StartsAfterExpiry

(* A ledger row as the meter sees it.                                       *)
ChargeOf(w) == [sid |-> w.sid, seq |-> w.seq, from |-> w.from, to |-> w.to]

(* A paid step of a metered card is one charge of the meter.                *)
LEMMA PayingCharges ==
  ASSUME IndInv, NEW n, Paying(n), ~IsPermanent(ent)
  PROVE  Meter!Charge
  <1> DEFINE Paid == {ChargeOf(w) : w \in ledger}
             c    == ChargeOf(LedgerRow(n))
  <1>1. TypeOK /\ n \in Tickets /\ Usable /\ Pay(n)
    BY DEF IndInv, Paying
  <1>2. /\ n.sid \in Requests /\ n.seq \in Nat /\ n.nbf \in Nat /\ n.exp \in Nat
    BY <1>1, TicketFields
  <1>3. c = [sid |-> n.sid, seq |-> n.seq, from |-> n.nbf, to |-> n.exp]
    BY DEF ChargeOf, LedgerRow
  <1>4. /\ ledger' = ledger \cup {LedgerRow(n)} /\ ent' = Debited(Charged)
    BY <1>1 DEF Pay
  <1>5. {ChargeOf(w) : w \in ledger'} = Paid \cup {c}
    BY <1>4
  <1>6. /\ ent'.remaining = ent.remaining - Charged
        /\ Charged = n.exp - n.nbf
        /\ Charged <= ent.remaining
    <2>1. Debited(Charged).remaining = ent.remaining - Charged
      BY <1>1, DebitFacts
    <2>2. Charged \in Nat /\ ent.remaining - Charged \in Nat /\ Charged = Duration
      BY <1>1, ChargeFacts
    <2>3. ent.remaining \in Nat
      BY <1>1 DEF TypeOK, EntitlementType
    <2> QED
      BY <1>4, <2>1, <2>2, <2>3 DEF Paying
  <1>7. ASSUME NEW p \in Paid, p.sid = n.sid
        PROVE  p.seq < n.seq /\ p.to <= n.nbf
    <2>1. PICK w \in ledger : p = ChargeOf(w)
      OBVIOUS
    <2>2. p.sid = w.sid /\ p.seq = w.seq /\ p.to = w.to
      BY <2>1 DEF ChargeOf
    <2>3. PICK t \in issued : t.sid = w.sid /\ t.seq = w.seq /\ t.exp = w.to
      BY DEF IndInv, LedgerOfTickets
    <2>4. t.seq < n.seq /\ t.exp <= n.nbf
      BY <1>1, <1>7, <2>2, <2>3, LaterTicket DEF IndInv, Paying
    <2> QED
      BY <2>2, <2>3, <2>4
  <1>8. /\ c \in [sid : Requests, seq : Nat, from : Nat, to : Nat]
        /\ c.from < c.to /\ c.to - c.from <= ent.remaining
        /\ \A p \in Paid : p.sid = c.sid => p.seq < c.seq /\ p.to <= c.from
        /\ ent'.remaining = ent.remaining - (c.to - c.from)
    BY <1>2, <1>3, <1>6, <1>7 DEF Paying
  <1>9. {[sid |-> w.sid, seq |-> w.seq, from |-> w.from, to |-> w.to] :
            w \in ledger} = Paid
    BY DEF ChargeOf
  <1>10. {[sid |-> w.sid, seq |-> w.seq, from |-> w.from, to |-> w.to] :
            w \in ledger'} = Paid \cup {c}
    BY <1>5 DEF ChargeOf
  <1> HIDE DEF Paid, c
  <1> QED
    BY <1>8, <1>9, <1>10 DEF Meter!Charge

(* The metering implements the prepaid meter: every charge is made once,    *)
(* behind the charges of its session, of what is left; and a balance grows  *)
(* only when it was empty.                                                  *)
THEOREM ImplementsPrepaidMeter == Spec => ImplementsMeter
  <1>1. Init => Meter!Init
    <2> SUFFICES ASSUME Init PROVE Meter!Init
      OBVIOUS
    <2>1. PICK card \in Cards : ent.remaining = card.seconds
      BY DEF Init
    <2>2. card.seconds \in Nat /\ ledger = {}
      BY CardAssumption DEF Init
    <2> QED
      BY <2>1, <2>2 DEF Meter!Init
  <1>2. IndInv /\ [Next]_vars => [Meter!Next]_(Meter!vars)
    <2> SUFFICES ASSUME IndInv, [Next]_vars PROVE [Meter!Next]_(Meter!vars)
      OBVIOUS
    <2>1. CASE Closing
      <3>1. ledger' = ledger /\ ent'.remaining \in Nat
        BY <2>1 DEF Closing, EntitlementType
      <3>2. CASE ent'.remaining = ent.remaining
        BY <3>1, <3>2 DEF Meter!vars
      <3>3. CASE ent.remaining = 0
        BY <3>1, <3>3 DEF Meter!Next, Meter!Refill
      <3> QED
        BY <2>1, <3>2, <3>3 DEF Closing
    <2>2. ASSUME NEW n, Paying(n)
          PROVE  [Meter!Next]_(Meter!vars)
      <3>1. CASE IsPermanent(ent)
        <4>1. ent' = ent /\ ledger' = ledger
          BY <2>2, <3>1 DEF Paying, Pay
        <4> QED
          BY <4>1 DEF Meter!vars
      <3>2. CASE ~IsPermanent(ent)
        BY <2>2, <3>2, PayingCharges DEF Meter!Next
      <3> QED
        BY <3>1, <3>2
    <2> QED
      BY <2>1, <2>2, StepKinds, StutterCloses
  <1> QED
    BY <1>1, <1>2, MeteringInvariant, PTL DEF Spec, ImplementsMeter
=============================================================================
