---------------------------- MODULE PrepaidMeter ----------------------------
(***************************************************************************)
(* What the metering of dual_machine_service promises a customer: time is  *)
(* paid for in intervals, each one charged exactly once and exactly its    *)
(* length, the intervals of a session follow each other without overlap,   *)
(* and nothing but such a charge, or a new card on an empty balance,       *)
(* changes the balance.                                                    *)
(***************************************************************************)
EXTENDS Integers

CONSTANTS Sessions   \* the sessions time can be charged to

VARIABLES balance,   \* seconds left
          paid       \* the charges made

vars == <<balance, paid>>

Init == balance \in Nat /\ paid = {}

\* Pays for one more interval of a session, behind all it paid for before.
Charge ==
    \E c \in paid' :
        /\ c \in [sid : Sessions, seq : Nat, from : Nat, to : Nat]
        /\ c.from < c.to
        /\ c.to - c.from <= balance
        /\ \A p \in paid : p.sid = c.sid => p.seq < c.seq /\ p.to <= c.from
        /\ balance' = balance - (c.to - c.from)
        /\ paid' = paid \cup {c}

\* A new card, once the old one is used up.
Refill == balance = 0 /\ balance' \in Nat /\ UNCHANGED paid

Next == Charge \/ Refill

Spec == Init /\ [][Next]_vars
=============================================================================
