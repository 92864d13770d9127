-------------------------- MODULE AtMostOnceChannel --------------------------
(***************************************************************************)
(* What one direction of the authenticated data plane promises to the     *)
(* layers above: packets are numbered upwards, a packet is handed over at  *)
(* most once, and one that is not too far behind the newest is never       *)
(* refused.                                                                *)
(***************************************************************************)
EXTENDS Integers

CONSTANTS MaxCounter,   \* the last packet number of a key
          WindowSize    \* how far behind the newest a packet may be

VARIABLES sent,       \* the numbers of the packets that were sent
          delivered,  \* delivered[c]: how often packet c was handed over
          refused     \* the packets that were refused when offered last

vars == <<sent, delivered, refused>>

Counters == 0 .. MaxCounter

HandedOver == {c \in Counters : delivered[c] > 0}

Init ==
    /\ sent = {}
    /\ delivered = [c \in Counters |-> 0]
    /\ refused = {}

Send(c) ==
    /\ \A d \in sent : c > d
    /\ sent' = sent \cup {c}
    /\ UNCHANGED <<delivered, refused>>

Acceptable(c) ==
    /\ delivered[c] = 0
    /\ \A d \in HandedOver : c + WindowSize > d

Deliver(c) ==
    /\ c \in sent
    /\ Acceptable(c)
    /\ delivered' = [delivered EXCEPT ![c] = @ + 1]
    /\ refused' = refused \ {c}
    /\ UNCHANGED sent

Refuse(c) ==
    /\ c \in sent
    /\ ~Acceptable(c)
    /\ refused' = refused \cup {c}
    /\ UNCHANGED <<sent, delivered>>

Next == \E c \in Counters : Send(c) \/ Deliver(c) \/ Refuse(c)

Spec == Init /\ [][Next]_vars
=============================================================================
