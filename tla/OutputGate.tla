----------------------------- MODULE OutputGate -----------------------------
(***************************************************************************)
(* The APP's gates in front of its output device: the stream generation    *)
(* gate, the commit gate that allows one command in flight, the visibility *)
(* gate that holds the next one until its effect can be seen, the native   *)
(* authorization gate, and the Java delivery gate with its one-place       *)
(* mailbox (MakcuOutputGate.hpp, MakcuDeliveryGate.java,                   *)
(* MakcuPendingMoveSlot.java).  Each is a record here and each method a    *)
(* function on it; one method is one critical section of the code.        *)
(*                                                                         *)
(* Times are abstracted to what the gates compare: a ticket is `young`,    *)
(* has reached its deadline (`due`) or is past it (`late`); a frame is     *)
(* `fresh` when it was received after the last acknowledgement.  The       *)
(* recovery generation counts only while the gate is suspended, so it is   *)
(* 0 otherwise.                                                            *)
(***************************************************************************)
EXTENDS Naturals

\* No ticket, no stream generation.
Zero == 0

-----------------------------------------------------------------------------
(* The commit gate.                                                        *)

NoTicket == [id |-> Zero, gen |-> Zero, age |-> "young"]

\* begin(): refused while another command is in flight.
BeginTicket(t, id, gen) == IF t.id = Zero /\ gen # Zero THEN [id |-> id, gen |-> gen, age |-> "young"] ELSE t

\* complete(), complete_with(), inspect(): only the exact ticket matches.
TicketMatches(t, id) == id # Zero /\ t.id = id

CompleteTicket(t, id) == IF TicketMatches(t, id) THEN NoTicket ELSE t

\* A command is never too old.
OlderThanMaximumMutant(t) == FALSE

\* expire_if_older() asks for more than the maximum age,
\* expire_if_deadline_reached() for the deadline itself.
OlderThanMaximum(t) == t.id # Zero /\ t.age = "late"
DeadlineReached(t) == t.id # Zero /\ t.age \in {"due", "late"}

-----------------------------------------------------------------------------
(* The visibility gate: armed or not.                                      *)

\* The first frame after the acknowledgement opens the gate, whenever it was
\* received.
EvaluateVisibilityMutant(armed, frame, timedOut) == IF armed THEN "became_visible" ELSE "open"

\* evaluate() for a frame of real content.  Frames reach the gate in the
\* order of their sequence numbers, each once, so one that is fresh is also
\* newer than the frame the acknowledged command was decided on.
EvaluateVisibility(armed, frame, timedOut) ==
    IF ~armed THEN "open"
    ELSE IF frame.fresh THEN "became_visible"
    ELSE IF timedOut THEN "timed_out"
    ELSE "waiting"

-----------------------------------------------------------------------------
(* The native authorization gate.                                          *)

ClosedGate == [force |-> TRUE, user |-> FALSE, susp |-> FALSE, elig |-> FALSE, rec |-> Zero]

OutputEnabled(g) == ~g.force /\ g.user /\ ~g.susp

\* set_user_requested(): a request is refused while recovery holds the gate.
MaySetUserRequested(g, on) == ~(on /\ g.susp)
SetUserRequested(g, on) ==
    [g EXCEPT !.user = on, !.elig = @ /\ on, !.force = ~on]

RevokeImmediately(g) == [g EXCEPT !.force = TRUE]

SuspendForRecovery(g, gen) ==
    [g EXCEPT !.elig = IF g.susp THEN @ ELSE g.user, !.rec = gen, !.susp = TRUE]

RecoverySuspendedFor(g, gen) == g.susp /\ g.rec = gen

\* complete_after_valid_frame(): a stale completion changes nothing.
ResumeOutput(g) == ~g.force /\ g.elig /\ g.user
CompleteRecovery(g) == [g EXCEPT !.susp = FALSE, !.elig = FALSE, !.rec = Zero]

-----------------------------------------------------------------------------
(* The Java delivery gate and its mailbox.  `ready` says that the serial   *)
(* transport is connected and verified.                                    *)

ClosedDelivery(ready) ==
    [allowed |-> FALSE, susp |-> FALSE, elig |-> FALSE, rec |-> Zero, ready |-> ready]

DeliveryAllowed(d) == d.allowed /\ ~d.susp

SuspendDelivery(d, gen) ==
    [d EXCEPT !.elig = IF d.susp THEN @ ELSE d.allowed, !.rec = gen, !.susp = TRUE]

\* resumeAfterRecovery(), and the refusal of a transport that is not ready.
ResumesDelivery(d, gen) == d.ready /\ d.susp /\ d.rec = gen /\ d.elig /\ d.allowed
ResumeDelivery(d, gen) ==
    IF ~d.ready THEN ClosedDelivery(FALSE)
    ELSE IF d.susp /\ d.rec = gen THEN [d EXCEPT !.susp = FALSE, !.elig = FALSE, !.rec = Zero]
    ELSE d

MayAllowDelivery(d) == d.ready /\ ~d.susp
SetAllowed(d, on) == [d EXCEPT !.allowed = on, !.elig = @ /\ on]
=============================================================================
