------------------------ MODULE MouseButtonPublisher ------------------------
(***************************************************************************)
(* HostMouseButtonPublisher: a thread that polls the Host's mouse buttons  *)
(* and sends them to the phone under the mouse key of the authenticated    *)
(* session, whose sealer (AuthenticatedDataPlane) outlives the publisher.  *)
(*                                                                         *)
(* Three parties interleave: the thread, the owner that starts and stops   *)
(* it, and the lease gate behind the permit. session_mutex_ is held from   *)
(* the check before the sealing to the end of the send, and by stop() when *)
(* it sets its flag. When a heartbeat is due is a choice, and so is which  *)
(* call of the socket, the cipher or the system fails.                     *)
(***************************************************************************)
EXTENDS AuthenticatedDataPlane

CONSTANT Masks      \* states of the buttons; 0: all released

ASSUME MaskAssumption == 0 \in Masks /\ Masks \subseteq Nat

VARIABLES
    permit,     \* what the permit source answers
    stop,       \* stop_requested_
    stopping,   \* stop() waits for the thread
    ready,      \* authenticated_session_ready_: the publisher has its session
    stale,      \* session_revision_ is not the one the loop has seen
    transport,  \* transport_ready_, and the socket is open
    published,  \* last_published_mask
    worker,     \* where the thread is, the mask it publishes and its releases
    air         \* what was sent; see NothingSent

ownVars == <<permit, stop, stopping, ready, stale, transport, published, worker, air>>
publisherVars == <<vars, ownVars>>

Unknown == -1       \* last_published_mask is 0xff, or nothing was sent

NoWorker == [pc |-> "off", mask |-> 0, releases |-> 0]

\* last: the mask sent last; spoilt: a check or a call has failed since; past:
\* datagrams since stop was requested; pressed: one of them was not a release;
\* late: datagrams since the permit was withdrawn.
NothingSent == [last |-> Unknown, spoilt |-> FALSE, past |-> 0, pressed |-> FALSE, late |-> 0]

PublisherInit ==
    /\ Init
    /\ permit \in BOOLEAN
    /\ stop = FALSE /\ stopping = FALSE
    /\ ready = FALSE /\ stale = FALSE /\ transport = FALSE
    /\ published = Unknown
    /\ worker = NoWorker
    /\ air = NothingSent

-----------------------------------------------------------------------------
(* The owner and the lease gate *)

\* start(), behind the stop() it begins with, with an authenticated session or
\* without one. The thread may not be created.
StartPublisher(session, created) ==
    /\ stop /\ ~stopping /\ worker.pc = "off"
    /\ stop' = FALSE
    /\ ready' = session /\ stale' = FALSE /\ transport' = FALSE
    /\ published' = Unknown
    /\ worker' = [NoWorker EXCEPT !.pc = IF created THEN "loop" ELSE "off"]
    /\ air' = [NothingSent EXCEPT !.late = air.late]
    /\ UNCHANGED <<vars, permit, stopping>>

Locked == worker.pc \in {"sealed", "sending"}

\* stop(), up to the join.
RequestStop ==
    /\ ~stopping /\ ~Locked
    /\ stop' = TRUE /\ stopping' = TRUE
    /\ air' = [air EXCEPT !.past = 0, !.pressed = FALSE]
    /\ UNCHANGED <<vars, permit, ready, stale, transport, published, worker>>

\* The rest of stop(): the session is let go.
JoinWorker ==
    /\ stopping /\ worker.pc \in {"off", "ended"}
    /\ stopping' = FALSE
    /\ ready' = FALSE /\ stale' = TRUE /\ transport' = FALSE
    /\ worker' = NoWorker
    /\ UNCHANGED <<vars, permit, stop, published, air>>

\* The lease gate opens or closes.
ChangePermit ==
    /\ permit' = ~permit
    /\ air' = [air EXCEPT !.late = 0]
    /\ UNCHANGED <<vars, stop, stopping, ready, stale, transport, published, worker>>

-----------------------------------------------------------------------------
(* run() *)

\* authorization_permits_send.
PermitsSend == ready /\ permit

GoTo(pc) == worker' = [worker EXCEPT !.pc = pc]
Spoil == air' = [air EXCEPT !.spoilt = TRUE]

\* The loop sees the flag.
LeaveLoop ==
    /\ worker.pc = "loop" /\ stop
    /\ GoTo("release")
    /\ UNCHANGED <<vars, permit, stop, stopping, ready, stale, transport, published, air>>

\* The top of an iteration: a new session revision or a missing permit closes
\* the socket; a closed one is opened, which may fail.
PrepareTransport(opens) ==
    /\ worker.pc = "loop" /\ ~stop
    /\ stale' = FALSE
    /\ LET open == transport /\ ~stale IN
       IF ~PermitsSend \/ (~open /\ ~opens)
       THEN transport' = FALSE /\ Spoil /\ UNCHANGED <<published, worker>>
       ELSE /\ transport' = TRUE
            /\ published' = IF open THEN published ELSE Unknown
            /\ GoTo("poll")
            /\ UNCHANGED air
    /\ UNCHANGED <<vars, permit, stop, stopping, ready>>

\* The buttons are read; publish() is entered when they changed or a heartbeat
\* is due, and looks at the permit.
Poll(mask, due) ==
    /\ worker.pc = "poll"
    /\ IF mask = published /\ ~due THEN GoTo("loop") /\ UNCHANGED air
       ELSE /\ worker' = [worker EXCEPT !.mask = mask,
                                        !.pc = IF PermitsSend THEN "publish" ELSE "failed"]
            /\ IF PermitsSend THEN UNCHANGED air ELSE Spoil
    /\ UNCHANGED <<vars, permit, stop, stopping, ready, stale, transport, published>>

\* Behind the loop: an open socket and a permit are needed to release at all.
BeginRelease ==
    /\ worker.pc = "release"
    /\ IF transport /\ PermitsSend THEN GoTo("releasing") /\ UNCHANGED <<transport, air>>
       ELSE /\ GoTo("ended") /\ transport' = FALSE
            /\ IF PermitsSend THEN UNCHANGED air ELSE Spoil
    /\ UNCHANGED <<vars, permit, stop, stopping, ready, stale, published>>

\* Two releases; each publish() looks at the permit, and what it returns is
\* ignored.
Release ==
    /\ worker.pc = "releasing" /\ worker.releases < 2
    /\ worker' = [pc |-> IF PermitsSend THEN "publish" ELSE "releasing",
                  mask |-> 0, releases |-> worker.releases + 1]
    /\ IF PermitsSend THEN UNCHANGED air ELSE Spoil
    /\ UNCHANGED <<vars, permit, stop, stopping, ready, stale, transport, published>>

\* The end of run().
EndRun ==
    /\ worker.pc = "releasing" /\ worker.releases = 2
    /\ GoTo("ended")
    /\ transport' = FALSE
    /\ UNCHANGED <<vars, permit, stop, stopping, ready, stale, published, air>>

Releasing == worker.releases > 0

\* publish() returns.
Returned(sent) ==
    IF Releasing THEN GoTo("releasing") ELSE GoTo(IF sent THEN "loop" ELSE "failed")

\* Mutant: the flag is looked at before the lock is taken only.
PublishAllowedRacy == ready /\ PermitsSend

\* What publish() requires once it has the lock.
PublishAllowed == (stop => Releasing) /\ ready /\ PermitsSend

\* publish() under the lock, up to the sealing. A key without counters is let
\* go with its session; a cipher that fails has used its counter up.
SealButtons(outcome) ==
    /\ worker.pc = "publish"
    /\ CASE ~PublishAllowed ->
              /\ Returned(FALSE)
              /\ IF PermitsSend THEN UNCHANGED air ELSE Spoil
              /\ UNCHANGED <<vars, ready, stale>>
         [] PublishAllowed /\ ~sealer.available ->
              /\ Returned(FALSE) /\ Spoil
              /\ ready' = FALSE /\ stale' = TRUE
              /\ UNCHANGED vars
         [] PublishAllowed /\ sealer.available /\ outcome = "no_memory" ->
              /\ Returned(FALSE) /\ Spoil
              /\ UNCHANGED <<vars, ready, stale>>
         [] PublishAllowed /\ sealer.available /\ outcome = "no_cipher" ->
              /\ Returned(FALSE) /\ Spoil
              /\ Seal(FALSE)
              /\ UNCHANGED <<ready, stale>>
         [] PublishAllowed /\ sealer.available /\ outcome = "sealed" ->
              /\ GoTo("sealed")
              /\ Seal(TRUE)
              /\ UNCHANGED <<ready, stale, air>>
    /\ UNCHANGED <<permit, stop, stopping, transport, published>>

\* The permit is looked at once more before the datagram leaves.
CheckBoundary ==
    /\ worker.pc = "sealed"
    /\ IF PermitsSend THEN GoTo("sending") /\ UNCHANGED air ELSE Returned(FALSE) /\ Spoil
    /\ UNCHANGED <<vars, permit, stop, stopping, ready, stale, transport, published>>

\* What is known of the datagrams after one more.
Sent ==
    [last    |-> worker.mask,
     spoilt  |-> FALSE,
     past    |-> IF stop THEN air.past + 1 ELSE air.past,
     pressed |-> air.pressed \/ (stop /\ worker.mask # 0),
     late    |-> IF permit THEN air.late ELSE air.late + 1]

SendButtons(ok) ==
    /\ worker.pc = "sending"
    /\ Returned(ok)
    /\ IF ok THEN air' = Sent ELSE Spoil
    /\ published' = IF ok /\ ~Releasing THEN worker.mask ELSE published
    /\ UNCHANGED <<vars, permit, stop, stopping, ready, stale, transport>>

\* A publish that failed ends the loop when the flag is set by now, and closes
\* the socket otherwise.
AfterFailure ==
    /\ worker.pc = "failed"
    /\ GoTo(IF stop THEN "release" ELSE "loop")
    /\ transport' = (transport /\ stop)
    /\ UNCHANGED <<vars, permit, stop, stopping, ready, stale, published, air>>

WorkerStep ==
    \/ LeaveLoop
    \/ \E opens \in BOOLEAN : PrepareTransport(opens)
    \/ \E mask \in Masks, due \in BOOLEAN : Poll(mask, due)
    \/ \E outcome \in {"sealed", "no_memory", "no_cipher"} : SealButtons(outcome)
    \/ CheckBoundary
    \/ \E ok \in BOOLEAN : SendButtons(ok)
    \/ AfterFailure
    \/ BeginRelease \/ Release \/ EndRun

PublisherNext ==
    \/ \E session, created \in BOOLEAN : StartPublisher(session, created)
    \/ RequestStop \/ JoinWorker
    \/ ChangePermit
    \/ WorkerStep

PublisherSpec == PublisherInit /\ [][PublisherNext]_publisherVars

-----------------------------------------------------------------------------
(* Properties *)

PublisherTypeOK ==
    /\ {permit, stop, stopping, ready, stale, transport} \subseteq BOOLEAN
    /\ published \in Masks \cup {Unknown}
    /\ worker \in [pc : {"off", "loop", "poll", "publish", "sealed", "sending", "failed",
                         "release", "releasing", "ended"},
                   mask : Masks, releases : 0 .. 2]
    /\ air \in [last : Masks \cup {Unknown}, spoilt : BOOLEAN, past : Nat,
                pressed : BOOLEAN, late : Nat]

(* From the moment stop() has set its flag only releases leave the Host, two *)
(* at most, and none once stop() has returned (publish under session_mutex_).*)
OnlyReleasesAfterStop ==
    /\ stop => ~air.pressed /\ air.past <= 2
    /\ stop /\ ~stopping => worker.pc = "off" /\ ~ready

(* A permit that is withdrawn lets at most the one datagram out that was     *)
(* past its last check, however long it stays withdrawn.                     *)
OneLateDatagram == air.late <= 1

(* The phone is not left with a button held: when the thread has ended, the  *)
(* last datagram was a release unless some check or call has failed since.   *)
ReleasedAtTheEnd ==
    worker.pc = "ended" => air.last \in {0, Unknown} \/ air.spoilt

(* Whatever stop(), the lease gate and failing calls do between the steps of *)
(* the thread, buttons leave the Host only while it may send them, and are   *)
(* released at the end.                                                      *)
ButtonsReleased ==
    /\ PublisherTypeOK
    /\ OnlyReleasesAfterStop
    /\ OneLateDatagram
    /\ ReleasedAtTheEnd
=============================================================================
