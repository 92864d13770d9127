---------------------------- MODULE VideoReceiver ----------------------------
(***************************************************************************)
(* NativeVideoReceiver (android cpp/DualMachineReceiver.cpp): the receive  *)
(* thread of the APP with its two reassemblers, the ReceiverEpochSession,  *)
(* the reference-sync and repeat policies, and the asynchronous restart of *)
(* the decoder (NativeH264Decoder) that a new Host epoch requires.         *)
(*                                                                         *)
(* The Host is the environment: it publishes frames of strictly increasing *)
(* epochs (EpochReservation). The network may lose, repeat, delay and      *)
(* reorder every fragment, so any fragment of any frame ever sent may      *)
(* arrive next. Time is abstracted: how many pending frames have outlived  *)
(* their ttl and whether an IDR request is due are choices.                *)
(***************************************************************************)
EXTENDS AccessUnitReassembler, FiniteSets

CONSTANTS MaxEpoch,     \* bound on the Host's restarts
          Kinds,        \* kinds of frame the Host may send
          Bodies,       \* payload tokens of a fragment; one: no conflicts
          MaxStarts     \* bound on the starts of the receiver

ASSUME ReceiverAssumption ==
    /\ MaxEpoch \in Nat \ {0}
    /\ Kinds \subseteq {"idr", "p", "repeat", "repeated_idr"}
    /\ MaxStarts \in Nat \ {0}

VARIABLES
    sent,       \* sent[e]: the kinds of the frames of epoch e, in order
    running,    \* running_
    starts,     \* how often start() has succeeded
    session,    \* epoch_session; 0: absent
    active,     \* active_reassembler
    cand,       \* candidate_reassembler
    pendingIdr, \* pending_candidate_idr; NoAu: absent
    restart,    \* source_restart_pending and decoder_restart_ready
    ref,        \* reference_sync_policy_
    real,       \* repeat_resync_policy_.real_frame_accepted_
    phase,      \* where the receive loop is in the handling of a datagram
    completed,  \* the loop's local variable
    decoder     \* NativeH264Decoder and the codec behind it

thread == <<session, active, cand, pendingIdr, restart, ref, real, phase,
            completed>>
vars   == <<sent, running, starts, thread, decoder>>

-----------------------------------------------------------------------------
Epochs == 1 .. MaxEpoch
IsIdr(k) == k \in {"idr", "repeated_idr"}
IsRepeat(k) == k \in {"repeat", "repeated_idr"}

\* An IDR frame needs two datagrams, any other frame one.
Fragments(k) == IF IsIdr(k) THEN 2 ELSE 1

\* Every datagram the network may deliver.
Datagrams ==
    UNION {UNION {{[epoch |-> e, seq |-> s - 1, idx |-> i, body |-> b,
                    cnt |-> Fragments(sent[e][s]), rep |-> IsRepeat(sent[e][s]),
                    idr |-> IsIdr(sent[e][s])]
                   : i \in 1 .. Fragments(sent[e][s]), b \in Bodies}
                  : s \in DOMAIN sent[e]}
           : e \in Epochs}

\* The Host's current epoch: the last one it has sent a frame of.
Current == {e \in Epochs : sent[e] # <<>>}

NoSession == [active |-> 0, candidate |-> 0, retired |-> 0]
NoRestart == [pending |-> FALSE, ready |-> FALSE]
NoRef     == [awaiting |-> TRUE, last |-> None]
NoFrame   == [epoch |-> 0, seq |-> None, idr |-> FALSE]

\* gen: stream_restart_generation_; base: its value when the decoder was last
\* configured; restarting: stream_restart_in_progress_; completion: the pending
\* StreamRestartCompletion; broken: java_decoder_failed_; java: generations of
\* the Java restart workers that still run; last: the last frame the codec took.
Configured(gen, java) ==
    [gen |-> gen, base |-> gen, restarting |-> FALSE, completion |-> "none",
     broken |-> FALSE, java |-> java, last |-> NoFrame]

\* The Java decoder is replacing its codec: it refuses every access unit and
\* every further restart (OFFER_RESTARTING, compareAndSet).
Busy(dec) == \E g \in dec.java : g > dec.base

Init ==
    /\ sent       = [e \in Epochs |-> <<>>]
    /\ running    = FALSE
    /\ starts     = 0
    /\ session    = NoSession
    /\ active     = Fresh
    /\ cand       = Fresh
    /\ pendingIdr = NoAu
    /\ restart    = NoRestart
    /\ ref        = NoRef
    /\ real       = FALSE
    /\ phase      = "recv"
    /\ completed  = NoAu
    /\ decoder    = Configured(1, {})

-----------------------------------------------------------------------------
(* The Host *)

\* A frame of the newest epoch, or the first frame of a new one. The first
\* frame of an epoch is a real IDR; later ones are what the encoder made.
HostSend(e, k) ==
    /\ Len(sent[e]) <= MaxSeq
    /\ \A f \in Current : f <= e
    /\ sent[e] = <<>> => k = "idr"
    /\ sent' = [sent EXCEPT ![e] = Append(@, k)]
    /\ UNCHANGED <<running, starts, thread, decoder>>

-----------------------------------------------------------------------------
(* start() and stop() *)

\* The policies and everything local to run() start afresh; the decoder was
\* configured anew, or is still the one an earlier receiver fed.
Start ==
    /\ ~running
    /\ starts < MaxStarts
    /\ running' = TRUE
    /\ starts' = starts + 1
    /\ session' = NoSession
    /\ active' = Fresh /\ cand' = Fresh
    /\ pendingIdr' = NoAu
    /\ restart' = NoRestart
    /\ ref' = NoRef /\ real' = FALSE
    /\ phase' = "recv" /\ completed' = NoAu
    /\ decoder' \in {decoder, Configured(decoder.gen + 1, decoder.java)}
    /\ UNCHANGED sent

\* stop(), which joins the thread: it leaves its loop at the next test of
\* running_. So does the third socket error in a row.
Stop ==
    /\ running
    /\ phase = "recv"
    /\ running' = FALSE
    /\ UNCHANGED <<sent, starts, thread, decoder>>

-----------------------------------------------------------------------------
(* ReceiverEpochSession *)

RetireThrough(s, e) == [s EXCEPT !.retired = IF e > @ THEN e ELSE @]

\* Mutant: an older epoch may still become the candidate.
DecisionNoWatermark(s, e) ==
    IF s.active = e THEN "active" ELSE "candidate"

\* The decision observe() takes for a valid epoch.
Decision(s, e) ==
    IF s.active = e THEN "active"
    ELSE IF e <= s.retired \/ (s.candidate # 0 /\ e < s.candidate)
            \/ (s.candidate = 0 /\ s.active # 0 /\ e < s.active)
    THEN "retired"
    ELSE "candidate"

\* The session after observe() has answered "candidate".
Observed(s, e) ==
    LET retired == IF s.candidate # 0
                   THEN IF s.candidate = e THEN s ELSE RetireThrough(s, s.candidate)
                   ELSE IF s.active = 0 THEN RetireThrough(s, e - 1) ELSE s
    IN [retired EXCEPT !.candidate = e]

CanCommit(s, e) ==
    /\ s.candidate = e
    /\ e > s.retired
    /\ e > s.active

Committed(s, e) ==
    LET retired == IF s.active # 0 THEN RetireThrough(s, s.active) ELSE s
    IN [retired EXCEPT !.active = e, !.candidate = 0]

-----------------------------------------------------------------------------
(* The policies and the decoder *)

\* require_reference_sync().
RequireReferenceSync ==
    /\ ref' = NoRef
    /\ real' = FALSE

\* ReceiverReferenceSyncPolicy::evaluate.
Admitted(r, au) ==
    \/ au.idr
    \/ /\ ~r.awaiting
       /\ r.last # None
       /\ r.last # MaxSeq
       /\ au.seq = r.last + 1

\* ReceiverRepeatResyncPolicy::admit, for what submit_completed_access_unit
\* takes for a repeat: an IDR never is one.
RepeatAdmitted(rl, au) == ~(au.rep /\ ~au.idr) \/ rl

\* decoder().submit accepts the access unit: the codec's chain is extended and
\* both policies record it. dec, r and rl are the decoder and the policies when
\* submit is called.
SubmitAccepted(dec, r, rl, au) ==
    /\ Admitted(r, au)
    /\ RepeatAdmitted(rl, au)
    /\ ~dec.broken /\ ~Busy(dec)
    /\ decoder' = [dec EXCEPT !.last = [epoch |-> au.epoch, seq |-> au.seq,
                                        idr |-> au.idr]]
    /\ ref' = [awaiting |-> FALSE, last |-> au.seq]
    /\ real' = (rl \/ ~(au.rep /\ ~au.idr))

\* submit_completed_access_unit refuses the access unit, or the decoder does.
\* Only the refusal of a repeat leaves the reference chain open.
SubmitRefused(r, rl, au) ==
    IF Admitted(r, au) /\ ~RepeatAdmitted(rl, au)
    THEN ref' = r /\ real' = rl
    ELSE RequireReferenceSync

\* has_stream_restart_timed_out answers true: the restart is abandoned, and its
\* generation with it.
TimedOut(dec) ==
    [dec EXCEPT !.restarting = FALSE, !.completion = "none", !.gen = @ + 1,
                !.broken = TRUE]

-----------------------------------------------------------------------------
(* The candidate path *)

\* Mutant: the epoch is opened although the decoder refused its IDR.
CommitUnsubmitted(dec, s, au) ==
    /\ session' = Committed(s, au.epoch)
    /\ active' = Rebuilt(au.epoch, au.seq)
    /\ ref' = [awaiting |-> FALSE, last |-> au.seq]
    /\ real' = TRUE
    /\ decoder' = dec
    /\ UNCHANGED running

\* commit_restarted_candidate (and the direct commit of the first epoch): the
\* epoch becomes active, the active reassembler resumes behind the IDR, and the
\* IDR is submitted to the restarted decoder. When it is refused the loop ends.
Commit(dec, s, au) ==
    /\ session' = Committed(s, au.epoch)
    /\ active' = Rebuilt(au.epoch, au.seq)
    /\ \/ SubmitAccepted(dec, NoRef, FALSE, au) /\ UNCHANGED running
       \/ /\ SubmitRefused(NoRef, FALSE, au)
          /\ running' = FALSE
          /\ \/ decoder' = dec
             \/ dec.restarting /\ decoder' = TimedOut(dec)

\* The candidate reassembler after a fragment of epoch e; it is rebuilt when it
\* served another epoch.
CandidateFor(e) == IF cand.epoch = e THEN cand ELSE Rebuilt(e, None)

\* pending_candidate_idr once a fragment of candidate epoch e has been seen.
KeptIdr(e) == IF cand.epoch = e THEN pendingIdr ELSE NoAu

\* k pending frames may be past their ttl, but not one that has just arrived.
Expirable(old, res, k) ==
    /\ k \in 0 .. Len(res.r.pending)
    /\ (k > 0 /\ k = Len(res.r.pending))
          => IndexOf(old.pending, res.r.pending[k].seq) # 0

Reassemble(r, d, k) == DiscardExpired(PushPayload(r, d), k)

Idle == UNCHANGED <<phase, completed>>

\* Mutant: the IDR request of the candidate path closes the active chain too.
CandidateIncompleteInvalidates(d, k) ==
    LET r   == CandidateFor(d.epoch)
        res == Reassemble(r, d, k)
    IN
    /\ running /\ phase = "recv"
    /\ Decision(session, d.epoch) = "candidate"
    /\ Expirable(r, PushPayload(r, d), k)
    /\ res.lost \/ ~res.out.idr \/ res.out.rep
    /\ session' = Observed(session, d.epoch)
    /\ cand' = IF res.lost \/ res.out # NoAu THEN Rebuilt(d.epoch, None) ELSE res.r
    /\ pendingIdr' = KeptIdr(d.epoch)
    /\ IF res.lost THEN RequireReferenceSync ELSE UNCHANGED <<ref, real>>
    /\ Idle
    /\ UNCHANGED <<sent, running, starts, active, restart, decoder>>

\* A fragment of a candidate epoch that does not complete a real IDR: nothing
\* yet, a loss, or a frame that cannot open an epoch. The candidate reassembler
\* starts over after the last two; the active stream is left alone.
CandidateIncomplete(d, k) ==
    LET r   == CandidateFor(d.epoch)
        res == Reassemble(r, d, k)
    IN
    /\ running /\ phase = "recv"
    /\ Decision(session, d.epoch) = "candidate"
    /\ Expirable(r, PushPayload(r, d), k)
    /\ res.lost \/ ~res.out.idr \/ res.out.rep
    /\ session' = Observed(session, d.epoch)
    /\ cand' = IF res.lost \/ res.out # NoAu THEN Rebuilt(d.epoch, None) ELSE res.r
    /\ pendingIdr' = KeptIdr(d.epoch)
    /\ Idle
    /\ UNCHANGED <<sent, running, starts, active, restart, ref, real, decoder>>

\* What a fragment of a candidate epoch must do to open the epoch.
CompletesRealIdr(d, k) ==
    LET r   == CandidateFor(d.epoch)
        res == Reassemble(r, d, k)
    IN
    /\ Decision(session, d.epoch) = "candidate"
    /\ Expirable(r, PushPayload(r, d), k)
    /\ ~res.lost
    /\ res.out.idr /\ ~res.out.rep

\* The first epoch of a receiver is committed at once.
CandidateFirst(d, k) ==
    LET res == Reassemble(CandidateFor(d.epoch), d, k)
        s   == Observed(session, d.epoch)
    IN
    /\ running /\ phase = "recv"
    /\ session.active = 0
    /\ CompletesRealIdr(d, k)
    /\ cand' = res.r
    /\ pendingIdr' = KeptIdr(d.epoch)
    /\ IF CanCommit(s, d.epoch)
       THEN Commit(decoder, s, res.out)
       ELSE session' = s /\ UNCHANGED <<running, active, ref, real, decoder>>
    /\ Idle
    /\ UNCHANGED <<sent, starts, restart>>

\* restart_after_stream_discontinuity: joins a restart that is under way, or
\* schedules one, which releases the old codec at once; it fails when the bridge
\* is gone (the decoder is not marked failed) or Java refuses (it is).
RestartDecoder ==
    LET g == decoder.gen + 1 IN
    \/ /\ decoder.restarting \/ ~Busy(decoder)
       /\ decoder' = IF decoder.restarting THEN decoder
                     ELSE [decoder EXCEPT !.gen = g, !.restarting = TRUE,
                                          !.completion = "none", !.broken = FALSE,
                                          !.java = @ \cup {g}, !.last = NoFrame]
       /\ restart' = [pending |-> TRUE, ready |-> FALSE]
       /\ UNCHANGED running
    \/ /\ ~decoder.restarting
       /\ \E b \in BOOLEAN :
             decoder' = [decoder EXCEPT !.gen = g, !.completion = "none", !.broken = b]
       /\ running' = FALSE
       /\ UNCHANGED restart

\* A later epoch first needs a new codec: the IDR waits for it, and a newer IDR
\* takes its place. A codec that is already restarting is not restarted again.
CandidateNext(d, k) ==
    LET res == Reassemble(CandidateFor(d.epoch), d, k) IN
    /\ running /\ phase = "recv"
    /\ session.active # 0
    /\ CompletesRealIdr(d, k)
    /\ ~(restart.pending /\ restart.ready)
    /\ session' = Observed(session, d.epoch)
    /\ cand' = res.r
    /\ pendingIdr' = res.out
    /\ IF restart.pending
       THEN UNCHANGED <<running, restart, ref, real, decoder>>
       ELSE RequireReferenceSync /\ RestartDecoder
    /\ Idle
    /\ UNCHANGED <<sent, starts, active>>

\* The codec was restarted for an epoch that a newer candidate has replaced:
\* the newer one's IDR is committed as soon as it is complete.
CandidateAfterRestart(d, k) ==
    LET res == Reassemble(CandidateFor(d.epoch), d, k)
        s   == Observed(session, d.epoch)
    IN
    /\ running /\ phase = "recv"
    /\ session.active # 0
    /\ CompletesRealIdr(d, k)
    /\ restart.pending /\ restart.ready
    /\ cand' = res.r
    /\ pendingIdr' = NoAu
    /\ IF CanCommit(s, d.epoch)
       THEN Commit(decoder, s, res.out) /\ restart' = NoRestart
       ELSE session' = s /\ UNCHANGED <<running, active, restart, ref, real, decoder>>
    /\ Idle
    /\ UNCHANGED <<sent, starts>>

\* The loop takes the completion of a codec restart: a failed one ends it, a
\* successful one commits the pending IDR, or waits for one to be completed.
TakeRestartCompletion ==
    LET taken == [decoder EXCEPT !.completion = "none"] IN
    /\ running /\ phase = "recv"
    /\ restart.pending
    /\ \/ /\ decoder.completion = "failed"
          /\ running' = FALSE
          /\ decoder' = taken
          /\ UNCHANGED <<session, active, pendingIdr, restart, ref, real>>
       \/ /\ decoder.completion = "succeeded"
          /\ pendingIdr = NoAu
          /\ restart' = [restart EXCEPT !.ready = TRUE]
          /\ decoder' = taken
          /\ UNCHANGED <<running, session, active, pendingIdr, ref, real>>
       \/ /\ decoder.completion = "succeeded"
          /\ pendingIdr # NoAu
          /\ pendingIdr' = NoAu
          /\ IF CanCommit(session, pendingIdr.epoch)
             THEN Commit(taken, session, pendingIdr) /\ restart' = NoRestart
             ELSE /\ restart' = [restart EXCEPT !.ready = TRUE]
                  /\ decoder' = taken
                  /\ UNCHANGED <<running, session, active, ref, real>>
    /\ Idle
    /\ UNCHANGED <<sent, starts, cand>>

\* has_stream_restart_timed_out, seen while the socket is idle: the loop ends.
RestartTimeout ==
    /\ running /\ phase = "recv"
    /\ decoder.restarting
    /\ decoder' = TimedOut(decoder)
    /\ running' = FALSE
    /\ UNCHANGED <<sent, starts, thread>>

-----------------------------------------------------------------------------
(* The active path *)

\* A fragment of the active epoch is reassembled. A loss drops the access unit
\* that may have been completed with it, closes the reference chain and starts
\* the reassembler over. During a codec restart the fragment is dropped.
ActiveDatagram(d, k) ==
    LET res == Reassemble(active, d, k) IN
    /\ running /\ phase = "recv"
    /\ Decision(session, d.epoch) = "active"
    /\ ~restart.pending
    /\ Expirable(active, PushPayload(active, d), k)
    /\ IF res.lost
       THEN RequireReferenceSync /\ active' = Rebuilt(session.active, None)
       ELSE UNCHANGED <<ref, real>> /\ active' = res.r
    /\ completed' = IF res.lost THEN NoAu ELSE res.out
    /\ phase' = "drain"
    /\ UNCHANGED <<sent, running, starts, session, cand, pendingIdr, restart, decoder>>

\* One turn of the drain loop that the decoder accepts: the next access unit in
\* sequence is popped.
DrainAccepted ==
    LET next == PopCompleted(active, FALSE) IN
    /\ running /\ phase = "drain" /\ completed # NoAu
    /\ SubmitAccepted(decoder, ref, real, completed)
    /\ active' = next.r
    /\ completed' = next.out
    /\ UNCHANGED <<sent, running, starts, session, cand, pendingIdr, restart, phase>>

\* The turn that ends it: the access unit is refused and the frames that depend
\* on it are flushed. A fatal decoder failure, or a restart that timed out, ends
\* the receive loop.
DrainRefused ==
    LET submitted == Admitted(ref, completed) /\ RepeatAdmitted(real, completed) IN
    /\ running /\ phase = "drain" /\ completed # NoAu
    /\ SubmitRefused(ref, real, completed)
    /\ completed' = NoAu
    /\ \/ /\ submitted /\ decoder.broken
          /\ running' = FALSE
          /\ UNCHANGED <<active, decoder>>
       \/ /\ submitted /\ decoder.restarting
          /\ running' = FALSE
          /\ decoder' = TimedOut(decoder)
          /\ UNCHANGED active
       \/ /\ ~(submitted /\ decoder.broken)
          /\ active' = Rebuilt(session.active, None)
          /\ UNCHANGED <<running, decoder>>
    /\ UNCHANGED <<sent, starts, session, cand, pendingIdr, restart, phase>>

\* The end of the handling of a datagram: observe_fragment may ask for an IDR,
\* after a loss, a refusal, a stall or a change of the sender's port.
FinishDatagram ==
    /\ running /\ phase = "drain" /\ completed = NoAu
    /\ \/ UNCHANGED <<active, ref, real>>
       \/ /\ RequireReferenceSync
          /\ active' = Rebuilt(session.active, None)
    /\ phase' = "recv"
    /\ UNCHANGED <<sent, running, starts, session, cand, pendingIdr, restart,
                   completed, decoder>>

\* The socket is silent: observe_idle asks for an IDR.
IdleRecovery ==
    /\ running /\ phase = "recv"
    /\ ~restart.pending
    /\ RequireReferenceSync
    /\ active' = Rebuilt(session.active, None)
    /\ Idle
    /\ UNCHANGED <<sent, running, starts, session, cand, pendingIdr, restart, decoder>>

-----------------------------------------------------------------------------
(* The Java side of the decoder *)

\* A fatal codec error is reported by discard_java_decoded_output.
CodecFails ==
    /\ ~decoder.broken
    /\ decoder' = [decoder EXCEPT !.broken = TRUE]
    /\ UNCHANGED <<sent, running, starts, thread>>

\* Mutant: a completion is taken for the awaited one whatever its generation.
CompleteStreamRestartAny(g, ok) ==
    /\ g \in decoder.java
    /\ decoder' =
         IF decoder.restarting
         THEN [decoder EXCEPT !.java = @ \ {g}, !.restarting = FALSE,
                              !.completion = IF ok THEN "succeeded" ELSE "failed",
                              !.broken = ~ok]
         ELSE [decoder EXCEPT !.java = @ \ {g}]
    /\ UNCHANGED <<sent, running, starts, thread>>

\* complete_stream_restart: only the restart that native still waits for counts.
CompleteStreamRestart(g, ok) ==
    /\ g \in decoder.java
    /\ decoder' =
         IF g = decoder.gen /\ decoder.restarting
         THEN [decoder EXCEPT !.java = @ \ {g}, !.restarting = FALSE,
                              !.completion = IF ok THEN "succeeded" ELSE "failed",
                              !.broken = ~ok]
         ELSE [decoder EXCEPT !.java = @ \ {g}]
    /\ UNCHANGED <<sent, running, starts, thread>>

-----------------------------------------------------------------------------
Receive ==
    \/ \E d \in Datagrams, k \in 0 .. MaxInflight :
          \/ CandidateIncomplete(d, k)
          \/ CandidateFirst(d, k)
          \/ CandidateNext(d, k)
          \/ CandidateAfterRestart(d, k)
          \/ ActiveDatagram(d, k)
    \/ TakeRestartCompletion
    \/ RestartTimeout
    \/ DrainAccepted
    \/ DrainRefused
    \/ FinishDatagram
    \/ IdleRecovery

Next ==
    \/ \E e \in Epochs, k \in Kinds : HostSend(e, k)
    \/ Start
    \/ Stop
    \/ Receive
    \/ CodecFails
    \/ \E g \in decoder.java, ok \in BOOLEAN : CompleteStreamRestart(g, ok)

Spec == Init /\ [][Next]_vars

-----------------------------------------------------------------------------
(* Properties *)

Frames == [epoch : 0 .. MaxEpoch, seq : None .. MaxSeq, idr : BOOLEAN]
Aus    == [epoch : 0 .. MaxEpoch, seq : None .. MaxSeq, rep : BOOLEAN, idr : BOOLEAN]

(* The values of the variables; pending frames never exceed their limit.     *)
TypeOK ==
    /\ sent \in [Epochs -> Seq(Kinds)]
    /\ running \in BOOLEAN
    /\ starts \in 0 .. MaxStarts
    /\ session \in [active : 0 .. MaxEpoch, candidate : 0 .. MaxEpoch,
                    retired : 0 .. MaxEpoch]
    /\ \A r \in {active, cand} :
          /\ r.epoch \in 0 .. MaxEpoch
          /\ r.last \in None .. MaxSeq
          /\ Len(r.pending) <= MaxInflight
    /\ pendingIdr \in Aus
    /\ completed \in Aus
    /\ restart \in [pending : BOOLEAN, ready : BOOLEAN]
    /\ ref \in [awaiting : BOOLEAN, last : None .. MaxSeq]
    /\ real \in BOOLEAN
    /\ phase \in {"recv", "drain"}
    /\ decoder.completion \in {"none", "succeeded", "failed"}
    /\ decoder.last \in Frames
    /\ decoder.java \subseteq 1 .. decoder.gen

(* H.264 prediction: a frame that is not an IDR reaches the codec only when  *)
(* the frame before it, of the same epoch, is the last one that very codec   *)
(* instance took. The policies that decide it know neither the epoch nor the *)
(* codec (submit_completed_access_unit).                                     *)
ChainStep ==
    (decoder'.last # decoder.last /\ decoder'.last # NoFrame /\ ~decoder'.last.idr)
       => /\ decoder.last.epoch = decoder'.last.epoch
          /\ decoder.last.seq + 1 = decoder'.last.seq

ReferenceChain == [][ChainStep]_vars

(* While the reference-sync policy is open it describes the codec exactly:   *)
(* the last frame it recorded is the last one the codec took, of the active  *)
(* epoch, and the active reassembler resumes right behind it.                *)
PolicyTracksCodec ==
    running /\ ~ref.awaiting =>
        /\ real
        /\ decoder.last.epoch = session.active
        /\ decoder.last.seq = ref.last
        /\ ~restart.pending
        /\ active.last = IF completed = NoAu THEN ref.last ELSE completed.seq

(* The session's watermark is behind its candidate, the candidate ahead of   *)
(* the active epoch: what makes observe() and commit_candidate() monotonic.  *)
Ordered(s) ==
    /\ s \in [active : 0 .. MaxEpoch, candidate : 0 .. MaxEpoch,
              retired : 0 .. MaxEpoch]
    /\ s.candidate # 0 => s.candidate > s.active /\ s.candidate > s.retired

(* The records the handlers update field by field keep their fields.         *)
IsReassembler(r) == r = [epoch |-> r.epoch, last |-> r.last, pending |-> r.pending]
IsDecoder(d) ==
    d = [gen |-> d.gen, base |-> d.base, restarting |-> d.restarting,
         completion |-> d.completion, broken |-> d.broken, java |-> d.java,
         last |-> d.last]

Shapes ==
    /\ IsReassembler(active)
    /\ IsReassembler(cand)
    /\ IsDecoder(decoder)
    /\ starts \in Nat
    /\ restart \in [pending : BOOLEAN, ready : BOOLEAN]

(* Where the loop is: an access unit is held only while a datagram of the    *)
(* active epoch is handled, and it is the last one reassembled; a codec      *)
(* restart replaces an active epoch and waits with nothing but an IDR.       *)
LoopInv ==
    /\ active.epoch = session.active
    /\ phase \in {"recv", "drain"}
    /\ phase = "recv" => completed = NoAu
    /\ phase = "drain" => session.active # 0 /\ ~restart.pending
    /\ completed # NoAu => completed.epoch = session.active /\ completed.seq = active.last
    /\ pendingIdr # NoAu => pendingIdr.idr
    /\ restart.pending => session.active # 0

(* The inductive invariant behind PolicyTracksCodec and ReferenceChain.      *)
IndInv == Ordered(session) /\ Shapes /\ LoopInv /\ PolicyTracksCodec

(* A new epoch becomes active only with a complete, real IDR of that epoch,  *)
(* and the codec that gets it was restarted since it served an older epoch;  *)
(* otherwise the receiver has stopped.                                       *)
OpeningIsReal ==
    (session'.active # session.active /\ session'.active # 0 /\ running')
       => /\ decoder'.last.epoch = session'.active
          /\ decoder'.last.idr
          /\ sent[session'.active][decoder'.last.seq + 1] = "idr"
          /\ decoder.last = NoFrame \/ session.active = 0

(* What a candidate epoch sends never disturbs the active stream before its  *)
(* IDR is complete: reassembly, reference chain and codec stay as they were. *)
CandidateIsolation ==
    (/\ running /\ running'
     /\ session.active # 0 /\ session'.active = session.active
     /\ cand' # cand
     /\ pendingIdr' \in {pendingIdr, NoAu})
       => UNCHANGED <<active, ref, real, restart, decoder>>

(* Inside one run of the receive thread the active epoch never goes back and *)
(* a retired epoch is never observed as a candidate or as active again.      *)
EpochStep ==
    starts' = starts =>
       /\ session'.active >= session.active
       /\ session'.retired >= session.retired
       /\ session'.candidate # session.candidate /\ session'.candidate # 0
            => session'.candidate > session.retired
               /\ session'.candidate > session.active

(* When native believes that a codec restart has succeeded, the codec really *)
(* is in place: a late completion of an abandoned restart never passes for   *)
(* the one that is awaited (complete_stream_restart).                        *)
CompletionIsCurrent ==
    decoder.completion = "succeeded" => ~Busy(decoder)

(* An epoch changes in one step, with its real IDR; what its fragments do    *)
(* before that step leaves the stream that plays alone; and no step goes     *)
(* back to an epoch that was left (observe, commit_restarted_candidate).     *)
EpochSwitch == [][OpeningIsReal /\ CandidateIsolation /\ EpochStep]_vars

(* Between any two steps the receiver, its policies and the decoder's restart *)
(* agree about what the codec holds.                                         *)
ReceiverInv == TypeOK /\ IndInv /\ CompletionIsCurrent
=============================================================================
