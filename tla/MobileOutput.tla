---------------------------- MODULE MobileOutput ----------------------------
(***************************************************************************)
(* The APP behind its receiver: decoder restart, the decoded-frame and     *)
(* inference queues, the inference worker and the delivery of its results  *)
(* to the output device (NativeH264Decoder.cpp, MakcuMoveBridge.cpp with   *)
(* the gates of OutputGate, and the Java serial controller they call).     *)
(* What a result asks for is left open: whether a frame yields a command   *)
(* is a nondeterministic choice, the numerics are not modelled.            *)
(*                                                                         *)
(* Threads: "worker" runs inference_loop, "receiver" the network thread    *)
(* that restarts the decoder, "codec" the Java decoder's callbacks,        *)
(* "serial" the Java writer, "link" USB callbacks and the reader, "ui" the *)
(* output coordinator and the service that starts and stops the session.   *)
(* Every action is one critical section.  Three locks are held across      *)
(* several of them: the decoder's mutex_, g_publish_mutex and the serial   *)
(* I/O lock (held while io is not 0 by "serial").                          *)
(***************************************************************************)
EXTENDS OutputGate, InferenceBackend

CONSTANTS
    Tickets,        \* ticket numbers; one nobody holds is used again
    MaxGen,         \* bound on stream generations
    MaxFaults       \* bound on failures, stream discontinuities and requests
                    \* of the user to stop or to disable output

\* There is a ticket beside the one in the mailbox and the one with the writer.
ASSUME OutputAssumption ==
    /\ MaxGen \in Nat /\ MaxFaults \in Nat
    /\ Tickets \subseteq Nat \ {Zero}
    /\ \A a, b \in Tickets : \E t \in Tickets : t \notin {a, b}
    /\ Tickets # {}

Threads == {"worker", "receiver", "codec", "serial", "link", "ui"}

VARIABLES
    dec,        \* decoder: generation, restart, failure, generation to resume
    coded,      \* the frame in MediaCodec (pending_frames_) or in the output
                \* callback, which preprocesses it without the lock
    queue,      \* pending_inference_frames_, capacity one
    exec,       \* the frame the worker holds
    free,       \* buffers in free_model_inputs_
    job,        \* generation of the restart Java works on, 0 if none
    active,     \* MakcuStreamGenerationGate
    gate,       \* MakcuOutputGate
    ticket,     \* MakcuMoveCommitGate
    armed,      \* MakcuMoveVisibilityGate
    java,       \* MakcuDeliveryGate
    slot,       \* MakcuPendingMoveSlot: a ticket or 0
    io,         \* the ticket being written under the serial I/O lock or 0
    held,       \* ticket number in the hands of "worker" and of "serial"
    pc,         \* where each thread is
    close,      \* where a thread is inside fail_closed_bridge
    lock,       \* holders of mutex_ and of g_publish_mutex
    backend,    \* the inference router
    faults,
    unseen      \* an acknowledged command whose effect no offered frame showed

decoderVars == <<dec, coded, queue, exec, free, job>>
gateVars == <<active, gate, ticket, armed>>
javaVars == <<java, slot, io>>
outputVars == <<decoderVars, gateVars, javaVars, held, pc, close, lock, backend, faults, unseen>>

NoFrame == [gen |-> Zero, fresh |-> FALSE]

NewDecoder == [gen |-> 0, restarting |-> FALSE, failed |-> FALSE, resume |-> Zero, running |-> FALSE]

OutputInit ==
    /\ dec = NewDecoder
    /\ coded = NoFrame /\ queue = NoFrame /\ exec = NoFrame
    /\ free = 2 /\ job = Zero
    /\ active = Zero /\ gate = ClosedGate /\ ticket = NoTicket /\ armed = FALSE
    /\ java = ClosedDelivery(TRUE) /\ slot = Zero /\ io = Zero
    /\ held = [worker |-> Zero, serial |-> Zero]
    /\ pc = [t \in Threads |-> "idle"]
    /\ close = [t \in Threads |-> "no"]
    /\ lock = [decoder |-> "nobody", publish |-> "nobody"]
    /\ backend = NoBackend
    /\ faults = 0
    /\ unseen = FALSE

\* A step that goes well costs nothing, a failure one unit of the bound.
Spend(ok) == IF ok THEN faults' = faults ELSE faults < MaxFaults /\ faults' = faults + 1

At(t, p) == pc[t] = p /\ close[t] = "no"
Goto(t, p) == pc' = [pc EXCEPT ![t] = p]
MutexFree == lock.decoder = "nobody"
PublishFree == lock.publish = "nobody"

\* is_current_stream_generation_locked.
CurrentGeneration(gen) == gen # Zero /\ gen = dec.gen /\ ~dec.restarting /\ ~dec.failed

\* The buffer of a dropped frame goes back; recycle_pending_inference_frames.
Recycled(n, f) == IF f = NoFrame THEN n ELSE n + 1

\* A frame that is already on its way when a command is acknowledged was not
\* received after it.
Aged(f) == [f EXCEPT !.fresh = FALSE]

-----------------------------------------------------------------------------
(* fail_closed_bridge: the native gates one after another, then Java.  The *)
(* thread keeps the locks it holds until the end.                          *)

\* A lifecycle close also forgets the stream; that is the first store.
StartClose(t, lifecycle) ==
    /\ close' = [close EXCEPT ![t] = "output"]
    /\ active' = IF lifecycle THEN Zero ELSE active

CloseOutput(t) ==
    /\ close[t] = "output"
    /\ gate' = ClosedGate
    /\ close' = [close EXCEPT ![t] = "commit"]
    /\ UNCHANGED <<decoderVars, active, ticket, armed, javaVars, held, pc, lock, backend, faults, unseen>>

CloseCommit(t) ==
    /\ close[t] = "commit"
    /\ ticket' = NoTicket
    /\ close' = [close EXCEPT ![t] = "visibility"]
    /\ UNCHANGED <<decoderVars, active, gate, armed, javaVars, held, pc, lock, backend, faults, unseen>>

CloseVisibility(t) ==
    /\ close[t] = "visibility"
    /\ armed' = FALSE
    /\ unseen' = FALSE
    /\ close' = [close EXCEPT ![t] = "java"]
    /\ UNCHANGED <<decoderVars, active, gate, ticket, javaVars, held, pc, lock, backend, faults>>

\* failClosed(): closed at once, then drained behind a write in progress.
CloseJava(t) ==
    /\ close[t] = "java"
    /\ java' = ClosedDelivery(java.ready)
    /\ slot' = Zero
    /\ close' = [close EXCEPT ![t] = "drain"]
    /\ UNCHANGED <<decoderVars, gateVars, io, held, pc, lock, backend, faults, unseen>>

\* The writer owns the I/O lock already.  After a failed write it closes a
\* second time, with the protocol invalidated.
Reenters(t) == t = "serial" /\ pc[t] = "invalidate"

CloseDrain(t) ==
    /\ close[t] = "drain"
    /\ io = Zero \/ t = "serial"
    /\ slot' = Zero
    /\ close' = [close EXCEPT ![t] = IF Reenters(t) THEN "output" ELSE "no"]
    /\ pc' = [pc EXCEPT ![t] = IF t = "serial" THEN (IF Reenters(t) THEN "done" ELSE "idle") ELSE @]
    /\ java' = IF Reenters(t) THEN [java EXCEPT !.ready = FALSE] ELSE java
    /\ io' = IF t = "serial" /\ ~Reenters(t) THEN Zero ELSE io
    /\ held' = IF t = "serial" /\ ~Reenters(t) THEN [held EXCEPT !.serial = Zero] ELSE held
    /\ lock' = [l \in DOMAIN lock |-> IF lock[l] = t THEN "nobody" ELSE lock[l]]
    /\ UNCHANGED <<decoderVars, gateVars, backend, faults, unseen>>

FailClosedStep(t) ==
    CloseOutput(t) \/ CloseCommit(t) \/ CloseVisibility(t) \/ CloseJava(t) \/ CloseDrain(t)
-----------------------------------------------------------------------------
(* The session: a backend, then the decoder, then frames; stopped in the   *)
(* reverse order.                                                          *)

PrepareBackend ==
    /\ At("ui", "idle") /\ ~dec.running /\ backend.active = "none"
    /\ \E reached \in Library..Ready, partial \in BOOLEAN :
          /\ partial => reached = Device
          /\ Spend(reached = Ready)
          /\ backend' = PrepareInference(backend, reached, partial)
    /\ UNCHANGED <<decoderVars, gateVars, javaVars, held, pc, close, lock, unseen>>

\* configure_for_inference() after its stop(): a new generation, no frames,
\* all buffers free.
ConfigureForInference ==
    /\ At("ui", "idle") /\ ~dec.running /\ CanExecute(backend)
    /\ MutexFree /\ PublishFree
    /\ dec.gen < MaxGen
    /\ dec' = [NewDecoder EXCEPT !.gen = dec.gen + 1, !.running = TRUE]
    /\ active' = dec.gen + 1
    /\ coded' = NoFrame /\ queue' = NoFrame /\ free' = 2
    /\ UNCHANGED <<exec, job, gate, ticket, armed, javaVars, held, pc, close, lock, backend, faults, unseen>>

\* stop(): output off, workers told to leave and the queue recycled; the
\* receiver thread has been joined before.
StopBegin ==
    /\ At("ui", "idle") /\ dec.running /\ At("receiver", "idle")
    /\ Spend(dec.failed)
    /\ PublishFree
    /\ lock' = [lock EXCEPT !.publish = "ui"]
    /\ StartClose("ui", TRUE)
    /\ Goto("ui", "stopping")
    /\ UNCHANGED <<decoderVars, gate, ticket, armed, javaVars, held, backend, unseen>>

StopWorkers ==
    /\ At("ui", "stopping")
    /\ dec' = [dec EXCEPT !.running = FALSE]
    /\ free' = Recycled(free, queue)
    /\ queue' = NoFrame
    /\ Goto("ui", "joining")
    /\ UNCHANGED <<coded, exec, job, gateVars, javaVars, held, close, lock, backend, faults, unseen>>

\* The joins have returned and no output callback runs.
StopEnd ==
    /\ At("ui", "joining") /\ At("worker", "idle") /\ MutexFree
    /\ dec' = [dec EXCEPT !.gen = IF @ < MaxGen THEN @ + 1 ELSE @, !.restarting = FALSE, !.resume = Zero]
    /\ coded' = NoFrame
    /\ backend' = ReleaseAll(backend)
    /\ Goto("ui", "idle")
    /\ UNCHANGED <<queue, exec, free, job, gateVars, javaVars, held, close, lock, faults, unseen>>

-----------------------------------------------------------------------------
(* Frames: into MediaCodec, decoded and preprocessed without the lock,     *)
(* queued latest-wins.                                                     *)

Submit ==
    /\ At("receiver", "idle") /\ dec.running /\ ~dec.failed /\ MutexFree /\ coded = NoFrame
    /\ coded' = [gen |-> dec.gen, fresh |-> TRUE]
    /\ UNCHANGED <<dec, queue, exec, free, job, gateVars, javaVars, held, pc, close, lock, backend, faults, unseen>>

\* An access unit Java rejects or drops, a rejected output and a repeat leave
\* the ledger; a fatal one fails the decoder.
DiscardFrame ==
    /\ coded # NoFrame /\ MutexFree
    /\ coded' = NoFrame
    /\ \E fatal \in BOOLEAN : dec' = [dec EXCEPT !.failed = @ \/ fatal]
    /\ Spend(FALSE)
    /\ UNCHANGED <<queue, exec, free, job, gateVars, javaVars, held, pc, close, lock, backend, unseen>>

\* The end of process_java_yuv420(): a frame of another generation is stale;
\* the queue has one place and the newest frame wins.
QueueFrame ==
    /\ coded # NoFrame /\ MutexFree
    /\ coded' = NoFrame
    /\ IF ~dec.running \/ ~CurrentGeneration(coded.gen) THEN UNCHANGED <<queue, free>>
       ELSE /\ queue' = IF queue = NoFrame /\ free = 0 THEN NoFrame ELSE coded
            /\ free' = IF queue = NoFrame /\ free > 0 THEN free - 1 ELSE free
    /\ UNCHANGED <<dec, exec, job, gateVars, javaVars, held, pc, close, lock, backend, faults, unseen>>

-----------------------------------------------------------------------------
(* inference_loop.                                                         *)

TakeFrame ==
    /\ At("worker", "idle") /\ dec.running /\ queue # NoFrame
    /\ exec' = queue /\ queue' = NoFrame
    /\ Goto("worker", "run")
    /\ UNCHANGED <<dec, coded, free, job, gateVars, javaVars, held, close, lock, backend, faults, unseen>>

\* The worker is done with its frame.
Recycle == exec' = NoFrame /\ free' = free + 1

\* A frame that is stale, too old or whose inference failed, and any frame of
\* a stopping session, is dropped.
DropFrame ==
    /\ At("worker", "run") /\ MutexFree
    /\ Spend(~dec.running \/ ~CurrentGeneration(exec.gen))
    /\ Recycle
    /\ Goto("worker", "idle")
    /\ UNCHANGED <<dec, coded, queue, job, gateVars, javaVars, held, close, lock, backend, unseen>>

\* commit_qnn_success(): the first committed frame of a restarted stream may
\* release the recovery hold.
CommitSuccess ==
    /\ At("worker", "run") /\ MutexFree /\ dec.running
    /\ CurrentGeneration(exec.gen) /\ CanExecute(backend)
    /\ dec' = [dec EXCEPT !.resume = IF @ = exec.gen THEN Zero ELSE @]
    /\ Goto("worker", IF dec.resume = exec.gen THEN "resume" ELSE "publish")
    /\ UNCHANGED <<coded, queue, exec, free, job, gateVars, javaVars, held, close, lock, backend, faults, unseen>>

\* resume_makcu_output_after_valid_frame(), native half: "reopen" remembers
\* that the native gate would deliver, "reclose" that it would not.
ResumeNative ==
    /\ At("worker", "resume")
    /\ IF RecoverySuspendedFor(gate, exec.gen)
       THEN /\ gate' = CompleteRecovery(gate)
            /\ Goto("worker", IF ResumeOutput(gate) THEN "reopen" ELSE "reclose")
       ELSE gate' = gate /\ Goto("worker", "publish")
    /\ UNCHANGED <<decoderVars, active, ticket, armed, javaVars, held, close, lock, backend, faults, unseen>>

\* Java half, behind the serial I/O lock.
ResumeJava ==
    /\ pc["worker"] \in {"reopen", "reclose"} /\ close["worker"] = "no" /\ io = Zero
    /\ java' = ResumeDelivery(java, exec.gen)
    /\ slot' = Zero
    /\ IF pc["worker"] = "reopen" /\ ResumesDelivery(java, exec.gen)
       THEN UNCHANGED <<close, active>>
       ELSE StartClose("worker", FALSE)
    /\ Goto("worker", "publish")
    /\ UNCHANGED <<decoderVars, gate, ticket, armed, io, held, lock, backend, faults, unseen>>
-----------------------------------------------------------------------------
(* publish_makcu_move_for_detections, under g_publish_mutex.               *)

\* The worker returns to its loop with the frame's buffer given back.
EndFrame == Recycle /\ Goto("worker", "idle")

Publish ==
    /\ At("worker", "publish") /\ PublishFree
    /\ \E hasMove, timedOut \in BOOLEAN :
       LET seen == EvaluateVisibility(armed, exec, timedOut)
           looked == active = exec.gen /\ ticket.id = Zero
           expired == active = exec.gen /\ OlderThanMaximum(ticket)
           failed == expired \/ (looked /\ seen = "timed_out")
           offers == looked /\ seen \in {"open", "became_visible"} /\ hasMove /\ OutputEnabled(gate)
       IN  /\ Spend(~(armed /\ timedOut))
           /\ ticket' = IF expired THEN NoTicket ELSE ticket
           /\ armed' = (armed /\ ~(looked /\ seen \in {"became_visible", "timed_out"}))
           /\ unseen' = (unseen /\ ~(looked /\ exec.fresh))
           /\ lock' = [lock EXCEPT !.publish = IF failed \/ offers THEN "worker" ELSE @]
           /\ IF failed THEN StartClose("worker", FALSE) ELSE UNCHANGED <<close, active>>
           /\ IF offers THEN Goto("worker", "begin") /\ UNCHANGED <<exec, free>> ELSE EndFrame
    /\ UNCHANGED <<dec, coded, queue, job, gate, javaVars, held, backend>>

\* Tickets are compared for equality only: one that nobody holds is new.
FreshTicket == CHOOSE t \in Tickets : t \notin {ticket.id, slot, io, held.worker, held.serial}

BeginMove ==
    /\ At("worker", "begin")
    /\ ticket' = BeginTicket(ticket, FreshTicket, exec.gen)
    /\ held' = [held EXCEPT !.worker = FreshTicket]
    /\ Goto("worker", "offer")
    /\ UNCHANGED <<decoderVars, active, gate, armed, javaVars, close, lock, backend, faults, unseen>>

\* execute_if_enabled(): the last authorization check and the offer to Java
\* are one critical section.
OfferMove ==
    /\ At("worker", "offer")
    /\ \E spent \in BOOLEAN :       \* no dispatch budget is left
       LET authorized == OutputEnabled(gate)
           accepted == ~spent /\ authorized /\ DeliveryAllowed(java)
           failed == spent \/ (authorized /\ ~accepted)
       IN  /\ Spend(~spent)
           /\ slot' = IF accepted THEN held.worker ELSE slot
           /\ ticket' = IF accepted THEN ticket ELSE CompleteTicket(ticket, held.worker)
           /\ lock' = [lock EXCEPT !.publish = IF failed THEN @ ELSE "nobody"]
           /\ IF failed THEN StartClose("worker", FALSE) ELSE UNCHANGED <<close, active>>
    /\ held' = [held EXCEPT !.worker = Zero]
    /\ EndFrame
    /\ UNCHANGED <<dec, coded, queue, job, gate, armed, java, io, backend, unseen>>

-----------------------------------------------------------------------------
(* The serial writer and what it reports.                                  *)

TakeMove ==
    /\ At("serial", "idle") /\ slot # Zero
    /\ held' = [held EXCEPT !.serial = slot]
    /\ slot' = Zero
    /\ Goto("serial", "taken")
    /\ UNCHANGED <<decoderVars, gateVars, java, io, close, lock, backend, faults, unseen>>

\* writeMoveIfStillAllowed(): the gate again, now under the I/O lock.  A move
\* that recovery cancelled is not reported at all.
StartWrite ==
    /\ At("serial", "taken") /\ io = Zero
    /\ \E late \in BOOLEAN :
          /\ Spend(~late)
          /\ Goto("serial", CASE late -> "reject"
                              [] ~late /\ DeliveryAllowed(java) -> IF java.ready THEN "writing" ELSE "nack"
                              [] ~late /\ ~DeliveryAllowed(java) -> IF java.susp THEN "idle" ELSE "reject")
          /\ io' = IF pc'["serial"] = "idle" THEN Zero ELSE held.serial
    /\ held' = IF pc'["serial"] = "idle" THEN [held EXCEPT !.serial = Zero] ELSE held
    /\ UNCHANGED <<decoderVars, gateVars, java, slot, close, lock, backend, unseen>>

EndWrite ==
    /\ At("serial", "writing")
    /\ \E ack \in BOOLEAN : Spend(ack) /\ Goto("serial", IF ack THEN "ack" ELSE "nack")
    /\ UNCHANGED <<decoderVars, gateVars, javaVars, held, close, lock, backend, unseen>>

\* The writer lets go of the I/O lock.
EndSerial ==
    /\ io' = Zero /\ held' = [held EXCEPT !.serial = Zero]
    /\ Goto("serial", "idle")

\* report_makcu_move_result() with an acknowledgement, and
\* report_bluetooth_hid_move_accepted(): the barrier is armed before the
\* ticket is cleared.  A ticket that reached its deadline fails instead.
ReportAck ==
    /\ At("serial", "ack")
    /\ IF DeadlineReached(ticket)
       THEN /\ ticket' = NoTicket /\ StartClose("serial", FALSE)
            /\ UNCHANGED <<armed, unseen, coded, queue, exec, io, held, pc>>
       ELSE /\ UNCHANGED <<close, active>>
            /\ IF TicketMatches(ticket, held.serial)
               THEN /\ armed' = TRUE /\ unseen' = TRUE
                    /\ coded' = Aged(coded) /\ queue' = Aged(queue) /\ exec' = Aged(exec)
                    /\ ticket' = NoTicket
               ELSE UNCHANGED <<armed, unseen, coded, queue, exec, ticket>>
            /\ EndSerial
    /\ UNCHANGED <<dec, free, job, gate, java, slot, lock, backend, faults>>

\* ... with a failure: authorization is revoked while the ticket is still
\* owned, then everything is closed.  A ticket that is not the current one is
\* ignored.  After a failed write the writer also gives up the protocol and
\* closes once more, whatever the native side made of the report.
ReportFailure ==
    /\ pc["serial"] \in {"reject", "nack"} /\ close["serial"] = "no"
    /\ LET due == DeadlineReached(ticket)
           mine == due \/ TicketMatches(ticket, held.serial)
           broken == pc["serial"] = "nack"
       IN  /\ ticket' = IF mine THEN NoTicket ELSE ticket
           /\ gate' = IF mine /\ ~due THEN RevokeImmediately(gate) ELSE gate
           /\ IF mine \/ broken
              THEN /\ StartClose("serial", FALSE)
                   /\ Goto("serial", IF mine /\ broken THEN "invalidate" ELSE "done")
                   /\ UNCHANGED <<io, held>>
              ELSE EndSerial /\ UNCHANGED <<close, active>>
           /\ java' = IF broken /\ ~mine THEN [java EXCEPT !.ready = FALSE] ELSE java
    /\ UNCHANGED <<decoderVars, armed, slot, lock, backend, faults, unseen>>

\* Time passes for the command in flight.  One that is being handled gets
\* old only when something goes wrong.
Orphaned == ticket.id \notin {slot, io, held.worker, held.serial}

AgeTicket ==
    /\ ticket.id # Zero /\ ticket.age # "late"
    /\ Spend(Orphaned)
    /\ ticket' = [ticket EXCEPT !.age = IF @ = "young" THEN "due" ELSE "late"]
    /\ UNCHANGED <<decoderVars, active, gate, armed, javaVars, held, pc, close, lock, backend, unseen>>

\* The trigger is released: the reader revokes delivery without the I/O lock
\* and reports the command it took out of the mailbox.
TriggerReleased ==
    /\ At("link", "idle")
    /\ Spend(FALSE)
    /\ java' = SetAllowed(java, FALSE)
    /\ slot' = Zero
    /\ IF slot # Zero /\ (DeadlineReached(ticket) \/ TicketMatches(ticket, slot))
       THEN /\ gate' = IF DeadlineReached(ticket) THEN gate ELSE RevokeImmediately(gate)
            /\ ticket' = NoTicket
            /\ StartClose("link", FALSE)
       ELSE UNCHANGED <<gate, ticket, close, active>>
    /\ UNCHANGED <<decoderVars, armed, io, held, pc, lock, backend, unseen>>

\* closeActiveTransport(): delivery closed, the transport gone, then native.
LinkLost ==
    /\ At("link", "idle") /\ io = Zero /\ java.ready
    /\ Spend(FALSE)
    /\ java' = ClosedDelivery(FALSE)
    /\ slot' = Zero
    /\ StartClose("link", FALSE)
    /\ UNCHANGED <<decoderVars, gate, ticket, armed, io, held, pc, lock, backend, unseen>>

Reconnect ==
    /\ At("link", "idle") /\ ~java.ready /\ io = Zero
    /\ java' = [java EXCEPT !.ready = TRUE]
    /\ UNCHANGED <<decoderVars, gateVars, slot, io, held, pc, close, lock, backend, faults, unseen>>
-----------------------------------------------------------------------------
(* Decoder restart after a stream discontinuity.                           *)

\* restart_after_stream_discontinuity(): a request during a restart is
\* merged with it.  mutex_ stays held until output is suspended.
RestartBegin ==
    /\ At("receiver", "idle") /\ dec.running /\ pc["ui"] # "stopping" /\ pc["ui"] # "joining"
    /\ MutexFree /\ ~dec.restarting /\ dec.gen < MaxGen
    /\ Spend(FALSE)
    /\ dec' = [dec EXCEPT !.gen = @ + 1, !.restarting = TRUE, !.failed = FALSE, !.resume = Zero]
    /\ coded' \in {coded, NoFrame}     \* in the callback, or in the ledger
    /\ lock' = [lock EXCEPT !.decoder = "receiver"]
    /\ Goto("receiver", "suspend")
    /\ UNCHANGED <<queue, exec, free, job, gateVars, javaVars, held, close, backend, unseen>>

\* suspend_makcu_output_for_recovery(): native gate, Java gate, and when no
\* write is in progress any more the ticket and the barrier.
SuspendNative ==
    /\ At("receiver", "suspend") /\ PublishFree
    /\ lock' = [lock EXCEPT !.publish = "receiver"]
    /\ active' = dec.gen
    /\ gate' = SuspendForRecovery(gate, dec.gen)
    /\ Goto("receiver", "suspendJava")
    /\ UNCHANGED <<decoderVars, ticket, armed, javaVars, held, close, backend, faults, unseen>>

SuspendJava ==
    /\ At("receiver", "suspendJava")
    /\ java' = SuspendDelivery(java, dec.gen)
    /\ slot' = Zero
    /\ Goto("receiver", "drain")
    /\ UNCHANGED <<decoderVars, gateVars, io, held, close, lock, backend, faults, unseen>>

\* The suspension does not wait for the write in progress.
SuspendEndMutant ==
    /\ At("receiver", "drain")
    /\ slot' = Zero
    /\ ticket' = NoTicket /\ armed' = FALSE /\ unseen' = FALSE
    /\ \E suspended \in BOOLEAN :       \* the call into Java came back
          /\ Spend(suspended)
          /\ IF suspended /\ RecoverySuspendedFor(gate, dec.gen)
             THEN /\ lock' = [decoder |-> "nobody", publish |-> "nobody"]
                  /\ UNCHANGED <<close, active>>
             ELSE StartClose("receiver", FALSE) /\ lock' = lock
    /\ Goto("receiver", "schedule")
    /\ UNCHANGED <<decoderVars, gate, java, io, held, backend>>

SuspendEnd ==
    /\ At("receiver", "drain") /\ io = Zero
    /\ slot' = Zero
    /\ ticket' = NoTicket /\ armed' = FALSE /\ unseen' = FALSE
    /\ \E suspended \in BOOLEAN :       \* the call into Java came back
          /\ Spend(suspended)
          /\ IF suspended /\ RecoverySuspendedFor(gate, dec.gen)
             THEN /\ lock' = [decoder |-> "nobody", publish |-> "nobody"]
                  /\ UNCHANGED <<close, active>>
             ELSE StartClose("receiver", FALSE) /\ lock' = lock
    /\ Goto("receiver", "schedule")
    /\ UNCHANGED <<decoderVars, gate, java, io, held, backend>>

\* The queue is recycled and Java is asked for a new MediaCodec; a request it
\* does not take fails the decoder; either way the stream is closed.
ScheduleRestart ==
    /\ At("receiver", "schedule")
    /\ free' = Recycled(free, queue) /\ queue' = NoFrame
    /\ Goto("receiver", "idle")
    /\ \E scheduled \in BOOLEAN :
          /\ Spend(scheduled)
          /\ IF scheduled
             THEN /\ job' = dec.gen
                  /\ UNCHANGED <<dec, lock, close, active>>
             ELSE /\ MutexFree /\ PublishFree
                  /\ lock' = [decoder |-> "receiver", publish |-> "receiver"]
                  /\ \E failed \in BOOLEAN :      \* refused, or no bridge to ask
                        dec' = [dec EXCEPT !.restarting = FALSE, !.failed = failed, !.resume = Zero]
                  /\ StartClose("receiver", TRUE)
                  /\ job' = job
    /\ UNCHANGED <<coded, exec, gate, ticket, armed, javaVars, held, backend, unseen>>

\* complete_stream_restart(): a completion of an older restart is ignored.
CompleteRestart ==
    /\ job # Zero /\ close["codec"] = "no" /\ MutexFree
    /\ job' = Zero
    /\ \E ok \in BOOLEAN :
          /\ Spend(ok)
          /\ IF job # dec.gen \/ ~dec.restarting THEN UNCHANGED <<dec, lock, close, active>>
             ELSE IF ok
             THEN /\ dec' = [dec EXCEPT !.restarting = FALSE, !.failed = FALSE, !.resume = job]
                  /\ UNCHANGED <<lock, close, active>>
             ELSE /\ PublishFree
                  /\ lock' = [decoder |-> "codec", publish |-> "codec"]
                  /\ dec' = [dec EXCEPT !.restarting = FALSE, !.failed = TRUE, !.resume = Zero]
                  /\ StartClose("codec", TRUE)
    /\ UNCHANGED <<coded, queue, exec, free, gate, ticket, armed, javaVars, held, pc, backend, unseen>>

\* has_stream_restart_timed_out(): the restart is given up and its late
\* completion made stale.
RestartTimedOut ==
    /\ At("receiver", "idle") /\ dec.running /\ dec.restarting /\ MutexFree /\ PublishFree
    /\ dec.gen < MaxGen
    /\ Spend(FALSE)
    /\ dec' = [dec EXCEPT !.gen = @ + 1, !.restarting = FALSE, !.failed = TRUE, !.resume = Zero]
    /\ lock' = [decoder |-> "receiver", publish |-> "receiver"]
    /\ StartClose("receiver", TRUE)
    /\ UNCHANGED <<coded, queue, exec, free, job, gate, ticket, armed, javaVars, held, pc, backend, unseen>>

-----------------------------------------------------------------------------
(* The output coordinator: native gate and Java gate, in this order when   *)
(* it opens and in the reverse one when it closes.                         *)

\* configure_makcu_control_profile() with output enabled; an invalid profile
\* closes everything.
ApplyOn ==
    /\ At("ui", "idle") /\ dec.running /\ ~dec.failed /\ java.ready /\ PublishFree
    /\ ~(OutputEnabled(gate) /\ DeliveryAllowed(java))
    /\ \E valid \in BOOLEAN :
          /\ Spend(valid)
          /\ IF ~valid
             THEN /\ StartClose("ui", FALSE) /\ lock' = [lock EXCEPT !.publish = "ui"]
                  /\ gate' = gate /\ Goto("ui", "disallow")
             ELSE /\ UNCHANGED <<close, active, lock>>
                  /\ gate' = IF MaySetUserRequested(gate, TRUE) THEN SetUserRequested(gate, TRUE) ELSE gate
                  /\ Goto("ui", IF MaySetUserRequested(gate, TRUE) THEN "allow" ELSE "disallow")
    /\ UNCHANGED <<decoderVars, ticket, armed, javaVars, held, backend, unseen>>

AllowDelivery ==
    /\ At("ui", "allow") /\ io = Zero
    /\ java' = IF MayAllowDelivery(java) THEN SetAllowed(java, TRUE) ELSE java
    /\ Goto("ui", IF MayAllowDelivery(java) THEN "idle" ELSE "disallow")
    /\ UNCHANGED <<decoderVars, gateVars, slot, io, held, close, lock, backend, faults, unseen>>

DisableOutput ==
    /\ At("ui", "idle") /\ dec.running
    /\ Spend(FALSE)
    /\ Goto("ui", "disallow")
    /\ UNCHANGED <<decoderVars, gateVars, javaVars, held, close, lock, backend, unseen>>

DisallowDelivery ==
    /\ At("ui", "disallow") /\ io = Zero
    /\ java' = SetAllowed(java, FALSE)
    /\ slot' = Zero
    /\ Goto("ui", "applyOff")
    /\ UNCHANGED <<decoderVars, gateVars, io, held, close, lock, backend, faults, unseen>>

ApplyOff ==
    /\ At("ui", "applyOff") /\ PublishFree
    /\ gate' = SetUserRequested(gate, FALSE)
    /\ ticket' = NoTicket /\ armed' = FALSE /\ unseen' = FALSE
    /\ Goto("ui", "idle")
    /\ UNCHANGED <<decoderVars, active, javaVars, held, close, lock, backend, faults>>

-----------------------------------------------------------------------------
Inference == TakeFrame \/ DropFrame \/ CommitSuccess \/ ResumeNative \/ ResumeJava \/ Publish \/ BeginMove \/ OfferMove
Frames == Submit \/ DiscardFrame \/ QueueFrame
Serial == TakeMove \/ StartWrite \/ EndWrite \/ ReportAck \/ ReportFailure
LinkSteps == AgeTicket \/ TriggerReleased \/ LinkLost \/ Reconnect
Restart == RestartBegin \/ SuspendNative \/ SuspendJava \/ SuspendEnd \/ ScheduleRestart \/ CompleteRestart \/ RestartTimedOut
Coordinator == ApplyOn \/ AllowDelivery \/ DisableOutput \/ DisallowDelivery \/ ApplyOff
Session == PrepareBackend \/ ConfigureForInference \/ StopBegin \/ StopWorkers \/ StopEnd

OutputNext ==
    \/ \E t \in Threads : FailClosedStep(t)
    \/ Inference \/ Frames \/ Serial \/ LinkSteps \/ Restart \/ Coordinator \/ Session

\* Every thread goes on with what it has begun, the Host goes on sending, a
\* restart the codec was asked for is answered, and time passes.
Fairness ==
    /\ \A t \in Threads : WF_outputVars(FailClosedStep(t))
    /\ WF_outputVars(Inference) /\ WF_outputVars(Serial) /\ WF_outputVars(Submit \/ QueueFrame) /\ WF_outputVars(AgeTicket)
    /\ WF_outputVars(CompleteRestart)
    /\ WF_outputVars(SuspendNative \/ SuspendJava \/ SuspendEnd \/ ScheduleRestart)
    /\ WF_outputVars(AllowDelivery \/ DisallowDelivery \/ ApplyOff)

OutputSpec == OutputInit /\ [][OutputNext]_outputVars /\ Fairness

-----------------------------------------------------------------------------
Frame == [gen : 0..MaxGen, fresh : BOOLEAN]
TicketIds == Tickets \union {Zero}
Decoders ==
    [gen : 0..MaxGen, restarting : BOOLEAN, failed : BOOLEAN, resume : 0..MaxGen, running : BOOLEAN]

\* Everything has its type, and the three input buffers are never lost: one
\* is being filled, the others are free, queued or with the worker.  The two
\* free ones are what the queue's "no buffer" branch relies on.
OutputTypeOK ==
    /\ dec \in Decoders
    /\ {coded, queue, exec} \subseteq Frame
    /\ free + (IF queue = NoFrame THEN 0 ELSE 1) + (IF exec = NoFrame THEN 0 ELSE 1) = 2
    /\ {slot, io, held.worker, held.serial, ticket.id} \subseteq TicketIds
    /\ \A l \in DOMAIN lock : lock[l] \in Threads \union {"nobody"}
    /\ job \in 0..MaxGen /\ active \in 0..MaxGen

\* Frames are sent only to a backend that is completely prepared, and no
\* other runtime keeps resources: not the one a failed attempt left half
\* prepared, not the one the session before used.
OneRuntimeLoaded ==
    /\ \A r \in Runtimes : backend.held[r] # 0 => backend.active # "none" /\ RuntimeOf(backend.active) = r
    /\ dec.running => CanExecute(backend)

\* Both halves of the output hold the stream that is being restarted, and
\* the suspension has returned.
Held == gate.susp /\ java.susp /\ pc["receiver"] \in {"schedule", "idle"} /\ close["receiver"] = "no"

\* While a recovery holds the output no command of the old stream is on its
\* way to the device: none in the mailbox, and the writer that had one in
\* hand is not writing it (suspend_makcu_output_for_recovery waits for it).
QuietWhileHeld == Held => slot = Zero /\ pc["serial"] # "writing"

\* A command reaches the mailbox.
Offered == slot' # Zero /\ slot' # slot

\* After an acknowledged command the next one is decided on a frame that was
\* received after it, or after the whole output was closed and its history
\* dropped; whatever frames were in the codec, queued or with the worker when
\* the acknowledgement came.
NoBlindMove == [][Offered => ~unseen]_outputVars

\* A command is offered only for a frame of the stream generation that is
\* current at the moment of the offer, although the worker checked the
\* generation long before and a restart may begin at any time.
OfferIsCurrent == [][Offered => exec.gen = active]_outputVars

\* No command blocks the output for good: its ticket is answered, cancelled
\* by a close or a recovery, or, when a close took it out of the mailbox
\* behind the back of the gate, expired by a later frame.
TicketSettles == ticket.id # Zero ~> ticket.id = Zero \/ dec.failed

\* A recovery hold ends: the first committed frame of the restarted stream
\* releases it, or it is closed, or the decoder has failed.
HoldEnds == gate.susp ~> ~gate.susp \/ dec.failed

\* The output is quiet while it is held, and frames reach only a backend that
\* is prepared and alone.
OutputHeldOrReady ==
    /\ OutputTypeOK
    /\ OneRuntimeLoaded
    /\ QuietWhileHeld

\* A command is decided on a fresh frame: one of the current stream, received
\* after the effect of the command before it could be seen.
OffersAreFresh == NoBlindMove /\ OfferIsCurrent

\* Neither a ticket nor a hold blocks the output for good.
OutputComesBack == TicketSettles /\ HoldEnds
=============================================================================
