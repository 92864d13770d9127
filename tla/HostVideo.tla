------------------------------ MODULE HostVideo ------------------------------
\* The Host's video path: HostApplication::publish_next and DesktopVideoAgent in
\* the capture thread, HybridGpuVideoPipeline's encoder thread, the encoders and
\* the UDP publisher. One stream is one life of the agent, under one epoch.
\*
\* The capture thread runs everything of publish_next; only the slots, the wake
\* event, the stop and fatal flags, the completion ring and the generation of
\* IDR requests are shared with the encoder thread. Time is left out: a deadline
\* may have passed or not whenever the code asks.
EXTENDS VideoEncoder, FrameTransfer

CONSTANTS
    Machines,            \* the computers and settings considered
    MaxSequence,         \* the terminal frame sequence, 2^32 - 1 in the code
    CompletionCapacity,  \* kCompletionCapacity
    MaxContent, MaxSource, MaxRequests, MaxFaults, MaxStarts   \* bounds

ASSUME VideoAssumption ==
    /\ MaxSequence \in Nat \ {0} /\ CompletionCapacity \in Nat \ {0}
    /\ {MaxContent, MaxSource, MaxRequests, MaxFaults, MaxStarts} \subseteq Nat
    /\ Slots \subseteq Nat \ {0} /\ IsFiniteSet(Slots) /\ Cardinality(Slots) >= 3
    /\ Machines \subseteq [vendor : STRING, preference : STRING,
                         exact : BOOLEAN, shares : BOOLEAN, scales : BOOLEAN]

VARIABLES
    machine,       \* adapter vendor, preference, capture extent, driver abilities
    agent,         \* DesktopVideoAgent: path, source, submitted content, force, bridge
    content,       \* DxgiDesktopCapture: content_sequence of the retained texture
    capture,       \* where the capture thread is, its frame and its slot
    coder,         \* whoever encodes: next sequence, keyframe seen, encoder
    slots, staging,\* the transfer slots; copies on their way to the CPU, oldest first
    worker,        \* the encoder thread
    wake, stopping, fatal, completions,
    requests,      \* IDR requests so far (idr_request_generation)
    permit,        \* what data_plane_permit answers
    verdict,       \* what the last step told HostRuntimeService
    wire,          \* history: the last publication attempt of this stream
    known,         \* history: contents the outbound pipeline of the path has accepted unmarked
    answered,      \* history: requests answered by a complete keyframe
    newest,        \* history: source of the last accepted frame
    faults, starts

videoVars == <<machine, agent, content, capture, coder, slots, staging, worker, wake, stopping, fatal,
          completions, requests, permit, verdict, wire, known, answered, newest, faults, starts>>
history == <<wire, known, answered>>
budget == <<machine, faults, starts>>

NoSlot == 0
Down == [path |-> "down", source |-> 0, submitted |-> 0, force |-> FALSE, bridge |-> NoBridge]
Idle == [at |-> "idle", frame |-> NoFrame, slot |-> NoSlot]
NoCoder == [sequence |-> 0, primed |-> FALSE, encoder |-> NoEncoder]
NoOutput == [ok |-> FALSE, forced |-> FALSE, keyframe |-> FALSE, picture |-> 0]
NoWorker == [at |-> "off", slot |-> NoSlot, frame |-> NoFrame, has |-> FALSE, repeat |-> FALSE,
             requested |-> 0, consumed |-> 0, output |-> NoOutput]
NoWire == [source |-> 0, content |-> 0, picture |-> 0, repeated |-> FALSE, forced |-> FALSE,
           keyframe |-> FALSE, sequence |-> -1, complete |-> FALSE, owed |-> FALSE]

Hybrid == agent.path \in {"shared", "readback"}

\* A fault of a driver, a socket or the lease is paid from one budget.
Spend(ok) == IF ok THEN UNCHANGED faults ELSE faults < MaxFaults /\ faults' = faults + 1

VideoInit ==
    /\ machine \in Machines
    /\ agent = Down /\ content = 0 /\ capture = Idle /\ coder = NoCoder
    /\ slots = FreshSlots /\ staging = <<>> /\ worker = NoWorker
    /\ wake = FALSE /\ stopping = FALSE /\ fatal = FALSE /\ completions = <<>>
    /\ requests = 0 /\ permit = TRUE /\ verdict = "ok"
    /\ wire = NoWire /\ known = {} /\ answered = 0 /\ newest = 0
    /\ faults = 0 /\ starts = 0

----------------------------------------------------------------------------
\* Start and stop, both in the thread that also captures.

\* HybridGpuVideoPipeline::initialize starts the encoder thread and waits until
\* it has its device, textures, encoder and socket.
WorkerStart == [NoWorker EXCEPT !.at = "wait"]

\* What an agent with this candidate starts with.
AgentOf(candidate) ==
    LET path == PathOf(candidate, machine)
    IN [Down EXCEPT !.path = path,
          !.bridge = IF path = "sync" THEN BridgeInitialize(candidate, machine) ELSE NoBridge]

\* DesktopVideoAgent::initialize: the first candidate whose pipeline, bridge and
\* encoder come up; what fails before it is released again.
Start ==
    /\ agent.path = "down" /\ starts < MaxStarts
    /\ \E i \in DOMAIN Attempted(machine) :
         LET candidate == Attempted(machine)[i]
         IN /\ agent' = AgentOf(candidate)
            /\ coder' = [NoCoder EXCEPT !.encoder = EncoderInitialize(BackendOf(candidate))]
            /\ worker' = IF AgentOf(candidate).path = "sync" THEN NoWorker ELSE WorkerStart
    /\ content' = 0 /\ verdict' = "ok" /\ starts' = starts + 1
    /\ wire' = NoWire /\ known' = {} /\ answered' = 0 /\ newest' = 0 /\ requests' = 0
    /\ UNCHANGED <<machine, capture, slots, staging, wake, stopping, fatal, completions, permit, faults>>

\* release_runtime_resources once no encoder thread is left.
Released ==
    /\ agent' = Down /\ coder' = NoCoder /\ capture' = Idle /\ worker' = NoWorker
    /\ slots' = FreshSlots /\ staging' = <<>> /\ completions' = <<>>
    /\ wake' = FALSE /\ stopping' = FALSE /\ fatal' = FALSE
    /\ UNCHANGED <<content, requests, permit, verdict, newest, history, budget>>

\* Mutant: the stop flag is raised without waking the encoder thread.
StopBeginMutant ==
    /\ agent.path # "down" /\ capture.at = "idle"
    /\ IF Hybrid
       THEN /\ stopping' = TRUE /\ capture' = [Idle EXCEPT !.at = "stopping"]
            /\ UNCHANGED <<agent, content, coder, slots, staging, worker, wake, fatal, completions,
                           requests, permit, verdict, newest, history, budget>>
       ELSE Released

\* HostApplication::stop, stop_and_release_unlocked up to the wait for the
\* encoder thread; the synchronous path has none and is released at once.
StopBegin ==
    /\ agent.path # "down" /\ capture.at = "idle"
    /\ IF Hybrid
       THEN /\ stopping' = TRUE /\ wake' = TRUE /\ capture' = [Idle EXCEPT !.at = "stopping"]
            /\ UNCHANGED <<agent, content, coder, slots, staging, worker, fatal, completions,
                           requests, permit, verdict, newest, history, budget>>
       ELSE Released

\* The encoder thread has returned its keys and is joined.
StopEnd == capture.at = "stopping" /\ worker.at = "done" /\ Released

----------------------------------------------------------------------------
\* One step of the capture thread.

\* The status of the step and of every completion popped after it: the first
\* unhealthy one decides, else the last one is what the runtime sees.
Verdict(statuses) ==
    IF \E i \in DOMAIN statuses : statuses[i] = "failed" THEN "failed" ELSE statuses[Len(statuses)]

\* HostApplication::publish_next after the agent's step.
Finish(status) ==
    /\ verdict' = Verdict(<<status>> \o completions)
    /\ completions' = <<>>

MayStep == agent.path # "down" /\ capture.at = "idle" /\ verdict = "ok"

\* IdrRequestListener::poll_request and request_idr: a hybrid path counts, the
\* synchronous one sets its flag (see SyncStep).
Poll(asked) ==
    /\ asked => permit /\ requests < MaxRequests
    /\ requests' = requests + IF asked THEN 1 ELSE 0

\* The presence datagram cannot be sealed, sent, or is no longer permitted.
PresenceFails ==
    /\ MayStep /\ Spend(~permit) /\ verdict' = "failed"
    /\ UNCHANGED <<machine, agent, content, capture, coder, slots, staging, worker, wake, stopping,
                   fatal, completions, requests, permit, newest, history, starts>>

\* publish_next of the agent finds the permit closed, or the fatal failure the
\* encoder thread left; or the capture is lost.
StepEnds(asked) ==
    /\ MayStep /\ Poll(asked)
    /\ \/ ~permit /\ Finish("closed") /\ UNCHANGED faults
       \/ permit /\ Hybrid /\ fatal /\ Finish("failed") /\ UNCHANGED faults
       \/ permit /\ ~(Hybrid /\ fatal) /\ Finish("failed") /\ Spend(FALSE)
    /\ agent' = IF asked /\ ~Hybrid THEN [agent EXCEPT !.force = TRUE] ELSE agent
    /\ UNCHANGED <<machine, content, capture, coder, slots, staging, worker, wake, stopping, fatal,
                   permit, newest, history, starts>>

\* What a step may set aside while it runs in one piece.
sharedState == <<slots, staging, wake, stopping, fatal>>

\* record_fatal: the first failure is kept and the encoder thread told to stop.
Fatal == fatal' = TRUE /\ stopping' = TRUE /\ wake' = TRUE
NotFatal == UNCHANGED <<fatal, stopping, wake>>

\* acquire_next and repeat_last: the retained texture gets a new content number
\* when the desktop changed inside the region, and keeps it when it is read again.
AcquireNext == content + 1
RepeatLast == content

\* The frame of this step: a new picture, or the retained texture once more where
\* the capture stage owns the repeats and something was submitted before.
CapturedFrame(again) ==
    LET c == IF again THEN RepeatLast ELSE AcquireNext
    IN [source |-> agent.source + 1, content |-> c, repeated |-> again /\ c = agent.submitted]

MayCapture(again) ==
    /\ MayStep /\ permit /\ ~(Hybrid /\ fatal) /\ agent.source < MaxSource
    /\ IF again THEN agent.path # "readback" /\ agent.submitted > 0 ELSE content < MaxContent

\* Nothing new on the desktop (a timeout, a pointer move, a change elsewhere).
NothingCaptured(asked) ==
    /\ MayStep /\ permit /\ agent.path # "readback" /\ ~(Hybrid /\ fatal) /\ Poll(asked)
    /\ agent' = IF asked /\ ~Hybrid THEN [agent EXCEPT !.force = TRUE] ELSE agent
    /\ Finish("ok")
    /\ UNCHANGED <<content, capture, coder, sharedState, worker, permit, newest, history, budget>>

----------------------------------------------------------------------------
\* The same-adapter pipeline: submit_shared_unlocked in two pieces, because the
\* copy runs outside the lock.

CaptureShared(asked, again) ==
    LET frame == CapturedFrame(again)
        free == InState(slots, "available")
    IN /\ agent.path = "shared" /\ MayCapture(again) /\ Poll(asked)
       /\ agent' = [agent EXCEPT !.source = frame.source]
       /\ content' = frame.content
       /\ \/ /\ free = {}                                        \* staging_busy
             /\ Finish("ok") /\ UNCHANGED <<capture, slots>>
          \/ /\ free # {}
             /\ slots' = Acquire(slots, FirstSlot(free))
             /\ capture' = [at |-> "copy", frame |-> frame, slot |-> FirstSlot(free)]
             /\ UNCHANGED <<completions, verdict>>
       /\ UNCHANGED <<coder, staging, worker, wake, stopping, fatal, permit, newest, history, budget>>

\* What publish_next reports once more when the encoder thread has failed.
StatusAfter(status) == IF fatal' THEN "failed" ELSE status

\* The copy is done, its key given to the encoder thread and the slot published.
CopyShared ==
    LET s == capture.slot
        written == [slots EXCEPT ![s].frame = capture.frame]
    IN /\ capture.at = "copy" /\ KeyFree(slots, s, 0)
       /\ slots' = PublishLatest(ReleaseSync(written, s, 1), s, "retired")
       /\ wake' = TRUE /\ newest' = capture.frame.source
       /\ agent' = [agent EXCEPT !.submitted = capture.frame.content]
       /\ known' = IF capture.frame.repeated THEN known ELSE known \union {capture.frame.content}
       /\ capture' = Idle /\ UNCHANGED <<stopping, fatal>> /\ Finish(StatusAfter("ok"))
       /\ UNCHANGED <<content, coder, staging, worker, requests, permit, wire, answered, budget>>

\* The producer's key does not come within 2 ms (staging_busy); or the mutex or
\* the device fails, and the slot is given back or stays with its key held.
CopySharedFails ==
    LET s == capture.slot
        stuck == AcquireSync(slots, s, "producer")
    IN /\ capture.at = "copy" /\ capture' = Idle
       /\ \/ slots' = Cancel(slots, s) /\ NotFatal /\ UNCHANGED faults
          \/ KeyFree(slots, s, 0) /\ slots' \in {Cancel(slots, s), stuck} /\ Fatal /\ Spend(FALSE)
       /\ Finish(StatusAfter("ok"))
       /\ UNCHANGED <<machine, agent, content, coder, staging, worker, requests, permit, newest,
                      history, starts>>

----------------------------------------------------------------------------
\* The read-back pipeline: submit and pump. The staging copies become readable in
\* the order they were issued; the encoder thread runs between the two pieces.

\* pump_unlocked folds the readable copies into one frame: a copy takes the place
\* of the one before it where MaySupersede, so the last observation is left, or
\* the last repeat where there is none.
Folded(frames) ==
    frames[CHOOSE i \in DOMAIN frames :
             \A j \in DOMAIN frames :
                 IF j < i THEN MaySupersede(frames[j], frames[i])
                          ELSE j > i => ~MaySupersede(frames[i], frames[j])]

\* Map of the oldest n staging copies succeeds. "got" tells whether the capture
\* brought a frame to submit.
PumpRead(asked, got, n) ==
    LET free == InState(slots, "available")
        reads == n > 0 /\ free # {}
    IN /\ agent.path = "readback" /\ Poll(asked) /\ n <= Len(staging)
       /\ IF got THEN MayCapture(FALSE) ELSE MayStep /\ permit /\ ~fatal
       /\ agent' = IF got THEN [agent EXCEPT !.source = @ + 1] ELSE agent
       /\ content' = IF got THEN AcquireNext ELSE content
       /\ capture' = [at |-> "pumped", frame |-> IF got THEN CapturedFrame(FALSE) ELSE NoFrame,
                      slot |-> IF reads THEN FirstSlot(free) ELSE NoSlot]
       /\ slots' = IF reads THEN [Acquire(slots, FirstSlot(free)) EXCEPT
                                   ![FirstSlot(free)].frame = Folded(SubSeq(staging, 1, n))]
                   ELSE slots
       /\ staging' = IF reads THEN SubSeq(staging, n + 1, Len(staging)) ELSE staging
       /\ UNCHANGED <<coder, worker, wake, stopping, fatal, completions, permit, verdict, newest,
                      history, budget>>

\* Map fails: the batch is dropped, and submit reports it at once.
PumpFails(asked, got) ==
    /\ agent.path = "readback" /\ Poll(asked) /\ staging # <<>>
    /\ IF got THEN MayCapture(FALSE) ELSE MayStep /\ permit /\ ~fatal
    /\ Fatal /\ Spend(FALSE) /\ Finish(IF got THEN "failed" ELSE "ok")
    /\ UNCHANGED <<machine, agent, content, capture, coder, slots, staging, worker, permit, newest,
                   history, starts>>

\* The batch goes to the mailbox unless it is a repeat and an observation waits.
Mailed(s) ==
    IF \A m \in InState(slots, "mailbox") : MaySupersede(slots[m].frame, slots[s].frame)
    THEN PublishLatest(slots, s, "available")
    ELSE Cancel(slots, s)

\* The rest of pump and of submit: the new copy is issued if a staging texture is
\* free, kTransferSlotCount of them, and the device is still there.
PumpEnds(works) ==
    LET got == capture.frame # NoFrame
        full == Len(staging) = Cardinality(Slots)
        issued == got /\ ~fatal /\ ~full
    IN /\ capture.at = "pumped" /\ (works \/ issued) /\ Spend(works)
       /\ slots' = IF capture.slot = NoSlot THEN slots ELSE Mailed(capture.slot)
       /\ IF works THEN wake' = (wake \/ capture.slot \in InState(slots', "mailbox")) /\ UNCHANGED <<stopping, fatal>>
          ELSE Fatal
       /\ staging' = IF issued /\ works THEN Append(staging, capture.frame) ELSE staging
       /\ newest' = IF issued /\ works THEN capture.frame.source ELSE newest
       /\ agent' = IF issued /\ works THEN [agent EXCEPT !.submitted = capture.frame.content] ELSE agent
       /\ capture' = Idle /\ Finish(IF got THEN StatusAfter("ok") ELSE "ok")
       /\ UNCHANGED <<machine, content, coder, worker, requests, permit, history, starts>>

----------------------------------------------------------------------------
\* Publication, shared by the encoder thread and the synchronous path.

\* wire_frame_repeats_content: an IDR somebody asked for is never a repeat.
WireRepeats(repeated, explicit, keyframe) == repeated /\ ~(explicit /\ keyframe)

\* UdpVideoPublisher::publish: every fragment asks for the permit and uses the
\* socket; a frame is complete when none failed.
PublishOutcomes == IF permit THEN {"complete", "broken"} ELSE {"refused"}

\* What an attempt leaves in the histories. "forced" tells whether the encoder was
\* asked for a keyframe, "asked" are the requests seen when it started on the
\* picture. The synchronous path counts a content as submitted only once it is
\* published completely; the others have accepted it before.
Attempt(frame, output, forced, repeated, outcome, asked) ==
    /\ wire' = [source |-> frame.source, content |-> frame.content, picture |-> output.picture,
                repeated |-> repeated, forced |-> forced, keyframe |-> output.keyframe,
                sequence |-> coder.sequence,
                complete |-> outcome = "complete", owed |-> asked > answered]
    /\ known' = IF repeated \/ (agent.path = "sync" /\ outcome # "complete") THEN known
                ELSE known \union {frame.content}
    /\ answered' = IF outcome = "complete" /\ output.keyframe THEN asked ELSE answered

\* An encode with the encoder in use; each call into a driver may fail.
EncodeWith(e, texture, picture, force, clean, ok, kept) ==
    IF e.backend = "nvenc" THEN NvencEncode(e, texture, picture, force, ok)
    ELSE MediaFoundationEncode(e, picture, clean, ok \/ kept, ok)

\* Mutant: the last sequence number is used like any other.
TerminalMutant == FALSE

\* Never emit the sequence that has no successor in this epoch.
Terminal == coder.sequence = MaxSequence

\* The synchronous step after a capture: bridge, encode, publish in one thread.
\* "fault" names the call that fails, if one does, "clean" is the keyframe flag of
\* a Media Foundation encoder's output.
SyncStep(asked, again, fault, periodic, clean) ==
    LET frame == CapturedFrame(again)
        force == agent.force \/ asked
        bridged == Bridge(agent.bridge, machine, fault # "blit", fault # "map")
        wanted == force \/ periodic \/ ~coder.primed
        encoded == EncodeWith(coder.encoder, bridged.texture, frame.content, wanted, clean,
                              fault \notin {"encode", "late"}, fault = "late")
        repeated == WireRepeats(frame.repeated, force, encoded.keyframe)
        seen == [agent EXCEPT !.source = frame.source, !.bridge = bridged.bridge]
    IN /\ agent.path = "sync" /\ MayCapture(again) /\ Poll(asked)
       /\ content' = frame.content
       /\ Spend(fault = "none")
       /\ \/ /\ bridged.texture = -1
             /\ agent' = [seen EXCEPT !.force = force] /\ Finish("failed") /\ UNCHANGED <<coder, history>>
          \/ /\ bridged.texture # -1 /\ Terminal
             /\ agent' = [seen EXCEPT !.force = TRUE] /\ Finish("failed") /\ UNCHANGED <<coder, history>>
          \/ /\ bridged.texture # -1 /\ ~Terminal /\ ~encoded.ok
             /\ agent' = [seen EXCEPT !.force = FALSE] /\ Finish("failed")
             /\ coder' = [coder EXCEPT !.encoder = encoded.encoder] /\ UNCHANGED history
          \/ /\ bridged.texture # -1 /\ ~Terminal /\ encoded.ok
             /\ LET done == fault # "send"
                IN /\ Attempt(frame, encoded, wanted, repeated, IF done THEN "complete" ELSE "broken", requests')
                   /\ coder' = [sequence |-> coder.sequence + 1, encoder |-> encoded.encoder,
                                primed |-> coder.primed \/ (done /\ encoded.keyframe)]
                   /\ agent' = [seen EXCEPT
                         !.force = ~(done /\ encoded.keyframe) /\ (force \/ encoded.keyframe),
                         !.submitted = IF done THEN frame.content ELSE @]
                   /\ Finish(IF done THEN "ok" ELSE "failed")
       /\ UNCHANGED <<machine, capture, sharedState, worker, permit, newest, starts>>

----------------------------------------------------------------------------
\* The encoder thread. It leaves the capture thread's own state alone.

capturing == <<machine, agent, content, capture, staging, requests, permit, verdict, newest, starts>>

\* Where the thread goes when its loop is left: the keyed textures are returned
\* first, the buffers of the read-back path need nothing.
Leave == IF agent.path = "shared" THEN "drain" ELSE "done"

Push(status) == completions' = RingPush(completions, CompletionCapacity, status)

\* wait_for_worker_signal and wait_for_worker_activity: the event, or in the
\* read-back path the deadline of the idle repeat; or the wait itself fails.
WorkerReady(late) ==
    [worker EXCEPT !.at = IF agent.path = "shared" THEN "reclaim" ELSE "take", !.repeat = late]

WorkerWait(late) ==
    /\ worker.at = "wait" /\ (late => agent.path = "readback")
    /\ IF stopping THEN ~late /\ worker' = [worker EXCEPT !.at = Leave]
       ELSE worker' = IF late THEN WorkerReady(TRUE) ELSE [worker EXCEPT !.at = "blocked"]
    /\ UNCHANGED <<capturing, coder, slots, wake, stopping, fatal, completions, history, faults>>

WorkerWoken(late) ==
    /\ worker.at = "blocked" /\ (late => agent.path = "readback") /\ (wake \/ late)
    /\ worker' = IF stopping THEN [worker EXCEPT !.at = Leave] ELSE WorkerReady(late)
    /\ wake' = FALSE
    /\ UNCHANGED <<capturing, coder, slots, stopping, fatal, completions, history, faults>>

WorkerWaitFails ==
    /\ worker.at = "blocked"
    /\ worker' = [worker EXCEPT !.at = Leave] /\ Fatal /\ Spend(FALSE)
    /\ UNCHANGED <<capturing, coder, slots, completions, history>>

\* reclaim_retired_shared_slots: one slot after the other comes back.
WorkerReclaim ==
    LET retired == InState(slots, "retired")
    IN /\ worker.at = "reclaim"
       /\ \/ /\ fatal /\ worker' = [worker EXCEPT !.at = Leave] /\ UNCHANGED slots
          \/ /\ ~fatal /\ retired = {}
             /\ worker' = [worker EXCEPT !.at = "latest"] /\ UNCHANGED slots
          \/ /\ ~fatal /\ retired # {}
             /\ slots' = TakeByWorker(slots, FirstSlot(retired))
             /\ worker' = [worker EXCEPT !.at = "reclaiming", !.slot = FirstSlot(retired)]
       /\ UNCHANGED <<capturing, coder, wake, stopping, fatal, completions, history, faults>>

\* Its key is taken and given back to the producer; or does not come in time.
WorkerReclaimed(gotKey) ==
    LET s == worker.slot
    IN /\ worker.at = "reclaiming" /\ (gotKey => KeyFree(slots, s, 1))
       /\ slots' = IF gotKey THEN ReleaseWorker(ReleaseSync(slots, s, 0), s) ELSE RetireWorker(slots, s)
       /\ worker' = [worker EXCEPT !.at = IF gotKey THEN "reclaim" ELSE "latest", !.slot = NoSlot]
       /\ UNCHANGED <<capturing, coder, wake, stopping, fatal, completions, history, faults>>

\* release_worker_key fails for it: the slot stays with the worker, its key held.
WorkerReclaimFails ==
    /\ worker.at = "reclaiming" /\ KeyFree(slots, worker.slot, 1)
    /\ slots' = AcquireSync(slots, worker.slot, "worker")
    /\ worker' = [worker EXCEPT !.at = Leave, !.slot = NoSlot] /\ Fatal /\ Spend(FALSE)
    /\ UNCHANGED <<capturing, coder, completions, history>>

\* acquire_latest_shared_frame, take_latest_cpu_frame: the mailbox is emptied.
WorkerTake ==
    LET mailbox == InState(slots, "mailbox")
        idle == IF worker.at = "take" THEN "idle" ELSE "wait"
    IN /\ worker.at \in {"latest", "take"}
       /\ IF mailbox = {} THEN worker' = [worker EXCEPT !.at = idle] /\ UNCHANGED slots
          ELSE /\ slots' = TakeByWorker(slots, FirstSlot(mailbox))
               /\ worker' = [worker EXCEPT !.at = IF @ = "take" THEN "upload" ELSE "key",
                                          !.slot = FirstSlot(mailbox)]
       /\ UNCHANGED <<capturing, coder, wake, stopping, fatal, completions, history, faults>>

\* The key of the taken texture; without it the slot is deferred.
WorkerKey(gotKey) ==
    LET s == worker.slot
    IN /\ worker.at = "key" /\ (gotKey => KeyFree(slots, s, 1))
       /\ slots' = IF gotKey THEN AcquireSync(slots, s, "worker") ELSE DeferWorker(slots, s)
       /\ worker' = IF gotKey THEN [worker EXCEPT !.at = "encode", !.frame = slots[s].frame, !.repeat = FALSE]
                    ELSE [worker EXCEPT !.at = "wait", !.slot = NoSlot]
       /\ UNCHANGED <<capturing, coder, wake, stopping, fatal, completions, history, faults>>

\* AcquireSync fails for good while the slot is with the worker.
WorkerKeyFails ==
    /\ worker.at \in {"key", "reclaiming"}
    /\ worker' = [worker EXCEPT !.at = Leave, !.slot = NoSlot] /\ Fatal /\ Spend(FALSE)
    /\ UNCHANGED <<capturing, coder, slots, completions, history>>

\* upload_cpu_frame and release_worker_slot.
WorkerUpload ==
    /\ worker.at = "upload"
    /\ worker' = [worker EXCEPT !.at = "encode", !.slot = NoSlot, !.frame = slots[worker.slot].frame,
                               !.has = TRUE, !.repeat = FALSE]
    /\ slots' = ReleaseWorker(slots, worker.slot)
    /\ UNCHANGED <<capturing, coder, wake, stopping, fatal, completions, history, faults>>

\* run_cpu_worker with an empty mailbox: an idle repeat waits for copies still on
\* their way, and needs its deadline and a picture to repeat.
WorkerIdle ==
    /\ worker.at = "idle"
    /\ worker' = [worker EXCEPT !.at = IF staging = <<>> /\ worker.repeat /\ worker.has
                                      THEN "encode" ELSE "wait"]
    /\ UNCHANGED <<capturing, coder, slots, wake, stopping, fatal, completions, history, faults>>

\* What follows encode_and_publish: a texture still has its key to give back.
AfterEncode(ok) == IF agent.path = "shared" THEN "release" ELSE IF ok THEN "wait" ELSE Leave

\* encode_and_publish up to the publication.
WorkerEncode(ok, periodic) ==
    LET explicit == requests > worker.consumed
        wanted == explicit \/ periodic \/ ~coder.primed
        texture == worker.slot
        encoded == EncodeWith(coder.encoder, texture, worker.frame.content, wanted, FALSE, ok, FALSE)
        output == [ok |-> encoded.ok, forced |-> wanted, keyframe |-> encoded.keyframe, picture |-> encoded.picture]
    IN /\ worker.at = "encode"
       /\ IF Terminal
          THEN /\ ok /\ worker' = [worker EXCEPT !.at = AfterEncode(FALSE)]
               /\ Push("failed") /\ Fatal /\ UNCHANGED <<coder, faults>>
          ELSE /\ Spend(ok) /\ coder' = [coder EXCEPT !.encoder = encoded.encoder]
               /\ worker' = [worker EXCEPT !.at = IF encoded.ok THEN "publish" ELSE AfterEncode(FALSE),
                                          !.requested = requests, !.output = output]
               /\ IF encoded.ok THEN NotFatal /\ UNCHANGED completions ELSE Fatal /\ Push("failed")
       /\ UNCHANGED <<capturing, slots, history>>

\* Mutant: the request is consumed as it stands when the IDR has been sent.
ConsumedMutant(consumed, complete, keyframe) ==
    IF complete /\ keyframe /\ worker.requested > consumed THEN requests ELSE consumed

\* Consume the generation only after every fragment of the real IDR has crossed
\* the socket boundary.
Consumed(consumed, complete, keyframe) ==
    IF complete /\ keyframe /\ worker.requested > consumed THEN worker.requested ELSE consumed

\* encode_and_publish from the identity to the completion.
WorkerPublish(outcome) ==
    LET complete == outcome = "complete"
        keyframe == worker.output.keyframe
        explicit == worker.requested > worker.consumed
        repeated == WireRepeats(worker.frame.repeated \/ worker.repeat, explicit, keyframe)
    IN /\ worker.at = "publish" /\ outcome \in PublishOutcomes /\ Spend(outcome # "broken")
       /\ Attempt(worker.frame, worker.output, worker.output.forced, repeated, outcome, worker.requested)
       /\ coder' = [coder EXCEPT !.sequence = @ + 1, !.primed = @ \/ (complete /\ keyframe)]
       /\ worker' = [worker EXCEPT !.at = AfterEncode(outcome # "broken"), !.output = NoOutput,
                                  !.requested = 0, !.consumed = Consumed(@, complete, keyframe)]
       /\ Push(CASE complete -> "ok" [] outcome = "refused" -> "closed" [] OTHER -> "failed")
       /\ IF outcome = "broken" THEN Fatal ELSE NotFatal
       /\ UNCHANGED <<capturing, slots>>

\* release_worker_key: key 0 and the slot back to the producer; or neither.
WorkerRelease(ok) ==
    LET s == worker.slot
    IN /\ worker.at = "release" /\ Spend(ok)
       /\ slots' = IF ok THEN ReleaseWorker(ReleaseSync(slots, s, 0), s) ELSE slots
       /\ IF ok THEN NotFatal ELSE Fatal
       /\ worker' = [worker EXCEPT !.at = IF fatal' THEN Leave ELSE "wait", !.slot = NoSlot]
       /\ UNCHANGED <<capturing, coder, completions, history>>

\* return_pending_shared_keys, slot by slot, on every way out of the thread.
WorkerDrain(ok) ==
    LET mailbox == InState(slots, "mailbox")
        held == IF mailbox # {} THEN mailbox ELSE InState(slots, "retired")
        s == FirstSlot(held)
    IN /\ worker.at = "drain" /\ Spend(ok)
       /\ IF held = {}
          THEN ok /\ worker' = [worker EXCEPT !.at = "done"] /\ NotFatal /\ UNCHANGED slots
          ELSE IF ok
          THEN /\ KeyFree(slots, s, 1) /\ NotFatal /\ UNCHANGED worker
               /\ slots' = ReleaseWorker(ReleaseSync(slots, s, 0), s)
          ELSE slots' = TakeByWorker(slots, s) /\ worker' = [worker EXCEPT !.at = "done"] /\ Fatal
       /\ UNCHANGED <<capturing, coder, completions, history>>

----------------------------------------------------------------------------
\* The lease behind data_plane_permit ends, or is renewed.
Revoke ==
    /\ permit /\ agent.path # "down" /\ Spend(FALSE) /\ permit' = FALSE
    /\ UNCHANGED <<machine, agent, content, capture, coder, sharedState, worker, completions,
                   requests, verdict, newest, history, starts>>
Grant ==
    /\ ~permit /\ permit' = TRUE
    /\ UNCHANGED <<agent, content, capture, coder, sharedState, worker, completions, requests,
                   verdict, newest, history, budget>>

CaptureThread ==
    \/ Start \/ StopBegin \/ StopEnd \/ PresenceFails \/ CopyShared \/ CopySharedFails
    \/ \E asked \in BOOLEAN :
         \/ StepEnds(asked) \/ NothingCaptured(asked)
         \/ \E again \in BOOLEAN : CaptureShared(asked, again)
         \/ \E got \in BOOLEAN : \/ PumpFails(asked, got)
                               \/ \E n \in 0..Cardinality(Slots) : PumpRead(asked, got, n)
         \/ \E again, periodic, clean \in BOOLEAN,
                fault \in {"none", "blit", "map", "encode", "late", "send"} :
               SyncStep(asked, again, fault, periodic, clean)
    \/ \E works \in BOOLEAN : PumpEnds(works)

EncoderThread ==
    \/ WorkerReclaim \/ WorkerTake \/ WorkerUpload \/ WorkerIdle
    \/ WorkerWaitFails \/ WorkerReclaimFails \/ WorkerKeyFails
    \/ \E b \in BOOLEAN : WorkerWait(b) \/ WorkerWoken(b) \/ WorkerReclaimed(b) \/ WorkerKey(b) \/ WorkerRelease(b) \/ WorkerDrain(b)
    \/ \E ok, periodic \in BOOLEAN : WorkerEncode(ok, periodic)
    \/ \E outcome \in {"complete", "broken", "refused"} : WorkerPublish(outcome)

VideoNext == CaptureThread \/ EncoderThread \/ Revoke \/ Grant

VideoSpec == VideoInit /\ [][VideoNext]_videoVars

\* The encoder thread is scheduled, and the join returns once it has ended.
FairVideoSpec == VideoSpec /\ WF_videoVars(EncoderThread) /\ WF_videoVars(StopEnd)

----------------------------------------------------------------------------
Frames == [source : 0..MaxSource, content : 0..MaxContent, repeated : BOOLEAN]

\* Type invariant of the video path.
VideoTypeOK ==
    /\ machine \in Machines /\ agent.path \in {"down", "sync", "shared", "readback"}
    /\ agent.source \in 0..MaxSource /\ agent.submitted \in 0..MaxContent /\ content \in 0..MaxContent
    /\ capture.at \in {"idle", "copy", "pumped", "stopping"} /\ capture.slot \in Slots \union {NoSlot}
    /\ \A s \in Slots : /\ slots[s].state \in {"available", "writing", "mailbox", "worker", "retired"}
                       /\ slots[s].frame \in Frames
    /\ Len(staging) <= Cardinality(Slots) /\ Len(completions) <= CompletionCapacity
    /\ worker.at \in {"off", "wait", "blocked", "reclaim", "reclaiming", "latest", "key", "take", "idle",
                      "upload", "encode", "publish", "release", "drain", "done"}
    /\ coder.sequence \in 0..MaxSequence /\ verdict \in {"ok", "failed", "closed"}
    /\ {wake, stopping, fatal, permit} \subseteq BOOLEAN

\* The slots the two threads exchange and the keyed mutexes of their textures
\* never disagree (submit_shared_unlocked, release_worker_key,
\* return_pending_shared_keys): what the producer may take opens with the
\* producer's key, what waits for the worker with the worker's, and at most one
\* slot waits in the mailbox.
KeysAgree ==
    agent.path = "shared" =>
        /\ Cardinality(InState(slots, "mailbox")) <= 1
        /\ \A s \in Slots :
             /\ slots[s].state = "available" => KeyFree(slots, s, 0)
             /\ slots[s].state \in {"mailbox", "retired"} => KeyFree(slots, s, 1)
             /\ worker.slot = s => slots[s].state = "worker" /\ slots[s].key = 1

\* However the encoder thread ends without a failure, every keyed texture is back
\* with the producer before stop_and_release closes the shared handles
\* (worker_keys_returned).
KeysComeBack ==
    agent.path = "shared" /\ worker.at = "done" /\ ~fatal =>
        \A s \in Slots : slots[s].state = "available" /\ KeyFree(slots, s, 0)

\* The newest frame a submit accepted is never lost to an older one: it is on its
\* way, or with the encoder thread, or was the last one sent, although slots are
\* deferred, retired and overwritten on the way.
NewestKept ==
    Hybrid /\ newest > 0 /\ ~fatal /\ ~stopping =>
        \/ newest \in {wire.source, worker.frame.source}
        \/ \E s \in Slots :
             /\ slots[s].frame.source = newest
             /\ \/ slots[s].state = "mailbox"
                \/ s = capture.slot
                \/ s = worker.slot /\ worker.at \in {"key", "upload"}
        \/ \E i \in DOMAIN staging : staging[i].source = newest

\* Within a stream the sequence counts up by one from 0, a picture never follows a
\* later one, and the sequence without a successor is never used, whichever of
\* the two threads publishes (advance_video_frame_sequence).
StreamOrdered ==
    [][wire' # wire /\ wire' # NoWire =>
         /\ wire'.sequence = wire.sequence + 1 /\ wire'.sequence < MaxSequence
         /\ wire'.source >= wire.source]_videoVars

\* An IDR request is owed from the moment it is seen until a keyframe encoded
\* after it has been sent completely. For every frame encoded meanwhile the encoder
\* is asked for a keyframe, also when the request came in while the previous
\* keyframe was being sent. NVENC then makes one; Media Foundation may not, and
\* the request stays owed (DesktopVideoAgent::publish_next, force_idr_next_).
IdrIsNext ==
    wire.owed => wire.forced /\ (coder.encoder.backend = "nvenc" => wire.keyframe)

\* What is sent under an identity is the picture captured for it: an encoder that
\* still holds an earlier picture is never asked for the next one.
PictureIsCurrent == wire.picture = wire.content

\* A frame the APP may skip as a repeat has a content the outbound pipeline had
\* accepted unmarked before (wire_frame_repeats_content,
\* retained_frame_repeats_submitted_content): published completely on the
\* synchronous path, put into a slot by submit_shared on the same-adapter path,
\* encoded and given to the publisher on the read-back path. Content that was
\* dropped as busy is never called a repeat. Accepted is not shown: on the two
\* paths with an encoder thread the unmarked frame may still be replaced by its
\* own repeat, or fail on the socket.
RepeatShowsKnown == wire.repeated => wire.content \in known

\* Between two steps of the capture thread the read-back path has a free buffer:
\* pump_unlocked never stalls, whatever the encoder thread holds.
AlwaysRoom ==
    agent.path = "readback" /\ capture.at = "idle" => InState(slots, "available") # {}

\* A stop of the video path returns: the encoder thread is never left waiting for
\* an event nobody sets.
StopReturns == capture.at = "stopping" ~> agent.path = "down"

\* The exchange of slots between the two threads is sound: slots and keys agree,
\* all keys come back, there is always room for the next copy, and the newest
\* accepted frame is not lost.
SlotExchange ==
    /\ VideoTypeOK
    /\ KeysAgree
    /\ KeysComeBack
    /\ AlwaysRoom
    /\ NewestKept

\* What is sent is what it should be: a keyframe is asked for as long as one is
\* owed, the picture is the one captured for its identity, and a repeat has a
\* content the pipeline accepted before.
WireIsFaithful ==
    /\ IdrIsNext
    /\ PictureIsCurrent
    /\ RepeatShowsKnown
-----------------------------------------------------------------------------
\* The checked instance: three slots, and one computer for every way a frame can
\* take.

Machine(vendor, preference, exact, shares, scales) ==
    [vendor |-> vendor, preference |-> preference, exact |-> exact, shares |-> shares, scales |-> scales]

ThreeSlots == {1, 2, 3}

FiveMachines ==
    {Machine("nvidia", "automatic", TRUE, FALSE, FALSE),
     Machine("intel", "nvenc", TRUE, FALSE, FALSE),
     Machine("intel", "nvenc", FALSE, FALSE, TRUE),
     Machine("intel", "automatic", FALSE, FALSE, FALSE),
     Machine("amd", "media_foundation", FALSE, FALSE, TRUE)}
=============================================================================
