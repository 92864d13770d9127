---------------------------- MODULE FrameTransfer ----------------------------
\* The slots that carry frames from the capture thread to the encoder thread
\* (hybrid_gpu_pipeline_policy.hpp), as operators on a function of slots.
\*
\* A slot has a state and the frame it carries. A slot of the same-adapter
\* pipeline is a texture with a keyed mutex as well: "key" is the key it was last
\* released with, 0 for the producer and 1 for the worker, and "owner" who holds
\* it. The slots of the read-back pipeline are CPU buffers and never use them.
\* Slots are interchangeable: the first free one stands for the one the rotating
\* index finds.
EXTENDS Integers, FiniteSets, Sequences, FiniteSetsExt

CONSTANT Slots    \* a set of numbers; kTransferSlotCount of them

NoFrame == [source |-> 0, content |-> 0, repeated |-> FALSE]
FreeSlot == [state |-> "available", key |-> 0, owner |-> "none", frame |-> NoFrame]
FreshSlots == [s \in Slots |-> FreeSlot]

InState(slots, state) == {s \in Slots : slots[s].state = state}
FirstSlot(S) == Min(S)

\* A slot that carries nothing any more; what is left in its memory is never read.
Emptied(slot, state) == [slot EXCEPT !.state = state, !.frame = NoFrame]

\* acquire_for_copy and acquire_for_write.
Acquire(slots, s) == [slots EXCEPT ![s].state = "writing"]

\* cancel_copy and cancel_write.
Cancel(slots, s) == IF slots[s].state = "writing" THEN [slots EXCEPT ![s] = Emptied(@, "available")] ELSE slots

\* The slots left in the mailbox are moved out of it: a keyed texture waits for
\* the worker to bring its key back, a CPU buffer is free at once.
Replaced(slots, state) ==
    [s \in Slots |-> IF slots[s].state = "mailbox" THEN Emptied(slots[s], state) ELSE slots[s]]

\* publish_latest of either policy: the mailbox holds one slot, the newest.
PublishLatest(slots, s, replacedState) ==
    [Replaced(slots, replacedState) EXCEPT ![s].state = "mailbox"]

\* take_latest and take_retired.
TakeByWorker(slots, s) == [slots EXCEPT ![s].state = "worker"]

\* retire_worker.
RetireWorker(slots, s) == [slots EXCEPT ![s] = Emptied(@, "retired")]

\* Mutant: a deferred slot goes back to the mailbox whatever is in it.
DeferWorkerMutant(slots, s) == PublishLatest(slots, s, "retired")

\* defer_worker: back into the mailbox, unless a newer frame is there.
DeferWorker(slots, s) ==
    IF InState(slots, "mailbox") = {} THEN [slots EXCEPT ![s].state = "mailbox"] ELSE RetireWorker(slots, s)

\* release_worker.
ReleaseWorker(slots, s) == [slots EXCEPT ![s] = Emptied(@, "available")]

----------------------------------------------------------------------------
\* IDXGIKeyedMutex, from how the pipeline uses it.

KeyFree(slots, s, key) == slots[s].owner = "none" /\ slots[s].key = key
AcquireSync(slots, s, who) == [slots EXCEPT ![s].owner = who]
ReleaseSync(slots, s, key) == [slots EXCEPT ![s].owner = "none", ![s].key = key]

----------------------------------------------------------------------------
\* repeated_frame_can_supersede_mailbox.
MaySupersede(pending, incoming) == ~incoming.repeated \/ pending.repeated

\* FixedLatestRing::push: a full ring loses its oldest item.
RingPush(ring, capacity, item) ==
    Append(IF Len(ring) = capacity THEN Tail(ring) ELSE ring, item)
=============================================================================
