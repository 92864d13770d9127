--------------------------- MODULE EpochAllocator ---------------------------
(* The abstract allocator of frame identities: a counter that survives      *)
(* everything. Epochs are issued in strictly increasing order, each once,   *)
(* and a frame identity of an issued epoch is used at most once.            *)
EXTENDS Naturals

CONSTANTS MaxEpoch, MaxSeq
VARIABLES issued, used

Ids == (1 .. MaxEpoch) \X (0 .. MaxSeq)

Init ==
    /\ issued = [e \in 1 .. MaxEpoch |-> 0]
    /\ used = [id \in Ids |-> 0]

IssueEpoch(e) ==
    /\ \A f \in e .. MaxEpoch : issued[f] = 0
    /\ issued' = [issued EXCEPT ![e] = 1]
    /\ UNCHANGED used

UseIdentity(id) ==
    /\ issued[id[1]] = 1
    /\ used[id] = 0
    /\ used' = [used EXCEPT ![id] = 1]
    /\ UNCHANGED issued

Next ==
    \/ \E e \in 1 .. MaxEpoch : IssueEpoch(e)
    \/ \E id \in Ids : UseIdentity(id)

Spec == Init /\ [][Next]_<<issued, used>>
=============================================================================
