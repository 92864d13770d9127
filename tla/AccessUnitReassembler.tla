----------------------- MODULE AccessUnitReassembler -----------------------
(***************************************************************************)
(* AccessUnitReassembler (shared/src/access_unit_reassembler.cpp): the     *)
(* single-epoch, decode-order-preserving reassembler of UDP fragments, as  *)
(* operators on its state.                                                 *)
(*                                                                         *)
(* pending_ is kept in arrival order, which is what arrival_order and      *)
(* first_seen_us are compared for; payload bytes are a token that is equal *)
(* for identical fragments. The byte limits are left out: a frame holds at *)
(* most kMaxAccessUnitBytes and max_inflight_frames_ of them stay below    *)
(* the default max_inflight_bytes_.                                        *)
(***************************************************************************)
EXTENDS Integers, Sequences, SequencesExt

CONSTANTS MaxInflight,   \* max_inflight_frames_
          MaxSeq         \* the largest frame sequence

ASSUME MaxInflightAssumption == MaxInflight \in Nat \ {0}
ASSUME SeqAssumption == MaxSeq \in Nat

None  == -1              \* an absent optional sequence
NoAu  == [epoch |-> 0, seq |-> None, rep |-> FALSE, idr |-> FALSE]

\* A reassembler before activate_epoch.
Fresh == [epoch |-> 0, last |-> None, pending |-> <<>>]

\* The constructor followed by activate_epoch(e, seed): how the receiver
\* rebuilds a reassembler. Epoch 0 stands for "no active epoch".
Rebuilt(e, seed) ==
    [epoch |-> e, last |-> IF e = 0 THEN None ELSE seed, pending |-> <<>>]

-----------------------------------------------------------------------------
\* Position in pending of the frame with sequence s, 0 if there is none.
IndexOf(pending, s) ==
    IF \E i \in DOMAIN pending : pending[i].seq = s
    THEN CHOOSE i \in DOMAIN pending : pending[i].seq = s
    ELSE 0

Received(frame) == {part[1] : part \in frame.parts}
Complete(frame) == Received(frame) = 1 .. frame.cnt

\* The position pop_completed selects: the successor of the last delivered
\* frame, or, before any delivery, the frame that arrived first.
Selected(r) ==
    IF r.last = None
    THEN IF r.pending = <<>> THEN 0 ELSE 1
    ELSE IF r.last = MaxSeq THEN 0 ELSE IndexOf(r.pending, r.last + 1)

\* What an operation returns: the reassembler, the access unit it delivers
\* (NoAu if none) and whether incomplete_access_unit_losses_ grew.
Result(r, out, lost) == [r |-> r, out |-> out, lost |-> lost]

\* pop_completed.
PopCompleted(r, lost) ==
    LET i == Selected(r) IN
    IF i = 0 \/ ~Complete(r.pending[i])
    THEN Result(r, NoAu, lost)
    ELSE LET f == r.pending[i] IN
         Result([r EXCEPT !.last = f.seq, !.pending = RemoveAt(@, i)],
                [epoch |-> r.epoch, seq |-> f.seq, rep |-> f.rep, idr |-> f.idr],
                lost)

\* erase_pending(iterator, true) for a conflicting duplicate.
EraseConflict(r, i) ==
    Result([r EXCEPT !.pending = RemoveAt(@, i)], NoAu, TRUE)

\* pending_.try_emplace(sequence).
Emplace(pending, f) ==
    IF IndexOf(pending, f.seq) # 0 THEN pending
    ELSE Append(pending, [seq |-> f.seq, cnt |-> f.cnt, rep |-> f.rep,
                          idr |-> f.idr, parts |-> {}])

\* The eviction loop: discard_oldest while there are too many frames.
Evicted(pending) ==
    IF Len(pending) > MaxInflight THEN Tail(pending) ELSE pending

\* push_payload for a fragment of the active epoch.
PushPayload(r, f) ==
    IF f.epoch # r.epoch \/ (r.last # None /\ f.seq <= r.last)
    THEN PopCompleted(r, FALSE)
    ELSE LET emplaced == Emplace(r.pending, f)
             i        == IndexOf(emplaced, f.seq)
             frame    == emplaced[i]
             r1       == [r EXCEPT !.pending = emplaced]
         IN IF \/ frame.cnt # f.cnt
               \/ frame.rep # f.rep
               \/ f.idx \in Received(frame) /\ <<f.idx, f.body>> \notin frame.parts
            THEN EraseConflict(r1, i)
            ELSE IF f.idx \in Received(frame)
            THEN PopCompleted(r1, FALSE)
            ELSE LET stored == [emplaced EXCEPT ![i].parts = @ \cup {<<f.idx, f.body>>}]
                     kept   == Evicted(stored)
                 IN PopCompleted([r EXCEPT !.pending = kept], kept # stored)

\* discard_expired: the frames that arrived first are the ones whose ttl is
\* over; k of them are, for a k the clock decides.
DiscardExpired(res, k) ==
    [res EXCEPT !.r.pending = SubSeq(@, k + 1, Len(@)),
                !.lost = @ \/ k > 0]
=============================================================================
