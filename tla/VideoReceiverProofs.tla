------------------------ MODULE VideoReceiverProofs ------------------------
(* Proofs about VideoReceiver, for every number of epochs and frames, every *)
(* limit on pending frames and every behaviour of the network.              *)
EXTENDS VideoReceiver, TLAPS

(* What pop_completed may do: deliver a frame of its epoch and remember its *)
(* sequence, or leave the last delivered sequence alone.                    *)
Delivers(r, res) ==
    /\ IsReassembler(res.r)
    /\ res.r.epoch = r.epoch
    /\ res.out # NoAu => res.out.epoch = r.epoch /\ res.out.seq = res.r.last
    /\ r.epoch # 0 /\ res.out = NoAu => res.r.last = r.last

(* pop_completed keeps the epoch and delivers what it records.              *)
LEMMA PopDelivers ==
  ASSUME NEW r, IsReassembler(r), NEW lost
  PROVE  Delivers(r, PopCompleted(r, lost))
  <1> DEFINE i == Selected(r)
             f == r.pending[i]
             out == [epoch |-> r.epoch, seq |-> f.seq, rep |-> f.rep, idr |-> f.idr]
             popped == [r EXCEPT !.last = f.seq, !.pending = RemoveAt(@, i)]
  <1>1. CASE i = 0 \/ ~Complete(f)
    <2>1. PopCompleted(r, lost) = Result(r, NoAu, lost)
      BY <1>1 DEF PopCompleted
    <2> QED
      BY <2>1 DEF Result, Delivers
  <1>2. CASE ~(i = 0 \/ ~Complete(f))
    <2>1. PopCompleted(r, lost) = Result(popped, out, lost)
      BY <1>2 DEF PopCompleted
    <2>2. IsReassembler(popped) /\ popped.epoch = r.epoch /\ popped.last = f.seq
      <3> DEFINE rest == RemoveAt(r.pending, i)
                 s    == f.seq
      <3>1. popped = [r EXCEPT !.last = s, !.pending = rest]
        OBVIOUS
      <3> HIDE DEF rest, s, popped
      <3>2. IsReassembler(popped) /\ popped.epoch = r.epoch /\ popped.last = s
        BY <3>1 DEF IsReassembler
      <3> QED
        BY <3>2 DEF s
    <2>3. r.epoch # 0 => out # NoAu
      <3> HIDE DEF f
      <3> QED BY DEF NoAu
    <2>4. out.epoch = r.epoch /\ out.seq = f.seq
      OBVIOUS
    <2> HIDE DEF out, popped, f
    <2>5. /\ PopCompleted(r, lost).r = popped
          /\ PopCompleted(r, lost).out = out
      BY <2>1 DEF Result
    <2> QED
      BY <2>2, <2>3, <2>4, <2>5 DEF Delivers
  <1> QED
    BY <1>1, <1>2

(* push_payload and discard_expired keep the epoch and deliver what they    *)
(* record.                                                                  *)
LEMMA ReassembleDelivers ==
  ASSUME NEW r, IsReassembler(r), NEW d, NEW k
  PROVE  Delivers(r, Reassemble(r, d, k))
  <1> DEFINE emplaced == Emplace(r.pending, d)
             i        == IndexOf(emplaced, d.seq)
             frame    == emplaced[i]
             r1       == [r EXCEPT !.pending = emplaced]
             stored   == [emplaced EXCEPT ![i].parts = @ \cup {<<d.idx, d.body>>}]
             r2       == [r EXCEPT !.pending = Evicted(stored)]
             res      == PushPayload(r, d)
  <1>1. Delivers(r, res)
    <2>0. ASSUME NEW p PROVE /\ IsReassembler([r EXCEPT !.pending = p])
                             /\ [r EXCEPT !.pending = p].epoch = r.epoch
                             /\ [r EXCEPT !.pending = p].last = r.last
      BY DEF IsReassembler
    <2>a. ASSUME NEW p, NEW lost
          PROVE  Delivers(r, PopCompleted([r EXCEPT !.pending = p], lost))
      <3> DEFINE q == [r EXCEPT !.pending = p]
      <3>1. IsReassembler(q) /\ q.epoch = r.epoch /\ q.last = r.last
        BY <2>0
      <3> HIDE DEF q
      <3>2. Delivers(q, PopCompleted(q, lost))
        BY <3>1, PopDelivers
      <3>3. Delivers(r, PopCompleted(q, lost))
        BY <3>1, <3>2 DEF Delivers
      <3> QED
        BY <3>3 DEF q
    <2>1. CASE d.epoch # r.epoch \/ (r.last # None /\ d.seq <= r.last)
      <3>1. res = PopCompleted(r, FALSE)
        BY <2>1 DEF PushPayload
      <3> QED
        BY <3>1, PopDelivers
    <2>2. CASE ~(d.epoch # r.epoch \/ (r.last # None /\ d.seq <= r.last))
      <3>1. \/ res = EraseConflict(r1, i)
            \/ res = PopCompleted(r1, FALSE)
            \/ res = PopCompleted(r2, Evicted(stored) # stored)
        BY <2>2 DEF PushPayload
      <3>2. CASE res = EraseConflict(r1, i)
        <4> DEFINE q == RemoveAt(r1.pending, i)
        <4>1. r1 = [r EXCEPT !.pending = emplaced]
          OBVIOUS
        <4>2. EraseConflict(r1, i) = Result([r1 EXCEPT !.pending = q], NoAu, TRUE)
          BY DEF EraseConflict
        <4>3. IsReassembler(r1) /\ r1.epoch = r.epoch /\ r1.last = r.last
          BY <2>0
        <4> HIDE DEF q, r1, res, i
        <4>4. /\ IsReassembler([r1 EXCEPT !.pending = q])
              /\ [r1 EXCEPT !.pending = q].epoch = r.epoch
              /\ [r1 EXCEPT !.pending = q].last = r.last
          BY <4>3 DEF IsReassembler
        <4> DEFINE erased == [r1 EXCEPT !.pending = q]
        <4>5. res = Result(erased, NoAu, TRUE)
          BY <3>2, <4>2
        <4>6. IsReassembler(erased) /\ erased.epoch = r.epoch /\ erased.last = r.last
          BY <4>4
        <4> HIDE DEF erased
        <4>7. res.r = erased /\ res.out = NoAu
          BY <4>5 DEF Result
        <4> QED
          BY <4>6, <4>7 DEF Delivers
      <3>3. CASE res = PopCompleted(r1, FALSE)
        BY <3>3, <2>a
      <3>4. CASE res = PopCompleted(r2, Evicted(stored) # stored)
        BY <3>4, <2>a
      <3> QED
        BY <3>1, <3>2, <3>3, <3>4
    <2> QED
      BY <2>1, <2>2
  <1>2. /\ DiscardExpired(res, k).out = res.out
        /\ DiscardExpired(res, k).r = [res.r EXCEPT !.pending = SubSeq(@, k + 1, Len(@))]
    <2>1. \E a, b, c : res = Result(a, b, c)
      BY DEF PushPayload, PopCompleted, EraseConflict
    <2>2. PICK a, b, c : res = Result(a, b, c)
      BY <2>1
    <2> HIDE DEF res
    <2> QED
      BY <2>2 DEF DiscardExpired, Result
  <1> HIDE DEF res
  <1>3. /\ IsReassembler(DiscardExpired(res, k).r)
        /\ DiscardExpired(res, k).r.epoch = res.r.epoch
        /\ DiscardExpired(res, k).r.last = res.r.last
    BY <1>1, <1>2 DEF Delivers, IsReassembler
  <1>4. Delivers(r, DiscardExpired(res, k))
    BY <1>1, <1>2, <1>3 DEF Delivers
  <1> QED
    BY <1>4 DEF Reassemble, res
-----------------------------------------------------------------------------
(* observe() keeps the session ordered when it answers "candidate", and the *)
(* new candidate is ahead of everything the session knew.                   *)
LEMMA ObservedOrdered ==
  ASSUME NEW s, Ordered(s), NEW e \in Epochs, Decision(s, e) = "candidate"
  PROVE  /\ Ordered(Observed(s, e))
         /\ Observed(s, e).candidate = e
         /\ Observed(s, e).active = s.active
         /\ Observed(s, e).retired >= s.retired
         /\ e > s.active
         /\ e > s.retired
  <1> USE ReceiverAssumption
  <1>1. e \in 1 .. MaxEpoch /\ e - 1 \in 0 .. MaxEpoch
    BY DEF Epochs
  <1>2. e > s.active /\ e > s.retired /\ (s.candidate # 0 => e >= s.candidate)
    BY <1>1 DEF Decision, Ordered
  <1> DEFINE old == IF s.candidate # 0
                    THEN IF s.candidate = e THEN s ELSE RetireThrough(s, s.candidate)
                    ELSE IF s.active = 0 THEN RetireThrough(s, e - 1) ELSE s
  <1>3. /\ old \in [active : 0 .. MaxEpoch, candidate : 0 .. MaxEpoch,
                     retired : 0 .. MaxEpoch]
        /\ old.active = s.active
        /\ old.retired >= s.retired
        /\ old.retired < e
    BY <1>1, <1>2 DEF Ordered, RetireThrough
  <1>4. Observed(s, e) = [old EXCEPT !.candidate = e]
    BY DEF Observed
  <1> HIDE DEF old
  <1> QED
    BY <1>1, <1>2, <1>3, <1>4 DEF Ordered

(* commit_candidate() makes the candidate active and never goes back.       *)
LEMMA CommittedOrdered ==
  ASSUME NEW s, Ordered(s), NEW e, CanCommit(s, e)
  PROVE  /\ Ordered(Committed(s, e))
         /\ Committed(s, e).candidate = 0
         /\ Committed(s, e).active = e
         /\ Committed(s, e).retired >= s.retired
         /\ e > s.active
         /\ e \in 1 .. MaxEpoch
  <1> USE ReceiverAssumption
  <1>1. e \in 1 .. MaxEpoch /\ e > s.active
    BY DEF CanCommit, Ordered
  <1> DEFINE old == IF s.active # 0 THEN RetireThrough(s, s.active) ELSE s
  <1>2. /\ old \in [active : 0 .. MaxEpoch, candidate : 0 .. MaxEpoch,
                     retired : 0 .. MaxEpoch]
        /\ old.retired >= s.retired
    BY DEF Ordered, RetireThrough
  <1> DEFINE opened == [old EXCEPT !.active = e]
  <1>3. Committed(s, e) = [opened EXCEPT !.candidate = 0]
    BY DEF Committed
  <1> HIDE DEF old
  <1>a. /\ opened \in [active : 0 .. MaxEpoch, candidate : 0 .. MaxEpoch,
                        retired : 0 .. MaxEpoch]
        /\ opened.active = e
        /\ opened.retired = old.retired
    BY <1>1, <1>2
  <1> HIDE DEF opened
  <1>4. /\ Committed(s, e) \in [active : 0 .. MaxEpoch, candidate : 0 .. MaxEpoch,
                                retired : 0 .. MaxEpoch]
        /\ Committed(s, e).active = e
        /\ Committed(s, e).candidate = 0
        /\ Committed(s, e).retired = old.retired
    BY <1>3, <1>a
  <1>5. Ordered(Committed(s, e))
    BY <1>4 DEF Ordered
  <1> QED
    BY <1>1, <1>2, <1>4, <1>5

(* Every datagram carries an epoch the Host may have reserved.              *)
LEMMA DatagramEpoch == ASSUME NEW d \in Datagrams PROVE d.epoch \in Epochs
  BY DEF Datagrams

(* Abandoning or completing a restart touches no frame of the codec.        *)
LEMMA TimedOutShape ==
  ASSUME NEW d, IsDecoder(d)
  PROVE  IsDecoder(TimedOut(d)) /\ TimedOut(d).last = d.last
  <1> DEFINE g == d.gen + 1
  <1>0. TimedOut(d) = [d EXCEPT !.restarting = FALSE, !.completion = "none",
                                !.gen = g, !.broken = TRUE]
    BY DEF TimedOut
  <1> HIDE DEF g
  <1>1. TimedOut(d) = [gen |-> g, base |-> d.base, restarting |-> FALSE,
                       completion |-> "none", broken |-> TRUE, java |-> d.java,
                       last |-> d.last]
    BY <1>0 DEF IsDecoder
  <1> QED
    BY <1>1 DEF IsDecoder

(* Opening an epoch: the policies, the reassembler and the codec agree on   *)
(* its IDR, or the receiver stops.                                          *)
LEMMA CommitOpens ==
  ASSUME NEW dec, IsDecoder(dec), NEW s, Ordered(s), NEW au, au.idr,
         CanCommit(s, au.epoch), Commit(dec, s, au)
  PROVE  /\ Ordered(session') /\ session'.active = au.epoch /\ au.epoch # 0
         /\ IsReassembler(active') /\ active'.epoch = au.epoch
         /\ IsDecoder(decoder')
         /\ running' \in {running, FALSE}
         /\ running' /\ running => /\ real'
                                  /\ ~ref'.awaiting
                                  /\ decoder'.last.epoch = au.epoch
                                  /\ decoder'.last.seq = ref'.last
                                  /\ active'.last = ref'.last
         /\ decoder'.last = dec.last \/ decoder'.last.idr
  <1>1. /\ Ordered(session') /\ session'.active = au.epoch /\ au.epoch # 0
    BY CommittedOrdered DEF Commit
  <1>2. IsReassembler(active') /\ active'.epoch = au.epoch /\ active'.last = au.seq
    BY <1>1 DEF Commit, Rebuilt, IsReassembler
  <1>3. CASE SubmitAccepted(dec, NoRef, FALSE, au) /\ UNCHANGED running
    <2> DEFINE l == [epoch |-> au.epoch, seq |-> au.seq, idr |-> au.idr]
    <2>1. decoder' = [dec EXCEPT !.last = l] /\ ref' = [awaiting |-> FALSE, last |-> au.seq]
      BY <1>3 DEF SubmitAccepted
    <2>2. l.epoch = au.epoch /\ l.seq = au.seq /\ l.idr
      OBVIOUS
    <2>3. real'
      BY <1>3 DEF SubmitAccepted
    <2> HIDE DEF l
    <2>4. IsDecoder(decoder') /\ decoder'.last = l
      BY <2>1 DEF IsDecoder
    <2> QED
      BY <1>1, <1>2, <1>3, <2>1, <2>2, <2>3, <2>4
  <1>4. CASE running' = FALSE /\ (decoder' = dec \/ decoder' = TimedOut(dec))
    BY <1>1, <1>2, <1>4, TimedOutShape
  <1> QED
    BY <1>3, <1>4 DEF Commit
-----------------------------------------------------------------------------
StepOK == IndInv' /\ ChainStep /\ EpochStep

(* The constructor and activate_epoch.                                      *)
LEMMA RebuiltShape ==
  ASSUME NEW e, NEW seed
  PROVE  IsReassembler(Rebuilt(e, seed)) /\ Rebuilt(e, seed).epoch = e
  BY DEF Rebuilt, IsReassembler

(* The session stays as it is.                                              *)
LEMMA SameSession ==
  ASSUME Ordered(session), UNCHANGED session
  PROVE  Ordered(session') /\ EpochStep
  <1>1. session.active \in Int /\ session.retired \in Int
    BY DEF Ordered
  <1>2. Ordered(session')
    BY DEF Ordered
  <1> QED
    BY <1>1, <1>2 DEF EpochStep

(* A candidate is observed.                                                 *)
LEMMA NewCandidate ==
  ASSUME Ordered(session), NEW e \in Epochs, Decision(session, e) = "candidate",
         session' = Observed(session, e)
  PROVE  Ordered(session') /\ EpochStep /\ session'.active = session.active
  <1>1. session.active \in Int
    BY DEF Ordered
  <1> QED
    BY <1>1, ObservedOrdered DEF EpochStep

(* A candidate, observed now or before, is committed.                       *)
LEMMA NewActive ==
  ASSUME Ordered(session), NEW s, Ordered(s), s.active = session.active,
         s.retired >= session.retired, NEW e, CanCommit(s, e),
         session' = Committed(s, e)
  PROVE  EpochStep
  <1>1. session.retired \in Int /\ s.retired \in Int /\ session.active \in Int
    BY DEF Ordered
  <1>2. /\ session'.candidate = 0 /\ session'.active = e
        /\ session'.retired >= s.retired /\ e > session.active
        /\ session'.retired \in Int /\ e \in Int
    BY CommittedOrdered DEF Ordered
  <1> QED
    BY <1>1, <1>2 DEF EpochStep

(* Steps of the Host, of Java and of stop(): nothing the receive thread     *)
(* owns changes, and the codec keeps the last frame it took.                *)
LEMMA QuietStep ==
  ASSUME IndInv,
         UNCHANGED <<session, active, cand, pendingIdr, restart, ref, real, phase,
                     completed>>,
         starts' = starts, running' = running \/ running' = FALSE,
         IsDecoder(decoder'), decoder'.last = decoder.last
  PROVE  StepOK
  <1>1. Ordered(session') /\ EpochStep
    BY SameSession DEF IndInv
  <1>2. Shapes' /\ LoopInv'
    BY DEF IndInv, Shapes, LoopInv
  <1>3. PolicyTracksCodec'
    BY DEF IndInv, PolicyTracksCodec
  <1>4. ChainStep
    BY DEF ChainStep
  <1> QED
    BY <1>1, <1>2, <1>3, <1>4 DEF StepOK, IndInv

(* start(): everything the thread owns is fresh.                            *)
LEMMA StartStep == ASSUME IndInv, Start PROVE StepOK
  <1> USE ReceiverAssumption
  <1>1. Ordered(session')
    BY DEF Start, NoSession, Ordered
  <1>2. IsReassembler(active') /\ IsReassembler(cand') /\ active'.epoch = 0
    BY DEF Start, Fresh, IsReassembler
  <1>3. IsDecoder(decoder') /\ (decoder'.last = decoder.last \/ decoder'.last = NoFrame)
    <2>1. CASE decoder' = decoder
      BY <2>1 DEF IndInv, Shapes
    <2>2. CASE decoder' = Configured(decoder.gen + 1, decoder.java)
      BY <2>2 DEF Configured, IsDecoder
    <2> QED
      BY <2>1, <2>2 DEF Start
  <1>4. Shapes'
    <2>1. starts' \in Nat
      BY DEF Start, IndInv, Shapes
    <2> QED
      BY <1>2, <1>3, <2>1 DEF Start, Shapes, NoRestart
  <1>5. LoopInv'
    BY <1>2 DEF Start, LoopInv, NoSession, NoRestart
  <1>6. PolicyTracksCodec'
    BY DEF Start, PolicyTracksCodec, NoRef
  <1>7. ChainStep
    BY <1>3 DEF ChainStep
  <1>8. starts' # starts
    BY DEF Start, IndInv, Shapes
  <1> QED
    BY <1>1, <1>4, <1>5, <1>6, <1>7, <1>8 DEF StepOK, IndInv, EpochStep

(* A fragment that does not complete a real IDR of the candidate.           *)
LEMMA CandidateIncompleteStep ==
  ASSUME IndInv, NEW d \in Datagrams, NEW k, CandidateIncomplete(d, k)
  PROVE  StepOK
  <1> DEFINE r == CandidateFor(d.epoch)
             res == Reassemble(r, d, k)
  <1>1. Ordered(session') /\ EpochStep /\ session'.active = session.active
    BY NewCandidate, DatagramEpoch DEF IndInv, CandidateIncomplete
  <1>2. IsReassembler(r)
    BY RebuiltShape DEF CandidateFor, IndInv, Shapes
  <1>3. IsReassembler(cand')
    <2>1. IsReassembler(res.r)
      BY <1>2, ReassembleDelivers DEF Delivers
    <2> QED
      BY <2>1, RebuiltShape DEF CandidateIncomplete
  <1>4. Shapes'
    BY <1>3 DEF CandidateIncomplete, Shapes, IndInv
  <1>5. LoopInv'
    BY <1>1 DEF CandidateIncomplete, Idle, KeptIdr, LoopInv, IndInv
  <1>6. PolicyTracksCodec'
    BY <1>1 DEF CandidateIncomplete, Idle, PolicyTracksCodec, IndInv
  <1>7. ChainStep
    BY DEF CandidateIncomplete, ChainStep
  <1> QED
    BY <1>1, <1>4, <1>5, <1>6, <1>7 DEF StepOK, IndInv

(* An epoch is opened: s is the session after observe().                    *)
LEMMA OpeningStep ==
  ASSUME IndInv, running, phase = "recv", NEW s, Ordered(s), s.active = session.active,
         s.retired >= session.retired, NEW au, au.idr, CanCommit(s, au.epoch),
         NEW dec, IsDecoder(dec), dec.last = decoder.last, Commit(dec, s, au),
         IsReassembler(cand'), restart' \in [pending : BOOLEAN, ready : BOOLEAN],
         ~restart'.pending, pendingIdr' \in {pendingIdr, NoAu}, Idle, starts' = starts
  PROVE  StepOK
  <1>1. /\ Ordered(session') /\ session'.active = au.epoch /\ au.epoch # 0
        /\ IsReassembler(active') /\ active'.epoch = au.epoch
        /\ IsDecoder(decoder')
        /\ running' => /\ real'
                       /\ decoder'.last.epoch = au.epoch
                       /\ decoder'.last.seq = ref'.last
                       /\ active'.last = ref'.last
        /\ decoder'.last = decoder.last \/ decoder'.last.idr
    BY CommitOpens
  <1>2. EpochStep
    BY NewActive DEF IndInv, Commit
  <1>3. Shapes'
    BY <1>1 DEF Shapes, IndInv
  <1>4. completed' = NoAu /\ phase' = "recv"
    BY DEF Idle, IndInv, LoopInv
  <1>5. LoopInv'
    BY <1>1, <1>4 DEF LoopInv, IndInv
  <1>6. PolicyTracksCodec'
    BY <1>1, <1>4 DEF PolicyTracksCodec
  <1>7. ChainStep
    BY <1>1 DEF ChainStep
  <1> QED
    BY <1>1, <1>2, <1>3, <1>5, <1>6, <1>7 DEF StepOK, IndInv

(* What a fragment that completes a real IDR of the candidate yields.       *)
LEMMA RealIdr ==
  ASSUME IndInv, NEW d \in Datagrams, NEW k, CompletesRealIdr(d, k)
  PROVE  LET res == Reassemble(CandidateFor(d.epoch), d, k) IN
         /\ IsReassembler(res.r)
         /\ res.out.idr
         /\ res.out # NoAu
         /\ res.out.epoch = d.epoch
  <1> DEFINE r == CandidateFor(d.epoch)
             res == Reassemble(r, d, k)
  <1>1. IsReassembler(r) /\ r.epoch = d.epoch
    BY RebuiltShape DEF CandidateFor, IndInv, Shapes
  <1>2. res.out.idr
    BY DEF CompletesRealIdr
  <1>3. res.out # NoAu
    BY <1>2 DEF NoAu
  <1> QED
    BY <1>1, <1>2, <1>3, ReassembleDelivers DEF Delivers

(* The first epoch of a receiver.                                           *)
LEMMA CandidateFirstStep ==
  ASSUME IndInv, NEW d \in Datagrams, NEW k, CandidateFirst(d, k)
  PROVE  StepOK
  <1> DEFINE res == Reassemble(CandidateFor(d.epoch), d, k)
             s   == Observed(session, d.epoch)
  <1>1. d.epoch \in Epochs /\ Decision(session, d.epoch) = "candidate"
    BY DatagramEpoch DEF CandidateFirst, CompletesRealIdr
  <1>2. /\ IsReassembler(res.r) /\ res.out.idr /\ res.out.epoch = d.epoch
    BY RealIdr DEF CandidateFirst
  <1>3. Ordered(s) /\ s.active = session.active /\ s.retired >= session.retired
    BY <1>1, ObservedOrdered DEF IndInv
  <1>4. /\ running /\ phase = "recv" /\ cand' = res.r /\ Idle
        /\ UNCHANGED <<starts, restart>> /\ session.active = 0
        /\ pendingIdr' \in {pendingIdr, NoAu}
    BY DEF CandidateFirst, KeptIdr
  <1>5. CASE CanCommit(s, d.epoch)
    <2>1. Commit(decoder, s, res.out)
      BY <1>5 DEF CandidateFirst
    <2>2. IsDecoder(decoder) /\ ~restart'.pending
          /\ restart' \in [pending : BOOLEAN, ready : BOOLEAN]
      BY <1>4 DEF IndInv, Shapes, LoopInv
    <2> HIDE DEF res, s
    <2> QED
      BY <1>2, <1>3, <1>4, <1>5, <2>1, <2>2, OpeningStep
  <1>6. CASE ~CanCommit(s, d.epoch)
    <2>1. session' = s /\ UNCHANGED <<running, active, ref, real, decoder>>
      BY <1>6 DEF CandidateFirst
    <2>2. Ordered(session') /\ EpochStep /\ session'.active = session.active
      BY <1>1, <2>1, NewCandidate DEF IndInv
    <2> HIDE DEF res, s
    <2>3. Shapes' /\ LoopInv' /\ PolicyTracksCodec'
      BY <1>2, <1>4, <2>1, <2>2 DEF Idle, IndInv, Shapes, LoopInv, PolicyTracksCodec
    <2> QED
      BY <2>1, <2>2, <2>3 DEF StepOK, IndInv, ChainStep
  <1> QED
    BY <1>5, <1>6

(* The candidate waits, or goes on waiting, for the codec: session, codec   *)
(* and restart may change, but the reference chain is closed.               *)
LEMMA WaitingStep ==
  ASSUME IndInv, phase = "recv", Idle, UNCHANGED <<active, starts>>,
         Ordered(session'), EpochStep, session'.active = session.active,
         IsReassembler(cand'), IsDecoder(decoder'),
         restart' \in [pending : BOOLEAN, ready : BOOLEAN],
         restart'.pending => session.active # 0,
         pendingIdr' # NoAu => pendingIdr'.idr,
         running' => ref'.awaiting,
         decoder'.last = decoder.last \/ decoder'.last = NoFrame
  PROVE  StepOK
  <1>1. Shapes'
    BY DEF Shapes, IndInv
  <1>2. LoopInv'
    BY DEF LoopInv, IndInv, Idle
  <1>3. PolicyTracksCodec'
    BY DEF PolicyTracksCodec
  <1>4. ChainStep
    BY DEF ChainStep
  <1> QED
    BY <1>1, <1>2, <1>3, <1>4 DEF StepOK, IndInv

(* While a codec restart is pending the reference chain is closed.          *)
LEMMA PendingIsClosed ==
  ASSUME IndInv, running, restart.pending PROVE ref.awaiting
  BY DEF IndInv, PolicyTracksCodec

(* restart_after_stream_discontinuity.                                      *)
LEMMA RestartShape ==
  ASSUME IndInv, RestartDecoder
  PROVE  /\ IsDecoder(decoder')
         /\ decoder'.last = decoder.last \/ decoder'.last = NoFrame
         /\ restart' \in [pending : BOOLEAN, ready : BOOLEAN]
  <1>0. IsDecoder(decoder) /\ restart \in [pending : BOOLEAN, ready : BOOLEAN]
    BY DEF IndInv, Shapes
  <1>1. ASSUME decoder' = decoder
        PROVE  IsDecoder(decoder') /\ decoder'.last = decoder.last
    BY <1>0, <1>1
  <1>2. ASSUME NEW b, NEW j, NEW h,
               decoder' = [decoder EXCEPT !.gen = h, !.restarting = TRUE,
                                          !.completion = "none", !.broken = b,
                                          !.java = j, !.last = NoFrame]
        PROVE  IsDecoder(decoder') /\ decoder'.last = NoFrame
    <2>1. decoder' = [gen |-> h, base |-> decoder.base, restarting |-> TRUE,
                      completion |-> "none", broken |-> b, java |-> j, last |-> NoFrame]
      BY <1>0, <1>2 DEF IsDecoder
    <2> QED
      BY <2>1 DEF IsDecoder
  <1>4. ASSUME NEW b, NEW h,
               decoder' = [decoder EXCEPT !.gen = h, !.completion = "none", !.broken = b]
        PROVE  IsDecoder(decoder') /\ decoder'.last = decoder.last
    <2>1. decoder' = [gen |-> h, base |-> decoder.base,
                      restarting |-> decoder.restarting, completion |-> "none",
                      broken |-> b, java |-> decoder.java, last |-> decoder.last]
      BY <1>0, <1>4 DEF IsDecoder
    <2> QED
      BY <2>1 DEF IsDecoder
  <1>5. \/ decoder' = decoder
        \/ \E h, b, j : decoder' = [decoder EXCEPT !.gen = h, !.restarting = TRUE,
                                                  !.completion = "none", !.broken = b,
                                                  !.java = j, !.last = NoFrame]
        \/ \E h, b : decoder' = [decoder EXCEPT !.gen = h, !.completion = "none",
                                               !.broken = b]
    BY DEF RestartDecoder
  <1>6. IsDecoder(decoder') /\ (decoder'.last = decoder.last \/ decoder'.last = NoFrame)
    BY <1>1, <1>2, <1>4, <1>5, Zenon
  <1>3. restart' \in [pending : BOOLEAN, ready : BOOLEAN]
    <2>1. restart' = [pending |-> TRUE, ready |-> FALSE] \/ restart' = restart
      BY Zenon DEF RestartDecoder
    <2>2. [pending |-> TRUE, ready |-> FALSE] \in [pending : BOOLEAN, ready : BOOLEAN]
      OBVIOUS
    <2> QED
      BY <1>0, <2>1, <2>2, Zenon
  <1> QED
    BY <1>3, <1>6

(* A later epoch: its IDR waits for a restarted codec.                      *)
LEMMA CandidateNextStep ==
  ASSUME IndInv, NEW d \in Datagrams, NEW k, CandidateNext(d, k)
  PROVE  StepOK
  <1> DEFINE res == Reassemble(CandidateFor(d.epoch), d, k)
  <1>1. d.epoch \in Epochs /\ Decision(session, d.epoch) = "candidate"
    BY DatagramEpoch DEF CandidateNext, CompletesRealIdr
  <1>2. IsReassembler(res.r) /\ res.out.idr
    BY RealIdr DEF CandidateNext
  <1>3. Ordered(session') /\ EpochStep /\ session'.active = session.active
    BY <1>1, NewCandidate DEF IndInv, CandidateNext
  <1>4. /\ running /\ phase = "recv" /\ cand' = res.r /\ Idle
        /\ UNCHANGED <<starts, active>> /\ session.active # 0
        /\ pendingIdr' = res.out
    BY DEF CandidateNext
  <1>5. CASE restart.pending
    <2>1. UNCHANGED <<running, restart, ref, real, decoder>>
      BY <1>5 DEF CandidateNext
    <2>2. /\ IsDecoder(decoder') /\ restart' \in [pending : BOOLEAN, ready : BOOLEAN]
      BY <2>1 DEF IndInv, Shapes
    <2>3. ref'.awaiting
      BY <1>4, <1>5, <2>1, PendingIsClosed
    <2> HIDE DEF res
    <2> QED
      BY <1>2, <1>3, <1>4, <2>1, <2>2, <2>3, WaitingStep
  <1>6. CASE ~restart.pending
    <2>1. RequireReferenceSync /\ RestartDecoder
      BY <1>6 DEF CandidateNext
    <2>2. ref'.awaiting
      BY <2>1 DEF RequireReferenceSync, NoRef
    <2> HIDE DEF res
    <2> QED
      BY <1>2, <1>3, <1>4, <2>1, <2>2, RestartShape, WaitingStep
  <1> QED
    BY <1>5, <1>6

(* A newer candidate completes its IDR after the codec is back.             *)
LEMMA CandidateAfterRestartStep ==
  ASSUME IndInv, NEW d \in Datagrams, NEW k, CandidateAfterRestart(d, k)
  PROVE  StepOK
  <1> DEFINE res == Reassemble(CandidateFor(d.epoch), d, k)
             s   == Observed(session, d.epoch)
  <1>1. d.epoch \in Epochs /\ Decision(session, d.epoch) = "candidate"
    BY DatagramEpoch DEF CandidateAfterRestart, CompletesRealIdr
  <1>2. /\ IsReassembler(res.r) /\ res.out.idr /\ res.out.epoch = d.epoch
    BY RealIdr DEF CandidateAfterRestart
  <1>3. Ordered(s) /\ s.active = session.active /\ s.retired >= session.retired
    BY <1>1, ObservedOrdered DEF IndInv
  <1>4. /\ running /\ phase = "recv" /\ cand' = res.r /\ Idle
        /\ starts' = starts /\ session.active # 0 /\ restart.pending
        /\ pendingIdr' = NoAu
    BY DEF CandidateAfterRestart
  <1>5. CASE CanCommit(s, d.epoch)
    <2>1. Commit(decoder, s, res.out) /\ restart' = NoRestart
      BY <1>5 DEF CandidateAfterRestart
    <2>2. IsDecoder(decoder) /\ ~restart'.pending
          /\ restart' \in [pending : BOOLEAN, ready : BOOLEAN]
      BY <2>1 DEF IndInv, Shapes, NoRestart
    <2> HIDE DEF res, s
    <2> QED
      BY <1>2, <1>3, <1>4, <1>5, <2>1, <2>2, OpeningStep
  <1>6. CASE ~CanCommit(s, d.epoch)
    <2>1. session' = s /\ UNCHANGED <<running, active, restart, ref, real, decoder>>
      BY <1>6 DEF CandidateAfterRestart
    <2>2. Ordered(session') /\ EpochStep /\ session'.active = session.active
      BY <1>1, <2>1, NewCandidate DEF IndInv
    <2>3. /\ IsDecoder(decoder') /\ restart' \in [pending : BOOLEAN, ready : BOOLEAN]
      BY <2>1 DEF IndInv, Shapes
    <2>4. ref'.awaiting
      BY <1>4, <2>1, PendingIsClosed
    <2> HIDE DEF res, s
    <2> QED
      BY <1>2, <1>4, <2>1, <2>2, <2>3, <2>4, WaitingStep
  <1> QED
    BY <1>5, <1>6

(* The loop takes the completion of a codec restart.                        *)
LEMMA TakeRestartCompletionStep ==
  ASSUME IndInv, TakeRestartCompletion PROVE StepOK
  <1> DEFINE taken == [decoder EXCEPT !.completion = "none"]
  <1>1. IsDecoder(taken) /\ taken.last = decoder.last
    BY DEF IndInv, Shapes, IsDecoder
  <1>2. /\ running /\ phase = "recv" /\ restart.pending /\ Idle
        /\ UNCHANGED <<starts, cand>> /\ IsReassembler(cand')
        /\ Ordered(session) /\ session.active # 0 /\ ref.awaiting
        /\ restart \in [pending : BOOLEAN, ready : BOOLEAN]
        /\ pendingIdr # NoAu => pendingIdr.idr
    BY PendingIsClosed DEF TakeRestartCompletion, IndInv, Shapes, LoopInv
  <1>3. CASE /\ UNCHANGED <<session, active, ref>>
             /\ decoder' = taken
             /\ pendingIdr' \in {pendingIdr, NoAu}
             /\ restart' \in {restart, [restart EXCEPT !.ready = TRUE]}
    <2>1. restart' \in [pending : BOOLEAN, ready : BOOLEAN]
      BY <1>2, <1>3
    <2> HIDE DEF taken
    <2> QED
      BY <1>1, <1>2, <1>3, <2>1, SameSession, WaitingStep
  <1>4. CASE /\ pendingIdr # NoAu
             /\ pendingIdr' = NoAu
             /\ CanCommit(session, pendingIdr.epoch)
             /\ Commit(taken, session, pendingIdr)
             /\ restart' = NoRestart
    <2>1. ~restart'.pending /\ restart' \in [pending : BOOLEAN, ready : BOOLEAN]
      BY <1>4 DEF NoRestart
    <2>2. session.retired >= session.retired
      BY <1>2 DEF Ordered
    <2> HIDE DEF taken
    <2> QED
      BY <1>1, <1>2, <1>4, <2>1, <2>2, OpeningStep
  <1> QED
    BY <1>3, <1>4 DEF TakeRestartCompletion

-----------------------------------------------------------------------------
(* A fatal codec error marks the decoder and nothing else.                  *)
LEMMA CodecFailsShape ==
  ASSUME IsDecoder(decoder), CodecFails
  PROVE  IsDecoder(decoder') /\ decoder'.last = decoder.last
  BY DEF CodecFails, IsDecoder

(* complete_stream_restart leaves the last frame alone.                     *)
LEMMA CompleteShape ==
  ASSUME IsDecoder(decoder), NEW g, NEW ok, CompleteStreamRestart(g, ok)
  PROVE  IsDecoder(decoder') /\ decoder'.last = decoder.last
  <1> DEFINE j == decoder.java \ {g}
             c == IF ok THEN "succeeded" ELSE "failed"
             b == ~ok
  <1>1. CASE g = decoder.gen /\ decoder.restarting
    <2>1. decoder' = [decoder EXCEPT !.java = j, !.restarting = FALSE,
                                     !.completion = c, !.broken = b]
      BY <1>1 DEF CompleteStreamRestart
    <2> HIDE DEF j, c, b
    <2>2. decoder' = [gen |-> decoder.gen, base |-> decoder.base, restarting |-> FALSE,
                      completion |-> c, broken |-> b, java |-> j,
                      last |-> decoder.last]
      BY <2>1 DEF IsDecoder
    <2> QED
      BY <2>2 DEF IsDecoder
  <1>2. CASE ~(g = decoder.gen /\ decoder.restarting)
    <2>1. decoder' = [decoder EXCEPT !.java = j]
      BY <1>2 DEF CompleteStreamRestart
    <2> HIDE DEF j
    <2> QED
      BY <2>1 DEF IsDecoder
  <1> QED
    BY <1>1, <1>2

(* Steps of the active path: session, candidate and restart stay as they    *)
(* are. What they must show is what they do to the chain.                   *)
LEMMA ActiveStep ==
  ASSUME IndInv,
         UNCHANGED <<starts, session, cand, pendingIdr, restart>>,
         IsReassembler(active'), active'.epoch = session.active,
         IsDecoder(decoder'),
         phase' \in {"recv", "drain"},
         phase' = "recv" => completed' = NoAu,
         phase' = "drain" => session.active # 0 /\ ~restart.pending,
         completed' # NoAu => /\ completed'.epoch = session.active
                              /\ completed'.seq = active'.last,
         PolicyTracksCodec', ChainStep
  PROVE  StepOK
  <1>1. Ordered(session') /\ EpochStep
    BY SameSession DEF IndInv
  <1>2. Shapes'
    BY DEF IndInv, Shapes
  <1>3. LoopInv'
    BY DEF IndInv, LoopInv
  <1> QED
    BY <1>1, <1>2, <1>3 DEF StepOK, IndInv

(* A fragment of the active epoch is reassembled.                           *)
LEMMA ActiveDatagramStep ==
  ASSUME IndInv, NEW d \in Datagrams, NEW k, ActiveDatagram(d, k)
  PROVE  StepOK
  <1> USE ReceiverAssumption
  <1> DEFINE res == Reassemble(active, d, k)
  <1>1. /\ running /\ phase = "recv" /\ ~restart.pending /\ phase' = "drain"
        /\ UNCHANGED <<running, starts, session, cand, pendingIdr, restart, decoder>>
        /\ IsDecoder(decoder') /\ active.epoch = session.active /\ completed = NoAu
    BY DEF ActiveDatagram, IndInv, LoopInv, Shapes
  <1>2. session.active # 0
    <2>1. session.active = d.epoch
      BY DEF ActiveDatagram, Decision
    <2> QED
      BY <2>1, DatagramEpoch DEF Epochs
  <1>3. Delivers(active, res)
    BY ReassembleDelivers DEF IndInv, Shapes
  <1>4. ChainStep
    BY <1>1 DEF ChainStep
  <1>5. CASE res.lost
    <2>1. /\ RequireReferenceSync
          /\ active' = Rebuilt(session.active, None)
          /\ completed' = NoAu
      BY <1>5 DEF ActiveDatagram
    <2>2. PolicyTracksCodec'
      BY <2>1 DEF PolicyTracksCodec, RequireReferenceSync, NoRef
    <2>3. IsReassembler(active') /\ active'.epoch = session.active
      BY <2>1, RebuiltShape
    <2> QED
      BY <1>1, <1>2, <1>4, <2>1, <2>2, <2>3, ActiveStep
  <1>6. CASE ~res.lost
    <2>1. UNCHANGED <<ref, real>> /\ active' = res.r /\ completed' = res.out
      BY <1>6 DEF ActiveDatagram
    <2>2. /\ IsReassembler(active') /\ active'.epoch = session.active
          /\ completed' # NoAu => /\ completed'.epoch = session.active
                                  /\ completed'.seq = active'.last
          /\ completed' = NoAu => active'.last = active.last
      BY <1>1, <1>2, <1>3, <2>1 DEF Delivers
    <2> HIDE DEF res
    <2>3. PolicyTracksCodec'
      BY <1>1, <2>1, <2>2 DEF IndInv, PolicyTracksCodec
    <2> QED
      BY <1>1, <1>2, <1>4, <2>1, <2>2, <2>3, ActiveStep
  <1> QED
    BY <1>5, <1>6

(* The decoder takes an access unit: here the chain is extended.            *)
LEMMA DrainAcceptedStep == ASSUME IndInv, DrainAccepted PROVE StepOK
  <1> DEFINE next == PopCompleted(active, FALSE)
             l == [epoch |-> completed.epoch, seq |-> completed.seq,
                   idr |-> completed.idr]
  <1>1. /\ running /\ phase = "drain" /\ completed # NoAu
        /\ SubmitAccepted(decoder, ref, real, completed)
        /\ active' = next.r /\ completed' = next.out
        /\ UNCHANGED <<running, starts, session, cand, pendingIdr, restart, phase>>
    BY DEF DrainAccepted
  <1>2. /\ completed.epoch = session.active /\ completed.seq = active.last
        /\ session.active # 0 /\ ~restart.pending /\ active.epoch = session.active
        /\ IsReassembler(active) /\ IsDecoder(decoder)
    BY <1>1 DEF IndInv, LoopInv, Shapes
  <1>3. Delivers(active, next)
    BY <1>2, PopDelivers
  <1>4. /\ IsReassembler(active') /\ active'.epoch = session.active
        /\ completed' # NoAu => /\ completed'.epoch = session.active
                                /\ completed'.seq = active'.last
        /\ completed' = NoAu => active'.last = completed.seq
    BY <1>1, <1>2, <1>3 DEF Delivers
  <1>5. /\ decoder' = [decoder EXCEPT !.last = l]
        /\ ref' = [awaiting |-> FALSE, last |-> completed.seq]
        /\ Admitted(ref, completed)
        /\ real' = (real \/ ~(completed.rep /\ ~completed.idr))
        /\ RepeatAdmitted(real, completed)
    BY <1>1 DEF SubmitAccepted
  <1>6. real'
    BY <1>5 DEF RepeatAdmitted
  <1>7. l.epoch = completed.epoch /\ l.seq = completed.seq /\ l.idr = completed.idr
    OBVIOUS
  <1> HIDE DEF l, next
  <1>8. IsDecoder(decoder') /\ decoder'.last = l
    BY <1>2, <1>5 DEF IsDecoder
  <1>9. PolicyTracksCodec'
    BY <1>1, <1>2, <1>4, <1>5, <1>6, <1>7, <1>8 DEF PolicyTracksCodec
  <1>10. ChainStep
    <2>1. ASSUME ~completed.idr
          PROVE  completed.seq = ref.last + 1 /\ ~ref.awaiting
      BY <1>5, <2>1 DEF Admitted
    <2>2. ASSUME ~completed.idr
          PROVE  decoder.last.epoch = l.epoch /\ decoder.last.seq + 1 = l.seq
      BY <1>1, <1>2, <1>7, <2>1, <2>2 DEF IndInv, PolicyTracksCodec
    <2> QED
      BY <1>7, <1>8, <2>2 DEF ChainStep
  <1> QED
    BY <1>1, <1>2, <1>4, <1>8, <1>9, <1>10, ActiveStep

(* An access unit is refused: the chain is closed, or the loop ends.        *)
LEMMA DrainRefusedStep == ASSUME IndInv, DrainRefused PROVE StepOK
  <1>1. /\ running /\ phase = "drain" /\ completed # NoAu /\ completed' = NoAu
        /\ SubmitRefused(ref, real, completed)
        /\ UNCHANGED <<starts, session, cand, pendingIdr, restart, phase>>
    BY DEF DrainRefused
  <1>2. /\ session.active # 0 /\ ~restart.pending /\ active.epoch = session.active
        /\ IsReassembler(active) /\ IsDecoder(decoder)
    BY <1>1 DEF IndInv, LoopInv, Shapes
  <1>3. ref'.awaiting
    <2>1. CASE Admitted(ref, completed) /\ ~RepeatAdmitted(real, completed)
      <3>1. ~completed.idr /\ ~real
        BY <2>1 DEF RepeatAdmitted
      <3>2. ~ref.awaiting
        BY <2>1, <3>1 DEF Admitted
      <3> QED
        BY <1>1, <3>1, <3>2 DEF IndInv, PolicyTracksCodec
    <2>2. CASE ~(Admitted(ref, completed) /\ ~RepeatAdmitted(real, completed))
      BY <1>1, <2>2 DEF SubmitRefused, RequireReferenceSync, NoRef
    <2> QED
      BY <2>1, <2>2
  <1>4. IsDecoder(decoder') /\ decoder'.last = decoder.last
    <2>1. decoder' = decoder \/ decoder' = TimedOut(decoder)
      BY Zenon DEF DrainRefused
    <2>2. IsDecoder(TimedOut(decoder)) /\ TimedOut(decoder).last = decoder.last
      BY <1>2, TimedOutShape
    <2> QED
      BY <1>2, <2>1, <2>2
  <1>5. IsReassembler(active') /\ active'.epoch = session.active
    BY <1>2, RebuiltShape DEF DrainRefused
  <1>6. PolicyTracksCodec'
    BY <1>3 DEF PolicyTracksCodec
  <1>7. ChainStep
    BY <1>4 DEF ChainStep
  <1> QED
    BY <1>1, <1>2, <1>4, <1>5, <1>6, <1>7, ActiveStep

(* The end of the handling of a datagram, and the silence of the socket.    *)
LEMMA RecoveryStep ==
  ASSUME IndInv, FinishDatagram \/ IdleRecovery PROVE StepOK
  <1>1. /\ UNCHANGED <<running, starts, session, cand, pendingIdr, restart, decoder>>
        /\ phase' = "recv" /\ completed' = NoAu /\ completed = NoAu
    BY DEF FinishDatagram, IdleRecovery, Idle, IndInv, LoopInv
  <1>2. /\ active.epoch = session.active
        /\ IsReassembler(active) /\ IsDecoder(decoder)
    BY DEF IndInv, LoopInv, Shapes
  <1>3. \/ UNCHANGED <<active, ref, real>>
        \/ ref'.awaiting /\ active' = Rebuilt(session.active, None)
    BY DEF FinishDatagram, IdleRecovery, RequireReferenceSync, NoRef
  <1>4. IsReassembler(active') /\ active'.epoch = session.active
    BY <1>2, <1>3, RebuiltShape
  <1>5. PolicyTracksCodec'
    BY <1>1, <1>3 DEF IndInv, PolicyTracksCodec
  <1>6. ChainStep
    BY <1>1 DEF ChainStep
  <1> QED
    BY <1>1, <1>2, <1>4, <1>5, <1>6, ActiveStep

-----------------------------------------------------------------------------
(* Every step keeps the invariant, extends the codec's chain only by the    *)
(* next frame, and never moves the session back.                            *)
LEMMA EveryStep == ASSUME IndInv, [Next]_vars PROVE StepOK
  <1>0. IsDecoder(decoder)
    BY DEF IndInv, Shapes
  <1>1. CASE \E e \in Epochs, k \in Kinds : HostSend(e, k)
    BY <1>0, <1>1, QuietStep DEF HostSend, thread
  <1>2. CASE Start
    BY <1>2, StartStep
  <1>3. CASE Stop
    BY <1>0, <1>3, QuietStep DEF Stop, thread
  <1>4. CASE CodecFails
    <2>1. UNCHANGED <<running, starts, thread>>
      BY <1>4 DEF CodecFails
    <2> QED
      BY <1>0, <1>4, <2>1, CodecFailsShape, QuietStep DEF thread
  <1>5. ASSUME NEW g \in decoder.java, NEW ok \in BOOLEAN, CompleteStreamRestart(g, ok)
        PROVE  StepOK
    <2>1. UNCHANGED <<running, starts, thread>>
      BY <1>5 DEF CompleteStreamRestart
    <2> QED
      BY <1>0, <1>5, <2>1, CompleteShape, QuietStep DEF thread
  <1>6. CASE Receive
    <2>1. ASSUME NEW d \in Datagrams, NEW k \in 0 .. MaxInflight,
                 \/ CandidateIncomplete(d, k)
                 \/ CandidateFirst(d, k)
                 \/ CandidateNext(d, k)
                 \/ CandidateAfterRestart(d, k)
                 \/ ActiveDatagram(d, k)
          PROVE  StepOK
      BY <2>1, CandidateIncompleteStep, CandidateFirstStep, CandidateNextStep,
         CandidateAfterRestartStep, ActiveDatagramStep
    <2>2. CASE TakeRestartCompletion
      BY <2>2, TakeRestartCompletionStep
    <2>3. CASE RestartTimeout
      <3>1. /\ UNCHANGED <<starts, thread>> /\ running' = FALSE
            /\ decoder' = TimedOut(decoder)
        BY <2>3 DEF RestartTimeout
      <3> QED
        BY <1>0, <3>1, TimedOutShape, QuietStep DEF thread
    <2>4. CASE DrainAccepted
      BY <2>4, DrainAcceptedStep
    <2>5. CASE DrainRefused
      BY <2>5, DrainRefusedStep
    <2>6. CASE FinishDatagram \/ IdleRecovery
      BY <2>6, RecoveryStep
    <2> QED
      BY <1>6, <2>1, <2>2, <2>3, <2>4, <2>5, <2>6 DEF Receive
  <1>7. CASE UNCHANGED vars
    BY <1>0, <1>7, QuietStep DEF vars, thread
  <1> QED
    BY <1>1, <1>2, <1>3, <1>4, <1>5, <1>6, <1>7 DEF Next

(* A receiver that was never started satisfies the invariant.               *)
LEMMA InitialState == Init => IndInv
  <1> USE ReceiverAssumption
  <1> SUFFICES ASSUME Init PROVE IndInv
    OBVIOUS
  <1>1. Ordered(session)
    BY DEF Init, NoSession, Ordered
  <1>2. Shapes
    <2>1. IsReassembler(active) /\ IsReassembler(cand)
      BY DEF Init, Fresh, IsReassembler
    <2>2. IsDecoder(decoder)
      BY DEF Init, Configured, IsDecoder
    <2>3. restart \in [pending : BOOLEAN, ready : BOOLEAN] /\ starts \in Nat
      BY DEF Init, NoRestart
    <2> QED
      BY <2>1, <2>2, <2>3 DEF Shapes
  <1>3. LoopInv
    BY DEF Init, Fresh, NoSession, NoRestart, LoopInv
  <1>4. PolicyTracksCodec
    BY DEF Init, PolicyTracksCodec
  <1> QED
    BY <1>1, <1>2, <1>3, <1>4 DEF IndInv

(* The inductive invariant of the receiver holds in every reachable state.  *)
THEOREM ReceiverInvariant == Spec => []IndInv
  <1>1. IndInv /\ [Next]_vars => IndInv'
    BY EveryStep DEF StepOK
  <1> QED
    BY InitialState, <1>1, PTL DEF Spec

(* While it is open, the reference-sync policy describes the codec exactly. *)
THEOREM PolicyAlwaysTracksCodec == Spec => []PolicyTracksCodec
  <1>1. IndInv => PolicyTracksCodec
    BY DEF IndInv
  <1> QED
    BY ReceiverInvariant, <1>1, PTL

(* A predicted frame reaches the codec only right behind its predecessor of *)
(* the same epoch, whatever the network, the Host and the codec do.         *)
THEOREM ReferenceChainHolds == Spec => ReferenceChain
  <1>1. IndInv /\ [Next]_vars => [ChainStep]_vars
    BY EveryStep DEF StepOK
  <1> QED
    BY ReceiverInvariant, <1>1, PTL DEF Spec, ReferenceChain

-----------------------------------------------------------------------------
(* What the reassemblers and the decoder hold *)

\* The pending frames of epoch e: each is one the Host has sent.
Genuine(e) ==
    IF e \in Epochs
    THEN {f \in [seq : 0 .. MaxSeq, cnt : 1 .. 2, rep : BOOLEAN, idr : BOOLEAN,
                 parts : SUBSET ((1 .. 2) \X Bodies)] :
             /\ f.seq + 1 \in DOMAIN sent[e]
             /\ f.rep = IsRepeat(sent[e][f.seq + 1])
             /\ f.idr = IsIdr(sent[e][f.seq + 1])}
    ELSE {}

ReassemblerOK(r) ==
    /\ IsReassembler(r)
    /\ r.epoch \in 0 .. MaxEpoch
    /\ r.last \in None .. MaxSeq
    /\ r.pending \in Seq(Genuine(r.epoch))
    /\ Len(r.pending) <= MaxInflight

\* An access unit is absent, or a frame the Host has sent.
GenuineAu(au) ==
    \/ au = NoAu
    \/ /\ au \in [epoch : Epochs, seq : 0 .. MaxSeq, rep : BOOLEAN, idr : BOOLEAN]
       /\ au.seq + 1 \in DOMAIN sent[au.epoch]
       /\ au.rep = IsRepeat(sent[au.epoch][au.seq + 1])
       /\ au.idr = IsIdr(sent[au.epoch][au.seq + 1])

SentOK ==
    /\ sent \in [Epochs -> Seq(Kinds)]
    /\ \A e \in Epochs : Len(sent[e]) <= MaxSeq + 1

ContentInv ==
    /\ SentOK
    /\ running \in BOOLEAN /\ starts \in 0 .. MaxStarts /\ real \in BOOLEAN
    /\ ref \in [awaiting : BOOLEAN, last : None .. MaxSeq]
    /\ ReassemblerOK(active) /\ ReassemblerOK(cand)
    /\ GenuineAu(completed)
    /\ GenuineAu(pendingIdr)
    /\ pendingIdr # NoAu => ~pendingIdr.rep
    /\ running /\ pendingIdr # NoAu => restart.pending

\* One generation at most is newer than the codec, and it is the one that is
\* awaited; a codec that is awaited holds no frame.
DecoderOK(d) ==
    /\ IsDecoder(d)
    /\ d.gen \in Nat /\ d.base \in Nat /\ d.base <= d.gen
    /\ d.java \subseteq 1 .. d.gen
    /\ d.restarting \in BOOLEAN /\ d.broken \in BOOLEAN
    /\ d.completion \in {"none", "succeeded", "failed"}
    /\ d.last \in Frames
    /\ \A g, h \in d.java : g > d.base /\ h > d.base => g = h
    /\ d.restarting => /\ d.gen \in d.java /\ d.gen > d.base
                       /\ d.completion = "none" /\ d.last = NoFrame
    /\ d.completion = "succeeded" => ~Busy(d)

DecoderInv ==
    /\ DecoderOK(decoder)
    /\ restart.pending => decoder.last = NoFrame

FullInv == IndInv /\ ContentInv /\ DecoderInv

-----------------------------------------------------------------------------
(* Operations on the pending frames *)

(* RemoveAt drops one element.                                              *)
LEMMA RemoveAtShape ==
  ASSUME NEW S, NEW p \in Seq(S), NEW i \in 1 .. Len(p)
  PROVE  RemoveAt(p, i) \in Seq(S) /\ Len(RemoveAt(p, i)) = Len(p) - 1
  <1>1. Len(p) \in Nat /\ i \in Nat /\ i - 1 \in 0 .. Len(p) /\ i + 1 \in 1 .. Len(p) + 1
    OBVIOUS
  <1>2. SubSeq(p, 1, i - 1) \in Seq(S) /\ Len(SubSeq(p, 1, i - 1)) = i - 1
    BY <1>1
  <1>3. /\ SubSeq(p, i + 1, Len(p)) \in Seq(S)
        /\ Len(SubSeq(p, i + 1, Len(p))) = Len(p) - i
    BY <1>1
  <1> DEFINE a == SubSeq(p, 1, i - 1)
             b == SubSeq(p, i + 1, Len(p))
  <1>4. RemoveAt(p, i) = a \o b
    BY DEF RemoveAt
  <1>5. a \in Seq(S) /\ b \in Seq(S) /\ Len(a) = i - 1 /\ Len(b) = Len(p) - i
    BY <1>2, <1>3
  <1> HIDE DEF a, b
  <1>6. a \o b \in Seq(S) /\ Len(a \o b) = Len(a) + Len(b)
    BY <1>5
  <1> QED
    BY <1>1, <1>4, <1>5, <1>6

(* discard_expired drops a prefix.                                          *)
LEMMA SuffixShape ==
  ASSUME NEW S, NEW p \in Seq(S), NEW k \in 0 .. Len(p)
  PROVE  /\ SubSeq(p, k + 1, Len(p)) \in Seq(S)
         /\ Len(SubSeq(p, k + 1, Len(p))) <= Len(p)
  OBVIOUS

(* The eviction loop leaves no more frames than the limit.                  *)
LEMMA EvictedShape ==
  ASSUME NEW S, NEW p \in Seq(S), Len(p) <= MaxInflight + 1
  PROVE  Evicted(p) \in Seq(S) /\ Len(Evicted(p)) <= MaxInflight
  <1>1. CASE Len(p) > MaxInflight
    <2>1. p # <<>>
      BY <1>1, MaxInflightAssumption
    <2>2. Tail(p) \in Seq(S) /\ Len(Tail(p)) = Len(p) - 1
      BY <2>1
    <2> QED
      BY <1>1, <2>2, MaxInflightAssumption DEF Evicted
  <1>2. CASE ~(Len(p) > MaxInflight)
    BY <1>2, MaxInflightAssumption DEF Evicted
  <1> QED
    BY <1>1, <1>2

(* The index of a sequence is a position, or 0.                             *)
LEMMA IndexShape ==
  ASSUME NEW S, NEW p \in Seq(S), NEW n
  PROVE  /\ IndexOf(p, n) \in 0 .. Len(p)
         /\ IndexOf(p, n) # 0 => p[IndexOf(p, n)].seq = n
         /\ (\E i \in 1 .. Len(p) : p[i].seq = n) => IndexOf(p, n) # 0
  <1>1. DOMAIN p = 1 .. Len(p) /\ Len(p) \in Nat
    OBVIOUS
  <1>2. CASE \E i \in DOMAIN p : p[i].seq = n
    <2> DEFINE j == CHOOSE i \in DOMAIN p : p[i].seq = n
    <2>1. j \in DOMAIN p /\ p[j].seq = n
      BY <1>2
    <2>2. IndexOf(p, n) = j
      BY <1>2 DEF IndexOf
    <2> HIDE DEF j
    <2> QED
      BY <1>1, <2>1, <2>2
  <1>3. CASE ~\E i \in DOMAIN p : p[i].seq = n
    BY <1>1, <1>3 DEF IndexOf
  <1> QED
    BY <1>2, <1>3

(* What the header of a datagram says of the frame it belongs to.           *)
LEMMA DatagramIsGenuine ==
  ASSUME SentOK, NEW d \in Datagrams
  PROVE  /\ d.epoch \in Epochs /\ d.seq \in 0 .. MaxSeq
         /\ d.seq + 1 \in DOMAIN sent[d.epoch]
         /\ d.rep = IsRepeat(sent[d.epoch][d.seq + 1])
         /\ d.idr = IsIdr(sent[d.epoch][d.seq + 1])
         /\ d.rep \in BOOLEAN /\ d.idr \in BOOLEAN
         /\ d.cnt \in 1 .. 2 /\ d.idx \in 1 .. 2 /\ d.body \in Bodies
  <1> DEFINE At(e, n, i, b) ==
               [epoch |-> e, seq |-> n - 1, idx |-> i, body |-> b,
                cnt |-> Fragments(sent[e][n]), rep |-> IsRepeat(sent[e][n]),
                idr |-> IsIdr(sent[e][n])]
  <1>a. PICK e \in Epochs :
           \E n \in DOMAIN sent[e] : \E i \in 1 .. Fragments(sent[e][n]), b \in Bodies :
              d = At(e, n, i, b)
    BY DEF Datagrams
  <1>b. PICK n \in DOMAIN sent[e] : \E i \in 1 .. Fragments(sent[e][n]), b \in Bodies :
              d = At(e, n, i, b)
    BY <1>a
  <1>1. PICK i \in 1 .. Fragments(sent[e][n]), b \in Bodies : d = At(e, n, i, b)
    BY <1>b
  <1>2. /\ d.epoch = e /\ d.seq = n - 1 /\ d.idx = i /\ d.body = b
        /\ d.cnt = Fragments(sent[e][n]) /\ d.rep = IsRepeat(sent[e][n])
        /\ d.idr = IsIdr(sent[e][n])
    BY <1>1
  <1>3. n \in 1 .. MaxSeq + 1 /\ n - 1 \in 0 .. MaxSeq /\ (n - 1) + 1 = n
    BY SeqAssumption DEF SentOK
  <1>4. Fragments(sent[e][n]) \in 1 .. 2 /\ IsRepeat(sent[e][n]) \in BOOLEAN
        /\ IsIdr(sent[e][n]) \in BOOLEAN /\ i \in 1 .. 2
    BY DEF Fragments, IsRepeat, IsIdr
  <1> QED
    BY <1>2, <1>3, <1>4

(* try_emplace: the frame of the fragment is found, or appended empty.      *)
LEMMA EmplaceShape ==
  ASSUME SentOK, NEW d \in Datagrams, NEW p \in Seq(Genuine(d.epoch))
  PROVE  LET q == Emplace(p, d)
             i == IndexOf(q, d.seq)
         IN  /\ q \in Seq(Genuine(d.epoch))
             /\ i \in 1 .. Len(q)
             /\ q = p \/ (Len(q) = Len(p) + 1 /\ q[i].parts = {} /\ q[i].cnt = d.cnt)
  <1> DEFINE q == Emplace(p, d)
             i == IndexOf(q, d.seq)
             new == [seq |-> d.seq, cnt |-> d.cnt, rep |-> d.rep, idr |-> d.idr, parts |-> {}]
  <1> SUFFICES /\ q \in Seq(Genuine(d.epoch))
               /\ i \in 1 .. Len(q)
               /\ q = p \/ (Len(q) = Len(p) + 1 /\ q[i].parts = {} /\ q[i].cnt = d.cnt)
    OBVIOUS
  <1>1. CASE IndexOf(p, d.seq) # 0
    <2>1. q = p
      BY <1>1 DEF Emplace
    <2>2. IndexOf(p, d.seq) \in 1 .. Len(p)
      BY <1>1, IndexShape
    <2> QED
      BY <2>1, <2>2
  <1>2. CASE IndexOf(p, d.seq) = 0
    <2>1. q = Append(p, new)
      BY <1>2 DEF Emplace
    <2>2. new \in Genuine(d.epoch)
      <3>1. new \in [seq : 0 .. MaxSeq, cnt : 1 .. 2, rep : BOOLEAN, idr : BOOLEAN,
                     parts : SUBSET ((1 .. 2) \X Bodies)]
        BY DatagramIsGenuine
      <3>2. new.seq = d.seq /\ new.rep = d.rep /\ new.idr = d.idr
        OBVIOUS
      <3> HIDE DEF new
      <3> QED
        BY <3>1, <3>2, DatagramIsGenuine DEF Genuine
    <2>3. new.seq = d.seq /\ new.parts = {} /\ new.cnt = d.cnt
      OBVIOUS
    <2> HIDE DEF new, q
    <2>4. /\ q \in Seq(Genuine(d.epoch)) /\ Len(q) = Len(p) + 1 /\ q[Len(p) + 1] = new
          /\ \A j \in 1 .. Len(p) : q[j] = p[j]
      BY <2>1, <2>2
    <2>5. \A j \in 1 .. Len(p) : p[j].seq # d.seq
      BY <1>2, IndexShape
    <2>6. i \in 1 .. Len(q) /\ q[i].seq = d.seq
      <3>1. \E j \in 1 .. Len(q) : q[j].seq = d.seq
        BY <2>3, <2>4
      <3>2. Len(q) \in Nat
        BY <2>4
      <3> QED
        BY <2>4, <3>1, <3>2, IndexShape
    <2>7. i = Len(p) + 1
      BY <2>4, <2>5, <2>6
    <2> QED
      BY <2>3, <2>4, <2>6, <2>7
  <1> QED
    BY <1>1, <1>2

(* What an operation on a reassembler of epoch e returns: frames the Host   *)
(* has sent, within the limit.                                              *)
Returns(e, res) ==
    /\ \E a, b, c : res = Result(a, b, c)
    /\ ReassemblerOK(res.r) /\ res.r.epoch = e
    /\ GenuineAu(res.out)

(* pop_completed.                                                           *)
LEMMA PopReturns ==
  ASSUME SentOK, NEW r, ReassemblerOK(r), NEW lost
  PROVE  Returns(r.epoch, PopCompleted(r, lost))
  <1> DEFINE i == Selected(r)
             f == r.pending[i]
             out == [epoch |-> r.epoch, seq |-> f.seq, rep |-> f.rep, idr |-> f.idr]
             rest == RemoveAt(r.pending, i)
             popped == [r EXCEPT !.last = f.seq, !.pending = rest]
  <1>0. /\ IsReassembler(r) /\ r.epoch \in 0 .. MaxEpoch /\ r.pending \in Seq(Genuine(r.epoch))
        /\ Len(r.pending) <= MaxInflight /\ Len(r.pending) \in Nat /\ MaxInflight \in Nat
    BY MaxInflightAssumption DEF ReassemblerOK
  <1>1. CASE i = 0 \/ ~Complete(f)
    <2>1. PopCompleted(r, lost) = Result(r, NoAu, lost)
      BY <1>1 DEF PopCompleted
    <2>2. PopCompleted(r, lost).r = r /\ PopCompleted(r, lost).out = NoAu
      BY <2>1 DEF Result
    <2> QED
      BY <2>1, <2>2 DEF Returns, GenuineAu
  <1>2. CASE ~(i = 0 \/ ~Complete(f))
    <2>1. PopCompleted(r, lost) = Result(popped, out, lost)
      BY <1>2 DEF PopCompleted
    <2>2. i \in 1 .. Len(r.pending)
      <3>1. IndexOf(r.pending, r.last + 1) \in 0 .. Len(r.pending)
        BY <1>0, IndexShape
      <3>2. r.pending # <<>> => Len(r.pending) >= 1
        BY <1>0
      <3> QED
        BY <1>0, <1>2, <3>1, <3>2 DEF Selected
    <2>3. f \in Genuine(r.epoch)
      BY <1>0, <2>2
    <2>4. rest \in Seq(Genuine(r.epoch)) /\ Len(rest) = Len(r.pending) - 1
      BY <1>0, <2>2, RemoveAtShape
    <2>5. /\ r.epoch \in Epochs
          /\ f.seq \in 0 .. MaxSeq /\ f.rep \in BOOLEAN /\ f.idr \in BOOLEAN
          /\ f.seq + 1 \in DOMAIN sent[r.epoch]
          /\ f.rep = IsRepeat(sent[r.epoch][f.seq + 1])
          /\ f.idr = IsIdr(sent[r.epoch][f.seq + 1])
      BY <2>3 DEF Genuine
    <2> DEFINE s == f.seq
    <2>6. popped = [epoch |-> r.epoch, last |-> s, pending |-> rest]
      <3> HIDE DEF rest, s
      <3>1. r = [epoch |-> r.epoch, last |-> r.last, pending |-> r.pending]
        BY <1>0 DEF IsReassembler
      <3>2. popped = [r EXCEPT !.last = s, !.pending = rest]
        BY DEF s
      <3> HIDE DEF popped
      <3> QED
        BY <3>1, <3>2
    <2> HIDE DEF rest, f
    <2>7. ReassemblerOK(popped) /\ popped.epoch = r.epoch
      <3> HIDE DEF popped
      <3>1. popped.epoch = r.epoch /\ popped.last = s /\ popped.pending = rest
        BY <2>6
      <3>2. IsReassembler(popped)
        BY <2>6, <3>1 DEF IsReassembler
      <3>3. s \in None .. MaxSeq
        BY <2>5, SeqAssumption DEF None
      <3>4. Len(rest) <= MaxInflight
        BY <1>0, <2>4
      <3> QED
        BY <1>0, <2>4, <3>1, <3>2, <3>3, <3>4 DEF ReassemblerOK
    <2>8. GenuineAu(out)
      <3>1. /\ out.epoch = r.epoch /\ out.seq = f.seq /\ out.rep = f.rep /\ out.idr = f.idr
            /\ out \in [epoch : Epochs, seq : 0 .. MaxSeq, rep : BOOLEAN, idr : BOOLEAN]
        BY <2>5
      <3> HIDE DEF out
      <3> QED
        BY <2>5, <3>1 DEF GenuineAu
    <2> HIDE DEF popped, out
    <2>9. PopCompleted(r, lost).r = popped /\ PopCompleted(r, lost).out = out
      BY <2>1 DEF Result
    <2> QED
      BY <2>1, <2>7, <2>8, <2>9 DEF Returns
  <1> QED
    BY <1>1, <1>2

(* A reassembler with other pending frames.                                 *)
LEMMA PendingReplaced ==
  ASSUME NEW r, ReassemblerOK(r), NEW p \in Seq(Genuine(r.epoch))
  PROVE  LET q == [r EXCEPT !.pending = p] IN
         /\ IsReassembler(q) /\ q.epoch = r.epoch /\ q.last = r.last /\ q.pending = p
         /\ Len(p) <= MaxInflight => ReassemblerOK(q)
  <1> DEFINE q == [r EXCEPT !.pending = p]
  <1>1. r = [epoch |-> r.epoch, last |-> r.last, pending |-> r.pending]
    BY DEF ReassemblerOK, IsReassembler
  <1>2. q = [epoch |-> r.epoch, last |-> r.last, pending |-> p]
    BY <1>1
  <1> SUFFICES /\ IsReassembler(q) /\ q.epoch = r.epoch /\ q.last = r.last /\ q.pending = p
               /\ Len(p) <= MaxInflight => ReassemblerOK(q)
    OBVIOUS
  <1> HIDE DEF q
  <1>3. q.epoch = r.epoch /\ q.last = r.last /\ q.pending = p /\ IsReassembler(q)
    BY <1>2 DEF IsReassembler
  <1> QED
    BY <1>3 DEF ReassemblerOK

(* push_payload.                                                            *)
LEMMA PushReturns ==
  ASSUME SentOK, NEW d \in Datagrams, NEW r, ReassemblerOK(r)
  PROVE  Returns(r.epoch, PushPayload(r, d))
  <1> DEFINE emplaced == Emplace(r.pending, d)
             i        == IndexOf(emplaced, d.seq)
             frame    == emplaced[i]
             r1       == [r EXCEPT !.pending = emplaced]
             stored   == [emplaced EXCEPT ![i].parts = @ \cup {<<d.idx, d.body>>}]
             kept     == Evicted(stored)
             r2       == [r EXCEPT !.pending = kept]
             conflict == \/ frame.cnt # d.cnt
                         \/ frame.rep # d.rep
                         \/ d.idx \in Received(frame) /\ <<d.idx, d.body>> \notin frame.parts
             repeated == d.idx \in Received(frame)
             res      == PushPayload(r, d)
  <1>1. CASE d.epoch # r.epoch \/ (r.last # None /\ d.seq <= r.last)
    <2>1. res = PopCompleted(r, FALSE)
      BY <1>1 DEF PushPayload
    <2> QED
      BY <2>1, PopReturns
  <1>2. CASE ~(d.epoch # r.epoch \/ (r.last # None /\ d.seq <= r.last))
    <2>0. /\ d.epoch = r.epoch /\ r.pending \in Seq(Genuine(r.epoch))
          /\ Len(r.pending) <= MaxInflight /\ MaxInflight \in Nat
      BY <1>2, MaxInflightAssumption DEF ReassemblerOK
    <2>1. /\ emplaced \in Seq(Genuine(r.epoch)) /\ i \in 1 .. Len(emplaced)
          /\ \/ emplaced = r.pending
             \/ Len(emplaced) = Len(r.pending) + 1 /\ frame.parts = {} /\ frame.cnt = d.cnt
      BY <2>0, EmplaceShape
    <2>2. res = IF conflict THEN EraseConflict(r1, i)
                ELSE IF repeated THEN PopCompleted(r1, FALSE)
                ELSE PopCompleted(r2, kept # stored)
      BY <1>2 DEF PushPayload
    <2>3. repeated => emplaced = r.pending
      <3>1. frame.parts = {} => Received(frame) = {}
        BY DEF Received
      <3> HIDE DEF emplaced, frame
      <3> QED
        BY <2>1, <3>1
    <2>4. Len(emplaced) \in Nat /\ Len(emplaced) <= MaxInflight + 1 /\ Len(r.pending) \in Nat
      <3> HIDE DEF emplaced, frame, i
      <3>1. Len(emplaced) \in Nat /\ Len(r.pending) \in Nat
        BY <2>0, <2>1
      <3> QED
        BY <2>0, <2>1, <3>1
    <2>5. /\ IsReassembler(r1) /\ r1.epoch = r.epoch /\ r1.last = r.last /\ r1.pending = emplaced
          /\ Len(emplaced) <= MaxInflight => ReassemblerOK(r1)
      BY <2>1, PendingReplaced
    <2>6. stored \in Seq(Genuine(r.epoch)) /\ Len(stored) = Len(emplaced)
      <3> DEFINE G == Genuine(r.epoch)
                 f2 == [frame EXCEPT !.parts = @ \cup {<<d.idx, d.body>>}]
      <3>1. frame \in G /\ r.epoch \in Epochs
        <4>1. frame \in G
          BY <2>1
        <4> QED
          BY <4>1 DEF Genuine
      <3>2. <<d.idx, d.body>> \in (1 .. 2) \X Bodies
        BY DatagramIsGenuine
      <3>3. f2 \in G
        <4> DEFINE P == frame.parts \cup {<<d.idx, d.body>>}
        <4> HIDE DEF frame
        <4>1. frame \in [seq : 0 .. MaxSeq, cnt : 1 .. 2, rep : BOOLEAN, idr : BOOLEAN,
                         parts : SUBSET ((1 .. 2) \X Bodies)]
          BY <3>1 DEF Genuine
        <4>2. P \in SUBSET ((1 .. 2) \X Bodies)
          BY <3>2, <4>1
        <4>3. f2 = [frame EXCEPT !.parts = P]
          OBVIOUS
        <4> HIDE DEF P, f2
        <4>4. /\ f2 \in [seq : 0 .. MaxSeq, cnt : 1 .. 2, rep : BOOLEAN, idr : BOOLEAN,
                         parts : SUBSET ((1 .. 2) \X Bodies)]
              /\ f2.seq = frame.seq /\ f2.rep = frame.rep /\ f2.idr = frame.idr
          BY <4>1, <4>2, <4>3
        <4> QED
          BY <3>1, <4>4 DEF Genuine
      <3>4. stored = [emplaced EXCEPT ![i] = f2]
        OBVIOUS
      <3> HIDE DEF stored, emplaced, i, f2, G, frame
      <3> QED
        BY <2>1, <3>3, <3>4 DEF G
    <2>7. kept \in Seq(Genuine(r.epoch)) /\ Len(kept) <= MaxInflight
      <3> HIDE DEF stored, emplaced
      <3> QED
        BY <2>4, <2>6, EvictedShape
    <2>8. ReassemblerOK(r2) /\ r2.epoch = r.epoch
      BY <2>7, PendingReplaced
    <2>9. CASE conflict
      <3> DEFINE rest == RemoveAt(emplaced, i)
                 erased == [r1 EXCEPT !.pending = rest]
      <3>1. res = Result(erased, NoAu, TRUE)
        BY <2>2, <2>5, <2>9 DEF EraseConflict
      <3>2. rest \in Seq(Genuine(r.epoch)) /\ Len(rest) <= MaxInflight
        <4> HIDE DEF emplaced, i
        <4>1. Len(rest) = Len(emplaced) - 1 /\ rest \in Seq(Genuine(r.epoch))
          BY <2>1, RemoveAtShape
        <4> HIDE DEF rest
        <4> QED
          BY <2>0, <2>4, <4>1
      <3> HIDE DEF r1, rest, emplaced, i, conflict, res
      <3>3. erased = [epoch |-> r.epoch, last |-> r.last, pending |-> rest]
        BY <2>5 DEF IsReassembler
      <3> HIDE DEF erased
      <3>4. erased.epoch = r.epoch /\ erased.last = r.last /\ erased.pending = rest
            /\ IsReassembler(erased)
        BY <3>3 DEF IsReassembler
      <3>5. ReassemblerOK(erased)
        BY <3>2, <3>4 DEF ReassemblerOK
      <3>6. res.r = erased /\ res.out = NoAu
        BY <3>1 DEF Result
      <3> QED
        BY <3>1, <3>4, <3>5, <3>6 DEF Returns, GenuineAu, res
    <2>10. CASE ~conflict /\ repeated
      <3>1. res = PopCompleted(r1, FALSE)
        BY <2>2, <2>10
      <3>2. ReassemblerOK(r1) /\ r1.epoch = r.epoch
        BY <2>0, <2>3, <2>5, <2>10
      <3> HIDE DEF r1, res
      <3> QED
        BY <3>1, <3>2, PopReturns DEF res
    <2>11. CASE ~conflict /\ ~repeated
      <3>1. res = PopCompleted(r2, kept # stored)
        BY <2>2, <2>11
      <3> HIDE DEF r2, res
      <3> QED
        BY <2>8, <3>1, PopReturns DEF res
    <2> QED
      BY <2>9, <2>10, <2>11
  <1> QED
    BY <1>1, <1>2

(* push_payload with the discard_expired behind it.                         *)
LEMMA ReassembleReturns ==
  ASSUME SentOK, NEW d \in Datagrams, NEW r, ReassemblerOK(r), NEW k,
         Expirable(r, PushPayload(r, d), k)
  PROVE  /\ ReassemblerOK(Reassemble(r, d, k).r)
         /\ Reassemble(r, d, k).r.epoch = r.epoch
         /\ GenuineAu(Reassemble(r, d, k).out)
  <1> DEFINE res == PushPayload(r, d)
             rest == SubSeq(res.r.pending, k + 1, Len(res.r.pending))
  <1>1. Returns(r.epoch, res)
    BY PushReturns
  <1>2. PICK a, b, c : res = Result(a, b, c)
    BY <1>1 DEF Returns
  <1>3. k \in 0 .. Len(res.r.pending)
    BY DEF Expirable
  <1>4. Reassemble(r, d, k) = DiscardExpired(res, k)
    BY DEF Reassemble
  <1> HIDE DEF res
  <1>5. /\ DiscardExpired(res, k).out = res.out
        /\ DiscardExpired(res, k).r = [res.r EXCEPT !.pending = rest]
    BY <1>2 DEF DiscardExpired, Result
  <1>6. ReassemblerOK(res.r) /\ res.r.epoch = r.epoch /\ GenuineAu(res.out)
    BY <1>1 DEF Returns
  <1>7. rest \in Seq(Genuine(res.r.epoch)) /\ Len(rest) <= Len(res.r.pending)
    BY <1>3, <1>6, SuffixShape DEF ReassemblerOK
  <1>8. Len(rest) <= MaxInflight
    <2>1. Len(rest) \in Nat /\ Len(res.r.pending) \in Nat /\ Len(res.r.pending) <= MaxInflight
      <3> HIDE DEF rest
      <3> QED BY <1>6, <1>7 DEF ReassemblerOK
    <2> HIDE DEF rest
    <2> QED
      BY <1>7, <2>1, MaxInflightAssumption
  <1> HIDE DEF rest
  <1>9. /\ ReassemblerOK([res.r EXCEPT !.pending = rest])
        /\ [res.r EXCEPT !.pending = rest].epoch = r.epoch
    BY <1>6, <1>7, <1>8, PendingReplaced
  <1> QED
    BY <1>4, <1>5, <1>6, <1>9

-----------------------------------------------------------------------------
(* The decoder *)

(* A decoder without the awaited generation is free for frames.             *)
LEMMA FreeDecoder ==
  ASSUME NEW d, DecoderOK(d), ~Busy(d)
  PROVE  ~d.restarting
  BY DEF DecoderOK, Busy

(* The codec takes a frame.                                                 *)
LEMMA TookFrame ==
  ASSUME NEW d, DecoderOK(d), ~Busy(d), NEW l \in Frames
  PROVE  DecoderOK([d EXCEPT !.last = l]) /\ [d EXCEPT !.last = l].last = l
  <1> DEFINE q == [d EXCEPT !.last = l]
  <1>1. q = [gen |-> d.gen, base |-> d.base, restarting |-> d.restarting,
             completion |-> d.completion, broken |-> d.broken, java |-> d.java, last |-> l]
    BY DEF DecoderOK, IsDecoder
  <1> SUFFICES DecoderOK(q) /\ q.last = l
    OBVIOUS
  <1> HIDE DEF q
  <1>2. /\ q.gen = d.gen /\ q.base = d.base /\ q.restarting = d.restarting
        /\ q.completion = d.completion /\ q.broken = d.broken /\ q.java = d.java /\ q.last = l
        /\ IsDecoder(q)
    BY <1>1 DEF IsDecoder
  <1> QED
    BY <1>2, FreeDecoder DEF DecoderOK, Busy

(* The loop takes a completion.                                             *)
LEMMA CompletionTaken ==
  ASSUME NEW d, DecoderOK(d)
  PROVE  /\ DecoderOK([d EXCEPT !.completion = "none"])
         /\ [d EXCEPT !.completion = "none"].last = d.last
  <1> DEFINE q == [d EXCEPT !.completion = "none"]
  <1>1. q = [gen |-> d.gen, base |-> d.base, restarting |-> d.restarting,
             completion |-> "none", broken |-> d.broken, java |-> d.java, last |-> d.last]
    BY DEF DecoderOK, IsDecoder
  <1> SUFFICES DecoderOK(q) /\ q.last = d.last
    OBVIOUS
  <1> HIDE DEF q
  <1>2. /\ q.gen = d.gen /\ q.base = d.base /\ q.restarting = d.restarting
        /\ q.completion = "none" /\ q.broken = d.broken /\ q.java = d.java /\ q.last = d.last
        /\ IsDecoder(q)
    BY <1>1 DEF IsDecoder
  <1> QED
    BY <1>2 DEF DecoderOK

(* A restart is abandoned with its generation.                              *)
LEMMA TimedOutOK ==
  ASSUME NEW d, DecoderOK(d)
  PROVE  DecoderOK(TimedOut(d)) /\ TimedOut(d).last = d.last
  <1> DEFINE g == d.gen + 1
             q == TimedOut(d)
  <1>0. q = [d EXCEPT !.restarting = FALSE, !.completion = "none", !.gen = g, !.broken = TRUE]
    BY DEF TimedOut
  <1>1. g \in Nat /\ d.base <= g /\ d.java \subseteq 1 .. g
    BY DEF DecoderOK
  <1> SUFFICES DecoderOK(q) /\ q.last = d.last
    OBVIOUS
  <1> HIDE DEF g, q
  <1>2. q = [gen |-> g, base |-> d.base, restarting |-> FALSE, completion |-> "none",
             broken |-> TRUE, java |-> d.java, last |-> d.last]
    BY <1>0 DEF DecoderOK, IsDecoder
  <1>3. /\ q.gen = g /\ q.base = d.base /\ q.restarting = FALSE
        /\ q.completion = "none" /\ q.broken = TRUE /\ q.java = d.java /\ q.last = d.last
        /\ IsDecoder(q)
    BY <1>2 DEF IsDecoder
  <1> QED
    BY <1>1, <1>3 DEF DecoderOK

(* The decoder is configured anew.                                          *)
LEMMA ConfiguredOK ==
  ASSUME NEW n \in Nat, NEW j, j \subseteq 1 .. n
  PROVE  DecoderOK(Configured(n + 1, j))
  <1> DEFINE g == n + 1
             q == Configured(g, j)
  <1>1. q = [gen |-> g, base |-> g, restarting |-> FALSE, completion |-> "none",
             broken |-> FALSE, java |-> j, last |-> NoFrame]
    BY DEF Configured
  <1>2. g \in Nat /\ j \subseteq 1 .. g /\ \A h \in j : ~(h > g)
    OBVIOUS
  <1>3. NoFrame \in Frames
    BY ReceiverAssumption, SeqAssumption DEF NoFrame, Frames, None
  <1> SUFFICES DecoderOK(q)
    OBVIOUS
  <1> HIDE DEF g, q
  <1>4. /\ q.gen = g /\ q.base = g /\ q.restarting = FALSE /\ q.completion = "none"
        /\ q.broken = FALSE /\ q.java = j /\ q.last = NoFrame /\ IsDecoder(q)
    BY <1>1 DEF IsDecoder
  <1>5. q.base <= q.gen /\ q.gen \in Nat /\ q.base \in Nat /\ q.java \subseteq 1 .. q.gen
    BY <1>2, <1>4
  <1>6. \A h, i \in q.java : h > q.base /\ i > q.base => h = i
    BY <1>2, <1>4
  <1> QED
    BY <1>3, <1>4, <1>5, <1>6 DEF DecoderOK

(* restart_after_stream_discontinuity joins or schedules a restart, whose   *)
(* codec holds no frame, or ends the receiver.                              *)
LEMMA RestartOK ==
  ASSUME DecoderOK(decoder), RestartDecoder
  PROVE  /\ DecoderOK(decoder')
         /\ \/ /\ restart' = [pending |-> TRUE, ready |-> FALSE]
               /\ decoder'.last = NoFrame /\ running' = running
            \/ restart' = restart /\ running' = FALSE /\ decoder'.last = decoder.last
  <1> DEFINE g == decoder.gen + 1
             j == decoder.java \cup {g}
  <1>0. IsDecoder(decoder) /\ NoFrame \in Frames
    BY ReceiverAssumption, SeqAssumption DEF DecoderOK, NoFrame, Frames, None
  <1>1. /\ g \in Nat /\ decoder.base <= g /\ g > decoder.base
        /\ decoder.java \subseteq 1 .. g /\ j \subseteq 1 .. g
    BY DEF DecoderOK
  <1>2. CASE /\ decoder.restarting
             /\ decoder' = decoder
             /\ restart' = [pending |-> TRUE, ready |-> FALSE]
             /\ UNCHANGED running
    BY <1>2 DEF DecoderOK
  <1>3. CASE /\ ~Busy(decoder)
             /\ decoder' = [decoder EXCEPT !.gen = g, !.restarting = TRUE,
                                           !.completion = "none", !.broken = FALSE,
                                           !.java = j, !.last = NoFrame]
             /\ restart' = [pending |-> TRUE, ready |-> FALSE]
             /\ UNCHANGED running
    <2>0. g \in j /\ \A h \in decoder.java : ~(h > decoder.base)
      BY <1>3 DEF Busy
    <2>a. \A h, i \in j : h > decoder.base /\ i > decoder.base => h = i
      BY <2>0
    <2> HIDE DEF g, j
    <2>1. decoder' = [gen |-> g, base |-> decoder.base, restarting |-> TRUE,
                      completion |-> "none", broken |-> FALSE, java |-> j, last |-> NoFrame]
      BY <1>0, <1>3 DEF IsDecoder
    <2>2. /\ decoder'.gen = g /\ decoder'.base = decoder.base /\ decoder'.restarting = TRUE
          /\ decoder'.completion = "none" /\ decoder'.broken = FALSE
          /\ decoder'.java = j /\ decoder'.last = NoFrame /\ IsDecoder(decoder')
      BY <2>1 DEF IsDecoder
    <2>3. DecoderOK(decoder')
      BY <1>0, <1>1, <2>0, <2>a, <2>2 DEF DecoderOK
    <2> QED
      BY <1>3, <2>2, <2>3
  <1>4. ASSUME ~decoder.restarting, NEW b \in BOOLEAN,
               decoder' = [decoder EXCEPT !.gen = g, !.completion = "none", !.broken = b],
               running' = FALSE, restart' = restart
        PROVE  DecoderOK(decoder') /\ decoder'.last = decoder.last
    <2> HIDE DEF g, j
    <2>1. decoder' = [gen |-> g, base |-> decoder.base, restarting |-> decoder.restarting,
                      completion |-> "none", broken |-> b, java |-> decoder.java,
                      last |-> decoder.last]
      BY <1>0, <1>4 DEF IsDecoder
    <2>2. /\ decoder'.gen = g /\ decoder'.base = decoder.base
          /\ decoder'.restarting = decoder.restarting
          /\ decoder'.completion = "none" /\ decoder'.broken = b
          /\ decoder'.java = decoder.java /\ decoder'.last = decoder.last /\ IsDecoder(decoder')
      BY <2>1 DEF IsDecoder
    <2> QED
      BY <1>1, <1>4, <2>2 DEF DecoderOK
  <1>5. CASE /\ ~decoder.restarting
             /\ \E b \in BOOLEAN :
                   decoder' = [decoder EXCEPT !.gen = g, !.completion = "none", !.broken = b]
             /\ running' = FALSE
             /\ UNCHANGED restart
    BY <1>4, <1>5, Zenon
  <1>6. \/ /\ decoder.restarting \/ ~Busy(decoder)
           /\ decoder' = IF decoder.restarting THEN decoder
                         ELSE [decoder EXCEPT !.gen = g, !.restarting = TRUE,
                                              !.completion = "none", !.broken = FALSE,
                                              !.java = j, !.last = NoFrame]
           /\ restart' = [pending |-> TRUE, ready |-> FALSE]
           /\ UNCHANGED running
        \/ /\ ~decoder.restarting
           /\ \E b \in BOOLEAN :
                 decoder' = [decoder EXCEPT !.gen = g, !.completion = "none", !.broken = b]
           /\ running' = FALSE
           /\ UNCHANGED restart
    BY DEF RestartDecoder
  <1> HIDE DEF g, j
  <1> QED
    BY <1>2, <1>3, <1>5, <1>6, Zenon

(* A fatal codec error.                                                     *)
LEMMA CodecFailsOK ==
  ASSUME DecoderOK(decoder), CodecFails
  PROVE  DecoderOK(decoder') /\ decoder'.last = decoder.last
  <1>1. decoder' = [gen |-> decoder.gen, base |-> decoder.base,
                    restarting |-> decoder.restarting, completion |-> decoder.completion,
                    broken |-> TRUE, java |-> decoder.java, last |-> decoder.last]
    BY DEF CodecFails, DecoderOK, IsDecoder
  <1>2. /\ decoder'.gen = decoder.gen /\ decoder'.base = decoder.base
        /\ decoder'.restarting = decoder.restarting
        /\ decoder'.completion = decoder.completion /\ decoder'.broken = TRUE
        /\ decoder'.java = decoder.java /\ decoder'.last = decoder.last /\ IsDecoder(decoder')
    BY <1>1 DEF IsDecoder
  <1> QED
    BY <1>2 DEF DecoderOK, Busy

(* complete_stream_restart: behind the awaited completion no newer          *)
(* generation is left.                                                      *)
LEMMA CompleteOK ==
  ASSUME DecoderOK(decoder), NEW g, NEW ok \in BOOLEAN, CompleteStreamRestart(g, ok)
  PROVE  DecoderOK(decoder') /\ decoder'.last = decoder.last
  <1> DEFINE j == decoder.java \ {g}
             c == IF ok THEN "succeeded" ELSE "failed"
             b == ~ok
  <1>0. IsDecoder(decoder) /\ j \subseteq decoder.java
        /\ c \in {"none", "succeeded", "failed"} /\ b \in BOOLEAN
    BY DEF DecoderOK
  <1>1. CASE g = decoder.gen /\ decoder.restarting
    <2>1. decoder' = [decoder EXCEPT !.java = j, !.restarting = FALSE,
                                     !.completion = c, !.broken = b]
      BY <1>1 DEF CompleteStreamRestart
    <2>2. \A h \in j : ~(h > decoder.base)
      BY <1>1 DEF DecoderOK
    <2> HIDE DEF j, c, b
    <2>3. decoder' = [gen |-> decoder.gen, base |-> decoder.base, restarting |-> FALSE,
                      completion |-> c, broken |-> b, java |-> j, last |-> decoder.last]
      BY <1>0, <2>1 DEF IsDecoder
    <2>4. /\ decoder'.gen = decoder.gen /\ decoder'.base = decoder.base
          /\ decoder'.restarting = FALSE /\ decoder'.completion = c /\ decoder'.broken = b
          /\ decoder'.java = j /\ decoder'.last = decoder.last /\ IsDecoder(decoder')
      BY <2>3 DEF IsDecoder
    <2> QED
      BY <1>0, <2>2, <2>4 DEF DecoderOK, Busy
  <1>2. CASE ~(g = decoder.gen /\ decoder.restarting)
    <2>1. decoder' = [decoder EXCEPT !.java = j]
      BY <1>2 DEF CompleteStreamRestart
    <2>2. decoder.restarting => decoder.gen \in j
      BY <1>2 DEF DecoderOK
    <2> HIDE DEF j, c, b
    <2>3. decoder' = [gen |-> decoder.gen, base |-> decoder.base,
                      restarting |-> decoder.restarting, completion |-> decoder.completion,
                      broken |-> decoder.broken, java |-> j, last |-> decoder.last]
      BY <1>0, <2>1 DEF IsDecoder
    <2>4. /\ decoder'.gen = decoder.gen /\ decoder'.base = decoder.base
          /\ decoder'.restarting = decoder.restarting
          /\ decoder'.completion = decoder.completion /\ decoder'.broken = decoder.broken
          /\ decoder'.java = j /\ decoder'.last = decoder.last /\ IsDecoder(decoder')
      BY <2>3 DEF IsDecoder
    <2> QED
      BY <1>0, <2>2, <2>4 DEF DecoderOK, Busy
  <1> QED
    BY <1>1, <1>2

-----------------------------------------------------------------------------
(* Steps *)

Switches == OpeningIsReal /\ CandidateIsolation
FullStep == ContentInv' /\ DecoderInv' /\ Switches

References == [awaiting : BOOLEAN, last : None .. MaxSeq]

(* A rebuilt reassembler is empty.                                          *)
LEMMA RebuiltOK ==
  ASSUME NEW e \in 0 .. MaxEpoch, NEW seed \in None .. MaxSeq
  PROVE  ReassemblerOK(Rebuilt(e, seed))
  <1> DEFINE l == IF e = 0 THEN None ELSE seed
             q == Rebuilt(e, seed)
  <1>1. q = [epoch |-> e, last |-> l, pending |-> <<>>]
    BY DEF Rebuilt
  <1>2. l \in None .. MaxSeq
    BY SeqAssumption DEF None
  <1>3. <<>> \in Seq(Genuine(e)) /\ Len(<<>>) <= MaxInflight
    BY MaxInflightAssumption
  <1> SUFFICES ReassemblerOK(q)
    OBVIOUS
  <1> HIDE DEF l, q
  <1>4. q.epoch = e /\ q.last = l /\ q.pending = <<>> /\ IsReassembler(q)
    BY <1>1 DEF IsReassembler
  <1> QED
    BY <1>2, <1>3, <1>4 DEF ReassemblerOK

(* While the Host sends nothing, a reassembler's frames stay genuine.       *)
LEMMA StillOK ==
  ASSUME sent' = sent, NEW r, ReassemblerOK(r)
  PROVE  /\ active' = r => ReassemblerOK(active)'
         /\ cand' = r => ReassemblerOK(cand)'
  <1>1. ASSUME active' = r PROVE ReassemblerOK(active)'
    BY <1>1 DEF ReassemblerOK, Genuine
  <1>2. ASSUME cand' = r PROVE ReassemblerOK(cand)'
    BY <1>2 DEF ReassemblerOK, Genuine
  <1> QED
    BY <1>1, <1>2

(* And so do the access units.                                              *)
LEMMA StillGenuine ==
  ASSUME sent' = sent, NEW u, GenuineAu(u)
  PROVE  /\ completed' = u => GenuineAu(completed)'
         /\ pendingIdr' = u => GenuineAu(pendingIdr)'
  BY DEF GenuineAu

(* The content of the receiver after a step of the receive thread.          *)
LEMMA ContentStep ==
  ASSUME ContentInv, sent' = sent, running' \in BOOLEAN, starts' \in 0 .. MaxStarts,
         real' \in BOOLEAN, ref' \in References,
         ReassemblerOK(active)', ReassemblerOK(cand)',
         GenuineAu(completed)', GenuineAu(pendingIdr)', pendingIdr' # NoAu => ~pendingIdr'.rep,
         running' /\ pendingIdr' # NoAu => restart'.pending
  PROVE  ContentInv'
  <1>1. SentOK'
    BY DEF ContentInv, SentOK
  <1> QED
    BY <1>1 DEF ContentInv, References

(* Steps that leave what the receive thread owns alone.                     *)
LEMMA QuietFullStep ==
  ASSUME FullInv, sent' = sent,
         UNCHANGED <<session, active, cand, pendingIdr, restart, ref, real, completed>>,
         starts' = starts, running' = running \/ running' = FALSE,
         DecoderOK(decoder'), decoder'.last = decoder.last
  PROVE  FullStep
  <1>0. /\ ContentInv /\ starts' \in 0 .. MaxStarts /\ real' \in BOOLEAN
        /\ ref' \in References /\ ReassemblerOK(active) /\ ReassemblerOK(cand)
        /\ GenuineAu(completed) /\ GenuineAu(pendingIdr)
        /\ pendingIdr # NoAu => ~pendingIdr.rep
        /\ running /\ pendingIdr # NoAu => restart.pending
        /\ running \in BOOLEAN
    BY DEF FullInv, ContentInv, References
  <1>a. running' \in BOOLEAN /\ (running' => running)
    <2>1. CASE running' = running
      BY <1>0, <2>1
    <2>2. CASE running' = FALSE
      BY <2>2
    <2> QED
      BY <2>1, <2>2
  <1>b. /\ ReassemblerOK(active)' /\ ReassemblerOK(cand)'
        /\ GenuineAu(completed)' /\ GenuineAu(pendingIdr)'
    BY <1>0, StillOK, StillGenuine
  <1>1. ContentInv'
    BY <1>0, <1>a, <1>b, ContentStep
  <1>2. DecoderInv'
    BY DEF DecoderInv, FullInv, DecoderOK
  <1>3. Switches
    BY DEF Switches, OpeningIsReal, CandidateIsolation
  <1> QED
    BY <1>1, <1>2, <1>3 DEF FullStep

(* A frame of the Host leaves every frame that was sent as it is.           *)
LEMMA HostSendFullStep ==
  ASSUME FullInv, NEW e \in Epochs, NEW k \in Kinds, HostSend(e, k)
  PROVE  FullStep
  <1>1. /\ sent' = [sent EXCEPT ![e] = Append(@, k)] /\ Len(sent[e]) <= MaxSeq
        /\ UNCHANGED <<running, starts, thread, decoder>> /\ SentOK
    BY DEF HostSend, FullInv, ContentInv
  <1>2. SentOK'
    <2>1. Append(sent[e], k) \in Seq(Kinds) /\ Len(Append(sent[e], k)) <= MaxSeq + 1
      BY <1>1, SeqAssumption DEF SentOK
    <2> QED
      BY <1>1, <2>1 DEF SentOK
  <1>3. ASSUME NEW f \in Epochs, NEW n \in DOMAIN sent[f]
        PROVE  n \in DOMAIN sent'[f] /\ sent'[f][n] = sent[f][n]
    <2>1. CASE f = e
      <3>1. sent'[f] = Append(sent[f], k) /\ sent[f] \in Seq(Kinds)
        BY <1>1, <2>1 DEF SentOK
      <3> QED
        BY <3>1
    <2>2. CASE f # e
      BY <1>1, <2>2 DEF SentOK
    <2> QED
      BY <2>1, <2>2
  <1>4. ASSUME NEW f PROVE Genuine(f) \subseteq Genuine(f)'
    <2>1. CASE f \notin Epochs
      BY <2>1 DEF Genuine
    <2>2. CASE f \in Epochs
      <3>1. ASSUME NEW x \in Genuine(f) PROVE x \in Genuine(f)'
        <4>1. /\ x \in [seq : 0 .. MaxSeq, cnt : 1 .. 2, rep : BOOLEAN, idr : BOOLEAN,
                        parts : SUBSET ((1 .. 2) \X Bodies)]
              /\ x.seq + 1 \in DOMAIN sent[f]
              /\ x.rep = IsRepeat(sent[f][x.seq + 1])
              /\ x.idr = IsIdr(sent[f][x.seq + 1])
          BY <2>2 DEF Genuine
        <4>2. x.seq + 1 \in DOMAIN sent'[f] /\ sent'[f][x.seq + 1] = sent[f][x.seq + 1]
          BY <1>3, <2>2, <4>1
        <4> QED
          BY <2>2, <4>1, <4>2 DEF Genuine
      <3> QED
        BY <3>1
    <2> QED
      BY <2>1, <2>2
  <1>5. ReassemblerOK(active)' /\ ReassemblerOK(cand)'
    <2>1. /\ active.pending \in Seq(Genuine(active.epoch))
          /\ cand.pending \in Seq(Genuine(cand.epoch))
          /\ ReassemblerOK(active) /\ ReassemblerOK(cand)
      BY DEF FullInv, ContentInv, ReassemblerOK
    <2>2. active' = active /\ cand' = cand
      BY <1>1 DEF thread
    <2>3. ASSUME NEW S, NEW T, S \subseteq T PROVE Seq(S) \subseteq Seq(T)
      BY <2>3
    <2>4. active'.pending \in Seq(Genuine(active.epoch)') /\ cand'.pending \in Seq(Genuine(cand.epoch)')
      BY <1>4, <2>1, <2>2, <2>3
    <2> QED
      BY <2>1, <2>2, <2>4 DEF ReassemblerOK
  <1>6. GenuineAu(completed)' /\ GenuineAu(pendingIdr)'
    <2>1. completed' = completed /\ pendingIdr' = pendingIdr
      BY <1>1 DEF thread
    <2> QED
      BY <1>3, <2>1 DEF GenuineAu, FullInv, ContentInv
  <1>7. ContentInv'
    BY <1>1, <1>2, <1>5, <1>6 DEF ContentInv, FullInv, thread
  <1>8. DecoderInv'
    BY <1>1 DEF DecoderInv, FullInv, thread
  <1>9. Switches
    BY <1>1 DEF Switches, OpeningIsReal, CandidateIsolation, thread
  <1> QED
    BY <1>7, <1>8, <1>9 DEF FullStep

(* The facts of the invariant that most steps start from.                   *)
LEMMA FullFacts ==
  ASSUME FullInv
  PROVE  /\ IndInv /\ ContentInv /\ SentOK /\ DecoderOK(decoder)
         /\ restart.pending => decoder.last = NoFrame
         /\ running \in BOOLEAN /\ starts \in 0 .. MaxStarts /\ real \in BOOLEAN
         /\ ref \in References
         /\ ReassemblerOK(active) /\ ReassemblerOK(cand)
         /\ GenuineAu(completed) /\ GenuineAu(pendingIdr)
         /\ pendingIdr # NoAu => pendingIdr.idr /\ ~pendingIdr.rep
         /\ running /\ pendingIdr # NoAu => restart.pending
         /\ Ordered(session) /\ session.active \in 0 .. MaxEpoch
         /\ GenuineAu(NoAu) /\ NoRef \in References
  <1>1. NoRef \in References
    BY SeqAssumption DEF NoRef, References, None
  <1>2. Ordered(session) /\ session.active \in 0 .. MaxEpoch
    BY DEF FullInv, IndInv, Ordered
  <1>3. pendingIdr # NoAu => pendingIdr.idr
    BY DEF FullInv, IndInv, LoopInv
  <1> QED
    BY <1>1, <1>2, <1>3 DEF FullInv, ContentInv, DecoderInv, GenuineAu, References

(* start().                                                                 *)
LEMMA StartFullStep == ASSUME FullInv, Start PROVE FullStep
  <1>1. /\ sent' = sent /\ running' = TRUE /\ starts' = starts + 1 /\ starts < MaxStarts
        /\ session' = NoSession /\ active' = Fresh /\ cand' = Fresh /\ pendingIdr' = NoAu
        /\ restart' = NoRestart /\ ref' = NoRef /\ real' = FALSE /\ completed' = NoAu
        /\ ~running
        /\ decoder' = decoder \/ decoder' = Configured(decoder.gen + 1, decoder.java)
    BY DEF Start
  <1>2. ReassemblerOK(Fresh)
    <2>1. Fresh = Rebuilt(0, None)
      BY DEF Fresh, Rebuilt
    <2>2. 0 \in 0 .. MaxEpoch /\ None \in None .. MaxSeq
      BY ReceiverAssumption, SeqAssumption DEF None
    <2> QED
      BY <2>1, <2>2, RebuiltOK
  <1>3. ReassemblerOK(active)' /\ ReassemblerOK(cand)'
    BY <1>1, <1>2, StillOK
  <1>4. GenuineAu(completed)' /\ GenuineAu(pendingIdr)'
    BY <1>1, FullFacts, StillGenuine
  <1>5. ContentInv'
    <2>1. starts' \in 0 .. MaxStarts
      BY <1>1, FullFacts, ReceiverAssumption
    <2> QED
      BY <1>1, <1>3, <1>4, <2>1, FullFacts, ContentStep
  <1>6. DecoderOK(decoder')
    <2>1. decoder.gen \in Nat /\ decoder.java \subseteq 1 .. decoder.gen
      BY FullFacts DEF DecoderOK
    <2> QED
      BY <1>1, <2>1, FullFacts, ConfiguredOK
  <1>7. DecoderInv'
    BY <1>1, <1>6 DEF DecoderInv, DecoderOK, NoRestart
  <1>8. Switches
    BY <1>1 DEF Switches, OpeningIsReal, CandidateIsolation, NoSession
  <1> QED
    BY <1>5, <1>7, <1>8 DEF FullStep

(* The candidate reassembler takes a fragment.                              *)
LEMMA CandidateReturns ==
  ASSUME FullInv, NEW d \in Datagrams, NEW k,
         Expirable(CandidateFor(d.epoch), PushPayload(CandidateFor(d.epoch), d), k)
  PROVE  LET res == Reassemble(CandidateFor(d.epoch), d, k) IN
         /\ ReassemblerOK(res.r) /\ GenuineAu(res.out)
         /\ ReassemblerOK(Rebuilt(d.epoch, None))
  <1>1. d.epoch \in 0 .. MaxEpoch /\ None \in None .. MaxSeq
    BY DatagramEpoch, SeqAssumption, ReceiverAssumption DEF Epochs, None
  <1>2. ReassemblerOK(Rebuilt(d.epoch, None))
    BY <1>1, RebuiltOK
  <1>3. ReassemblerOK(CandidateFor(d.epoch))
    BY <1>2, FullFacts DEF CandidateFor
  <1> QED
    BY <1>2, <1>3, FullFacts, ReassembleReturns

(* The codec takes nothing and the session keeps its active epoch.          *)
LEMMA NoSwitch ==
  ASSUME session'.active = session.active,
         \/ cand' = cand
         \/ ~running'
         \/ session.active = 0
         \/ pendingIdr' \notin {pendingIdr, NoAu}
         \/ UNCHANGED <<active, ref, real, restart, decoder>>
  PROVE  Switches
  BY DEF Switches, OpeningIsReal, CandidateIsolation

(* A fragment that does not complete a real IDR of the candidate.           *)
LEMMA CandidateIncompleteFullStep ==
  ASSUME FullInv, NEW d \in Datagrams, NEW k, CandidateIncomplete(d, k)
  PROVE  FullStep
  <1> DEFINE res == Reassemble(CandidateFor(d.epoch), d, k)
  <1>1. /\ sent' = sent /\ UNCHANGED <<running, starts, active, restart, ref, real, decoder>>
        /\ UNCHANGED completed
        /\ cand' = IF res.lost \/ res.out # NoAu THEN Rebuilt(d.epoch, None) ELSE res.r
        /\ pendingIdr' = pendingIdr \/ pendingIdr' = NoAu
        /\ session' = Observed(session, d.epoch)
        /\ Decision(session, d.epoch) = "candidate"
    BY DEF CandidateIncomplete, Idle, KeptIdr
  <1>2. ReassemblerOK(res.r) /\ ReassemblerOK(Rebuilt(d.epoch, None))
    BY CandidateReturns DEF CandidateIncomplete
  <1>3. session'.active = session.active
    BY <1>1, DatagramEpoch, FullFacts, NewCandidate
  <1> HIDE DEF res
  <1>4. ReassemblerOK(active)' /\ ReassemblerOK(cand)'
    BY <1>1, <1>2, FullFacts, StillOK
  <1>5. GenuineAu(completed)' /\ GenuineAu(pendingIdr)'
    BY <1>1, FullFacts, StillGenuine
  <1>6. ContentInv'
    BY <1>1, <1>4, <1>5, FullFacts, ContentStep
  <1>7. DecoderInv'
    BY <1>1 DEF DecoderInv, FullInv
  <1>8. Switches
    BY <1>1, <1>3, NoSwitch
  <1> QED
    BY <1>6, <1>7, <1>8 DEF FullStep

(* Opening an epoch, with the codec that gets its IDR.                      *)
LEMMA CommitFull ==
  ASSUME SentOK, running, NEW dec, DecoderOK(dec), NEW s, Ordered(s), NEW au, GenuineAu(au),
         au # NoAu, au.idr, ~au.rep, CanCommit(s, au.epoch), Commit(dec, s, au)
  PROVE  /\ DecoderOK(decoder')
         /\ ref' \in References /\ real' \in BOOLEAN
         /\ running' = TRUE \/ running' = FALSE
         /\ ReassemblerOK(Rebuilt(au.epoch, au.seq)) /\ active' = Rebuilt(au.epoch, au.seq)
         /\ session'.active = au.epoch /\ au.epoch > s.active
         /\ running' => /\ decoder'.last.epoch = au.epoch
                        /\ decoder'.last.idr
                        /\ sent[au.epoch][decoder'.last.seq + 1] = "idr"
  <1>1. /\ au \in [epoch : Epochs, seq : 0 .. MaxSeq, rep : BOOLEAN, idr : BOOLEAN]
        /\ au.rep = IsRepeat(sent[au.epoch][au.seq + 1])
        /\ au.idr = IsIdr(sent[au.epoch][au.seq + 1])
    BY DEF GenuineAu
  <1>2. sent[au.epoch][au.seq + 1] = "idr"
    BY <1>1 DEF IsRepeat, IsIdr
  <1>3. /\ au.epoch \in 0 .. MaxEpoch /\ au.seq \in None .. MaxSeq
        /\ NoRef \in References
        /\ [awaiting |-> FALSE, last |-> au.seq] \in References
    BY <1>1, ReceiverAssumption, SeqAssumption DEF Epochs, None, NoRef, References
  <1>4. ReassemblerOK(Rebuilt(au.epoch, au.seq))
    BY <1>3, RebuiltOK
  <1>5. /\ active' = Rebuilt(au.epoch, au.seq) /\ session'.active = au.epoch
        /\ au.epoch > s.active
    BY CommittedOrdered DEF Commit
  <1>6. CASE SubmitAccepted(dec, NoRef, FALSE, au) /\ UNCHANGED running
    <2> DEFINE l == [epoch |-> au.epoch, seq |-> au.seq, idr |-> au.idr]
    <2>1. /\ decoder' = [dec EXCEPT !.last = l] /\ ~Busy(dec)
          /\ ref' = [awaiting |-> FALSE, last |-> au.seq] /\ real' \in BOOLEAN
      BY <1>6 DEF SubmitAccepted
    <2>2. l \in Frames /\ l.epoch = au.epoch /\ l.seq = au.seq /\ l.idr = au.idr
      BY <1>1, <1>3 DEF Frames
    <2> HIDE DEF l
    <2>3. DecoderOK(decoder') /\ decoder'.last = l
      BY <2>1, <2>2, TookFrame
    <2>4. running' = TRUE
      BY <1>6
    <2> QED
      BY <1>2, <1>3, <1>4, <1>5, <2>1, <2>2, <2>3, <2>4
  <1>7. CASE /\ SubmitRefused(NoRef, FALSE, au) /\ running' = FALSE
             /\ decoder' = dec \/ decoder' = TimedOut(dec)
    <2>1. ref' = NoRef /\ real' = FALSE
      BY <1>7 DEF SubmitRefused, RequireReferenceSync
    <2>2. DecoderOK(decoder')
      BY <1>7, TimedOutOK
    <2> QED
      BY <1>3, <1>4, <1>5, <1>7, <2>1, <2>2
  <1> QED
    BY <1>6, <1>7 DEF Commit

(* The content, the decoder and the switch when an epoch is opened.         *)
LEMMA OpeningFullStep ==
  ASSUME FullInv, running, sent' = sent, NEW s, Ordered(s), s.active = session.active,
         NEW au, GenuineAu(au), au # NoAu, au.idr, ~au.rep, CanCommit(s, au.epoch),
         NEW dec, DecoderOK(dec), Commit(dec, s, au),
         session.active = 0 \/ decoder.last = NoFrame,
         ReassemblerOK(cand)', pendingIdr' = NoAu, ~restart'.pending,
         UNCHANGED completed, starts' = starts
  PROVE  FullStep
  <1>1. /\ DecoderOK(decoder')
        /\ ref' \in References /\ real' \in BOOLEAN
        /\ running' = TRUE \/ running' = FALSE
        /\ ReassemblerOK(Rebuilt(au.epoch, au.seq)) /\ active' = Rebuilt(au.epoch, au.seq)
        /\ session'.active = au.epoch /\ au.epoch > s.active
        /\ running' => /\ decoder'.last.epoch = au.epoch
                       /\ decoder'.last.idr
                       /\ sent[au.epoch][decoder'.last.seq + 1] = "idr"
    BY FullFacts, CommitFull
  <1>2. ReassemblerOK(active)'
    BY <1>1, StillOK
  <1>3. GenuineAu(completed)' /\ GenuineAu(pendingIdr)'
    BY FullFacts, StillGenuine
  <1>4. ContentInv'
    BY <1>1, <1>2, <1>3, FullFacts, ContentStep
  <1>5. DecoderInv'
    BY <1>1 DEF DecoderInv, DecoderOK
  <1>6. session'.active # session.active
    <2>1. session.active \in Int /\ au.epoch \in Int
      <3>1. session.active \in 0 .. MaxEpoch
        BY FullFacts
      <3>2. au.epoch \in 1 .. MaxEpoch
        BY DEF GenuineAu, Epochs
      <3> QED
        BY <3>1, <3>2, ReceiverAssumption
    <2> QED
      BY <1>1, <2>1
  <1>7. Switches
    BY <1>1, <1>6 DEF Switches, OpeningIsReal, CandidateIsolation
  <1> QED
    BY <1>4, <1>5, <1>7 DEF FullStep

(* What the fragment that completes a real IDR of the candidate returns.    *)
LEMMA RealIdrReturns ==
  ASSUME FullInv, NEW d \in Datagrams, NEW k, CompletesRealIdr(d, k)
  PROVE  LET res == Reassemble(CandidateFor(d.epoch), d, k)
             s   == Observed(session, d.epoch) IN
         /\ ReassemblerOK(res.r) /\ GenuineAu(res.out)
         /\ res.out # NoAu /\ res.out.idr /\ ~res.out.rep /\ res.out.epoch = d.epoch
         /\ Ordered(s) /\ s.active = session.active
  <1> DEFINE res == Reassemble(CandidateFor(d.epoch), d, k)
             s   == Observed(session, d.epoch)
  <1>1. ReassemblerOK(res.r) /\ GenuineAu(res.out)
    BY CandidateReturns DEF CompletesRealIdr
  <1>2. res.out # NoAu /\ res.out.idr /\ ~res.out.rep /\ res.out.epoch = d.epoch
    BY FullFacts, RealIdr DEF CompletesRealIdr
  <1>3. Ordered(s) /\ s.active = session.active
    BY FullFacts, DatagramEpoch, ObservedOrdered DEF CompletesRealIdr
  <1> QED
    BY <1>1, <1>2, <1>3

(* The first epoch of a receiver.                                           *)
LEMMA CandidateFirstFullStep ==
  ASSUME FullInv, NEW d \in Datagrams, NEW k, CandidateFirst(d, k)
  PROVE  FullStep
  <1> DEFINE res == Reassemble(CandidateFor(d.epoch), d, k)
             s   == Observed(session, d.epoch)
  <1>1. /\ running /\ session.active = 0 /\ sent' = sent /\ UNCHANGED <<starts, restart>>
        /\ UNCHANGED completed /\ cand' = res.r
        /\ pendingIdr' = pendingIdr \/ pendingIdr' = NoAu
        /\ IF CanCommit(s, d.epoch)
           THEN Commit(decoder, s, res.out)
           ELSE session' = s /\ UNCHANGED <<running, active, ref, real, decoder>>
    BY DEF CandidateFirst, Idle, KeptIdr
  <1>2. /\ ReassemblerOK(res.r) /\ GenuineAu(res.out)
        /\ res.out # NoAu /\ res.out.idr /\ ~res.out.rep /\ res.out.epoch = d.epoch
        /\ Ordered(s) /\ s.active = session.active
    BY RealIdrReturns DEF CandidateFirst
  <1> HIDE DEF res, s
  <1>3. ~restart'.pending /\ pendingIdr' = NoAu
    <2>1. ~restart.pending
      BY <1>1 DEF FullInv, IndInv, LoopInv
    <2> QED
      BY <1>1, <2>1, FullFacts
  <1>4. ReassemblerOK(cand)'
    BY <1>1, <1>2, StillOK
  <1>5. CASE CanCommit(s, d.epoch)
    BY <1>1, <1>2, <1>3, <1>4, <1>5, FullFacts, OpeningFullStep
  <1>6. CASE ~CanCommit(s, d.epoch)
    <2>1. session' = s /\ UNCHANGED <<running, active, ref, real, decoder>>
      BY <1>1, <1>6
    <2>2. ReassemblerOK(active)' /\ GenuineAu(completed)' /\ GenuineAu(pendingIdr)'
      BY <1>1, <1>3, <2>1, FullFacts, StillOK, StillGenuine
    <2>3. ContentInv'
      BY <1>1, <1>3, <1>4, <2>1, <2>2, FullFacts, ContentStep
    <2>4. DecoderInv'
      BY <1>1, <2>1 DEF DecoderInv, FullInv
    <2>5. Switches
      BY <1>1, <1>2, <2>1, NoSwitch
    <2> QED
      BY <2>3, <2>4, <2>5 DEF FullStep
  <1> QED
    BY <1>5, <1>6

(* A later epoch: its IDR waits for a restarted codec.                      *)
LEMMA CandidateNextFullStep ==
  ASSUME FullInv, NEW d \in Datagrams, NEW k, CandidateNext(d, k)
  PROVE  FullStep
  <1> DEFINE res == Reassemble(CandidateFor(d.epoch), d, k)
  <1>1. /\ running /\ sent' = sent /\ UNCHANGED <<starts, active>>
        /\ UNCHANGED completed /\ cand' = res.r /\ pendingIdr' = res.out
        /\ session' = Observed(session, d.epoch)
        /\ IF restart.pending
           THEN UNCHANGED <<running, restart, ref, real, decoder>>
           ELSE RequireReferenceSync /\ RestartDecoder
    BY DEF CandidateNext, Idle
  <1>2. /\ ReassemblerOK(res.r) /\ GenuineAu(res.out)
        /\ res.out # NoAu /\ res.out.idr /\ ~res.out.rep
        /\ session'.active = session.active
    BY <1>1, RealIdrReturns DEF CandidateNext
  <1> HIDE DEF res
  <1>3. ReassemblerOK(cand)' /\ ReassemblerOK(active)'
    BY <1>1, <1>2, FullFacts, StillOK
  <1>4. GenuineAu(completed)' /\ GenuineAu(pendingIdr)'
    BY <1>1, <1>2, FullFacts, StillGenuine
  <1>5. CASE restart.pending
    <2>1. UNCHANGED <<running, restart, ref, real, decoder>>
      BY <1>1, <1>5
    <2>2. ContentInv'
      BY <1>1, <1>2, <1>3, <1>4, <1>5, <2>1, FullFacts, ContentStep
    <2>3. DecoderInv'
      BY <2>1 DEF DecoderInv, FullInv
    <2>4. Switches
      BY <1>1, <1>2, <2>1, NoSwitch
    <2> QED
      BY <2>2, <2>3, <2>4 DEF FullStep
  <1>6. CASE ~restart.pending
    <2>1. RequireReferenceSync /\ RestartDecoder
      BY <1>1, <1>6
    <2>2. ref' \in References /\ real' \in BOOLEAN
      BY <2>1, FullFacts DEF RequireReferenceSync
    <2>3. /\ DecoderOK(decoder')
          /\ \/ /\ restart' = [pending |-> TRUE, ready |-> FALSE]
                /\ decoder'.last = NoFrame /\ running' = running
             \/ restart' = restart /\ running' = FALSE /\ decoder'.last = decoder.last
      BY <2>1, FullFacts, RestartOK
    <2>4. /\ running' = TRUE \/ running' = FALSE
          /\ running' => restart'.pending
          /\ restart'.pending => decoder'.last = NoFrame
      <3>1. CASE /\ restart' = [pending |-> TRUE, ready |-> FALSE]
                 /\ decoder'.last = NoFrame /\ running' = running
        BY <1>1, <3>1
      <3>2. CASE restart' = restart /\ running' = FALSE /\ decoder'.last = decoder.last
        BY <1>6, <3>2
      <3> QED
        BY <2>3, <3>1, <3>2
    <2>5. running' \in BOOLEAN
      BY <2>4
    <2>6. ContentInv'
      BY <1>1, <1>2, <1>3, <1>4, <2>2, <2>4, <2>5, FullFacts, ContentStep
    <2>7. DecoderInv'
      BY <2>3, <2>4 DEF DecoderInv, DecoderOK
    <2>8. pendingIdr = NoAu
      BY <1>1, <1>6, FullFacts
    <2>9. Switches
      BY <1>1, <1>2, <2>8, NoSwitch
    <2> QED
      BY <2>6, <2>7, <2>9 DEF FullStep
  <1> QED
    BY <1>5, <1>6

(* A newer candidate completes its IDR after the codec is back.             *)
LEMMA CandidateAfterRestartFullStep ==
  ASSUME FullInv, NEW d \in Datagrams, NEW k, CandidateAfterRestart(d, k)
  PROVE  FullStep
  <1> DEFINE res == Reassemble(CandidateFor(d.epoch), d, k)
             s   == Observed(session, d.epoch)
  <1>1. /\ running /\ sent' = sent /\ starts' = starts /\ restart.pending
        /\ UNCHANGED completed /\ cand' = res.r /\ pendingIdr' = NoAu
        /\ IF CanCommit(s, d.epoch)
           THEN Commit(decoder, s, res.out) /\ restart' = NoRestart
           ELSE session' = s /\ UNCHANGED <<running, active, restart, ref, real, decoder>>
    BY DEF CandidateAfterRestart, Idle
  <1>2. /\ ReassemblerOK(res.r) /\ GenuineAu(res.out)
        /\ res.out # NoAu /\ res.out.idr /\ ~res.out.rep /\ res.out.epoch = d.epoch
        /\ Ordered(s) /\ s.active = session.active
    BY RealIdrReturns DEF CandidateAfterRestart
  <1> HIDE DEF res, s
  <1>3. ReassemblerOK(cand)'
    BY <1>1, <1>2, StillOK
  <1>4. CASE CanCommit(s, d.epoch)
    <2>1. Commit(decoder, s, res.out) /\ ~restart'.pending
      BY <1>1, <1>4 DEF NoRestart
    <2> QED
      BY <1>1, <1>2, <1>3, <1>4, <2>1, FullFacts, OpeningFullStep
  <1>5. CASE ~CanCommit(s, d.epoch)
    <2>1. session' = s /\ UNCHANGED <<running, active, restart, ref, real, decoder>>
      BY <1>1, <1>5
    <2>2. ReassemblerOK(active)' /\ GenuineAu(completed)' /\ GenuineAu(pendingIdr)'
      BY <1>1, <2>1, FullFacts, StillOK, StillGenuine
    <2>3. ContentInv'
      BY <1>1, <1>3, <2>1, <2>2, FullFacts, ContentStep
    <2>4. DecoderInv'
      BY <2>1 DEF DecoderInv, FullInv
    <2>5. Switches
      BY <1>2, <2>1, NoSwitch
    <2> QED
      BY <2>3, <2>4, <2>5 DEF FullStep
  <1> QED
    BY <1>4, <1>5

(* The loop takes the completion of a codec restart.                        *)
LEMMA TakeFullStep == ASSUME FullInv, TakeRestartCompletion PROVE FullStep
  <1> DEFINE taken == [decoder EXCEPT !.completion = "none"]
  <1>1. DecoderOK(taken) /\ taken.last = decoder.last
    BY FullFacts, CompletionTaken
  <1>2. /\ running /\ restart.pending /\ sent' = sent /\ UNCHANGED <<starts, cand>>
        /\ UNCHANGED completed /\ decoder.last = NoFrame
    BY FullFacts DEF TakeRestartCompletion, Idle
  <1>3. ReassemblerOK(cand)'
    BY <1>2, FullFacts, StillOK
  <1>4. CASE /\ UNCHANGED <<session, active, ref, real>>
             /\ decoder' = taken
             /\ running' = FALSE \/ running' = running
             /\ pendingIdr' = NoAu \/ (pendingIdr' = pendingIdr /\ restart' = restart)
    <2>1. ReassemblerOK(active)' /\ GenuineAu(completed)' /\ GenuineAu(pendingIdr)'
      BY <1>2, <1>4, FullFacts, StillOK, StillGenuine
    <2>2. running' = TRUE \/ running' = FALSE
      BY <1>2, <1>4
    <2>3. running' \in BOOLEAN
      BY <2>2
    <2>4. ContentInv'
      BY <1>2, <1>3, <1>4, <2>1, <2>3, FullFacts, ContentStep
    <2> HIDE DEF taken
    <2>5. DecoderInv'
      BY <1>1, <1>2, <1>4 DEF DecoderInv, DecoderOK
    <2>6. Switches
      BY <1>2, <1>4, NoSwitch
    <2> QED
      BY <2>4, <2>5, <2>6 DEF FullStep
  <1>5. CASE /\ pendingIdr # NoAu
             /\ pendingIdr' = NoAu
             /\ CanCommit(session, pendingIdr.epoch)
             /\ Commit(taken, session, pendingIdr)
             /\ restart' = NoRestart
    <2>1. ~restart'.pending
      BY <1>5 DEF NoRestart
    <2> HIDE DEF taken
    <2> QED
      BY <1>1, <1>2, <1>3, <1>5, <2>1, FullFacts, OpeningFullStep
  <1>6. \/ /\ UNCHANGED <<session, active, ref, real>>
           /\ decoder' = taken
           /\ running' = FALSE \/ running' = running
           /\ pendingIdr' = NoAu \/ (pendingIdr' = pendingIdr /\ restart' = restart)
        \/ /\ pendingIdr # NoAu
           /\ pendingIdr' = NoAu
           /\ CanCommit(session, pendingIdr.epoch)
           /\ Commit(taken, session, pendingIdr)
           /\ restart' = NoRestart
    BY Zenon DEF TakeRestartCompletion
  <1> QED
    BY <1>4, <1>5, <1>6, Zenon

(* Steps of the active path leave the session and the candidate alone.      *)
LEMMA ActiveFullStep ==
  ASSUME FullInv, sent' = sent, UNCHANGED <<starts, session, cand, pendingIdr, restart>>,
         running' = running \/ running' = FALSE, real' \in BOOLEAN, ref' \in References,
         NEW a, ReassemblerOK(a), active' = a, NEW u, GenuineAu(u), completed' = u,
         DecoderOK(decoder'), restart.pending => decoder'.last = decoder.last
  PROVE  FullStep
  <1>1. ReassemblerOK(active)' /\ ReassemblerOK(cand)'
    BY FullFacts, StillOK
  <1>2. GenuineAu(completed)' /\ GenuineAu(pendingIdr)'
    BY FullFacts, StillGenuine
  <1>3. running' \in BOOLEAN /\ (running' => running)
    <2>1. CASE running' = running
      BY <2>1, FullFacts
    <2>2. CASE running' = FALSE
      BY <2>2
    <2> QED
      BY <2>1, <2>2
  <1>4. ContentInv'
    BY <1>1, <1>2, <1>3, FullFacts, ContentStep
  <1>5. DecoderInv'
    BY FullFacts DEF DecoderInv, DecoderOK
  <1>6. Switches
    BY NoSwitch
  <1> QED
    BY <1>4, <1>5, <1>6 DEF FullStep

(* The active reassembler starts over.                                      *)
LEMMA ActiveRebuilt == ASSUME FullInv PROVE ReassemblerOK(Rebuilt(session.active, None))
  <1>1. None \in None .. MaxSeq
    BY SeqAssumption DEF None
  <1> QED
    BY <1>1, FullFacts, RebuiltOK

(* A fragment of the active epoch.                                          *)
LEMMA ActiveDatagramFullStep ==
  ASSUME FullInv, NEW d \in Datagrams, NEW k, ActiveDatagram(d, k)
  PROVE  FullStep
  <1> DEFINE res == Reassemble(active, d, k)
  <1>1. /\ UNCHANGED <<sent, running, starts, session, cand, pendingIdr, restart, decoder>>
        /\ IF res.lost
           THEN RequireReferenceSync /\ active' = Rebuilt(session.active, None)
           ELSE UNCHANGED <<ref, real>> /\ active' = res.r
        /\ completed' = IF res.lost THEN NoAu ELSE res.out
    BY DEF ActiveDatagram
  <1>2. ReassemblerOK(res.r) /\ GenuineAu(res.out)
    BY FullFacts, ReassembleReturns DEF ActiveDatagram
  <1> HIDE DEF res
  <1>3. CASE res.lost
    <2>1. /\ active' = Rebuilt(session.active, None) /\ completed' = NoAu
          /\ ref' = NoRef /\ real' = FALSE
      BY <1>1, <1>3 DEF RequireReferenceSync
    <2> QED
      BY <1>1, <2>1, FullFacts, ActiveRebuilt, ActiveFullStep
  <1>4. CASE ~res.lost
    <2>1. active' = res.r /\ completed' = res.out /\ UNCHANGED <<ref, real>>
      BY <1>1, <1>4
    <2> QED
      BY <1>1, <1>2, <2>1, FullFacts, ActiveFullStep
  <1> QED
    BY <1>3, <1>4

(* The decoder takes an access unit.                                        *)
LEMMA DrainAcceptedFullStep == ASSUME FullInv, DrainAccepted PROVE FullStep
  <1> DEFINE next == PopCompleted(active, FALSE)
             l == [epoch |-> completed.epoch, seq |-> completed.seq, idr |-> completed.idr]
  <1>1. /\ phase = "drain" /\ completed # NoAu /\ active' = next.r /\ completed' = next.out
        /\ SubmitAccepted(decoder, ref, real, completed)
        /\ UNCHANGED <<sent, running, starts, session, cand, pendingIdr, restart>>
    BY DEF DrainAccepted
  <1>2. ReassemblerOK(next.r) /\ GenuineAu(next.out)
    BY FullFacts, PopReturns DEF Returns
  <1>3. ~restart.pending
    BY <1>1 DEF FullInv, IndInv, LoopInv
  <1>4. completed \in [epoch : Epochs, seq : 0 .. MaxSeq, rep : BOOLEAN, idr : BOOLEAN]
    BY <1>1, FullFacts DEF GenuineAu
  <1>5. /\ decoder' = [decoder EXCEPT !.last = l] /\ ~Busy(decoder)
        /\ ref' = [awaiting |-> FALSE, last |-> completed.seq]
        /\ real' \in BOOLEAN
    BY <1>1 DEF SubmitAccepted
  <1>6. l \in Frames /\ ref' \in References
    <2>1. completed.epoch \in 0 .. MaxEpoch /\ completed.seq \in None .. MaxSeq
      BY <1>4, SeqAssumption, ReceiverAssumption DEF Epochs, None
    <2> QED
      BY <1>4, <1>5, <2>1 DEF Frames, References
  <1> HIDE DEF l, next
  <1>7. DecoderOK(decoder')
    BY <1>5, <1>6, FullFacts, TookFrame
  <1> QED
    BY <1>1, <1>2, <1>3, <1>5, <1>6, <1>7, ActiveFullStep

(* An access unit is refused.                                               *)
LEMMA DrainRefusedFullStep == ASSUME FullInv, DrainRefused PROVE FullStep
  <1>1. /\ completed' = NoAu /\ SubmitRefused(ref, real, completed)
        /\ UNCHANGED <<sent, starts, session, cand, pendingIdr, restart>>
    BY DEF DrainRefused
  <1>2. /\ running' = running \/ running' = FALSE
        /\ active' = active \/ active' = Rebuilt(session.active, None)
        /\ decoder' = decoder \/ decoder' = TimedOut(decoder)
    BY Zenon DEF DrainRefused
  <1>3. ref' \in References /\ real' \in BOOLEAN
    BY <1>1, FullFacts DEF SubmitRefused, RequireReferenceSync
  <1>4. DecoderOK(decoder') /\ decoder'.last = decoder.last
    BY <1>2, FullFacts, TimedOutOK
  <1>5. CASE active' = active
    BY <1>1, <1>2, <1>3, <1>4, <1>5, FullFacts, ActiveFullStep
  <1>6. CASE active' = Rebuilt(session.active, None)
    BY <1>1, <1>2, <1>3, <1>4, <1>6, FullFacts, ActiveRebuilt, ActiveFullStep
  <1> QED
    BY <1>2, <1>5, <1>6

(* The end of the handling of a datagram, and the silence of the socket.    *)
LEMMA RecoveryFullStep ==
  ASSUME FullInv, FinishDatagram \/ IdleRecovery PROVE FullStep
  <1>1. UNCHANGED <<sent, running, starts, session, cand, pendingIdr, restart, completed, decoder>>
    BY DEF FinishDatagram, IdleRecovery, Idle
  <1>2. CASE UNCHANGED <<active, ref, real>>
    BY <1>1, <1>2, FullFacts, ActiveFullStep
  <1>3. CASE RequireReferenceSync /\ active' = Rebuilt(session.active, None)
    <2>1. ref' = NoRef /\ real' = FALSE
      BY <1>3 DEF RequireReferenceSync
    <2> QED
      BY <1>1, <1>3, <2>1, FullFacts, ActiveRebuilt, ActiveFullStep
  <1> QED
    BY <1>2, <1>3 DEF FinishDatagram, IdleRecovery

(* Every step keeps what the reassemblers and the decoder hold genuine, and *)
(* switches epochs only as it should.                                       *)
LEMMA EveryFullStep == ASSUME FullInv, [Next]_vars PROVE FullStep
  <1>0. DecoderOK(decoder)
    BY FullFacts
  <1>1. CASE \E e \in Epochs, k \in Kinds : HostSend(e, k)
    BY <1>1, HostSendFullStep
  <1>2. CASE Start
    BY <1>2, StartFullStep
  <1>3. CASE Stop
    BY <1>0, <1>3, QuietFullStep DEF Stop, thread
  <1>4. CASE CodecFails
    <2>1. UNCHANGED <<sent, running, starts, thread>>
      BY <1>4 DEF CodecFails
    <2> QED
      BY <1>0, <1>4, <2>1, CodecFailsOK, QuietFullStep DEF thread
  <1>5. ASSUME NEW g \in decoder.java, NEW ok \in BOOLEAN, CompleteStreamRestart(g, ok)
        PROVE  FullStep
    <2>1. UNCHANGED <<sent, running, starts, thread>>
      BY <1>5 DEF CompleteStreamRestart
    <2> QED
      BY <1>0, <1>5, <2>1, CompleteOK, QuietFullStep DEF thread
  <1>6. CASE Receive
    <2>1. ASSUME NEW d \in Datagrams, NEW k \in 0 .. MaxInflight,
                 \/ CandidateIncomplete(d, k)
                 \/ CandidateFirst(d, k)
                 \/ CandidateNext(d, k)
                 \/ CandidateAfterRestart(d, k)
                 \/ ActiveDatagram(d, k)
          PROVE  FullStep
      BY <2>1, CandidateIncompleteFullStep, CandidateFirstFullStep, CandidateNextFullStep,
         CandidateAfterRestartFullStep, ActiveDatagramFullStep
    <2>2. CASE TakeRestartCompletion
      BY <2>2, TakeFullStep
    <2>3. CASE RestartTimeout
      <3>1. /\ UNCHANGED <<sent, starts, thread>> /\ running' = FALSE
            /\ decoder' = TimedOut(decoder)
        BY <2>3 DEF RestartTimeout
      <3> QED
        BY <1>0, <3>1, TimedOutOK, QuietFullStep DEF thread
    <2>4. CASE DrainAccepted
      BY <2>4, DrainAcceptedFullStep
    <2>5. CASE DrainRefused
      BY <2>5, DrainRefusedFullStep
    <2>6. CASE FinishDatagram \/ IdleRecovery
      BY <2>6, RecoveryFullStep
    <2> QED
      BY <1>6, <2>1, <2>2, <2>3, <2>4, <2>5, <2>6 DEF Receive
  <1>7. CASE UNCHANGED vars
    BY <1>0, <1>7, QuietFullStep DEF vars, thread
  <1> QED
    BY <1>1, <1>2, <1>3, <1>4, <1>5, <1>6, <1>7 DEF Next

(* A receiver that was never started satisfies all of it.                   *)
LEMMA InitialFullState == Init => FullInv
  <1> SUFFICES ASSUME Init PROVE FullInv
    OBVIOUS
  <1> USE ReceiverAssumption, SeqAssumption, MaxInflightAssumption
  <1>1. IndInv
    BY InitialState
  <1>2. SentOK
    BY DEF Init, SentOK
  <1>3. ReassemblerOK(Fresh)
    <2>1. Fresh = Rebuilt(0, None)
      BY DEF Fresh, Rebuilt
    <2>2. 0 \in 0 .. MaxEpoch /\ None \in None .. MaxSeq
      BY DEF None
    <2> QED
      BY <2>1, <2>2, RebuiltOK
  <1>4. ContentInv
    <2>0. None \in None .. MaxSeq
      BY DEF None
    <2>1. ref \in [awaiting : BOOLEAN, last : None .. MaxSeq]
      BY <2>0 DEF Init, NoRef
    <2>2. running = FALSE /\ starts = 0 /\ real = FALSE
      BY DEF Init
    <2>3. running \in BOOLEAN /\ real \in BOOLEAN
      BY <2>2
    <2>4. starts \in 0 .. MaxStarts
      BY <2>2
    <2> QED
      BY <1>2, <1>3, <2>1, <2>2, <2>3, <2>4 DEF Init, ContentInv, GenuineAu
  <1>5. DecoderOK(Configured(1, {}))
    <2>1. DecoderOK(Configured(0 + 1, {}))
      BY ConfiguredOK
    <2> QED
      BY <2>1
  <1>6. DecoderInv
    BY <1>5 DEF Init, DecoderInv, NoRestart
  <1> QED
    BY <1>1, <1>4, <1>6 DEF FullInv

(* The stronger invariant of the receiver holds in every reachable state.   *)
THEOREM FullInvariant == Spec => []FullInv
  <1>1. FullInv /\ [Next]_vars => FullInv'
    BY EveryStep, EveryFullStep DEF FullInv, StepOK, FullStep
  <1> QED
    BY InitialFullState, <1>1, PTL DEF Spec

(* Between any two steps the receiver, its policies and the decoder's       *)
(* restart agree about what the codec holds; no more frames are pending     *)
(* than the limit, and a completion is never that of an abandoned restart.  *)
THEOREM ReceiverInvHolds == Spec => []ReceiverInv
  <1>1. FullInv => ReceiverInv
    <2> SUFFICES ASSUME FullInv PROVE ReceiverInv
      OBVIOUS
    <2>1. pendingIdr \in Aus /\ completed \in Aus
      <3>1. ASSUME NEW au, GenuineAu(au) PROVE au \in Aus
        <4>1. NoAu \in Aus
          BY ReceiverAssumption, SeqAssumption DEF NoAu, Aus, None
        <4>2. CASE au \in [epoch : Epochs, seq : 0 .. MaxSeq, rep : BOOLEAN, idr : BOOLEAN]
          <5>1. Epochs \subseteq 0 .. MaxEpoch /\ 0 .. MaxSeq \subseteq None .. MaxSeq
            BY ReceiverAssumption, SeqAssumption DEF Epochs, None
          <5> QED
            BY <4>2, <5>1 DEF Aus
        <4> QED
          BY <3>1, <4>1, <4>2 DEF GenuineAu
      <3> QED
        BY <3>1, FullFacts
    <2>2. \A r \in {active, cand} : /\ r.epoch \in 0 .. MaxEpoch
                                    /\ r.last \in None .. MaxSeq
                                    /\ Len(r.pending) <= MaxInflight
      BY FullFacts DEF ReassemblerOK
    <2>3. TypeOK
      BY <2>1, <2>2 DEF TypeOK, FullInv, ContentInv, SentOK, DecoderInv, DecoderOK, IndInv,
         Ordered, Shapes, LoopInv
    <2>4. CompletionIsCurrent
      BY FullFacts DEF CompletionIsCurrent, DecoderOK
    <2> QED
      BY <2>3, <2>4 DEF ReceiverInv, FullInv
  <1> QED
    BY <1>1, FullInvariant, PTL

(* A new epoch becomes active only with a complete, real IDR that the Host  *)
(* sent, on a codec without older frames; its fragments disturb nothing     *)
(* before, and no epoch that was left comes back.                           *)
THEOREM EpochSwitchHolds == Spec => EpochSwitch
  <1>1. FullInv /\ [Next]_vars => [OpeningIsReal /\ CandidateIsolation /\ EpochStep]_vars
    BY EveryStep, EveryFullStep DEF FullInv, StepOK, FullStep, Switches
  <1> QED
    BY <1>1, FullInvariant, PTL DEF Spec, EpochSwitch
=============================================================================
