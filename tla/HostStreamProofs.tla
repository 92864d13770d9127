-------------------------- MODULE HostStreamProofs --------------------------
(* Proofs about a stream of the Host: its epoch and its identities          *)
(* (EpochReservation), for any number of processes, any naming of temporary *)
(* files, any epoch range and any sequence range; and the frames it carries *)
(* (HostVideo), for any computers, any number of transfer slots from three  *)
(* on, any completion ring and any bound on what is captured.               *)
EXTENDS EpochReservation, HostVideo, FiniteSetTheorems, WellFoundedInduction, TLAPS

(* The inductive invariant holds initially: no process is in reserve_next,  *)
(* the file is missing, no epoch is issued.                                 *)
LEMMA IndInvInit == Init => IndInv
  <1> USE TmpAssumption, NoProcAssumption, MaxEpochAssumption, MaxSeqAssumption
  <1> SUFFICES ASSUME Init PROVE IndInv
    OBVIOUS
  <1> USE DEF Init, Epochs, Seqs, Torn, Contents, NoTmp, TmpFiles, NoGen, Generators, Steps
  <1>1. TypeOK
    BY DEF TypeOK
  <1>2. LockHeld /\ HolderCurrent /\ file \in disk /\ StateFileReadable
    BY DEF LockHeld, HolderCurrent, StateFileReadable
  <1>3. IssuedIsDurable /\ EpochIssuedOnce
    BY DEF IssuedIsDurable, EpochIssuedOnce
  <1>4. GeneratorOwnsEpoch /\ UsedIsIssued /\ FrameIdentityUnique
    BY DEF GeneratorOwnsEpoch, UsedIsIssued, FrameIdentityUnique
  <1> QED
    BY <1>1, <1>2, <1>3, <1>4 DEF IndInv

(* What the temporary file and the generator become stays in their types.   *)
LEMMA RecordTypes ==
  /\ NoTmp \in TmpFiles
  /\ NoGen \in Generators
  /\ \A t \in TmpFiles, v \in 0 .. MaxEpoch :
        /\ [t EXCEPT !.value = v] \in TmpFiles
        /\ [t EXCEPT !.synced = TRUE] \in TmpFiles
        /\ OnDisk(t) \in Contents
  /\ \A g \in Generators, e \in 0 .. MaxEpoch :
        /\ [epoch |-> e, sequence |-> 0, rollover |-> FALSE] \in Generators
        /\ [g EXCEPT !.rollover = TRUE] \in Generators
        /\ g.sequence # MaxSeq => [g EXCEPT !.sequence = @ + 1] \in Generators
  <1> USE MaxEpochAssumption, MaxSeqAssumption
  <1>1. NoTmp \in TmpFiles /\ NoGen \in Generators
    BY DEF NoTmp, TmpFiles, NoGen, Generators, Seqs
  <1>2. ASSUME NEW t \in TmpFiles, NEW v \in 0 .. MaxEpoch
        PROVE  /\ [t EXCEPT !.value = v] \in TmpFiles
               /\ [t EXCEPT !.synced = TRUE] \in TmpFiles
    BY DEF TmpFiles
  <1>3. ASSUME NEW t \in TmpFiles PROVE OnDisk(t) \in Contents
    BY DEF TmpFiles, OnDisk, Contents, Torn
  <1>4. ASSUME NEW g \in Generators, NEW e \in 0 .. MaxEpoch
        PROVE  /\ [epoch |-> e, sequence |-> 0, rollover |-> FALSE] \in Generators
               /\ [g EXCEPT !.rollover = TRUE] \in Generators
               /\ g.sequence # MaxSeq => [g EXCEPT !.sequence = @ + 1] \in Generators
    <2>1. [epoch |-> e, sequence |-> 0, rollover |-> FALSE] \in Generators
      BY DEF Generators, Seqs
    <2>2. [g EXCEPT !.rollover = TRUE] \in Generators
      BY DEF Generators
    <2>3. ASSUME g.sequence # MaxSeq
          PROVE  [g EXCEPT !.sequence = @ + 1] \in Generators
      <3>1. g.sequence + 1 \in Seqs
        BY <2>3 DEF Generators, Seqs
      <3> QED
        BY <3>1 DEF Generators
    <2> QED
      BY <2>1, <2>2, <2>3
  <1> QED
    BY <1>1, <1>2, <1>3, <1>4

(* TypeOK is preserved by every step; the file and lock discipline matters  *)
(* only in ReadCurrent, which never computes an epoch past the maximum.     *)
LEMMA TypeStep == IndInv /\ [Next]_vars => TypeOK'
  <1> USE TmpAssumption, NoProcAssumption, MaxEpochAssumption, RecordTypes
  <1> SUFFICES ASSUME IndInv, [Next]_vars PROVE TypeOK'
    OBVIOUS
  <1>0. TypeOK /\ HolderCurrent
    BY DEF IndInv
  <1>1. ASSUME NEW p \in Procs, Reserve(p) PROVE TypeOK'
    <2> USE DEF Goto, Throw, Unlink, genVars, TypeOK
    <2>1. CASE AcquireLock(p)
      BY <1>0, <2>1 DEF AcquireLock, Steps
    <2>2. CASE ReadCurrent(p)
      <3>1. next' \in [Procs -> 0 .. MaxEpoch]
        BY <1>0, <2>2 DEF ReadCurrent, Contents, Torn
      <3> QED
        BY <1>0, <2>2, <3>1 DEF ReadCurrent, Steps
    <2>3. CASE CreateTmp(p)
      BY <1>0, <2>3 DEF CreateTmp, Steps
    <2>4. CASE WriteTmp(p)
      <3>0. [tmp[TmpOf[p]] EXCEPT !.value = next[p]] \in TmpFiles
        BY <1>0
      <3>1. tmp' \in [TmpNames -> TmpFiles]
        BY <1>0, <2>4, <3>0 DEF WriteTmp
      <3> QED
        BY <1>0, <2>4, <3>1 DEF WriteTmp, Steps
    <2>5. CASE SyncTmp(p)
      <3>0. [tmp[TmpOf[p]] EXCEPT !.synced = TRUE] \in TmpFiles
        BY <1>0
      <3>1. tmp' \in [TmpNames -> TmpFiles]
        BY <1>0, <2>5, <3>0 DEF SyncTmp
      <3> QED
        BY <1>0, <2>5, <3>1 DEF SyncTmp, Steps
    <2>6. CASE RenameTmp(p)
      <3>1. tmp[TmpOf[p]] \in TmpFiles
        BY <1>0
      <3>2. file' \in Contents /\ disk' \subseteq Contents
        <4>1. tmp[TmpOf[p]].value \in Contents /\ OnDisk(tmp[TmpOf[p]]) \in Contents
          BY <3>1 DEF TmpFiles, Contents
        <4> QED
          BY <1>0, <2>6, <4>1 DEF RenameTmp
      <3> QED
        BY <1>0, <2>6, <3>2 DEF RenameTmp, Steps
    <2>7. CASE SyncDirectory(p)
      BY <1>0, <2>7 DEF SyncDirectory, Steps
    <2>8. CASE ReturnNext(p)
      <3>1. gen' \in [Procs -> Generators]
        BY <1>0, <2>8 DEF ReturnNext, Adopt
      <3>2. issued' \in [Epochs -> Nat]
        BY <1>0, <2>8 DEF ReturnNext, HolderCurrent
      <3> QED
        BY <1>0, <2>8, <3>1, <3>2 DEF ReturnNext, Steps
    <2> QED
      BY <1>1, <2>1, <2>2, <2>3, <2>4, <2>5, <2>6, <2>7, <2>8 DEF Reserve, Persist
  <1>2. ASSUME NEW p \in Procs, NextIdentity(p) PROVE TypeOK'
    <2>1. gen[p] \in Generators
      BY <1>0 DEF TypeOK
    <2>2. gen' \in [Procs -> Generators]
      BY <1>0, <1>2, <2>1 DEF NextIdentity, TypeOK
    <2>3. used' \in [Epochs \X Seqs -> Nat]
      <3>1. \A x \in Epochs \X Seqs : used[x] + 1 \in Nat
        BY <1>0 DEF TypeOK
      <3> QED
        BY <1>0, <1>2, <3>1 DEF NextIdentity, TypeOK
    <2> QED
      BY <1>0, <1>2, <2>2, <2>3 DEF NextIdentity, storeVars, TypeOK
  <1>3. ASSUME NEW p \in Procs, Kill(p) PROVE TypeOK'
    BY <1>0, <1>3 DEF Kill, Goto, TypeOK, Steps
  <1>4. CASE PowerLoss
    BY <1>0, <1>4 DEF PowerLoss, TypeOK, Steps
  <1>5. CASE UNCHANGED vars
    BY <1>0, <1>5 DEF vars, storeVars, genVars, TypeOK
  <1> QED
    BY <1>1, <1>2, <1>3, <1>4, <1>5 DEF Next

(* Mutual exclusion, in every step: the lock is held by exactly the process *)
(* inside reserve_next(), because every exit path, normal, exceptional or   *)
(* by a kill, releases it.                                                  *)
LEMMA LockStep == IndInv /\ [Next]_vars => LockHeld'
  <1> USE NoProcAssumption
  <1> SUFFICES ASSUME IndInv, [Next]_vars PROVE LockHeld'
    OBVIOUS
  <1>0. TypeOK /\ LockHeld
    BY DEF IndInv
  <1> USE DEF LockHeld, TypeOK
  <1>1. ASSUME NEW p \in Procs, Reserve(p) PROVE LockHeld'
    BY <1>0, <1>1 DEF Reserve, Persist, AcquireLock, ReadCurrent, CreateTmp, WriteTmp,
       SyncTmp, RenameTmp, SyncDirectory, ReturnNext, Goto, Throw
  <1>2. ASSUME NEW p \in Procs, NextIdentity(p) PROVE LockHeld'
    BY <1>0, <1>2 DEF NextIdentity, storeVars
  <1>3. ASSUME NEW p \in Procs, Kill(p) PROVE LockHeld'
    BY <1>0, <1>3 DEF Kill, Goto
  <1>4. CASE PowerLoss
    BY <1>0, <1>4 DEF PowerLoss
  <1>5. CASE UNCHANGED vars
    BY <1>0, <1>5 DEF vars, storeVars
  <1> QED
    BY <1>1, <1>2, <1>3, <1>4, <1>5 DEF Next

(* The persistence discipline is preserved: what the holder read stays      *)
(* current, every file the disk may hold is readable and at least as high   *)
(* as every epoch returned, and no epoch is returned twice.                 *)
LEMMA StoreStep ==
  IndInv /\ [Next]_vars =>
    /\ HolderCurrent'
    /\ (file \in disk)'
    /\ StateFileReadable'
    /\ IssuedIsDurable'
    /\ EpochIssuedOnce'
  <1> USE NoProcAssumption, TmpAssumption, MaxEpochAssumption
  <1> DEFINE Store ==
        /\ HolderCurrent
        /\ file \in disk
        /\ StateFileReadable
        /\ IssuedIsDurable
        /\ EpochIssuedOnce
  <1> SUFFICES ASSUME IndInv, [Next]_vars PROVE Store'
    OBVIOUS
  <1>0. TypeOK /\ LockHeld /\ Store
    BY DEF IndInv
  <1>a. /\ file \in 0 .. MaxEpoch
        /\ \A e \in Epochs : issued[e] > 0 => e <= file
        /\ \A e \in Epochs : issued[e] \in Nat
        /\ disk \subseteq 0 .. MaxEpoch
    BY <1>0 DEF TypeOK, StateFileReadable, IssuedIsDurable, Contents
  <1>b. ASSUME NEW p \in Procs, pc[p] # "idle" PROVE \A q \in Procs \ {p} : pc[q] = "idle"
    BY <1>0, <1>b DEF LockHeld
  <1>1. ASSUME NEW p \in Procs, Reserve(p) PROVE Store'
    <2> USE DEF Goto, Throw, Unlink, genVars
    <2>1. CASE AcquireLock(p)
      BY <1>0, <2>1 DEF AcquireLock, HolderCurrent, StateFileReadable,
         IssuedIsDurable, EpochIssuedOnce, TypeOK
    <2>2. CASE ReadCurrent(p)
      <3>1. HolderCurrent'
        BY <1>0, <1>a, <1>b, <2>2, SMTT(30) DEF ReadCurrent, HolderCurrent, TypeOK, Epochs
      <3> QED
        BY <1>0, <2>2, <3>1 DEF ReadCurrent, StateFileReadable, IssuedIsDurable, EpochIssuedOnce
    <2>3. CASE CreateTmp(p)
      <3>1. HolderCurrent'
        BY <1>0, <1>b, <2>3 DEF CreateTmp, HolderCurrent, TypeOK
      <3> QED
        BY <1>0, <2>3, <3>1 DEF CreateTmp, StateFileReadable, IssuedIsDurable, EpochIssuedOnce
    <2>4. CASE WriteTmp(p)
      <3>1. HolderCurrent'
        BY <1>0, <1>b, <2>4 DEF WriteTmp, HolderCurrent, TypeOK, TmpFiles
      <3> QED
        BY <1>0, <2>4, <3>1 DEF WriteTmp, StateFileReadable, IssuedIsDurable, EpochIssuedOnce
    <2>5. CASE SyncTmp(p)
      <3>1. HolderCurrent'
        BY <1>0, <1>b, <2>5 DEF SyncTmp, HolderCurrent, TypeOK, TmpFiles
      <3> QED
        BY <1>0, <2>5, <3>1 DEF SyncTmp, StateFileReadable, IssuedIsDurable, EpochIssuedOnce
    <2>6. CASE RenameTmp(p)
      <3>1. /\ tmp[TmpOf[p]].value = file + 1
            /\ OnDisk(tmp[TmpOf[p]]) = file + 1
            /\ next[p] = file + 1
            /\ file + 1 \in Epochs
        BY <1>0, <2>6 DEF RenameTmp, HolderCurrent, OnDisk
      <3>2. CASE /\ file' = file + 1
                 /\ disk' = disk \cup {file + 1}
                 /\ Goto(p, "renamed")
        <4>1. issued[file + 1] = 0
          BY <1>a, <3>1 DEF Epochs
        <4>2. HolderCurrent'
          BY <1>0, <1>b, <2>6, <3>1, <3>2, <4>1 DEF RenameTmp, HolderCurrent, TypeOK
        <4>3. IssuedIsDurable'
          BY <1>0, <1>a, <2>6, <3>1, <3>2 DEF RenameTmp, IssuedIsDurable, Epochs
        <4> QED
          BY <1>0, <1>a, <2>6, <3>2, <4>2, <4>3
          DEF RenameTmp, StateFileReadable, EpochIssuedOnce, Torn
      <3>3. CASE Throw(p) /\ UNCHANGED <<file, disk>>
        <4>1. HolderCurrent'
          BY <1>0, <1>b, <2>6, <3>3 DEF RenameTmp, HolderCurrent, TypeOK
        <4> QED
          BY <1>0, <2>6, <3>3, <4>1
          DEF RenameTmp, StateFileReadable, IssuedIsDurable, EpochIssuedOnce
      <3> QED
        BY <2>6, <3>1, <3>2, <3>3 DEF RenameTmp
    <2>7. CASE SyncDirectory(p)
      <3>1. HolderCurrent'
        BY <1>0, <1>b, <2>7 DEF SyncDirectory, HolderCurrent, TypeOK
      <3>2. disk' = disk \/ disk' = {file}
        BY <2>7 DEF SyncDirectory
      <3>3. IssuedIsDurable'
        BY <1>0, <1>a, <2>7, <3>2 DEF SyncDirectory, IssuedIsDurable
      <3> QED
        BY <1>0, <2>7, <3>1, <3>2, <3>3 DEF SyncDirectory, StateFileReadable, EpochIssuedOnce
    <2>8. CASE ReturnNext(p)
      <3>1. /\ disk = {next[p]} /\ file = next[p]
            /\ next[p] \in Epochs
            /\ issued[next[p]] = 0
        BY <1>0, <2>8 DEF ReturnNext, HolderCurrent
      <3>2. \A e \in Epochs : issued'[e] = IF e = next[p] THEN 1 ELSE issued[e]
        BY <1>0, <2>8, <3>1 DEF ReturnNext, TypeOK
      <3>3. HolderCurrent'
        BY <1>0, <1>b, <2>8 DEF ReturnNext, HolderCurrent, TypeOK
      <3>4. IssuedIsDurable'
        BY <1>a, <2>8, <3>1, <3>2 DEF ReturnNext, IssuedIsDurable, Epochs
      <3>5. EpochIssuedOnce'
        BY <1>0, <3>2 DEF EpochIssuedOnce
      <3> QED
        BY <1>0, <2>8, <3>3, <3>4, <3>5 DEF ReturnNext, StateFileReadable
    <2> QED
      BY <1>1, <2>1, <2>2, <2>3, <2>4, <2>5, <2>6, <2>7, <2>8 DEF Reserve, Persist
  <1>2. ASSUME NEW p \in Procs, NextIdentity(p) PROVE Store'
    BY <1>0, <1>2 DEF NextIdentity, storeVars, HolderCurrent, StateFileReadable,
       IssuedIsDurable, EpochIssuedOnce
  <1>3. ASSUME NEW p \in Procs, Kill(p) PROVE Store'
    <2>1. HolderCurrent'
      BY <1>0, <1>3 DEF Kill, Goto, HolderCurrent, TypeOK
    <2> QED
      BY <1>0, <1>3, <2>1 DEF Kill, StateFileReadable, IssuedIsDurable, EpochIssuedOnce
  <1>4. CASE PowerLoss
    BY <1>0, <1>4 DEF PowerLoss, HolderCurrent, StateFileReadable, IssuedIsDurable, EpochIssuedOnce
  <1>5. CASE UNCHANGED vars
    BY <1>0, <1>5 DEF vars, storeVars, HolderCurrent, StateFileReadable,
       IssuedIsDurable, EpochIssuedOnce
  <1> QED
    BY <1>1, <1>2, <1>3, <1>4, <1>5 DEF Next

(* Frame identities stay unique: an epoch is adopted only when it has just  *)
(* been issued for the first time, so none of its identities is used, and a *)
(* generator only moves forward inside its epoch.                           *)
LEMMA GeneratorStep ==
  IndInv /\ [Next]_vars => GeneratorOwnsEpoch' /\ UsedIsIssued' /\ FrameIdentityUnique'
  <1> USE MaxEpochAssumption, MaxSeqAssumption
  <1> DEFINE Gen == GeneratorOwnsEpoch /\ UsedIsIssued /\ FrameIdentityUnique
  <1> SUFFICES ASSUME IndInv, [Next]_vars PROVE Gen'
    OBVIOUS
  <1>0. TypeOK /\ HolderCurrent /\ Gen
    BY DEF IndInv
  <1>a. /\ gen \in [Procs -> Generators]
        /\ \A q \in Procs : gen[q].epoch = 0 \/ gen[q].epoch \in Epochs
    BY <1>0 DEF TypeOK, Generators, Epochs
  <1>c. ASSUME UNCHANGED <<issued, gen, used>> PROVE Gen'
    BY <1>0, <1>c DEF GeneratorOwnsEpoch, UsedIsIssued, FrameIdentityUnique
  <1>1. ASSUME NEW p \in Procs, Reserve(p) PROVE Gen'
    <2>1. CASE ReturnNext(p)
      <3> DEFINE n == next[p]
      <3>1. n \in Epochs /\ issued[n] = 0
        BY <1>0, <2>1 DEF ReturnNext, HolderCurrent
      <3>2. issued' = [issued EXCEPT ![n] = 1] /\ used' = used
        BY <1>0, <2>1, <3>1 DEF ReturnNext, TypeOK
      <3>3. \A s \in Seqs : used[<<n, s>>] = 0
        BY <1>0, <3>1 DEF UsedIsIssued, TypeOK
      <3>4. \A q \in Procs : gen[q].epoch # n
        BY <1>0, <3>1 DEF GeneratorOwnsEpoch, Epochs
      <3>5. \A q \in Procs \ {p} : gen'[q] = gen[q]
        BY <1>a, <2>1 DEF ReturnNext, Adopt
      <3>6. \/ gen'[p] = gen[p]
            \/ gen'[p].epoch = n /\ gen'[p].sequence = 0
        BY <1>a, <2>1 DEF ReturnNext, Adopt
      <3>7. GeneratorOwnsEpoch'
        <4>1. \A e \in Epochs : issued'[e] = IF e = n THEN 1 ELSE issued[e]
          BY <1>0, <3>2 DEF TypeOK
        <4> QED
          BY <1>0, <1>a, <3>1, <3>2, <3>3, <3>4, <3>5, <3>6, <4>1 DEF GeneratorOwnsEpoch, Seqs
      <3>8. UsedIsIssued'
        BY <1>0, <3>1, <3>2 DEF UsedIsIssued, TypeOK
      <3> QED
        BY <1>0, <3>2, <3>7, <3>8 DEF FrameIdentityUnique
    <2>2. CASE ~ReturnNext(p)
      BY <1>1, <1>c, <2>2 DEF Reserve, Persist, AcquireLock, ReadCurrent, CreateTmp, WriteTmp,
         SyncTmp, RenameTmp, SyncDirectory, genVars
    <2> QED
      BY <2>1, <2>2
  <1>2. ASSUME NEW p \in Procs, NextIdentity(p) PROVE Gen'
    <2> DEFINE g  == gen[p]
               id == <<g.epoch, g.sequence>>
    <2>1. g \in Generators /\ g.epoch \in Epochs /\ g.sequence \in Seqs /\ ~g.rollover
      BY <1>a, <1>2 DEF NextIdentity, Generators
    <2>2. id \in Epochs \X Seqs
      BY <2>1
    <2>3. used[id] = 0 /\ issued[g.epoch] > 0
      BY <1>0, <2>1 DEF GeneratorOwnsEpoch, Seqs, Epochs
    <2>4. used' = [used EXCEPT ![id] = 1] /\ issued' = issued
      BY <1>2, <2>3 DEF NextIdentity, storeVars
    <2>5. \A x \in Epochs \X Seqs : used'[x] = IF x = id THEN 1 ELSE used[x]
      BY <1>0, <2>2, <2>4 DEF TypeOK
    <2>6. FrameIdentityUnique'
      BY <1>0, <2>5 DEF FrameIdentityUnique
    <2>7. UsedIsIssued'
      BY <1>0, <2>3, <2>4, <2>5 DEF UsedIsIssued
    <2>8. /\ \A q \in Procs \ {p} : gen'[q] = gen[q]
          /\ gen'[p].epoch = g.epoch
          /\ gen'[p].rollover \/ (~gen'[p].rollover /\ gen'[p].sequence = g.sequence + 1)
      BY <1>a, <1>2, <2>1 DEF NextIdentity, Generators
    <2>9. GeneratorOwnsEpoch'
      <3> SUFFICES ASSUME NEW q \in Procs, gen'[q].epoch # 0
          PROVE /\ issued'[gen'[q].epoch] > 0
                /\ \A r \in Procs \ {q} : gen'[r].epoch # gen'[q].epoch
                /\ ~gen'[q].rollover =>
                     \A s \in Seqs : s >= gen'[q].sequence => used'[<<gen'[q].epoch, s>>] = 0
        BY DEF GeneratorOwnsEpoch
      <3>1. \A r \in Procs : gen'[r].epoch = gen[r].epoch
        BY <2>8
      <3>2. /\ issued'[gen'[q].epoch] > 0
            /\ \A r \in Procs \ {q} : gen'[r].epoch # gen'[q].epoch
        BY <1>0, <2>4, <3>1 DEF GeneratorOwnsEpoch
      <3>3. ASSUME ~gen'[q].rollover, NEW s \in Seqs, s >= gen'[q].sequence
            PROVE used'[<<gen'[q].epoch, s>>] = 0
        <4>1. CASE q = p
          <5>1. s >= g.sequence + 1
            BY <2>8, <3>3, <4>1
          <5>2. used[<<g.epoch, s>>] = 0 /\ <<g.epoch, s>> # id
            BY <1>0, <2>1, <5>1 DEF GeneratorOwnsEpoch, Seqs, Epochs
          <5> QED
            BY <2>1, <2>5, <3>1, <4>1, <5>2
        <4>2. CASE q # p
          <5>1. used[<<gen[q].epoch, s>>] = 0 /\ gen[q].epoch # g.epoch
            BY <1>0, <2>8, <3>1, <3>3, <4>2 DEF GeneratorOwnsEpoch
          <5> QED
            BY <1>a, <2>5, <3>1, <5>1
        <4> QED
          BY <4>1, <4>2
      <3> QED
        BY <3>2, <3>3
    <2> QED
      BY <2>6, <2>7, <2>9
  <1>3. ASSUME NEW p \in Procs, Kill(p) PROVE Gen'
    <2>1. \A q \in Procs : gen'[q] = IF q = p THEN NoGen ELSE gen[q]
      BY <1>a, <1>3 DEF Kill
    <2>2. NoGen.epoch = 0
      BY DEF NoGen
    <2>3. GeneratorOwnsEpoch'
      BY <1>0, <1>3, <2>1, <2>2 DEF Kill, GeneratorOwnsEpoch
    <2> QED
      BY <1>0, <1>3, <2>3 DEF Kill, UsedIsIssued, FrameIdentityUnique
  <1>4. CASE PowerLoss
    <2>1. \A q \in Procs : gen'[q].epoch = 0
      BY <1>4 DEF PowerLoss, NoGen
    <2> QED
      BY <1>0, <1>4, <2>1 DEF PowerLoss, GeneratorOwnsEpoch, UsedIsIssued, FrameIdentityUnique
  <1>5. CASE UNCHANGED vars
    BY <1>5, <1>c DEF vars, storeVars, genVars
  <1> QED
    BY <1>1, <1>2, <1>3, <1>4, <1>5 DEF Next

(* The inductive invariant holds in every reachable state.                  *)
THEOREM IndInvHolds == Spec => []IndInv
  <1>1. IndInv /\ [Next]_vars => IndInv'
    BY TypeStep, LockStep, StoreStep, GeneratorStep DEF IndInv
  <1> QED
    BY <1>1, IndInvInit, PTL DEF Spec

(* reserve_next() never returns an epoch twice: not to two processes, not   *)
(* before and after a kill, not before and after a power loss.              *)
THEOREM EpochsIssuedOnce == Spec => []EpochIssuedOnce
  BY IndInvHolds, PTL DEF IndInv

(* A power loss never leaves a state file that parse_epoch_file refuses.    *)
THEOREM StateFileStaysReadable == Spec => []StateFileReadable
  BY IndInvHolds, PTL DEF IndInv

(* No two frames of any two Host processes share an (epoch, sequence).      *)
THEOREM FrameIdentitiesUnique == Spec => []FrameIdentityUnique
  BY IndInvHolds, PTL DEF IndInv

(* The store and the generators implement the abstract allocator: epochs    *)
(* come out in strictly increasing order and no identity is reused.         *)
THEOREM ImplementsAllocator == Spec => AllocatorSpec
  <1> USE MaxEpochAssumption, MaxSeqAssumption
  <1>1. Init => Allocator!Init
    BY DEF Init, Allocator!Init, Allocator!Ids, Epochs, Seqs
  <1>2. IndInv /\ [Next]_vars => [Allocator!Next]_<<issued, used>>
    <2> SUFFICES ASSUME IndInv, [Next]_vars PROVE [Allocator!Next]_<<issued, used>>
      OBVIOUS
    <2>0. TypeOK /\ HolderCurrent /\ GeneratorOwnsEpoch /\ IssuedIsDurable
             /\ EpochIssuedOnce /\ file \in disk
      BY DEF IndInv
    <2>1. ASSUME NEW p \in Procs, ReturnNext(p) PROVE Allocator!IssueEpoch(next[p])
      <3>1. next[p] \in Epochs /\ issued[next[p]] = 0 /\ file = next[p]
        BY <2>0, <2>1 DEF ReturnNext, HolderCurrent
      <3>2. \A f \in next[p] .. MaxEpoch : issued[f] = 0
        BY <2>0, <3>1 DEF IssuedIsDurable, TypeOK, Epochs
      <3> QED
        BY <2>1, <3>1, <3>2 DEF ReturnNext, Allocator!IssueEpoch
    <2>2. ASSUME NEW p \in Procs, NextIdentity(p)
          PROVE  \E id \in Epochs \X Seqs : Allocator!UseIdentity(id)
      <3> DEFINE id == <<gen[p].epoch, gen[p].sequence>>
      <3>1. gen[p].epoch \in Epochs /\ gen[p].sequence \in Seqs /\ ~gen[p].rollover
        BY <2>0, <2>2 DEF NextIdentity, TypeOK, Generators, Epochs
      <3>a. issued[gen[p].epoch] > 0 /\ used[id] = 0
        BY <2>0, <3>1 DEF GeneratorOwnsEpoch, Epochs, Seqs
      <3>2. issued[gen[p].epoch] = 1 /\ used[id] = 0
        BY <2>0, <3>1, <3>a DEF EpochIssuedOnce, TypeOK
      <3>3. used' = [used EXCEPT ![id] = 1] /\ issued' = issued
        BY <2>2, <3>2 DEF NextIdentity, storeVars
      <3>4. Allocator!UseIdentity(id)
        BY <3>2, <3>3 DEF Allocator!UseIdentity
      <3> QED
        BY <3>1, <3>4
    <2>3. ASSUME NEW p \in Procs, Reserve(p), ~ReturnNext(p) PROVE UNCHANGED <<issued, used>>
      BY <2>3 DEF Reserve, Persist, AcquireLock, ReadCurrent, CreateTmp, WriteTmp,
         SyncTmp, RenameTmp, SyncDirectory, genVars
    <2>4. ASSUME NEW p \in Procs, Kill(p) PROVE UNCHANGED <<issued, used>>
      BY <2>4 DEF Kill
    <2>5. PowerLoss => UNCHANGED <<issued, used>>
      BY DEF PowerLoss
    <2>6. UNCHANGED vars => UNCHANGED <<issued, used>>
      BY DEF vars, storeVars, genVars
    <2>7. ASSUME NEW p \in Procs, ReturnNext(p) PROVE Allocator!Next
      <3>1. next[p] \in 1 .. MaxEpoch
        BY <2>0, <2>7 DEF ReturnNext, HolderCurrent, Epochs
      <3> QED
        BY <2>1, <2>7, <3>1 DEF Allocator!Next
    <2>8. ASSUME NEW p \in Procs, NextIdentity(p) PROVE Allocator!Next
      BY <2>2, <2>8 DEF Allocator!Next, Allocator!Ids, Epochs, Seqs
    <2> QED
      BY <2>3, <2>4, <2>5, <2>6, <2>7, <2>8 DEF Next
  <1> QED
    BY <1>1, <1>2, IndInvHolds, PTL DEF Spec, AllocatorSpec, Allocator!Spec

-----------------------------------------------------------------------------
(* The video path of the Host: what its threads know of one another.        *)

Bridges == [direct : BOOLEAN, shared : BOOLEAN, probed : BOOLEAN, scaler : BOOLEAN,
            staging : BOOLEAN, texture : Int, made : Int]
Encoders == [backend : {"none", "nvenc", "windows_hardware", "software_cpu"},
             registered : SUBSET Int, index : Nat, inside : Seq(0..MaxContent)]
Outputs == [ok : BOOLEAN, forced : BOOLEAN, keyframe : BOOLEAN, picture : 0..MaxContent]
Agents == [path : {"down", "sync", "shared", "readback"}, source : 0..MaxSource,
           submitted : 0..MaxContent, force : BOOLEAN, bridge : Bridges]
Captures == [at : {"idle", "copy", "pumped", "stopping"}, frame : Frames, slot : Slots \union {NoSlot}]
Coders == [sequence : 0..MaxSequence, primed : BOOLEAN, encoder : Encoders]
SlotValues == [state : {"available", "writing", "mailbox", "worker", "retired"}, key : {0, 1},
               owner : {"none", "producer", "worker"}, frame : Frames]
WorkerPlaces == {"off", "wait", "blocked", "reclaim", "reclaiming", "latest", "key", "take", "idle",
                 "upload", "encode", "publish", "release", "drain", "done"}
Workers == [at : WorkerPlaces, slot : Slots \union {NoSlot}, frame : Frames, has : BOOLEAN,
            repeat : BOOLEAN, requested : Nat, consumed : Nat, output : Outputs]
Statuses == {"ok", "failed", "closed"}
Wires == [source : 0..MaxSource, content : 0..MaxContent, picture : 0..MaxContent,
          repeated : BOOLEAN, forced : BOOLEAN, keyframe : BOOLEAN, sequence : Int,
          complete : BOOLEAN, owed : BOOLEAN]

(* What the capture thread works on.                                        *)
CaptureTyped ==
    /\ machine \in Machines /\ agent \in Agents /\ content \in 0..MaxContent
    /\ capture \in Captures /\ requests \in Nat /\ permit \in BOOLEAN
    /\ staging \in Seq(Frames) /\ Len(staging) <= Cardinality(Slots)
    /\ verdict \in Statuses /\ newest \in Nat

(* What the threads share and the encoder thread works on.                  *)
WorkerTyped ==
    /\ coder \in Coders /\ worker \in Workers
    /\ wake \in BOOLEAN /\ stopping \in BOOLEAN /\ fatal \in BOOLEAN
    /\ completions \in Seq(Statuses) /\ Len(completions) <= CompletionCapacity
    /\ wire \in Wires /\ known \subseteq 0..MaxContent /\ answered \in Nat

SlotsTyped == slots \in [Slots -> SlotValues]

(* Without an encoder thread everything it would share is as new.           *)
AtRest ==
    ~Hybrid =>
        /\ worker = NoWorker /\ capture = Idle /\ slots = FreshSlots /\ staging = <<>>
        /\ ~stopping /\ ~fatal

WithSlot == IF agent.path = "shared" THEN {"reclaiming", "key", "encode", "publish", "release"}
            ELSE {"upload"}
SharedPlaces == WorkerPlaces \ {"off", "take", "idle", "upload"}
ReadbackPlaces == {"wait", "blocked", "take", "idle", "upload", "encode", "publish", "done"}

(* Where the two threads may be, by the path, the stop and the failure.     *)
Places ==
    /\ Hybrid => /\ coder.encoder.backend = "nvenc"
                 /\ worker.at \in IF agent.path = "shared" THEN SharedPlaces ELSE ReadbackPlaces
    /\ worker.slot \in Slots <=> worker.at \in WithSlot
    /\ capture.at = "copy" => agent.path = "shared" /\ capture.slot \in Slots
    /\ capture.at = "pumped" => agent.path = "readback"
    /\ capture.at \in {"idle", "stopping"} => capture.frame = NoFrame /\ capture.slot = NoSlot
    /\ agent.path = "shared" => staging = <<>>
    /\ fatal => stopping
    /\ stopping /\ ~fatal => capture.at = "stopping"
    /\ worker.at \in {"drain", "done"} => stopping

(* Who has a slot, with which key, and whose frame is in it.                *)
OneMailbox == \A s, t \in Slots : slots[s].state = "mailbox" /\ slots[t].state = "mailbox" => s = t

Owned ==
    /\ capture.slot \in Slots => slots[capture.slot].state = "writing"
    /\ worker.slot \in Slots => slots[worker.slot].state = "worker"
    /\ ~fatal \/ agent.path = "readback" =>
         \A s \in Slots : /\ slots[s].state = "worker" => s = worker.slot
                          /\ slots[s].state = "writing" => s = capture.slot
    /\ agent.path = "readback" => \A s \in Slots : slots[s].state # "retired"

Keyed ==
    agent.path = "shared" =>
        /\ \A s \in Slots : /\ slots[s].state = "available" => KeyFree(slots, s, 0)
                            /\ slots[s].state \in {"mailbox", "retired"} => KeyFree(slots, s, 1)
        /\ capture.slot \in Slots => KeyFree(slots, capture.slot, 0)
        /\ worker.slot \in Slots => slots[worker.slot].key = 1
        /\ worker.at \in {"reclaiming", "key"} => slots[worker.slot].owner = "none"

Blank ==
    /\ \A s \in Slots : slots[s].state \in {"available", "retired"} => slots[s].frame = NoFrame
    /\ capture.at = "copy" => slots[capture.slot].frame = NoFrame
    /\ worker.at = "reclaiming" => slots[worker.slot].frame = NoFrame

(* The frames between the capture and the wire are in the order in which    *)
(* they were captured, the later the farther away.                          *)
Held == worker.at \in {"key", "upload"}
Behind(x) ==
    /\ worker.frame.source <= x
    /\ Held => slots[worker.slot].frame.source <= x
BehindMail(x) ==
    /\ Behind(x)
    /\ \A m \in InState(slots, "mailbox") : slots[m].frame.source <= x
BehindBatch(x) ==
    /\ BehindMail(x)
    /\ capture.at = "pumped" /\ capture.slot \in Slots => slots[capture.slot].frame.source <= x

InOrder ==
    Hybrid =>
        /\ wire.source <= worker.frame.source
        /\ Held => worker.frame.source <= slots[worker.slot].frame.source
        /\ \A m \in InState(slots, "mailbox") : Behind(slots[m].frame.source)
        /\ capture.at = "pumped" /\ capture.slot \in Slots => BehindMail(slots[capture.slot].frame.source)
        /\ \A i \in 1..Len(staging) : /\ BehindBatch(staging[i].source) /\ staging[i].source <= newest
                                      /\ \A j \in 1..i : staging[j].source <= staging[i].source
        /\ BehindBatch(newest) /\ newest <= agent.source
        /\ capture.at = "copy" \/ capture.frame # NoFrame => capture.frame.source = agent.source

(* The newest accepted frame is still somewhere.                            *)
NewestSomewhere ==
    Hybrid /\ newest > 0 /\ ~stopping =>
        \/ newest = worker.frame.source
        \/ Held /\ slots[worker.slot].frame.source = newest
        \/ \E m \in InState(slots, "mailbox") : slots[m].frame.source = newest
        \/ capture.at = "pumped" /\ capture.slot \in Slots /\ slots[capture.slot].frame.source = newest
        \/ \E i \in 1..Len(staging) : staging[i].source = newest

(* Requests for an IDR and the keyframes that answer them.                  *)
Requested ==
    /\ Hybrid => worker.consumed = answered /\ worker.consumed <= requests
    /\ worker.at = "publish" => /\ worker.consumed <= worker.requested /\ worker.requested <= requests
                                /\ worker.requested > worker.consumed =>
                                     worker.output.forced /\ worker.output.keyframe
    /\ agent.path = "sync" /\ verdict = "ok" /\ requests > answered => agent.force

(* No encoder that is used again has a picture inside.                      *)
Pictures ==
    /\ agent.path # "sync" \/ verdict = "ok" => coder.encoder.inside = <<>>
    /\ worker.at = "publish" => worker.output.picture = worker.frame.content

(* What may be marked as a repeat was accepted before.                      *)
Known(frame) == frame.repeated => frame.content \in known
Repeats ==
    /\ agent.path \in {"sync", "shared"} /\ agent.submitted > 0 => agent.submitted \in known
    /\ Known(capture.frame) /\ Known(worker.frame)
    /\ \A s \in Slots : Known(slots[s].frame)
    /\ agent.path # "readback" => ~worker.repeat
    /\ agent.path = "readback" =>
         /\ ~capture.frame.repeated
         /\ \A s \in Slots : ~slots[s].frame.repeated
         /\ \A i \in 1..Len(staging) : ~staging[i].repeated
         /\ worker.has /\ worker.at \notin {"encode", "publish", "done"} => worker.frame.content \in known
         /\ worker.repeat /\ worker.at \in {"encode", "publish"} => worker.frame.content \in known

(* The sequence on the wire is the one before the next.                     *)
Counts ==
    /\ agent.path # "down" => wire.sequence = coder.sequence - 1
    /\ worker.at = "publish" => coder.sequence < MaxSequence
    /\ agent.path = "sync" => wire.source <= agent.source

VideoInv ==
    /\ CaptureTyped /\ WorkerTyped /\ SlotsTyped /\ AtRest /\ Places
    /\ OneMailbox /\ Owned /\ Keyed /\ Blank /\ KeysComeBack
    /\ InOrder /\ NewestSomewhere
    /\ Requested /\ Pictures /\ Repeats /\ Counts /\ WireIsFaithful

-----------------------------------------------------------------------------
(* Lemmas about the operators of the video path.                            *)

(* FirstSlot picks a slot of the set it is given.                           *)
LEMMA FirstSlotIn ==
  ASSUME NEW S \in SUBSET Slots, S # {}
  PROVE  FirstSlot(S) \in S
<1> DEFINE R == {ss \in Nat \X Nat : ss[1] < ss[2]}
<1>1. IsWellFoundedOn(R, Nat) /\ S \subseteq Nat
  BY NatLessThanWellFounded, VideoAssumption DEF OpToRel
<1> HIDE DEF R
<1>2. PICK x \in S : \A y \in S : ~(<<y, x>> \in R)
  BY <1>1, WFMin
<1>3. \A y \in S : ~(y < x)
  BY <1>1, <1>2 DEF R
<1>4. \E z \in S : \A y \in S : z <= y
  BY <1>1, <1>3
<1> QED
  BY <1>4, Zenon DEF FirstSlot, Min

(* What a step of the capture thread reports is a status, and a failure of  *)
(* its own is never hidden by what the encoder thread completed.            *)
LEMMA FinishReports ==
  ASSUME completions \in Seq(Statuses), NEW status \in Statuses, Finish(status)
  PROVE  /\ verdict' \in Statuses
         /\ status = "failed" => verdict' = "failed"
         /\ completions' = <<>>
<1> DEFINE all == <<status>> \o completions
<1>1. all \in Seq(Statuses) /\ Len(all) = 1 + Len(completions) /\ Len(completions) \in Nat
  OBVIOUS
<1>2. all[1] = status /\ 1 \in DOMAIN all /\ all[Len(all)] \in Statuses
  BY <1>1
<1> QED
  BY <1>1, <1>2 DEF Finish, Verdict, Statuses

(* A completion fits into its ring.                                         *)
LEMMA PushFits ==
  ASSUME completions \in Seq(Statuses), Len(completions) <= CompletionCapacity,
         NEW status \in Statuses, Push(status)
  PROVE  completions' \in Seq(Statuses) /\ Len(completions') <= CompletionCapacity
<1>1. CompletionCapacity \in Nat \ {0}
  BY VideoAssumption
<1>2. CASE Len(completions) = CompletionCapacity
  <2>1. completions # <<>>
    BY <1>1, <1>2
  <2>2. Tail(completions) \in Seq(Statuses) /\ Len(Tail(completions)) = Len(completions) - 1
    BY <2>1
  <2> QED
    BY <1>1, <1>2, <2>2 DEF Push, RingPush
<1>3. CASE Len(completions) # CompletionCapacity
  BY <1>1, <1>3 DEF Push, RingPush
<1> QED
  BY <1>2, <1>3

(* An encoder with nothing inside returns the picture it is given; NVENC    *)
(* never keeps a picture, and makes a keyframe if it is asked for one.      *)
Encodings == [encoder : Encoders, ok : BOOLEAN, keyframe : BOOLEAN, picture : 0..MaxContent]
Returned(r, e, picture, force) ==
    /\ r \in Encodings /\ r.encoder.backend = e.backend
    /\ r.ok => /\ r.picture = picture /\ r.encoder.inside = <<>>
               /\ force /\ e.backend = "nvenc" => r.keyframe
    /\ e.backend = "nvenc" => r.encoder.inside = <<>>

(* What an encode returns, from an encoder with nothing inside.             *)
LEMMA EncodeReturns ==
  ASSUME NEW e \in Encoders, NEW texture \in Int, NEW picture \in 0..MaxContent,
         NEW force \in BOOLEAN, NEW clean \in BOOLEAN, NEW ok \in BOOLEAN, NEW kept \in BOOLEAN,
         e.inside = <<>>
  PROVE  Returned(EncodeWith(e, texture, picture, force, clean, ok, kept), e, picture, force)
<1>1. KeyframeInterval \in Nat \ {0} /\ MaxContent \in Nat /\ 0 \in 0..MaxContent
  BY EncoderAssumption, VideoAssumption
<1>2. CASE e.backend = "nvenc"
  <2> DEFINE held == [e EXCEPT !.registered = @ \union {texture}]
             nextIndex == (e.index + 1) % KeyframeInterval
             advanced == [held EXCEPT !.index = nextIndex]
  <2>1. held \in Encoders /\ held.backend = e.backend /\ held.inside = <<>> /\ nextIndex \in Nat
    BY <1>1 DEF Encoders
  <2>2. advanced \in Encoders /\ advanced.backend = e.backend /\ advanced.inside = <<>>
    BY <2>1 DEF Encoders
  <2>3. (force \/ e.index % KeyframeInterval = 0) \in BOOLEAN
    OBVIOUS
  <2> HIDE DEF held, advanced
  <2>4. EncodeWith(e, texture, picture, force, clean, ok, kept) =
          IF ~Registers(e, texture) THEN NotEncoded(e)
          ELSE IF ~ok THEN NotEncoded(held)
          ELSE Encoded(advanced, TRUE, force \/ e.index % KeyframeInterval = 0, picture)
    BY <1>2 DEF EncodeWith, NvencEncode, held, advanced
  <2> QED
    BY <1>1, <2>1, <2>2, <2>3, <2>4 DEF Encoded, NotEncoded, Encodings, Returned
<1>3. CASE e.backend # "nvenc"
  <2> DEFINE given == Append(e.inside, picture)
  <2>1. given \in Seq(0..MaxContent) /\ given = <<picture>> /\ Head(given) = picture /\ Tail(given) = <<>>
    BY DEF Encoders
  <2>2. <<>> \in Seq(0..MaxContent)
    OBVIOUS
  <2> HIDE DEF given
  <2>3. EncodeWith(e, texture, picture, force, clean, ok, kept) =
          IF ~(ok \/ kept) THEN NotEncoded(e)
          ELSE IF ~ok THEN NotEncoded([e EXCEPT !.inside = given])
          ELSE Encoded([e EXCEPT !.inside = <<>>], TRUE, clean, picture)
    BY <1>3, <2>1 DEF EncodeWith, MediaFoundationEncode, given
  <2>4. /\ [e EXCEPT !.inside = given] \in Encoders
        /\ [e EXCEPT !.inside = given].backend = e.backend
    BY <2>1 DEF Encoders
  <2>5. LET advanced == [e EXCEPT !.inside = <<>>]
        IN advanced \in Encoders /\ advanced.backend = e.backend /\ advanced.inside = <<>>
    BY <2>2 DEF Encoders
  <2> QED
    BY <1>1, <1>3, <2>1, <2>3, <2>4, <2>5 DEF Encoded, NotEncoded, Encodings, Returned
<1> QED
  BY <1>2, <1>3

(* A bridge stays one, and hands out a texture or none.                     *)
LEMMA BridgeStays ==
  ASSUME NEW b \in Bridges, NEW m \in Machines, NEW works \in BOOLEAN, NEW mapped \in BOOLEAN
  PROVE  Bridge(b, m, works, mapped) \in [bridge : Bridges, texture : Int]
<1>1. m.exact \in BOOLEAN /\ m.shares \in BOOLEAN /\ m.scales \in BOOLEAN
  BY VideoAssumption
<1>2. PrepareShared(b, m) \in Bridges /\ ResetShared(PrepareShared(b, m)) \in Bridges
  BY <1>1 DEF PrepareShared, ResetShared, Bridges
<1>2a. \A c \in Bridges : NewEncoderTexture(c) \in Bridges
  <2> TAKE c \in Bridges
  <2>1. [c EXCEPT !.texture = c.made] \in Bridges /\ c.made + 1 \in Int
    BY DEF Bridges
  <2>2. NewEncoderTexture(c) = [[c EXCEPT !.texture = c.made] EXCEPT !.made = c.made + 1]
    BY DEF NewEncoderTexture, Bridges
  <2> QED
    BY <2>1, <2>2 DEF Bridges
<1>3. PrepareScaler(b, m) \in Bridges
  <2>1. [NewEncoderTexture(b) EXCEPT !.scaler = m.scales] \in Bridges
    BY <1>1, <1>2a DEF Bridges
  <2> QED
    BY <2>1 DEF PrepareScaler
<1>4. \A c \in Bridges : StageOnCpu(c) \in Bridges
  <2> TAKE c \in Bridges
  <2>1. [NewEncoderTexture(c) EXCEPT !.staging = TRUE] \in Bridges
    BY <1>2a DEF Bridges
  <2> QED
    BY <2>1 DEF StageOnCpu
<1>5. \A c \in Bridges : CpuUpload(c, mapped) \in [bridge : Bridges, texture : Int]
  BY <1>4 DEF CpuUpload, Bridged, Bridges
<1> QED
  BY <1>1, <1>2, <1>3, <1>5 DEF Bridge, Bridged, Bridges, SourceTexture, SharedTexture, ScaledTexture

(* The numbers of the frames, wherever they are.                            *)
LEMMA SourcesAreNumbers ==
  ASSUME VideoInv
  PROVE  /\ NoSlot \notin Slots /\ NoFrame \in Frames
         /\ \A t \in Slots : slots[t].frame.source \in Nat
         /\ newest \in Nat /\ worker.frame.source \in Nat /\ wire.source \in Nat
         /\ capture.frame.source \in Nat /\ agent.source \in Nat
<1>1. MaxSource \in Nat /\ MaxContent \in Nat /\ NoSlot \notin Slots
  BY VideoAssumption DEF NoSlot
<1>2. NoFrame \in Frames /\ \A f \in Frames : f.source \in Nat
  BY <1>1 DEF Frames, NoFrame
<1>3. \A t \in Slots : slots[t].frame \in Frames
  BY DEF VideoInv, SlotsTyped, SlotValues
<1>4. newest \in Nat /\ capture.frame \in Frames /\ agent.source \in Nat
  BY <1>1 DEF VideoInv, CaptureTyped, Captures, Agents
<1>5. worker.frame \in Frames /\ wire.source \in Nat
  BY <1>1 DEF VideoInv, WorkerTyped, Workers, Wires
<1> QED
  BY <1>1, <1>2, <1>3, <1>4, <1>5

(* An emptied slot has the new state, no frame, and its key as it was.      *)
LEMMA EmptiedIsSlot ==
  ASSUME NEW v \in SlotValues, NEW state \in {"available", "retired"}
  PROVE  LET e == Emptied(v, state)
         IN /\ e \in SlotValues /\ e.state = state /\ e.frame = NoFrame
            /\ e.key = v.key /\ e.owner = v.owner
<1>1. NoFrame \in Frames
  BY VideoAssumption DEF NoFrame, Frames
<1> QED
  BY <1>1 DEF Emptied, SlotValues

-----------------------------------------------------------------------------
(* Steps of the encoder thread.                                             *)

(* The flags: both rise with a failure, neither falls while a thread runs.  *)
Flagged ==
    /\ wake' \in BOOLEAN
    /\ UNCHANGED <<stopping, fatal>> \/ (stopping' = TRUE /\ fatal' = TRUE)
Completes == completions' \in Seq(Statuses) /\ Len(completions') <= CompletionCapacity

(* The encoder thread goes from one place without a slot to another.        *)
Wanders ==
    /\ Hybrid /\ UNCHANGED <<capturing, coder, slots, history>> /\ Flagged /\ Completes
    /\ worker.at \in {"wait", "blocked", "reclaim", "latest", "take", "idle"}
    /\ worker' \in Workers /\ worker'.slot = worker.slot /\ worker'.frame = worker.frame
    /\ worker'.has = worker.has /\ worker'.consumed = worker.consumed
    /\ worker'.at \in IF agent.path = "shared" THEN SharedPlaces \ {"done"} ELSE ReadbackPlaces
    /\ worker'.at \notin WithSlot \union {"publish"}
    /\ worker'.at \in {"drain", "done"} => stopping'
    /\ worker'.at = "encode" => worker.has
    /\ worker'.repeat => agent.path = "readback"

(* Such a step keeps the invariant.                                         *)
LEMMA WandersKeeps ==
  ASSUME VideoInv, Wanders
  PROVE  VideoInv'
<1>1. CaptureTyped'
  BY DEF VideoInv, CaptureTyped, Wanders, Flagged, Completes, capturing, history
<1>2. WorkerTyped'
  BY DEF VideoInv, WorkerTyped, Wanders, Flagged, Completes, capturing, history
<1>3. SlotsTyped'
  BY DEF VideoInv, SlotsTyped, Wanders, Flagged, Completes, capturing, history
<1>4. AtRest'
  BY DEF VideoInv, AtRest, Hybrid, Wanders, Flagged, Completes, capturing, history
<1>5. Places'
  BY
     DEF VideoInv, Places, Hybrid, WithSlot, SharedPlaces, ReadbackPlaces, Wanders, Flagged, Completes,
         capturing, history
<1>6. OneMailbox'
  BY DEF VideoInv, OneMailbox, Wanders, Flagged, Completes, capturing, history
<1>7. Owned'
  BY DEF VideoInv, Owned, Places, WithSlot, Wanders, Flagged, Completes, capturing, history
<1>8. Keyed'
  BY DEF VideoInv, Keyed, Places, WithSlot, KeyFree, Wanders, Flagged, Completes, capturing, history
<1>9. Blank'
  BY
     DEF VideoInv, Blank, Places, WithSlot, SharedPlaces, ReadbackPlaces, Wanders, Flagged, Completes,
         capturing, history
<1>10. KeysComeBack'
  BY DEF VideoInv, KeysComeBack, Places, KeyFree, Wanders, Flagged, Completes, capturing, history
<1>11. InOrder'
  BY
     DEF VideoInv, InOrder, BehindBatch, BehindMail, Behind, Held, Hybrid, InState, WithSlot, SharedPlaces,
         ReadbackPlaces, Wanders, Flagged, Completes, capturing, history
<1>12. NewestSomewhere'
  BY DEF VideoInv, NewestSomewhere, Held, Hybrid, InState, Wanders, Flagged, Completes, capturing, history
<1>13. Requested'
  BY DEF VideoInv, Requested, Hybrid, Wanders, Flagged, Completes, capturing, history
<1>14. Pictures'
  BY DEF VideoInv, Pictures, Wanders, Flagged, Completes, capturing, history
<1>15. Repeats'
  BY DEF VideoInv, Repeats, Known, Wanders, Flagged, Completes, capturing, history
<1>16. Counts'
  BY DEF VideoInv, Counts, Wanders, Flagged, Completes, capturing, history
<1>17. WireIsFaithful'
  BY
     DEF VideoInv, WireIsFaithful, IdrIsNext, PictureIsCurrent, RepeatShowsKnown, Wanders, Flagged, Completes,
         capturing, history
<1> QED
  BY <1>1, <1>2, <1>3, <1>4, <1>5, <1>6, <1>7, <1>8, <1>9, <1>10, <1>11, <1>12, <1>13, <1>14, <1>15, <1>16,
     <1>17
     DEF VideoInv

(* The waits, the empty mailbox and the idle repeat only move the thread.   *)
LEMMA WorkerWaitKeeps ==
  ASSUME VideoInv, NEW late \in BOOLEAN, WorkerWait(late)
  PROVE  VideoInv'
<1>1. worker \in Workers /\ Hybrid
  BY DEF VideoInv, WorkerTyped, AtRest, NoWorker, WorkerWait
<1>2. /\ worker.at = "wait" /\ worker' \in Workers /\ worker'.slot = worker.slot
      /\ worker'.frame = worker.frame /\ worker'.has = worker.has /\ worker'.consumed = worker.consumed
      /\ worker'.at = IF stopping THEN Leave
                      ELSE IF ~late THEN "blocked" ELSE IF agent.path = "shared" THEN "reclaim" ELSE "take"
      /\ worker'.repeat = IF late THEN TRUE ELSE worker.repeat
      /\ late => agent.path = "readback"
  <2>1. PICK at \in WorkerPlaces, repeat \in BOOLEAN :
          /\ worker' = [worker EXCEPT !.at = at, !.repeat = repeat]
          /\ at = IF stopping THEN Leave
                  ELSE IF ~late THEN "blocked" ELSE IF agent.path = "shared" THEN "reclaim" ELSE "take"
          /\ repeat = IF late THEN TRUE ELSE worker.repeat
    <3>1. CASE stopping
      <4>1. ~late /\ worker' = [worker EXCEPT !.at = Leave, !.repeat = worker.repeat] /\ Leave \in WorkerPlaces
        BY <1>1, <3>1 DEF WorkerWait, Workers, Leave, WorkerPlaces
      <4> QED
        BY <1>1, <3>1, <4>1 DEF Workers
    <3>2. CASE ~stopping /\ late
      BY <3>2 DEF WorkerWait, WorkerReady, WorkerPlaces
    <3>3. CASE ~stopping /\ ~late
      <4>1. worker' = [worker EXCEPT !.at = "blocked", !.repeat = worker.repeat]
        BY <1>1, <3>3 DEF WorkerWait, Workers
      <4> QED
        BY <1>1, <3>3, <4>1 DEF Workers, WorkerPlaces
    <3> QED
      BY <3>1, <3>2, <3>3
  <2> QED
    BY <1>1, <2>1 DEF WorkerWait, Workers
<1>3. Wanders
  BY <1>1, <1>2 DEF VideoInv, WorkerTyped, Places, Repeats, Wanders, Flagged, Completes, WorkerWait,
     Leave, Hybrid, WithSlot, SharedPlaces, ReadbackPlaces, WorkerPlaces, capturing, history
<1> QED
  BY <1>3, WandersKeeps

(* The wake event, or the end of its timeout, ends the wait.                *)
LEMMA WorkerWokenKeeps ==
  ASSUME VideoInv, NEW late \in BOOLEAN, WorkerWoken(late)
  PROVE  VideoInv'
<1>1. worker \in Workers /\ Hybrid
  BY DEF VideoInv, WorkerTyped, AtRest, NoWorker, WorkerWoken
<1>2. Wanders
  BY <1>1 DEF VideoInv, WorkerTyped, Places, Repeats, Wanders, Flagged, Completes, WorkerWoken, WorkerReady,
     Leave, Hybrid, WithSlot, SharedPlaces, ReadbackPlaces, WorkerPlaces, Workers, capturing, history
<1> QED
  BY <1>2, WandersKeeps

(* The wait itself fails: the thread leaves with a failure.                 *)
LEMMA WorkerWaitFailsKeeps ==
  ASSUME VideoInv, WorkerWaitFails
  PROVE  VideoInv'
<1>1. worker \in Workers /\ Hybrid
  BY DEF VideoInv, WorkerTyped, AtRest, NoWorker, WorkerWaitFails
<1>2. Wanders
  BY <1>1 DEF VideoInv, WorkerTyped, Places, Repeats, Wanders, Flagged, Completes, WorkerWaitFails, Fatal,
     Leave, Hybrid, WithSlot, SharedPlaces, ReadbackPlaces, WorkerPlaces, Workers, capturing, history
<1> QED
  BY <1>2, WandersKeeps

(* run_cpu_worker with an empty mailbox.                                    *)
LEMMA WorkerIdleKeeps ==
  ASSUME VideoInv, WorkerIdle
  PROVE  VideoInv'
<1>1. worker \in Workers /\ Hybrid
  BY DEF VideoInv, WorkerTyped, AtRest, NoWorker, WorkerIdle
<1>2. Wanders
  BY <1>1 DEF VideoInv, WorkerTyped, Places, Repeats, Wanders, Flagged, Completes, WorkerIdle,
     Hybrid, WithSlot, SharedPlaces, ReadbackPlaces, WorkerPlaces, Workers, capturing, history
<1> QED
  BY <1>2, WandersKeeps

(* A slot of the mailbox, or a retired one, is taken.                       *)
TakenFrom(s) ==
    /\ slots' \in [Slots -> SlotValues]
    /\ \A t \in Slots \ {s} : slots'[t] = slots[t]
    /\ slots'[s].state = "worker" /\ slots'[s].key = slots[s].key
    /\ slots'[s].owner = slots[s].owner /\ slots'[s].frame = slots[s].frame
Takes(s) ==
    /\ Hybrid /\ UNCHANGED <<capturing, coder, history, stopping, fatal, completions>> /\ wake' \in BOOLEAN
    /\ worker.at \in {"reclaim", "latest", "take"}
    /\ worker' \in Workers /\ worker'.slot = s /\ worker'.frame = worker.frame
    /\ worker'.has = worker.has /\ worker'.consumed = worker.consumed /\ worker'.repeat = worker.repeat
    /\ worker'.at = CASE worker.at = "reclaim" -> "reclaiming"
                      [] worker.at = "latest"  -> "key"
                      [] worker.at = "take"    -> "upload"
    /\ s \in Slots /\ slots[s].state = IF worker.at = "reclaim" THEN "retired" ELSE "mailbox"
    /\ TakenFrom(s)

(* A slot that goes to the encoder thread keeps the invariant.              *)
LEMMA TakesKeeps ==
  ASSUME VideoInv, NEW s, Takes(s)
  PROVE  VideoInv'
<1>0. /\ s \in Slots /\ NoSlot \notin Slots
      /\ \A t \in Slots : slots[t].state \in {"available", "writing", "mailbox", "worker", "retired"}
  BY VideoAssumption DEF VideoInv, SlotsTyped, SlotValues, NoSlot, Takes
<1>1. CaptureTyped'
  BY <1>0 DEF VideoInv, CaptureTyped, Takes, TakenFrom, capturing, history
<1>2. WorkerTyped'
  BY <1>0 DEF VideoInv, WorkerTyped, Takes, TakenFrom, capturing, history
<1>3. SlotsTyped'
  BY <1>0 DEF VideoInv, SlotsTyped, Takes, TakenFrom, capturing, history
<1>4. AtRest'
  BY <1>0 DEF VideoInv, AtRest, Hybrid, Takes, TakenFrom, capturing, history
<1>5. Places'
  BY <1>0
     DEF VideoInv, Places, Hybrid, WithSlot, SharedPlaces, ReadbackPlaces, WorkerPlaces, Takes, TakenFrom,
         capturing, history
<1>6. OneMailbox'
  BY <1>0 DEF VideoInv, OneMailbox, Takes, TakenFrom, capturing, history
<1>7. Owned'
  BY <1>0 DEF VideoInv, Owned, Places, WithSlot, Takes, TakenFrom, capturing, history
<1>8. Keyed'
  BY <1>0 DEF VideoInv, Keyed, Places, WithSlot, KeyFree, Takes, TakenFrom, capturing, history
<1>9. Blank'
  BY <1>0 DEF VideoInv, Blank, Places, WithSlot, Takes, TakenFrom, capturing, history
<1>10. KeysComeBack'
  BY <1>0 DEF VideoInv, KeysComeBack, Places, KeyFree, Takes, TakenFrom, capturing, history
<1>11. InOrder'
  BY <1>0
     DEF VideoInv, InOrder, BehindBatch, BehindMail, Behind, Held, Hybrid, InState, OneMailbox, Owned, Takes,
         TakenFrom, capturing, history
<1>12. NewestSomewhere'
  BY <1>0 DEF VideoInv, NewestSomewhere, Held, Hybrid, InState, Takes, TakenFrom, capturing, history
<1>13. Requested'
  BY <1>0 DEF VideoInv, Requested, Hybrid, Takes, TakenFrom, capturing, history
<1>14. Pictures'
  BY <1>0 DEF VideoInv, Pictures, Takes, TakenFrom, capturing, history
<1>15. Repeats'
  BY <1>0 DEF VideoInv, Repeats, Known, Takes, TakenFrom, capturing, history
<1>16. Counts'
  BY <1>0 DEF VideoInv, Counts, Takes, TakenFrom, capturing, history
<1>17. WireIsFaithful'
  BY <1>0
     DEF VideoInv, WireIsFaithful, IdrIsNext, PictureIsCurrent, RepeatShowsKnown, Takes, TakenFrom, capturing,
         history
<1> QED
  BY <1>1, <1>2, <1>3, <1>4, <1>5, <1>6, <1>7, <1>8, <1>9, <1>10, <1>11, <1>12, <1>13, <1>14, <1>15, <1>16,
     <1>17
     DEF VideoInv

(* acquire_latest_shared_frame and take_latest_cpu_frame.                   *)
LEMMA WorkerTakeKeeps ==
  ASSUME VideoInv, WorkerTake
  PROVE  VideoInv'
<1>1. worker \in Workers /\ Hybrid
  BY DEF VideoInv, WorkerTyped, AtRest, NoWorker, WorkerTake
<1>2. CASE InState(slots, "mailbox") = {}
  <2>1. Wanders
    BY <1>1, <1>2 DEF VideoInv, WorkerTyped, Places, Repeats, Wanders, Flagged, Completes, WorkerTake,
       Hybrid, WithSlot, SharedPlaces, ReadbackPlaces, WorkerPlaces, Workers, capturing, history
  <2> QED
    BY <2>1, WandersKeeps
<1>3. CASE InState(slots, "mailbox") # {}
  <2> DEFINE s == FirstSlot(InState(slots, "mailbox"))
  <2>1. s \in Slots /\ slots[s].state = "mailbox"
    BY <1>3, FirstSlotIn DEF InState
  <2> HIDE DEF s
  <2>2. slots' = [slots EXCEPT ![s].state = "worker"] /\ slots \in [Slots -> SlotValues]
    BY <1>3 DEF VideoInv, SlotsTyped, WorkerTake, TakeByWorker, s
  <2>3. worker' = [worker EXCEPT !.at = IF @ = "take" THEN "upload" ELSE "key", !.slot = s]
    BY <1>3 DEF WorkerTake, s
  <2>4. /\ worker' \in Workers /\ worker'.slot = s /\ worker'.frame = worker.frame
        /\ worker'.has = worker.has /\ worker'.consumed = worker.consumed /\ worker'.repeat = worker.repeat
        /\ worker'.at = IF worker.at = "take" THEN "upload" ELSE "key"
    BY <1>1, <2>1, <2>3 DEF Workers, WorkerPlaces
  <2>5. TakenFrom(s)
    BY <2>1, <2>2 DEF TakenFrom, SlotValues
  <2>6. Takes(s)
    BY <1>1, <2>1, <2>4, <2>5 DEF VideoInv, WorkerTyped, Takes, WorkerTake, capturing, history
  <2> QED
    BY <2>6, TakesKeeps
<1> QED
  BY <1>2, <1>3

(* reclaim_retired_shared_slots takes the next retired slot.                *)
LEMMA WorkerReclaimKeeps ==
  ASSUME VideoInv, WorkerReclaim
  PROVE  VideoInv'
<1>1. worker \in Workers /\ Hybrid /\ agent.path = "shared"
  BY DEF VideoInv, WorkerTyped, AtRest, Places, ReadbackPlaces, NoWorker, WorkerReclaim, Hybrid
<1>2. CASE fatal \/ InState(slots, "retired") = {}
  <2>1. /\ worker' = [worker EXCEPT !.at = IF fatal THEN Leave ELSE "latest"]
        /\ UNCHANGED <<capturing, coder, slots, wake, stopping, fatal, completions, history>>
    BY <1>2 DEF WorkerReclaim
  <2>2. Wanders
    BY <1>1, <2>1 DEF VideoInv, WorkerTyped, Places, Repeats, Wanders, Flagged, Completes, WorkerReclaim, Leave,
       Hybrid, WithSlot, SharedPlaces, ReadbackPlaces, WorkerPlaces, Workers, capturing, history
  <2> QED
    BY <2>2, WandersKeeps
<1>3. CASE ~fatal /\ InState(slots, "retired") # {}
  <2> DEFINE s == FirstSlot(InState(slots, "retired"))
  <2>1. s \in Slots /\ slots[s].state = "retired"
    BY <1>3, FirstSlotIn DEF InState
  <2> HIDE DEF s
  <2>2. slots' = [slots EXCEPT ![s].state = "worker"] /\ slots \in [Slots -> SlotValues]
    BY <1>3 DEF VideoInv, SlotsTyped, WorkerReclaim, TakeByWorker, s
  <2>3. worker' = [worker EXCEPT !.at = "reclaiming", !.slot = s]
    BY <1>3 DEF WorkerReclaim, s
  <2>4. /\ worker' \in Workers /\ worker'.slot = s /\ worker'.frame = worker.frame
        /\ worker'.has = worker.has /\ worker'.consumed = worker.consumed /\ worker'.repeat = worker.repeat
        /\ worker'.at = "reclaiming"
    BY <1>1, <2>1, <2>3 DEF Workers, WorkerPlaces
  <2>5. TakenFrom(s)
    BY <2>1, <2>2 DEF TakenFrom, SlotValues
  <2>6. Takes(s)
    BY <1>1, <2>1, <2>4, <2>5 DEF VideoInv, WorkerTyped, Takes, WorkerReclaim, capturing, history
  <2> QED
    BY <2>6, TakesKeeps
<1> QED
  BY <1>2, <1>3

(* What the encoder thread does with the slot it has: the key goes back to  *)
(* the producer with a free slot, or the slot waits once more, or the       *)
(* thread fails and leaves the slot as it is.                               *)
Holds(s) ==
    /\ agent.path = "shared" /\ UNCHANGED <<capturing, coder, history>> /\ Flagged /\ Completes
    /\ worker.slot = s /\ s \in Slots /\ worker'.slot = NoSlot
    /\ worker' \in Workers /\ worker'.frame = worker.frame
    /\ worker'.has = worker.has /\ worker'.consumed = worker.consumed /\ worker'.repeat = worker.repeat
    /\ slots' \in [Slots -> SlotValues]
    /\ \A t \in Slots \ {s} : slots'[t] = slots[t]

(* A slot given back with the producer's key is as new.                     *)
FreedFrom(s) ==
    /\ slots' \in [Slots -> SlotValues]
    /\ \A t \in Slots \ {s} : slots'[t] = slots[t]
    /\ slots'[s].state = "available" /\ slots'[s].frame = NoFrame
    /\ slots'[s].key = 0 /\ slots'[s].owner = "none"

(* release_worker after the release of key 0 frees the slot.                *)
LEMMA ReturnedIsFree ==
  ASSUME slots \in [Slots -> SlotValues], NEW s \in Slots, slots' = ReleaseWorker(ReleaseSync(slots, s, 0), s)
  PROVE  FreedFrom(s)
<1> DEFINE given == ReleaseSync(slots, s, 0)
<1>1. /\ given \in [Slots -> SlotValues] /\ \A t \in Slots \ {s} : given[t] = slots[t]
      /\ given[s].owner = "none" /\ given[s].key = 0
  BY DEF ReleaseSync, SlotValues
<1>2. slots' = ReleaseWorker(given, s)
  OBVIOUS
<1> HIDE DEF given
<1>3. NoFrame \in Frames
  BY VideoAssumption DEF NoFrame, Frames
<1>4. LET v == Emptied(given[s], "available")
      IN v \in SlotValues /\ v.state = "available" /\ v.frame = NoFrame /\ v.key = 0 /\ v.owner = "none"
  <2>1. given[s] \in SlotValues
    BY <1>1
  <2> QED
    BY <1>1, <2>1, EmptiedIsSlot
<1>5. slots' = [given EXCEPT ![s] = Emptied(given[s], "available")]
  BY <1>2 DEF ReleaseWorker
<1> QED
  BY <1>1, <1>4, <1>5 DEF FreedFrom

Returns(s) ==
    /\ Holds(s) /\ UNCHANGED fatal
    /\ worker.at \in {"reclaiming", "release"} /\ worker'.at \in {"reclaim", "wait", "drain"}
    /\ worker'.at = "drain" => fatal
    /\ FreedFrom(s)

(* A slot that comes back with its key keeps the invariant.                 *)
LEMMA ReturnsKeeps ==
  ASSUME VideoInv, NEW s, Returns(s)
  PROVE  VideoInv'
<1>0. /\ s \in Slots /\ NoSlot \notin Slots
      /\ \A t \in Slots : slots[t].state \in {"available", "writing", "mailbox", "worker", "retired"}
      /\ ~NoFrame.repeated
  BY VideoAssumption DEF VideoInv, SlotsTyped, SlotValues, NoSlot, Returns, Holds, NoFrame
<1>1. CaptureTyped'
  BY <1>0 DEF VideoInv, CaptureTyped, Returns, FreedFrom, Holds, Flagged, Completes, capturing, history
<1>2. WorkerTyped'
  BY <1>0 DEF VideoInv, WorkerTyped, Returns, FreedFrom, Holds, Flagged, Completes, capturing, history
<1>3. SlotsTyped'
  BY <1>0 DEF VideoInv, SlotsTyped, Returns, FreedFrom, Holds, Flagged, Completes, capturing, history
<1>4. AtRest'
  BY <1>0 DEF VideoInv, AtRest, Hybrid, Returns, FreedFrom, Holds, Flagged, Completes, capturing, history
<1>5. Places'
  BY <1>0
     DEF VideoInv, Places, Hybrid, WithSlot, SharedPlaces, ReadbackPlaces, WorkerPlaces, Returns, FreedFrom,
         Holds, Flagged, Completes, capturing, history
<1>6. OneMailbox'
  BY <1>0 DEF VideoInv, OneMailbox, Returns, FreedFrom, Holds, Flagged, Completes, capturing, history
<1>7. Owned'
  BY <1>0
     DEF VideoInv, Owned, Places, WithSlot, Returns, FreedFrom, Holds, Flagged, Completes, capturing, history
<1>8. Keyed'
  BY <1>0
     DEF VideoInv, Keyed, Places, WithSlot, KeyFree, Returns, FreedFrom, Holds, Flagged, Completes, capturing,
         history
<1>9. Blank'
  BY <1>0
     DEF VideoInv, Blank, Places, WithSlot, Owned, Returns, FreedFrom, Holds, Flagged, Completes, capturing,
         history
<1>10. KeysComeBack'
  BY <1>0
     DEF VideoInv, KeysComeBack, Places, KeyFree, Returns, FreedFrom, Holds, Flagged, Completes, capturing,
         history
<1>11. InOrder'
  <2>1. /\ ~Held /\ ~Held' /\ worker'.frame = worker.frame
        /\ UNCHANGED <<wire, newest, agent, capture, staging>>
    BY DEF Returns, Holds, Held, capturing, history
  <2>2. \A m \in Slots : slots'[m].state = "mailbox" => slots[m].state = "mailbox" /\ slots'[m] = slots[m]
    BY <1>0 DEF Returns, FreedFrom
  <2>3. capture.slot \in Slots => slots'[capture.slot] = slots[capture.slot]
    BY <1>0 DEF VideoInv, Owned, Returns, Holds
  <2> QED
    BY <2>1, <2>2, <2>3 DEF VideoInv, InOrder, BehindBatch, BehindMail, Behind, Hybrid, InState
<1>12. NewestSomewhere'
  BY <1>0
     DEF VideoInv, NewestSomewhere, Held, Hybrid, InState, Owned, Places, Returns, FreedFrom, Holds, Flagged,
         Completes, capturing, history
<1>13. Requested'
  BY <1>0 DEF VideoInv, Requested, Hybrid, Returns, FreedFrom, Holds, Flagged, Completes, capturing, history
<1>14. Pictures'
  BY <1>0 DEF VideoInv, Pictures, Returns, FreedFrom, Holds, Flagged, Completes, capturing, history
<1>15. Repeats'
  BY <1>0 DEF VideoInv, Repeats, Known, Returns, FreedFrom, Holds, Flagged, Completes, capturing, history
<1>16. Counts'
  BY <1>0 DEF VideoInv, Counts, Returns, FreedFrom, Holds, Flagged, Completes, capturing, history
<1>17. WireIsFaithful'
  BY <1>0
     DEF VideoInv, WireIsFaithful, IdrIsNext, PictureIsCurrent, RepeatShowsKnown, Returns, FreedFrom, Holds,
         Flagged, Completes, capturing, history
<1> QED
  BY <1>1, <1>2, <1>3, <1>4, <1>5, <1>6, <1>7, <1>8, <1>9, <1>10, <1>11, <1>12, <1>13, <1>14, <1>15, <1>16,
     <1>17
     DEF VideoInv

(* A retired slot keeps its key and carries nothing.                        *)
RetiredFrom(s) ==
    /\ slots' \in [Slots -> SlotValues]
    /\ \A t \in Slots \ {s} : slots'[t] = slots[t]
    /\ slots'[s].state = "retired" /\ slots'[s].frame = NoFrame
    /\ slots'[s].key = slots[s].key /\ slots'[s].owner = slots[s].owner

(* retire_worker leaves such a slot.                                        *)
LEMMA RetiredIsBlank ==
  ASSUME slots \in [Slots -> SlotValues], NEW s \in Slots, slots' = RetireWorker(slots, s)
  PROVE  RetiredFrom(s)
<1>1. NoFrame \in Frames
  BY VideoAssumption DEF NoFrame, Frames
<1> QED
  BY <1>1 DEF RetireWorker, RetiredFrom, Emptied, SlotValues

Retires(s) ==
    /\ Holds(s) /\ UNCHANGED <<stopping, fatal>> /\ RetiredFrom(s)
    /\ worker.at \in {"reclaiming", "key"} /\ worker'.at \in {"latest", "wait"}
    /\ worker.at = "key" => InState(slots, "mailbox") # {}

(* A slot is retired without a key, or because a newer frame waits.         *)
LEMMA RetiresKeeps ==
  ASSUME VideoInv, NEW s, Retires(s)
  PROVE  VideoInv'
<1>0. /\ s \in Slots /\ NoSlot \notin Slots /\ slots[s].state = "worker" /\ agent.path = "shared"
      /\ \A t \in Slots : slots[t].state \in {"available", "writing", "mailbox", "worker", "retired"}
  BY VideoAssumption DEF VideoInv, Owned, SlotsTyped, SlotValues, NoSlot, Retires, Holds
<1>1. CaptureTyped'
  BY <1>0
     DEF VideoInv, CaptureTyped, Retires, RetiredFrom, Holds, Flagged, Completes, NoFrame, capturing, history
<1>2. WorkerTyped'
  BY <1>0
     DEF VideoInv, WorkerTyped, Retires, RetiredFrom, Holds, Flagged, Completes, NoFrame, capturing, history
<1>3. SlotsTyped'
  BY <1>0 DEF VideoInv, SlotsTyped, Retires, RetiredFrom, Holds, Flagged, Completes, NoFrame, capturing, history
<1>4. AtRest'
  BY <1>0
     DEF VideoInv, AtRest, Hybrid, Retires, RetiredFrom, Holds, Flagged, Completes, NoFrame, capturing, history
<1>5. Places'
  BY <1>0
     DEF VideoInv, Places, Hybrid, WithSlot, SharedPlaces, ReadbackPlaces, WorkerPlaces, Retires, RetiredFrom,
         Holds, Flagged, Completes, NoFrame, capturing, history
<1>6. OneMailbox'
  BY <1>0 DEF VideoInv, OneMailbox, Retires, RetiredFrom, Holds, Flagged, Completes, NoFrame, capturing, history
<1>7. Owned'
  BY <1>0
     DEF VideoInv, Owned, Places, WithSlot, Retires, RetiredFrom, Holds, Flagged, Completes, NoFrame,
         capturing, history
<1>8. Keyed'
  BY <1>0
     DEF VideoInv, Keyed, Places, WithSlot, KeyFree, Retires, RetiredFrom, Holds, Flagged, Completes, NoFrame,
         capturing, history
<1>9. Blank'
  BY <1>0
     DEF VideoInv, Blank, Places, WithSlot, Owned, Retires, RetiredFrom, Holds, Flagged, Completes, NoFrame,
         capturing, history
<1>10. KeysComeBack'
  BY <1>0
     DEF VideoInv, KeysComeBack, Places, KeyFree, Retires, RetiredFrom, Holds, Flagged, Completes, NoFrame,
         capturing, history
<1>11. InOrder'
  BY <1>0
     DEF VideoInv, InOrder, BehindBatch, BehindMail, Behind, Held, Hybrid, InState, OneMailbox, Owned, Retires,
         RetiredFrom, Holds, Flagged, Completes, NoFrame, capturing, history
<1>12. NewestSomewhere'
  <2>1. \A t \in Slots : slots[t].frame.source \in Nat
    BY VideoAssumption DEF VideoInv, SlotsTyped, SlotValues, Frames
  <2>2. CASE Held /\ slots[s].frame.source = newest
    <3>1. PICK m \in InState(slots, "mailbox") : TRUE
      BY <2>2 DEF Retires, Held
    <3>2. m \in Slots \ {s} /\ slots[m].state = "mailbox" /\ slots'[m] = slots[m]
      BY <1>0, <3>1 DEF InState, Retires, RetiredFrom
    <3>3. slots[m].frame.source = newest
      BY <1>0, <2>1, <2>2, <3>1, <3>2
         DEF VideoInv, CaptureTyped, InOrder, Behind, BehindMail, BehindBatch, Hybrid,
         Retires, Holds
    <3> QED
      BY <3>2, <3>3 DEF NewestSomewhere, InState, Retires, Holds, capturing
  <2>3. CASE ~(Held /\ slots[s].frame.source = newest)
    BY <1>0, <2>3
       DEF VideoInv, NewestSomewhere, Held, Hybrid, InState, Owned, Places, Retires, RetiredFrom, Holds,
       capturing, history
  <2> QED
    BY <2>2, <2>3
<1>13. Requested'
  BY <1>0
     DEF VideoInv, Requested, Hybrid, Retires, RetiredFrom, Holds, Flagged, Completes, NoFrame, capturing,
         history
<1>14. Pictures'
  BY <1>0 DEF VideoInv, Pictures, Retires, RetiredFrom, Holds, Flagged, Completes, NoFrame, capturing, history
<1>15. Repeats'
  BY <1>0
     DEF VideoInv, Repeats, Known, Retires, RetiredFrom, Holds, Flagged, Completes, NoFrame, capturing, history
<1>16. Counts'
  BY <1>0 DEF VideoInv, Counts, Retires, RetiredFrom, Holds, Flagged, Completes, NoFrame, capturing, history
<1>17. WireIsFaithful'
  BY <1>0
     DEF VideoInv, WireIsFaithful, IdrIsNext, PictureIsCurrent, RepeatShowsKnown, Retires, RetiredFrom, Holds,
         Flagged, Completes, NoFrame, capturing, history
<1> QED
  BY <1>1, <1>2, <1>3, <1>4, <1>5, <1>6, <1>7, <1>8, <1>9, <1>10, <1>11, <1>12, <1>13, <1>14, <1>15, <1>16,
     <1>17
     DEF VideoInv

(* A retired slot comes back, or stays retired without its key.             *)
LEMMA WorkerReclaimedKeeps ==
  ASSUME VideoInv, NEW gotKey \in BOOLEAN, WorkerReclaimed(gotKey)
  PROVE  VideoInv'
<1> DEFINE s == worker.slot
<1>1. /\ worker \in Workers /\ Hybrid /\ agent.path = "shared" /\ worker.at = "reclaiming"
      /\ slots \in [Slots -> SlotValues] /\ s \in Slots
  BY
     DEF VideoInv, WorkerTyped, SlotsTyped, AtRest, Places, WithSlot, ReadbackPlaces, NoWorker,
         WorkerReclaimed, Hybrid
<1>2. /\ worker' \in Workers /\ worker'.slot = NoSlot /\ worker'.frame = worker.frame
      /\ worker'.has = worker.has /\ worker'.consumed = worker.consumed /\ worker'.repeat = worker.repeat
      /\ worker'.at = IF gotKey THEN "reclaim" ELSE "latest"
  BY <1>1 DEF WorkerReclaimed, Workers, WorkerPlaces
<1>3. CASE gotKey
  <2>1. slots' = ReleaseWorker(ReleaseSync(slots, s, 0), s)
    BY <1>3 DEF WorkerReclaimed
  <2>2. FreedFrom(s)
    BY <1>1, <2>1, ReturnedIsFree
  <2>3. Returns(s)
    BY <1>1, <1>2, <1>3, <2>2
       DEF VideoInv, WorkerTyped, Returns, FreedFrom, Holds, Flagged, Completes, WorkerReclaimed,
       capturing, history
  <2> QED
    BY <2>3, ReturnsKeeps
<1>4. CASE ~gotKey
  <2>1. slots' = RetireWorker(slots, s)
    BY <1>4 DEF WorkerReclaimed
  <2>2. RetiredFrom(s)
    BY <1>1, <2>1, RetiredIsBlank
  <2>3. Retires(s)
    BY <1>1, <1>2, <1>4, <2>2
       DEF VideoInv, WorkerTyped, Retires, RetiredFrom, Holds, Flagged, Completes, WorkerReclaimed,
       capturing, history
  <2> QED
    BY <2>3, RetiresKeeps
<1> QED
  BY <1>3, <1>4

(* Back into the empty mailbox.                                             *)
Defers(s) ==
    /\ Holds(s) /\ UNCHANGED <<stopping, fatal>>
    /\ worker.at = "key" /\ worker'.at = "wait" /\ InState(slots, "mailbox") = {}
    /\ slots'[s].state = "mailbox" /\ slots'[s].frame = slots[s].frame
    /\ slots'[s].key = slots[s].key /\ slots'[s].owner = slots[s].owner

(* A deferred slot keeps the invariant.                                     *)
LEMMA DefersKeeps ==
  ASSUME VideoInv, NEW s, Defers(s)
  PROVE  VideoInv'
<1>0. /\ s \in Slots /\ NoSlot \notin Slots /\ slots[s].state = "worker" /\ agent.path = "shared"
      /\ \A t \in Slots : slots[t].state \in {"available", "writing", "mailbox", "worker", "retired"}
      /\ \A t \in Slots : slots[t].state # "mailbox"
  BY VideoAssumption DEF VideoInv, Owned, SlotsTyped, SlotValues, NoSlot, Defers, Holds, InState
<1>1. CaptureTyped'
  BY <1>0 DEF VideoInv, CaptureTyped, Defers, Holds, Flagged, Completes, capturing, history
<1>2. WorkerTyped'
  BY <1>0 DEF VideoInv, WorkerTyped, Defers, Holds, Flagged, Completes, capturing, history
<1>3. SlotsTyped'
  BY <1>0 DEF VideoInv, SlotsTyped, Defers, Holds, Flagged, Completes, capturing, history
<1>4. AtRest'
  BY <1>0 DEF VideoInv, AtRest, Hybrid, Defers, Holds, Flagged, Completes, capturing, history
<1>5. Places'
  BY <1>0
     DEF VideoInv, Places, Hybrid, WithSlot, SharedPlaces, ReadbackPlaces, WorkerPlaces, Defers, Holds,
         Flagged, Completes, capturing, history
<1>6. OneMailbox'
  BY <1>0 DEF VideoInv, OneMailbox, Defers, Holds, Flagged, Completes, capturing, history
<1>7. Owned'
  BY <1>0 DEF VideoInv, Owned, Places, WithSlot, Defers, Holds, Flagged, Completes, capturing, history
<1>8. Keyed'
  BY <1>0 DEF VideoInv, Keyed, Places, WithSlot, KeyFree, Defers, Holds, Flagged, Completes, capturing, history
<1>9. Blank'
  BY <1>0 DEF VideoInv, Blank, Places, WithSlot, Owned, Defers, Holds, Flagged, Completes, capturing, history
<1>10. KeysComeBack'
  BY <1>0 DEF VideoInv, KeysComeBack, Places, KeyFree, Defers, Holds, Flagged, Completes, capturing, history
<1>11. InOrder'
  BY <1>0
     DEF VideoInv, InOrder, BehindBatch, BehindMail, Behind, Held, Hybrid, InState, OneMailbox, Owned, Defers,
         Holds, Flagged, Completes, capturing, history
<1>12. NewestSomewhere'
  BY <1>0
     DEF VideoInv, NewestSomewhere, Held, Hybrid, InState, Owned, Places, Defers, Holds, Flagged, Completes,
         capturing, history
<1>13. Requested'
  BY <1>0 DEF VideoInv, Requested, Hybrid, Defers, Holds, Flagged, Completes, capturing, history
<1>14. Pictures'
  BY <1>0 DEF VideoInv, Pictures, Defers, Holds, Flagged, Completes, capturing, history
<1>15. Repeats'
  BY <1>0 DEF VideoInv, Repeats, Known, Defers, Holds, Flagged, Completes, capturing, history
<1>16. Counts'
  BY <1>0 DEF VideoInv, Counts, Defers, Holds, Flagged, Completes, capturing, history
<1>17. WireIsFaithful'
  BY <1>0
     DEF VideoInv, WireIsFaithful, IdrIsNext, PictureIsCurrent, RepeatShowsKnown, Defers, Holds, Flagged,
         Completes, capturing, history
<1> QED
  BY <1>1, <1>2, <1>3, <1>4, <1>5, <1>6, <1>7, <1>8, <1>9, <1>10, <1>11, <1>12, <1>13, <1>14, <1>15, <1>16,
     <1>17
     DEF VideoInv

(* The thread fails with a slot in its hands, which stays as it is, but for *)
(* the key it may have taken.                                               *)
Abandons ==
    /\ agent.path = "shared" /\ UNCHANGED <<capturing, coder, history, completions>>
    /\ slots' \in [Slots -> SlotValues]
    /\ \A t \in Slots \ {worker.slot} : slots'[t] = slots[t]
    /\ \A t \in Slots : /\ slots'[t].state = slots[t].state /\ slots'[t].key = slots[t].key
                        /\ slots'[t].frame = slots[t].frame
    /\ wake' \in BOOLEAN /\ stopping' = TRUE /\ fatal' = TRUE
    /\ worker.at \in {"reclaiming", "key", "release"} /\ worker'.at = "drain"
    /\ worker' \in Workers /\ worker'.frame = worker.frame /\ worker'.slot = NoSlot
    /\ worker'.has = worker.has /\ worker'.consumed = worker.consumed /\ worker'.repeat = worker.repeat

(* A slot that is given up keeps the invariant: the failure excuses it.     *)
LEMMA AbandonsKeeps ==
  ASSUME VideoInv, Abandons
  PROVE  VideoInv'
<1>0. NoSlot \notin Slots /\ Hybrid
  BY VideoAssumption DEF NoSlot, Abandons, Hybrid
<1>1. CaptureTyped'
  BY <1>0 DEF VideoInv, CaptureTyped, Abandons, capturing, history
<1>2. WorkerTyped'
  BY <1>0 DEF VideoInv, WorkerTyped, Abandons, capturing, history
<1>3. SlotsTyped'
  BY <1>0 DEF VideoInv, SlotsTyped, Abandons, capturing, history
<1>4. AtRest'
  BY <1>0 DEF VideoInv, AtRest, Hybrid, Abandons, capturing, history
<1>5. Places'
  BY <1>0
     DEF VideoInv, Places, Hybrid, WithSlot, SharedPlaces, ReadbackPlaces, WorkerPlaces, Abandons, capturing,
         history
<1>6. OneMailbox'
  BY <1>0 DEF VideoInv, OneMailbox, Abandons, capturing, history
<1>7. Owned'
  BY <1>0 DEF VideoInv, Owned, Places, WithSlot, Abandons, capturing, history
<1>8. Keyed'
  <2>1. worker.slot \in Slots /\ slots[worker.slot].state = "worker"
    BY DEF VideoInv, Places, Owned, WithSlot, Hybrid, Abandons
  <2> QED
    BY <1>0, <2>1 DEF VideoInv, Keyed, Places, WithSlot, KeyFree, Abandons, capturing, history
<1>9. Blank'
  BY <1>0 DEF VideoInv, Blank, Places, WithSlot, Abandons, capturing, history
<1>10. KeysComeBack'
  BY <1>0 DEF VideoInv, KeysComeBack, Places, KeyFree, Abandons, capturing, history
<1>11. InOrder'
  BY <1>0
     DEF VideoInv, InOrder, BehindBatch, BehindMail, Behind, Held, Hybrid, InState, Abandons, capturing,
         history
<1>12. NewestSomewhere'
  BY <1>0 DEF VideoInv, NewestSomewhere, Held, Hybrid, InState, Abandons, capturing, history
<1>13. Requested'
  BY <1>0 DEF VideoInv, Requested, Hybrid, Abandons, capturing, history
<1>14. Pictures'
  BY <1>0 DEF VideoInv, Pictures, Abandons, capturing, history
<1>15. Repeats'
  BY <1>0 DEF VideoInv, Repeats, Known, Abandons, capturing, history
<1>16. Counts'
  BY <1>0 DEF VideoInv, Counts, Abandons, capturing, history
<1>17. WireIsFaithful'
  BY <1>0
     DEF VideoInv, WireIsFaithful, IdrIsNext, PictureIsCurrent, RepeatShowsKnown, Abandons, capturing, history
<1> QED
  BY <1>1, <1>2, <1>3, <1>4, <1>5, <1>6, <1>7, <1>8, <1>9, <1>10, <1>11, <1>12, <1>13, <1>14, <1>15, <1>16,
     <1>17
     DEF VideoInv

(* AcquireSync fails for good.                                              *)
LEMMA WorkerKeyFailsKeeps ==
  ASSUME VideoInv, WorkerKeyFails
  PROVE  VideoInv'
<1>1. worker \in Workers /\ agent.path = "shared"
  BY DEF VideoInv, WorkerTyped, AtRest, Places, ReadbackPlaces, NoWorker, WorkerKeyFails, Hybrid
<1>2. Abandons
  BY <1>1 DEF VideoInv, SlotsTyped, Abandons, WorkerKeyFails, Leave, Fatal, Workers, WorkerPlaces, capturing, history
<1> QED
  BY <1>2, AbandonsKeeps

(* ReleaseSync fails for a slot that is reclaimed.                          *)
LEMMA WorkerReclaimFailsKeeps ==
  ASSUME VideoInv, WorkerReclaimFails
  PROVE  VideoInv'
<1>1. worker \in Workers /\ agent.path = "shared" /\ slots \in [Slots -> SlotValues]
  BY DEF VideoInv, WorkerTyped, SlotsTyped, AtRest, Places, ReadbackPlaces, NoWorker, WorkerReclaimFails, Hybrid
<1>2. /\ slots' \in [Slots -> SlotValues]
      /\ \A t \in Slots \ {worker.slot} : slots'[t] = slots[t]
      /\ \A t \in Slots : /\ slots'[t].state = slots[t].state /\ slots'[t].key = slots[t].key
                          /\ slots'[t].frame = slots[t].frame
  BY <1>1 DEF WorkerReclaimFails, AcquireSync, SlotValues
<1>3. Abandons
  BY <1>1, <1>2 DEF Abandons, WorkerReclaimFails, Leave, Fatal, Workers, WorkerPlaces, capturing, history
<1> QED
  BY <1>3, AbandonsKeeps

(* release_worker_key, with and without success.                            *)
LEMMA WorkerReleaseKeeps ==
  ASSUME VideoInv, NEW ok \in BOOLEAN, WorkerRelease(ok)
  PROVE  VideoInv'
<1> DEFINE s == worker.slot
<1>1. /\ worker \in Workers /\ agent.path = "shared" /\ worker.at = "release"
      /\ slots \in [Slots -> SlotValues] /\ s \in Slots
  BY
     DEF VideoInv, WorkerTyped, SlotsTyped, AtRest, Places, WithSlot, ReadbackPlaces, NoWorker, WorkerRelease,
         Hybrid
<1>2. /\ worker' \in Workers /\ worker'.slot = NoSlot /\ worker'.frame = worker.frame
      /\ worker'.has = worker.has /\ worker'.consumed = worker.consumed /\ worker'.repeat = worker.repeat
      /\ worker'.at = IF fatal' THEN "drain" ELSE "wait"
  BY <1>1 DEF WorkerRelease, Leave, Workers, WorkerPlaces
<1>3. CASE ok
  <2>1. slots' = ReleaseWorker(ReleaseSync(slots, s, 0), s)
    BY <1>3 DEF WorkerRelease
  <2>2. FreedFrom(s)
    BY <1>1, <2>1, ReturnedIsFree
  <2>3. Returns(s)
    BY <1>1, <1>2, <1>3, <2>2
       DEF VideoInv, WorkerTyped, Returns, FreedFrom, Holds, Flagged, Completes, WorkerRelease,
       NotFatal, capturing, history
  <2> QED
    BY <2>3, ReturnsKeeps
<1>4. CASE ~ok
  <2>1. Abandons
    BY <1>1, <1>2, <1>4 DEF Abandons, WorkerRelease, Fatal, capturing, history
  <2> QED
    BY <2>1, AbandonsKeeps
<1> QED
  BY <1>3, <1>4

(* The key of a taken texture, which the encoder may now read.              *)
KeyTaken(s) ==
    /\ agent.path = "shared" /\ UNCHANGED <<capturing, coder, history, completions, stopping, fatal>>
    /\ wake' \in BOOLEAN
    /\ worker.at = "key" /\ worker'.at = "encode" /\ worker.slot = s /\ s \in Slots /\ worker'.slot = s
    /\ worker' \in Workers /\ worker'.frame = slots[s].frame /\ worker'.repeat = FALSE
    /\ worker'.has = worker.has /\ worker'.consumed = worker.consumed
    /\ slots' \in [Slots -> SlotValues]
    /\ \A t \in Slots \ {s} : slots'[t] = slots[t]
    /\ slots'[s].state = slots[s].state /\ slots'[s].frame = slots[s].frame /\ slots'[s].key = slots[s].key

(* The key that is taken keeps the invariant.                               *)
LEMMA KeyTakenKeeps ==
  ASSUME VideoInv, NEW s, KeyTaken(s)
  PROVE  VideoInv'
<1>0. /\ s \in Slots /\ NoSlot \notin Slots /\ slots[s].state = "worker" /\ agent.path = "shared"
      /\ \A t \in Slots : slots[t].frame.source \in Nat
      /\ newest \in Nat /\ worker.frame.source \in Nat /\ wire.source \in Nat
  BY SourcesAreNumbers DEF VideoInv, Owned, KeyTaken
<1>1. CaptureTyped'
  BY <1>0 DEF VideoInv, CaptureTyped, KeyTaken, capturing, history
<1>2. WorkerTyped'
  BY <1>0 DEF VideoInv, WorkerTyped, KeyTaken, capturing, history
<1>3. SlotsTyped'
  BY <1>0 DEF VideoInv, SlotsTyped, KeyTaken, capturing, history
<1>4. AtRest'
  BY <1>0 DEF VideoInv, AtRest, Hybrid, KeyTaken, capturing, history
<1>5. Places'
  BY <1>0
     DEF VideoInv, Places, Hybrid, WithSlot, SharedPlaces, ReadbackPlaces, WorkerPlaces, KeyTaken, capturing,
         history
<1>6. OneMailbox'
  BY <1>0 DEF VideoInv, OneMailbox, KeyTaken, capturing, history
<1>7. Owned'
  BY <1>0 DEF VideoInv, Owned, Places, WithSlot, KeyTaken, capturing, history
<1>8. Keyed'
  BY <1>0 DEF VideoInv, Keyed, Places, WithSlot, KeyFree, KeyTaken, capturing, history
<1>9. Blank'
  BY <1>0 DEF VideoInv, Blank, Places, WithSlot, Owned, KeyTaken, capturing, history
<1>10. KeysComeBack'
  BY <1>0 DEF VideoInv, KeysComeBack, Places, KeyFree, KeyTaken, capturing, history
<1>11. InOrder'
  <2>1. /\ Held /\ worker.slot = s /\ ~Held' /\ worker'.frame = slots[s].frame
        /\ UNCHANGED <<wire, newest, agent, capture, staging>>
    BY DEF KeyTaken, Held, capturing, history
  <2>2. \A m \in Slots : slots'[m].state = slots[m].state /\ slots'[m].frame = slots[m].frame
    BY <1>0 DEF KeyTaken
  <2> QED
    BY <1>0, <2>1, <2>2, SMTT(30) DEF VideoInv, InOrder, BehindBatch, BehindMail, Behind, Hybrid, InState
<1>12. NewestSomewhere'
  <2>1. CASE newest = worker.frame.source
    <3>1. slots[s].frame.source = newest
      BY <1>0, <2>1 DEF VideoInv, InOrder, Behind, BehindMail, BehindBatch, Held, Hybrid, KeyTaken
    <3> QED
      BY <3>1 DEF NewestSomewhere, KeyTaken, capturing
  <2>2. CASE newest # worker.frame.source
    BY <1>0, <2>2
       DEF VideoInv, NewestSomewhere, Held, Hybrid, InState, Owned, Places, KeyTaken, capturing, history
  <2> QED
    BY <2>1, <2>2
<1>13. Requested'
  BY <1>0 DEF VideoInv, Requested, Hybrid, KeyTaken, capturing, history
<1>14. Pictures'
  BY <1>0 DEF VideoInv, Pictures, KeyTaken, capturing, history
<1>15. Repeats'
  BY <1>0 DEF VideoInv, Repeats, Known, KeyTaken, capturing, history
<1>16. Counts'
  BY <1>0 DEF VideoInv, Counts, KeyTaken, capturing, history
<1>17. WireIsFaithful'
  BY <1>0
     DEF VideoInv, WireIsFaithful, IdrIsNext, PictureIsCurrent, RepeatShowsKnown, KeyTaken, capturing, history
<1> QED
  BY <1>1, <1>2, <1>3, <1>4, <1>5, <1>6, <1>7, <1>8, <1>9, <1>10, <1>11, <1>12, <1>13, <1>14, <1>15, <1>16,
     <1>17
     DEF VideoInv

(* The key comes, or the slot is deferred.                                  *)
LEMMA WorkerKeyKeeps ==
  ASSUME VideoInv, NEW gotKey \in BOOLEAN, WorkerKey(gotKey)
  PROVE  VideoInv'
<1> DEFINE s == worker.slot
<1>1. /\ worker \in Workers /\ Hybrid /\ agent.path = "shared" /\ worker.at = "key"
      /\ slots \in [Slots -> SlotValues] /\ s \in Slots
  BY
     DEF VideoInv, WorkerTyped, SlotsTyped, AtRest, Places, WithSlot, ReadbackPlaces, NoWorker, WorkerKey,
         Hybrid
<1>2. CASE gotKey
  <2>1. slots' = AcquireSync(slots, s, "worker")
    BY <1>2 DEF WorkerKey
  <2>2. /\ slots' \in [Slots -> SlotValues] /\ \A t \in Slots \ {s} : slots'[t] = slots[t]
        /\ slots'[s].state = slots[s].state /\ slots'[s].frame = slots[s].frame /\ slots'[s].key = slots[s].key
    BY <1>1, <2>1 DEF AcquireSync, SlotValues
  <2>3. /\ worker' \in Workers /\ worker'.frame = slots[s].frame /\ worker'.repeat = FALSE /\ worker'.slot = s
        /\ worker'.has = worker.has /\ worker'.consumed = worker.consumed /\ worker'.at = "encode"
    BY <1>1, <1>2 DEF WorkerKey, Workers, WorkerPlaces, SlotValues
  <2>4. KeyTaken(s)
    BY <1>1, <2>2, <2>3 DEF VideoInv, WorkerTyped, KeyTaken, WorkerKey, capturing, history
  <2> QED
    BY <2>4, KeyTakenKeeps
<1>3. CASE ~gotKey
  <2>1. /\ worker' \in Workers /\ worker'.slot = NoSlot /\ worker'.frame = worker.frame
        /\ worker'.has = worker.has /\ worker'.consumed = worker.consumed /\ worker'.repeat = worker.repeat
        /\ worker'.at = "wait"
    BY <1>1, <1>3 DEF WorkerKey, Workers, WorkerPlaces
  <2>2. CASE InState(slots, "mailbox") = {}
    <3>1. slots' = [slots EXCEPT ![s].state = "mailbox"]
      BY <1>3, <2>2 DEF WorkerKey, DeferWorker
    <3>2. /\ slots' \in [Slots -> SlotValues] /\ \A t \in Slots \ {s} : slots'[t] = slots[t]
          /\ slots'[s].state = "mailbox" /\ slots'[s].frame = slots[s].frame
          /\ slots'[s].key = slots[s].key /\ slots'[s].owner = slots[s].owner
      BY <1>1, <3>1 DEF SlotValues
    <3>3. Defers(s)
      BY <1>1, <2>1, <2>2, <3>2 DEF VideoInv, WorkerTyped, Defers, Holds, Flagged, Completes, WorkerKey,
         capturing, history
    <3> QED
      BY <3>3, DefersKeeps
  <2>3. CASE InState(slots, "mailbox") # {}
    <3>1. slots' = RetireWorker(slots, s)
      BY <1>3, <2>3 DEF WorkerKey, DeferWorker
    <3>2. RetiredFrom(s)
      BY <1>1, <3>1, RetiredIsBlank
    <3>3. Retires(s)
      BY <1>1, <2>1, <2>3, <3>2
         DEF VideoInv, WorkerTyped, Retires, RetiredFrom, Holds, Flagged, Completes, WorkerKey,
         capturing, history
    <3> QED
      BY <3>3, RetiresKeeps
  <2> QED
    BY <2>2, <2>3
<1> QED
  BY <1>2, <1>3

(* upload_cpu_frame copies the frame and frees its buffer.                  *)
Uploads(s) ==
    /\ agent.path = "readback" /\ UNCHANGED <<capturing, coder, history, completions, stopping, fatal>>
    /\ wake' \in BOOLEAN
    /\ worker.at = "upload" /\ worker'.at = "encode" /\ worker.slot = s /\ s \in Slots /\ worker'.slot = NoSlot
    /\ worker' \in Workers /\ worker'.frame = slots[s].frame /\ worker'.repeat = FALSE
    /\ worker'.consumed = worker.consumed
    /\ slots' \in [Slots -> SlotValues]
    /\ \A t \in Slots \ {s} : slots'[t] = slots[t]
    /\ slots'[s].state = "available" /\ slots'[s].frame = NoFrame

(* An upload keeps the invariant.                                           *)
LEMMA UploadsKeeps ==
  ASSUME VideoInv, NEW s, Uploads(s)
  PROVE  VideoInv'
<1>0. /\ s \in Slots /\ NoSlot \notin Slots /\ slots[s].state = "worker" /\ agent.path = "readback"
      /\ \A t \in Slots : slots[t].frame.source \in Nat
      /\ newest \in Nat /\ worker.frame.source \in Nat /\ wire.source \in Nat
      /\ ~NoFrame.repeated
  BY SourcesAreNumbers DEF VideoInv, Owned, Uploads, NoFrame
<1>1. CaptureTyped'
  BY <1>0 DEF VideoInv, CaptureTyped, Uploads, capturing, history
<1>2. WorkerTyped'
  BY <1>0 DEF VideoInv, WorkerTyped, Uploads, capturing, history
<1>3. SlotsTyped'
  BY <1>0 DEF VideoInv, SlotsTyped, Uploads, capturing, history
<1>4. AtRest'
  BY <1>0 DEF VideoInv, AtRest, Hybrid, Uploads, capturing, history
<1>5. Places'
  BY <1>0
     DEF VideoInv, Places, Hybrid, WithSlot, SharedPlaces, ReadbackPlaces, WorkerPlaces, Uploads, capturing,
         history
<1>6. OneMailbox'
  BY <1>0 DEF VideoInv, OneMailbox, Uploads, capturing, history
<1>7. Owned'
  BY <1>0 DEF VideoInv, Owned, Places, WithSlot, Uploads, capturing, history
<1>8. Keyed'
  BY <1>0 DEF VideoInv, Keyed, Places, WithSlot, KeyFree, Uploads, capturing, history
<1>9. Blank'
  BY <1>0 DEF VideoInv, Blank, Places, WithSlot, Owned, Uploads, capturing, history
<1>10. KeysComeBack'
  BY <1>0 DEF VideoInv, KeysComeBack, Places, KeyFree, Uploads, capturing, history
<1>11. InOrder'
  <2>1. /\ Held /\ worker.slot = s /\ ~Held' /\ worker'.frame = slots[s].frame
        /\ UNCHANGED <<wire, newest, agent, capture, staging>>
    BY DEF Uploads, Held, capturing, history
  <2>2. \A m \in Slots : slots'[m].state = "mailbox" => slots[m].state = "mailbox" /\ slots'[m] = slots[m]
    BY <1>0 DEF Uploads
  <2>3. capture.slot \in Slots => slots'[capture.slot] = slots[capture.slot]
    BY <1>0 DEF VideoInv, Owned, Uploads
  <2> QED
    BY <1>0, <2>1, <2>2, <2>3, SMTT(30) DEF VideoInv, InOrder, BehindBatch, BehindMail, Behind, Hybrid, InState
<1>12. NewestSomewhere'
  <2>1. CASE newest = worker.frame.source
    <3>1. slots[s].frame.source = newest
      BY <1>0, <2>1 DEF VideoInv, InOrder, Behind, BehindMail, BehindBatch, Held, Hybrid, Uploads
    <3> QED
      BY <3>1 DEF NewestSomewhere, Uploads, capturing
  <2>2. CASE newest # worker.frame.source
    BY <1>0, <2>2
       DEF VideoInv, NewestSomewhere, Held, Hybrid, InState, Owned, Places, Uploads, capturing, history
  <2> QED
    BY <2>1, <2>2
<1>13. Requested'
  BY <1>0 DEF VideoInv, Requested, Hybrid, Uploads, capturing, history
<1>14. Pictures'
  BY <1>0 DEF VideoInv, Pictures, Uploads, capturing, history
<1>15. Repeats'
  BY <1>0 DEF VideoInv, Repeats, Known, Uploads, capturing, history
<1>16. Counts'
  BY <1>0 DEF VideoInv, Counts, Uploads, capturing, history
<1>17. WireIsFaithful'
  BY <1>0
     DEF VideoInv, WireIsFaithful, IdrIsNext, PictureIsCurrent, RepeatShowsKnown, Uploads, capturing, history
<1> QED
  BY <1>1, <1>2, <1>3, <1>4, <1>5, <1>6, <1>7, <1>8, <1>9, <1>10, <1>11, <1>12, <1>13, <1>14, <1>15, <1>16,
     <1>17
     DEF VideoInv

(* upload_cpu_frame and release_worker_slot.                                *)
LEMMA WorkerUploadKeeps ==
  ASSUME VideoInv, WorkerUpload
  PROVE  VideoInv'
<1> DEFINE s == worker.slot
<1>1. /\ worker \in Workers /\ agent.path = "readback" /\ worker.at = "upload"
      /\ slots \in [Slots -> SlotValues] /\ s \in Slots
  BY
     DEF VideoInv, WorkerTyped, SlotsTyped, AtRest, Places, WithSlot, SharedPlaces, NoWorker, WorkerUpload,
         Hybrid
<1>2. /\ worker' \in Workers /\ worker'.slot = NoSlot /\ worker'.frame = slots[s].frame
      /\ worker'.consumed = worker.consumed /\ worker'.repeat = FALSE /\ worker'.at = "encode"
  BY <1>1 DEF WorkerUpload, Workers, WorkerPlaces, SlotValues
<1>3. NoFrame \in Frames
  BY VideoAssumption DEF NoFrame, Frames
<1>4. /\ slots' \in [Slots -> SlotValues] /\ \A t \in Slots \ {s} : slots'[t] = slots[t]
      /\ slots'[s].state = "available" /\ slots'[s].frame = NoFrame
  BY <1>1, <1>3 DEF WorkerUpload, ReleaseWorker, Emptied, SlotValues
<1>5. Uploads(s)
  BY <1>1, <1>2, <1>4 DEF VideoInv, WorkerTyped, Uploads, WorkerUpload, capturing, history
<1> QED
  BY <1>5, UploadsKeeps

(* encode_and_publish up to the publication: the slot stays where it is.    *)
LEMMA WorkerEncodeKeeps ==
  ASSUME VideoInv, NEW ok \in BOOLEAN, NEW periodic \in BOOLEAN, WorkerEncode(ok, periodic)
  PROVE  VideoInv'
<1> DEFINE force == (requests > worker.consumed) \/ periodic \/ ~coder.primed
           encoded == EncodeWith(coder.encoder, worker.slot, worker.frame.content, force, FALSE, ok, FALSE)
           output == [ok |-> encoded.ok, forced |-> force, keyframe |-> encoded.keyframe, picture |-> encoded.picture]
<1>0. /\ worker \in Workers /\ Hybrid /\ worker.at = "encode" /\ coder \in Coders /\ requests \in Nat
      /\ coder.encoder.backend = "nvenc" /\ coder.encoder.inside = <<>>
      /\ coder.encoder \in Encoders /\ worker.slot \in Int /\ worker.frame.content \in 0..MaxContent
      /\ NoSlot \notin Slots
  <2>1. worker \in Workers /\ worker.at = "encode" /\ coder \in Coders /\ requests \in Nat
    BY DEF VideoInv, CaptureTyped, WorkerTyped, WorkerEncode
  <2>2. Hybrid
    BY <2>1 DEF VideoInv, AtRest, NoWorker
  <2>3. coder.encoder.backend = "nvenc" /\ coder.encoder.inside = <<>>
    BY <2>2 DEF VideoInv, Places, Pictures, Hybrid
  <2>4. coder.encoder \in Encoders /\ worker.frame.content \in 0..MaxContent
    BY <2>1 DEF Coders, Workers, Frames
  <2>5. worker.slot \in Int /\ NoSlot \notin Slots
    <3>1. Slots \union {NoSlot} \subseteq Int /\ NoSlot \notin Slots
      BY VideoAssumption DEF NoSlot
    <3> QED
      BY <2>1, <3>1 DEF Workers
  <2> QED
    BY <2>1, <2>2, <2>3, <2>4, <2>5
<1>1. /\ encoded \in Encodings /\ encoded.encoder.backend = "nvenc" /\ encoded.encoder.inside = <<>>
      /\ encoded.ok => encoded.picture = worker.frame.content
      /\ encoded.ok /\ requests > worker.consumed => encoded.keyframe
      /\ force \in BOOLEAN /\ (requests > worker.consumed => force)
  <2>1. force \in BOOLEAN /\ (requests > worker.consumed => force)
    OBVIOUS
  <2> HIDE DEF force
  <2>2. Returned(encoded, coder.encoder, worker.frame.content, force)
    BY <1>0, <2>1, EncodeReturns
  <2> HIDE DEF encoded
  <2> QED
    BY <1>0, <2>1, <2>2 DEF Returned
<1> HIDE DEF force, encoded
<1>2. /\ output \in Outputs /\ output.forced = force
      /\ output.keyframe = encoded.keyframe /\ output.picture = encoded.picture
  BY <1>1 DEF Encodings, Outputs
<1> HIDE DEF output
(* What becomes of the thread and of its flags.                             *)
<1>3. /\ UNCHANGED <<capturing, slots, history>> /\ Flagged /\ Completes
      /\ worker' \in Workers /\ worker'.slot = worker.slot /\ worker'.frame = worker.frame
      /\ worker'.has = worker.has /\ worker'.consumed = worker.consumed /\ worker'.repeat = worker.repeat
      /\ coder' \in Coders /\ coder'.sequence = coder.sequence
      /\ coder'.encoder.backend = "nvenc" /\ coder'.encoder.inside = <<>>
      /\ \/ /\ worker'.at = "publish" /\ worker'.requested = requests
            /\ worker'.output.picture = worker.frame.content
            /\ requests > worker.consumed => worker'.output.forced /\ worker'.output.keyframe
            /\ coder.sequence # MaxSequence /\ UNCHANGED <<fatal, stopping>>
         \/ /\ worker'.at = AfterEncode(FALSE) /\ fatal' = TRUE /\ stopping' = TRUE
  <2>1. AfterEncode(FALSE) \in WorkerPlaces
    BY DEF AfterEncode, Leave, WorkerPlaces
  <2>2. /\ completions \in Seq(Statuses) /\ Len(completions) <= CompletionCapacity
        /\ wake \in BOOLEAN /\ "failed" \in Statuses
    BY DEF VideoInv, WorkerTyped, Statuses
  <2>3. CASE Terminal
    <3>1. worker' = [worker EXCEPT !.at = AfterEncode(FALSE)] /\ Push("failed") /\ Fatal /\ UNCHANGED coder
      BY <2>3 DEF WorkerEncode
    <3>2. Completes
      BY <2>2, <3>1, PushFits DEF Completes
    <3> QED
      BY <1>0, <2>1, <3>1, <3>2 DEF WorkerEncode, Workers, Fatal, Flagged
  <2>4. CASE ~Terminal
    <3>1. /\ coder' = [coder EXCEPT !.encoder = encoded.encoder]
          /\ worker' = [worker EXCEPT !.at = IF encoded.ok THEN "publish" ELSE AfterEncode(FALSE),
                                     !.requested = requests, !.output = output]
          /\ IF encoded.ok THEN NotFatal /\ UNCHANGED completions ELSE Fatal /\ Push("failed")
      BY <2>4 DEF WorkerEncode, encoded, force, output
    <3>2. /\ coder' \in Coders /\ coder'.sequence = coder.sequence
          /\ coder'.encoder.backend = "nvenc" /\ coder'.encoder.inside = <<>>
      BY <1>0, <1>1, <3>1 DEF Coders, Encodings
    <3>3. /\ worker' \in Workers /\ worker'.slot = worker.slot /\ worker'.frame = worker.frame
          /\ worker'.has = worker.has /\ worker'.consumed = worker.consumed /\ worker'.repeat = worker.repeat
          /\ worker'.requested = requests /\ worker'.output = output
          /\ worker'.at = IF encoded.ok THEN "publish" ELSE AfterEncode(FALSE)
      BY <1>0, <1>2, <2>1, <3>1 DEF Workers, WorkerPlaces
    <3>4. Completes /\ Flagged
      BY <2>2, <3>1, PushFits DEF Completes, Flagged, Fatal, NotFatal
    <3> QED
      BY <1>1, <1>2, <2>4, <3>1, <3>2, <3>3, <3>4 DEF WorkerEncode, Fatal, NotFatal, Terminal
  <2> QED
    BY <2>3, <2>4
<1>4. CaptureTyped'
  BY <1>0, <1>3 DEF VideoInv, CaptureTyped, Flagged, Completes, AfterEncode, Leave, capturing, history
<1>5. WorkerTyped'
  BY <1>0, <1>3 DEF VideoInv, WorkerTyped, Flagged, Completes, AfterEncode, Leave, capturing, history
<1>6. SlotsTyped'
  BY <1>0, <1>3 DEF VideoInv, SlotsTyped, Flagged, Completes, AfterEncode, Leave, capturing, history
<1>7. AtRest'
  BY <1>0, <1>3 DEF VideoInv, AtRest, Hybrid, Flagged, Completes, AfterEncode, Leave, capturing, history
<1>8. Places'
  BY <1>0, <1>3
     DEF VideoInv, Places, Hybrid, WithSlot, SharedPlaces, ReadbackPlaces, WorkerPlaces, AfterEncode, Leave,
         Flagged, Completes, AfterEncode, Leave, capturing, history
<1>9. OneMailbox'
  BY <1>0, <1>3 DEF VideoInv, OneMailbox, Flagged, Completes, AfterEncode, Leave, capturing, history
<1>10. Owned'
  BY <1>0, <1>3
     DEF VideoInv, Owned, Places, WithSlot, Flagged, Completes, AfterEncode, Leave, capturing, history
<1>11. Keyed'
  BY <1>0, <1>3
     DEF VideoInv, Keyed, Places, WithSlot, KeyFree, Flagged, Completes, AfterEncode, Leave, capturing, history
<1>12. Blank'
  BY <1>0, <1>3
     DEF VideoInv, Blank, Places, WithSlot, Flagged, Completes, AfterEncode, Leave, capturing, history
<1>13. KeysComeBack'
  BY <1>0, <1>3
     DEF VideoInv, KeysComeBack, Places, KeyFree, Flagged, Completes, AfterEncode, Leave, capturing, history
<1>14. InOrder'
  BY <1>0, <1>3
     DEF VideoInv, InOrder, BehindBatch, BehindMail, Behind, Held, Hybrid, InState, Flagged, Completes,
         AfterEncode, Leave, capturing, history
<1>15. NewestSomewhere'
  BY <1>0, <1>3
     DEF VideoInv, NewestSomewhere, Held, Hybrid, InState, Flagged, Completes, AfterEncode, Leave, capturing,
         history
<1>16. Requested'
  BY <1>0, <1>3 DEF VideoInv, Requested, Hybrid, Flagged, Completes, AfterEncode, Leave, capturing, history
<1>17. Pictures'
  BY <1>0, <1>3 DEF VideoInv, Pictures, Flagged, Completes, AfterEncode, Leave, capturing, history
<1>18. Repeats'
  BY <1>0, <1>3 DEF VideoInv, Repeats, Known, Flagged, Completes, AfterEncode, Leave, capturing, history
<1>19. Counts'
  BY <1>0, <1>3, VideoAssumption
     DEF VideoInv, Counts, Coders, Flagged, Completes, AfterEncode, Leave, capturing, history
<1>20. WireIsFaithful'
  BY <1>0, <1>3
     DEF VideoInv, WireIsFaithful, IdrIsNext, PictureIsCurrent, RepeatShowsKnown, Flagged, Completes,
         AfterEncode, Leave, capturing, history
<1> QED
  BY <1>4, <1>5, <1>6, <1>7, <1>8, <1>9, <1>10, <1>11, <1>12, <1>13, <1>14, <1>15, <1>16, <1>17, <1>18, <1>19,
     <1>20
     DEF VideoInv

(* encode_and_publish from the identity to the completion.                  *)
LEMMA WorkerPublishKeeps ==
  ASSUME VideoInv, NEW outcome \in {"complete", "broken", "refused"}, WorkerPublish(outcome)
  PROVE  VideoInv'
<1> DEFINE complete == outcome = "complete"
           keyframe == worker.output.keyframe
           repeated == WireRepeats(worker.frame.repeated \/ worker.repeat, worker.requested > worker.consumed, keyframe)
<1>0. /\ worker \in Workers /\ Hybrid /\ worker.at = "publish" /\ coder \in Coders /\ requests \in Nat
      /\ worker.frame \in Frames /\ worker.output \in Outputs /\ keyframe \in BOOLEAN
      /\ answered \in Nat /\ worker.consumed \in Nat /\ worker.requested \in Nat
      /\ coder.sequence \in Nat /\ coder.sequence < MaxSequence /\ MaxSequence \in Nat
      /\ NoSlot \notin Slots
  <2>1. /\ worker \in Workers /\ worker.at = "publish" /\ coder \in Coders /\ requests \in Nat /\ answered \in Nat
        /\ NoSlot \notin Slots
    BY SourcesAreNumbers DEF VideoInv, CaptureTyped, WorkerTyped, WorkerPublish
  <2>2. Hybrid
    BY <2>1 DEF VideoInv, AtRest, NoWorker
  <2>3. /\ worker.frame \in Frames /\ worker.output \in Outputs
        /\ worker.consumed \in Nat /\ worker.requested \in Nat
    BY <2>1 DEF Workers
  <2>4. coder.sequence \in Nat /\ coder.sequence < MaxSequence /\ MaxSequence \in Nat
    BY <2>1, VideoAssumption DEF VideoInv, Counts, Coders
  <2> QED
    BY <2>1, <2>2, <2>3, <2>4 DEF Outputs
<1>1. repeated \in BOOLEAN /\ (repeated => worker.frame.repeated \/ worker.repeat) /\ complete \in BOOLEAN
  BY <1>0 DEF WireRepeats, Frames, Workers
<1>2. /\ wire' = [source |-> worker.frame.source, content |-> worker.frame.content,
                  picture |-> worker.output.picture, repeated |-> repeated,
                  forced |-> worker.output.forced, keyframe |-> keyframe,
                  sequence |-> coder.sequence, complete |-> complete, owed |-> worker.requested > answered]
      /\ known' = IF repeated THEN known ELSE known \union {worker.frame.content}
      /\ answered' = IF complete /\ keyframe THEN worker.requested ELSE answered
  BY <1>0 DEF WorkerPublish, Attempt, Hybrid
<1> HIDE DEF repeated
<1> DEFINE owed == worker.requested > answered
           primed == coder.primed \/ (complete /\ keyframe)
<1>2a. owed \in BOOLEAN /\ primed \in BOOLEAN /\ worker.frame.source \in Nat
  BY <1>0, SourcesAreNumbers DEF Coders
<1>2b. wire' = [source |-> worker.frame.source, content |-> worker.frame.content,
                picture |-> worker.output.picture, repeated |-> repeated,
                forced |-> worker.output.forced, keyframe |-> keyframe,
                sequence |-> coder.sequence, complete |-> complete, owed |-> owed]
  BY <1>2
<1> HIDE DEF owed, primed, complete
<1>3. /\ wire' \in Wires /\ wire'.source = worker.frame.source /\ wire'.content = worker.frame.content
      /\ wire'.picture = worker.output.picture /\ wire'.repeated = repeated /\ wire'.keyframe = keyframe
      /\ wire'.sequence = coder.sequence /\ wire'.owed = owed /\ wire'.forced = worker.output.forced
      /\ known' \subseteq 0..MaxContent /\ known \subseteq known' /\ answered' \in Nat
      /\ ~repeated => worker.frame.content \in known'
  <2>1. /\ wire' \in Wires /\ wire'.source = worker.frame.source /\ wire'.content = worker.frame.content
        /\ wire'.picture = worker.output.picture /\ wire'.repeated = repeated /\ wire'.keyframe = keyframe
        /\ wire'.sequence = coder.sequence /\ wire'.owed = owed /\ wire'.forced = worker.output.forced
    BY <1>0, <1>1, <1>2a, <1>2b DEF Wires, Frames, Outputs
  <2> QED
    BY <1>0, <1>1, <1>2, <2>1 DEF VideoInv, WorkerTyped, Frames
<1>4. /\ coder' \in Coders /\ coder'.sequence = coder.sequence + 1 /\ coder'.encoder = coder.encoder
  <2>1. coder' = [coder EXCEPT !.sequence = coder.sequence + 1, !.primed = primed]
    BY <1>0 DEF WorkerPublish, primed, complete, Coders
  <2>2. coder.sequence + 1 \in 0..MaxSequence
    BY <1>0
  <2> QED
    BY <1>0, <1>2a, <2>1, <2>2 DEF Coders
<1>5. /\ worker' \in Workers /\ worker'.slot = worker.slot /\ worker'.frame = worker.frame
      /\ worker'.has = worker.has /\ worker'.repeat = worker.repeat
      /\ worker'.at = AfterEncode(outcome # "broken")
      /\ worker'.consumed = Consumed(worker.consumed, complete, keyframe)
  <2>1. AfterEncode(outcome # "broken") \in WorkerPlaces
    BY DEF AfterEncode, Leave, WorkerPlaces
  <2>2. Consumed(worker.consumed, complete, keyframe) \in Nat
    BY <1>0 DEF Consumed
  <2>3. NoOutput \in Outputs
    BY VideoAssumption DEF NoOutput, Outputs
  <2>4. worker' = [worker EXCEPT !.at = AfterEncode(outcome # "broken"), !.output = NoOutput,
                                !.requested = 0, !.consumed = Consumed(@, complete, keyframe)]
    BY DEF WorkerPublish, complete
  <2> QED
    BY <1>0, <2>1, <2>2, <2>3, <2>4 DEF Workers
<1>6. /\ UNCHANGED <<capturing, slots>> /\ Flagged /\ Completes
      /\ IF outcome = "broken" THEN fatal' = TRUE /\ stopping' = TRUE ELSE UNCHANGED <<fatal, stopping>>
  <2>1. PICK status \in Statuses : Push(status)
    BY DEF WorkerPublish, Statuses
  <2>2. Completes
    BY <2>1, PushFits DEF VideoInv, WorkerTyped, Completes
  <2> QED
    BY <2>2 DEF VideoInv, WorkerTyped, WorkerPublish, Flagged, Fatal, NotFatal
<1>7. worker'.consumed = answered'
  BY <1>0, <1>2, <1>5 DEF VideoInv, Requested, Consumed
<1>8. CaptureTyped'
  BY <1>0, <1>3, <1>4, <1>5, <1>6 DEF VideoInv, CaptureTyped, Flagged, Completes, AfterEncode, Leave, capturing
<1>9. WorkerTyped'
  BY <1>0, <1>3, <1>4, <1>5, <1>6 DEF VideoInv, WorkerTyped, Flagged, Completes, AfterEncode, Leave, capturing
<1>10. SlotsTyped'
  BY <1>0, <1>3, <1>4, <1>5, <1>6 DEF VideoInv, SlotsTyped, Flagged, Completes, AfterEncode, Leave, capturing
<1>11. AtRest'
  BY <1>0, <1>3, <1>4, <1>5, <1>6
     DEF VideoInv, AtRest, Hybrid, Flagged, Completes, AfterEncode, Leave, capturing
<1>12. Places'
  BY <1>0, <1>3, <1>4, <1>5, <1>6
     DEF VideoInv, Places, Hybrid, WithSlot, SharedPlaces, ReadbackPlaces, WorkerPlaces, AfterEncode, Leave,
         Flagged, Completes, AfterEncode, Leave, capturing
<1>13. OneMailbox'
  BY <1>0, <1>3, <1>4, <1>5, <1>6 DEF VideoInv, OneMailbox, Flagged, Completes, AfterEncode, Leave, capturing
<1>14. Owned'
  BY <1>0, <1>3, <1>4, <1>5, <1>6
     DEF VideoInv, Owned, Places, WithSlot, Flagged, Completes, AfterEncode, Leave, capturing
<1>15. Keyed'
  BY <1>0, <1>3, <1>4, <1>5, <1>6
     DEF VideoInv, Keyed, Places, WithSlot, KeyFree, Flagged, Completes, AfterEncode, Leave, capturing
<1>16. Blank'
  BY <1>0, <1>3, <1>4, <1>5, <1>6
     DEF VideoInv, Blank, Places, WithSlot, Flagged, Completes, AfterEncode, Leave, capturing
<1>17. KeysComeBack'
  BY <1>0, <1>3, <1>4, <1>5, <1>6
     DEF VideoInv, KeysComeBack, Places, KeyFree, Flagged, Completes, AfterEncode, Leave, capturing
<1>18. InOrder'
  BY <1>0, <1>3, <1>4, <1>5, <1>6, <1>2a
     DEF VideoInv, InOrder, BehindBatch, BehindMail, Behind, Held, Hybrid, InState, Flagged, Completes,
         AfterEncode, Leave, capturing
<1>19. NewestSomewhere'
  BY <1>0, <1>3, <1>4, <1>5, <1>6
     DEF VideoInv, NewestSomewhere, Held, Hybrid, InState, Flagged, Completes, AfterEncode, Leave, capturing
<1>20. Requested'
  BY <1>0, <1>3, <1>4, <1>5, <1>6, <1>2, <1>7
     DEF VideoInv, Requested, Hybrid, Flagged, Completes, AfterEncode, Leave, capturing
<1>21. Pictures'
  BY <1>0, <1>3, <1>4, <1>5, <1>6 DEF VideoInv, Pictures, Flagged, Completes, AfterEncode, Leave, capturing
<1>22. Repeats'
  BY <1>0, <1>3, <1>4, <1>5, <1>6, <1>1, <1>2
     DEF VideoInv, Repeats, Known, Places, Hybrid, SharedPlaces, Flagged, Completes, AfterEncode, Leave,
         capturing
<1>23. Counts'
  <2>1. worker'.at # "publish" /\ agent' = agent
    BY <1>5, <1>6 DEF AfterEncode, Leave, capturing
  <2> QED
    BY <1>0, <1>3, <1>4, <2>1 DEF Counts, Hybrid
<1>24. WireIsFaithful'
  BY <1>0, <1>3, <1>4, <1>5, <1>6, <1>1, <1>2
     DEF VideoInv, WireIsFaithful, IdrIsNext, PictureIsCurrent, RepeatShowsKnown, Requested, Pictures, Repeats,
         Known, Hybrid, owed, Flagged, Completes, AfterEncode, Leave, capturing
<1> QED
  BY <1>8, <1>9, <1>10, <1>11, <1>12, <1>13, <1>14, <1>15, <1>16, <1>17, <1>18, <1>19, <1>20, <1>21, <1>22,
     <1>23, <1>24
     DEF VideoInv

(* return_pending_shared_keys: a slot goes back, the failing one is kept,   *)
(* or none is left and the thread ends.                                     *)
LEMMA WorkerDrainKeeps ==
  ASSUME VideoInv, NEW ok \in BOOLEAN, WorkerDrain(ok)
  PROVE  VideoInv'
<1> DEFINE mailbox == InState(slots, "mailbox")
           held == IF mailbox # {} THEN mailbox ELSE InState(slots, "retired")
           s == FirstSlot(held)
<1>0. /\ worker \in Workers /\ Hybrid /\ agent.path = "shared" /\ worker.at = "drain" /\ stopping
      /\ worker.slot \notin Slots /\ slots \in [Slots -> SlotValues] /\ NoSlot \notin Slots
      /\ ~NoFrame.repeated /\ (fatal \/ capture.at = "stopping")
      /\ \A t \in Slots : slots[t].state \in {"available", "writing", "mailbox", "worker", "retired"}
  <2>1. worker \in Workers /\ worker.at = "drain" /\ slots \in [Slots -> SlotValues] /\ NoSlot \notin Slots
    BY SourcesAreNumbers DEF VideoInv, WorkerTyped, SlotsTyped, WorkerDrain
  <2>2. Hybrid
    BY <2>1 DEF VideoInv, AtRest, NoWorker
  <2> QED
    BY <2>1, <2>2 DEF VideoInv, Places, WithSlot, ReadbackPlaces, Hybrid, SlotValues, NoFrame
<1>1. UNCHANGED <<capturing, coder, completions, history>>
  BY DEF WorkerDrain
<1>2. CASE held = {}
  <2>1. \A t \in Slots : slots[t].state \notin {"mailbox", "retired"}
    BY <1>2 DEF InState
  <2>2. /\ worker' \in Workers /\ worker'.slot = worker.slot /\ worker'.frame = worker.frame
        /\ worker'.has = worker.has /\ worker'.repeat = worker.repeat /\ worker'.consumed = worker.consumed
        /\ worker'.at = "done" /\ UNCHANGED <<slots, fatal, stopping, wake>>
    BY <1>0, <1>2 DEF WorkerDrain, NotFatal, Workers, WorkerPlaces
  <2>3. CaptureTyped'
    BY <1>0, <1>1, <2>1, <2>2 DEF VideoInv, CaptureTyped, capturing, history
  <2>4. WorkerTyped'
    BY <1>0, <1>1, <2>1, <2>2 DEF VideoInv, WorkerTyped, capturing, history
  <2>5. SlotsTyped'
    BY <1>0, <1>1, <2>1, <2>2 DEF VideoInv, SlotsTyped, capturing, history
  <2>6. AtRest'
    BY <1>0, <1>1, <2>1, <2>2 DEF VideoInv, AtRest, Hybrid, capturing, history
  <2>7. Places'
    BY <1>0, <1>1, <2>1, <2>2
       DEF VideoInv, Places, Hybrid, WithSlot, SharedPlaces, ReadbackPlaces, WorkerPlaces, capturing, history
  <2>8. OneMailbox'
    BY <1>0, <1>1, <2>1, <2>2 DEF VideoInv, OneMailbox, capturing, history
  <2>9. Owned'
    BY <1>0, <1>1, <2>1, <2>2 DEF VideoInv, Owned, Places, WithSlot, capturing, history
  <2>10. Keyed'
    BY <1>0, <1>1, <2>1, <2>2 DEF VideoInv, Keyed, Places, WithSlot, KeyFree, capturing, history
  <2>11. Blank'
    BY <1>0, <1>1, <2>1, <2>2 DEF VideoInv, Blank, Places, WithSlot, capturing, history
  <2>12. KeysComeBack'
    BY <1>0, <1>1, <2>1, <2>2 DEF VideoInv, KeysComeBack, Owned, Places, Keyed, KeyFree, capturing, history
  <2>13. InOrder'
    BY <1>0, <1>1, <2>1, <2>2
       DEF VideoInv, InOrder, BehindBatch, BehindMail, Behind, Held, Hybrid, InState, capturing, history
  <2>14. NewestSomewhere'
    BY <1>0, <1>1, <2>1, <2>2 DEF VideoInv, NewestSomewhere, Held, Hybrid, InState, capturing, history
  <2>15. Requested'
    BY <1>0, <1>1, <2>1, <2>2 DEF VideoInv, Requested, Hybrid, capturing, history
  <2>16. Pictures'
    BY <1>0, <1>1, <2>1, <2>2 DEF VideoInv, Pictures, capturing, history
  <2>17. Repeats'
    BY <1>0, <1>1, <2>1, <2>2 DEF VideoInv, Repeats, Known, capturing, history
  <2>18. Counts'
    BY <1>0, <1>1, <2>1, <2>2 DEF VideoInv, Counts, capturing, history
  <2>19. WireIsFaithful'
    BY <1>0, <1>1, <2>1, <2>2
       DEF VideoInv, WireIsFaithful, IdrIsNext, PictureIsCurrent, RepeatShowsKnown, capturing, history
  <2> QED
    BY <2>3, <2>4, <2>5, <2>6, <2>7, <2>8, <2>9, <2>10, <2>11, <2>12, <2>13, <2>14, <2>15, <2>16, <2>17, <2>18,
       <2>19
       DEF VideoInv
<1>3. CASE held # {}
  <2>1. s \in Slots /\ slots[s].state \in {"mailbox", "retired"}
    BY <1>3, FirstSlotIn DEF InState
  <2> HIDE DEF s
  <2>2. CASE ok
    <3>1. slots' = ReleaseWorker(ReleaseSync(slots, s, 0), s) /\ UNCHANGED <<worker, fatal, stopping, wake>>
      BY <1>3, <2>2 DEF WorkerDrain, NotFatal, s
    <3>2. FreedFrom(s)
      BY <1>0, <2>1, <3>1, ReturnedIsFree
    <3>3. CaptureTyped'
      BY <1>0, <1>1, <2>1, <3>1, <3>2 DEF VideoInv, CaptureTyped, FreedFrom, capturing, history
    <3>4. WorkerTyped'
      BY <1>0, <1>1, <2>1, <3>1, <3>2 DEF VideoInv, WorkerTyped, FreedFrom, capturing, history
    <3>5. SlotsTyped'
      BY <1>0, <1>1, <2>1, <3>1, <3>2 DEF VideoInv, SlotsTyped, FreedFrom, capturing, history
    <3>6. AtRest'
      BY <1>0, <1>1, <2>1, <3>1, <3>2 DEF VideoInv, AtRest, Hybrid, FreedFrom, capturing, history
    <3>7. Places'
      BY <1>0, <1>1, <2>1, <3>1, <3>2
         DEF VideoInv, Places, Hybrid, WithSlot, SharedPlaces, ReadbackPlaces, WorkerPlaces, FreedFrom,
             capturing, history
    <3>8. OneMailbox'
      BY <1>0, <1>1, <2>1, <3>1, <3>2 DEF VideoInv, OneMailbox, FreedFrom, capturing, history
    <3>9. Owned'
      BY <1>0, <1>1, <2>1, <3>1, <3>2 DEF VideoInv, Owned, Places, WithSlot, FreedFrom, capturing, history
    <3>10. Keyed'
      BY <1>0, <1>1, <2>1, <3>1, <3>2
         DEF VideoInv, Keyed, Places, WithSlot, KeyFree, FreedFrom, capturing, history
    <3>11. Blank'
      BY <1>0, <1>1, <2>1, <3>1, <3>2 DEF VideoInv, Blank, Places, Owned, FreedFrom, capturing, history
    <3>12. KeysComeBack'
      BY <1>0, <1>1, <2>1, <3>1, <3>2 DEF VideoInv, KeysComeBack, Places, KeyFree, FreedFrom, capturing, history
    <3>13. InOrder'
      BY <1>0, <1>1, <2>1, <3>1, <3>2
         DEF VideoInv, InOrder, BehindBatch, BehindMail, Behind, Held, Hybrid, InState, Places, FreedFrom,
             capturing, history
    <3>14. NewestSomewhere'
      BY <1>0, <1>1, <2>1, <3>1, <3>2
         DEF VideoInv, NewestSomewhere, Held, Hybrid, InState, FreedFrom, capturing, history
    <3>15. Requested'
      BY <1>0, <1>1, <2>1, <3>1, <3>2 DEF VideoInv, Requested, Hybrid, FreedFrom, capturing, history
    <3>16. Pictures'
      BY <1>0, <1>1, <2>1, <3>1, <3>2 DEF VideoInv, Pictures, FreedFrom, capturing, history
    <3>17. Repeats'
      BY <1>0, <1>1, <2>1, <3>1, <3>2 DEF VideoInv, Repeats, Known, FreedFrom, capturing, history
    <3>18. Counts'
      BY <1>0, <1>1, <2>1, <3>1, <3>2 DEF VideoInv, Counts, FreedFrom, capturing, history
    <3>19. WireIsFaithful'
      BY <1>0, <1>1, <2>1, <3>1, <3>2
         DEF VideoInv, WireIsFaithful, IdrIsNext, PictureIsCurrent, RepeatShowsKnown, FreedFrom, capturing,
             history
    <3> QED
      BY <3>3, <3>4, <3>5, <3>6, <3>7, <3>8, <3>9, <3>10, <3>11, <3>12, <3>13, <3>14, <3>15, <3>16, <3>17,
         <3>18, <3>19
         DEF VideoInv
  <2>3. CASE ~ok
    <3>1. /\ slots' = TakeByWorker(slots, s) /\ worker' = [worker EXCEPT !.at = "done"] /\ Fatal
      BY <1>3, <2>3 DEF WorkerDrain, s
    <3>2. TakenFrom(s)
      BY <1>0, <2>1, <3>1 DEF TakenFrom, TakeByWorker, SlotValues
    <3>3. /\ worker' \in Workers /\ worker'.slot = worker.slot /\ worker'.frame = worker.frame
          /\ worker'.has = worker.has /\ worker'.repeat = worker.repeat /\ worker'.consumed = worker.consumed
          /\ worker'.at = "done" /\ fatal' = TRUE /\ stopping' = TRUE /\ wake' = TRUE
      BY <1>0, <3>1 DEF Fatal, Workers, WorkerPlaces
    <3>4. CaptureTyped'
      BY <1>0, <1>1, <2>1, <3>2, <3>3 DEF VideoInv, CaptureTyped, TakenFrom, capturing, history
    <3>5. WorkerTyped'
      BY <1>0, <1>1, <2>1, <3>2, <3>3 DEF VideoInv, WorkerTyped, TakenFrom, capturing, history
    <3>6. SlotsTyped'
      BY <1>0, <1>1, <2>1, <3>2, <3>3 DEF VideoInv, SlotsTyped, TakenFrom, capturing, history
    <3>7. AtRest'
      BY <1>0, <1>1, <2>1, <3>2, <3>3 DEF VideoInv, AtRest, Hybrid, TakenFrom, capturing, history
    <3>8. Places'
      BY <1>0, <1>1, <2>1, <3>2, <3>3
         DEF VideoInv, Places, Hybrid, WithSlot, SharedPlaces, ReadbackPlaces, WorkerPlaces, TakenFrom,
             capturing, history
    <3>9. OneMailbox'
      BY <1>0, <1>1, <2>1, <3>2, <3>3 DEF VideoInv, OneMailbox, TakenFrom, capturing, history
    <3>10. Owned'
      BY <1>0, <1>1, <2>1, <3>2, <3>3 DEF VideoInv, Owned, Places, WithSlot, TakenFrom, capturing, history
    <3>11. Keyed'
      BY <1>0, <1>1, <2>1, <3>2, <3>3
         DEF VideoInv, Keyed, Places, WithSlot, KeyFree, TakenFrom, capturing, history
    <3>12. Blank'
      BY <1>0, <1>1, <2>1, <3>2, <3>3 DEF VideoInv, Blank, Places, WithSlot, TakenFrom, capturing, history
    <3>13. KeysComeBack'
      BY <1>0, <1>1, <2>1, <3>2, <3>3 DEF VideoInv, KeysComeBack, Places, KeyFree, TakenFrom, capturing, history
    <3>14. InOrder'
      BY <1>0, <1>1, <2>1, <3>2, <3>3
         DEF VideoInv, InOrder, BehindBatch, BehindMail, Behind, Held, Hybrid, InState, TakenFrom, capturing,
             history
    <3>15. NewestSomewhere'
      BY <1>0, <1>1, <2>1, <3>2, <3>3
         DEF VideoInv, NewestSomewhere, Held, Hybrid, InState, TakenFrom, capturing, history
    <3>16. Requested'
      BY <1>0, <1>1, <2>1, <3>2, <3>3 DEF VideoInv, Requested, Hybrid, TakenFrom, capturing, history
    <3>17. Pictures'
      BY <1>0, <1>1, <2>1, <3>2, <3>3 DEF VideoInv, Pictures, TakenFrom, capturing, history
    <3>18. Repeats'
      BY <1>0, <1>1, <2>1, <3>2, <3>3 DEF VideoInv, Repeats, Known, TakenFrom, capturing, history
    <3>19. Counts'
      BY <1>0, <1>1, <2>1, <3>2, <3>3 DEF VideoInv, Counts, TakenFrom, capturing, history
    <3>20. WireIsFaithful'
      BY <1>0, <1>1, <2>1, <3>2, <3>3
         DEF VideoInv, WireIsFaithful, IdrIsNext, PictureIsCurrent, RepeatShowsKnown, TakenFrom, capturing,
             history
    <3> QED
      BY <3>4, <3>5, <3>6, <3>7, <3>8, <3>9, <3>10, <3>11, <3>12, <3>13, <3>14, <3>15, <3>16, <3>17, <3>18,
         <3>19, <3>20
         DEF VideoInv
  <2> QED
    BY <2>2, <2>3
<1> QED
  BY <1>2, <1>3

-----------------------------------------------------------------------------
(* Steps of the capture thread.                                             *)

(* A step that moves no frame: it polls, reports and perhaps fails.         *)
Reports ==
    /\ UNCHANGED <<machine, capture, coder, slots, staging, worker, newest, history>> /\ Flagged /\ Completes
    /\ UNCHANGED <<stopping, fatal>> \/ Hybrid
    /\ agent' \in Agents /\ agent'.path = agent.path /\ agent'.submitted = agent.submitted
    /\ agent'.source >= agent.source /\ (agent'.source # agent.source => capture.at = "idle")
    /\ agent.force => agent'.force
    /\ content' \in 0..MaxContent /\ requests' \in Nat /\ permit' \in BOOLEAN /\ verdict' \in Statuses
    /\ requests' >= requests /\ (requests' > requests /\ agent.path = "sync" => agent'.force)
    /\ verdict' = "ok" => verdict = "ok"

(* A step that moves no frame keeps the invariant.                          *)
LEMMA ReportsKeeps ==
  ASSUME VideoInv, Reports
  PROVE  VideoInv'
<1>0. /\ newest \in Nat /\ agent.source \in Nat /\ agent'.source \in Nat /\ wire.source \in Nat
      /\ requests \in Nat /\ answered \in Nat /\ worker.consumed \in Nat /\ worker.requested \in Nat
  <2>1. agent'.source \in Nat
    BY VideoAssumption DEF Reports, Agents
  <2> QED
    BY <2>1, SourcesAreNumbers DEF VideoInv, CaptureTyped, WorkerTyped, Workers
<1>1. CaptureTyped'
  BY <1>0 DEF VideoInv, CaptureTyped, Reports, Flagged, Completes, history
<1>2. WorkerTyped'
  BY <1>0 DEF VideoInv, WorkerTyped, Reports, Flagged, Completes, history
<1>3. SlotsTyped'
  BY <1>0 DEF VideoInv, SlotsTyped, Reports, Flagged, Completes, history
<1>4. AtRest'
  BY <1>0 DEF VideoInv, AtRest, Hybrid, Reports, Flagged, Completes, history
<1>5. Places'
  BY <1>0 DEF VideoInv, Places, Hybrid, WithSlot, Reports, Flagged, Completes, history
<1>6. OneMailbox'
  BY <1>0 DEF VideoInv, OneMailbox, Reports, Flagged, Completes, history
<1>7. Owned'
  BY <1>0 DEF VideoInv, Owned, Places, WithSlot, Reports, Flagged, Completes, history
<1>8. Keyed'
  BY <1>0 DEF VideoInv, Keyed, Places, WithSlot, KeyFree, Reports, Flagged, Completes, history
<1>9. Blank'
  BY <1>0 DEF VideoInv, Blank, Places, WithSlot, Reports, Flagged, Completes, history
<1>10. KeysComeBack'
  <2>1. UNCHANGED <<slots, worker>> /\ agent'.path = agent.path /\ (fatal' = fatal \/ fatal' = TRUE)
    BY DEF Reports, Flagged
  <2> QED
    BY <2>1 DEF VideoInv, KeysComeBack, KeyFree
<1>11. InOrder'
  BY <1>0
     DEF VideoInv, InOrder, BehindBatch, BehindMail, Behind, Held, Hybrid, InState, Places, Reports, Flagged,
         Completes, history
<1>12. NewestSomewhere'
  BY <1>0 DEF VideoInv, NewestSomewhere, Held, Hybrid, InState, Reports, Flagged, Completes, history
<1>13. Requested'
  BY <1>0 DEF VideoInv, Requested, Hybrid, Reports, Flagged, Completes, history
<1>14. Pictures'
  BY <1>0 DEF VideoInv, Pictures, Reports, Flagged, Completes, history
<1>15. Repeats'
  BY <1>0 DEF VideoInv, Repeats, Known, Reports, Flagged, Completes, history
<1>16. Counts'
  BY <1>0 DEF VideoInv, Counts, Reports, Flagged, Completes, history
<1>17. WireIsFaithful'
  BY <1>0
     DEF VideoInv, WireIsFaithful, IdrIsNext, PictureIsCurrent, RepeatShowsKnown, Reports, Flagged, Completes,
         history
<1> QED
  BY <1>1, <1>2, <1>3, <1>4, <1>5, <1>6, <1>7, <1>8, <1>9, <1>10, <1>11, <1>12, <1>13, <1>14, <1>15, <1>16,
     <1>17
     DEF VideoInv

(* IdrRequestListener::poll_request counts at most one request.             *)
LEMMA PollCounts ==
  ASSUME VideoInv, NEW asked \in BOOLEAN, Poll(asked)
  PROVE  requests' \in Nat /\ requests \in Nat /\ requests' = IF asked THEN requests + 1 ELSE requests
BY DEF VideoInv, CaptureTyped, Poll

(* The presence datagram fails.                                             *)
LEMMA PresenceFailsKeeps ==
  ASSUME VideoInv, PresenceFails
  PROVE  VideoInv'
<1>1. agent.source \in Nat
  BY SourcesAreNumbers
<1>2. Reports
  BY <1>1 DEF VideoInv, CaptureTyped, WorkerTyped, PresenceFails, Reports, Flagged, Completes, Statuses, history
<1> QED
  BY <1>2, ReportsKeeps

(* The lease ends or is renewed.                                            *)
LEMMA PermitKeeps ==
  ASSUME VideoInv, Revoke \/ Grant
  PROVE  VideoInv'
<1>1. agent.source \in Nat /\ agent \in Agents
  BY SourcesAreNumbers DEF VideoInv, CaptureTyped
<1>2. /\ UNCHANGED <<machine, capture, coder, slots, staging, worker, newest, wire, known, answered>>
      /\ UNCHANGED <<agent, stopping, fatal, wake, content, requests, verdict, completions>>
      /\ permit' \in BOOLEAN
  BY DEF Revoke, Grant, sharedState, history, budget
<1>3. Reports
  BY <1>1, <1>2 DEF VideoInv, CaptureTyped, WorkerTyped, Reports, Flagged, Completes, history
<1> QED
  BY <1>3, ReportsKeeps

(* A step that ends early, or finds nothing new on the desktop.             *)
LEMMA StepEndsKeeps ==
  ASSUME VideoInv, NEW asked \in BOOLEAN, StepEnds(asked) \/ NothingCaptured(asked)
  PROVE  VideoInv'
<1>1. agent \in Agents /\ agent.source \in Nat
  BY SourcesAreNumbers DEF VideoInv, CaptureTyped
<1>2. /\ agent' \in Agents /\ agent'.path = agent.path /\ agent'.submitted = agent.submitted
      /\ agent'.source = agent.source /\ (agent.force => agent'.force)
      /\ asked /\ agent.path = "sync" => agent'.force
  <2>1. agent' = IF asked /\ ~Hybrid THEN [agent EXCEPT !.force = TRUE] ELSE agent
    BY DEF StepEnds, NothingCaptured
  <2> QED
    BY <1>1, <2>1 DEF Agents, Hybrid
<1>3. Poll(asked) /\ MayStep /\ \E status \in Statuses : Finish(status)
  BY DEF StepEnds, NothingCaptured, Statuses
<1>4. verdict' \in Statuses /\ completions' = <<>>
  BY <1>3, FinishReports DEF VideoInv, WorkerTyped
<1>5. requests' \in Nat /\ requests \in Nat /\ requests' = IF asked THEN requests + 1 ELSE requests
  BY <1>3, PollCounts
<1>6. Completes
  BY <1>4, VideoAssumption DEF Completes
<1>7. /\ UNCHANGED <<machine, capture, coder, slots, staging, worker, newest, wire, known, answered>>
      /\ UNCHANGED <<stopping, fatal, wake, content, permit>>
  BY DEF StepEnds, NothingCaptured, sharedState, history, budget
<1>8. Reports
  BY <1>1, <1>2, <1>3, <1>4, <1>5, <1>6, <1>7 DEF VideoInv, CaptureTyped, WorkerTyped, Reports, Flagged,
     MayStep, Hybrid, history
<1> QED
  BY <1>8, ReportsKeeps

(* Map fails and the batch is dropped.                                      *)
LEMMA PumpFailsKeeps ==
  ASSUME VideoInv, NEW asked \in BOOLEAN, NEW got \in BOOLEAN, PumpFails(asked, got)
  PROVE  VideoInv'
<1>1. agent \in Agents /\ agent.source \in Nat
  BY SourcesAreNumbers DEF VideoInv, CaptureTyped
<1>2. agent.path = "readback" /\ verdict = "ok" /\ Poll(asked) /\ \E status \in Statuses : Finish(status)
  BY DEF PumpFails, MayCapture, MayStep, Statuses
<1>3. verdict' \in Statuses /\ completions' = <<>>
  BY <1>2, FinishReports DEF VideoInv, WorkerTyped
<1>4. requests' \in Nat /\ requests \in Nat /\ requests' = IF asked THEN requests + 1 ELSE requests
  BY <1>2, PollCounts
<1>5. Completes
  BY <1>3, VideoAssumption DEF Completes
<1>6. Reports
  BY <1>1, <1>2, <1>3, <1>4, <1>5
     DEF VideoInv, CaptureTyped, PumpFails, Reports, Flagged, Fatal, Hybrid, history
<1> QED
  BY <1>6, ReportsKeeps

(* release_runtime_resources leaves everything as new.                      *)
LEMMA ReleasedKeeps ==
  ASSUME VideoInv, Released
  PROVE  VideoInv'
<1>1. /\ NoFrame \in Frames /\ ~NoFrame.repeated /\ NoSlot \notin Slots /\ MaxSource \in Nat /\ MaxContent \in Nat
      /\ MaxSequence \in Nat /\ CompletionCapacity \in Nat /\ Cardinality(Slots) \in Nat
  BY SourcesAreNumbers, VideoAssumption, FS_CardinalityType DEF NoFrame
<1>2. Down \in Agents /\ Down.path = "down" /\ Down.submitted = 0
  BY <1>1 DEF Down, Agents, NoBridge, Bridges
<1>3. NoCoder \in Coders /\ NoCoder.encoder.inside = <<>>
  <2>1. <<>> \in Seq(0..MaxContent) /\ {} \in SUBSET Int
    OBVIOUS
  <2>2. NoEncoder \in Encoders /\ NoEncoder.inside = <<>>
    BY <2>1 DEF NoEncoder, Encoders
  <2> QED
    BY <1>1, <2>2 DEF NoCoder, Coders
<1>4. /\ NoWorker \in Workers /\ NoWorker.at = "off" /\ NoWorker.slot = NoSlot /\ NoWorker.frame = NoFrame
      /\ ~NoWorker.repeat
  <2>1. NoOutput \in Outputs
    BY <1>1 DEF NoOutput, Outputs
  <2> QED
    BY <1>1, <2>1 DEF NoWorker, Workers, WorkerPlaces
<1>5. Idle \in Captures /\ Idle.at = "idle" /\ Idle.frame = NoFrame /\ Idle.slot = NoSlot
  BY <1>1 DEF Idle, Captures
<1>6. /\ FreshSlots \in [Slots -> SlotValues]
      /\ \A s \in Slots : FreshSlots[s].state = "available" /\ FreshSlots[s].frame = NoFrame
  BY <1>1 DEF FreshSlots, FreeSlot, SlotValues
<1>7. /\ <<>> \in Seq(Frames) /\ <<>> \in Seq(Statuses) /\ Len(<<>>) = 0
  OBVIOUS
<1>8. CaptureTyped'
  BY <1>1, <1>2, <1>3, <1>4, <1>5, <1>6, <1>7 DEF VideoInv, CaptureTyped, Released, history, budget
<1>9. WorkerTyped'
  <2>1. /\ coder' \in Coders /\ worker' \in Workers /\ completions' = <<>>
        /\ wake' = FALSE /\ stopping' = FALSE /\ fatal' = FALSE /\ UNCHANGED <<wire, known, answered>>
    BY <1>3, <1>4 DEF Released, history
  <2>2. completions' \in Seq(Statuses) /\ Len(completions') <= CompletionCapacity
    BY <1>1, <2>1
  <2> QED
    BY <2>1, <2>2 DEF VideoInv, WorkerTyped
<1>10. SlotsTyped'
  BY <1>1, <1>2, <1>3, <1>4, <1>5, <1>6, <1>7 DEF VideoInv, SlotsTyped, Released, history, budget
<1>11. AtRest'
  BY <1>1, <1>2, <1>3, <1>4, <1>5, <1>6, <1>7 DEF VideoInv, AtRest, Hybrid, Released, history, budget
<1>12. Places'
  BY <1>1, <1>2, <1>3, <1>4, <1>5, <1>6, <1>7 DEF VideoInv, Places, Hybrid, WithSlot, Released, history, budget
<1>13. OneMailbox'
  BY <1>1, <1>2, <1>3, <1>4, <1>5, <1>6, <1>7 DEF VideoInv, OneMailbox, Released, history, budget
<1>14. Owned'
  BY <1>1, <1>2, <1>3, <1>4, <1>5, <1>6, <1>7 DEF VideoInv, Owned, Places, WithSlot, Released, history, budget
<1>15. Keyed'
  BY <1>1, <1>2, <1>3, <1>4, <1>5, <1>6, <1>7
     DEF VideoInv, Keyed, Places, WithSlot, KeyFree, Released, history, budget
<1>16. Blank'
  BY <1>1, <1>2, <1>3, <1>4, <1>5, <1>6, <1>7 DEF VideoInv, Blank, Places, WithSlot, Released, history, budget
<1>17. KeysComeBack'
  BY <1>1, <1>2, <1>3, <1>4, <1>5, <1>6, <1>7
     DEF VideoInv, KeysComeBack, Places, KeyFree, Released, history, budget
<1>18. InOrder'
  BY <1>1, <1>2, <1>3, <1>4, <1>5, <1>6, <1>7
     DEF VideoInv, InOrder, BehindBatch, BehindMail, Behind, Held, Hybrid, InState, Released, history, budget
<1>19. NewestSomewhere'
  BY <1>1, <1>2, <1>3, <1>4, <1>5, <1>6, <1>7
     DEF VideoInv, NewestSomewhere, Held, Hybrid, InState, Released, history, budget
<1>20. Requested'
  BY <1>1, <1>2, <1>3, <1>4, <1>5, <1>6, <1>7 DEF VideoInv, Requested, Hybrid, Released, history, budget
<1>21. Pictures'
  BY <1>1, <1>2, <1>3, <1>4, <1>5, <1>6, <1>7 DEF VideoInv, Pictures, Released, history, budget
<1>22. Repeats'
  BY <1>1, <1>2, <1>3, <1>4, <1>5, <1>6, <1>7 DEF VideoInv, Repeats, Known, Released, history, budget
<1>23. Counts'
  BY <1>1, <1>2, <1>3, <1>4, <1>5, <1>6, <1>7 DEF VideoInv, Counts, Released, history, budget
<1>24. WireIsFaithful'
  BY <1>1, <1>2, <1>3, <1>4, <1>5, <1>6, <1>7
     DEF VideoInv, WireIsFaithful, IdrIsNext, PictureIsCurrent, RepeatShowsKnown, Released, NoCoder, NoEncoder,
         history, budget
<1> QED
  BY <1>8, <1>9, <1>10, <1>11, <1>12, <1>13, <1>14, <1>15, <1>16, <1>17, <1>18, <1>19, <1>20, <1>21, <1>22,
     <1>23, <1>24
     DEF VideoInv

(* HostApplication::stop with an encoder thread to wait for.                *)
LEMMA StopBeginKeeps ==
  ASSUME VideoInv, StopBegin
  PROVE  VideoInv'
<1>1. CASE ~Hybrid
  BY <1>1, ReleasedKeeps DEF StopBegin
<1>2. CASE Hybrid
  <2>1. /\ stopping' = TRUE /\ wake' = TRUE /\ capture.at = "idle" /\ capture' = [Idle EXCEPT !.at = "stopping"]
        /\ UNCHANGED <<agent, content, coder, slots, staging, worker, fatal, completions,
                       requests, permit, verdict, newest, wire, known, answered, machine>>
    BY <1>2 DEF StopBegin, history, budget
  <2>2. NoFrame \in Frames /\ NoSlot \notin Slots
    BY SourcesAreNumbers
  <2>3. /\ capture' \in Captures /\ capture'.at = "stopping"
        /\ capture'.frame = NoFrame /\ capture'.slot = NoSlot
    BY <2>1, <2>2 DEF Captures, Idle
  <2>4. capture.frame = NoFrame /\ capture.slot = NoSlot
    BY <2>1 DEF VideoInv, Places
  <2>5. CaptureTyped'
    BY <1>2, <2>1, <2>2, <2>3, <2>4 DEF VideoInv, CaptureTyped
  <2>6. WorkerTyped'
    BY <1>2, <2>1, <2>2, <2>3, <2>4 DEF VideoInv, WorkerTyped
  <2>7. SlotsTyped'
    BY <1>2, <2>1, <2>2, <2>3, <2>4 DEF VideoInv, SlotsTyped
  <2>8. AtRest'
    BY <1>2, <2>1, <2>2, <2>3, <2>4 DEF VideoInv, AtRest, Hybrid
  <2>9. Places'
    BY <1>2, <2>1, <2>2, <2>3, <2>4 DEF VideoInv, Places, Hybrid, WithSlot
  <2>10. OneMailbox'
    BY <1>2, <2>1, <2>2, <2>3, <2>4 DEF VideoInv, OneMailbox
  <2>11. Owned'
    BY <1>2, <2>1, <2>2, <2>3, <2>4 DEF VideoInv, Owned, Places, WithSlot
  <2>12. Keyed'
    BY <1>2, <2>1, <2>2, <2>3, <2>4 DEF VideoInv, Keyed, Places, WithSlot, KeyFree
  <2>13. Blank'
    BY <1>2, <2>1, <2>2, <2>3, <2>4 DEF VideoInv, Blank, Places, WithSlot
  <2>14. KeysComeBack'
    BY <1>2, <2>1, <2>2, <2>3, <2>4 DEF VideoInv, KeysComeBack, Places, KeyFree
  <2>15. InOrder'
    BY <1>2, <2>1, <2>2, <2>3, <2>4
       DEF VideoInv, InOrder, BehindBatch, BehindMail, Behind, Held, Hybrid, InState
  <2>16. NewestSomewhere'
    BY <1>2, <2>1, <2>2, <2>3, <2>4 DEF VideoInv, NewestSomewhere, Held, Hybrid, InState
  <2>17. Requested'
    BY <1>2, <2>1, <2>2, <2>3, <2>4 DEF VideoInv, Requested, Hybrid
  <2>18. Pictures'
    BY <1>2, <2>1, <2>2, <2>3, <2>4 DEF VideoInv, Pictures
  <2>19. Repeats'
    BY <1>2, <2>1, <2>2, <2>3, <2>4 DEF VideoInv, Repeats, Known
  <2>20. Counts'
    BY <1>2, <2>1, <2>2, <2>3, <2>4 DEF VideoInv, Counts
  <2>21. WireIsFaithful'
    BY <1>2, <2>1, <2>2, <2>3, <2>4 DEF VideoInv, WireIsFaithful, IdrIsNext, PictureIsCurrent, RepeatShowsKnown
  <2> QED
    BY <2>5, <2>6, <2>7, <2>8, <2>9, <2>10, <2>11, <2>12, <2>13, <2>14, <2>15, <2>16, <2>17, <2>18, <2>19,
       <2>20, <2>21
       DEF VideoInv
<1> QED
  BY <1>1, <1>2

(* The encoder thread is joined.                                            *)
LEMMA StopEndKeeps ==
  ASSUME VideoInv, StopEnd
  PROVE  VideoInv'
BY ReleasedKeeps DEF StopEnd

(* DesktopVideoAgent::initialize begins a stream.                           *)
LEMMA StartKeeps ==
  ASSUME VideoInv, Start
  PROVE  VideoInv'
<1>1. /\ NoFrame \in Frames /\ ~NoFrame.repeated /\ NoSlot \notin Slots /\ MaxSource \in Nat /\ MaxContent \in Nat
      /\ MaxSequence \in Nat /\ NoFrame.source = 0
  BY SourcesAreNumbers, VideoAssumption DEF NoFrame
<1>2. PICK candidate : /\ agent' = AgentOf(candidate)
                       /\ coder' = [NoCoder EXCEPT !.encoder = EncoderInitialize(BackendOf(candidate))]
                       /\ worker' = IF AgentOf(candidate).path = "sync" THEN NoWorker ELSE WorkerStart
  BY DEF Start
<1> DEFINE path == PathOf(candidate, machine)
<1>3. /\ path \in {"sync", "shared", "readback"}
      /\ path # "sync" => BackendOf(candidate) = "nvenc"
      /\ BackendOf(candidate) \in {"nvenc", "windows_hardware", "software_cpu"}
  BY DEF PathOf, BackendOf
<1>4. /\ agent' \in Agents /\ agent'.path = path /\ agent'.submitted = 0 /\ agent'.source = 0
  <2>1. NoBridge \in Bridges /\ BridgeInitialize(candidate, machine) \in Bridges
    <3>1. NoBridge \in Bridges
      BY DEF NoBridge, Bridges
    <3>2. \A direct \in BOOLEAN : [NoBridge EXCEPT !.direct = direct] \in Bridges
      BY <3>1 DEF Bridges
    <3> QED
      BY <3>1, <3>2 DEF BridgeInitialize
  <2>2. Down \in Agents
    BY <1>1, <2>1 DEF Down, Agents
  <2>3. /\ Down \in Agents /\ Down.submitted = 0 /\ Down.source = 0
    BY <2>2 DEF Down
  <2> HIDE DEF path
  <2>4. agent' = [Down EXCEPT !.path = path,
                    !.bridge = IF path = "sync" THEN BridgeInitialize(candidate, machine) ELSE NoBridge]
    BY <1>2 DEF AgentOf, path
  <2> QED
    BY <1>3, <2>1, <2>3, <2>4 DEF Agents
<1>5. /\ coder' \in Coders /\ coder'.encoder.inside = <<>> /\ coder'.sequence = 0
      /\ path # "sync" => coder'.encoder.backend = "nvenc"
  <2>1. <<>> \in Seq(0..MaxContent) /\ {} \in SUBSET Int
    OBVIOUS
  <2>2. NoEncoder \in Encoders /\ NoEncoder.inside = <<>>
    BY <2>1 DEF NoEncoder, Encoders
  <2>3. LET e == EncoderInitialize(BackendOf(candidate))
        IN e \in Encoders /\ e.inside = <<>> /\ e.backend = BackendOf(candidate)
    BY <1>3, <2>2 DEF EncoderInitialize, NvencInitialize, MediaFoundationInitialize, Encoders
  <2>4. NoCoder \in Coders /\ NoCoder.sequence = 0
    BY <1>1, <2>2 DEF NoCoder, Coders
  <2> QED
    BY <1>2, <1>3, <2>3, <2>4 DEF Coders
<1>6. /\ worker' \in Workers /\ worker'.slot = NoSlot /\ worker'.frame = NoFrame
      /\ ~worker'.repeat /\ ~worker'.has /\ worker'.consumed = 0
      /\ path = "sync" => worker' = NoWorker /\ worker'.at = "off"
      /\ path # "sync" => worker'.at = "wait"
  <2>1. NoOutput \in Outputs
    BY <1>1 DEF NoOutput, Outputs
  <2>2. NoWorker \in Workers
    BY <1>1, <2>1 DEF NoWorker, Workers, WorkerPlaces
  <2>3. worker' = IF path = "sync" THEN NoWorker ELSE [NoWorker EXCEPT !.at = "wait"]
    BY <1>2, <1>4 DEF WorkerStart
  <2> QED
    BY <2>2, <2>3 DEF NoWorker, Workers, WorkerPlaces
<1> HIDE DEF path
<1>7. /\ agent.path = "down" /\ ~Hybrid /\ capture = Idle /\ slots = FreshSlots /\ staging = <<>> /\ ~stopping /\ ~fatal
      /\ Idle.at = "idle" /\ Idle.frame = NoFrame /\ Idle.slot = NoSlot
      /\ \A s \in Slots : /\ FreshSlots[s].state = "available" /\ FreshSlots[s].frame = NoFrame
                          /\ FreshSlots[s].key = 0 /\ FreshSlots[s].owner = "none"
      /\ Len(<<>>) = 0
  BY DEF VideoInv, AtRest, Hybrid, Start, Idle, FreshSlots, FreeSlot
<1>8. /\ content' = 0 /\ verdict' = "ok" /\ wire' = NoWire /\ known' = {} /\ answered' = 0 /\ newest' = 0
      /\ requests' = 0
      /\ UNCHANGED <<machine, capture, slots, staging, wake, stopping, fatal, completions, permit>>
  BY DEF Start
<1>9. /\ NoWire \in Wires /\ NoWire.source = 0 /\ NoWire.sequence = -1 /\ ~NoWire.complete
      /\ NoWire.picture = NoWire.content /\ ~NoWire.repeated /\ ~NoWire.owed
  BY <1>1 DEF NoWire, Wires
<1>10. CaptureTyped'
  BY <1>1, <1>3, <1>4, <1>5, <1>6, <1>7, <1>8, <1>9 DEF VideoInv, CaptureTyped, Statuses
<1>11. WorkerTyped'
  BY <1>1, <1>3, <1>4, <1>5, <1>6, <1>7, <1>8, <1>9 DEF VideoInv, WorkerTyped
<1>12. SlotsTyped'
  BY <1>1, <1>3, <1>4, <1>5, <1>6, <1>7, <1>8, <1>9 DEF VideoInv, SlotsTyped
<1>13. AtRest'
  BY <1>1, <1>3, <1>4, <1>5, <1>6, <1>7, <1>8, <1>9 DEF VideoInv, AtRest, Hybrid
<1>14. Places'
  BY <1>1, <1>3, <1>4, <1>5, <1>6, <1>7, <1>8, <1>9
     DEF VideoInv, Places, Hybrid, WithSlot, SharedPlaces, ReadbackPlaces, WorkerPlaces
<1>15. OneMailbox'
  BY <1>1, <1>3, <1>4, <1>5, <1>6, <1>7, <1>8, <1>9 DEF VideoInv, OneMailbox
<1>16. Owned'
  BY <1>1, <1>3, <1>4, <1>5, <1>6, <1>7, <1>8, <1>9 DEF VideoInv, Owned, Places, WithSlot
<1>17. Keyed'
  BY <1>1, <1>3, <1>4, <1>5, <1>6, <1>7, <1>8, <1>9 DEF VideoInv, Keyed, Places, WithSlot, KeyFree
<1>18. Blank'
  BY <1>1, <1>3, <1>4, <1>5, <1>6, <1>7, <1>8, <1>9 DEF VideoInv, Blank, Places, WithSlot
<1>19. KeysComeBack'
  BY <1>1, <1>3, <1>4, <1>5, <1>6, <1>7, <1>8, <1>9 DEF VideoInv, KeysComeBack, Places, KeyFree
<1>20. InOrder'
  BY <1>1, <1>3, <1>4, <1>5, <1>6, <1>7, <1>8, <1>9
     DEF VideoInv, InOrder, BehindBatch, BehindMail, Behind, Held, Hybrid, InState
<1>21. NewestSomewhere'
  BY <1>1, <1>3, <1>4, <1>5, <1>6, <1>7, <1>8, <1>9 DEF VideoInv, NewestSomewhere, Held, Hybrid, InState
<1>22. Requested'
  BY <1>1, <1>3, <1>4, <1>5, <1>6, <1>7, <1>8, <1>9 DEF VideoInv, Requested, Hybrid
<1>23. Pictures'
  BY <1>1, <1>3, <1>4, <1>5, <1>6, <1>7, <1>8, <1>9 DEF VideoInv, Pictures
<1>24. Repeats'
  BY <1>1, <1>3, <1>4, <1>5, <1>6, <1>7, <1>8, <1>9 DEF VideoInv, Repeats, Known
<1>25. Counts'
  BY <1>1, <1>3, <1>4, <1>5, <1>6, <1>7, <1>8, <1>9 DEF VideoInv, Counts
<1>26. WireIsFaithful'
  BY <1>1, <1>3, <1>4, <1>5, <1>6, <1>7, <1>8, <1>9
     DEF VideoInv, WireIsFaithful, IdrIsNext, PictureIsCurrent, RepeatShowsKnown
<1> QED
  BY <1>10, <1>11, <1>12, <1>13, <1>14, <1>15, <1>16, <1>17, <1>18, <1>19, <1>20, <1>21, <1>22, <1>23, <1>24,
     <1>25, <1>26
     DEF VideoInv

(* A captured frame has the next number, and is called a repeat only of     *)
(* what was accepted.                                                       *)
LEMMA CapturedIsKnown ==
  ASSUME VideoInv, NEW again \in BOOLEAN, MayCapture(again)
  PROVE  LET frame == CapturedFrame(again)
         IN /\ frame \in Frames /\ frame.source = agent.source + 1
            /\ frame.content = (IF again THEN content ELSE content + 1)
            /\ agent.path \in {"sync", "shared"} => Known(frame)
            /\ ~again => ~frame.repeated
            /\ capture.at = "idle" /\ verdict = "ok"
<1>1. agent \in Agents /\ content \in 0..MaxContent /\ MaxSource \in Nat /\ MaxContent \in Nat
  BY VideoAssumption DEF VideoInv, CaptureTyped
<1>2. agent.source \in 0..MaxSource /\ agent.submitted \in 0..MaxContent
  BY <1>1 DEF Agents
<1>3. agent.source < MaxSource /\ capture.at = "idle" /\ verdict = "ok"
  BY DEF MayCapture, MayStep
<1> DEFINE c == IF again THEN content ELSE content + 1
           repeated == again /\ c = agent.submitted
<1>4. c \in 0..MaxContent /\ repeated \in BOOLEAN
  BY <1>1 DEF MayCapture
<1>5. agent.path \in {"sync", "shared"} /\ repeated => c \in known
  BY DEF VideoInv, Repeats, MayCapture
<1>6. CapturedFrame(again) = [source |-> agent.source + 1, content |-> c, repeated |-> repeated]
  BY DEF CapturedFrame, RepeatLast, AcquireNext
<1>7. ~again => ~repeated
  OBVIOUS
<1>8. agent.source + 1 \in 0..MaxSource
  BY <1>1, <1>2, <1>3
<1> HIDE DEF repeated
<1> QED
  BY <1>3, <1>4, <1>5, <1>6, <1>7, <1>8 DEF Frames, Known

(* submit_shared_unlocked up to the copy.                                   *)
LEMMA CaptureSharedKeeps ==
  ASSUME VideoInv, NEW asked \in BOOLEAN, NEW again \in BOOLEAN, CaptureShared(asked, again)
  PROVE  VideoInv'
<1> DEFINE frame == CapturedFrame(again)
           free == InState(slots, "available")
           s == FirstSlot(free)
<1>1. /\ frame \in Frames /\ frame.source = agent.source + 1 /\ Known(frame)
      /\ capture.at = "idle" /\ verdict = "ok" /\ agent.path = "shared" /\ MayCapture(again) /\ Poll(asked)
      /\ frame.content \in 0..MaxContent /\ frame.source \in 0..MaxSource
  BY CapturedIsKnown DEF CaptureShared, Frames
<1> HIDE DEF frame
<1>2. agent' = [agent EXCEPT !.source = frame.source] /\ content' = frame.content
  BY DEF CaptureShared, frame
<1>3. /\ agent' \in Agents /\ agent'.path = "shared" /\ agent'.submitted = agent.submitted
      /\ agent'.force = agent.force /\ agent'.source = agent.source + 1 /\ agent.source \in Nat
      /\ agent \in Agents
  BY <1>1, <1>2, SourcesAreNumbers DEF VideoInv, CaptureTyped, Agents
<1>4. requests' \in Nat /\ requests \in Nat /\ requests' = IF asked THEN requests + 1 ELSE requests
  BY <1>1, PollCounts
<1>5. /\ UNCHANGED <<coder, staging, worker, wake, stopping, fatal, permit, newest, wire, known, answered, machine>>
  BY DEF CaptureShared, history, budget
<1>6. CASE free = {}
  <2>1. Finish("ok") /\ UNCHANGED <<capture, slots>>
    BY <1>6 DEF CaptureShared
  <2>2. verdict' \in Statuses /\ Completes
    BY <2>1, FinishReports, VideoAssumption DEF VideoInv, WorkerTyped, Statuses, Completes
  <2>3. Reports
    BY <1>1, <1>2, <1>3, <1>4, <1>5, <2>1, <2>2
       DEF VideoInv, CaptureTyped, WorkerTyped, Reports, Flagged, history
  <2> QED
    BY <2>3, ReportsKeeps
<1>7. CASE free # {}
  <2>1. s \in Slots /\ slots[s].state = "available"
    BY <1>7, FirstSlotIn DEF InState
  <2> HIDE DEF s
  <2>2. /\ slots' = Acquire(slots, s) /\ UNCHANGED <<completions, verdict>>
        /\ capture' = [at |-> "copy", frame |-> frame, slot |-> s]
    BY <1>7 DEF CaptureShared, frame, s
  <2>3. /\ slots \in [Slots -> SlotValues] /\ slots' \in [Slots -> SlotValues]
        /\ \A t \in Slots \ {s} : slots'[t] = slots[t]
        /\ slots'[s].state = "writing" /\ slots'[s].frame = slots[s].frame
        /\ slots'[s].key = slots[s].key /\ slots'[s].owner = slots[s].owner
    BY <2>1, <2>2 DEF VideoInv, SlotsTyped, Acquire, SlotValues
  <2>4. /\ capture' \in Captures /\ capture'.at = "copy" /\ capture'.frame = frame /\ capture'.slot = s
    BY <1>1, <2>1, <2>2 DEF Captures
  <2>5. /\ capture.frame = NoFrame /\ capture.slot = NoSlot /\ NoSlot \notin Slots /\ newest \in Nat
    BY <1>1, SourcesAreNumbers DEF VideoInv, Places
  <2>5a. /\ worker.consumed \in Nat /\ worker.requested \in Nat /\ answered \in Nat
         /\ Held => worker.slot \in Slots /\ worker.slot # s
    BY <1>1, <2>1 DEF VideoInv, WorkerTyped, Workers, Held, Places, WithSlot, Owned, Hybrid, SharedPlaces
  <2>6. CaptureTyped'
    BY <1>1, <1>2, <1>3, <1>4, <1>5, <2>1, <2>2, <2>3, <2>4, <2>5 DEF VideoInv, CaptureTyped
  <2>7. WorkerTyped'
    BY <1>1, <1>2, <1>3, <1>4, <1>5, <2>1, <2>2, <2>3, <2>4, <2>5 DEF VideoInv, WorkerTyped
  <2>8. SlotsTyped'
    BY <1>1, <1>2, <1>3, <1>4, <1>5, <2>1, <2>2, <2>3, <2>4, <2>5 DEF VideoInv, SlotsTyped
  <2>9. AtRest'
    BY <1>1, <1>2, <1>3, <1>4, <1>5, <2>1, <2>2, <2>3, <2>4, <2>5 DEF VideoInv, AtRest, Hybrid
  <2>10. Places'
    BY <1>1, <1>2, <1>3, <1>4, <1>5, <2>1, <2>2, <2>3, <2>4, <2>5 DEF VideoInv, Places, Hybrid, WithSlot
  <2>11. OneMailbox'
    BY <1>1, <1>2, <1>3, <1>4, <1>5, <2>1, <2>2, <2>3, <2>4, <2>5 DEF VideoInv, OneMailbox
  <2>12. Owned'
    BY <1>1, <1>2, <1>3, <1>4, <1>5, <2>1, <2>2, <2>3, <2>4, <2>5 DEF VideoInv, Owned, Places, WithSlot
  <2>13. Keyed'
    BY <1>1, <1>2, <1>3, <1>4, <1>5, <2>1, <2>2, <2>3, <2>4, <2>5 DEF VideoInv, Keyed, Places, WithSlot, KeyFree
  <2>14. Blank'
    BY <1>1, <1>2, <1>3, <1>4, <1>5, <2>1, <2>2, <2>3, <2>4, <2>5 DEF VideoInv, Blank, Places, WithSlot
  <2>15. KeysComeBack'
    BY <1>1, <1>2, <1>3, <1>4, <1>5, <2>1, <2>2, <2>3, <2>4, <2>5 DEF VideoInv, KeysComeBack, Places, KeyFree
  <2>16. InOrder'
    BY <1>1, <1>2, <1>3, <1>4, <1>5, <2>1, <2>2, <2>3, <2>4, <2>5, <2>5a
       DEF VideoInv, InOrder, BehindBatch, BehindMail, Behind, Held, Hybrid, InState, Owned, Places, WithSlot
  <2>17. NewestSomewhere'
    BY <1>1, <1>2, <1>3, <1>4, <1>5, <2>1, <2>2, <2>3, <2>4, <2>5, <2>5a
       DEF VideoInv, NewestSomewhere, Held, Hybrid, InState, Owned, Places, WithSlot
  <2>18. Requested'
    BY <1>1, <1>2, <1>3, <1>4, <1>5, <2>1, <2>2, <2>3, <2>4, <2>5, <2>5a DEF VideoInv, Requested, Hybrid
  <2>19. Pictures'
    BY <1>1, <1>2, <1>3, <1>4, <1>5, <2>1, <2>2, <2>3, <2>4, <2>5 DEF VideoInv, Pictures
  <2>20. Repeats'
    BY <1>1, <1>2, <1>3, <1>4, <1>5, <2>1, <2>2, <2>3, <2>4, <2>5 DEF VideoInv, Repeats, Known
  <2>21. Counts'
    BY <1>1, <1>2, <1>3, <1>4, <1>5, <2>1, <2>2, <2>3, <2>4, <2>5 DEF VideoInv, Counts
  <2>22. WireIsFaithful'
    BY <1>1, <1>2, <1>3, <1>4, <1>5, <2>1, <2>2, <2>3, <2>4, <2>5
       DEF VideoInv, WireIsFaithful, IdrIsNext, PictureIsCurrent, RepeatShowsKnown
  <2> QED
    BY <2>6, <2>7, <2>8, <2>9, <2>10, <2>11, <2>12, <2>13, <2>14, <2>15, <2>16, <2>17, <2>18, <2>19, <2>20,
       <2>21, <2>22
       DEF VideoInv
<1> QED
  BY <1>6, <1>7

(* publish_latest: one slot is in the mailbox, what was there has moved.    *)
PublishedFrom(before, s, replacedState) ==
    /\ slots' \in [Slots -> SlotValues]
    /\ slots'[s].state = "mailbox" /\ slots'[s].frame = before[s].frame
    /\ slots'[s].key = before[s].key /\ slots'[s].owner = before[s].owner
    /\ \A t \in Slots \ {s} :
         IF before[t].state = "mailbox"
         THEN /\ slots'[t].state = replacedState /\ slots'[t].frame = NoFrame
              /\ slots'[t].key = before[t].key /\ slots'[t].owner = before[t].owner
         ELSE slots'[t] = before[t]

(* PublishLatest does so for a slot that was not in the mailbox.            *)
LEMMA PublishMoves ==
  ASSUME NEW before \in [Slots -> SlotValues], NEW s \in Slots, NEW replacedState \in {"retired", "available"},
         before[s].state # "mailbox", slots' = PublishLatest(before, s, replacedState)
  PROVE  PublishedFrom(before, s, replacedState)
<1> DEFINE moved == Replaced(before, replacedState)
<1>1. NoFrame \in Frames
  BY VideoAssumption DEF NoFrame, Frames
<1>2. \A v \in SlotValues : /\ Emptied(v, replacedState) \in SlotValues
                            /\ Emptied(v, replacedState).state = replacedState
                            /\ Emptied(v, replacedState).frame = NoFrame
                            /\ Emptied(v, replacedState).key = v.key
                            /\ Emptied(v, replacedState).owner = v.owner
  BY <1>1 DEF Emptied, SlotValues
<1>3. /\ moved \in [Slots -> SlotValues] /\ moved[s] = before[s]
      /\ \A t \in Slots : moved[t] = IF before[t].state = "mailbox" THEN Emptied(before[t], replacedState)
                                    ELSE before[t]
  BY <1>2 DEF Replaced
<1> HIDE DEF moved
<1>4. slots' = [moved EXCEPT ![s].state = "mailbox"]
  BY DEF PublishLatest, moved
<1>5. /\ slots' \in [Slots -> SlotValues] /\ \A t \in Slots \ {s} : slots'[t] = moved[t]
      /\ slots'[s].state = "mailbox" /\ slots'[s].frame = moved[s].frame
      /\ slots'[s].key = moved[s].key /\ slots'[s].owner = moved[s].owner
  BY <1>3, <1>4 DEF SlotValues
<1> QED
  BY <1>2, <1>3, <1>5 DEF PublishedFrom

(* A step that ends reports a status and empties the ring.                  *)
LEMMA StepReports ==
  ASSUME VideoInv, NEW status \in Statuses, Finish(status)
  PROVE  /\ verdict' \in Statuses /\ Completes
         /\ status = "failed" => verdict' = "failed"
<1>1. completions \in Seq(Statuses)
  BY DEF VideoInv, WorkerTyped
<1>2. verdict' \in Statuses /\ completions' = <<>> /\ (status = "failed" => verdict' = "failed")
  BY <1>1, FinishReports
<1> QED
  BY <1>2, VideoAssumption DEF Completes

(* submit_shared_unlocked after the copy.                                   *)
LEMMA CopySharedKeeps ==
  ASSUME VideoInv, CopyShared
  PROVE  VideoInv'
<1> DEFINE s == capture.slot
           written == [slots EXCEPT ![s].frame = capture.frame]
           before == ReleaseSync(written, s, 1)
<1>1. /\ capture.at = "copy" /\ agent.path = "shared" /\ s \in Slots /\ slots[s].state = "writing"
      /\ capture.frame.source = agent.source /\ capture.frame \in Frames /\ slots \in [Slots -> SlotValues]
      /\ Known(capture.frame)
  BY DEF VideoInv, CaptureTyped, SlotsTyped, Captures, Places, Owned, InOrder, Repeats, Hybrid, CopyShared
<1>2. /\ NoFrame \in Frames /\ ~NoFrame.repeated /\ NoSlot \notin Slots /\ newest \in Nat /\ agent.source \in Nat
      /\ worker.frame.source \in Nat /\ newest <= agent.source
      /\ \A t \in Slots : slots[t].frame.source \in Nat
  BY <1>1, SourcesAreNumbers DEF NoFrame, VideoInv, InOrder, Hybrid
<1>3. /\ before \in [Slots -> SlotValues] /\ before[s].state = "writing" /\ before[s].frame = capture.frame
      /\ before[s].key = 1 /\ before[s].owner = "none" /\ \A t \in Slots \ {s} : before[t] = slots[t]
  <2>1. /\ written \in [Slots -> SlotValues] /\ written[s].state = "writing" /\ written[s].frame = capture.frame
        /\ \A t \in Slots \ {s} : written[t] = slots[t]
    BY <1>1 DEF SlotValues
  <2> HIDE DEF written
  <2>2. s \in Slots /\ written \in [Slots -> SlotValues]
    BY <1>1, <2>1
  <2>3. before = [written EXCEPT ![s].owner = "none", ![s].key = 1]
    BY DEF ReleaseSync, before
  <2>4. /\ before \in [Slots -> SlotValues] /\ before[s].state = written[s].state /\ before[s].frame = written[s].frame
        /\ before[s].key = 1 /\ before[s].owner = "none" /\ \A t \in Slots \ {s} : before[t] = written[t]
    <3> HIDE DEF s, before
    <3> QED
      BY <2>2, <2>3 DEF SlotValues
  <2> QED
    BY <2>1, <2>4
<1>4. PublishedFrom(before, s, "retired")
  <2>1. slots' = PublishLatest(before, s, "retired")
    BY DEF CopyShared
  <2> HIDE DEF before
  <2> QED
    BY <1>1, <1>3, <2>1, PublishMoves
<1> HIDE DEF before
<1>5. /\ slots' \in [Slots -> SlotValues]
      /\ slots'[s].state = "mailbox" /\ slots'[s].frame = capture.frame /\ slots'[s].key = 1 /\ slots'[s].owner = "none"
      /\ \A t \in Slots \ {s} :
           \/ /\ slots[t].state = "mailbox" /\ slots'[t].state = "retired" /\ slots'[t].frame = NoFrame
              /\ slots'[t].key = slots[t].key /\ slots'[t].owner = slots[t].owner
           \/ slots[t].state # "mailbox" /\ slots'[t] = slots[t]
  BY <1>3, <1>4 DEF PublishedFrom
<1>6. /\ wake' = TRUE /\ newest' = agent.source /\ capture' = Idle /\ UNCHANGED <<stopping, fatal>>
      /\ known' = IF capture.frame.repeated THEN known ELSE known \union {capture.frame.content}
      /\ UNCHANGED <<content, coder, staging, worker, requests, permit, wire, answered, machine>>
  BY <1>1 DEF CopyShared, budget
<1>7. /\ agent' \in Agents /\ agent'.path = "shared" /\ agent'.source = agent.source /\ agent'.force = agent.force
      /\ agent'.submitted = capture.frame.content /\ capture.frame.content \in 0..MaxContent
  BY <1>1 DEF VideoInv, CaptureTyped, CopyShared, Agents, Frames
<1>8. known \subseteq known' /\ known' \subseteq 0..MaxContent /\ capture.frame.content \in known'
  BY <1>1, <1>6, <1>7 DEF VideoInv, WorkerTyped, Known
<1>9. Idle \in Captures /\ Idle.at = "idle" /\ Idle.frame = NoFrame /\ Idle.slot = NoSlot
  BY <1>2 DEF Idle, Captures
<1>10. verdict' \in Statuses /\ Completes
  <2>1. \E status \in Statuses : Finish(status)
    BY DEF CopyShared, StatusAfter, Statuses
  <2> QED
    BY <2>1, StepReports
<1>11. Held => worker.slot \in Slots \ {s} /\ slots[worker.slot].state = "worker"
  BY <1>1 DEF VideoInv, Held, Places, WithSlot, Owned, Hybrid, SharedPlaces
<1>12. CaptureTyped'
  BY <1>1, <1>2, <1>5, <1>6, <1>7, <1>8, <1>9, <1>10 DEF VideoInv, CaptureTyped
<1>13. WorkerTyped'
  BY <1>1, <1>2, <1>5, <1>6, <1>7, <1>8, <1>9, <1>10 DEF VideoInv, WorkerTyped, Completes
<1>14. SlotsTyped'
  BY <1>1, <1>2, <1>5, <1>6, <1>7, <1>8, <1>9 DEF VideoInv, SlotsTyped
<1>15. AtRest'
  BY <1>1, <1>2, <1>5, <1>6, <1>7, <1>8, <1>9 DEF VideoInv, AtRest, Hybrid
<1>16. Places'
  BY <1>1, <1>2, <1>5, <1>6, <1>7, <1>8, <1>9 DEF VideoInv, Places, Hybrid, WithSlot
<1>17. OneMailbox'
  BY <1>1, <1>2, <1>5, <1>6, <1>7, <1>8, <1>9 DEF VideoInv, OneMailbox
<1>18. Owned'
  BY <1>1, <1>2, <1>5, <1>6, <1>7, <1>8, <1>9 DEF VideoInv, Owned, Places, WithSlot
<1>19. Keyed'
  <2>1. \A t \in Slots \ {s} : slots'[t].key = slots[t].key /\ slots'[t].owner = slots[t].owner
    BY <1>5
  <2>2. worker.slot \in Slots => worker.slot \in Slots \ {s}
    BY <1>1 DEF VideoInv, Owned
  <2>3. worker.at \in {"reclaiming", "key"} => worker.slot \in Slots
    BY <1>1 DEF VideoInv, Places, WithSlot
  <2> QED
    BY <1>1, <1>2, <1>5, <1>6, <1>9, <2>1, <2>2, <2>3 DEF VideoInv, Keyed, KeyFree
<1>20. Blank'
  <2>1. worker.at = "reclaiming" => worker.slot \in Slots \ {s} /\ slots[worker.slot].state = "worker"
    BY <1>1 DEF VideoInv, Owned, Places, WithSlot
  <2> QED
    BY <1>1, <1>5, <1>6, <1>9, <2>1 DEF VideoInv, Blank
<1>21. KeysComeBack'
  BY <1>1, <1>2, <1>5, <1>6, <1>7, <1>8, <1>9 DEF VideoInv, KeysComeBack, Places, KeyFree
<1>22. InOrder'
  BY <1>1, <1>2, <1>5, <1>6, <1>7, <1>8, <1>9, <1>11, SMTT(30)
     DEF VideoInv, InOrder, BehindBatch, BehindMail, Behind, Held, Hybrid, InState, OneMailbox, Places
<1>23. NewestSomewhere'
  BY <1>1, <1>2, <1>5, <1>6, <1>7, <1>8, <1>9 DEF VideoInv, NewestSomewhere, Held, Hybrid, InState
<1>24. Requested'
  BY <1>1, <1>2, <1>5, <1>6, <1>7, <1>8, <1>9 DEF VideoInv, Requested, Hybrid
<1>25. Pictures'
  BY <1>1, <1>2, <1>5, <1>6, <1>7, <1>8, <1>9 DEF VideoInv, Pictures
<1>26. Repeats'
  BY <1>1, <1>2, <1>5, <1>6, <1>7, <1>8, <1>9 DEF VideoInv, Repeats, Known
<1>27. Counts'
  BY <1>1, <1>2, <1>5, <1>6, <1>7, <1>8, <1>9 DEF VideoInv, Counts
<1>28. WireIsFaithful'
  BY <1>1, <1>2, <1>5, <1>6, <1>7, <1>8, <1>9
     DEF VideoInv, WireIsFaithful, IdrIsNext, PictureIsCurrent, RepeatShowsKnown
<1> QED
  BY <1>12, <1>13, <1>14, <1>15, <1>16, <1>17, <1>18, <1>19, <1>20, <1>21, <1>22, <1>23, <1>24, <1>25, <1>26,
     <1>27, <1>28
     DEF VideoInv

(* The slot is given back, or stays locked with the failure.                *)
LEMMA CopySharedFailsKeeps ==
  ASSUME VideoInv, CopySharedFails
  PROVE  VideoInv'
<1> DEFINE s == capture.slot
<1>1. /\ capture.at = "copy" /\ agent.path = "shared" /\ s \in Slots /\ slots[s].state = "writing"
      /\ slots \in [Slots -> SlotValues] /\ Hybrid /\ slots[s].key = 0 /\ slots[s].owner = "none"
  BY DEF VideoInv, SlotsTyped, Places, Owned, Keyed, KeyFree, Hybrid, CopySharedFails
<1>2. NoFrame \in Frames /\ ~NoFrame.repeated /\ NoSlot \notin Slots
  BY SourcesAreNumbers DEF NoFrame
<1>3. /\ slots' \in [Slots -> SlotValues] /\ \A t \in Slots \ {s} : slots'[t] = slots[t]
      /\ Flagged
      /\ \/ /\ slots'[s].state = "available" /\ slots'[s].frame = NoFrame
            /\ slots'[s].key = 0 /\ slots'[s].owner = "none"
         \/ /\ slots'[s].state = "writing" /\ fatal' = TRUE /\ slots'[s].frame = slots[s].frame
  <2>1. CASE slots' = Cancel(slots, s)
    <3>1. slots' = [slots EXCEPT ![s] = Emptied(slots[s], "available")]
      BY <1>1, <2>1 DEF Cancel
    <3>2. LET v == Emptied(slots[s], "available")
          IN v \in SlotValues /\ v.state = "available" /\ v.frame = NoFrame /\ v.key = 0 /\ v.owner = "none"
      <4>1. slots[s] \in SlotValues
        BY <1>1
      <4> QED
        BY <1>1, <4>1, EmptiedIsSlot
    <3>3. Flagged
      BY DEF VideoInv, WorkerTyped, CopySharedFails, Flagged, Fatal, NotFatal
    <3> QED
      BY <1>1, <3>1, <3>2, <3>3
  <2>2. CASE slots' # Cancel(slots, s)
    <3>1. slots' = [slots EXCEPT ![s].owner = "producer"]
      BY <2>2 DEF CopySharedFails, AcquireSync
    <3>2. Flagged /\ fatal' = TRUE
      BY <2>2 DEF CopySharedFails, Flagged, Fatal
    <3>3. s \in Slots /\ slots \in [Slots -> SlotValues] /\ slots[s].state = "writing"
      BY <1>1
    <3>4. /\ slots' \in [Slots -> SlotValues] /\ \A t \in Slots \ {s} : slots'[t] = slots[t]
          /\ slots'[s].state = "writing" /\ slots'[s].frame = slots[s].frame
      <4> HIDE DEF s
      <4> QED
        BY <3>1, <3>3 DEF SlotValues
    <3> QED
      BY <3>2, <3>4
  <2> QED
    BY <2>1, <2>2, Zenon
<1>4. /\ capture' = Idle /\ UNCHANGED <<machine, agent, content, coder, staging, worker, requests, permit, newest,
                                        wire, known, answered>>
  BY DEF CopySharedFails, history
<1>5. Idle \in Captures /\ Idle.at = "idle" /\ Idle.frame = NoFrame /\ Idle.slot = NoSlot
  BY <1>2 DEF Idle, Captures
<1>6. verdict' \in Statuses /\ Completes
  <2>1. \E status \in Statuses : Finish(status)
    BY DEF CopySharedFails, StatusAfter, Statuses
  <2> QED
    BY <2>1, StepReports
<1>7. Held => worker.slot \in Slots \ {s} /\ slots[worker.slot].state = "worker"
  BY <1>1 DEF VideoInv, Held, Places, WithSlot, Owned, Hybrid, SharedPlaces
<1>8. CaptureTyped'
  BY <1>1, <1>2, <1>3, <1>4, <1>5, <1>6 DEF VideoInv, CaptureTyped, Flagged
<1>9. WorkerTyped'
  BY <1>1, <1>2, <1>3, <1>4, <1>5, <1>6 DEF VideoInv, WorkerTyped, Completes, Flagged, Flagged
<1>10. SlotsTyped'
  BY <1>1, <1>2, <1>3, <1>4, <1>5 DEF VideoInv, SlotsTyped, Flagged
<1>11. AtRest'
  BY <1>1, <1>2, <1>3, <1>4, <1>5 DEF VideoInv, AtRest, Hybrid, Flagged
<1>12. Places'
  BY <1>1, <1>2, <1>3, <1>4, <1>5 DEF VideoInv, Places, Hybrid, WithSlot, Flagged
<1>13. OneMailbox'
  BY <1>1, <1>2, <1>3, <1>4, <1>5 DEF VideoInv, OneMailbox, Flagged
<1>14. Owned'
  BY <1>1, <1>2, <1>3, <1>4, <1>5 DEF VideoInv, Owned, Places, WithSlot, Flagged
<1>15. Keyed'
  BY <1>1, <1>2, <1>3, <1>4, <1>5 DEF VideoInv, Keyed, Places, WithSlot, KeyFree, Flagged
<1>16. Blank'
  BY <1>1, <1>2, <1>3, <1>4, <1>5 DEF VideoInv, Blank, Places, WithSlot, Flagged
<1>17. KeysComeBack'
  <2>1. worker'.at = "done" => fatal'
    <3>1. worker.at = "done" => fatal
      BY <1>1 DEF VideoInv, Places
    <3>2. fatal' = fatal \/ fatal' = TRUE
      BY <1>3 DEF Flagged
    <3> QED
      BY <1>4, <3>1, <3>2
  <2> QED
    BY <2>1 DEF KeysComeBack
<1>18. InOrder'
  BY <1>1, <1>2, <1>3, <1>4, <1>5, <1>7
     DEF VideoInv, InOrder, BehindBatch, BehindMail, Behind, Held, Hybrid, InState, Places, Flagged
<1>19. NewestSomewhere'
  BY <1>1, <1>2, <1>3, <1>4, <1>5, <1>7
     DEF VideoInv, NewestSomewhere, Held, Hybrid, InState, Places, Blank, Flagged
<1>20. Requested'
  BY <1>1, <1>2, <1>3, <1>4, <1>5 DEF VideoInv, Requested, Hybrid, Flagged
<1>21. Pictures'
  BY <1>1, <1>2, <1>3, <1>4, <1>5 DEF VideoInv, Pictures, Flagged
<1>22. Repeats'
  BY <1>1, <1>2, <1>3, <1>4, <1>5 DEF VideoInv, Repeats, Known, Flagged
<1>23. Counts'
  BY <1>1, <1>2, <1>3, <1>4, <1>5 DEF VideoInv, Counts, Flagged
<1>24. WireIsFaithful'
  BY <1>1, <1>2, <1>3, <1>4, <1>5
     DEF VideoInv, WireIsFaithful, IdrIsNext, PictureIsCurrent, RepeatShowsKnown, Flagged
<1> QED
  BY <1>8, <1>9, <1>10, <1>11, <1>12, <1>13, <1>14, <1>15, <1>16, <1>17, <1>18, <1>19, <1>20, <1>21, <1>22,
     <1>23, <1>24
     DEF VideoInv

(* The synchronous step, with what it leaves on the wire.                   *)
Syncs ==
    /\ agent.path = "sync" /\ agent' \in Agents /\ agent'.path = "sync"
    /\ content' \in 0..MaxContent /\ requests' \in Nat /\ verdict' \in Statuses /\ Completes /\ coder' \in Coders
    /\ UNCHANGED <<machine, capture, slots, staging, wake, stopping, fatal, worker, permit, newest>>
    /\ wire' \in Wires /\ wire'.source <= agent'.source /\ wire'.sequence = coder'.sequence - 1
    /\ known \subseteq known' /\ known' \subseteq 0..MaxContent /\ answered' \in Nat
    /\ agent'.submitted > 0 => agent'.submitted \in known'
    /\ verdict' = "ok" => coder'.encoder.inside = <<>> /\ (requests' > answered' => agent'.force)
    /\ WireIsFaithful'

(* A synchronous step keeps the invariant.                                  *)
LEMMA SyncsKeeps ==
  ASSUME VideoInv, Syncs
  PROVE  VideoInv'
<1>1. /\ worker = NoWorker /\ capture = Idle /\ slots = FreshSlots /\ staging = <<>> /\ ~stopping /\ ~fatal
      /\ worker' = NoWorker /\ capture' = Idle /\ slots' = FreshSlots /\ staging' = <<>>
      /\ stopping' = stopping /\ fatal' = fatal
      /\ Idle.at = "idle" /\ Idle.frame = NoFrame /\ Idle.slot = NoSlot /\ ~NoFrame.repeated
      /\ NoWorker.at = "off" /\ NoWorker.slot = NoSlot /\ NoWorker.frame = NoFrame /\ ~NoWorker.repeat
      /\ \A s \in Slots : FreshSlots[s].state = "available" /\ FreshSlots[s].frame = NoFrame
  BY DEF VideoInv, AtRest, Hybrid, Syncs, Idle, NoWorker, FreshSlots, FreeSlot, NoFrame
<1>2. CaptureTyped'
  BY <1>1 DEF VideoInv, CaptureTyped, Syncs
<1>3. WorkerTyped'
  BY <1>1 DEF VideoInv, WorkerTyped, Completes, Syncs
<1>4. SlotsTyped'
  BY <1>1 DEF VideoInv, SlotsTyped, Syncs
<1>5. AtRest'
  BY <1>1 DEF VideoInv, AtRest, Hybrid, Syncs
<1>6. Places'
  BY <1>1 DEF VideoInv, Places, Hybrid, WithSlot, Syncs
<1>7. OneMailbox'
  BY <1>1 DEF VideoInv, OneMailbox, Syncs
<1>8. Owned'
  BY <1>1 DEF VideoInv, Owned, Places, WithSlot, Syncs
<1>9. Keyed'
  BY <1>1 DEF VideoInv, Keyed, Places, WithSlot, KeyFree, Syncs
<1>10. Blank'
  BY <1>1 DEF VideoInv, Blank, Places, WithSlot, Syncs
<1>11. KeysComeBack'
  BY <1>1 DEF VideoInv, KeysComeBack, Places, KeyFree, Syncs
<1>12. InOrder'
  BY <1>1 DEF VideoInv, InOrder, BehindBatch, BehindMail, Behind, Held, Hybrid, InState, Syncs
<1>13. NewestSomewhere'
  BY <1>1 DEF VideoInv, NewestSomewhere, Held, Hybrid, InState, Syncs
<1>14. Requested'
  BY <1>1 DEF VideoInv, Requested, Hybrid, Syncs
<1>15. Pictures'
  BY <1>1 DEF VideoInv, Pictures, Syncs
<1>16. Repeats'
  BY <1>1 DEF VideoInv, Repeats, Known, Syncs
<1>17. Counts'
  BY <1>1 DEF VideoInv, Counts, Syncs
<1>18. WireIsFaithful'
  BY DEF Syncs
<1> QED
  BY <1>2, <1>3, <1>4, <1>5, <1>6, <1>7, <1>8, <1>9, <1>10, <1>11, <1>12, <1>13, <1>14, <1>15, <1>16, <1>17,
     <1>18
     DEF VideoInv

(* The synchronous step after a capture.                                    *)
LEMMA SyncStepKeeps ==
  ASSUME VideoInv, NEW asked \in BOOLEAN, NEW again \in BOOLEAN, NEW periodic \in BOOLEAN,
         NEW fault \in {"none", "blit", "map", "encode", "late", "send"},
         NEW clean \in BOOLEAN, SyncStep(asked, again, fault, periodic, clean)
  PROVE  VideoInv'
<1> DEFINE frame == CapturedFrame(again)
           force == agent.force \/ asked
           bridged == Bridge(agent.bridge, machine, fault # "blit", fault # "map")
           wanted == force \/ periodic \/ ~coder.primed
           ok == fault \notin {"encode", "late"}
           kept == fault = "late"
           encoded == EncodeWith(coder.encoder, bridged.texture, frame.content, wanted, clean, ok, kept)
           repeated == WireRepeats(frame.repeated, force, encoded.keyframe)
           seen == [agent EXCEPT !.source = frame.source, !.bridge = bridged.bridge]
           done == fault # "send"
<1>1. /\ agent \in Agents /\ coder \in Coders /\ machine \in Machines /\ wire \in Wires /\ answered \in Nat
      /\ known \subseteq 0..MaxContent /\ agent.path = "sync" /\ MaxSequence \in Nat /\ MaxSource \in Nat
      /\ MayCapture(again) /\ Poll(asked)
  BY VideoAssumption DEF VideoInv, CaptureTyped, WorkerTyped, SyncStep
<1>2. /\ frame \in Frames /\ frame.source = agent.source + 1 /\ Known(frame) /\ verdict = "ok"
      /\ frame.content \in 0..MaxContent /\ frame.source \in 0..MaxSource /\ frame.repeated \in BOOLEAN
  BY <1>1, CapturedIsKnown DEF Frames
<1> HIDE DEF frame
<1>3. bridged.bridge \in Bridges /\ bridged.texture \in Int
  <2>1. agent.bridge \in Bridges /\ (fault # "blit") \in BOOLEAN /\ (fault # "map") \in BOOLEAN
    BY <1>1 DEF Agents
  <2>2. bridged \in [bridge : Bridges, texture : Int]
    BY <1>1, <2>1, BridgeStays
  <2> HIDE DEF bridged
  <2> QED
    BY <2>2
<1> HIDE DEF bridged
<1>4. /\ force \in BOOLEAN /\ wanted \in BOOLEAN /\ agent.force \in BOOLEAN /\ coder.primed \in BOOLEAN
      /\ (force => wanted) /\ done \in BOOLEAN /\ coder.sequence \in 0..MaxSequence
      /\ agent.source \in Nat /\ agent.submitted \in 0..MaxContent
  BY <1>1 DEF Agents, Coders
<1>5. Returned(encoded, coder.encoder, frame.content, wanted)
  <2>1. coder.encoder \in Encoders /\ coder.encoder.inside = <<>>
    BY <1>1, <1>2 DEF VideoInv, Pictures, Coders
  <2>2. ok \in BOOLEAN /\ kept \in BOOLEAN
    OBVIOUS
  <2>3. bridged.texture \in Int /\ frame.content \in 0..MaxContent /\ wanted \in BOOLEAN
    BY <1>2, <1>3, <1>4
  <2> HIDE DEF wanted, ok, kept
  <2> QED
    BY <2>1, <2>2, <2>3, EncodeReturns
<1> HIDE DEF encoded
<1>6. /\ encoded.encoder \in Encoders /\ encoded.ok \in BOOLEAN /\ encoded.keyframe \in BOOLEAN
      /\ encoded.picture \in 0..MaxContent
      /\ encoded.ok => /\ encoded.picture = frame.content /\ encoded.encoder.inside = <<>>
                       /\ wanted /\ encoded.encoder.backend = "nvenc" => encoded.keyframe
      /\ encoded.encoder.backend = coder.encoder.backend
  BY <1>5 DEF Returned, Encodings
<1>7. /\ requests' \in Nat /\ requests \in Nat /\ requests' = IF asked THEN requests + 1 ELSE requests
      /\ requests' > answered => force
  <2>1. requests' \in Nat /\ requests \in Nat /\ requests' = IF asked THEN requests + 1 ELSE requests
    BY <1>1, PollCounts
  <2>2. requests > answered => agent.force
    BY <1>1, <1>2 DEF VideoInv, Requested
  <2> QED
    BY <2>1, <2>2
<1>8. /\ content' = frame.content
      /\ UNCHANGED <<machine, capture, slots, staging, wake, stopping, fatal, worker, permit, newest>>
  BY DEF SyncStep, sharedState, frame
<1>9. /\ seen \in Agents /\ seen.path = "sync" /\ seen.source = frame.source /\ seen.submitted = agent.submitted
  BY <1>1, <1>2, <1>3 DEF Agents
<1>10. agent.submitted > 0 => agent.submitted \in known
  BY <1>1 DEF VideoInv, Repeats
<1>11. wire.sequence = coder.sequence - 1 /\ wire.source <= agent.source /\ wire.source \in Nat
  BY <1>1, SourcesAreNumbers DEF VideoInv, Counts
<1> HIDE DEF seen, force, wanted, done, ok, kept
<1>12. ASSUME NEW f \in BOOLEAN, agent' = [seen EXCEPT !.force = f], Finish("failed"), UNCHANGED history,
              coder' = coder \/ coder' = [coder EXCEPT !.encoder = encoded.encoder]
       PROVE  Syncs
  <2>1. agent' \in Agents /\ agent'.path = "sync" /\ agent'.source = agent.source + 1 /\ agent'.submitted = agent.submitted
    BY <1>2, <1>9, <1>12 DEF Agents
  <2>2. coder' \in Coders /\ coder'.sequence = coder.sequence
    BY <1>1, <1>6, <1>12 DEF Coders
  <2>3. verdict' = "failed" /\ verdict' \in Statuses /\ Completes
    BY <1>12, StepReports DEF Statuses
  <2>4. UNCHANGED <<wire, known, answered>> /\ WireIsFaithful'
    BY <1>1, <1>6, <1>12 DEF VideoInv, history, Coders, WireIsFaithful, IdrIsNext, PictureIsCurrent, RepeatShowsKnown
  <2> QED
    BY <1>1, <1>2, <1>4, <1>7, <1>8, <1>10, <1>11, <2>1, <2>2, <2>3, <2>4 DEF Syncs
<1>13. CASE bridged.texture = -1
  BY <1>4, <1>12, <1>13, SyncsKeeps DEF SyncStep, bridged, seen, force, frame
<1>14. CASE bridged.texture # -1 /\ Terminal
  BY <1>12, <1>14, SyncsKeeps DEF SyncStep, bridged, seen, force, frame
<1>15. CASE bridged.texture # -1 /\ ~Terminal /\ ~encoded.ok
  BY <1>12, <1>15, SyncsKeeps DEF SyncStep, bridged, seen, encoded, wanted, force, frame, ok, kept
<1>16. CASE bridged.texture # -1 /\ ~Terminal /\ encoded.ok
  <2>1. /\ Attempt(frame, encoded, wanted, repeated, IF done THEN "complete" ELSE "broken", requests')
        /\ coder' = [sequence |-> coder.sequence + 1, encoder |-> encoded.encoder,
                     primed |-> coder.primed \/ (done /\ encoded.keyframe)]
        /\ agent' = [seen EXCEPT
                       !.force = ~(done /\ encoded.keyframe) /\ (force \/ encoded.keyframe),
                       !.submitted = IF done THEN frame.content ELSE @]
        /\ Finish(IF done THEN "ok" ELSE "failed")
    BY <1>16 DEF SyncStep, bridged, seen, encoded, wanted, force, frame, done, ok, kept
  <2>2. repeated \in BOOLEAN /\ (repeated => frame.content \in known)
    BY <1>2 DEF WireRepeats, Known
  <2> HIDE DEF repeated
  <2>3. /\ wire' = [source |-> frame.source, content |-> frame.content, picture |-> encoded.picture,
                    repeated |-> repeated, forced |-> wanted, keyframe |-> encoded.keyframe,
                    sequence |-> coder.sequence, complete |-> done, owed |-> requests' > answered]
        /\ known' = IF repeated \/ ~done THEN known ELSE known \union {frame.content}
        /\ answered' = IF done /\ encoded.keyframe THEN requests' ELSE answered
    BY <1>1, <1>4, <2>1 DEF Attempt
  <2>4. /\ known \subseteq known' /\ known' \subseteq 0..MaxContent /\ (done => frame.content \in known') /\ answered' \in Nat
    BY <1>1, <1>2, <1>4, <1>7, <2>2, <2>3
  <2>5. wire' \in Wires /\ wire'.source = frame.source /\ wire'.sequence = coder.sequence
    <3>1. (requests' > answered) \in BOOLEAN /\ coder.sequence \in Int
      BY <1>1, <1>4, <1>7
    <3> QED
      BY <1>2, <1>4, <1>6, <2>2, <2>3, <3>1 DEF Wires
  <2>6. WireIsFaithful'
    BY <1>4, <1>6, <1>7, <1>16, <2>1, <2>2, <2>3 DEF WireIsFaithful, IdrIsNext, PictureIsCurrent, RepeatShowsKnown
  <2>7. coder' \in Coders /\ coder'.sequence = coder.sequence + 1 /\ coder'.encoder.inside = <<>>
    BY <1>1, <1>4, <1>6, <1>16, <2>1 DEF Coders, Terminal
  <2>8. /\ agent' \in Agents /\ agent'.path = "sync" /\ agent'.source = frame.source
        /\ agent'.submitted = (IF done THEN frame.content ELSE agent.submitted)
        /\ agent'.force = (~(done /\ encoded.keyframe) /\ (force \/ encoded.keyframe))
    <3> DEFINE f == ~(done /\ encoded.keyframe) /\ (force \/ encoded.keyframe)
    <3>1. f \in BOOLEAN
      OBVIOUS
    <3>2. agent' = [seen EXCEPT !.force = f, !.submitted = IF done THEN frame.content ELSE @]
      BY <2>1
    <3> HIDE DEF f
    <3>3. /\ agent' \in Agents /\ agent'.path = "sync" /\ agent'.source = frame.source
          /\ agent'.submitted = (IF done THEN frame.content ELSE agent.submitted) /\ agent'.force = f
      BY <1>2, <1>4, <1>9, <3>1, <3>2 DEF Agents
    <3> QED
      BY <3>3 DEF f
  <2>9. verdict' \in Statuses /\ Completes /\ (verdict' = "ok" => done)
    BY <2>1, StepReports DEF Statuses
  <2>10. agent'.submitted > 0 => agent'.submitted \in known'
    BY <1>10, <2>4, <2>8
  <2>11. verdict' = "ok" => (requests' > answered' => agent'.force)
    <3>1. CASE encoded.keyframe
      BY <1>7, <2>3, <2>9, <3>1
    <3>2. CASE ~encoded.keyframe
      BY <1>7, <2>3, <2>8, <3>2
    <3> QED
      BY <3>1, <3>2
  <2>12. Syncs
    BY <1>1, <1>2, <1>4, <1>7, <1>8, <2>4, <2>5, <2>6, <2>7, <2>8, <2>9, <2>10, <2>11 DEF Syncs
  <2> QED
    BY <2>12, SyncsKeeps
<1> QED
  BY <1>13, <1>14, <1>15, <1>16

(* Copies none of which is a repeat fold into the last one.                 *)
LEMMA FoldedIsLast ==
  ASSUME NEW n \in Nat \ {0}, NEW frames, DOMAIN frames = 1..n, \A i \in 1..n : ~frames[i].repeated
  PROVE  Folded(frames) = frames[n]
<1> DEFINE Wins(i) == \A j \in DOMAIN frames : IF j < i THEN MaySupersede(frames[j], frames[i])
                                               ELSE j > i => ~MaySupersede(frames[i], frames[j])
<1>1. \A i, j \in 1..n : MaySupersede(frames[i], frames[j])
  BY DEF MaySupersede
<1>2. n \in DOMAIN frames /\ Wins(n)
  BY <1>1
<1>3. \A i \in DOMAIN frames : Wins(i) => i = n
  <2> TAKE i \in DOMAIN frames
  <2> HAVE Wins(i)
  <2>1. ~(n > i)
    BY <1>1
  <2> QED
    BY <2>1
<1>4. Folded(frames) = frames[CHOOSE i \in DOMAIN frames : Wins(i)]
  BY DEF Folded
<1> HIDE DEF Wins
<1>5. (CHOOSE i \in DOMAIN frames : Wins(i)) = n
  BY <1>2, <1>3
<1> QED
  BY <1>4, <1>5

(* pump_unlocked reads the oldest staging copies into a free buffer.        *)
LEMMA PumpReadKeeps ==
  ASSUME VideoInv, NEW asked \in BOOLEAN, NEW got \in BOOLEAN, NEW n \in 0..Cardinality(Slots),
         PumpRead(asked, got, n)
  PROVE  VideoInv'
<1> DEFINE free == InState(slots, "available")
           s == FirstSlot(free)
           frame == IF got THEN CapturedFrame(FALSE) ELSE NoFrame
           reads == n > 0 /\ free # {}
<1>1. /\ agent.path = "readback" /\ Poll(asked) /\ n <= Len(staging) /\ n \in Nat
      /\ staging \in Seq(Frames) /\ slots \in [Slots -> SlotValues] /\ agent \in Agents
      /\ Len(staging) \in Nat /\ Len(staging) <= Cardinality(Slots) /\ Cardinality(Slots) \in Nat
  <2>1. agent.path = "readback" /\ Poll(asked) /\ n <= Len(staging)
    BY DEF PumpRead
  <2>2. Cardinality(Slots) \in Nat
    BY VideoAssumption, FS_CardinalityType
  <2>3. /\ staging \in Seq(Frames) /\ slots \in [Slots -> SlotValues] /\ agent \in Agents
        /\ Len(staging) <= Cardinality(Slots)
    BY DEF VideoInv, CaptureTyped, SlotsTyped
  <2> QED
    BY <2>1, <2>2, <2>3
<1>2. capture.at = "idle" /\ capture.frame = NoFrame /\ capture.slot = NoSlot /\ ~fatal /\ ~stopping
  <2>1. capture.at = "idle" /\ ~fatal
    BY <1>1 DEF PumpRead, MayCapture, MayStep, Hybrid
  <2> QED
    BY <2>1 DEF VideoInv, Places
<1>3. /\ NoFrame \in Frames /\ ~NoFrame.repeated /\ NoSlot \notin Slots /\ newest \in Nat /\ agent.source \in Nat
      /\ worker.frame.source \in Nat /\ newest <= agent.source
      /\ \A t \in Slots : slots[t].frame.source \in Nat
  BY <1>1, SourcesAreNumbers DEF NoFrame, VideoInv, InOrder, Hybrid
<1>4. \A i \in 1..Len(staging) : staging[i] \in Frames /\ staging[i].source \in Nat /\ ~staging[i].repeated
  <2> TAKE i \in 1..Len(staging)
  <2>1. staging[i] \in Frames /\ ~staging[i].repeated
    BY <1>1 DEF VideoInv, Repeats
  <2> QED
    BY <2>1, VideoAssumption DEF Frames
<1>5. /\ agent' \in Agents /\ agent'.path = "readback" /\ agent'.submitted = agent.submitted
      /\ agent.source <= agent'.source /\ agent'.source \in Nat /\ agent'.force = agent.force
      /\ frame \in Frames /\ ~frame.repeated /\ (frame # NoFrame => frame.source = agent'.source)
      /\ content' \in 0..MaxContent
  <2>1. CASE got
    <3>1. /\ frame \in Frames /\ frame.source = agent.source + 1 /\ ~frame.repeated /\ frame.content = content + 1
      BY <1>1, <2>1, CapturedIsKnown DEF PumpRead
    <3> HIDE DEF frame
    <3>2. agent' = [agent EXCEPT !.source = agent.source + 1] /\ content' = content + 1
      BY <2>1 DEF PumpRead, AcquireNext
    <3>3. agent.source + 1 \in 0..MaxSource /\ content + 1 \in 0..MaxContent
      BY <3>1 DEF Frames
    <3>4. /\ agent' \in Agents /\ agent'.path = agent.path /\ agent'.submitted = agent.submitted
          /\ agent'.force = agent.force /\ agent'.source = agent.source + 1
      BY <1>1, <3>2, <3>3 DEF Agents
    <3> QED
      BY <1>1, <1>3, <3>1, <3>2, <3>3, <3>4
  <2>2. CASE ~got
    <3>1. agent' = agent /\ content' = content /\ frame = NoFrame
      BY <2>2 DEF PumpRead
    <3> HIDE DEF frame
    <3> QED
      BY <1>1, <1>3, <3>1 DEF VideoInv, CaptureTyped
  <2> QED
    BY <2>1, <2>2
<1>6. requests' \in Nat /\ requests \in Nat /\ requests' = IF asked THEN requests + 1 ELSE requests
  BY <1>1, PollCounts
<1>7. UNCHANGED <<coder, worker, wake, stopping, fatal, completions, permit, verdict, newest, wire, known, answered, machine>>
  BY DEF PumpRead, history, budget
<1>8. capture' = [at |-> "pumped", frame |-> frame, slot |-> IF reads THEN s ELSE NoSlot]
  BY DEF PumpRead
<1>9. /\ worker.consumed \in Nat /\ worker.requested \in Nat /\ answered \in Nat
      /\ worker.slot \in Slots => slots[worker.slot].state = "worker"
      /\ Held => worker.slot \in Slots
  BY <1>1 DEF VideoInv, WorkerTyped, Workers, Held, Places, WithSlot, Owned, Hybrid, ReadbackPlaces
<1> HIDE DEF frame
<1>10. CASE ~reads
  <2>1. slots' = slots /\ staging' = staging
    BY <1>10 DEF PumpRead
  <2>2. capture' \in Captures /\ capture'.at = "pumped" /\ capture'.frame = frame /\ capture'.slot = NoSlot
    BY <1>5, <1>8, <1>10 DEF Captures
  <2>3. CaptureTyped'
    BY <1>1, <1>2, <1>3, <1>5, <1>6, <1>7, <1>9, <2>1, <2>2 DEF VideoInv, CaptureTyped
  <2>4. WorkerTyped'
    BY <1>1, <1>2, <1>3, <1>5, <1>6, <1>7, <1>9, <2>1, <2>2 DEF VideoInv, WorkerTyped
  <2>5. SlotsTyped'
    BY <1>1, <1>2, <1>3, <1>5, <1>6, <1>7, <1>9, <2>1, <2>2 DEF VideoInv, SlotsTyped
  <2>6. AtRest'
    BY <1>1, <1>2, <1>3, <1>5, <1>6, <1>7, <1>9, <2>1, <2>2 DEF VideoInv, AtRest, Hybrid
  <2>7. Places'
    BY <1>1, <1>2, <1>3, <1>5, <1>6, <1>7, <1>9, <2>1, <2>2 DEF VideoInv, Places, Hybrid, WithSlot
  <2>8. OneMailbox'
    BY <1>1, <1>2, <1>3, <1>5, <1>6, <1>7, <1>9, <2>1, <2>2 DEF VideoInv, OneMailbox
  <2>9. Owned'
    BY <1>1, <1>2, <1>3, <1>5, <1>6, <1>7, <1>9, <2>1, <2>2 DEF VideoInv, Owned, Places, WithSlot
  <2>10. Keyed'
    BY <1>1, <1>2, <1>3, <1>5, <1>6, <1>7, <1>9, <2>1, <2>2 DEF VideoInv, Keyed, Places, WithSlot, KeyFree
  <2>11. Blank'
    BY <1>1, <1>2, <1>3, <1>5, <1>6, <1>7, <1>9, <2>1, <2>2 DEF VideoInv, Blank, Places, WithSlot
  <2>12. KeysComeBack'
    BY <1>1, <1>2, <1>3, <1>5, <1>6, <1>7, <1>9, <2>1, <2>2 DEF VideoInv, KeysComeBack, Places, KeyFree
  <2>13. InOrder'
    BY <1>1, <1>2, <1>3, <1>5, <1>6, <1>7, <1>9, <2>1, <2>2
       DEF VideoInv, InOrder, BehindBatch, BehindMail, Behind, Held, Hybrid, InState
  <2>14. NewestSomewhere'
    BY <1>1, <1>2, <1>3, <1>5, <1>6, <1>7, <1>9, <2>1, <2>2 DEF VideoInv, NewestSomewhere, Held, Hybrid, InState
  <2>15. Requested'
    BY <1>1, <1>2, <1>3, <1>5, <1>6, <1>7, <1>9, <2>1, <2>2 DEF VideoInv, Requested, Hybrid
  <2>16. Pictures'
    BY <1>1, <1>2, <1>3, <1>5, <1>6, <1>7, <1>9, <2>1, <2>2 DEF VideoInv, Pictures
  <2>17. Repeats'
    BY <1>1, <1>2, <1>3, <1>5, <1>6, <1>7, <1>9, <2>1, <2>2 DEF VideoInv, Repeats, Known
  <2>18. Counts'
    BY <1>1, <1>2, <1>3, <1>5, <1>6, <1>7, <1>9, <2>1, <2>2 DEF VideoInv, Counts
  <2>19. WireIsFaithful'
    BY <1>1, <1>2, <1>3, <1>5, <1>6, <1>7, <1>9, <2>1, <2>2
       DEF VideoInv, WireIsFaithful, IdrIsNext, PictureIsCurrent, RepeatShowsKnown
  <2> QED
    BY <2>3, <2>4, <2>5, <2>6, <2>7, <2>8, <2>9, <2>10, <2>11, <2>12, <2>13, <2>14, <2>15, <2>16, <2>17, <2>18,
       <2>19
       DEF VideoInv
<1>11. CASE reads
  <2> DEFINE rest == Len(staging) - n
  <2>1. s \in Slots /\ slots[s].state = "available" /\ n \in 1..Len(staging) /\ rest \in Nat
    <3>1. free \in SUBSET Slots /\ free # {} /\ n > 0
      BY <1>11 DEF InState
    <3>2. s \in free
      BY <3>1, FirstSlotIn
    <3> HIDE DEF s
    <3> QED
      BY <1>1, <3>1, <3>2 DEF InState
  <2>2. Folded(SubSeq(staging, 1, n)) = staging[n]
    <3> DEFINE batch == SubSeq(staging, 1, n)
    <3>1. DOMAIN batch = 1..n /\ \A i \in 1..n : batch[i] = staging[i]
      BY <1>1, <2>1
    <3> HIDE DEF batch
    <3>2. \A i \in 1..n : ~batch[i].repeated
      BY <1>1, <1>4, <2>1, <3>1
    <3>3. Folded(batch) = batch[n]
      BY <2>1, <3>1, <3>2, FoldedIsLast
    <3> QED
      BY <2>1, <3>1, <3>3 DEF batch
  <2> HIDE DEF s
  <2>3. /\ slots' = [[slots EXCEPT ![s].state = "writing"] EXCEPT ![s].frame = staging[n]]
        /\ staging' = SubSeq(staging, n + 1, Len(staging))
    BY <1>11, <2>2 DEF PumpRead, Acquire, s
  <2>4. /\ slots' \in [Slots -> SlotValues] /\ \A t \in Slots \ {s} : slots'[t] = slots[t]
        /\ slots'[s].state = "writing" /\ slots'[s].frame = staging[n] /\ staging[n] \in Frames
    <3>1. staging[n] \in Frames
      BY <1>4, <2>1
    <3> DEFINE taken == [slots EXCEPT ![s].state = "writing"]
    <3>2. /\ taken \in [Slots -> SlotValues] /\ taken[s].state = "writing" /\ \A t \in Slots \ {s} : taken[t] = slots[t]
      BY <1>1, <2>1 DEF SlotValues
    <3>3. slots' = [taken EXCEPT ![s].frame = staging[n]]
      BY <2>3
    <3> HIDE DEF taken
    <3> QED
      BY <2>1, <3>1, <3>2, <3>3 DEF SlotValues
  <2>5. staging' \in Seq(Frames) /\ Len(staging') = rest /\ \A i \in 1..rest : staging'[i] = staging[i + n] /\ i + n \in 1..Len(staging)
    BY <1>1, <2>1, <2>3
  <2>6. capture' \in Captures /\ capture'.at = "pumped" /\ capture'.frame = frame /\ capture'.slot = s
    BY <1>5, <1>8, <1>11, <2>1 DEF Captures
  <2>7. Held => worker.slot # s
    BY <1>9, <2>1
  <2> HIDE DEF rest
  <2>8. CaptureTyped'
    BY <1>1, <1>2, <1>3, <1>5, <1>6, <1>7, <1>9, <2>1, <2>4, <2>5, <2>6, <2>7 DEF VideoInv, CaptureTyped
  <2>9. WorkerTyped'
    BY <1>1, <1>2, <1>3, <1>5, <1>6, <1>7, <1>9, <2>1, <2>4, <2>5, <2>6, <2>7 DEF VideoInv, WorkerTyped
  <2>10. SlotsTyped'
    BY <1>1, <1>2, <1>3, <1>5, <1>6, <1>7, <1>9, <2>1, <2>4, <2>5, <2>6, <2>7 DEF VideoInv, SlotsTyped
  <2>11. AtRest'
    BY <1>1, <1>2, <1>3, <1>5, <1>6, <1>7, <1>9, <2>1, <2>4, <2>5, <2>6, <2>7 DEF VideoInv, AtRest, Hybrid
  <2>12. Places'
    BY <1>1, <1>2, <1>3, <1>5, <1>6, <1>7, <1>9, <2>1, <2>4, <2>5, <2>6, <2>7
       DEF VideoInv, Places, Hybrid, WithSlot
  <2>13. OneMailbox'
    <3>1. \A t \in Slots : slots'[t].state = "mailbox" => slots[t].state = "mailbox"
      BY <2>1, <2>4
    <3> QED
      BY <3>1 DEF VideoInv, OneMailbox
  <2>14. Owned'
    <3>1. worker' = worker /\ agent'.path = "readback" /\ capture'.slot = s
      BY <1>5, <1>7, <2>6
    <3>2. worker.slot \in Slots => worker.slot # s
      BY <1>9, <2>1
    <3>3. \A t \in Slots : slots[t].state # "writing" /\ slots[t].state # "retired" /\ (slots[t].state = "worker" => t = worker.slot)
      BY <1>1, <1>2, <1>3 DEF VideoInv, Owned
    <3> QED
      BY <1>9, <2>1, <2>4, <3>1, <3>2, <3>3 DEF Owned
  <2>15. Keyed'
    BY <1>1, <1>2, <1>3, <1>5, <1>6, <1>7, <1>9, <2>1, <2>4, <2>5, <2>6, <2>7
       DEF VideoInv, Keyed, Places, WithSlot, KeyFree
  <2>16. Blank'
    <3>1. worker'.at # "reclaiming"
      BY <1>1, <1>7 DEF VideoInv, Places, Hybrid, ReadbackPlaces
    <3> QED
      BY <2>1, <2>4, <2>6, <3>1 DEF VideoInv, Blank
  <2>17. KeysComeBack'
    BY <1>1, <1>2, <1>3, <1>5, <1>6, <1>7, <1>9, <2>1, <2>4, <2>5, <2>6, <2>7
       DEF VideoInv, KeysComeBack, Places, KeyFree
  <2>18. InOrder'
    <3>1. /\ wire.source <= worker.frame.source
          /\ Held => worker.frame.source <= slots[worker.slot].frame.source
          /\ \A m \in InState(slots, "mailbox") : Behind(slots[m].frame.source)
          /\ \A i \in 1..Len(staging) : /\ BehindMail(staging[i].source) /\ staging[i].source <= newest
                                        /\ \A j \in 1..i : staging[j].source <= staging[i].source
          /\ BehindMail(newest)
      BY <1>1 DEF VideoInv, InOrder, BehindBatch, Hybrid
    <3>2. InState(slots, "mailbox")' = InState(slots, "mailbox") /\ \A m \in InState(slots, "mailbox") : m # s /\ m \in Slots
      BY <2>1, <2>4 DEF InState
    <3>3. Held' = Held /\ (Held => slots'[worker.slot] = slots[worker.slot])
      BY <1>7, <1>9, <2>4, <2>7 DEF Held
    <3>4. \A x : Behind(x) => Behind(x)'
      BY <1>7, <3>3 DEF Behind
    <3>5. \A x : BehindMail(x) => BehindMail(x)'
      BY <2>4, <3>2, <3>4 DEF BehindMail
    <3>6. \A m \in InState(slots, "mailbox")' : Behind(slots[m].frame.source)'
      <4> TAKE m \in InState(slots, "mailbox")'
      <4>1. Behind(slots[m].frame.source) /\ slots'[m] = slots[m]
        BY <2>4, <3>1, <3>2
      <4> QED
        BY <1>7, <3>3, <4>1 DEF Behind
    <3>7. BehindMail(slots[capture.slot].frame.source)' /\ slots'[capture'.slot].frame.source = staging[n].source
      <4>1. BehindMail(staging[n].source) /\ slots'[capture'.slot].frame.source = staging[n].source
        BY <2>1, <2>4, <2>6, <3>1
      <4> QED
        BY <1>7, <2>4, <3>2, <3>3, <4>1 DEF BehindMail, Behind
    <3>8. \A i \in 1..Len(staging)' : /\ BehindBatch(staging[i].source)' /\ staging'[i].source <= newest'
                                      /\ \A j \in 1..i : staging'[j].source <= staging'[i].source
      <4> TAKE i \in 1..Len(staging')
      <4>1. staging'[i] = staging[i + n] /\ i + n \in 1..Len(staging) /\ n \in 1..(i + n)
        BY <1>1, <2>1, <2>5
      <4>2. BehindMail(staging[i + n].source) /\ staging[i + n].source <= newest /\ staging[n].source <= staging[i + n].source
        BY <3>1, <4>1
      <4>3. BehindBatch(staging[i].source)'
        BY <1>7, <2>4, <2>6, <3>2, <3>3, <3>7, <4>1, <4>2 DEF BehindBatch, BehindMail, Behind
      <4>4. \A j \in 1..i : staging'[j].source <= staging'[i].source
        <5> TAKE j \in 1..i
        <5>1. staging'[j] = staging[j + n] /\ j + n \in 1..(i + n)
          BY <1>1, <2>1, <2>5
        <5> QED
          BY <3>1, <4>1, <5>1
      <4> QED
        BY <1>7, <4>1, <4>2, <4>3, <4>4
    <3>9. BehindBatch(newest)'
      <4>1. BehindMail(newest) /\ staging[n].source <= newest
        BY <2>1, <3>1
      <4> QED
        BY <1>7, <2>4, <2>6, <3>2, <3>3, <3>7, <4>1 DEF BehindBatch, BehindMail, Behind
    <3>10. newest' <= agent'.source /\ (capture'.at = "copy" \/ capture'.frame # NoFrame => capture'.frame.source = agent'.source)
      BY <1>3, <1>5, <1>7, <2>6
    <3>11. wire'.source <= worker'.frame.source /\ (Held' => worker'.frame.source <= slots'[worker'.slot].frame.source)
      BY <1>7, <3>1, <3>3
    <3> QED
      BY <3>6, <3>7, <3>8, <3>9, <3>10, <3>11 DEF InOrder
  <2>19. NewestSomewhere'
    <3> SUFFICES ASSUME newest > 0
                 PROVE  NewestSomewhere'
      BY <1>7 DEF NewestSomewhere
    <3>1. CASE \E i \in 1..Len(staging) : staging[i].source = newest
      <4> PICK i \in 1..Len(staging) : staging[i].source = newest
        BY <3>1
      <4>1. CASE i <= n
        <5>1. i \in 1..n /\ staging[i].source <= staging[n].source /\ staging[n].source <= newest /\ staging[n].source \in Nat
          BY <1>1, <1>4, <2>1, <4>1 DEF VideoInv, InOrder, Hybrid
        <5>2. slots'[capture'.slot].frame.source = newest'
          BY <1>3, <1>7, <2>4, <2>6, <5>1
        <5> QED
          BY <2>1, <2>6, <5>2 DEF NewestSomewhere
      <4>2. CASE ~(i <= n)
        <5>1. i - n \in 1..rest /\ (i - n) + n = i
          BY <1>1, <2>1, <4>2 DEF rest
        <5>2. staging'[i - n].source = newest' /\ i - n \in 1..Len(staging')
          BY <1>7, <2>5, <5>1
        <5> QED
          BY <5>2 DEF NewestSomewhere
      <4> QED
        BY <4>1, <4>2
    <3>2. CASE ~\E i \in 1..Len(staging) : staging[i].source = newest
      <4>1. \/ newest = worker.frame.source
            \/ Held /\ slots[worker.slot].frame.source = newest
            \/ \E m \in InState(slots, "mailbox") : slots[m].frame.source = newest
        BY <1>1, <1>2, <3>2 DEF VideoInv, NewestSomewhere, Hybrid
      <4> QED
        BY <1>7, <1>9, <2>1, <2>4, <2>7, <4>1 DEF NewestSomewhere, Held, InState
    <3> QED
      BY <3>1, <3>2
  <2>20. Requested'
    BY <1>1, <1>2, <1>3, <1>5, <1>6, <1>7, <1>9, <2>1, <2>4, <2>5, <2>6, <2>7 DEF VideoInv, Requested, Hybrid
  <2>21. Pictures'
    BY <1>1, <1>2, <1>3, <1>5, <1>6, <1>7, <1>9, <2>1, <2>4, <2>5, <2>6, <2>7 DEF VideoInv, Pictures
  <2>22. Repeats'
    <3>1. ~staging[n].repeated /\ ~slots'[s].frame.repeated
      BY <1>4, <2>1, <2>4
    <3>2. \A i \in 1..Len(staging') : ~staging'[i].repeated
      BY <1>4, <2>5
    <3>3. \A t \in Slots : ~slots'[t].frame.repeated
      BY <1>1, <2>4, <3>1 DEF VideoInv, Repeats
    <3> QED
      BY <1>1, <1>5, <1>7, <2>6, <3>2, <3>3 DEF VideoInv, Repeats, Known
  <2>23. Counts'
    BY <1>1, <1>2, <1>3, <1>5, <1>6, <1>7, <1>9, <2>1, <2>4, <2>5, <2>6, <2>7 DEF VideoInv, Counts
  <2>24. WireIsFaithful'
    BY <1>1, <1>2, <1>3, <1>5, <1>6, <1>7, <1>9, <2>1, <2>4, <2>5, <2>6, <2>7
       DEF VideoInv, WireIsFaithful, IdrIsNext, PictureIsCurrent, RepeatShowsKnown
  <2> QED
    BY <2>8, <2>9, <2>10, <2>11, <2>12, <2>13, <2>14, <2>15, <2>16, <2>17, <2>18, <2>19, <2>20, <2>21, <2>22,
       <2>23, <2>24
       DEF VideoInv
<1> QED
  BY <1>10, <1>11

(* The rest of pump and of submit.                                          *)
LEMMA PumpEndsKeeps ==
  ASSUME VideoInv, NEW works \in BOOLEAN, PumpEnds(works)
  PROVE  VideoInv'
<1> DEFINE s == capture.slot
           got == capture.frame # NoFrame
           sends == got /\ ~fatal /\ Len(staging) # Cardinality(Slots) /\ works
<1>1. /\ capture.at = "pumped" /\ agent.path = "readback" /\ agent \in Agents /\ capture.frame \in Frames
      /\ s \in Slots \union {NoSlot} /\ NoSlot \notin Slots
      /\ staging \in Seq(Frames) /\ slots \in [Slots -> SlotValues]
      /\ Len(staging) \in Nat /\ Len(staging) <= Cardinality(Slots) /\ Cardinality(Slots) \in Nat
  <2>1. capture.at = "pumped" /\ agent.path = "readback"
    BY DEF VideoInv, Places, PumpEnds
  <2>2. /\ agent \in Agents /\ capture \in Captures /\ staging \in Seq(Frames) /\ Len(staging) <= Cardinality(Slots)
        /\ slots \in [Slots -> SlotValues]
    BY DEF VideoInv, CaptureTyped, SlotsTyped
  <2>3. capture.frame \in Frames /\ s \in Slots \union {NoSlot}
    BY <2>2 DEF Captures
  <2>4. Cardinality(Slots) \in Nat /\ NoSlot \notin Slots
    BY VideoAssumption, FS_CardinalityType, SourcesAreNumbers
  <2> QED
    BY <2>1, <2>2, <2>3, <2>4
<1>2. /\ NoFrame \in Frames /\ ~NoFrame.repeated /\ NoSlot \notin Slots /\ newest \in Nat /\ agent.source \in Nat
      /\ worker.frame.source \in Nat /\ newest <= agent.source /\ ~capture.frame.repeated
      /\ \A t \in Slots : slots[t].frame.source \in Nat /\ ~slots[t].frame.repeated
  BY <1>1, SourcesAreNumbers DEF NoFrame, VideoInv, InOrder, Repeats, Hybrid
<1>3. s \in Slots => slots[s].state = "writing" /\ PublishedFrom(slots, s, "available")
  <2> SUFFICES ASSUME s \in Slots
               PROVE  slots[s].state = "writing" /\ PublishedFrom(slots, s, "available")
    OBVIOUS
  <2>1. slots[s].state = "writing"
    BY DEF VideoInv, Owned
  <2>2. \A m \in InState(slots, "mailbox") : MaySupersede(slots[m].frame, slots[s].frame)
    BY <1>2 DEF MaySupersede
  <2>3. slots' = PublishLatest(slots, s, "available")
    BY <1>1, <2>2 DEF PumpEnds, Mailed
  <2> HIDE DEF s
  <2> QED
    BY <1>1, <2>1, <2>3, PublishMoves
<1>4. s = NoSlot => slots' = slots
  BY DEF PumpEnds
<1>5. /\ slots' \in [Slots -> SlotValues]
      /\ s \in Slots => slots'[s].state = "mailbox" /\ slots'[s].frame = slots[s].frame
      /\ s \notin Slots => slots' = slots
      /\ \A t \in Slots \ {s} :
           \/ /\ slots[t].state = "mailbox" /\ slots'[t].state = "available" /\ slots'[t].frame = NoFrame
              /\ s \in Slots
           \/ slots[t].state # "mailbox" /\ slots'[t] = slots[t]
           \/ s \notin Slots /\ slots'[t] = slots[t]
  BY <1>1, <1>3, <1>4 DEF PublishedFrom
<1>6. Flagged /\ UNCHANGED <<machine, content, coder, worker, requests, permit, wire, known, answered>>
  <2>1. wake' \in BOOLEAN
    BY DEF VideoInv, WorkerTyped, PumpEnds, Fatal
  <2> QED
    BY <2>1 DEF PumpEnds, Fatal, Flagged, history
<1>7. /\ capture' = Idle /\ Idle \in Captures /\ Idle.at = "idle" /\ Idle.frame = NoFrame /\ Idle.slot = NoSlot
  BY <1>2 DEF Idle, Captures, PumpEnds
<1>8. verdict' \in Statuses /\ Completes
  <2>1. \E status \in Statuses : Finish(status)
    BY DEF PumpEnds, StatusAfter, Statuses
  <2> QED
    BY <2>1, StepReports
<1>9. /\ agent' \in Agents /\ agent'.path = "readback" /\ agent'.source = agent.source /\ agent'.force = agent.force
  <2>1. agent' = (IF sends THEN [agent EXCEPT !.submitted = capture.frame.content] ELSE agent)
    BY DEF PumpEnds
  <2>2. capture.frame.content \in 0..MaxContent
    BY <1>1 DEF Frames
  <2> QED
    BY <1>1, <2>1, <2>2 DEF Agents
<1>10. \/ /\ sends /\ staging' = Append(staging, capture.frame) /\ newest' = agent.source
          /\ capture.frame.source = agent.source
       \/ ~sends /\ UNCHANGED <<staging, newest>>
  <2>1. got => capture.frame.source = agent.source
    BY <1>1 DEF VideoInv, InOrder, Hybrid
  <2> QED
    BY <2>1 DEF PumpEnds
<1> HIDE DEF sends
<1>11. /\ staging' \in Seq(Frames) /\ Len(staging') <= Cardinality(Slots) /\ newest' \in Nat
       /\ newest <= newest' /\ newest' <= agent.source /\ Len(staging') \in Nat
       /\ \A i \in 1..Len(staging) : staging'[i] = staging[i] /\ i \in 1..Len(staging')
       /\ \A i \in 1..Len(staging') : i \in 1..Len(staging) \/ (staging'[i] = capture.frame /\ capture.frame.source = newest')
       /\ newest' = newest \/ (Len(staging') \in 1..Len(staging') /\ staging'[Len(staging')].source = newest')
  <2>1. CASE sends
    <3>1. /\ staging' = Append(staging, capture.frame) /\ newest' = agent.source /\ capture.frame.source = agent.source
          /\ Len(staging) # Cardinality(Slots)
      BY <1>10, <2>1 DEF sends
    <3>2. /\ staging' \in Seq(Frames) /\ Len(staging') = Len(staging) + 1
          /\ \A i \in 1..Len(staging) : staging'[i] = staging[i]
          /\ staging'[Len(staging) + 1] = capture.frame
      BY <1>1, <3>1
    <3> QED
      BY <1>1, <1>2, <3>1, <3>2
  <2>2. CASE ~sends
    BY <1>1, <1>2, <1>10, <2>2
  <2> QED
    BY <2>1, <2>2
<1>12. /\ worker.slot \in Slots => slots[worker.slot].state = "worker" /\ slots'[worker.slot] = slots[worker.slot]
       /\ Held => worker.slot \in Slots
  BY <1>1, <1>3, <1>5 DEF VideoInv, Held, Places, WithSlot, Owned, Hybrid, ReadbackPlaces
<1>13. CaptureTyped'
  BY <1>1, <1>2, <1>3, <1>5, <1>6, <1>7, <1>9, <1>11, <1>8 DEF VideoInv, CaptureTyped, Flagged
<1>14. WorkerTyped'
  BY <1>1, <1>2, <1>3, <1>5, <1>6, <1>7, <1>9, <1>11, <1>8
     DEF VideoInv, WorkerTyped, Completes, Flagged, Flagged
<1>15. SlotsTyped'
  BY <1>1, <1>2, <1>3, <1>5, <1>6, <1>7, <1>9, <1>11 DEF VideoInv, SlotsTyped, Flagged
<1>16. AtRest'
  BY <1>1, <1>2, <1>3, <1>5, <1>6, <1>7, <1>9, <1>11 DEF VideoInv, AtRest, Hybrid, Flagged
<1>17. Places'
  BY <1>1, <1>2, <1>3, <1>5, <1>6, <1>7, <1>9, <1>11, <1>12
     DEF VideoInv, Places, Hybrid, WithSlot, SharedPlaces, ReadbackPlaces, WorkerPlaces, Flagged
<1>18. OneMailbox'
  BY <1>1, <1>2, <1>3, <1>5, <1>6, <1>7, <1>9, <1>11 DEF VideoInv, OneMailbox, Flagged
<1>19. Owned'
  BY <1>1, <1>2, <1>3, <1>5, <1>6, <1>7, <1>9, <1>11 DEF VideoInv, Owned, Places, WithSlot, Flagged
<1>20. Keyed'
  BY <1>1, <1>2, <1>3, <1>5, <1>6, <1>7, <1>9, <1>11 DEF VideoInv, Keyed, Places, WithSlot, KeyFree, Flagged
<1>21. Blank'
  BY <1>1, <1>2, <1>3, <1>5, <1>6, <1>7, <1>9, <1>11, <1>12
     DEF VideoInv, Blank, Places, Hybrid, WithSlot, SharedPlaces, ReadbackPlaces, WorkerPlaces, Flagged
<1>22. KeysComeBack'
  BY <1>1, <1>2, <1>3, <1>5, <1>6, <1>7, <1>9, <1>11 DEF VideoInv, KeysComeBack, Places, KeyFree, Flagged
<1>23. InOrder'
  <2>1. /\ wire.source <= worker.frame.source
        /\ Held => worker.frame.source <= slots[worker.slot].frame.source
        /\ \A m \in InState(slots, "mailbox") : Behind(slots[m].frame.source)
        /\ s \in Slots => BehindMail(slots[s].frame.source)
        /\ \A i \in 1..Len(staging) : /\ BehindBatch(staging[i].source) /\ staging[i].source <= newest
                                      /\ \A j \in 1..i : staging[j].source <= staging[i].source
        /\ BehindBatch(newest)
    BY <1>1 DEF VideoInv, InOrder, Hybrid
  <2>2. Held' = Held /\ (Held => slots'[worker.slot] = slots[worker.slot])
    BY <1>6, <1>12 DEF Held
  <2>3. \A m \in InState(slots, "mailbox")' :
          m \in Slots /\ slots'[m].frame.source = slots[m].frame.source /\ (m = s \/ (s \notin Slots /\ m \in InState(slots, "mailbox")))
    BY <1>5 DEF InState
  <2>4. \A m \in InState(slots, "mailbox")' : Behind(slots[m].frame.source)'
    <3> TAKE m \in InState(slots, "mailbox")'
    <3>1. Behind(slots[m].frame.source) /\ slots'[m].frame.source = slots[m].frame.source
      BY <1>1, <2>1, <2>3 DEF BehindMail
    <3> QED
      BY <1>6, <2>2, <3>1 DEF Behind
  <2>5. ASSUME NEW x \in Nat, BehindBatch(x)
        PROVE  /\ worker'.frame.source <= x
               /\ Held' => slots'[worker'.slot].frame.source <= x
               /\ \A m \in InState(slots, "mailbox")' : slots'[m].frame.source <= x
    BY <1>1, <1>6, <2>2, <2>3, <2>5 DEF BehindBatch, BehindMail, Behind
  <2>6. BehindBatch(newest')
    BY <1>1, <1>2, <1>11, <1>12, <2>1 DEF BehindBatch, BehindMail, Behind, InState
  <2>7. BehindBatch(newest)'
    BY <1>7, <1>11, <2>5, <2>6 DEF BehindBatch, BehindMail, Behind
  <2>8. \A i \in 1..Len(staging)' : /\ BehindBatch(staging[i].source)' /\ staging'[i].source <= newest'
                                    /\ \A j \in 1..i : staging'[j].source <= staging'[i].source
    <3> TAKE i \in 1..Len(staging')
    <3>1. CASE i \in 1..Len(staging)
      <4>1. staging'[i] = staging[i] /\ staging[i].source \in Nat /\ BehindBatch(staging[i].source)
        <5>1. staging[i] \in Frames
          BY <1>1, <3>1
        <5>2. staging[i].source \in Nat
          BY <5>1, VideoAssumption DEF Frames
        <5>3. BehindBatch(staging[i].source)
          BY <2>1, <3>1
        <5> QED
          BY <1>11, <3>1, <5>2, <5>3
      <4>2. BehindBatch(staging[i].source)'
        BY <1>7, <2>5, <4>1 DEF BehindBatch, BehindMail, Behind
      <4>3. staging'[i].source <= newest'
        BY <1>2, <1>11, <2>1, <3>1, <4>1
      <4>4. \A j \in 1..i : staging'[j].source <= staging'[i].source
        BY <1>1, <1>11, <2>1, <3>1, <4>1
      <4> QED
        BY <4>2, <4>3, <4>4
    <3>2. CASE i \notin 1..Len(staging)
      <4>1. staging'[i].source = newest' /\ newest' \in Nat
        BY <1>11, <3>2
      <4>2. BehindBatch(staging[i].source)'
        BY <1>7, <2>5, <2>6, <4>1 DEF BehindBatch, BehindMail, Behind
      <4>3. \A j \in 1..i : staging'[j].source <= staging'[i].source
        <5> TAKE j \in 1..i
        <5>1. CASE j \in 1..Len(staging)
          <6>1. staging'[j] = staging[j] /\ staging[j].source <= newest /\ staging[j] \in Frames
            BY <1>1, <1>11, <2>1, <5>1
          <6>2. staging[j].source \in Nat
            BY <6>1, VideoAssumption DEF Frames
          <6> QED
            BY <1>2, <1>11, <4>1, <6>1, <6>2
        <5>2. CASE j \notin 1..Len(staging)
          BY <1>11, <4>1, <5>2
        <5> QED
          BY <5>1, <5>2
      <4> QED
        BY <4>1, <4>2, <4>3
    <3> QED
      BY <3>1, <3>2
  <2>9. wire'.source <= worker'.frame.source /\ (Held' => worker'.frame.source <= slots'[worker'.slot].frame.source)
    BY <1>6, <2>1, <2>2
  <2> QED
    BY <1>2, <1>7, <1>9, <1>11, <2>4, <2>7, <2>8, <2>9 DEF InOrder
<1>24. NewestSomewhere'
  <2>1. CASE newest' = newest /\ newest > 0 /\ ~stopping'
    <3>1. ~stopping
      BY <1>6, <2>1 DEF Flagged
    <3>2. CASE s \in Slots /\ slots[s].frame.source = newest
      <4>1. s \in InState(slots, "mailbox")' /\ slots'[s].frame.source = newest'
        BY <1>5, <2>1, <3>2 DEF InState
      <4> QED
        BY <4>1 DEF NewestSomewhere
    <3>3. CASE ~(s \in Slots /\ slots[s].frame.source = newest)
      <4>1. \/ newest = worker.frame.source
            \/ Held /\ slots[worker.slot].frame.source = newest
            \/ \E m \in InState(slots, "mailbox") : slots[m].frame.source = newest
            \/ \E i \in 1..Len(staging) : staging[i].source = newest
        BY <1>1, <2>1, <3>1, <3>3 DEF VideoInv, NewestSomewhere, Hybrid
      <4>2. CASE \E m \in InState(slots, "mailbox") : slots[m].frame.source = newest
        <5>1. PICK m \in Slots : slots[m].state = "mailbox" /\ slots[m].frame.source = newest
          BY <4>2 DEF InState
        <5>2. s \in Slots => slots[m].frame.source <= slots[s].frame.source /\ slots[s].frame.source <= newest
          BY <1>1, <5>1 DEF VideoInv, InOrder, BehindBatch, BehindMail, InState, Hybrid
        <5>3. s \notin Slots
          BY <1>2, <3>3, <5>1, <5>2
        <5>4. m \in InState(slots, "mailbox")' /\ slots'[m].frame.source = newest'
          BY <1>5, <2>1, <5>1, <5>3 DEF InState
        <5> QED
          BY <5>4 DEF NewestSomewhere
      <4>3. CASE \E i \in 1..Len(staging) : staging[i].source = newest
        BY <1>11, <2>1, <4>3 DEF NewestSomewhere
      <4>4. CASE newest = worker.frame.source \/ (Held /\ slots[worker.slot].frame.source = newest)
        BY <1>6, <1>12, <2>1, <4>4 DEF NewestSomewhere, Held
      <4> QED
        BY <4>1, <4>2, <4>3, <4>4
    <3> QED
      BY <3>2, <3>3
  <2>2. CASE newest' # newest
    BY <1>11, <2>2 DEF NewestSomewhere
  <2> QED
    BY <2>1, <2>2 DEF NewestSomewhere
<1>25. Requested'
  BY <1>1, <1>2, <1>3, <1>5, <1>6, <1>7, <1>9, <1>11 DEF VideoInv, Requested, Hybrid, Flagged
<1>26. Pictures'
  BY <1>1, <1>2, <1>3, <1>5, <1>6, <1>7, <1>9, <1>11 DEF VideoInv, Pictures, Flagged
<1>27. Repeats'
  <2>1. \A i \in 1..Len(staging') : ~staging'[i].repeated
    BY <1>1, <1>2, <1>11 DEF VideoInv, Repeats
  <2>2. \A t \in Slots : ~slots'[t].frame.repeated
    BY <1>2, <1>5
  <2> QED
    BY <1>1, <1>2, <1>6, <1>7, <1>9, <2>1, <2>2 DEF VideoInv, Repeats, Known
<1>28. Counts'
  BY <1>1, <1>2, <1>3, <1>5, <1>6, <1>7, <1>9, <1>11 DEF VideoInv, Counts, Flagged
<1>29. WireIsFaithful'
  BY <1>1, <1>2, <1>3, <1>5, <1>6, <1>7, <1>9, <1>11
     DEF VideoInv, WireIsFaithful, IdrIsNext, PictureIsCurrent, RepeatShowsKnown, Flagged
<1> QED
  BY <1>13, <1>14, <1>15, <1>16, <1>17, <1>18, <1>19, <1>20, <1>21, <1>22, <1>23, <1>24, <1>25, <1>26, <1>27,
     <1>28, <1>29
     DEF VideoInv

-----------------------------------------------------------------------------
(* The first state has the invariant.                                       *)
LEMMA VideoInvInit ==
  ASSUME VideoInit
  PROVE  VideoInv
<1>1. /\ NoFrame \in Frames /\ ~NoFrame.repeated /\ NoSlot \notin Slots /\ MaxSource \in Nat /\ MaxContent \in Nat
      /\ MaxSequence \in Nat /\ CompletionCapacity \in Nat /\ Cardinality(Slots) \in Nat
  <2>1. MaxSource \in Nat /\ MaxContent \in Nat /\ NoSlot \notin Slots
    BY VideoAssumption DEF NoSlot
  <2> QED
    BY <2>1, VideoAssumption, FS_CardinalityType DEF NoFrame, Frames
<1>2. Down \in Agents /\ Down.path = "down" /\ Down.submitted = 0
  BY <1>1 DEF Down, Agents, NoBridge, Bridges
<1>3. NoCoder \in Coders /\ NoCoder.encoder.inside = <<>>
  <2>1. <<>> \in Seq(0..MaxContent) /\ {} \in SUBSET Int
    OBVIOUS
  <2>2. NoEncoder \in Encoders /\ NoEncoder.inside = <<>>
    BY <2>1 DEF NoEncoder, Encoders
  <2> QED
    BY <1>1, <2>2 DEF NoCoder, Coders
<1>4. /\ NoWorker \in Workers /\ NoWorker.at = "off" /\ NoWorker.slot = NoSlot /\ NoWorker.frame = NoFrame
      /\ ~NoWorker.repeat
  <2>1. NoOutput \in Outputs
    BY <1>1 DEF NoOutput, Outputs
  <2> QED
    BY <1>1, <2>1 DEF NoWorker, Workers, WorkerPlaces
<1>5. Idle \in Captures /\ Idle.at = "idle" /\ Idle.frame = NoFrame /\ Idle.slot = NoSlot
  BY <1>1 DEF Idle, Captures
<1>6. /\ FreshSlots \in [Slots -> SlotValues]
      /\ \A s \in Slots : FreshSlots[s].state = "available" /\ FreshSlots[s].frame = NoFrame
  BY <1>1 DEF FreshSlots, FreeSlot, SlotValues
<1>7. /\ <<>> \in Seq(Frames) /\ <<>> \in Seq(Statuses) /\ Len(<<>>) = 0
  OBVIOUS
<1>8. /\ NoWire \in Wires /\ ~NoWire.complete /\ NoWire.picture = NoWire.content /\ ~NoWire.repeated /\ ~NoWire.owed
  BY <1>1 DEF NoWire, Wires
<1>9. CaptureTyped
  BY <1>1, <1>2, <1>3, <1>4, <1>5, <1>6, <1>7, <1>8 DEF CaptureTyped, Statuses, VideoInit
<1>10. WorkerTyped
  <2>1. completions \in Seq(Statuses) /\ Len(completions) <= CompletionCapacity
    BY <1>1, <1>7 DEF VideoInit
  <2> QED
    BY <1>3, <1>4, <1>8, <2>1 DEF VideoInit, WorkerTyped
<1>11. SlotsTyped
  BY <1>1, <1>2, <1>3, <1>4, <1>5, <1>6, <1>7, <1>8 DEF SlotsTyped, VideoInit
<1>12. AtRest
  BY <1>1, <1>2, <1>3, <1>4, <1>5, <1>6, <1>7, <1>8 DEF AtRest, Hybrid, VideoInit
<1>13. Places
  BY <1>1, <1>2, <1>3, <1>4, <1>5, <1>6, <1>7, <1>8 DEF Places, Hybrid, WithSlot, VideoInit
<1>14. OneMailbox
  BY <1>1, <1>2, <1>3, <1>4, <1>5, <1>6, <1>7, <1>8 DEF OneMailbox, VideoInit
<1>15. Owned
  BY <1>1, <1>2, <1>3, <1>4, <1>5, <1>6, <1>7, <1>8 DEF Owned, Places, WithSlot, VideoInit
<1>16. Keyed
  BY <1>1, <1>2, <1>3, <1>4, <1>5, <1>6, <1>7, <1>8 DEF Keyed, Places, WithSlot, KeyFree, VideoInit
<1>17. Blank
  BY <1>1, <1>2, <1>3, <1>4, <1>5, <1>6, <1>7, <1>8 DEF Blank, Places, WithSlot, VideoInit
<1>18. KeysComeBack
  BY <1>1, <1>2, <1>3, <1>4, <1>5, <1>6, <1>7, <1>8 DEF KeysComeBack, Places, KeyFree, VideoInit
<1>19. InOrder
  BY <1>1, <1>2, <1>3, <1>4, <1>5, <1>6, <1>7, <1>8
     DEF InOrder, BehindBatch, BehindMail, Behind, Held, Hybrid, InState, VideoInit
<1>20. NewestSomewhere
  BY <1>1, <1>2, <1>3, <1>4, <1>5, <1>6, <1>7, <1>8 DEF NewestSomewhere, Held, Hybrid, InState, VideoInit
<1>21. Requested
  BY <1>1, <1>2, <1>3, <1>4, <1>5, <1>6, <1>7, <1>8 DEF Requested, Hybrid, VideoInit
<1>22. Pictures
  BY <1>1, <1>2, <1>3, <1>4, <1>5, <1>6, <1>7, <1>8 DEF Pictures, VideoInit
<1>23. Repeats
  BY <1>1, <1>2, <1>3, <1>4, <1>5, <1>6, <1>7, <1>8 DEF Repeats, Known, VideoInit
<1>24. Counts
  BY <1>1, <1>2, <1>3, <1>4, <1>5, <1>6, <1>7, <1>8 DEF Counts, VideoInit
<1>25. WireIsFaithful
  BY <1>1, <1>2, <1>3, <1>4, <1>5, <1>6, <1>7, <1>8
     DEF WireIsFaithful, IdrIsNext, PictureIsCurrent, RepeatShowsKnown, VideoInit
<1> QED
  BY <1>9, <1>10, <1>11, <1>12, <1>13, <1>14, <1>15, <1>16, <1>17, <1>18, <1>19, <1>20, <1>21, <1>22, <1>23,
     <1>24, <1>25
     DEF VideoInv

(* Every step of either thread, and of the lease, keeps the invariant.      *)
LEMMA VideoInvStep ==
  ASSUME VideoInv, [VideoNext]_videoVars
  PROVE  VideoInv'
<1>1. CASE CaptureThread
  <2>1. CASE Start \/ StopBegin \/ StopEnd \/ PresenceFails \/ CopyShared \/ CopySharedFails
    BY <2>1, StartKeeps, StopBeginKeeps, StopEndKeeps, PresenceFailsKeeps, CopySharedKeeps, CopySharedFailsKeeps
  <2>2. ASSUME NEW asked \in BOOLEAN, StepEnds(asked) \/ NothingCaptured(asked)
        PROVE  VideoInv'
    BY <2>2, StepEndsKeeps
  <2>3. ASSUME NEW asked \in BOOLEAN, NEW again \in BOOLEAN, CaptureShared(asked, again)
        PROVE  VideoInv'
    BY <2>3, CaptureSharedKeeps
  <2>4. ASSUME NEW asked \in BOOLEAN, NEW got \in BOOLEAN, PumpFails(asked, got)
        PROVE  VideoInv'
    BY <2>4, PumpFailsKeeps
  <2>5. ASSUME NEW asked \in BOOLEAN, NEW got \in BOOLEAN, NEW n \in 0..Cardinality(Slots), PumpRead(asked, got, n)
        PROVE  VideoInv'
    BY <2>5, PumpReadKeeps
  <2>6. ASSUME NEW asked \in BOOLEAN, NEW again \in BOOLEAN, NEW periodic \in BOOLEAN,
               NEW fault \in {"none", "blit", "map", "encode", "late", "send"}, NEW clean \in BOOLEAN,
               SyncStep(asked, again, fault, periodic, clean)
        PROVE  VideoInv'
    BY <2>6, SyncStepKeeps
  <2>7. ASSUME NEW works \in BOOLEAN, PumpEnds(works)
        PROVE  VideoInv'
    BY <2>7, PumpEndsKeeps
  <2> QED
    BY <1>1, <2>1, <2>2, <2>3, <2>4, <2>5, <2>6, <2>7 DEF CaptureThread
<1>2. CASE EncoderThread
  <2>1. CASE \/ WorkerReclaim \/ WorkerTake \/ WorkerUpload \/ WorkerIdle
             \/ WorkerWaitFails \/ WorkerReclaimFails \/ WorkerKeyFails
    BY <2>1, WorkerReclaimKeeps, WorkerTakeKeeps, WorkerUploadKeeps, WorkerIdleKeeps, WorkerWaitFailsKeeps,
       WorkerReclaimFailsKeeps, WorkerKeyFailsKeeps
  <2>2. ASSUME NEW b \in BOOLEAN,
               WorkerWait(b) \/ WorkerWoken(b) \/ WorkerReclaimed(b) \/ WorkerKey(b) \/ WorkerRelease(b) \/ WorkerDrain(b)
        PROVE  VideoInv'
    BY <2>2, WorkerWaitKeeps, WorkerWokenKeeps, WorkerReclaimedKeeps, WorkerKeyKeeps, WorkerReleaseKeeps,
       WorkerDrainKeeps
  <2>3. ASSUME NEW ok \in BOOLEAN, NEW periodic \in BOOLEAN, WorkerEncode(ok, periodic)
        PROVE  VideoInv'
    BY <2>3, WorkerEncodeKeeps
  <2>4. ASSUME NEW outcome \in {"complete", "broken", "refused"}, WorkerPublish(outcome)
        PROVE  VideoInv'
    BY <2>4, WorkerPublishKeeps
  <2> QED
    BY <1>2, <2>1, <2>2, <2>3, <2>4 DEF EncoderThread
<1>3. CASE Revoke \/ Grant
  BY <1>3, PermitKeeps
<1>4. CASE UNCHANGED videoVars
  <2>1. CaptureTyped'
    BY <1>4 DEF videoVars, VideoInv, CaptureTyped
  <2>2. WorkerTyped'
    BY <1>4 DEF videoVars, VideoInv, WorkerTyped
  <2>3. SlotsTyped'
    BY <1>4 DEF videoVars, VideoInv, SlotsTyped
  <2>4. AtRest'
    BY <1>4 DEF videoVars, VideoInv, AtRest, Hybrid
  <2>5. Places'
    BY <1>4 DEF videoVars, VideoInv, Places, Hybrid, WithSlot
  <2>6. OneMailbox'
    BY <1>4 DEF videoVars, VideoInv, OneMailbox
  <2>7. Owned'
    BY <1>4 DEF videoVars, VideoInv, Owned, Places, WithSlot
  <2>8. Keyed'
    BY <1>4 DEF videoVars, VideoInv, Keyed, Places, WithSlot, KeyFree
  <2>9. Blank'
    BY <1>4 DEF videoVars, VideoInv, Blank, Places, WithSlot
  <2>10. KeysComeBack'
    BY <1>4 DEF videoVars, VideoInv, KeysComeBack, Places, KeyFree
  <2>11. InOrder'
    BY <1>4 DEF videoVars, VideoInv, InOrder, BehindBatch, BehindMail, Behind, Held, Hybrid, InState
  <2>12. NewestSomewhere'
    BY <1>4 DEF videoVars, VideoInv, NewestSomewhere, Held, Hybrid, InState
  <2>13. Requested'
    BY <1>4 DEF videoVars, VideoInv, Requested, Hybrid
  <2>14. Pictures'
    BY <1>4 DEF videoVars, VideoInv, Pictures
  <2>15. Repeats'
    BY <1>4 DEF videoVars, VideoInv, Repeats, Known
  <2>16. Counts'
    BY <1>4 DEF videoVars, VideoInv, Counts
  <2>17. WireIsFaithful'
    BY <1>4 DEF videoVars, VideoInv, WireIsFaithful, IdrIsNext, PictureIsCurrent, RepeatShowsKnown
  <2> QED
    BY <2>1, <2>2, <2>3, <2>4, <2>5, <2>6, <2>7, <2>8, <2>9, <2>10, <2>11, <2>12, <2>13, <2>14, <2>15, <2>16,
       <2>17
       DEF VideoInv
<1> QED
  BY <1>1, <1>2, <1>3, <1>4 DEF VideoNext

(* The read-back path never runs out of buffers: the mailbox and the        *)
(* encoder thread have one each.                                            *)
LEMMA RoomRemains ==
  ASSUME VideoInv
  PROVE  AlwaysRoom
<1> SUFFICES ASSUME agent.path = "readback", capture.at = "idle", InState(slots, "available") = {}
             PROVE  FALSE
  BY DEF AlwaysRoom
<1>1. capture.slot \notin Slots
  BY SourcesAreNumbers DEF VideoInv, Places
<1>2. \A s \in Slots : slots[s].state = "mailbox" \/ s = worker.slot
  <2> TAKE s \in Slots
  <2>1. slots[s].state \in {"available", "writing", "mailbox", "worker", "retired"} /\ slots[s].state # "available"
    BY DEF VideoInv, SlotsTyped, SlotValues, InState
  <2> QED
    BY <1>1, <2>1 DEF VideoInv, Owned
<1>3. \E x, y : Slots \subseteq {x, y}
  <2>1. CASE \E m \in Slots : slots[m].state = "mailbox"
    <3> PICK m \in Slots : slots[m].state = "mailbox"
      BY <2>1
    <3>1. Slots \subseteq {m, worker.slot}
      BY <1>2 DEF VideoInv, OneMailbox
    <3> QED
      BY <3>1
  <2>2. CASE ~\E m \in Slots : slots[m].state = "mailbox"
    <3>1. Slots \subseteq {worker.slot, worker.slot}
      BY <1>2, <2>2
    <3> QED
      BY <3>1
  <2> QED
    BY <2>1, <2>2
<1>4. PICK x, y : Slots \subseteq {x, y}
  BY <1>3
<1>5. IsFiniteSet({x}) /\ Cardinality({x}) = 1 /\ IsFiniteSet({y}) /\ Cardinality({y}) = 1
  BY FS_Singleton
<1>6. /\ IsFiniteSet({x} \union {y}) /\ Cardinality({x} \union {y}) <= 2
  <2> DEFINE one == Cardinality({x})
             other == Cardinality({y})
             both == Cardinality({x} \cap {y})
             all == Cardinality({x} \union {y})
  <2>1. /\ IsFiniteSet({x} \union {y}) /\ all = one + other - both
    BY <1>5, FS_Union
  <2>2. both \in Nat
    BY <1>5, FS_Intersection, FS_CardinalityType
  <2>3. one = 1 /\ other = 1
    BY <1>5
  <2> HIDE DEF one, other, both, all
  <2>4. all <= 2
    BY <2>1, <2>2, <2>3
  <2> QED
    BY <2>1, <2>4 DEF all
<1>7. Cardinality(Slots) <= Cardinality({x} \union {y})
  BY <1>4, <1>6, FS_Subset
<1>8. IsFiniteSet(Slots) /\ Cardinality(Slots) >= 3
  BY VideoAssumption
<1>9. Cardinality(Slots) \in Nat /\ Cardinality({x} \union {y}) \in Nat
  BY <1>6, <1>8, FS_CardinalityType
<1> DEFINE all == Cardinality(Slots)
           pair == Cardinality({x} \union {y})
<1>10. all \in Nat /\ pair \in Nat /\ all >= 3 /\ all <= pair /\ pair <= 2
  BY <1>6, <1>7, <1>8, <1>9
<1> HIDE DEF all, pair
<1> QED
  BY <1>10

(* The invariant has what the exchange of slots promises.                   *)
LEMMA VideoInvImplies ==
  ASSUME VideoInv
  PROVE  SlotExchange /\ WireIsFaithful
<1>1. VideoTypeOK
  <2>1. /\ machine \in Machines /\ content \in 0..MaxContent /\ Len(staging) <= Cardinality(Slots)
        /\ Len(completions) <= CompletionCapacity /\ verdict \in {"ok", "failed", "closed"}
        /\ {wake, stopping, fatal, permit} \subseteq BOOLEAN
    BY DEF VideoInv, CaptureTyped, WorkerTyped, Statuses
  <2>2. /\ agent.path \in {"down", "sync", "shared", "readback"}
        /\ agent.source \in 0..MaxSource /\ agent.submitted \in 0..MaxContent
    BY DEF VideoInv, CaptureTyped, Agents
  <2>3. capture.at \in {"idle", "copy", "pumped", "stopping"} /\ capture.slot \in Slots \union {NoSlot}
    BY DEF VideoInv, CaptureTyped, Captures
  <2>4. \A s \in Slots : /\ slots[s].state \in {"available", "writing", "mailbox", "worker", "retired"}
                         /\ slots[s].frame \in Frames
    BY DEF VideoInv, SlotsTyped, SlotValues
  <2>5. worker.at \in WorkerPlaces /\ coder.sequence \in 0..MaxSequence
    BY DEF VideoInv, WorkerTyped, Workers, Coders
  <2> QED
    BY <2>1, <2>2, <2>3, <2>4, <2>5 DEF VideoTypeOK, WorkerPlaces
<1>2. KeysAgree
  <2> SUFFICES ASSUME agent.path = "shared"
               PROVE  /\ Cardinality(InState(slots, "mailbox")) <= 1
                      /\ \A s \in Slots :
                           /\ slots[s].state = "available" => KeyFree(slots, s, 0)
                           /\ slots[s].state \in {"mailbox", "retired"} => KeyFree(slots, s, 1)
                           /\ worker.slot = s => slots[s].state = "worker" /\ slots[s].key = 1
    BY DEF KeysAgree
  <2>1. Cardinality(InState(slots, "mailbox")) <= 1
    <3>1. CASE InState(slots, "mailbox") = {}
      BY <3>1, FS_EmptySet
    <3>2. CASE InState(slots, "mailbox") # {}
      <4> PICK m : m \in InState(slots, "mailbox")
        BY <3>2
      <4>1. InState(slots, "mailbox") = {m}
        BY DEF VideoInv, OneMailbox, InState
      <4> QED
        BY <4>1, FS_Singleton
    <3> QED
      BY <3>1, <3>2
  <2> QED
    BY <2>1 DEF VideoInv, Keyed, Owned
<1>3. NewestKept
  <2> SUFFICES ASSUME Hybrid, newest > 0, ~fatal, ~stopping
               PROVE  \/ newest \in {wire.source, worker.frame.source}
                      \/ \E s \in Slots :
                           /\ slots[s].frame.source = newest
                           /\ \/ slots[s].state = "mailbox"
                              \/ s = capture.slot
                              \/ s = worker.slot /\ worker.at \in {"key", "upload"}
                      \/ \E i \in DOMAIN staging : staging[i].source = newest
    BY DEF NewestKept
  <2>1. DOMAIN staging = 1..Len(staging)
    BY DEF VideoInv, CaptureTyped
  <2>2. Held => worker.slot \in Slots
    BY DEF VideoInv, Held, Places, WithSlot, Hybrid, SharedPlaces, ReadbackPlaces
  <2> QED
    BY <2>1, <2>2 DEF VideoInv, NewestSomewhere, Held, InState
<1> QED
  BY <1>1, <1>2, <1>3, RoomRemains DEF VideoInv, SlotExchange

(* Only the encoder thread, the synchronous step and a start write on the   *)
(* wire, and each counts on from what is there.                             *)
LEMMA VideoWireStep ==
  ASSUME VideoInv, VideoNext, wire' # wire, wire' # NoWire
  PROVE  /\ wire'.sequence = wire.sequence + 1 /\ wire'.sequence < MaxSequence
         /\ wire'.source >= wire.source
<1>0. wire.source \in Nat /\ agent.source \in Nat /\ worker.frame.source \in Nat
  BY SourcesAreNumbers
<1>1. \/ \E outcome \in {"complete", "broken", "refused"} : WorkerPublish(outcome)
      \/ \E asked, again, periodic, clean \in BOOLEAN, fault \in {"none", "blit", "map", "encode", "late", "send"} :
           SyncStep(asked, again, fault, periodic, clean)
  <2>1. CASE CaptureThread
    <3>1. ~(Start \/ StopBegin \/ StopEnd \/ PresenceFails \/ CopyShared \/ CopySharedFails)
      BY DEF Start, StopBegin, StopEnd, Released, PresenceFails, CopyShared, CopySharedFails, history
    <3>2. \A asked \in BOOLEAN : ~(StepEnds(asked) \/ NothingCaptured(asked))
      BY DEF StepEnds, NothingCaptured, history
    <3>3. \A asked, again \in BOOLEAN : ~CaptureShared(asked, again)
      BY DEF CaptureShared, history
    <3>4. \A asked, got \in BOOLEAN : ~PumpFails(asked, got)
      BY DEF PumpFails, history
    <3>5. \A asked, got \in BOOLEAN : \A n : ~PumpRead(asked, got, n)
      BY DEF PumpRead, history
    <3>6. \A works \in BOOLEAN : ~PumpEnds(works)
      BY DEF PumpEnds, history
    <3> QED
      BY <2>1, <3>1, <3>2, <3>3, <3>4, <3>5, <3>6 DEF CaptureThread
  <2>2. CASE EncoderThread
    <3>1. ~(\/ WorkerReclaim \/ WorkerTake \/ WorkerUpload \/ WorkerIdle
            \/ WorkerWaitFails \/ WorkerReclaimFails \/ WorkerKeyFails)
      BY DEF WorkerReclaim, WorkerTake, WorkerUpload, WorkerIdle, WorkerWaitFails, WorkerReclaimFails,
             WorkerKeyFails, history
    <3>2. \A b \in BOOLEAN : ~(WorkerWait(b) \/ WorkerWoken(b) \/ WorkerReclaimed(b))
      BY DEF WorkerWait, WorkerWoken, WorkerReclaimed, history
    <3>3. \A b \in BOOLEAN : ~(WorkerKey(b) \/ WorkerRelease(b) \/ WorkerDrain(b))
      BY DEF WorkerKey, WorkerRelease, WorkerDrain, history
    <3>4. \A ok, periodic \in BOOLEAN : ~WorkerEncode(ok, periodic)
      BY DEF WorkerEncode, history
    <3> QED
      BY <2>2, <3>1, <3>2, <3>3, <3>4 DEF EncoderThread
  <2>3. ~(Revoke \/ Grant)
    BY DEF Revoke, Grant, history
  <2> QED
    BY <2>1, <2>2, <2>3 DEF VideoNext
<1>2. ASSUME NEW outcome, WorkerPublish(outcome)
      PROVE  wire'.sequence = coder.sequence /\ wire'.source = worker.frame.source /\ Hybrid /\ coder.sequence < MaxSequence
  <2>1. Hybrid
    BY <1>2 DEF VideoInv, AtRest, NoWorker, WorkerPublish
  <2> QED
    BY <1>2, <2>1 DEF VideoInv, Counts, WorkerPublish, Attempt
<1>3. ASSUME NEW asked \in BOOLEAN, NEW again \in BOOLEAN, NEW fault, NEW periodic, NEW clean,
             SyncStep(asked, again, fault, periodic, clean)
      PROVE  /\ wire'.sequence = coder.sequence /\ wire'.source = agent.source + 1
             /\ agent.path = "sync" /\ coder.sequence # MaxSequence
  <2>1. CapturedFrame(again).source = agent.source + 1
    BY DEF CapturedFrame
  <2>2. agent.path = "sync" /\ ~UNCHANGED history
    BY <1>3 DEF SyncStep, history
  <2> QED
    BY <1>3, <2>1, <2>2 DEF SyncStep, Attempt, Terminal
<1>4. wire.sequence = coder.sequence - 1 /\ coder.sequence \in 0..MaxSequence /\ MaxSequence \in Nat
  <2>1. agent.path # "down"
    BY <1>1, <1>2, <1>3 DEF Hybrid
  <2> QED
    BY <2>1, VideoAssumption DEF VideoInv, Counts, WorkerTyped, Coders
<1>5. CASE \E outcome \in {"complete", "broken", "refused"} : WorkerPublish(outcome)
  BY <1>0, <1>2, <1>4, <1>5 DEF VideoInv, InOrder
<1>6. CASE \E asked, again, periodic, clean \in BOOLEAN, fault \in {"none", "blit", "map", "encode", "late", "send"} :
             SyncStep(asked, again, fault, periodic, clean)
  BY <1>0, <1>3, <1>4, <1>6 DEF VideoInv, Counts
<1> QED
  BY <1>1, <1>5, <1>6

(* The slots the capture and the encoder thread exchange: slots and keyed   *)
(* mutexes agree, every key comes back before the handles are closed, the   *)
(* read-back path always has room, and the newest frame that was accepted   *)
(* is never lost to an older one, for any number of slots from three on.    *)
THEOREM VideoSlotsExchange == VideoSpec => []SlotExchange
<1>1. VideoInit => VideoInv
  BY VideoInvInit
<1>2. VideoInv /\ [VideoNext]_videoVars => VideoInv'
  BY VideoInvStep
<1>3. VideoInv => SlotExchange
  BY VideoInvImplies
<1> QED
  BY <1>1, <1>2, <1>3, PTL DEF VideoSpec

(* What is sent is what it should be: as long as an IDR request is owed     *)
(* every encode asks for a keyframe, and NVENC makes one                    *)
(* (force_idr_next_, idr_request_generation); the picture is the one        *)
(* captured for its identity; and a frame marked as a repeat has a content  *)
(* that the outbound pipeline of its path had accepted unmarked.            *)
THEOREM VideoWireIsFaithful == VideoSpec => []WireIsFaithful
<1>1. VideoInit => VideoInv
  BY VideoInvInit
<1>2. VideoInv /\ [VideoNext]_videoVars => VideoInv'
  BY VideoInvStep
<1>3. VideoInv => WireIsFaithful
  BY VideoInvImplies
<1> QED
  BY <1>1, <1>2, <1>3, PTL DEF VideoSpec

(* The sequence counts up by one, stays below the terminal one, and no      *)
(* picture follows a later one, whichever thread publishes                  *)
(* (advance_video_frame_sequence).                                          *)
THEOREM VideoStreamsInOrder == VideoSpec => StreamOrdered
<1>1. VideoInit => VideoInv
  BY VideoInvInit
<1>2. VideoInv /\ [VideoNext]_videoVars => VideoInv'
  BY VideoInvStep
<1>3. VideoInv /\ [VideoNext]_videoVars =>
        [wire' # wire /\ wire' # NoWire =>
           /\ wire'.sequence = wire.sequence + 1 /\ wire'.sequence < MaxSequence
           /\ wire'.source >= wire.source]_videoVars
  BY VideoWireStep
<1> QED
  BY <1>1, <1>2, <1>3, PTL DEF VideoSpec, StreamOrdered
=============================================================================
