-------------------------- MODULE EpochReservation --------------------------
(***************************************************************************)
(* FileEpochReservationStore (e2e_core/src/host/infrastructure/            *)
(* file_epoch_reservation_store.cpp): the persisted allocator of stream    *)
(* epochs that every Host process calls before it opens a video stream,    *)
(* followed by StreamIdentityGenerator, which numbers the frames of the    *)
(* epoch a process owns.                                                   *)
(*                                                                         *)
(* A caller of reserve_next() is a process that walks through              *)
(*   lock - read - create tmp - write - fsync - rename - fsync dir - return*)
(* and may fail or be killed between any two of them; a power loss kills   *)
(* every process and forgets what the disk was not told to keep.           *)
(***************************************************************************)
EXTENDS Integers, FiniteSets

CONSTANTS Procs,      \* Host processes (and threads) sharing the state file
          TmpNames,   \* names of temporary files
          TmpOf,      \* TmpOf[p]: p's temporary file: one per pid (POSIX) or
                      \* one shared ".tmp" (Windows)
          NoProc,     \* no process holds the interprocess lock
          MaxEpoch,   \* maximum_epoch_
          MaxSeq      \* the largest frame sequence (2^32 - 1 in the code)

ASSUME TmpAssumption   == TmpOf \in [Procs -> TmpNames]
ASSUME NoProcAssumption == NoProc \notin Procs
ASSUME MaxEpochAssumption == MaxEpoch \in Nat \ {0}
ASSUME MaxSeqAssumption == MaxSeq \in Nat

VARIABLES
    pc,       \* pc[p]: where p is in reserve_next()
    lock,     \* holder of the exclusive lock on state_file_.lock
    next,     \* next[p]: the local variable of reserve_next()
    file,     \* what a reader of state_file_ sees; 0: the file is missing
    disk,     \* what may be found in state_file_ after a power loss
    tmp,      \* tmp[n]: a temporary file: its value and whether it is synced
    issued,   \* issued[e]: how often reserve_next() has returned e
    gen,      \* gen[p]: p's StreamIdentityGenerator
    used      \* used[e, s]: how often frame identity <<e, s>> was handed out

storeVars == <<pc, lock, next, file, disk, tmp, issued>>
genVars   == <<gen, used>>
vars      == <<storeVars, genVars>>

-----------------------------------------------------------------------------
Epochs   == 1 .. MaxEpoch
Seqs     == 0 .. MaxSeq
Torn     == -1                     \* a file whose bytes never reached the disk
Contents == {Torn} \cup (0 .. MaxEpoch)

\* The Windows build's naming: every process writes the same ".tmp".
SharedTmp == [p \in Procs |-> CHOOSE n \in TmpNames : TRUE]

NoTmp    == [value |-> 0, synced |-> FALSE]
TmpFiles == [value : 0 .. MaxEpoch, synced : BOOLEAN]

\* No generator yet: epoch 0 is outside the protocol range.
NoGen      == [epoch |-> 0, sequence |-> 0, rollover |-> FALSE]
Generators == [epoch : 0 .. MaxEpoch, sequence : Seqs, rollover : BOOLEAN]

Steps    == {"idle", "locked", "read", "created", "written", "synced",
             "renamed", "durable"}
InStore  == Steps \ {"idle"}

Init ==
    /\ pc     = [p \in Procs |-> "idle"]
    /\ lock   = NoProc
    /\ next   = [p \in Procs |-> 0]
    /\ file   = 0
    /\ disk   = {0}
    /\ tmp    = [n \in TmpNames |-> NoTmp]
    /\ issued = [e \in Epochs |-> 0]
    /\ gen    = [p \in Procs |-> NoGen]
    /\ used   = [id \in Epochs \X Seqs |-> 0]

-----------------------------------------------------------------------------
(* reserve_next(), step by step *)

Goto(p, s) == pc' = [pc EXCEPT ![p] = s]

\* The call leaves with an exception: the lock's destructor runs.
Throw(p) ==
    /\ Goto(p, "idle")
    /\ lock' = NoProc

Unlink(p) == tmp' = [tmp EXCEPT ![TmpOf[p]] = NoTmp]

\* InterprocessLock: flock(LOCK_EX) / LockFileEx block until it is free.
AcquireLock(p) ==
    /\ pc[p] = "idle"
    /\ lock = NoProc
    /\ lock' = p
    /\ Goto(p, "locked")
    /\ UNCHANGED <<next, file, disk, tmp, issued, genVars>>

\* parse_epoch_file and the exhaustion test; the file may also be unreadable.
ReadCurrent(p) ==
    /\ pc[p] = "locked"
    /\ \/ /\ file # Torn /\ file < MaxEpoch
          /\ next' = [next EXCEPT ![p] = file + 1]
          /\ Goto(p, "read")
          /\ UNCHANGED lock
       \/ Throw(p) /\ UNCHANGED next
    /\ UNCHANGED <<file, disk, tmp, issued, genVars>>

\* open(O_CREAT | O_TRUNC) / CreateFileW(CREATE_ALWAYS).
CreateTmp(p) ==
    /\ pc[p] = "read"
    /\ \/ Unlink(p) /\ Goto(p, "created") /\ UNCHANGED lock
       \/ Throw(p) /\ UNCHANGED tmp
    /\ UNCHANGED <<next, file, disk, issued, genVars>>

\* write_all / WriteFile.
WriteTmp(p) ==
    /\ pc[p] = "created"
    /\ \/ /\ tmp' = [tmp EXCEPT ![TmpOf[p]].value = next[p]]
          /\ Goto(p, "written")
          /\ UNCHANGED lock
       \/ Unlink(p) /\ Throw(p)
    /\ UNCHANGED <<next, file, disk, issued, genVars>>

\* fsync and close of the temporary file / FlushFileBuffers.
SyncTmp(p) ==
    /\ pc[p] = "written"
    /\ \/ /\ tmp' = [tmp EXCEPT ![TmpOf[p]].synced = TRUE]
          /\ Goto(p, "synced")
          /\ UNCHANGED lock
       \/ Unlink(p) /\ Throw(p)
    /\ UNCHANGED <<next, file, disk, issued, genVars>>

\* What the disk holds of a file renamed over state_file_.
OnDisk(t) == IF t.synced THEN t.value ELSE Torn

\* Mutant: the call that fails to rename removes the state file instead of the
\* temporary one.
RenameTmpUnlinksState(p) ==
    LET t == tmp[TmpOf[p]] IN
    /\ pc[p] = "synced"
    /\ Unlink(p)
    /\ \/ /\ file' = t.value
          /\ disk' = disk \cup {OnDisk(t)}
          /\ Goto(p, "renamed")
          /\ UNCHANGED lock
       \/ Throw(p) /\ file' = 0 /\ disk' = disk \cup {0}
    /\ UNCHANGED <<next, issued, genVars>>

\* rename / MoveFileExW. Readers see the new content at once; the disk may
\* hold the old or the new one until the directory is synced.
RenameTmp(p) ==
    LET t == tmp[TmpOf[p]] IN
    /\ pc[p] = "synced"
    /\ Unlink(p)
    /\ \/ /\ file' = t.value
          /\ disk' = disk \cup {OnDisk(t)}
          /\ Goto(p, "renamed")
          /\ UNCHANGED lock
       \/ Throw(p) /\ UNCHANGED <<file, disk>>
    /\ UNCHANGED <<next, issued, genVars>>

\* Mutant: the directory is not synced after the rename.
SyncDirectorySkipped(p) ==
    /\ pc[p] = "renamed"
    /\ Goto(p, "durable")
    /\ UNCHANGED <<lock, disk, next, file, tmp, issued, genVars>>

\* fsync of the directory (MOVEFILE_WRITE_THROUGH on Windows). When it fails
\* the call throws although the new content is already visible.
SyncDirectory(p) ==
    /\ pc[p] = "renamed"
    /\ \/ disk' = {file} /\ Goto(p, "durable") /\ UNCHANGED lock
       \/ Throw(p) /\ disk' \in {disk, {file}}
    /\ UNCHANGED <<next, file, tmp, issued, genVars>>

\* StreamIdentityGenerator(reserved_epoch, 0) for the first epoch of a process,
\* rotate_to(reserved_epoch) afterwards: a lower or equal epoch is refused.
Adopt(p, e) ==
    gen' = [gen EXCEPT ![p] =
              IF e > @.epoch
              THEN [epoch |-> e, sequence |-> 0, rollover |-> FALSE]
              ELSE @]

\* return next: the locks are released and the caller adopts the epoch.
ReturnNext(p) ==
    /\ pc[p] = "durable"
    /\ issued' = [issued EXCEPT ![next[p]] = @ + 1]
    /\ Adopt(p, next[p])
    /\ Throw(p)
    /\ UNCHANGED <<next, file, disk, tmp, used>>

\* StreamIdentityGenerator::next().
NextIdentity(p) ==
    LET g == gen[p] IN
    /\ g.epoch # 0
    /\ ~g.rollover
    /\ used' = [used EXCEPT ![<<g.epoch, g.sequence>>] = @ + 1]
    /\ gen' = [gen EXCEPT ![p] = IF g.sequence = MaxSeq
                                 THEN [g EXCEPT !.rollover = TRUE]
                                 ELSE [g EXCEPT !.sequence = @ + 1]]
    /\ UNCHANGED storeVars

-----------------------------------------------------------------------------
(* The environment *)

\* p is killed: the kernel releases its lock, its temporary file stays behind,
\* and a restarted process has no generator.
Kill(p) ==
    /\ pc[p] \in InStore \/ gen[p] # NoGen
    /\ Goto(p, "idle")
    /\ lock' = IF lock = p THEN NoProc ELSE lock
    /\ gen' = [gen EXCEPT ![p] = NoGen]
    /\ UNCHANGED <<next, file, disk, tmp, issued, used>>

\* Power loss: every process dies and the disk's version of state_file_ is
\* what is left. Unsynced temporary files are lost or torn; both are NoTmp
\* here, because the next call truncates the file before using it.
PowerLoss ==
    /\ \E c \in disk : file' = c /\ disk' = {c}
    /\ pc'   = [p \in Procs |-> "idle"]
    /\ lock' = NoProc
    /\ tmp'  = [n \in TmpNames |-> NoTmp]
    /\ gen'  = [p \in Procs |-> NoGen]
    /\ UNCHANGED <<next, issued, used>>

\* persist_atomically, of either build.
Persist(p) ==
    \/ CreateTmp(p)
    \/ WriteTmp(p)
    \/ SyncTmp(p)
    \/ RenameTmp(p)
    \/ SyncDirectory(p)

Reserve(p) ==
    \/ AcquireLock(p)
    \/ ReadCurrent(p)
    \/ Persist(p)
    \/ ReturnNext(p)

Next ==
    \/ \E p \in Procs : Reserve(p) \/ NextIdentity(p) \/ Kill(p)
    \/ PowerLoss

Spec == Init /\ [][Next]_vars

-----------------------------------------------------------------------------
(* Properties *)

TypeOK ==
    /\ pc     \in [Procs -> Steps]
    /\ lock   \in Procs \cup {NoProc}
    /\ next   \in [Procs -> 0 .. MaxEpoch]
    /\ file   \in Contents
    /\ disk   \subseteq Contents
    /\ tmp    \in [TmpNames -> TmpFiles]
    /\ issued \in [Epochs -> Nat]
    /\ gen    \in [Procs -> Generators]
    /\ used   \in [Epochs \X Seqs -> Nat]

(* reserve_next() never returns an epoch twice, by whatever interleaving of *)
(* processes, failed calls, kills and power losses.                         *)
EpochIssuedOnce == \A e \in Epochs : issued[e] <= 1

(* The state file can always be parsed: a power loss never leaves a torn    *)
(* file behind, which parse_epoch_file would refuse for ever.               *)
StateFileReadable == file # Torn /\ Torn \notin disk

(* An epoch returned by reserve_next() is durable: no power loss can bring  *)
(* back a state file from which it would be reserved again.                 *)
IssuedIsDurable ==
    \A e \in Epochs : issued[e] > 0 => \A c \in disk : e <= c

(* No two frames, of any two processes, restarted or not, get the same      *)
(* (epoch, sequence) from StreamIdentityGenerator::next().                  *)
FrameIdentityUnique == \A id \in Epochs \X Seqs : used[id] <= 1

-----------------------------------------------------------------------------
(* The inductive invariant behind them *)

\* Exactly the process inside reserve_next() holds the lock.
LockHeld == \A p \in Procs : (pc[p] # "idle") <=> (lock = p)

\* What the holder has read is still what the file says, and what it wrote is
\* what it computed.
HolderCurrent ==
    \A p \in Procs :
       /\ pc[p] \in {"read", "created", "written", "synced"}
             => next[p] = file + 1 /\ next[p] \in Epochs
       /\ pc[p] \in {"written", "synced"} => tmp[TmpOf[p]].value = next[p]
       /\ pc[p] = "synced" => tmp[TmpOf[p]].synced
       /\ pc[p] \in {"renamed", "durable"}
             => file = next[p] /\ next[p] \in Epochs /\ issued[next[p]] = 0
       /\ pc[p] = "durable" => disk = {file}

\* A generator numbers frames of an epoch that was issued to it alone, and has
\* not yet handed out the sequences ahead of it.
GeneratorOwnsEpoch ==
    \A p \in Procs : gen[p].epoch # 0 =>
       /\ issued[gen[p].epoch] > 0
       /\ \A q \in Procs \ {p} : gen[q].epoch # gen[p].epoch
       /\ ~gen[p].rollover =>
             \A s \in Seqs : s >= gen[p].sequence => used[<<gen[p].epoch, s>>] = 0

UsedIsIssued == \A e \in Epochs, s \in Seqs : used[<<e, s>>] > 0 => issued[e] > 0

IndInv ==
    /\ TypeOK
    /\ LockHeld
    /\ HolderCurrent
    /\ file \in disk
    /\ StateFileReadable
    /\ IssuedIsDurable
    /\ EpochIssuedOnce
    /\ GeneratorOwnsEpoch
    /\ UsedIsIssued
    /\ FrameIdentityUnique

-----------------------------------------------------------------------------
(* What the store and the generator together promise: reserve_next() hands  *)
(* out epochs in strictly increasing order and next() never repeats an      *)
(* identity (EpochAllocator).                                               *)
Allocator == INSTANCE EpochAllocator
AllocatorSpec == Allocator!Spec
=============================================================================
