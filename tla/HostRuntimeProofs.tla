-------------------------- MODULE HostRuntimeProofs --------------------------
(* Proofs about HostRuntime, for any thresholds, bounds and vendors.        *)
EXTENDS HostRuntime, TLAPS

-----------------------------------------------------------------------------
(* The inductive invariant *)

Early == {"geometry", "bootstrap", "wireless", "reserve", "session", "application"}
Rebuilding == {"retry", "wait", "rebootstrap", "rewireless", "regeometry", "rereserve", "restart"}

(* What runs beside the worker in each phase: nothing before the first       *)
(* stream, at most the monitor while a stream is rebuilt, nothing at the end.*)
PhasePart ==
    /\ w.pc \in Early \cup {"ended"} =>
          ~app.on /\ ~mon.on /\ ~ctl.running /\ probe # "running" /\ ~auditor
    /\ w.pc \in Rebuilding => ~app.on /\ probe # "running" /\ ~auditor
    /\ w.pc \notin Early => ctl.finished

(* Stream and monitor use the link of the session, and on CAT6 nobody looks  *)
(* for CAT6.                                                                 *)
LinkPart ==
    /\ app.on => app.transport = w.transport
    /\ mon.on => mon.transport = w.transport
    /\ w.transport = "cat6" => probe # "running"

(* The breakers keep every path that has failed from being a candidate.      *)
BreakerPart ==
    /\ "nvenc_async_shared" \in pol.failed =>
          pol.breakers.skip_async_shared \/ pol.breakers.skip_nvenc \/ pol.breakers.force_software
    /\ "nvenc_capture_device" \in pol.failed => pol.breakers.skip_nvenc \/ pol.breakers.force_software
    /\ "nvenc_cross_adapter" \in pol.failed => pol.breakers.skip_nvenc \/ pol.breakers.force_software
    /\ "windows_hardware" \in pol.failed => pol.breakers.force_software
    /\ "software" \notin pol.failed

IndInv == TypeOK /\ PhasePart /\ LinkPart /\ BreakerPart /\ FailedPathNotReselected

-----------------------------------------------------------------------------
(* Types *)

PCs == {"geometry", "bootstrap", "wireless", "reserve", "session", "application",
        "stream", "teardown", "retry", "wait", "rebootstrap", "rewireless",
        "regeometry", "rereserve", "restart", "cleanup", "ended"}
Causes == {"none", "preferred_transport_upgrade", "cat6_link", "video_pipeline"}

(* The fields of the worker's record.                                        *)
LEMMA WorkerFields ==
  TypeOK =>
    /\ w.pc \in PCs /\ w.cause \in Causes /\ w.ready \in BOOLEAN
    /\ w.transport \in Transports /\ w.keys \in 0 .. MaxChannels
    /\ w = [pc |-> w.pc, cause |-> w.cause, ready |-> w.ready,
            transport |-> w.transport, keys |-> w.keys]
  BY DEF TypeOK, Workers, PCs, Causes

(* The fields of the records of stream and monitor.                          *)
LEMMA StreamFields ==
  TypeOK =>
    /\ app.on \in BOOLEAN /\ app.epoch \in 0 .. MaxEpoch /\ app.transport \in Transports
    /\ app.keys \in 0 .. MaxChannels /\ app.path \in Paths \cup {"none"}
    /\ mon.on \in BOOLEAN /\ mon.transport \in Transports /\ mon.failures \in 0 .. LinkLost
    /\ mon.old \in BOOLEAN
    /\ mon = [on |-> mon.on, transport |-> mon.transport, failures |-> mon.failures, old |-> mon.old]
  BY DEF TypeOK, Streams, Monitors

(* The fields of the policies' record.                                       *)
LEMMA PolicyFields ==
  TypeOK =>
    /\ pol.breakers.skip_async_shared \in BOOLEAN /\ pol.breakers.skip_nvenc \in BOOLEAN
    /\ pol.breakers.force_software \in BOOLEAN
    /\ pol.breakers \in [skip_async_shared : BOOLEAN, skip_nvenc : BOOLEAN, force_software : BOOLEAN]
    /\ pol.streak \in [delay : 0 .. MaxBackoff, stable : 0 .. StableFrames - 1]
    /\ pol.streak.delay \in 0 .. MaxBackoff /\ pol.streak.stable \in 0 .. StableFrames - 1
    /\ pol.silent \in NotObserved .. MaxSilence /\ pol.failed \in SUBSET Paths
    /\ pol = [breakers |-> pol.breakers, streak |-> pol.streak, silent |-> pol.silent,
              failed |-> pol.failed]
  BY DEF TypeOK, Policies

(* The fields of the records of the operator, the channel and the network.   *)
LEMMA OutsideFields ==
  TypeOK =>
    /\ ctl.stop \in BOOLEAN /\ ctl.running \in BOOLEAN /\ ctl.finished \in BOOLEAN
    /\ ctl = [stop |-> ctl.stop, running |-> ctl.running, finished |-> ctl.finished]
    /\ auth.gate \in BOOLEAN /\ auth.keys \in 0 .. MaxChannels /\ auth.used \in 1 .. MaxChannels
    /\ auth = [gate |-> auth.gate, keys |-> auth.keys, used |-> auth.used]
    /\ epoch.reserved \in 0 .. MaxEpoch /\ epoch.stream \in 0 .. MaxEpoch
    /\ epoch = [reserved |-> epoch.reserved, stream |-> epoch.stream]
    /\ env.reach \in SUBSET {"cat6", "wlan"} /\ env.vendor \in Vendors /\ env.faults \in 0 .. MaxFaults
    /\ env = [reach |-> env.reach, vendor |-> env.vendor, faults |-> env.faults]
    /\ probe \in {"due", "running", "ready", "absent", "cooling"} /\ auditor \in BOOLEAN
  BY DEF TypeOK, Flags, Permits, Epochs, Networks

(* A fault is counted as long as the bound allows it.                        *)
LEMMA FaultKeeps ==
  ASSUME TypeOK, Fault
  PROVE  env' \in Networks
  <1>1. env' = [reach |-> env.reach, vendor |-> env.vendor, faults |-> env.faults + 1]
    BY OutsideFields DEF Fault
  <1>2. env.faults + 1 \in 0 .. MaxFaults
    BY OutsideFields, RuntimeAssumption DEF Fault
  <1> QED
    BY <1>1, <1>2, OutsideFields DEF Networks

(* So an operation that may fail leaves the network a network.               *)
LEMMA OutcomeKeeps ==
  ASSUME TypeOK, NEW ok, NEW feasible, Outcome(ok, feasible)
  PROVE  env' \in Networks
  <1>1. CASE Fault
    BY <1>1, FaultKeeps
  <1>2. CASE UNCHANGED env
    BY <1>2 DEF TypeOK
  <1> QED
    BY <1>1, <1>2 DEF Outcome

(* The monitor of a session is a monitor of its link.                        *)
LEMMA MonitorStarts ==
  ASSUME NEW ok \in BOOLEAN, NEW t \in Transports
  PROVE  /\ StartMonitor(ok, t) \in Monitors
         /\ StartMonitor(ok, t).on => StartMonitor(ok, t).transport = t
         /\ NoMonitor \in Monitors /\ NoMonitor.on = FALSE
  <1>1. 0 \in 0 .. LinkLost
    BY PolicyAssumption
  <1>2. NoMonitor \in Monitors /\ NoMonitor.on = FALSE
    BY <1>1 DEF NoMonitor, Monitors, Transports
  <1>3. CASE ok
    BY <1>1, <1>2, <1>3 DEF StartMonitor, Monitors
  <1>4. CASE ~ok
    BY <1>2, <1>4 DEF StartMonitor
  <1> QED
    BY <1>3, <1>4

(* The next epoch is reserved below the limit.                               *)
LEMMA ReservedKeeps ==
  ASSUME TypeOK, epoch.reserved < MaxEpoch, epoch' = [epoch EXCEPT !.reserved = @ + 1]
  PROVE  epoch' \in Epochs
  <1>1. epoch' = [reserved |-> epoch.reserved + 1, stream |-> epoch.stream]
    BY OutsideFields
  <1>2. epoch.reserved + 1 \in 0 .. MaxEpoch
    BY OutsideFields, RuntimeAssumption
  <1> QED
    BY <1>1, <1>2, OutsideFields DEF Epochs

-----------------------------------------------------------------------------
(* Steps that do not touch the stream *)

(* The worker moves on before the first stream, while it rebuilds one, or to *)
(* its clean-up.                                                             *)
LEMMA WorkerMoves ==
  ASSUME IndInv, w' \in Workers, mon' \in Monitors, epoch' \in Epochs, auth' \in Permits,
         env' \in Networks, UNCHANGED <<app, probe, auditor, pol, ctl>>,
         \/ w.pc \in Early /\ w'.pc \in Early /\ mon' = mon
         \/ /\ w.pc \in Rebuilding /\ w'.pc \in Rebuilding
            /\ mon'.on => mon'.transport = w'.transport
         \/ /\ w.pc \in Rebuilding \cup {"stream"} /\ w'.pc = "cleanup"
            /\ mon' = mon /\ w'.transport = w.transport
  PROVE  IndInv'
  <1>0. TypeOK
    BY DEF IndInv
  <1>1. TypeOK'
    BY <1>0 DEF TypeOK
  <1>2. PhasePart' /\ FailedPathNotReselected'
    BY DEF IndInv, PhasePart, FailedPathNotReselected, Early, Rebuilding
  <1>3. LinkPart'
    BY <1>0, StreamFields DEF IndInv, PhasePart, LinkPart, Early, Rebuilding
  <1>4. BreakerPart'
    BY DEF IndInv, BreakerPart
  <1> QED
    BY <1>1, <1>2, <1>3, <1>4 DEF IndInv

(* The worker gives up before the first stream, and start() is told.         *)
LEMMA WorkerFails ==
  ASSUME IndInv, w.pc \in Early, Fails, UNCHANGED <<app, mon, probe, auditor, pol>>,
         epoch' \in Epochs, auth' \in Permits, env' \in Networks
  PROVE  IndInv'
  <1>0. TypeOK
    BY DEF IndInv
  <1>1. /\ w' = [pc |-> "ended", cause |-> w.cause, ready |-> w.ready,
                 transport |-> w.transport, keys |-> w.keys]
        /\ ctl' = [stop |-> ctl.stop, running |-> ctl.running, finished |-> TRUE]
    BY <1>0, WorkerFields, OutsideFields DEF Fails
  <1>2. /\ w'.pc = "ended" /\ w'.transport = w.transport
        /\ ctl'.running = ctl.running /\ ctl'.finished = TRUE
    BY <1>1
  <1>3. w' \in Workers /\ ctl' \in Flags
    BY <1>0, <1>1, WorkerFields, OutsideFields DEF Workers, Flags, PCs, Causes
  <1>4. TypeOK'
    BY <1>0, <1>3 DEF TypeOK
  <1>5. PhasePart' /\ LinkPart' /\ BreakerPart' /\ FailedPathNotReselected'
    BY <1>2 DEF IndInv, PhasePart, LinkPart, BreakerPart, FailedPathNotReselected, Early, Rebuilding
  <1> QED
    BY <1>4, <1>5 DEF IndInv

(* Goes names the next position and leaves the rest of the worker alone.     *)
LEMMA GoesFields ==
  ASSUME TypeOK, NEW q \in PCs, Goes(q)
  PROVE  /\ w' \in Workers /\ w'.pc = q /\ w'.transport = w.transport
         /\ w' = [pc |-> q, cause |-> w.cause, ready |-> w.ready,
                  transport |-> w.transport, keys |-> w.keys]
         /\ ctl' = ctl
  <1>1. w' = [pc |-> q, cause |-> w.cause, ready |-> w.ready,
              transport |-> w.transport, keys |-> w.keys]
    BY WorkerFields DEF Goes
  <1> QED
    BY <1>1, WorkerFields DEF Goes, Workers, PCs, Causes

(* The threads beside the worker, and everything outside it.                 *)
LEMMA BesideWorker ==
  ASSUME IndInv, UNCHANGED <<w, app, pol, epoch>>,
         mon' \in Monitors, mon'.on = mon.on, mon'.transport = mon.transport,
         probe' \in {"due", "running", "ready", "absent", "cooling"},
         probe' = "running" => probe = "running",
         auditor' \in BOOLEAN, auditor' => auditor,
         ctl' \in Flags, ctl'.running = ctl.running, ctl'.finished = ctl.finished,
         auth' \in Permits, env' \in Networks
  PROVE  IndInv'
  <1>1. TypeOK'
    BY DEF IndInv, TypeOK
  <1>2. PhasePart' /\ LinkPart' /\ BreakerPart' /\ FailedPathNotReselected'
    BY DEF IndInv, PhasePart, LinkPart, BreakerPart, FailedPathNotReselected
  <1> QED
    BY <1>1, <1>2 DEF IndInv

-----------------------------------------------------------------------------
(* The beginning of run() *)

(* Every early step moves on or fails.                                       *)
LEMMA BeginningInv ==
  ASSUME IndInv, NEW ok \in BOOLEAN,
         \/ RefreshGeometry(ok) \/ Bootstrap(ok) \/ WirelessFallback(ok) \/ ReserveFirstEpoch(ok)
         \/ CaptureSession \/ StartFirstFails
  PROVE  IndInv'
  <1>0. TypeOK
    BY DEF IndInv
  <1>1. CASE RefreshGeometry(ok)
    <2>1. /\ w.pc \in Early /\ UNCHANGED <<app, mon, probe, auditor, pol, epoch, auth>>
          /\ env' \in Networks /\ epoch' \in Epochs /\ auth' \in Permits /\ mon' \in Monitors
      BY <1>0, <1>1, OutcomeKeeps DEF RefreshGeometry, Early, TypeOK
    <2>2. CASE Goes("bootstrap")
      <3>1. w' \in Workers /\ w'.pc = "bootstrap" /\ ctl' = ctl
        BY <1>0, <2>2, GoesFields DEF PCs
      <3> QED
        BY <2>1, <3>1, WorkerMoves DEF Early
    <2>3. CASE Fails
      BY <2>1, <2>3, WorkerFails
    <2> QED
      BY <1>1, <2>2, <2>3 DEF RefreshGeometry
  <1>2. CASE Bootstrap(ok)
    <2>1. /\ w.pc \in Early /\ UNCHANGED <<app, mon, probe, auditor, pol, epoch, auth>>
          /\ env' \in Networks /\ epoch' \in Epochs /\ auth' \in Permits /\ mon' \in Monitors
      BY <1>0, <1>2, OutcomeKeeps DEF Bootstrap, Early, TypeOK
    <2>2. CASE Goes("wireless")
      <3>1. w' \in Workers /\ w'.pc = "wireless" /\ ctl' = ctl
        BY <1>0, <2>2, GoesFields DEF PCs
      <3> QED
        BY <2>1, <3>1, WorkerMoves DEF Early
    <2>3. CASE Fails
      BY <2>1, <2>3, WorkerFails
    <2>4. CASE w' = [w EXCEPT !.pc = "reserve", !.transport = "cat6"] /\ UNCHANGED ctl
      <3>1. w' = [pc |-> "reserve", cause |-> w.cause, ready |-> w.ready,
                  transport |-> "cat6", keys |-> w.keys]
        BY <1>0, <2>4, WorkerFields
      <3>2. w' \in Workers /\ w'.pc = "reserve"
        BY <1>0, <3>1, WorkerFields DEF Workers, PCs, Causes, Transports
      <3> QED
        BY <2>1, <2>4, <3>2, WorkerMoves DEF Early
    <2> QED
      BY <1>2, <2>2, <2>3, <2>4 DEF Bootstrap
  <1>3. CASE WirelessFallback(ok)
    <2>1. /\ w.pc \in Early /\ UNCHANGED <<app, mon, probe, auditor, pol, epoch, auth>>
          /\ env' \in Networks /\ epoch' \in Epochs /\ auth' \in Permits /\ mon' \in Monitors
      BY <1>0, <1>3, OutcomeKeeps DEF WirelessFallback, Early, TypeOK
    <2>2. CASE Fails
      BY <2>1, <2>2, WorkerFails
    <2>3. CASE w' = [w EXCEPT !.pc = "reserve", !.transport = "wlan"] /\ UNCHANGED ctl
      <3>1. w' = [pc |-> "reserve", cause |-> w.cause, ready |-> w.ready,
                  transport |-> "wlan", keys |-> w.keys]
        BY <1>0, <2>3, WorkerFields
      <3>2. w' \in Workers /\ w'.pc = "reserve"
        BY <1>0, <3>1, WorkerFields DEF Workers, PCs, Causes, Transports
      <3> QED
        BY <2>1, <2>3, <3>2, WorkerMoves DEF Early
    <2> QED
      BY <1>3, <2>2, <2>3 DEF WirelessFallback
  <1>4. CASE ReserveFirstEpoch(ok)
    <2>1. /\ w.pc \in Early /\ UNCHANGED <<app, mon, probe, auditor, pol, auth>>
          /\ env' \in Networks /\ auth' \in Permits /\ mon' \in Monitors
      BY <1>0, <1>4, OutcomeKeeps DEF ReserveFirstEpoch, Early, TypeOK
    <2>2. CASE ok
      <3>1. Goes("session") /\ epoch' \in Epochs
        BY <1>0, <1>4, <2>2, ReservedKeeps DEF ReserveFirstEpoch, Outcome
      <3>2. w' \in Workers /\ w'.pc = "session" /\ ctl' = ctl
        BY <1>0, <3>1, GoesFields DEF PCs
      <3> QED
        BY <2>1, <3>1, <3>2, WorkerMoves DEF Early
    <2>3. CASE ~ok
      <3>1. Fails /\ epoch' \in Epochs
        BY <1>0, <1>4, <2>3 DEF ReserveFirstEpoch, TypeOK
      <3> QED
        BY <2>1, <3>1, WorkerFails
    <2> QED
      BY <2>2, <2>3
  <1>5. CASE CaptureSession
    <2>1. /\ w.pc \in Early /\ UNCHANGED <<app, mon, probe, auditor, pol, epoch, auth, env>>
          /\ env' \in Networks /\ epoch' \in Epochs /\ auth' \in Permits /\ mon' \in Monitors
      BY <1>0, <1>5 DEF CaptureSession, Early, TypeOK
    <2>2. CASE Fails
      BY <2>1, <2>2, WorkerFails
    <2>3. CASE w' = [w EXCEPT !.pc = "application", !.keys = auth.keys] /\ UNCHANGED ctl
      <3>1. w' = [pc |-> "application", cause |-> w.cause, ready |-> w.ready,
                  transport |-> w.transport, keys |-> auth.keys]
        BY <1>0, <2>3, WorkerFields
      <3>2. w' \in Workers /\ w'.pc = "application"
        BY <1>0, <3>1, WorkerFields, OutsideFields DEF Workers, PCs, Causes
      <3> QED
        BY <2>1, <2>3, <3>2, WorkerMoves DEF Early
    <2> QED
      BY <1>5, <2>2, <2>3 DEF CaptureSession
  <1>6. CASE StartFirstFails
    <2>1. /\ w.pc \in Early /\ Fails /\ UNCHANGED <<app, mon, probe, auditor, pol, epoch, auth>>
          /\ env' \in Networks /\ epoch' \in Epochs /\ auth' \in Permits
      BY <1>0, <1>6, FaultKeeps DEF StartFirstFails, Early, TypeOK
    <2> QED
      BY <2>1, WorkerFails
  <1> QED
    BY <1>1, <1>2, <1>3, <1>4, <1>5, <1>6

-----------------------------------------------------------------------------
(* The stream *)

(* What a start may select under the breakers.                               *)
LEMMA CandidatesSpec ==
  ASSUME NEW b \in [skip_async_shared : BOOLEAN, skip_nvenc : BOOLEAN, force_software : BOOLEAN],
         NEW v, NEW path,
         \E i \in DOMAIN Candidates(Preference(b), v) : path = Candidates(Preference(b), v)[i]
  PROVE  /\ path \in Paths
         /\ path \in NvencPaths => ~b.skip_nvenc /\ ~b.force_software
         /\ path = "nvenc_async_shared" => ~b.skip_async_shared
         /\ path = "windows_hardware" => ~b.force_software
  <1>0. /\ b.skip_async_shared \in BOOLEAN /\ b.skip_nvenc \in BOOLEAN /\ b.force_software \in BOOLEAN
    OBVIOUS
  <1> DEFINE c == Candidates(Preference(b), v)
  <1>1. PICK i \in DOMAIN c : path = c[i]
    OBVIOUS
  <1>2. CASE b.force_software
    <2>1. c = <<"software">>
      BY <1>2 DEF Candidates, Preference
    <2>2. path = "software"
      BY <1>1, <2>1
    <2> QED
      BY <2>2 DEF Paths, NvencPaths
  <1>3. CASE ~b.force_software /\ b.skip_nvenc
    <2>1. c = <<"windows_hardware", "software">>
      BY <1>3 DEF Candidates, Preference
    <2>2. path \in {"windows_hardware", "software"}
      BY <1>1, <2>1
    <2> QED
      BY <1>3, <2>2 DEF Paths, NvencPaths
  <1>4. CASE ~b.force_software /\ ~b.skip_nvenc /\ b.skip_async_shared
    <2>1. \/ c = <<"nvenc_capture_device", "windows_hardware", "software">>
          \/ c = <<"nvenc_cross_adapter", "windows_hardware", "software">>
      BY <1>4 DEF Candidates, Preference
    <2>2. path \in {"nvenc_capture_device", "nvenc_cross_adapter", "windows_hardware", "software"}
      BY <1>1, <2>1
    <2> QED
      BY <1>4, <2>2 DEF Paths, NvencPaths
  <1>5. CASE ~b.force_software /\ ~b.skip_nvenc /\ ~b.skip_async_shared
    <2>1. \/ c = <<"nvenc_async_shared", "nvenc_capture_device", "windows_hardware", "software">>
          \/ c = <<"nvenc_cross_adapter", "windows_hardware", "software">>
      BY <1>5 DEF Candidates, Preference
    <2>2. path \in Paths
      BY <1>1, <2>1 DEF Paths, NvencPaths
    <2> QED
      BY <1>5, <2>2
  <1> QED
    BY <1>0, <1>2, <1>3, <1>4, <1>5

(* So a start selects no path that has failed.                               *)
LEMMA AppStartsSpec ==
  ASSUME IndInv, NEW path, AppStarts(path)
  PROVE  /\ app' \in Streams /\ app'.on = TRUE /\ app'.transport = w.transport /\ app'.path = path
         /\ epoch' \in Epochs
         /\ path \notin pol.failed
  <1>0. TypeOK
    BY DEF IndInv
  <1>1. /\ path \in Paths
        /\ path \in NvencPaths => ~pol.breakers.skip_nvenc /\ ~pol.breakers.force_software
        /\ path = "nvenc_async_shared" => ~pol.breakers.skip_async_shared
        /\ path = "windows_hardware" => ~pol.breakers.force_software
    BY <1>0, PolicyFields, CandidatesSpec DEF AppStarts
  <1>2. /\ app' = [on |-> TRUE, epoch |-> epoch.reserved, transport |-> w.transport,
                   keys |-> w.keys, path |-> path]
        /\ epoch' = [reserved |-> epoch.reserved, stream |-> epoch.reserved]
    BY <1>0, OutsideFields DEF AppStarts
  <1>3. app' \in Streams /\ epoch' \in Epochs
    BY <1>0, <1>1, <1>2, WorkerFields, OutsideFields DEF Streams, Epochs
  <1>4. path \notin pol.failed
    BY <1>1 DEF IndInv, BreakerPart, Paths, NvencPaths
  <1> QED
    BY <1>2, <1>3, <1>4

(* The first stream begins, with a monitor or without.                       *)
LEMMA StartFirstInv ==
  ASSUME IndInv, NEW path \in Paths, NEW monitored \in BOOLEAN, StartFirst(path, monitored)
  PROVE  IndInv'
  <1>0. TypeOK
    BY DEF IndInv
  <1>1. /\ w.pc = "application" /\ UNCHANGED <<probe, auditor, pol, auth>>
        /\ AppStarts(path) /\ mon' = StartMonitor(monitored, w.transport)
        /\ env' \in Networks
    BY <1>0, OutcomeKeeps DEF StartFirst
  <1>2. /\ w' = [pc |-> "stream", cause |-> w.cause, ready |-> w.ready,
                 transport |-> w.transport, keys |-> w.keys]
        /\ ctl' = [stop |-> ctl.stop, running |-> TRUE, finished |-> TRUE]
    BY <1>0, WorkerFields, OutsideFields DEF StartFirst
  <1>3. w'.pc = "stream" /\ w'.transport = w.transport /\ ctl'.finished = TRUE
    BY <1>2
  <1>4. w' \in Workers /\ ctl' \in Flags
    BY <1>0, <1>2, WorkerFields, OutsideFields DEF Workers, Flags, PCs, Causes
  <1>5. mon' \in Monitors /\ (mon'.on => mon'.transport = w.transport)
    BY <1>0, <1>1, MonitorStarts, WorkerFields
  <1>6. /\ app' \in Streams /\ app'.on = TRUE /\ app'.transport = w.transport
        /\ epoch' \in Epochs /\ app'.path \notin pol.failed
    BY <1>1, AppStartsSpec
  <1>7. TypeOK'
    BY <1>0, <1>1, <1>4, <1>5, <1>6 DEF TypeOK
  <1>8. PhasePart' /\ LinkPart' /\ BreakerPart' /\ FailedPathNotReselected'
    BY <1>1, <1>3, <1>5, <1>6
    DEF IndInv, PhasePart, LinkPart, BreakerPart, FailedPathNotReselected, Early, Rebuilding
  <1> QED
    BY <1>7, <1>8 DEF IndInv

(* A rebuilt stream begins.                                                  *)
LEMMA RestartInv ==
  ASSUME IndInv, NEW path \in Paths, Restart(path)
  PROVE  IndInv'
  <1>0. TypeOK
    BY DEF IndInv
  <1>1. /\ w.pc = "restart" /\ UNCHANGED <<mon, auditor, ctl, auth, env>> /\ AppStarts(path)
        /\ probe' = IF probe = "cooling" THEN "due" ELSE probe
    BY DEF Restart
  <1>2. /\ w' = [pc |-> "stream", cause |-> "none", ready |-> w.ready,
                 transport |-> w.transport, keys |-> w.keys]
        /\ pol' = [breakers |-> pol.breakers, streak |-> pol.streak, silent |-> NotObserved,
                   failed |-> pol.failed]
    BY <1>0, WorkerFields, PolicyFields DEF Restart
  <1>3. /\ w'.pc = "stream" /\ w'.transport = w.transport
        /\ pol'.breakers = pol.breakers /\ pol'.failed = pol.failed
    BY <1>2
  <1>4. w' \in Workers
    BY <1>0, <1>2, WorkerFields DEF Workers, PCs, Causes
  <1>9. NotObserved \in NotObserved .. MaxSilence
    BY PolicyAssumption DEF NotObserved
  <1>5. pol' \in Policies
    BY <1>0, <1>2, <1>9, PolicyFields DEF Policies
  <1>6. /\ app' \in Streams /\ app'.on = TRUE /\ app'.transport = w.transport
        /\ epoch' \in Epochs /\ app'.path \notin pol.failed
    BY <1>1, AppStartsSpec
  <1>7. probe' \in {"due", "running", "ready", "absent", "cooling"} /\ (probe' = "running" => probe = "running")
    BY <1>0, <1>1, OutsideFields
  <1>8. TypeOK'
    BY <1>0, <1>1, <1>4, <1>5, <1>6, <1>7 DEF TypeOK
  <1>10. PhasePart' /\ LinkPart'
    BY <1>1, <1>3, <1>6, <1>7 DEF IndInv, PhasePart, LinkPart, Early, Rebuilding
  <1>11. BreakerPart' /\ FailedPathNotReselected'
    BY <1>3, <1>6 DEF IndInv, BreakerPart, FailedPathNotReselected
  <1> QED
    BY <1>8, <1>10, <1>11 DEF IndInv

(* What one more sample makes of the silence.                                *)
LEMMA SilenceSpec ==
  ASSUME NEW silent \in NotObserved .. MaxSilence, NEW published \in BOOLEAN
  PROVE  Silence(silent, published) \in NotObserved .. MaxSilence
  BY PolicyAssumption DEF Silence, NotObserved, Minimum

(* A published frame counts towards the end of the streak.                   *)
LEMMA StreakSpec ==
  ASSUME NEW p \in [delay : 0 .. MaxBackoff, stable : 0 .. StableFrames - 1]
  PROVE  /\ RecordPublishedFrame(p) \in [delay : 0 .. MaxBackoff, stable : 0 .. StableFrames - 1]
         /\ RecordFailure(p) \in [delay : 0 .. MaxBackoff, stable : 0 .. StableFrames - 1]
         /\ Delay(p.delay) \in Nat
  <1>0. p.delay \in 0 .. MaxBackoff /\ p.stable \in 0 .. StableFrames - 1 /\ 0 \in 0 .. StableFrames - 1
        /\ p = [delay |-> p.delay, stable |-> p.stable] /\ 0 \in 0 .. MaxBackoff
    BY PolicyAssumption
  <1>1. Delay(p.delay) \in 0 .. MaxBackoff
    BY <1>0, PolicyAssumption DEF Delay, Minimum
  <1>2. RecordFailure(p) \in [delay : 0 .. MaxBackoff, stable : 0 .. StableFrames - 1]
    BY <1>0, <1>1 DEF RecordFailure
  <1>3. CASE p.delay # 0 /\ p.stable + 1 < StableFrames
    <2>1. RecordPublishedFrame(p) = [delay |-> p.delay, stable |-> p.stable + 1]
      BY <1>0, <1>3 DEF RecordPublishedFrame
    <2>2. p.stable + 1 \in 0 .. StableFrames - 1
      BY <1>0, <1>3, PolicyAssumption
    <2> QED
      BY <1>0, <1>1, <1>2, <2>1, <2>2, PolicyAssumption
  <1>4. CASE ~(p.delay # 0 /\ p.stable + 1 < StableFrames)
    <2>1. RecordPublishedFrame(p) \in {p, NoStreak}
      BY <1>4 DEF RecordPublishedFrame
    <2>2. NoStreak \in [delay : 0 .. MaxBackoff, stable : 0 .. StableFrames - 1]
      BY <1>0 DEF NoStreak
    <2> QED
      BY <1>1, <1>2, <2>1, <2>2, PolicyAssumption
  <1> QED
    BY <1>3, <1>4

(* A failure trips breakers and resets none, and the path it rules out is    *)
(* covered by one of them.                                                   *)
LEMMA TrippedSpec ==
  ASSUME NEW b \in [skip_async_shared : BOOLEAN, skip_nvenc : BOOLEAN, force_software : BOOLEAN],
         NEW cause, NEW failure, NEW path
  PROVE  LET t == Tripped(b, cause, failure, path)
         IN /\ t \in [skip_async_shared : BOOLEAN, skip_nvenc : BOOLEAN, force_software : BOOLEAN]
            /\ b.skip_async_shared => t.skip_async_shared
            /\ b.skip_nvenc => t.skip_nvenc
            /\ b.force_software => t.force_software
            /\ cause = "video_pipeline" /\ RulesOut(failure, path) =>
                 \/ path = "nvenc_async_shared" /\ (t.skip_async_shared \/ t.skip_nvenc)
                 \/ path \in {"nvenc_capture_device", "nvenc_cross_adapter"} /\ t.skip_nvenc
                 \/ path = "windows_hardware" /\ t.force_software
  <1> DEFINE t == Tripped(b, cause, failure, path)
  <1>0. /\ b.skip_async_shared \in BOOLEAN /\ b.skip_nvenc \in BOOLEAN /\ b.force_software \in BOOLEAN
        /\ b = [skip_async_shared |-> b.skip_async_shared, skip_nvenc |-> b.skip_nvenc,
                force_software |-> b.force_software]
    OBVIOUS
  <1>1. CASE cause # "video_pipeline"
    BY <1>1 DEF Tripped
  <1>2. CASE cause = "video_pipeline"
    <2> DEFINE a1 == b.skip_async_shared \/ (failure = "bridge_failed" /\ path = "nvenc_async_shared")
               a2 == b.skip_nvenc \/ (failure = "bridge_failed" /\ path = "nvenc_cross_adapter")
                        \/ (failure = "encode_failed" /\ path \in NvencPaths)
               a3 == b.force_software \/ (failure = "encode_failed" /\ path = "windows_hardware")
    <2>1. t = [skip_async_shared |-> a1, skip_nvenc |-> a2, force_software |-> a3]
      BY <1>0, <1>2 DEF Tripped
    <2>2. a1 \in BOOLEAN /\ a2 \in BOOLEAN /\ a3 \in BOOLEAN
      BY <1>0
    <2>3. /\ b.skip_async_shared => a1
          /\ b.skip_nvenc => a2
          /\ b.force_software => a3
          /\ RulesOut(failure, path) =>
                 \/ path = "nvenc_async_shared" /\ (a1 \/ a2)
                 \/ path \in {"nvenc_capture_device", "nvenc_cross_adapter"} /\ a2
                 \/ path = "windows_hardware" /\ a3
      BY DEF RulesOut, NvencPaths
    <2> HIDE DEF a1, a2, a3, t
    <2>4. t.skip_async_shared = a1 /\ t.skip_nvenc = a2 /\ t.force_software = a3
      BY <2>1
    <2>5. t \in [skip_async_shared : BOOLEAN, skip_nvenc : BOOLEAN, force_software : BOOLEAN]
      BY <2>1, <2>2
    <2>6. /\ b.skip_async_shared => t.skip_async_shared
          /\ b.skip_nvenc => t.skip_nvenc
          /\ b.force_software => t.force_software
          /\ RulesOut(failure, path) =>
                 \/ path = "nvenc_async_shared" /\ (t.skip_async_shared \/ t.skip_nvenc)
                 \/ path \in {"nvenc_capture_device", "nvenc_cross_adapter"} /\ t.skip_nvenc
                 \/ path = "windows_hardware" /\ t.force_software
      BY <2>2, <2>3, <2>4
    <2> QED
      BY <2>5, <2>6 DEF t
  <1> QED
    BY <1>1, <1>2

(* A stopped application.                                                    *)
LEMMA OffSpec == Off \in Streams /\ Off.on = FALSE
  <1>1. 0 \in 0 .. MaxEpoch /\ 0 \in 0 .. MaxChannels
    BY RuntimeAssumption
  <1> QED
    BY <1>1 DEF Off, Streams, Transports

(* A probe begins only while the stream does not use CAT6.                   *)
LEMMA NextProbeSpec ==
  ASSUME IndInv, NEW upgrade \in BOOLEAN
  PROVE  /\ NextProbe(upgrade) \in {"due", "running", "ready", "absent", "cooling"}
         /\ w.transport = "cat6" => NextProbe(upgrade) # "running"
  BY OutsideFields DEF IndInv, LinkPart, NextProbe, ProbeTaken, ShouldStartPreferredProbe

(* One iteration of the loop: the stream goes on, or it is to be rebuilt.    *)
LEMMA IterateInv ==
  ASSUME IndInv, NEW step \in Steps, NEW audit \in BOOLEAN, Iterate(step, audit)
  PROVE  IndInv'
  <1> DEFINE published == step \in {"published", "stale_frame"}
             silent    == Silence(pol.silent, published)
             healthy   == step \in {"published", "idle"} /\ ~Stalled(silent)
             upgrade   == ShouldCommitPreferredUpgrade(w.transport, probe = "ready")
             cause     == Cause(upgrade, mon.on /\ RequiresRecovery(mon.failures, mon.old), healthy)
             tripped   == Tripped(pol.breakers, cause, FailureKind(step), app.path)
  <1>0. TypeOK
    BY DEF IndInv
  <1>1. /\ w.pc = "stream" /\ UNCHANGED <<app, mon, epoch, ctl, auth>>
        /\ Fault \/ UNCHANGED env
    BY DEF Iterate
  <1>2. env' \in Networks
    BY <1>0, <1>1, FaultKeeps DEF TypeOK
  <1>3. /\ silent \in NotObserved .. MaxSilence
        /\ upgrade \in BOOLEAN /\ cause \in Causes
    <2>1. published \in BOOLEAN
      OBVIOUS
    <2>2. silent \in NotObserved .. MaxSilence
      BY <1>0, <2>1, SilenceSpec, PolicyFields
    <2>3. upgrade \in BOOLEAN
      BY DEF ShouldCommitPreferredUpgrade
    <2>4. cause \in Causes
      BY DEF Cause, Causes
    <2> QED
      BY <2>2, <2>3, <2>4
  <1>4. /\ tripped \in [skip_async_shared : BOOLEAN, skip_nvenc : BOOLEAN, force_software : BOOLEAN]
        /\ pol.breakers.skip_async_shared => tripped.skip_async_shared
        /\ pol.breakers.skip_nvenc => tripped.skip_nvenc
        /\ pol.breakers.force_software => tripped.force_software
        /\ cause = "video_pipeline" /\ RulesOut(FailureKind(step), app.path) =>
              \/ app.path = "nvenc_async_shared" /\ (tripped.skip_async_shared \/ tripped.skip_nvenc)
              \/ app.path \in {"nvenc_capture_device", "nvenc_cross_adapter"} /\ tripped.skip_nvenc
              \/ app.path = "windows_hardware" /\ tripped.force_software
    BY <1>0, TrippedSpec, PolicyFields
  <1>5. CASE cause = "none"
    <2>1. /\ pol' = [pol EXCEPT !.silent = silent,
                        !.streak = IF step = "published" THEN RecordPublishedFrame(@) ELSE @]
          /\ probe' = NextProbe(FALSE) /\ auditor' = NextAuditor(NextProbe(FALSE), audit)
          /\ w' = w
      BY <1>5 DEF Iterate
    <2>2. PICK k : k = IF step = "published" THEN RecordPublishedFrame(pol.streak) ELSE pol.streak
      OBVIOUS
    <2>3. k \in [delay : 0 .. MaxBackoff, stable : 0 .. StableFrames - 1]
      BY <1>0, <2>2, StreakSpec, PolicyFields
    <2> HIDE DEF published, silent, healthy, upgrade, cause, tripped
    <2>4. pol' = [breakers |-> pol.breakers, streak |-> k, silent |-> silent, failed |-> pol.failed]
      BY <1>0, <2>1, <2>2, PolicyFields
    <2>5. pol'.breakers = pol.breakers /\ pol'.failed = pol.failed
      BY <2>4
    <2>6. pol' \in Policies
      BY <1>0, <1>3, <2>3, <2>4, PolicyFields DEF Policies
    <2>7. /\ probe' \in {"due", "running", "ready", "absent", "cooling"}
          /\ w.transport = "cat6" => probe' # "running"
      BY <2>1, NextProbeSpec
    <2>8. auditor' \in BOOLEAN
      BY <1>0, <2>1, OutsideFields DEF NextAuditor
    <2>9. TypeOK'
      BY <1>0, <1>1, <1>2, <2>1, <2>6, <2>7, <2>8 DEF TypeOK
    <2>10. PhasePart' /\ LinkPart'
      BY <1>1, <2>1, <2>7 DEF IndInv, PhasePart, LinkPart, Early, Rebuilding
    <2>11. BreakerPart' /\ FailedPathNotReselected'
      BY <1>1, <2>1, <2>5 DEF IndInv, BreakerPart, FailedPathNotReselected
    <2> QED
      BY <2>9, <2>10, <2>11 DEF IndInv
  <1>6. CASE cause # "none"
    <2>1. /\ pol' = [pol EXCEPT !.silent = silent, !.breakers = tripped,
                        !.failed = IF cause = "video_pipeline" /\ RulesOut(FailureKind(step), app.path)
                                   THEN @ \cup {app.path} ELSE @]
          /\ probe' = NextProbe(upgrade) /\ auditor' = NextAuditor(NextProbe(upgrade), audit)
          /\ w' = [w EXCEPT !.pc = "teardown", !.cause = cause, !.ready = upgrade]
      BY <1>6 DEF Iterate
    <2> HIDE DEF published, silent, healthy, upgrade, cause, tripped
    <2>2. PICK f : f = IF cause = "video_pipeline" /\ RulesOut(FailureKind(step), app.path)
                       THEN pol.failed \cup {app.path} ELSE pol.failed
      OBVIOUS
    <2>3. /\ w' = [pc |-> "teardown", cause |-> cause, ready |-> upgrade,
                   transport |-> w.transport, keys |-> w.keys]
          /\ pol' = [breakers |-> tripped, streak |-> pol.streak, silent |-> silent, failed |-> f]
      BY <1>0, <2>1, <2>2, WorkerFields, PolicyFields
    <2>4. /\ w'.pc = "teardown" /\ w'.transport = w.transport
          /\ pol'.breakers = tripped /\ pol'.failed = f
      BY <2>3
    <2>5. w' \in Workers
      BY <1>0, <1>3, <2>3, WorkerFields DEF Workers, PCs, Causes
    <2>6. \/ f = pol.failed
          \/ /\ f = pol.failed \cup {app.path}
             /\ \/ app.path = "nvenc_async_shared" /\ (tripped.skip_async_shared \/ tripped.skip_nvenc)
                \/ app.path \in {"nvenc_capture_device", "nvenc_cross_adapter"} /\ tripped.skip_nvenc
                \/ app.path = "windows_hardware" /\ tripped.force_software
      BY <1>4, <2>2
    <2>7. f \in SUBSET Paths
      BY <1>0, <2>6, PolicyFields DEF Paths, NvencPaths
    <2>8. pol' \in Policies
      BY <1>0, <1>3, <1>4, <2>3, <2>7, PolicyFields DEF Policies
    <2>9. /\ probe' \in {"due", "running", "ready", "absent", "cooling"}
          /\ w.transport = "cat6" => probe' # "running"
      BY <1>3, <2>1, NextProbeSpec
    <2>10. auditor' \in BOOLEAN
      BY <1>0, <2>1, OutsideFields DEF NextAuditor
    <2>11. TypeOK'
      BY <1>0, <1>1, <1>2, <2>5, <2>8, <2>9, <2>10 DEF TypeOK
    <2>12. PhasePart' /\ LinkPart' /\ FailedPathNotReselected'
      BY <1>1, <2>4, <2>9
      DEF IndInv, PhasePart, LinkPart, FailedPathNotReselected, Early, Rebuilding
    <2>13. BreakerPart'
      BY <1>4, <2>4, <2>6 DEF IndInv, BreakerPart
    <2> QED
      BY <2>11, <2>12, <2>13 DEF IndInv
  <1> QED
    BY <1>5, <1>6

-----------------------------------------------------------------------------
(* The recovery loop and the end *)

(* Everything beside the worker is joined before a stream is rebuilt.        *)
LEMMA TearDownInv ==
  ASSUME IndInv, TearDown
  PROVE  IndInv'
  <1>0. TypeOK
    BY DEF IndInv
  <1>1. /\ w.pc = "teardown" /\ auditor' = FALSE /\ app' = Off
        /\ mon' \in {mon, NoMonitor} /\ Goes("retry") /\ probe' \in {"cooling", "due"}
        /\ UNCHANGED <<pol, epoch, auth, env>>
    BY DEF TearDown, Joined
  <1>2. w' \in Workers /\ w'.pc = "retry" /\ w'.transport = w.transport /\ ctl' = ctl
    BY <1>0, <1>1, GoesFields DEF PCs
  <1>3. app' \in Streams /\ app'.on = FALSE
    BY <1>1, OffSpec
  <1>4. mon' \in Monitors /\ (mon'.on => mon.on /\ mon'.transport = mon.transport)
    BY <1>0, <1>1, MonitorStarts DEF TypeOK, Transports
  <1>5. TypeOK'
    BY <1>0, <1>1, <1>2, <1>3, <1>4 DEF TypeOK
  <1>6. PhasePart' /\ LinkPart' /\ BreakerPart' /\ FailedPathNotReselected'
    BY <1>1, <1>2, <1>3, <1>4
    DEF IndInv, PhasePart, LinkPart, BreakerPart, FailedPathNotReselected, Early, Rebuilding
  <1> QED
    BY <1>5, <1>6 DEF IndInv

(* The head of the loop: only the counters of the policies change.           *)
LEMMA RetryInv ==
  ASSUME IndInv, Retry
  PROVE  IndInv'
  <1>0. TypeOK
    BY DEF IndInv
  <1>1. /\ w.pc = "retry" /\ UNCHANGED <<app, mon, probe, auditor, epoch, auth, env>>
        /\ Goes("cleanup") \/ Goes("wait")
        /\ \/ pol' = pol
           \/ pol' = [pol EXCEPT !.streak = RecordFailure(@),
                                 !.silent = Waited(@, Delay(pol.streak.delay))]
    BY DEF Retry
  <1>2. /\ w' \in Workers /\ w'.pc \in {"cleanup", "wait"} /\ w'.transport = w.transport
        /\ ctl' = ctl
    BY <1>0, <1>1, GoesFields DEF PCs
  <1>3. pol' \in Policies /\ pol'.breakers = pol.breakers /\ pol'.failed = pol.failed
    <2>1. CASE pol' = pol
      BY <1>0, <2>1 DEF TypeOK
    <2>2. CASE pol' = [pol EXCEPT !.streak = RecordFailure(@),
                                  !.silent = Waited(@, Delay(pol.streak.delay))]
      <3>1. PICK k, n : k = RecordFailure(pol.streak) /\ n = Waited(pol.silent, Delay(pol.streak.delay))
        OBVIOUS
      <3>2. k \in [delay : 0 .. MaxBackoff, stable : 0 .. StableFrames - 1]
        BY <1>0, <3>1, StreakSpec, PolicyFields
      <3>3. Delay(pol.streak.delay) \in Nat
        BY <1>0, StreakSpec, PolicyFields
      <3>4. n \in NotObserved .. MaxSilence
        BY <1>0, <3>1, <3>3, PolicyFields, PolicyAssumption DEF Waited, Minimum, NotObserved
      <3>5. pol' = [breakers |-> pol.breakers, streak |-> k, silent |-> n, failed |-> pol.failed]
        BY <1>0, <2>2, <3>1, PolicyFields
      <3> QED
        BY <1>0, <3>2, <3>4, <3>5, PolicyFields DEF Policies
    <2> QED
      BY <1>1, <2>1, <2>2
  <1>4. TypeOK'
    BY <1>0, <1>1, <1>2, <1>3 DEF TypeOK
  <1>5. PhasePart' /\ LinkPart'
    BY <1>1, <1>2 DEF IndInv, PhasePart, LinkPart, Early, Rebuilding
  <1>6. BreakerPart' /\ FailedPathNotReselected'
    BY <1>1, <1>2, <1>3 DEF IndInv, BreakerPart, FailedPathNotReselected
  <1> QED
    BY <1>4, <1>5, <1>6 DEF IndInv

(* The end of run(): what still runs is waited for.                          *)
LEMMA CleanupInv ==
  ASSUME IndInv, Cleanup
  PROVE  IndInv'
  <1>0. TypeOK
    BY DEF IndInv
  <1>1. /\ w.pc = "cleanup" /\ auditor' = FALSE /\ app' = Off /\ mon' = NoMonitor
        /\ probe' = "due" /\ UNCHANGED <<pol, epoch, auth, env>>
    BY DEF Cleanup
  <1>2. /\ w' = [pc |-> "ended", cause |-> w.cause, ready |-> w.ready,
                 transport |-> w.transport, keys |-> w.keys]
        /\ ctl' = [stop |-> ctl.stop, running |-> FALSE, finished |-> ctl.finished]
    BY <1>0, WorkerFields, OutsideFields DEF Cleanup
  <1>3. /\ w'.pc = "ended" /\ w'.transport = w.transport
        /\ ctl'.running = FALSE /\ ctl'.finished = ctl.finished
    BY <1>2
  <1>4. w' \in Workers /\ ctl' \in Flags
    BY <1>0, <1>2, WorkerFields, OutsideFields DEF Workers, Flags, PCs, Causes
  <1>5. app' \in Streams /\ app'.on = FALSE /\ mon' \in Monitors /\ mon'.on = FALSE
    BY <1>1, OffSpec, MonitorStarts DEF Transports
  <1>6. TypeOK'
    BY <1>0, <1>1, <1>4, <1>5 DEF TypeOK
  <1>7. PhasePart' /\ LinkPart' /\ BreakerPart' /\ FailedPathNotReselected'
    BY <1>1, <1>3, <1>5
    DEF IndInv, PhasePart, LinkPart, BreakerPart, FailedPathNotReselected, Early, Rebuilding
  <1> QED
    BY <1>6, <1>7 DEF IndInv

(* The other steps of the recovery loop.                                     *)
LEMMA RecoveryInv ==
  ASSUME IndInv, NEW ok \in BOOLEAN, NEW monitored \in BOOLEAN,
         \/ Waiting(ok) \/ Rebootstrap(ok, monitored) \/ Rewireless(ok, monitored)
         \/ RefreshGeometryAgain(ok) \/ ReserveNextEpoch(ok) \/ RestartFails
         \/ StopSeen \/ AuthorizationClosed
  PROVE  IndInv'
  <1>0. TypeOK
    BY DEF IndInv
  <1>a. /\ \A q \in {"cleanup", "retry", "regeometry", "rebootstrap", "rewireless", "rereserve", "restart"} :
              Goes(q) => /\ w' \in Workers /\ w'.pc = q /\ w'.transport = w.transport
                         /\ ctl' = ctl
        /\ \A t \in {"cat6", "wlan"} : \A m \in BOOLEAN :
              /\ StartMonitor(m, t) \in Monitors
              /\ StartMonitor(m, t).on => StartMonitor(m, t).transport = t
        /\ NoMonitor \in Monitors /\ NoMonitor.on = FALSE
    BY <1>0, GoesFields, MonitorStarts DEF PCs, Transports
  <1>b. ASSUME NEW t \in {"cat6", "wlan"}, Activate(t, monitored)
        PROVE  /\ w' \in Workers /\ w'.pc = "regeometry" /\ w'.transport = t /\ ctl' = ctl
               /\ mon' \in Monitors /\ (mon'.on => mon'.transport = t)
    <2>1. w' = [pc |-> "regeometry", cause |-> w.cause, ready |-> w.ready,
                transport |-> t, keys |-> w.keys]
      BY <1>0, <1>b, WorkerFields DEF Activate
    <2>2. w' \in Workers /\ w'.pc = "regeometry" /\ w'.transport = t
      BY <1>0, <2>1, WorkerFields DEF Workers, PCs, Causes, Transports
    <2> QED
      BY <1>a, <1>b, <2>2 DEF Activate
  <1>1. CASE Waiting(ok)
    <2>1. /\ w.pc \in Rebuilding /\ UNCHANGED <<app, probe, auditor, pol, epoch, auth>>
          /\ env' \in Networks /\ epoch' \in Epochs /\ auth' \in Permits
      BY <1>0, <1>1, OutcomeKeeps DEF Waiting, Rebuilding, TypeOK
    <2>2. CASE Goes("cleanup") /\ UNCHANGED mon
      BY <1>0, <1>a, <2>1, <2>2, WorkerMoves DEF TypeOK
    <2>3. CASE mon' = NoMonitor /\ Goes("retry")
      BY <1>0, <1>a, <2>1, <2>3, WorkerMoves DEF Rebuilding
    <2>4. CASE (Goes("regeometry") \/ Goes("rebootstrap")) /\ UNCHANGED mon
      <3>1. mon' \in Monitors /\ (mon'.on => mon'.transport = w.transport)
        BY <1>0, <2>4 DEF IndInv, LinkPart, TypeOK
      <3> QED
        BY <1>0, <1>a, <2>1, <2>4, <3>1, WorkerMoves DEF Rebuilding
    <2>5. CASE /\ mon' = StartMonitor(ok, "cat6")
               /\ w' = [w EXCEPT !.pc = "regeometry", !.ready = FALSE, !.transport = "cat6"]
               /\ UNCHANGED ctl
      <3>1. w' = [pc |-> "regeometry", cause |-> w.cause, ready |-> FALSE,
                  transport |-> "cat6", keys |-> w.keys]
        BY <1>0, <2>5, WorkerFields
      <3>2. w' \in Workers /\ w'.pc = "regeometry" /\ w'.transport = "cat6"
        BY <1>0, <3>1, WorkerFields DEF Workers, PCs, Causes, Transports
      <3> QED
        BY <1>a, <2>1, <2>5, <3>2, WorkerMoves DEF Rebuilding
    <2> QED
      BY <1>1, <2>2, <2>3, <2>4, <2>5 DEF Waiting
  <1>2. CASE Rebootstrap(ok, monitored)
    <2>1. /\ w.pc \in Rebuilding /\ UNCHANGED <<app, probe, auditor, pol, epoch, auth>>
          /\ env' \in Networks /\ epoch' \in Epochs /\ auth' \in Permits
      BY <1>0, <1>2, OutcomeKeeps DEF Rebootstrap, Rebuilding, TypeOK
    <2>2. CASE Goes("cleanup") /\ UNCHANGED mon
      BY <1>0, <1>a, <2>1, <2>2, WorkerMoves DEF TypeOK
    <2>3. CASE Activate("cat6", monitored)
      BY <1>b, <2>1, <2>3, WorkerMoves DEF Rebuilding
    <2>4. CASE Goes("rewireless") /\ UNCHANGED mon
      <3>1. mon' \in Monitors /\ (mon'.on => mon'.transport = w.transport)
        BY <1>0, <2>4 DEF IndInv, LinkPart, TypeOK
      <3> QED
        BY <1>0, <1>a, <2>1, <2>4, <3>1, WorkerMoves DEF Rebuilding
    <2> QED
      BY <1>2, <2>2, <2>3, <2>4 DEF Rebootstrap
  <1>3. CASE Rewireless(ok, monitored)
    <2>1. /\ w.pc \in Rebuilding /\ UNCHANGED <<app, probe, auditor, pol, epoch, auth>>
          /\ env' \in Networks /\ epoch' \in Epochs /\ auth' \in Permits
      BY <1>0, <1>3, OutcomeKeeps DEF Rewireless, Rebuilding, TypeOK
    <2>2. CASE Activate("wlan", monitored)
      BY <1>b, <2>1, <2>2, WorkerMoves DEF Rebuilding
    <2>3. CASE Goes("retry") /\ UNCHANGED mon
      <3>1. mon' \in Monitors /\ (mon'.on => mon'.transport = w.transport)
        BY <1>0, <2>3 DEF IndInv, LinkPart, TypeOK
      <3> QED
        BY <1>0, <1>a, <2>1, <2>3, <3>1, WorkerMoves DEF Rebuilding
    <2> QED
      BY <1>3, <2>2, <2>3 DEF Rewireless
  <1>4. CASE RefreshGeometryAgain(ok)
    <2>1. /\ w.pc \in Rebuilding /\ UNCHANGED <<app, mon, probe, auditor, pol, epoch, auth>>
          /\ env' \in Networks /\ epoch' \in Epochs /\ auth' \in Permits
          /\ Goes("rereserve") \/ Goes("retry")
      BY <1>0, <1>4, OutcomeKeeps DEF RefreshGeometryAgain, Rebuilding, TypeOK
    <2>2. mon' \in Monitors /\ (mon'.on => mon'.transport = w.transport)
      BY <1>0, <2>1 DEF IndInv, LinkPart, TypeOK
    <2> QED
      BY <1>0, <1>a, <2>1, <2>2, WorkerMoves DEF Rebuilding
  <1>5. CASE ReserveNextEpoch(ok)
    <2>1. /\ w.pc \in Rebuilding /\ UNCHANGED <<app, mon, probe, auditor, pol, auth>>
          /\ env' \in Networks /\ auth' \in Permits
      BY <1>0, <1>5, OutcomeKeeps DEF ReserveNextEpoch, Rebuilding, TypeOK
    <2>2. mon' \in Monitors /\ (mon'.on => mon'.transport = w.transport)
      BY <1>0, <2>1 DEF IndInv, LinkPart, TypeOK
    <2>3. CASE ok
      <3>1. epoch' \in Epochs /\ Goes("restart")
        BY <1>0, <1>5, <2>3, ReservedKeeps DEF ReserveNextEpoch, Outcome
      <3> QED
        BY <1>0, <1>a, <2>1, <2>2, <3>1, WorkerMoves DEF Rebuilding
    <2>4. CASE ~ok
      <3>1. epoch' \in Epochs /\ Goes("cleanup")
        BY <1>0, <1>5, <2>4 DEF ReserveNextEpoch, TypeOK
      <3> QED
        BY <1>0, <1>a, <2>1, <2>2, <3>1, WorkerMoves
    <2> QED
      BY <2>3, <2>4
  <1>6. CASE RestartFails
    <2>1. /\ w.pc \in Rebuilding /\ UNCHANGED <<app, mon, probe, auditor, pol, epoch, auth>>
          /\ env' \in Networks /\ epoch' \in Epochs /\ auth' \in Permits
          /\ Goes("retry")
      BY <1>0, <1>6, FaultKeeps DEF RestartFails, Rebuilding, TypeOK
    <2>2. mon' \in Monitors /\ (mon'.on => mon'.transport = w.transport)
      BY <1>0, <2>1 DEF IndInv, LinkPart, TypeOK
    <2> QED
      BY <1>0, <1>a, <2>1, <2>2, WorkerMoves DEF Rebuilding
  <1>7. CASE StopSeen \/ AuthorizationClosed
    <2>1. /\ w.pc = "stream" /\ UNCHANGED <<app, mon, probe, auditor, pol, epoch, auth, env>>
          /\ Goes("cleanup")
      BY <1>7 DEF StopSeen, AuthorizationClosed
    <2>2. env' \in Networks /\ epoch' \in Epochs /\ auth' \in Permits /\ mon' \in Monitors
      BY <1>0, <2>1 DEF TypeOK
    <2> QED
      BY <1>0, <1>a, <2>1, <2>2, WorkerMoves
  <1> QED
    BY <1>1, <1>2, <1>3, <1>4, <1>5, <1>6, <1>7

-----------------------------------------------------------------------------
(* The threads beside the worker, and the world *)

(* Probe, auditor and monitor end or measure; none of them begins anything.  *)
LEMMA BesideInv ==
  ASSUME IndInv, Beside
  PROVE  IndInv'
  <1>0. TypeOK /\ mon \in Monitors /\ ctl \in Flags /\ auth \in Permits /\ env \in Networks
    BY DEF IndInv, TypeOK
  <1>1. ASSUME NEW ok \in BOOLEAN, ProbeEnds(ok) PROVE IndInv'
    <2>1. /\ probe' \in {"ready", "absent"} /\ env' \in Networks
          /\ UNCHANGED <<w, app, mon, auditor, pol, epoch, ctl, auth>>
      BY <1>0, <1>1, OutcomeKeeps DEF ProbeEnds
    <2> QED
      BY <1>0, <2>1, BesideWorker, OutsideFields
  <1>2. CASE ProbeDue
    <2>1. probe' = "due" /\ UNCHANGED <<w, app, mon, auditor, pol, epoch, ctl, auth, env>>
      BY <1>2 DEF ProbeDue
    <2> QED
      BY <1>0, <2>1, BesideWorker, OutsideFields
  <1>3. CASE AuditorEnds
    <2>1. auditor' = FALSE /\ UNCHANGED <<w, app, mon, probe, pol, epoch, ctl, auth, env>>
      BY <1>3 DEF AuditorEnds
    <2> QED
      BY <1>0, <2>1, BesideWorker, OutsideFields
  <1>4. CASE MonitorMeasures
    <2>1. UNCHANGED <<w, app, probe, auditor, pol, epoch, ctl, auth, env>>
      BY <1>4 DEF MonitorMeasures
    <2>2. PICK n : n = Measured(mon.failures, mon.transport \in env.reach)
      OBVIOUS
    <2>6. PICK old \in BOOLEAN : old = (mon.old /\ ~(mon.transport \in env.reach))
      BY Zenon
    <2>3. mon' = [on |-> mon.on, transport |-> mon.transport, failures |-> n, old |-> old]
      BY <1>0, <1>4, <2>2, <2>6, StreamFields DEF MonitorMeasures
    <2>4. n \in 0 .. LinkLost
      BY <1>0, <2>2, StreamFields, PolicyAssumption DEF Measured, Minimum
    <2>5. mon' \in Monitors /\ mon'.on = mon.on /\ mon'.transport = mon.transport
      BY <1>0, <2>3, <2>4, StreamFields DEF Monitors
    <2> QED
      BY <1>0, <2>1, <2>5, BesideWorker, OutsideFields
  <1>5. CASE MonitorAges
    <2>1. UNCHANGED <<w, app, probe, auditor, pol, epoch, ctl, auth, env>>
      BY <1>5 DEF MonitorAges
    <2>2. mon' \in Monitors /\ mon'.on = mon.on /\ mon'.transport = mon.transport
      BY <1>0, <1>5, StreamFields DEF MonitorAges, Monitors
    <2> QED
      BY <1>0, <2>1, <2>2, BesideWorker, OutsideFields
  <1> QED
    BY <1>1, <1>2, <1>3, <1>4, <1>5 DEF Beside

(* Operator, channel and network change only what they own.                  *)
LEMMA EnvironmentInv ==
  ASSUME IndInv, Environment
  PROVE  IndInv'
  <1>0. TypeOK /\ mon \in Monitors /\ ctl \in Flags /\ auth \in Permits /\ env \in Networks
    BY DEF IndInv, TypeOK
  <1>1. CASE RequestStop
    <2>1. UNCHANGED <<w, app, mon, probe, auditor, pol, epoch, auth>> /\ env' \in Networks
      BY <1>0, <1>1, FaultKeeps DEF RequestStop
    <2>2. ctl' = [stop |-> TRUE, running |-> ctl.running, finished |-> ctl.finished]
      BY <1>0, <1>1, OutsideFields DEF RequestStop
    <2>3. ctl' \in Flags /\ ctl'.running = ctl.running /\ ctl'.finished = ctl.finished
      BY <1>0, <2>2, OutsideFields DEF Flags
    <2> QED
      BY <1>0, <2>1, <2>3, BesideWorker, OutsideFields
  <1>2. ASSUME NEW channel \in BOOLEAN, GateCloses(channel) PROVE IndInv'
    <2>1. UNCHANGED <<w, app, mon, probe, auditor, pol, epoch, ctl>> /\ env' \in Networks
      BY <1>0, <1>2, FaultKeeps DEF GateCloses
    <2>2. auth' = [gate |-> FALSE, keys |-> IF channel THEN 0 ELSE auth.keys, used |-> auth.used]
      BY <1>0, <1>2, OutsideFields DEF GateCloses
    <2>3. auth' \in Permits
      BY <1>0, <1>2, <2>2, OutsideFields, RuntimeAssumption DEF Permits
    <2> QED
      BY <1>0, <2>1, <2>3, BesideWorker, OutsideFields
  <1>3. CASE ChannelInstalled
    <2>1. UNCHANGED <<w, app, mon, probe, auditor, pol, epoch, ctl, env>>
      BY <1>3 DEF ChannelInstalled
    <2>2. auth' = [gate |-> auth.gate, keys |-> auth.used + 1, used |-> auth.used + 1]
      BY <1>0, <1>3, OutsideFields DEF ChannelInstalled
    <2>3. auth.used + 1 \in 1 .. MaxChannels /\ auth.used + 1 \in 0 .. MaxChannels
      BY <1>0, <1>3, OutsideFields, RuntimeAssumption DEF ChannelInstalled
    <2>4. auth' \in Permits
      BY <1>0, <2>2, <2>3, OutsideFields DEF Permits
    <2> QED
      BY <1>0, <2>1, <2>4, BesideWorker, OutsideFields
  <1>4. CASE LeaseCommitted
    <2>1. UNCHANGED <<w, app, mon, probe, auditor, pol, epoch, ctl, env>>
      BY <1>4 DEF LeaseCommitted
    <2>2. auth' = [gate |-> TRUE, keys |-> auth.keys, used |-> auth.used]
      BY <1>0, <1>4, OutsideFields DEF LeaseCommitted
    <2>3. auth' \in Permits
      BY <1>0, <2>2, OutsideFields DEF Permits
    <2> QED
      BY <1>0, <2>1, <2>3, BesideWorker, OutsideFields
  <1>5. ASSUME NEW t \in {"cat6", "wlan"}, NetworkLost(t) \/ NetworkBack(t) PROVE IndInv'
    <2>1. UNCHANGED <<w, app, mon, probe, auditor, pol, epoch, ctl, auth>>
      BY <1>5 DEF NetworkLost, NetworkBack
    <2>2. CASE NetworkLost(t)
      <3>1. env' = [reach |-> env.reach \ {t}, vendor |-> env.vendor, faults |-> env.faults + 1]
        BY <1>0, <2>2, OutsideFields DEF NetworkLost
      <3>2. env.faults + 1 \in 0 .. MaxFaults
        BY <1>0, <2>2, OutsideFields, RuntimeAssumption DEF NetworkLost
      <3>3. env' \in Networks
        BY <1>0, <3>1, <3>2, OutsideFields DEF Networks
      <3> QED
        BY <1>0, <2>1, <3>3, BesideWorker, OutsideFields
    <2>3. CASE NetworkBack(t)
      <3>1. env' = [reach |-> env.reach \cup {t}, vendor |-> env.vendor, faults |-> env.faults]
        BY <1>0, <2>3, OutsideFields DEF NetworkBack
      <3>2. env' \in Networks
        BY <1>0, <1>5, <3>1, OutsideFields DEF Networks
      <3> QED
        BY <1>0, <2>1, <3>2, BesideWorker, OutsideFields
    <2> QED
      BY <1>5, <2>2, <2>3
  <1> QED
    BY <1>1, <1>2, <1>3, <1>4, <1>5 DEF Environment

-----------------------------------------------------------------------------

(* The invariant holds when the worker begins.                               *)
LEMMA InitInv ==
  ASSUME Init
  PROVE  IndInv
  <1>0. 0 \in 0 .. MaxChannels /\ 1 \in 0 .. MaxChannels /\ 1 \in 1 .. MaxChannels /\ 0 \in 0 .. MaxEpoch
        /\ 0 \in 0 .. MaxFaults /\ 0 \in 0 .. LinkLost /\ 0 \in 0 .. MaxBackoff
        /\ 0 \in 0 .. StableFrames - 1 /\ NotObserved \in NotObserved .. MaxSilence
    BY RuntimeAssumption, PolicyAssumption DEF NotObserved
  <1>1. w \in Workers
    BY <1>0 DEF Init, Workers, Transports
  <1>2. /\ app \in Streams /\ app.on = FALSE /\ mon \in Monitors /\ mon.on = FALSE
        /\ probe = "due" /\ auditor = FALSE /\ w.pc = "geometry"
        /\ w.transport = "none" /\ ctl.running = FALSE
    BY OffSpec, MonitorStarts DEF Init, Transports
  <1>3. pol \in Policies /\ pol.failed = {}
    BY <1>0 DEF Init, Policies, NoBreakers, NoStreak
  <1>4. epoch \in Epochs
    BY <1>0 DEF Init, Epochs
  <1>5. ctl \in Flags
    BY DEF Init, Flags
  <1>6. auth \in Permits
    BY <1>0 DEF Init, Permits
  <1>7. env \in Networks
    BY <1>0 DEF Init, Networks
  <1>8. TypeOK
    BY <1>1, <1>2, <1>3, <1>4, <1>5, <1>6, <1>7 DEF TypeOK
  <1>9. PhasePart /\ LinkPart /\ BreakerPart /\ FailedPathNotReselected
    BY <1>2, <1>3 DEF PhasePart, LinkPart, BreakerPart, FailedPathNotReselected, Early, Rebuilding
  <1> QED
    BY <1>8, <1>9 DEF IndInv

(* It is kept by every step.                                                 *)
LEMMA NextInv ==
  ASSUME IndInv, [Next]_vars
  PROVE  IndInv'
  <1>1. CASE UNCHANGED vars
    <2>1. UNCHANGED <<w, app, mon, probe, auditor, pol, epoch, ctl, auth, env>>
      BY <1>1 DEF vars
    <2>2. TypeOK'
      BY <2>1 DEF IndInv, TypeOK
    <2>3. PhasePart' /\ LinkPart' /\ BreakerPart' /\ FailedPathNotReselected'
      BY <2>1 DEF IndInv, PhasePart, LinkPart, BreakerPart, FailedPathNotReselected
    <2> QED
      BY <2>2, <2>3 DEF IndInv
  <1>2. CASE Worker
    <2>1. TRUE \in BOOLEAN
      OBVIOUS
    <2> QED
      BY <1>2, <2>1, BeginningInv, RecoveryInv, StartFirstInv, RestartInv, IterateInv,
         TearDownInv, RetryInv, CleanupInv DEF Worker
  <1> QED
    BY <1>1, <1>2, BesideInv, EnvironmentInv DEF Next

(* The inductive invariant gives what the threads rely on.                   *)
LEMMA InvInStep ==
  ASSUME IndInv
  PROVE  ThreadsInStep
  <1>1. TypeOK
    BY DEF IndInv
  <1>2. MonitorWatchesStream
    BY <1>1, StreamFields DEF IndInv, LinkPart, MonitorWatchesStream
  <1>3. WorkerProvisionsAlone
    BY DEF IndInv, PhasePart, LinkPart, WorkerProvisionsAlone, Early, Rebuilding
  <1>4. NothingOutlivesWorker
    BY DEF IndInv, PhasePart, NothingOutlivesWorker, Early
  <1> QED
    BY <1>1, <1>2, <1>3, <1>4 DEF ThreadsInStep

(* The inductive invariant holds in every reachable state.                   *)
THEOREM RuntimeInvariant == Spec => []IndInv
  <1>1. Init => IndInv
    BY InitInv
  <1>2. IndInv /\ [Next]_vars => IndInv'
    BY NextInv
  <1> QED
    BY <1>1, <1>2, PTL DEF Spec

(* For all thresholds and any number of faults and connections, the monitor  *)
(* watches the link the frames are sent on, the worker provisions only while *)
(* neither the CAT6 probe nor the firewall auditor runs, and nothing         *)
(* outlives the worker. Probe and auditor are not kept apart.                *)
THEOREM ThreadsInStepTheorem == Spec => []ThreadsInStep
  <1>1. IndInv => ThreadsInStep
    BY InvInStep
  <1> QED
    BY <1>1, RuntimeInvariant, PTL

(* An encoder path that has failed in the video pipeline is not selected     *)
(* again, whatever else fails and on whatever vendor's adapter.              *)
THEOREM FailedPathTheorem == Spec => []FailedPathNotReselected
  <1>1. IndInv => FailedPathNotReselected
    BY DEF IndInv
  <1> QED
    BY <1>1, RuntimeInvariant, PTL
==============================================================================
