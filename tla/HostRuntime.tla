----------------------------- MODULE HostRuntime -----------------------------
(***************************************************************************)
(* The worker of HostRuntimeService: it finds the phone, streams to it and *)
(* rebuilds the stream after every failure, until it is stopped, the lease *)
(* ends or no epoch can be reserved. Beside it run the link monitor, the   *)
(* probe that looks for CAT6 while the stream uses the wireless LAN, the   *)
(* firewall auditor and the control channel, which opens and closes the    *)
(* gate and replaces the traffic keys.                                     *)
(*                                                                         *)
(* A session is its transport; the traffic keys are the number of the      *)
(* connection they were derived from. What the worker does between two     *)
(* looks at what others write is one step. Provisioning of the link is     *)
(* HostBootstrap's, the reservation of an epoch EpochReservation's.        *)
(***************************************************************************)
EXTENDS HostRecoveryPolicy, FiniteSets

CONSTANTS Vendors,      \* of the capture adapter: "nvidia" and others
          MaxEpoch,     \* kVideoStreamEpochMax
          MaxChannels,  \* bound on the connections of the control channel
          MaxFaults     \* bound on failures, losses and interruptions

ASSUME RuntimeAssumption ==
    MaxEpoch \in Nat /\ MaxChannels \in Nat \ {0} /\ MaxFaults \in Nat

VARIABLES w,        \* the worker: position, cause, session, keys it captured
          app,      \* HostApplication
          mon,      \* HostCat6Monitor
          probe,    \* preferred_cat6_probe and its result
          auditor,  \* whether the thread of RuntimeFirewallAuditor runs
          pol,      \* breakers, streak of failures, silence
          epoch,    \* the last epoch reserved, and that of the last stream
          ctl,      \* stop_requested_, running_, start_finished_
          auth,     \* the gate and the keys of the channel
          env       \* transports that reach the phone, the adapter, and the faults so far

vars == <<w, app, mon, probe, auditor, pol, epoch, ctl, auth, env>>

Off == [on |-> FALSE, epoch |-> 0, transport |-> "none", keys |-> 0, path |-> "none"]
NoMonitor == [on |-> FALSE, transport |-> "none", failures |-> 0, old |-> FALSE]

Init ==
    /\ w = [pc |-> "geometry", cause |-> "none", ready |-> FALSE, transport |-> "none", keys |-> 0]
    /\ app = Off
    /\ mon = NoMonitor
    /\ probe = "due"
    /\ auditor = FALSE
    /\ pol = [breakers |-> NoBreakers, streak |-> NoStreak, silent |-> NotObserved, failed |-> {}]
    /\ epoch = [reserved |-> 0, stream |-> 0]
    /\ ctl = [stop |-> FALSE, running |-> FALSE, finished |-> FALSE]
    /\ auth = [gate |-> TRUE, keys |-> 1, used |-> 1]
    /\ \E vendor \in Vendors :
          env = [reach |-> {"cat6", "wlan"}, vendor |-> vendor, faults |-> 0]

-----------------------------------------------------------------------------
(* The beginning of run() *)

\* Every early return tells the thread that waits in start(); otherwise run()
\* goes on.
Fails == w' = [w EXCEPT !.pc = "ended"] /\ ctl' = [ctl EXCEPT !.finished = TRUE]
Goes(pc) == w' = [w EXCEPT !.pc = pc] /\ UNCHANGED ctl

Fault == env.faults < MaxFaults /\ env' = [env EXCEPT !.faults = @ + 1]

\* An operation that could succeed and does not is a fault.
Outcome(ok, feasible) ==
    /\ ok => feasible
    /\ IF feasible /\ ~ok THEN Fault ELSE UNCHANGED env

RefreshGeometry(ok) ==
    /\ w.pc = "geometry"
    /\ Outcome(ok, TRUE)
    /\ IF ok THEN Goes("bootstrap") ELSE Fails
    /\ UNCHANGED <<app, mon, probe, auditor, pol, epoch, auth>>

\* bootstrap_host_cat6_link, cancelled by the stop token at its own checks.
Bootstrap(ok) ==
    /\ w.pc = "bootstrap"
    /\ Outcome(ok, "cat6" \in env.reach)
    /\ IF ctl.stop THEN Fails
       ELSE IF ok THEN w' = [w EXCEPT !.pc = "reserve", !.transport = "cat6"] /\ UNCHANGED ctl
       ELSE Goes("wireless")
    /\ UNCHANGED <<app, mon, probe, auditor, pol, epoch, auth>>

\* The firewall, then the discovery of the phone on the wireless LAN.
WirelessFallback(ok) ==
    /\ w.pc = "wireless"
    /\ Outcome(ok, "wlan" \in env.reach /\ ~ctl.stop)
    /\ IF ok THEN w' = [w EXCEPT !.pc = "reserve", !.transport = "wlan"] /\ UNCHANGED ctl
       ELSE Fails
    /\ UNCHANGED <<app, mon, probe, auditor, pol, epoch, auth>>

\* The metrics path, the state path and the reservation.
ReserveFirstEpoch(ok) ==
    /\ w.pc = "reserve"
    /\ Outcome(ok, epoch.reserved < MaxEpoch)
    /\ IF ok THEN epoch' = [epoch EXCEPT !.reserved = @ + 1] /\ Goes("session") ELSE Fails /\ UNCHANGED epoch
    /\ UNCHANGED <<app, mon, probe, auditor, pol, auth>>

\* The traffic keys are captured once, for the whole run.
CaptureSession ==
    /\ w.pc = "session"
    /\ IF auth.keys = 0 THEN Fails
       ELSE w' = [w EXCEPT !.pc = "application", !.keys = auth.keys] /\ UNCHANGED ctl
    /\ UNCHANGED <<app, mon, probe, auditor, pol, epoch, auth, env>>

\* HostApplication::start: video, IDR listener, mouse, presence, metrics file;
\* each candidate is given up when it does not initialise.
AppStarts(path) ==
    /\ \E i \in DOMAIN Candidates(Preference(pol.breakers), env.vendor) :
          path = Candidates(Preference(pol.breakers), env.vendor)[i]
    /\ epoch' = [epoch EXCEPT !.stream = epoch.reserved]
    /\ app' = [on |-> TRUE, epoch |-> epoch.reserved, transport |-> w.transport, keys |-> w.keys, path |-> path]

StartMonitor(ok, transport) ==
    IF ok THEN [on |-> TRUE, transport |-> transport, failures |-> 0, old |-> FALSE] ELSE NoMonitor

\* The first stream: running_ and start_finished_ are set together.
StartFirst(path, monitored) ==
    /\ w.pc = "application"
    /\ AppStarts(path)
    /\ mon' = StartMonitor(monitored, w.transport)
    /\ Outcome(monitored, TRUE)
    /\ w' = [w EXCEPT !.pc = "stream"]
    /\ ctl' = [ctl EXCEPT !.running = TRUE, !.finished = TRUE]
    /\ UNCHANGED <<probe, auditor, pol, auth>>

StartFirstFails ==
    /\ w.pc = "application"
    /\ Fault
    /\ Fails
    /\ UNCHANGED <<app, mon, probe, auditor, pol, epoch, auth>>

-----------------------------------------------------------------------------
(* The loop *)

\* What publish_next can report. While the gate is closed everything is refused,
\* except that the completion of an earlier frame may hide it.
Steps == {"published", "stale_frame", "idle", "bridge_failed", "encode_failed", "failed", "closed"}

StopSeen ==
    /\ w.pc = "stream"
    /\ ctl.stop
    /\ Goes("cleanup")
    /\ UNCHANGED <<app, mon, probe, auditor, pol, epoch, auth, env>>

\* The lease is over: no recovery.
AuthorizationClosed ==
    /\ w.pc = "stream"
    /\ ~ctl.stop
    /\ ~auth.gate
    /\ Goes("cleanup")
    /\ UNCHANGED <<app, mon, probe, auditor, pol, epoch, auth, env>>

\* The result of the probe is taken; a probe that found no CAT6 waits for its
\* next turn, and one that is due begins.
ProbeTaken == IF probe = "absent" THEN "cooling" ELSE probe

NextProbe(upgrade) ==
    IF upgrade THEN "due"
    ELSE IF ShouldStartPreferredProbe(w.transport, ProbeTaken = "running", FALSE, ProbeTaken = "due")
    THEN "running" ELSE ProbeTaken

\* An audit that is due begins unless the probe runs; its result is only logged.
NextAuditor(p, due) == auditor \/ (due /\ p # "running")

\* One iteration of the loop. A cause other than none ends it: the breakers
\* are set and the probe is told to stop.
Iterate(step, audit) ==
    LET published == step \in {"published", "stale_frame"}
        silent    == Silence(pol.silent, published)
        healthy   == step \in {"published", "idle"} /\ ~Stalled(silent)
        upgrade   == ShouldCommitPreferredUpgrade(w.transport, probe = "ready")
        cause     == Cause(upgrade, mon.on /\ RequiresRecovery(mon.failures, mon.old), healthy)
        tripped   == Tripped(pol.breakers, cause, FailureKind(step), app.path)
    IN /\ w.pc = "stream"
       /\ ~ctl.stop
       /\ step # "closed"
       /\ IF step = "published" /\ auth.gate THEN UNCHANGED env ELSE Fault
       /\ IF cause = "none"
          THEN /\ pol' = [pol EXCEPT !.silent = silent,
                            !.streak = IF step = "published" THEN RecordPublishedFrame(@) ELSE @]
               /\ probe' = NextProbe(FALSE)
               /\ auditor' = NextAuditor(NextProbe(FALSE), audit)
               /\ UNCHANGED w
          ELSE /\ pol' = [pol EXCEPT !.silent = silent, !.breakers = tripped,
                            !.failed = IF cause = "video_pipeline" /\ RulesOut(FailureKind(step), app.path)
                                       THEN @ \cup {app.path} ELSE @]
               /\ probe' = NextProbe(upgrade)
               /\ auditor' = NextAuditor(NextProbe(upgrade), audit)
               /\ w' = [w EXCEPT !.pc = "teardown", !.cause = cause, !.ready = upgrade]
       /\ UNCHANGED <<app, mon, epoch, ctl, auth>>

\* A joined probe has no result; the time of its next turn stays.
Joined == IF probe = "cooling" THEN "cooling" ELSE "due"

\* Mutant: the probe is told to stop and not waited for.
TearDownMutant ==
    /\ w.pc = "teardown"
    /\ ~auditor
    /\ UNCHANGED probe
    /\ auditor' = FALSE
    /\ app' = Off
    /\ mon' = IF w.cause = "video_pipeline" THEN mon ELSE NoMonitor
    /\ Goes("retry")
    /\ UNCHANGED <<pol, epoch, auth, env>>

\* Probe and auditor are joined, the application stopped, and the monitor too
\* unless only the video has failed.
TearDown ==
    /\ w.pc = "teardown"
    /\ probe # "running" /\ ~auditor
    /\ probe' = Joined
    /\ auditor' = FALSE
    /\ app' = Off
    /\ mon' = IF w.cause = "video_pipeline" THEN mon ELSE NoMonitor
    /\ Goes("retry")
    /\ UNCHANGED <<pol, epoch, auth, env>>

\* The head of the recovery loop; an upgrade is not counted as a failure.
Retry ==
    /\ w.pc = "retry"
    /\ IF ctl.stop \/ ~auth.gate THEN Goes("cleanup") /\ UNCHANGED pol
       ELSE /\ pol' = IF w.ready THEN pol
                      ELSE [pol EXCEPT !.streak = RecordFailure(@),
                                       !.silent = Waited(@, Delay(pol.streak.delay))]
            /\ Goes("wait")
    /\ UNCHANGED <<app, mon, probe, auditor, epoch, auth, env>>

\* Mutant: the wait for the next attempt ignores the stop.
WaitingMutant(monitored) ==
    /\ w.pc = "wait"
    /\ Outcome(monitored, ~mon.on /\ w.ready)
    /\ IF ctl.stop THEN Goes("wait") /\ UNCHANGED mon
       ELSE Goes("rebootstrap") /\ UNCHANGED mon
    /\ UNCHANGED <<app, probe, auditor, pol, epoch, auth>>

\* Mutant: the monitor of a lost link is asked again instead of being replaced.
WaitingKeepsMonitor(monitored) ==
    /\ w.pc = "wait"
    /\ Outcome(monitored, ~ctl.stop /\ ~mon.on /\ w.ready)
    /\ IF ctl.stop THEN Goes("cleanup") /\ UNCHANGED mon
       ELSE IF mon.on
       THEN Goes(IF RequiresRecovery(mon.failures, mon.old) THEN "retry" ELSE "regeometry") /\ UNCHANGED mon
       ELSE IF w.ready
       THEN /\ mon' = StartMonitor(monitored, "cat6")
            /\ w' = [w EXCEPT !.pc = "regeometry", !.ready = FALSE, !.transport = "cat6"]
            /\ UNCHANGED ctl
       ELSE Goes("rebootstrap") /\ UNCHANGED mon
    /\ UNCHANGED <<app, probe, auditor, pol, epoch, auth>>

\* wait_for_retry_or_stop, then the monitor that survived: a link it has given
\* up must be found again, otherwise the stream keeps its session.
Waiting(monitored) ==
    /\ w.pc = "wait"
    /\ Outcome(monitored, ~ctl.stop /\ ~mon.on /\ w.ready)
    /\ IF ctl.stop THEN Goes("cleanup") /\ UNCHANGED mon
       ELSE IF mon.on
       THEN IF RequiresRecovery(mon.failures, mon.old)
            THEN mon' = NoMonitor /\ Goes("retry")
            ELSE Goes("regeometry") /\ UNCHANGED mon
       ELSE IF w.ready
       THEN /\ mon' = StartMonitor(monitored, "cat6")
            /\ w' = [w EXCEPT !.pc = "regeometry", !.ready = FALSE, !.transport = "cat6"]
            /\ UNCHANGED ctl
       ELSE Goes("rebootstrap") /\ UNCHANGED mon
    /\ UNCHANGED <<app, probe, auditor, pol, epoch, auth>>

\* activate_recovered_session.
Activate(transport, monitored) ==
    /\ mon' = StartMonitor(monitored, transport)
    /\ w' = [w EXCEPT !.pc = "regeometry", !.transport = transport]
    /\ UNCHANGED ctl

Rebootstrap(ok, monitored) ==
    /\ w.pc = "rebootstrap"
    /\ monitored => ok
    /\ IF ok THEN "cat6" \in env.reach /\ Outcome(monitored, TRUE) ELSE Outcome(ok, "cat6" \in env.reach)
    /\ IF ctl.stop THEN Goes("cleanup") /\ UNCHANGED mon
       ELSE IF ok THEN Activate("cat6", monitored)
       ELSE Goes("rewireless") /\ UNCHANGED mon
    /\ UNCHANGED <<app, probe, auditor, pol, epoch, auth>>

\* The wireless discovery of a recovery has no stop token and no look at it.
Rewireless(ok, monitored) ==
    /\ w.pc = "rewireless"
    /\ monitored => ok
    /\ IF ok THEN "wlan" \in env.reach /\ Outcome(monitored, TRUE) ELSE Outcome(ok, "wlan" \in env.reach)
    /\ IF ok THEN Activate("wlan", monitored) ELSE Goes("retry") /\ UNCHANGED mon
    /\ UNCHANGED <<app, probe, auditor, pol, epoch, auth>>

RefreshGeometryAgain(ok) ==
    /\ w.pc = "regeometry"
    /\ Outcome(ok, TRUE)
    /\ Goes(IF ok THEN "rereserve" ELSE "retry")
    /\ UNCHANGED <<app, mon, probe, auditor, pol, epoch, auth>>

\* Without a durable epoch there is no stream.
ReserveNextEpoch(ok) ==
    /\ w.pc = "rereserve"
    /\ Outcome(ok, epoch.reserved < MaxEpoch)
    /\ IF ok THEN epoch' = [epoch EXCEPT !.reserved = @ + 1] /\ Goes("restart") ELSE Goes("cleanup") /\ UNCHANGED epoch
    /\ UNCHANGED <<app, mon, probe, auditor, pol, auth>>

\* The recovered stream: the progress policy and the probe begin anew.
Restart(path) ==
    /\ w.pc = "restart"
    /\ AppStarts(path)
    /\ pol' = [pol EXCEPT !.silent = NotObserved]
    /\ probe' = IF probe = "cooling" THEN "due" ELSE probe
    /\ w' = [w EXCEPT !.pc = "stream", !.cause = "none"]
    /\ UNCHANGED <<mon, auditor, ctl, auth, env>>

\* The epoch is burned.
RestartFails ==
    /\ w.pc = "restart"
    /\ Fault
    /\ Goes("retry")
    /\ UNCHANGED <<app, mon, probe, auditor, pol, epoch, auth>>

\* The end of run().
Cleanup ==
    /\ w.pc = "cleanup"
    /\ probe # "running" /\ ~auditor
    /\ probe' = "due"
    /\ auditor' = FALSE
    /\ mon' = NoMonitor
    /\ app' = Off
    /\ w' = [w EXCEPT !.pc = "ended"]
    /\ ctl' = [ctl EXCEPT !.running = FALSE]
    /\ UNCHANGED <<pol, epoch, auth, env>>

Worker ==
    \/ \E ok \in BOOLEAN :
          \/ RefreshGeometry(ok) \/ Bootstrap(ok) \/ WirelessFallback(ok) \/ ReserveFirstEpoch(ok)
          \/ RefreshGeometryAgain(ok) \/ ReserveNextEpoch(ok) \/ Waiting(ok)
          \/ \E monitored \in BOOLEAN : Rebootstrap(ok, monitored) \/ Rewireless(ok, monitored)
          \/ \E path \in Paths : StartFirst(path, ok)
    \/ \E path \in Paths : Restart(path)
    \/ CaptureSession \/ StartFirstFails \/ RestartFails
    \/ StopSeen \/ AuthorizationClosed \/ (\E step \in Steps, audit \in BOOLEAN : Iterate(step, audit))
    \/ TearDown \/ Retry \/ Cleanup

-----------------------------------------------------------------------------
(* The threads beside the worker *)

\* bootstrap_host_cat6_link on the probe's thread. Without a join it goes on
\* until it has a result; told to stop, it ends without one.
ProbeEnds(ok) ==
    /\ probe = "running"
    /\ Outcome(ok, "cat6" \in env.reach)
    /\ probe' = IF ok THEN "ready" ELSE "absent"
    /\ UNCHANGED <<w, app, mon, auditor, pol, epoch, ctl, auth>>

\* kPreferredCat6ProbeRetryInterval.
ProbeDue ==
    /\ probe = "cooling"
    /\ probe' = "due"
    /\ UNCHANGED <<w, app, mon, auditor, pol, epoch, ctl, auth, env>>

AuditorEnds ==
    /\ auditor
    /\ auditor' = FALSE
    /\ UNCHANGED <<w, app, mon, probe, pol, epoch, ctl, auth, env>>

\* HostCat6Monitor::run measures the session it was started with; a success
\* sets last_success_at_.
MonitorMeasures ==
    LET ok == mon.transport \in env.reach
    IN /\ mon.on
       /\ mon' = [mon EXCEPT !.failures = Measured(@, ok), !.old = @ /\ ~ok]
       /\ mon' # mon
       /\ UNCHANGED <<w, app, probe, auditor, pol, epoch, ctl, auth, env>>

\* The last success is kHostCat6MonitorRecoveryAfter ago; this is of interest
\* only after a failure.
MonitorAges ==
    /\ mon.on /\ mon.failures > 0 /\ ~mon.old
    /\ mon' = [mon EXCEPT !.old = TRUE]
    /\ UNCHANGED <<w, app, probe, auditor, pol, epoch, ctl, auth, env>>

-----------------------------------------------------------------------------
(* The operator, the control channel and the network *)

\* stop_runtime: the flag and the stop token together.
RequestStop ==
    /\ ~ctl.stop
    /\ ctl' = [ctl EXCEPT !.stop = TRUE]
    /\ Fault
    /\ UNCHANGED <<w, app, mon, probe, auditor, pol, epoch, auth>>

\* The lease ends, or its channel does, which also forgets the keys.
GateCloses(channel) ==
    /\ auth.keys # 0
    /\ auth.gate \/ channel
    /\ auth' = [auth EXCEPT !.gate = FALSE, !.keys = IF channel THEN 0 ELSE @]
    /\ Fault
    /\ UNCHANGED <<w, app, mon, probe, auditor, pol, epoch, ctl>>

\* A new connection installs its keys; the lease committed on it opens the gate.
ChannelInstalled ==
    /\ auth.keys = 0 /\ auth.used < MaxChannels
    /\ auth' = [auth EXCEPT !.keys = auth.used + 1, !.used = @ + 1]
    /\ UNCHANGED <<w, app, mon, probe, auditor, pol, epoch, ctl, env>>

LeaseCommitted ==
    /\ auth.keys # 0 /\ ~auth.gate
    /\ auth' = [auth EXCEPT !.gate = TRUE]
    /\ UNCHANGED <<w, app, mon, probe, auditor, pol, epoch, ctl, env>>

\* A cable is pulled or plugged, the wireless LAN comes and goes.
NetworkLost(t) ==
    /\ t \in env.reach
    /\ env.faults < MaxFaults
    /\ env' = [env EXCEPT !.reach = @ \ {t}, !.faults = @ + 1]
    /\ UNCHANGED <<w, app, mon, probe, auditor, pol, epoch, ctl, auth>>

NetworkBack(t) ==
    /\ t \notin env.reach
    /\ env' = [env EXCEPT !.reach = @ \cup {t}]
    /\ UNCHANGED <<w, app, mon, probe, auditor, pol, epoch, ctl, auth>>

Beside ==
    \/ \E ok \in BOOLEAN : ProbeEnds(ok)
    \/ ProbeDue \/ AuditorEnds \/ MonitorMeasures \/ MonitorAges

Environment ==
    \/ RequestStop \/ ChannelInstalled \/ LeaseCommitted
    \/ \E channel \in BOOLEAN : GateCloses(channel)
    \/ \E t \in {"cat6", "wlan"} : NetworkLost(t) \/ NetworkBack(t)

Next == Worker \/ Beside \/ Environment

Spec == Init /\ [][Next]_vars

\* The threads of the process run; only the frames that are in flight can hide
\* a closed gate. The network, the phone and the operator are free.
FairSpec ==
    /\ Spec
    /\ WF_vars(Worker) /\ WF_vars(AuthorizationClosed)
    /\ WF_vars(\E ok \in BOOLEAN : ProbeEnds(ok)) /\ WF_vars(ProbeDue)
    /\ WF_vars(AuditorEnds) /\ WF_vars(MonitorMeasures) /\ WF_vars(MonitorAges)

-----------------------------------------------------------------------------
(* Properties *)

Transports == {"none", "cat6", "wlan"}

Workers  == [pc : {"geometry", "bootstrap", "wireless", "reserve", "session", "application",
                   "stream", "teardown", "retry", "wait", "rebootstrap", "rewireless",
                   "regeometry", "rereserve", "restart", "cleanup", "ended"},
             cause : {"none", "preferred_transport_upgrade", "cat6_link", "video_pipeline"},
             ready : BOOLEAN, transport : Transports, keys : 0 .. MaxChannels]
Streams  == [on : BOOLEAN, epoch : 0 .. MaxEpoch, transport : Transports,
             keys : 0 .. MaxChannels, path : Paths \cup {"none"}]
Monitors == [on : BOOLEAN, transport : Transports, failures : 0 .. LinkLost, old : BOOLEAN]
Policies == [breakers : [skip_async_shared : BOOLEAN, skip_nvenc : BOOLEAN, force_software : BOOLEAN],
             streak : [delay : 0 .. MaxBackoff, stable : 0 .. StableFrames - 1],
             silent : NotObserved .. MaxSilence, failed : SUBSET Paths]
Epochs   == [reserved : 0 .. MaxEpoch, stream : 0 .. MaxEpoch]
Flags    == [stop : BOOLEAN, running : BOOLEAN, finished : BOOLEAN]
Permits  == [gate : BOOLEAN, keys : 0 .. MaxChannels, used : 1 .. MaxChannels]
Networks == [reach : SUBSET {"cat6", "wlan"}, vendor : Vendors, faults : 0 .. MaxFaults]

(* The values of the variables of the worker and the threads beside it.      *)
TypeOK ==
    /\ w \in Workers /\ app \in Streams /\ mon \in Monitors /\ pol \in Policies
    /\ probe \in {"due", "running", "ready", "absent", "cooling"} /\ auditor \in BOOLEAN
    /\ epoch \in Epochs /\ ctl \in Flags /\ auth \in Permits /\ env \in Networks

(* The stream, the monitor and the session agree: the monitor never watches  *)
(* another link than the one the frames are sent on, through upgrades, lost  *)
(* links and restarts of only the video.                                     *)
MonitorWatchesStream ==
    /\ app.on /\ w.pc = "stream" => app.transport = w.transport
    /\ app.on /\ mon.on => mon.transport = app.transport

(* The worker never provisions the link, its firewall and its DHCP server    *)
(* together with another thread: a recovery bootstraps only after probe and  *)
(* auditor were joined, and no probe runs while the stream already uses      *)
(* CAT6. Probe and auditor themselves are not kept apart: the auditor is not *)
(* started while a probe is joinable, but a probe is started without a look  *)
(* at the auditor, so that the two may provision the firewall together.      *)
WorkerProvisionsAlone ==
    /\ w.pc \in {"bootstrap", "rebootstrap", "wireless", "rewireless"} => probe # "running" /\ ~auditor
    /\ w.transport = "cat6" => probe # "running"

(* An encoder path that failed in the video pipeline is never selected again *)
(* in the same run of the worker.                                            *)
FailedPathNotReselected == app.on /\ w.pc = "stream" => app.path \notin pol.failed

(* When the worker has ended, nothing of it is left: no stream, no monitor,  *)
(* and no thread that could still configure the network after the clean-up   *)
(* of a stop has restored it; and start() has been told.                     *)
NothingOutlivesWorker ==
    w.pc = "ended" => /\ ~app.on /\ ~mon.on /\ ~ctl.running /\ ctl.finished
                      /\ probe # "running" /\ ~auditor

(* A stop ends the worker, whatever it is doing.                             *)
StopEndsWorker == ctl.stop ~> w.pc = "ended"

(* A recovery does not go on without a lease: the worker ends, or the lease  *)
(* comes back.                                                               *)
LeaseEndsWorker == ~auth.gate ~> (auth.gate \/ w.pc = "ended")

\* No fault is left, and nothing keeps the worker from streaming.
Calm == env.faults = MaxFaults /\ auth.gate /\ ~ctl.stop /\ env.reach # {}

(* Once faults are over a worker that still runs streams for good, to an     *)
(* address at which the phone is: unless the monitor could not be started,   *)
(* which leaves a lost link unnoticed.                                       *)
RecoversForGood ==
    Calm ~> [](w.pc = "ended" \/ (app.on /\ (app.transport \in env.reach \/ ~mon.on)))

(* A stream on the wireless LAN moves to CAT6 when CAT6 is there.            *)
PreferredTransportWins ==
    (Calm /\ "cat6" \in env.reach) ~> (w.pc = "ended" \/ (app.on /\ app.transport = "cat6"))

(* The worker, its monitor, the CAT6 probe and the firewall auditor stay in  *)
(* step: the monitor watches the link in use, the worker provisions only     *)
(* while neither probe nor auditor runs, and none of them outlives it.       *)
ThreadsInStep ==
    /\ TypeOK
    /\ MonitorWatchesStream
    /\ WorkerProvisionsAlone
    /\ NothingOutlivesWorker

(* The recovery loop is left when it must be: for a stop, and for a lease    *)
(* that is gone and does not come back.                                      *)
RecoveryEnds == StopEndsWorker /\ LeaseEndsWorker

(* Once the faults are over the stream is back for good, on CAT6 when CAT6   *)
(* is there.                                                                 *)
StreamComesBack == RecoversForGood /\ PreferredTransportWins
=============================================================================
