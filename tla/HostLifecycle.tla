---------------------------- MODULE HostLifecycle ----------------------------
(***************************************************************************)
(* The threads that start and stop the Host: the window's thread           *)
(* (StreamerDesktopApp), the startup thread it launches, which runs        *)
(* HostRuntimeFacade::start, the worker of HostRuntimeService, the probe   *)
(* that looks for the phone, and the listener and the worker of the        *)
(* authenticated control channel.                                          *)
(*                                                                         *)
(* What one thread does under one lock, or alone, is one step. The lease   *)
(* gate is open or closed here (HostAuthorization has its detail), and the *)
(* worker's loop is HostRuntime's. A start intent is pending and perhaps   *)
(* claimed by the APP.                                                     *)
(***************************************************************************)
EXTENDS Naturals

CONSTANTS Acceptance,   \* acceptance_autostart_: failed starts are retried
          MaxClicks     \* bound on what the operator does

ASSUME LifecycleAssumption == Acceptance \in BOOLEAN /\ MaxClicks \in Nat

VARIABLES ui,       \* the window's thread and its flags
          startup,  \* startup_thread_
          probe,    \* mobile_refresh_thread_
          svc,      \* HostRuntimeService: its flags and its worker
          sec,      \* a listener, of pairing or of control; the channel
          gate,     \* whether the data plane is permitted
          intent,   \* HostStartIntentGate
          wanted,   \* the operator's last word: start or stop
          clicks

vars == <<ui, startup, probe, svc, sec, gate, intent, wanted, clicks>>

NoIntent == [pending |-> FALSE, claimed |-> FALSE]

Init ==
    /\ ui = [pc |-> "ready", starting |-> FALSE, wasRunning |-> FALSE,
             whenAuthorized |-> FALSE, deferred |-> FALSE, retry |-> FALSE,
             button |-> "start"]
    /\ startup = [pc |-> "none", current |-> FALSE, result |-> "none"]
    /\ probe = [state |-> "idle", current |-> FALSE]
    /\ svc = [stop |-> FALSE, finished |-> FALSE, running |-> FALSE,
              worker |-> "none", error |-> "none"]
    /\ sec = [listening |-> FALSE, channel |-> FALSE]
    /\ gate = FALSE
    /\ intent = NoIntent
    /\ wanted = FALSE
    /\ clicks = 0

-----------------------------------------------------------------------------
(* HostStartIntentGate *)

Offer(i) == IF i.pending THEN i ELSE [pending |-> TRUE, claimed |-> FALSE]

\* authenticated_channel_closed: a claimed intent is issued anew.
ChannelClosed(i) == IF i.pending /\ i.claimed THEN [i EXCEPT !.claimed = FALSE] ELSE i

-----------------------------------------------------------------------------
(* The window's thread *)

\* The queue of the window: posted messages come before input and timers.
NoPostedMessage == startup.pc # "posted" /\ probe.state # "posted"

\* The new startup thread; the one before has been joined.
Launch(u) ==
    /\ ui' = [u EXCEPT !.starting = TRUE, !.button = "stop"]
    /\ startup' = [pc |-> "checks", current |-> TRUE, result |-> "none"]

\* The end of start_streamer: the start is launched, or the call returns with
\* nothing begun. The back-off and an invalid region leave the window as it is,
\* a missing display arms the retry of acceptance mode, and a thread that
\* cannot be created shows the start button.
LaunchOrReturn(u) ==
    \/ Launch(u)
    \/ /\ ui' \in {u, [u EXCEPT !.retry = @ \/ Acceptance], [u EXCEPT !.button = "start"]}
       /\ UNCHANGED startup

\* start_streamer. A probe that still runs is cancelled first, one that has
\* finished is joined; a start or a stream that already runs makes it return.
StartStreamer(u) ==
    CASE ui.starting \/ svc.running -> ui' = u /\ UNCHANGED <<startup, probe>>
      [] ~ui.starting /\ ~svc.running /\ probe.state = "running" ->
            /\ ui' = [u EXCEPT !.deferred = TRUE, !.retry = Acceptance, !.button = "stop"]
            /\ probe' = [probe EXCEPT !.current = FALSE]
            /\ UNCHANGED startup
      [] OTHER ->
            /\ probe' = IF probe.state = "finished" THEN [probe EXCEPT !.state = "posted"] ELSE probe
            /\ LaunchOrReturn(u)

\* The start button, which the window shows while the stop button is hidden.
StartClick ==
    /\ ui.pc = "ready" /\ ui.button = "start"
    /\ clicks < MaxClicks
    /\ clicks' = clicks + 1
    /\ wanted' = TRUE
    /\ NoPostedMessage
    /\ StartStreamer(ui)
    /\ UNCHANGED <<svc, sec, gate, intent>>

\* What stop_streamer clears before anything else.
StoppedFlags == [ui EXCEPT !.whenAuthorized = FALSE, !.retry = FALSE]

\* Mutant: the start that is cancelled keeps its generation.
StopClickKeepsGeneration ==
    /\ ui.pc = "ready" /\ ui.button = "stop"
    /\ clicks < MaxClicks
    /\ clicks' = clicks + 1
    /\ wanted' = FALSE
    /\ NoPostedMessage
    /\ ~ui.deferred
    /\ ui' = [StoppedFlags EXCEPT !.pc = IF ui.starting THEN "cancel" ELSE "stop",
                                  !.button = "none"]
    /\ UNCHANGED <<startup, probe, svc, sec, gate, intent>>

\* stop_streamer: a deferred start is only forgotten; otherwise the facade is
\* told to stop, and during a start the window does not wait for it.
StopClick ==
    /\ ui.pc = "ready" /\ ui.button = "stop"
    /\ clicks < MaxClicks
    /\ clicks' = clicks + 1
    /\ wanted' = FALSE
    /\ NoPostedMessage
    /\ IF ui.deferred
       THEN /\ ui' = [StoppedFlags EXCEPT !.deferred = FALSE, !.button = "start"]
            /\ probe' = [probe EXCEPT !.current = FALSE]
            /\ UNCHANGED startup
       ELSE /\ ui' = [StoppedFlags EXCEPT !.pc = IF ui.starting THEN "cancel" ELSE "stop",
                                          !.button = "none"]
            /\ startup' = [startup EXCEPT !.current = FALSE]
            /\ UNCHANGED probe
    /\ UNCHANGED <<svc, sec, gate, intent>>

\* stop_security_services: listener and channel are joined, the gate revoked.
StopSecurityServices ==
    /\ sec' = [listening |-> FALSE, channel |-> FALSE]
    /\ gate' = FALSE
    /\ intent' = ChannelClosed(intent)

StopSecurity ==
    /\ ui.pc \in {"cancel", "stop"}
    /\ StopSecurityServices
    /\ ui' = [ui EXCEPT !.pc = IF @ = "cancel" THEN "cancel_runtime" ELSE "stop_runtime"]
    /\ UNCHANGED <<startup, probe, svc, wanted, clicks>>

\* HostRuntimeService::request_stop, and stop up to its join.
StopRuntime ==
    /\ ui.pc \in {"cancel_runtime", "stop_runtime"}
    /\ gate' = FALSE
    /\ intent' = NoIntent
    /\ svc' = [svc EXCEPT !.stop = TRUE]
    /\ ui' = [ui EXCEPT !.pc = IF @ = "cancel_runtime" THEN "ready" ELSE "stop_join"]
    /\ UNCHANGED <<startup, probe, sec, wanted, clicks>>

\* The joins of the worker and of the startup thread, the restored link.
StopJoined ==
    /\ ui.pc = "stop_join"
    /\ svc.worker = "none"
    /\ startup.pc = "none"
    /\ ui' = [ui EXCEPT !.pc = "ready", !.wasRunning = FALSE, !.button = "start"]
    /\ UNCHANGED <<startup, probe, svc, sec, gate, intent, wanted, clicks>>

\* What the window makes of the result of the start it waits for.
Completed(result) ==
    IF ~startup.current THEN [ui EXCEPT !.starting = FALSE, !.button = "start"]
    ELSE [ui EXCEPT !.starting = FALSE,
                    !.wasRunning = (result = "started"),
                    !.whenAuthorized = (result = "authorization"),
                    !.retry = Acceptance /\ result = "failed",
                    !.button = IF result = "failed" THEN "start" ELSE "stop"]

\* kStartupCompletedMessage, which the queue holds behind the probe's.
StartupCompleted ==
    /\ ui.pc = "ready"
    /\ startup.pc = "posted" /\ probe.state # "posted"
    /\ startup.result # "none"
    /\ ui' = IF startup.current /\ ~ui.starting THEN ui ELSE Completed(startup.result)
    /\ startup' = [startup EXCEPT !.pc = "none", !.result = "none"]
    /\ UNCHANGED <<probe, svc, sec, gate, intent, wanted, clicks>>

\* refresh_status: the only automatic start waits for the authorisation, and a
\* runtime that ended for want of it is started again when it is back.
RefreshStatus ==
    /\ ui.pc = "ready"
    /\ NoPostedMessage
    /\ ~svc.running
    /\ \/ /\ ui.whenAuthorized /\ ~ui.starting /\ gate
          /\ StartStreamer([ui EXCEPT !.whenAuthorized = FALSE])
       \/ /\ ~(ui.whenAuthorized /\ ~ui.starting /\ gate)
          /\ ui.wasRunning
          /\ ui' = [ui EXCEPT !.wasRunning = FALSE,
                              !.whenAuthorized = (svc.error = "authorization"),
                              !.button = IF svc.error = "authorization" THEN "stop" ELSE "start"]
          /\ UNCHANGED <<startup, probe>>
    /\ UNCHANGED <<svc, sec, gate, intent, wanted, clicks>>

\* The timer that retries a failed start in acceptance mode.
AutostartRetry ==
    /\ ui.pc = "ready"
    /\ NoPostedMessage
    /\ ui.retry
    /\ StartStreamer([ui EXCEPT !.retry = FALSE])
    /\ UNCHANGED <<svc, sec, gate, intent, wanted, clicks>>

\* refresh_mobile_device.
RefreshMobile ==
    /\ ui.pc = "ready"
    /\ NoPostedMessage
    /\ clicks < MaxClicks
    /\ clicks' = clicks + 1
    /\ ~ui.starting /\ ~svc.running /\ probe.state = "idle"
    /\ probe' = [state |-> "running", current |-> TRUE]
    /\ UNCHANGED <<ui, startup, svc, sec, gate, intent, wanted>>

\* The probe sets its flag and then posts its message.
ProbeEnds ==
    /\ probe.state \in {"running", "finished"}
    /\ probe' = [probe EXCEPT !.state = IF @ = "running" THEN "finished" ELSE "posted"]
    /\ UNCHANGED <<ui, startup, svc, sec, gate, intent, wanted, clicks>>

\* kMobileRefreshCompletedMessage: the start that waited for it begins.
ProbeCompleted ==
    /\ ui.pc = "ready"
    /\ probe.state = "posted"
    /\ probe' = [state |-> "idle", current |-> FALSE]
    /\ IF ~probe.current /\ ui.deferred /\ ~ui.starting /\ ~svc.running
       THEN LaunchOrReturn([ui EXCEPT !.deferred = FALSE])
       ELSE /\ ui' = [ui EXCEPT !.deferred = FALSE,
                                !.button = IF probe.current \/ ui.deferred THEN @
                                           ELSE IF svc.running THEN "stop" ELSE "start"]
            /\ UNCHANGED startup
    /\ UNCHANGED <<svc, sec, gate, intent, wanted, clicks>>

-----------------------------------------------------------------------------
(* The startup thread: HostRuntimeFacade::start and HostRuntimeService::start *)

\* Identity, pair binding, firewall, pairing listener; then the control
\* listener and the discovery of the phone. A check that fails leaves all as it
\* was, a control listener that fails leaves the pairing listener up, and a
\* discovery that cannot start takes the services down again.
StartSecurity(how) ==
    /\ startup.pc = "checks"
    /\ startup' = IF how = "started" THEN [startup EXCEPT !.pc = "stop_previous"]
                  ELSE [startup EXCEPT !.pc = "post", !.result = "failed"]
    /\ \/ how = "refused" /\ UNCHANGED <<sec, gate, intent>>
       \/ /\ how \in {"started", "half"}
          /\ sec' = [sec EXCEPT !.listening = TRUE]
          /\ UNCHANGED <<gate, intent>>
       \/ how = "undone" /\ StopSecurityServices
    /\ UNCHANGED <<ui, probe, svc, wanted, clicks>>

\* stop_runtime at the head of HostRuntimeService::start, up to its join.
StopPrevious ==
    /\ startup.pc = "stop_previous"
    /\ svc' = [svc EXCEPT !.stop = TRUE]
    /\ startup' = [startup EXCEPT !.pc = "join_previous"]
    /\ UNCHANGED <<ui, probe, sec, gate, intent, wanted, clicks>>

\* Settings the runtime does not accept end the start before the gate is read.
RejectSettings ==
    /\ startup.pc = "join_previous"
    /\ svc.worker = "none"
    /\ startup' = [startup EXCEPT !.pc = "post", !.result = "failed"]
    /\ UNCHANGED <<ui, probe, svc, sec, gate, intent, wanted, clicks>>

\* The gate is checked; a closed one leaves the intent.
CheckGate ==
    /\ startup.pc = "join_previous"
    /\ svc.worker = "none"
    /\ IF gate
       THEN /\ startup' = [startup EXCEPT !.pc = "spawn"]
            /\ UNCHANGED intent
       ELSE /\ intent' = Offer(intent)
            /\ startup' = [startup EXCEPT !.pc = "post", !.result = "authorization"]
    /\ UNCHANGED <<ui, probe, svc, sec, gate, wanted, clicks>>

\* The flags are reset and the worker's thread is created, or not.
SpawnWorker(ok) ==
    /\ startup.pc = "spawn"
    /\ intent' = NoIntent
    /\ svc' = [stop |-> FALSE, finished |-> ~ok, running |-> FALSE,
               worker |-> IF ok THEN "starting" ELSE "none",
               error |-> IF ok THEN "none" ELSE "failed"]
    /\ startup' = [startup EXCEPT !.pc = "wait"]
    /\ UNCHANGED <<ui, probe, sec, gate, wanted, clicks>>

\* start_condition_: the result is whatever the worker has reached by then.
StartReturns ==
    /\ startup.pc = "wait"
    /\ svc.finished
    /\ startup' = [startup EXCEPT !.pc = "post",
                     !.result = IF svc.running THEN "started"
                                ELSE IF svc.error = "authorization" THEN "authorization"
                                ELSE "failed"]
    /\ UNCHANGED <<ui, probe, svc, sec, gate, intent, wanted, clicks>>

PostResult ==
    /\ startup.pc = "post"
    /\ startup' = [startup EXCEPT !.pc = "posted"]
    /\ UNCHANGED <<ui, probe, svc, sec, gate, intent, wanted, clicks>>

-----------------------------------------------------------------------------
(* The worker of the runtime *)

\* Mutant: a start that fails tells nobody.
WorkerFailsSilently ==
    /\ svc.worker = "starting"
    /\ svc' = [svc EXCEPT !.worker = "none", !.error = "failed"]
    /\ UNCHANGED <<ui, startup, probe, sec, gate, intent, wanted, clicks>>

\* run(): the start-up fails, is cancelled, or throws.
WorkerFails ==
    /\ svc.worker = "starting"
    /\ svc' = [svc EXCEPT !.worker = "none", !.finished = TRUE, !.error = "failed"]
    /\ UNCHANGED <<ui, startup, probe, sec, gate, intent, wanted, clicks>>

WorkerStarts ==
    /\ svc.worker = "starting"
    /\ svc' = [svc EXCEPT !.worker = "running", !.running = TRUE, !.finished = TRUE]
    /\ UNCHANGED <<ui, startup, probe, sec, gate, intent, wanted, clicks>>

\* The loop ends on a stop, on a closed gate, or on a failure.
WorkerEnds(why) ==
    /\ svc.worker = "running"
    /\ why = "stopped" => svc.stop
    /\ why = "authorization" => ~gate
    /\ svc' = [svc EXCEPT !.worker = "none", !.running = FALSE,
                          !.error = IF why = "stopped" THEN @ ELSE why]
    /\ UNCHANGED <<ui, startup, probe, sec, gate, intent, wanted, clicks>>

-----------------------------------------------------------------------------
(* The control channel *)

\* install_authenticated_channel: the channel before is closed, and a running
\* stream keeps the operator's wish for the new one.
Connect ==
    /\ sec.listening
    /\ sec' = [sec EXCEPT !.channel = TRUE]
    /\ gate' = FALSE
    /\ intent' = IF svc.running THEN Offer(ChannelClosed(intent)) ELSE ChannelClosed(intent)
    /\ UNCHANGED <<ui, startup, probe, svc, wanted, clicks>>

\* The end of the channel's worker.
ChannelLost ==
    /\ sec.channel
    /\ sec' = [sec EXCEPT !.channel = FALSE]
    /\ gate' = FALSE
    /\ intent' = IF svc.running THEN Offer(ChannelClosed(intent)) ELSE ChannelClosed(intent)
    /\ UNCHANGED <<ui, startup, probe, svc, wanted, clicks>>

ClaimIntent ==
    /\ sec.channel
    /\ intent.pending /\ ~intent.claimed
    /\ intent' = [intent EXCEPT !.claimed = TRUE]
    /\ UNCHANGED <<ui, startup, probe, svc, sec, gate, wanted, clicks>>

\* lease_commit.
LeaseCommitted ==
    /\ sec.channel
    /\ ~gate
    /\ gate' = TRUE
    /\ intent' = NoIntent
    /\ UNCHANGED <<ui, startup, probe, svc, sec, wanted, clicks>>

LeaseEnds ==
    /\ gate
    /\ gate' = FALSE
    /\ UNCHANGED <<ui, startup, probe, svc, sec, intent, wanted, clicks>>

Operator == StartClick \/ StopClick \/ RefreshMobile

Window ==
    \/ StopSecurity \/ StopRuntime \/ StopJoined
    \/ StartupCompleted \/ RefreshStatus \/ AutostartRetry \/ ProbeCompleted

Startup ==
    \/ \E how \in {"started", "refused", "half", "undone"} : StartSecurity(how)
    \/ \E ok \in BOOLEAN : SpawnWorker(ok)
    \/ StopPrevious \/ RejectSettings \/ CheckGate \/ StartReturns \/ PostResult

Worker ==
    \/ WorkerFails \/ WorkerStarts
    \/ \E why \in {"stopped", "authorization"} : WorkerEnds(why)

Control == Connect \/ ChannelLost \/ ClaimIntent \/ LeaseCommitted \/ LeaseEnds

Next ==
    \/ Operator \/ Window \/ Startup \/ Worker \/ ProbeEnds \/ Control
    \/ WorkerEnds("failed")

Spec == Init /\ [][Next]_vars

\* Every thread keeps running; the operator, the phone and faults do as they
\* please.
FairSpec ==
    /\ Spec
    /\ WF_vars(Window) /\ WF_vars(Startup) /\ WF_vars(Worker) /\ WF_vars(ProbeEnds)

-----------------------------------------------------------------------------
(* Properties *)

Windows  == [pc : {"ready", "cancel", "stop", "cancel_runtime", "stop_runtime", "stop_join"},
             starting : BOOLEAN, wasRunning : BOOLEAN, whenAuthorized : BOOLEAN,
             deferred : BOOLEAN, retry : BOOLEAN, button : {"start", "stop", "none"}]
Startups == [pc : {"none", "checks", "stop_previous", "join_previous", "spawn",
                   "wait", "post", "posted"},
             current : BOOLEAN, result : {"none", "started", "authorization", "failed"}]
Probes   == [state : {"idle", "running", "finished", "posted"}, current : BOOLEAN]
Services == [stop : BOOLEAN, finished : BOOLEAN, running : BOOLEAN,
             worker : {"none", "starting", "running"},
             error : {"none", "authorization", "failed"}]
Channels == [listening : BOOLEAN, channel : BOOLEAN]
Intents  == [pending : BOOLEAN, claimed : BOOLEAN]

(* The values of the variables of the window and of the threads it starts.   *)
TypeOK ==
    /\ ui \in Windows /\ startup \in Startups /\ probe \in Probes
    /\ svc \in Services /\ sec \in Channels /\ intent \in Intents
    /\ gate \in BOOLEAN /\ wanted \in BOOLEAN /\ clicks \in 0 .. MaxClicks

(* The start that the window takes for its own is wanted: no timer, no late  *)
(* message and no authorisation that comes after a stop begins one. It says  *)
(* nothing of a start that a stop interrupts: stop_streamer does not wait    *)
(* for that one, HostRuntimeService::start resets stop_requested_ after it,  *)
(* and if a lease is committed meanwhile its worker streams although the     *)
(* operator has stopped.                                                     *)
OwnStartIsWanted == startup.pc # "none" /\ startup.current => wanted

(* Nothing is retried behind the operator's back: what the window would      *)
(* start by itself is cleared by every way of stopping.                      *)
NothingArmedAfterStop ==
    ui.pc = "ready" /\ ~wanted => ~ui.whenAuthorized /\ ~ui.retry /\ ~ui.deferred

(* A stop that did not interrupt a start has closed everything when the      *)
(* window is back: listener, channel, gate, intent and worker.               *)
StopClosesEverything ==
    (ui.pc = "stop_join" /\ startup.pc = "none" /\ svc.worker = "none")
        => ~sec.listening /\ ~sec.channel /\ ~gate /\ ~intent.pending

(* Every start that the window waits for comes back to it, whatever becomes  *)
(* of the worker, the gate and the operator's mind.                          *)
StartCompletes == ui.starting ~> ~ui.starting

(* A stop that waits for the worker ends, and leaves no worker.              *)
StopCompletes == ui.pc = "stop" ~> (ui.pc = "ready" /\ svc.worker = "none")

(* A stop stands for all that the window begins: the start it takes for its  *)
(* own is wanted, nothing is armed to start later, and a stop that waited    *)
(* for the worker leaves nothing of the Host open. A start that was already  *)
(* under way when the operator stopped is not covered.                       *)
StopStands ==
    /\ TypeOK
    /\ OwnStartIsWanted
    /\ NothingArmedAfterStop
    /\ StopClosesEverything

(* Start and stop both come back to the window, in whatever order the three  *)
(* threads take their steps.                                                 *)
RequestsComplete == StartCompletes /\ StopCompletes
=============================================================================
