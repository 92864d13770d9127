------------------------- MODULE HostLifecycleProofs -------------------------
(* Proofs about HostLifecycle, with and without acceptance mode and for any *)
(* number of clicks; and about HostPairing, for any number of phones,       *)
(* activations, generations and failures.                                   *)
EXTENDS HostLifecycle, HostPairing, FiniteSetTheorems, WellFoundedInduction, TLAPS

-----------------------------------------------------------------------------
(* The inductive invariant *)

(* The window waits exactly as long as there is a startup thread, which it  *)
(* takes for its own only while the start is wanted; by then the probe has  *)
(* ended or its message lies before the start's.                            *)
StartingPart ==
    /\ ui.starting <=> startup.pc # "none"
    /\ ui.starting /\ startup.current => wanted
    /\ ui.starting => probe.state \in {"idle", "posted"}

(* Whatever could begin a start by itself is wanted, and a start that waits *)
(* for the probe has a probe to wait for.                                   *)
ArmedPart ==
    /\ ui.whenAuthorized => wanted
    /\ ui.retry => wanted
    /\ ui.deferred => wanted /\ probe.state # "idle"
    /\ ui.deferred /\ ui.starting => probe.state = "posted"

(* While the window still believes in a stream, no other start can begin:   *)
(* its button is not shown, nothing is armed and no probe was cancelled.    *)
RunningPart ==
    ui.wasRunning =>
        /\ ~ui.starting /\ ui.button # "start"
        /\ ~ui.whenAuthorized /\ ~ui.retry /\ ~ui.deferred
        /\ probe.state = "idle" \/ probe.current
        /\ wanted \/ ui.pc \in {"stop", "stop_runtime", "stop_join"}

(* How far a stop has come.                                                 *)
StopPart ==
    /\ ui.pc \in {"cancel", "cancel_runtime"} => ui.starting
    /\ ui.pc \in {"stop", "stop_runtime", "stop_join"} => ~ui.starting
    /\ ui.pc \in {"stop_runtime", "stop_join"} => ~sec.listening /\ ~sec.channel /\ ~gate
    /\ ui.pc = "stop_join" => ~intent.pending

IndInv == TypeOK /\ StartingPart /\ ArmedPart /\ RunningPart /\ StopPart

-----------------------------------------------------------------------------

(* The values that the fields of the records may have.                      *)
LEMMA Fields ==
  TypeOK =>
    /\ ui.pc \in {"ready", "cancel", "stop", "cancel_runtime", "stop_runtime", "stop_join"}
    /\ ui.starting \in BOOLEAN /\ ui.wasRunning \in BOOLEAN /\ ui.whenAuthorized \in BOOLEAN
    /\ ui.deferred \in BOOLEAN /\ ui.retry \in BOOLEAN
    /\ ui.button \in {"start", "stop", "none"}
    /\ ui = [pc |-> ui.pc, starting |-> ui.starting, wasRunning |-> ui.wasRunning,
             whenAuthorized |-> ui.whenAuthorized, deferred |-> ui.deferred,
             retry |-> ui.retry, button |-> ui.button]
    /\ startup.pc \in {"none", "checks", "stop_previous", "join_previous", "spawn",
                        "wait", "post", "posted"}
    /\ startup.current \in BOOLEAN
    /\ startup.result \in {"none", "started", "authorization", "failed"}
    /\ startup = [pc |-> startup.pc, current |-> startup.current, result |-> startup.result]
    /\ probe.state \in {"idle", "running", "finished", "posted"}
    /\ probe.current \in BOOLEAN
    /\ probe = [state |-> probe.state, current |-> probe.current]
    /\ svc.stop \in BOOLEAN /\ svc.finished \in BOOLEAN /\ svc.running \in BOOLEAN
    /\ svc.worker \in {"none", "starting", "running"}
    /\ svc.error \in {"none", "authorization", "failed"}
    /\ svc = [stop |-> svc.stop, finished |-> svc.finished, running |-> svc.running,
              worker |-> svc.worker, error |-> svc.error]
    /\ sec.listening \in BOOLEAN /\ sec.channel \in BOOLEAN
    /\ sec = [listening |-> sec.listening, channel |-> sec.channel]
    /\ intent.pending \in BOOLEAN /\ intent.claimed \in BOOLEAN
    /\ intent = [pending |-> intent.pending, claimed |-> intent.claimed]
    /\ gate \in BOOLEAN /\ wanted \in BOOLEAN /\ clicks \in 0 .. MaxClicks
  BY DEF TypeOK, Windows, Startups, Probes, Services, Channels, Intents

(* A click is counted as long as the bound allows it.                       *)
LEMMA ClickCounted ==
  ASSUME TypeOK, clicks < MaxClicks
  PROVE  clicks + 1 \in 0 .. MaxClicks
  BY LifecycleAssumption DEF TypeOK

-----------------------------------------------------------------------------
(* The window's thread *)

(* A probe begins.                                                          *)
LEMMA RefreshMobileInv ==
  ASSUME IndInv, RefreshMobile
  PROVE  IndInv'
  <1>0. TypeOK
    BY DEF IndInv
  <1>1. /\ ~ui.starting
        /\ probe.state = "idle"
        /\ clicks < MaxClicks
        /\ clicks' = clicks + 1
        /\ wanted' = wanted
        /\ gate' = gate
        /\ UNCHANGED <<ui, startup, svc, sec, intent>>
    BY <1>0 DEF RefreshMobile
  <1>2. /\ probe' = [state |-> "running", current |-> TRUE]
    BY <1>0, Fields DEF RefreshMobile
  <1>3. /\ probe'.state = "running" /\ probe'.current = TRUE
    BY <1>2
  <1>4. /\ probe' \in Probes
    BY <1>0, <1>2, Fields, ClickCounted DEF Probes
  <1>5. TypeOK'
    BY <1>0, <1>1, <1>4, Fields, ClickCounted DEF TypeOK
  <1> QED
    BY <1>0, <1>1, <1>3, <1>5, Fields, ClickCounted
    DEF IndInv, StartingPart, ArmedPart, RunningPart, StopPart

(* A stop that waited returns.                                              *)
LEMMA StopJoinedInv ==
  ASSUME IndInv, StopJoined
  PROVE  IndInv'
  <1>0. TypeOK
    BY DEF IndInv
  <1>1. /\ ui.pc = "stop_join"
        /\ UNCHANGED <<gate, wanted, clicks>>
        /\ UNCHANGED <<startup, probe, svc, sec, intent>>
    BY <1>0 DEF StopJoined
  <1>2. /\ ui' = [pc |-> "ready", starting |-> ui.starting, wasRunning |-> FALSE,
                  whenAuthorized |-> ui.whenAuthorized, deferred |-> ui.deferred,
                  retry |-> ui.retry, button |-> "start"]
    BY <1>0, Fields DEF StopJoined
  <1>3. /\ ui'.pc = "ready" /\ ui'.starting = ui.starting /\ ui'.wasRunning = FALSE
        /\ ui'.whenAuthorized = ui.whenAuthorized /\ ui'.deferred = ui.deferred
        /\ ui'.retry = ui.retry /\ ui'.button = "start"
    BY <1>2
  <1>4. /\ ui' \in Windows
    BY <1>0, <1>2, Fields DEF Windows
  <1>5. TypeOK'
    BY <1>0, <1>1, <1>4, Fields DEF TypeOK
  <1> QED
    BY <1>0, <1>1, <1>3, <1>5, Fields
    DEF IndInv, StartingPart, ArmedPart, RunningPart, StopPart

(* A channel that closes leaves the intent, perhaps to be claimed again.     *)
LEMMA ChannelClosedKeeps ==
  ASSUME TypeOK
  PROVE  ChannelClosed(intent) \in Intents /\ ChannelClosed(intent).pending = intent.pending
  BY DEF TypeOK, ChannelClosed, Intents

(* An offered intent is an intent.                                           *)
LEMMA OfferKeeps ==
  ASSUME NEW i \in Intents
  PROVE  Offer(i) \in Intents
  BY DEF Offer, Intents

(* Listener, channel and gate are closed by a stop.                         *)
LEMMA StopSecurityInv ==
  ASSUME IndInv, StopSecurity
  PROVE  IndInv'
  <1>0. TypeOK
    BY DEF IndInv
  <1>1. CASE ui.pc = "cancel"
    <2>1. /\ intent' \in Intents
          /\ intent'.pending = intent.pending
          /\ gate' = FALSE
          /\ UNCHANGED <<wanted, clicks>>
          /\ UNCHANGED <<startup, probe, svc>>
      BY <1>0, <1>1, ChannelClosedKeeps DEF StopSecurity, StopSecurityServices
    <2>2. /\ ui' = [pc |-> "cancel_runtime", starting |-> ui.starting,
                    wasRunning |-> ui.wasRunning, whenAuthorized |-> ui.whenAuthorized,
                    deferred |-> ui.deferred, retry |-> ui.retry, button |-> ui.button]
          /\ sec' = [listening |-> FALSE, channel |-> FALSE]
      BY <1>0, <1>1, ChannelClosedKeeps, Fields DEF StopSecurity, StopSecurityServices
    <2>3. /\ ui'.pc = "cancel_runtime" /\ ui'.starting = ui.starting
          /\ ui'.wasRunning = ui.wasRunning /\ ui'.whenAuthorized = ui.whenAuthorized
          /\ ui'.deferred = ui.deferred /\ ui'.retry = ui.retry /\ ui'.button = ui.button
          /\ sec'.listening = FALSE /\ sec'.channel = FALSE
      BY <2>2
    <2>4. /\ ui' \in Windows
          /\ sec' \in Channels
      BY <1>0, <1>1, ChannelClosedKeeps, <2>2, Fields DEF Windows, Channels
    <2>5. TypeOK'
      BY <1>0, <1>1, ChannelClosedKeeps, <2>1, <2>4, Fields DEF TypeOK
    <2> QED
      BY <1>0, <1>1, ChannelClosedKeeps, <2>1, <2>3, <2>5, Fields
      DEF IndInv, StartingPart, ArmedPart, RunningPart, StopPart
  <1>2. CASE ui.pc = "stop"
    <2>1. /\ intent' \in Intents
          /\ intent'.pending = intent.pending
          /\ gate' = FALSE
          /\ UNCHANGED <<wanted, clicks>>
          /\ UNCHANGED <<startup, probe, svc>>
      BY <1>0, <1>2, ChannelClosedKeeps DEF StopSecurity, StopSecurityServices
    <2>2. /\ ui' = [pc |-> "stop_runtime", starting |-> ui.starting,
                    wasRunning |-> ui.wasRunning, whenAuthorized |-> ui.whenAuthorized,
                    deferred |-> ui.deferred, retry |-> ui.retry, button |-> ui.button]
          /\ sec' = [listening |-> FALSE, channel |-> FALSE]
      BY <1>0, <1>2, ChannelClosedKeeps, Fields DEF StopSecurity, StopSecurityServices
    <2>3. /\ ui'.pc = "stop_runtime" /\ ui'.starting = ui.starting
          /\ ui'.wasRunning = ui.wasRunning /\ ui'.whenAuthorized = ui.whenAuthorized
          /\ ui'.deferred = ui.deferred /\ ui'.retry = ui.retry /\ ui'.button = ui.button
          /\ sec'.listening = FALSE /\ sec'.channel = FALSE
      BY <2>2
    <2>4. /\ ui' \in Windows
          /\ sec' \in Channels
      BY <1>0, <1>2, ChannelClosedKeeps, <2>2, Fields DEF Windows, Channels
    <2>5. TypeOK'
      BY <1>0, <1>2, ChannelClosedKeeps, <2>1, <2>4, Fields DEF TypeOK
    <2> QED
      BY <1>0, <1>2, ChannelClosedKeeps, <2>1, <2>3, <2>5, Fields
      DEF IndInv, StartingPart, ArmedPart, RunningPart, StopPart
  <1> QED
    BY <1>1, <1>2, <1>0, Fields DEF StopSecurity

(* The runtime is told to stop; the window waits for it unless a start is under way.*)
LEMMA StopRuntimeInv ==
  ASSUME IndInv, StopRuntime
  PROVE  IndInv'
  <1>0. TypeOK
    BY DEF IndInv
  <1>1. CASE ui.pc = "cancel_runtime"
    <2>1. /\ gate' = FALSE
          /\ UNCHANGED <<wanted, clicks>>
          /\ UNCHANGED <<startup, probe, sec>>
      BY <1>0, <1>1 DEF StopRuntime, NoIntent
    <2>2. /\ ui' = [pc |-> "ready", starting |-> ui.starting, wasRunning |-> ui.wasRunning,
                    whenAuthorized |-> ui.whenAuthorized, deferred |-> ui.deferred,
                    retry |-> ui.retry, button |-> ui.button]
          /\ svc' = [stop |-> TRUE, finished |-> svc.finished, running |-> svc.running,
                     worker |-> svc.worker, error |-> svc.error]
          /\ intent' = [pending |-> FALSE, claimed |-> FALSE]
      BY <1>0, <1>1, Fields DEF StopRuntime, NoIntent
    <2>3. /\ ui'.pc = "ready" /\ ui'.starting = ui.starting
          /\ ui'.wasRunning = ui.wasRunning /\ ui'.whenAuthorized = ui.whenAuthorized
          /\ ui'.deferred = ui.deferred /\ ui'.retry = ui.retry /\ ui'.button = ui.button
          /\ svc'.stop = TRUE /\ svc'.finished = svc.finished /\ svc'.running = svc.running
          /\ svc'.worker = svc.worker /\ svc'.error = svc.error
          /\ intent'.pending = FALSE /\ intent'.claimed = FALSE
      BY <2>2
    <2>4. /\ ui' \in Windows
          /\ svc' \in Services
          /\ intent' \in Intents
      BY <1>0, <1>1, <2>2, Fields DEF Windows, Services, Intents
    <2>5. TypeOK'
      BY <1>0, <1>1, <2>1, <2>4, Fields DEF TypeOK
    <2> QED
      BY <1>0, <1>1, <2>1, <2>3, <2>5, Fields
      DEF IndInv, StartingPart, ArmedPart, RunningPart, StopPart
  <1>2. CASE ui.pc = "stop_runtime"
    <2>1. /\ gate' = FALSE
          /\ UNCHANGED <<wanted, clicks>>
          /\ UNCHANGED <<startup, probe, sec>>
      BY <1>0, <1>2 DEF StopRuntime, NoIntent
    <2>2. /\ ui' = [pc |-> "stop_join", starting |-> ui.starting,
                    wasRunning |-> ui.wasRunning, whenAuthorized |-> ui.whenAuthorized,
                    deferred |-> ui.deferred, retry |-> ui.retry, button |-> ui.button]
          /\ svc' = [stop |-> TRUE, finished |-> svc.finished, running |-> svc.running,
                     worker |-> svc.worker, error |-> svc.error]
          /\ intent' = [pending |-> FALSE, claimed |-> FALSE]
      BY <1>0, <1>2, Fields DEF StopRuntime, NoIntent
    <2>3. /\ ui'.pc = "stop_join" /\ ui'.starting = ui.starting
          /\ ui'.wasRunning = ui.wasRunning /\ ui'.whenAuthorized = ui.whenAuthorized
          /\ ui'.deferred = ui.deferred /\ ui'.retry = ui.retry /\ ui'.button = ui.button
          /\ svc'.stop = TRUE /\ svc'.finished = svc.finished /\ svc'.running = svc.running
          /\ svc'.worker = svc.worker /\ svc'.error = svc.error
          /\ intent'.pending = FALSE /\ intent'.claimed = FALSE
      BY <2>2
    <2>4. /\ ui' \in Windows
          /\ svc' \in Services
          /\ intent' \in Intents
      BY <1>0, <1>2, <2>2, Fields DEF Windows, Services, Intents
    <2>5. TypeOK'
      BY <1>0, <1>2, <2>1, <2>4, Fields DEF TypeOK
    <2> QED
      BY <1>0, <1>2, <2>1, <2>3, <2>5, Fields
      DEF IndInv, StartingPart, ArmedPart, RunningPart, StopPart
  <1> QED
    BY <1>1, <1>2, <1>0, Fields DEF StopRuntime

(* The operator stops: a deferred start is forgotten, another one is no longer current.*)
LEMMA StopClickInv ==
  ASSUME IndInv, StopClick
  PROVE  IndInv'
  <1>0. TypeOK
    BY DEF IndInv
  <1>1. CASE ui.deferred
    <2>1. /\ ui.pc = "ready"
          /\ ui.button = "stop"
          /\ clicks < MaxClicks
          /\ probe.state # "posted"
          /\ clicks' = clicks + 1
          /\ wanted' = FALSE
          /\ gate' = gate
          /\ UNCHANGED <<startup, svc, sec, intent>>
      BY <1>0, <1>1 DEF StopClick, StoppedFlags, NoPostedMessage
    <2>2. /\ ui' = [pc |-> ui.pc, starting |-> ui.starting, wasRunning |-> ui.wasRunning,
                    whenAuthorized |-> FALSE, deferred |-> FALSE, retry |-> FALSE,
                    button |-> "start"]
          /\ probe' = [state |-> probe.state, current |-> FALSE]
      BY <1>0, <1>1, Fields DEF StopClick, StoppedFlags, NoPostedMessage
    <2>3. /\ ui'.pc = ui.pc /\ ui'.starting = ui.starting /\ ui'.wasRunning = ui.wasRunning
          /\ ui'.whenAuthorized = FALSE /\ ui'.deferred = FALSE /\ ui'.retry = FALSE
          /\ ui'.button = "start"
          /\ probe'.state = probe.state /\ probe'.current = FALSE
      BY <2>2
    <2>4. /\ ui' \in Windows
          /\ probe' \in Probes
      BY <1>0, <1>1, <2>2, Fields, ClickCounted DEF Windows, Probes
    <2>5. TypeOK'
      BY <1>0, <1>1, <2>1, <2>4, Fields, ClickCounted DEF TypeOK
    <2> QED
      BY <1>0, <1>1, <2>1, <2>3, <2>5, Fields, ClickCounted
      DEF IndInv, StartingPart, ArmedPart, RunningPart, StopPart
  <1>2. CASE ~ui.deferred /\ ui.starting
    <2>1. /\ ui.pc = "ready"
          /\ ui.button = "stop"
          /\ clicks < MaxClicks
          /\ probe.state # "posted"
          /\ clicks' = clicks + 1
          /\ wanted' = FALSE
          /\ gate' = gate
          /\ UNCHANGED <<probe, svc, sec, intent>>
      BY <1>0, <1>2 DEF StopClick, StoppedFlags, NoPostedMessage
    <2>2. /\ ui' = [pc |-> "cancel", starting |-> ui.starting, wasRunning |-> ui.wasRunning,
                    whenAuthorized |-> FALSE, deferred |-> ui.deferred, retry |-> FALSE,
                    button |-> "none"]
          /\ startup' = [pc |-> startup.pc, current |-> FALSE, result |-> startup.result]
      BY <1>0, <1>2, Fields DEF StopClick, StoppedFlags, NoPostedMessage
    <2>3. /\ ui'.pc = "cancel" /\ ui'.starting = ui.starting
          /\ ui'.wasRunning = ui.wasRunning /\ ui'.whenAuthorized = FALSE
          /\ ui'.deferred = ui.deferred /\ ui'.retry = FALSE /\ ui'.button = "none"
          /\ startup'.pc = startup.pc /\ startup'.current = FALSE
          /\ startup'.result = startup.result
      BY <2>2
    <2>4. /\ ui' \in Windows
          /\ startup' \in Startups
      BY <1>0, <1>2, <2>2, Fields, ClickCounted DEF Windows, Startups
    <2>5. TypeOK'
      BY <1>0, <1>2, <2>1, <2>4, Fields, ClickCounted DEF TypeOK
    <2> QED
      BY <1>0, <1>2, <2>1, <2>3, <2>5, Fields, ClickCounted
      DEF IndInv, StartingPart, ArmedPart, RunningPart, StopPart
  <1>3. CASE ~ui.deferred /\ ~ui.starting
    <2>1. /\ ui.pc = "ready"
          /\ ui.button = "stop"
          /\ clicks < MaxClicks
          /\ probe.state # "posted"
          /\ clicks' = clicks + 1
          /\ wanted' = FALSE
          /\ gate' = gate
          /\ UNCHANGED <<probe, svc, sec, intent>>
      BY <1>0, <1>3 DEF StopClick, StoppedFlags, NoPostedMessage
    <2>2. /\ ui' = [pc |-> "stop", starting |-> ui.starting, wasRunning |-> ui.wasRunning,
                    whenAuthorized |-> FALSE, deferred |-> ui.deferred, retry |-> FALSE,
                    button |-> "none"]
          /\ startup' = [pc |-> startup.pc, current |-> FALSE, result |-> startup.result]
      BY <1>0, <1>3, Fields DEF StopClick, StoppedFlags, NoPostedMessage
    <2>3. /\ ui'.pc = "stop" /\ ui'.starting = ui.starting /\ ui'.wasRunning = ui.wasRunning
          /\ ui'.whenAuthorized = FALSE /\ ui'.deferred = ui.deferred /\ ui'.retry = FALSE
          /\ ui'.button = "none"
          /\ startup'.pc = startup.pc /\ startup'.current = FALSE
          /\ startup'.result = startup.result
      BY <2>2
    <2>4. /\ ui' \in Windows
          /\ startup' \in Startups
      BY <1>0, <1>3, <2>2, Fields, ClickCounted DEF Windows, Startups
    <2>5. TypeOK'
      BY <1>0, <1>3, <2>1, <2>4, Fields, ClickCounted DEF TypeOK
    <2> QED
      BY <1>0, <1>3, <2>1, <2>3, <2>5, Fields, ClickCounted
      DEF IndInv, StartingPart, ArmedPart, RunningPart, StopPart
  <1> QED
    BY <1>0, <1>1, <1>2, <1>3, Fields

(* The probe sets its flag, then posts its message.                         *)
LEMMA ProbeEndsInv ==
  ASSUME IndInv, ProbeEnds
  PROVE  IndInv'
  <1>0. TypeOK
    BY DEF IndInv
  <1>1. CASE probe.state = "running"
    <2>1. /\ UNCHANGED <<gate, wanted, clicks>>
          /\ UNCHANGED <<ui, startup, svc, sec, intent>>
      BY <1>0, <1>1 DEF ProbeEnds
    <2>2. /\ probe' = [state |-> "finished", current |-> probe.current]
      BY <1>0, <1>1, Fields DEF ProbeEnds
    <2>3. /\ probe'.state = "finished" /\ probe'.current = probe.current
      BY <2>2
    <2>4. /\ probe' \in Probes
      BY <1>0, <1>1, <2>2, Fields DEF Probes
    <2>5. TypeOK'
      BY <1>0, <1>1, <2>1, <2>4, Fields DEF TypeOK
    <2> QED
      BY <1>0, <1>1, <2>1, <2>3, <2>5, Fields
      DEF IndInv, StartingPart, ArmedPart, RunningPart, StopPart
  <1>2. CASE probe.state = "finished"
    <2>1. /\ UNCHANGED <<gate, wanted, clicks>>
          /\ UNCHANGED <<ui, startup, svc, sec, intent>>
      BY <1>0, <1>2 DEF ProbeEnds
    <2>2. /\ probe' = [state |-> "posted", current |-> probe.current]
      BY <1>0, <1>2, Fields DEF ProbeEnds
    <2>3. /\ probe'.state = "posted" /\ probe'.current = probe.current
      BY <2>2
    <2>4. /\ probe' \in Probes
      BY <1>0, <1>2, <2>2, Fields DEF Probes
    <2>5. TypeOK'
      BY <1>0, <1>2, <2>1, <2>4, Fields DEF TypeOK
    <2> QED
      BY <1>0, <1>2, <2>1, <2>3, <2>5, Fields
      DEF IndInv, StartingPart, ArmedPart, RunningPart, StopPart
  <1> QED
    BY <1>1, <1>2, <1>0, Fields DEF ProbeEnds

(* A start is launched, or the window keeps all but its retry and its button.*)
LEMMA LaunchOrReturnFacts ==
  ASSUME NEW u \in Windows, LaunchOrReturn(u)
  PROVE  /\ ui' \in Windows
         /\ ui'.pc = u.pc /\ ui'.wasRunning = u.wasRunning
         /\ ui'.whenAuthorized = u.whenAuthorized /\ ui'.deferred = u.deferred
         /\ \/ /\ ui'.starting = TRUE
               /\ startup' = [pc |-> "checks", current |-> TRUE, result |-> "none"]
               /\ startup' \in Startups
            \/ ui'.starting = u.starting /\ startup' = startup
  <1>1. CASE Launch(u)
    <2>1. startup' = [pc |-> "checks", current |-> TRUE, result |-> "none"]
      BY <1>1 DEF Launch
    <2>2. startup' \in Startups
      BY <2>1 DEF Startups
    <2> QED
      BY <1>1, <2>1, <2>2 DEF Launch, Windows
  <1>2. CASE ui' = u /\ UNCHANGED startup
    BY <1>2 DEF Windows
  <1>3. CASE ui' = [u EXCEPT !.retry = @ \/ Acceptance] /\ UNCHANGED startup
    <2>1. (u.retry \/ Acceptance) \in BOOLEAN
      BY LifecycleAssumption, Zenon DEF Windows
    <2> QED
      BY <1>3, <2>1 DEF Windows
  <1>4. CASE ui' = [u EXCEPT !.button = "start"] /\ UNCHANGED startup
    BY <1>4 DEF Windows
  <1> QED
    BY <1>1, <1>2, <1>3, <1>4 DEF LaunchOrReturn

(* The start that waited for the probe begins, or the window only notes its end.*)
LEMMA ProbeCompletedInv ==
  ASSUME IndInv, ProbeCompleted
  PROVE  IndInv'
  <1>0. TypeOK
    BY DEF IndInv
  <1>1. CASE ~probe.current /\ ui.deferred /\ ~ui.starting /\ ~svc.running
    <2> DEFINE u == [ui EXCEPT !.deferred = FALSE]
    <2>1. /\ probe.state = "posted"
          /\ ui.pc = "ready"
          /\ UNCHANGED <<gate, wanted, clicks>>
          /\ UNCHANGED <<svc, sec, intent>>
          /\ probe' = [state |-> "idle", current |-> FALSE]
          /\ LaunchOrReturn(u)
      BY <1>0, <1>1 DEF ProbeCompleted
    <2>2. /\ u \in Windows
          /\ u.pc = ui.pc /\ u.starting = FALSE /\ u.wasRunning = ui.wasRunning
          /\ u.whenAuthorized = ui.whenAuthorized /\ u.deferred = FALSE
      BY <1>0, <1>1, Fields DEF Windows
    <2> HIDE DEF u
    <2>3. /\ ui' \in Windows
          /\ ui'.pc = ui.pc /\ ui'.wasRunning = ui.wasRunning
          /\ ui'.whenAuthorized = ui.whenAuthorized /\ ui'.deferred = FALSE
          /\ \/ /\ ui'.starting = TRUE
                /\ startup' = [pc |-> "checks", current |-> TRUE, result |-> "none"]
                /\ startup' \in Startups
             \/ ui'.starting = FALSE /\ startup' = startup
      BY <2>1, <2>2, LaunchOrReturnFacts
    <2>7. startup' \in Startups
      BY <1>0, <2>3 DEF TypeOK
    <2>4. /\ startup' \in Startups
          /\ probe' \in Probes
          /\ probe'.state = "idle"
      BY <2>1, <2>7 DEF Probes
    <2>5. TypeOK'
      BY <1>0, <2>1, <2>3, <2>4, Fields DEF TypeOK
    <2>6. wanted /\ ~ui.wasRunning
      BY <1>1 DEF IndInv, ArmedPart, RunningPart
    <2> QED
      BY <1>0, <1>1, <2>1, <2>3, <2>4, <2>5, <2>6, Fields
      DEF IndInv, StartingPart, ArmedPart, RunningPart, StopPart
  <1>2. CASE ~(~probe.current /\ ui.deferred /\ ~ui.starting /\ ~svc.running)
    <2>1. /\ probe.state = "posted"
          /\ ui.pc = "ready"
          /\ UNCHANGED <<gate, wanted, clicks>>
          /\ UNCHANGED <<startup, svc, sec, intent>>
      BY <1>0, <1>2 DEF ProbeCompleted
    <2>2. /\ ui' = [pc |-> ui.pc, starting |-> ui.starting, wasRunning |-> ui.wasRunning,
                    whenAuthorized |-> ui.whenAuthorized, deferred |-> FALSE,
                    retry |-> ui.retry,
                    button |-> (IF probe.current \/ ui.deferred THEN ui.button ELSE IF svc.running THEN "stop" ELSE "start")]
          /\ probe' = [state |-> "idle", current |-> FALSE]
      BY <1>0, <1>2, Fields DEF ProbeCompleted
    <2>3. /\ ui'.pc = ui.pc /\ ui'.starting = ui.starting /\ ui'.wasRunning = ui.wasRunning
          /\ ui'.whenAuthorized = ui.whenAuthorized /\ ui'.deferred = FALSE
          /\ ui'.retry = ui.retry
          /\ ui'.button = (IF probe.current \/ ui.deferred THEN ui.button ELSE IF svc.running THEN "stop" ELSE "start")
          /\ probe'.state = "idle" /\ probe'.current = FALSE
      BY <2>2
    <2>4. /\ ui' \in Windows
          /\ probe' \in Probes
      BY <1>0, <1>2, <2>2, Fields DEF Windows, Probes
    <2>5. TypeOK'
      BY <1>0, <1>2, <2>1, <2>4, Fields DEF TypeOK
    <2> QED
      BY <1>0, <1>2, <2>1, <2>3, <2>5, Fields
      DEF IndInv, StartingPart, ArmedPart, RunningPart, StopPart
  <1> QED
    BY <1>1, <1>2

(* The window learns what became of the start.                              *)
LEMMA StartupCompletedInv ==
  ASSUME IndInv, StartupCompleted
  PROVE  IndInv'
  <1>0. TypeOK
    BY DEF IndInv
  <1>1. CASE ~startup.current
    <2>1. /\ ui.pc = "ready"
          /\ startup.pc = "posted"
          /\ probe.state # "posted"
          /\ UNCHANGED <<gate, wanted, clicks>>
          /\ UNCHANGED <<probe, svc, sec, intent>>
      BY <1>0, <1>1 DEF StartupCompleted, Completed
    <2>2. /\ ui' = [pc |-> ui.pc, starting |-> FALSE, wasRunning |-> ui.wasRunning,
                    whenAuthorized |-> ui.whenAuthorized, deferred |-> ui.deferred,
                    retry |-> ui.retry, button |-> "start"]
          /\ startup' = [pc |-> "none", current |-> startup.current, result |-> "none"]
      BY <1>0, <1>1, Fields DEF StartupCompleted, Completed
    <2>3. /\ ui'.pc = ui.pc /\ ui'.starting = FALSE /\ ui'.wasRunning = ui.wasRunning
          /\ ui'.whenAuthorized = ui.whenAuthorized /\ ui'.deferred = ui.deferred
          /\ ui'.retry = ui.retry /\ ui'.button = "start"
          /\ startup'.pc = "none" /\ startup'.current = startup.current
          /\ startup'.result = "none"
      BY <2>2
    <2>4. /\ ui' \in Windows
          /\ startup' \in Startups
      BY <1>0, <1>1, <2>2, Fields DEF Windows, Startups
    <2>5. TypeOK'
      BY <1>0, <1>1, <2>1, <2>4, Fields DEF TypeOK
    <2> QED
      BY <1>0, <1>1, <2>1, <2>3, <2>5, Fields
      DEF IndInv, StartingPart, ArmedPart, RunningPart, StopPart
  <1>2. CASE startup.current
    <2>1. /\ ui.pc = "ready"
          /\ startup.pc = "posted"
          /\ probe.state # "posted"
          /\ UNCHANGED <<gate, wanted, clicks>>
          /\ UNCHANGED <<probe, svc, sec, intent>>
      BY <1>0, <1>2 DEF StartupCompleted, Completed, IndInv, StartingPart
    <2>2. /\ ui' = [pc |-> ui.pc, starting |-> FALSE,
                    wasRunning |-> (startup.result = "started"),
                    whenAuthorized |-> (startup.result = "authorization"),
                    deferred |-> ui.deferred,
                    retry |-> (Acceptance /\ startup.result = "failed"),
                    button |-> (IF startup.result = "failed" THEN "start" ELSE "stop")]
          /\ startup' = [pc |-> "none", current |-> startup.current, result |-> "none"]
      BY <1>0, <1>2, Fields DEF StartupCompleted, Completed, IndInv, StartingPart
    <2>3. /\ ui'.pc = ui.pc /\ ui'.starting = FALSE
          /\ ui'.wasRunning = (startup.result = "started")
          /\ ui'.whenAuthorized = (startup.result = "authorization")
          /\ ui'.deferred = ui.deferred
          /\ ui'.retry = (Acceptance /\ startup.result = "failed")
          /\ ui'.button = (IF startup.result = "failed" THEN "start" ELSE "stop")
          /\ startup'.pc = "none" /\ startup'.current = startup.current
          /\ startup'.result = "none"
      BY <2>2
    <2>4. /\ ui' \in Windows
          /\ startup' \in Startups
      BY <1>0, <1>2, <2>2, Fields, LifecycleAssumption DEF Windows, Startups
    <2>5. TypeOK'
      BY <1>0, <1>2, <2>1, <2>4, Fields, LifecycleAssumption DEF TypeOK
    <2> QED
      BY <1>0, <1>2, <2>1, <2>3, <2>5, Fields, LifecycleAssumption
      DEF IndInv, StartingPart, ArmedPart, RunningPart, StopPart
  <1> QED
    BY <1>1, <1>2

(* start_streamer, called when a start is wanted and no stream is believed to run.*)
LEMMA StartStreamerInv ==
  ASSUME IndInv, NEW u \in [pc : {"ready"}, starting : BOOLEAN, wasRunning : BOOLEAN,
                   whenAuthorized : BOOLEAN, deferred : BOOLEAN, retry : BOOLEAN,
                   button : {"start", "stop", "none"}],
         u.starting = ui.starting, u.deferred = ui.deferred, ~u.wasRunning,
         u.whenAuthorized => ui.whenAuthorized, u.retry => ui.retry,
         NoPostedMessage, wanted', clicks' \in 0 .. MaxClicks,
         StartStreamer(u), UNCHANGED <<svc, sec, gate, intent>>
  PROVE  IndInv'
  <1>0. TypeOK
    BY DEF IndInv
  <1>9. /\ u.pc = "ready" /\ u.starting \in BOOLEAN /\ u.wasRunning = FALSE
        /\ u.whenAuthorized \in BOOLEAN /\ u.deferred \in BOOLEAN /\ u.retry \in BOOLEAN
        /\ u.button \in {"start", "stop", "none"}
        /\ u = [pc |-> u.pc, starting |-> u.starting, wasRunning |-> u.wasRunning, whenAuthorized |-> u.whenAuthorized, deferred |-> u.deferred, retry |-> u.retry, button |-> u.button]
        /\ probe.state # "posted" /\ wanted' = TRUE
    BY DEF NoPostedMessage
  <1>1. CASE ui.starting \/ svc.running
    <2>1. /\ UNCHANGED <<startup, probe, svc, sec, gate, intent>>
      BY <1>0, <1>1 DEF StartStreamer
    <2>2. /\ ui' = [pc |-> u.pc, starting |-> u.starting, wasRunning |-> u.wasRunning,
                    whenAuthorized |-> u.whenAuthorized, deferred |-> u.deferred,
                    retry |-> u.retry, button |-> u.button]
      BY <1>0, <1>1, <1>9, Fields DEF StartStreamer
    <2>3. /\ ui'.pc = u.pc /\ ui'.starting = u.starting /\ ui'.wasRunning = u.wasRunning
          /\ ui'.whenAuthorized = u.whenAuthorized /\ ui'.deferred = u.deferred
          /\ ui'.retry = u.retry /\ ui'.button = u.button
      BY <2>2
    <2>5. /\ ui' \in Windows
      BY <1>0, <1>1, <1>9, <2>2, Fields, LifecycleAssumption DEF Windows
    <2>4. TypeOK'
      BY <1>0, <1>1, <1>9, <2>1, <2>5, Fields DEF TypeOK
    <2> QED
      BY <1>0, <1>1, <1>9, <2>1, <2>3, <2>4, Fields
      DEF IndInv, StartingPart, ArmedPart, RunningPart, StopPart
  <1>2. CASE ~ui.starting /\ ~svc.running /\ probe.state = "running"
    <2>1. /\ UNCHANGED <<startup, svc, sec, gate, intent>>
      BY <1>0, <1>2 DEF StartStreamer
    <2>2. /\ ui' = [pc |-> u.pc, starting |-> u.starting, wasRunning |-> u.wasRunning,
                    whenAuthorized |-> u.whenAuthorized, deferred |-> TRUE,
                    retry |-> Acceptance, button |-> "stop"]
          /\ probe' = [state |-> probe.state, current |-> FALSE]
      BY <1>0, <1>2, <1>9, Fields DEF StartStreamer
    <2>3. /\ ui'.pc = u.pc /\ ui'.starting = u.starting /\ ui'.wasRunning = u.wasRunning
          /\ ui'.whenAuthorized = u.whenAuthorized /\ ui'.deferred = TRUE
          /\ ui'.retry = Acceptance /\ ui'.button = "stop"
          /\ probe'.state = probe.state /\ probe'.current = FALSE
      BY <2>2
    <2>5. /\ ui' \in Windows
          /\ probe' \in Probes
      BY <1>0, <1>2, <1>9, <2>2, Fields, LifecycleAssumption DEF Windows, Probes
    <2>4. TypeOK'
      BY <1>0, <1>2, <1>9, <2>1, <2>5, Fields DEF TypeOK
    <2> QED
      BY <1>0, <1>2, <1>9, <2>1, <2>3, <2>4, Fields
      DEF IndInv, StartingPart, ArmedPart, RunningPart, StopPart
  <1>3. CASE ~ui.starting /\ ~svc.running /\ probe.state # "running"
    <2>1. /\ UNCHANGED <<svc, sec, gate, intent>>
          /\ LaunchOrReturn(u)
          /\ probe' = IF probe.state = "finished" THEN [probe EXCEPT !.state = "posted"] ELSE probe
      BY <1>0, <1>3 DEF StartStreamer
    <2>2. u \in Windows
      BY <1>9 DEF Windows
    <2>3. /\ ui' \in Windows
          /\ ui'.pc = "ready" /\ ui'.wasRunning = FALSE
          /\ ui'.whenAuthorized = u.whenAuthorized /\ ui'.deferred = ui.deferred
          /\ \/ /\ ui'.starting = TRUE
                /\ startup' = [pc |-> "checks", current |-> TRUE, result |-> "none"]
                /\ startup' \in Startups
             \/ ui'.starting = ui.starting /\ startup' = startup
      BY <1>9, <2>1, <2>2, LaunchOrReturnFacts
    <2>6. /\ probe' \in Probes
          /\ probe'.state = (IF probe.state = "finished" THEN "posted" ELSE probe.state)
      BY <1>0, <2>1, Fields DEF TypeOK, Probes
    <2>5. startup' \in Startups
      BY <1>0, <2>3 DEF TypeOK
    <2>4. TypeOK'
      BY <1>0, <1>9, <2>1, <2>3, <2>5, <2>6, Fields DEF TypeOK
    <2> QED
      BY <1>0, <1>3, <1>9, <2>1, <2>3, <2>4, <2>6, Fields
      DEF IndInv, StartingPart, ArmedPart, RunningPart, StopPart
  <1> QED
    BY <1>0, <1>1, <1>2, <1>3, <1>9, Fields

(* The start button is shown only while no stream is believed to run.        *)
LEMMA StartClickInv ==
  ASSUME IndInv, StartClick
  PROVE  IndInv'
  <1>0. TypeOK
    BY DEF IndInv
  <1>1. /\ ui.pc = "ready" /\ ui.button = "start" /\ clicks < MaxClicks
        /\ clicks' = clicks + 1 /\ wanted' = TRUE /\ NoPostedMessage
        /\ StartStreamer(ui) /\ UNCHANGED <<svc, sec, gate, intent>>
    BY DEF StartClick
  <1>2. ~ui.wasRunning
    BY <1>1 DEF IndInv, RunningPart
  <1>3. ui \in [pc : {"ready"}, starting : BOOLEAN, wasRunning : BOOLEAN,
                 whenAuthorized : BOOLEAN, deferred : BOOLEAN, retry : BOOLEAN,
                 button : {"start", "stop", "none"}]
    BY <1>0, <1>1, Fields
  <1>4. clicks' \in 0 .. MaxClicks
    BY <1>0, <1>1, ClickCounted
  <1> QED
    BY <1>1, <1>2, <1>3, <1>4, StartStreamerInv

(* The automatic start waits for the authorisation of a start still wanted;  *)
(* a stream that ended without its lease is armed again.                     *)
LEMMA RefreshStatusInv ==
  ASSUME IndInv, RefreshStatus
  PROVE  IndInv'
  <1>0. TypeOK
    BY DEF IndInv
  <1>1. /\ ui.pc = "ready" /\ NoPostedMessage /\ ~svc.running
        /\ UNCHANGED <<svc, sec, gate, intent, wanted, clicks>>
    BY DEF RefreshStatus
  <1>2. CASE /\ ui.whenAuthorized /\ ~ui.starting /\ gate
             /\ StartStreamer([ui EXCEPT !.whenAuthorized = FALSE])
    <2>1. wanted /\ ~ui.wasRunning
      BY <1>2 DEF IndInv, ArmedPart, RunningPart
    <2> DEFINE u == [ui EXCEPT !.whenAuthorized = FALSE]
    <2>0. u = [ui EXCEPT !.whenAuthorized = FALSE]
      OBVIOUS
    <2> HIDE DEF u
    <2>2. u = [pc |-> ui.pc, starting |-> ui.starting, wasRunning |-> ui.wasRunning,
               whenAuthorized |-> FALSE, deferred |-> ui.deferred, retry |-> ui.retry,
               button |-> ui.button]
      BY <1>0, <2>0, Fields
    <2>3. /\ u \in [pc : {"ready"}, starting : BOOLEAN, wasRunning : BOOLEAN,
                 whenAuthorized : BOOLEAN, deferred : BOOLEAN, retry : BOOLEAN,
                 button : {"start", "stop", "none"}]
          /\ u.starting = ui.starting /\ u.deferred = ui.deferred /\ ~u.wasRunning
          /\ (u.whenAuthorized => ui.whenAuthorized) /\ (u.retry => ui.retry)
      BY <1>0, <1>1, <2>1, <2>2, Fields
    <2>4. wanted' /\ clicks' \in 0 .. MaxClicks
      BY <1>0, <1>1, <2>1, Fields
    <2>5. StartStreamer(u) /\ UNCHANGED <<svc, sec, gate, intent>>
      BY <1>1, <1>2 DEF u
    <2> QED
      BY <1>1, <2>3, <2>4, <2>5, StartStreamerInv
  <1>3. CASE /\ ui.wasRunning
             /\ ui' = [ui EXCEPT !.wasRunning = FALSE,
                                 !.whenAuthorized = (svc.error = "authorization"),
                                 !.button = IF svc.error = "authorization" THEN "stop" ELSE "start"]
             /\ UNCHANGED <<startup, probe>>
    <2>1. /\ UNCHANGED <<gate, wanted, clicks>>
          /\ UNCHANGED <<startup, probe, svc, sec, intent>>
      BY <1>1, <1>3
    <2>2. /\ ui' = [pc |-> ui.pc, starting |-> ui.starting, wasRunning |-> FALSE,
                    whenAuthorized |-> (svc.error = "authorization"),
                    deferred |-> ui.deferred, retry |-> ui.retry,
                    button |-> (IF svc.error = "authorization" THEN "stop" ELSE "start")]
      BY <1>0, <1>1, <1>3, Fields
    <2>3. /\ ui'.pc = ui.pc /\ ui'.starting = ui.starting /\ ui'.wasRunning = FALSE
          /\ ui'.whenAuthorized = (svc.error = "authorization")
          /\ ui'.deferred = ui.deferred /\ ui'.retry = ui.retry
          /\ ui'.button = (IF svc.error = "authorization" THEN "stop" ELSE "start")
      BY <2>2
    <2>4. /\ ui' \in Windows
      BY <1>0, <1>1, <1>3, <2>2, Fields DEF Windows
    <2>5. TypeOK'
      BY <1>0, <1>1, <1>3, <2>1, <2>4, Fields DEF TypeOK
    <2> QED
      BY <1>0, <1>1, <1>3, <2>1, <2>3, <2>5, Fields
      DEF IndInv, StartingPart, ArmedPart, RunningPart, StopPart
  <1> QED
    BY <1>2, <1>3 DEF RefreshStatus

(* What is retried was wanted when it failed and has not been stopped.       *)
LEMMA AutostartRetryInv ==
  ASSUME IndInv, AutostartRetry
  PROVE  IndInv'
  <1>0. TypeOK
    BY DEF IndInv
  <1>1. /\ ui.pc = "ready" /\ NoPostedMessage /\ ui.retry
        /\ UNCHANGED <<svc, sec, gate, intent, wanted, clicks>>
    BY DEF AutostartRetry
  <1>2. wanted /\ ~ui.wasRunning
    BY <1>1 DEF IndInv, ArmedPart, RunningPart
  <1> DEFINE u == [ui EXCEPT !.retry = FALSE]
  <1>4. StartStreamer(u) /\ u = [ui EXCEPT !.retry = FALSE]
    BY DEF AutostartRetry
  <1> HIDE DEF u
  <1>3. u = [pc |-> ui.pc, starting |-> ui.starting, wasRunning |-> ui.wasRunning,
             whenAuthorized |-> ui.whenAuthorized, deferred |-> ui.deferred, retry |-> FALSE,
             button |-> ui.button]
    BY <1>0, <1>4, Fields
  <1>5. /\ u \in [pc : {"ready"}, starting : BOOLEAN, wasRunning : BOOLEAN,
                 whenAuthorized : BOOLEAN, deferred : BOOLEAN, retry : BOOLEAN,
                 button : {"start", "stop", "none"}]
        /\ u.starting = ui.starting /\ u.deferred = ui.deferred /\ ~u.wasRunning
        /\ (u.whenAuthorized => ui.whenAuthorized) /\ (u.retry => ui.retry)
    BY <1>0, <1>1, <1>2, <1>3, Fields
  <1>6. wanted' /\ clicks' \in 0 .. MaxClicks
    BY <1>0, <1>1, <1>2, Fields
  <1> QED
    BY <1>1, <1>4, <1>5, <1>6, StartStreamerInv

-----------------------------------------------------------------------------
(* The other threads *)

(* A thread that leaves the window, the probe and the operator alone, neither *)
(* begins nor ends a start, and opens nothing once a stop has closed it.      *)
LEMMA BehindTheWindow ==
  ASSUME IndInv, UNCHANGED <<ui, probe, wanted, clicks>>,
         startup' \in Startups, svc' \in Services, sec' \in Channels,
         gate' \in BOOLEAN, intent' \in Intents,
         startup'.pc # "none" <=> startup.pc # "none",
         startup'.current = startup.current,
         startup.pc = "none" /\ ~sec.listening /\ ~sec.channel /\ ~gate
            => /\ ~sec'.listening /\ ~sec'.channel /\ ~gate'
               /\ ~intent.pending => ~intent'.pending
  PROVE  IndInv'
  <1>1. TypeOK /\ TypeOK'
    BY DEF IndInv, TypeOK
  <1> QED
    BY <1>1, Fields DEF IndInv, StartingPart, ArmedPart, RunningPart, StopPart

(* The facade's and the runtime's start.                                     *)
LEMMA StartupInv ==
  ASSUME IndInv, Startup
  PROVE  IndInv'
  <1>0. TypeOK
    BY DEF IndInv
  <1>1. ASSUME NEW how \in {"started", "refused", "half", "undone"}, StartSecurity(how)
        PROVE  IndInv'
    <2>1. /\ startup.pc = "checks"
          /\ UNCHANGED <<ui, probe, wanted, clicks, svc>>
      BY <1>1 DEF StartSecurity
    <2>2. /\ startup' \in Startups
          /\ startup'.pc # "none" /\ startup'.current = startup.current
      BY <1>0, <1>1, Fields DEF StartSecurity, TypeOK, Startups
    <2>3. sec' \in Channels /\ gate' \in BOOLEAN /\ intent' \in Intents
      <3>1. CASE how = "refused"
        BY <1>0, <1>1, <3>1 DEF StartSecurity, TypeOK
      <3>2. CASE how \in {"started", "half"}
        BY <1>0, <1>1, <3>2, Fields DEF StartSecurity, TypeOK, Channels
      <3>3. CASE how = "undone"
        <4>1. StopSecurityServices
          BY <1>1, <3>3 DEF StartSecurity
        <4> QED
          BY <1>0, <4>1, ChannelClosedKeeps DEF StopSecurityServices, Channels
      <3> QED
        BY <3>1, <3>2, <3>3
    <2> QED
      BY <1>0, <2>1, <2>2, <2>3, BehindTheWindow DEF TypeOK
  <1>2. CASE RejectSettings
    <2>1. /\ startup.pc = "join_previous"
          /\ UNCHANGED <<ui, probe, wanted, clicks, svc, sec, intent, gate>>
      BY <1>2 DEF RejectSettings
    <2>2. /\ startup' \in Startups
          /\ startup'.pc # "none" /\ startup'.current = startup.current
      BY <1>0, <1>2, Fields DEF RejectSettings, TypeOK, Startups
    <2> QED
      BY <1>0, <2>1, <2>2, BehindTheWindow DEF TypeOK
  <1>3. ASSUME NEW ok \in BOOLEAN, SpawnWorker(ok) PROVE IndInv'
    <2>1. /\ startup.pc = "spawn"
          /\ UNCHANGED <<ui, probe, wanted, clicks, sec, gate>>
      BY <1>3 DEF SpawnWorker, NoIntent
    <2>2. /\ startup' = [pc |-> "wait", current |-> startup.current,
                         result |-> startup.result]
          /\ svc' = [stop |-> FALSE, finished |-> ~ok, running |-> FALSE,
                     worker |-> (IF ok THEN "starting" ELSE "none"),
                     error |-> (IF ok THEN "none" ELSE "failed")]
          /\ intent' = [pending |-> FALSE, claimed |-> FALSE]
      BY <1>3, <1>0, Fields, <1>3 DEF SpawnWorker, NoIntent
    <2>3. /\ startup'.pc = "wait" /\ startup'.current = startup.current
          /\ startup'.result = startup.result
          /\ svc'.stop = FALSE /\ svc'.finished = ~ok /\ svc'.running = FALSE
          /\ svc'.worker = (IF ok THEN "starting" ELSE "none")
          /\ svc'.error = (IF ok THEN "none" ELSE "failed")
          /\ intent'.pending = FALSE /\ intent'.claimed = FALSE
      BY <2>2
    <2>4. /\ startup' \in Startups /\ svc' \in Services /\ sec' \in Channels
          /\ intent' \in Intents
          /\ gate' \in BOOLEAN
      BY <1>0, <1>1, <2>1, <2>2, Fields, <1>3 DEF TypeOK, Startups, Services, Intents
    <2> QED
      BY <1>0, <2>1, <2>3, <2>4, Fields, BehindTheWindow
  <1>4. CASE StopPrevious
    <2>1. /\ startup.pc = "stop_previous"
          /\ UNCHANGED <<ui, probe, wanted, clicks, sec, intent, gate>>
      BY <1>4 DEF StopPrevious
    <2>2. /\ startup' = [pc |-> "join_previous", current |-> startup.current,
                         result |-> startup.result]
          /\ svc' = [stop |-> TRUE, finished |-> svc.finished, running |-> svc.running,
                     worker |-> svc.worker, error |-> svc.error]
      BY <1>4, <1>0, Fields DEF StopPrevious
    <2>3. /\ startup'.pc = "join_previous" /\ startup'.current = startup.current
          /\ startup'.result = startup.result
          /\ svc'.stop = TRUE /\ svc'.finished = svc.finished /\ svc'.running = svc.running
          /\ svc'.worker = svc.worker /\ svc'.error = svc.error
      BY <2>2
    <2>4. /\ startup' \in Startups /\ svc' \in Services /\ sec' \in Channels
          /\ intent' \in Intents
          /\ gate' \in BOOLEAN
      BY <1>0, <1>1, <2>1, <2>2, Fields DEF TypeOK, Startups, Services
    <2> QED
      BY <1>0, <2>1, <2>3, <2>4, Fields, BehindTheWindow
  <1>5. CASE CheckGate /\ gate
    <2>1. /\ startup.pc = "join_previous"
          /\ UNCHANGED <<ui, probe, wanted, clicks, svc, sec, intent, gate>>
      BY <1>5 DEF CheckGate
    <2>2. /\ startup' = [pc |-> "spawn", current |-> startup.current,
                         result |-> startup.result]
      BY <1>5, <1>0, Fields DEF CheckGate
    <2>3. /\ startup'.pc = "spawn" /\ startup'.current = startup.current
          /\ startup'.result = startup.result
      BY <2>2
    <2>4. /\ startup' \in Startups /\ svc' \in Services /\ sec' \in Channels
          /\ intent' \in Intents
          /\ gate' \in BOOLEAN
      BY <1>0, <1>1, <2>1, <2>2, Fields DEF TypeOK, Startups
    <2> QED
      BY <1>0, <2>1, <2>3, <2>4, Fields, BehindTheWindow
  <1>6. CASE CheckGate /\ ~gate
    <2>1. /\ startup.pc = "join_previous"
          /\ intent' \in Intents
          /\ UNCHANGED <<ui, probe, wanted, clicks, svc, sec, gate>>
      BY <1>0, <1>6, OfferKeeps DEF CheckGate, TypeOK
    <2>2. /\ startup' = [pc |-> "post", current |-> startup.current,
                         result |-> "authorization"]
      BY <1>6, <1>0, Fields DEF CheckGate
    <2>3. /\ startup'.pc = "post" /\ startup'.current = startup.current
          /\ startup'.result = "authorization"
      BY <2>2
    <2>4. /\ startup' \in Startups /\ svc' \in Services /\ sec' \in Channels
          /\ intent' \in Intents
          /\ gate' \in BOOLEAN
      BY <1>0, <1>1, <2>1, <2>2, Fields DEF TypeOK, Startups
    <2> QED
      BY <1>0, <2>1, <2>3, <2>4, Fields, BehindTheWindow
  <1>7. CASE StartReturns
    <2>1. /\ startup.pc = "wait"
          /\ UNCHANGED <<ui, probe, wanted, clicks, svc, sec, intent, gate>>
      BY <1>7 DEF StartReturns
    <2>2. /\ startup' = [pc |-> "post", current |-> startup.current,
                         result |-> (IF svc.running THEN "started" ELSE IF svc.error = "authorization" THEN "authorization" ELSE "failed")]
      BY <1>7, <1>0, Fields DEF StartReturns
    <2>3. /\ startup'.pc = "post" /\ startup'.current = startup.current
          /\ startup'.result = (IF svc.running THEN "started" ELSE IF svc.error = "authorization" THEN "authorization" ELSE "failed")
      BY <2>2
    <2>4. /\ startup' \in Startups /\ svc' \in Services /\ sec' \in Channels
          /\ intent' \in Intents
          /\ gate' \in BOOLEAN
      BY <1>0, <1>1, <2>1, <2>2, Fields DEF TypeOK, Startups
    <2> QED
      BY <1>0, <2>1, <2>3, <2>4, Fields, BehindTheWindow
  <1>8. CASE PostResult
    <2>1. /\ startup.pc = "post"
          /\ UNCHANGED <<ui, probe, wanted, clicks, svc, sec, intent, gate>>
      BY <1>8 DEF PostResult
    <2>2. /\ startup' = [pc |-> "posted", current |-> startup.current,
                         result |-> startup.result]
      BY <1>8, <1>0, Fields DEF PostResult
    <2>3. /\ startup'.pc = "posted" /\ startup'.current = startup.current
          /\ startup'.result = startup.result
      BY <2>2
    <2>4. /\ startup' \in Startups /\ svc' \in Services /\ sec' \in Channels
          /\ intent' \in Intents
          /\ gate' \in BOOLEAN
      BY <1>0, <1>1, <2>1, <2>2, Fields DEF TypeOK, Startups
    <2> QED
      BY <1>0, <2>1, <2>3, <2>4, Fields, BehindTheWindow
  <1> QED
    BY <1>1, <1>2, <1>3, <1>4, <1>5, <1>6, <1>7, <1>8, <1>0, Fields DEF Startup

(* The worker only touches the runtime's flags.                              *)
LEMMA WorkerInv ==
  ASSUME IndInv, Worker \/ WorkerEnds("failed")
  PROVE  IndInv'
  <1>0. TypeOK
    BY DEF IndInv
  <1>1. CASE WorkerFails
    <2>1. /\ UNCHANGED <<ui, probe, wanted, clicks, startup, sec, intent, gate>>
      BY <1>1 DEF WorkerFails
    <2>2. /\ svc' = [stop |-> svc.stop, finished |-> TRUE, running |-> svc.running,
                     worker |-> "none", error |-> "failed"]
      BY <1>1, <1>0, Fields DEF WorkerFails
    <2>3. /\ svc'.stop = svc.stop /\ svc'.finished = TRUE /\ svc'.running = svc.running
          /\ svc'.worker = "none" /\ svc'.error = "failed"
      BY <2>2
    <2>4. /\ startup' \in Startups /\ svc' \in Services /\ sec' \in Channels
          /\ intent' \in Intents
          /\ gate' \in BOOLEAN
      BY <1>0, <1>1, <2>1, <2>2, Fields DEF TypeOK, Services
    <2> QED
      BY <1>0, <2>1, <2>3, <2>4, Fields, BehindTheWindow
  <1>2. CASE WorkerStarts
    <2>1. /\ UNCHANGED <<ui, probe, wanted, clicks, startup, sec, intent, gate>>
      BY <1>2 DEF WorkerStarts
    <2>2. /\ svc' = [stop |-> svc.stop, finished |-> TRUE, running |-> TRUE,
                     worker |-> "running", error |-> svc.error]
      BY <1>2, <1>0, Fields DEF WorkerStarts
    <2>3. /\ svc'.stop = svc.stop /\ svc'.finished = TRUE /\ svc'.running = TRUE
          /\ svc'.worker = "running" /\ svc'.error = svc.error
      BY <2>2
    <2>4. /\ startup' \in Startups /\ svc' \in Services /\ sec' \in Channels
          /\ intent' \in Intents
          /\ gate' \in BOOLEAN
      BY <1>0, <1>1, <2>1, <2>2, Fields DEF TypeOK, Services
    <2> QED
      BY <1>0, <2>1, <2>3, <2>4, Fields, BehindTheWindow
  <1>3. ASSUME NEW why \in {"stopped", "authorization", "failed"}, WorkerEnds(why)
        PROVE  IndInv'
    <2>1. /\ UNCHANGED <<ui, probe, wanted, clicks, startup, sec, intent, gate>>
      BY <1>3 DEF WorkerEnds
    <2>2. /\ svc' = [stop |-> svc.stop, finished |-> svc.finished, running |-> FALSE,
                     worker |-> "none",
                     error |-> (IF why = "stopped" THEN svc.error ELSE why)]
      BY <1>3, <1>0, Fields, <1>3 DEF WorkerEnds
    <2>3. /\ svc'.stop = svc.stop /\ svc'.finished = svc.finished /\ svc'.running = FALSE
          /\ svc'.worker = "none"
          /\ svc'.error = (IF why = "stopped" THEN svc.error ELSE why)
      BY <2>2
    <2>4. /\ startup' \in Startups /\ svc' \in Services /\ sec' \in Channels
          /\ intent' \in Intents
          /\ gate' \in BOOLEAN
      BY <1>0, <1>1, <2>1, <2>2, Fields, <1>3 DEF TypeOK, Services
    <2> QED
      BY <1>0, <2>1, <2>3, <2>4, Fields, BehindTheWindow
  <1> QED
    BY <1>1, <1>2, <1>3 DEF Worker

(* The channel opens only under a listener, the gate only under a channel.   *)
LEMMA ControlInv ==
  ASSUME IndInv, Control
  PROVE  IndInv'
  <1>0. TypeOK
    BY DEF IndInv
  <1>1. CASE Connect
    <2>1. /\ sec.listening
          /\ intent' \in Intents
          /\ UNCHANGED <<ui, probe, wanted, clicks, startup, svc>>
          /\ gate' = FALSE
      BY <1>0, <1>1, ChannelClosedKeeps, OfferKeeps DEF Connect
    <2>2. /\ sec' = [listening |-> sec.listening, channel |-> TRUE]
      BY <1>1, <1>0, Fields DEF Connect
    <2>3. /\ sec'.listening = sec.listening /\ sec'.channel = TRUE
      BY <2>2
    <2>4. /\ startup' \in Startups /\ svc' \in Services /\ sec' \in Channels
          /\ intent' \in Intents
          /\ gate' \in BOOLEAN
      BY <1>0, <1>1, <2>1, <2>2, Fields DEF TypeOK, Channels
    <2> QED
      BY <1>0, <2>1, <2>3, <2>4, Fields, BehindTheWindow
  <1>2. CASE ChannelLost
    <2>1. /\ sec.channel
          /\ intent' \in Intents
          /\ UNCHANGED <<ui, probe, wanted, clicks, startup, svc>>
          /\ gate' = FALSE
      BY <1>0, <1>2, ChannelClosedKeeps, OfferKeeps DEF ChannelLost
    <2>2. /\ sec' = [listening |-> sec.listening, channel |-> FALSE]
      BY <1>2, <1>0, Fields DEF ChannelLost
    <2>3. /\ sec'.listening = sec.listening /\ sec'.channel = FALSE
      BY <2>2
    <2>4. /\ startup' \in Startups /\ svc' \in Services /\ sec' \in Channels
          /\ intent' \in Intents
          /\ gate' \in BOOLEAN
      BY <1>0, <1>1, <2>1, <2>2, Fields DEF TypeOK, Channels
    <2> QED
      BY <1>0, <2>1, <2>3, <2>4, Fields, BehindTheWindow
  <1>3. CASE ClaimIntent
    <2>1. /\ sec.channel
          /\ UNCHANGED <<ui, probe, wanted, clicks, startup, svc, sec, gate>>
      BY <1>3 DEF ClaimIntent
    <2>2. /\ intent' = [pending |-> intent.pending, claimed |-> TRUE]
      BY <1>3, <1>0, Fields DEF ClaimIntent
    <2>3. /\ intent'.pending = intent.pending /\ intent'.claimed = TRUE
      BY <2>2
    <2>4. /\ startup' \in Startups /\ svc' \in Services /\ sec' \in Channels
          /\ intent' \in Intents
          /\ gate' \in BOOLEAN
      BY <1>0, <1>1, <2>1, <2>2, Fields DEF TypeOK, Intents
    <2> QED
      BY <1>0, <2>1, <2>3, <2>4, Fields, BehindTheWindow
  <1>4. CASE LeaseCommitted
    <2>1. /\ sec.channel
          /\ UNCHANGED <<ui, probe, wanted, clicks, startup, svc, sec>>
          /\ gate' = TRUE
      BY <1>4 DEF LeaseCommitted, NoIntent
    <2>2. /\ intent' = [pending |-> FALSE, claimed |-> FALSE]
      BY <1>4, <1>0, Fields DEF LeaseCommitted, NoIntent
    <2>3. /\ intent'.pending = FALSE /\ intent'.claimed = FALSE
      BY <2>2
    <2>4. /\ startup' \in Startups /\ svc' \in Services /\ sec' \in Channels
          /\ intent' \in Intents
          /\ gate' \in BOOLEAN
      BY <1>0, <1>1, <2>1, <2>2, Fields DEF TypeOK, Intents
    <2> QED
      BY <1>0, <2>1, <2>3, <2>4, Fields, BehindTheWindow
  <1>5. CASE LeaseEnds
    <2>1. gate /\ gate' = FALSE /\ UNCHANGED <<ui, startup, probe, svc, sec, intent, wanted, clicks>>
      BY <1>5 DEF LeaseEnds
    <2> QED
      BY <1>0, <2>1, BehindTheWindow DEF TypeOK
  <1> QED
    BY <1>1, <1>2, <1>3, <1>4, <1>5 DEF Control

-----------------------------------------------------------------------------

(* The invariant is kept by every step.                                      *)
LEMMA NextInv ==
  ASSUME IndInv, [Next]_vars
  PROVE  IndInv'
  <1>1. CASE UNCHANGED vars
    BY <1>1 DEF vars, IndInv, TypeOK, StartingPart, ArmedPart, RunningPart, StopPart
  <1>2. CASE Operator
    BY <1>2, StartClickInv, StopClickInv, RefreshMobileInv DEF Operator
  <1>3. CASE Window
    BY <1>3, StopSecurityInv, StopRuntimeInv, StopJoinedInv, StartupCompletedInv,
       RefreshStatusInv, AutostartRetryInv, ProbeCompletedInv DEF Window
  <1> QED
    BY <1>1, <1>2, <1>3, StartupInv, WorkerInv, ProbeEndsInv, ControlInv DEF Next

(* What the operator relies on follows from the invariant.                   *)
LEMMA InvStops ==
  ASSUME IndInv
  PROVE  StopStands
  <1>1. TypeOK
    BY DEF IndInv
  <1>2. OwnStartIsWanted
    BY <1>1, Fields DEF IndInv, StartingPart, OwnStartIsWanted
  <1>3. NothingArmedAfterStop
    BY <1>1, Fields DEF IndInv, ArmedPart, NothingArmedAfterStop
  <1>4. StopClosesEverything
    BY <1>1, Fields DEF IndInv, StopPart, StopClosesEverything
  <1> QED
    BY <1>1, <1>2, <1>3, <1>4 DEF StopStands

(* A stop stands for all that the window begins, with and without acceptance *)
(* mode and however often the operator starts and stops: the start that the  *)
(* window takes for its own is wanted, so that no timer, late message,       *)
(* finished probe or new authorisation begins one after a stop; nothing is   *)
(* left armed; and a stop that ended the runtime leaves no listener, channel *)
(* or lease. A start that was under way when the operator stopped is not     *)
(* covered: it may go on to a stream (host_runtime_service.cpp:1037).        *)
THEOREM StopStandsTheorem == Spec => []StopStands
  <1>1. ASSUME Init PROVE IndInv
    <2>1. TypeOK
      <3>1. ui \in Windows
        BY <1>1 DEF Init, Windows
      <3>4. startup \in Startups /\ probe \in Probes
        BY <1>1 DEF Init, Startups, Probes
      <3>2. svc \in Services
        BY <1>1 DEF Init, Services
      <3>5. sec \in Channels /\ intent \in Intents
        BY <1>1 DEF Init, NoIntent, Channels, Intents
      <3>3. gate \in BOOLEAN /\ wanted \in BOOLEAN
        BY <1>1, Zenon DEF Init
      <3>6. clicks = 0
        BY <1>1 DEF Init
      <3>7. clicks \in 0 .. MaxClicks
        BY <3>6, LifecycleAssumption
      <3> QED
        BY <3>1, <3>2, <3>3, <3>4, <3>5, <3>7 DEF TypeOK
    <2>2. /\ ui.pc = "ready" /\ ~ui.starting /\ ~ui.wasRunning /\ ~ui.whenAuthorized
          /\ ~ui.deferred /\ ~ui.retry /\ startup.pc = "none"
      BY <1>1 DEF Init
    <2> QED
      BY <2>1, <2>2 DEF IndInv, StartingPart, ArmedPart, RunningPart, StopPart
  <1>2. IndInv /\ [Next]_vars => IndInv'
    BY NextInv
  <1>3. IndInv => StopStands
    BY InvStops
  <1> QED
    BY <1>1, <1>2, <1>3, PTL DEF Spec

-----------------------------------------------------------------------------
(* The pairing of the Host: the inductive invariant                        *)

(* Phones and services agree on which pairs there have been: a pair is one *)
(* that the service activated, after both users confirmed its phone, and   *)
(* the current one is the only one of its revision.                        *)
IssuedAt(x, sv, ag) ==
    /\ x \in Pairs /\ x.rev <= sv.rev
    /\ <<"host", x.android>> \in ag /\ <<"android", x.android>> \in ag
    /\ x.rev = sv.rev /\ sv.pair # None => x = sv.pair

(* A generation the service allocated to a pair.                           *)
GrantedAt(x, g, sv, ag) ==
    /\ IssuedAt(x, sv, ag)
    /\ g \in Nat \ {0} /\ (x = sv.pair => g <= sv.hw)

(* A transcript whose generation the state file has, or has left behind.   *)
SettledAt(t, st) ==
    /\ t.gen \in Nat /\ t.proposal.pair \in Pairs /\ st # None
    /\ \/ st.pair.rev > t.proposal.pair.rev
       \/ st.pair = t.proposal.pair /\ st.hwm >= t.gen

(* The service: an unbound card can still be bound again, and a request    *)
(* has an allocation exactly when its challenge is consumed.               *)
ServerFields(sv) ==
    /\ sv = [pair |-> sv.pair, rev |-> sv.rev, hw |-> sv.hw, chal |-> sv.chal,
             pairOf |-> sv.pairOf, expired |-> sv.expired, alloc |-> sv.alloc]
    /\ sv.rev \in 0..MaxRev /\ sv.hw \in 0..MaxGen
    /\ sv.chal \in [Requests -> {"none", "issued", "consumed"}]
    /\ sv.pairOf \in [Requests -> Pairs \union {None}]
    /\ sv.alloc \in [Requests -> Allocations \union {None}]

ServerAt(sv, ag) ==
    /\ ServerFields(sv)
    /\ \/ sv.pair = None /\ sv.rev < MaxRev
       \/ IssuedAt(sv.pair, sv, ag) /\ sv.pair.rev = sv.rev
    /\ \A r \in Requests :
          /\ sv.pairOf[r] # None => IssuedAt(sv.pairOf[r], sv, ag)
          /\ sv.alloc[r] # None <=> sv.chal[r] = "consumed"
          /\ sv.alloc[r] # None /\ sv.pairOf[r] = sv.pair /\ sv.pair # None
                => sv.alloc[r].gen <= sv.hw

StoreAt(st, sv, ag) == st # None => st \in Bindings /\ IssuedAt(st.pair, sv, ag)

(* The worker of the control service: what it has accepted at each stage.  *)
ControlPlaces == {"accept", "challenge", "server", "credential", "confirmation",
                  "commit", "finish", "install"}

ControlFields(x) ==
    /\ x = [running |-> x.running, pair |-> x.pair, c |-> x.c]
    /\ x.c = [pc |-> x.c.pc, peer |-> x.c.peer, own |-> x.c.own, hn |-> x.c.hn, an |-> x.c.an,
              req |-> x.c.req, proposal |-> x.c.proposal, transcript |-> x.c.transcript]
    /\ x.running \in BOOLEAN /\ x.c.pc \in ControlPlaces /\ x.c.peer \in Phones \union {None}
    /\ x.c.pc = "accept" => x.c = IdleCoordinator
    /\ x.c.pc # "accept" => x.c.peer \in Phones

ControlAt(x, sv, ag) ==
    /\ ControlFields(x)
    /\ x.c.pc = "credential" => x.c.proposal.pair = x.c.own.pair
    /\ x.c.pc \in {"confirmation", "commit", "finish", "install"} =>
          /\ x.c.transcript.proposal.pair = x.c.own.pair
          /\ GrantedAt(x.c.own.pair, x.c.transcript.gen, sv, ag)

(* After the commit the generation is on the disk, and the pair still the  *)
(* stored one unless first pairing is replacing it.                        *)
Replacing(f) == f.c.pc \in {"stop", "join"}

CommittedAt(x, st, f) ==
    x.c.pc \in {"finish", "install"} =>
        /\ SettledAt(x.c.transcript, st)
        /\ st.pair = x.c.own.pair \/ Replacing(f)

SessionAt(se, st, f) ==
    se # None => /\ SettledAt(se.transcript, st)
                 /\ se.pair = st.pair \/ Replacing(f)

(* The worker of first pairing: its candidate is who it says, and what it  *)
(* stores was activated.                                                   *)
FirstPairPlaces == {"accept", "offer", "user", "confirmation", "proof", "result",
                    "persist", "stop", "join", "complete"}

FirstPairFields(f) ==
    /\ f = [running |-> f.running, c |-> f.c]
    /\ f.c = [pc |-> f.c.pc, peer |-> f.c.peer, android |-> f.c.android, rev |-> f.c.rev,
              binding |-> f.c.binding]
    /\ f.running \in BOOLEAN /\ f.c.pc \in FirstPairPlaces /\ f.c.peer \in Phones \union {None}
    /\ f.c.pc = "accept" => f.c = IdleFirstPair
    /\ f.c.pc # "accept" => f.c.peer \in Phones

FirstPairAt(f, sv, ag) ==
    /\ FirstPairFields(f)
    /\ f.c.pc \notin {"accept", "offer"} => f.c.android = f.c.peer
    /\ f.c.pc \in {"persist", "stop", "join", "complete"} =>
          f.c.binding \in Bindings /\ IssuedAt(f.c.binding.pair, sv, ag)

(* A phone: what it holds at each stage of its handshake.                  *)
PhoneFields(ph) ==
    /\ ph = [ent |-> ph.ent, fpc |-> ph.fpc, cpc |-> ph.cpc, an |-> ph.an, hn |-> ph.hn,
             challenge |-> ph.challenge, cred |-> ph.cred, transcript |-> ph.transcript,
             policy |-> ph.policy]
    /\ ph.policy = [pair |-> ph.policy.pair, req |-> ph.policy.req, expiry |-> ph.policy.expiry]
    /\ ph.policy.req \in Requests \union {None}
    /\ ph.cpc \notin {"idle", "confirmed"} =>
          ph.ent # None /\ ph.policy.req \in Requests /\ ph.an \in Nonces
    /\ ph.cpc \notin {"idle", "confirmed", "host_hello"} => ph.hn \in Nonces

PhoneAt(ph, p, sv, ag, st) ==
    /\ PhoneFields(ph)
    /\ ph.ent # None => IssuedAt(ph.ent, sv, ag)
    /\ ph.cpc = "confirmed" => SettledAt(ph.transcript, st)
    /\ ph.fpc \in {"confirmed", "activating"} => <<"host", p>> \in ag /\ <<"android", p>> \in ag

PhonesAt(f, sv, ag, st) ==
    /\ f = [p \in Phones |-> f[p]]
    /\ \A p \in Phones : PhoneAt(f[p], p, sv, ag, st)

(* What a record on a connection stands for.                               *)
ControlRecordAt(w, sv, ag, st) ==
    w # None =>
        /\ w.type = "host_hello" => w.body.hn \in Nonces
        /\ w.type = "pair_generation_credential" => GrantedAt(w.body.pair, w.body.gen, sv, ag)
        /\ w.type = "host_finished" => SettledAt(w.body.text.sha256, st)

FirstPairRecordAt(p, w, sv, ag) ==
    w # None =>
        /\ w.type = "android_first_pair_offer" => w.body.identity = p
        /\ w.type = "host_first_pair_confirmation" => <<"host", p>> \in ag
        /\ w.type = "activation_result" =>
              IssuedAt(Pair(w.body.ent, w.body.rev, w.body.revoc, HostKey, p), sv, ag)

ConnFields(c) ==
    /\ c = [s \in Ports |-> c[s]]
    /\ \A s \in Ports : c[s] = [p \in Phones |-> c[s][p]]
    /\ \A s \in Ports, p \in Phones :
          c[s][p] = [host |-> c[s][p].host, phone |-> c[s][p].phone, wire |-> c[s][p].wire]

WiresAt(c, sv, ag, st) ==
    \A p \in Phones :
        /\ ControlRecordAt(c["control"][p].wire, sv, ag, st)
        /\ FirstPairRecordAt(p, c["first_pair"][p].wire, sv, ag)

ConnAt(c, sv, ag, st) == ConnFields(c) /\ WiresAt(c, sv, ag, st)

(* The inductive invariant: how the service, the file, the two workers,    *)
(* the session, the phones and the connections stand to each other.        *)
PairingInv ==
    /\ hostUp \in BOOLEAN /\ faults \in 0..MaxFaults
    /\ ServerAt(srv, agreed)
    /\ StoreAt(store, srv, agreed)
    /\ ControlAt(ctl, srv, agreed) /\ CommittedAt(ctl, store, fp)
    /\ FirstPairAt(fp, srv, agreed)
    /\ SessionAt(session, store, fp)
    /\ PhonesAt(phone, srv, agreed, store)
    /\ ConnAt(conn, srv, agreed, store)

-----------------------------------------------------------------------------
(* Sets of numbers *)

(* A nonempty set of numbers has a least element.                          *)
LEMMA MinIn ==
    ASSUME NEW S, S \subseteq Nat, S # {}
    PROVE  Min(S) \in S
<1> DEFINE R == {ss \in Nat \X Nat : ss[1] < ss[2]}
<1>0. IsWellFoundedOn(R, Nat)
  BY NatLessThanWellFounded DEF OpToRel
<1> HIDE DEF R
<1>1. PICK m \in S : \A e \in S : ~ (<<e, m>> \in R)
  BY <1>0, WFMin
<1>2. \A e \in S : ~(e < m)
  BY <1>1 DEF R
<1>3. \E x \in S : \A y \in S : x <= y
  BY <1>2
<1> QED BY <1>3, Zenon DEF Min

(* A set with more than one element keeps one when another is taken out.   *)
LEMMA MoreThanOne ==
    ASSUME NEW S, Cardinality(S) > 1
    PROVE  S # {} /\ \A x : S \ {x} # {}
<1>1. S # {}
  BY FS_EmptySet
<1>2. ASSUME NEW x, S \ {x} = {} PROVE FALSE
  <2>1. S = {x}
    BY <1>1, <1>2
  <2> QED BY <2>1, FS_Singleton
<1> QED BY <1>1, <1>2

-----------------------------------------------------------------------------
(* What a step may do to the facts the parts rest on *)

(* The confirmations stay, the service keeps its pair, drops it or moves   *)
(* to the next revision, and the file only moves forward.                  *)
Forward ==
    /\ agreed \subseteq agreed'
    /\ \/ /\ srv'.rev = srv.rev /\ srv'.pair \in {srv.pair, None}
          /\ srv'.pair = srv.pair => srv'.hw >= srv.hw
       \/ srv'.rev = srv.rev + 1
    /\ \/ store' = store
       \/ store = None
       \/ store' \in Bindings /\ store'.pair = store.pair /\ store'.hwm >= store.hwm
       \/ store' \in Bindings /\ store'.pair.rev > store.pair.rev

(* What was issued, granted or settled before the step still is.           *)
Onward ==
    /\ agreed \subseteq agreed'
    /\ \A x : IssuedAt(x, srv, agreed) => IssuedAt(x, srv', agreed')
    /\ \A x, g : GrantedAt(x, g, srv, agreed) => GrantedAt(x, g, srv', agreed')
    /\ \A t : SettledAt(t, store) => SettledAt(t, store')

(* The fields of a pair.                                                   *)
LEMMA PairTypes ==
    ASSUME NEW x \in Pairs
    PROVE  x.rev \in 1..MaxRev /\ x.rev \in Nat /\ x.android \in Phones /\ x # None
BY NoneAssumption, PairingAssumption DEF Pairs

(* The fields of a binding.                                                *)
LEMMA BindingTypes ==
    ASSUME NEW b \in Bindings
    PROVE  /\ b.pair \in Pairs /\ b.hwm \in Nat /\ b # None
           /\ b = [pair |-> b.pair, hwm |-> b.hwm]
BY NoneAssumption DEF Bindings

(* What the service holds has its type.                                    *)
LEMMA ServerTypes ==
    ASSUME NEW sv, NEW ag, ServerAt(sv, ag)
    PROVE  /\ sv.rev \in Nat /\ sv.hw \in Nat
           /\ sv.pair = None \/ (sv.pair \in Pairs /\ sv.pair.rev = sv.rev)
<1>1. sv.rev \in 0..MaxRev /\ sv.hw \in 0..MaxGen
  BY Zenon DEF ServerAt, ServerFields
<1>2. sv.pair = None \/ (sv.pair \in Pairs /\ sv.pair.rev = sv.rev)
  BY DEF ServerAt, IssuedAt
<1> QED BY <1>1, <1>2, PairingAssumption

(* A step that only goes forward takes nothing back that was issued,       *)
(* granted or settled.                                                     *)
LEMMA ForwardIsOnward ==
    ASSUME ServerAt(srv, agreed), ServerAt(srv', agreed'), StoreAt(store, srv, agreed), Forward
    PROVE  Onward
<1>0. /\ srv.rev \in Nat /\ srv.hw \in Nat /\ srv'.rev \in Nat /\ srv'.hw \in Nat
      /\ srv'.pair = None \/ (srv'.pair \in Pairs /\ srv'.pair.rev = srv'.rev)
      /\ srv.pair = None \/ (srv.pair \in Pairs /\ srv.pair.rev = srv.rev)
  BY ServerTypes
<1>1. ASSUME NEW x, IssuedAt(x, srv, agreed) PROVE IssuedAt(x, srv', agreed')
  BY <1>0, <1>1, PairTypes DEF IssuedAt, Forward
<1>2. ASSUME NEW x, NEW g, GrantedAt(x, g, srv, agreed) PROVE GrantedAt(x, g, srv', agreed')
  <2>1. IssuedAt(x, srv', agreed')
    BY <1>1, <1>2 DEF GrantedAt
  <2>2. g \in Nat \ {0} /\ x \in Pairs /\ x # None /\ x.rev \in Nat /\ x.rev <= srv.rev
        /\ (x = srv.pair => g <= srv.hw)
    BY <1>2, PairTypes DEF GrantedAt, IssuedAt
  <2>3. x = srv'.pair => g <= srv'.hw
    BY <1>0, <2>2 DEF Forward
  <2> QED BY <2>1, <2>2, <2>3 DEF GrantedAt
<1>3. ASSUME NEW t, SettledAt(t, store) PROVE SettledAt(t, store')
  <2>1. /\ t.gen \in Nat /\ t.proposal.pair \in Pairs /\ t.proposal.pair.rev \in Nat
        /\ store \in Bindings /\ store.hwm \in Nat /\ store.pair.rev \in Nat
    BY <1>3, PairTypes, BindingTypes DEF SettledAt, StoreAt
  <2>2. store' \in Bindings => store'.hwm \in Nat /\ store'.pair.rev \in Nat /\ store' # None
    BY PairTypes, BindingTypes
  <2>3. store # None
    BY <1>3 DEF SettledAt
  <2>4. CASE store' = store
    BY <1>3, <2>4
  <2>5. CASE store' \in Bindings /\ store'.pair = store.pair /\ store'.hwm >= store.hwm
    BY <1>3, <2>1, <2>2, <2>5 DEF SettledAt
  <2>6. CASE store' \in Bindings /\ store'.pair.rev > store.pair.rev
    BY <1>3, <2>1, <2>2, <2>6 DEF SettledAt
  <2> QED BY <2>3, <2>4, <2>5, <2>6 DEF Forward
<1> QED BY <1>1, <1>2, <1>3 DEF Onward, Forward

(* Every part that such a step leaves alone still holds.                   *)
LEMMA PartsStay ==
    ASSUME Onward
    PROVE  /\ \A x : ControlAt(x, srv, agreed) => ControlAt(x, srv', agreed')
           /\ \A f : FirstPairAt(f, srv, agreed) => FirstPairAt(f, srv', agreed')
           /\ \A st : StoreAt(st, srv, agreed) => StoreAt(st, srv', agreed')
           /\ \A x : ControlRecordAt(x, srv, agreed, store) => ControlRecordAt(x, srv', agreed', store')
           /\ \A p, w : FirstPairRecordAt(p, w, srv, agreed) => FirstPairRecordAt(p, w, srv', agreed')
<1>1. ASSUME NEW x, ControlAt(x, srv, agreed) PROVE ControlAt(x, srv', agreed')
  BY <1>1 DEF ControlAt, Onward
<1>2. ASSUME NEW f, FirstPairAt(f, srv, agreed) PROVE FirstPairAt(f, srv', agreed')
  BY <1>2 DEF FirstPairAt, Onward
<1>3. ASSUME NEW st, StoreAt(st, srv, agreed) PROVE StoreAt(st, srv', agreed')
  BY <1>3 DEF StoreAt, Onward
<1>4. ASSUME NEW w, ControlRecordAt(w, srv, agreed, store)
      PROVE  ControlRecordAt(w, srv', agreed', store')
  BY <1>4 DEF ControlRecordAt, Onward
<1>5. ASSUME NEW p, NEW w, FirstPairRecordAt(p, w, srv, agreed)
      PROVE  FirstPairRecordAt(p, w, srv', agreed')
  BY <1>5 DEF FirstPairRecordAt, Onward
<1> QED BY <1>1, <1>2, <1>3, <1>4, <1>5

(* What a phone holds stays true while the service and the file go on.     *)
LEMMA PhonesStay ==
    ASSUME Onward
    PROVE  \A f : PhonesAt(f, srv, agreed, store) => PhonesAt(f, srv', agreed', store')
<1>1. ASSUME NEW ph, NEW p, PhoneAt(ph, p, srv, agreed, store)
      PROVE  PhoneAt(ph, p, srv', agreed', store')
  BY <1>1 DEF PhoneAt, Onward
<1> QED BY <1>1 DEF PhonesAt

(* So does what lies on the connections.                                   *)
LEMMA ConnStays ==
    ASSUME Onward
    PROVE  \A c : ConnAt(c, srv, agreed, store) => ConnAt(c, srv', agreed', store')
BY PartsStay DEF ConnAt, WiresAt

(* One phone changes.                                                      *)
LEMMA OnePhone ==
    ASSUME NEW f, NEW sv, NEW ag, NEW st, PhonesAt(f, sv, ag, st),
           NEW p \in Phones, NEW ph, PhoneAt(ph, p, sv, ag, st)
    PROVE  PhonesAt([f EXCEPT ![p] = ph], sv, ag, st)
BY DEF PhonesAt

(* One connection changes.                                                 *)
LEMMA OneConn ==
    ASSUME NEW c, NEW sv, NEW ag, NEW st, ConnAt(c, sv, ag, st),
           NEW s \in Ports, NEW p \in Phones, NEW h, NEW q, NEW w,
           s = "control" => ControlRecordAt(w, sv, ag, st),
           s = "first_pair" => FirstPairRecordAt(p, w, sv, ag)
    PROVE  ConnAt([c EXCEPT ![s][p] = [host |-> h, phone |-> q, wire |-> w]], sv, ag, st)
<1> DEFINE e == [host |-> h, phone |-> q, wire |-> w]
           d == [c EXCEPT ![s][p] = e]
<1>0. e = [host |-> e.host, phone |-> e.phone, wire |-> e.wire] /\ e.wire = w
  OBVIOUS
<1> HIDE DEF e
<1>1. /\ \A t \in Ports, o \in Phones : d[t][o] = IF t = s /\ o = p THEN e ELSE c[t][o]
      /\ d = [t \in Ports |-> d[t]]
      /\ \A t \in Ports : d[t] = [o \in Phones |-> d[t][o]]
  BY DEF ConnAt, ConnFields
<1> HIDE DEF d
<1>2. ConnFields(d)
  BY <1>0, <1>1 DEF ConnAt, ConnFields
<1>3. "control" \in Ports /\ "first_pair" \in Ports
  BY DEF Ports
<1>4. WiresAt(d, sv, ag, st)
  BY <1>0, <1>1, <1>3 DEF ConnAt, WiresAt
<1>5. ConnAt(d, sv, ag, st)
  BY <1>2, <1>4 DEF ConnAt
<1> QED BY <1>5 DEF d, e

(* An end reads or closes: what lies on the wire stays or goes.            *)
LEMMA NothingNew ==
    ASSUME NEW c, NEW sv, NEW ag, NEW st, ConnAt(c, sv, ag, st), NEW s \in Ports, NEW p \in Phones
    PROVE  /\ ConnAt([c EXCEPT ![s][p].wire = None], sv, ag, st)
           /\ ConnAt([c EXCEPT ![s][p] = NoConn], sv, ag, st)
           /\ \A h, q : ConnAt([c EXCEPT ![s][p] = [host |-> h, phone |-> q, wire |-> None]], sv, ag, st)
           /\ ConnAt([c EXCEPT ![s][p] = IF @.phone THEN [@ EXCEPT !.host = FALSE] ELSE NoConn],
                     sv, ag, st)
           /\ ConnAt([c EXCEPT ![s][p] = IF @.host THEN [@ EXCEPT !.phone = FALSE] ELSE NoConn],
                     sv, ag, st)
           /\ ConnAt([c EXCEPT ![s][p] = IF @.host THEN [@ EXCEPT !.wire = None] ELSE NoConn],
                     sv, ag, st)
<1> DEFINE x == c[s][p]
<1>0. c[s][p] = [host |-> x.host, phone |-> x.phone, wire |-> x.wire]
  BY DEF ConnAt, ConnFields
<1>1. /\ ControlRecordAt(None, sv, ag, st)
      /\ FirstPairRecordAt(p, None, sv, ag)
  BY DEF ControlRecordAt, FirstPairRecordAt
<1>2. /\ s = "control" => ControlRecordAt(x.wire, sv, ag, st)
      /\ s = "first_pair" => FirstPairRecordAt(p, x.wire, sv, ag)
  BY DEF ConnAt, WiresAt
<1>3. \A h, q : ConnAt([c EXCEPT ![s][p] = [host |-> h, phone |-> q, wire |-> None]], sv, ag, st)
  BY <1>1, OneConn
<1>4. \A h, q : ConnAt([c EXCEPT ![s][p] = [host |-> h, phone |-> q, wire |-> x.wire]], sv, ag, st)
  BY <1>2, OneConn
<1>5. ConnAt([c EXCEPT ![s][p] = NoConn], sv, ag, st)
  BY <1>3 DEF NoConn
<1>6. [x EXCEPT !.wire = None] = [host |-> x.host, phone |-> x.phone, wire |-> None]
  BY <1>0
<1>7. \A b : [x EXCEPT !.host = b] = [host |-> b, phone |-> x.phone, wire |-> x.wire]
  BY <1>0
<1>8. \A b : [x EXCEPT !.phone = b] = [host |-> x.host, phone |-> b, wire |-> x.wire]
  BY <1>0
<1>9. [c EXCEPT ![s][p].wire = None] = [c EXCEPT ![s][p] = [x EXCEPT !.wire = None]]
  OBVIOUS
<1>10. [x EXCEPT !.host = FALSE] = [host |-> FALSE, phone |-> x.phone, wire |-> x.wire]
  BY <1>7, Zenon
<1>11. [x EXCEPT !.phone = FALSE] = [host |-> x.host, phone |-> FALSE, wire |-> x.wire]
  BY <1>8, Zenon
<1>12. ConnAt([c EXCEPT ![s][p] = [x EXCEPT !.wire = None]], sv, ag, st)
  BY <1>3, <1>6, Zenon
<1>13. ConnAt([c EXCEPT ![s][p] = [x EXCEPT !.host = FALSE]], sv, ag, st)
  BY <1>4, <1>10, Zenon
<1>14. ConnAt([c EXCEPT ![s][p] = [x EXCEPT !.phone = FALSE]], sv, ag, st)
  BY <1>4, <1>11, Zenon
<1>15. ASSUME NEW b, NEW y, ConnAt([c EXCEPT ![s][p] = y], sv, ag, st)
       PROVE  ConnAt([c EXCEPT ![s][p] = IF b THEN y ELSE NoConn], sv, ag, st)
  BY <1>5, <1>15
<1> QED BY <1>3, <1>5, <1>9, <1>12, <1>13, <1>14, <1>15, Zenon

(* An end writes a record.                                                 *)
LEMMA Sends ==
    ASSUME NEW c, NEW sv, NEW ag, NEW st, ConnAt(c, sv, ag, st), NEW s \in Ports, NEW p \in Phones,
           NEW w, s = "control" => ControlRecordAt(w, sv, ag, st),
           s = "first_pair" => FirstPairRecordAt(p, w, sv, ag)
    PROVE  ConnAt([c EXCEPT ![s][p].wire = w], sv, ag, st)
<1> DEFINE x == c[s][p]
<1>0. c[s][p] = [host |-> x.host, phone |-> x.phone, wire |-> x.wire]
  BY DEF ConnAt, ConnFields
<1>1. [x EXCEPT !.wire = w] = [host |-> x.host, phone |-> x.phone, wire |-> w]
  BY <1>0
<1>2. [c EXCEPT ![s][p].wire = w] = [c EXCEPT ![s][p] = [x EXCEPT !.wire = w]]
  OBVIOUS
<1>3. ConnAt([c EXCEPT ![s][p] = [host |-> x.host, phone |-> x.phone, wire |-> w]], sv, ag, st)
  BY OneConn
<1> QED BY <1>1, <1>2, <1>3

(* The two services a phone connects to.                                   *)
LEMMA PortNames == "control" \in Ports /\ "first_pair" \in Ports
BY DEF Ports

(* Failures stay within their bound.                                       *)
LEMMA SpendBounded ==
    ASSUME faults \in 0..MaxFaults, NEW ok, Spend(ok)
    PROVE  faults' \in 0..MaxFaults
BY PairingAssumption DEF Spend

-----------------------------------------------------------------------------
(* The worker of the control service *)

(* A step of the worker alone.                                             *)
LEMMA WorkerAlone ==
    ASSUME PairingInv, UNCHANGED <<hostUp, store, fp, session, phone, srv, agreed>>,
           faults' \in 0..MaxFaults, ControlAt(ctl', srv, agreed), CommittedAt(ctl', store, fp),
           ConnAt(conn', srv, agreed, store)
    PROVE  PairingInv'
BY DEF PairingInv

(* A worker of the control service that waits, whatever its pair.          *)
LEMMA IdleControl ==
    ASSUME NEW b \in BOOLEAN, NEW y, NEW sv, NEW ag, NEW st, NEW f
    PROVE  /\ ControlAt([running |-> b, pair |-> y, c |-> IdleCoordinator], sv, ag)
           /\ CommittedAt([running |-> b, pair |-> y, c |-> IdleCoordinator], st, f)
BY DEF ControlAt, ControlFields, IdleCoordinator, ControlPlaces, CommittedAt

(* The candidate's stage and who it is.                                    *)
LEMMA Candidate ==
    ASSUME PairingInv, ctl.c.pc # "accept"
    PROVE  /\ ctl.c.peer \in Phones
           /\ ConnAt(conn, srv, agreed, store)
           /\ faults \in 0..MaxFaults
           /\ ControlFields(ctl)
           /\ ControlRecordAt(conn["control"][ctl.c.peer].wire, srv, agreed, store)
BY DEF PairingInv, ControlAt, ControlFields, ConnAt, WiresAt

(* The worker goes back to accept.                                         *)
LEMMA IdleAgain ==
    ASSUME PairingInv
    PROVE  /\ ControlAt([ctl EXCEPT !.c = IdleCoordinator], srv, agreed)
           /\ CommittedAt([ctl EXCEPT !.c = IdleCoordinator], store, fp)
<1>1. /\ ctl = [running |-> ctl.running, pair |-> ctl.pair, c |-> ctl.c]
      /\ ctl.running \in BOOLEAN
  BY DEF PairingInv, ControlAt, ControlFields
<1>2. [ctl EXCEPT !.c = IdleCoordinator] =
         [running |-> ctl.running, pair |-> ctl.pair, c |-> IdleCoordinator]
  BY <1>1
<1> QED BY <1>1, <1>2, IdleControl

(* A refusal burns the coordinator and closes the connection: the          *)
(* invariant stays.                                                        *)
LEMMA RefusesInv ==
    ASSUME PairingInv, ctl.c.pc # "accept", HostRefuses, faults' \in 0..MaxFaults
    PROVE  PairingInv'
<1>1. ctl' = [ctl EXCEPT !.c = IdleCoordinator] /\ conn' = HostCloses("control", ctl.c.peer)
      /\ UNCHANGED <<hostUp, store, fp, session, phone, srv, agreed>>
  BY DEF HostRefuses, Burn
<1>2. ConnAt(conn', srv, agreed, store)
  BY <1>1, Candidate, NothingNew, PortNames, Zenon DEF HostCloses
<1> QED BY <1>1, <1>2, IdleAgain, WorkerAlone

(* The worker moves to another stage and writes a record.                  *)
LEMMA AnswersInv ==
    ASSUME PairingInv, ctl.c.pc # "accept", faults' \in 0..MaxFaults, NEW type, NEW body,
           HostAnswers(type, body), ControlAt(ctl', srv, agreed), CommittedAt(ctl', store, fp),
           ControlRecordAt(EncodeRecord(type, body), srv, agreed, store)
    PROVE  PairingInv'
<1>1. conn' = [conn EXCEPT !["control"][ctl.c.peer].wire = EncodeRecord(type, body)]
      /\ UNCHANGED <<hostUp, store, fp, session, phone, srv, agreed>>
  BY DEF HostAnswers, Send
<1>2. ConnAt(conn', srv, agreed, store)
  BY <1>1, Candidate, Sends, PortNames
<1> QED BY <1>1, <1>2, WorkerAlone

(* The stages before a transcript claim nothing.                           *)
LEMMA EarlyStage ==
    ASSUME NEW x, ControlFields(x), NEW sv, NEW ag, NEW st, NEW f,
           \/ x.c.pc \in {"challenge", "server"}
           \/ x.c.pc = "credential" /\ x.c.proposal.pair = x.c.own.pair
    PROVE  ControlAt(x, sv, ag) /\ CommittedAt(x, st, f)
BY DEF ControlAt, CommittedAt

(* The request is signed by the phone of the pair: the worker waits for    *)
(* the challenge.                                                          *)
LEMMA AcceptAndroidChallengeRequestInv ==
    ASSUME PairingInv, NEW ok, AcceptAndroidChallengeRequest(ok)
    PROVE  PairingInv'
<1>1. ctl.c.pc = "challenge" /\ ctl.c.pc # "accept" /\ Spend(ok)
  BY DEF AcceptAndroidChallengeRequest, HostReads
<1>2. faults' \in 0..MaxFaults
  BY <1>1, Candidate, SpendBounded
<1>3. CASE HostRefuses
  BY <1>1, <1>2, <1>3, RefusesInv
<1>4. ASSUME NEW m, ctl' = [ctl EXCEPT !.c.pc = "server", !.c.an = m.an, !.c.req = m.request.req],
             HostAnswers("host_challenge_proof", SignedChallenge(m.request))
      PROVE  PairingInv'
  <2>1. ctl' = [running |-> ctl.running, pair |-> ctl.pair,
                c |-> [pc |-> "server", peer |-> ctl.c.peer, own |-> ctl.c.own, hn |-> ctl.c.hn,
                       an |-> m.an, req |-> m.request.req, proposal |-> ctl.c.proposal,
                       transcript |-> ctl.c.transcript]]
    BY <1>1, <1>4, Candidate DEF ControlFields
  <2>2. ControlFields(ctl') /\ ctl'.c.pc = "server"
    BY <1>1, <2>1, Candidate DEF ControlFields, ControlPlaces
  <2>3. ControlRecordAt(EncodeRecord("host_challenge_proof", SignedChallenge(m.request)),
                        srv, agreed, store)
    BY DEF ControlRecordAt, EncodeRecord
  <2> QED BY <1>1, <1>2, <1>4, <2>2, <2>3, EarlyStage, AnswersInv
<1> QED BY <1>3, <1>4 DEF AcceptAndroidChallengeRequest

(* The proposal is one of the pair the worker serves.                      *)
LEMMA AcceptServerChallengeInv ==
    ASSUME PairingInv, NEW ok, AcceptServerChallenge(ok)
    PROVE  PairingInv'
<1>1. ctl.c.pc = "server" /\ ctl.c.pc # "accept" /\ Spend(ok)
  BY DEF AcceptServerChallenge, HostReads
<1>2. faults' \in 0..MaxFaults
  BY <1>1, Candidate, SpendBounded
<1>3. CASE HostRefuses
  BY <1>1, <1>2, <1>3, RefusesInv
<1>4. ASSUME NEW body, ctl' = [ctl EXCEPT !.c.pc = "credential", !.c.proposal = HostProposal],
             HostAnswers("host_final_proof", body)
      PROVE  PairingInv'
  <2>1. ctl' = [running |-> ctl.running, pair |-> ctl.pair,
                c |-> [pc |-> "credential", peer |-> ctl.c.peer, own |-> ctl.c.own,
                       hn |-> ctl.c.hn, an |-> ctl.c.an, req |-> ctl.c.req,
                       proposal |-> HostProposal, transcript |-> ctl.c.transcript]]
    BY <1>1, <1>4, Candidate DEF ControlFields
  <2>2. HostProposal.pair = ctl.c.own.pair
    BY DEF HostProposal, ProposalFields
  <2>3. ControlFields(ctl') /\ ctl'.c.pc = "credential" /\ ctl'.c.proposal.pair = ctl'.c.own.pair
    BY <1>1, <2>1, <2>2, Candidate DEF ControlFields, ControlPlaces
  <2>4. ControlRecordAt(EncodeRecord("host_final_proof", body), srv, agreed, store)
    BY DEF ControlRecordAt, EncodeRecord
  <2> QED BY <1>1, <1>2, <1>4, <2>3, <2>4, EarlyStage, AnswersInv
<1> QED BY <1>3, <1>4 DEF AcceptServerChallenge

(* The generation accepted is one the service granted to that pair.        *)
LEMMA AcceptPairGenerationCredentialInv ==
    ASSUME PairingInv, NEW ok, AcceptPairGenerationCredential(ok)
    PROVE  PairingInv'
<1>1. ctl.c.pc = "credential" /\ ctl.c.pc # "accept" /\ Spend(ok)
      /\ Carries("control", ctl.c.peer, "pair_generation_credential")
  BY DEF AcceptPairGenerationCredential, HostReads
<1>2. faults' \in 0..MaxFaults
  BY <1>1, Candidate, SpendBounded
<1>3. CASE HostRefuses
  BY <1>1, <1>2, <1>3, RefusesInv
<1>4. ASSUME NEW cred, NEW t, cred = Wire("control", ctl.c.peer).body,
             t = Transcript(ctl.c.proposal, cred.gen), CredentialAccepted(cred),
             ctl' = [ctl EXCEPT !.c.pc = "confirmation", !.c.transcript = t,
                                !.c.proposal = None, !.c.req = None],
             HostAnswers("host_handshake_signature", SignedTranscript(t))
      PROVE  PairingInv'
  <2>1. ctl' = [running |-> ctl.running, pair |-> ctl.pair,
                c |-> [pc |-> "confirmation", peer |-> ctl.c.peer, own |-> ctl.c.own,
                       hn |-> ctl.c.hn, an |-> ctl.c.an, req |-> None,
                       proposal |-> None, transcript |-> t]]
    BY <1>1, <1>4, Candidate DEF ControlFields
  <2>2. GrantedAt(cred.pair, cred.gen, srv, agreed)
    BY <1>1, <1>4, Candidate DEF Carries, ParsesAs, Wire, ControlRecordAt
  <2>3. cred.pair = ctl.c.own.pair
    BY <1>4 DEF CredentialAccepted, ClaimsMatchExpected, Credential
  <2>4. t.proposal.pair = ctl.c.own.pair /\ t.gen = cred.gen
    BY <1>1, <1>4 DEF PairingInv, ControlAt, Transcript
  <2>5. ControlFields(ctl')
    BY <1>1, <2>1, Candidate DEF ControlFields, ControlPlaces
  <2>6. ControlAt(ctl', srv, agreed) /\ CommittedAt(ctl', store, fp)
    BY <2>1, <2>2, <2>3, <2>4, <2>5 DEF ControlAt, CommittedAt
  <2>7. ControlRecordAt(EncodeRecord("host_handshake_signature", SignedTranscript(t)),
                        srv, agreed, store)
    BY DEF ControlRecordAt, EncodeRecord
  <2> QED BY <1>1, <1>2, <1>4, <2>6, <2>7, AnswersInv
<1> QED BY <1>3, <1>4 DEF AcceptPairGenerationCredential

(* The confirmation leads to the commit, with the transcript it confirms.  *)
LEMMA AcceptAndroidHandshakeConfirmationInv ==
    ASSUME PairingInv, NEW ok, AcceptAndroidHandshakeConfirmation(ok)
    PROVE  PairingInv'
<1>1. ctl.c.pc = "confirmation" /\ ctl.c.pc # "accept" /\ Spend(ok)
  BY DEF AcceptAndroidHandshakeConfirmation, HostReads
<1>2. faults' \in 0..MaxFaults
  BY <1>1, Candidate, SpendBounded
<1>3. CASE HostRefuses
  BY <1>1, <1>2, <1>3, RefusesInv
<1>4. CASE /\ ctl' = [ctl EXCEPT !.c.pc = "commit"]
           /\ conn' = [conn EXCEPT !["control"][ctl.c.peer].wire = None]
           /\ UNCHANGED <<hostUp, store, fp, session, phone, srv, agreed>>
  <2>1. ctl' = [running |-> ctl.running, pair |-> ctl.pair, c |-> [ctl.c EXCEPT !.pc = "commit"]]
        /\ [ctl.c EXCEPT !.pc = "commit"] =
             [pc |-> "commit", peer |-> ctl.c.peer, own |-> ctl.c.own, hn |-> ctl.c.hn,
              an |-> ctl.c.an, req |-> ctl.c.req, proposal |-> ctl.c.proposal,
              transcript |-> ctl.c.transcript]
    BY <1>1, <1>4, Candidate DEF ControlFields
  <2>2. ControlFields(ctl')
    BY <1>1, <2>1, Candidate DEF ControlFields, ControlPlaces
  <2>3. ControlAt(ctl', srv, agreed) /\ CommittedAt(ctl', store, fp)
    BY <1>1, <2>1, <2>2 DEF PairingInv, ControlAt, CommittedAt
  <2>4. ConnAt(conn', srv, agreed, store)
    BY <1>1, <1>4, Candidate, NothingNew, PortNames
  <2> QED BY <1>2, <1>4, <2>3, <2>4, WorkerAlone
<1> QED BY <1>3, <1>4 DEF AcceptAndroidHandshakeConfirmation

(* commit_generation on the file: nothing, or the mark of its pair moves up.*)
LEMMA CommitGenerationResult ==
    ASSUME PairingInv, NEW ok \in BOOLEAN, ctl.c.pc = "commit", NEW r,
           r = CommitGeneration(store, ctl.c.own, ctl.c.transcript.gen, ok)
    PROVE  \/ r.done = FALSE /\ r.file = store
           \/ /\ r.done = TRUE
              /\ r.file = [pair |-> store.pair, hwm |-> ctl.c.transcript.gen]
              /\ store \in Bindings /\ store.pair = ctl.c.own.pair
              /\ ctl.c.transcript.gen > store.hwm
<1>1. store # None => store \in Bindings /\ store = [pair |-> store.pair, hwm |-> store.hwm]
  BY BindingTypes DEF PairingInv, StoreAt
<1>2. CASE /\ ValidBinding(ctl.c.own) /\ ctl.c.transcript.gen > 0
           /\ store # None /\ store.pair = ctl.c.own.pair
           /\ ctl.c.transcript.gen > store.hwm
  <2>1. r = [done |-> ok, file |-> PersistAtomically(store, [store EXCEPT !.hwm = ctl.c.transcript.gen], ok)]
    BY <1>2 DEF CommitGeneration
  <2>2. r.done = ok /\ r.file = IF ok THEN [store EXCEPT !.hwm = ctl.c.transcript.gen] ELSE store
    BY <2>1 DEF PersistAtomically
  <2>3. [store EXCEPT !.hwm = ctl.c.transcript.gen] = [pair |-> store.pair, hwm |-> ctl.c.transcript.gen]
    BY <1>1, <1>2
  <2> QED BY <1>1, <1>2, <2>2, <2>3
<1>3. CASE ~(/\ ValidBinding(ctl.c.own) /\ ctl.c.transcript.gen > 0
             /\ store # None /\ store.pair = ctl.c.own.pair
             /\ ctl.c.transcript.gen > store.hwm)
  BY <1>3 DEF CommitGeneration
<1> QED BY <1>2, <1>3

(* The state of the worker after its commit.                               *)
LEMMA GenerationCommitCases ==
    ASSUME PairingInv, NEW ok \in BOOLEAN, GenerationCommit(ok)
    PROVE  /\ ctl.c.pc = "commit" /\ faults' \in 0..MaxFaults
           /\ UNCHANGED <<hostUp, fp, session, phone, srv, agreed>>
           /\ \/ store' = store /\ HostRefuses
              \/ /\ store' = [pair |-> store.pair, hwm |-> ctl.c.transcript.gen]
                 /\ store \in Bindings /\ store.pair = ctl.c.own.pair
                 /\ ctl.c.transcript.gen > store.hwm
                 /\ ctl' = [ctl EXCEPT !.c.pc = "finish"] /\ UNCHANGED conn
<1>1. ctl.c.pc = "commit" /\ ctl.c.pc # "accept" /\ Spend(ok)
      /\ UNCHANGED <<hostUp, fp, session, phone, srv, agreed>>
  BY DEF GenerationCommit
<1>2. faults' \in 0..MaxFaults
  BY <1>1, Candidate, SpendBounded
<1>3. PICK r : /\ r = CommitGeneration(store, ctl.c.own, ctl.c.transcript.gen, ok)
               /\ store' = r.file
               /\ IF r.done THEN ctl' = [ctl EXCEPT !.c.pc = "finish"] /\ UNCHANGED conn ELSE Burn
  BY DEF GenerationCommit
<1>4. CASE r.done = FALSE /\ r.file = store
  BY <1>1, <1>2, <1>3, <1>4 DEF HostRefuses
<1>5. CASE /\ r.done = TRUE
           /\ r.file = [pair |-> store.pair, hwm |-> ctl.c.transcript.gen]
           /\ store \in Bindings /\ store.pair = ctl.c.own.pair
           /\ ctl.c.transcript.gen > store.hwm
  BY <1>1, <1>2, <1>3, <1>5
<1> QED BY <1>1, <1>3, <1>4, <1>5, CommitGenerationResult

(* After the commit the transcript is settled: the file holds its          *)
(* generation.                                                             *)
LEMMA GenerationCommitInv ==
    ASSUME PairingInv, NEW ok \in BOOLEAN, GenerationCommit(ok)
    PROVE  PairingInv'
<1>1. CASE store' = store /\ HostRefuses
  BY <1>1, GenerationCommitCases, RefusesInv
<1>2. CASE /\ store' = [pair |-> store.pair, hwm |-> ctl.c.transcript.gen]
           /\ store \in Bindings /\ store.pair = ctl.c.own.pair
           /\ ctl.c.transcript.gen > store.hwm
           /\ ctl' = [ctl EXCEPT !.c.pc = "finish"] /\ UNCHANGED conn
  <2>0. /\ ctl.c.pc = "commit" /\ ctl.c.pc # "accept" /\ faults' \in 0..MaxFaults
        /\ UNCHANGED <<hostUp, fp, session, phone, srv, agreed>>
    BY GenerationCommitCases
  <2>1. /\ ctl.c.transcript.proposal.pair = ctl.c.own.pair
        /\ ctl.c.transcript.gen \in Nat /\ ctl.c.own.pair \in Pairs
        /\ GrantedAt(ctl.c.own.pair, ctl.c.transcript.gen, srv, agreed)
    BY <2>0 DEF PairingInv, ControlAt, GrantedAt, IssuedAt
  <2>2. store.hwm \in Nat /\ store' \in Bindings /\ store'.hwm >= store.hwm /\ store'.pair = store.pair
        /\ store' # None /\ store'.hwm = ctl.c.transcript.gen
    BY <1>2, <2>1, BindingTypes DEF Bindings
  <2>3. Onward
    <3>1. ServerAt(srv, agreed) /\ ServerAt(srv', agreed') /\ StoreAt(store, srv, agreed)
      BY <2>0 DEF PairingInv
    <3>2. Forward
      BY <2>0, <2>2, <3>1, ServerTypes DEF Forward
    <3> QED BY <3>1, <3>2, ForwardIsOnward
  <2>4. StoreAt(store', srv', agreed')
    BY <1>2, <2>0, <2>1, <2>2 DEF StoreAt, GrantedAt
  <2>5. ctl' = [running |-> ctl.running, pair |-> ctl.pair, c |-> [ctl.c EXCEPT !.pc = "finish"]]
        /\ [ctl.c EXCEPT !.pc = "finish"] =
             [pc |-> "finish", peer |-> ctl.c.peer, own |-> ctl.c.own, hn |-> ctl.c.hn,
              an |-> ctl.c.an, req |-> ctl.c.req, proposal |-> ctl.c.proposal,
              transcript |-> ctl.c.transcript]
    BY <1>2, <2>0, Candidate DEF ControlFields
  <2>6. ControlFields(ctl')
    BY <2>0, <2>5, Candidate DEF ControlFields, ControlPlaces
  <2>7. ControlAt(ctl', srv', agreed')
    BY <2>0, <2>1, <2>5, <2>6 DEF ControlAt
  <2>8. SettledAt(ctl.c.transcript, store')
    BY <1>2, <2>1, <2>2 DEF SettledAt
  <2>9. CommittedAt(ctl', store', fp')
    BY <1>2, <2>2, <2>5, <2>8 DEF CommittedAt
  <2>10. SessionAt(session', store', fp')
    BY <2>0, <2>2, <2>3 DEF PairingInv, SessionAt, Onward
  <2>11. PhonesAt(phone', srv', agreed', store') /\ ConnAt(conn', srv', agreed', store')
    BY <1>2, <2>0, <2>3, PhonesStay, ConnStays DEF PairingInv
  <2> QED BY <2>0, <2>4, <2>7, <2>9, <2>10, <2>11 DEF PairingInv
<1> QED BY <1>1, <1>2, GenerationCommitCases

(* Host Finished leaves only for a settled transcript.                     *)
LEMMA WriteHostFinishedInv ==
    ASSUME PairingInv, NEW ok, WriteHostFinished(ok)
    PROVE  PairingInv'
<1>1. ctl.c.pc = "finish" /\ ctl.c.pc # "accept" /\ Spend(ok)
  BY DEF WriteHostFinished
<1>2. faults' \in 0..MaxFaults
  BY <1>1, Candidate, SpendBounded
<1>3. CASE HostRefuses
  BY <1>1, <1>2, <1>3, RefusesInv
<1>4. CASE /\ ctl' = [ctl EXCEPT !.c.pc = "install"]
           /\ HostAnswers("host_finished", FinishedMac("host", ctl.c.transcript))
  <2>1. ctl' = [running |-> ctl.running, pair |-> ctl.pair, c |-> [ctl.c EXCEPT !.pc = "install"]]
        /\ [ctl.c EXCEPT !.pc = "install"] =
             [pc |-> "install", peer |-> ctl.c.peer, own |-> ctl.c.own, hn |-> ctl.c.hn,
              an |-> ctl.c.an, req |-> ctl.c.req, proposal |-> ctl.c.proposal,
              transcript |-> ctl.c.transcript]
    BY <1>1, <1>4, Candidate DEF ControlFields
  <2>2. ControlFields(ctl')
    BY <1>1, <2>1, Candidate DEF ControlFields, ControlPlaces
  <2>3. ControlAt(ctl', srv, agreed) /\ CommittedAt(ctl', store, fp)
    BY <1>1, <2>1, <2>2 DEF PairingInv, ControlAt, CommittedAt
  <2>4. SettledAt(ctl.c.transcript, store)
    BY <1>1 DEF PairingInv, CommittedAt
  <2>5. ControlRecordAt(EncodeRecord("host_finished", FinishedMac("host", ctl.c.transcript)),
                        srv, agreed, store)
    BY <2>4 DEF ControlRecordAt, EncodeRecord, FinishedMac, Mac, Digest
  <2> QED BY <1>1, <1>2, <1>4, <2>3, <2>5, AnswersInv
<1> QED BY <1>3, <1>4 DEF WriteHostFinished

(* The session is installed with a settled transcript.                     *)
LEMMA SessionCommitInv ==
    ASSUME PairingInv, NEW ok, SessionCommit(ok)
    PROVE  PairingInv'
<1>1. /\ ctl.c.pc = "install" /\ ctl.c.pc # "accept" /\ Spend(ok)
      /\ conn' = HostCloses("control", ctl.c.peer)
      /\ UNCHANGED <<hostUp, store, fp, phone, srv, agreed>>
  BY DEF SessionCommit
<1>2. faults' \in 0..MaxFaults
  BY <1>1, Candidate, SpendBounded
<1>3. ConnAt(conn', srv, agreed, store)
  BY <1>1, Candidate, NothingNew, PortNames, Zenon DEF HostCloses
<1>4. CASE ctl' = [ctl EXCEPT !.c = IdleCoordinator] /\ UNCHANGED session
  BY <1>1, <1>2, <1>3, <1>4, IdleAgain, WorkerAlone
<1>5. CASE /\ session' = [pair |-> ctl.c.own.pair, gen |-> ctl.c.transcript.gen,
                          transcript |-> ctl.c.transcript]
           /\ ctl' = [ctl EXCEPT !.c = IdleCoordinator, !.pair.hwm = ctl.c.transcript.gen]
  <2>1. ctl' = [running |-> ctl.running, pair |-> [ctl.pair EXCEPT !.hwm = ctl.c.transcript.gen],
                c |-> IdleCoordinator] /\ ctl.running \in BOOLEAN
    BY <1>1, <1>5, Candidate DEF ControlFields
  <2>2. ControlAt(ctl', srv, agreed) /\ CommittedAt(ctl', store, fp)
    BY <2>1, IdleControl
  <2>3. SessionAt(session', store, fp)
    BY <1>1, <1>5 DEF PairingInv, CommittedAt, SessionAt
  <2> QED BY <1>1, <1>2, <1>3, <2>2, <2>3 DEF PairingInv
<1> QED BY <1>4, <1>5 DEF SessionCommit

(* A read that fails burns the coordinator.                                *)
LEMMA HostReadFailsInv ==
    ASSUME PairingInv, HostReadFails
    PROVE  PairingInv'
<1>1. ctl.c.pc # "accept" /\ HostRefuses /\ \E ok \in BOOLEAN : Spend(ok)
  BY DEF HostReadFails
<1>2. faults' \in 0..MaxFaults
  BY <1>1, Candidate, SpendBounded
<1> QED BY <1>1, <1>2, RefusesInv

-----------------------------------------------------------------------------
(* The service *)

(* The service goes on with the pair and the revision it has.              *)
SamePair(a, b) == b.rev = a.rev /\ b.pair = a.pair /\ b.hw >= a.hw

(* Which pairs are issued depends on the revision and the current pair     *)
(* alone.                                                                  *)
LEMMA IssuedSame ==
    ASSUME NEW a, NEW b, b.rev = a.rev, b.pair = a.pair
    PROVE  \A x, ag : IssuedAt(x, a, ag) <=> IssuedAt(x, b, ag)
BY DEF IssuedAt

(* The row of a challenge that is over may go.                             *)
LEMMA DiscardKeeps ==
    ASSUME NEW s, NEW ag, ServerAt(s, ag), NEW r \in Requests
    PROVE  ServerAt(Discard(s, r), ag) /\ SamePair(s, Discard(s, r))
<1>0. s.hw \in Nat
  BY ServerTypes
<1> QED
  <2> DEFINE n == Discard(s, r)
  <2>1. n = [s EXCEPT !.chal[r] = "none", !.pairOf[r] = None, !.alloc[r] = None, !.expired = @ \ {r}]
    BY DEF Discard
  <2> HIDE DEF n
  <2>2. n = [pair |-> s.pair, rev |-> s.rev, hw |-> s.hw, chal |-> [s.chal EXCEPT ![r] = "none"],
             pairOf |-> [s.pairOf EXCEPT ![r] = None], expired |-> s.expired \ {r},
             alloc |-> [s.alloc EXCEPT ![r] = None]]
    BY <2>1 DEF ServerAt, ServerFields
  <2>3. ServerFields(n) /\ SamePair(s, n)
    BY <1>0, <2>2 DEF ServerAt, ServerFields, SamePair
  <2>4. ASSUME NEW q \in Requests
        PROVE  /\ n.pairOf[q] = IF q = r THEN None ELSE s.pairOf[q]
               /\ n.alloc[q] = IF q = r THEN None ELSE s.alloc[q]
               /\ n.chal[q] = IF q = r THEN "none" ELSE s.chal[q]
    BY <2>2 DEF ServerAt, ServerFields
  <2>5. n.pair = s.pair /\ n.rev = s.rev /\ n.hw = s.hw
    BY <2>2
  <2>6. \A x : IssuedAt(x, s, ag) <=> IssuedAt(x, n, ag)
    BY <2>5, IssuedSame
  <2>7. ServerAt(n, ag)
    BY <2>3, <2>4, <2>5, <2>6 DEF ServerAt
  <2> QED BY <2>3, <2>7 DEF n

(* A phone that lets go of a request leaves the service with its pair.     *)
LEMMA ForgetKeeps ==
    ASSUME NEW s, NEW ag, ServerAt(s, ag), NEW r \in Requests \union {None}
    PROVE  ServerAt(Forget(s, r), ag) /\ SamePair(s, Forget(s, r))
<1>0. SamePair(s, s)
  BY ServerTypes DEF SamePair
<1>1. CASE r = None
  BY <1>0, <1>1 DEF Forget
<1>2. CASE r # None /\ Outstanding(s, r)
  BY <1>0, <1>2 DEF Forget
<1>3. CASE r # None /\ ~Outstanding(s, r)
  <2>1. r \in Requests /\ Forget(s, r) = Discard(s, r)
    BY <1>3 DEF Forget
  <2> QED BY <2>1, DiscardKeeps
<1> QED BY <1>1, <1>2, <1>3

(* A challenge is issued for the current pair only.                        *)
LEMMA IssueKeeps ==
    ASSUME ServerAt(srv, agreed), NEW request, request.req \in Requests, NEW h, NEW a,
           CanIssueChallenge(request, h, a), IssuedAt(request.pair, srv, agreed)
    PROVE  /\ ServerAt(IssueChallenge(request), agreed)
           /\ SamePair(srv, IssueChallenge(request))
<1> DEFINE n == IssueChallenge(request)
           r == request.req
<1>0. srv.hw \in Nat /\ request.pair \in Pairs /\ request.pair # None
  BY ServerTypes, PairTypes DEF IssuedAt
<1>1. n = [pair |-> srv.pair, rev |-> srv.rev, hw |-> srv.hw, chal |-> [srv.chal EXCEPT ![r] = "issued"],
           pairOf |-> [srv.pairOf EXCEPT ![r] = request.pair], expired |-> srv.expired,
           alloc |-> srv.alloc]
  <2>1. srv = [pair |-> srv.pair, rev |-> srv.rev, hw |-> srv.hw, chal |-> srv.chal,
               pairOf |-> srv.pairOf, expired |-> srv.expired, alloc |-> srv.alloc]
    BY Zenon DEF ServerAt, ServerFields
  <2>2. n = [srv EXCEPT !.chal[r] = "issued", !.pairOf[r] = request.pair]
    BY DEF IssueChallenge
  <2> HIDE DEF n, r
  <2> QED BY <2>1, <2>2
<1>2. srv.chal[r] # "consumed"
  BY DEF CanIssueChallenge
<1> HIDE DEF n
<1>3. ServerFields(n) /\ SamePair(srv, n)
  BY <1>0, <1>1 DEF ServerAt, ServerFields, SamePair
<1>4. ASSUME NEW q \in Requests
      PROVE  /\ n.pairOf[q] = IF q = r THEN request.pair ELSE srv.pairOf[q]
             /\ n.alloc[q] = srv.alloc[q]
             /\ n.chal[q] = IF q = r THEN "issued" ELSE srv.chal[q]
  BY <1>1 DEF ServerAt, ServerFields
<1>5. n.pair = srv.pair /\ n.rev = srv.rev /\ n.hw = srv.hw
  BY <1>1
<1>6. \A x : IssuedAt(x, srv, agreed) <=> IssuedAt(x, n, agreed)
  BY <1>5, IssuedSame
<1>7. ServerAt(n, agreed)
  BY <1>2, <1>3, <1>4, <1>5, <1>6 DEF ServerAt
<1> QED BY <1>3, <1>7 DEF n

(* An allocation is for the current pair and not above its mark.           *)
LEMMA AllocateKeeps ==
    ASSUME ServerAt(srv, agreed), NEW request, request.req \in Requests, NEW proposal \in Proposals,
           NEW h, NEW a, CanAllocate(request, proposal, h, a), IssuedAt(request.pair, srv, agreed)
    PROVE  /\ ServerAt(AllocateGeneration(request, proposal), agreed)
           /\ SamePair(srv, AllocateGeneration(request, proposal))
           /\ GrantedAt(request.pair, AllocateGeneration(request, proposal).alloc[request.req].gen,
                        AllocateGeneration(request, proposal), agreed)
<1> DEFINE n == AllocateGeneration(request, proposal)
           r == request.req
           e == [gen |-> srv.hw + 1, proposal |-> proposal]
<1>0. /\ srv.hw \in Nat /\ request.pair \in Pairs /\ request.pair # None
      /\ srv.pair = request.pair /\ srv.pairOf[r] = request.pair
  BY ServerTypes, PairTypes DEF IssuedAt, CanAllocate
<1>1. CASE srv.alloc[r] # None
  <2>1. n = srv
    BY <1>1 DEF AllocateGeneration
  <2>2. srv.alloc[r] \in Allocations
    BY <1>1 DEF ServerAt, ServerFields
  <2>3. srv.alloc[r].gen \in Nat \ {0} /\ srv.alloc[r].gen <= srv.hw
    <3>1. srv.alloc[r].gen \in 1..MaxGen
      BY <2>2 DEF Allocations
    <3>2. srv.alloc[r].gen <= srv.hw
      BY <1>0, <1>1 DEF ServerAt
    <3> QED BY <3>1, <3>2, PairingAssumption
  <2> QED BY <1>0, <2>1, <2>3 DEF SamePair, GrantedAt
<1>2. CASE srv.alloc[r] = None
  <2>0. srv.chal[r] = "issued" /\ srv.hw < MaxGen
    BY <1>2 DEF CanAllocate, ServerAt
  <2>1. n = [srv EXCEPT !.hw = @ + 1, !.chal[r] = "consumed", !.alloc[r] = e]
    BY <1>2 DEF AllocateGeneration
  <2>2. n = [pair |-> srv.pair, rev |-> srv.rev, hw |-> srv.hw + 1,
             chal |-> [srv.chal EXCEPT ![r] = "consumed"], pairOf |-> srv.pairOf,
             expired |-> srv.expired, alloc |-> [srv.alloc EXCEPT ![r] = e]]
    BY <2>1 DEF ServerAt, ServerFields
  <2>3. e \in Allocations /\ e # None /\ e.gen = srv.hw + 1
    BY <1>0, <2>0, NoneAssumption, PairingAssumption DEF Allocations
  <2> HIDE DEF n, e
  <2>4. ServerFields(n) /\ SamePair(srv, n)
    BY <1>0, <2>0, <2>2, <2>3, PairingAssumption DEF ServerAt, ServerFields, SamePair
  <2>5. ASSUME NEW q \in Requests
        PROVE  /\ n.pairOf[q] = srv.pairOf[q]
               /\ n.alloc[q] = IF q = r THEN e ELSE srv.alloc[q]
               /\ n.chal[q] = IF q = r THEN "consumed" ELSE srv.chal[q]
    BY <2>2 DEF ServerAt, ServerFields
  <2>6. n.pair = srv.pair /\ n.rev = srv.rev /\ n.hw = srv.hw + 1
    BY <2>2
  <2>7. \A x : IssuedAt(x, srv, agreed) <=> IssuedAt(x, n, agreed)
    BY <2>6, IssuedSame
  <2>8. ASSUME NEW q \in Requests, n.alloc[q] # None, n.pairOf[q] = n.pair, n.pair # None
        PROVE  n.alloc[q].gen <= n.hw
    <3>1. CASE q = r
      BY <1>0, <2>3, <2>5, <2>6, <3>1
    <3>2. CASE q # r
      <4>1. srv.alloc[q] # None /\ srv.pairOf[q] = srv.pair /\ srv.pair # None
        BY <2>5, <2>6, <2>8, <3>2
      <4>2. srv.alloc[q].gen <= srv.hw /\ srv.alloc[q] \in Allocations
        BY <4>1 DEF ServerAt, ServerFields
      <4>3. srv.alloc[q].gen \in Nat
        BY <4>2, PairingAssumption DEF Allocations
      <4> QED BY <1>0, <2>5, <2>6, <3>2, <4>2, <4>3
    <3> QED BY <3>1, <3>2
  <2>9. ServerAt(n, agreed)
    BY <2>3, <2>4, <2>5, <2>6, <2>7, <2>8 DEF ServerAt
  <2>10. GrantedAt(request.pair, n.alloc[r].gen, n, agreed)
    BY <1>0, <2>3, <2>5, <2>6, <2>7 DEF GrantedAt
  <2> QED BY <2>4, <2>9, <2>10 DEF n
<1> QED BY <1>1, <1>2

-----------------------------------------------------------------------------
(* A phone opens its channel *)

(* A step of a phone, or of the service for it.                            *)
LEMMA PhoneSide ==
    ASSUME PairingInv, UNCHANGED <<store, agreed>>, ServerAt(srv', agreed), SamePair(srv, srv')
    PROVE  Onward /\ PhonesAt(phone, srv', agreed, store) /\ ConnAt(conn, srv', agreed, store)
<1>1. /\ ServerAt(srv, agreed) /\ ServerAt(srv', agreed') /\ StoreAt(store, srv, agreed)
      /\ PhonesAt(phone, srv, agreed, store) /\ ConnAt(conn, srv, agreed, store)
  BY DEF PairingInv
<1>2. Onward
  <2>1. Forward
    BY DEF Forward, SamePair
  <2> QED BY <1>1, <2>1, ForwardIsOnward
<1>3. PhonesAt(phone, srv', agreed', store') /\ ConnAt(conn, srv', agreed', store')
  BY <1>1, <1>2, PhonesStay, ConnStays
<1> QED BY <1>2, <1>3

(* A step of one phone and the service, with the pair unchanged.           *)
LEMMA PhoneAlone ==
    ASSUME PairingInv, UNCHANGED <<hostUp, store, ctl, fp, session, agreed>>,
           faults' \in 0..MaxFaults, ServerAt(srv', agreed), SamePair(srv, srv'),
           PhonesAt(phone', srv', agreed, store), ConnAt(conn', srv', agreed, store)
    PROVE  PairingInv'
<1>1. Onward
  BY PhoneSide
<1>2. ControlAt(ctl', srv', agreed') /\ FirstPairAt(fp', srv', agreed') /\ StoreAt(store', srv', agreed')
  BY <1>1, PartsStay DEF PairingInv
<1> QED BY <1>2 DEF PairingInv

(* The record of a phone after clearHandshake.                             *)
LEMMA ClearedPhone ==
    ASSUME NEW ph, PhoneFields(ph)
    PROVE  ClearHandshake(ph) =
               [ent |-> ph.ent, fpc |-> ph.fpc, cpc |-> "idle", an |-> None, hn |-> None,
                challenge |-> FALSE, cred |-> None, transcript |-> None, policy |-> ph.policy]
<1>1. ph = [ent |-> ph.ent, fpc |-> ph.fpc, cpc |-> ph.cpc, an |-> ph.an, hn |-> ph.hn,
            challenge |-> ph.challenge, cred |-> ph.cred, transcript |-> ph.transcript,
            policy |-> ph.policy]
  BY Zenon DEF PhoneFields
<1>2. PICK e, f, c, a, h, g, d, t, o :
          ph = [ent |-> e, fpc |-> f, cpc |-> c, an |-> a, hn |-> h, challenge |-> g,
                cred |-> d, transcript |-> t, policy |-> o]
  BY <1>1, Zenon
<1>3. ph.ent = e /\ ph.fpc = f /\ ph.policy = o
  BY <1>2
<1>4. ASSUME NEW b
      PROVE  [ph EXCEPT !.cpc = "idle", !.an = None, !.hn = None, !.challenge = b,
                        !.cred = None, !.transcript = None]
             = [ent |-> e, fpc |-> f, cpc |-> "idle", an |-> None, hn |-> None,
                challenge |-> b, cred |-> None, transcript |-> None, policy |-> o]
  <2> DEFINE x1 == [ph EXCEPT !.cpc = "idle"]
             x2 == [x1 EXCEPT !.an = None]
             x3 == [x2 EXCEPT !.hn = None]
             x4 == [x3 EXCEPT !.challenge = b]
             x5 == [x4 EXCEPT !.cred = None]
             x6 == [x5 EXCEPT !.transcript = None]
  <2>0. [ph EXCEPT !.cpc = "idle", !.an = None, !.hn = None, !.challenge = b,
                   !.cred = None, !.transcript = None] = x6
    OBVIOUS
  <2> HIDE DEF x1, x2, x3, x4, x5, x6
  <2>1. x1 = [ent |-> e, fpc |-> f, cpc |-> "idle", an |-> a, hn |-> h,
                 challenge |-> g, cred |-> d, transcript |-> t, policy |-> o]
    BY <1>2 DEF x1
  <2>2. x2 = [ent |-> e, fpc |-> f, cpc |-> "idle", an |-> None, hn |-> h,
                 challenge |-> g, cred |-> d, transcript |-> t, policy |-> o]
    BY <2>1 DEF x2
  <2>3. x3 = [ent |-> e, fpc |-> f, cpc |-> "idle", an |-> None, hn |-> None,
                 challenge |-> g, cred |-> d, transcript |-> t, policy |-> o]
    BY <2>2 DEF x3
  <2>4. x4 = [ent |-> e, fpc |-> f, cpc |-> "idle", an |-> None, hn |-> None,
                 challenge |-> b, cred |-> d, transcript |-> t, policy |-> o]
    BY <2>3 DEF x4
  <2>5. x5 = [ent |-> e, fpc |-> f, cpc |-> "idle", an |-> None, hn |-> None,
                 challenge |-> b, cred |-> None, transcript |-> t, policy |-> o]
    BY <2>4 DEF x5
  <2>6. x6 = [ent |-> e, fpc |-> f, cpc |-> "idle", an |-> None, hn |-> None,
                 challenge |-> b, cred |-> None, transcript |-> None, policy |-> o]
    BY <2>5 DEF x6
  <2> QED BY <2>0, <2>6
<1> QED BY <1>3, <1>4, Zenon DEF ClearHandshake

(* A phone without a handshake, whatever it remembers of its request.      *)
LEMMA IdlePhone ==
    ASSUME NEW ph, NEW p, NEW sv, NEW ag, NEW st, PhoneAt(ph, p, sv, ag, st), NEW po,
           po = [pair |-> po.pair, req |-> po.req, expiry |-> po.expiry],
           po.req \in Requests \union {None}, NEW c
    PROVE  PhoneAt([ent |-> ph.ent, fpc |-> ph.fpc, cpc |-> "idle", an |-> None, hn |-> None,
                    challenge |-> c, cred |-> None, transcript |-> None, policy |-> po],
                   p, sv, ag, st)
BY DEF PhoneAt, PhoneFields

(* An attempt that failed leaves a phone that holds nothing of it.         *)
LEMMA FailedPhone ==
    ASSUME NEW ph, NEW p, NEW sv, NEW ag, NEW st, PhoneAt(ph, p, sv, ag, st)
    PROVE  PhoneAt(PhoneFailed(ph), p, sv, ag, st)
<1>0. PhoneFields(ph)
  BY DEF PhoneAt
<1>1. /\ ph.policy = [pair |-> ph.policy.pair, req |-> ph.policy.req, expiry |-> ph.policy.expiry]
      /\ ph.policy.req \in Requests \union {None}
  BY <1>0, Zenon DEF PhoneFields
<1> DEFINE po == PolicyFailed(ph)
           x == ClearHandshake(ph)
<1>2. po = [pair |-> po.pair, req |-> po.req, expiry |-> po.expiry] /\ po.req \in Requests \union {None}
  <2>1. CASE po = IdlePolicy
    BY <2>1 DEF IdlePolicy
  <2>2. CASE po = [ph.policy EXCEPT !.expiry = TRUE]
    BY <1>1, <2>2
  <2> QED BY <2>1, <2>2 DEF PolicyFailed
<1>3. PhoneFailed(ph) = [x EXCEPT !.policy = po]
  BY DEF PhoneFailed
<1> HIDE DEF po
<1>4. PICK c : x = [ent |-> ph.ent, fpc |-> ph.fpc, cpc |-> "idle", an |-> None, hn |-> None,
                    challenge |-> c, cred |-> None, transcript |-> None, policy |-> ph.policy]
  BY <1>0, ClearedPhone
<1> HIDE DEF x
<1>5. PhoneFailed(ph) = [ent |-> ph.ent, fpc |-> ph.fpc, cpc |-> "idle", an |-> None, hn |-> None,
                         challenge |-> c, cred |-> None, transcript |-> None, policy |-> po]
  BY <1>3, <1>4
<1> QED BY <1>2, <1>5, IdlePhone

(* The request the policy lets go of leaves the service as it was.         *)
LEMMA DroppedKeeps ==
    ASSUME PairingInv, NEW p \in Phones, NEW s, ServerAt(s, agreed), SamePair(srv, s)
    PROVE  ServerAt(Dropped(p, s), agreed) /\ SamePair(srv, Dropped(p, s))
<1>1. phone[p].policy.req \in Requests \union {None}
  BY DEF PairingInv, PhonesAt, PhoneAt, PhoneFields
<1>2. ServerAt(Forget(s, phone[p].policy.req), agreed) /\ SamePair(s, Forget(s, phone[p].policy.req))
  BY <1>1, ForgetKeeps
<1>3. srv.hw \in Nat /\ s.hw \in Nat /\ Forget(s, phone[p].policy.req).hw \in Nat
  BY <1>2, ServerTypes DEF PairingInv
<1> QED BY <1>2, <1>3 DEF Dropped, SamePair

(* A phone that gives up keeps the invariant.                              *)
LEMMA GivesUpInv ==
    ASSUME PairingInv, NEW p \in Phones, NEW s, ServerAt(s, agreed), SamePair(srv, s),
           PhoneGivesUp(p, s), UNCHANGED <<hostUp, store, ctl, fp, session, agreed>>,
           faults' \in 0..MaxFaults
    PROVE  PairingInv'
<1>1. /\ phone' = [phone EXCEPT ![p] = PhoneFailed(phone[p])]
      /\ conn' = PhoneCloses("control", p) /\ srv' = Dropped(p, s)
  BY DEF PhoneGivesUp
<1>2. ServerAt(srv', agreed) /\ SamePair(srv, srv')
  BY <1>1, DroppedKeeps
<1>3. PhonesAt(phone, srv', agreed, store) /\ ConnAt(conn, srv', agreed, store)
  BY <1>2, PhoneSide
<1>4. PhoneAt(PhoneFailed(phone[p]), p, srv', agreed, store)
  BY <1>3, FailedPhone DEF PhonesAt
<1>5. PhonesAt(phone', srv', agreed, store)
  BY <1>1, <1>3, <1>4, OnePhone
<1>6. ConnAt(conn', srv', agreed, store)
  BY <1>1, <1>3, NothingNew, PortNames, Zenon DEF PhoneCloses
<1> QED BY <1>2, <1>5, <1>6, PhoneAlone

(* A phone that goes on keeps it too, when its new record and what it      *)
(* sends are sound.                                                        *)
LEMMA PhoneSendsInv ==
    ASSUME PairingInv, NEW p \in Phones, NEW s, ServerAt(s, agreed), SamePair(srv, s),
           NEW ph, NEW type, NEW body, PhoneSends(p, ph, type, body, s),
           UNCHANGED <<hostUp, store, ctl, fp, session, agreed>>, faults' \in 0..MaxFaults,
           PhoneAt(ph, p, s, agreed, store),
           ControlRecordAt(EncodeRecord(type, body), s, agreed, store)
    PROVE  PairingInv'
<1>1. /\ phone' = [phone EXCEPT ![p] = ph] /\ srv' = s
      /\ conn' = [conn EXCEPT !["control"][p].wire = EncodeRecord(type, body)]
  BY DEF PhoneSends, Send
<1>3. PhonesAt(phone, srv', agreed, store) /\ ConnAt(conn, srv', agreed, store)
  BY <1>1, PhoneSide
<1>5. PhonesAt(phone', srv', agreed, store)
  BY <1>1, <1>3, OnePhone
<1>6. ConnAt(conn', srv', agreed, store)
  BY <1>1, <1>3, Sends, PortNames
<1> QED BY <1>1, <1>5, <1>6, PhoneAlone

(* The facts about the phone that acts.                                    *)
LEMMA ThePhone ==
    ASSUME PairingInv, NEW p \in Phones
    PROVE  /\ PhoneAt(phone[p], p, srv, agreed, store) /\ PhoneFields(phone[p])
           /\ ControlRecordAt(conn["control"][p].wire, srv, agreed, store)
           /\ FirstPairRecordAt(p, conn["first_pair"][p].wire, srv, agreed)
           /\ ServerAt(srv, agreed) /\ SamePair(srv, srv) /\ faults \in 0..MaxFaults
           /\ PhonesAt(phone, srv, agreed, store) /\ ConnAt(conn, srv, agreed, store)
<1>1. ServerAt(srv, agreed)
  BY DEF PairingInv
<1>2. SamePair(srv, srv)
  BY <1>1, ServerTypes DEF SamePair
<1>3. PhoneAt(phone[p], p, srv, agreed, store)
  BY DEF PairingInv, PhonesAt
<1>4. /\ ControlRecordAt(conn["control"][p].wire, srv, agreed, store)
      /\ FirstPairRecordAt(p, conn["first_pair"][p].wire, srv, agreed)
  BY DEF PairingInv, ConnAt, WiresAt
<1> QED BY <1>1, <1>2, <1>3, <1>4 DEF PairingInv, PhoneAt

(* The phone finds nothing to read and gives up.                           *)
LEMMA PhoneReadFailsInv ==
    ASSUME PairingInv, NEW p \in Phones, PhoneReadFails(p)
    PROVE  PairingInv'
<1>1. PICK ok \in BOOLEAN : PhoneControlFails(p, ok)
  BY DEF PhoneReadFails
<1>2. /\ Spend(ok) /\ PhoneGivesUp(p, srv)
      /\ UNCHANGED <<hostUp, store, ctl, fp, session, agreed>>
  BY <1>1 DEF PhoneControlFails, PhoneGivesUp
<1>3. faults' \in 0..MaxFaults
  BY <1>2, SpendBounded, ThePhone
<1> QED BY <1>2, <1>3, ThePhone, GivesUpInv

(* A phone by its fields, and with some of them changed.                   *)
LEMMA PhoneRecord ==
    ASSUME NEW ph, PhoneFields(ph)
    PROVE  \E e, f, c, a, h, g, d, t, o :
             /\ ph = [ent |-> e, fpc |-> f, cpc |-> c, an |-> a, hn |-> h, challenge |-> g,
                      cred |-> d, transcript |-> t, policy |-> o]
             /\ ph.ent = e /\ ph.fpc = f /\ ph.cpc = c /\ ph.an = a /\ ph.hn = h /\ ph.challenge = g
             /\ ph.cred = d /\ ph.transcript = t /\ ph.policy = o
<1>1. ph = [ent |-> ph.ent, fpc |-> ph.fpc, cpc |-> ph.cpc, an |-> ph.an, hn |-> ph.hn, challenge |-> ph.challenge,
            cred |-> ph.cred, transcript |-> ph.transcript, policy |-> ph.policy]
  BY Zenon DEF PhoneFields
<1> QED BY <1>1, Zenon

(* The record of a phone with the nonce of the Host.                       *)
LEMMA WithNonce ==
    ASSUME NEW ph, PhoneFields(ph), NEW x, NEW y
    PROVE  [ph EXCEPT !.hn = x, !.cpc = y] =
              [ent |-> ph.ent, fpc |-> ph.fpc, cpc |-> y, an |-> ph.an, hn |-> x, challenge |-> ph.challenge,
               cred |-> ph.cred, transcript |-> ph.transcript, policy |-> ph.policy]
<1>1. PICK e, f, c, a, h, g, d, t, o :
          /\ ph = [ent |-> e, fpc |-> f, cpc |-> c, an |-> a, hn |-> h, challenge |-> g,
                   cred |-> d, transcript |-> t, policy |-> o]
          /\ ph.ent = e /\ ph.fpc = f /\ ph.cpc = c /\ ph.an = a /\ ph.hn = h /\ ph.challenge = g
          /\ ph.cred = d /\ ph.transcript = t /\ ph.policy = o
  BY PhoneRecord, Zenon
<1> DEFINE z == [ph EXCEPT !.hn = x]
<1>2. [ph EXCEPT !.hn = x, !.cpc = y] = [z EXCEPT !.cpc = y]
  OBVIOUS
<1>3. z = [ent |-> e, fpc |-> f, cpc |-> c, an |-> a, hn |-> x, challenge |-> g,
           cred |-> d, transcript |-> t, policy |-> o]
  BY <1>1
<1> HIDE DEF z
<1>4. [z EXCEPT !.cpc = y] =
        [ent |-> e, fpc |-> f, cpc |-> y, an |-> a, hn |-> x, challenge |-> g,
         cred |-> d, transcript |-> t, policy |-> o]
  BY <1>3
<1> QED BY <1>1, <1>2, <1>4, Zenon

(* The record of a phone with its challenge.                               *)
LEMMA WithChallenge ==
    ASSUME NEW ph, PhoneFields(ph), NEW x, NEW y
    PROVE  [ph EXCEPT !.challenge = x, !.cpc = y] =
              [ent |-> ph.ent, fpc |-> ph.fpc, cpc |-> y, an |-> ph.an, hn |-> ph.hn, challenge |-> x,
               cred |-> ph.cred, transcript |-> ph.transcript, policy |-> ph.policy]
<1>1. PICK e, f, c, a, h, g, d, t, o :
          /\ ph = [ent |-> e, fpc |-> f, cpc |-> c, an |-> a, hn |-> h, challenge |-> g,
                   cred |-> d, transcript |-> t, policy |-> o]
          /\ ph.ent = e /\ ph.fpc = f /\ ph.cpc = c /\ ph.an = a /\ ph.hn = h /\ ph.challenge = g
          /\ ph.cred = d /\ ph.transcript = t /\ ph.policy = o
  BY PhoneRecord, Zenon
<1> DEFINE z == [ph EXCEPT !.challenge = x]
<1>2. [ph EXCEPT !.challenge = x, !.cpc = y] = [z EXCEPT !.cpc = y]
  OBVIOUS
<1>3. z = [ent |-> e, fpc |-> f, cpc |-> c, an |-> a, hn |-> h, challenge |-> x,
           cred |-> d, transcript |-> t, policy |-> o]
  BY <1>1
<1> HIDE DEF z
<1>4. [z EXCEPT !.cpc = y] =
        [ent |-> e, fpc |-> f, cpc |-> y, an |-> a, hn |-> h, challenge |-> x,
         cred |-> d, transcript |-> t, policy |-> o]
  BY <1>3
<1> QED BY <1>1, <1>2, <1>4, Zenon

(* The record of a phone with its credential.                              *)
LEMMA WithCredential ==
    ASSUME NEW ph, PhoneFields(ph), NEW x, NEW y
    PROVE  [ph EXCEPT !.cred = x, !.cpc = y] =
              [ent |-> ph.ent, fpc |-> ph.fpc, cpc |-> y, an |-> ph.an, hn |-> ph.hn, challenge |-> ph.challenge,
               cred |-> x, transcript |-> ph.transcript, policy |-> ph.policy]
<1>1. PICK e, f, c, a, h, g, d, t, o :
          /\ ph = [ent |-> e, fpc |-> f, cpc |-> c, an |-> a, hn |-> h, challenge |-> g,
                   cred |-> d, transcript |-> t, policy |-> o]
          /\ ph.ent = e /\ ph.fpc = f /\ ph.cpc = c /\ ph.an = a /\ ph.hn = h /\ ph.challenge = g
          /\ ph.cred = d /\ ph.transcript = t /\ ph.policy = o
  BY PhoneRecord, Zenon
<1> DEFINE z == [ph EXCEPT !.cred = x]
<1>2. [ph EXCEPT !.cred = x, !.cpc = y] = [z EXCEPT !.cpc = y]
  OBVIOUS
<1>3. z = [ent |-> e, fpc |-> f, cpc |-> c, an |-> a, hn |-> h, challenge |-> g,
           cred |-> x, transcript |-> t, policy |-> o]
  BY <1>1
<1> HIDE DEF z
<1>4. [z EXCEPT !.cpc = y] =
        [ent |-> e, fpc |-> f, cpc |-> y, an |-> a, hn |-> h, challenge |-> g,
         cred |-> x, transcript |-> t, policy |-> o]
  BY <1>3
<1> QED BY <1>1, <1>2, <1>4, Zenon

(* The record of a phone with its transcript.                              *)
LEMMA WithTranscript ==
    ASSUME NEW ph, PhoneFields(ph), NEW x, NEW y
    PROVE  [ph EXCEPT !.transcript = x, !.cpc = y] =
              [ent |-> ph.ent, fpc |-> ph.fpc, cpc |-> y, an |-> ph.an, hn |-> ph.hn, challenge |-> ph.challenge,
               cred |-> ph.cred, transcript |-> x, policy |-> ph.policy]
<1>1. PICK e, f, c, a, h, g, d, t, o :
          /\ ph = [ent |-> e, fpc |-> f, cpc |-> c, an |-> a, hn |-> h, challenge |-> g,
                   cred |-> d, transcript |-> t, policy |-> o]
          /\ ph.ent = e /\ ph.fpc = f /\ ph.cpc = c /\ ph.an = a /\ ph.hn = h /\ ph.challenge = g
          /\ ph.cred = d /\ ph.transcript = t /\ ph.policy = o
  BY PhoneRecord, Zenon
<1> DEFINE z == [ph EXCEPT !.transcript = x]
<1>2. [ph EXCEPT !.transcript = x, !.cpc = y] = [z EXCEPT !.cpc = y]
  OBVIOUS
<1>3. z = [ent |-> e, fpc |-> f, cpc |-> c, an |-> a, hn |-> h, challenge |-> g,
           cred |-> d, transcript |-> x, policy |-> o]
  BY <1>1
<1> HIDE DEF z
<1>4. [z EXCEPT !.cpc = y] =
        [ent |-> e, fpc |-> f, cpc |-> y, an |-> a, hn |-> h, challenge |-> g,
         cred |-> d, transcript |-> x, policy |-> o]
  BY <1>3
<1> QED BY <1>1, <1>2, <1>4, Zenon

(* The record of a phone with its entitlement.                             *)
LEMMA WithEntitlement ==
    ASSUME NEW ph, PhoneFields(ph), NEW x, NEW y
    PROVE  [ph EXCEPT !.ent = x, !.fpc = y] =
              [ent |-> x, fpc |-> y, cpc |-> ph.cpc, an |-> ph.an, hn |-> ph.hn, challenge |-> ph.challenge,
               cred |-> ph.cred, transcript |-> ph.transcript, policy |-> ph.policy]
<1>1. PICK e, f, c, a, h, g, d, t, o :
          /\ ph = [ent |-> e, fpc |-> f, cpc |-> c, an |-> a, hn |-> h, challenge |-> g,
                   cred |-> d, transcript |-> t, policy |-> o]
          /\ ph.ent = e /\ ph.fpc = f /\ ph.cpc = c /\ ph.an = a /\ ph.hn = h /\ ph.challenge = g
          /\ ph.cred = d /\ ph.transcript = t /\ ph.policy = o
  BY PhoneRecord, Zenon
<1> DEFINE z == [ph EXCEPT !.ent = x]
<1>2. [ph EXCEPT !.ent = x, !.fpc = y] = [z EXCEPT !.fpc = y]
  OBVIOUS
<1>3. z = [ent |-> x, fpc |-> f, cpc |-> c, an |-> a, hn |-> h, challenge |-> g,
           cred |-> d, transcript |-> t, policy |-> o]
  BY <1>1
<1> HIDE DEF z
<1>4. [z EXCEPT !.fpc = y] =
        [ent |-> x, fpc |-> y, cpc |-> c, an |-> a, hn |-> h, challenge |-> g,
         cred |-> d, transcript |-> t, policy |-> o]
  BY <1>3
<1> QED BY <1>1, <1>2, <1>4, Zenon

(* The record of a phone at another stage of first pairing.                *)
LEMMA WithStage ==
    ASSUME NEW ph, PhoneFields(ph), NEW y
    PROVE  [ph EXCEPT !.fpc = y] =
              [ent |-> ph.ent, fpc |-> y, cpc |-> ph.cpc, an |-> ph.an, hn |-> ph.hn, challenge |-> ph.challenge,
               cred |-> ph.cred, transcript |-> ph.transcript, policy |-> ph.policy]
<1>1. PICK e, f, c, a, h, g, d, t, o :
          /\ ph = [ent |-> e, fpc |-> f, cpc |-> c, an |-> a, hn |-> h, challenge |-> g,
                   cred |-> d, transcript |-> t, policy |-> o]
          /\ ph.ent = e /\ ph.fpc = f /\ ph.cpc = c /\ ph.an = a /\ ph.hn = h /\ ph.challenge = g
          /\ ph.cred = d /\ ph.transcript = t /\ ph.policy = o
  BY PhoneRecord, Zenon
<1>2. [ph EXCEPT !.fpc = y] =
        [ent |-> e, fpc |-> y, cpc |-> c, an |-> a, hn |-> h, challenge |-> g,
         cred |-> d, transcript |-> t, policy |-> o]
  BY <1>1
<1> QED BY <1>1, <1>2, Zenon

(* The phone takes the nonce of the Host and asks for a challenge.         *)
LEMMA AcceptHostHelloInv ==
    ASSUME PairingInv, NEW p \in Phones, AcceptHostHello(p)
    PROVE  PairingInv'
<1>0. faults' \in 0..MaxFaults /\ UNCHANGED <<hostUp, store, ctl, fp, session, agreed>>
      /\ phone[p].cpc = "host_hello" /\ Carries("control", p, "host_hello")
  BY ThePhone DEF AcceptHostHello, PhoneReads
<1>f. PhoneFields(phone[p])
  BY ThePhone
<1> DEFINE m == Wire("control", p).body
           ph == [phone[p] EXCEPT !.hn = m.hn, !.cpc = "host_challenge_proof"]
<1>1. CASE PhoneGivesUp(p, srv)
  BY <1>0, <1>1, ThePhone, GivesUpInv
<1>2. ASSUME NEW body, PhoneSends(p, ph, "android_challenge_request", body, srv)
      PROVE  PairingInv'
  <2>1. m.hn \in Nonces
    BY <1>0, ThePhone DEF Carries, ParsesAs, Wire, ControlRecordAt
  <2> HIDE DEF m
  <2>2. ph = [ent |-> phone[p].ent, fpc |-> phone[p].fpc, cpc |-> "host_challenge_proof",
              an |-> phone[p].an, hn |-> m.hn, challenge |-> phone[p].challenge,
              cred |-> phone[p].cred, transcript |-> phone[p].transcript,
              policy |-> phone[p].policy]
    BY <1>f, WithNonce
  <2>3. PhoneAt(ph, p, srv, agreed, store)
    BY <1>0, <2>1, <2>2, ThePhone DEF PhoneAt, PhoneFields
  <2>4. ControlRecordAt(EncodeRecord("android_challenge_request", body), srv, agreed, store)
    BY DEF ControlRecordAt, EncodeRecord
  <2> QED BY <1>0, <1>2, <2>3, <2>4, ThePhone, PhoneSendsInv
<1> QED BY <1>1, <1>2 DEF AcceptHostHello

(* The request of a phone is for a pair that was issued.                   *)
LEMMA RequestTypes ==
    ASSUME PairingInv, NEW p \in Phones, phone[p].cpc \notin {"idle", "confirmed"}
    PROVE  /\ PhoneRequest(p).req = phone[p].policy.req /\ PhoneRequest(p).req \in Requests
           /\ PhoneRequest(p).pair = phone[p].ent /\ IssuedAt(PhoneRequest(p).pair, srv, agreed)
           /\ PhoneRequest(p) \in [req : Requests, pair : Pairs]
<1>1. phone[p].policy.req \in Requests /\ IssuedAt(phone[p].ent, srv, agreed)
  BY ThePhone DEF PhoneAt, PhoneFields
<1> QED BY <1>1 DEF PhoneRequest, ChallengeRequest, IssuedAt

(* The service issues the challenge, or the phone gives up.                *)
LEMMA AcceptHostChallengeProofInv ==
    ASSUME PairingInv, NEW p \in Phones, NEW ok, AcceptHostChallengeProof(p, ok)
    PROVE  PairingInv'
<1>0. /\ UNCHANGED <<hostUp, store, ctl, fp, session, agreed>> /\ Spend(ok)
      /\ phone[p].cpc = "host_challenge_proof"
  BY DEF AcceptHostChallengeProof, PhoneReads
<1>1. faults' \in 0..MaxFaults
  BY <1>0, SpendBounded, ThePhone
<1>f. PhoneFields(phone[p])
  BY ThePhone
<1> DEFINE issue == CanIssueChallenge(PhoneRequest(p), Wire("control", p).body,
                                      Sign(p, PhoneRequest(p)))
           s == IF issue THEN IssueChallenge(PhoneRequest(p)) ELSE srv
           ph == [phone[p] EXCEPT !.challenge = TRUE, !.cpc = "host_final_proof"]
<1>2. \/ PhoneGivesUp(p, s)
      \/ \E body : PhoneSends(p, ph, "server_challenge", body, s)
  BY DEF AcceptHostChallengeProof
<1>3. ServerAt(s, agreed) /\ SamePair(srv, s)
  BY <1>0, ThePhone, RequestTypes, IssueKeeps
<1> HIDE DEF s
<1>4. CASE PhoneGivesUp(p, s)
  BY <1>0, <1>1, <1>3, <1>4, GivesUpInv
<1>5. ASSUME NEW body, PhoneSends(p, ph, "server_challenge", body, s)
      PROVE  PairingInv'
  <2>1. PICK b : ph = [ent |-> phone[p].ent, fpc |-> phone[p].fpc, cpc |-> "host_final_proof",
              an |-> phone[p].an, hn |-> phone[p].hn, challenge |-> b,
              cred |-> phone[p].cred, transcript |-> phone[p].transcript,
              policy |-> phone[p].policy]
    BY <1>f, WithChallenge, Zenon
  <2> HIDE DEF ph
  <2>2. PhoneAt(ph, p, srv, agreed, store)
    BY <1>0, <2>1, ThePhone DEF PhoneAt, PhoneFields
  <2>3. \A x : IssuedAt(x, srv, agreed) <=> IssuedAt(x, s, agreed)
    BY <1>3, IssuedSame DEF SamePair
  <2>4. PhoneAt(ph, p, s, agreed, store)
    BY <2>2, <2>3 DEF PhoneAt
  <2>5. ControlRecordAt(EncodeRecord("server_challenge", body), s, agreed, store)
    BY DEF ControlRecordAt, EncodeRecord
  <2> QED BY <1>0, <1>1, <1>3, <1>5, <2>4, <2>5, PhoneSendsInv
<1> QED BY <1>2, <1>4, <1>5

(* The proposal of a phone, all of whose fields are drawn.                 *)
LEMMA ProposalTypes ==
    ASSUME PairingInv, NEW p \in Phones, phone[p].cpc \notin {"idle", "confirmed", "host_hello"}
    PROVE  PhoneProposal(p) \in Proposals
<1>1. /\ phone[p].hn \in Nonces /\ phone[p].an \in Nonces /\ phone[p].ent \in Pairs
      /\ phone[p].ent.host = HostKey /\ phone[p].ent.android \in Phones
  BY ThePhone DEF PhoneAt, PhoneFields, IssuedAt, Pairs
<1>2. /\ PhoneRequest(p) \in [req : Requests, pair : Pairs] /\ PhoneRequest(p).req \in Requests
  BY RequestTypes
<1> DEFINE q == PhoneRequest(p)
           c == ConnectionId(ServerNonce(q), q.req, phone[p].hn, phone[p].an, phone[p].ent)
<1>3. PhoneProposal(p) = [host |-> phone[p].ent.host, android |-> phone[p].ent.android,
                          hn |-> phone[p].hn, an |-> phone[p].an, conn |-> c, pair |-> phone[p].ent]
  BY DEF PhoneProposal, ProposalFields
<1> HIDE DEF q
<1>4. c = [hmac |-> [nonceOf |-> q], text |-> <<q.req, phone[p].hn, phone[p].an, phone[p].ent>>]
  BY DEF ConnectionId, Mac, ServerNonce, ConnectionSeed
<1> HIDE DEF c
<1>5. c \in Connections
  BY <1>1, <1>2, <1>4 DEF Connections, q
<1> QED BY <1>1, <1>3, <1>5 DEF Proposals

(* The service allocates, and the credential carries what it granted.      *)
LEMMA AcceptHostFinalProofInv ==
    ASSUME PairingInv, NEW p \in Phones, NEW ok, AcceptHostFinalProof(p, ok)
    PROVE  PairingInv'
<1>0. /\ UNCHANGED <<hostUp, store, ctl, fp, session, agreed>> /\ Spend(ok)
      /\ phone[p].cpc = "host_final_proof"
  BY DEF AcceptHostFinalProof, PhoneReads
<1>1. faults' \in 0..MaxFaults
  BY <1>0, SpendBounded, ThePhone
<1>f. PhoneFields(phone[p])
  BY ThePhone
<1> DEFINE request == PhoneRequest(p)
           proposal == PhoneProposal(p)
           allocate == CanAllocate(request, proposal, Wire("control", p).body,
                           Sign(p, FinalProof(request, ServerNonce(request), proposal)))
           s == IF allocate THEN AllocateGeneration(request, proposal) ELSE srv
           cred == CredentialFor(s, request, proposal)
           ph == [phone[p] EXCEPT !.cred = cred, !.cpc = "host_handshake_signature"]
<1>2. \/ PhoneGivesUp(p, s)
      \/ allocate /\ PhoneSends(p, ph, "pair_generation_credential", cred, s)
  BY DEF AcceptHostFinalProof
<1>3. /\ ServerAt(srv, agreed) /\ SamePair(srv, srv) /\ proposal \in Proposals
      /\ request.req \in Requests /\ IssuedAt(request.pair, srv, agreed)
  BY <1>0, ThePhone, RequestTypes, ProposalTypes
<1> HIDE DEF request, proposal
<1>4. allocate => /\ ServerAt(s, agreed) /\ SamePair(srv, s)
                  /\ GrantedAt(request.pair, s.alloc[request.req].gen, s, agreed)
  BY <1>3, AllocateKeeps
<1>5. ~allocate => s = srv
  OBVIOUS
<1> HIDE DEF allocate, s
<1>6. ServerAt(s, agreed) /\ SamePair(srv, s)
  BY <1>3, <1>4, <1>5
<1>7. CASE PhoneGivesUp(p, s)
  BY <1>0, <1>1, <1>6, <1>7, GivesUpInv
<1>8. CASE allocate /\ PhoneSends(p, ph, "pair_generation_credential", cred, s)
  <2>0. cred.pair = request.pair /\ cred.gen = s.alloc[request.req].gen
    BY DEF CredentialFor, Credential
  <2> HIDE DEF cred
  <2>1. ph = [ent |-> phone[p].ent, fpc |-> phone[p].fpc, cpc |-> "host_handshake_signature",
              an |-> phone[p].an, hn |-> phone[p].hn, challenge |-> phone[p].challenge,
              cred |-> cred, transcript |-> phone[p].transcript,
              policy |-> phone[p].policy]
    BY <1>f, WithCredential
  <2> HIDE DEF ph
  <2>2. PhoneAt(ph, p, srv, agreed, store)
    BY <1>0, <2>1, ThePhone DEF PhoneAt, PhoneFields
  <2>3. \A x : IssuedAt(x, srv, agreed) <=> IssuedAt(x, s, agreed)
    BY <1>6, IssuedSame DEF SamePair
  <2>4. PhoneAt(ph, p, s, agreed, store)
    BY <2>2, <2>3 DEF PhoneAt
  <2>5. ControlRecordAt(EncodeRecord("pair_generation_credential", cred), s, agreed, store)
    BY <1>4, <1>8, <2>0 DEF ControlRecordAt, EncodeRecord
  <2> QED BY <1>0, <1>1, <1>6, <1>8, <2>4, <2>5, PhoneSendsInv
<1> QED BY <1>2, <1>7, <1>8

(* The phone confirms the transcript of its credential.                    *)
LEMMA AcceptHostHandshakeSignatureInv ==
    ASSUME PairingInv, NEW p \in Phones, AcceptHostHandshakeSignature(p)
    PROVE  PairingInv'
<1>0. faults' \in 0..MaxFaults /\ UNCHANGED <<hostUp, store, ctl, fp, session, agreed>>
      /\ phone[p].cpc = "host_handshake_signature"
  BY ThePhone DEF AcceptHostHandshakeSignature, PhoneReads
<1>f. PhoneFields(phone[p])
  BY ThePhone
<1> DEFINE t == Transcript(phone[p].cred.proposal, phone[p].cred.gen)
           ph == [phone[p] EXCEPT !.transcript = t, !.cpc = "host_finished"]
<1>1. CASE PhoneGivesUp(p, srv)
  BY <1>0, <1>1, ThePhone, GivesUpInv
<1>2. ASSUME NEW body, PhoneSends(p, ph, "android_handshake_confirmation", body, srv)
      PROVE  PairingInv'
  <2> HIDE DEF t
  <2>2. ph = [ent |-> phone[p].ent, fpc |-> phone[p].fpc, cpc |-> "host_finished",
              an |-> phone[p].an, hn |-> phone[p].hn, challenge |-> phone[p].challenge,
              cred |-> phone[p].cred, transcript |-> t,
              policy |-> phone[p].policy]
    BY <1>f, WithTranscript
  <2>3. PhoneAt(ph, p, srv, agreed, store)
    BY <1>0, <2>2, ThePhone DEF PhoneAt, PhoneFields
  <2>4. ControlRecordAt(EncodeRecord("android_handshake_confirmation", body), srv, agreed, store)
    BY DEF ControlRecordAt, EncodeRecord
  <2> QED BY <1>0, <1>2, <2>3, <2>4, ThePhone, PhoneSendsInv
<1> QED BY <1>1, <1>2 DEF AcceptHostHandshakeSignature

(* Host Finished confirms a transcript that is on the disk of the Host.    *)
LEMMA AcceptHostFinishedInv ==
    ASSUME PairingInv, NEW p \in Phones, AcceptHostFinished(p)
    PROVE  PairingInv'
<1>0. faults' \in 0..MaxFaults /\ UNCHANGED <<hostUp, store, ctl, fp, session, agreed>>
      /\ phone[p].cpc = "host_finished" /\ Carries("control", p, "host_finished")
  BY ThePhone DEF AcceptHostFinished, PhoneReads
<1>f. PhoneFields(phone[p])
  BY ThePhone
<1>1. CASE PhoneGivesUp(p, srv)
  BY <1>0, <1>1, ThePhone, GivesUpInv
<1> DEFINE x == ClearHandshake(phone[p])
           ph == [x EXCEPT !.cpc = "confirmed", !.transcript = phone[p].transcript,
                           !.policy = IdlePolicy]
<1>2. CASE /\ ConfirmPeerFinished("android", phone[p].transcript, Wire("control", p).body)
           /\ phone' = [phone EXCEPT ![p] = ph]
           /\ srv' = Forget(srv, phone[p].policy.req)
           /\ conn' = [conn EXCEPT !["control"][p] =
                           IF @.host THEN [@ EXCEPT !.wire = None] ELSE NoConn]
  <2>1. Wire("control", p).body.text.sha256 = phone[p].transcript
    BY <1>2 DEF ConfirmPeerFinished, FinishedMac, Mac, Digest
  <2>2. SettledAt(phone[p].transcript, store)
    BY <1>0, <2>1, ThePhone DEF Carries, ParsesAs, Wire, ControlRecordAt
  <2>3. phone[p].policy.req \in Requests \union {None}
    BY <1>f, Zenon DEF PhoneFields
  <2>4. ServerAt(srv', agreed) /\ SamePair(srv, srv')
    BY <1>2, <2>3, ThePhone, ForgetKeeps
  <2>5. PhonesAt(phone, srv', agreed, store) /\ ConnAt(conn, srv', agreed, store)
    BY <1>0, <2>4, PhoneSide
  <2>6. PICK c : x = [ent |-> phone[p].ent, fpc |-> phone[p].fpc, cpc |-> "idle", an |-> None,
                      hn |-> None, challenge |-> c, cred |-> None, transcript |-> None,
                      policy |-> phone[p].policy]
    BY <1>f, ClearedPhone
  <2> HIDE DEF x
  <2>7. ph = [ent |-> phone[p].ent, fpc |-> phone[p].fpc, cpc |-> "confirmed", an |-> None,
              hn |-> None, challenge |-> c, cred |-> None, transcript |-> phone[p].transcript,
              policy |-> IdlePolicy]
    <3> DEFINE y == [x EXCEPT !.cpc = "confirmed"]
               z == [y EXCEPT !.transcript = phone[p].transcript]
    <3>1. ph = [z EXCEPT !.policy = IdlePolicy]
      OBVIOUS
    <3> HIDE DEF z, y
    <3>2. y = [ent |-> phone[p].ent, fpc |-> phone[p].fpc, cpc |-> "confirmed", an |-> None,
               hn |-> None, challenge |-> c, cred |-> None, transcript |-> None,
               policy |-> phone[p].policy]
      BY <2>6 DEF y
    <3>3. z = [ent |-> phone[p].ent, fpc |-> phone[p].fpc, cpc |-> "confirmed", an |-> None,
               hn |-> None, challenge |-> c, cred |-> None, transcript |-> phone[p].transcript,
               policy |-> phone[p].policy]
      BY <3>2 DEF z
    <3> HIDE DEF ph
    <3> QED BY <3>1, <3>3
  <2> HIDE DEF ph
  <2>8. PhoneAt(ph, p, srv', agreed, store)
    <3>1. PhoneAt(phone[p], p, srv', agreed, store)
      BY <2>5 DEF PhonesAt
    <3>2. PhoneFields(ph)
      BY <2>7 DEF PhoneFields, IdlePolicy
    <3> QED BY <2>2, <2>7, <3>1, <3>2 DEF PhoneAt
  <2>9. PhonesAt(phone', srv', agreed, store)
    BY <1>2, <2>5, <2>8, OnePhone
  <2>10. ConnAt(conn', srv', agreed, store)
    BY <1>2, <2>5, NothingNew, PortNames, Zenon
  <2> QED BY <1>0, <2>4, <2>9, <2>10, PhoneAlone
<1> QED BY <1>1, <1>2 DEF AcceptHostFinished

(* A phone whose channel is over.                                          *)
LEMMA ClearedOK ==
    ASSUME NEW ph, NEW p, NEW sv, NEW ag, NEW st, PhoneAt(ph, p, sv, ag, st)
    PROVE  PhoneAt(ClearHandshake(ph), p, sv, ag, st)
<1>1. PhoneFields(ph)
  BY DEF PhoneAt
<1>2. PICK c : ClearHandshake(ph) =
          [ent |-> ph.ent, fpc |-> ph.fpc, cpc |-> "idle", an |-> None, hn |-> None,
           challenge |-> c, cred |-> None, transcript |-> None, policy |-> ph.policy]
  BY <1>1, ClearedPhone
<1>3. /\ ph.policy = [pair |-> ph.policy.pair, req |-> ph.policy.req, expiry |-> ph.policy.expiry]
      /\ ph.policy.req \in Requests \union {None}
  BY <1>1, Zenon DEF PhoneFields
<1> QED BY <1>2, <1>3, IdlePhone

(* The phone finds its channel dead.                                       *)
LEMMA PhoneDropsChannelInv ==
    ASSUME PairingInv, NEW p \in Phones, PhoneDropsChannel(p)
    PROVE  PairingInv'
<1>1. /\ phone' = [phone EXCEPT ![p] = ClearHandshake(phone[p])]
      /\ conn' = PhoneCloses("control", p)
      /\ UNCHANGED <<hostUp, store, ctl, fp, session, srv, agreed>>
      /\ \E ok : Spend(ok)
  BY DEF PhoneDropsChannel
<1>2. faults' \in 0..MaxFaults
  BY <1>1, SpendBounded, ThePhone
<1>3. PhonesAt(phone', srv', agreed, store)
  BY <1>1, ThePhone, ClearedOK, OnePhone
<1>4. ConnAt(conn', srv', agreed, store)
  <2>1. ConnAt(conn', srv, agreed, store)
    BY <1>1, ThePhone, NothingNew, PortNames, Zenon DEF PhoneCloses
  <2> QED BY <1>1, <2>1
<1> QED BY <1>1, <1>2, <1>3, <1>4, ThePhone, PhoneAlone

(* The phone learns that it is no longer bound.                            *)
LEMMA PhoneLearnsUnboundInv ==
    ASSUME PairingInv, NEW p \in Phones, PhoneLearnsUnbound(p)
    PROVE  PairingInv'
<1> DEFINE x == ClearHandshake(phone[p])
           ph == [x EXCEPT !.ent = None]
<1>1. /\ phone' = [phone EXCEPT ![p] = ph]
      /\ conn' = PhoneCloses("control", p)
      /\ UNCHANGED <<hostUp, store, ctl, fp, session, srv, faults, agreed>>
  BY DEF PhoneLearnsUnbound
<1>2. PhoneAt(x, p, srv, agreed, store) /\ x.cpc = "idle"
  BY ThePhone, ClearedOK, ClearedPhone
<1>3. PICK e, f, c, a, h, g, d, t, o :
          /\ x = [ent |-> e, fpc |-> f, cpc |-> c, an |-> a, hn |-> h, challenge |-> g,
                  cred |-> d, transcript |-> t, policy |-> o]
          /\ x.ent = e /\ x.fpc = f /\ x.cpc = c /\ x.an = a /\ x.hn = h /\ x.challenge = g
          /\ x.cred = d /\ x.transcript = t /\ x.policy = o
  BY <1>2, PhoneRecord, Zenon DEF PhoneAt
<1> HIDE DEF x
<1>4. ph = [ent |-> None, fpc |-> f, cpc |-> c, an |-> a, hn |-> h, challenge |-> g,
            cred |-> d, transcript |-> t, policy |-> o]
  BY <1>3
<1> HIDE DEF ph
<1>5. PhoneAt(ph, p, srv, agreed, store)
  BY <1>2, <1>3, <1>4 DEF PhoneAt, PhoneFields
<1>6. PhonesAt(phone', srv', agreed, store)
  BY <1>1, <1>5, ThePhone, OnePhone
<1>7. ConnAt(conn', srv', agreed, store)
  <2>1. ConnAt(conn', srv, agreed, store)
    BY <1>1, ThePhone, NothingNew, PortNames, Zenon DEF PhoneCloses
  <2> QED BY <1>1, <2>1
<1> QED BY <1>1, <1>6, <1>7, ThePhone, PhoneAlone

(* The Host finds its channel dead.                                        *)
LEMMA HostDropsChannelInv ==
    ASSUME PairingInv, HostDropsChannel
    PROVE  PairingInv'
<1>1. /\ session' = None /\ \E ok : Spend(ok)
      /\ UNCHANGED <<hostUp, store, ctl, fp, conn, phone, srv, agreed>>
  BY DEF HostDropsChannel
<1>2. faults' \in 0..MaxFaults
  BY <1>1, SpendBounded DEF PairingInv
<1> QED BY <1>1, <1>2 DEF PairingInv, SessionAt

(* Time passes for a challenge: no pair and no allocation changes.         *)
LEMMA ExpireChallengeInv ==
    ASSUME PairingInv, NEW r \in Requests, ExpireChallenge(r)
    PROVE  PairingInv'
<1> DEFINE held == \E p \in Phones : phone[p].policy.req = r
<1>1. /\ srv' = IF held THEN [srv EXCEPT !.expired = srv.expired \union {r}] ELSE Discard(srv, r)
      /\ \E ok : Spend(ok)
      /\ UNCHANGED <<hostUp, store, ctl, fp, session, conn, phone, agreed>>
  BY DEF ExpireChallenge
<1>2. faults' \in 0..MaxFaults
  BY <1>1, SpendBounded DEF PairingInv
<1> HIDE DEF held
<1>0. ASSUME held
      PROVE  ServerAt(srv', agreed) /\ SamePair(srv, srv')
  <2>3. srv = [pair |-> srv.pair, rev |-> srv.rev, hw |-> srv.hw, chal |-> srv.chal,
               pairOf |-> srv.pairOf, expired |-> srv.expired, alloc |-> srv.alloc]
    BY Zenon DEF PairingInv, ServerAt, ServerFields
  <2>4. srv' = [pair |-> srv.pair, rev |-> srv.rev, hw |-> srv.hw, chal |-> srv.chal,
                pairOf |-> srv.pairOf, expired |-> srv.expired \union {r}, alloc |-> srv.alloc]
    BY <1>0, <1>1, <2>3
  <2>5. ServerAt(srv, agreed) /\ srv.hw \in Nat
    BY ServerTypes DEF PairingInv
  <2>6. SamePair(srv, srv')
    BY <2>4, <2>5 DEF SamePair
  <2>7. \A x : IssuedAt(x, srv, agreed) <=> IssuedAt(x, srv', agreed)
    BY <2>4, IssuedSame
  <2>8. ServerAt(srv', agreed)
    <3>1. /\ srv'.pair = srv.pair /\ srv'.rev = srv.rev /\ srv'.hw = srv.hw /\ srv'.chal = srv.chal
          /\ srv'.pairOf = srv.pairOf /\ srv'.alloc = srv.alloc
          /\ srv' = [pair |-> srv'.pair, rev |-> srv'.rev, hw |-> srv'.hw, chal |-> srv'.chal,
                     pairOf |-> srv'.pairOf, expired |-> srv'.expired, alloc |-> srv'.alloc]
      BY <2>4
    <3>2. ServerFields(srv')
      BY <2>5, <3>1 DEF ServerAt, ServerFields
    <3> QED BY <2>5, <2>7, <3>1, <3>2 DEF ServerAt
  <2> QED BY <2>6, <2>8
<1>3. ServerAt(srv, agreed)
  BY DEF PairingInv
<1>6. SamePair(srv, srv') /\ ServerAt(srv', agreed)
  BY <1>0, <1>1, <1>3, DiscardKeeps
<1>9. PhonesAt(phone', srv', agreed, store) /\ ConnAt(conn', srv', agreed, store)
  BY <1>1, <1>6, PhoneSide
<1> QED BY <1>1, <1>2, <1>6, <1>9, PhoneAlone

(* An unbinding: the pair is gone, its revision is not.                    *)
LEMMA UnbindDeviceInv ==
    ASSUME PairingInv, UnbindDevice
    PROVE  PairingInv'
<1>1. /\ srv' = [srv EXCEPT !.pair = None] /\ srv.rev < MaxRev
      /\ UNCHANGED <<hostUp, store, ctl, fp, session, conn, phone, faults, agreed>>
  BY DEF UnbindDevice
<1>2. srv = [pair |-> srv.pair, rev |-> srv.rev, hw |-> srv.hw, chal |-> srv.chal,
             pairOf |-> srv.pairOf, expired |-> srv.expired, alloc |-> srv.alloc]
  BY Zenon DEF PairingInv, ServerAt, ServerFields
<1>3. srv' = [pair |-> None, rev |-> srv.rev, hw |-> srv.hw, chal |-> srv.chal,
              pairOf |-> srv.pairOf, expired |-> srv.expired, alloc |-> srv.alloc]
  BY <1>1, <1>2
<1>4. ServerAt(srv, agreed) /\ srv.hw \in Nat
  BY ServerTypes DEF PairingInv
<1>5. \A x : IssuedAt(x, srv, agreed) => IssuedAt(x, srv', agreed)
  BY <1>3 DEF IssuedAt
<1>6. /\ srv'.pair = None /\ srv'.rev = srv.rev /\ srv'.hw = srv.hw /\ srv'.chal = srv.chal
      /\ srv'.pairOf = srv.pairOf /\ srv'.alloc = srv.alloc
      /\ srv' = [pair |-> srv'.pair, rev |-> srv'.rev, hw |-> srv'.hw, chal |-> srv'.chal,
                 pairOf |-> srv'.pairOf, expired |-> srv'.expired, alloc |-> srv'.alloc]
  BY <1>3
<1>7. ServerFields(srv')
  BY <1>4, <1>6 DEF ServerAt, ServerFields
<1>8. ServerAt(srv', agreed')
  BY <1>1, <1>4, <1>5, <1>6, <1>7 DEF ServerAt
<1>9. Onward
  <2>1. Forward
    BY <1>1, <1>4, <1>6 DEF Forward
  <2> QED BY <1>4, <1>8, <2>1, ForwardIsOnward DEF PairingInv
<1>10. /\ ControlAt(ctl', srv', agreed') /\ FirstPairAt(fp', srv', agreed')
       /\ StoreAt(store', srv', agreed')
  BY <1>1, <1>9, PartsStay DEF PairingInv
<1>11. PhonesAt(phone', srv', agreed', store') /\ ConnAt(conn', srv', agreed', store')
  BY <1>1, <1>9, PhonesStay, ConnStays DEF PairingInv
<1> QED BY <1>1, <1>8, <1>10, <1>11 DEF PairingInv

(* The draws of a new attempt.                                             *)
LEMMA FreshDraws ==
    ASSUME Cardinality(FreshNonces({})) > 1, NEW an, an = Min(FreshNonces({}))
    PROVE  an \in Nonces /\ Min(FreshNonces({an})) \in Nonces
<1>1. FreshNonces({}) \subseteq Nonces /\ FreshNonces({}) \subseteq Nat
  BY PairingAssumption DEF FreshNonces
<1>2. FreshNonces({}) # {} /\ FreshNonces({}) \ {an} # {}
  BY MoreThanOne
<1>3. FreshNonces({an}) = FreshNonces({}) \ {an}
  BY DEF FreshNonces
<1>4. an \in FreshNonces({})
  BY <1>1, <1>2, MinIn
<1>5. Min(FreshNonces({an})) \in FreshNonces({an})
  BY <1>1, <1>2, <1>3, MinIn
<1> QED BY <1>1, <1>3, <1>4, <1>5

(* The request of a new attempt is a fresh one or the one kept.            *)
LEMMA BeginsPolicy ==
    ASSUME NEW ph, PhoneFields(ph), MustRotate(ph) => FreshRequests # {}, NEW po,
           po = PolicyBegin(ph, Min(FreshRequests))
    PROVE  /\ po = [pair |-> po.pair, req |-> po.req, expiry |-> po.expiry]
           /\ po.req \in Requests
<1>1. CASE MustRotate(ph)
  <2>1. FreshRequests \subseteq Requests /\ FreshRequests \subseteq Nat
    BY PairingAssumption DEF FreshRequests
  <2>2. Min(FreshRequests) \in Requests
    BY <1>1, <2>1, MinIn
  <2>3. PICK b : po = [pair |-> ph.ent, req |-> Min(FreshRequests), expiry |-> b]
    BY <1>1 DEF PolicyBegin
  <2> QED BY <2>2, <2>3
<1>2. CASE ~MustRotate(ph)
  <2>1. po = ph.policy /\ ph.policy.req # None
    BY <1>2 DEF PolicyBegin, MustRotate
  <2>2. /\ ph.policy = [pair |-> ph.policy.pair, req |-> ph.policy.req, expiry |-> ph.policy.expiry]
        /\ ph.policy.req \in Requests \union {None}
    BY Zenon DEF PhoneFields
  <2> QED BY <2>1, <2>2
<1> QED BY <1>1, <1>2

(* The record of a phone that begins an attempt.                           *)
LEMMA WithAttempt ==
    ASSUME NEW ph, PhoneFields(ph), NEW x, NEW y, NEW z
    PROVE  [ph EXCEPT !.cpc = x, !.an = y, !.policy = z] =
              [ent |-> ph.ent, fpc |-> ph.fpc, cpc |-> x, an |-> y, hn |-> ph.hn,
               challenge |-> ph.challenge, cred |-> ph.cred, transcript |-> ph.transcript,
               policy |-> z]
<1>1. PICK e, f, c, a, h, g, d, t, o :
          /\ ph = [ent |-> e, fpc |-> f, cpc |-> c, an |-> a, hn |-> h, challenge |-> g,
                   cred |-> d, transcript |-> t, policy |-> o]
          /\ ph.ent = e /\ ph.fpc = f /\ ph.cpc = c /\ ph.an = a /\ ph.hn = h /\ ph.challenge = g
          /\ ph.cred = d /\ ph.transcript = t /\ ph.policy = o
  BY PhoneRecord, Zenon
<1> DEFINE u == [ph EXCEPT !.cpc = x]
           v == [u EXCEPT !.an = y]
<1>2. [ph EXCEPT !.cpc = x, !.an = y, !.policy = z] = [v EXCEPT !.policy = z]
  OBVIOUS
<1> HIDE DEF u, v
<1>3. u = [ent |-> e, fpc |-> f, cpc |-> x, an |-> a, hn |-> h, challenge |-> g,
           cred |-> d, transcript |-> t, policy |-> o]
  BY <1>1 DEF u
<1>4. v = [ent |-> e, fpc |-> f, cpc |-> x, an |-> y, hn |-> h, challenge |-> g,
           cred |-> d, transcript |-> t, policy |-> o]
  BY <1>3 DEF v
<1>5. [v EXCEPT !.policy = z] =
        [ent |-> e, fpc |-> f, cpc |-> x, an |-> y, hn |-> h, challenge |-> g,
         cred |-> d, transcript |-> t, policy |-> z]
  BY <1>4
<1> QED BY <1>1, <1>2, <1>5, Zenon

(* A phone is accepted, or its candidate is refused at once.               *)
LEMMA ConnectControlInv ==
    ASSUME PairingInv, NEW p \in Phones, NEW ok, ConnectControl(p, ok)
    PROVE  PairingInv'
<1> DEFINE an == Min(FreshNonces({}))
           hn == Min(FreshNonces({an}))
           po == PolicyBegin(phone[p], Min(FreshRequests))
           rec == EncodeRecord("host_hello", [host |-> HostKey, hn |-> hn])
<1>0. /\ phone[p].cpc = "idle" /\ phone[p].ent # None /\ ctl.c.pc = "accept"
      /\ MustRotate(phone[p]) => FreshRequests # {}
      /\ Cardinality(FreshNonces({})) > 1 /\ Spend(ok)
      /\ UNCHANGED <<hostUp, store, fp, session, agreed>>
  BY DEF ConnectControl
<1>1. /\ phone' = [phone EXCEPT ![p].cpc = "host_hello", ![p].an = an, ![p].policy = po]
      /\ srv' = IF MustRotate(phone[p]) THEN Forget(srv, phone[p].policy.req) ELSE srv
      /\ \/ /\ ctl' = [ctl EXCEPT !.c.pc = "challenge", !.c.peer = p, !.c.own = ctl.pair, !.c.hn = hn]
            /\ conn' = [conn EXCEPT !["control"][p] = [host |-> TRUE, phone |-> TRUE, wire |-> rec]]
         \/ /\ conn' = [conn EXCEPT !["control"][p] = [host |-> FALSE, phone |-> TRUE, wire |-> None]]
            /\ UNCHANGED ctl
  BY DEF ConnectControl
<1>2. faults' \in 0..MaxFaults
  BY <1>0, SpendBounded, ThePhone
<1>f. PhoneFields(phone[p])
  BY ThePhone
<1>3. an \in Nonces /\ hn \in Nonces
  BY <1>0, FreshDraws
<1>4. po = [pair |-> po.pair, req |-> po.req, expiry |-> po.expiry] /\ po.req \in Requests
  BY <1>0, <1>f, BeginsPolicy
<1>5. ServerAt(srv', agreed) /\ SamePair(srv, srv')
  <2>1. phone[p].policy.req \in Requests \union {None}
    BY <1>f, Zenon DEF PhoneFields
  <2> QED BY <1>1, <2>1, ThePhone, ForgetKeeps
<1> HIDE DEF an, hn, po
<1>6. Onward /\ PhonesAt(phone, srv', agreed, store) /\ ConnAt(conn, srv', agreed, store)
  BY <1>0, <1>5, PhoneSide
<1>7. PhonesAt(phone', srv', agreed, store)
  <2> DEFINE ph == [phone[p] EXCEPT !.cpc = "host_hello", !.an = an, !.policy = po]
  <2>1. phone' = [phone EXCEPT ![p] = ph]
    BY <1>1
  <2>2. ph = [ent |-> phone[p].ent, fpc |-> phone[p].fpc, cpc |-> "host_hello", an |-> an,
              hn |-> phone[p].hn, challenge |-> phone[p].challenge, cred |-> phone[p].cred,
              transcript |-> phone[p].transcript, policy |-> po]
    BY <1>f, WithAttempt
  <2> HIDE DEF ph
  <2>3. PhoneAt(phone[p], p, srv', agreed, store)
    BY <1>6 DEF PhonesAt
  <2>4. PhoneFields(ph)
    BY <1>0, <1>3, <1>4, <2>2 DEF PhoneFields
  <2>5. PhoneAt(ph, p, srv', agreed, store)
    BY <2>2, <2>3, <2>4 DEF PhoneAt
  <2> QED BY <1>6, <2>1, <2>5, OnePhone
<1>8. ConnAt(conn', srv', agreed, store) /\ ControlAt(ctl', srv', agreed) /\ CommittedAt(ctl', store, fp)
  <2>0. ControlRecordAt(rec, srv', agreed, store)
    BY <1>3 DEF ControlRecordAt, EncodeRecord
  <2>1. CASE /\ ctl' = [ctl EXCEPT !.c.pc = "challenge", !.c.peer = p, !.c.own = ctl.pair, !.c.hn = hn]
             /\ conn' = [conn EXCEPT !["control"][p] = [host |-> TRUE, phone |-> TRUE, wire |-> rec]]
    <3>1. ConnAt(conn', srv', agreed, store)
      <4>1. \A h, q : ConnAt([conn EXCEPT !["control"][p] = [host |-> h, phone |-> q, wire |-> rec]],
                             srv', agreed, store)
        BY <1>6, <2>0, OneConn, PortNames
      <4> HIDE DEF rec
      <4> QED BY <2>1, <4>1, Zenon
    <3>2. ctl' = [running |-> ctl.running, pair |-> ctl.pair,
                  c |-> [pc |-> "challenge", peer |-> p, own |-> ctl.pair, hn |-> hn,
                         an |-> ctl.c.an, req |-> ctl.c.req, proposal |-> ctl.c.proposal,
                         transcript |-> ctl.c.transcript]]
      BY <2>1 DEF PairingInv, ControlAt, ControlFields
    <3>3. ControlFields(ctl') /\ ctl'.c.pc = "challenge"
      BY <3>2 DEF PairingInv, ControlAt, ControlFields, ControlPlaces
    <3> QED BY <3>1, <3>3, EarlyStage
  <2>2. CASE /\ conn' = [conn EXCEPT !["control"][p] = [host |-> FALSE, phone |-> TRUE, wire |-> None]]
             /\ UNCHANGED ctl
    <3>1. ConnAt(conn', srv', agreed, store)
      BY <1>6, <2>2, NothingNew, PortNames, Zenon
    <3>2. ControlAt(ctl', srv', agreed')
      BY <1>6, <2>2, PartsStay DEF PairingInv
    <3> QED BY <1>0, <2>2, <3>1, <3>2 DEF PairingInv
  <2> QED BY <1>1, <2>1, <2>2
<1>9. FirstPairAt(fp', srv', agreed') /\ StoreAt(store', srv', agreed')
  BY <1>0, <1>6, PartsStay DEF PairingInv
<1> QED BY <1>0, <1>2, <1>5, <1>7, <1>8, <1>9 DEF PairingInv

-----------------------------------------------------------------------------
(* First pairing *)

(* A confirmation takes nothing back.                                      *)
LEMMA AgreeMore ==
    ASSUME PairingInv, agreed \subseteq agreed', UNCHANGED <<srv, store>>
    PROVE  Onward /\ ServerAt(srv', agreed')
<1>1. ServerAt(srv, agreed) /\ srv.hw \in Nat
  BY ServerTypes DEF PairingInv
<1>2. \A x : IssuedAt(x, srv, agreed) => IssuedAt(x, srv, agreed')
  BY DEF IssuedAt
<1>3. ServerAt(srv, agreed')
  BY <1>1, <1>2 DEF ServerAt
<1>4. Forward
  BY <1>1 DEF Forward
<1> QED BY <1>1, <1>3, <1>4, ForwardIsOnward DEF PairingInv

(* Neither the session nor a committed generation depends on the worker of *)
(* first pairing outside its last steps.                                   *)
LEMMA NotReplacing ==
    ASSUME NEW x, NEW se, NEW st, NEW f, NEW g, CommittedAt(x, st, f), SessionAt(se, st, f),
           Replacing(f) => Replacing(g)
    PROVE  CommittedAt(x, st, g) /\ SessionAt(se, st, g)
BY DEF CommittedAt, SessionAt

(* A step of the worker of first pairing, with or without a phone's.       *)
LEMMA FirstPairAlone ==
    ASSUME PairingInv, UNCHANGED <<hostUp, store, ctl, session, srv>>, agreed \subseteq agreed',
           faults' \in 0..MaxFaults, FirstPairAt(fp', srv, agreed'), Replacing(fp) => Replacing(fp'),
           PhonesAt(phone', srv, agreed', store), ConnAt(conn', srv, agreed', store)
    PROVE  PairingInv'
<1>1. Onward /\ ServerAt(srv', agreed')
  BY AgreeMore
<1>2. ControlAt(ctl', srv', agreed') /\ StoreAt(store', srv', agreed')
  BY <1>1, PartsStay DEF PairingInv
<1>3. CommittedAt(ctl', store', fp') /\ SessionAt(session', store', fp')
  BY NotReplacing DEF PairingInv
<1> QED BY <1>1, <1>2, <1>3 DEF PairingInv

(* A worker of first pairing that waits.                                   *)
LEMMA IdleFirst ==
    ASSUME NEW b \in BOOLEAN, NEW sv, NEW ag
    PROVE  FirstPairAt([running |-> b, c |-> IdleFirstPair], sv, ag)
BY DEF FirstPairAt, FirstPairFields, IdleFirstPair, FirstPairPlaces

(* The candidate of the worker.                                            *)
LEMMA FirstCandidate ==
    ASSUME PairingInv, fp.c.pc # "accept"
    PROVE  /\ fp.c.peer \in Phones /\ faults \in 0..MaxFaults
           /\ FirstPairFields(fp) /\ FirstPairAt(fp, srv, agreed)
           /\ ConnAt(conn, srv, agreed, store) /\ PhonesAt(phone, srv, agreed, store)
           /\ FirstPairRecordAt(fp.c.peer, conn["first_pair"][fp.c.peer].wire, srv, agreed)
           /\ fp.c.pc # "offer" => fp.c.android = fp.c.peer
BY DEF PairingInv, FirstPairAt, FirstPairFields, ConnAt, WiresAt

(* The worker goes back to accept.                                         *)
LEMMA IdleFirstAgain ==
    ASSUME PairingInv, NEW ag
    PROVE  FirstPairAt([fp EXCEPT !.c = IdleFirstPair], srv, ag)
<1>1. fp = [running |-> fp.running, c |-> fp.c] /\ fp.running \in BOOLEAN
  BY DEF PairingInv, FirstPairAt, FirstPairFields
<1>2. [fp EXCEPT !.c = IdleFirstPair] = [running |-> fp.running, c |-> IdleFirstPair]
  BY <1>1
<1> QED BY <1>1, <1>2, IdleFirst

(* A candidate that ends before the binding is stored leaves nothing       *)
(* behind.                                                                 *)
LEMMA EndsInv ==
    ASSUME PairingInv, fp.c.pc # "accept", ~Replacing(fp), EndCandidate, faults' \in 0..MaxFaults,
           agreed \subseteq agreed', UNCHANGED <<hostUp, store, ctl, session, phone, srv>>
    PROVE  PairingInv'
<1>1. fp' = [fp EXCEPT !.c = IdleFirstPair] /\ conn' = HostCloses("first_pair", fp.c.peer)
  BY DEF EndCandidate
<1>2. Onward
  BY AgreeMore
<1>3. PhonesAt(phone, srv', agreed', store') /\ ConnAt(conn, srv', agreed', store')
  BY <1>2, PhonesStay, ConnStays DEF PairingInv
<1>4. ConnAt(conn', srv', agreed', store')
  BY <1>1, <1>3, FirstCandidate, NothingNew, PortNames, Zenon DEF HostCloses
<1>5. FirstPairAt(fp', srv, agreed')
  BY <1>1, IdleFirstAgain
<1> QED BY <1>3, <1>4, <1>5, FirstPairAlone

(* The worker goes on with another stage of its candidate.                 *)
LEMMA GoesOnInv ==
    ASSUME PairingInv, fp.c.pc # "accept", ~Replacing(fp), faults' \in 0..MaxFaults,
           agreed \subseteq agreed', UNCHANGED <<hostUp, store, ctl, session, phone, srv>>,
           NEW w, conn' = [conn EXCEPT !["first_pair"][fp.c.peer].wire = w],
           FirstPairRecordAt(fp.c.peer, w, srv, agreed'),
           FirstPairAt(fp', srv, agreed')
    PROVE  PairingInv'
<1>2. Onward
  BY AgreeMore
<1>3. PhonesAt(phone, srv', agreed', store') /\ ConnAt(conn, srv', agreed', store')
  BY <1>2, PhonesStay, ConnStays DEF PairingInv
<1>4. ConnAt(conn', srv', agreed', store')
  BY <1>3, FirstCandidate, Sends, PortNames
<1> QED BY <1>3, <1>4, FirstPairAlone

(* An empty connection promises nothing.                                   *)
LEMMA NothingOffered == \A p, sv, ag : FirstPairRecordAt(p, None, sv, ag)
BY DEF FirstPairRecordAt

(* The fields of the worker of first pairing with a new stage.             *)
LEMMA FirstWith ==
    ASSUME NEW f, FirstPairFields(f), f.c.pc # "accept", NEW n, NEW pc, NEW an, NEW rv, NEW bi,
           pc \in FirstPairPlaces \ {"accept"},
           n = [running |-> f.running, c |-> [pc |-> pc, peer |-> f.c.peer, android |-> an,
                                              rev |-> rv, binding |-> bi]]
    PROVE  FirstPairFields(n)
BY DEF FirstPairFields, FirstPairPlaces

(* The offer names the phone at the other end.                             *)
LEMMA AcceptAndroidOfferInv ==
    ASSUME PairingInv, NEW ok, AcceptAndroidOffer(ok)
    PROVE  PairingInv'
<1>1. /\ fp.c.pc = "offer" /\ fp.c.pc # "accept" /\ ~Replacing(fp) /\ Spend(ok)
      /\ Carries("first_pair", fp.c.peer, "android_first_pair_offer")
      /\ UNCHANGED <<hostUp, store, ctl, session, phone, srv, agreed>>
  BY DEF AcceptAndroidOffer, FirstPairReads, Replacing
<1>2. faults' \in 0..MaxFaults
  BY <1>1, FirstCandidate, SpendBounded
<1>3. CASE EndCandidate
  BY <1>1, <1>2, <1>3, EndsInv
<1> DEFINE key == Wire("first_pair", fp.c.peer).body.identity
<1>4. CASE /\ fp' = [fp EXCEPT !.c = [fp.c EXCEPT !.pc = "user", !.android = key]]
           /\ conn' = [conn EXCEPT !["first_pair"][fp.c.peer].wire = None]
  <2>1. key = fp.c.peer
    BY <1>1, FirstCandidate DEF Carries, ParsesAs, Wire, FirstPairRecordAt
  <2> HIDE DEF key
  <2>2. fp' = [running |-> fp.running, c |-> [pc |-> "user", peer |-> fp.c.peer, android |-> key,
                                              rev |-> fp.c.rev, binding |-> fp.c.binding]]
    BY <1>1, <1>4, FirstCandidate DEF FirstPairFields
  <2>3. FirstPairFields(fp')
    BY <1>1, <2>2, FirstCandidate, FirstWith DEF FirstPairPlaces
  <2>4. FirstPairAt(fp', srv, agreed')
    BY <2>1, <2>2, <2>3 DEF FirstPairAt
  <2> QED BY <1>1, <1>2, <1>4, <2>4, NothingOffered, GoesOnInv
<1> QED BY <1>3, <1>4 DEF AcceptAndroidOffer, FirstPairStep

(* The user of the Host confirms before the confirmation leaves.           *)
LEMMA ConfirmLocalUserInv ==
    ASSUME PairingInv, NEW yes \in BOOLEAN, ConfirmLocalUser(yes)
    PROVE  PairingInv'
<1>1. /\ fp.c.pc = "user" /\ fp.c.pc # "accept" /\ ~Replacing(fp) /\ Spend(yes)
      /\ UNCHANGED <<hostUp, store, ctl, session, phone, srv>>
      /\ agreed' = IF yes THEN agreed \union {<<"host", fp.c.android>>} ELSE agreed
  BY DEF ConfirmLocalUser, Replacing
<1>2. faults' \in 0..MaxFaults /\ agreed \subseteq agreed'
  BY <1>1, FirstCandidate, SpendBounded
<1>3. CASE EndCandidate
  BY <1>1, <1>2, <1>3, EndsInv
<1>4. ASSUME NEW body, yes, fp' = [fp EXCEPT !.c = [fp.c EXCEPT !.pc = "confirmation"]],
             conn' = Send("first_pair", fp.c.peer, "host_first_pair_confirmation", body)
      PROVE  PairingInv'
  <2>1. <<"host", fp.c.peer>> \in agreed'
    BY <1>1, <1>4, FirstCandidate
  <2>2. fp' = [running |-> fp.running,
               c |-> [pc |-> "confirmation", peer |-> fp.c.peer, android |-> fp.c.android,
                      rev |-> fp.c.rev, binding |-> fp.c.binding]]
    BY <1>1, <1>4, FirstCandidate DEF FirstPairFields
  <2>3. FirstPairFields(fp')
    BY <1>1, <2>2, FirstCandidate, FirstWith DEF FirstPairPlaces
  <2>4. FirstPairAt(fp', srv, agreed')
    BY <1>1, <2>2, <2>3, FirstCandidate DEF FirstPairAt
  <2>5. FirstPairRecordAt(fp.c.peer, EncodeRecord("host_first_pair_confirmation", body), srv, agreed')
    BY <2>1 DEF FirstPairRecordAt, EncodeRecord
  <2> QED BY <1>1, <1>2, <1>4, <2>4, <2>5, GoesOnInv DEF Send
<1> QED BY <1>3, <1>4 DEF ConfirmLocalUser, FirstPairStep

(* The phone's confirmation verifies.                                      *)
LEMMA AcceptAndroidUserConfirmationInv ==
    ASSUME PairingInv, NEW ok, AcceptAndroidUserConfirmation(ok)
    PROVE  PairingInv'
<1>1. /\ fp.c.pc = "confirmation" /\ fp.c.pc # "accept" /\ ~Replacing(fp) /\ Spend(ok)
      /\ UNCHANGED <<hostUp, store, ctl, session, phone, srv, agreed>>
  BY DEF AcceptAndroidUserConfirmation, FirstPairReads, Replacing
<1>2. faults' \in 0..MaxFaults
  BY <1>1, FirstCandidate, SpendBounded
<1>3. CASE EndCandidate
  BY <1>1, <1>2, <1>3, EndsInv
<1>4. CASE /\ fp' = [fp EXCEPT !.c = [fp.c EXCEPT !.pc = "proof"]]
           /\ conn' = [conn EXCEPT !["first_pair"][fp.c.peer].wire = None]
  <2>2. fp' = [running |-> fp.running,
               c |-> [pc |-> "proof", peer |-> fp.c.peer, android |-> fp.c.android,
                      rev |-> fp.c.rev, binding |-> fp.c.binding]]
    BY <1>1, <1>4, FirstCandidate DEF FirstPairFields
  <2>3. FirstPairFields(fp')
    BY <1>1, <2>2, FirstCandidate, FirstWith DEF FirstPairPlaces
  <2>4. FirstPairAt(fp', srv, agreed')
    BY <1>1, <2>2, <2>3, FirstCandidate DEF FirstPairAt
  <2> QED BY <1>1, <1>2, <1>4, <2>4, NothingOffered, GoesOnInv
<1> QED BY <1>3, <1>4 DEF AcceptAndroidUserConfirmation, FirstPairStep

(* The Host signs the activation it is asked for.                          *)
LEMMA AcceptActivationProofRequestInv ==
    ASSUME PairingInv, NEW ok, AcceptActivationProofRequest(ok)
    PROVE  PairingInv'
<1>1. /\ fp.c.pc = "proof" /\ fp.c.pc # "accept" /\ ~Replacing(fp) /\ Spend(ok)
      /\ UNCHANGED <<hostUp, store, ctl, session, phone, srv, agreed>>
  BY DEF AcceptActivationProofRequest, FirstPairReads, Replacing
<1>2. faults' \in 0..MaxFaults
  BY <1>1, FirstCandidate, SpendBounded
<1>3. CASE EndCandidate
  BY <1>1, <1>2, <1>3, EndsInv
<1>4. ASSUME NEW proof, fp' = [fp EXCEPT !.c = [fp.c EXCEPT !.pc = "result", !.rev = proof.rev]],
             conn' = Send("first_pair", fp.c.peer, "host_activation_signature", Sign(HostKey, proof))
      PROVE  PairingInv'
  <2>2. fp' = [running |-> fp.running,
               c |-> [pc |-> "result", peer |-> fp.c.peer, android |-> fp.c.android,
                      rev |-> proof.rev, binding |-> fp.c.binding]]
    BY <1>1, <1>4, FirstCandidate DEF FirstPairFields
  <2>3. FirstPairFields(fp')
    BY <1>1, <2>2, FirstCandidate, FirstWith DEF FirstPairPlaces
  <2>4. FirstPairAt(fp', srv, agreed')
    BY <1>1, <2>2, <2>3, FirstCandidate DEF FirstPairAt
  <2>5. FirstPairRecordAt(fp.c.peer, EncodeRecord("host_activation_signature", Sign(HostKey, proof)),
                          srv, agreed')
    BY DEF FirstPairRecordAt, EncodeRecord
  <2> QED BY <1>1, <1>2, <1>4, <2>4, <2>5, GoesOnInv DEF Send
<1> QED BY <1>3, <1>4 DEF AcceptActivationProofRequest, FirstPairStep

(* The activation result names the pair the service activated.             *)
LEMMA AcceptActivationResultInv ==
    ASSUME PairingInv, NEW ok, AcceptActivationResult(ok)
    PROVE  PairingInv'
<1>1. /\ fp.c.pc = "result" /\ fp.c.pc # "accept" /\ ~Replacing(fp) /\ Spend(ok)
      /\ Carries("first_pair", fp.c.peer, "activation_result")
      /\ UNCHANGED <<hostUp, store, ctl, session, phone, srv, agreed>>
  BY DEF AcceptActivationResult, FirstPairReads, Replacing
<1>2. faults' \in 0..MaxFaults
  BY <1>1, FirstCandidate, SpendBounded
<1>3. CASE EndCandidate
  BY <1>1, <1>2, <1>3, EndsInv
<1> DEFINE result == Wire("first_pair", fp.c.peer).body
           new == Pair(result.ent, result.rev, result.revoc, HostKey, fp.c.android)
<1>4. CASE /\ fp' = [fp EXCEPT !.c = [fp.c EXCEPT !.pc = "persist", !.binding = Binding(new, 0)]]
           /\ conn' = [conn EXCEPT !["first_pair"][fp.c.peer].wire = None]
  <2>1. IssuedAt(new, srv, agreed)
    BY <1>1, FirstCandidate DEF Carries, ParsesAs, Wire, FirstPairRecordAt
  <2> HIDE DEF new
  <2>2. Binding(new, 0) \in Bindings /\ Binding(new, 0).pair = new
    BY <2>1 DEF IssuedAt, Binding, Bindings
  <2>3. fp' = [running |-> fp.running,
               c |-> [pc |-> "persist", peer |-> fp.c.peer, android |-> fp.c.android,
                      rev |-> fp.c.rev, binding |-> Binding(new, 0)]]
    BY <1>1, <1>4, FirstCandidate DEF FirstPairFields
  <2>4. FirstPairFields(fp')
    BY <1>1, <2>3, FirstCandidate, FirstWith DEF FirstPairPlaces
  <2>5. FirstPairAt(fp', srv, agreed')
    BY <1>1, <2>1, <2>2, <2>3, <2>4, FirstCandidate DEF FirstPairAt
  <2> QED BY <1>1, <1>2, <1>4, <2>5, NothingOffered, GoesOnInv
<1> QED BY <1>3, <1>4 DEF AcceptActivationResult, FirstPairStep

(* commit_server_authorized_rebinding on the file: nothing, or a later     *)
(* binding takes the place of the one before.                              *)
LEMMA RebindingResult ==
    ASSUME PairingInv, NEW ok \in BOOLEAN, NEW b \in Bindings, NEW r,
           r = CommitServerAuthorizedRebinding(store, b, ok)
    PROVE  \/ r.done \in BOOLEAN /\ r.file = store
           \/ /\ r.done = TRUE /\ r.file = b /\ b.hwm = 0
              /\ store = None \/ (store \in Bindings /\ MayRebind(store, b))
<1>0. store # None => store \in Bindings
  BY DEF PairingInv, StoreAt
<1>1. CASE ~ValidBinding(b) \/ b.hwm # 0
  BY <1>1 DEF CommitServerAuthorizedRebinding
<1>2. CASE ~(~ValidBinding(b) \/ b.hwm # 0) /\ store # None /\ store.pair = b.pair
  BY <1>2 DEF CommitServerAuthorizedRebinding
<1>3. CASE ~(~ValidBinding(b) \/ b.hwm # 0) /\ store # None /\ store.pair # b.pair /\ ~MayRebind(store, b)
  BY <1>3 DEF CommitServerAuthorizedRebinding
<1>4. CASE /\ ~(~ValidBinding(b) \/ b.hwm # 0) /\ ~(store # None /\ store.pair = b.pair)
           /\ ~(store # None /\ ~MayRebind(store, b))
  <2>1. r = [done |-> ok, file |-> PersistAtomically(store, b, ok)]
    BY <1>4 DEF CommitServerAuthorizedRebinding
  <2>2. r.done = ok /\ r.file = IF ok THEN b ELSE store
    BY <2>1 DEF PersistAtomically
  <2> QED BY <1>0, <1>4, <2>2
<1> QED BY <1>1, <1>2, <1>3, <1>4

(* What the commit of a binding does to the file and to the worker.        *)
LEMMA BindingCommitCases ==
    ASSUME PairingInv, NEW ok \in BOOLEAN, BindingCommit(ok)
    PROVE  /\ fp.c.pc = "persist" /\ faults' \in 0..MaxFaults
           /\ UNCHANGED <<hostUp, ctl, session, phone, srv, agreed>>
           /\ \/ store' = store /\ EndCandidate
              \/ /\ fp' = [fp EXCEPT !.c = [fp.c EXCEPT !.pc = "stop"]] /\ UNCHANGED conn
                 /\ \/ store' = store
                    \/ /\ store' = fp.c.binding /\ fp.c.binding.hwm = 0
                       /\ store = None \/ (store \in Bindings /\ MayRebind(store, fp.c.binding))
<1>1. /\ fp.c.pc = "persist" /\ fp.c.pc # "accept" /\ Spend(ok)
      /\ UNCHANGED <<hostUp, ctl, session, phone, srv, agreed>>
  BY DEF BindingCommit
<1>2. faults' \in 0..MaxFaults
  BY <1>1, FirstCandidate, SpendBounded
<1>3. fp.c.binding \in Bindings
  BY <1>1 DEF PairingInv, FirstPairAt
<1>4. PICK r : /\ r = CommitServerAuthorizedRebinding(store, fp.c.binding, ok)
               /\ store' = r.file
               /\ FirstPairStep(r.done, [fp.c EXCEPT !.pc = "stop"], conn)
  BY DEF BindingCommit
<1>5. \/ r.done \in BOOLEAN /\ r.file = store
      \/ /\ r.done = TRUE /\ r.file = fp.c.binding /\ fp.c.binding.hwm = 0
         /\ store = None \/ (store \in Bindings /\ MayRebind(store, fp.c.binding))
  BY <1>3, <1>4, RebindingResult
<1>6. \/ fp' = [fp EXCEPT !.c = [fp.c EXCEPT !.pc = "stop"]] /\ UNCHANGED conn
      \/ r.done # TRUE /\ EndCandidate
  BY <1>4 DEF FirstPairStep
<1> QED BY <1>1, <1>2, <1>4, <1>5, <1>6

(* The new binding is stored: whoever relied on the old one relies on a    *)
(* pair of an earlier revision.                                            *)
LEMMA BindingCommitInv ==
    ASSUME PairingInv, NEW ok \in BOOLEAN, BindingCommit(ok)
    PROVE  PairingInv'
<1>1. /\ fp.c.pc = "persist" /\ fp.c.pc # "accept" /\ ~Replacing(fp) /\ faults' \in 0..MaxFaults
      /\ UNCHANGED <<hostUp, ctl, session, phone, srv, agreed>>
  BY BindingCommitCases DEF Replacing
<1>2. CASE store' = store /\ EndCandidate
  BY <1>1, <1>2, EndsInv
<1>3. CASE /\ fp' = [fp EXCEPT !.c = [fp.c EXCEPT !.pc = "stop"]] /\ UNCHANGED conn
           /\ \/ store' = store
              \/ /\ store' = fp.c.binding /\ fp.c.binding.hwm = 0
                 /\ store = None \/ (store \in Bindings /\ MayRebind(store, fp.c.binding))
  <2>1. fp' = [running |-> fp.running,
               c |-> [pc |-> "stop", peer |-> fp.c.peer, android |-> fp.c.android,
                      rev |-> fp.c.rev, binding |-> fp.c.binding]]
    BY <1>1, <1>3, FirstCandidate DEF FirstPairFields
  <2>2. FirstPairFields(fp')
    BY <1>1, <2>1, FirstCandidate, FirstWith DEF FirstPairPlaces
  <2>3. fp.c.binding \in Bindings /\ IssuedAt(fp.c.binding.pair, srv, agreed)
    BY <1>1 DEF PairingInv, FirstPairAt
  <2>4. FirstPairAt(fp', srv', agreed')
    BY <1>1, <2>1, <2>2, <2>3, FirstCandidate DEF FirstPairAt
  <2>5. StoreAt(store', srv', agreed')
    BY <1>1, <1>3, <2>3 DEF StoreAt, PairingInv
  <2>6. Onward
    <3>1. ServerAt(srv, agreed) /\ ServerAt(srv', agreed') /\ StoreAt(store, srv, agreed) /\ srv.hw \in Nat
      BY <1>1, ServerTypes DEF PairingInv
    <3>2. Forward
      BY <1>1, <1>3, <2>3, <3>1 DEF Forward, MayRebind
    <3> QED BY <3>1, <3>2, ForwardIsOnward
  <2>7. Replacing(fp')
    BY <2>1 DEF Replacing
  <2>8. CommittedAt(ctl', store', fp') /\ SessionAt(session', store', fp')
    BY <1>1, <2>6, <2>7 DEF PairingInv, CommittedAt, SessionAt, Onward
  <2>9. PhonesAt(phone', srv', agreed', store') /\ ConnAt(conn', srv', agreed', store')
    BY <1>1, <1>3, <2>6, PhonesStay, ConnStays DEF PairingInv
  <2> QED BY <1>1, <2>4, <2>5, <2>8, <2>9 DEF PairingInv
<1> QED BY <1>2, <1>3, BindingCommitCases

(* The control service stops; its last candidate may still be on its way   *)
(* out.                                                                    *)
LEMMA StopControlInv ==
    ASSUME PairingInv, StopControl
    PROVE  PairingInv'
<1>1. /\ fp.c.pc = "stop" /\ fp.c.pc # "accept"
      /\ fp' = [fp EXCEPT !.c.pc = "join"] /\ ctl' = [ctl EXCEPT !.running = FALSE]
      /\ conn' = IF ctl.c.peer = None THEN conn ELSE HostCloses("control", ctl.c.peer)
      /\ UNCHANGED <<hostUp, store, session, phone, srv, faults, agreed>>
  BY DEF StopControl
<1>2. fp' = [running |-> fp.running,
             c |-> [pc |-> "join", peer |-> fp.c.peer, android |-> fp.c.android,
                    rev |-> fp.c.rev, binding |-> fp.c.binding]]
  BY <1>1, FirstCandidate DEF FirstPairFields
<1>3. FirstPairFields(fp')
  <2>1. FirstPairFields(fp) /\ "join" \in FirstPairPlaces \ {"accept"}
    BY <1>1, FirstCandidate DEF FirstPairPlaces
  <2> QED BY <1>1, <1>2, <2>1, FirstWith
<1>4. FirstPairAt(fp', srv, agreed) /\ Replacing(fp')
  BY <1>1, <1>2, <1>3, FirstCandidate DEF FirstPairAt, Replacing
<1>5. PICK b \in BOOLEAN : ctl' = [running |-> b, pair |-> ctl.pair, c |-> ctl.c]
  <2>1. ctl = [running |-> ctl.running, pair |-> ctl.pair, c |-> ctl.c]
    BY Zenon DEF PairingInv, ControlAt, ControlFields
  <2>2. \A b : [ctl EXCEPT !.running = b] = [running |-> b, pair |-> ctl.pair, c |-> ctl.c]
    BY <2>1
  <2>3. ctl' = [running |-> FALSE, pair |-> ctl.pair, c |-> ctl.c] /\ FALSE \in BOOLEAN
    BY <1>1, <2>2, Zenon
  <2> QED BY <2>3, Zenon
<1>6. ControlFields(ctl') /\ ctl'.c = ctl.c
  BY <1>5 DEF PairingInv, ControlAt, ControlFields
<1>7. ControlAt(ctl', srv, agreed) /\ CommittedAt(ctl', store, fp') /\ SessionAt(session, store, fp')
  BY <1>4, <1>6 DEF PairingInv, ControlAt, CommittedAt, SessionAt
<1>8. ConnAt(conn', srv, agreed, store)
  <2>1. ConnAt(conn, srv, agreed, store) /\ ctl.c.peer \in Phones \union {None}
    BY DEF PairingInv, ControlAt, ControlFields
  <2>2. CASE ctl.c.peer = None
    BY <1>1, <2>1, <2>2
  <2>3. CASE ctl.c.peer # None
    <3>1. conn' = HostCloses("control", ctl.c.peer) /\ ctl.c.peer \in Phones
      BY <1>1, <2>1, <2>3
    <3> QED BY <2>1, <3>1, NothingNew, PortNames, Zenon DEF HostCloses
  <2> QED BY <2>2, <2>3
<1> QED BY <1>1, <1>4, <1>7, <1>8 DEF PairingInv

(* The control service starts with the new binding and no session.         *)
LEMMA RestartControlInv ==
    ASSUME PairingInv, NEW ok, RestartControl(ok)
    PROVE  PairingInv'
<1>1. /\ fp.c.pc = "join" /\ fp.c.pc # "accept" /\ Spend(ok) /\ session' = None /\ ctl.c.pc = "accept"
      /\ ctl' = IF ok THEN [running |-> TRUE, pair |-> fp.c.binding, c |-> IdleCoordinator]
                      ELSE [ctl EXCEPT !.running = FALSE]
      /\ UNCHANGED <<hostUp, store, phone, srv, agreed>>
  BY DEF RestartControl
<1>2. faults' \in 0..MaxFaults
  BY <1>1, FirstCandidate, SpendBounded
<1>3. PICK b \in BOOLEAN : \E y : ctl' = [running |-> b, pair |-> y, c |-> IdleCoordinator]
  <2>1. ctl = [running |-> ctl.running, pair |-> ctl.pair, c |-> IdleCoordinator]
    <3>1. ctl = [running |-> ctl.running, pair |-> ctl.pair, c |-> ctl.c]
      BY Zenon DEF PairingInv, ControlAt, ControlFields
    <3>2. ctl.c = IdleCoordinator
      BY <1>1 DEF PairingInv, ControlAt, ControlFields
    <3> QED BY <3>1, <3>2, Zenon
  <2>2. \A b : [ctl EXCEPT !.running = b] = [running |-> b, pair |-> ctl.pair, c |-> IdleCoordinator]
    BY <2>1
  <2>3. \/ ctl' = [running |-> TRUE, pair |-> fp.c.binding, c |-> IdleCoordinator]
        \/ ctl' = [running |-> FALSE, pair |-> ctl.pair, c |-> IdleCoordinator]
    BY <1>1, <2>2, Zenon
  <2>4. CASE ctl' = [running |-> TRUE, pair |-> fp.c.binding, c |-> IdleCoordinator]
    <3>1. TRUE \in BOOLEAN /\ \E y : ctl' = [running |-> TRUE, pair |-> y, c |-> IdleCoordinator]
      BY <2>4, Zenon
    <3> QED BY <3>1, Zenon
  <2>5. CASE ctl' = [running |-> FALSE, pair |-> ctl.pair, c |-> IdleCoordinator]
    <3>1. FALSE \in BOOLEAN /\ \E y : ctl' = [running |-> FALSE, pair |-> y, c |-> IdleCoordinator]
      BY <2>5, Zenon
    <3> QED BY <3>1, Zenon
  <2> QED BY <2>3, <2>4, <2>5, Zenon
<1>4. ControlAt(ctl', srv, agreed) /\ CommittedAt(ctl', store, fp')
  BY <1>3, IdleControl
<1>5. FirstPairAt(fp', srv, agreed) /\ ConnAt(conn', srv, agreed, store)
  <2>1. CASE EndCandidate
    <3>1. fp' = [fp EXCEPT !.c = IdleFirstPair] /\ conn' = HostCloses("first_pair", fp.c.peer)
      BY <2>1 DEF EndCandidate
    <3>2. ConnAt(conn', srv, agreed, store)
      BY <1>1, <3>1, FirstCandidate, NothingNew, PortNames, Zenon DEF HostCloses
    <3> QED BY <3>1, <3>2, IdleFirstAgain
  <2>2. CASE fp' = [fp EXCEPT !.c = [fp.c EXCEPT !.pc = "complete"]] /\ conn' = conn
    <3>1. fp' = [running |-> fp.running,
                 c |-> [pc |-> "complete", peer |-> fp.c.peer, android |-> fp.c.android,
                        rev |-> fp.c.rev, binding |-> fp.c.binding]]
      BY <1>1, <2>2, FirstCandidate DEF FirstPairFields
    <3>2. FirstPairFields(fp')
      BY <1>1, <3>1, FirstCandidate, FirstWith DEF FirstPairPlaces
    <3>3. FirstPairAt(fp', srv, agreed)
      BY <1>1, <3>1, <3>2, FirstCandidate DEF FirstPairAt
    <3> QED BY <1>1, <2>2, <3>3, FirstCandidate
  <2> QED BY <2>1, <2>2 DEF RestartControl, FirstPairStep
<1>6. SessionAt(session', store, fp')
  BY <1>1 DEF SessionAt
<1> QED BY <1>1, <1>2, <1>4, <1>5, <1>6 DEF PairingInv

(* The last record leaves and the candidate is over.                       *)
LEMMA WriteCompleteInv ==
    ASSUME PairingInv, NEW ok, WriteComplete(ok)
    PROVE  PairingInv'
<1> DEFINE body == [commitment |-> Commitment(HostKey, fp.c.android)]
           c == IF ok THEN Send("first_pair", fp.c.peer, "first_pair_complete", body) ELSE conn
<1>1. /\ fp.c.pc = "complete" /\ fp.c.pc # "accept" /\ ~Replacing(fp) /\ Spend(ok)
      /\ fp' = [fp EXCEPT !.c = IdleFirstPair]
      /\ conn' = [c EXCEPT !["first_pair"][fp.c.peer] =
                     IF @.phone THEN [@ EXCEPT !.host = FALSE] ELSE NoConn]
      /\ UNCHANGED <<hostUp, store, ctl, session, phone, srv, agreed>>
  BY DEF WriteComplete, Replacing
<1>2. faults' \in 0..MaxFaults
  BY <1>1, FirstCandidate, SpendBounded
<1>3. ConnAt(c, srv, agreed, store)
  <2>1. FirstPairRecordAt(fp.c.peer, EncodeRecord("first_pair_complete", body), srv, agreed)
    BY DEF FirstPairRecordAt, EncodeRecord
  <2> QED BY <1>1, <2>1, FirstCandidate, Sends, PortNames DEF Send
<1> HIDE DEF c
<1>4. ConnAt(conn', srv, agreed, store)
  BY <1>1, <1>3, FirstCandidate, NothingNew, PortNames, Zenon
<1>5. FirstPairAt(fp', srv, agreed)
  BY <1>1, IdleFirstAgain
<1>6. PhonesAt(phone', srv, agreed', store) /\ ConnAt(conn', srv, agreed', store)
      /\ FirstPairAt(fp', srv, agreed')
  BY <1>1, <1>4, <1>5 DEF PairingInv
<1> QED BY <1>1, <1>2, <1>6, FirstPairAlone

(* A read that fails ends the candidate.                                   *)
LEMMA FirstPairReadFailsInv ==
    ASSUME PairingInv, FirstPairReadFails
    PROVE  PairingInv'
<1>1. /\ fp.c.pc # "accept" /\ ~Replacing(fp) /\ EndCandidate /\ \E ok : Spend(ok)
      /\ UNCHANGED <<hostUp, store, ctl, session, phone, srv, agreed>>
  BY DEF FirstPairReadFails, Replacing
<1>2. faults' \in 0..MaxFaults
  BY <1>1, FirstCandidate, SpendBounded
<1> QED BY <1>1, <1>2, EndsInv

-----------------------------------------------------------------------------
(* The phone's side of first pairing.                                      *)

(* A phone at another stage of its first pairing: it may be past the       *)
(* confirmations only when both users gave theirs.                         *)
LEMMA StagedPhone ==
    ASSUME NEW ph, NEW p, NEW sv, NEW ag, NEW st, PhoneAt(ph, p, sv, ag, st), NEW y,
           y \in {"confirmed", "activating"} => <<"host", p>> \in ag /\ <<"android", p>> \in ag
    PROVE  PhoneAt([ph EXCEPT !.fpc = y], p, sv, ag, st)
<1>1. PhoneFields(ph)
  BY DEF PhoneAt
<1> DEFINE n == [ph EXCEPT !.fpc = y]
<1>2. n = [ent |-> ph.ent, fpc |-> y, cpc |-> ph.cpc, an |-> ph.an, hn |-> ph.hn,
           challenge |-> ph.challenge, cred |-> ph.cred, transcript |-> ph.transcript,
           policy |-> ph.policy]
  BY <1>1, WithStage
<1> HIDE DEF n
<1>3. /\ n.ent = ph.ent /\ n.fpc = y /\ n.cpc = ph.cpc /\ n.an = ph.an /\ n.hn = ph.hn
      /\ n.challenge = ph.challenge /\ n.cred = ph.cred /\ n.transcript = ph.transcript
      /\ n.policy = ph.policy
  BY <1>2
<1>4. PhoneFields(n)
  BY <1>1, <1>2, <1>3 DEF PhoneFields
<1>5. PhoneAt(n, p, sv, ag, st)
  BY <1>3, <1>4 DEF PhoneAt
<1> QED BY <1>5 DEF n

(* A step of a phone that only moves its stage and its connection.         *)
LEMMA StageInv ==
    ASSUME PairingInv, NEW p \in Phones, NEW y,
           phone' = [phone EXCEPT ![p] = [phone[p] EXCEPT !.fpc = y]],
           agreed \subseteq agreed', faults' \in 0..MaxFaults,
           y \in {"confirmed", "activating"} => <<"host", p>> \in agreed' /\ <<"android", p>> \in agreed',
           UNCHANGED <<hostUp, store, ctl, session, srv>>,
           FirstPairAt(fp', srv, agreed'), Replacing(fp) => Replacing(fp'),
           ConnAt(conn', srv, agreed', store)
    PROVE  PairingInv'
<1>1. Onward
  BY AgreeMore
<1>2. PhonesAt(phone, srv, agreed', store)
  BY <1>1, PhonesStay DEF PairingInv
<1>3. PhoneAt(phone[p], p, srv, agreed', store)
  BY <1>2 DEF PhonesAt
<1>4. PhoneAt([phone[p] EXCEPT !.fpc = y], p, srv, agreed', store)
  BY <1>3, StagedPhone
<1>5. PhonesAt(phone', srv, agreed', store)
  BY <1>2, <1>4, OnePhone
<1> QED BY <1>5, FirstPairAlone

(* The parts that a phone's step leaves as they are.                       *)
LEMMA FirstPairKept ==
    ASSUME PairingInv, agreed \subseteq agreed', UNCHANGED <<fp, srv, store>>
    PROVE  /\ FirstPairAt(fp', srv, agreed') /\ (Replacing(fp) => Replacing(fp'))
           /\ ConnAt(conn, srv, agreed', store)
<1>1. Onward
  BY AgreeMore
<1> QED BY <1>1, PartsStay, ConnStays DEF PairingInv

(* A phone is accepted and the Host offers.                                *)
LEMMA ConnectFirstPairInv ==
    ASSUME PairingInv, NEW p \in Phones, ConnectFirstPair(p)
    PROVE  PairingInv'
<1> DEFINE rec == EncodeRecord("host_first_pair_offer", [identity |-> HostKey])
<1>1. /\ fp.c.pc = "accept" /\ UNCHANGED <<hostUp, store, ctl, session, srv, faults, agreed>>
      /\ fp' = [fp EXCEPT !.c.pc = "offer", !.c.peer = p]
      /\ phone' = [phone EXCEPT ![p] = [phone[p] EXCEPT !.fpc = "host_offer"]]
      /\ conn' = [conn EXCEPT !["first_pair"][p] = [host |-> TRUE, phone |-> TRUE, wire |-> rec]]
  BY DEF ConnectFirstPair
<1>2. FirstPairRecordAt(p, rec, srv, agreed)
  BY DEF FirstPairRecordAt, EncodeRecord
<1>3. ConnAt(conn', srv, agreed, store)
  <2>1. \A h, q : ConnAt([conn EXCEPT !["first_pair"][p] = [host |-> h, phone |-> q, wire |-> rec]],
                         srv, agreed, store)
    BY <1>2, ThePhone, OneConn, PortNames
  <2> HIDE DEF rec
  <2> QED BY <1>1, <2>1, Zenon
<1>4. FirstPairFields(fp)
  BY DEF PairingInv, FirstPairAt
<1>5. fp' = [running |-> fp.running, c |-> [pc |-> "offer", peer |-> p, android |-> fp.c.android,
                                            rev |-> fp.c.rev, binding |-> fp.c.binding]]
  BY <1>1, <1>4 DEF FirstPairFields
<1>6. FirstPairFields(fp')
  BY <1>4, <1>5 DEF FirstPairFields, FirstPairPlaces
<1>7. FirstPairAt(fp', srv, agreed) /\ ~Replacing(fp)
  <2>1. fp'.c.pc = "offer"
    BY <1>5
  <2>2. ~Replacing(fp)
    BY <1>1 DEF Replacing
  <2> QED BY <1>6, <2>1, <2>2 DEF FirstPairAt
<1>8. faults' \in 0..MaxFaults
  BY <1>1, ThePhone
<1> QED BY <1>1, <1>3, <1>7, <1>8, StageInv

(* The phone offers its own identity.                                      *)
LEMMA PhoneOffersInv ==
    ASSUME PairingInv, NEW p \in Phones, PhoneOffers(p)
    PROVE  PairingInv'
<1> DEFINE rec == EncodeRecord("android_first_pair_offer", [identity |-> p])
<1>1. /\ phone' = [phone EXCEPT ![p] = [phone[p] EXCEPT !.fpc = "user"]]
      /\ conn' = [conn EXCEPT !["first_pair"][p].wire = rec]
      /\ UNCHANGED <<hostUp, store, ctl, fp, session, srv, faults, agreed>>
  BY DEF PhoneOffers, Send
<1>2. FirstPairRecordAt(p, rec, srv, agreed)
  BY DEF FirstPairRecordAt, EncodeRecord
<1>3. ConnAt(conn', srv, agreed, store)
  BY <1>1, <1>2, ThePhone, Sends, PortNames
<1>4. faults' \in 0..MaxFaults
  BY <1>1, ThePhone
<1> QED BY <1>1, <1>3, <1>4, FirstPairKept, StageInv

(* The phone confirms only after the Host's confirmation has come, so that *)
(* from here on both have.                                                 *)
LEMMA PhoneConfirmsInv ==
    ASSUME PairingInv, NEW p \in Phones, PhoneConfirms(p)
    PROVE  PairingInv'
<1> DEFINE rec == EncodeRecord("android_first_pair_confirmation",
                               Sign(p, UserConfirmation("android", HostKey, p)))
<1>1. /\ Carries("first_pair", p, "host_first_pair_confirmation")
      /\ agreed' = agreed \union {<<"android", p>>}
      /\ phone' = [phone EXCEPT ![p] = [phone[p] EXCEPT !.fpc = "confirmed"]]
      /\ conn' = [conn EXCEPT !["first_pair"][p].wire = rec]
      /\ UNCHANGED <<hostUp, store, ctl, fp, session, srv, faults>>
  BY DEF PhoneConfirms, Send
<1>2. FirstPairRecordAt(p, rec, srv, agreed')
  BY DEF FirstPairRecordAt, EncodeRecord
<1>3. conn["first_pair"][p].wire # None /\ conn["first_pair"][p].wire.type = "host_first_pair_confirmation"
  BY <1>1 DEF Carries, Wire, ParsesAs
<1>4. <<"host", p>> \in agreed' /\ <<"android", p>> \in agreed' /\ agreed \subseteq agreed'
  BY <1>1, <1>3, ThePhone DEF FirstPairRecordAt
<1>5. /\ FirstPairAt(fp', srv, agreed') /\ (Replacing(fp) => Replacing(fp'))
      /\ ConnAt(conn, srv, agreed', store)
  BY <1>1, <1>4, FirstPairKept
<1>6. ConnAt(conn', srv, agreed', store)
  BY <1>1, <1>2, <1>5, Sends, PortNames
<1>7. faults' \in 0..MaxFaults
  BY <1>1, ThePhone
<1> QED BY <1>1, <1>4, <1>5, <1>6, <1>7, StageInv

(* The phone asks for the proof after both confirmations.                  *)
LEMMA PhoneRequestsProofInv ==
    ASSUME PairingInv, NEW p \in Phones, PhoneRequestsProof(p)
    PROVE  PairingInv'
<1> DEFINE rec == EncodeRecord("activation_proof_request",
                               [host |-> HostKey, android |-> p, rev |-> srv.rev + 1])
<1>1. /\ phone[p].fpc = "confirmed"
      /\ phone' = [phone EXCEPT ![p] = [phone[p] EXCEPT !.fpc = "activating"]]
      /\ conn' = [conn EXCEPT !["first_pair"][p].wire = rec]
      /\ UNCHANGED <<hostUp, store, ctl, fp, session, srv, faults, agreed>>
  BY DEF PhoneRequestsProof, Send
<1>2. FirstPairRecordAt(p, rec, srv, agreed)
  BY DEF FirstPairRecordAt, EncodeRecord
<1>3. ConnAt(conn', srv, agreed, store)
  BY <1>1, <1>2, ThePhone, Sends, PortNames
<1>4. <<"host", p>> \in agreed /\ <<"android", p>> \in agreed /\ faults' \in 0..MaxFaults
  BY <1>1, ThePhone DEF PhoneAt
<1> QED BY <1>1, <1>3, <1>4, FirstPairKept, StageInv

(* The phone is paired.                                                    *)
LEMMA PhoneCompletesInv ==
    ASSUME PairingInv, NEW p \in Phones, PhoneCompletes(p)
    PROVE  PairingInv'
<1>1. /\ phone' = [phone EXCEPT ![p] = [phone[p] EXCEPT !.fpc = "idle"]]
      /\ conn' = [conn EXCEPT !["first_pair"][p] = NoConn]
      /\ UNCHANGED <<hostUp, store, ctl, fp, session, srv, faults, agreed>>
  BY DEF PhoneCompletes
<1>2. ConnAt(conn', srv, agreed, store) /\ faults' \in 0..MaxFaults
  BY <1>1, ThePhone, NothingNew, PortNames
<1> QED BY <1>1, <1>2, FirstPairKept, StageInv

(* Any failure ends the attempt of the phone.                              *)
LEMMA PhoneFirstPairFailsInv ==
    ASSUME PairingInv, NEW p \in Phones, PhoneFirstPairFails(p)
    PROVE  PairingInv'
<1>1. /\ phone' = [phone EXCEPT ![p] = [phone[p] EXCEPT !.fpc = "idle"]]
      /\ conn' = PhoneCloses("first_pair", p) /\ \E ok : Spend(ok)
      /\ UNCHANGED <<hostUp, store, ctl, fp, session, srv, agreed>>
  BY DEF PhoneFirstPairFails
<1>2. ConnAt(conn', srv, agreed, store)
  BY <1>1, ThePhone, NothingNew, PortNames, Zenon DEF PhoneCloses
<1>3. faults' \in 0..MaxFaults
  BY <1>1, SpendBounded, ThePhone
<1> QED BY <1>1, <1>2, <1>3, FirstPairKept, StageInv

(* The activation: the service has no pair of the card, so the new one is  *)
(* the first of its revision; every generation before it is of an earlier. *)
LEMMA ActivatedServer ==
    ASSUME PairingInv, NEW p \in Phones, srv.pair = None, NEW new,
           new = Pair(Ent, srv.rev + 1, 1, HostKey, p),
           <<"host", p>> \in agreed, <<"android", p>> \in agreed,
           srv' = [srv EXCEPT !.pair = new, !.rev = srv.rev + 1, !.hw = 0], UNCHANGED <<agreed, store>>
    PROVE  /\ ServerAt(srv', agreed') /\ Onward
           /\ IssuedAt(new, srv', agreed) /\ new.rev = srv.rev + 1 /\ new.revoc = 1
<1>1. srv = [pair |-> srv.pair, rev |-> srv.rev, hw |-> srv.hw, chal |-> srv.chal,
             pairOf |-> srv.pairOf, expired |-> srv.expired, alloc |-> srv.alloc]
  BY Zenon DEF PairingInv, ServerAt, ServerFields
<1>2. srv' = [pair |-> new, rev |-> srv.rev + 1, hw |-> 0, chal |-> srv.chal,
              pairOf |-> srv.pairOf, expired |-> srv.expired, alloc |-> srv.alloc]
  BY <1>1
<1>3. ServerAt(srv, agreed) /\ ServerFields(srv) /\ srv.rev \in Nat /\ srv.rev < MaxRev
  <2>1. ServerAt(srv, agreed)
    BY DEF PairingInv
  <2>2. ~IssuedAt(None, srv, agreed)
    BY NoneAssumption DEF IssuedAt
  <2> QED BY <2>1, <2>2, ServerTypes DEF ServerAt
<1>4. new \in Pairs /\ new.rev = srv.rev + 1 /\ new.revoc = 1 /\ new.android = p
  <2>1. new = [ent |-> Ent, rev |-> srv.rev + 1, revoc |-> 1, host |-> HostKey, android |-> p]
    BY DEF Pair
  <2>2. srv.rev + 1 \in 1..MaxRev
    BY <1>3, PairingAssumption
  <2> QED BY <2>1, <2>2 DEF Pairs
<1>5. /\ srv'.pair = new /\ srv'.rev = srv.rev + 1 /\ srv'.hw = 0 /\ srv'.chal = srv.chal
      /\ srv'.pairOf = srv.pairOf /\ srv'.alloc = srv.alloc
      /\ srv' = [pair |-> srv'.pair, rev |-> srv'.rev, hw |-> srv'.hw, chal |-> srv'.chal,
                 pairOf |-> srv'.pairOf, expired |-> srv'.expired, alloc |-> srv'.alloc]
  BY <1>2
<1>6. ServerFields(srv')
  <2>1. srv'.rev \in 0..MaxRev /\ srv'.hw \in 0..MaxGen
    BY <1>3, <1>5, PairingAssumption
  <2> QED BY <1>3, <1>5, <2>1 DEF ServerFields
<1>7. \A x : IssuedAt(x, srv, agreed) => IssuedAt(x, srv', agreed) /\ x # new
  <2> SUFFICES ASSUME NEW x, IssuedAt(x, srv, agreed)
               PROVE  IssuedAt(x, srv', agreed) /\ x # new
    OBVIOUS
  <2>1. x \in Pairs /\ x.rev \in Nat /\ x.rev <= srv.rev
    BY PairTypes DEF IssuedAt
  <2>2. x.rev < srv'.rev /\ x.rev <= srv'.rev /\ x # new
    BY <1>3, <1>4, <1>5, <2>1
  <2> QED BY <2>1, <2>2 DEF IssuedAt
<1>8. IssuedAt(new, srv', agreed)
  BY <1>3, <1>4, <1>5 DEF IssuedAt
<1>9. ServerAt(srv', agreed')
  <2>1. \A r \in Requests : srv.pairOf[r] # new
    BY <1>3, <1>4, <1>7, PairTypes DEF ServerAt
  <2> QED BY <1>3, <1>4, <1>5, <1>6, <1>7, <1>8, <2>1 DEF ServerAt
<1>10. Onward
  <2>1. Forward
    BY <1>5 DEF Forward
  <2> QED BY <1>3, <1>9, <2>1, ForwardIsOnward DEF PairingInv
<1> QED BY <1>4, <1>8, <1>9, <1>10

(* The service activates and the result names the pair it issued, or the   *)
(* phone gives up.                                                         *)
LEMMA PhoneActivatesInv ==
    ASSUME PairingInv, NEW p \in Phones, NEW ok, PhoneActivates(p, ok)
    PROVE  PairingInv'
<1> DEFINE proof == [host |-> HostKey, android |-> p, rev |-> srv.rev + 1]
           new == Pair(Ent, srv.rev + 1, 1, HostKey, p)
           body == [ent |-> Ent, rev |-> new.rev, revoc |-> new.revoc]
           rec == EncodeRecord("activation_result", body)
<1>1. /\ phone[p].fpc = "activating" /\ Spend(ok)
      /\ UNCHANGED <<hostUp, store, ctl, fp, session, agreed>>
  BY DEF PhoneActivates
<1>2. faults' \in 0..MaxFaults
  BY <1>1, SpendBounded, ThePhone
<1>3. <<"host", p>> \in agreed /\ <<"android", p>> \in agreed
  BY <1>1, ThePhone DEF PhoneAt
<1>f. PhoneFields(phone[p])
  BY ThePhone
<1>4. CASE /\ phone' = [phone EXCEPT ![p] = [phone[p] EXCEPT !.fpc = "idle"]]
           /\ conn' = PhoneCloses("first_pair", p) /\ UNCHANGED srv
  <2>1. ConnAt(conn', srv, agreed, store)
    BY <1>4, ThePhone, NothingNew, PortNames, Zenon DEF PhoneCloses
  <2> QED BY <1>1, <1>2, <1>4, <2>1, FirstPairKept, StageInv
<1>5. ASSUME NEW y, y \in {"complete", "idle"}, srv.pair = None,
             srv' = [srv EXCEPT !.pair = new, !.rev = srv.rev + 1, !.hw = 0],
             phone' = [phone EXCEPT ![p] = [phone[p] EXCEPT !.ent = new, !.fpc = y]],
             \/ conn' = [conn EXCEPT !["first_pair"][p].wire = rec]
             \/ conn' = PhoneCloses("first_pair", p)
      PROVE  PairingInv'
  <2>1. /\ ServerAt(srv', agreed') /\ Onward
        /\ IssuedAt(new, srv', agreed) /\ new.rev = srv.rev + 1 /\ new.revoc = 1
    BY <1>1, <1>3, <1>5, ActivatedServer
  <2>2. /\ ControlAt(ctl', srv', agreed') /\ FirstPairAt(fp', srv', agreed')
        /\ StoreAt(store', srv', agreed')
    BY <1>1, <2>1, PartsStay DEF PairingInv
  <2>3. PhonesAt(phone, srv', agreed', store') /\ ConnAt(conn, srv', agreed', store')
    BY <2>1, PhonesStay, ConnStays DEF PairingInv
  <2>4. new # None
    BY <2>1, PairTypes DEF IssuedAt
  <2>5. FirstPairRecordAt(p, rec, srv', agreed')
    <3>1. rec.type = "activation_result" /\ rec.body = body
      BY DEF EncodeRecord
    <3>2. body.ent = Ent /\ body.rev = srv.rev + 1 /\ body.revoc = 1
      BY <2>1
    <3> HIDE DEF rec, body
    <3> QED BY <1>1, <2>1, <3>1, <3>2 DEF FirstPairRecordAt
  <2> HIDE DEF new
  <2>6. PhoneAt([phone[p] EXCEPT !.ent = new, !.fpc = y], p, srv', agreed', store')
    <3> DEFINE n == [phone[p] EXCEPT !.ent = new, !.fpc = y]
    <3>1. n = [ent |-> new, fpc |-> y, cpc |-> phone[p].cpc, an |-> phone[p].an, hn |-> phone[p].hn,
               challenge |-> phone[p].challenge, cred |-> phone[p].cred,
               transcript |-> phone[p].transcript, policy |-> phone[p].policy]
      BY <1>f, WithEntitlement
    <3> HIDE DEF n
    <3>2. /\ n.ent = new /\ n.fpc = y /\ n.cpc = phone[p].cpc /\ n.an = phone[p].an /\ n.hn = phone[p].hn
          /\ n.challenge = phone[p].challenge /\ n.cred = phone[p].cred
          /\ n.transcript = phone[p].transcript /\ n.policy = phone[p].policy
      BY <3>1
    <3>3. PhoneFields(n)
      BY <1>f, <2>4, <3>1, <3>2 DEF PhoneFields
    <3>4. PhoneAt(phone[p], p, srv', agreed', store')
      BY <2>3 DEF PhonesAt
    <3>5. PhoneAt(n, p, srv', agreed', store')
      BY <1>1, <1>5, <2>1, <3>2, <3>3, <3>4 DEF PhoneAt
    <3> QED BY <3>5 DEF n
  <2>7. PhonesAt(phone', srv', agreed', store')
    BY <1>5, <2>3, <2>6, OnePhone
  <2>8. ConnAt(conn', srv', agreed', store')
    <3>1. CASE conn' = [conn EXCEPT !["first_pair"][p].wire = rec]
      <4> HIDE DEF rec
      <4> QED BY <2>3, <2>5, <3>1, Sends, PortNames
    <3>2. CASE conn' = PhoneCloses("first_pair", p)
      BY <2>3, <3>2, NothingNew, PortNames, Zenon DEF PhoneCloses
    <3> QED BY <1>5, <3>1, <3>2
  <2> QED BY <1>1, <1>2, <2>1, <2>2, <2>7, <2>8 DEF PairingInv
<1>6. \/ /\ phone' = [phone EXCEPT ![p] = [phone[p] EXCEPT !.fpc = "idle"]]
         /\ conn' = PhoneCloses("first_pair", p) /\ UNCHANGED srv
      \/ \E y \in {"complete", "idle"} :
            /\ srv.pair = None
            /\ srv' = [srv EXCEPT !.pair = new, !.rev = srv.rev + 1, !.hw = 0]
            /\ phone' = [phone EXCEPT ![p] = [phone[p] EXCEPT !.ent = new, !.fpc = y]]
            /\ \/ conn' = [conn EXCEPT !["first_pair"][p].wire = rec]
               \/ conn' = PhoneCloses("first_pair", p)
  <2> HIDE DEF new
  <2>1. CASE srv.pair = None /\ Verifies(HostKey, proof, Wire("first_pair", p).body)
    <3>1. /\ srv' = [srv EXCEPT !.pair = new, !.rev = srv.rev + 1, !.hw = 0]
          /\ phone' = [phone EXCEPT ![p].ent = new, ![p].fpc = IF ok THEN "complete" ELSE "idle"]
          /\ conn' = IF ok THEN Send("first_pair", p, "activation_result", body)
                           ELSE PhoneCloses("first_pair", p)
      BY <2>1 DEF PhoneActivates, new
    <3>2. CASE ok
      BY <2>1, <3>1, <3>2 DEF Send
    <3>3. CASE ~ok
      BY <2>1, <3>1, <3>3
    <3> QED BY <3>2, <3>3
  <2>2. CASE ~(srv.pair = None /\ Verifies(HostKey, proof, Wire("first_pair", p).body))
    BY <2>2 DEF PhoneActivates
  <2> QED BY <2>1, <2>2
<1> QED BY <1>4, <1>5, <1>6

-----------------------------------------------------------------------------
(* The process of the Host.                                                *)

(* Without its process no worker of first pairing is at anything.          *)
HostRests == ~hostUp => fp.c.pc = "accept"

(* The services start from the file; no session stood on a binding being   *)
(* replaced.                                                               *)
LEMMA HostStartInv ==
    ASSUME PairingInv, HostRests, HostStart
    PROVE  PairingInv'
<1>1. /\ hostUp' = TRUE /\ fp' = [running |-> TRUE, c |-> IdleFirstPair]
      /\ UNCHANGED <<store, session, conn, phone, srv, faults, agreed>>
  BY DEF HostStart
<1>2. hostUp' \in BOOLEAN
  BY <1>1, Zenon
<1>3. PICK r \in BOOLEAN : \E y : ctl' = [running |-> r, pair |-> y, c |-> IdleCoordinator]
  <2>1. \/ ctl' = [running |-> TRUE, pair |-> store, c |-> IdleCoordinator]
        \/ ctl' = [running |-> FALSE, pair |-> None, c |-> IdleCoordinator]
    BY Zenon DEF HostStart
  <2>2. CASE ctl' = [running |-> TRUE, pair |-> store, c |-> IdleCoordinator]
    <3>1. TRUE \in BOOLEAN /\ \E y : ctl' = [running |-> TRUE, pair |-> y, c |-> IdleCoordinator]
      BY <2>2, Zenon
    <3> QED BY <3>1, Zenon
  <2>3. CASE ctl' = [running |-> FALSE, pair |-> None, c |-> IdleCoordinator]
    <3>1. FALSE \in BOOLEAN /\ \E y : ctl' = [running |-> FALSE, pair |-> y, c |-> IdleCoordinator]
      BY <2>3, Zenon
    <3> QED BY <3>1, Zenon
  <2> QED BY <2>1, <2>2, <2>3, Zenon
<1>4. ControlAt(ctl', srv', agreed') /\ CommittedAt(ctl', store', fp')
  BY <1>3, IdleControl
<1>5. FirstPairAt(fp', srv', agreed')
  <2>1. TRUE \in BOOLEAN
    BY Zenon
  <2>2. \A b \in BOOLEAN : FirstPairAt([running |-> b, c |-> IdleFirstPair], srv', agreed')
    BY IdleFirst
  <2> QED BY <1>1, <2>1, <2>2, Zenon
<1>6. SessionAt(session', store', fp')
  <2>1. ~Replacing(fp)
    BY DEF HostStart, HostRests, Replacing
  <2> QED BY <1>1, <2>1, NotReplacing DEF PairingInv
<1> QED BY <1>1, <1>2, <1>4, <1>5, <1>6 DEF PairingInv

(* The control service starts again from the file; nobody else is moved.   *)
LEMMA StartControlAgainInv ==
    ASSUME PairingInv, StartControlAgain
    PROVE  PairingInv'
<1>1. UNCHANGED <<hostUp, store, fp, session, conn, phone, srv, faults, agreed>>
  BY DEF StartControlAgain
<1>2. PICK r \in BOOLEAN : \E y : ctl' = [running |-> r, pair |-> y, c |-> IdleCoordinator]
  <2>1. TRUE \in BOOLEAN /\ \E y : ctl' = [running |-> TRUE, pair |-> y, c |-> IdleCoordinator]
    BY Zenon DEF StartControlAgain
  <2> QED BY <2>1, Zenon
<1>3. ControlAt(ctl', srv', agreed') /\ CommittedAt(ctl', store', fp')
  BY <1>2, IdleControl
<1> QED BY <1>1, <1>3 DEF PairingInv

(* The end of the process closes its connections; what it wrote stays.     *)
LEMMA ClosedEverywhere ==
    ASSUME NEW c, NEW sv, NEW ag, NEW st, ConnAt(c, sv, ag, st), NEW n,
           n = [s \in Ports |-> [p \in Phones |->
                  IF c[s][p].phone THEN [c[s][p] EXCEPT !.host = FALSE] ELSE NoConn]]
    PROVE  ConnAt(n, sv, ag, st)
<1> DEFINE One(s, p) == IF c[s][p].phone THEN [c[s][p] EXCEPT !.host = FALSE] ELSE NoConn
<1>1. ASSUME NEW s \in Ports, NEW p \in Phones
      PROVE  /\ One(s, p) = [host |-> One(s, p).host, phone |-> One(s, p).phone, wire |-> One(s, p).wire]
             /\ One(s, p).wire \in {c[s][p].wire, None}
  <2>0. c[s][p] = [host |-> c[s][p].host, phone |-> c[s][p].phone, wire |-> c[s][p].wire]
    BY Zenon DEF ConnAt, ConnFields
  <2>1. PICK h, q, w : c[s][p] = [host |-> h, phone |-> q, wire |-> w] /\ w = c[s][p].wire
    BY <2>0, Zenon
  <2>2. \A b : [c[s][p] EXCEPT !.host = b] = [host |-> b, phone |-> q, wire |-> w]
    BY <2>1
  <2>3. \E g, k : One(s, p) = [host |-> g, phone |-> k, wire |-> w]
                 \/ One(s, p) = [host |-> g, phone |-> k, wire |-> None]
    <3>1. CASE c[s][p].phone
      <4>1. One(s, p) = [host |-> FALSE, phone |-> q, wire |-> w]
        BY <2>2, <3>1, Zenon
      <4> HIDE DEF One
      <4> QED BY <4>1, Zenon
    <3>2. CASE ~c[s][p].phone
      <4>1. One(s, p) = [host |-> FALSE, phone |-> FALSE, wire |-> None]
        BY <3>2, Zenon DEF NoConn
      <4> HIDE DEF One
      <4> QED BY <4>1, Zenon
    <3> QED BY <3>1, <3>2
  <2> HIDE DEF One
  <2> QED BY <2>1, <2>3
<1> HIDE DEF One
<1>2. n = [s \in Ports |-> [p \in Phones |-> One(s, p)]]
  BY DEF One
<1>3. \A s \in Ports, p \in Phones : n[s][p] = One(s, p)
  BY <1>2
<1>4. ConnFields(n)
  <2>1. n = [s \in Ports |-> n[s]] /\ \A s \in Ports : n[s] = [p \in Phones |-> n[s][p]]
    BY <1>2
  <2>2. \A s \in Ports, p \in Phones :
          n[s][p] = [host |-> n[s][p].host, phone |-> n[s][p].phone, wire |-> n[s][p].wire]
    BY <1>1, <1>3
  <2> QED BY <2>1, <2>2 DEF ConnFields
<1>5. WiresAt(n, sv, ag, st)
  <2> SUFFICES ASSUME NEW p \in Phones
               PROVE  /\ ControlRecordAt(n["control"][p].wire, sv, ag, st)
                      /\ FirstPairRecordAt(p, n["first_pair"][p].wire, sv, ag)
    BY DEF WiresAt
  <2>1. /\ n["control"][p].wire \in {c["control"][p].wire, None}
        /\ n["first_pair"][p].wire \in {c["first_pair"][p].wire, None}
    BY <1>1, <1>3, PortNames
  <2>2. ControlRecordAt(None, sv, ag, st)
    BY DEF ControlRecordAt
  <2>3. /\ ControlRecordAt(c["control"][p].wire, sv, ag, st)
        /\ FirstPairRecordAt(p, c["first_pair"][p].wire, sv, ag)
    BY DEF ConnAt, WiresAt
  <2> QED BY <2>1, <2>2, <2>3, NothingOffered
<1> QED BY <1>4, <1>5 DEF ConnAt

(* The process ends in whatever step it was.                               *)
LEMMA HostCrashInv ==
    ASSUME PairingInv, HostCrash
    PROVE  PairingInv'
<1>1. /\ hostUp' = FALSE /\ fp' = [running |-> FALSE, c |-> IdleFirstPair]
      /\ ctl' = [running |-> FALSE, pair |-> None, c |-> IdleCoordinator]
      /\ session' = None
      /\ conn' = [s \in Ports |-> [p \in Phones |->
                    IF conn[s][p].phone THEN [conn[s][p] EXCEPT !.host = FALSE] ELSE NoConn]]
      /\ UNCHANGED <<store, phone, srv, agreed>>
  BY Zenon DEF HostCrash, HostEnds
<1>2. faults' \in 0..MaxFaults
  BY SpendBounded DEF HostCrash, PairingInv
<1>3. ControlAt(ctl', srv', agreed') /\ CommittedAt(ctl', store', fp')
  <2>1. \A b \in BOOLEAN : \A y :
          /\ ControlAt([running |-> b, pair |-> y, c |-> IdleCoordinator], srv', agreed')
          /\ CommittedAt([running |-> b, pair |-> y, c |-> IdleCoordinator], store', fp')
    BY IdleControl
  <2>2. FALSE \in BOOLEAN
    BY Zenon
  <2> QED BY <1>1, <2>1, <2>2, Zenon
<1>4. FirstPairAt(fp', srv', agreed') /\ hostUp' \in BOOLEAN
  <2>1. \A b \in BOOLEAN : FirstPairAt([running |-> b, c |-> IdleFirstPair], srv', agreed')
    BY IdleFirst
  <2>2. FALSE \in BOOLEAN
    BY Zenon
  <2> QED BY <1>1, <2>1, <2>2, Zenon
<1>5. ConnAt(conn', srv', agreed', store')
  <2>1. ConnAt(conn, srv, agreed, store)
    BY DEF PairingInv
  <2>2. ConnAt(conn', srv, agreed, store)
    BY <1>1, <2>1, ClosedEverywhere
  <2> QED BY <1>1, <2>2
<1> QED BY <1>1, <1>2, <1>3, <1>4, <1>5 DEF PairingInv, SessionAt

(* The import tool writes only where there was nothing, and nothing had    *)
(* been settled then.                                                      *)
LEMMA ImportResult ==
    ASSUME PairingInv, ImportBinding
    PROVE  /\ store = None /\ store' = [pair |-> srv.pair, hwm |-> 0]
           /\ store' \in Bindings /\ IssuedAt(srv.pair, srv, agreed)
<1>1. /\ srv.pair # None /\ store' # store
      /\ store' = CommitInitialBinding(store, Binding(srv.pair, 0), TRUE).file
  BY DEF ImportBinding
<1>2. IssuedAt(srv.pair, srv, agreed) /\ srv.pair \in Pairs
  BY <1>1 DEF PairingInv, ServerAt, IssuedAt
<1>3. store = None /\ store' = Binding(srv.pair, 0)
  BY <1>1 DEF CommitInitialBinding, PersistAtomically
<1> QED BY <1>2, <1>3 DEF Binding, Bindings

(* The import tool stores the current pair where nothing was stored.       *)
LEMMA ImportBindingInv ==
    ASSUME PairingInv, ImportBinding
    PROVE  PairingInv'
<1>1. Spend(FALSE) /\ UNCHANGED <<hostUp, ctl, fp, session, conn, phone, srv, agreed>>
  BY DEF ImportBinding
<1>2. faults' \in 0..MaxFaults
  BY <1>1, SpendBounded DEF PairingInv
<1>3. store = None /\ store' \in Bindings /\ store'.pair = srv.pair /\ IssuedAt(srv.pair, srv, agreed)
  BY ImportResult
<1>4. Onward
  <2>1. ServerAt(srv, agreed) /\ srv.hw \in Nat
    BY ServerTypes DEF PairingInv
  <2>2. Forward
    BY <1>1, <1>3, <2>1 DEF Forward
  <2> QED BY <1>1, <2>1, <2>2, ForwardIsOnward DEF PairingInv
<1>5. StoreAt(store', srv', agreed')
  BY <1>1, <1>3 DEF StoreAt
<1>6. CommittedAt(ctl', store', fp') /\ SessionAt(session', store', fp')
  BY <1>1, <1>3 DEF PairingInv, CommittedAt, SessionAt, SettledAt
<1>7. PhonesAt(phone', srv', agreed', store') /\ ConnAt(conn', srv', agreed', store')
  BY <1>1, <1>4, PhonesStay, ConnStays DEF PairingInv
<1> QED BY <1>1, <1>2, <1>5, <1>6, <1>7 DEF PairingInv

-----------------------------------------------------------------------------
(* The whole next-state relation.                                          *)

(* Nothing is bound at first.                                              *)
LEMMA PairingStarts == PairingInit => PairingInv /\ HostRests
<1> SUFFICES ASSUME PairingInit PROVE PairingInv /\ HostRests
  OBVIOUS
<1>1. /\ store = None /\ session = None /\ faults = 0 /\ agreed = {}
      /\ ctl = [running |-> FALSE, pair |-> None, c |-> IdleCoordinator]
      /\ fp = [running |-> FALSE, c |-> IdleFirstPair]
      /\ conn = [s \in Ports |-> [p \in Phones |-> NoConn]]
      /\ phone = [p \in Phones |-> NewPhone]
      /\ srv = [pair |-> None, rev |-> 0, hw |-> 0, chal |-> [r \in Requests |-> "none"],
                pairOf |-> [r \in Requests |-> None], expired |-> {},
                alloc |-> [r \in Requests |-> None]]
  BY Zenon DEF PairingInit
<1>2. hostUp \in BOOLEAN /\ faults \in 0..MaxFaults
  <2>1. hostUp \in BOOLEAN
    BY Zenon DEF PairingInit
  <2> QED BY <1>1, <2>1, PairingAssumption
<1>3. ServerAt(srv, agreed)
  <2>1. /\ srv.pair = None /\ srv.rev = 0 /\ srv.hw = 0 /\ srv.chal = [r \in Requests |-> "none"]
        /\ srv.pairOf = [r \in Requests |-> None] /\ srv.alloc = [r \in Requests |-> None]
        /\ srv = [pair |-> srv.pair, rev |-> srv.rev, hw |-> srv.hw, chal |-> srv.chal,
                  pairOf |-> srv.pairOf, expired |-> srv.expired, alloc |-> srv.alloc]
    BY <1>1
  <2>2. ServerFields(srv)
    BY <2>1, PairingAssumption DEF ServerFields
  <2> QED BY <2>1, <2>2, PairingAssumption DEF ServerAt
<1>4. StoreAt(store, srv, agreed) /\ SessionAt(session, store, fp)
  BY <1>1 DEF StoreAt, SessionAt
<1>5. ControlAt(ctl, srv, agreed) /\ CommittedAt(ctl, store, fp)
  <2>1. \A b \in BOOLEAN : \A y :
          /\ ControlAt([running |-> b, pair |-> y, c |-> IdleCoordinator], srv, agreed)
          /\ CommittedAt([running |-> b, pair |-> y, c |-> IdleCoordinator], store, fp)
    BY IdleControl
  <2>2. FALSE \in BOOLEAN
    BY Zenon
  <2> QED BY <1>1, <2>1, <2>2, Zenon
<1>6. FirstPairAt(fp, srv, agreed) /\ HostRests
  <2>1. \A b \in BOOLEAN : FirstPairAt([running |-> b, c |-> IdleFirstPair], srv, agreed)
    BY IdleFirst
  <2>2. FALSE \in BOOLEAN
    BY Zenon
  <2>3. FirstPairAt(fp, srv, agreed)
    BY <1>1, <2>1, <2>2, Zenon
  <2>4. \A b : [running |-> b, c |-> IdleFirstPair].c.pc = "accept"
    BY DEF IdleFirstPair
  <2>5. fp.c.pc = "accept"
    BY <1>1, <2>4, Zenon
  <2> QED BY <2>3, <2>5 DEF HostRests
<1>7. PhonesAt(phone, srv, agreed, store)
  <2>1. PICK b : NewPhone = [ent |-> None, fpc |-> "idle", cpc |-> "idle", an |-> None, hn |-> None,
                             challenge |-> b, cred |-> None, transcript |-> None,
                             policy |-> IdlePolicy]
    BY Zenon DEF NewPhone
  <2>2. PICK e : IdlePolicy = [pair |-> None, req |-> None, expiry |-> e]
    BY Zenon DEF IdlePolicy
  <2>3. PhoneFields(NewPhone)
    BY <2>1, <2>2 DEF PhoneFields
  <2>4. \A p \in Phones : PhoneAt(NewPhone, p, srv, agreed, store)
    BY <2>1, <2>3 DEF PhoneAt
  <2> HIDE DEF NewPhone
  <2> QED BY <1>1, <2>4 DEF PhonesAt
<1>8. ConnAt(conn, srv, agreed, store)
  <2>1. PICK h, q : NoConn = [host |-> h, phone |-> q, wire |-> None]
    BY Zenon DEF NoConn
  <2>2. \A s \in Ports, p \in Phones : conn[s][p] = NoConn
    BY <1>1
  <2>3. NoConn = [host |-> NoConn.host, phone |-> NoConn.phone, wire |-> NoConn.wire] /\ NoConn.wire = None
    BY <2>1
  <2>4. ConnFields(conn)
    BY <1>1, <2>2, <2>3 DEF ConnFields
  <2>5. WiresAt(conn, srv, agreed, store)
    BY <2>2, <2>3, PortNames, NothingOffered DEF WiresAt, ControlRecordAt
  <2> QED BY <2>4, <2>5 DEF ConnAt
<1> QED BY <1>2, <1>3, <1>4, <1>5, <1>6, <1>7, <1>8 DEF PairingInv

(* What does not touch any variable.                                       *)
LEMMA PairingStutters ==
    ASSUME PairingInv, HostRests, UNCHANGED pairingVars
    PROVE  PairingInv' /\ HostRests'
BY DEF PairingInv, HostRests, pairingVars

(* The worker of first pairing moves only while the process runs.          *)
LEMMA HostStillRests ==
    ASSUME HostRests, PairingNext
    PROVE  HostRests'
<1>1. CASE HostStart
  <2>1. hostUp' = TRUE
    BY <1>1 DEF HostStart
  <2> QED BY <2>1 DEF HostRests
<1>2. CASE HostCrash
  <2>1. PICK b : fp' = [running |-> b, c |-> IdleFirstPair]
    BY <1>2, Zenon DEF HostCrash, HostEnds
  <2> QED BY <2>1 DEF HostRests, IdleFirstPair
<1>3. CASE \/ UNCHANGED <<hostUp, fp>> \/ (hostUp /\ UNCHANGED hostUp)
  BY <1>3 DEF HostRests
<1>4. ASSUME NEW ok \in BOOLEAN, HostControlStep(ok)
      PROVE  UNCHANGED <<hostUp, fp>>
  BY <1>4 DEF HostControlStep, AcceptAndroidChallengeRequest, AcceptServerChallenge,
       AcceptPairGenerationCredential, AcceptAndroidHandshakeConfirmation, GenerationCommit,
       WriteHostFinished, SessionCommit, HostAnswers, HostRefuses
<1>5. ASSUME NEW ok \in BOOLEAN, FirstPairHostStep(ok)
      PROVE  hostUp /\ UNCHANGED hostUp
  BY <1>5 DEF FirstPairHostStep, AcceptAndroidOffer, ConfirmLocalUser, AcceptAndroidUserConfirmation,
       AcceptActivationProofRequest, AcceptActivationResult, BindingCommit, RestartControl,
       WriteComplete, FirstPairReads
<1>6. ASSUME FirstPairReadFails \/ StopControl
      PROVE  hostUp /\ UNCHANGED hostUp
  BY <1>6 DEF FirstPairReadFails, StopControl
<1>7. ASSUME HostReadFails \/ StartControlAgain \/ ImportBinding \/ HostDropsChannel \/ UnbindDevice
      PROVE  UNCHANGED <<hostUp, fp>>
  BY <1>7 DEF HostReadFails, HostRefuses, StartControlAgain, ImportBinding, HostDropsChannel, UnbindDevice
<1>8. ASSUME NEW r \in Requests, ExpireChallenge(r)
      PROVE  UNCHANGED <<hostUp, fp>>
  BY <1>8 DEF ExpireChallenge
<1>9. ASSUME NEW p \in Phones, ConnectFirstPair(p)
      PROVE  hostUp /\ UNCHANGED hostUp
  BY <1>9 DEF ConnectFirstPair
<1>10. ASSUME NEW p \in Phones, PhoneControlStep(p)
       PROVE  UNCHANGED <<hostUp, fp>>
  BY <1>10 DEF PhoneControlStep, AcceptHostHello, AcceptHostChallengeProof, AcceptHostFinalProof,
       AcceptHostHandshakeSignature, AcceptHostFinished
<1>11. ASSUME NEW p \in Phones, PhoneFirstPairStep(p)
       PROVE  UNCHANGED <<hostUp, fp>>
  BY <1>11 DEF PhoneFirstPairStep, PhoneOffers, PhoneConfirms, PhoneRequestsProof, PhoneCompletes
<1>12. ASSUME NEW p \in Phones, NEW ok \in BOOLEAN,
              \/ AcceptHostChallengeProof(p, ok) \/ AcceptHostFinalProof(p, ok)
              \/ ConnectControl(p, ok) \/ PhoneActivates(p, ok)
       PROVE  UNCHANGED <<hostUp, fp>>
  BY <1>12 DEF AcceptHostChallengeProof, AcceptHostFinalProof, ConnectControl, PhoneActivates
<1>13. ASSUME NEW p \in Phones,
              \/ PhoneFirstPairFails(p) \/ PhoneReadFails(p) \/ PhoneDropsChannel(p)
              \/ PhoneLearnsUnbound(p)
       PROVE  UNCHANGED <<hostUp, fp>>
  BY <1>13 DEF PhoneFirstPairFails, PhoneReadFails, PhoneControlFails, PhoneDropsChannel,
       PhoneLearnsUnbound
<1> QED BY <1>1, <1>2, <1>3, <1>4, <1>5, <1>6, <1>7, <1>8, <1>9, <1>10, <1>11, <1>12, <1>13, Zenon
        DEF PairingNext

(* Every step keeps the invariant.                                         *)
LEMMA PairingStepInv ==
    ASSUME PairingInv, HostRests, PairingNext
    PROVE  PairingInv'
<1>1. ASSUME NEW ok \in BOOLEAN, HostControlStep(ok)
      PROVE  PairingInv'
  BY <1>1, AcceptAndroidChallengeRequestInv, AcceptServerChallengeInv, AcceptPairGenerationCredentialInv,
     AcceptAndroidHandshakeConfirmationInv, GenerationCommitInv, WriteHostFinishedInv,
     SessionCommitInv, Zenon DEF HostControlStep
<1>2. ASSUME NEW ok \in BOOLEAN, FirstPairHostStep(ok)
      PROVE  PairingInv'
  BY <1>2, AcceptAndroidOfferInv, ConfirmLocalUserInv, AcceptAndroidUserConfirmationInv,
     AcceptActivationProofRequestInv, AcceptActivationResultInv, BindingCommitInv,
     RestartControlInv, WriteCompleteInv, Zenon DEF FirstPairHostStep
<1>3. ASSUME NEW p \in Phones, PhoneControlStep(p) \/ PhoneFirstPairStep(p)
      PROVE  PairingInv'
  BY <1>3, AcceptHostHelloInv, AcceptHostChallengeProofInv, AcceptHostFinalProofInv,
     AcceptHostHandshakeSignatureInv, AcceptHostFinishedInv, PhoneOffersInv, PhoneConfirmsInv,
     PhoneRequestsProofInv, PhoneCompletesInv, Zenon DEF PhoneControlStep, PhoneFirstPairStep
<1>4. ASSUME NEW p \in Phones,
             \/ AcceptHostChallengeProof(p, FALSE) \/ AcceptHostFinalProof(p, FALSE)
             \/ ConnectFirstPair(p) \/ PhoneFirstPairFails(p) \/ PhoneReadFails(p)
             \/ PhoneDropsChannel(p) \/ PhoneLearnsUnbound(p)
             \/ \E ok \in BOOLEAN : ConnectControl(p, ok) \/ PhoneActivates(p, ok)
      PROVE  PairingInv'
  BY <1>4, AcceptHostChallengeProofInv, AcceptHostFinalProofInv, ConnectFirstPairInv,
     PhoneFirstPairFailsInv, PhoneReadFailsInv, PhoneDropsChannelInv, PhoneLearnsUnboundInv,
     ConnectControlInv, PhoneActivatesInv, Zenon
<1>5. ASSUME \/ HostReadFails \/ FirstPairReadFails \/ StopControl
             \/ HostStart \/ StartControlAgain \/ HostCrash \/ ImportBinding \/ HostDropsChannel \/ UnbindDevice
             \/ \E r \in Requests : ExpireChallenge(r)
      PROVE  PairingInv'
  BY <1>5, HostReadFailsInv, FirstPairReadFailsInv, StopControlInv, HostStartInv, StartControlAgainInv, HostCrashInv,
     ImportBindingInv, HostDropsChannelInv, UnbindDeviceInv, ExpireChallengeInv, Zenon
<1> QED BY <1>1, <1>2, <1>3, <1>4, <1>5, Zenon DEF PairingNext

(* The invariant says what the run checks.                                 *)
LEMMA PairingInvStands == PairingInv => PairStands
<1> SUFFICES ASSUME PairingInv PROVE PairStands
  OBVIOUS
<1>1. PairingTypeOK
  <2>1. store \in Bindings \union {None}
    BY DEF PairingInv, StoreAt
  <2>2. ControlFields(ctl) /\ FirstPairFields(fp) /\ ServerFields(srv)
    BY DEF PairingInv, ControlAt, FirstPairAt, ServerAt
  <2>3. /\ ctl.running \in BOOLEAN /\ ctl.c.peer \in Phones \union {None}
        /\ ctl.c.pc = "accept" => ctl.c = IdleCoordinator
    BY <2>2, Zenon DEF ControlFields
  <2>4. /\ fp.running \in BOOLEAN /\ fp.c.peer \in Phones \union {None}
        /\ fp.c.pc = "accept" => fp.c = IdleFirstPair
    BY <2>2, Zenon DEF FirstPairFields
  <2>5. DOMAIN conn = Ports /\ DOMAIN phone = Phones
    <3>1. conn = [s \in Ports |-> conn[s]] /\ phone = [p \in Phones |-> phone[p]]
      BY DEF PairingInv, ConnAt, ConnFields, PhonesAt
    <3> QED BY <3>1
  <2>6. srv.rev \in 0..MaxRev /\ srv.hw \in 0..MaxGen
    BY <2>2 DEF ServerFields
  <2> QED BY <2>1, <2>3, <2>4, <2>5, <2>6 DEF PairingInv, PairingTypeOK
<1>2. BindingWasAgreed
  BY DEF PairingInv, StoreAt, IssuedAt, BindingWasAgreed
<1>3. ChannelIsDurable
  BY DEF PairingInv, PhonesAt, PhoneAt, SessionAt, SettledAt, ChannelIsDurable, Durable
<1>4. SessionIsStoredPair
  BY DEF PairingInv, SessionAt, SettledAt, Replacing, SessionIsStoredPair
<1> QED BY <1>1, <1>2, <1>3, <1>4 DEF PairStands

(* For every number of phones, activations, generations and failures: the  *)
(* Host is bound only to a phone that both users confirmed and the service *)
(* activated, a channel that the phone or the Host relies on rests on a    *)
(* generation in the state file, and the session of the Host is one of its *)
(* stored pair.                                                            *)
THEOREM PairingStands == PairingSpec => []PairStands
<1>1. PairingInit => PairingInv /\ HostRests
  BY PairingStarts
<1>2. (PairingInv /\ HostRests) /\ [PairingNext]_pairingVars => (PairingInv /\ HostRests)'
  BY PairingStepInv, HostStillRests, PairingStutters
<1>3. PairingInv /\ HostRests => PairStands
  BY PairingInvStands
<1> QED BY <1>1, <1>2, <1>3, PTL DEF PairingSpec

(* Only three steps write the state file.                                  *)
LEMMA StoreKept ==
    ASSUME PairingInv, PairingNext
    PROVE  \/ store' = store
           \/ \E ok \in BOOLEAN : GenerationCommit(ok) \/ BindingCommit(ok)
           \/ ImportBinding
<1>1. ASSUME NEW ok \in BOOLEAN, HostControlStep(ok)
      PROVE  store' = store \/ GenerationCommit(ok)
  BY <1>1 DEF HostControlStep, AcceptAndroidChallengeRequest, AcceptServerChallenge,
       AcceptPairGenerationCredential, AcceptAndroidHandshakeConfirmation,
       WriteHostFinished, SessionCommit, HostAnswers, HostRefuses
<1>2. ASSUME NEW ok \in BOOLEAN, FirstPairHostStep(ok)
      PROVE  store' = store \/ BindingCommit(ok)
  BY <1>2 DEF FirstPairHostStep, AcceptAndroidOffer, ConfirmLocalUser, AcceptAndroidUserConfirmation,
       AcceptActivationProofRequest, AcceptActivationResult, RestartControl, WriteComplete
<1>3. ASSUME \/ HostReadFails \/ FirstPairReadFails \/ StopControl
             \/ HostStart \/ StartControlAgain \/ HostCrash \/ HostDropsChannel \/ UnbindDevice
             \/ \E r \in Requests : ExpireChallenge(r)
      PROVE  store' = store
  BY <1>3 DEF HostReadFails, HostRefuses, FirstPairReadFails, StopControl, HostStart, StartControlAgain, HostCrash,
       HostEnds, HostDropsChannel, UnbindDevice, ExpireChallenge
<1>4. ASSUME NEW p \in Phones, PhoneControlStep(p) \/ PhoneFirstPairStep(p)
      PROVE  store' = store
  BY <1>4 DEF PhoneControlStep, AcceptHostHello, AcceptHostChallengeProof, AcceptHostFinalProof,
       AcceptHostHandshakeSignature, AcceptHostFinished, PhoneFirstPairStep, PhoneOffers,
       PhoneConfirms, PhoneRequestsProof, PhoneCompletes
<1>5. ASSUME NEW p \in Phones,
             \/ AcceptHostChallengeProof(p, FALSE) \/ AcceptHostFinalProof(p, FALSE)
             \/ ConnectFirstPair(p) \/ PhoneFirstPairFails(p) \/ PhoneReadFails(p)
             \/ PhoneDropsChannel(p) \/ PhoneLearnsUnbound(p)
             \/ \E ok \in BOOLEAN : ConnectControl(p, ok) \/ PhoneActivates(p, ok)
      PROVE  store' = store
  BY <1>5 DEF AcceptHostChallengeProof, AcceptHostFinalProof, ConnectFirstPair, PhoneFirstPairFails,
       PhoneReadFails, PhoneControlFails, PhoneDropsChannel, PhoneLearnsUnbound, ConnectControl,
       PhoneActivates
<1> QED BY <1>1, <1>2, <1>3, <1>4, <1>5, Zenon DEF PairingNext

(* The three writers of the state file.                                    *)
LEMMA StoreSteps ==
    ASSUME PairingInv, PairingNext
    PROVE  store' = store \/ StoreStep
<1>1. ASSUME NEW ok \in BOOLEAN, GenerationCommit(ok)
      PROVE  store' = store \/ StoreStep
  <2>1. CASE store' = store
    BY <2>1
  <2>2. CASE /\ store' = [pair |-> store.pair, hwm |-> ctl.c.transcript.gen]
             /\ store \in Bindings /\ store.pair = ctl.c.own.pair
             /\ ctl.c.transcript.gen > store.hwm /\ ctl.c.pc = "commit"
    <3>1. store # None /\ store'.pair = store.pair /\ store'.hwm = ctl.c.transcript.gen
      BY <2>2, BindingTypes
    <3>2. GrantedAt(store.pair, ctl.c.transcript.gen, srv, agreed)
      BY <2>2 DEF PairingInv, ControlAt
    <3> QED BY <2>2, <3>1, <3>2 DEF GrantedAt, StoreStep
  <2> QED BY <1>1, <2>1, <2>2, GenerationCommitCases
<1>2. ASSUME NEW ok \in BOOLEAN, BindingCommit(ok)
      PROVE  store' = store \/ StoreStep
  <2>1. CASE store' = store
    BY <2>1
  <2>2. CASE /\ store' = fp.c.binding /\ fp.c.binding.hwm = 0
             /\ store = None \/ (store \in Bindings /\ MayRebind(store, fp.c.binding))
    BY <2>2, BindingTypes DEF StoreStep
  <2> QED BY <1>2, <2>1, <2>2, BindingCommitCases
<1>3. ASSUME ImportBinding
      PROVE  StoreStep
  BY <1>3, ImportResult DEF StoreStep
<1> QED BY <1>1, <1>2, <1>3, StoreKept

(* For every value of the constants the state file of the Host only moves  *)
(* forward: to a later binding of the same card, or to a later generation  *)
(* that the service allocated to the pair it holds.                        *)
THEOREM PairingStoreMovesForward == PairingSpec => StoreMovesForward
<1>1. PairingInit => PairingInv /\ HostRests
  BY PairingStarts
<1>2. (PairingInv /\ HostRests) /\ [PairingNext]_pairingVars => (PairingInv /\ HostRests)'
  BY PairingStepInv, HostStillRests, PairingStutters
<1>3. PairingInv /\ [PairingNext]_pairingVars => [store' = store \/ StoreStep]_pairingVars
  BY StoreSteps
<1> QED BY <1>1, <1>2, <1>3, PTL DEF PairingSpec, StoreMovesForward

==============================================================================
