------------------------- MODULE HostRecoveryPolicy -------------------------
(***************************************************************************)
(* The decisions of the Host's recovery, without state: which encoder a    *)
(* start may use, which encoder a failure rules out, why the stream has to *)
(* be rebuilt, how long to wait before it, and when a stream that reports  *)
(* no error has stopped advancing.                                         *)
(***************************************************************************)
EXTENDS Integers, Sequences

CONSTANTS MaxSilence,     \* maximum_publish_silence, in iterations of the loop
          StableFrames,   \* stable_frames_to_reset
          MaxBackoff,     \* maximum_backoff, in units of initial_backoff
          LinkLost        \* failed measurements after which the link is given up

ASSUME PolicyAssumption ==
    /\ MaxSilence \in Nat \ {0} /\ StableFrames \in Nat \ {0}
    /\ MaxBackoff \in Nat \ {0} /\ LinkLost \in Nat \ {0}

Minimum(a, b) == IF a <= b THEN a ELSE b

-----------------------------------------------------------------------------
(* Encoders *)

NvencPaths == {"nvenc_async_shared", "nvenc_capture_device", "nvenc_cross_adapter"}
Paths      == NvencPaths \cup {"windows_hardware", "software"}

\* create_runtime_config: the strongest breaker decides.
Preference(b) ==
    IF b.force_software THEN "software"
    ELSE IF b.skip_nvenc THEN "media_foundation"
    ELSE IF b.skip_async_shared THEN "without_async_shared"
    ELSE "automatic"

\* choose_host_encoder_candidates, in the order in which they are tried.
Candidates(preference, vendor) ==
    CASE preference = "software" -> <<"software">>
      [] preference = "media_foundation" -> <<"windows_hardware", "software">>
      [] preference = "automatic" /\ vendor = "nvidia" ->
            <<"nvenc_async_shared", "nvenc_capture_device", "windows_hardware", "software">>
      [] preference = "without_async_shared" /\ vendor = "nvidia" ->
            <<"nvenc_capture_device", "windows_hardware", "software">>
      [] OTHER -> <<"nvenc_cross_adapter", "windows_hardware", "software">>

NoBreakers == [skip_async_shared |-> FALSE, skip_nvenc |-> FALSE, force_software |-> FALSE]

\* Mutant: a failed bridge between adapters is taken for a passing fault.
TrippedMutant(b, cause, failure, path) ==
    IF cause # "video_pipeline" THEN b
    ELSE [b EXCEPT
            !.skip_async_shared = @ \/ (failure = "bridge_failed" /\ path = "nvenc_async_shared"),
            !.skip_nvenc = @ \/ (failure = "encode_failed" /\ path \in NvencPaths),
            !.force_software = @ \/ (failure = "encode_failed" /\ path = "windows_hardware")]

\* HostEncoderRecoveryPolicy::record_failure.
Tripped(b, cause, failure, path) ==
    IF cause # "video_pipeline" THEN b
    ELSE [b EXCEPT
            !.skip_async_shared = @ \/ (failure = "bridge_failed" /\ path = "nvenc_async_shared"),
            !.skip_nvenc = @ \/ (failure = "bridge_failed" /\ path = "nvenc_cross_adapter")
                             \/ (failure = "encode_failed" /\ path \in NvencPaths),
            !.force_software = @ \/ (failure = "encode_failed" /\ path = "windows_hardware")]

\* host_video_failure_kind, for the status of the last video step.
FailureKind(status) == IF status \in {"bridge_failed", "encode_failed"} THEN status ELSE "none"

\* The failures that rule a path out for the rest of the user's start.
RulesOut(failure, path) ==
    \/ failure = "bridge_failed" /\ path \in {"nvenc_async_shared", "nvenc_cross_adapter"}
    \/ failure = "encode_failed" /\ path \in NvencPaths \cup {"windows_hardware"}

-----------------------------------------------------------------------------
(* Causes, delays, progress *)

\* choose_host_recovery_cause: the preferred transport, then the link.
Cause(upgrade, linkLost, videoHealthy) ==
    IF upgrade THEN "preferred_transport_upgrade"
    ELSE IF linkLost THEN "cat6_link"
    ELSE IF videoHealthy THEN "none" ELSE "video_pipeline"

ShouldStartPreferredProbe(transport, inFlight, upgradeReady, due) ==
    transport # "cat6" /\ ~inFlight /\ ~upgradeReady /\ due

ShouldCommitPreferredUpgrade(transport, ready) == transport # "cat6" /\ ready

\* calculate_delay, one more failure than those that led to this delay.
Delay(delay) == IF delay = 0 THEN 1 ELSE Minimum(2 * delay, MaxBackoff)

\* HostRecoveryPolicy: the number of consecutive failures shows only in the
\* delay of the last one, 0 without any; and the frames since then.
NoStreak == [delay |-> 0, stable |-> 0]

RecordFailure(p) == [delay |-> Delay(p.delay), stable |-> 0]

RecordPublishedFrame(p) ==
    IF p.delay = 0 THEN p
    ELSE IF p.stable + 1 < StableFrames THEN [p EXCEPT !.stable = @ + 1]
    ELSE NoStreak

\* HostVideoForwardProgressPolicy: how long nothing has been published, or that
\* the policy was reset and takes its next sample as the beginning.
NotObserved == -1

\* observe, and the time that passes between two samples.
Silence(silent, published) == IF published THEN 0 ELSE Minimum(silent + 1, MaxSilence)
Waited(silent, delay) ==
    IF silent = NotObserved THEN silent ELSE Minimum(silent + delay, MaxSilence)
Stalled(silent) == silent >= MaxSilence

-----------------------------------------------------------------------------
(* The monitor of the link *)

\* HostCat6Monitor::run: a measured window clears the count, a failed one or
\* an exception adds to it.
Measured(failures, ok) == IF ok THEN 0 ELSE Minimum(failures + 1, LinkLost)

\* host_cat6_monitor_requires_recovery: enough failures in a row, and the last
\* success longer ago than kHostCat6MonitorRecoveryAfter.
RequiresRecovery(failures, old) == failures >= LinkLost /\ old
=============================================================================
