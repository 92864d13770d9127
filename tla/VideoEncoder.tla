---------------------------- MODULE VideoEncoder ----------------------------
\* The encoder side of the Host's video path as operators: which encoders are
\* tried on which machine (host_encoder_policy.hpp), how a captured texture
\* becomes one the encoder can read (d3d11_frame_bridge.cpp), and what NVENC and
\* the Media Foundation transform keep between two pictures. A texture is a
\* number, a picture is the content it shows; pixels and bit streams are left out.
EXTENDS Integers, FiniteSets, Sequences, SequencesExt

CONSTANTS
    RegisteredTextureCount,   \* textures an NVENC session keeps registered
    KeyframeInterval          \* GOP length of the NVENC session

ASSUME EncoderAssumption ==
    RegisteredTextureCount \in Nat \ {0} /\ KeyframeInterval \in Nat \ {0}

Candidates == {"nvenc_same_adapter_async_shared", "nvenc_capture_device", "nvenc_cross_adapter",
               "windows_hardware_capture_device", "software_cpu"}

\* Every candidate list of an automatic preference ends with these two.
WindowsEncoders == <<"windows_hardware_capture_device", "software_cpu">>

\* choose_host_encoder_candidates: the encoders to try, best first.
ChooseCandidates(preference, vendor) ==
    CASE preference = "nvenc" ->
             IF vendor = "nvidia" THEN <<"nvenc_capture_device">> ELSE <<"nvenc_cross_adapter">>
      [] preference = "software" -> <<"software_cpu">>
      [] preference = "media_foundation" -> WindowsEncoders
      [] vendor # "nvidia" -> <<"nvenc_cross_adapter">> \o WindowsEncoders
      [] preference = "automatic_without_async_shared" -> <<"nvenc_capture_device">> \o WindowsEncoders
      [] OTHER -> <<"nvenc_same_adapter_async_shared", "nvenc_capture_device">> \o WindowsEncoders

\* DesktopVideoAgent::initialize, the top of its loop: the exact-copy pipeline is
\* not even tried when the capture has to be scaled.
Attempted(machine) ==
    SelectSeq(ChooseCandidates(machine.preference, machine.vendor),
              LAMBDA c : c = "nvenc_same_adapter_async_shared" => machine.exact)

\* How the chosen candidate moves frames: over the keyed textures of the
\* same-adapter pipeline, over the read-back pipeline, or in the capture thread.
PathOf(candidate, machine) ==
    CASE candidate = "nvenc_same_adapter_async_shared" -> "shared"
      [] candidate = "nvenc_cross_adapter" /\ machine.exact -> "readback"
      [] OTHER -> "sync"

BackendOf(candidate) ==
    CASE candidate = "windows_hardware_capture_device" -> "windows_hardware"
      [] candidate = "software_cpu" -> "software_cpu"
      [] OTHER -> "nvenc"

----------------------------------------------------------------------------
\* The frame bridge of the synchronous path. Texture 0 is the captured one, 1 the
\* texture shared between two adapters, 2 the scaler's; the encoder textures the
\* bridge creates itself are numbered from 3 as they are made.

SourceTexture == 0
SharedTexture == 1
ScaledTexture == 2

NoBridge == [direct |-> FALSE, shared |-> FALSE, probed |-> FALSE, scaler |-> FALSE,
             staging |-> FALSE, texture |-> 3, made |-> 3]

\* D3D11FrameBridge::initialize: the encoder runs on the capture device, or on
\* an NVIDIA device of its own.
BridgeInitialize(candidate, machine) ==
    [NoBridge EXCEPT !.direct = candidate # "nvenc_cross_adapter" \/ machine.vendor = "nvidia"]

\* A new encoder texture replaces the old one.
NewEncoderTexture(b) == [b EXCEPT !.texture = b.made, !.made = b.made + 1]

\* prepare_cross_adapter_shared_texture: probed once in the life of the bridge.
PrepareShared(b, machine) ==
    [b EXCEPT !.probed = TRUE, !.shared = b.shared \/ (~b.probed /\ machine.shares)]

\* reset_shared_bridge: the shared texture is given up; the probe stays spent.
ResetShared(b) == [b EXCEPT !.shared = FALSE]

\* prepare_gpu_scaler: the encoder texture is made anew before the video
\* processor is known to exist, and is not given back when it does not.
PrepareScaler(b, machine) ==
    IF b.scaler THEN b ELSE [NewEncoderTexture(b) EXCEPT !.scaler = machine.scales]

\* The CPU path: one staging texture, and with it one encoder texture.
StageOnCpu(b) == IF b.staging THEN b ELSE [NewEncoderTexture(b) EXCEPT !.staging = TRUE]

\* The result of one D3D11FrameBridge::bridge; texture -1 is a null texture.
Bridged(b, texture) == [bridge |-> b, texture |-> texture]
CpuUpload(b, mapped) == Bridged(StageOnCpu(b), IF mapped THEN StageOnCpu(b).texture ELSE -1)

\* D3D11FrameBridge::bridge. "works" tells whether the keyed mutexes and the blit
\* work this time, "mapped" whether a staging texture can be read.
Bridge(b, machine, works, mapped) ==
    LET shared == PrepareShared(b, machine)
        scaled == PrepareScaler(b, machine)
    IN CASE machine.exact /\ b.direct -> Bridged(b, SourceTexture)
         [] machine.exact /\ ~b.direct ->
                IF shared.shared /\ works THEN Bridged(shared, SharedTexture)
                ELSE CpuUpload(ResetShared(shared), mapped)
         [] OTHER ->
                IF scaled.scaler /\ works /\ (b.direct \/ mapped)
                THEN Bridged(scaled, IF b.direct THEN ScaledTexture ELSE scaled.texture)
                ELSE CpuUpload(scaled, mapped)

----------------------------------------------------------------------------
\* The encoders. "inside" are the pictures a Media Foundation transform was given
\* and has not returned; NVENC is synchronous and keeps registrations only.

NoEncoder == [backend |-> "none", registered |-> {}, index |-> 0, inside |-> <<>>]

\* A new session starts with an IDR and without a registered texture.
NvencInitialize == [NoEncoder EXCEPT !.backend = "nvenc"]

\* The hardware transform of the capture adapter, or the synchronous software one.
MediaFoundationInitialize(backend) == [NoEncoder EXCEPT !.backend = backend]

EncoderInitialize(backend) ==
    IF backend = "nvenc" THEN NvencInitialize ELSE MediaFoundationInitialize(backend)

Encoded(e, ok, keyframe, picture) ==
    [encoder |-> e, ok |-> ok, keyframe |-> keyframe, picture |-> picture]
NotEncoded(e) == Encoded(e, FALSE, FALSE, 0)

\* NvencH264Encoder::encode, the registration of a texture.
Registers(e, texture) ==
    texture \in e.registered \/ Cardinality(e.registered) < RegisteredTextureCount

\* NvencH264Encoder::encode: the picture that goes in comes out.
NvencEncode(e, texture, picture, force, works) ==
    LET held == [e EXCEPT !.registered = @ \union {texture}]
        keyframe == force \/ e.index % KeyframeInterval = 0
    IN IF ~Registers(e, texture) THEN NotEncoded(e)
       ELSE IF ~works THEN NotEncoded(held)
       ELSE Encoded([held EXCEPT !.index = (e.index + 1) % KeyframeInterval], TRUE, keyframe, picture)

\* MediaFoundationH264Encoder::encode. A forced keyframe is a request whose
\* result is ignored: "clean" is the clean point flag read from what comes out.
\* When the wait for METransformHaveOutput times out the picture stays inside,
\* and the next call would get it.
MediaFoundationEncode(e, picture, clean, accepts, returns) ==
    LET given == Append(e.inside, picture)
    IN IF ~accepts THEN NotEncoded(e)
       ELSE IF ~returns THEN NotEncoded([e EXCEPT !.inside = given])
       ELSE Encoded([e EXCEPT !.inside = Tail(given)], TRUE, clean, Head(given))
=============================================================================
