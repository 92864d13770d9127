# A TLA+ verification of VisionForge dual-machine streaming

VisionForge streams the desktop of a Windows **Host** to an Android **APP**, which decodes and
analyses it and drives an output device; the use is sold by the second by a Python **service**. This
directory holds TLA+ models of the parts of the repository that carry the program's own logic, the
TLC configurations that check them on small instances, and TLAPS proofs of the main properties of
most of them for every instance.

Paths are relative to `src/` of the repository. `SH` abbreviates `dual_machine_runtime/shared`,
`CORE` `dual_machine_runtime/e2e_core`, `HOST` `dual_machine_runtime/host/windows`, `APP`
`android_inference_benchmark/app/src/main`, `DMS` `server/visionforge-platform/dual_machine_service`.

`PROJECT.json` maps every definition that models code to the lines it models, lists all components
with their status, and lists under `hazards` the places of the code that a test would hardly reach,
each with the property that would notice it going wrong.

## 1. The system

```
 Windows Host                          network                  Android APP
 window -> startup -> worker           CAT6 / wireless LAN
   link, firewall, DHCP  ------------------------------------>  finds the Host
   first pairing, control handshake  <------ TCP records ---->  pairing, leases, proofs
   lease gate  <--- offers and commits of leases -------------  usage coordinator
   capture -> slots -> encoder -> (epoch, sequence)
        -> fragments -> sealed datagrams ----- UDP ---------->  relay opens -> reassemble
                                                                -> policies -> codec -> inference
        <----------------- IDR requests, sealed --------------     -> gates -> output device
                     dual_machine_service (Python, SQLite)
   cards, entitlements, pairs and generations, start challenges, leases, heartbeats, cancellations
```

### Inventory

| Component | State it keeps | Operations | What is hard | What makes it correct |
|---|---|---|---|---|
| **Epoch reservation, identity generator** (`CORE/src/host`) | state, lock and temporary file; epoch and sequence | `reserve_next`, `next`, `rotate_to` | two processes, kills between any two system calls, power loss, the last sequence | no (epoch, sequence) is used twice |
| **Window, startup thread, facade** (`HOST/src/streamer_desktop_app.cpp`, `host_runtime_facade.cpp`) | flags of the window, start intent, services | start, stop, retry, probe | a stop meets a start in three threads | the window begins nothing that the operator does not want; every request ends |
| **Runtime service, recovery policies** (`HOST/src/host_runtime_service.cpp`, `host_recovery_policy.hpp`) | session, breakers, back-off, monitor, probe, auditor | the worker's start-up, streaming and recovery loops | eleven ways to go on and five to leave | threads stay in step; the stream comes back |
| **Direct link, firewall, DHCP** (`HOST/src/host_direct_link_provisioner.cpp`, `host_firewall_provisioner.cpp`, `isolated_dhcp_*.cpp`) | adapter, snapshot file, rules, one lease | provision, roll back, restore, answer | elevated workers that are terminated, half-done commands, other programs | the user's configuration can always be put back |
| **Search for the phone** (`HOST/src/host_cat6_session.cpp`) | peer and way found, unanswered probes, counters | broadcast, receive, probe, rank | late, repeated and foreign answers on several adapters | what is reported was measured on the peer it names |
| **Device identity** (`HOST/security/src/host_cng_device_identity.cpp`) | a persisted key and its access list | open or create | two processes create at once; failures half-way | a published key stays |
| **Pairing and control handshake** (`HOST/security/src`, `SH/src`, `APP/java`, `DMS`) | binding store, connections, challenges, generations | first pairing, handshake, rebinding | lost answers, crashes, repeated requests | both sides stand on one agreed, durable binding |
| **Formats and verifiers** (`SH/src`, `HOST/security/src`) | - | encode, parse, verify, import keys | second spellings, wrapping numbers | a text has one meaning and a meaning one text |
| **Control transport** (`HOST/src/authenticated_control_tcp_transport_v1.cpp`) | pending bytes, counters | read, write | any split of the stream | records come out whole, in order, without waiting |
| **Authorization coordinator, lease gate** (`HOST/security/src`, `SH/src/usage_lease_gate.cpp`) | offered and committed lease, anchored clock | offer, commit, prove, evaluate | forks, gaps, clocks that go back | sends only under one chain of valid leases |
| **Video path** (`HOST/src/desktop_video_agent.cpp`, `hybrid_gpu_video_pipeline.cpp`, encoders, bridge) | slots, keyed textures, staging copies, encoder state | capture, submit, encode, publish, stop | two threads over three slots, keyed mutexes | frames go out in order, with the right picture, and a stop returns |
| **Authenticated data plane** (`SH/src/authenticated_data_plane_v2.cpp`, `APP/java/.../dataplane`) | counter of a key, replay window | `seal`, `open`, `close` | failing ciphers, last counter, word shifts | a nonce is used once; a payload is handed over at most once |
| **Mouse button publisher** (`HOST/src/host_mouse_button_publisher.cpp`) | stop flag, session, transport, last mask | start, stop, poll, publish, release | stop and lease gate between check, sealing and send | nothing is sent that may not be; buttons end released |
| **Reassembler, receiver, epoch session, decoder restart** (`SH`, `APP/cpp`) | pending frames, policies, restart generation | receive loop, restart, completion | loss, Host restarts, late completions | a codec never gets a frame without its reference |
| **Inference and output** (`APP/cpp/NativeH264Decoder.cpp`, `MakcuMoveBridge.cpp`, `MakcuOutputGate.hpp`, Java serial controller) | queues, gates, tickets, mailbox | infer, publish, write, acknowledge, hold, resume | six threads, stale frames, failures between gates | nothing stale is sent, no hold lasts |
| **Usage metering, administration** (`DMS/usage_service.py`, `usage_repository.py`, `license_repository.py`) | entitlement, sessions, leases, ledger | challenge, start, cancel, heartbeat, stop; revoke, restore, bind, reactivate | repeated and late requests, stale clock reads | each second is charged once; cancellation is final |
| Portable reconstructions (`CORE/src/host_pipeline.cpp`, `APP/java/com/visionforge/mobile`), relay, cards, web platform, tools | - | - | - | not modelled, section 9 |

## 2. Modules

| Run's root | Modules it is built from | Models |
|---|---|---|
| `EpochReservation` | abstract `EpochAllocator` | competing processes that reserve epochs and number frames |
| `VideoReceiver` | `AccessUnitReassembler` | the APP's receive thread, its policies and the codec |
| `MCAuthenticatedDataPlane` | `ReplayWindow`, `AuthenticatedDataPlane`, `MouseButtonPublisher`; abstract `AtMostOnceChannel` | one traffic key, and the mouse button publisher that owns one |
| `MCUsageMetering` | `UsageMetering`; abstract `PrepaidMeter` | the service's transactions over one entitlement |
| `HostAuthorization` | `UsageLeaseGate` | leases between control worker and gate |
| `HostLifecycle` | - | the window, its threads and what they start and stop |
| `HostRuntime` | `HostRecoveryPolicy` | the worker and the threads beside it |
| `HostBootstrap` | `DirectLink`, `HostFirewall`, `IsolatedDhcp` | the link from the first start to a clean close |
| `HostPairing` | `PeerHandshake`, `PairBindingStore` | Host, phones and service while they pair and connect |
| `MobileOutput` | `OutputGate`, `InferenceBackend` | the APP behind its receiver |
| `HostVideo` | `VideoEncoder`, `FrameTransfer` | capture thread and encoder thread |
| `MCControlWire` | `CanonicalCodecs`, `CompactTokens`, `FirstPairingFormats`, `PinnedKeys`, `ControlTransport`, `ReplayWindow`, `HostIdentity`, `MobileDiscovery` | the control connection, its texts, the key behind them, and the search for the phone |

`...Proofs` modules hold the theorems of the module they extend. Definitions named `...Mutant`, or
after the mistake they make (`SyncDirectorySkipped`, `SealBurnsLate`), are plausible bugs: exchanged for
the definition they stand before, each breaks the property `PROJECT.json` pairs it with. No
specification uses them.

### 2.1 EpochReservation

`pc[p]` follows a caller through `reserve_next`: `AcquireLock`, `ReadCurrent` (`parse_epoch_file`,
increment, range), `CreateTmp`, `WriteTmp`, `SyncTmp`, `RenameTmp`, `SyncDirectory`
(`persist_atomically`), `ReturnNext`. Every system call may fail; the call then throws, which unlocks
and, where the code does, unlinks the temporary file. `Kill` ends a process anywhere. `file` is what a
reader sees, `disk` the set of contents a power loss may leave: only the directory sync makes it a
singleton. `TmpOf` gives each process its own temporary file (POSIX) or all the same one (Windows).
`NextIdentity` is `StreamIdentityGenerator::next` with the rollover into a freshly reserved epoch.

### 2.2 AccessUnitReassembler, VideoReceiver

The Host is the environment: it publishes frames of strictly increasing epochs, of four kinds. The
network may deliver any fragment ever sent, at any time, any number of times. One action is one call
chain of the receive thread: a datagram of the active epoch is reassembled (`ActiveDatagram`) and
completed access units are submitted one by one (`DrainAccepted`, `DrainRefused`, `FinishDatagram`); a
candidate epoch is reassembled apart (`CandidateIncomplete`) until its first real IDR opens the session
(`CandidateFirst`) or starts the codec's restart (`CandidateNext`, `CandidateAfterRestart`).
`TakeRestartCompletion` and `RestartTimeout` are what the thread sees of the restart,
`CompleteStreamRestart` and `CodecFails` the Java side, at any moment. `decoder.last`, the last frame
the codec took, is what the properties are about; the code has no such variable, which is why its
policies can be wrong about it.

### 2.3 ReplayWindow, AuthenticatedDataPlane, MouseButtonPublisher

A word is the set of its set bits. `ShiftedCpp` combines two source words as the C++ loop does,
`ShiftedJava` folds over the destinations in place and masks the last word. `seal` and `open` hold a
mutex and are one action each; the sealer burns a counter before it calls the cipher, which may fail.
`Open` takes any datagram ever sealed, `OpenDamaged` one with any counter and a wrong tag.

`MouseButtonPublisher` is the thread that polls the Host's mouse buttons and sends them under the mouse
key of the session. `worker.pc` is its place in `run` and `publish`; the owner's `start` and `stop` and
the lease gate act between any two of its steps, except that `session_mutex_`, held from the check before
the sealing to the end of the send, keeps `stop` out. `air` remembers what was sent since the last stop
and since the permit was withdrawn; it exists for the properties only. `StartPublisher` may find no session; the
thread then polls and sends nothing. The publisher's `Seal` is the one of
`AuthenticatedDataPlane`, whose sealer outlives stop and start.

### 2.4 UsageMetering

The variables are the tables. A handler is one `BEGIN IMMEDIATE` transaction, so one action; one that
raises rolls back and is no step. It reads the clock before it waits for the lock, so it runs with a
time up to `Lag` seconds old. `stop_usage` checks outside its transaction: `StopVerified`, `StopUsage`.
Requests are never consumed: any start, cancellation or heartbeat may arrive again, at any time, with
any ticket ever issued. A start presents any open challenge of its pair, not only the one its own request
asked for (`VerifyStartChallenge`). Anti-replay nonces only refuse requests and are left out.

### 2.5 UsageLeaseGate, HostAuthorization

The gate is a record (current and staged lease, state) with one operator per method. `HostAuthorization`
adds the control worker, which treats one record at a time: an offer is verified and answered, a
commit gives the gate the lease, typed requests are signed against the committed lease, and any failure
ends the worker and revokes the gate. `clock` has the server's time, the skew of the Host's wall clock
and the steps back of its monotonic clock; the gate's anchored clock is computed from them as
`HostDataPlaneAuthorizationGate` does.

### 2.6 HostLifecycle

`ui`, `startup`, `probe`, `svc` and `sec` are the flags of the window, of its two threads, of the
service and of the security services. Clicks, timers and messages of the window are actions, and so is
each critical section of `HostRuntimeFacade::start`, of `stop` and of the worker's end. The security services
may fail half-way: a control listener that fails leaves the pairing listener up, a discovery that fails takes
both down again (`StartSecurity`); the
service may refuse the settings (`RejectSettings`), and the window may return without launching anything
(`LaunchOrReturn`: back-off, no display). `wanted` is the operator's last word and exists for the properties
only.

### 2.7 HostRecoveryPolicy, HostRuntime

The policies are operators: which encoder a preference allows, which breaker a cause trips, back-off,
forward progress, the monitor's threshold. `HostRuntime` is the worker, `w.pc` its place in
`run_worker`; what it does between two looks at shared state is one step. Link monitor, CAT6 probe,
firewall auditor and control channel take their own steps. Every fault (a failing start, encoder,
reservation or thread, a lost transport, a closed gate, a new connection) costs one of `MaxFaults`.

### 2.8 DirectLink, HostFirewall, IsolatedDhcp, HostBootstrap

Each command to Windows is a step, because the process may be terminated between any two, and a command
that reports failure may have had its effect. `nic` is the adapter, `orig` what the user left, `snap`
the snapshot file. Rules are counted by kind: current, stale, legacy, foreign, extra. A Host whose
Windows filters nothing goes on without rules of its own (status `"unfiltered"`, place `"open"`);
`NarrowWhenReady` and `WaitsBehindFirewall` do not speak of it.
The look at the rules of a name (`RemoveOwned`, `BackRemove`) and their removal by that name (`RemoveNamed`) are
steps of their own, as are the two COM calls: other programs act in between. So does `OtherCall`, a second
firewall call of the Host itself (section 5, observation 6). Two histories keep apart what the code can answer
for: `fw.met`, the names where a look of the call has found a rule of others, and `fw.shared`, that another call
has changed rules since this one began.
`HostBootstrap` runs the three after one another with their elevated workers, the one repair of the
DHCP server, stop requests (`Cancelled`), crashes, reboots and clean closes.

### 2.9 PeerHandshake, PairBindingStore, HostPairing

Cryptography is symbolic: a signature is its key and its text, a digest is what is hashed. The store's
operations are functions from the file to an outcome and a file. `HostPairing` has the Host's two
services with a worker each, the phones with their replay policy, and the service that activates pairs
and allocates generations. The service holds at most one issued challenge per pair (`NoneOutstanding`): one that
the phone has forgotten stands in the way of the next until it expires. A connection carries one record at a time and may be closed by either end.
`agreed` remembers who confirmed which identity, for `BindingWasAgreed`. `Pairs`, `Bindings`, `Proposals`
and `Allocations` are what the service and the store can hold; `NoneAssumption` says that `None` is none of
them. The specification is `PairingSpec`.

### 2.10 OutputGate, InferenceBackend, MobileOutput

Each gate of `MakcuOutputGate.hpp` and of the Java delivery path is a record, each method one critical
section. `MobileOutput` interleaves the inference worker, the network thread that restarts the decoder,
codec callbacks, the serial writer, USB callbacks and the coordinator. Fail-closed sequences take the
gates one after another, as `fail_closed_bridge` does, commit and visibility (`CloseCommit`, `CloseVisibility`) included. What a frame asks for is a free choice. There is
always a ticket number that neither of two others is (`OutputAssumption`), as with the code's 64-bit
counter. The specification is `OutputSpec`.

### 2.11 VideoEncoder, FrameTransfer, HostVideo

`FrameTransfer` has the slot policies of `hybrid_gpu_pipeline_policy.hpp`; a keyed texture has a key and
an owner. `VideoEncoder` has candidate choice, texture registrations, keyframe decisions and pictures a
Media Foundation transform holds back. NVENC makes the keyframe it is told to make; Media Foundation is only
asked, and whether one came is read from the output, so that the agent may have to ask again. `HostVideo` has the capture thread in the steps of
`publish_next`, the encoder thread, and their shared flags; a deadline may have passed whenever the code
asks. `pump_unlocked` folds the copies it can read into one: `Folded` names the copy that is left. The
specification is `VideoSpec`, with fairness `FairVideoSpec`; `wire`, `known`, `answered` and `newest` are
histories for the properties; `known` has the contents that the outbound pipeline has accepted, not those a
viewer has seen (section 5, observation 10).

### 2.12 CanonicalCodecs, CompactTokens, FirstPairingFormats, PinnedKeys, ControlTransport, HostIdentity

Parsers and encoders are functions on sequences of cells (a byte, or one integer field); fields with the
same rule are one field. `ControlTransport` is both ends of a TCP connection, with every way of
splitting the stream. `HostIdentity` follows processes through opening or creating the Host's persisted
key: `OpenKey`, `CreateKey`, `RaceOpen` (the retries of the loser), `ConfigureKey`, `SetDacl`,
`VerifyDacl`, `ReadMetadata`, `Publish`; who may open a key follows from the accounts in its access list
(`Admits`), every provider call may fail, `EndProcess` kills a process
anywhere, `EditDacl` is another program. `MCControlWire` puts them into one state space: a behaviour
follows one connection, or hands one text (`probe`) to the code that reads it, or opens the key, or
searches for the phone.

### 2.13 MobileDiscovery

`discover_wireless_lan_mobile_session` and `measure_known_session` as one loop: `search` is the call with its
mode, the peer and the way it has settled on, `pending` the probes nobody has answered, `observed` the
counters the quality is computed from. Any datagram may arrive at any time, from any sender, with any
token. `evidence` remembers, for the properties, which acknowledgements were counted.

## 3. Runs

Twelve runs, one per question. Most properties are conjunctions of named parts, each with its own
comment in its module; the parts are listed with them.

| Run | Instance | Properties | Shows |
|---|---|---|---|
| `epoch_crash` | 2 processes that share one temporary file, 3 epochs of 2 frames | `IndInv` (with `EpochIssuedOnce`, `StateFileReadable`, `FrameIdentityUnique`, `IssuedIsDurable`), `AllocatorSpec` | whatever is killed or fails where, no identity is reused and the store is the allocator |
| `receiver_stream` | 2 epochs of 2 frames of four kinds, 1 frame in flight, 2 starts | `ReceiverInv` (`TypeOK`, `IndInv`, `CompletionIsCurrent`), `ReferenceChain`, `EpochSwitch` (`OpeningIsReal`, `CandidateIsolation`, `EpochStep`) | losses, refusals, Host restarts and overlapping codec restarts never break the reference chain |
| `dataplane_video` | Java window of 5 in 3 words of 2 bits, 8 counters; or a publisher with 3 masks | `NonceUsedOnce`, `ButtonsReleased` (`OnlyReleasesAfterStop`, `OneLateDatagram`, `ReleasedAtTheEnd`), `ImplementsChannel` | the key is an at-most-once channel up to its last counter; buttons are sent only while they may be, and released |
| `usage_service` | 2 requests, 2 pairs, 1 heartbeat id, lease 2 s, lag 1 s, clock to 4 s, a metered or a permanent card | `TicketsPaidOnce`, `LedgerBalances`, `IndInv`, `CancelIsFinal`, `ImplementsMeter` | each second is charged once, whatever is repeated, late, revoked, rebound or reactivated |
| `authorization_leases` | 6 leases of 3 sessions on 2 channels: a chain of three, a fork, a gap, a second session | `OneChainServes` (`OpenUnderTheCommittedLease`, `AdmittedLeasesAreOneChain`, `ProofsFollowTheChain`), `EndedLeaseStaysEnded` | gate, worker and signer follow one chain; no lease serves after its end |
| `lifecycle_ui` | 6 clicks, acceptance mode | `StopStands` (`OwnStartIsWanted`, `NothingArmedAfterStop`, `StopClosesEverything`), `RequestsComplete` (`StartCompletes`, `StopCompletes`) | starts and stops in three threads neither overtake nor lose one another, apart from observation 1 of section 5 |
| `runtime_recovery` | 2 vendors, 3 epochs, 2 connections, 3 faults | `ThreadsInStep` (`MonitorWatchesStream`, `WorkerProvisionsAlone`, `NothingOutlivesWorker`), `FailedPathNotReselected`, `RecoveryEnds` (`StopEndsWorker`, `LeaseEndsWorker`), `StreamComesBack` (`RecoversForGood`, `PreferredTransportWins`) | the worker ends when it must and streams when it can |
| `link_bootstrap` | 6 adapters, 3 firewall histories, 2 rules, 2 clients, 2 faults | `AdapterRestorable` (`ModifiedMeansSnapshot`), `RulesAreSafe` (`NarrowWhenReady`, `ForeignRulesKept`, `RolledBackIsOriginal`, `WaitsBehindFirewall`), `LeaseStaysWithClient`, `LinkRecovers` (`AdapterComesBack`, `LinkComesUp`) | nothing of the user's is lost, and link and adapter come up and come back |
| `pairing_channel` | 1 phone, 2 activations, 3 requests, 2 faults | `PairStands` (`BindingWasAgreed`, `ChannelIsDurable`, `SessionIsStoredPair`), `StoreMovesForward`, `ChannelComesBack` | a channel rests on an agreed and stored binding, and can be opened again after any two failures |
| `output_recovery` | 3 tickets, 3 generations, 2 faults | `OutputHeldOrReady` (`OneRuntimeLoaded`, `QuietWhileHeld`), `OffersAreFresh` (`NoBlindMove`, `OfferIsCurrent`), `OutputComesBack` (`TicketSettles`, `HoldEnds`) | nothing is decided on a stale frame, nothing is on its way during a hold, and holds and tickets end |
| `video_stream` | 5 computers (one for each way a frame can take), 3 slots, 3 contents, 2 IDR requests, 1 fault | `SlotExchange` (`KeysAgree`, `KeysComeBack`, `AlwaysRoom`, `NewestKept`), `WireIsFaithful` (`IdrIsNext`, `PictureIsCurrent`, `RepeatShowsKnown`), `StreamOrdered`, `StopReturns` | the two threads exchange slots soundly, send the right picture under the right identity, and stop |
| `control_wire` | 6 plans of records with 1 fault; some 10,000 texts; 2 processes that open the key with 2 mishaps and 2 keys; searches with 3 probes, 4 senders and 2 acknowledgements | `RecordsInOrder` (`DeliveredInOrder`, `NonceUsedOnce`), `TextsAgree` (`OneSpelling`: `CanonicalPayloads`, `OneMeaning`, `CanonicalClaims`, `OneTextPerToken`, `OneSpellingPerKey`; `SidesAgree`: `ProposalBecomesTranscript`, `SignaturesAgree`, `ProofCoversRequest`, `SasUniform`), `WrittenIsRead`, `IdentityLasts` (`KeyStays`, `IdentityOpens`), `MeasuredOnOnePeer` (`LossIsARatio`, `OnePeer`, `GroundedOutcome`, `StaysOnRoute`) | records survive every split; what is signed or hashed has one text; the Host's key lasts; the Host measures one peer on one way |

The module's type invariant is a conjunct of the first invariant of its run.

### Bounds and why they are enough

All bounds are in guards and are named constants, except `LongOrChanged` of `usage_service`, a
constraint that ends the clock one second after the administration has intervened, and at 3 s for a permanent
card: without administration the clock of a metered card runs to 4 s, enough for a start, a renewal, an expiry and
a second session; with it, every order of the interventions between the requests of two sessions remains; a
permanent card, which charges nothing, has a start, a renewal and an expiry.

* **Epoch.** Reusing an epoch needs two readers of one value: two processes. Three epochs let one be
  lost to a crash, one be issued and one be reserved beside it, and reach `maximum_epoch_`.
* **Receiver.** The policies compare neighbours; two frames in two epochs let one be lost before the
  other, let the second of an epoch stand before the first of the next, and with one frame in flight a
  second evicts the first. `Bodies` has one element, so two datagrams never disagree about a fragment.
* **Window.** Three words have a first, an inner and a last one; shifts of 0 to 5 cross none, one and two
  boundaries; in the window of 5 the last word is half used. Eight counters pass both edges and end the
  key.
* **Usage.** The card pays for one full and one short lease. Symmetry of the two requests is sound, no
  definition names one.
* **Faults.** Three faults in `runtime_recovery` let an encoder fail, fail again under the next breaker,
  and a link be lost meanwhile. Two in the link, pairing and output runs let a second failure hit the
  clean-up or the retry of the first. One in `video_stream` and in the transport, whose clean-up paths are
  straight lines; with the five computers that run has some two minutes.
* **Link.** A second firewall call of the Host is followed for one of the six adapters (`Overlapped`): it meets
  rules, not adapters, and no rule of the firewall depends on the adapter.
* **Texts.** Every text of each value, and every text one slip (a cell changed, dropped, added, two
  swapped) away from it: a second spelling that needs two coordinated slips is found only if one of the
  hand-made texts has it (long DER lengths, leading zeros, CR LF, high S). Widths are reduced (digits of
  8, an order of 57, numbers to 255, `MaxTokenSize` the length of the longest token an issuer writes here, 8192 in the code) and stay
  so that every boundary is passed.
* **Identity.** Two keys and two mishaps let a creator fail after another process found its key, and the
  key be created again.
* **Search.** Two acknowledgements are needed and three probes sent, so that one may be lost and answered
  late; the senders are two phones, the wired address and one outside the private networks.

`CHECK_DEADLOCK FALSE` is set where bounds or a final state end a behaviour (a used-up key, the last
click, an ended worker, a text that was read). `epoch_crash` and `link_bootstrap` never stop and check
deadlock.

### Fairness

Fairness is stated only for what the code's own threads, timers or the operating system's scheduling
provide, never for the operator, for faults, for a network that delivers or for other programs.

| Specification | Fair actions | Why |
|---|---|---|
| `HostLifecycle` | the window's message loop, the startup thread, the worker, the end of a probe | threads that hold no lock while they wait; every wait has a bound |
| `HostRuntime` | the worker, a look at the gate, monitor, probe and auditor | a loop with `wait_for`; the monitor's and the probe's periods |
| `HostBootstrap` | the next command, the wait for the phone, a new attempt | sequential code; the worker's recovery loop starts again |
| `HostPairing` | worker and phone steps, reads whose peer has gone, expiry of a challenge (strong: time passes however often the request is repeated meanwhile), connections (strong: the listen queue is served in order) | deadlines on every read; the phone's retry timer |
| `MobileOutput` | every thread goes on with what it has begun, frames keep coming, the codec answers a restart, tickets age | threads and a monotonic clock |
| `HostVideo` | the encoder thread, the end of a stop | a thread that is waiting on events the stop sets |
| `ControlTransport` | a read call, the accept | the reader holds what has arrived |
| `HostIdentity` | a call that was begun | sequential code |

## 4. What is proved

Every theorem holds for all values of the constants that satisfy the named assumptions. These are as
weak as the code: `TmpOf` is a function to names and `NoProc` no process; bounds are naturals (epochs and
inflight frames at least 1); the C++ window is a whole number of words; `1 <= Window < TTL` is what
`settings.py` enforces; a card is permanent exactly when it has no seconds; `None` is no pair and no
heartbeat; tickets are records of naturals with an id; the time without skew is one of the skews; 0, no
button, is a mask; there is at least one firewall rule; the adapter the user left has no address that
only the Host's IP Helper call adds; addresses are positive numbers; a ticket number can be found that is
neither of two others; `None` is no pair, binding or allocation; there are at least three transfer slots,
numbered from 1 on (`kTransferSlotCount` is 3), and the completion ring has room for one.

**HostStreamProofs.** The epochs come first. None of the safety properties is inductive: that an epoch is returned once
depends on the lock, on the value its holder has read, and on what the disk may give back. `IndInv` adds
`LockHeld` (only the holder is inside), `HolderCurrent` (what it read is still in the file, what it wrote
is what it computed, and a renamed epoch is not yet issued), `file \in disk`, `GeneratorOwnsEpoch` and
`UsedIsIssued`. The step is split by conjunct: `TypeStep`, `LockStep`, `StoreStep`, `GeneratorStep`.
Results: `IndInvHolds`, `EpochsIssuedOnce`, `StateFileStaysReadable`, `FrameIdentitiesUnique`,
`ImplementsAllocator`; the proof covers both namings of the temporary file.

The video path follows. What `SlotExchange` and `WireIsFaithful` say of slots, keys, frames and requests
holds only because each thread knows where the other is, so `VideoInv` is a conjunction of what they know
of one another: `AtRest` (without an encoder thread all it would share is as new), `Places` (which steps
and flags go together), `OneMailbox`, `Owned` and `Keyed` (who has a slot, with which key), `Blank` (a slot
that waits for nothing carries nothing), `InOrder` (wire, worker, mailbox, batch and staging copies are in
the order of capture), `NewestSomewhere`, `Requested` (the worker's consumed generation is what was
answered), `Pictures` (no encoder that is used again has a picture inside), `Repeats` and `Counts`. That the
read-back path always finds a buffer is a count: the mailbox and the worker hold one each, and there are
three. Steps that differ only in name share a lemma (`WandersKeeps`, `TakesKeeps`, `ReturnsKeeps`,
`ReportsKeeps`); `EncodeReturns`, `BridgeStays`, `FoldedIsLast` and `PublishMoves` say what the operators
do. On the read-back path no copy is a repeat, so the fold is the last copy. Results: `VideoSlotsExchange`,
`VideoWireIsFaithful`, `VideoStreamsInOrder`.

**VideoReceiverProofs.** `ReferenceChain` is a property of the codec, decided by policies that see neither
codec nor epoch. `PolicyTracksCodec` bridges them: an open policy describes the codec exactly. It is
inductive together with `LoopInv`, `Ordered` and `Shapes`. Lemmas say what the reassembler returns
(`PopDelivers`, `ReassembleDelivers`); each action has one lemma that shows `StepOK`, that is `IndInv'`,
`ChainStep` and `EpochStep`. That an epoch opens with a real IDR needs more: which frames the bytes came
from. `FullInv` adds `ContentInv` (whatever sits in a reassembler, waits for the codec or was submitted is
an access unit the Host has sent, of the epoch it is filed under) and `DecoderInv` (restart generations,
and what a completion may stand for); each action has a second lemma that shows `FullStep`. Results:
`ReceiverInvariant`, `PolicyAlwaysTracksCodec`, `ReferenceChainHolds`, `FullInvariant`,
`ReceiverInvHolds`, `EpochSwitchHolds`.

**AuthenticatedDataPlaneProofs.** Positions are pairs (word, bit), so the proof begins with division
(`DivMod`, `Unique`, `Place`), shows that a shift moves every bit by `advance` (`ShiftedCppSpec`), that a
commit keeps the window exact (`CommitSpec`), and that the sealer never returns to a burned counter
(`SealStep`). Results: `NoncesUsedOnce`, for either opener; `WindowStaysExact`, `DataPlaneInvariant` and
`DataPlaneImplementsChannel`, for the C++ window of any word size and number of words.

The publisher is proved on top of it, for any masks. `ButtonsReleased` speaks of what is in the air;
`PublisherInv` adds what the thread knows at each place: before a send only a release can be under way once
stop is set (`StopPart`), how many releases are left (`ReleasePart`, `PastPart`), that a withdrawn permit
finds at most one datagram past its last check (`LatePart`), and that `published` is what was sent last
unless something has failed since (`HeldPart`). Results: `ButtonsTheorem`; `PublisherUsesKey`, that the
publisher implements the specification of its key; hence `PublisherNonces`.

So are the gates behind the APP's decoder, for any tickets, generations and number of failures. What is on its
way to the device passes two gates in two languages; the invariant follows it: `BuffersKept` (who holds which
input of the inference), `SessionOrder` and `BackendKept` (which backend is prepared, and that there is one),
`WriterOwnsIo` (who may write), `DecisionStands` (from its decision to the offer the worker keeps
`g_publish_mutex`, and the ticket it holds is nobody else's), `SuspensionStands` (a restart keeps it until the
output is suspended) and `QuietWhileHeld`. Results:
`OutputIsHeldOrReady`, `OutputOffersAreFresh`.

**UsageMeteringProofs.** `StepKinds` sorts all steps into two: a step that charges nothing and at most
closes sessions, and a step that pays for one ticket behind all earlier tickets of its session. `IndInv`
ties sessions, tickets and ledger together (`TicketsOfSessions`, `LedgerOfTickets`) and says what closing
means (`ClosedSessions`). `StartPays` and `RenewPays` show that a start and a renewal pay, `ClosesAll`,
`ClosesOne` and `ClosesStale` that all other handlers close. Results: `MeteringInvariant`, `TypeCorrect`,
`TicketsArePaidOnce`, `ActiveSessionsAreCurrent`, `PaidAheadIsBounded`, `CancellationIsFinal`,
`StartsFollowExpiry`, `ImplementsPrepaidMeter`.

**HostAuthorizationProofs.** For every set of signed tickets, every skew and every number of channels and steps
back. `Keeps` says what an operation of the lease gate that admits nothing may do to it, `Admitted` what an
admission does; one lemma per operation shows one of the two, and everything above the gate uses only them.
That gate and worker agree is inductive once the two are tied together: `CommittedIsLast` (the committed
lease is the last admitted one), `PendingIsNext` (what an offer checked still holds at the commit, although
time has passed), `GateAtTheHead` (a serving gate is at the head the worker knows) and `LineOfOneSession`.
`EndedLeaseIsShut` and `GateTimeMovesOn` show that the gate's own time never goes back, whatever the two
clocks do. Results: `ChainTheorem`, `EndedTheorem`.

**HostLifecycleProofs.** With and without acceptance mode and for any number of clicks. `StopStands` is about
what the window begins by itself and what the other threads still do, so `IndInv` says how far apart they can be:
`StartingPart` (the window waits exactly as long as there is a startup thread, and by then the probe has
ended), `ArmedPart` (all that could begin a start by itself is wanted), `RunningPart` (while the window
believes in a stream, none of its ways to start is open: without it a retry could overtake a running
stream) and `StopPart` (what is closed at each stage of a stop). One lemma per action of the window;
`BehindTheWindow` covers the threads that leave the window alone. Result: `StopStandsTheorem`.

The module also proves the pairing of the Host, for any number of phones, activations, generations and
failures. None of the parts of `PairStands` is inductive: that a channel is durable was decided several
records earlier, on another machine. `PairingInv` says what each piece of state, and each record under way,
vouches for, in three terms: a pair was *issued* (`IssuedAt`: both users confirmed its phone, and no other pair
has its revision), a generation was *granted* to it (`GrantedAt`), and a transcript is *settled*
(`SettledAt`: the state file has its generation or has left its pair behind). `ServerAt`, `StoreAt`,
`ControlAt`, `CommittedAt`, `SessionAt`, `FirstPairAt`, `PhonesAt` and `ConnAt` state it for the service, the
file, the two workers, the session, the phones and the connections; `HostRests` adds that no worker is at
anything without its process, without which a start could meet a half-made rebinding. A step that only moves
`Forward` takes nothing back (`ForwardIsOnward`), so one lemma per action has only to show what is new. Results:
`PairingStands`, `PairingStoreMovesForward`.

**HostRuntimeProofs.** For all thresholds, bounds and vendors. The worker's positions fall into phases:
`PhasePart` says what may run beside it in each, `LinkPart` that stream and monitor use the session's link,
and `BreakerPart` that for every path that has failed a breaker is set that keeps it from the candidates
(`CandidatesSpec`, `TrippedSpec`). `WorkerMoves`, `WorkerFails` and `BesideWorker` cover the steps that do
not touch the stream. Results: `RuntimeInvariant`, `ThreadsInStepTheorem`, `FailedPathTheorem`.

**HostBootstrapProofs.** For every number of firewall rules, all clients, all configurations a user may have
and any number of faults. `Moves` says what a step of the whole is to each part, so that adapter, firewall and
lease are proved apart. `ModifiedMeansSnapshot` is not inductive, because the code deletes the snapshot on the
word of `snapshot_configuration_matches`, which looks at neither address mode nor DNS when the snapshot names
the transient backend. `LinkInv` says why that is sound: under such a snapshot `netsh` has never run, since the
backend in memory is the snapshot's until that is decided; besides, wherever a call may change the adapter there
is a snapshot, and one is removed only where the adapter is as found (`MatchesMeansAsFound`). `FirewallInv`
follows a transaction: it and its roll-back stand on rules that needed work, the roll-back never beyond the last
one touched (`FirstStale`, `NextStaleFound`), a plan holds no rule of
others, no rule of others that a look of the call has met is removed, and a good verdict means narrow rules unless
a second call was at work beside this one (`shared`). `BootInv` adds that the firewall is worked on only while the Host
waits for it, so that it is still narrow when the DHCP server starts. Results: `AdapterTheorem`,
`FirewallTheorem`, `LeaseTheorem`.

The search for the phone is proved beside it, for all adapters, senders and numbers of probes. The counters
say nothing of where an answer came from; what makes the property inductive is that every token is used once,
for a probe that is waited for or one whose answer was counted (`Tokens`), that the counters are the sizes of
those two sets (`Counted`), that a known way starts at a private address and carries all that is still to be
sent (`SoundSearch`), and that a result is what the counters say (`Reported`). Result:
`DiscoveryMeasuresOnePeer`.

**Model-checked only.** Liveness under fairness is out of the prover's reach: `RequestsComplete`,
`RecoveryEnds`, `StreamComesBack`, `LinkRecovers`, `ChannelComesBack`, `OutputComesBack`, `StopReturns`,
`WrittenIsRead` and `IdentityOpens`. So is induction over data: `LedgerBalances` (a sum over a set),
`RecordsInOrder` (concatenations of what was split), `TextsAgree` (recursive parsers) and the Java window's
in-place shift (a fold), so that `ImplementsChannel` is proved for the C++ window and checked for the Java one.
`KeyStays` is checked only.

## 5. Observations

What the modelling showed about the code beyond the properties that hold. Each is a reading of the named
lines; the properties are stated so that they hold of the code as it is.

1. A stop clicked while the startup thread has not reached the gate leaves the intent pending, although
   `host_start_intent_gate.hpp:50` calls `cancel` what "Cancels the operator request (Stop/shutdown)"
   (`host_runtime_facade.cpp:343`, `streamer_desktop_app.cpp:1857`). `StopClosesEverything` therefore
   speaks of stops that did not interrupt a start, and `OwnStartIsWanted` of the start the window still waits
   for. An interrupted start goes on: `StartClick`, `StopClick`, `StopRuntime`, `StartSecurity`,
   `LeaseCommitted`, `SpawnWorker` leave a worker that streams, gate and listener open, after the operator
   has stopped, because `host_runtime_service.cpp:1037` resets the stop flag. The handler of the outdated
   result (`streamer_desktop_app.cpp:872`) shows the start button and does not stop the runtime, and a click on
   it returns while the worker runs (`:1647`); the worker ends with its lease or with the window.
2. `run()` builds a new `ReceiverEpochSession` on every `start()` (`DualMachineReceiver.cpp:562`), so a
   restarted receiver accepts a late IDR of a retired epoch; ADR-006 and `receiver_epoch_session.hpp:26`
   say old epochs are rejected for ever. Within one run of the thread that is true, and proved.
3. A lease may be renewed for `LEASE_RETRY_GRACE_SECONDS` after its end (`usage_service.py:911`);
   `DMS/README.md:18` says that a renewal must be completed before. Nothing is charged twice by it. `_verify_start_challenge` does not
   compare request ids (`:982`), so a start may consume the challenge of another request of its pair; the
   session is paid once all the same.
4. Between a restoration and the next binding a pending cancellation cannot be confirmed
   (`usage_service.py:1352`), and an exhausted card cannot be replaced until its session has ended
   (`license_repository.py:325`).
5. The lease gate asks for a trusted server epoch and is given the Host's own clock
   (`host_runtime_authorization_coordinator.cpp:919`). `EndedLeaseStaysEnded` holds relative to the anchor.
6. Encoder breakers trip only when the cause is the video pipeline (`host_recovery_policy.hpp:48`). A
   monitor that cannot be started counts as reachable (`host_runtime_service.cpp:1437`), hence the
   exception in `RecoversForGood`. A permit that closes while presence is due is treated as a failure to
   recover from instead of a stop (`:1585`). The worker keeps a pointer to the traffic keys of an earlier
   channel until its next restart (`:1406`). The CAT6 probe starts without looking at the firewall auditor
   (`:1654`; the auditor looks at the probe, `:1672`), so two firewall calls of the Host may overlap.
   `WorkerProvisionsAlone` keeps only the worker apart from both, and of an overlapped call `NarrowWhenReady`
   says nothing: it may report success over rules the other has just removed.
7. The snapshot's rename lacks `MOVEFILE_REPLACE_EXISTING` (`host_direct_link_provisioner.cpp:1385`); an
   adapter that a router has given a gateway is never restored (`:2732`); another program's address is
   overwritten by `netsh` (`:2582`, against `docs/DUAL_MACHINE_WIRED_NETWORK_TUNING_ACCEPTANCE.md:46`);
   connection sharing is not part of `Matches`; an elevated worker goes on after its Host has died.
   Rules are removed by name (`host_firewall_provisioner.cpp:1199`) after a look at the rules of that name
   (`:1181`): one that another program adds in between may be removed in place of the Host's, and the call may
   still succeed. `ForeignRulesKept` speaks of the rules a look has met.
8. A lost answer to an activation leaves the Host unbound until the phone activates again. A lost answer to
   a challenge makes the phone drop its request; the service still has the challenge and answers
   `pair_generation_challenge_conflict` (`pair_security_repository.py:477`) until it expires. The watermark
   in memory is 0 after a rebinding. The comment at `host_authenticated_control_service_v1.cpp:319` is what
   `ChannelIsDurable` checks.
9. A writer preempted between taking a command and the I/O lock, across close, reconnect and enable, may
   still write it within its 250 ms budget. A fail-close after Java's suspension cancels Java's hold while
   the native one stands. Enabling native output before Java lets a publication be rejected and close the
   gate again. `retire_session` is never true.
10. `dxgi_frame_semantics.hpp:75` says that "A synthetic repeat cannot replace an unconsumed real
    observation"; `submit_shared_unlocked` publishes unconditionally (`hybrid_gpu_video_pipeline.cpp:1145`).
    When the scaler never works, `prepare_gpu_scaler` makes a new texture per frame and the fourth NVENC
    registration fails. A Media Foundation output that times out leaves its picture inside. What the repeat
    policy takes as known is what the outbound pipeline has accepted (`dxgi_frame_semantics.hpp:64`): a repeat
    on one adapter may replace the content it repeats before that is consumed, and in read-back mode content
    that the permit refused or the socket lost counts, too. The forced keyframe of Media Foundation is best
    effort (`media_foundation_h264_encoder.cpp:612`, flag read at `:712`), which is why
    `desktop_video_agent.cpp:606` asks again and `IdrIsNext` demands the request of both encoders, and the
    keyframe of NVENC. The
    bridge's cross-adapter texture is never reached from the agent.
11. Parsers differ at edges no encoder reaches: a payload's identifier may be all zeros where first pairing
    and the verifiers refuse it; a payload's DER check takes a 33-byte integer the verifier refuses;
    `valid_offer` only looks at the first byte of the ephemeral key; an activation result may have
    revocation version 0; the lease verifier does not compare `nbf` with the time and re-encodes only the
    outer key structure.
12. A creator whose initialisation fails deletes its key even when another process has opened and
    published it meanwhile, and a process under another account rewrites the access list of a machine key
    (`host_cng_device_identity.cpp:1476`, `:1168`). `KeyStays` speaks of keys whose creator has finished;
    `host_cng_device_identity.h:231` only promises that existing keys are never discarded.
13. In the portable core an IDR published late clears a newer request (`CORE/src/host_pipeline.cpp:83`), and
    the APP's portable hand-over takes any IDR of the epoch as fresh (`OrderedAccessUnitHandoff.offer`,
    against `docs/HOST_APP_E2E_STREAMING_zh-CN.md:65`). Neither is in the native path that is modelled.

## 6. Abstractions worth knowing

* Layouts, logs, metrics, reports and wording are left out; formats are in section 2.12 only.
* AES-GCM, RSA, ECDSA, SHA-256 and key derivation are symbolic and taken to work.
* Time is a choice (a deadline may have passed whenever the code asks), except in `UsageMetering` and
  `HostAuthorization`, which have clocks.
* The reassembler's byte budget is left out; the limit on frames in flight has the same effect.
* One traffic key has one sealer and one opener. One entitlement, one adapter, one phone at a time.
* The control transport has the C++ code at both ends, as in its loopback test; the APP's end is Java.
* Pixels, bit streams, graphs of the network and the numerics of targeting are free choices.
* Cancellations migrated from schema V5 are left out.

## 7. Components and their state

`PROJECT.json` says for each component what is modelled. Fully: epoch reservation and identity generator,
reassembler, epoch session, data plane, mouse button publisher, lease gate, authorization coordinator,
runtime service and recovery policies, direct link, firewall, DHCP, bootstrap, pairing and control of the Host and of the
phone, control transport, device identity. Partly, with the reason beside it: receiver, decoder restart and
inference, output gates, video path and encoders, formats and verifiers, usage metering and administration,
window and facade, the service's generations, the APP's usage coordinator (as the environment of the service).

## 8. How to run

`tlc -config <cfg> <module>` for the pairs listed under `runs` in `PROJECT.json`; `tlapm <module>` for the eight
`...Proofs` modules. The longest runs, `usage_service` and `video_stream`, take two to three minutes on two cores.

## 9. Not modelled

* The portable core's own IDR tracker, delivery ledger and command tickets, and the APP's portable ordered
  hand-over: reconstructions beside the native path, which has its own, modelled ones.
* The APP's relay: it opens sealed datagrams and forwards them; both sides of it are modelled.
* Cards and batches: issuing, editing and archiving; only what an activation does to an entitlement is here.
* The web platform beside the dual-machine service: CRUD over a database.
* Control numerics, inference graphs, colour conversion and rate control: numeric work without a protocol.
* Painting and layout of the Host's window and of the APP's screens.
* Release, packaging, audit and benchmark tools: sequential scripts.
