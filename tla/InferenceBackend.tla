-------------------------- MODULE InferenceBackend --------------------------
(***************************************************************************)
(* The APP's inference router and its two runtimes: QNN HTP and the        *)
(* portable ONNX Runtime with NNAPI or CPU (RealtimeInferenceRouter.cpp,   *)
(* QnnHtpBridge.cpp, OnnxRuntimeRealtimeExecutor.cpp).  A backend is       *)
(* prepared stage by stage; a failure at any stage gives back whatever the *)
(* earlier ones took.  The router is the record b:                         *)
(*   active    the backend frames are sent to, "none" if there is none     *)
(*   held      for each runtime the stages whose resources it holds        *)
(*   poisoned  a QNN graph array was published without its count           *)
(*   next      the candidate the service tries next (Java)                 *)
(***************************************************************************)
EXTENDS Naturals, Sequences

\* The candidates, in the order in which the service tries them.
Candidates == <<"qnn_htp", "onnxruntime_nnapi", "onnxruntime_cpu">>
\* The runtime behind a backend.
RuntimeOf(be) == IF be = "qnn_htp" THEN "qnn" ELSE "portable"
Runtimes == {"qnn", "portable"}

\* Stages of Runtime::initialize and of PortableRuntime::prepare, in order.
Library == 1        \* libraries loaded, symbols resolved; session environment
Device == 2         \* logger, backend, device and context; session
Graph == 3          \* graph composed and finalized, contract verified; tensors
Ready == 4          \* buffers bound and one probe executed

NoBackend == [active |-> "none", held |-> [r \in Runtimes |-> 0], poisoned |-> FALSE, next |-> 1]

\* releaseResources(), release_locked().
ReleaseRuntime(b, r) == [b EXCEPT !.held[r] = 0]

\* release_all_backends(): routed nowhere before anything is freed.
ReleaseAll(b) == ReleaseRuntime(ReleaseRuntime([b EXCEPT !.active = "none"], "qnn"), "portable")

\* Runtime::initialize(): QNN fails at the stage that is not reached.  A
\* composition that failed after it published its array cannot be repeated.
InitializeQnn(b, reached, partial) ==
    LET taken == [b EXCEPT !.held["qnn"] = reached]
    IN  IF b.poisoned THEN b
        ELSE IF reached = Ready THEN taken
        ELSE [ReleaseRuntime(taken, "qnn") EXCEPT !.poisoned = partial /\ reached = Device]

PreparePortable(b, reached) ==
    LET taken == [b EXCEPT !.held["portable"] = reached]
    IN  IF reached = Ready THEN taken ELSE ReleaseRuntime(taken, "portable")

\* prepare_realtime_inference(): everything is released first, a backend is
\* routed to only after its probe ran, and a failure leaves nothing behind.
\* The service goes on to the next candidate.
PrepareInference(b, reached, partial) ==
    LET be == Candidates[b.next]
        r == RuntimeOf(be)
        tried == IF r = "qnn" THEN InitializeQnn(ReleaseAll(b), reached, partial)
                 ELSE PreparePortable(ReleaseAll(b), reached)
    IN  IF tried.held[r] = Ready THEN [tried EXCEPT !.active = be]
        ELSE [ReleaseAll(tried) EXCEPT !.next = (b.next % 3) + 1]

\* What each runtime asks for before it runs its graph on a frame.  A frame
\* that fails retires neither (the failure policy keeps the session).
QnnExecutes(b) == b.held["qnn"] = Ready
PortableExecutes(b) == b.held["portable"] = Ready

\* execute_realtime_inference(): without a routed, ready runtime a frame fails.
CanExecute(b) ==
    /\ b.active = "qnn_htp" => QnnExecutes(b)
    /\ b.active \in {"onnxruntime_nnapi", "onnxruntime_cpu"} => PortableExecutes(b)
    /\ b.active # "none"
=============================================================================
