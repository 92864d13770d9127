----------------------- MODULE AuthenticatedDataPlane -----------------------
(***************************************************************************)
(* One traffic key of the authenticated data plane: the sealer that owns   *)
(* its counters (AuthenticatedPacketSealer, AuthenticatedDataPlaneV2Sender)*)
(* and the opener with its replay window (AuthenticatedPacketOpener,       *)
(* AuthenticatedDataPlaneV2Receiver). The video and the presence probes go *)
(* from a C++ sealer to a Java opener, IDR requests the other way.         *)
(*                                                                         *)
(* seal and open hold a mutex from end to end, so each is one step. A      *)
(* datagram is its counter and whether its tag verifies: AES-GCM itself is *)
(* external. The network loses, repeats, delays, reorders and damages      *)
(* datagrams at will.                                                      *)
(***************************************************************************)
EXTENDS ReplayWindow

CONSTANT MaxCounter     \* kMaximumAuthenticatedPacketCounter: 2^23 - 1

ASSUME CounterAssumption == MaxCounter \in Nat

VARIABLES sealer,   \* next_counter_ and counter_available_
          used,     \* used[c]: how often the cipher was given the nonce of c
          wire,     \* counters of the datagrams that were sealed
          win,      \* the replay window
          opened,   \* opened[c]: how often the payload of c was handed over
          refused,  \* genuine datagrams refused as replays when last offered
          keys      \* the endpoints that still have their key

vars == <<sealer, used, wire, win, opened, refused, keys>>

Counters == 0 .. MaxCounter

Init ==
    /\ sealer  = [next |-> 0, available |-> TRUE]
    /\ used    = [c \in Counters |-> 0]
    /\ wire    = {}
    /\ win     = NoWindow
    /\ opened  = [c \in Counters |-> 0]
    /\ refused = {}
    /\ keys    = {"sealer", "opener"}

-----------------------------------------------------------------------------
(* The sealer *)

\* The counter is burned before the cipher is called.
Burned(s) ==
    IF s.next = MaxCounter
    THEN [next |-> s.next, available |-> FALSE]
    ELSE [next |-> s.next + 1, available |-> TRUE]

\* Mutant: a counter is burned only when the cipher has succeeded.
SealBurnsLate(ok) ==
    /\ "sealer" \in keys
    /\ sealer.available
    /\ sealer' = IF ok THEN Burned(sealer) ELSE sealer
    /\ used[sealer.next] < 2
    /\ used' = [used EXCEPT ![sealer.next] = @ + 1]
    /\ wire' = IF ok THEN wire \cup {sealer.next} ELSE wire
    /\ UNCHANGED <<win, opened, refused, keys>>

\* seal: a payload that is too large, a failed allocation and an exhausted key
\* change nothing; a failing cipher has used the nonce up.
Seal(ok) ==
    /\ "sealer" \in keys
    /\ sealer.available
    /\ sealer' = Burned(sealer)
    /\ used' = [used EXCEPT ![sealer.next] = @ + 1]
    /\ wire' = IF ok THEN wire \cup {sealer.next} ELSE wire
    /\ UNCHANGED <<win, opened, refused, keys>>

-----------------------------------------------------------------------------
(* The opener *)

\* open of a datagram whose tag does not verify, whatever counter its header
\* shows: nothing changes.
OpenDamaged(c) ==
    /\ "opener" \in keys
    /\ Classify(win, c) = "fresh"
    /\ UNCHANGED vars

\* A genuine datagram that the window takes for fresh is decrypted, committed
\* and handed over.
Opened(c) ==
    /\ Classify(win, c) = "fresh"
    /\ win' = CommitAuthenticated(win, c)
    /\ opened' = [opened EXCEPT ![c] = @ + 1]
    /\ refused' = refused \ {c}

\* duplicate and too_old.
Refused(c) ==
    /\ Classify(win, c) # "fresh"
    /\ refused' = refused \cup {c}
    /\ UNCHANGED <<win, opened>>

\* open of a datagram that was sealed. A failed allocation or an unavailable
\* cipher changes nothing.
Open(c) ==
    /\ "opener" \in keys
    /\ c \in wire
    /\ Opened(c) \/ Refused(c)
    /\ UNCHANGED <<sealer, used, wire, keys>>

\* close(), or the destructor.
Close(endpoint) ==
    /\ endpoint \in keys
    /\ keys' = keys \ {endpoint}
    /\ UNCHANGED <<sealer, used, wire, win, opened, refused>>

Next ==
    \/ \E ok \in BOOLEAN : Seal(ok)
    \/ \E c \in Counters : Open(c) \/ OpenDamaged(c)
    \/ \E endpoint \in {"sealer", "opener"} : Close(endpoint)

Spec == Init /\ [][Next]_vars

-----------------------------------------------------------------------------
(* Properties *)

(* The values of the variables; every bit of a word is one of the window's   *)
(* counters (SlidingReplayWindow1024::seen_, UnsignedReplayWindow.seenWords).*)
TypeOK ==
    /\ sealer \in [next : Counters, available : BOOLEAN]
    /\ used \in [Counters -> Nat]
    /\ wire \subseteq Counters
    /\ win \in [initialized : BOOLEAN, highest : Counters, seen : [Words -> SUBSET Bits]]
    /\ opened \in [Counters -> Nat]
    /\ refused \subseteq Counters
    /\ keys \subseteq {"sealer", "opener"}

(* A key never encrypts two packets under one nonce: not after a cipher that *)
(* failed, and not at the limit of the key, where the counter stops growing. *)
NonceUsedOnce == \A c \in Counters : used[c] <= 1

History == {c \in Counters : opened[c] > 0}

(* The window is exact: it knows the highest counter that was handed over    *)
(* and, for every counter inside it, whether it was; no word shift loses or  *)
(* invents a bit.                                                            *)
WindowExact ==
    /\ win.initialized <=> History # {}
    /\ win.initialized =>
          /\ win.highest \in History
          /\ \A c \in History : c <= win.highest
          /\ \A d \in 0 .. WindowSize - 1 :
                IsSet(win.seen, d) <=> (win.highest - d) \in History

(* Counters that were not burned were never used, and only those that were   *)
(* used are on the wire.                                                     *)
SealerInv ==
    /\ \A c \in Counters :
          c > sealer.next \/ (c = sealer.next /\ sealer.available) => used[c] = 0
    /\ \A c \in wire : used[c] = 1
    /\ NonceUsedOnce

(* The inductive invariant behind the refinement.                            *)
IndInv ==
    /\ TypeOK
    /\ SealerInv
    /\ WindowExact
    /\ \A c \in Counters : opened[c] <= 1
    /\ History \subseteq wire

(* Sealer, network and opener together are an at-most-once channel: a packet *)
(* is handed over at most once, and refused only when it was handed over     *)
(* already or is WindowSize behind the newest (open).                        *)
Channel == INSTANCE AtMostOnceChannel WITH sent <- wire, delivered <- opened
ImplementsChannel == Channel!Spec
=============================================================================
