---------------------------- MODULE ReplayWindow ----------------------------
(***************************************************************************)
(* The sliding replay window of the authenticated data plane, in its two   *)
(* implementations: SlidingReplayWindow1024 (shared, C++) which the Host   *)
(* uses, and UnsignedReplayWindow (Java) which the APP uses.               *)
(*                                                                         *)
(* A window remembers the highest counter it has seen and, for each of the *)
(* WindowSize counters up to it, one bit in an array of words: the bit of  *)
(* counter c is number highest - c. A word is the set of its bits that are *)
(* set; WordBits is 64 in the code.                                        *)
(***************************************************************************)
EXTENDS Integers

CONSTANTS WordBits,    \* bits of a word: 64
          WindowSize,  \* kReplayWindowBits, windowSize: 1024
          Opener       \* which implementation: "cpp" or "java"

ASSUME WindowAssumption ==
    /\ WordBits \in Nat \ {0}
    /\ WindowSize \in Nat \ {0}
    /\ Opener \in {"cpp", "java"}
    /\ Opener = "cpp" => WindowSize % WordBits = 0

Bits  == 0 .. WordBits - 1
NumWords == (WindowSize + WordBits - 1) \div WordBits
Words == 0 .. NumWords - 1

Cleared == [w \in Words |-> {}]
NoWindow == [initialized |-> FALSE, highest |-> 0, seen |-> Cleared]

\* word << n and word >> n.
ShiftLeft(word, n)  == {b \in Bits : b - n \in word}
ShiftRight(word, n) == {b \in Bits : b + n \in word}

IsSet(seen, distance) == (distance % WordBits) \in seen[distance \div WordBits]

SetBit(seen, distance) ==
    [seen EXCEPT ![distance \div WordBits] = @ \cup {distance % WordBits}]

-----------------------------------------------------------------------------
(* Advancing the window by fewer than WindowSize counters *)

\* The C++ loop scatters every source word over two words of a fresh array.
ShiftedCpp(seen, advance) ==
    LET wordShift == advance \div WordBits
        bitShift  == advance % WordBits
    IN [d \in Words |->
          (IF d - wordShift \in Words
           THEN ShiftLeft(seen[d - wordShift], bitShift) ELSE {})
          \cup
          (IF bitShift # 0 /\ d - wordShift - 1 \in Words
           THEN ShiftRight(seen[d - wordShift - 1], WordBits - bitShift) ELSE {})]

\* The word the Java loop stores at a destination, read from the array itself.
Gathered(words, destination, advance) ==
    LET source   == destination - (advance \div WordBits)
        bitShift == advance % WordBits
    IN IF source < 0 THEN {}
       ELSE ShiftLeft(words[source], bitShift)
            \cup IF bitShift # 0 /\ source > 0
                 THEN ShiftRight(words[source - 1], WordBits - bitShift) ELSE {}

\* maskUnusedHighBits.
MaskUnusedHighBits(words) ==
    LET used == WindowSize % WordBits IN
    IF used = 0 THEN words
    ELSE [words EXCEPT ![NumWords - 1] = {b \in @ : b < used}]

\* Mutant: the in-place loop runs upwards and reads words it has overwritten.
ShiftedJavaUpwards(seen, advance) ==
    LET After[n \in 0 .. NumWords] ==
          IF n = 0 THEN seen
          ELSE [After[n - 1] EXCEPT ![n - 1] = Gathered(After[n - 1], n - 1, advance)]
    IN MaskUnusedHighBits(After[NumWords])

\* shiftSeenCounters works in place, from the last word down: After[n] is the
\* array once the n last words have been stored.
ShiftedJava(seen, advance) ==
    LET After[n \in 0 .. NumWords] ==
          IF n = 0 THEN seen
          ELSE [After[n - 1] EXCEPT
                  ![NumWords - n] = Gathered(After[n - 1], NumWords - n, advance)]
    IN MaskUnusedHighBits(After[NumWords])

Shifted(seen, advance) ==
    IF Opener = "cpp" THEN ShiftedCpp(seen, advance) ELSE ShiftedJava(seen, advance)

-----------------------------------------------------------------------------
\* classify, inspect.
Classify(win, counter) ==
    IF ~win.initialized \/ counter > win.highest THEN "fresh"
    ELSE IF win.highest - counter >= WindowSize THEN "too_old"
    ELSE IF IsSet(win.seen, win.highest - counter) THEN "duplicate"
    ELSE "fresh"

\* The words once counter is the highest one.
Advanced(win, counter) ==
    LET advance == counter - win.highest
        seen    == IF advance >= WindowSize THEN Cleared ELSE Shifted(win.seen, advance)
    IN SetBit(seen, 0)

\* commit_authenticated, commitAuthenticated for a counter that is fresh.
CommitAuthenticated(win, counter) ==
    IF ~win.initialized
    THEN [initialized |-> TRUE, highest |-> counter, seen |-> SetBit(Cleared, 0)]
    ELSE IF counter > win.highest
    THEN [initialized |-> TRUE, highest |-> counter, seen |-> Advanced(win, counter)]
    ELSE [initialized |-> TRUE, highest |-> win.highest,
          seen |-> SetBit(win.seen, win.highest - counter)]
=============================================================================
