-------------------- MODULE AuthenticatedDataPlaneProofs --------------------
(***************************************************************************)
(* Proofs about AuthenticatedDataPlane: a nonce is used once whichever     *)
(* implementation opens, and with the C++ opener the replay window is      *)
(* exact and the data plane implements AtMostOnceChannel, for every word   *)
(* size, window size and key lifetime. The Java opener shifts its words in *)
(* place, by a recursion on the array, and stays with TLC.                 *)
(*                                                                         *)
(* The second part is about MouseButtonPublisher: its thread keeps the     *)
(* nonce discipline of the key and releases the buttons whatever the       *)
(* owner, the lease gate and failing calls do.                             *)
(*                                                                         *)
(* The last part is about MobileOutput, the APP behind its receiver: while *)
(* a decoder recovery holds the output nothing is prepared or committed,   *)
(* and what the session offers is of the generation that is running.       *)
(***************************************************************************)
EXTENDS MouseButtonPublisher, MobileOutput, TLAPS

-----------------------------------------------------------------------------
(* Words and bits *)

(* Euclidean division.                                                      *)
LEMMA DivMod ==
  ASSUME NEW a \in Nat, NEW n \in Nat \ {0}
  PROVE  /\ a \div n \in Nat
         /\ a % n \in 0 .. n - 1
         /\ a = n * (a \div n) + (a % n)
  OBVIOUS

(* Multiplication by a word size is monotonic.                              *)
LEMMA Mono ==
  ASSUME NEW a \in Int, NEW b \in Int, NEW n \in Nat, a < b
  PROVE  n * a + n <= n * b
  OBVIOUS

(* Word and bit of a distance are unique.                                   *)
LEMMA Unique ==
  ASSUME NEW n \in Nat \ {0}, NEW w \in Int, NEW b \in 0 .. n - 1,
         NEW v \in Int, NEW c \in 0 .. n - 1, n * w + b = n * v + c
  PROVE  w = v /\ b = c
  <1>0. n * w \in Int /\ n * v \in Int
    OBVIOUS
  <1>1. CASE w < v
    <2>1. n * w + n <= n * v
      BY <1>1, Mono
    <2> QED
      BY <1>0, <2>1
  <1>2. CASE v < w
    <2>1. n * v + n <= n * w
      BY <1>2, Mono
    <2> QED
      BY <1>0, <2>1
  <1>3. CASE w = v
    <2>1. n * v = n * w
      BY <1>3
    <2> QED
      BY <1>0, <1>3, <2>1
  <1> QED
    BY <1>1, <1>2, <1>3

(* The words of the C++ window hold exactly its counters.                   *)
LEMMA WholeWords ==
  ASSUME Opener = "cpp"
  PROVE  NumWords \in Nat /\ WindowSize = WordBits * NumWords
  <1> DEFINE q == WindowSize \div WordBits
             p == (WindowSize + WordBits - 1) \div WordBits
             r == (WindowSize + WordBits - 1) % WordBits
  <1>1. WindowSize \in Nat /\ WordBits \in Nat \ {0} /\ WindowSize % WordBits = 0
    BY WindowAssumption
  <1>2. q \in Nat /\ WindowSize = WordBits * q
    BY <1>1, DivMod
  <1>3. /\ p \in Nat /\ r \in 0 .. WordBits - 1
        /\ WindowSize + WordBits - 1 = WordBits * p + r
    <2>1. WindowSize + WordBits - 1 \in Nat
      BY <1>1
    <2> QED
      BY <1>1, <2>1, DivMod
  <1> HIDE DEF p, q, r
  <1>4. WordBits * q + (WordBits - 1) = WordBits * p + r
    <2>1. WindowSize + WordBits - 1 = WindowSize + (WordBits - 1)
      BY <1>1
    <2> QED
      BY <1>2, <1>3, <2>1
  <1>a. WordBits - 1 \in 0 .. WordBits - 1
    BY <1>1
  <1>5. q = p
    BY <1>1, <1>2, <1>3, <1>4, <1>a, Unique
  <1> QED
    BY <1>2, <1>3, <1>5 DEF NumWords, p

(* Every distance inside the window has a word and a bit.                   *)
LEMMA Place ==
  ASSUME Opener = "cpp", NEW d \in 0 .. WindowSize - 1
  PROVE  /\ d \div WordBits \in Words
         /\ d % WordBits \in Bits
         /\ d = WordBits * (d \div WordBits) + (d % WordBits)
  <1>1. d \in Nat /\ WindowSize \in Nat /\ WordBits \in Nat \ {0}
    BY WindowAssumption
  <1> DEFINE w == d \div WordBits
             b == d % WordBits
  <1>2. w \in Nat /\ b \in 0 .. WordBits - 1 /\ d = WordBits * w + b
    BY <1>1, DivMod
  <1> HIDE DEF w, b
  <1>3. NumWords \in Nat /\ WindowSize = WordBits * NumWords
    BY WholeWords
  <1>4. w < NumWords
    <2>1. CASE NumWords = w
      BY <1>1, <1>2, <1>3, <2>1
    <2>2. CASE NumWords < w
      <3>1. WordBits * NumWords + WordBits <= WordBits * w
        BY <1>1, <1>2, <1>3, <2>2, Mono
      <3>2. WordBits * w \in Int
        BY <1>1, <1>2
      <3> QED
        BY <1>1, <1>2, <1>3, <3>1, <3>2
    <2> QED
      BY <1>2, <1>3, <2>1, <2>2
  <1> QED
    BY <1>2, <1>3, <1>4 DEF Words, Bits, w, b


WordArrays == [Words -> SUBSET Bits]

(* Setting a bit sets that bit and no other.                                *)
LEMMA SetBitSpec ==
  ASSUME Opener = "cpp", NEW seen \in WordArrays, NEW d \in 0 .. WindowSize - 1
  PROVE  /\ SetBit(seen, d) \in WordArrays
         /\ \A e \in 0 .. WindowSize - 1 :
               IsSet(SetBit(seen, d), e) <=> (e = d \/ IsSet(seen, e))
  <1> DEFINE dw == d \div WordBits
             db == d % WordBits
  <1>1. dw \in Words /\ db \in Bits /\ d = WordBits * dw + db
    BY Place
  <1>2. SetBit(seen, d) = [seen EXCEPT ![dw] = @ \cup {db}]
    BY DEF SetBit
  <1> HIDE DEF dw, db
  <1>3. SetBit(seen, d) \in WordArrays
    BY <1>1, <1>2 DEF WordArrays
  <1>4. ASSUME NEW e \in 0 .. WindowSize - 1
        PROVE  IsSet(SetBit(seen, d), e) <=> (e = d \/ IsSet(seen, e))
    <2> DEFINE ew == e \div WordBits
               eb == e % WordBits
    <2>1. ew \in Words /\ eb \in Bits /\ e = WordBits * ew + eb
      BY Place
    <2>2. IsSet(SetBit(seen, d), e) <=> eb \in SetBit(seen, d)[ew]
      BY DEF IsSet
    <2>3. IsSet(seen, e) <=> eb \in seen[ew]
      BY DEF IsSet
    <2>4. e = d <=> (ew = dw /\ eb = db)
      BY <1>1, <2>1 DEF ew, eb, dw, db
    <2> HIDE DEF ew, eb
    <2>5. eb \in SetBit(seen, d)[ew] <=> ((ew = dw /\ eb = db) \/ eb \in seen[ew])
      BY <1>1, <1>2, <2>1 DEF WordArrays
    <2> QED
      BY <2>2, <2>3, <2>4, <2>5
  <1> QED
    BY <1>3, <1>4

(* The C++ loop moves every bit by advance places and drops the ones that   *)
(* leave the window.                                                        *)
LEMMA ShiftedCppSpec ==
  ASSUME Opener = "cpp", NEW seen \in WordArrays, NEW advance \in 1 .. WindowSize - 1
  PROVE  /\ ShiftedCpp(seen, advance) \in WordArrays
         /\ \A d \in 0 .. WindowSize - 1 :
               IsSet(ShiftedCpp(seen, advance), d)
                 <=> (d >= advance /\ IsSet(seen, d - advance))
  <1> DEFINE aw == advance \div WordBits
             ab == advance % WordBits
             Low(d)  == IF d - aw \in Words THEN ShiftLeft(seen[d - aw], ab) ELSE {}
             High(d) == IF ab # 0 /\ d - aw - 1 \in Words
                        THEN ShiftRight(seen[d - aw - 1], WordBits - ab) ELSE {}
  <1>0. WordBits \in Nat \ {0} /\ WindowSize \in Nat /\ NumWords \in Nat
    BY WindowAssumption, WholeWords
  <1>1. aw \in Words /\ ab \in Bits /\ advance = WordBits * aw + ab
    <2>1. advance \in 0 .. WindowSize - 1
      BY <1>0
    <2> QED
      BY <2>1, Place
  <1>2. ShiftedCpp(seen, advance) = [d \in Words |-> Low(d) \cup High(d)]
    BY DEF ShiftedCpp
  <1> HIDE DEF aw, ab
  <1>3. ShiftedCpp(seen, advance) \in WordArrays
    <2>1. \A d \in Words : Low(d) \subseteq Bits /\ High(d) \subseteq Bits
      BY DEF ShiftLeft, ShiftRight
    <2> QED
      BY <1>2, <2>1 DEF WordArrays
  <1>4. ASSUME NEW d \in 0 .. WindowSize - 1
        PROVE  IsSet(ShiftedCpp(seen, advance), d)
                 <=> (d >= advance /\ IsSet(seen, d - advance))
    <2> DEFINE dw == d \div WordBits
               db == d % WordBits
    <2>1. dw \in Words /\ db \in Bits /\ d = WordBits * dw + db
      BY Place
    <2>2. IsSet(ShiftedCpp(seen, advance), d) <=> db \in Low(dw) \/ db \in High(dw)
      BY <1>2, <2>1 DEF IsSet
    <2> HIDE DEF dw, db
    <2>3. /\ dw \in Nat /\ aw \in Nat /\ db \in Nat /\ ab \in Nat
          /\ db < WordBits /\ ab < WordBits /\ dw < NumWords /\ aw < NumWords
      BY <1>0, <1>1, <2>1 DEF Words, Bits
    <2>4. \A w \in Words : seen[w] \subseteq Bits
      BY DEF WordArrays
    <2>5. ASSUME NEW w \in Int, NEW b \in Bits, d - advance = WordBits * w + b
          PROVE  /\ d >= advance <=> w \in Words
                 /\ d >= advance => (IsSet(seen, d - advance) <=> b \in seen[w])
      <3>1. b \in 0 .. WordBits - 1 /\ advance \in Int /\ d \in Int
        BY DEF Bits
      <3>2. CASE d >= advance
        <4>1. d - advance \in 0 .. WindowSize - 1
          BY <1>0, <3>1, <3>2
        <4> DEFINE e == d - advance
                   ew == e \div WordBits
                   eb == e % WordBits
        <4>2. ew \in Words /\ eb \in Bits /\ e = WordBits * ew + eb
          BY <4>1, Place
        <4>3. IsSet(seen, e) <=> eb \in seen[ew]
          BY DEF IsSet
        <4> HIDE DEF ew, eb
        <4>4. ew \in Int /\ eb \in 0 .. WordBits - 1 /\ WordBits * w + b = WordBits * ew + eb
          BY <4>2, <2>5 DEF Words, Bits
        <4>5. w = ew /\ b = eb
          BY <1>0, <3>1, <4>4, Unique
        <4> QED
          BY <3>2, <4>2, <4>3, <4>5
      <3>3. CASE w \in Words
        <4>1. w \in Nat
          BY <3>3, <1>0 DEF Words
        <4>2. WordBits * w >= 0 /\ WordBits * w \in Int
          BY <1>0, <4>1
        <4>3. d >= advance
          BY <4>2, <3>1, <2>5
        <4> QED
          BY <4>3, <3>2
      <3> QED
        BY <3>2, <3>3
    <2>6. CASE db >= ab
      <3>1. d - advance = WordBits * (dw - aw) + (db - ab)
        BY <1>0, <1>1, <2>1, <2>3
      <3>2. dw - aw \in Int /\ db - ab \in Bits
        BY <2>3, <2>6, <1>0 DEF Bits
      <3>3. /\ d >= advance <=> dw - aw \in Words
            /\ d >= advance => (IsSet(seen, d - advance) <=> db - ab \in seen[dw - aw])
        BY <2>5, <3>1, <3>2
      <3>4. db \notin High(dw)
        <4>1. db + (WordBits - ab) \notin Bits
          BY <2>3, <2>6, <1>0 DEF Bits
        <4> QED
          BY <4>1, <2>4 DEF ShiftRight
      <3>5. db \in Low(dw) <=> (dw - aw \in Words /\ db - ab \in seen[dw - aw])
        BY <2>1 DEF ShiftLeft
      <3> QED
        BY <2>2, <3>3, <3>4, <3>5
    <2>7. CASE db < ab
      <3>1. d - advance = WordBits * (dw - aw - 1) + (db + (WordBits - ab))
        BY <1>0, <1>1, <2>1, <2>3
      <3>2. dw - aw - 1 \in Int /\ db + (WordBits - ab) \in Bits
        BY <2>3, <2>7, <1>0 DEF Bits
      <3>3. /\ d >= advance <=> dw - aw - 1 \in Words
            /\ d >= advance => (IsSet(seen, d - advance)
                                  <=> db + (WordBits - ab) \in seen[dw - aw - 1])
        BY <2>5, <3>1, <3>2
      <3>4. db \notin Low(dw)
        <4>1. db - ab \notin Bits
          BY <2>3, <2>7, <1>0 DEF Bits
        <4> QED
          BY <4>1, <2>4 DEF ShiftLeft
      <3>5. db \in High(dw) <=> ( /\ dw - aw - 1 \in Words
                                  /\ db + (WordBits - ab) \in seen[dw - aw - 1] )
        <4>1. ab # 0
          BY <2>3, <2>7
        <4> QED
          BY <2>1, <4>1 DEF ShiftRight
      <3> QED
        BY <2>2, <3>3, <3>4, <3>5
    <2> QED
      BY <2>3, <2>6, <2>7
  <1> QED
    BY <1>3, <1>4

-----------------------------------------------------------------------------
(* The window against the set H of the counters that were handed over *)

Windows == [initialized : BOOLEAN, highest : Counters, seen : WordArrays]

Exact(w, H) ==
    /\ w.initialized <=> H # {}
    /\ w.initialized =>
          /\ w.highest \in H
          /\ \A c \in H : c <= w.highest
          /\ \A d \in 0 .. WindowSize - 1 : IsSet(w.seen, d) <=> (w.highest - d) \in H

(* classify answers "fresh" for exactly the counters that were not handed   *)
(* over and are not WindowSize behind the newest one.                       *)
LEMMA FreshSpec ==
  ASSUME NEW w \in Windows, NEW H \in SUBSET Counters, Exact(w, H), NEW c \in Counters
  PROVE  Classify(w, c) = "fresh" <=> (c \notin H /\ \A d \in H : c + WindowSize > d)
  <1>0. c \in Nat /\ WindowSize \in Nat \ {0} /\ H \subseteq Nat /\ w.highest \in Nat
    BY WindowAssumption, CounterAssumption DEF Counters, Windows
  <1>1. CASE ~w.initialized
    BY <1>1 DEF Classify, Exact
  <1>2. CASE w.initialized /\ c > w.highest
    <2>1. \A d \in H : c > d
      BY <1>0, <1>2 DEF Exact
    <2> QED
      BY <1>0, <1>2, <2>1 DEF Classify
  <1>3. CASE w.initialized /\ c <= w.highest /\ w.highest - c >= WindowSize
    BY <1>0, <1>3 DEF Classify, Exact
  <1>4. CASE w.initialized /\ c <= w.highest /\ w.highest - c < WindowSize
    <2> DEFINE e == w.highest - c
    <2>1. e \in 0 .. WindowSize - 1 /\ w.highest - e = c
      BY <1>0, <1>4
    <2>2. IsSet(w.seen, e) <=> c \in H
      BY <1>4, <2>1 DEF Exact
    <2>3. \A d \in H : c + WindowSize > d
      BY <1>0, <1>4 DEF Exact
    <2>4. Classify(w, c) = IF IsSet(w.seen, e) THEN "duplicate" ELSE "fresh"
      BY <1>0, <1>4 DEF Classify
    <2> QED
      BY <2>2, <2>3, <2>4
  <1> QED
    BY <1>0, <1>1, <1>2, <1>3, <1>4

(* Nothing is set in a cleared window.                                      *)
LEMMA ClearedSpec ==
  ASSUME Opener = "cpp"
  PROVE  /\ Cleared \in WordArrays
         /\ \A d \in 0 .. WindowSize - 1 : ~IsSet(Cleared, d)
  <1>1. Cleared \in WordArrays
    BY DEF Cleared, WordArrays
  <1>2. ASSUME NEW d \in 0 .. WindowSize - 1 PROVE ~IsSet(Cleared, d)
    <2>1. d \div WordBits \in Words
      BY Place
    <2> QED
      BY <2>1 DEF IsSet, Cleared
  <1> QED
    BY <1>1, <1>2

(* commit_authenticated keeps the window exact.                             *)
LEMMA CommitSpec ==
  ASSUME Opener = "cpp", NEW w \in Windows, NEW H \in SUBSET Counters, Exact(w, H),
         NEW c \in Counters, Classify(w, c) = "fresh"
  PROVE  /\ CommitAuthenticated(w, c) \in Windows
         /\ Exact(CommitAuthenticated(w, c), H \cup {c})
  <1>0. /\ c \in Nat /\ WindowSize \in Nat \ {0} /\ H \subseteq Nat
        /\ w.highest \in Nat /\ w.highest \in Counters /\ w.seen \in WordArrays
        /\ 0 \in 0 .. WindowSize - 1
    BY WindowAssumption, CounterAssumption DEF Counters, Windows
  <1>1. CASE ~w.initialized
    <2> DEFINE s == SetBit(Cleared, 0)
    <2>1. s \in WordArrays /\ \A d \in 0 .. WindowSize - 1 : IsSet(s, d) <=> d = 0
      BY <1>0, ClearedSpec, SetBitSpec
    <2>2. CommitAuthenticated(w, c) = [initialized |-> TRUE, highest |-> c, seen |-> s]
      BY <1>1 DEF CommitAuthenticated
    <2> HIDE DEF s
    <2>3. H = {}
      BY <1>1 DEF Exact
    <2>4. CommitAuthenticated(w, c) \in Windows
      BY <2>1, <2>2 DEF Windows
    <2>5. \A d \in 0 .. WindowSize - 1 : IsSet(s, d) <=> c - d \in {c}
      BY <1>0, <2>1
    <2> QED
      BY <1>0, <2>2, <2>3, <2>4, <2>5 DEF Exact
  <1>2. CASE w.initialized /\ c > w.highest
    <2> DEFINE advance == c - w.highest
               t == IF advance >= WindowSize THEN Cleared ELSE Shifted(w.seen, advance)
               s == SetBit(t, 0)
    <2>1. /\ t \in WordArrays
          /\ \A d \in 0 .. WindowSize - 1 :
                IsSet(t, d) <=> (d >= advance /\ IsSet(w.seen, d - advance))
      <3>1. CASE advance >= WindowSize
        BY <1>0, <1>2, <3>1, ClearedSpec
      <3>2. CASE advance < WindowSize
        <4>1. advance \in 1 .. WindowSize - 1
          BY <1>0, <1>2, <3>2
        <4>2. t = ShiftedCpp(w.seen, advance)
          BY <1>0, <1>2, <3>2 DEF Shifted
        <4> HIDE DEF t, advance
        <4> QED
          BY <1>0, <4>1, <4>2, ShiftedCppSpec
      <3> QED
        BY <1>0, <1>2, <3>1, <3>2
    <2>2. CommitAuthenticated(w, c) = [initialized |-> TRUE, highest |-> c, seen |-> s]
      BY <1>0, <1>2 DEF CommitAuthenticated, Advanced
    <2> HIDE DEF t
    <2>3. s \in WordArrays /\ \A d \in 0 .. WindowSize - 1 : IsSet(s, d) <=> (d = 0 \/ IsSet(t, d))
      BY <1>0, <2>1, SetBitSpec
    <2> HIDE DEF s
    <2>4. CommitAuthenticated(w, c) \in Windows
      BY <2>2, <2>3 DEF Windows
    <2>5. ASSUME NEW d \in 0 .. WindowSize - 1
          PROVE  IsSet(s, d) <=> c - d \in H \cup {c}
      <3>1. \A h \in H : h <= w.highest /\ h < c
        BY <1>0, <1>2 DEF Exact
      <3>2. CASE d = 0
        BY <1>0, <2>3, <3>2
      <3>3. CASE d # 0 /\ d < advance
        <4>1. c - d \notin H \cup {c}
          BY <1>0, <3>1, <3>3
        <4> QED
          BY <1>0, <2>1, <2>3, <3>3, <4>1
      <3>4. CASE d # 0 /\ d >= advance
        <4>1. d - advance \in 0 .. WindowSize - 1 /\ w.highest - (d - advance) = c - d
          BY <1>0, <1>2, <3>4
        <4>2. IsSet(w.seen, d - advance) <=> c - d \in H
          BY <1>2, <4>1 DEF Exact
        <4>3. c - d # c
          BY <1>0, <3>4
        <4> QED
          BY <2>1, <2>3, <3>4, <4>2, <4>3
      <3> QED
        BY <1>0, <1>2, <3>2, <3>3, <3>4
    <2>6. \A h \in H \cup {c} : h <= c
      BY <1>0, <1>2 DEF Exact
    <2> QED
      BY <2>2, <2>4, <2>5, <2>6 DEF Exact
  <1>3. CASE w.initialized /\ c <= w.highest
    <2> DEFINE e == w.highest - c
               s == SetBit(w.seen, e)
    <2>1. e \in 0 .. WindowSize - 1
      BY <1>0, <1>3 DEF Classify
    <2>2. CommitAuthenticated(w, c) = [initialized |-> TRUE, highest |-> w.highest, seen |-> s]
      BY <1>0, <1>3 DEF CommitAuthenticated
    <2>3. s \in WordArrays /\ \A d \in 0 .. WindowSize - 1 : IsSet(s, d) <=> (d = e \/ IsSet(w.seen, d))
      BY <1>0, <2>1, SetBitSpec
    <2> HIDE DEF s
    <2>4. CommitAuthenticated(w, c) \in Windows
      BY <1>0, <2>2, <2>3 DEF Windows
    <2>5. \A d \in 0 .. WindowSize - 1 : IsSet(s, d) <=> w.highest - d \in H \cup {c}
      BY <1>0, <1>3, <2>3 DEF Exact
    <2>6. w.highest \in H \cup {c} /\ \A h \in H \cup {c} : h <= w.highest
      BY <1>0, <1>3 DEF Exact
    <2> QED
      BY <2>2, <2>4, <2>5, <2>6 DEF Exact
  <1> QED
    BY <1>0, <1>1, <1>2, <1>3

-----------------------------------------------------------------------------
(* The sealer *)

SealerTyped ==
    /\ sealer \in [next : Counters, available : BOOLEAN]
    /\ used \in [Counters -> Nat]
    /\ wire \subseteq Counters

(* seal keeps the counters it has not burned unused, whatever the cipher    *)
(* answers, and a packet it sends has a number above all others.            *)
LEMMA SealStep ==
  ASSUME SealerTyped, SealerInv, NEW ok \in BOOLEAN, Seal(ok)
  PROVE  /\ SealerTyped' /\ SealerInv'
         /\ sealer.next \in Counters
         /\ \A d \in wire : sealer.next > d
  <1> USE CounterAssumption
  <1>0. /\ sealer.next \in Counters /\ sealer.available /\ Counters \subseteq Nat
        /\ sealer.next <= MaxCounter /\ used[sealer.next] = 0
    BY DEF SealerTyped, SealerInv, Seal, Counters
  <1>a. MaxCounter \in Nat /\ Counters = 0 .. MaxCounter
    BY DEF Counters
  <1>1. /\ used' = [used EXCEPT ![sealer.next] = @ + 1]
        /\ wire' \subseteq wire \cup {sealer.next}
        /\ sealer' = Burned(sealer)
    BY DEF Seal
  <1>2. used' \in [Counters -> Nat] /\ wire' \subseteq Counters
    BY <1>0, <1>1 DEF SealerTyped
  <1>3. /\ sealer' \in [next : Counters, available : BOOLEAN]
        /\ sealer'.next >= sealer.next
        /\ sealer'.next = sealer.next => ~sealer'.available
        /\ sealer'.next > sealer.next \/ ~sealer'.available
    <2>1. CASE sealer.next = MaxCounter
      BY <1>0, <1>1, <2>1 DEF Burned
    <2>2. CASE sealer.next # MaxCounter
      <3> DEFINE n == sealer.next + 1
      <3>1. n \in Counters /\ n > sealer.next
        BY <1>0, <1>a, <2>2
      <3>2. sealer' = [next |-> n, available |-> TRUE]
        BY <1>1, <2>2 DEF Burned
      <3>3. n # sealer.next
        BY <1>0, <1>a, <3>1
      <3>4. n >= sealer.next
        BY <1>0, <1>a, <3>1
      <3> HIDE DEF n
      <3>5. sealer' \in [next : Counters, available : BOOLEAN]
        BY <3>1, <3>2
      <3>6. sealer'.next = n
        BY <3>2
      <3> QED
        BY <3>1, <3>3, <3>4, <3>5, <3>6
    <2> QED
      BY <2>1, <2>2
  <1>4. /\ used'[sealer.next] = 1
        /\ \A c \in Counters : c # sealer.next => used'[c] = used[c]
    BY <1>0, <1>1 DEF SealerTyped
  <1>5. NonceUsedOnce'
    BY <1>4 DEF NonceUsedOnce, SealerInv
  <1>6. ASSUME NEW c \in Counters,
               c > sealer'.next \/ (c = sealer'.next /\ sealer'.available)
        PROVE  used'[c] = 0
    <2>1. c > sealer.next
      <3>1. sealer.next \in Nat /\ sealer'.next \in Nat /\ c \in Nat
        BY <1>0, <1>3
      <3>2. CASE c > sealer'.next
        BY <1>3, <3>1, <3>2
      <3>3. CASE c = sealer'.next /\ sealer'.available
        BY <1>3, <3>1, <3>3
      <3> QED
        BY <1>6, <3>2, <3>3
    <2>2. c # sealer.next
      BY <1>0, <2>1
    <2>3. used[c] = 0
      BY <2>1 DEF SealerInv
    <2> QED
      BY <1>4, <2>2, <2>3
  <1>7. \A c \in wire' : used'[c] = 1
    BY <1>0, <1>1, <1>4 DEF SealerInv, SealerTyped
  <1>8. ASSUME NEW d \in wire PROVE sealer.next > d
    <2>1. d \in Counters /\ used[d] = 1
      BY DEF SealerInv, SealerTyped
    <2>2. ~(d > sealer.next) /\ d # sealer.next
      BY <1>0, <2>1 DEF SealerInv
    <2> QED
      BY <1>0, <1>a, <2>1, <2>2
  <1> QED
    BY <1>0, <1>2, <1>3, <1>5, <1>6, <1>7, <1>8 DEF SealerTyped, SealerInv

(* A key never uses a nonce twice, for any key lifetime and either opener.  *)
THEOREM NoncesUsedOnce == Spec => []NonceUsedOnce
  <1> DEFINE Inv == SealerTyped /\ SealerInv
  <1>1. Init => Inv
    <2>1. SUFFICES ASSUME Init PROVE Inv
      OBVIOUS
    <2>2. 0 \in Counters
      BY CounterAssumption DEF Counters
    <2>3. /\ sealer = [next |-> 0, available |-> TRUE]
          /\ used = [c \in Counters |-> 0] /\ wire = {}
      BY <2>1 DEF Init
    <2>4. SealerTyped
      BY <2>2, <2>3 DEF SealerTyped
    <2>5. SealerInv
      BY <2>3 DEF SealerInv, NonceUsedOnce
    <2> QED
      BY <2>4, <2>5
  <1>2. Inv /\ [Next]_vars => Inv'
    <2>1. SUFFICES ASSUME Inv, [Next]_vars PROVE Inv'
      OBVIOUS
    <2>2. CASE \E ok \in BOOLEAN : Seal(ok)
      BY <2>1, <2>2, SealStep
    <2>3. CASE UNCHANGED <<sealer, used, wire>>
      BY <2>1, <2>3 DEF SealerTyped, SealerInv, NonceUsedOnce
    <2> QED
      BY <2>1, <2>2, <2>3 DEF Next, vars, Open, OpenDamaged, Close
  <1>3. Inv => NonceUsedOnce
    BY DEF SealerInv
  <1> QED
    BY <1>1, <1>2, <1>3, PTL DEF Spec

-----------------------------------------------------------------------------
(* The whole data plane, with the C++ opener *)

(* Every step keeps the invariant and is a step of the channel.             *)
LEMMA DataPlaneStep ==
  ASSUME Opener = "cpp", IndInv, [Next]_vars
  PROVE  IndInv' /\ [Channel!Next]_Channel!vars
  <1>0. /\ SealerTyped /\ SealerInv /\ Exact(win, History) /\ History \subseteq Counters
        /\ win \in Windows /\ opened \in [Counters -> Nat] /\ refused \subseteq Counters
        /\ keys \subseteq {"sealer", "opener"} /\ Counters \subseteq Nat
        /\ \A c \in Counters : opened[c] <= 1
        /\ History \subseteq wire
    <2>1. TypeOK /\ SealerInv /\ WindowExact /\ History \subseteq wire
          /\ \A c \in Counters : opened[c] <= 1
      BY DEF IndInv
    <2>2. Counters \subseteq Nat /\ History \subseteq Counters
      BY CounterAssumption DEF Counters, History
    <2>3. /\ SealerTyped /\ opened \in [Counters -> Nat] /\ refused \subseteq Counters
          /\ keys \subseteq {"sealer", "opener"}
      BY <2>1 DEF TypeOK, SealerTyped
    <2>4. win \in Windows
      BY <2>1 DEF TypeOK, Windows, WordArrays
    <2>5. Exact(win, History)
      BY <2>1 DEF WindowExact, Exact
    <2> QED
      BY <2>1, <2>2, <2>3, <2>4, <2>5
  <1>1. ASSUME NEW ok \in BOOLEAN, Seal(ok)
        PROVE  IndInv' /\ [Channel!Next]_Channel!vars
    <2>1. /\ SealerTyped' /\ SealerInv' /\ sealer.next \in Counters
          /\ \A d \in wire : sealer.next > d
      BY <1>0, <1>1, SealStep
    <2>2. UNCHANGED <<win, opened, refused, keys>> /\ wire \subseteq wire'
          /\ (wire' = wire \/ wire' = wire \cup {sealer.next})
      BY <1>1 DEF Seal
    <2>3. History' = History /\ WindowExact'
      BY <2>2 DEF History, WindowExact, IndInv
    <2>4. TypeOK'
      BY <2>1, <2>2 DEF TypeOK, SealerTyped, IndInv
    <2>5. IndInv'
      BY <1>0, <2>1, <2>2, <2>3, <2>4 DEF IndInv
    <2>6. [Channel!Next]_Channel!vars
      <3>1. CASE wire' = wire
        BY <2>2, <3>1 DEF Channel!vars
      <3>2. CASE wire' = wire \cup {sealer.next}
        <4>1. Channel!Send(sealer.next)
          BY <2>1, <2>2, <3>2 DEF Channel!Send
        <4> QED
          BY <2>1, <4>1 DEF Channel!Next, Channel!Counters, Counters
      <3> QED
        BY <2>2, <3>1, <3>2
    <2> QED
      BY <2>5, <2>6
  <1>2. ASSUME NEW c \in Counters, Open(c)
        PROVE  IndInv' /\ [Channel!Next]_Channel!vars
    <2>0. c \in wire /\ UNCHANGED <<sealer, used, wire, keys>>
      BY <1>2 DEF Open
    <2>1. SealerTyped' /\ SealerInv'
      BY <1>0, <2>0 DEF SealerTyped, SealerInv, NonceUsedOnce
    <2>2. Classify(win, c) = "fresh" <=> (c \notin History /\ \A d \in History : c + WindowSize > d)
      BY <1>0, FreshSpec
    <2>3. Channel!Acceptable(c) <=> (c \notin History /\ \A d \in History : c + WindowSize > d)
      BY <1>0 DEF Channel!Acceptable, Channel!HandedOver, Channel!Counters, History, Counters
    <2>4. CASE Opened(c)
      <3>1. /\ win' \in Windows /\ Exact(win', History \cup {c})
        BY <1>0, <2>4, CommitSpec DEF Opened
      <3>2. c \notin History /\ opened[c] = 0
        BY <1>0, <2>2, <2>4 DEF Opened, History
      <3>3. /\ opened' = [opened EXCEPT ![c] = @ + 1] /\ refused' = refused \ {c}
        BY <2>4 DEF Opened
      <3>4. /\ opened' \in [Counters -> Nat]
            /\ \A d \in Counters : opened'[d] = IF d = c THEN 1 ELSE opened[d]
        BY <1>0, <3>2, <3>3
      <3>5. History' = History \cup {c} /\ \A d \in Counters : opened'[d] <= 1
        <4>1. ASSUME NEW d \in Counters
              PROVE  (opened'[d] > 0 <=> (d = c \/ opened[d] > 0)) /\ opened'[d] <= 1
          BY <1>0, <3>4
        <4>2. History' = {d \in Counters : opened'[d] > 0}
          BY DEF History
        <4>3. History' = History \cup {c}
          BY <1>2, <4>1, <4>2 DEF History
        <4> QED
          BY <4>1, <4>3
      <3>6. WindowExact'
        BY <3>1, <3>5 DEF WindowExact, Exact
      <3>7. TypeOK'
        BY <1>0, <2>0, <2>1, <3>1, <3>3, <3>4 DEF TypeOK, SealerTyped, Windows, WordArrays
      <3>8. IndInv'
        BY <1>0, <2>0, <2>1, <3>5, <3>6, <3>7 DEF IndInv
      <3>9. Channel!Deliver(c)
        BY <2>0, <2>2, <2>3, <2>4, <3>3 DEF Channel!Deliver, Opened
      <3> QED
        BY <3>8, <3>9 DEF Channel!Next, Channel!Counters, Counters
    <2>5. CASE Refused(c)
      <3>1. refused' = refused \cup {c} /\ UNCHANGED <<win, opened>> /\ Classify(win, c) # "fresh"
        BY <2>5 DEF Refused
      <3>2. History' = History /\ WindowExact'
        BY <3>1 DEF History, WindowExact, IndInv
      <3>3. TypeOK'
        BY <1>0, <2>0, <2>1, <3>1 DEF TypeOK, SealerTyped, IndInv
      <3>4. IndInv'
        BY <1>0, <2>0, <2>1, <3>1, <3>2, <3>3 DEF IndInv
      <3>5. Channel!Refuse(c)
        BY <2>0, <2>2, <2>3, <3>1 DEF Channel!Refuse
      <3> QED
        BY <3>4, <3>5 DEF Channel!Next, Channel!Counters, Counters
    <2> QED
      BY <1>2, <2>4, <2>5 DEF Open
  <1>3. CASE UNCHANGED <<sealer, used, wire, win, opened, refused>> /\ keys' \subseteq keys
    <2>1. History' = History /\ WindowExact' /\ SealerInv' /\ TypeOK'
      BY <1>3 DEF History, WindowExact, SealerInv, NonceUsedOnce, TypeOK, IndInv
    <2> QED
      BY <1>0, <1>3, <2>1 DEF IndInv, Channel!vars
  <1> QED
    BY <1>1, <1>2, <1>3 DEF Next, vars, OpenDamaged, Close

(* The initial states satisfy the invariant and start the channel.          *)
LEMMA DataPlaneInit ==
  ASSUME Opener = "cpp", Init
  PROVE  IndInv /\ Channel!Init
  <1>1. 0 \in Counters
    BY CounterAssumption DEF Counters
  <1>2. History = {}
    BY DEF History, Init
  <1>3. win \in Windows
    BY <1>1, ClearedSpec DEF Init, NoWindow, Windows
  <1>4. TypeOK
    BY <1>1, <1>3 DEF Init, TypeOK, Windows, WordArrays
  <1>5. SealerInv
    BY DEF Init, SealerInv, NonceUsedOnce
  <1>6. WindowExact
    BY <1>2 DEF Init, NoWindow, WindowExact
  <1>7. \A c \in Counters : opened[c] <= 1
    BY DEF Init
  <1>8. Channel!Init
    BY DEF Init, Channel!Init, Channel!Counters, Counters
  <1> QED
    BY <1>2, <1>4, <1>5, <1>6, <1>7, <1>8 DEF IndInv

(* With the C++ opener the inductive invariant holds: the replay window is  *)
(* exact and no payload was handed over twice.                              *)
THEOREM DataPlaneInvariant ==
  ASSUME Opener = "cpp"
  PROVE  Spec => []IndInv
  BY DataPlaneInit, DataPlaneStep, PTL DEF Spec

(* With the C++ opener the bits of the replay window are exactly the        *)
(* counters that were handed over, for every word and window size.          *)
THEOREM WindowStaysExact ==
  ASSUME Opener = "cpp"
  PROVE  Spec => []WindowExact
  <1>1. IndInv => WindowExact
    BY DEF IndInv
  <1> QED
    BY <1>1, DataPlaneInvariant, PTL

(* With the C++ opener the data plane is an at-most-once channel that       *)
(* refuses nothing but repeats and packets that are too old.                *)
THEOREM DataPlaneImplementsChannel ==
  ASSUME Opener = "cpp"
  PROVE  Spec => ImplementsChannel
  <1>1. Init => Channel!Init
    BY DataPlaneInit
  <1>2. IndInv /\ [Next]_vars => [Channel!Next]_Channel!vars
    BY DataPlaneStep
  <1> QED
    BY <1>1, <1>2, DataPlaneInvariant, PTL DEF Spec, ImplementsChannel, Channel!Spec

-----------------------------------------------------------------------------
(* The mouse button publisher *)

\* stop() has its flag set before it waits, and has let go of the thread and of
\* the session when it returns.
StopPart ==
    /\ stopping => stop
    /\ stop /\ ~stopping => worker.pc = "off" /\ ~ready

\* The thread reaches the releases only behind the flag; a datagram that is
\* sealed while the flag is set is one of them.
ReleasePart ==
    /\ worker.pc \in {"release", "releasing", "ended"} => stop
    /\ Releasing =>
          /\ stop
          /\ worker.pc \in {"releasing", "publish", "sealed", "sending", "ended"}
          /\ worker.mask = 0
    /\ Locked /\ stop => Releasing

\* Every datagram behind the flag is paid for by one of the two releases.
PastPart ==
    /\ stop => ~air.pressed /\ air.past <= 2
    /\ stop /\ worker.pc # "off" => air.past <= worker.releases
    /\ Releasing /\ worker.pc \in {"publish", "sealed", "sending"} => air.past < worker.releases

\* Between the last look at the permit and the send nothing is late.
LatePart ==
    /\ air.late <= 1
    /\ permit \/ worker.pc = "sending" => air.late = 0

\* A button that the phone believes held, with nothing failed since, is held
\* by a thread whose socket is open: it will release it.
HeldPart ==
    /\ worker.pc \in {"poll", "publish", "sealed", "sending"} /\ ~Releasing => transport /\ ~stale
    /\ worker.pc = "failed" /\ ~air.spoilt => stop /\ transport
    /\ worker.pc \in {"loop", "release"} /\ ~air.spoilt /\ air.last \notin {0, Unknown}
          => transport /\ (worker.pc = "loop" => ~stale)
    /\ Releasing /\ worker.pc \in {"releasing", "ended"} => air.spoilt \/ air.last = 0
    /\ ReleasedAtTheEnd

PublisherInv ==
    /\ PublisherTypeOK
    /\ StopPart
    /\ ReleasePart
    /\ PastPart
    /\ LatePart
    /\ HeldPart

Places == {"off", "loop", "poll", "publish", "sealed", "sending", "failed",
           "release", "releasing", "ended"}

(* The fields of the publisher's records, one by one.                       *)
LEMMA PublisherFields ==
  ASSUME PublisherTypeOK
  PROVE  /\ worker = [pc |-> worker.pc, mask |-> worker.mask, releases |-> worker.releases]
         /\ worker.pc \in Places /\ worker.mask \in Masks /\ worker.releases \in 0 .. 2
         /\ air = [last |-> air.last, spoilt |-> air.spoilt, past |-> air.past,
                   pressed |-> air.pressed, late |-> air.late]
         /\ air.last \in Masks \cup {Unknown} /\ air.past \in Nat /\ air.late \in Nat
         /\ air.spoilt \in BOOLEAN /\ air.pressed \in BOOLEAN
         /\ published \in Masks \cup {Unknown}
         /\ permit \in BOOLEAN /\ stop \in BOOLEAN /\ stopping \in BOOLEAN
         /\ ready \in BOOLEAN /\ stale \in BOOLEAN /\ transport \in BOOLEAN
         /\ 0 \in Masks /\ Masks \subseteq Nat
  BY MaskAssumption DEF PublisherTypeOK, Places

(* The initial states satisfy the invariant.                                *)
LEMMA PublisherStarts ==
  ASSUME PublisherInit
  PROVE  PublisherInv
  <1>1. /\ worker = NoWorker /\ air = NothingSent /\ permit \in BOOLEAN
        /\ stop = FALSE /\ stopping = FALSE /\ ready = FALSE /\ stale = FALSE
        /\ transport = FALSE /\ published = Unknown
    BY DEF PublisherInit
  <1>2. /\ worker.pc = "off" /\ worker.releases = 0 /\ worker.mask = 0
        /\ air.late = 0 /\ air.past = 0 /\ air.pressed = FALSE
        /\ air.last = Unknown /\ air.spoilt = FALSE
    BY <1>1 DEF NoWorker, NothingSent
  <1>3. PublisherTypeOK
    <2>1. {permit, stop, stopping, ready, stale, transport} \subseteq BOOLEAN
      BY <1>1
    <2>2. worker \in [pc : Places, mask : Masks, releases : 0 .. 2]
      BY <1>1, MaskAssumption DEF NoWorker, Places
    <2> QED
      BY <1>1, <2>1, <2>2 DEF PublisherTypeOK, NothingSent, Places
  <1> QED
    BY <1>1, <1>2, <1>3 DEF PublisherInv, StopPart, ReleasePart, PastPart, LatePart,
       HeldPart, ReleasedAtTheEnd, Releasing, Locked

(* The loop sees the flag.                                                  *)
LEMMA LeaveLoopStep ==
  ASSUME PublisherInv, LeaveLoop
  PROVE  PublisherInv'
  <1>1. PublisherTypeOK
    BY DEF PublisherInv
  <1>2. /\ worker.pc = "loop" /\ stop
        /\ UNCHANGED <<permit, stop, stopping, ready, stale, transport, published>>
    BY DEF LeaveLoop, GoTo
  <1>3. /\ worker' = [pc |-> "release", mask |-> worker.mask, releases |-> worker.releases]
        /\ air' = [last |-> air.last, spoilt |-> air.spoilt, past |-> air.past,
                pressed |-> air.pressed, late |-> air.late]
    BY <1>1, PublisherFields DEF LeaveLoop, GoTo
  <1>4. /\ worker'.pc = "release" /\ worker'.mask = worker.mask /\ worker'.releases = worker.releases
        /\ air'.last = air.last /\ air'.spoilt = air.spoilt /\ air'.past = air.past
        /\ air'.pressed = air.pressed /\ air'.late = air.late
    BY <1>3
  <1>5. PublisherTypeOK'
    BY <1>1, <1>2, <1>3, PublisherFields DEF PublisherTypeOK, Places
  <1> QED
    BY <1>1, <1>2, <1>4, <1>5, PublisherFields DEF PublisherInv, StopPart, ReleasePart, PastPart, LatePart, HeldPart,
       ReleasedAtTheEnd, Releasing, Locked, Places, PermitsSend

(* stop() sets its flag while nothing is being sealed or sent.              *)
LEMMA RequestStopStep ==
  ASSUME PublisherInv, RequestStop
  PROVE  PublisherInv'
  <1>1. PublisherTypeOK
    BY DEF PublisherInv
  <1>2. /\ ~stopping /\ ~Locked /\ stop' = TRUE /\ stopping' = TRUE
        /\ UNCHANGED <<permit, ready, stale, transport, published>>
    BY DEF RequestStop
  <1>3. /\ worker' = [pc |-> worker.pc, mask |-> worker.mask, releases |-> worker.releases]
        /\ air' = [last |-> air.last, spoilt |-> air.spoilt, past |-> 0,
                pressed |-> FALSE, late |-> air.late]
    BY <1>1, PublisherFields DEF RequestStop
  <1>4. /\ worker'.pc = worker.pc /\ worker'.mask = worker.mask /\ worker'.releases = worker.releases
        /\ air'.last = air.last /\ air'.spoilt = air.spoilt /\ air'.past = 0
        /\ air'.pressed = FALSE /\ air'.late = air.late
    BY <1>3
  <1>5. PublisherTypeOK'
    BY <1>1, <1>2, <1>3, PublisherFields DEF PublisherTypeOK, Places
  <1> QED
    BY <1>1, <1>2, <1>4, <1>5, PublisherFields DEF PublisherInv, StopPart, ReleasePart, PastPart, LatePart, HeldPart,
       ReleasedAtTheEnd, Releasing, Locked, Places, PermitsSend

(* stop() returns when the thread has ended.                                *)
LEMMA JoinStep ==
  ASSUME PublisherInv, JoinWorker
  PROVE  PublisherInv'
  <1>1. PublisherTypeOK
    BY DEF PublisherInv
  <1>2. /\ stopping /\ worker.pc \in {"off", "ended"}
        /\ stopping' = FALSE /\ ready' = FALSE /\ stale' = TRUE /\ transport' = FALSE
        /\ UNCHANGED <<permit, stop, published>>
    BY DEF JoinWorker, NoWorker
  <1>3. /\ worker' = [pc |-> "off", mask |-> 0, releases |-> 0]
        /\ air' = [last |-> air.last, spoilt |-> air.spoilt, past |-> air.past,
                pressed |-> air.pressed, late |-> air.late]
    BY <1>1, PublisherFields DEF JoinWorker, NoWorker
  <1>4. /\ worker'.pc = "off" /\ worker'.mask = 0 /\ worker'.releases = 0
        /\ air'.last = air.last /\ air'.spoilt = air.spoilt /\ air'.past = air.past
        /\ air'.pressed = air.pressed /\ air'.late = air.late
    BY <1>3
  <1>5. PublisherTypeOK'
    <2>1. worker' \in [pc : Places, mask : Masks, releases : 0 .. 2]
      BY <1>1, <1>2, <1>3, PublisherFields DEF Places
    <2>2. {permit', stop', stopping', ready', stale', transport'} \subseteq BOOLEAN
      BY <1>1, <1>2, PublisherFields
    <2>3. published' \in Masks \cup {Unknown}
      BY <1>1, <1>2, PublisherFields
    <2> QED
      BY <1>1, <1>3, <2>1, <2>2, <2>3, PublisherFields DEF PublisherTypeOK, Places
  <1> QED
    BY <1>1, <1>2, <1>4, <1>5, PublisherFields DEF PublisherInv, StopPart, ReleasePart, PastPart, LatePart, HeldPart,
       ReleasedAtTheEnd, Releasing, Locked, Places, PermitsSend

(* The lease gate opens or closes.                                          *)
LEMMA PermitStep ==
  ASSUME PublisherInv, ChangePermit
  PROVE  PublisherInv'
  <1>1. PublisherTypeOK
    BY DEF PublisherInv
  <1>2. /\ permit' = ~permit
        /\ UNCHANGED <<stop, stopping, ready, stale, transport, published>>
    BY DEF ChangePermit
  <1>3. /\ worker' = [pc |-> worker.pc, mask |-> worker.mask, releases |-> worker.releases]
        /\ air' = [last |-> air.last, spoilt |-> air.spoilt, past |-> air.past,
                pressed |-> air.pressed, late |-> 0]
    BY <1>1, PublisherFields DEF ChangePermit
  <1>4. /\ worker'.pc = worker.pc /\ worker'.mask = worker.mask /\ worker'.releases = worker.releases
        /\ air'.last = air.last /\ air'.spoilt = air.spoilt /\ air'.past = air.past
        /\ air'.pressed = air.pressed /\ air'.late = 0
    BY <1>3
  <1>5. PublisherTypeOK'
    BY <1>1, <1>2, <1>3, PublisherFields DEF PublisherTypeOK, Places
  <1> QED
    BY <1>1, <1>2, <1>4, <1>5, PublisherFields DEF PublisherInv, StopPart, ReleasePart, PastPart, LatePart, HeldPart,
       ReleasedAtTheEnd, Releasing, Locked, Places, PermitsSend

(* The thread ends behind its two releases.                                 *)
LEMMA EndRunStep ==
  ASSUME PublisherInv, EndRun
  PROVE  PublisherInv'
  <1>1. PublisherTypeOK
    BY DEF PublisherInv
  <1>2. /\ worker.pc = "releasing" /\ worker.releases = 2
        /\ transport' = FALSE
        /\ UNCHANGED <<permit, stop, stopping, ready, stale, published>>
    BY DEF EndRun, GoTo
  <1>3. /\ worker' = [pc |-> "ended", mask |-> worker.mask, releases |-> worker.releases]
        /\ air' = [last |-> air.last, spoilt |-> air.spoilt, past |-> air.past,
                pressed |-> air.pressed, late |-> air.late]
    BY <1>1, PublisherFields DEF EndRun, GoTo
  <1>4. /\ worker'.pc = "ended" /\ worker'.mask = worker.mask /\ worker'.releases = worker.releases
        /\ air'.last = air.last /\ air'.spoilt = air.spoilt /\ air'.past = air.past
        /\ air'.pressed = air.pressed /\ air'.late = air.late
    BY <1>3
  <1>5. PublisherTypeOK'
    BY <1>1, <1>2, <1>3, PublisherFields DEF PublisherTypeOK, Places
  <1> QED
    BY <1>1, <1>2, <1>4, <1>5, PublisherFields DEF PublisherInv, StopPart, ReleasePart, PastPart, LatePart, HeldPart,
       ReleasedAtTheEnd, Releasing, Locked, Places, PermitsSend

(* start() begins with nothing sent.                                        *)
LEMMA StartStep ==
  ASSUME PublisherInv, NEW session \in BOOLEAN, NEW created \in BOOLEAN, StartPublisher(session, created)
  PROVE  PublisherInv'
  <1>1. PublisherTypeOK
    BY DEF PublisherInv
  <1>2. /\ stop' = FALSE /\ stop /\ ~stopping
        /\ ready' = session /\ stale' = FALSE /\ transport' = FALSE /\ published' = Unknown
        /\ UNCHANGED <<permit, stopping>>
    BY DEF StartPublisher, NoWorker, NothingSent
  <1>3. /\ worker' = [pc |-> (IF created THEN "loop" ELSE "off"), mask |-> 0, releases |-> 0]
        /\ air' = [last |-> Unknown, spoilt |-> FALSE, past |-> 0,
                pressed |-> FALSE, late |-> air.late]
    BY <1>1, PublisherFields DEF StartPublisher, NoWorker, NothingSent
  <1>4. /\ worker'.pc = (IF created THEN "loop" ELSE "off") /\ worker'.mask = 0 /\ worker'.releases = 0
        /\ air'.last = Unknown /\ air'.spoilt = FALSE /\ air'.past = 0
        /\ air'.pressed = FALSE /\ air'.late = air.late
    BY <1>3
  <1>5. PublisherTypeOK'
    <2>1. worker' \in [pc : Places, mask : Masks, releases : 0 .. 2]
      BY <1>1, <1>2, <1>3, PublisherFields DEF Places
    <2>2. {permit', stop', stopping', ready', stale', transport'} \subseteq BOOLEAN
      BY <1>1, <1>2, PublisherFields
    <2>3. published' \in Masks \cup {Unknown}
      BY <1>1, <1>2, PublisherFields
    <2> QED
      BY <1>1, <1>3, <2>1, <2>2, <2>3, PublisherFields DEF PublisherTypeOK, Places
  <1> QED
    BY <1>1, <1>2, <1>4, <1>5, PublisherFields DEF PublisherInv, StopPart, ReleasePart, PastPart, LatePart, HeldPart,
       ReleasedAtTheEnd, Releasing, Locked, Places, PermitsSend

(* A publish that failed closes the socket or goes to the releases.         *)
LEMMA FailureStep ==
  ASSUME PublisherInv, AfterFailure
  PROVE  PublisherInv'
  <1>1. PublisherTypeOK
    BY DEF PublisherInv
  <1>2. /\ worker.pc = "failed"
        /\ transport' = (transport /\ stop)
        /\ UNCHANGED <<permit, stop, stopping, ready, stale, published>>
    BY DEF AfterFailure, GoTo
  <1>3. /\ worker' = [pc |-> (IF stop THEN "release" ELSE "loop"), mask |-> worker.mask, releases |-> worker.releases]
        /\ air' = [last |-> air.last, spoilt |-> air.spoilt, past |-> air.past,
                pressed |-> air.pressed, late |-> air.late]
    BY <1>1, PublisherFields DEF AfterFailure, GoTo
  <1>4. /\ worker'.pc = (IF stop THEN "release" ELSE "loop") /\ worker'.mask = worker.mask /\ worker'.releases = worker.releases
        /\ air'.last = air.last /\ air'.spoilt = air.spoilt /\ air'.past = air.past
        /\ air'.pressed = air.pressed /\ air'.late = air.late
    BY <1>3
  <1>5. PublisherTypeOK'
    BY <1>1, <1>2, <1>3, PublisherFields DEF PublisherTypeOK, Places
  <1> QED
    BY <1>1, <1>2, <1>4, <1>5, PublisherFields DEF PublisherInv, StopPart, ReleasePart, PastPart, LatePart, HeldPart,
       ReleasedAtTheEnd, Releasing, Locked, Places, PermitsSend

(* A release is published, or spoilt by a missing permit.                   *)
LEMMA ReleaseStep ==
  ASSUME PublisherInv, Release
  PROVE  PublisherInv'
  <1>1. PublisherTypeOK
    BY DEF PublisherInv
  <1>2. /\ worker.pc = "releasing" /\ worker.releases < 2
        /\ UNCHANGED <<permit, stop, stopping, ready, stale, transport, published>>
    BY DEF Release, Spoil
  <1>3. /\ worker' = [pc |-> (IF PermitsSend THEN "publish" ELSE "releasing"), mask |-> 0, releases |-> worker.releases + 1]
        /\ air' = [last |-> air.last, spoilt |-> (IF PermitsSend THEN air.spoilt ELSE TRUE), past |-> air.past,
                pressed |-> air.pressed, late |-> air.late]
    BY <1>1, PublisherFields DEF Release, Spoil
  <1>4. /\ worker'.pc = (IF PermitsSend THEN "publish" ELSE "releasing") /\ worker'.mask = 0 /\ worker'.releases = worker.releases + 1
        /\ air'.last = air.last /\ air'.spoilt = (IF PermitsSend THEN air.spoilt ELSE TRUE) /\ air'.past = air.past
        /\ air'.pressed = air.pressed /\ air'.late = air.late
    BY <1>3
  <1>5. PublisherTypeOK'
    <2>1. worker' \in [pc : Places, mask : Masks, releases : 0 .. 2]
      BY <1>1, <1>2, <1>3, PublisherFields DEF Places
    <2>2. {permit', stop', stopping', ready', stale', transport'} \subseteq BOOLEAN
      BY <1>1, <1>2, PublisherFields
    <2>3. published' \in Masks \cup {Unknown}
      BY <1>1, <1>2, PublisherFields
    <2> QED
      BY <1>1, <1>3, <2>1, <2>2, <2>3, PublisherFields DEF PublisherTypeOK, Places
  <1> QED
    BY <1>1, <1>2, <1>4, <1>5, PublisherFields DEF PublisherInv, StopPart, ReleasePart, PastPart, LatePart, HeldPart,
       ReleasedAtTheEnd, Releasing, Locked, Places, PermitsSend

(* The top of an iteration opens the socket, or finds it cannot.            *)
LEMMA PrepareStep ==
  ASSUME PublisherInv, NEW opens \in BOOLEAN, PrepareTransport(opens)
  PROVE  PublisherInv'
  <1>0. PublisherTypeOK
    BY DEF PublisherInv
  <1>1. CASE ~PermitsSend \/ (~(transport /\ ~stale) /\ ~opens)
    <2>1. /\ worker.pc = "loop" /\ ~stop
          /\ stale' = FALSE /\ transport' = FALSE
          /\ UNCHANGED <<permit, stop, stopping, ready, published>>
      BY <1>1 DEF PrepareTransport, GoTo, Spoil
    <2>2. /\ worker' = [pc |-> worker.pc, mask |-> worker.mask, releases |-> worker.releases]
          /\ air' = [last |-> air.last, spoilt |-> TRUE, past |-> air.past,
                     pressed |-> air.pressed, late |-> air.late]
      BY <1>0, <1>1, PublisherFields DEF PrepareTransport, GoTo, Spoil
    <2>3. /\ worker'.pc = worker.pc /\ worker'.mask = worker.mask /\ worker'.releases = worker.releases
          /\ air'.last = air.last /\ air'.spoilt = TRUE /\ air'.past = air.past
          /\ air'.pressed = air.pressed /\ air'.late = air.late
      BY <2>2
    <2>4. worker' \in [pc : Places, mask : Masks, releases : 0 .. 2]
      BY <1>0, <2>1, <2>2, PublisherFields DEF Places
    <2>5. {permit', stop', stopping', ready', stale', transport'} \subseteq BOOLEAN
      BY <1>0, <2>1, PublisherFields
    <2>6. published' \in Masks \cup {Unknown}
      BY <1>0, <2>1, PublisherFields
    <2>7. PublisherTypeOK'
      BY <1>0, <2>2, <2>4, <2>5, <2>6, PublisherFields DEF PublisherTypeOK, Places
    <2> QED
      BY <1>0, <1>1, <2>1, <2>3, <2>7, PublisherFields
      DEF PublisherInv, StopPart, ReleasePart, PastPart, LatePart, HeldPart,
         ReleasedAtTheEnd, Releasing, Locked, Places, PermitsSend
  <1>2. CASE PermitsSend /\ ((transport /\ ~stale) \/ opens)
    <2>1. /\ worker.pc = "loop" /\ ~stop
          /\ stale' = FALSE /\ transport' = TRUE
          /\ published' = published \/ published' = Unknown
          /\ UNCHANGED <<permit, stop, stopping, ready>>
      BY <1>2 DEF PrepareTransport, GoTo, Spoil
    <2>2. /\ worker' = [pc |-> "poll", mask |-> worker.mask, releases |-> worker.releases]
          /\ air' = [last |-> air.last, spoilt |-> air.spoilt, past |-> air.past,
                     pressed |-> air.pressed, late |-> air.late]
      BY <1>0, <1>2, PublisherFields DEF PrepareTransport, GoTo, Spoil
    <2>3. /\ worker'.pc = "poll" /\ worker'.mask = worker.mask /\ worker'.releases = worker.releases
          /\ air'.last = air.last /\ air'.spoilt = air.spoilt /\ air'.past = air.past
          /\ air'.pressed = air.pressed /\ air'.late = air.late
      BY <2>2
    <2>4. worker' \in [pc : Places, mask : Masks, releases : 0 .. 2]
      BY <1>0, <2>1, <2>2, PublisherFields DEF Places
    <2>5. {permit', stop', stopping', ready', stale', transport'} \subseteq BOOLEAN
      BY <1>0, <2>1, PublisherFields
    <2>6. published' \in Masks \cup {Unknown}
      BY <1>0, <2>1, PublisherFields
    <2>7. PublisherTypeOK'
      BY <1>0, <2>2, <2>4, <2>5, <2>6, PublisherFields DEF PublisherTypeOK, Places
    <2> QED
      BY <1>0, <1>2, <2>1, <2>3, <2>7, PublisherFields
      DEF PublisherInv, StopPart, ReleasePart, PastPart, LatePart, HeldPart,
         ReleasedAtTheEnd, Releasing, Locked, Places, PermitsSend
  <1> QED
    BY <1>1, <1>2 DEF PrepareTransport

(* The buttons are read and published when that is due and permitted.       *)
LEMMA PollStep ==
  ASSUME PublisherInv, NEW mask \in Masks, NEW due \in BOOLEAN, Poll(mask, due)
  PROVE  PublisherInv'
  <1>0. PublisherTypeOK
    BY DEF PublisherInv
  <1>1. CASE mask = published /\ ~due
    <2>1. /\ worker.pc = "poll"
          /\ UNCHANGED <<permit, stop, stopping, ready, stale, transport, published>>
      BY <1>1 DEF Poll, GoTo, Spoil
    <2>2. /\ worker' = [pc |-> "loop", mask |-> worker.mask, releases |-> worker.releases]
          /\ air' = [last |-> air.last, spoilt |-> air.spoilt, past |-> air.past,
                     pressed |-> air.pressed, late |-> air.late]
      BY <1>0, <1>1, PublisherFields DEF Poll, GoTo, Spoil
    <2>3. /\ worker'.pc = "loop" /\ worker'.mask = worker.mask /\ worker'.releases = worker.releases
          /\ air'.last = air.last /\ air'.spoilt = air.spoilt /\ air'.past = air.past
          /\ air'.pressed = air.pressed /\ air'.late = air.late
      BY <2>2
    <2>4. worker' \in [pc : Places, mask : Masks, releases : 0 .. 2]
      BY <1>0, <2>1, <2>2, PublisherFields DEF Places
    <2>5. {permit', stop', stopping', ready', stale', transport'} \subseteq BOOLEAN
      BY <1>0, <2>1, PublisherFields
    <2>6. published' \in Masks \cup {Unknown}
      BY <1>0, <2>1, PublisherFields
    <2>7. PublisherTypeOK'
      BY <1>0, <2>2, <2>4, <2>5, <2>6, PublisherFields DEF PublisherTypeOK, Places
    <2> QED
      BY <1>0, <1>1, <2>1, <2>3, <2>7, PublisherFields
      DEF PublisherInv, StopPart, ReleasePart, PastPart, LatePart, HeldPart,
         ReleasedAtTheEnd, Releasing, Locked, Places, PermitsSend
  <1>2. CASE ~(mask = published /\ ~due) /\ PermitsSend
    <2>1. /\ worker.pc = "poll"
          /\ UNCHANGED <<permit, stop, stopping, ready, stale, transport, published>>
      BY <1>2 DEF Poll, GoTo, Spoil
    <2>2. /\ worker' = [pc |-> "publish", mask |-> mask, releases |-> worker.releases]
          /\ air' = [last |-> air.last, spoilt |-> air.spoilt, past |-> air.past,
                     pressed |-> air.pressed, late |-> air.late]
      BY <1>0, <1>2, PublisherFields DEF Poll, GoTo, Spoil
    <2>3. /\ worker'.pc = "publish" /\ worker'.mask = mask /\ worker'.releases = worker.releases
          /\ air'.last = air.last /\ air'.spoilt = air.spoilt /\ air'.past = air.past
          /\ air'.pressed = air.pressed /\ air'.late = air.late
      BY <2>2
    <2>4. worker' \in [pc : Places, mask : Masks, releases : 0 .. 2]
      BY <1>0, <2>1, <2>2, PublisherFields DEF Places
    <2>5. {permit', stop', stopping', ready', stale', transport'} \subseteq BOOLEAN
      BY <1>0, <2>1, PublisherFields
    <2>6. published' \in Masks \cup {Unknown}
      BY <1>0, <2>1, PublisherFields
    <2>7. PublisherTypeOK'
      BY <1>0, <2>2, <2>4, <2>5, <2>6, PublisherFields DEF PublisherTypeOK, Places
    <2> QED
      BY <1>0, <1>2, <2>1, <2>3, <2>7, PublisherFields
      DEF PublisherInv, StopPart, ReleasePart, PastPart, LatePart, HeldPart,
         ReleasedAtTheEnd, Releasing, Locked, Places, PermitsSend
  <1>3. CASE ~(mask = published /\ ~due) /\ ~PermitsSend
    <2>1. /\ worker.pc = "poll"
          /\ UNCHANGED <<permit, stop, stopping, ready, stale, transport, published>>
      BY <1>3 DEF Poll, GoTo, Spoil
    <2>2. /\ worker' = [pc |-> "failed", mask |-> mask, releases |-> worker.releases]
          /\ air' = [last |-> air.last, spoilt |-> TRUE, past |-> air.past,
                     pressed |-> air.pressed, late |-> air.late]
      BY <1>0, <1>3, PublisherFields DEF Poll, GoTo, Spoil
    <2>3. /\ worker'.pc = "failed" /\ worker'.mask = mask /\ worker'.releases = worker.releases
          /\ air'.last = air.last /\ air'.spoilt = TRUE /\ air'.past = air.past
          /\ air'.pressed = air.pressed /\ air'.late = air.late
      BY <2>2
    <2>4. worker' \in [pc : Places, mask : Masks, releases : 0 .. 2]
      BY <1>0, <2>1, <2>2, PublisherFields DEF Places
    <2>5. {permit', stop', stopping', ready', stale', transport'} \subseteq BOOLEAN
      BY <1>0, <2>1, PublisherFields
    <2>6. published' \in Masks \cup {Unknown}
      BY <1>0, <2>1, PublisherFields
    <2>7. PublisherTypeOK'
      BY <1>0, <2>2, <2>4, <2>5, <2>6, PublisherFields DEF PublisherTypeOK, Places
    <2> QED
      BY <1>0, <1>3, <2>1, <2>3, <2>7, PublisherFields
      DEF PublisherInv, StopPart, ReleasePart, PastPart, LatePart, HeldPart,
         ReleasedAtTheEnd, Releasing, Locked, Places, PermitsSend
  <1> QED
    BY <1>1, <1>2, <1>3 DEF Poll

(* The releases need the socket and the permit.                             *)
LEMMA BeginReleaseStep ==
  ASSUME PublisherInv, BeginRelease
  PROVE  PublisherInv'
  <1>0. PublisherTypeOK
    BY DEF PublisherInv
  <1>1. CASE transport /\ PermitsSend
    <2>1. /\ worker.pc = "release"
          /\ UNCHANGED <<permit, stop, stopping, ready, stale, transport, published>>
      BY <1>1 DEF BeginRelease, GoTo, Spoil
    <2>2. /\ worker' = [pc |-> "releasing", mask |-> worker.mask, releases |-> worker.releases]
          /\ air' = [last |-> air.last, spoilt |-> air.spoilt, past |-> air.past,
                     pressed |-> air.pressed, late |-> air.late]
      BY <1>0, <1>1, PublisherFields DEF BeginRelease, GoTo, Spoil
    <2>3. /\ worker'.pc = "releasing" /\ worker'.mask = worker.mask /\ worker'.releases = worker.releases
          /\ air'.last = air.last /\ air'.spoilt = air.spoilt /\ air'.past = air.past
          /\ air'.pressed = air.pressed /\ air'.late = air.late
      BY <2>2
    <2>4. worker' \in [pc : Places, mask : Masks, releases : 0 .. 2]
      BY <1>0, <2>1, <2>2, PublisherFields DEF Places
    <2>5. {permit', stop', stopping', ready', stale', transport'} \subseteq BOOLEAN
      BY <1>0, <2>1, PublisherFields
    <2>6. published' \in Masks \cup {Unknown}
      BY <1>0, <2>1, PublisherFields
    <2>7. PublisherTypeOK'
      BY <1>0, <2>2, <2>4, <2>5, <2>6, PublisherFields DEF PublisherTypeOK, Places
    <2> QED
      BY <1>0, <1>1, <2>1, <2>3, <2>7, PublisherFields
      DEF PublisherInv, StopPart, ReleasePart, PastPart, LatePart, HeldPart,
         ReleasedAtTheEnd, Releasing, Locked, Places, PermitsSend
  <1>2. CASE ~transport /\ PermitsSend
    <2>1. /\ worker.pc = "release"
          /\ transport' = FALSE
          /\ UNCHANGED <<permit, stop, stopping, ready, stale, published>>
      BY <1>2 DEF BeginRelease, GoTo, Spoil
    <2>2. /\ worker' = [pc |-> "ended", mask |-> worker.mask, releases |-> worker.releases]
          /\ air' = [last |-> air.last, spoilt |-> air.spoilt, past |-> air.past,
                     pressed |-> air.pressed, late |-> air.late]
      BY <1>0, <1>2, PublisherFields DEF BeginRelease, GoTo, Spoil
    <2>3. /\ worker'.pc = "ended" /\ worker'.mask = worker.mask /\ worker'.releases = worker.releases
          /\ air'.last = air.last /\ air'.spoilt = air.spoilt /\ air'.past = air.past
          /\ air'.pressed = air.pressed /\ air'.late = air.late
      BY <2>2
    <2>4. worker' \in [pc : Places, mask : Masks, releases : 0 .. 2]
      BY <1>0, <2>1, <2>2, PublisherFields DEF Places
    <2>5. {permit', stop', stopping', ready', stale', transport'} \subseteq BOOLEAN
      BY <1>0, <2>1, PublisherFields
    <2>6. published' \in Masks \cup {Unknown}
      BY <1>0, <2>1, PublisherFields
    <2>7. PublisherTypeOK'
      BY <1>0, <2>2, <2>4, <2>5, <2>6, PublisherFields DEF PublisherTypeOK, Places
    <2> QED
      BY <1>0, <1>2, <2>1, <2>3, <2>7, PublisherFields
      DEF PublisherInv, StopPart, ReleasePart, PastPart, LatePart, HeldPart,
         ReleasedAtTheEnd, Releasing, Locked, Places, PermitsSend
  <1>3. CASE ~PermitsSend
    <2>1. /\ worker.pc = "release"
          /\ transport' = FALSE
          /\ UNCHANGED <<permit, stop, stopping, ready, stale, published>>
      BY <1>3 DEF BeginRelease, GoTo, Spoil
    <2>2. /\ worker' = [pc |-> "ended", mask |-> worker.mask, releases |-> worker.releases]
          /\ air' = [last |-> air.last, spoilt |-> TRUE, past |-> air.past,
                     pressed |-> air.pressed, late |-> air.late]
      BY <1>0, <1>3, PublisherFields DEF BeginRelease, GoTo, Spoil
    <2>3. /\ worker'.pc = "ended" /\ worker'.mask = worker.mask /\ worker'.releases = worker.releases
          /\ air'.last = air.last /\ air'.spoilt = TRUE /\ air'.past = air.past
          /\ air'.pressed = air.pressed /\ air'.late = air.late
      BY <2>2
    <2>4. worker' \in [pc : Places, mask : Masks, releases : 0 .. 2]
      BY <1>0, <2>1, <2>2, PublisherFields DEF Places
    <2>5. {permit', stop', stopping', ready', stale', transport'} \subseteq BOOLEAN
      BY <1>0, <2>1, PublisherFields
    <2>6. published' \in Masks \cup {Unknown}
      BY <1>0, <2>1, PublisherFields
    <2>7. PublisherTypeOK'
      BY <1>0, <2>2, <2>4, <2>5, <2>6, PublisherFields DEF PublisherTypeOK, Places
    <2> QED
      BY <1>0, <1>3, <2>1, <2>3, <2>7, PublisherFields
      DEF PublisherInv, StopPart, ReleasePart, PastPart, LatePart, HeldPart,
         ReleasedAtTheEnd, Releasing, Locked, Places, PermitsSend
  <1> QED
    BY <1>1, <1>2, <1>3 DEF BeginRelease

(* The last look at the permit.                                             *)
LEMMA BoundaryStep ==
  ASSUME PublisherInv, CheckBoundary
  PROVE  PublisherInv'
  <1>0. PublisherTypeOK
    BY DEF PublisherInv
  <1>1. CASE PermitsSend
    <2>1. /\ worker.pc = "sealed"
          /\ UNCHANGED <<permit, stop, stopping, ready, stale, transport, published>>
      BY <1>1 DEF CheckBoundary, GoTo, Spoil, Returned, Releasing
    <2>2. /\ worker' = [pc |-> "sending", mask |-> worker.mask, releases |-> worker.releases]
          /\ air' = [last |-> air.last, spoilt |-> air.spoilt, past |-> air.past,
                     pressed |-> air.pressed, late |-> air.late]
      BY <1>0, <1>1, PublisherFields DEF CheckBoundary, GoTo, Spoil, Returned, Releasing
    <2>3. /\ worker'.pc = "sending" /\ worker'.mask = worker.mask /\ worker'.releases = worker.releases
          /\ air'.last = air.last /\ air'.spoilt = air.spoilt /\ air'.past = air.past
          /\ air'.pressed = air.pressed /\ air'.late = air.late
      BY <2>2
    <2>4. worker' \in [pc : Places, mask : Masks, releases : 0 .. 2]
      BY <1>0, <2>1, <2>2, PublisherFields DEF Places
    <2>5. {permit', stop', stopping', ready', stale', transport'} \subseteq BOOLEAN
      BY <1>0, <2>1, PublisherFields
    <2>6. published' \in Masks \cup {Unknown}
      BY <1>0, <2>1, PublisherFields
    <2>7. PublisherTypeOK'
      BY <1>0, <2>2, <2>4, <2>5, <2>6, PublisherFields DEF PublisherTypeOK, Places
    <2> QED
      BY <1>0, <1>1, <2>1, <2>3, <2>7, PublisherFields
      DEF PublisherInv, StopPart, ReleasePart, PastPart, LatePart, HeldPart,
         ReleasedAtTheEnd, Releasing, Locked, Places, PermitsSend
  <1>2. CASE ~PermitsSend
    <2>1. /\ worker.pc = "sealed"
          /\ UNCHANGED <<permit, stop, stopping, ready, stale, transport, published>>
      BY <1>2 DEF CheckBoundary, GoTo, Spoil, Returned, Releasing
    <2>2. /\ worker' = [pc |-> (IF worker.releases > 0 THEN "releasing" ELSE "failed"), mask |-> worker.mask, releases |-> worker.releases]
          /\ air' = [last |-> air.last, spoilt |-> TRUE, past |-> air.past,
                     pressed |-> air.pressed, late |-> air.late]
      BY <1>0, <1>2, PublisherFields DEF CheckBoundary, GoTo, Spoil, Returned, Releasing
    <2>3. /\ worker'.pc = (IF worker.releases > 0 THEN "releasing" ELSE "failed") /\ worker'.mask = worker.mask /\ worker'.releases = worker.releases
          /\ air'.last = air.last /\ air'.spoilt = TRUE /\ air'.past = air.past
          /\ air'.pressed = air.pressed /\ air'.late = air.late
      BY <2>2
    <2>4. worker' \in [pc : Places, mask : Masks, releases : 0 .. 2]
      BY <1>0, <2>1, <2>2, PublisherFields DEF Places
    <2>5. {permit', stop', stopping', ready', stale', transport'} \subseteq BOOLEAN
      BY <1>0, <2>1, PublisherFields
    <2>6. published' \in Masks \cup {Unknown}
      BY <1>0, <2>1, PublisherFields
    <2>7. PublisherTypeOK'
      BY <1>0, <2>2, <2>4, <2>5, <2>6, PublisherFields DEF PublisherTypeOK, Places
    <2> QED
      BY <1>0, <1>2, <2>1, <2>3, <2>7, PublisherFields
      DEF PublisherInv, StopPart, ReleasePart, PastPart, LatePart, HeldPart,
         ReleasedAtTheEnd, Releasing, Locked, Places, PermitsSend
  <1> QED
    BY <1>1, <1>2 DEF CheckBoundary

(* A datagram leaves, or the socket fails.                                  *)
LEMMA SendStep ==
  ASSUME PublisherInv, NEW ok \in BOOLEAN, SendButtons(ok)
  PROVE  PublisherInv'
  <1>0. PublisherTypeOK
    BY DEF PublisherInv
  <1>1. CASE ok
    <2>1. /\ worker.pc = "sending"
          /\ published' = worker.mask \/ published' = published
          /\ UNCHANGED <<permit, stop, stopping, ready, stale, transport>>
      BY <1>1 DEF SendButtons, GoTo, Spoil, Returned, Releasing, Sent
    <2>2. /\ worker' = [pc |-> (IF worker.releases > 0 THEN "releasing" ELSE "loop"), mask |-> worker.mask, releases |-> worker.releases]
          /\ air' = [last |-> worker.mask, spoilt |-> FALSE, past |-> (IF stop THEN air.past + 1 ELSE air.past),
                     pressed |-> (air.pressed \/ (stop /\ worker.mask # 0)), late |-> (IF permit THEN air.late ELSE air.late + 1)]
      BY <1>0, <1>1, PublisherFields DEF SendButtons, GoTo, Spoil, Returned, Releasing, Sent
    <2>3. /\ worker'.pc = (IF worker.releases > 0 THEN "releasing" ELSE "loop") /\ worker'.mask = worker.mask /\ worker'.releases = worker.releases
          /\ air'.last = worker.mask /\ air'.spoilt = FALSE /\ air'.past = (IF stop THEN air.past + 1 ELSE air.past)
          /\ air'.pressed = (air.pressed \/ (stop /\ worker.mask # 0)) /\ air'.late = (IF permit THEN air.late ELSE air.late + 1)
      BY <2>2
    <2>4. worker' \in [pc : Places, mask : Masks, releases : 0 .. 2]
      BY <1>0, <2>1, <2>2, PublisherFields DEF Places
    <2>5. {permit', stop', stopping', ready', stale', transport'} \subseteq BOOLEAN
      BY <1>0, <2>1, PublisherFields
    <2>6. published' \in Masks \cup {Unknown}
      BY <1>0, <2>1, PublisherFields
    <2>7. PublisherTypeOK'
      BY <1>0, <2>2, <2>4, <2>5, <2>6, PublisherFields DEF PublisherTypeOK, Places
    <2> QED
      BY <1>0, <1>1, <2>1, <2>3, <2>7, PublisherFields
      DEF PublisherInv, StopPart, ReleasePart, PastPart, LatePart, HeldPart,
         ReleasedAtTheEnd, Releasing, Locked, Places, PermitsSend
  <1>2. CASE ~ok
    <2>1. /\ worker.pc = "sending"
          /\ UNCHANGED <<permit, stop, stopping, ready, stale, transport, published>>
      BY <1>2 DEF SendButtons, GoTo, Spoil, Returned, Releasing, Sent
    <2>2. /\ worker' = [pc |-> (IF worker.releases > 0 THEN "releasing" ELSE "failed"), mask |-> worker.mask, releases |-> worker.releases]
          /\ air' = [last |-> air.last, spoilt |-> TRUE, past |-> air.past,
                     pressed |-> air.pressed, late |-> air.late]
      BY <1>0, <1>2, PublisherFields DEF SendButtons, GoTo, Spoil, Returned, Releasing, Sent
    <2>3. /\ worker'.pc = (IF worker.releases > 0 THEN "releasing" ELSE "failed") /\ worker'.mask = worker.mask /\ worker'.releases = worker.releases
          /\ air'.last = air.last /\ air'.spoilt = TRUE /\ air'.past = air.past
          /\ air'.pressed = air.pressed /\ air'.late = air.late
      BY <2>2
    <2>4. worker' \in [pc : Places, mask : Masks, releases : 0 .. 2]
      BY <1>0, <2>1, <2>2, PublisherFields DEF Places
    <2>5. {permit', stop', stopping', ready', stale', transport'} \subseteq BOOLEAN
      BY <1>0, <2>1, PublisherFields
    <2>6. published' \in Masks \cup {Unknown}
      BY <1>0, <2>1, PublisherFields
    <2>7. PublisherTypeOK'
      BY <1>0, <2>2, <2>4, <2>5, <2>6, PublisherFields DEF PublisherTypeOK, Places
    <2> QED
      BY <1>0, <1>2, <2>1, <2>3, <2>7, PublisherFields
      DEF PublisherInv, StopPart, ReleasePart, PastPart, LatePart, HeldPart,
         ReleasedAtTheEnd, Releasing, Locked, Places, PermitsSend
  <1> QED
    BY <1>1, <1>2 DEF SendButtons

(* Under the lock: sealed, or refused with the buttons accounted for.       *)
LEMMA SealButtonsStep ==
  ASSUME PublisherInv, NEW outcome \in {"sealed", "no_memory", "no_cipher"}, SealButtons(outcome)
  PROVE  PublisherInv'
  <1>0. PublisherTypeOK
    BY DEF PublisherInv
  <1>1. CASE ~PublishAllowed /\ PermitsSend
    <2>1. /\ worker.pc = "publish" /\ stop /\ ~(worker.releases > 0)
          /\ UNCHANGED <<permit, stop, stopping, ready, stale, transport, published>>
      BY <1>1 DEF SealButtons, GoTo, Spoil, Returned, Releasing, PublishAllowed, PermitsSend
    <2>2. /\ worker' = [pc |-> "failed", mask |-> worker.mask, releases |-> worker.releases]
          /\ air' = [last |-> air.last, spoilt |-> air.spoilt, past |-> air.past,
                     pressed |-> air.pressed, late |-> air.late]
      BY <1>0, <1>1, PublisherFields DEF SealButtons, GoTo, Spoil, Returned, Releasing, PublishAllowed, PermitsSend
    <2>3. /\ worker'.pc = "failed" /\ worker'.mask = worker.mask /\ worker'.releases = worker.releases
          /\ air'.last = air.last /\ air'.spoilt = air.spoilt /\ air'.past = air.past
          /\ air'.pressed = air.pressed /\ air'.late = air.late
      BY <2>2
    <2>4. worker' \in [pc : Places, mask : Masks, releases : 0 .. 2]
      BY <1>0, <2>1, <2>2, PublisherFields DEF Places
    <2>5. {permit', stop', stopping', ready', stale', transport'} \subseteq BOOLEAN
      BY <1>0, <2>1, PublisherFields
    <2>6. published' \in Masks \cup {Unknown}
      BY <1>0, <2>1, PublisherFields
    <2>7. PublisherTypeOK'
      BY <1>0, <2>2, <2>4, <2>5, <2>6, PublisherFields DEF PublisherTypeOK, Places
    <2> QED
      BY <1>0, <1>1, <2>1, <2>3, <2>7, PublisherFields
      DEF PublisherInv, StopPart, ReleasePart, PastPart, LatePart, HeldPart,
         ReleasedAtTheEnd, Releasing, Locked, Places, PermitsSend
  <1>2. CASE ~PublishAllowed /\ ~PermitsSend
    <2>1. /\ worker.pc = "publish"
          /\ UNCHANGED <<permit, stop, stopping, ready, stale, transport, published>>
      BY <1>2 DEF SealButtons, GoTo, Spoil, Returned, Releasing, PublishAllowed, PermitsSend
    <2>2. /\ worker' = [pc |-> (IF worker.releases > 0 THEN "releasing" ELSE "failed"), mask |-> worker.mask, releases |-> worker.releases]
          /\ air' = [last |-> air.last, spoilt |-> TRUE, past |-> air.past,
                     pressed |-> air.pressed, late |-> air.late]
      BY <1>0, <1>2, PublisherFields DEF SealButtons, GoTo, Spoil, Returned, Releasing, PublishAllowed, PermitsSend
    <2>3. /\ worker'.pc = (IF worker.releases > 0 THEN "releasing" ELSE "failed") /\ worker'.mask = worker.mask /\ worker'.releases = worker.releases
          /\ air'.last = air.last /\ air'.spoilt = TRUE /\ air'.past = air.past
          /\ air'.pressed = air.pressed /\ air'.late = air.late
      BY <2>2
    <2>4. worker' \in [pc : Places, mask : Masks, releases : 0 .. 2]
      BY <1>0, <2>1, <2>2, PublisherFields DEF Places
    <2>5. {permit', stop', stopping', ready', stale', transport'} \subseteq BOOLEAN
      BY <1>0, <2>1, PublisherFields
    <2>6. published' \in Masks \cup {Unknown}
      BY <1>0, <2>1, PublisherFields
    <2>7. PublisherTypeOK'
      BY <1>0, <2>2, <2>4, <2>5, <2>6, PublisherFields DEF PublisherTypeOK, Places
    <2> QED
      BY <1>0, <1>2, <2>1, <2>3, <2>7, PublisherFields
      DEF PublisherInv, StopPart, ReleasePart, PastPart, LatePart, HeldPart,
         ReleasedAtTheEnd, Releasing, Locked, Places, PermitsSend
  <1>3. CASE PublishAllowed /\ ~sealer.available
    <2>1. /\ worker.pc = "publish"
          /\ ready' = FALSE /\ stale' = TRUE
          /\ UNCHANGED <<permit, stop, stopping, transport, published>>
      BY <1>3 DEF SealButtons, GoTo, Spoil, Returned, Releasing, PublishAllowed, PermitsSend
    <2>2. /\ worker' = [pc |-> (IF worker.releases > 0 THEN "releasing" ELSE "failed"), mask |-> worker.mask, releases |-> worker.releases]
          /\ air' = [last |-> air.last, spoilt |-> TRUE, past |-> air.past,
                     pressed |-> air.pressed, late |-> air.late]
      BY <1>0, <1>3, PublisherFields DEF SealButtons, GoTo, Spoil, Returned, Releasing, PublishAllowed, PermitsSend
    <2>3. /\ worker'.pc = (IF worker.releases > 0 THEN "releasing" ELSE "failed") /\ worker'.mask = worker.mask /\ worker'.releases = worker.releases
          /\ air'.last = air.last /\ air'.spoilt = TRUE /\ air'.past = air.past
          /\ air'.pressed = air.pressed /\ air'.late = air.late
      BY <2>2
    <2>4. worker' \in [pc : Places, mask : Masks, releases : 0 .. 2]
      BY <1>0, <2>1, <2>2, PublisherFields DEF Places
    <2>5. {permit', stop', stopping', ready', stale', transport'} \subseteq BOOLEAN
      BY <1>0, <2>1, PublisherFields
    <2>6. published' \in Masks \cup {Unknown}
      BY <1>0, <2>1, PublisherFields
    <2>7. PublisherTypeOK'
      BY <1>0, <2>2, <2>4, <2>5, <2>6, PublisherFields DEF PublisherTypeOK, Places
    <2> QED
      BY <1>0, <1>3, <2>1, <2>3, <2>7, PublisherFields
      DEF PublisherInv, StopPart, ReleasePart, PastPart, LatePart, HeldPart,
         ReleasedAtTheEnd, Releasing, Locked, Places, PermitsSend
  <1>4. CASE PublishAllowed /\ sealer.available /\ outcome # "sealed"
    <2>1. /\ worker.pc = "publish"
          /\ UNCHANGED <<permit, stop, stopping, ready, stale, transport, published>>
      BY <1>4 DEF SealButtons, GoTo, Spoil, Returned, Releasing, PublishAllowed, PermitsSend
    <2>2. /\ worker' = [pc |-> (IF worker.releases > 0 THEN "releasing" ELSE "failed"), mask |-> worker.mask, releases |-> worker.releases]
          /\ air' = [last |-> air.last, spoilt |-> TRUE, past |-> air.past,
                     pressed |-> air.pressed, late |-> air.late]
      BY <1>0, <1>4, PublisherFields DEF SealButtons, GoTo, Spoil, Returned, Releasing, PublishAllowed, PermitsSend
    <2>3. /\ worker'.pc = (IF worker.releases > 0 THEN "releasing" ELSE "failed") /\ worker'.mask = worker.mask /\ worker'.releases = worker.releases
          /\ air'.last = air.last /\ air'.spoilt = TRUE /\ air'.past = air.past
          /\ air'.pressed = air.pressed /\ air'.late = air.late
      BY <2>2
    <2>4. worker' \in [pc : Places, mask : Masks, releases : 0 .. 2]
      BY <1>0, <2>1, <2>2, PublisherFields DEF Places
    <2>5. {permit', stop', stopping', ready', stale', transport'} \subseteq BOOLEAN
      BY <1>0, <2>1, PublisherFields
    <2>6. published' \in Masks \cup {Unknown}
      BY <1>0, <2>1, PublisherFields
    <2>7. PublisherTypeOK'
      BY <1>0, <2>2, <2>4, <2>5, <2>6, PublisherFields DEF PublisherTypeOK, Places
    <2> QED
      BY <1>0, <1>4, <2>1, <2>3, <2>7, PublisherFields
      DEF PublisherInv, StopPart, ReleasePart, PastPart, LatePart, HeldPart,
         ReleasedAtTheEnd, Releasing, Locked, Places, PermitsSend
  <1>5. CASE PublishAllowed /\ sealer.available /\ outcome = "sealed"
    <2>1. /\ worker.pc = "publish" /\ (stop => worker.releases > 0)
          /\ UNCHANGED <<permit, stop, stopping, ready, stale, transport, published>>
      BY <1>5 DEF SealButtons, GoTo, Spoil, Returned, Releasing, PublishAllowed, PermitsSend
    <2>2. /\ worker' = [pc |-> "sealed", mask |-> worker.mask, releases |-> worker.releases]
          /\ air' = [last |-> air.last, spoilt |-> air.spoilt, past |-> air.past,
                     pressed |-> air.pressed, late |-> air.late]
      BY <1>0, <1>5, PublisherFields DEF SealButtons, GoTo, Spoil, Returned, Releasing, PublishAllowed, PermitsSend
    <2>3. /\ worker'.pc = "sealed" /\ worker'.mask = worker.mask /\ worker'.releases = worker.releases
          /\ air'.last = air.last /\ air'.spoilt = air.spoilt /\ air'.past = air.past
          /\ air'.pressed = air.pressed /\ air'.late = air.late
      BY <2>2
    <2>4. worker' \in [pc : Places, mask : Masks, releases : 0 .. 2]
      BY <1>0, <2>1, <2>2, PublisherFields DEF Places
    <2>5. {permit', stop', stopping', ready', stale', transport'} \subseteq BOOLEAN
      BY <1>0, <2>1, PublisherFields
    <2>6. published' \in Masks \cup {Unknown}
      BY <1>0, <2>1, PublisherFields
    <2>7. PublisherTypeOK'
      BY <1>0, <2>2, <2>4, <2>5, <2>6, PublisherFields DEF PublisherTypeOK, Places
    <2> QED
      BY <1>0, <1>5, <2>1, <2>3, <2>7, PublisherFields
      DEF PublisherInv, StopPart, ReleasePart, PastPart, LatePart, HeldPart,
         ReleasedAtTheEnd, Releasing, Locked, Places, PermitsSend
  <1> QED
    BY <1>1, <1>2, <1>3, <1>4, <1>5 DEF SealButtons

(* Every step of the owner, the lease gate and the thread preserves the     *)
(* invariant.                                                               *)
LEMMA PublisherStep ==
  ASSUME PublisherInv, [PublisherNext]_publisherVars
  PROVE  PublisherInv'
  <1>1. CASE PublisherNext
    <2>1. CASE WorkerStep
      BY <2>1, LeaveLoopStep, PrepareStep, PollStep, SealButtonsStep, BoundaryStep, SendStep,
         FailureStep, BeginReleaseStep, ReleaseStep, EndRunStep DEF WorkerStep
    <2> QED
      BY <1>1, <2>1, StartStep, RequestStopStep, JoinStep, PermitStep DEF PublisherNext
  <1>2. CASE UNCHANGED publisherVars
    BY <1>2 DEF publisherVars, ownVars, PublisherInv, PublisherTypeOK, StopPart, ReleasePart,
       PastPart, LatePart, HeldPart, ReleasedAtTheEnd, Releasing, Locked
  <1> QED
    BY <1>1, <1>2

(* Whatever the owner, the lease gate and failing calls do between the      *)
(* steps of the publisher's thread, only releases leave the Host behind     *)
(* stop(), at most one datagram follows the withdrawal of the permit, and   *)
(* the buttons are released at the end unless something has failed.         *)
THEOREM ButtonsTheorem == PublisherSpec => []ButtonsReleased
  <1>1. PublisherInit => PublisherInv
    BY PublisherStarts
  <1>2. PublisherInv /\ [PublisherNext]_publisherVars => PublisherInv'
    BY PublisherStep
  <1>3. PublisherInv => ButtonsReleased
    BY DEF PublisherInv, ButtonsReleased, StopPart, PastPart, LatePart, HeldPart,
       OnlyReleasesAfterStop, OneLateDatagram
  <1> QED
    BY <1>1, <1>2, <1>3, PTL DEF PublisherSpec

(* The publisher uses its key as any sender does: each of its steps seals a *)
(* packet or leaves the key alone.                                          *)
THEOREM PublisherUsesKey == PublisherSpec => Spec
  <1>1. PublisherInit => Init
    BY DEF PublisherInit
  <1>2. [PublisherNext]_publisherVars => [Next]_vars
    <2>1. SUFFICES ASSUME [PublisherNext]_publisherVars PROVE [Next]_vars
      OBVIOUS
    <2>2. ASSUME NEW outcome \in {"sealed", "no_memory", "no_cipher"}, SealButtons(outcome)
          PROVE  Seal(TRUE) \/ Seal(FALSE) \/ UNCHANGED vars
      BY <2>2 DEF SealButtons
    <2>3. CASE WorkerStep
      BY <2>2, <2>3 DEF WorkerStep, Next, LeaveLoop, PrepareTransport, Poll, CheckBoundary,
         SendButtons, AfterFailure, BeginRelease, Release, EndRun
    <2> QED
      BY <2>1, <2>3 DEF PublisherNext, StartPublisher, RequestStop, JoinWorker, ChangePermit,
         publisherVars
  <1> QED
    BY <1>1, <1>2, PTL DEF PublisherSpec, Spec

(* No nonce of the mouse key is used twice, however often the publisher is  *)
(* stopped and started on its session.                                      *)
THEOREM PublisherNonces == PublisherSpec => []NonceUsedOnce
  BY PublisherUsesKey, NoncesUsedOnce, PTL

-----------------------------------------------------------------------------
(* The APP behind its receiver: decoder restart and output delivery.       *)

Gates == [force : BOOLEAN, user : BOOLEAN, susp : BOOLEAN, elig : BOOLEAN, rec : 0..MaxGen]
Deliveries == [allowed : BOOLEAN, susp : BOOLEAN, elig : BOOLEAN, rec : 0..MaxGen, ready : BOOLEAN]
CommitTickets == [id : TicketIds, gen : 0..MaxGen, age : {"young", "due", "late"}]
Hands == [worker : TicketIds, serial : TicketIds]
Locks == [decoder : Threads \union {"nobody"}, publish : Threads \union {"nobody"}]
ThreadPlaces == {"idle", "stopping", "joining", "allow", "disallow", "applyOff",
           "run", "resume", "reopen", "reclose", "publish", "begin", "offer",
           "taken", "writing", "reject", "ack", "nack", "invalidate", "done",
           "suspend", "suspendJava", "drain", "schedule"}
Closings == {"no", "output", "commit", "visibility", "java", "drain"}
Backends == [active : {"none", "qnn_htp", "onnxruntime_nnapi", "onnxruntime_cpu"},
             held : [Runtimes -> 0..4], poisoned : BOOLEAN, next : 1..3]

(* What every variable is: the decoder and its frames, the gates, the      *)
(* tickets, and where the threads are.                                     *)
DecoderOK ==
    /\ dec \in Decoders
    /\ coded \in Frame /\ queue \in Frame /\ exec \in Frame
    /\ free \in Nat /\ job \in 0..MaxGen /\ active \in 0..MaxGen
GatesOK == gate \in Gates /\ java \in Deliveries /\ armed \in BOOLEAN /\ unseen \in BOOLEAN
TicketsOK == ticket \in CommitTickets /\ slot \in TicketIds /\ io \in TicketIds /\ held \in Hands
ControlOK == pc \in [Threads -> ThreadPlaces] /\ close \in [Threads -> Closings] /\ lock \in Locks

OutputStateOK == DecoderOK /\ GatesOK /\ TicketsOK /\ ControlOK

(* A buffer is free, queued or with the worker, and the worker has a frame *)
(* exactly while it works on one; a session starts with an idle worker.    *)
BuffersKept ==
    /\ free + (IF queue = NoFrame THEN 0 ELSE 1) + (IF exec = NoFrame THEN 0 ELSE 1) = 2
    /\ pc["worker"] = "idle" <=> exec = NoFrame
    /\ \A f \in {coded, queue, exec} : f # NoFrame => f.gen # Zero

SessionOrder ==
    /\ dec.running => dec.gen # Zero
    /\ ~dec.running => pc["ui"] \in {"idle", "joining"}
    /\ pc["ui"] = "joining" => ~dec.running
    /\ ~dec.running /\ pc["ui"] = "idle" => pc["worker"] = "idle"

BackendKept == backend \in Backends /\ OneRuntimeLoaded

(* The writer owns the I/O lock from the decision to write until the       *)
(* result has been reported.                                               *)
WriterOwnsIo ==
    /\ pc["serial"] = "idle" => io = Zero /\ held.serial = Zero
    /\ pc["serial"] = "taken" => io = Zero /\ held.serial # Zero
    /\ pc["serial"] \notin {"idle", "taken"} => io = held.serial /\ held.serial # Zero

(* From its decision to the offer the worker keeps g_publish_mutex, so     *)
(* that neither the stream nor what has been seen changes under it, and    *)
(* the ticket it holds is nobody else's.                                   *)
DecisionStands ==
    /\ pc["worker"] # "offer" => held.worker = Zero
    /\ pc["worker"] \in {"begin", "offer"} =>
         close["worker"] = "no" /\ lock.publish = "worker" /\ exec.gen = active /\ ~unseen
    /\ pc["worker"] = "begin" => ticket.id = Zero
    /\ pc["worker"] = "offer" => /\ held.worker \notin {Zero, slot, held.serial}
                                 /\ ticket.id \in {Zero, held.worker}
    /\ unseen => armed \/ close["worker"] \in {"output", "commit", "visibility"}

(* The restart keeps it as well until output is suspended.                 *)
SuspensionStands ==
    pc["receiver"] \in {"suspendJava", "drain"} =>
        lock.publish = "receiver" /\ close["receiver"] = "no"

OutputInv ==
    /\ OutputStateOK /\ BuffersKept /\ SessionOrder /\ BackendKept
    /\ WriterOwnsIo /\ DecisionStands /\ SuspensionStands /\ QuietWhileHeld

-----------------------------------------------------------------------------
(* Generations, frames and tickets.                                        *)
LEMMA GenerationFacts ==
  /\ Zero \in 0..MaxGen
  /\ \A g \in 0..MaxGen : g < MaxGen => g + 1 \in 0..MaxGen /\ g + 1 # Zero
  /\ Tickets \subseteq TicketIds /\ Zero \in TicketIds /\ Zero \notin Tickets
BY OutputAssumption DEF Zero, TicketIds

LEMMA FrameFacts ==
  /\ NoFrame \in Frame
  /\ \A g \in 0..MaxGen : [gen |-> g, fresh |-> TRUE] \in Frame
  /\ \A f \in Frame : /\ Aged(f) \in Frame /\ Aged(f).gen = f.gen
                      /\ f.gen # Zero => Aged(f) # NoFrame
  /\ Aged(NoFrame) = NoFrame
<1>1. NoFrame \in Frame /\ (\A g \in 0..MaxGen : [gen |-> g, fresh |-> TRUE] \in Frame)
  BY GenerationFacts DEF NoFrame, Frame
<1>2. ASSUME NEW f \in Frame
      PROVE  Aged(f) \in Frame /\ Aged(f).gen = f.gen
  BY DEF Frame, Aged
<1>3. NoFrame.gen = Zero /\ NoFrame.fresh = FALSE
  BY DEF NoFrame
<1>4. ASSUME NEW f \in Frame, f.fresh = FALSE PROVE Aged(f) = f
  BY <1>4 DEF Frame, Aged
<1> QED  BY <1>1, <1>2, <1>3, <1>4

LEMMA TicketFacts ==
  /\ NoTicket \in CommitTickets /\ NoTicket.id = Zero
  /\ \A t \in CommitTickets, id \in TicketIds : CompleteTicket(t, id) \in {t, NoTicket}
  /\ \A id \in TicketIds, g \in 0..MaxGen : [id |-> id, gen |-> g, age |-> "young"] \in CommitTickets
BY GenerationFacts DEF NoTicket, CommitTickets, CompleteTicket

(* The gates: what they do to the suspension.                              *)
LEMMA GateFacts ==
  ASSUME NEW g \in Gates, NEW gen \in 0..MaxGen
  PROVE  /\ ClosedGate \in Gates /\ ~ClosedGate.susp
         /\ CompleteRecovery(g) \in Gates /\ ~CompleteRecovery(g).susp
         /\ RevokeImmediately(g) \in Gates /\ RevokeImmediately(g).susp = g.susp
BY GenerationFacts DEF Gates, ClosedGate, CompleteRecovery, RevokeImmediately

LEMMA DeliveryFacts ==
  ASSUME NEW d \in Deliveries, NEW gen \in 0..MaxGen
  PROVE  /\ \A b \in BOOLEAN : ClosedDelivery(b) \in Deliveries /\ ~ClosedDelivery(b).susp
         /\ ResumeDelivery(d, gen) \in Deliveries
         /\ ResumeDelivery(d, gen).susp => d.susp
<1>1. \A b \in BOOLEAN : ClosedDelivery(b) \in Deliveries /\ ~ClosedDelivery(b).susp
  BY GenerationFacts DEF Deliveries, ClosedDelivery
<1>2. CASE ~d.ready
  <2>1. ResumeDelivery(d, gen) = ClosedDelivery(FALSE)
    BY <1>2 DEF ResumeDelivery
  <2>2. ClosedDelivery(FALSE) \in Deliveries /\ ~ClosedDelivery(FALSE).susp
    BY GenerationFacts DEF Deliveries, ClosedDelivery
  <2> QED  BY <1>1, <2>1, <2>2
<1>3. CASE d.ready /\ d.susp /\ d.rec = gen
  <2>1. ResumeDelivery(d, gen) = [d EXCEPT !.susp = FALSE, !.elig = FALSE, !.rec = Zero]
    BY <1>3 DEF ResumeDelivery
  <2> QED  BY <1>1, <1>3, <2>1, GenerationFacts DEF Deliveries
<1>4. CASE d.ready /\ ~(d.susp /\ d.rec = gen)
  <2>1. ResumeDelivery(d, gen) = d
    BY <1>4 DEF ResumeDelivery
  <2> QED  BY <1>1, <2>1
<1> QED  BY <1>2, <1>3, <1>4

(* The router releases everything, and prepares one runtime or none.       *)
LEMMA ReleaseFacts ==
  ASSUME NEW b \in Backends
  PROVE  /\ ReleaseAll(b) \in Backends /\ ReleaseAll(b).active = "none"
         /\ \A r \in Runtimes : ReleaseAll(b).held[r] = 0
         /\ ReleaseAll(b).next = b.next
<1> DEFINE a == [b EXCEPT !.active = "none"]
           q == ReleaseRuntime(a, "qnn")
           p == ReleaseRuntime(q, "portable")
<1>1. a \in Backends /\ a.active = "none" /\ a.next = b.next
  BY DEF Backends
<1>2. ReleaseAll(b) = p
  BY DEF ReleaseAll
<1> HIDE DEF a
<1>3. q \in Backends /\ q.active = "none" /\ q.next = b.next /\ q.held["qnn"] = 0
  BY <1>1 DEF Backends, Runtimes, ReleaseRuntime
<1> HIDE DEF q
<1>4. /\ p \in Backends /\ p.active = "none" /\ p.next = b.next
      /\ p.held["qnn"] = 0 /\ p.held["portable"] = 0
  BY <1>3 DEF Backends, Runtimes, ReleaseRuntime
<1> HIDE DEF p
<1> QED  BY <1>2, <1>4 DEF Runtimes

LEMMA PrepareFacts ==
  ASSUME NEW b \in Backends, NEW reached \in Library..Ready, NEW partial \in BOOLEAN
  PROVE  /\ PrepareInference(b, reached, partial) \in Backends
         /\ \A r \in Runtimes :
              PrepareInference(b, reached, partial).held[r] # 0 =>
                 /\ PrepareInference(b, reached, partial).active # "none"
                 /\ RuntimeOf(PrepareInference(b, reached, partial).active) = r
<1> DEFINE be == Candidates[b.next]
           r == RuntimeOf(be)
           none == ReleaseAll(b)
           tried == IF r = "qnn" THEN InitializeQnn(none, reached, partial)
                    ELSE PreparePortable(none, reached)
           done == PrepareInference(b, reached, partial)
<1>1. b.next \in 1..3
  BY DEF Backends
<1>2. be \in {"qnn_htp", "onnxruntime_nnapi", "onnxruntime_cpu"} /\ r \in Runtimes
  BY <1>1 DEF Candidates, RuntimeOf, Runtimes
<1>3. reached \in 1..4
  BY DEF Library, Ready
<1>4. none \in Backends /\ (\A x \in Runtimes : none.held[x] = 0) /\ none.next = b.next
  BY ReleaseFacts
<1>5. done = IF tried.held[r] = Ready THEN [tried EXCEPT !.active = be]
             ELSE [ReleaseAll(tried) EXCEPT !.next = (b.next % 3) + 1]
  BY DEF PrepareInference
<1> HIDE DEF none
<1>6. tried \in Backends /\ \A x \in Runtimes : x # r => tried.held[x] = 0
  <2>1. CASE r = "qnn"
    <3> DEFINE taken == [none EXCEPT !.held["qnn"] = reached]
               back == [ReleaseRuntime(taken,
               "qnn") EXCEPT !.poisoned = partial /\ reached = Device]
    <3>1. tried \in {none, taken, back}
      BY <2>1 DEF InitializeQnn
    <3>2. taken \in Backends /\ taken.held["portable"] = 0
      BY <1>3, <1>4 DEF Backends, Runtimes
    <3>3. back \in Backends /\ back.held["portable"] = 0
      BY <1>3, <1>4 DEF Backends, Runtimes, ReleaseRuntime
    <3> HIDE DEF taken, back
    <3> QED  BY <1>4, <2>1, <3>1, <3>2, <3>3 DEF Runtimes
  <2>2. CASE r # "qnn"
    <3> DEFINE taken == [none EXCEPT !.held["portable"] = reached]
    <3>1. tried \in {taken, ReleaseRuntime(taken, "portable")}
      BY <2>2 DEF PreparePortable
    <3>2. taken \in Backends /\ taken.held["qnn"] = 0
      BY <1>3, <1>4 DEF Backends, Runtimes
    <3>3. ReleaseRuntime(taken, "portable") \in Backends
          /\ ReleaseRuntime(taken, "portable").held["qnn"] = 0
      BY <1>3, <1>4 DEF Backends, Runtimes, ReleaseRuntime
    <3> HIDE DEF taken
    <3> QED  BY <1>2, <2>2, <3>1, <3>2, <3>3 DEF Runtimes
  <2> QED  BY <2>1, <2>2
<1> HIDE DEF tried, done, r, be
<1>7. CASE tried.held[r] = Ready
  <2>1. done = [tried EXCEPT !.active = be]
    BY <1>5, <1>7
  <2>2. done \in Backends /\ done.held = tried.held /\ done.active = be
    BY <1>2, <1>6, <2>1 DEF Backends
  <2>3. be # "none" /\ RuntimeOf(be) = r
    BY <1>2 DEF r
  <2>4. \A x \in Runtimes : done.held[x] # 0 => done.active # "none" /\ RuntimeOf(done.active) = x
    BY <1>6, <2>2, <2>3
  <2> QED  BY <2>2, <2>4 DEF done
<1>8. CASE tried.held[r] # Ready
  <2> DEFINE n == (b.next % 3) + 1
             all == ReleaseAll(tried)
  <2>1. done = [all EXCEPT !.next = n] /\ n \in 1..3
    BY <1>1, <1>5, <1>8
  <2>2. all \in Backends /\ \A x \in Runtimes : all.held[x] = 0
    BY <1>6, ReleaseFacts
  <2> HIDE DEF n, all
  <2>3. done \in Backends /\ done.held = all.held
    BY <2>1, <2>2 DEF Backends
  <2> QED  BY <2>2, <2>3 DEF done
<1> QED  BY <1>7, <1>8

-----------------------------------------------------------------------------
LEMMA CloseOutputInv ==
  ASSUME OutputInv, NEW t \in Threads, CloseOutput(t)
  PROVE  OutputInv'
<1>0. /\ OutputStateOK /\ BuffersKept /\ SessionOrder /\ BackendKept
      /\ WriterOwnsIo /\ DecisionStands /\ SuspensionStands /\ QuietWhileHeld
  BY DEF OutputInv
<1> USE DEF CloseOutput, At, Goto, decoderVars, gateVars, javaVars
<1>1. OutputStateOK'
  <2>1. (gate \in Gates)'
    BY <1>0, OutputAssumption DEF OutputStateOK, DecoderOK, Decoders, GatesOK, Gates, ClosedGate,
       Zero
  <2>2. (close \in [Threads -> Closings])'
    BY <1>0, OutputAssumption DEF OutputStateOK, ControlOK, Closings, Threads, Zero
  <2> QED  BY <1>0, <2>1, <2>2 DEF OutputStateOK, DecoderOK, GatesOK, TicketsOK, ControlOK
<1>2. DecisionStands'
  BY <1>0 DEF DecisionStands, OutputStateOK, DecoderOK, GatesOK, TicketsOK, ControlOK, Hands,
     Locks, CommitTickets, Threads, NoTicket, Zero
<1>3. SuspensionStands'
  BY <1>0 DEF SuspensionStands, OutputStateOK, ControlOK, Locks, Threads
<1>4. QuietWhileHeld'
  BY <1>0 DEF QuietWhileHeld, Held, OutputStateOK, GatesOK, ControlOK, Gates, Deliveries, Threads,
     WriterOwnsIo, Zero, ClosedGate, ClosedDelivery
<1>5. BuffersKept' /\ SessionOrder' /\ BackendKept' /\ WriterOwnsIo'
  BY <1>0 DEF BuffersKept, SessionOrder, BackendKept, OneRuntimeLoaded, WriterOwnsIo
<1> QED  BY <1>1, <1>2, <1>3, <1>4, <1>5 DEF OutputInv

LEMMA CloseCommitInv ==
  ASSUME OutputInv, NEW t \in Threads, CloseCommit(t)
  PROVE  OutputInv'
<1>0. /\ OutputStateOK /\ BuffersKept /\ SessionOrder /\ BackendKept
      /\ WriterOwnsIo /\ DecisionStands /\ SuspensionStands /\ QuietWhileHeld
  BY DEF OutputInv
<1> USE DEF CloseCommit, At, Goto, decoderVars, gateVars, javaVars
<1>1. OutputStateOK'
  <2>1. (ticket \in CommitTickets)'
    BY <1>0, OutputAssumption DEF OutputStateOK, DecoderOK, Frame, TicketsOK, CommitTickets,
       TicketIds, NoTicket, Zero
  <2>2. (close \in [Threads -> Closings])'
    BY <1>0, OutputAssumption DEF OutputStateOK, ControlOK, Closings, Threads, Zero
  <2> QED  BY <1>0, <2>1, <2>2 DEF OutputStateOK, DecoderOK, GatesOK, TicketsOK,
       ControlOK
<1>2. DecisionStands'
  BY <1>0 DEF DecisionStands, OutputStateOK, DecoderOK, GatesOK, TicketsOK, ControlOK, Hands,
     Locks, CommitTickets, Threads, NoTicket, Zero
<1>3. SuspensionStands'
  BY <1>0 DEF SuspensionStands, OutputStateOK, ControlOK, Locks, Threads
<1>4. QuietWhileHeld'
  BY <1>0 DEF QuietWhileHeld, Held, OutputStateOK, GatesOK, ControlOK, Gates, Deliveries, Threads,
     WriterOwnsIo, Zero, ClosedGate, ClosedDelivery
<1>5. BuffersKept' /\ SessionOrder' /\ BackendKept' /\ WriterOwnsIo'
  BY <1>0 DEF BuffersKept, SessionOrder, BackendKept, OneRuntimeLoaded, WriterOwnsIo
<1> QED  BY <1>1, <1>2, <1>3, <1>4, <1>5 DEF OutputInv

LEMMA CloseVisibilityInv ==
  ASSUME OutputInv, NEW t \in Threads, CloseVisibility(t)
  PROVE  OutputInv'
<1>0. /\ OutputStateOK /\ BuffersKept /\ SessionOrder /\ BackendKept
      /\ WriterOwnsIo /\ DecisionStands /\ SuspensionStands /\ QuietWhileHeld
  BY DEF OutputInv
<1> USE DEF CloseVisibility, At, Goto, decoderVars, gateVars, javaVars
<1>1. OutputStateOK'
  <2>1. (armed \in BOOLEAN)'
    BY <1>0, OutputAssumption DEF OutputStateOK, GatesOK, Zero
  <2>2. (close \in [Threads -> Closings])'
    BY <1>0, OutputAssumption DEF OutputStateOK, ControlOK, Closings, Threads, Zero
  <2>3. (unseen \in BOOLEAN)'
    BY <1>0, OutputAssumption DEF OutputStateOK, GatesOK, Zero
  <2> QED  BY <1>0, <2>1, <2>2, <2>3 DEF OutputStateOK, DecoderOK, GatesOK, TicketsOK,
       ControlOK
<1>2. DecisionStands'
  BY <1>0 DEF DecisionStands, OutputStateOK, DecoderOK, GatesOK, TicketsOK, ControlOK, Hands,
     Locks, CommitTickets, Threads, NoTicket, Zero
<1>3. SuspensionStands'
  BY <1>0 DEF SuspensionStands, OutputStateOK, ControlOK, Locks, Threads
<1>4. QuietWhileHeld'
  BY <1>0 DEF QuietWhileHeld, Held, OutputStateOK, GatesOK, ControlOK, Gates, Deliveries, Threads,
     WriterOwnsIo, Zero, ClosedGate, ClosedDelivery
<1>5. BuffersKept' /\ SessionOrder' /\ BackendKept' /\ WriterOwnsIo'
  BY <1>0 DEF BuffersKept, SessionOrder, BackendKept, OneRuntimeLoaded, WriterOwnsIo
<1> QED  BY <1>1, <1>2, <1>3, <1>4, <1>5 DEF OutputInv

LEMMA CloseJavaInv ==
  ASSUME OutputInv, NEW t \in Threads, CloseJava(t)
  PROVE  OutputInv'
<1>0. /\ OutputStateOK /\ BuffersKept /\ SessionOrder /\ BackendKept
      /\ WriterOwnsIo /\ DecisionStands /\ SuspensionStands /\ QuietWhileHeld
  BY DEF OutputInv
<1> USE DEF CloseJava, At, Goto, decoderVars, gateVars, javaVars
<1>1. OutputStateOK'
  <2>1. (java \in Deliveries)'
    BY <1>0, OutputAssumption DEF OutputStateOK, DecoderOK, Decoders, GatesOK, Deliveries,
       ClosedDelivery, Zero
  <2>2. (slot \in TicketIds)'
    BY <1>0, OutputAssumption DEF OutputStateOK, TicketsOK, TicketIds, Hands, Zero
  <2>3. (close \in [Threads -> Closings])'
    BY <1>0, OutputAssumption DEF OutputStateOK, ControlOK, Closings, Threads, Zero
  <2> QED  BY <1>0, <2>1, <2>2, <2>3 DEF OutputStateOK, DecoderOK, GatesOK, TicketsOK, ControlOK
<1>2. DecisionStands'
  BY <1>0 DEF DecisionStands, OutputStateOK, DecoderOK, GatesOK, TicketsOK, ControlOK, Hands,
     Locks, CommitTickets, Threads, NoTicket, Zero
<1>3. SuspensionStands'
  BY <1>0 DEF SuspensionStands, OutputStateOK, ControlOK, Locks, Threads
<1>4. QuietWhileHeld'
  BY <1>0 DEF QuietWhileHeld, Held, OutputStateOK, GatesOK, ControlOK, Gates, Deliveries, Threads,
     WriterOwnsIo, Zero, ClosedGate, ClosedDelivery
<1>5. BuffersKept' /\ SessionOrder' /\ BackendKept' /\ WriterOwnsIo'
  BY <1>0 DEF BuffersKept, SessionOrder, BackendKept, OneRuntimeLoaded, WriterOwnsIo
<1> QED  BY <1>1, <1>2, <1>3, <1>4, <1>5 DEF OutputInv

LEMMA CloseDrainInv ==
  ASSUME OutputInv, NEW t \in Threads, CloseDrain(t)
  PROVE  OutputInv'
<1>0. /\ OutputStateOK /\ BuffersKept /\ SessionOrder /\ BackendKept
      /\ WriterOwnsIo /\ DecisionStands /\ SuspensionStands /\ QuietWhileHeld
  BY DEF OutputInv
<1> USE DEF CloseDrain, At, Goto, decoderVars, gateVars, javaVars, Reenters
<1>1. OutputStateOK'
  <2>1. (java \in Deliveries)'
    BY <1>0, OutputAssumption DEF OutputStateOK, DecoderOK, Decoders, GatesOK, Deliveries,
       ClosedDelivery, Zero
  <2>2. (slot \in TicketIds)'
    BY <1>0, OutputAssumption DEF OutputStateOK, TicketsOK, TicketIds, Hands, Zero
  <2>3. (io \in TicketIds)'
    BY <1>0, OutputAssumption DEF OutputStateOK, TicketsOK, TicketIds, Hands, Zero
  <2>4. (held \in Hands)'
    BY <1>0, OutputAssumption DEF OutputStateOK, TicketsOK, Hands, TicketIds, Zero
  <2>5. (pc \in [Threads -> ThreadPlaces])'
    BY <1>0, OutputAssumption DEF OutputStateOK, ControlOK, ThreadPlaces, Threads, Zero
  <2>6. (close \in [Threads -> Closings])'
    BY <1>0, OutputAssumption DEF OutputStateOK, ControlOK, Closings, Threads, Zero
  <2>7. (lock \in Locks)'
    BY <1>0, OutputAssumption DEF OutputStateOK, ControlOK, Locks, Threads, Zero
  <2> QED  BY <1>0, <2>1, <2>2, <2>3, <2>4, <2>5, <2>6, <2>7 DEF OutputStateOK, DecoderOK, GatesOK,
       TicketsOK, ControlOK
<1>2. BuffersKept'
  BY <1>0 DEF BuffersKept, OutputStateOK, DecoderOK, ControlOK, Threads, NoFrame, Frame, Zero
<1>3. SessionOrder'
  BY <1>0 DEF SessionOrder, OutputStateOK, DecoderOK, ControlOK, Decoders, Threads, Zero
<1>4. WriterOwnsIo'
  BY <1>0 DEF WriterOwnsIo, OutputStateOK, TicketsOK, ControlOK, Hands, Threads, Zero
<1>5. DecisionStands'
  BY <1>0 DEF DecisionStands, OutputStateOK, DecoderOK, GatesOK, TicketsOK, ControlOK, Hands,
     Locks, CommitTickets, Threads, NoTicket, Zero
<1>6. SuspensionStands'
  BY <1>0 DEF SuspensionStands, OutputStateOK, ControlOK, Locks, Threads
<1>7. QuietWhileHeld'
  BY <1>0 DEF QuietWhileHeld, Held, OutputStateOK, GatesOK, ControlOK, Gates, Deliveries, Threads,
     WriterOwnsIo, Zero, ClosedGate, ClosedDelivery
<1>8. BackendKept'
  BY <1>0 DEF BackendKept, OneRuntimeLoaded
<1> QED  BY <1>1, <1>2, <1>3, <1>4, <1>5, <1>6, <1>7, <1>8 DEF OutputInv

LEMMA PrepareBackendInv ==
  ASSUME OutputInv, PrepareBackend
  PROVE  OutputInv'
<1>0. /\ OutputStateOK /\ BuffersKept /\ SessionOrder /\ BackendKept
      /\ WriterOwnsIo /\ DecisionStands /\ SuspensionStands /\ QuietWhileHeld
  BY DEF OutputInv
<1> USE DEF PrepareBackend, At, Goto, decoderVars, gateVars, javaVars
<1>1. OutputStateOK'
  <2> QED  BY <1>0 DEF OutputStateOK, DecoderOK, GatesOK, TicketsOK, ControlOK
<1>2. BackendKept'
  <2>1. ~dec.running /\ dec' = dec
    OBVIOUS
  <2>2. PICK reached \in Library..Ready, partial \in BOOLEAN :
          backend' = PrepareInference(backend, reached, partial)
    OBVIOUS
  <2>3. /\ backend' \in Backends
        /\ \A r \in Runtimes :
             backend'.held[r] # 0 => backend'.active # "none" /\ RuntimeOf(backend'.active) = r
    BY <1>0, <2>2, PrepareFacts DEF BackendKept
  <2> QED  BY <2>1, <2>3 DEF BackendKept, OneRuntimeLoaded
<1>3. BuffersKept' /\ SessionOrder' /\ WriterOwnsIo' /\ DecisionStands' /\ SuspensionStands' /\ QuietWhileHeld'
  BY <1>0 DEF BuffersKept, SessionOrder, WriterOwnsIo, DecisionStands, SuspensionStands,
     QuietWhileHeld, Held
<1> QED  BY <1>1, <1>2, <1>3 DEF OutputInv

LEMMA ConfigureForInferenceInv ==
  ASSUME OutputInv, ConfigureForInference
  PROVE  OutputInv'
<1>0. /\ OutputStateOK /\ BuffersKept /\ SessionOrder /\ BackendKept
      /\ WriterOwnsIo /\ DecisionStands /\ SuspensionStands /\ QuietWhileHeld
  BY DEF OutputInv
<1> USE DEF ConfigureForInference, At, Goto, decoderVars, gateVars, javaVars, NewDecoder
<1>1. OutputStateOK'
  <2>1. (dec \in Decoders)'
    <3> DEFINE g == dec.gen + 1
    <3>1. dec' = [NewDecoder EXCEPT !.gen = g, !.running = TRUE] /\ g \in 0..MaxGen
      BY <1>0, GenerationFacts DEF OutputStateOK, DecoderOK, Decoders
    <3> HIDE DEF g
    <3> QED  BY <3>1, GenerationFacts DEF Decoders
  <2>2. (coded \in Frame)'
    BY <1>0, OutputAssumption DEF OutputStateOK, DecoderOK, Decoders, Frame, NoFrame, Zero
  <2>3. (queue \in Frame)'
    BY <1>0, OutputAssumption DEF OutputStateOK, DecoderOK, Frame, NoFrame, Zero
  <2>4. (free \in Nat)'
    BY <1>0, OutputAssumption DEF OutputStateOK, DecoderOK, Zero
  <2>5. (active \in 0..MaxGen)'
    BY <1>0, GenerationFacts DEF OutputStateOK, DecoderOK, Decoders
  <2> QED  BY <1>0, <2>1, <2>2, <2>3, <2>4, <2>5 DEF OutputStateOK, DecoderOK, GatesOK, TicketsOK,
       ControlOK
<1>2. BuffersKept'
  <2>1. exec = NoFrame /\ pc["worker"] = "idle"
    BY <1>0 DEF SessionOrder, BuffersKept
  <2>2. UNCHANGED <<pc, exec>> /\ coded' = NoFrame /\ queue' = NoFrame /\ free' = 2
    OBVIOUS
  <2> QED  BY <2>1, <2>2 DEF BuffersKept
<1>3. SessionOrder'
  BY <1>0 DEF SessionOrder, OutputStateOK, DecoderOK, ControlOK, Decoders, Threads, Zero
<1>4. BackendKept'
  BY <1>0 DEF BackendKept, OneRuntimeLoaded, OutputStateOK, DecoderOK, Decoders
<1>5. DecisionStands'
  <2>1. pc["worker"] = "idle"
    BY <1>0 DEF SessionOrder
  <2>2. UNCHANGED <<pc, held, unseen, armed, close>>
    OBVIOUS
  <2> QED  BY <1>0, <2>1, <2>2 DEF DecisionStands
<1>6. WriterOwnsIo' /\ SuspensionStands' /\ QuietWhileHeld'
  BY <1>0 DEF WriterOwnsIo, SuspensionStands, QuietWhileHeld, Held
<1> QED  BY <1>1, <1>2, <1>3, <1>4, <1>5, <1>6 DEF OutputInv

LEMMA StopBeginInv ==
  ASSUME OutputInv, StopBegin
  PROVE  OutputInv'
<1>0. /\ OutputStateOK /\ BuffersKept /\ SessionOrder /\ BackendKept
      /\ WriterOwnsIo /\ DecisionStands /\ SuspensionStands /\ QuietWhileHeld
  BY DEF OutputInv
<1> USE DEF StopBegin, At, Goto, decoderVars, gateVars, javaVars, StartClose, PublishFree
<1>1. OutputStateOK'
  <2>1. (active \in 0..MaxGen)'
    BY <1>0, OutputAssumption DEF OutputStateOK, DecoderOK, Decoders, Zero
  <2>2. (pc \in [Threads -> ThreadPlaces])'
    BY <1>0, OutputAssumption DEF OutputStateOK, ControlOK, ThreadPlaces, Threads, Zero
  <2>3. (close \in [Threads -> Closings])'
    BY <1>0, OutputAssumption DEF OutputStateOK, ControlOK, Closings, Threads, Zero
  <2>4. (lock \in Locks)'
    BY <1>0, OutputAssumption DEF OutputStateOK, ControlOK, Locks, Threads, Zero
  <2> QED  BY <1>0, <2>1, <2>2, <2>3, <2>4 DEF OutputStateOK, DecoderOK, GatesOK, TicketsOK,
       ControlOK
<1>2. BuffersKept'
  BY <1>0 DEF BuffersKept, OutputStateOK, DecoderOK, ControlOK, Threads, NoFrame, Frame, Zero
<1>3. SessionOrder'
  BY <1>0 DEF SessionOrder, OutputStateOK, DecoderOK, ControlOK, Decoders, Threads, Zero
<1>4. WriterOwnsIo'
  BY <1>0 DEF WriterOwnsIo, OutputStateOK, TicketsOK, ControlOK, Hands, Threads, Zero
<1>5. DecisionStands'
  BY <1>0 DEF DecisionStands, OutputStateOK, DecoderOK, GatesOK, TicketsOK, ControlOK, Hands,
     Locks, CommitTickets, Threads, NoTicket, Zero
<1>6. SuspensionStands'
  BY <1>0 DEF SuspensionStands, OutputStateOK, ControlOK, Locks, Threads
<1>7. QuietWhileHeld'
  BY <1>0 DEF QuietWhileHeld, Held, OutputStateOK, GatesOK, ControlOK, Gates, Deliveries, Threads,
     WriterOwnsIo, Zero, ClosedGate, ClosedDelivery
<1>8. BackendKept'
  BY <1>0 DEF BackendKept, OneRuntimeLoaded
<1> QED  BY <1>1, <1>2, <1>3, <1>4, <1>5, <1>6, <1>7, <1>8 DEF OutputInv

LEMMA StopWorkersInv ==
  ASSUME OutputInv, StopWorkers
  PROVE  OutputInv'
<1>0. /\ OutputStateOK /\ BuffersKept /\ SessionOrder /\ BackendKept
      /\ WriterOwnsIo /\ DecisionStands /\ SuspensionStands /\ QuietWhileHeld
  BY DEF OutputInv
<1> USE DEF StopWorkers, At, Goto, decoderVars, gateVars, javaVars, Recycled
<1>1. OutputStateOK'
  <2>1. (dec \in Decoders)'
    BY <1>0, OutputAssumption DEF OutputStateOK, DecoderOK, Decoders, Zero
  <2>2. (queue \in Frame)'
    BY <1>0, OutputAssumption DEF OutputStateOK, DecoderOK, Frame, NoFrame, Zero
  <2>3. (free \in Nat)'
    BY <1>0 DEF OutputStateOK, DecoderOK
  <2>4. (pc \in [Threads -> ThreadPlaces])'
    BY <1>0, OutputAssumption DEF OutputStateOK, ControlOK, ThreadPlaces, Threads, Zero
  <2> QED  BY <1>0, <2>1, <2>2, <2>3, <2>4 DEF OutputStateOK, DecoderOK, GatesOK, TicketsOK,
       ControlOK
<1>2. BuffersKept'
  BY <1>0 DEF BuffersKept, OutputStateOK, DecoderOK, ControlOK, Threads, NoFrame, Frame, Zero
<1>3. SessionOrder'
  BY <1>0 DEF SessionOrder, OutputStateOK, DecoderOK, ControlOK, Decoders, Threads, Zero
<1>4. BackendKept'
  BY <1>0 DEF BackendKept, OneRuntimeLoaded, OutputStateOK, DecoderOK, Decoders
<1>5. WriterOwnsIo'
  BY <1>0 DEF WriterOwnsIo, OutputStateOK, TicketsOK, ControlOK, Hands, Threads, Zero
<1>6. DecisionStands'
  BY <1>0 DEF DecisionStands, OutputStateOK, DecoderOK, GatesOK, TicketsOK, ControlOK, Hands,
     Locks, CommitTickets, Threads, NoTicket, Zero
<1>7. SuspensionStands'
  BY <1>0 DEF SuspensionStands, OutputStateOK, ControlOK, Locks, Threads
<1>8. QuietWhileHeld'
  BY <1>0 DEF QuietWhileHeld, Held, OutputStateOK, GatesOK, ControlOK, Gates, Deliveries, Threads,
     WriterOwnsIo, Zero, ClosedGate, ClosedDelivery
<1> QED  BY <1>1, <1>2, <1>3, <1>4, <1>5, <1>6, <1>7, <1>8 DEF OutputInv

LEMMA StopEndInv ==
  ASSUME OutputInv, StopEnd
  PROVE  OutputInv'
<1>0. /\ OutputStateOK /\ BuffersKept /\ SessionOrder /\ BackendKept
      /\ WriterOwnsIo /\ DecisionStands /\ SuspensionStands /\ QuietWhileHeld
  BY DEF OutputInv
<1> USE DEF StopEnd, At, Goto, decoderVars, gateVars, javaVars
<1>1. OutputStateOK'
  <2>1. (dec \in Decoders)'
    <3> DEFINE g == IF dec.gen < MaxGen THEN dec.gen + 1 ELSE dec.gen
    <3>1. g \in 0..MaxGen
      BY <1>0, GenerationFacts DEF OutputStateOK, DecoderOK, Decoders
    <3>2. dec' = [dec EXCEPT !.gen = g, !.restarting = FALSE, !.resume = Zero]
      BY <1>0 DEF OutputStateOK, DecoderOK, Decoders
    <3> HIDE DEF g
    <3> QED  BY <1>0, <3>1, <3>2, GenerationFacts DEF OutputStateOK, DecoderOK, Decoders
  <2>2. (coded \in Frame)'
    BY <1>0, OutputAssumption DEF OutputStateOK, DecoderOK, Decoders, Frame, NoFrame, Zero
  <2>3. (pc \in [Threads -> ThreadPlaces])'
    BY <1>0, OutputAssumption DEF OutputStateOK, ControlOK, ThreadPlaces, Threads, Zero
  <2> QED  BY <1>0, <2>1, <2>2, <2>3 DEF OutputStateOK, DecoderOK, GatesOK, TicketsOK, ControlOK
<1>2. BuffersKept'
  BY <1>0 DEF BuffersKept, OutputStateOK, DecoderOK, ControlOK, Threads, NoFrame, Frame, Zero
<1>3. SessionOrder'
  BY <1>0 DEF SessionOrder, OutputStateOK, DecoderOK, ControlOK, Decoders, Threads, Zero
<1>4. BackendKept'
  <2>1. ~dec.running /\ dec'.running = dec.running
    BY <1>0 DEF SessionOrder, OutputStateOK, DecoderOK, Decoders
  <2>2. backend' \in Backends /\ \A r \in Runtimes : backend'.held[r] = 0
    BY <1>0, ReleaseFacts DEF BackendKept
  <2> QED  BY <2>1, <2>2 DEF BackendKept, OneRuntimeLoaded
<1>5. WriterOwnsIo'
  BY <1>0 DEF WriterOwnsIo, OutputStateOK, TicketsOK, ControlOK, Hands, Threads, Zero
<1>6. DecisionStands'
  BY <1>0 DEF DecisionStands, OutputStateOK, DecoderOK, GatesOK, TicketsOK, ControlOK, Hands,
     Locks, CommitTickets, Threads, NoTicket, Zero
<1>7. SuspensionStands'
  BY <1>0 DEF SuspensionStands, OutputStateOK, ControlOK, Locks, Threads
<1>8. QuietWhileHeld'
  BY <1>0 DEF QuietWhileHeld, Held, OutputStateOK, GatesOK, ControlOK, Gates, Deliveries, Threads,
     WriterOwnsIo, Zero, ClosedGate, ClosedDelivery
<1> QED  BY <1>1, <1>2, <1>3, <1>4, <1>5, <1>6, <1>7, <1>8 DEF OutputInv

LEMMA SubmitInv ==
  ASSUME OutputInv, Submit
  PROVE  OutputInv'
<1>0. /\ OutputStateOK /\ BuffersKept /\ SessionOrder /\ BackendKept
      /\ WriterOwnsIo /\ DecisionStands /\ SuspensionStands /\ QuietWhileHeld
  BY DEF OutputInv
<1> USE DEF Submit, At, Goto, decoderVars, gateVars, javaVars
<1>1. OutputStateOK'
  <2>1. (coded \in Frame)'
    BY <1>0, OutputAssumption DEF OutputStateOK, DecoderOK, Decoders, Frame, NoFrame, Zero
  <2> QED  BY <1>0, <2>1 DEF OutputStateOK, DecoderOK, GatesOK, TicketsOK, ControlOK
<1>2. BuffersKept'
  <2>1. coded'.gen # Zero /\ UNCHANGED <<queue, exec, free, pc>>
    BY <1>0 DEF SessionOrder
  <2> QED  BY <1>0, <2>1 DEF BuffersKept
<1>3. SessionOrder' /\ BackendKept' /\ WriterOwnsIo' /\ DecisionStands' /\ SuspensionStands' /\ QuietWhileHeld'
  BY <1>0 DEF SessionOrder, BackendKept, OneRuntimeLoaded, WriterOwnsIo, DecisionStands,
     SuspensionStands, QuietWhileHeld, Held
<1> QED  BY <1>1, <1>2, <1>3 DEF OutputInv

LEMMA DiscardFrameInv ==
  ASSUME OutputInv, DiscardFrame
  PROVE  OutputInv'
<1>0. /\ OutputStateOK /\ BuffersKept /\ SessionOrder /\ BackendKept
      /\ WriterOwnsIo /\ DecisionStands /\ SuspensionStands /\ QuietWhileHeld
  BY DEF OutputInv
<1> USE DEF DiscardFrame, At, Goto, decoderVars, gateVars, javaVars
<1>1. OutputStateOK'
  <2>1. (dec \in Decoders)'
    BY <1>0, OutputAssumption DEF OutputStateOK, DecoderOK, Decoders, Zero
  <2>2. (coded \in Frame)'
    BY <1>0, OutputAssumption DEF OutputStateOK, DecoderOK, Decoders, Frame, NoFrame, Zero
  <2> QED  BY <1>0, <2>1, <2>2 DEF OutputStateOK, DecoderOK, GatesOK, TicketsOK, ControlOK
<1>2. BuffersKept'
  BY <1>0 DEF BuffersKept, OutputStateOK, DecoderOK, ControlOK, Threads, NoFrame, Frame, Zero
<1>3. SessionOrder'
  BY <1>0 DEF SessionOrder, OutputStateOK, DecoderOK, ControlOK, Decoders, Threads, Zero
<1>4. BackendKept'
  BY <1>0 DEF BackendKept, OneRuntimeLoaded, OutputStateOK, DecoderOK, Decoders
<1>5. WriterOwnsIo' /\ DecisionStands' /\ SuspensionStands' /\ QuietWhileHeld'
  BY <1>0 DEF WriterOwnsIo, DecisionStands, SuspensionStands, QuietWhileHeld, Held
<1> QED  BY <1>1, <1>2, <1>3, <1>4, <1>5 DEF OutputInv

LEMMA QueueFrameInv ==
  ASSUME OutputInv, QueueFrame
  PROVE  OutputInv'
<1>0. /\ OutputStateOK /\ BuffersKept /\ SessionOrder /\ BackendKept
      /\ WriterOwnsIo /\ DecisionStands /\ SuspensionStands /\ QuietWhileHeld
  BY DEF OutputInv
<1> USE DEF QueueFrame, At, Goto, decoderVars, gateVars, javaVars
<1>1. OutputStateOK'
  <2>1. (coded \in Frame)'
    BY <1>0, OutputAssumption DEF OutputStateOK, DecoderOK, Decoders, Frame, NoFrame, Zero
  <2>2. (queue \in Frame)'
    BY <1>0, OutputAssumption DEF OutputStateOK, DecoderOK, Frame, NoFrame, Zero
  <2>3. (free \in Nat)'
    BY <1>0, OutputAssumption DEF OutputStateOK, DecoderOK, Zero
  <2> QED  BY <1>0, <2>1, <2>2, <2>3 DEF OutputStateOK, DecoderOK, GatesOK, TicketsOK, ControlOK
<1>2. BuffersKept'
  BY <1>0 DEF BuffersKept, OutputStateOK, DecoderOK, ControlOK, Threads, NoFrame, Frame, Zero
<1>3. SessionOrder' /\ BackendKept' /\ WriterOwnsIo' /\ DecisionStands' /\ SuspensionStands' /\ QuietWhileHeld'
  BY <1>0 DEF SessionOrder, BackendKept, OneRuntimeLoaded, WriterOwnsIo, DecisionStands,
     SuspensionStands, QuietWhileHeld, Held
<1> QED  BY <1>1, <1>2, <1>3 DEF OutputInv

LEMMA TakeFrameInv ==
  ASSUME OutputInv, TakeFrame
  PROVE  OutputInv'
<1>0. /\ OutputStateOK /\ BuffersKept /\ SessionOrder /\ BackendKept
      /\ WriterOwnsIo /\ DecisionStands /\ SuspensionStands /\ QuietWhileHeld
  BY DEF OutputInv
<1> USE DEF TakeFrame, At, Goto, decoderVars, gateVars, javaVars
<1>1. OutputStateOK'
  <2>1. (queue \in Frame)'
    BY <1>0, OutputAssumption DEF OutputStateOK, DecoderOK, Frame, NoFrame, Zero
  <2>2. (exec \in Frame)'
    BY <1>0, OutputAssumption DEF OutputStateOK, DecoderOK, Frame, NoFrame, Zero
  <2>3. (pc \in [Threads -> ThreadPlaces])'
    BY <1>0, OutputAssumption DEF OutputStateOK, ControlOK, ThreadPlaces, Threads, Zero
  <2> QED  BY <1>0, <2>1, <2>2, <2>3 DEF OutputStateOK, DecoderOK, GatesOK, TicketsOK, ControlOK
<1>2. BuffersKept'
  BY <1>0 DEF BuffersKept, OutputStateOK, DecoderOK, ControlOK, Threads, NoFrame, Frame, Zero
<1>3. SessionOrder'
  BY <1>0 DEF SessionOrder, OutputStateOK, DecoderOK, ControlOK, Decoders, Threads, Zero
<1>4. WriterOwnsIo'
  BY <1>0 DEF WriterOwnsIo, OutputStateOK, TicketsOK, ControlOK, Hands, Threads, Zero
<1>5. DecisionStands'
  BY <1>0 DEF DecisionStands, OutputStateOK, DecoderOK, GatesOK, TicketsOK, ControlOK, Hands,
     Locks, CommitTickets, Threads, NoTicket, Zero
<1>6. SuspensionStands'
  BY <1>0 DEF SuspensionStands, OutputStateOK, ControlOK, Locks, Threads
<1>7. QuietWhileHeld'
  BY <1>0 DEF QuietWhileHeld, Held, OutputStateOK, GatesOK, ControlOK, Gates, Deliveries, Threads,
     WriterOwnsIo, Zero, ClosedGate, ClosedDelivery
<1>8. BackendKept'
  BY <1>0 DEF BackendKept, OneRuntimeLoaded
<1> QED  BY <1>1, <1>2, <1>3, <1>4, <1>5, <1>6, <1>7, <1>8 DEF OutputInv

LEMMA DropFrameInv ==
  ASSUME OutputInv, DropFrame
  PROVE  OutputInv'
<1>0. /\ OutputStateOK /\ BuffersKept /\ SessionOrder /\ BackendKept
      /\ WriterOwnsIo /\ DecisionStands /\ SuspensionStands /\ QuietWhileHeld
  BY DEF OutputInv
<1> USE DEF DropFrame, At, Goto, decoderVars, gateVars, javaVars, Recycle
<1>1. OutputStateOK'
  <2>1. (exec \in Frame)'
    BY <1>0, OutputAssumption DEF OutputStateOK, DecoderOK, Frame, NoFrame, Zero
  <2>2. (free \in Nat)'
    BY <1>0, OutputAssumption DEF OutputStateOK, DecoderOK, Zero
  <2>3. (pc \in [Threads -> ThreadPlaces])'
    BY <1>0, OutputAssumption DEF OutputStateOK, ControlOK, ThreadPlaces, Threads, Zero
  <2> QED  BY <1>0, <2>1, <2>2, <2>3 DEF OutputStateOK, DecoderOK, GatesOK, TicketsOK, ControlOK
<1>2. BuffersKept'
  BY <1>0 DEF BuffersKept, OutputStateOK, DecoderOK, ControlOK, Threads, NoFrame, Frame, Zero
<1>3. SessionOrder'
  BY <1>0 DEF SessionOrder, OutputStateOK, DecoderOK, ControlOK, Decoders, Threads, Zero
<1>4. WriterOwnsIo'
  BY <1>0 DEF WriterOwnsIo, OutputStateOK, TicketsOK, ControlOK, Hands, Threads, Zero
<1>5. DecisionStands'
  BY <1>0 DEF DecisionStands, OutputStateOK, DecoderOK, GatesOK, TicketsOK, ControlOK, Hands,
     Locks, CommitTickets, Threads, NoTicket, Zero
<1>6. SuspensionStands'
  BY <1>0 DEF SuspensionStands, OutputStateOK, ControlOK, Locks, Threads
<1>7. QuietWhileHeld'
  BY <1>0 DEF QuietWhileHeld, Held, OutputStateOK, GatesOK, ControlOK, Gates, Deliveries, Threads,
     WriterOwnsIo, Zero, ClosedGate, ClosedDelivery
<1>8. BackendKept'
  BY <1>0 DEF BackendKept, OneRuntimeLoaded
<1> QED  BY <1>1, <1>2, <1>3, <1>4, <1>5, <1>6, <1>7, <1>8 DEF OutputInv

LEMMA CommitSuccessInv ==
  ASSUME OutputInv, CommitSuccess
  PROVE  OutputInv'
<1>0. /\ OutputStateOK /\ BuffersKept /\ SessionOrder /\ BackendKept
      /\ WriterOwnsIo /\ DecisionStands /\ SuspensionStands /\ QuietWhileHeld
  BY DEF OutputInv
<1> USE DEF CommitSuccess, At, Goto, decoderVars, gateVars, javaVars
<1>1. OutputStateOK'
  <2>1. (dec \in Decoders)'
    <3> DEFINE r == IF dec.resume = exec.gen THEN Zero ELSE dec.resume
    <3>1. r \in 0..MaxGen
      BY <1>0, GenerationFacts DEF OutputStateOK, DecoderOK, Decoders
    <3>2. dec' = [dec EXCEPT !.resume = r]
      BY <1>0 DEF OutputStateOK, DecoderOK, Decoders
    <3> HIDE DEF r
    <3> QED  BY <1>0, <3>1, <3>2 DEF OutputStateOK, DecoderOK, Decoders
  <2>2. (pc \in [Threads -> ThreadPlaces])'
    BY <1>0, OutputAssumption DEF OutputStateOK, ControlOK, ThreadPlaces, Threads, Zero
  <2> QED  BY <1>0, <2>1, <2>2 DEF OutputStateOK, DecoderOK, GatesOK, TicketsOK, ControlOK
<1>2. BuffersKept'
  BY <1>0 DEF BuffersKept, OutputStateOK, DecoderOK, ControlOK, Threads, NoFrame, Frame, Zero
<1>3. SessionOrder'
  BY <1>0 DEF SessionOrder, OutputStateOK, DecoderOK, ControlOK, Decoders, Threads, Zero
<1>4. BackendKept'
  BY <1>0 DEF BackendKept, OneRuntimeLoaded, OutputStateOK, DecoderOK, Decoders
<1>5. WriterOwnsIo'
  BY <1>0 DEF WriterOwnsIo, OutputStateOK, TicketsOK, ControlOK, Hands, Threads, Zero
<1>6. DecisionStands'
  BY <1>0 DEF DecisionStands, OutputStateOK, DecoderOK, GatesOK, TicketsOK, ControlOK, Hands,
     Locks, CommitTickets, Threads, NoTicket, Zero
<1>7. SuspensionStands'
  BY <1>0 DEF SuspensionStands, OutputStateOK, ControlOK, Locks, Threads
<1>8. QuietWhileHeld'
  BY <1>0 DEF QuietWhileHeld, Held, OutputStateOK, GatesOK, ControlOK, Gates, Deliveries, Threads,
     WriterOwnsIo, Zero, ClosedGate, ClosedDelivery
<1> QED  BY <1>1, <1>2, <1>3, <1>4, <1>5, <1>6, <1>7, <1>8 DEF OutputInv

LEMMA ResumeNativeInv ==
  ASSUME OutputInv, ResumeNative
  PROVE  OutputInv'
<1>0. /\ OutputStateOK /\ BuffersKept /\ SessionOrder /\ BackendKept
      /\ WriterOwnsIo /\ DecisionStands /\ SuspensionStands /\ QuietWhileHeld
  BY DEF OutputInv
<1> USE DEF ResumeNative, At, Goto, decoderVars, gateVars, javaVars, CompleteRecovery
<1>1. OutputStateOK'
  <2>1. (gate \in Gates)'
    <3> HIDE DEF CompleteRecovery
    <3> QED  BY <1>0, GateFacts, GenerationFacts DEF OutputStateOK, GatesOK
  <2>2. (pc \in [Threads -> ThreadPlaces])'
    <3>1. \E p \in {"reopen", "reclose", "publish"} : pc' = [pc EXCEPT !["worker"] = p]
      OBVIOUS
    <3> QED  BY <1>0, <3>1 DEF OutputStateOK, ControlOK, ThreadPlaces, Threads
  <2> QED  BY <1>0, <2>1, <2>2 DEF OutputStateOK, DecoderOK, GatesOK, TicketsOK, ControlOK
<1>2. BuffersKept'
  BY <1>0 DEF BuffersKept, OutputStateOK, DecoderOK, ControlOK, Threads, NoFrame, Frame, Zero
<1>3. SessionOrder'
  BY <1>0 DEF SessionOrder, OutputStateOK, DecoderOK, ControlOK, Decoders, Threads, Zero
<1>4. WriterOwnsIo'
  BY <1>0 DEF WriterOwnsIo, OutputStateOK, TicketsOK, ControlOK, Hands, Threads, Zero
<1>5. DecisionStands'
  BY <1>0 DEF DecisionStands, OutputStateOK, DecoderOK, GatesOK, TicketsOK, ControlOK, Hands,
     Locks, CommitTickets, Threads, NoTicket, Zero
<1>6. SuspensionStands'
  BY <1>0 DEF SuspensionStands, OutputStateOK, ControlOK, Locks, Threads
<1>7. QuietWhileHeld'
  BY <1>0 DEF QuietWhileHeld, Held, OutputStateOK, GatesOK, ControlOK, Gates, Deliveries, Threads,
     WriterOwnsIo, Zero, ClosedGate, ClosedDelivery
<1>8. BackendKept'
  BY <1>0 DEF BackendKept, OneRuntimeLoaded
<1> QED  BY <1>1, <1>2, <1>3, <1>4, <1>5, <1>6, <1>7, <1>8 DEF OutputInv

LEMMA ResumeJavaInv ==
  ASSUME OutputInv, ResumeJava
  PROVE  OutputInv'
<1>0. /\ OutputStateOK /\ BuffersKept /\ SessionOrder /\ BackendKept
      /\ WriterOwnsIo /\ DecisionStands /\ SuspensionStands /\ QuietWhileHeld
  BY DEF OutputInv
<1> USE DEF ResumeJava, At, Goto, decoderVars, gateVars, javaVars, ResumeDelivery, StartClose,
     ClosedDelivery
<1>1. OutputStateOK'
  <2>1. (active \in 0..MaxGen)'
    BY <1>0, OutputAssumption DEF OutputStateOK, DecoderOK, Decoders, Zero
  <2>2. (java \in Deliveries)'
    <3>1. exec.gen \in 0..MaxGen
      BY <1>0 DEF OutputStateOK, DecoderOK, Frame
    <3>2. java' = ResumeDelivery(java, exec.gen)
      OBVIOUS
    <3> HIDE DEF ResumeDelivery
    <3> QED  BY <1>0, <3>1, <3>2, DeliveryFacts DEF OutputStateOK, GatesOK
  <2>3. (slot \in TicketIds)'
    BY <1>0, OutputAssumption DEF OutputStateOK, TicketsOK, TicketIds, Hands, Zero
  <2>4. (pc \in [Threads -> ThreadPlaces])'
    BY <1>0, OutputAssumption DEF OutputStateOK, ControlOK, ThreadPlaces, Threads, Zero
  <2>5. (close \in [Threads -> Closings])'
    BY <1>0, OutputAssumption DEF OutputStateOK, ControlOK, Closings, Threads, Zero
  <2> QED  BY <1>0, <2>1, <2>2, <2>3, <2>4, <2>5 DEF OutputStateOK, DecoderOK, GatesOK, TicketsOK,
       ControlOK
<1>2. BuffersKept'
  BY <1>0 DEF BuffersKept, OutputStateOK, DecoderOK, ControlOK, Threads, NoFrame, Frame, Zero
<1>3. SessionOrder'
  BY <1>0 DEF SessionOrder, OutputStateOK, DecoderOK, ControlOK, Decoders, Threads, Zero
<1>4. WriterOwnsIo'
  BY <1>0 DEF WriterOwnsIo, OutputStateOK, TicketsOK, ControlOK, Hands, Threads, Zero
<1>5. DecisionStands'
  BY <1>0 DEF DecisionStands, OutputStateOK, DecoderOK, GatesOK, TicketsOK, ControlOK, Hands,
     Locks, CommitTickets, Threads, NoTicket, Zero
<1>6. SuspensionStands'
  BY <1>0 DEF SuspensionStands, OutputStateOK, ControlOK, Locks, Threads
<1>7. QuietWhileHeld'
  BY <1>0 DEF QuietWhileHeld, Held, OutputStateOK, GatesOK, ControlOK, Gates, Deliveries, Threads,
     WriterOwnsIo, Zero, ClosedGate, ClosedDelivery
<1>8. BackendKept'
  BY <1>0 DEF BackendKept, OneRuntimeLoaded
<1> QED  BY <1>1, <1>2, <1>3, <1>4, <1>5, <1>6, <1>7, <1>8 DEF OutputInv

LEMMA PublishInv ==
  ASSUME OutputInv, Publish
  PROVE  OutputInv'
<1>0. /\ OutputStateOK /\ BuffersKept /\ SessionOrder /\ BackendKept
      /\ WriterOwnsIo /\ DecisionStands /\ SuspensionStands /\ QuietWhileHeld
  BY DEF OutputInv
<1> USE DEF Publish, At, Goto, decoderVars, gateVars, javaVars, StartClose, EndFrame, Recycle,
     PublishFree
<1>1. OutputStateOK'
  <2>1. (exec \in Frame)'
    <3>1. exec' = exec \/ exec' = NoFrame
      OBVIOUS
    <3> QED  BY <1>0, <3>1, FrameFacts DEF OutputStateOK, DecoderOK
  <2>2. (free \in Nat)'
    <3>1. free' = free \/ free' = free + 1
      OBVIOUS
    <3> QED  BY <1>0, <3>1 DEF OutputStateOK, DecoderOK
  <2>3. (active \in 0..MaxGen)'
    BY <1>0, OutputAssumption DEF OutputStateOK, DecoderOK, Decoders, Zero
  <2>4. (ticket \in CommitTickets)'
    BY <1>0, OutputAssumption DEF OutputStateOK, DecoderOK, Frame, TicketsOK, CommitTickets,
       TicketIds, NoTicket, Zero
  <2>5. (armed \in BOOLEAN)'
    BY <1>0, OutputAssumption DEF OutputStateOK, GatesOK, Zero
  <2>6. (pc \in [Threads -> ThreadPlaces])'
    <3>1. \E p \in {"begin", "idle"} : pc' = [pc EXCEPT !["worker"] = p]
      OBVIOUS
    <3> QED  BY <1>0, <3>1 DEF OutputStateOK, ControlOK, ThreadPlaces, Threads
  <2>7. (close \in [Threads -> Closings])'
    <3>1. close' = close \/ close' = [close EXCEPT !["worker"] = "output"]
      OBVIOUS
    <3> QED  BY <1>0, <3>1 DEF OutputStateOK, ControlOK, Closings, Threads
  <2>8. (lock \in Locks)'
    BY <1>0, OutputAssumption DEF OutputStateOK, ControlOK, Locks, Threads, Zero
  <2>9. (unseen \in BOOLEAN)'
    BY <1>0, OutputAssumption DEF OutputStateOK, GatesOK, Zero
  <2> QED  BY <1>0, <2>1, <2>2, <2>3, <2>4, <2>5, <2>6, <2>7, <2>8, <2>9 DEF OutputStateOK,
       DecoderOK, GatesOK, TicketsOK, ControlOK
<1>2. BuffersKept'
  BY <1>0 DEF BuffersKept, OutputStateOK, DecoderOK, ControlOK, Threads, NoFrame, Frame, Zero
<1>3. SessionOrder'
  BY <1>0 DEF SessionOrder, OutputStateOK, DecoderOK, ControlOK, Decoders, Threads, Zero
<1>4. WriterOwnsIo'
  BY <1>0 DEF WriterOwnsIo, OutputStateOK, TicketsOK, ControlOK, Hands, Threads, Zero
<1>5. DecisionStands'
  <2> DEFINE looked == active = exec.gen /\ ticket.id = Zero
             expired == active = exec.gen /\ OlderThanMaximum(ticket)
  <2>1. PICK hasMove \in BOOLEAN, timedOut \in BOOLEAN :
          LET seen == EvaluateVisibility(armed, exec, timedOut)
              failed == expired \/ (looked /\ seen = "timed_out")
              offers == /\ looked /\ seen \in {"open", "became_visible"}
                        /\ hasMove /\ OutputEnabled(gate)
          IN  /\ ticket' = IF expired THEN NoTicket ELSE ticket
              /\ armed' = (armed /\ ~(looked /\ seen \in {"became_visible", "timed_out"}))
              /\ unseen' = (unseen /\ ~(looked /\ exec.fresh))
              /\ lock' = [lock EXCEPT !.publish = IF failed \/ offers THEN "worker" ELSE lock.publish]
              /\ close' = IF failed THEN [close EXCEPT !["worker"] = "output"] ELSE close
              /\ pc' = [pc EXCEPT !["worker"] = IF offers THEN "begin" ELSE "idle"]
              /\ offers => exec' = exec
    BY <1>0 DEF OutputStateOK, ControlOK, Locks
  <2>2. active' = active /\ held' = held /\ held.worker = Zero /\ close["worker"] = "no"
    BY <1>0 DEF DecisionStands
  <2>3. unseen => armed
    BY <1>0, <2>2 DEF DecisionStands
  <2> DEFINE seen == EvaluateVisibility(armed, exec, timedOut)
             failed == expired \/ (looked /\ seen = "timed_out")
             offers == looked /\ seen \in {"open",
             "became_visible"} /\ hasMove /\ OutputEnabled(gate)
  <2>4. (armed /\ seen = "became_visible" => exec.fresh) /\ (seen = "open" => ~armed)
    BY DEF EvaluateVisibility
  <2>5. CASE offers
    <3>1. ~expired /\ ~failed
      BY <2>5 DEF OlderThanMaximum
    <3>2. ticket' = ticket /\ close' = close /\ exec' = exec /\ ~unseen'
          /\ lock' = [lock EXCEPT !.publish = "worker"] /\ pc' = [pc EXCEPT !["worker"] = "begin"]
      BY <2>1, <2>3, <2>4, <2>5, <3>1
    <3>3. lock'.publish = "worker" /\ pc'["worker"] = "begin"
      BY <1>0, <3>2 DEF OutputStateOK, ControlOK, Locks, Threads
    <3> QED  BY <2>2, <2>5, <3>2, <3>3 DEF DecisionStands
  <2>6. CASE ~offers
    <3>1. pc'["worker"] = "idle"
      BY <1>0, <2>1, <2>6 DEF OutputStateOK, ControlOK, Threads
    <3>2. unseen' => armed' \/ close'["worker"] = "output"
      <4>1. CASE failed
        BY <1>0, <2>1, <4>1 DEF OutputStateOK, ControlOK, Threads
      <4>2. CASE ~failed
        BY <2>1, <2>3, <2>4, <4>2
      <4> QED  BY <4>1, <4>2
    <3> QED  BY <2>2, <3>1, <3>2 DEF DecisionStands
  <2> QED  BY <2>5, <2>6
<1>6. SuspensionStands'
  BY <1>0 DEF SuspensionStands, OutputStateOK, ControlOK, Locks, Threads
<1>7. QuietWhileHeld'
  BY <1>0 DEF QuietWhileHeld, Held, OutputStateOK, GatesOK, ControlOK, Gates, Deliveries, Threads,
     WriterOwnsIo, Zero, ClosedGate, ClosedDelivery
<1>8. BackendKept'
  BY <1>0 DEF BackendKept, OneRuntimeLoaded
<1> QED  BY <1>1, <1>2, <1>3, <1>4, <1>5, <1>6, <1>7, <1>8 DEF OutputInv

LEMMA BeginMoveInv ==
  ASSUME OutputInv, BeginMove
  PROVE  OutputInv'
<1>0. /\ OutputStateOK /\ BuffersKept /\ SessionOrder /\ BackendKept
      /\ WriterOwnsIo /\ DecisionStands /\ SuspensionStands /\ QuietWhileHeld
  BY DEF OutputInv
<1> USE DEF BeginMove, At, Goto, decoderVars, gateVars, javaVars, BeginTicket
<1>f. FreshTicket \in Tickets /\ FreshTicket \notin {ticket.id, slot, io, held.worker, held.serial}
  <2>1. ticket.id = Zero /\ held.worker = Zero
    BY <1>0 DEF DecisionStands
  <2>2. io \in {Zero, held.serial}
    BY <1>0 DEF WriterOwnsIo
  <2>3. slot \in Tickets \union {Zero} /\ held.serial \in Tickets \union {Zero}
    BY <1>0 DEF OutputStateOK, TicketsOK, Hands, TicketIds
  <2>4. PICK a \in Tickets : slot \in {Zero, a}
    BY <2>3, OutputAssumption
  <2>5. PICK b \in Tickets : held.serial \in {Zero, b}
    BY <2>3, OutputAssumption
  <2>6. PICK n \in Tickets : n \notin {a, b}
    BY OutputAssumption
  <2>7. n \notin {ticket.id, slot, io, held.worker, held.serial}
    BY <2>1, <2>2, <2>4, <2>5, <2>6, GenerationFacts
  <2> QED  BY <2>7 DEF FreshTicket
<1>1. OutputStateOK'
  <2>1. (ticket \in CommitTickets)'
    <3> DEFINE f == FreshTicket
    <3>1. f \in TicketIds
      BY <1>f, GenerationFacts
    <3>2. ticket' = ticket \/ ticket' = [id |-> f, gen |-> exec.gen, age |-> "young"]
      OBVIOUS
    <3> HIDE DEF f
    <3> QED  BY <1>0, <3>1, <3>2, TicketFacts DEF OutputStateOK, DecoderOK, TicketsOK, Frame
  <2>2. (held \in Hands)'
    <3> DEFINE f == FreshTicket
    <3>1. f \in TicketIds
      BY <1>f, GenerationFacts
    <3>2. held' = [held EXCEPT !.worker = f]
      OBVIOUS
    <3> HIDE DEF f
    <3> QED  BY <1>0, <3>1, <3>2 DEF OutputStateOK, TicketsOK, Hands
  <2>3. (pc \in [Threads -> ThreadPlaces])'
    BY <1>0, OutputAssumption DEF OutputStateOK, ControlOK, ThreadPlaces, Threads, Zero
  <2> QED  BY <1>0, <2>1, <2>2, <2>3 DEF OutputStateOK, DecoderOK, GatesOK, TicketsOK, ControlOK
<1>2. BuffersKept'
  BY <1>0 DEF BuffersKept, OutputStateOK, DecoderOK, ControlOK, Threads, NoFrame, Frame, Zero
<1>3. SessionOrder'
  BY <1>0 DEF SessionOrder, OutputStateOK, DecoderOK, ControlOK, Decoders, Threads, Zero
<1>4. WriterOwnsIo'
  BY <1>0 DEF WriterOwnsIo, OutputStateOK, TicketsOK, ControlOK, Hands, Threads, Zero
<1>5. DecisionStands'
  <2> DEFINE f == FreshTicket
  <2>1. f \notin {Zero, slot, held.serial}
    BY <1>f, GenerationFacts
  <2>2. exec.gen # Zero /\ ticket.id = Zero
    BY <1>0 DEF BuffersKept, DecisionStands
  <2>3. /\ ticket' = [id |-> f, gen |-> exec.gen, age |-> "young"]
        /\ held' = [held EXCEPT !.worker = f] /\ pc' = [pc EXCEPT !["worker"] = "offer"]
        /\ UNCHANGED <<active, exec, slot, close, lock, armed, unseen>>
    BY <2>2
  <2> HIDE DEF f
  <2>4. /\ ticket'.id = f /\ held'.worker = f /\ held'.serial = held.serial
        /\ pc'["worker"] = "offer"
    BY <1>0, <2>3 DEF OutputStateOK, TicketsOK, Hands, ControlOK, Threads
  <2> QED  BY <1>0, <2>1, <2>3, <2>4 DEF DecisionStands
<1>6. SuspensionStands'
  BY <1>0 DEF SuspensionStands, OutputStateOK, ControlOK, Locks, Threads
<1>7. QuietWhileHeld'
  BY <1>0 DEF QuietWhileHeld, Held, OutputStateOK, GatesOK, ControlOK, Gates, Deliveries, Threads,
     WriterOwnsIo, Zero, ClosedGate, ClosedDelivery
<1>8. BackendKept'
  BY <1>0 DEF BackendKept, OneRuntimeLoaded
<1> QED  BY <1>1, <1>2, <1>3, <1>4, <1>5, <1>6, <1>7, <1>8 DEF OutputInv

LEMMA OfferMoveInv ==
  ASSUME OutputInv, OfferMove
  PROVE  OutputInv'
<1>0. /\ OutputStateOK /\ BuffersKept /\ SessionOrder /\ BackendKept
      /\ WriterOwnsIo /\ DecisionStands /\ SuspensionStands /\ QuietWhileHeld
  BY DEF OutputInv
<1> USE DEF OfferMove, At, Goto, decoderVars, gateVars, javaVars, StartClose, EndFrame, Recycle,
     CompleteTicket, DeliveryAllowed, OutputEnabled
<1>1. OutputStateOK'
  <2>1. (exec \in Frame)'
    BY <1>0, OutputAssumption DEF OutputStateOK, DecoderOK, Frame, NoFrame, Zero
  <2>2. (free \in Nat)'
    BY <1>0 DEF OutputStateOK, DecoderOK
  <2>3. (active \in 0..MaxGen)'
    BY <1>0, OutputAssumption DEF OutputStateOK, DecoderOK, Decoders, Zero
  <2>4. (ticket \in CommitTickets)'
    BY <1>0, OutputAssumption DEF OutputStateOK, DecoderOK, Frame, TicketsOK, CommitTickets,
       TicketIds, NoTicket, Zero
  <2>5. (slot \in TicketIds)'
    BY <1>0, OutputAssumption DEF OutputStateOK, TicketsOK, TicketIds, Hands, Zero
  <2>6. (held \in Hands)'
    BY <1>0, OutputAssumption DEF OutputStateOK, TicketsOK, Hands, TicketIds, Zero
  <2>7. (pc \in [Threads -> ThreadPlaces])'
    BY <1>0, OutputAssumption DEF OutputStateOK, ControlOK, ThreadPlaces, Threads, Zero
  <2>8. (close \in [Threads -> Closings])'
    <3>1. close' = close \/ close' = [close EXCEPT !["worker"] = "output"]
      OBVIOUS
    <3> QED  BY <1>0, <3>1 DEF OutputStateOK, ControlOK, Closings, Threads
  <2>9. (lock \in Locks)'
    BY <1>0, OutputAssumption DEF OutputStateOK, ControlOK, Locks, Threads, Zero
  <2> QED  BY <1>0, <2>1, <2>2, <2>3, <2>4, <2>5, <2>6, <2>7, <2>8, <2>9 DEF OutputStateOK,
       DecoderOK, GatesOK, TicketsOK, ControlOK
<1>2. BuffersKept'
  BY <1>0 DEF BuffersKept, OutputStateOK, DecoderOK, ControlOK, Threads, NoFrame, Frame, Zero
<1>3. SessionOrder'
  BY <1>0 DEF SessionOrder, OutputStateOK, DecoderOK, ControlOK, Decoders, Threads, Zero
<1>4. WriterOwnsIo'
  BY <1>0 DEF WriterOwnsIo, OutputStateOK, TicketsOK, ControlOK, Hands, Threads, Zero
<1>5. DecisionStands'
  BY <1>0 DEF DecisionStands, OutputStateOK, DecoderOK, GatesOK, TicketsOK, ControlOK, Hands,
     Locks, CommitTickets, Threads, NoTicket, Zero
<1>6. SuspensionStands'
  <2>1. pc["receiver"] \notin {"suspendJava", "drain"}
    BY <1>0 DEF DecisionStands, SuspensionStands
  <2>2. pc' = [pc EXCEPT !["worker"] = "idle"]
    OBVIOUS
  <2> QED  BY <1>0, <2>1, <2>2 DEF SuspensionStands, OutputStateOK, ControlOK, Threads
<1>7. QuietWhileHeld'
  BY <1>0 DEF QuietWhileHeld, Held, OutputStateOK, GatesOK, ControlOK, Gates, Deliveries, Threads,
     WriterOwnsIo, Zero, ClosedGate, ClosedDelivery
<1>8. BackendKept'
  BY <1>0 DEF BackendKept, OneRuntimeLoaded
<1> QED  BY <1>1, <1>2, <1>3, <1>4, <1>5, <1>6, <1>7, <1>8 DEF OutputInv

LEMMA TakeMoveInv ==
  ASSUME OutputInv, TakeMove
  PROVE  OutputInv'
<1>0. /\ OutputStateOK /\ BuffersKept /\ SessionOrder /\ BackendKept
      /\ WriterOwnsIo /\ DecisionStands /\ SuspensionStands /\ QuietWhileHeld
  BY DEF OutputInv
<1> USE DEF TakeMove, At, Goto, decoderVars, gateVars, javaVars
<1>1. OutputStateOK'
  <2>1. (slot \in TicketIds)'
    BY <1>0, OutputAssumption DEF OutputStateOK, TicketsOK, TicketIds, Hands, Zero
  <2>2. (held \in Hands)'
    BY <1>0, OutputAssumption DEF OutputStateOK, TicketsOK, Hands, TicketIds, Zero
  <2>3. (pc \in [Threads -> ThreadPlaces])'
    BY <1>0, OutputAssumption DEF OutputStateOK, ControlOK, ThreadPlaces, Threads, Zero
  <2> QED  BY <1>0, <2>1, <2>2, <2>3 DEF OutputStateOK, DecoderOK, GatesOK, TicketsOK, ControlOK
<1>2. BuffersKept'
  BY <1>0 DEF BuffersKept, OutputStateOK, DecoderOK, ControlOK, Threads, NoFrame, Frame, Zero
<1>3. SessionOrder'
  BY <1>0 DEF SessionOrder, OutputStateOK, DecoderOK, ControlOK, Decoders, Threads, Zero
<1>4. WriterOwnsIo'
  BY <1>0 DEF WriterOwnsIo, OutputStateOK, TicketsOK, ControlOK, Hands, Threads, Zero
<1>5. DecisionStands'
  BY <1>0 DEF DecisionStands, OutputStateOK, DecoderOK, GatesOK, TicketsOK, ControlOK, Hands,
     Locks, CommitTickets, Threads, NoTicket, Zero
<1>6. SuspensionStands'
  BY <1>0 DEF SuspensionStands, OutputStateOK, ControlOK, Locks, Threads
<1>7. QuietWhileHeld'
  BY <1>0 DEF QuietWhileHeld, Held, OutputStateOK, GatesOK, ControlOK, Gates, Deliveries, Threads,
     WriterOwnsIo, Zero, ClosedGate, ClosedDelivery
<1>8. BackendKept'
  BY <1>0 DEF BackendKept, OneRuntimeLoaded
<1> QED  BY <1>1, <1>2, <1>3, <1>4, <1>5, <1>6, <1>7, <1>8 DEF OutputInv

LEMMA StartWriteInv ==
  ASSUME OutputInv, StartWrite
  PROVE  OutputInv'
<1>0. /\ OutputStateOK /\ BuffersKept /\ SessionOrder /\ BackendKept
      /\ WriterOwnsIo /\ DecisionStands /\ SuspensionStands /\ QuietWhileHeld
  BY DEF OutputInv
<1> USE DEF StartWrite, At, Goto, decoderVars, gateVars, javaVars, DeliveryAllowed
<1>1. OutputStateOK'
  <2>1. (io \in TicketIds)'
    BY <1>0, OutputAssumption DEF OutputStateOK, TicketsOK, TicketIds, Hands, Zero
  <2>2. (held \in Hands)'
    BY <1>0, OutputAssumption DEF OutputStateOK, TicketsOK, Hands, TicketIds, Zero
  <2>3. (pc \in [Threads -> ThreadPlaces])'
    <3>1. \E p \in {"idle", "writing", "nack", "reject"} : pc' = [pc EXCEPT !["serial"] = p]
      <4>1. PICK late \in BOOLEAN :
              pc' = [pc EXCEPT !["serial"] =
                       CASE late -> "reject"
                         [] ~late /\ DeliveryAllowed(java) -> IF java.ready THEN "writing" ELSE "nack"
                         [] ~late /\ ~DeliveryAllowed(java) -> IF java.susp THEN "idle" ELSE "reject"]
        OBVIOUS
      <4> HIDE DEF DeliveryAllowed
      <4>2. CASE late
        BY <4>1, <4>2
      <4>3. CASE ~late /\ DeliveryAllowed(java)
        BY <4>1, <4>3
      <4>4. CASE ~late /\ ~DeliveryAllowed(java)
        BY <4>1, <4>4
      <4> QED  BY <4>2, <4>3, <4>4
    <3> QED  BY <1>0, <3>1 DEF OutputStateOK, ControlOK, ThreadPlaces, Threads
  <2> QED  BY <1>0, <2>1, <2>2, <2>3 DEF OutputStateOK, DecoderOK, GatesOK, TicketsOK, ControlOK
<1>2. BuffersKept'
  BY <1>0 DEF BuffersKept, OutputStateOK, DecoderOK, ControlOK, Threads, NoFrame, Frame, Zero
<1>3. SessionOrder'
  BY <1>0 DEF SessionOrder, OutputStateOK, DecoderOK, ControlOK, Decoders, Threads, Zero
<1>4. WriterOwnsIo'
  BY <1>0 DEF WriterOwnsIo, OutputStateOK, TicketsOK, ControlOK, Hands, Threads, Zero
<1>5. DecisionStands'
  BY <1>0 DEF DecisionStands, OutputStateOK, DecoderOK, GatesOK, TicketsOK, ControlOK, Hands,
     Locks, CommitTickets, Threads, NoTicket, Zero
<1>6. SuspensionStands'
  BY <1>0 DEF SuspensionStands, OutputStateOK, ControlOK, Locks, Threads
<1>7. QuietWhileHeld'
  BY <1>0 DEF QuietWhileHeld, Held, OutputStateOK, GatesOK, ControlOK, Gates, Deliveries, Threads,
     WriterOwnsIo, Zero, ClosedGate, ClosedDelivery
<1>8. BackendKept'
  BY <1>0 DEF BackendKept, OneRuntimeLoaded
<1> QED  BY <1>1, <1>2, <1>3, <1>4, <1>5, <1>6, <1>7, <1>8 DEF OutputInv

LEMMA EndWriteInv ==
  ASSUME OutputInv, EndWrite
  PROVE  OutputInv'
<1>0. /\ OutputStateOK /\ BuffersKept /\ SessionOrder /\ BackendKept
      /\ WriterOwnsIo /\ DecisionStands /\ SuspensionStands /\ QuietWhileHeld
  BY DEF OutputInv
<1> USE DEF EndWrite, At, Goto, decoderVars, gateVars, javaVars
<1>1. OutputStateOK'
  <2>1. (pc \in [Threads -> ThreadPlaces])'
    BY <1>0, OutputAssumption DEF OutputStateOK, ControlOK, ThreadPlaces, Threads, Zero
  <2> QED  BY <1>0, <2>1 DEF OutputStateOK, DecoderOK, GatesOK, TicketsOK, ControlOK
<1>2. BuffersKept'
  BY <1>0 DEF BuffersKept, OutputStateOK, DecoderOK, ControlOK, Threads, NoFrame, Frame, Zero
<1>3. SessionOrder'
  BY <1>0 DEF SessionOrder, OutputStateOK, DecoderOK, ControlOK, Decoders, Threads, Zero
<1>4. WriterOwnsIo'
  BY <1>0 DEF WriterOwnsIo, OutputStateOK, TicketsOK, ControlOK, Hands, Threads, Zero
<1>5. DecisionStands'
  BY <1>0 DEF DecisionStands, OutputStateOK, DecoderOK, GatesOK, TicketsOK, ControlOK, Hands,
     Locks, CommitTickets, Threads, NoTicket, Zero
<1>6. SuspensionStands'
  BY <1>0 DEF SuspensionStands, OutputStateOK, ControlOK, Locks, Threads
<1>7. QuietWhileHeld'
  BY <1>0 DEF QuietWhileHeld, Held, OutputStateOK, GatesOK, ControlOK, Gates, Deliveries, Threads,
     WriterOwnsIo, Zero, ClosedGate, ClosedDelivery
<1>8. BackendKept'
  BY <1>0 DEF BackendKept, OneRuntimeLoaded
<1> QED  BY <1>1, <1>2, <1>3, <1>4, <1>5, <1>6, <1>7, <1>8 DEF OutputInv

LEMMA ReportAckInv ==
  ASSUME OutputInv, ReportAck
  PROVE  OutputInv'
<1>0. /\ OutputStateOK /\ BuffersKept /\ SessionOrder /\ BackendKept
      /\ WriterOwnsIo /\ DecisionStands /\ SuspensionStands /\ QuietWhileHeld
  BY DEF OutputInv
<1> USE DEF ReportAck, At, Goto, decoderVars, gateVars, javaVars, StartClose, EndSerial, Aged,
     TicketMatches
<1>1. OutputStateOK'
  <2>1. (coded \in Frame)'
    <3> HIDE DEF Aged
    <3> QED  BY <1>0, FrameFacts DEF OutputStateOK, DecoderOK
  <2>2. (queue \in Frame)'
    <3> HIDE DEF Aged
    <3> QED  BY <1>0, FrameFacts DEF OutputStateOK, DecoderOK
  <2>3. (exec \in Frame)'
    <3> HIDE DEF Aged
    <3> QED  BY <1>0, FrameFacts DEF OutputStateOK, DecoderOK
  <2>4. (active \in 0..MaxGen)'
    BY <1>0, OutputAssumption DEF OutputStateOK, DecoderOK, Decoders, Zero
  <2>5. (ticket \in CommitTickets)'
    BY <1>0, TicketFacts DEF OutputStateOK, TicketsOK
  <2>6. (armed \in BOOLEAN)'
    BY <1>0, OutputAssumption DEF OutputStateOK, GatesOK, Zero
  <2>7. (io \in TicketIds)'
    BY <1>0, OutputAssumption DEF OutputStateOK, TicketsOK, TicketIds, Hands, Zero
  <2>8. (held \in Hands)'
    BY <1>0, OutputAssumption DEF OutputStateOK, TicketsOK, Hands, TicketIds, Zero
  <2>9. (pc \in [Threads -> ThreadPlaces])'
    BY <1>0, OutputAssumption DEF OutputStateOK, ControlOK, ThreadPlaces, Threads, Zero
  <2>10. (close \in [Threads -> Closings])'
    BY <1>0, OutputAssumption DEF OutputStateOK, ControlOK, Closings, Threads, Zero
  <2>11. (unseen \in BOOLEAN)'
    BY <1>0, OutputAssumption DEF OutputStateOK, GatesOK, Zero
  <2> QED  BY <1>0, <2>1, <2>2, <2>3, <2>4, <2>5, <2>6, <2>7, <2>8, <2>9, <2>10,
       <2>11 DEF OutputStateOK, DecoderOK, GatesOK, TicketsOK, ControlOK
<1>2. BuffersKept'
  BY <1>0 DEF BuffersKept, OutputStateOK, DecoderOK, ControlOK, Threads, NoFrame, Frame, Zero
<1>3. SessionOrder'
  BY <1>0 DEF SessionOrder, OutputStateOK, DecoderOK, ControlOK, Decoders, Threads, Zero
<1>4. WriterOwnsIo'
  BY <1>0 DEF WriterOwnsIo, OutputStateOK, TicketsOK, ControlOK, Hands, Threads, Zero
<1>5. DecisionStands'
  BY <1>0 DEF DecisionStands, OutputStateOK, DecoderOK, GatesOK, TicketsOK, ControlOK, Hands,
     Locks, CommitTickets, Threads, NoTicket, Zero
<1>6. SuspensionStands'
  BY <1>0 DEF SuspensionStands, OutputStateOK, ControlOK, Locks, Threads
<1>7. QuietWhileHeld'
  BY <1>0 DEF QuietWhileHeld, Held, OutputStateOK, GatesOK, ControlOK, Gates, Deliveries, Threads,
     WriterOwnsIo, Zero, ClosedGate, ClosedDelivery
<1>8. BackendKept'
  BY <1>0 DEF BackendKept, OneRuntimeLoaded
<1> QED  BY <1>1, <1>2, <1>3, <1>4, <1>5, <1>6, <1>7, <1>8 DEF OutputInv

LEMMA ReportFailureInv ==
  ASSUME OutputInv, ReportFailure
  PROVE  OutputInv'
<1>0. /\ OutputStateOK /\ BuffersKept /\ SessionOrder /\ BackendKept
      /\ WriterOwnsIo /\ DecisionStands /\ SuspensionStands /\ QuietWhileHeld
  BY DEF OutputInv
<1> USE DEF ReportFailure, At, Goto, decoderVars, gateVars, javaVars, StartClose, EndSerial,
     RevokeImmediately
<1>1. OutputStateOK'
  <2>1. (active \in 0..MaxGen)'
    BY <1>0, OutputAssumption DEF OutputStateOK, DecoderOK, Decoders, Zero
  <2>2. (gate \in Gates)'
    BY <1>0, OutputAssumption DEF OutputStateOK, DecoderOK, Decoders, GatesOK, Gates, ClosedGate,
       Zero
  <2>3. (ticket \in CommitTickets)'
    BY <1>0, OutputAssumption DEF OutputStateOK, DecoderOK, Frame, TicketsOK, CommitTickets,
       TicketIds, NoTicket, Zero
  <2>4. (java \in Deliveries)'
    BY <1>0, OutputAssumption DEF OutputStateOK, DecoderOK, Decoders, GatesOK, Deliveries,
       ClosedDelivery, Zero
  <2>5. (io \in TicketIds)'
    BY <1>0, OutputAssumption DEF OutputStateOK, TicketsOK, TicketIds, Hands, Zero
  <2>6. (held \in Hands)'
    BY <1>0, OutputAssumption DEF OutputStateOK, TicketsOK, Hands, TicketIds, Zero
  <2>7. (pc \in [Threads -> ThreadPlaces])'
    <3>1. \E p \in {"invalidate", "done", "idle"} : pc' = [pc EXCEPT !["serial"] = p]
      OBVIOUS
    <3> QED  BY <1>0, <3>1 DEF OutputStateOK, ControlOK, ThreadPlaces, Threads
  <2>8. (close \in [Threads -> Closings])'
    <3>1. close' = close \/ close' = [close EXCEPT !["serial"] = "output"]
      OBVIOUS
    <3> QED  BY <1>0, <3>1 DEF OutputStateOK, ControlOK, Closings, Threads
  <2> QED  BY <1>0, <2>1, <2>2, <2>3, <2>4, <2>5, <2>6, <2>7, <2>8 DEF OutputStateOK, DecoderOK,
       GatesOK, TicketsOK, ControlOK
<1>2. BuffersKept'
  BY <1>0 DEF BuffersKept, OutputStateOK, DecoderOK, ControlOK, Threads, NoFrame, Frame, Zero
<1>3. SessionOrder'
  BY <1>0 DEF SessionOrder, OutputStateOK, DecoderOK, ControlOK, Decoders, Threads, Zero
<1>4. WriterOwnsIo'
  BY <1>0 DEF WriterOwnsIo, OutputStateOK, TicketsOK, ControlOK, Hands, Threads, Zero
<1>5. DecisionStands'
  BY <1>0 DEF DecisionStands, OutputStateOK, DecoderOK, GatesOK, TicketsOK, ControlOK, Hands,
     Locks, CommitTickets, Threads, NoTicket, Zero
<1>6. SuspensionStands'
  BY <1>0 DEF SuspensionStands, OutputStateOK, ControlOK, Locks, Threads
<1>7. QuietWhileHeld'
  BY <1>0 DEF QuietWhileHeld, Held, OutputStateOK, GatesOK, ControlOK, Gates, Deliveries, Threads,
     WriterOwnsIo, Zero, ClosedGate, ClosedDelivery
<1>8. BackendKept'
  BY <1>0 DEF BackendKept, OneRuntimeLoaded
<1> QED  BY <1>1, <1>2, <1>3, <1>4, <1>5, <1>6, <1>7, <1>8 DEF OutputInv

LEMMA AgeTicketInv ==
  ASSUME OutputInv, AgeTicket
  PROVE  OutputInv'
<1>0. /\ OutputStateOK /\ BuffersKept /\ SessionOrder /\ BackendKept
      /\ WriterOwnsIo /\ DecisionStands /\ SuspensionStands /\ QuietWhileHeld
  BY DEF OutputInv
<1> USE DEF AgeTicket, At, Goto, decoderVars, gateVars, javaVars
<1>1. OutputStateOK'
  <2>1. (ticket \in CommitTickets)'
    BY <1>0, OutputAssumption DEF OutputStateOK, DecoderOK, Frame, TicketsOK, CommitTickets,
       TicketIds, NoTicket, Zero
  <2> QED  BY <1>0, <2>1 DEF OutputStateOK, DecoderOK, GatesOK, TicketsOK, ControlOK
<1>2. DecisionStands'
  BY <1>0 DEF DecisionStands, OutputStateOK, DecoderOK, GatesOK, TicketsOK, ControlOK, Hands,
     Locks, CommitTickets, Threads, NoTicket, Zero
<1>3. BuffersKept' /\ SessionOrder' /\ BackendKept' /\ WriterOwnsIo' /\ SuspensionStands' /\ QuietWhileHeld'
  BY <1>0 DEF BuffersKept, SessionOrder, BackendKept, OneRuntimeLoaded, WriterOwnsIo,
     SuspensionStands, QuietWhileHeld, Held
<1> QED  BY <1>1, <1>2, <1>3 DEF OutputInv

LEMMA TriggerReleasedInv ==
  ASSUME OutputInv, TriggerReleased
  PROVE  OutputInv'
<1>0. /\ OutputStateOK /\ BuffersKept /\ SessionOrder /\ BackendKept
      /\ WriterOwnsIo /\ DecisionStands /\ SuspensionStands /\ QuietWhileHeld
  BY DEF OutputInv
<1> USE DEF TriggerReleased, At, Goto, decoderVars, gateVars, javaVars, SetAllowed,
     RevokeImmediately, StartClose
<1>1. OutputStateOK'
  <2>1. (active \in 0..MaxGen)'
    BY <1>0, OutputAssumption DEF OutputStateOK, DecoderOK, Decoders, Zero
  <2>2. (gate \in Gates)'
    BY <1>0, OutputAssumption DEF OutputStateOK, DecoderOK, Decoders, GatesOK, Gates, ClosedGate,
       Zero
  <2>3. (ticket \in CommitTickets)'
    BY <1>0, TicketFacts DEF OutputStateOK, TicketsOK
  <2>4. (java \in Deliveries)'
    BY <1>0, OutputAssumption DEF OutputStateOK, DecoderOK, Decoders, GatesOK, Deliveries,
       ClosedDelivery, Zero
  <2>5. (slot \in TicketIds)'
    BY <1>0, OutputAssumption DEF OutputStateOK, TicketsOK, TicketIds, Hands, Zero
  <2>6. (close \in [Threads -> Closings])'
    BY <1>0, OutputAssumption DEF OutputStateOK, ControlOK, Closings, Threads, Zero
  <2> QED  BY <1>0, <2>1, <2>2, <2>3, <2>4, <2>5, <2>6 DEF OutputStateOK, DecoderOK, GatesOK,
       TicketsOK, ControlOK
<1>2. DecisionStands'
  BY <1>0 DEF DecisionStands, OutputStateOK, DecoderOK, GatesOK, TicketsOK, ControlOK, Hands,
     Locks, CommitTickets, Threads, NoTicket, Zero
<1>3. SuspensionStands'
  BY <1>0 DEF SuspensionStands, OutputStateOK, ControlOK, Locks, Threads
<1>4. QuietWhileHeld'
  BY <1>0 DEF QuietWhileHeld, Held, OutputStateOK, GatesOK, ControlOK, Gates, Deliveries, Threads,
     WriterOwnsIo, Zero, ClosedGate, ClosedDelivery
<1>5. BuffersKept' /\ SessionOrder' /\ BackendKept' /\ WriterOwnsIo'
  BY <1>0 DEF BuffersKept, SessionOrder, BackendKept, OneRuntimeLoaded, WriterOwnsIo
<1> QED  BY <1>1, <1>2, <1>3, <1>4, <1>5 DEF OutputInv

LEMMA LinkLostInv ==
  ASSUME OutputInv, LinkLost
  PROVE  OutputInv'
<1>0. /\ OutputStateOK /\ BuffersKept /\ SessionOrder /\ BackendKept
      /\ WriterOwnsIo /\ DecisionStands /\ SuspensionStands /\ QuietWhileHeld
  BY DEF OutputInv
<1> USE DEF LinkLost, At, Goto, decoderVars, gateVars, javaVars, ClosedDelivery, StartClose
<1>1. OutputStateOK'
  <2>1. (active \in 0..MaxGen)'
    BY <1>0, OutputAssumption DEF OutputStateOK, DecoderOK, Decoders, Zero
  <2>2. (java \in Deliveries)'
    BY <1>0, OutputAssumption DEF OutputStateOK, DecoderOK, Decoders, GatesOK, Deliveries,
       ClosedDelivery, Zero
  <2>3. (slot \in TicketIds)'
    BY <1>0, OutputAssumption DEF OutputStateOK, TicketsOK, TicketIds, Hands, Zero
  <2>4. (close \in [Threads -> Closings])'
    BY <1>0, OutputAssumption DEF OutputStateOK, ControlOK, Closings, Threads, Zero
  <2> QED  BY <1>0, <2>1, <2>2, <2>3, <2>4 DEF OutputStateOK, DecoderOK, GatesOK, TicketsOK,
       ControlOK
<1>2. DecisionStands'
  BY <1>0 DEF DecisionStands, OutputStateOK, DecoderOK, GatesOK, TicketsOK, ControlOK, Hands,
     Locks, CommitTickets, Threads, NoTicket, Zero
<1>3. SuspensionStands'
  BY <1>0 DEF SuspensionStands, OutputStateOK, ControlOK, Locks, Threads
<1>4. QuietWhileHeld'
  BY <1>0 DEF QuietWhileHeld, Held, OutputStateOK, GatesOK, ControlOK, Gates, Deliveries, Threads,
     WriterOwnsIo, Zero, ClosedGate, ClosedDelivery
<1>5. BuffersKept' /\ SessionOrder' /\ BackendKept' /\ WriterOwnsIo'
  BY <1>0 DEF BuffersKept, SessionOrder, BackendKept, OneRuntimeLoaded, WriterOwnsIo
<1> QED  BY <1>1, <1>2, <1>3, <1>4, <1>5 DEF OutputInv

LEMMA ReconnectInv ==
  ASSUME OutputInv, Reconnect
  PROVE  OutputInv'
<1>0. /\ OutputStateOK /\ BuffersKept /\ SessionOrder /\ BackendKept
      /\ WriterOwnsIo /\ DecisionStands /\ SuspensionStands /\ QuietWhileHeld
  BY DEF OutputInv
<1> USE DEF Reconnect, At, Goto, decoderVars, gateVars, javaVars
<1>1. OutputStateOK'
  <2>1. (java \in Deliveries)'
    BY <1>0, OutputAssumption DEF OutputStateOK, DecoderOK, Decoders, GatesOK, Deliveries,
       ClosedDelivery, Zero
  <2> QED  BY <1>0, <2>1 DEF OutputStateOK, DecoderOK, GatesOK, TicketsOK, ControlOK
<1>2. QuietWhileHeld'
  BY <1>0 DEF QuietWhileHeld, Held, OutputStateOK, GatesOK, ControlOK, Gates, Deliveries, Threads,
     WriterOwnsIo, Zero, ClosedGate, ClosedDelivery
<1>3. BuffersKept' /\ SessionOrder' /\ BackendKept' /\ WriterOwnsIo' /\ DecisionStands' /\ SuspensionStands'
  BY <1>0 DEF BuffersKept, SessionOrder, BackendKept, OneRuntimeLoaded, WriterOwnsIo,
     DecisionStands, SuspensionStands
<1> QED  BY <1>1, <1>2, <1>3 DEF OutputInv

LEMMA RestartBeginInv ==
  ASSUME OutputInv, RestartBegin
  PROVE  OutputInv'
<1>0. /\ OutputStateOK /\ BuffersKept /\ SessionOrder /\ BackendKept
      /\ WriterOwnsIo /\ DecisionStands /\ SuspensionStands /\ QuietWhileHeld
  BY DEF OutputInv
<1> USE DEF RestartBegin, At, Goto, decoderVars, gateVars, javaVars
<1>1. OutputStateOK'
  <2>1. (dec \in Decoders)'
    <3> DEFINE g == dec.gen + 1
    <3>1. dec' = [dec EXCEPT !.gen = g, !.restarting = TRUE, !.failed = FALSE,
         !.resume = Zero] /\ g \in 0..MaxGen
      BY <1>0, GenerationFacts DEF OutputStateOK, DecoderOK, Decoders
    <3> HIDE DEF g
    <3> QED  BY <1>0, <3>1, GenerationFacts DEF OutputStateOK, DecoderOK, Decoders
  <2>2. (coded \in Frame)'
    BY <1>0, FrameFacts DEF OutputStateOK, DecoderOK
  <2>3. (pc \in [Threads -> ThreadPlaces])'
    BY <1>0, OutputAssumption DEF OutputStateOK, ControlOK, ThreadPlaces, Threads, Zero
  <2>4. (lock \in Locks)'
    BY <1>0, OutputAssumption DEF OutputStateOK, ControlOK, Locks, Threads, Zero
  <2> QED  BY <1>0, <2>1, <2>2, <2>3, <2>4 DEF OutputStateOK, DecoderOK, GatesOK, TicketsOK,
       ControlOK
<1>2. BuffersKept'
  BY <1>0 DEF BuffersKept, OutputStateOK, DecoderOK, ControlOK, Threads, NoFrame, Frame, Zero
<1>3. SessionOrder'
  BY <1>0 DEF SessionOrder, OutputStateOK, DecoderOK, ControlOK, Decoders, Threads, Zero
<1>4. BackendKept'
  BY <1>0 DEF BackendKept, OneRuntimeLoaded, OutputStateOK, DecoderOK, Decoders
<1>5. WriterOwnsIo'
  BY <1>0 DEF WriterOwnsIo, OutputStateOK, TicketsOK, ControlOK, Hands, Threads, Zero
<1>6. DecisionStands'
  BY <1>0 DEF DecisionStands, OutputStateOK, DecoderOK, GatesOK, TicketsOK, ControlOK, Hands,
     Locks, CommitTickets, Threads, NoTicket, Zero
<1>7. SuspensionStands'
  BY <1>0 DEF SuspensionStands, OutputStateOK, ControlOK, Locks, Threads
<1>8. QuietWhileHeld'
  BY <1>0 DEF QuietWhileHeld, Held, OutputStateOK, GatesOK, ControlOK, Gates, Deliveries, Threads,
     WriterOwnsIo, Zero, ClosedGate, ClosedDelivery
<1> QED  BY <1>1, <1>2, <1>3, <1>4, <1>5, <1>6, <1>7, <1>8 DEF OutputInv

LEMMA SuspendNativeInv ==
  ASSUME OutputInv, SuspendNative
  PROVE  OutputInv'
<1>0. /\ OutputStateOK /\ BuffersKept /\ SessionOrder /\ BackendKept
      /\ WriterOwnsIo /\ DecisionStands /\ SuspensionStands /\ QuietWhileHeld
  BY DEF OutputInv
<1> USE DEF SuspendNative, At, Goto, decoderVars, gateVars, javaVars, SuspendForRecovery,
     PublishFree
<1>1. OutputStateOK'
  <2>1. (active \in 0..MaxGen)'
    BY <1>0, OutputAssumption DEF OutputStateOK, DecoderOK, Decoders, Zero
  <2>2. (gate \in Gates)'
    BY <1>0, OutputAssumption DEF OutputStateOK, DecoderOK, Decoders, GatesOK, Gates, ClosedGate,
       Zero
  <2>3. (pc \in [Threads -> ThreadPlaces])'
    BY <1>0, OutputAssumption DEF OutputStateOK, ControlOK, ThreadPlaces, Threads, Zero
  <2>4. (lock \in Locks)'
    BY <1>0, OutputAssumption DEF OutputStateOK, ControlOK, Locks, Threads, Zero
  <2> QED  BY <1>0, <2>1, <2>2, <2>3, <2>4 DEF OutputStateOK, DecoderOK, GatesOK, TicketsOK,
       ControlOK
<1>2. BuffersKept'
  BY <1>0 DEF BuffersKept, OutputStateOK, DecoderOK, ControlOK, Threads, NoFrame, Frame, Zero
<1>3. SessionOrder'
  BY <1>0 DEF SessionOrder, OutputStateOK, DecoderOK, ControlOK, Decoders, Threads, Zero
<1>4. WriterOwnsIo'
  BY <1>0 DEF WriterOwnsIo, OutputStateOK, TicketsOK, ControlOK, Hands, Threads, Zero
<1>5. DecisionStands'
  BY <1>0 DEF DecisionStands, OutputStateOK, DecoderOK, GatesOK, TicketsOK, ControlOK, Hands,
     Locks, CommitTickets, Threads, NoTicket, Zero
<1>6. SuspensionStands'
  BY <1>0 DEF SuspensionStands, OutputStateOK, ControlOK, Locks, Threads
<1>7. QuietWhileHeld'
  BY <1>0 DEF QuietWhileHeld, Held, OutputStateOK, GatesOK, ControlOK, Gates, Deliveries, Threads,
     WriterOwnsIo, Zero, ClosedGate, ClosedDelivery
<1>8. BackendKept'
  BY <1>0 DEF BackendKept, OneRuntimeLoaded
<1> QED  BY <1>1, <1>2, <1>3, <1>4, <1>5, <1>6, <1>7, <1>8 DEF OutputInv

LEMMA SuspendJavaInv ==
  ASSUME OutputInv, SuspendJava
  PROVE  OutputInv'
<1>0. /\ OutputStateOK /\ BuffersKept /\ SessionOrder /\ BackendKept
      /\ WriterOwnsIo /\ DecisionStands /\ SuspensionStands /\ QuietWhileHeld
  BY DEF OutputInv
<1> USE DEF SuspendJava, At, Goto, decoderVars, gateVars, javaVars, SuspendDelivery
<1>1. OutputStateOK'
  <2>1. (java \in Deliveries)'
    BY <1>0, OutputAssumption DEF OutputStateOK, DecoderOK, Decoders, GatesOK, Deliveries,
       ClosedDelivery, Zero
  <2>2. (slot \in TicketIds)'
    BY <1>0, OutputAssumption DEF OutputStateOK, TicketsOK, TicketIds, Hands, Zero
  <2>3. (pc \in [Threads -> ThreadPlaces])'
    BY <1>0, OutputAssumption DEF OutputStateOK, ControlOK, ThreadPlaces, Threads, Zero
  <2> QED  BY <1>0, <2>1, <2>2, <2>3 DEF OutputStateOK, DecoderOK, GatesOK, TicketsOK, ControlOK
<1>2. BuffersKept'
  BY <1>0 DEF BuffersKept, OutputStateOK, DecoderOK, ControlOK, Threads, NoFrame, Frame, Zero
<1>3. SessionOrder'
  BY <1>0 DEF SessionOrder, OutputStateOK, DecoderOK, ControlOK, Decoders, Threads, Zero
<1>4. WriterOwnsIo'
  BY <1>0 DEF WriterOwnsIo, OutputStateOK, TicketsOK, ControlOK, Hands, Threads, Zero
<1>5. DecisionStands'
  BY <1>0 DEF DecisionStands, OutputStateOK, DecoderOK, GatesOK, TicketsOK, ControlOK, Hands,
     Locks, CommitTickets, Threads, NoTicket, Zero
<1>6. SuspensionStands'
  BY <1>0 DEF SuspensionStands, OutputStateOK, ControlOK, Locks, Threads
<1>7. QuietWhileHeld'
  BY <1>0 DEF QuietWhileHeld, Held, OutputStateOK, GatesOK, ControlOK, Gates, Deliveries, Threads,
     WriterOwnsIo, Zero, ClosedGate, ClosedDelivery
<1>8. BackendKept'
  BY <1>0 DEF BackendKept, OneRuntimeLoaded
<1> QED  BY <1>1, <1>2, <1>3, <1>4, <1>5, <1>6, <1>7, <1>8 DEF OutputInv

LEMMA SuspendEndInv ==
  ASSUME OutputInv, SuspendEnd
  PROVE  OutputInv'
<1>0. /\ OutputStateOK /\ BuffersKept /\ SessionOrder /\ BackendKept
      /\ WriterOwnsIo /\ DecisionStands /\ SuspensionStands /\ QuietWhileHeld
  BY DEF OutputInv
<1> USE DEF SuspendEnd, At, Goto, decoderVars, gateVars, javaVars, StartClose
<1>1. OutputStateOK'
  <2>1. (active \in 0..MaxGen)'
    BY <1>0, OutputAssumption DEF OutputStateOK, DecoderOK, Decoders, Zero
  <2>2. (ticket \in CommitTickets)'
    BY <1>0, OutputAssumption DEF OutputStateOK, DecoderOK, Frame, TicketsOK, CommitTickets,
       TicketIds, NoTicket, Zero
  <2>3. (armed \in BOOLEAN)'
    BY <1>0, OutputAssumption DEF OutputStateOK, GatesOK, Zero
  <2>4. (slot \in TicketIds)'
    BY <1>0, OutputAssumption DEF OutputStateOK, TicketsOK, TicketIds, Hands, Zero
  <2>5. (pc \in [Threads -> ThreadPlaces])'
    BY <1>0, OutputAssumption DEF OutputStateOK, ControlOK, ThreadPlaces, Threads, Zero
  <2>6. (close \in [Threads -> Closings])'
    BY <1>0, OutputAssumption DEF OutputStateOK, ControlOK, Closings, Threads, Zero
  <2>7. (lock \in Locks)'
    BY <1>0, OutputAssumption DEF OutputStateOK, ControlOK, Locks, Threads, Zero
  <2>8. (unseen \in BOOLEAN)'
    BY <1>0, OutputAssumption DEF OutputStateOK, GatesOK, Zero
  <2> QED  BY <1>0, <2>1, <2>2, <2>3, <2>4, <2>5, <2>6, <2>7, <2>8 DEF OutputStateOK, DecoderOK,
       GatesOK, TicketsOK, ControlOK
<1>2. BuffersKept'
  BY <1>0 DEF BuffersKept, OutputStateOK, DecoderOK, ControlOK, Threads, NoFrame, Frame, Zero
<1>3. SessionOrder'
  BY <1>0 DEF SessionOrder, OutputStateOK, DecoderOK, ControlOK, Decoders, Threads, Zero
<1>4. WriterOwnsIo'
  BY <1>0 DEF WriterOwnsIo, OutputStateOK, TicketsOK, ControlOK, Hands, Threads, Zero
<1>5. DecisionStands'
  <2>1. pc["worker"] \notin {"begin", "offer"} /\ held.worker = Zero
    BY <1>0 DEF DecisionStands, SuspensionStands
  <2>2. pc'["worker"] = pc["worker"] /\ held' = held /\ ~unseen'
    BY <1>0 DEF OutputStateOK, ControlOK, Threads
  <2> QED  BY <2>1, <2>2 DEF DecisionStands
<1>6. SuspensionStands'
  BY <1>0 DEF SuspensionStands, OutputStateOK, ControlOK, Locks, Threads
<1>7. QuietWhileHeld'
  BY <1>0 DEF QuietWhileHeld, Held, OutputStateOK, GatesOK, ControlOK, Gates, Deliveries, Threads,
     WriterOwnsIo, Zero, ClosedGate, ClosedDelivery
<1>8. BackendKept'
  BY <1>0 DEF BackendKept, OneRuntimeLoaded
<1> QED  BY <1>1, <1>2, <1>3, <1>4, <1>5, <1>6, <1>7, <1>8 DEF OutputInv

LEMMA ScheduleRestartInv ==
  ASSUME OutputInv, ScheduleRestart
  PROVE  OutputInv'
<1>0. /\ OutputStateOK /\ BuffersKept /\ SessionOrder /\ BackendKept
      /\ WriterOwnsIo /\ DecisionStands /\ SuspensionStands /\ QuietWhileHeld
  BY DEF OutputInv
<1> USE DEF ScheduleRestart, At, Goto, decoderVars, gateVars, javaVars, StartClose, Recycled,
     PublishFree
<1>1. OutputStateOK'
  <2>1. (dec \in Decoders)'
    <3>1. dec' = dec \/ \E failed \in BOOLEAN :
            dec' = [dec EXCEPT !.restarting = FALSE, !.failed = failed, !.resume = Zero]
      OBVIOUS
    <3> QED  BY <1>0, <3>1, GenerationFacts DEF OutputStateOK, DecoderOK, Decoders
  <2>2. (queue \in Frame)'
    <3>1. queue' = NoFrame
      OBVIOUS
    <3> QED  BY <3>1, FrameFacts
  <2>3. (free \in Nat)'
    <3>1. free' = free \/ free' = free + 1
      OBVIOUS
    <3> HIDE DEF ScheduleRestart
    <3> QED  BY <1>0, <3>1 DEF OutputStateOK, DecoderOK
  <2>4. (job \in 0..MaxGen)'
    BY <1>0, OutputAssumption DEF OutputStateOK, DecoderOK, Decoders, Zero
  <2>5. (active \in 0..MaxGen)'
    <3>1. active' = active \/ active' = Zero
      OBVIOUS
    <3> QED  BY <1>0, <3>1, GenerationFacts DEF OutputStateOK, DecoderOK
  <2>6. (pc \in [Threads -> ThreadPlaces])'
    BY <1>0, OutputAssumption DEF OutputStateOK, ControlOK, ThreadPlaces, Threads, Zero
  <2>7. (close \in [Threads -> Closings])'
    BY <1>0, OutputAssumption DEF OutputStateOK, ControlOK, Closings, Threads, Zero
  <2>8. (lock \in Locks)'
    <3>1. lock' = lock \/ lock' = [decoder |-> "receiver", publish |-> "receiver"]
      OBVIOUS
    <3> HIDE DEF ScheduleRestart
    <3> QED  BY <1>0, <3>1 DEF OutputStateOK, ControlOK, Locks, Threads
  <2> QED  BY <1>0, <2>1, <2>2, <2>3, <2>4, <2>5, <2>6, <2>7, <2>8 DEF OutputStateOK, DecoderOK,
       GatesOK, TicketsOK, ControlOK
<1>2. BuffersKept'
  <2>1. /\ queue' = NoFrame /\ free' = IF queue = NoFrame THEN free ELSE free + 1
        /\ UNCHANGED <<coded, exec>> /\ pc' = [pc EXCEPT !["receiver"] = "idle"]
    OBVIOUS
  <2> HIDE DEF ScheduleRestart
  <2>2. pc'["worker"] = pc["worker"]
    BY <1>0, <2>1 DEF OutputStateOK, ControlOK, Threads
  <2> QED  BY <1>0, <2>1, <2>2 DEF BuffersKept, OutputStateOK, DecoderOK
<1>3. SessionOrder'
  BY <1>0 DEF SessionOrder, OutputStateOK, DecoderOK, ControlOK, Decoders, Threads, Zero
<1>4. BackendKept'
  BY <1>0 DEF BackendKept, OneRuntimeLoaded, OutputStateOK, DecoderOK, Decoders
<1>5. WriterOwnsIo'
  BY <1>0 DEF WriterOwnsIo, OutputStateOK, TicketsOK, ControlOK, Hands, Threads, Zero
<1>6. DecisionStands'
  BY <1>0 DEF DecisionStands, OutputStateOK, DecoderOK, GatesOK, TicketsOK, ControlOK, Hands,
     Locks, CommitTickets, Threads, NoTicket, Zero
<1>7. SuspensionStands'
  BY <1>0 DEF SuspensionStands, OutputStateOK, ControlOK, Locks, Threads
<1>8. QuietWhileHeld'
  BY <1>0 DEF QuietWhileHeld, Held, OutputStateOK, GatesOK, ControlOK, Gates, Deliveries, Threads,
     WriterOwnsIo, Zero, ClosedGate, ClosedDelivery
<1> QED  BY <1>1, <1>2, <1>3, <1>4, <1>5, <1>6, <1>7, <1>8 DEF OutputInv

LEMMA CompleteRestartInv ==
  ASSUME OutputInv, CompleteRestart
  PROVE  OutputInv'
<1>0. /\ OutputStateOK /\ BuffersKept /\ SessionOrder /\ BackendKept
      /\ WriterOwnsIo /\ DecisionStands /\ SuspensionStands /\ QuietWhileHeld
  BY DEF OutputInv
<1> USE DEF CompleteRestart, At, Goto, decoderVars, gateVars, javaVars, StartClose, PublishFree
<1>1. OutputStateOK'
  <2>1. (dec \in Decoders)'
    <3>1. \/ dec' = dec
          \/ dec' = [dec EXCEPT !.restarting = FALSE, !.failed = FALSE, !.resume = job]
          \/ dec' = [dec EXCEPT !.restarting = FALSE, !.failed = TRUE, !.resume = Zero]
      OBVIOUS
    <3> QED  BY <1>0, <3>1, GenerationFacts DEF OutputStateOK, DecoderOK, Decoders
  <2>2. (job \in 0..MaxGen)'
    BY <1>0, OutputAssumption DEF OutputStateOK, DecoderOK, Decoders, Zero
  <2>3. (active \in 0..MaxGen)'
    <3>1. active' = active \/ active' = Zero
      OBVIOUS
    <3> QED  BY <1>0, <3>1, GenerationFacts DEF OutputStateOK, DecoderOK
  <2>4. (close \in [Threads -> Closings])'
    BY <1>0, OutputAssumption DEF OutputStateOK, ControlOK, Closings, Threads, Zero
  <2>5. (lock \in Locks)'
    <3>1. lock' = lock \/ lock' = [decoder |-> "codec", publish |-> "codec"]
      OBVIOUS
    <3> QED  BY <1>0, <3>1 DEF OutputStateOK, ControlOK, Locks, Threads
  <2> QED  BY <1>0, <2>1, <2>2, <2>3, <2>4, <2>5 DEF OutputStateOK, DecoderOK, GatesOK, TicketsOK,
       ControlOK
<1>2. SessionOrder'
  BY <1>0 DEF SessionOrder, OutputStateOK, DecoderOK, ControlOK, Decoders, Threads, Zero
<1>3. BackendKept'
  BY <1>0 DEF BackendKept, OneRuntimeLoaded, OutputStateOK, DecoderOK, Decoders
<1>4. DecisionStands'
  BY <1>0 DEF DecisionStands, OutputStateOK, DecoderOK, GatesOK, TicketsOK, ControlOK, Hands,
     Locks, CommitTickets, Threads, NoTicket, Zero
<1>5. SuspensionStands'
  BY <1>0 DEF SuspensionStands, OutputStateOK, ControlOK, Locks, Threads
<1>6. QuietWhileHeld'
  BY <1>0 DEF QuietWhileHeld, Held, OutputStateOK, GatesOK, ControlOK, Gates, Deliveries, Threads,
     WriterOwnsIo, Zero, ClosedGate, ClosedDelivery
<1>7. BuffersKept' /\ WriterOwnsIo'
  BY <1>0 DEF BuffersKept, WriterOwnsIo
<1> QED  BY <1>1, <1>2, <1>3, <1>4, <1>5, <1>6, <1>7 DEF OutputInv

LEMMA RestartTimedOutInv ==
  ASSUME OutputInv, RestartTimedOut
  PROVE  OutputInv'
<1>0. /\ OutputStateOK /\ BuffersKept /\ SessionOrder /\ BackendKept
      /\ WriterOwnsIo /\ DecisionStands /\ SuspensionStands /\ QuietWhileHeld
  BY DEF OutputInv
<1> USE DEF RestartTimedOut, At, Goto, decoderVars, gateVars, javaVars, StartClose, PublishFree
<1>1. OutputStateOK'
  <2>1. (dec \in Decoders)'
    <3> DEFINE g == dec.gen + 1
    <3>1. dec' = [dec EXCEPT !.gen = g, !.restarting = FALSE, !.failed = TRUE,
         !.resume = Zero] /\ g \in 0..MaxGen
      BY <1>0, GenerationFacts DEF OutputStateOK, DecoderOK, Decoders
    <3> HIDE DEF g
    <3> QED  BY <1>0, <3>1, GenerationFacts DEF OutputStateOK, DecoderOK, Decoders
  <2>2. (active \in 0..MaxGen)'
    BY <1>0, OutputAssumption DEF OutputStateOK, DecoderOK, Decoders, Zero
  <2>3. (close \in [Threads -> Closings])'
    BY <1>0, OutputAssumption DEF OutputStateOK, ControlOK, Closings, Threads, Zero
  <2>4. (lock \in Locks)'
    BY <1>0, OutputAssumption DEF OutputStateOK, ControlOK, Locks, Threads, Zero
  <2> QED  BY <1>0, <2>1, <2>2, <2>3, <2>4 DEF OutputStateOK, DecoderOK, GatesOK, TicketsOK,
       ControlOK
<1>2. SessionOrder'
  BY <1>0 DEF SessionOrder, OutputStateOK, DecoderOK, ControlOK, Decoders, Threads, Zero
<1>3. BackendKept'
  BY <1>0 DEF BackendKept, OneRuntimeLoaded, OutputStateOK, DecoderOK, Decoders
<1>4. DecisionStands'
  BY <1>0 DEF DecisionStands, OutputStateOK, DecoderOK, GatesOK, TicketsOK, ControlOK, Hands,
     Locks, CommitTickets, Threads, NoTicket, Zero
<1>5. SuspensionStands'
  BY <1>0 DEF SuspensionStands, OutputStateOK, ControlOK, Locks, Threads
<1>6. QuietWhileHeld'
  BY <1>0 DEF QuietWhileHeld, Held, OutputStateOK, GatesOK, ControlOK, Gates, Deliveries, Threads,
     WriterOwnsIo, Zero, ClosedGate, ClosedDelivery
<1>7. BuffersKept' /\ WriterOwnsIo'
  BY <1>0 DEF BuffersKept, WriterOwnsIo
<1> QED  BY <1>1, <1>2, <1>3, <1>4, <1>5, <1>6, <1>7 DEF OutputInv

LEMMA ApplyOnInv ==
  ASSUME OutputInv, ApplyOn
  PROVE  OutputInv'
<1>0. /\ OutputStateOK /\ BuffersKept /\ SessionOrder /\ BackendKept
      /\ WriterOwnsIo /\ DecisionStands /\ SuspensionStands /\ QuietWhileHeld
  BY DEF OutputInv
<1> USE DEF ApplyOn, At, Goto, decoderVars, gateVars, javaVars, StartClose, SetUserRequested,
     PublishFree
<1>1. OutputStateOK'
  <2>1. (active \in 0..MaxGen)'
    BY <1>0, OutputAssumption DEF OutputStateOK, DecoderOK, Decoders, Zero
  <2>2. (gate \in Gates)'
    BY <1>0, OutputAssumption DEF OutputStateOK, DecoderOK, Decoders, GatesOK, Gates, ClosedGate,
       Zero
  <2>3. (pc \in [Threads -> ThreadPlaces])'
    <3>1. \E p \in {"disallow", "allow"} : pc' = [pc EXCEPT !["ui"] = p]
      OBVIOUS
    <3> QED  BY <1>0, <3>1 DEF OutputStateOK, ControlOK, ThreadPlaces, Threads
  <2>4. (close \in [Threads -> Closings])'
    <3>1. close' = close \/ close' = [close EXCEPT !["ui"] = "output"]
      OBVIOUS
    <3> QED  BY <1>0, <3>1 DEF OutputStateOK, ControlOK, Closings, Threads
  <2>5. (lock \in Locks)'
    BY <1>0, OutputAssumption DEF OutputStateOK, ControlOK, Locks, Threads, Zero
  <2> QED  BY <1>0, <2>1, <2>2, <2>3, <2>4, <2>5 DEF OutputStateOK, DecoderOK, GatesOK, TicketsOK,
       ControlOK
<1>2. BuffersKept'
  <2>1. UNCHANGED <<coded, queue, exec, free>>
    OBVIOUS
  <2>2. pc["worker"]' = pc["worker"]
    BY <1>0 DEF OutputStateOK, ControlOK, Threads
  <2> QED  BY <1>0, <2>1, <2>2 DEF BuffersKept
<1>3. SessionOrder'
  BY <1>0 DEF SessionOrder, OutputStateOK, DecoderOK, ControlOK, Decoders, Threads, Zero
<1>4. WriterOwnsIo'
  BY <1>0 DEF WriterOwnsIo, OutputStateOK, TicketsOK, ControlOK, Hands, Threads, Zero
<1>5. DecisionStands'
  BY <1>0 DEF DecisionStands, OutputStateOK, DecoderOK, GatesOK, TicketsOK, ControlOK, Hands,
     Locks, CommitTickets, Threads, NoTicket, Zero
<1>6. SuspensionStands'
  BY <1>0 DEF SuspensionStands, OutputStateOK, ControlOK, Locks, Threads
<1>7. QuietWhileHeld'
  BY <1>0 DEF QuietWhileHeld, Held, OutputStateOK, GatesOK, ControlOK, Gates, Deliveries, Threads,
     WriterOwnsIo, Zero, ClosedGate, ClosedDelivery
<1>8. BackendKept'
  BY <1>0 DEF BackendKept, OneRuntimeLoaded
<1> QED  BY <1>1, <1>2, <1>3, <1>4, <1>5, <1>6, <1>7, <1>8 DEF OutputInv

LEMMA AllowDeliveryInv ==
  ASSUME OutputInv, AllowDelivery
  PROVE  OutputInv'
<1>0. /\ OutputStateOK /\ BuffersKept /\ SessionOrder /\ BackendKept
      /\ WriterOwnsIo /\ DecisionStands /\ SuspensionStands /\ QuietWhileHeld
  BY DEF OutputInv
<1> USE DEF AllowDelivery, At, Goto, decoderVars, gateVars, javaVars, SetAllowed
<1>1. OutputStateOK'
  <2>1. (java \in Deliveries)'
    BY <1>0, OutputAssumption DEF OutputStateOK, DecoderOK, Decoders, GatesOK, Deliveries,
       ClosedDelivery, Zero
  <2>2. (pc \in [Threads -> ThreadPlaces])'
    BY <1>0, OutputAssumption DEF OutputStateOK, ControlOK, ThreadPlaces, Threads, Zero
  <2> QED  BY <1>0, <2>1, <2>2 DEF OutputStateOK, DecoderOK, GatesOK, TicketsOK, ControlOK
<1>2. BuffersKept'
  BY <1>0 DEF BuffersKept, OutputStateOK, DecoderOK, ControlOK, Threads, NoFrame, Frame, Zero
<1>3. SessionOrder'
  BY <1>0 DEF SessionOrder, OutputStateOK, DecoderOK, ControlOK, Decoders, Threads, Zero
<1>4. WriterOwnsIo'
  BY <1>0 DEF WriterOwnsIo, OutputStateOK, TicketsOK, ControlOK, Hands, Threads, Zero
<1>5. DecisionStands'
  BY <1>0 DEF DecisionStands, OutputStateOK, DecoderOK, GatesOK, TicketsOK, ControlOK, Hands,
     Locks, CommitTickets, Threads, NoTicket, Zero
<1>6. SuspensionStands'
  BY <1>0 DEF SuspensionStands, OutputStateOK, ControlOK, Locks, Threads
<1>7. QuietWhileHeld'
  BY <1>0 DEF QuietWhileHeld, Held, OutputStateOK, GatesOK, ControlOK, Gates, Deliveries, Threads,
     WriterOwnsIo, Zero, ClosedGate, ClosedDelivery
<1>8. BackendKept'
  BY <1>0 DEF BackendKept, OneRuntimeLoaded
<1> QED  BY <1>1, <1>2, <1>3, <1>4, <1>5, <1>6, <1>7, <1>8 DEF OutputInv

LEMMA DisableOutputInv ==
  ASSUME OutputInv, DisableOutput
  PROVE  OutputInv'
<1>0. /\ OutputStateOK /\ BuffersKept /\ SessionOrder /\ BackendKept
      /\ WriterOwnsIo /\ DecisionStands /\ SuspensionStands /\ QuietWhileHeld
  BY DEF OutputInv
<1> USE DEF DisableOutput, At, Goto, decoderVars, gateVars, javaVars
<1>1. OutputStateOK'
  <2>1. (pc \in [Threads -> ThreadPlaces])'
    BY <1>0, OutputAssumption DEF OutputStateOK, ControlOK, ThreadPlaces, Threads, Zero
  <2> QED  BY <1>0, <2>1 DEF OutputStateOK, DecoderOK, GatesOK, TicketsOK, ControlOK
<1>2. BuffersKept'
  BY <1>0 DEF BuffersKept, OutputStateOK, DecoderOK, ControlOK, Threads, NoFrame, Frame, Zero
<1>3. SessionOrder'
  BY <1>0 DEF SessionOrder, OutputStateOK, DecoderOK, ControlOK, Decoders, Threads, Zero
<1>4. WriterOwnsIo'
  BY <1>0 DEF WriterOwnsIo, OutputStateOK, TicketsOK, ControlOK, Hands, Threads, Zero
<1>5. DecisionStands'
  BY <1>0 DEF DecisionStands, OutputStateOK, DecoderOK, GatesOK, TicketsOK, ControlOK, Hands,
     Locks, CommitTickets, Threads, NoTicket, Zero
<1>6. SuspensionStands'
  BY <1>0 DEF SuspensionStands, OutputStateOK, ControlOK, Locks, Threads
<1>7. QuietWhileHeld'
  BY <1>0 DEF QuietWhileHeld, Held, OutputStateOK, GatesOK, ControlOK, Gates, Deliveries, Threads,
     WriterOwnsIo, Zero, ClosedGate, ClosedDelivery
<1>8. BackendKept'
  BY <1>0 DEF BackendKept, OneRuntimeLoaded
<1> QED  BY <1>1, <1>2, <1>3, <1>4, <1>5, <1>6, <1>7, <1>8 DEF OutputInv

LEMMA DisallowDeliveryInv ==
  ASSUME OutputInv, DisallowDelivery
  PROVE  OutputInv'
<1>0. /\ OutputStateOK /\ BuffersKept /\ SessionOrder /\ BackendKept
      /\ WriterOwnsIo /\ DecisionStands /\ SuspensionStands /\ QuietWhileHeld
  BY DEF OutputInv
<1> USE DEF DisallowDelivery, At, Goto, decoderVars, gateVars, javaVars, SetAllowed
<1>1. OutputStateOK'
  <2>1. (java \in Deliveries)'
    BY <1>0, OutputAssumption DEF OutputStateOK, DecoderOK, Decoders, GatesOK, Deliveries,
       ClosedDelivery, Zero
  <2>2. (slot \in TicketIds)'
    BY <1>0, OutputAssumption DEF OutputStateOK, TicketsOK, TicketIds, Hands, Zero
  <2>3. (pc \in [Threads -> ThreadPlaces])'
    BY <1>0, OutputAssumption DEF OutputStateOK, ControlOK, ThreadPlaces, Threads, Zero
  <2> QED  BY <1>0, <2>1, <2>2, <2>3 DEF OutputStateOK, DecoderOK, GatesOK, TicketsOK, ControlOK
<1>2. BuffersKept'
  BY <1>0 DEF BuffersKept, OutputStateOK, DecoderOK, ControlOK, Threads, NoFrame, Frame, Zero
<1>3. SessionOrder'
  BY <1>0 DEF SessionOrder, OutputStateOK, DecoderOK, ControlOK, Decoders, Threads, Zero
<1>4. WriterOwnsIo'
  BY <1>0 DEF WriterOwnsIo, OutputStateOK, TicketsOK, ControlOK, Hands, Threads, Zero
<1>5. DecisionStands'
  BY <1>0 DEF DecisionStands, OutputStateOK, DecoderOK, GatesOK, TicketsOK, ControlOK, Hands,
     Locks, CommitTickets, Threads, NoTicket, Zero
<1>6. SuspensionStands'
  BY <1>0 DEF SuspensionStands, OutputStateOK, ControlOK, Locks, Threads
<1>7. QuietWhileHeld'
  BY <1>0 DEF QuietWhileHeld, Held, OutputStateOK, GatesOK, ControlOK, Gates, Deliveries, Threads,
     WriterOwnsIo, Zero, ClosedGate, ClosedDelivery
<1>8. BackendKept'
  BY <1>0 DEF BackendKept, OneRuntimeLoaded
<1> QED  BY <1>1, <1>2, <1>3, <1>4, <1>5, <1>6, <1>7, <1>8 DEF OutputInv

LEMMA ApplyOffInv ==
  ASSUME OutputInv, ApplyOff
  PROVE  OutputInv'
<1>0. /\ OutputStateOK /\ BuffersKept /\ SessionOrder /\ BackendKept
      /\ WriterOwnsIo /\ DecisionStands /\ SuspensionStands /\ QuietWhileHeld
  BY DEF OutputInv
<1> USE DEF ApplyOff, At, Goto, decoderVars, gateVars, javaVars, SetUserRequested, PublishFree
<1>1. OutputStateOK'
  <2>1. (gate \in Gates)'
    BY <1>0, OutputAssumption DEF OutputStateOK, DecoderOK, Decoders, GatesOK, Gates, ClosedGate,
       Zero
  <2>2. (ticket \in CommitTickets)'
    BY <1>0, OutputAssumption DEF OutputStateOK, DecoderOK, Frame, TicketsOK, CommitTickets,
       TicketIds, NoTicket, Zero
  <2>3. (armed \in BOOLEAN)'
    BY <1>0, OutputAssumption DEF OutputStateOK, GatesOK, Zero
  <2>4. (pc \in [Threads -> ThreadPlaces])'
    BY <1>0, OutputAssumption DEF OutputStateOK, ControlOK, ThreadPlaces, Threads, Zero
  <2>5. (unseen \in BOOLEAN)'
    BY <1>0, OutputAssumption DEF OutputStateOK, GatesOK, Zero
  <2> QED  BY <1>0, <2>1, <2>2, <2>3, <2>4, <2>5 DEF OutputStateOK, DecoderOK, GatesOK, TicketsOK,
       ControlOK
<1>2. BuffersKept'
  BY <1>0 DEF BuffersKept, OutputStateOK, DecoderOK, ControlOK, Threads, NoFrame, Frame, Zero
<1>3. SessionOrder'
  BY <1>0 DEF SessionOrder, OutputStateOK, DecoderOK, ControlOK, Decoders, Threads, Zero
<1>4. WriterOwnsIo'
  BY <1>0 DEF WriterOwnsIo, OutputStateOK, TicketsOK, ControlOK, Hands, Threads, Zero
<1>5. DecisionStands'
  BY <1>0 DEF DecisionStands, OutputStateOK, DecoderOK, GatesOK, TicketsOK, ControlOK, Hands,
     Locks, CommitTickets, Threads, NoTicket, Zero
<1>6. SuspensionStands'
  BY <1>0 DEF SuspensionStands, OutputStateOK, ControlOK, Locks, Threads
<1>7. QuietWhileHeld'
  BY <1>0 DEF QuietWhileHeld, Held, OutputStateOK, GatesOK, ControlOK, Gates, Deliveries, Threads,
     WriterOwnsIo, Zero, ClosedGate, ClosedDelivery
<1>8. BackendKept'
  BY <1>0 DEF BackendKept, OneRuntimeLoaded
<1> QED  BY <1>1, <1>2, <1>3, <1>4, <1>5, <1>6, <1>7, <1>8 DEF OutputInv

LEMMA OutputInitInv == OutputInit => OutputInv
<1> SUFFICES ASSUME OutputInit PROVE OutputInv
  OBVIOUS
<1>1. DecoderOK
  <2>1. dec \in Decoders
    BY GenerationFacts, OutputAssumption DEF OutputInit, NewDecoder, Decoders, Zero
  <2> QED  BY <2>1, FrameFacts, GenerationFacts DEF OutputInit, DecoderOK
<1>2. GatesOK
  BY GenerationFacts DEF OutputInit, GatesOK, Gates, Deliveries, ClosedGate, ClosedDelivery
<1>3. TicketsOK
  BY GenerationFacts, TicketFacts DEF OutputInit, TicketsOK, Hands
<1>4. ControlOK
  BY DEF OutputInit, ControlOK, ThreadPlaces, Closings, Locks, Threads
<1>5. BuffersKept
  BY DEF OutputInit, BuffersKept, Threads
<1>6. SessionOrder
  BY DEF OutputInit, NewDecoder, SessionOrder, Threads
<1>7. BackendKept
  <2>1. /\ NoBackend \in Backends /\ \A r \in Runtimes : NoBackend.held[r] = 0
    BY DEF NoBackend, Backends, Runtimes
  <2> QED  BY <2>1 DEF OutputInit, NewDecoder, BackendKept, OneRuntimeLoaded
<1>8. WriterOwnsIo
  BY DEF OutputInit, WriterOwnsIo, Threads
<1>9. DecisionStands
  BY DEF OutputInit, DecisionStands, Threads
<1>10. SuspensionStands /\ QuietWhileHeld
  BY DEF OutputInit, SuspensionStands, QuietWhileHeld, Held, ClosedGate, Threads
<1> QED
  BY <1>1, <1>2, <1>3, <1>4, <1>5, <1>6, <1>7, <1>8, <1>9, <1>10 DEF OutputInv, OutputStateOK

LEMMA OutputStepInv == OutputInv /\ [OutputNext]_outputVars => OutputInv'
<1> SUFFICES ASSUME OutputInv, [OutputNext]_outputVars PROVE OutputInv'
  OBVIOUS
<1>1. ASSUME NEW t \in Threads, FailClosedStep(t) PROVE OutputInv'
  BY <1>1, CloseOutputInv, CloseCommitInv, CloseVisibilityInv, CloseJavaInv, CloseDrainInv DEF FailClosedStep
<1>2. CASE Inference
  BY <1>2, TakeFrameInv, DropFrameInv, CommitSuccessInv, ResumeNativeInv, ResumeJavaInv, PublishInv,
     BeginMoveInv, OfferMoveInv DEF Inference
<1>3. CASE Frames
  BY <1>3, SubmitInv, DiscardFrameInv, QueueFrameInv DEF Frames
<1>4. CASE Serial
  BY <1>4, TakeMoveInv, StartWriteInv, EndWriteInv, ReportAckInv, ReportFailureInv DEF Serial
<1>5. CASE LinkSteps
  BY <1>5, AgeTicketInv, TriggerReleasedInv, LinkLostInv, ReconnectInv DEF LinkSteps
<1>6. CASE Restart
  BY <1>6, RestartBeginInv, SuspendNativeInv, SuspendJavaInv, SuspendEndInv, ScheduleRestartInv,
     CompleteRestartInv, RestartTimedOutInv DEF Restart
<1>7. CASE Coordinator
  BY <1>7, ApplyOnInv, AllowDeliveryInv, DisableOutputInv, DisallowDeliveryInv,
     ApplyOffInv DEF Coordinator
<1>8. CASE Session
  BY <1>8, PrepareBackendInv, ConfigureForInferenceInv, StopBeginInv, StopWorkersInv, StopEndInv
     DEF Session
<1>9. CASE UNCHANGED outputVars
  <2>1. /\ UNCHANGED <<dec, coded, queue, exec, free, job, active, gate, ticket, armed, java>>
        /\ UNCHANGED <<slot, io>>
        /\ UNCHANGED <<held, pc, close, lock, backend, unseen>>
    BY <1>9 DEF outputVars, decoderVars, gateVars, javaVars
  <2>2. OutputStateOK'
    BY <2>1 DEF OutputInv, OutputStateOK, DecoderOK, GatesOK, TicketsOK, ControlOK
  <2>3. BuffersKept' /\ SessionOrder' /\ BackendKept' /\ WriterOwnsIo'
    BY <2>1 DEF OutputInv, BuffersKept, SessionOrder, BackendKept, OneRuntimeLoaded, WriterOwnsIo
  <2>4. DecisionStands' /\ SuspensionStands' /\ QuietWhileHeld'
    BY <2>1 DEF OutputInv, DecisionStands, SuspensionStands, QuietWhileHeld, Held
  <2> QED  BY <2>2, <2>3, <2>4 DEF OutputInv
<1> QED
  BY <1>1, <1>2, <1>3, <1>4, <1>5, <1>6, <1>7, <1>8, <1>9 DEF OutputNext

(* Only the worker's offer puts a command into the mailbox.                *)
LEMMA OfferedByWorker ==
  ASSUME OutputInv, [OutputNext]_outputVars, Offered
  PROVE  ~unseen /\ exec.gen = active
<1> SUFFICES ASSUME ~OfferMove PROVE slot' \in {slot, Zero}
  BY DEF Offered, OfferMove, At, OutputInv, DecisionStands
<1>1. ASSUME NEW t \in Threads, FailClosedStep(t) PROVE slot' \in {slot, Zero}
  BY <1>1 DEF FailClosedStep, CloseOutput, CloseCommit, CloseVisibility, CloseJava, CloseDrain, javaVars
<1>2. CASE Inference
  BY <1>2 DEF Inference, TakeFrame, DropFrame, CommitSuccess, ResumeNative, ResumeJava, Publish,
     BeginMove, javaVars
<1>3. CASE Frames
  BY <1>3 DEF Frames, Submit, DiscardFrame, QueueFrame, javaVars
<1>4. CASE Serial
  BY <1>4 DEF Serial, TakeMove, StartWrite, EndWrite, ReportAck, ReportFailure, javaVars
<1>5. CASE LinkSteps
  BY <1>5 DEF LinkSteps, AgeTicket, TriggerReleased, LinkLost, Reconnect, javaVars
<1>6. CASE Restart
  BY <1>6 DEF Restart, RestartBegin, SuspendNative, SuspendJava, SuspendEnd, ScheduleRestart,
     CompleteRestart, RestartTimedOut, javaVars
<1>7. CASE Coordinator
  BY <1>7 DEF Coordinator, ApplyOn, AllowDelivery, DisableOutput, DisallowDelivery, ApplyOff,
     javaVars
<1>8. CASE Session
  BY <1>8 DEF Session, PrepareBackend, ConfigureForInference, StopBegin, StopWorkers, StopEnd,
     javaVars
<1>9. CASE UNCHANGED outputVars
  BY <1>9 DEF outputVars, javaVars
<1> QED
  BY <1>1, <1>2, <1>3, <1>4, <1>5, <1>6, <1>7, <1>8, <1>9 DEF OutputNext

LEMMA OutputInvMeans == OutputInv => OutputHeldOrReady
<1> SUFFICES ASSUME OutputInv PROVE OutputHeldOrReady
  OBVIOUS
<1>1. OutputTypeOK
  <2>1. {slot, io, held.worker, held.serial, ticket.id} \subseteq TicketIds
    BY DEF OutputInv, OutputStateOK, TicketsOK, Hands, CommitTickets
  <2>2. \A l \in DOMAIN lock : lock[l] \in Threads \union {"nobody"}
    BY DEF OutputInv, OutputStateOK, ControlOK, Locks
  <2> QED  BY <2>1, <2>2 DEF OutputInv, OutputStateOK, DecoderOK, BuffersKept, OutputTypeOK
<1>2. OneRuntimeLoaded /\ QuietWhileHeld
  BY DEF OutputInv, BackendKept
<1> QED  BY <1>1, <1>2 DEF OutputHeldOrReady

(* While a recovery holds the output no command of the old stream is on    *)
(* its way, no input buffer is lost, and frames reach only a backend that  *)
(* is prepared and alone, in every interleaving of the six threads.        *)
THEOREM OutputIsHeldOrReady == OutputSpec => []OutputHeldOrReady
<1>1. OutputSpec => []OutputInv
  BY OutputInitInv, OutputStepInv, PTL DEF OutputSpec
<1> QED  BY <1>1, OutputInvMeans, PTL

(* A command is offered only for a frame of the stream that is current at  *)
(* that moment, and only after a frame has shown the effect of the command *)
(* before it.                                                              *)
THEOREM OutputOffersAreFresh == OutputSpec => OffersAreFresh
<1>1. OutputSpec => []OutputInv
  BY OutputInitInv, OutputStepInv, PTL DEF OutputSpec
<1>2. OutputInv /\ [OutputNext]_outputVars => [Offered => ~unseen]_outputVars
  BY OfferedByWorker
<1>3. OutputInv /\ [OutputNext]_outputVars => [Offered => exec.gen = active]_outputVars
  BY OfferedByWorker
<1>4. OutputSpec => NoBlindMove
  BY <1>1, <1>2, PTL DEF OutputSpec, NoBlindMove
<1>5. OutputSpec => OfferIsCurrent
  BY <1>1, <1>3, PTL DEF OutputSpec, OfferIsCurrent
<1> QED  BY <1>4, <1>5 DEF OffersAreFresh
=============================================================================
