-------------------------- MODULE CanonicalCodecs --------------------------
(***************************************************************************)
(* The byte formats of the pairing and control handshake, as functions on  *)
(* sequences of cells. A cell stands for a byte, or for the bytes of one   *)
(* integer: a tag, a length and a digit are one cell each.                 *)
(*                                                                         *)
(*   transcript   the peer handshake transcript both ends sign             *)
(*   proposal     the same fields without the generation, which the        *)
(*                service signs before it allocates one                    *)
(*   hello        a payload of a bootstrap record, here the Host's hello   *)
(*   request      a first-pairing payload: strings behind a fixed header   *)
(*   signature    an ECDSA signature in DER                                *)
(*                                                                         *)
(* Every parser returns what the code hands on, or Refused. The fields of  *)
(* the real formats that have the same rule are one field here.            *)
(***************************************************************************)
EXTENDS Integers, Sequences, SequencesExt, FiniteSets, FiniteSetsExt

CONSTANTS MaxVersion,         \* cells of a version: 32
          VersionComponents,  \* components of a version: 3
          MaxString,          \* cells of a first-pairing string: 16 to 128
          Radix,              \* digits of a scalar: 256
          Order               \* the order of the curve, below Radix^2

ASSUME CodecAssumption ==
    /\ {MaxVersion, VersionComponents, MaxString} \subseteq Nat \ {0}
    /\ Radix \in Nat /\ Radix % 2 = 0 /\ Radix > 0
    /\ Order \in 3 .. Radix * Radix - 1 /\ Order % 2 = 1

TlvHeader == 2           \* the tag and the length
Dot == 9                 \* the dot of a version
Uncompressed == 4        \* the first byte of a SEC1 point
Unprintable == 7         \* a byte a string may not hold
Magic == 6               \* the magic of a first-pairing payload
Version == 1

Refused == [parsed |-> FALSE, values |-> <<>>]
Accepted(values) == [parsed |-> TRUE, values |-> values]

\* A result that must also pass a test, and what is read from a result.
Checked(r, Test(_)) == IF r.parsed /\ Test(r.values) THEN r ELSE Refused
Then(r, ReadOn(_)) == IF r.parsed THEN ReadOn(r.values) ELSE Refused

Drop(s, n) == SubSeq(s, n + 1, Len(s))

-----------------------------------------------------------------------------
(* Values of the fields *)

ContainsNonzero(v) == \E i \in DOMAIN v : v[i] # 0

\* A point is imported by the provider, which refuses one off the curve:
\* here the point <<Uncompressed, 0>>.
ValidPoint(v) == v[1] = Uncompressed /\ ContainsNonzero(Tail(v))

\* Dot-separated decimal components without leading zeros.
StableVersion(v) ==
    LET cuts == {0, Len(v) + 1} \cup {i \in DOMAIN v : v[i] = Dot}
    IN /\ Len(v) \in 1 .. MaxVersion
       /\ Cardinality(cuts) = VersionComponents + 1
       /\ \A a \in cuts \ {Len(v) + 1} :
            LET b == Min({c \in cuts : c > a})
            IN /\ b - a > 1
               /\ b - a > 2 => v[a + 1] # 0

Rule(kind, min, max) == [kind |-> kind, min |-> min, max |-> max]

FieldValueValid(rule, v) ==
    /\ Len(v) \in rule.min .. rule.max
    /\ CASE rule.kind = "number"  -> ContainsNonzero(v)
         [] rule.kind = "point"   -> ValidPoint(v)
         [] rule.kind = "version" -> StableVersion(v)

TranscriptSchema == << Rule("number", 1, 1), Rule("point", 2, 2),
                       Rule("version", 1, MaxVersion) >>
ProposalSchema == Tail(TranscriptSchema)
HelloSchema == << Rule("point", 2, 2), Rule("number", 1, 1), Rule("number", 1, 1) >>

\* The video and the control port of a hello differ.
CrossFieldValuesValid(values) == values[2] # values[3]

-----------------------------------------------------------------------------
(* Tag, length, value *)

AppendTlv(tag, v) == << tag, Len(v) >> \o v

EncodeFields(values) ==
    FlattenSeq([i \in DOMAIN values |-> AppendTlv(i - 1, values[i])])

FieldsValid(schema, values) ==
    \A i \in DOMAIN schema : FieldValueValid(schema[i], values[i])

ValidateTlvLengths(schema, values) ==
    \A i \in DOMAIN schema : Len(values[i]) \in schema[i].min .. schema[i].max

\* The transcript's loop: it takes the tags as they come, refusing an unknown,
\* a repeated and a smaller one.
TranscriptTurn(s, st) ==
    LET rest   == Len(s) - st.offset
        tag    == s[st.offset + 1]
        length == s[st.offset + 2]
    IN IF st.failed \/ rest = 0 THEN st
       ELSE IF \/ rest < TlvHeader
               \/ tag >= Len(TranscriptSchema)
               \/ tag \in st.seen
               \/ \E earlier \in st.seen : tag < earlier
               \/ length > rest - TlvHeader
            THEN [st EXCEPT !.failed = TRUE]
            ELSE [st EXCEPT !.offset = @ + TlvHeader + length,
                            !.seen = @ \cup {tag},
                            !.values[tag + 1] =
                                SubSeq(Drop(s, st.offset + TlvHeader), 1, length)]

NoTlv(schema) == [failed |-> FALSE, offset |-> 0, seen |-> {},
                  values |-> [i \in DOMAIN schema |-> <<>>]]

\* Build refuses fields that are not valid.
BuildTranscript(values) ==
    IF FieldsValid(TranscriptSchema, values)
    THEN Accepted(EncodeFields(values)) ELSE Refused

ParseTranscript(s) ==
    LET st == FoldLeft(LAMBDA x, i : TranscriptTurn(s, x), NoTlv(TranscriptSchema), s)
    IN IF /\ ~st.failed
          /\ Cardinality(st.seen) = Len(TranscriptSchema)
          /\ ValidateTlvLengths(TranscriptSchema, st.values)
          /\ FieldsValid(TranscriptSchema, st.values)
          /\ EncodeFields(st.values) = s
       THEN Accepted(st.values) ELSE Refused

\* The proposal's and the payload's loop: the tag expected next, a length the
\* rule allows, the whole value.
ExpectedTlv(s, st, tag, rule) ==
    LET rest   == Len(s) - st.offset
        length == s[st.offset + 2]
        value  == SubSeq(Drop(s, st.offset + TlvHeader), 1, length)
    IN IF \/ st.failed
          \/ rest < TlvHeader
          \/ s[st.offset + 1] # tag
          \/ length \notin rule.min .. rule.max
          \/ length > rest - TlvHeader
       THEN [st EXCEPT !.failed = TRUE]
       ELSE [st EXCEPT !.offset = @ + TlvHeader + length, !.values[tag + 1] = value]

\* The proposal's loop only bounds the lengths from above; the rest is checked
\* when all are there.
MaximumFieldLengths(tag) == [ProposalSchema[tag + 1] EXCEPT !.min = 0]
ProposalTurn(s, st, tag) == ExpectedTlv(s, st, tag, MaximumFieldLengths(tag))
ValidateProposalLengths(values) == ValidateTlvLengths(ProposalSchema, values)

BuildProposalUnchecked(values) == Accepted(EncodeFields(values))

BuildProposal(values) ==
    IF FieldsValid(ProposalSchema, values)
    THEN Accepted(EncodeFields(values)) ELSE Refused

ParseProposal(s) ==
    LET st == FoldLeft(LAMBDA x, tag : ProposalTurn(s, x, tag), NoTlv(ProposalSchema),
                       [i \in DOMAIN ProposalSchema |-> i - 1])
        rebuilt == BuildProposal(st.values)
    IN IF /\ ~st.failed
          /\ st.offset = Len(s)
          /\ ValidateProposalLengths(st.values)
          /\ rebuilt.parsed /\ rebuilt.values = s
       THEN Accepted(st.values) ELSE Refused

\* The transcript of the proposal, once the service has allocated a generation.
FinalFields(values, generation) == << << generation >> >> \o values

FinalTranscript(values, generation) ==
    IF generation > 0 THEN BuildTranscript(FinalFields(values, generation)) ELSE Refused

HelloTurn(s, st, tag) ==
    LET next == ExpectedTlv(s, st, tag, HelloSchema[tag + 1])
    IN IF next.failed \/ FieldValueValid(HelloSchema[tag + 1], next.values[tag + 1])
       THEN next ELSE [next EXCEPT !.failed = TRUE]

ParseHello(s) ==
    LET st == FoldLeft(LAMBDA x, tag : HelloTurn(s, x, tag), NoTlv(HelloSchema),
                       [i \in DOMAIN HelloSchema |-> i - 1])
    IN IF ~st.failed /\ st.offset = Len(s) /\ CrossFieldValuesValid(st.values)
       THEN Accepted(st.values) ELSE Refused

EncodeHello(values) ==
    IF FieldsValid(HelloSchema, values) /\ CrossFieldValuesValid(values)
    THEN Accepted(EncodeFields(values)) ELSE Refused

-----------------------------------------------------------------------------
(* First-pairing payloads: a reader that takes bytes until one is missing *)

Reading(s) == [s |-> s, offset |-> 0, failed |-> FALSE, values |-> <<>>]

Take(r, n) ==
    IF r.failed \/ n > Len(r.s) - r.offset THEN [r EXCEPT !.failed = TRUE]
    ELSE [r EXCEPT !.offset = @ + n,
                   !.values = Append(@, SubSeq(Drop(r.s, r.offset), 1, n))]

Expect(r, cells) ==
    LET next == Take(r, Len(cells))
    IN IF next.failed \/ Last(next.values) # cells THEN [r EXCEPT !.failed = TRUE]
       ELSE [next EXCEPT !.values = r.values]

ReadHeader(s) == Expect(Reading(s), << Magic, Version, 0 >>)

ReadString(r, allowEmpty) ==
    LET length == Take(r, 1)
        n      == Last(length.values)[1]
        next   == Take([length EXCEPT !.values = r.values], n)
    IN IF \/ length.failed \/ n > MaxString \/ (n = 0 /\ ~allowEmpty) \/ next.failed
          \/ Unprintable \in Range(Last(next.values))
       THEN [r EXCEPT !.failed = TRUE] ELSE next

WriteString(v) == << Len(v) >> \o v

\* An activation names no target, a reactivation names one: the string that
\* may be empty is checked against the mode.
Activation == << 1 >>

RequestValid(values) ==
    /\ Len(values) = 3
    /\ values[1] # <<>> /\ Len(values[1]) <= MaxString
    /\ values[2] = << Version >>
    /\ Len(values[3]) <= MaxString
    /\ Unprintable \notin Range(values[1]) \cup Range(values[3])
    /\ IF values[1] = Activation THEN values[3] = <<>> ELSE ContainsNonzero(values[3])

EncodeRequest(values) ==
    IF RequestValid(values)
    THEN Accepted(<< Magic, Version, 0 >> \o WriteString(values[1]) \o values[2]
                  \o WriteString(values[3]))
    ELSE Refused

ParseRequest(s) ==
    LET r == ReadString(Take(ReadString(ReadHeader(s), FALSE), 1), TRUE)
    IN IF ~r.failed /\ r.offset = Len(s) /\ RequestValid(r.values)
       THEN Accepted(r.values) ELSE Refused

-----------------------------------------------------------------------------
(* ECDSA signatures: two scalars of two digits, in DER *)

SequenceTag == 48
IntegerTag == 2
MaxSignature == 12       \* two scalars of two digits, each with a sign: 72

ScalarValue(digits) == digits[1] * Radix + digits[2]
Scalar(n) == << n \div Radix, n % Radix >>
HalfOrder == Order \div 2
HighBit(digit) == digit >= Radix \div 2

\* Leading zeros go, and one comes back when the high bit would be a sign.
DerInteger(n) ==
    LET digits    == Scalar(n)
        magnitude == IF digits[1] = 0 THEN Tail(digits) ELSE digits
        content   == IF HighBit(magnitude[1]) THEN << 0 >> \o magnitude ELSE magnitude
    IN << IntegerTag, Len(content) >> \o content

\* The Host's signature: the scalar s and its negative both verify, and the
\* smaller is sent.
CanonicalDer(r, s) ==
    IF {r, s} \subseteq 1 .. Order - 1
    THEN LET low  == IF s > HalfOrder THEN Order - s ELSE s
             body == DerInteger(r) \o DerInteger(low)
         IN Accepted(<< SequenceTag, Len(body) >> \o body)
    ELSE Refused

\* One integer of the verifier's parser, from the cells that are left.
DerScalar(s) ==
    LET length    == s[2]
        encoded   == SubSeq(s, 3, 2 + length)
        magnitude == IF Len(encoded) = 3 THEN Tail(encoded) ELSE encoded
        value     == IF Len(magnitude) = 1 THEN magnitude[1] ELSE ScalarValue(magnitude)
    IN IF \/ Len(s) < 2
          \/ s[1] # IntegerTag
          \/ length \notin 1 .. 3
          \/ 2 + length > Len(s)
          \/ HighBit(encoded[1])
          \/ Len(encoded) > 1 /\ encoded[1] = 0 /\ ~HighBit(encoded[2])
          \/ Len(encoded) = 3 /\ encoded[1] # 0
          \/ value \notin 1 .. Order - 1
       THEN [parsed |-> FALSE, value |-> 0, rest |-> <<>>]
       ELSE [parsed |-> TRUE, value |-> value, rest |-> SubSeq(s, 3 + length, Len(s))]

CanonicalDerToP1363(s) ==
    LET r == DerScalar(Drop(s, 2))
        t == DerScalar(r.rest)
    IN IF /\ Len(s) >= 8 /\ s[1] = SequenceTag /\ s[2] = Len(s) - 2
          /\ r.parsed /\ t.parsed /\ t.rest = <<>>
          /\ t.value <= HalfOrder
       THEN Accepted(<< r.value, t.value >>) ELSE Refused

\* What a payload asks of a signature before anyone verifies it.
CanonicalDerIntegerValid(v) ==
    /\ Len(v) \in 1 .. 3
    /\ ~HighBit(v[1])
    /\ ~(Len(v) > 1 /\ v[1] = 0 /\ ~HighBit(v[2]))
    /\ ContainsNonzero(v)

CanonicalEcdsaDerValid(s) ==
    LET rSize == s[4]
        sSize == s[6 + rSize]
    IN /\ Len(s) >= 8 /\ s[1] = SequenceTag /\ s[2] = Len(s) - 2
       /\ s[3] = IntegerTag
       /\ rSize > 0 /\ 4 + rSize + 2 <= Len(s)
       /\ CanonicalDerIntegerValid(SubSeq(s, 5, 4 + rSize))
       /\ s[5 + rSize] = IntegerTag
       /\ sSize > 0 /\ 6 + rSize + sSize = Len(s)
       /\ CanonicalDerIntegerValid(SubSeq(s, 7 + rSize, Len(s)))

\* What a first-pairing payload asks.
ValidSignature(s) ==
    /\ Len(s) \in 8 .. MaxSignature
    /\ s[1] = SequenceTag
    /\ s[2] = Len(s) - 2
=============================================================================
