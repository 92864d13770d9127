------------------------ MODULE FirstPairingFormats ------------------------
(***************************************************************************)
(* The payloads two machines exchange when they pair for the first time,   *)
(* and the code both users compare. The request of the activation proof is *)
(* in CanonicalCodecs; the others are fixed layouts, two of which end in a *)
(* signature behind its length.                                            *)
(*                                                                         *)
(*   offer          method, capability, attempt, identity, ephemeral key,  *)
(*                  expiry                                                 *)
(*   confirmation   role, method, attempt, commitment, expiry, signature   *)
(*   signature      digest, signature                                      *)
(*   result         entitlement, revision, revocation version              *)
(*   complete       commitment                                             *)
(***************************************************************************)
EXTENDS CompactTokens

CONSTANTS SasModulus,   \* how many codes there are: 1 000 000
          SasRange      \* how many words a digest can begin with: 2^32

ASSUME SasAssumption == SasModulus \in Nat \ {0} /\ SasRange \in Nat /\ SasRange >= SasModulus

Roles == {"host", "phone"}
TwoSidedConfirmation == << 1 >>
Methods == {<< 1 >>, << 2 >>}      \* a decimal code, a QR code
MaxExpiry == << 3 >>               \* the largest signed 64-bit integer

OfferMagic(role) == IF role = "host" THEN 60 ELSE 61
ConfirmationMagic == 62
SignatureMagic == 63
ResultMagic == 64
CompleteMagic == 65

RoleForType(role) == IF role = "host" THEN << 1 >> ELSE << 2 >>

Header(magic) == << magic, Version, 0 >>

\* Everything was read, and the values are good.
Finished(r, ok) == IF ok THEN Accepted(r.values) ELSE Refused
AtEnd(r) == ~r.failed /\ r.offset = Len(r.s)

ReadSigned(r) ==
    LET size == Take(r, 1)
    IN IF size.failed THEN size
       ELSE Take([size EXCEPT !.values = r.values], Last(size.values)[1])

-----------------------------------------------------------------------------
(* Offers *)

\* An ephemeral key only has to begin like a point here: the provider refuses
\* the rest when it is imported.
ValidOffer(v) ==
    /\ v[1] \in Methods
    /\ v[2] = TwoSidedConfirmation
    /\ ContainsNonzero(v[3])
    /\ ValidPoint(v[4])
    /\ v[5][1] = Uncompressed
    /\ ContainsNonzero(v[6])

EncodeOffer(role, v) ==
    IF ValidOffer(v)
    THEN Accepted(<< OfferMagic(role), Version >> \o v[1] \o << 0 >>
                  \o FlattenSeq(Tail(v)))
    ELSE Refused

ParseOffer(role, s) ==
    LET method == Take(Expect(Reading(s), << OfferMagic(role), Version >>), 1)
        r      == FoldLeft(Take, Expect(method, << 0 >>), << 1, 1, 2, 2, 1 >>)
    IN Finished(r, AtEnd(r) /\ ValidOffer(r.values))

-----------------------------------------------------------------------------
(* Confirmations *)

ValidConfirmationFields(v) ==
    /\ v[1] \in {RoleForType(role) : role \in Roles}
    /\ v[2] \in Methods
    /\ \A i \in 3 .. 5 : ContainsNonzero(v[i])
    /\ v[5][1] <= MaxExpiry[1]

ValidConfirmation(role, v) ==
    v[1] = RoleForType(role) /\ ValidConfirmationFields(v) /\ ValidSignature(v[6])

EncodeConfirmation(role, v) ==
    IF ValidConfirmation(role, v)
    THEN Accepted(<< ConfirmationMagic, Version >> \o v[1] \o v[2] \o << 0 >> \o v[3]
                  \o v[4] \o v[5] \o WriteString(v[6]))
    ELSE Refused

ParseConfirmation(role, s) ==
    LET head == FoldLeft(Take, Expect(Reading(s), << ConfirmationMagic, Version >>), << 1, 1 >>)
        r    == ReadSigned(FoldLeft(Take, Expect(head, << 0 >>), << 1, 1, 1 >>))
    IN Finished(r, AtEnd(r) /\ ValidConfirmation(role, r.values))

-----------------------------------------------------------------------------
(* The activation's signature and result, and the last message *)

ValidActivationSignature(v) == ContainsNonzero(v[1]) /\ ValidSignature(v[2])

EncodeActivationSignature(v) ==
    IF ValidActivationSignature(v)
    THEN Accepted(Header(SignatureMagic) \o v[1] \o WriteString(v[2])) ELSE Refused

ParseActivationSignature(s) ==
    LET r == ReadSigned(Take(Expect(Reading(s), Header(SignatureMagic)), 1))
    IN Finished(r, AtEnd(r) /\ ValidActivationSignature(r.values))

LowerHex32(v) == Len(v) = 1 /\ v[1] \in (Digits \cup HexLetters) \ {Zero}

\* A revocation version of zero is a good result.
ValidResult(v) == LowerHex32(v[1]) /\ ContainsNonzero(v[2])

EncodeResult(v) ==
    IF ValidResult(v) THEN Accepted(Header(ResultMagic) \o FlattenSeq(v)) ELSE Refused

ParseResult(s) ==
    LET r == FoldLeft(Take, Expect(Reading(s), Header(ResultMagic)), << 1, 1, 1 >>)
    IN Finished(r, AtEnd(r) /\ ValidResult(r.values))

EncodeComplete(v) ==
    IF ContainsNonzero(v[1]) THEN Accepted(Header(CompleteMagic) \o v[1]) ELSE Refused

ParseComplete(s) ==
    LET r == Take(Expect(Reading(s), Header(CompleteMagic)), 1)
    IN Finished(r, AtEnd(r) /\ ContainsNonzero(r.values[1]))

-----------------------------------------------------------------------------
(* The short authentication string *)

\* The digests of the commitment with a counter behind it, each a word. A
\* word of the last, incomplete run of codes is passed over.
DeriveSas(words) ==
    LET limit  == (SasRange \div SasModulus) * SasModulus
        usable == {i \in DOMAIN words : words[i] < limit}
    IN IF usable = {} THEN Refused ELSE Accepted(<< words[Min(usable)] % SasModulus >>)
=============================================================================
