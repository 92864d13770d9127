----------------------------- MODULE PinnedKeys -----------------------------
(***************************************************************************)
(* The public keys of the service that are built into the Host: the base64 *)
(* of a PEM text, whose body is the base64 of a SubjectPublicKeyInfo in    *)
(* DER. The verifiers of credentials and of leases import them; a key is   *)
(* known afterwards by its DER, so one key must not have two.              *)
(*                                                                         *)
(* Cells are bytes, except that the algorithm identifier and the two       *)
(* armour lines are one cell each. A line holds LineSize characters.       *)
(***************************************************************************)
EXTENDS CompactTokens

CONSTANTS LineSize,     \* characters of a full line: 64
          ShortLength,  \* DER lengths below it are one byte: 128
          MinBits,      \* the shortest modulus
          MaxBits,      \* the longest modulus of a lease's key
          F4            \* the exponent 65537, as bytes

ASSUME KeyAssumption ==
    /\ LineSize \in Nat \ {0} /\ ShortLength \in 2 .. 128
    /\ MinBits \in Nat /\ MaxBits \in Nat

Pad == 64
NewLine == 10
Return == 13
BeginLine == 1
EndLine == 2
RsaWithNull == 77        \* the algorithm identifier of RSA, NULL included
BitStringTag == 3

-----------------------------------------------------------------------------
(* Armour *)

\* Groups of four characters, of which the last may end in padding. The
\* provider ignores the bits a padded group leaves over; the text is encoded
\* again and compared, which does not.
Padded(chars) == chars \o [i \in 1 .. (4 - (Len(chars) % 4)) % 4 |-> Pad]
EncodeBase64(bytes) == Padded(EncodeBase64Url(bytes))

DecodeBase64(s) ==
    LET firstPad == Min({Len(s) + 1} \cup {i \in DOMAIN s : s[i] = Pad})
    IN IF /\ s # <<>> /\ Len(s) % 4 = 0
          /\ \A i \in DOMAIN s : IF i < firstPad THEN s[i] \in 0 .. 63 ELSE s[i] = Pad
          /\ Len(s) + 1 - firstPad <= 2
       THEN Checked(DecodeBase64UrlLoosely(SubSeq(s, 1, firstPad - 1)),
                    LAMBDA bytes : EncodeBase64(bytes) = s)
       ELSE Refused

\* Characters of the body are stored as their values above Zero.
Body(chars) == [i \in DOMAIN chars |-> chars[i] + Zero]

PemLines(chars) ==
    FlattenSeq([i \in 1 .. (Len(chars) + LineSize - 1) \div LineSize |->
        << NewLine >> \o Body(SubSeq(chars, (i - 1) * LineSize + 1,
                                     IF i * LineSize < Len(chars)
                                     THEN i * LineSize ELSE Len(chars)))])

Pem(der) == << BeginLine >> \o PemLines(EncodeBase64(der)) \o << NewLine, EndLine >>

\* A line may end in CR LF and the text in a newline; every other line break
\* is where the encoder puts it.
LineEndsValid(pem) ==
    \A i \in DOMAIN pem : pem[i] = Return => i < Len(pem) /\ pem[i + 1] = NewLine

PlainText(pem) == SelectSeq(pem, LAMBDA c : c # Return)

DecodeArmour(text) ==
    LET body  == SubSeq(text, 3, Len(text) - 2)
        chars == SelectSeq(body, LAMBDA c : c # NewLine)
    IN IF /\ Len(text) > 4
          /\ text[1] = BeginLine /\ text[2] = NewLine
          /\ text[Len(text)] = EndLine /\ text[Len(text) - 1] = NewLine
          /\ \A i \in DOMAIN body : body[i] \notin {BeginLine, EndLine}
          /\ \A i \in DOMAIN body : body[i] = NewLine <=> i % (LineSize + 1) = 0
          /\ body[Len(body)] # NewLine
       THEN DecodeBase64([i \in DOMAIN chars |-> chars[i] - Zero]) ELSE Refused

DecodePem(outer) ==
    Then(Checked(DecodeBase64(outer), LineEndsValid),
         LAMBDA pem : LET text == PlainText(pem)
                      IN DecodeArmour(IF text # <<>> /\ Last(text) = NewLine
                                      THEN Front(text) ELSE text))

-----------------------------------------------------------------------------
(* DER *)

DerLength(n) == IF n < ShortLength THEN << n >> ELSE << 128 + 1, n >>
DerTlv(tag, v) == << tag >> \o DerLength(Len(v)) \o v
PositiveDerInteger(magnitude) ==
    DerTlv(IntegerTag, IF magnitude[1] >= 128 THEN << 0 >> \o magnitude ELSE magnitude)

RsaPublicKey(key) ==
    DerTlv(SequenceTag, PositiveDerInteger(key.modulus) \o PositiveDerInteger(key.exponent))

SpkiOf(bits) ==
    DerTlv(SequenceTag, << RsaWithNull >> \o DerTlv(BitStringTag, << 0 >> \o bits))

CanonicalSpki(key) == SpkiOf(RsaPublicKey(key))

\* The provider reads any length and any leading zeros.
ReadContent(r, length) ==
    IF length.failed THEN Failed(r)
    ELSE Take([length EXCEPT !.values = r.values], Last(length.values)[1])

ReadTlv(r, tag) ==
    LET head == Take(Expect(r, << tag >>), 1)
    IN IF head.failed THEN Failed(r)
       ELSE ReadContent(r, IF Last(head.values)[1] > 128 THEN Take(head, 1) ELSE head)

Magnitude(content) ==
    LET ends == {i \in DOMAIN content : content[i] # 0}
    IN IF ends = {} THEN <<>> ELSE SubSeq(content, Min(ends), Len(content))

DecodeRsa(bits) ==
    Then(Whole(ReadTlv(Reading(bits), SequenceTag)), LAMBDA key :
        Then(Whole(ReadTlv(ReadTlv(Reading(key[1]), IntegerTag), IntegerTag)), LAMBDA n :
            Accepted([modulus |-> Magnitude(n[1]), exponent |-> Magnitude(n[2])])))

\* The bit string inside a public key info, with the algorithm both verifiers
\* ask for and no unused bits.
DecodeSpki(der) ==
    Then(Whole(ReadTlv(Reading(der), SequenceTag)), LAMBDA info :
        Then(Whole(ReadTlv(Expect(Reading(info[1]), << RsaWithNull >>), BitStringTag)),
             LAMBDA bits : IF bits[1] = <<>> \/ bits[1][1] # 0 THEN Refused
                           ELSE Accepted(Tail(bits[1]))))

-----------------------------------------------------------------------------
(* Import *)

LeadingZeroBits(byte) == CHOOSE n \in 0 .. 7 : byte \in 2^(7 - n) .. 2^(8 - n) - 1
ModulusBits(m) == Len(m) * 8 - LeadingZeroBits(m[1])

PublicBlobContractValid(key, pairStrength) ==
    /\ key.modulus # <<>> /\ key.exponent # <<>>
    /\ pairStrength => ModulusBits(key.modulus) >= MinBits /\ key.exponent = F4

\* The verifier of credentials encodes the key again from its numbers.
ImportCredentialKey(der, pairStrength) ==
    Checked(Then(DecodeSpki(der), DecodeRsa), LAMBDA key :
        PublicBlobContractValid(key, pairStrength) /\ CanonicalSpki(key) = der)

\* The verifier of leases encodes the public key info again, whose bit string
\* the provider copies.
CanonicalRsaSpki(der) == Checked(DecodeSpki(der), LAMBDA bits : SpkiOf(bits) = der)

ImportLeaseKey(der) ==
    Checked(Then(CanonicalRsaSpki(der), DecodeRsa), LAMBDA key :
        /\ key.modulus # <<>>
        /\ ModulusBits(key.modulus) \in MinBits .. MaxBits
        /\ ModulusBits(key.modulus) % 8 = 0)
=============================================================================
