--------------------------- MODULE CompactTokens ---------------------------
(***************************************************************************)
(* The texts that carry authority between the service, the APP and the     *)
(* Host.                                                                   *)
(*                                                                         *)
(*   token     a pair-generation credential or a usage lease: three        *)
(*             base64url segments, a header, the claims as canonical JSON  *)
(*             and the service's RSA signature of the first two            *)
(*   proof     a typed usage request of the APP, which the Host turns into *)
(*             a canonical JSON text and signs                             *)
(*                                                                         *)
(* Characters of a segment are their base64url values, and cells of a JSON *)
(* text are bytes, except that a literal the parser consumes (a name with  *)
(* its punctuation, true, false, the closing brace) is one cell. Claims    *)
(* with the same rule are one claim.                                       *)
(***************************************************************************)
EXTENDS CanonicalCodecs

CONSTANTS MaxNumber,   \* the largest unsigned 64-bit integer
          MaxTtl,      \* the longest validity of a token, in seconds
          AheadGrace,  \* how far the service's clock may be ahead
          MaxKeys,     \* keys of a ring: 3
          MaxTokenSize \* the longest token a verifier reads, in characters: 8192

ASSUME TokenAssumption ==
    /\ {MaxNumber, MaxTtl, AheadGrace, MaxKeys, MaxTokenSize} \subseteq Nat
    /\ MaxKeys > 0

-----------------------------------------------------------------------------
(* base64url without padding: four characters of six bits, three bytes *)

Bytes3(c) == << c[1] * 4 + c[2] \div 16,
                (c[2] % 16) * 16 + c[3] \div 4,
                (c[3] % 4) * 64 + c[4] >>

DecodeBase64UrlLoosely(s) ==
    LET groups == Len(s) \div 4
        rest   == Drop(s, 4 * groups)
        whole  == FlattenSeq([g \in 1 .. groups |-> Bytes3(SubSeq(s, 4 * g - 3, 4 * g))])
        last   == SubSeq(Bytes3(rest \o << 0, 0, 0, 0 >>), 1, Len(rest) - 1)
    IN IF \/ s = <<>>
          \/ Len(rest) = 1
          \/ \E i \in DOMAIN s : s[i] \notin 0 .. 63
       THEN Refused
       ELSE Accepted(IF rest = <<>> THEN whole ELSE whole \o last)

DecodeBase64Url(s) ==
    LET groups == Len(s) \div 4
        rest   == Drop(s, 4 * groups)
        whole  == FlattenSeq([g \in 1 .. groups |-> Bytes3(SubSeq(s, 4 * g - 3, 4 * g))])
        last   == SubSeq(Bytes3(rest \o << 0, 0, 0, 0 >>), 1, Len(rest) - 1)
    IN IF \/ s = <<>>
          \/ Len(rest) = 1
          \/ \E i \in DOMAIN s : s[i] \notin 0 .. 63
          \/ Len(rest) = 2 /\ rest[2] % 16 # 0
          \/ Len(rest) = 3 /\ rest[3] % 4 # 0
       THEN Refused
       ELSE Accepted(IF rest = <<>> THEN whole ELSE whole \o last)

\* The service's encoder.
EncodeBase64Url(bytes) ==
    LET chars(b) == << b[1] \div 4, (b[1] % 4) * 16 + b[2] \div 16,
                       (b[2] % 16) * 4 + b[3] \div 64, b[3] % 64 >>
        groups == Len(bytes) \div 3
        rest   == Drop(bytes, 3 * groups)
    IN FlattenSeq([g \in 1 .. groups |-> chars(SubSeq(bytes, 3 * g - 2, 3 * g))])
       \o IF rest = <<>> THEN <<>> ELSE SubSeq(chars(rest \o << 0, 0 >>), 1, Len(rest) + 1)

-----------------------------------------------------------------------------
(* Canonical JSON *)

Quote == 34
Backslash == 92
Zero == 48
Digits == 48 .. 57
HexLetters == 97 .. 102
Printable == 32 .. 126

Names == << "end", "true", "false", "alg", "kid", "typ", "kind", "exp", "key", "iat",
            "is_permanent", "jti", "nbf", "pth", "remaining", "seq", "sid", "domain",
            "channel", "frames", "ready", "request_id", "rv", "challenge_id",
            "start_request_id", "entitlement_id", "mode", "target", "generation" >>
Literal(name) == 127 + CHOOSE i \in DOMAIN Names : Names[i] = name

Consume(r, name) == Expect(r, << Literal(name) >>)

\* What was read, when nothing of the text is left.
Whole(r) == IF ~r.failed /\ r.offset = Len(r.s) THEN Accepted(r.values) ELSE Refused

Failed(r) == [r EXCEPT !.failed = TRUE]
Got(r, offset, value) == [r EXCEPT !.offset = offset, !.values = Append(@, value)]

ParseString(r) ==
    LET ends == {i \in r.offset + 2 .. Len(r.s) : r.s[i] = Quote}
        text == SubSeq(r.s, r.offset + 2, Min(ends) - 1)
    IN IF \/ r.failed \/ r.offset >= Len(r.s)
          \/ r.s[r.offset + 1] # Quote
          \/ ends = {}
          \/ \E i \in DOMAIN text : text[i] \notin Printable \/ text[i] = Backslash
       THEN Failed(r) ELSE Got(r, Min(ends), text)

\* The run of digits, read with the check that the next digit does not
\* overflow. The credential's reader wants a positive number of half the range.
ParseNumber(r, positive) ==
    LET max    == IF positive THEN MaxNumber \div 2 ELSE MaxNumber
        stop   == Min({Len(r.s) + 1} \cup
                      {i \in r.offset + 1 .. Len(r.s) : r.s[i] \notin Digits})
        run    == SubSeq(r.s, r.offset + 1, stop - 1)
        number == FoldLeft(LAMBDA n, c :
                             IF n.over \/ n.value > (max - (c - Zero)) \div 10
                             THEN [n EXCEPT !.over = TRUE]
                             ELSE [n EXCEPT !.value = 10 * @ + (c - Zero)],
                           [over |-> FALSE, value |-> 0], run)
    IN IF \/ r.failed \/ run = <<>>
          \/ run[1] = Zero /\ (positive \/ Len(run) > 1)
          \/ number.over
       THEN Failed(r) ELSE Got(r, stop - 1, number.value)

ParseUnsigned(r) == ParseNumber(r, FALSE)
ParsePositive(r) == ParseNumber(r, TRUE)

ParseBoolean(r) ==
    IF r.failed \/ r.offset >= Len(r.s) THEN Failed(r)
    ELSE IF r.s[r.offset + 1] = Literal("true") THEN Got(r, r.offset + 1, TRUE)
    ELSE IF r.s[r.offset + 1] = Literal("false") THEN Got(r, r.offset + 1, FALSE)
    ELSE Failed(r)

ParseValue(r, kind) ==
    CASE kind = "string"   -> ParseString(r)
      [] kind = "number"   -> ParseUnsigned(r)
      [] kind = "positive" -> ParsePositive(r)
      [] kind = "boolean"  -> ParseBoolean(r)

Claim(name, kind) == [name |-> name, kind |-> kind]

ClaimsOf(schema, values) ==
    [n \in {schema[i].name : i \in DOMAIN schema} |->
        values[CHOOSE i \in DOMAIN schema : schema[i].name = n]]

ParseClaims(schema, s) ==
    LET turn(r, claim) == ParseValue(Consume(r, claim.name), claim.kind)
    IN Then(Whole(Consume(FoldLeft(turn, Reading(s), schema), "end")),
            LAMBDA values : Accepted(ClaimsOf(schema, values)))

\* The texts the Host itself writes.
Decimal[n \in Nat] ==
    IF n < 10 THEN << Zero + n >> ELSE Append(Decimal[n \div 10], Zero + (n % 10))

Quoted(v) ==
    << Quote >> \o FlattenSeq([i \in DOMAIN v |->
        IF v[i] \in {Quote, Backslash} THEN << Backslash, v[i] >> ELSE << v[i] >>])
    \o << Quote >>

FieldText(kind, v) ==
    CASE kind = "string"  -> Quoted(v)
      [] kind = "boolean" -> << Literal(IF v THEN "true" ELSE "false") >>
      [] OTHER            -> Decimal[v]

EncodeClaims(schema, claims) ==
    FlattenSeq([i \in DOMAIN schema |->
        << Literal(schema[i].name) >> \o FieldText(schema[i].kind, claims[schema[i].name])])
    \o << Literal("end") >>

LowerHexValid(v) ==
    /\ Len(v) = 1
    /\ v[1] \in (Digits \cup HexLetters) \ {Zero}

-----------------------------------------------------------------------------
(* Tokens *)

RS256 == << 82 >>
JWT == << 74 >>
ZeroDigest == << Zero >>
Permanent == << 112 >>
Day == << 100 >>

HeaderSchema == << Claim("alg", "string"), Claim("kid", "string"), Claim("typ", "string") >>

ParseHeader(s) ==
    Checked(ParseClaims(HeaderSchema, s), LAMBDA h :
        h["alg"] = RS256 /\ LowerHexValid(h["kid"]) /\ h["typ"] = JWT)

CredentialSchema == << Claim("exp", "positive"), Claim("generation", "positive"),
                       Claim("iat", "positive"), Claim("key", "string"),
                       Claim("nbf", "positive") >>

LeaseSchema == << Claim("kind", "string"), Claim("exp", "number"), Claim("key", "string"),
                  Claim("iat", "number"), Claim("is_permanent", "boolean"),
                  Claim("jti", "string"), Claim("nbf", "number"), Claim("pth", "string"),
                  Claim("remaining", "number"), Claim("seq", "number") >>

CredentialClaimsValid(c, now) ==
    /\ LowerHexValid(c["key"])
    /\ c["nbf"] = c["iat"]
    /\ c["exp"] > c["iat"]
    /\ c["exp"] - c["iat"] <= MaxTtl
    /\ c["exp"] > now
    /\ c["iat"] <= now \/ c["iat"] - now <= AheadGrace

PreviousTicketValid(c) ==
    IF c["seq"] = 0 THEN c["pth"] = ZeroDigest ELSE LowerHexValid(c["pth"])

\* The lease's name: a digest, here of one letter, of the claims without it.
WithoutLeaseId == SelectSeq(LeaseSchema, LAMBDA claim : claim.name # "jti")
LeaseId(c) == << 97 + (FoldLeft(+, 0, EncodeClaims(WithoutLeaseId, c)) % 6) >>

LeaseClaimsValid(c, now) ==
    /\ c["kind"] \in {Permanent, Day}
    /\ c["is_permanent"] = (c["kind"] = Permanent)
    /\ c["is_permanent"] => c["remaining"] = 0
    /\ LowerHexValid(c["key"])
    /\ PreviousTicketValid(c)
    /\ c["iat"] # 0
    /\ c["nbf"] >= c["iat"]
    /\ c["exp"] > c["nbf"]
    /\ c["exp"] - c["nbf"] <= MaxTtl
    /\ c["exp"] > now
    /\ c["iat"] <= now \/ c["iat"] - now <= AheadGrace
    /\ LowerHexValid(c["jti"]) /\ c["jti"] = LeaseId(c)

\* A pinned key: what its text holds, and whether that text is the only one
\* the armour, the base64 and the DER of this key allow.
\* The modulus of a lease's key must have a certain size, the exponent of a
\* credential's key must be 65537 too, and a key of another purpose is only
\* compared.
ImportKey(key, purpose) ==
    /\ key.canonical
    /\ purpose \in {"lease", "credential"} => key.sized
    /\ purpose = "credential" => key.f4

KeyId(key) == << 97 + (key.spki % 6) >>

KeyringValid(ring, purpose) ==
    /\ Len(ring) \in 1 .. MaxKeys
    /\ \A i \in DOMAIN ring : ImportKey(ring[i], purpose)
    /\ \A i, j \in DOMAIN ring :
         i # j => ring[i].spki # ring[j].spki /\ KeyId(ring[i]) # KeyId(ring[j])

\* The credential's ring shares no key with the ring of the usage tickets.
CredentialKeyringValid(ring, other) ==
    /\ KeyringValid(ring, "credential")
    /\ \A i \in DOMAIN other : ImportKey(other[i], "other")
    /\ \A i \in DOMAIN ring, j \in DOMAIN other : ring[i].spki # other[j].spki

SelectKey(ring, id) == {i \in DOMAIN ring : KeyId(ring[i]) = id}

\* The signature the service makes of a signing input, and its bytes.
SignatureBytes == << 5 >>
RsaSignatureValid(signed, key, input, signature) ==
    signature = SignatureBytes /\ [by |-> key.spki, over |-> input] \in signed

\* What a payload asks of a token before anyone verifies it.
CompactJwtValid(segments) ==
    /\ Len(segments) = 3
    /\ \A i \in 1 .. 3 : segments[i] # <<>> /\ Range(segments[i]) \subseteq 0 .. 63

\* Segments, header, key, signature, claims: what both verifiers do.
SignedByKeyOf(ring, header, segments, signed, signature) ==
    LET keys == SelectKey(ring, header["kid"])
    IN /\ keys # {}
       /\ RsaSignatureValid(signed, ring[Max(keys)], SubSeq(segments, 1, 2), signature)

\* The characters of a token, its dots included.
TokenSize(segments) == FoldLeft(LAMBDA n, s : n + 1 + Len(s), -1, segments)

VerifyToken(ring, schema, segments, signed) ==
    LET raw == [i \in 1 .. 3 |-> DecodeBase64Url(segments[i])]
    IN IF /\ TokenSize(segments) <= MaxTokenSize
          /\ Len(segments) = 3
          /\ \A i \in 1 .. 3 : raw[i].parsed
       THEN Then(Checked(ParseHeader(raw[1].values), LAMBDA header :
                     SignedByKeyOf(ring, header, segments, signed, raw[3].values)),
                 LAMBDA header : ParseClaims(schema, raw[2].values))
       ELSE Refused

ExpectedValid(expected) == LowerHexValid(expected.key) /\ expected.generation > 0
ExpectedBindingValid(expected) == LowerHexValid(expected.key)

ClaimsMatchExpected(c, expected) ==
    c["key"] = expected.key /\ c["generation"] = expected.generation
LeaseMatchesExpected(c, expected) == c["key"] = expected.key

VerifyCredential(ring, other, segments, signed, expected, now) ==
    IF CredentialKeyringValid(ring, other) /\ ExpectedValid(expected) /\ now > 0
    THEN Checked(VerifyToken(ring, CredentialSchema, segments, signed), LAMBDA claims :
             CredentialClaimsValid(claims, now) /\ ClaimsMatchExpected(claims, expected))
    ELSE Refused

VerifyLease(ring, segments, signed, expected, now) ==
    IF KeyringValid(ring, "lease") /\ ExpectedBindingValid(expected) /\ now > 0
    THEN Checked(VerifyToken(ring, LeaseSchema, segments, signed), LAMBDA claims :
             LeaseClaimsValid(claims, now) /\ LeaseMatchesExpected(claims, expected))
    ELSE Refused

-----------------------------------------------------------------------------
(* Usage proofs *)

ProofMagic == 86
Kinds == << "start_challenge", "start", "start_cancel", "heartbeat", "stop" >>

Common == << Claim("channel", "string"), Claim("entitlement_id", "string"),
             Claim("request_id", "string"), Claim("rv", "number") >>

\* The fields of each text that is signed, in its order.
StartChallengeFields == Common
StartFields ==
    << Claim("frames", "number"), Claim("ready", "boolean") >> \o Common
    \o << Claim("challenge_id", "string") >>
CancelFields == Common \o << Claim("start_request_id", "string") >>
HeartbeatFields ==
    << Claim("frames", "number") >> \o Common
    \o << Claim("pth", "string"), Claim("seq", "number"), Claim("sid", "string") >>
StopFields == Common \o << Claim("pth", "string"), Claim("sid", "string") >>
StatusFields ==
    << Claim("entitlement_id", "string"), Claim("request_id", "string"), Claim("rv", "number") >>
ActivationFields ==
    << Claim("mode", "string"), Claim("channel", "string"), Claim("request_id", "string"),
       Claim("target", "string") >>

ProofSchema(kind) ==
    CASE kind = "start_challenge" -> StartChallengeFields
      [] kind = "start"           -> StartFields
      [] kind = "start_cancel"    -> CancelFields
      [] kind = "heartbeat"       -> HeartbeatFields
      [] kind = "stop"            -> StopFields
      [] kind = "status"          -> StatusFields
      [] kind = "activation"      -> ActivationFields

\* One field of the request: a cell, read by its kind.
ReadField(r, kind) ==
    LET next == Take(r, 1)
        cell == Last(next.values)[1]
    IN IF next.failed \/ (kind = "string" /\ cell > 127) \/ (kind = "boolean" /\ cell > 1)
       THEN Failed(r)
       ELSE Got(r, next.offset,
                CASE kind = "string"  -> << cell >>
                  [] kind = "boolean" -> cell = 1
                  [] OTHER            -> cell)

ReadProof(s) ==
    LET kind   == Kinds[s[2]]
        schema == ProofSchema(kind)
    IN IF Len(s) < 3 \/ s[1] # ProofMagic \/ s[3] # 0 \/ s[2] \notin DOMAIN Kinds
       THEN Refused
       ELSE Then(Whole(FoldLeft(LAMBDA r, claim : ReadField(r, claim.kind),
                                [Reading(s) EXCEPT !.offset = 3], schema)),
                 LAMBDA values : Accepted([kind |-> kind,
                                           claims |-> ClaimsOf(schema, values)]))

Activate == << 97 >>
Reactivate == << 98 >>

ActivationTargetValid(mode, target) ==
    \/ mode = Activate /\ target = <<>>
    \/ mode = Reactivate /\ LowerHexValid(target)

ProofValid(kind, c) ==
    /\ \A n \in DOMAIN c \ {"mode", "target", "frames", "ready", "seq", "rv"} :
         LowerHexValid(c[n])
    /\ "rv" \in DOMAIN c => c["rv"] > 0
    /\ kind = "start" => c["ready"]
    /\ kind = "heartbeat" => c["seq"] # 0
    /\ kind = "activation" => ActivationTargetValid(c["mode"], c["target"])

\* The text the Host signs: the domain of the kind and every field.
SigningPayload(kind, c) ==
    IF ProofValid(kind, c) THEN Accepted(<< kind >> \o EncodeClaims(ProofSchema(kind), c))
    ELSE Refused

UsageContextMatches(c, expected) ==
    /\ c["channel"] = expected.channel
    /\ c["entitlement_id"] = expected.entitlement_id
    /\ c["rv"] = expected.rv

\* A heartbeat and a stop name the lease this channel has committed.
LeaseMatches(kind, c, committed) ==
    /\ kind \in {"heartbeat", "stop"} =>
         /\ committed.held
         /\ c["sid"] = committed.sid
         /\ c["pth"] = committed.ticket
    /\ kind = "heartbeat" =>
         /\ committed.seq # MaxNumber
         /\ c["seq"] = committed.seq + 1

SignTypedRequest(s, expected, committed) ==
    Then(Checked(ReadProof(s), LAMBDA proof :
             /\ UsageContextMatches(proof.claims, expected)
             /\ LeaseMatches(proof.kind, proof.claims, committed)),
         LAMBDA proof : SigningPayload(proof.kind, proof.claims))
=============================================================================
