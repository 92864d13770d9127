--------------------------- MODULE MCControlWire ---------------------------
(***************************************************************************)
(* The control connection, the texts it carries, the key the Host signs    *)
(* them with and the search for the phone it connects to. A behaviour      *)
(* follows one stream of records, or hands one text to the code that reads *)
(* such a payload (probe is that text, outcome what the code made of it),  *)
(* or lets processes open the key, or looks for the phone.                 *)
(*                                                                         *)
(* The texts are those of values the encoders accept and of values they    *)
(* refuse, and what one slip makes of the good ones: a cell changed,       *)
(* dropped or added, two neighbours swapped.                               *)
(***************************************************************************)
EXTENDS ControlTransport, FirstPairingFormats, PinnedKeys, HostIdentity, MobileDiscovery

VARIABLES probe, outcome

vars == << transportVars, identityVars, discoveryVars, probe, outcome >>

Slips(s, cells) ==
    {s} \cup {[s EXCEPT ![i] = c] : i \in DOMAIN s, c \in cells}
        \cup {RemoveAt(s, i) : i \in DOMAIN s}
        \cup {InsertAt(s, i, c) : i \in 1 .. Len(s) + 1, c \in cells}
        \cup {[s EXCEPT ![i] = s[i + 1], ![i + 1] = s[i]] : i \in 1 .. Len(s) - 1}

-----------------------------------------------------------------------------
(* Payloads of the handshake *)

Versions == {<< 1, Dot, 0 >>, << 1, Dot, 1, 0 >>, << 0, 1, Dot, 1 >>, << 1, Dot >>, << 1 >>,
             << 1, Dot, 1, Dot, 1 >>, << 1, 1, Dot, 1, 1 >>}
Points == {<< Uncompressed, 1 >>, << Uncompressed, 0 >>, << 1, 1 >>}
Numbers == {<< 0 >>, << 1 >>, << 2 >>}

ProposalValues == {<< p, v >> : p \in Points, v \in Versions}
TranscriptValues == {<< n >> \o v : n \in Numbers, v \in ProposalValues}
HelloValues == {<< p, m, n >> : p \in Points, m \in Numbers, n \in Numbers}
RequestValues == {<< m, << v >>, t >> :
                    m \in {Activation, << 2 >>, << 1, 1 >>, <<>>}, v \in {0, 1},
                    t \in {<<>>, << 0 >>, << 1 >>, << 1, 2 >>, << 1, 1, 1, 1 >>}}

RawRequest(v) == << Magic, Version, 0 >> \o WriteString(v[1]) \o v[2] \o WriteString(v[3])

OfferValues == {<< m, c, n, p, e, x >> :
                  m \in {<< 1 >>, << 3 >>}, c \in {<< 0 >>, << 1 >>}, n \in {<< 1 >>},
                  p \in Points, e \in Points, x \in {<< 0 >>, << 2 >>}}
SomeSignatures == {<< 48, 6, 2, 1, 1, 2, 1, 1 >>, << 48, 1, 2 >>}
ConfirmationValues == {<< r, m, << 1 >>, n, x, s >> :
                         r \in Numbers, m \in {<< 2 >>, << 3 >>}, n \in {<< 0 >>, << 1 >>},
                         x \in {<< 0 >>, << 3 >>, << 4 >>}, s \in SomeSignatures}
ActivationValues == {<< n, s >> : n \in Numbers, s \in SomeSignatures}
ResultValues == {<< i, n, v >> : i \in {<< 97 >>, << Zero >>, << 2 >>}, n \in Numbers, v \in Numbers}
CompleteValues == {<< n >> : n \in Numbers}

Encoded(format, v) ==
    CASE format = "transcript"         -> BuildTranscript(v)
      [] format = "proposal"           -> BuildProposal(v)
      [] format = "hello"              -> EncodeHello(v)
      [] format = "request"            -> EncodeRequest(v)
      [] format = "host offer"         -> EncodeOffer("host", v)
      [] format = "phone offer"        -> EncodeOffer("phone", v)
      [] format = "host confirmation"  -> EncodeConfirmation("host", v)
      [] format = "phone confirmation" -> EncodeConfirmation("phone", v)
      [] format = "activation"         -> EncodeActivationSignature(v)
      [] format = "result"             -> EncodeResult(v)
      [] format = "complete"           -> EncodeComplete(v)

Parsed(format, s) ==
    CASE format = "transcript"         -> ParseTranscript(s)
      [] format = "proposal"           -> ParseProposal(s)
      [] format = "hello"              -> ParseHello(s)
      [] format = "request"            -> ParseRequest(s)
      [] format = "host offer"         -> ParseOffer("host", s)
      [] format = "phone offer"        -> ParseOffer("phone", s)
      [] format = "host confirmation"  -> ParseConfirmation("host", s)
      [] format = "phone confirmation" -> ParseConfirmation("phone", s)
      [] format = "activation"         -> ParseActivationSignature(s)
      [] format = "result"             -> ParseResult(s)
      [] format = "complete"           -> ParseComplete(s)

Values(format) ==
    CASE format = "transcript" -> TranscriptValues
      [] format = "proposal"   -> ProposalValues
      [] format = "hello"      -> HelloValues
      [] format = "request"    -> RequestValues
      [] format \in {"host offer", "phone offer"} -> OfferValues
      [] format \in {"host confirmation", "phone confirmation"} -> ConfirmationValues
      [] format = "activation" -> ActivationValues
      [] format = "result"     -> ResultValues
      [] format = "complete"   -> CompleteValues

FirstPairFormats == {"request", "host offer", "phone offer", "host confirmation",
                     "phone confirmation", "activation", "result", "complete"}
Formats == FirstPairFormats \cup {"transcript", "proposal", "hello"}

\* What an encoder makes of the values it accepts.
Made(format) ==
    {r.values : r \in {r \in {Encoded(format, v) : v \in Values(format)} : r.parsed}}
MadeTexts == [f \in Formats |-> Made(f)]

RawTexts(format) ==
    CASE format = "request" -> {RawRequest(v) : v \in RequestValues}
      [] format \in {"transcript", "proposal", "hello"} -> {EncodeFields(v) : v \in Values(format)}
      [] OTHER -> {}

SlipCells(format) ==
    IF format = "result" THEN {0, 1, 2, Zero, 97}
    ELSE {0, 1, 2, 3, Uncompressed, Unprintable, Dot}

PayloadProbes ==
    UNION {[format : {f},
            text : RawTexts(f) \cup UNION {Slips(t, SlipCells(f)) : t \in MadeTexts[f]}] :
             f \in Formats}

SasProbes == [format : {"sas"}, text : {<< w >> : w \in 0 .. SasRange - 1}
                                       \cup {<< SasRange - 1, w >> : w \in 0 .. SasRange - 1}]

-----------------------------------------------------------------------------
(* Pinned keys *)

MCF4 == << 5 >>

KeyNumbers == [modulus : {<< 128, 5 >>, << 127, 5 >>, << 200 >>, << 1, 2, 3 >>},
               exponent : {F4, << 3 >>}]

\* The DER of a key, and what a careless encoder would make of it.
LongForm(v) == << 128 + 1, Len(v) >> \o v
RsaTexts(k) ==
    LET body == PositiveDerInteger(k.modulus) \o PositiveDerInteger(k.exponent)
    IN {RsaPublicKey(k),
        << SequenceTag >> \o LongForm(body),
        DerTlv(SequenceTag, PositiveDerInteger(<< 0 >> \o k.modulus)
                            \o PositiveDerInteger(k.exponent)),
        DerTlv(SequenceTag, PositiveDerInteger(k.modulus))}
KeyTexts(k) ==
    {SpkiOf(bits) : bits \in RsaTexts(k)}
    \cup {<< SequenceTag >> \o LongForm(<< RsaWithNull >> \o DerTlv(BitStringTag, << 0 >> \o RsaPublicKey(k))),
          DerTlv(SequenceTag, << RsaWithNull >> \o DerTlv(BitStringTag, << 1 >> \o RsaPublicKey(k)))}

KeyProbes ==
    [format : {"credential key", "other key", "lease key"},
     text : UNION {KeyTexts(k) : k \in KeyNumbers}]

TheDer == CanonicalSpki([modulus |-> << 128, 5 >>, exponent |-> F4])
CrLf(pem) == FlattenSeq([i \in DOMAIN pem |->
                           IF pem[i] = NewLine THEN << Return, NewLine >> ELSE << pem[i] >>])
PemTexts ==
    Slips(Pem(TheDer), {NewLine, Return, EndLine, Zero + Pad, Zero, Zero + 1})
    \cup {CrLf(Pem(TheDer)), CrLf(Pem(TheDer)) \o << Return, NewLine >>}

PemProbes ==
    [format : {"pem"},
     text : {EncodeBase64(p) : p \in PemTexts}
            \cup Slips(EncodeBase64(Pem(TheDer)), {Pad, 0, 1})]

-----------------------------------------------------------------------------
(* Signatures *)

Scalars == {0, 1, HalfOrder, HalfOrder + 1, Order - 1, Order, Radix - 1, Radix \div 2}

RawDer(r, s) ==
    LET body == DerInteger(r) \o DerInteger(s) IN << SequenceTag, Len(body) >> \o body

SignatureProbes ==
    [format : {"signature"},
     text : {RawDer(r, s) : r \in Scalars, s \in Scalars}
            \cup UNION {Slips(RawDer(r, s), {0, 1, 2, 3, Radix \div 2}) :
                          r \in {1, Order - 1}, s \in {1, HalfOrder}}]

-----------------------------------------------------------------------------
(* Claims and tokens, checked at the time Now *)

Now == 10
TheKey == [spki |-> 1, canonical |-> TRUE, sized |-> TRUE, f4 |-> TRUE]
OtherKey == [TheKey EXCEPT !.spki = 2]
Clash == [TheKey EXCEPT !.spki = 7]
TheBinding == [key |-> << 98 >>, generation |-> 3]

CredentialClaims(iat, exp) ==
    ("exp" :> exp) @@ ("generation" :> 3) @@ ("iat" :> iat)
    @@ ("key" :> << 98 >>) @@ ("nbf" :> iat)

LeaseClaims(kind, permanent, iat, exp, seq, remaining) ==
    LET c == ("kind" :> kind) @@ ("exp" :> exp) @@ ("key" :> << 98 >>) @@ ("iat" :> iat)
             @@ ("is_permanent" :> permanent) @@ ("nbf" :> iat)
             @@ ("pth" :> IF seq = 0 THEN ZeroDigest ELSE << 99 >>)
             @@ ("remaining" :> remaining) @@ ("seq" :> seq)
    IN c @@ ("jti" :> LeaseId(c))

Leases == {LeaseClaims(Day, FALSE, 10, 12, 0, 255), LeaseClaims(Day, FALSE, 12, 14, 1, 0),
           LeaseClaims(Permanent, TRUE, 9, 11, 1, 0)}
Credentials == {CredentialClaims(10, 12), CredentialClaims(11, 100), CredentialClaims(126, 127)}

ClaimCells == {Quote, Backslash, Zero, Zero + 1, Zero + 9, 97,
               Literal("true"), Literal("end"), Literal("exp")}

ClaimProbes ==
    UNION {[format : {"claims"}, schema : {LeaseSchema},
            text : Slips(EncodeClaims(LeaseSchema, c), ClaimCells)] : c \in Leases}
    \cup UNION {[format : {"claims"}, schema : {CredentialSchema},
                 text : Slips(EncodeClaims(CredentialSchema, c), ClaimCells)] :
                  c \in Credentials}

HeaderText(key) ==
    EncodeClaims(HeaderSchema, ("alg" :> RS256) @@ ("kid" :> KeyId(key)) @@ ("typ" :> JWT))

\* The text the service makes of the claims it signs.
IssuedText(key, schema, c) ==
    << EncodeBase64Url(HeaderText(key)), EncodeBase64Url(EncodeClaims(schema, c)),
       EncodeBase64Url(SignatureBytes) >>

\* Every other last character, and one slip in each part.
TokenTexts(text) ==
    {[text EXCEPT ![3] = << @[1], c >>] : c \in 0 .. 63}
    \cup {[text EXCEPT ![i] = s] : i \in 1 .. 3, s \in {<<>>, << 1 >>, << 64, 0 >>}}
    \cup {[text EXCEPT ![i] = [@ EXCEPT ![Len(@)] = (@ + 1) % 64]] : i \in 1 .. 3}
    \cup {text, << text[1], text[2] >>, Append(text, text[3])}

Rings == {<< TheKey >>, << TheKey, OtherKey >>, << OtherKey, TheKey, Clash >>, <<>>,
          << TheKey, [TheKey EXCEPT !.spki = 3, !.canonical = FALSE] >>,
          << [TheKey EXCEPT !.f4 = FALSE] >>, << [TheKey EXCEPT !.sized = FALSE] >>,
          << TheKey, OtherKey, [TheKey EXCEPT !.spki = 3], [TheKey EXCEPT !.spki = 4] >>}

Token(kind, schema, c, ring, other, text) ==
    [format |-> kind, schema |-> schema, ring |-> ring, other |-> other, text |-> text,
     signed |-> {[by |-> TheKey.spki, over |-> SubSeq(IssuedText(TheKey, schema, c), 1, 2)]}]

TokenProbes ==
    UNION {{Token("lease", LeaseSchema, c, << TheKey >>, <<>>, t) :
              t \in TokenTexts(IssuedText(TheKey, LeaseSchema, c))} : c \in Leases}
    \cup {Token("lease", LeaseSchema, c, ring, <<>>, IssuedText(TheKey, LeaseSchema, c)) :
            c \in Leases, ring \in Rings}
    \cup UNION {{Token("credential", CredentialSchema, c, << TheKey >>, << OtherKey >>, t) :
                   t \in TokenTexts(IssuedText(TheKey, CredentialSchema, c))} :
                  c \in Credentials}
    \cup {Token("credential", CredentialSchema, c, ring, other,
                IssuedText(TheKey, CredentialSchema, c)) :
            c \in Credentials, ring \in Rings, other \in {<< OtherKey >>, << TheKey >>}}

-----------------------------------------------------------------------------
(* Proofs *)

Expected == [channel |-> << 97 >>, entitlement_id |-> << 98 >>, rv |-> 1]
Committed == [held |-> TRUE, sid |-> << 99 >>, ticket |-> << 100 >>, seq |-> 4]

BaseClaim(name) ==
    CASE name = "channel" -> Expected.channel
      [] name = "entitlement_id" -> Expected.entitlement_id
      [] name = "rv" -> 1
      [] name = "sid" -> Committed.sid
      [] name = "pth" -> Committed.ticket
      [] name = "seq" -> 5
      [] name = "frames" -> 0
      [] name = "ready" -> TRUE
      [] name = "mode" -> Reactivate
      [] OTHER -> << 101 >>

OtherClaims(name) ==
    CASE name \in {"rv", "seq", "frames"} -> {0, 1, 6, 200}
      [] name = "ready" -> {FALSE}
      [] name = "mode" -> {Activate, << 99 >>}
      [] name = "target" -> {<<>>, << 97 >>}
      [] OTHER -> {<< 102 >>, << Zero >>, << Zero + 1 >>, << 103 >>}

BaseProof(kind) ==
    ClaimsOf(ProofSchema(kind), [i \in DOMAIN ProofSchema(kind) |->
                                    BaseClaim(ProofSchema(kind)[i].name)])

ProofClaims(kind) ==
    {BaseProof(kind)} \cup
    UNION {{[BaseProof(kind) EXCEPT ![n] = v] : v \in OtherClaims(n)} :
             n \in DOMAIN BaseProof(kind)}
    \cup (IF kind = "activation"
          THEN {[BaseProof(kind) EXCEPT !["mode"] = Activate, !["target"] = <<>>]} ELSE {})

AllKinds == ToSet(Kinds) \cup {"status", "activation"}

StatementProbes ==
    UNION {[format : {"statement"}, kind : {k}, claims : ProofClaims(k)] : k \in AllKinds}

RequestText(i) ==
    LET schema == ProofSchema(Kinds[i])
        cell(c) == CASE c.kind = "string"  -> BaseClaim(c.name)[1]
                     [] c.kind = "boolean" -> IF BaseClaim(c.name) THEN 1 ELSE 0
                     [] OTHER -> BaseClaim(c.name)
    IN << ProofMagic, i, 0 >> \o [j \in DOMAIN schema |-> cell(schema[j])]

ProofTexts ==
    UNION {Slips(RequestText(i), {0, 1, 2, 5, 97, 99, 128}) : i \in DOMAIN Kinds}

ProofProbes == [format : {"proof"}, text : ProofTexts, held : BOOLEAN]

-----------------------------------------------------------------------------
NoProbe == [format |-> "none"]
KeyProbe == [format |-> "identity"]
SearchProbe == [format |-> "search"]
Unread == [parsed |-> FALSE, values |-> <<>>, read |-> FALSE]

Probes == PayloadProbes \cup SignatureProbes \cup ClaimProbes \cup TokenProbes
          \cup StatementProbes \cup ProofProbes \cup SasProbes \cup KeyProbes \cup PemProbes

ReadText(p) ==
    CASE p.format \in Formats    -> Parsed(p.format, p.text)
      [] p.format = "sas"        -> DeriveSas(p.text)
      [] p.format = "pem"        -> DecodePem(p.text)
      [] p.format \in {"credential key", "other key"} ->
           ImportCredentialKey(p.text, p.format = "credential key")
      [] p.format = "lease key"  -> ImportLeaseKey(p.text)
      [] p.format = "signature"  -> CanonicalDerToP1363(p.text)
      [] p.format = "claims"     -> ParseClaims(p.schema, p.text)
      [] p.format = "lease"      ->
           VerifyLease(p.ring, p.text, p.signed, TheBinding, Now)
      [] p.format = "credential" ->
           VerifyCredential(p.ring, p.other, p.text, p.signed, TheBinding, Now)
      [] p.format = "statement"  -> SigningPayload(p.kind, p.claims)
      [] p.format = "proof"      ->
           SignTypedRequest(p.text, Expected, [Committed EXCEPT !.held = p.held])

\* The variables of the part a behaviour is not about have some first value.
StreamStill == Init /\ plan = CHOOSE p \in Plans : TRUE
IdentityStill ==
    IdentityInit /\ scope = [policy |-> "development", account |-> [p \in Openers |-> "user"]]
                 /\ stored = NoKey

WireInit == Init /\ IdentityStill /\ probe = NoProbe
ProbeInit == StreamStill /\ IdentityStill /\ probe \in Probes
KeyInit == StreamStill /\ IdentityInit /\ probe = KeyProbe
SearchInit == StreamStill /\ IdentityStill /\ probe = SearchProbe

InStream(A) == probe = NoProbe /\ A /\ UNCHANGED << identityVars, discoveryVars, probe, outcome >>
InIdentity(A) == probe = KeyProbe /\ A /\ UNCHANGED << transportVars, discoveryVars, probe, outcome >>
InSearch(A) == probe = SearchProbe /\ A /\ UNCHANGED << transportVars, identityVars, probe, outcome >>

Stream == InStream(Next)
OpenIdentity == InIdentity(IdentityNext)
Search == InSearch(DiscoveryNext)

Read ==
    /\ probe \notin {NoProbe, KeyProbe, SearchProbe}
    /\ ~outcome.read
    /\ \E r \in {ReadText(probe)} :
         outcome' = [parsed |-> r.parsed, values |-> r.values, read |-> TRUE]
    /\ UNCHANGED << transportVars, identityVars, discoveryVars, probe >>

FirstState == (WireInit \/ ProbeInit \/ KeyInit \/ SearchInit) /\ DiscoveryInit /\ outcome = Unread

WireSpec == /\ FirstState
            /\ [][Stream \/ Read \/ OpenIdentity \/ Search]_vars
            /\ WF_vars(InStream(ReaderStep)) /\ WF_vars(InStream(AcceptCandidate))
            /\ \A p \in Openers : WF_vars(InIdentity(OpenerStep(p)))

-----------------------------------------------------------------------------
(* Instances *)

Bootstrapped(payload) == [sealed |-> FALSE, payload |-> payload]
Encrypted(payload) == [sealed |-> TRUE, payload |-> payload]

\* A handshake and a session, a session that uses up its counters, and the
\* sizes at and beyond the limits; once somebody else connects.
MCPlans ==
    {[peer |-> "expected", records |-> r] :
       r \in {<< Bootstrapped(<< 1 >>), Bootstrapped(<< 2, 3 >>), Encrypted(<<>>),
                 Encrypted(<< 4 >>) >>,
              << Encrypted(<< 1, 2 >>), Encrypted(<<>>), Encrypted(<< 3 >>),
                 Encrypted(<< 4 >>) >>,
              << Bootstrapped(<<>>) >>,
              << Bootstrapped(<< 1, 2, 3 >>) >>,
              << Encrypted(<< 1, 2, 3 >>) >>}}
    \cup {[peer |-> "other", records |-> << Bootstrapped(<< 1 >>) >>]}

\* An access list with somebody else in it, one that inherits, one that names
\* a principal twice.
MCEdits ==
    {[protected |-> TRUE, aces |-> << AllowAll("system"), AllowAll("administrators"),
                                      AllowAll("somebody") >>],
     [protected |-> FALSE, aces |-> << AllowAll("system"), AllowAll("administrators") >>],
     [protected |-> TRUE, aces |-> << AllowAll("system"), AllowAll("system"),
                                      AllowAll("user") >>]}

\* Two LANs, one of them on two adapters, besides an adapter that is down, a
\* loopback, a public address and a subnet without broadcast.
MCAdapters ==
    LET Address(ip, prefix) == [ip |-> ip, prefix |-> prefix, preferred |-> TRUE]
        Adapter(i, addresses) ==
            [index |-> i, up |-> TRUE, loopback |-> FALSE, multicast |-> TRUE, addresses |-> addresses]
    IN {Adapter(1, {Address(17, 2)}), Adapter(2, {Address(25, 2), Address(9, 2)}),
        Adapter(3, {Address(18, 2), Address(22, 4)}),
        [Adapter(4, {Address(19, 2)}) EXCEPT !.up = FALSE],
        [Adapter(5, {Address(21, 2)}) EXCEPT !.loopback = TRUE]}

-----------------------------------------------------------------------------
(* Properties *)

Was(formats) == outcome.read /\ probe.format \in formats

\* A parser takes exactly the texts its encoder makes, and returns what the
\* encoder was given: a transcript, a proposal, a hello, an offer, a
\* confirmation and the rest of the first pairing have one text each, so what one end hashes or signs is what the other end read.
CanonicalPayloads ==
    Was(Formats) =>
        /\ probe.text \in MadeTexts[probe.format] => outcome.parsed
        /\ outcome.parsed => Encoded(probe.format, outcome.values) = Accepted(probe.text)

\* No text of the first pairing means two things: what one side sends is never
\* read as the other side's message, nor as a later step of the exchange.
OneMeaning ==
    Was(FirstPairFormats) /\ outcome.parsed =>
        \A f \in FirstPairFormats \ {probe.format} : ~Parsed(f, probe.text).parsed

\* The code the users compare is as likely as every other: as many first
\* words of a digest lead to it as to any other code.
SasUniform ==
    Was({"sas"}) /\ outcome.parsed =>
        /\ outcome.values[1] \in 0 .. SasModulus - 1
        /\ Cardinality({w \in 0 .. SasRange - 1 : DeriveSas(<< w >>) = Accepted(outcome.values)})
             = SasRange \div SasModulus

\* What the verifier of credentials knows as a key has one encoding, so two
\* pinned texts that differ are two keys, and a key of the usage tickets
\* cannot be listed a second time in another spelling; and a PEM text names
\* one DER whatever its line ends.
OneSpellingPerKey ==
    /\ Was({"credential key", "other key"}) /\ outcome.parsed =>
         CanonicalSpki(outcome.values) = probe.text
    /\ Was({"pem"}) /\ outcome.parsed =>
         LET pem == SelectSeq(DecodeBase64(probe.text).values, LAMBDA c : c # Return)
         IN pem \in {Pem(outcome.values), Append(Pem(outcome.values), NewLine)}

\* A proposal that was accepted can always be completed: the service's
\* generation makes a transcript of it that both ends can build and read.
ProposalBecomesTranscript ==
    Was({"proposal"}) /\ outcome.parsed =>
        \A generation \in {1, 2} :
            LET final == FinalTranscript(outcome.values, generation)
            IN /\ final.parsed
               /\ ParseTranscript(final.values) =
                    Accepted(<< << generation >> >> \o outcome.values)

\* The verifier takes one text for a pair of scalars, the one the Host's own
\* signer writes, and that text passes both checks a payload makes of it.
SignaturesAgree ==
    Was({"signature"}) =>
        /\ outcome.parsed =>
             /\ CanonicalDer(outcome.values[1], outcome.values[2]) = Accepted(probe.text)
             /\ CanonicalEcdsaDerValid(probe.text)
             /\ ValidSignature(probe.text)
        /\ \A r, s \in Scalars :
             CanonicalDer(r, s) = Accepted(probe.text) => outcome.parsed

\* A claims text that is read is the text of what was read: no spelling of a
\* number, a string or a boolean has a second one, and no number wraps.
CanonicalClaims ==
    Was({"claims"}) /\ outcome.parsed =>
        EncodeClaims(probe.schema, outcome.values) = probe.text

\* A token has one text: what is accepted is, character by character, what
\* the service issued, so the digest that the next lease names is unique; the
\* payload that carried it takes that text. And no key of the usage tickets ever speaks for a credential.
OneTextPerToken ==
    Was({"lease", "credential"}) /\ outcome.parsed =>
        /\ probe.text = IssuedText(TheKey, probe.schema, outcome.values)
        /\ CompactJwtValid(probe.text)
        /\ \A i \in DOMAIN probe.other : probe.other[i].spki # TheKey.spki

\* The text the Host signs covers the whole request: two requests with the
\* same text are the same request of the same kind, and two typed messages
\* with the same text are the same message.
ProofCoversRequest ==
    /\ Was({"statement"}) /\ outcome.parsed =>
         \A p \in StatementProbes :
             SigningPayload(p.kind, p.claims) = Accepted(outcome.values) => p = probe
    /\ Was({"proof"}) /\ outcome.parsed =>
         \A t \in ProofTexts :
             SignTypedRequest(t, Expected, [Committed EXCEPT !.held = probe.held])
                 = Accepted(outcome.values) => t = probe.text

\* A text has one meaning and a meaning one text: payloads, first-pairing
\* messages, claims, tokens and pinned keys alike.
OneSpelling ==
    /\ CanonicalPayloads
    /\ OneMeaning
    /\ CanonicalClaims
    /\ OneTextPerToken
    /\ OneSpellingPerKey

\* What one side makes the other can use: an accepted proposal becomes a
\* transcript, a signature passes every check on its way, a proof covers its
\* whole request, and both users compare an unbiased code.
SidesAgree ==
    /\ ProposalBecomesTranscript
    /\ SignaturesAgree
    /\ ProofCoversRequest
    /\ SasUniform

\* What one side writes the other reads, and both mean the same by it.
TextsAgree == OneSpelling /\ SidesAgree
=============================================================================
