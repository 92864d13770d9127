---------------------------- MODULE PeerHandshake ----------------------------
(***************************************************************************)
(* The values the Host, the phone and the service exchange while a paired  *)
(* phone opens its control channel.  Cryptography is symbolic: a signature *)
(* is the pair of its key and what it signs, a digest is the value that is *)
(* hashed, a MAC is the tuple of its key and its text.  A key stands for   *)
(* its fingerprint, and one number stands for the nonce and the ephemeral  *)
(* key that a coordinator draws together.                                  *)
(***************************************************************************)
EXTENDS Naturals

CONSTANTS Ent,      \* the entitlement of this Host
          HostKey,  \* the identity of the Host
          None      \* "no value"

\* A pair binding, without and with the generation high-water mark.
Pair(ent, rev, revoc, host, android) ==
    [ent |-> ent, rev |-> rev, revoc |-> revoc, host |-> host, android |-> android]

Binding(pair, hwm) == [pair |-> pair, hwm |-> hwm]

\* SHA-256, HMAC and HKDF, each by what it depends on.
Digest(x) == [sha256 |-> x]

Mac(key, text) == [hmac |-> key, text |-> text]

Expand(prk, label) == [prk |-> prk, label |-> label]

Sign(key, payload) == [key |-> key, payload |-> payload]

Verifies(key, payload, sig) == sig = Sign(key, payload)

-----------------------------------------------------------------------------
\* The request both sides sign before the service sees it.
ChallengeRequest(req, pair) == [req |-> req, pair |-> pair]

\* The connection id: a MAC under the nonce of the service, so that neither end
\* can choose it, over what both ends brought.
ConnectionSeed(req, hn, an, pair) == <<req, hn, an, pair>>

ConnectionId(server, req, hn, an, pair) == Mac(server, ConnectionSeed(req, hn, an, pair))

ProposalFields(pair, hn, an, conn) ==
    [host |-> pair.host, android |-> pair.android, hn |-> hn, an |-> an,
     conn |-> conn, pair |-> pair]

ValidProposal(f) ==
    /\ f.host # None /\ f.android # None /\ f.host # f.android
    /\ f.hn # None /\ f.an # None /\ f.hn # f.an
    /\ f.pair # None

FinalProof(request, server, proposal) ==
    [request |-> request, server |-> server, proposal |-> proposal]

\* The transcript is the proposal plus the generation the service allocated.
Transcript(proposal, gen) == [proposal |-> proposal, gen |-> gen]

ValidTranscript(t) ==
    /\ ValidProposal(t.proposal)
    /\ t.gen > 0

\* The secret both ends reach, the keys of a session and the MAC each side owes
\* the other.
SharedSecret(t) == {t.proposal.hn, t.proposal.an}

Prk(t) == Mac(Digest(t), SharedSecret(t))

FinishedMac(role, t) == Mac(Expand(Prk(t), <<"finished", role>>), Digest(t))

ConfirmPeerFinished(role, t, mac) ==
    mac = FinishedMac(IF role = "host" THEN "android" ELSE "host", t)

-----------------------------------------------------------------------------
\* The credential of the service and what the Host compares it with.
Credential(req, pair, gen, conn, proposal) ==
    [req |-> req, pair |-> pair, gen |-> gen, conn |-> conn, proposal |-> proposal]

ClaimsMatchExpected(c, req, pair, gen, conn, proposal) ==
    c = Credential(req, pair, gen, conn, proposal)

ClaimsValid(c) ==
    /\ c.pair.host # c.pair.android
    /\ c.pair.rev > 0 /\ c.pair.revoc > 0 /\ c.gen > 0

\* The nine records of the handshake in the only order both sides accept.
BootstrapSequence ==
    <<"host_hello", "android_challenge_request", "host_challenge_proof",
      "server_challenge", "host_final_proof", "pair_generation_credential",
      "host_handshake_signature", "android_handshake_confirmation",
      "host_finished">>

Advances(index, type) ==
    /\ index <= 9
    /\ BootstrapSequence[index] = type

FirstPairSequence ==
    <<"host_first_pair_offer", "android_first_pair_offer", "host_first_pair_confirmation",
      "android_first_pair_confirmation", "activation_proof_request",
      "host_activation_signature", "activation_result", "first_pair_complete">>

\* control_bootstrap_message_allowed_v1: who may send what.
HostRecords ==
    {BootstrapSequence[i] : i \in {1, 3, 5, 7, 9}} \union {FirstPairSequence[i] : i \in {1, 3, 6, 8}}

AndroidRecords ==
    {BootstrapSequence[i] : i \in {2, 4, 6, 8}} \union {FirstPairSequence[i] : i \in {2, 4, 5, 7}}

\* The fields of each payload, all of them and no other.
ControlSchema(type) ==
    CASE type = "host_hello" -> {"host", "hn"}
      [] type = "android_challenge_request" -> {"request", "sig", "an"}
      [] type = "server_challenge" -> {"req"}
      [] type = "pair_generation_credential" -> {"req", "pair", "gen", "conn", "proposal"}
      [] type = "android_handshake_confirmation" -> {"sig", "mac"}
      [] type = "host_finished" -> {"hmac", "text"}
      [] OTHER -> {"key", "payload"}

FirstPairSchema(type) ==
    CASE type \in {"host_first_pair_offer", "android_first_pair_offer"} -> {"identity"}
      [] type = "activation_proof_request" -> {"host", "android", "rev"}
      [] type = "activation_result" -> {"ent", "rev", "revoc"}
      [] type = "first_pair_complete" -> {"commitment"}
      [] OTHER -> {"key", "payload"}

\* A record as it is framed, and what a reader of the other end accepts.
EncodeRecord(type, body) == [type |-> type, body |-> body]

ParsesAs(type, rec, schema) == rec.type = type /\ DOMAIN rec.body = schema

\* What both users compare and sign.
Commitment(host, android) == Digest(<<"ethernet", host, android>>)

UserConfirmation(role, host, android) == <<role, Commitment(host, android)>>
=============================================================================
