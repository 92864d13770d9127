------------------------------ MODULE HostPairing ------------------------------
(***************************************************************************)
(* How a phone becomes the phone of this Host and opens its control        *)
(* channel: the first-pairing service and the bound control service of the *)
(* Host, each with one worker thread and one candidate connection at a     *)
(* time; the binding store they share; the phones; and the service that    *)
(* activates pairs and allocates generations.                              *)
(*                                                                         *)
(* A connection carries one record at a time.  Either end may close it: a  *)
(* record written before the close can still be read.  Every failure the   *)
(* code answers (a lost call, a broken connection, a time-out, a disk      *)
(* error, a crash) costs one of MaxFaults.                                 *)
(***************************************************************************)
EXTENDS PairBindingStore, FiniteSets, FiniteSetsExt

CONSTANTS Phones,     \* installations of the APP, each with its own identity
          MaxRev,     \* bound on activations
          MaxFaults,  \* bound on failures
          MaxGen,     \* the last generation the service can allocate
          Nonces,     \* values a coordinator can draw, 1..n
          Requests    \* pair-generation request ids, 1..n

ASSUME PairingAssumption ==
    /\ MaxRev \in Nat \ {0} /\ MaxFaults \in Nat /\ MaxGen \in Nat \ {0}
    /\ Nonces \subseteq Nat /\ Requests \subseteq Nat
    /\ None \notin Nonces /\ None \notin Requests

\* What the service activates for this Host, and what it allocates to a pair.
Pairs == [ent : {Ent}, rev : 1..MaxRev, revoc : {1}, host : {HostKey}, android : Phones]

Bindings == [pair : Pairs, hwm : Nat]

Connections ==
    [hmac : [nonceOf : [req : Requests, pair : Pairs]], text : Requests \X Nonces \X Nonces \X Pairs]

Proposals == [host : {HostKey}, android : Phones, hn : Nonces, an : Nonces,
              conn : Connections, pair : Pairs]

Allocations == [gen : 1..MaxGen, proposal : Proposals]

ASSUME NoneAssumption == None \notin Pairs /\ None \notin Bindings /\ None \notin Allocations

VARIABLES
    hostUp,   \* the Host process runs
    store,    \* the pair-binding state file
    ctl,      \* HostAuthenticatedControlServiceV1 and its worker
    fp,       \* HostFirstPairingServiceV1 and its worker
    session,  \* the channel the authorization coordinator holds
    conn,     \* the connection of each phone to each service
    phone,    \* the phones
    srv,      \* the service: current pair, generations, challenges, allocations
    faults,   \* failures so far
    agreed    \* history: who confirmed the identity of which phone

pairingVars == <<hostUp, store, ctl, fp, session, conn, phone, srv, faults, agreed>>

Ports == {"control", "first_pair"}

NoConn == [host |-> FALSE, phone |-> FALSE, wire |-> None]

\* A worker that waits in accept, with nothing of a coordinator left.
IdleCoordinator == [pc |-> "accept", peer |-> None, own |-> None, hn |-> None, an |-> None,
                    req |-> None, proposal |-> None, transcript |-> None]

IdleFirstPair == [pc |-> "accept", peer |-> None, android |-> None, rev |-> None, binding |-> None]

IdlePolicy == [pair |-> None, req |-> None, expiry |-> FALSE]

NewPhone == [ent |-> None, fpc |-> "idle", cpc |-> "idle", an |-> None, hn |-> None,
             challenge |-> FALSE, cred |-> None, transcript |-> None, policy |-> IdlePolicy]

PairingInit ==
    /\ hostUp = FALSE
    /\ store = None
    /\ ctl = [running |-> FALSE, pair |-> None, c |-> IdleCoordinator]
    /\ fp = [running |-> FALSE, c |-> IdleFirstPair]
    /\ session = None
    /\ conn = [s \in Ports |-> [p \in Phones |-> NoConn]]
    /\ phone = [p \in Phones |-> NewPhone]
    /\ srv = [pair |-> None, rev |-> 0, hw |-> 0, chal |-> [r \in Requests |-> "none"],
              pairOf |-> [r \in Requests |-> None], expired |-> {},
              alloc |-> [r \in Requests |-> None]]
    /\ faults = 0
    /\ agreed = {}

\* A step that goes well costs nothing, a failure one unit of the bound.
Spend(ok) == IF ok THEN faults' = faults ELSE faults < MaxFaults /\ faults' = faults + 1

\* Numbers nobody holds any more may be drawn again.
NoncesHeld ==
    {ctl.c.hn, ctl.c.an} \union {phone[p].an : p \in Phones}
    \union UNION {IF srv.alloc[r] = None THEN {}
                  ELSE {srv.alloc[r].proposal.hn, srv.alloc[r].proposal.an} : r \in Requests}
    \union (IF session = None THEN {}
            ELSE {session.transcript.proposal.hn, session.transcript.proposal.an})

FreshNonces(avoid) == Nonces \ (NoncesHeld \union avoid)

\* Likewise a request id the service has no row of any more that could matter.
FreshRequests == {r \in Requests : srv.chal[r] = "none"} \ {phone[p].policy.req : p \in Phones}

\* A challenge that is issued and alive, and the row of one that is over: no
\* phone will ask for it again and no other request is refused for it.
Outstanding(s, r) == s.chal[r] = "issued" /\ r \notin s.expired

Discard(s, r) ==
    [s EXCEPT !.chal[r] = "none", !.pairOf[r] = None, !.alloc[r] = None, !.expired = @ \ {r}]

\* A phone lets go of a request id.  Nobody tells the service: a challenge that
\* is outstanding stays, and stands in the way of the next one of its pair.
Forget(s, r) == IF r = None THEN s ELSE IF Outstanding(s, r) THEN s ELSE Discard(s, r)

\* What lies on a connection.
Wire(s, p) == conn[s][p].wire

Send(s, p, type, body) == [conn EXCEPT ![s][p].wire = EncodeRecord(type, body)]

\* One end closes; what it wrote stays readable for the other.
HostCloses(s, p) ==
    [conn EXCEPT ![s][p] = IF @.phone THEN [@ EXCEPT !.host = FALSE] ELSE NoConn]

PhoneCloses(s, p) ==
    [conn EXCEPT ![s][p] = IF @.host THEN [@ EXCEPT !.phone = FALSE] ELSE NoConn]

Schema(s, type) == IF s = "control" THEN ControlSchema(type) ELSE FirstPairSchema(type)

Carries(s, p, type) == Wire(s, p) # None /\ ParsesAs(type, Wire(s, p), Schema(s, type))

\* A record written by the other end, still to be read.
NothingFromHost(s, p) == Wire(s, p) # None => Wire(s, p).type \in AndroidRecords

NothingFromPhone(s, p) == Wire(s, p) # None => Wire(s, p).type \in HostRecords

-----------------------------------------------------------------------------
\* The service (pair_generation_authorization_service.py).

\* idx_dm_pair_one_issued_challenge: a pair has one outstanding challenge, and a
\* request with another id is a pair_generation_challenge_conflict until it
\* expires.
NoneOutstanding(pair) == \A r \in Requests : Outstanding(srv, r) => srv.pairOf[r] # pair

\* create_generation_challenge and _issue_challenge: a repeated request is
\* answered only while its challenge is issued and alive.
CanIssueChallenge(request, hostSig, androidSig) ==
    /\ srv.pair = request.pair
    /\ Verifies(srv.pair.host, request, hostSig)
    /\ Verifies(srv.pair.android, request, androidSig)
    /\ \/ srv.chal[request.req] = "none" /\ NoneOutstanding(request.pair)
       \/ /\ srv.chal[request.req] = "issued"
          /\ srv.pairOf[request.req] = request.pair
          /\ request.req \notin srv.expired

IssueChallenge(request) ==
    [srv EXCEPT !.chal[request.req] = "issued", !.pairOf[request.req] = request.pair]

ServerNonce(request) == [nonceOf |-> request]

\* issue_generation_credential and _allocate_generation: one allocation per
\* request, repeated only for the very same proposal.
CanAllocate(request, proposal, hostSig, androidSig) ==
    LET proof == FinalProof(request, ServerNonce(request), proposal)
        r == request.req
    IN  /\ srv.pair = request.pair /\ srv.pairOf[r] = request.pair
        /\ Verifies(srv.pair.host, proof, hostSig)
        /\ Verifies(srv.pair.android, proof, androidSig)
        /\ \/ srv.chal[r] = "issued" /\ r \notin srv.expired /\ srv.hw < MaxGen
           \/ srv.chal[r] = "consumed" /\ srv.alloc[r].proposal = proposal

AllocateGeneration(request, proposal) ==
    LET r == request.req
    IN  IF srv.alloc[r] # None THEN srv
        ELSE [srv EXCEPT !.hw = @ + 1, !.chal[r] = "consumed",
                         !.alloc[r] = [gen |-> srv.hw + 1, proposal |-> proposal]]

CredentialFor(s, request, proposal) ==
    Credential(request.req, request.pair, s.alloc[request.req].gen, proposal.conn, proposal)

\* Time passes for a challenge.  While an attempt uses it that is a fault.
ExpireChallenge(r) ==
    /\ srv.chal[r] # "none" /\ r \notin srv.expired
    /\ Spend(\A p \in Phones : phone[p].policy.req = r => phone[p].cpc \in {"idle", "confirmed"})
    /\ srv' = IF \E p \in Phones : phone[p].policy.req = r
              THEN [srv EXCEPT !.expired = @ \union {r}]
              ELSE Discard(srv, r)
    /\ UNCHANGED <<hostUp, store, ctl, fp, session, conn, phone, agreed>>

-----------------------------------------------------------------------------
\* The phone's choice of request id (PairGenerationChallengeReplayPolicy).
ReplaySafe == {"host_hello", "host_challenge_proof", "host_final_proof"}

MustRotate(ph) ==
    \/ ph.policy.req = None
    \/ ph.policy.pair # ph.ent
    \/ ph.policy.expiry /\ ph.policy.req \in srv.expired

PolicyBegin(ph, fresh) ==
    IF MustRotate(ph) THEN [pair |-> ph.ent, req |-> fresh, expiry |-> FALSE] ELSE ph.policy

PolicyFailed(ph) ==
    IF /\ ph.policy.expiry \/ ph.challenge
       /\ ph.policy.req \notin srv.expired
       /\ ph.cpc \in ReplaySafe
    THEN [ph.policy EXCEPT !.expiry = TRUE]
    ELSE IdlePolicy

ClearHandshake(ph) ==
    [ph EXCEPT !.cpc = "idle", !.an = None, !.hn = None, !.challenge = FALSE,
               !.cred = None, !.transcript = None]

PhoneFailed(ph) == [ClearHandshake(ph) EXCEPT !.policy = PolicyFailed(ph)]

\* The request the policy lets go of, if it does.
Dropped(p, s) == IF PolicyFailed(phone[p]) = IdlePolicy THEN Forget(s, phone[p].policy.req) ELSE s

\* handleAuthenticatedControlFailure
PhoneControlFails(p, ok) ==
    /\ phone[p].cpc \notin {"idle", "confirmed"}
    /\ Spend(ok)
    /\ conn' = PhoneCloses("control", p)
    /\ phone' = [phone EXCEPT ![p] = PhoneFailed(@)]
    /\ srv' = Dropped(p, srv)
    /\ UNCHANGED <<hostUp, store, ctl, fp, session, agreed>>

\* The Host has closed and left nothing to read, or the phone gives up.
PhoneReadFails(p) ==
    \/ /\ ~conn["control"][p].host /\ NothingFromHost("control", p)
       /\ PhoneControlFails(p, TRUE)
    \/ PhoneControlFails(p, FALSE)

-----------------------------------------------------------------------------
\* The bound control service of the Host.  The worker reads a record, lets the
\* coordinator of the candidate answer it and writes the answer; any refusal
\* burns the coordinator and closes the connection.

Burn == /\ ctl' = [ctl EXCEPT !.c = IdleCoordinator]
        /\ conn' = HostCloses("control", ctl.c.peer)

\* HostAuthenticatedControlCoordinatorV1::create refuses a pair that is not
\* bound to the identity of this Host.
ConfigurationValid(b) ==
    /\ b.pair.host = HostKey
    /\ b.pair.rev > 0 /\ b.pair.revoc > 0
    /\ b.pair.host # b.pair.android

\* accept_bound_pair_candidate, create and start.  Both ends draw their nonce.
ConnectControl(p, ok) ==
    /\ phone[p].cpc = "idle" /\ phone[p].ent # None
    /\ hostUp /\ ctl.running /\ ctl.c.pc = "accept"
    /\ conn["control"][p] = NoConn
    /\ MustRotate(phone[p]) => FreshRequests # {}
    /\ Cardinality(FreshNonces({})) > 1
    /\ Spend(ok)
    /\ LET an == Min(FreshNonces({}))
           hn == Min(FreshNonces({an}))
       IN  /\ phone' = [phone EXCEPT ![p].cpc = "host_hello", ![p].an = an,
                                     ![p].policy = PolicyBegin(phone[p], Min(FreshRequests))]
           /\ srv' = IF MustRotate(phone[p]) THEN Forget(srv, phone[p].policy.req) ELSE srv
           /\ IF ok /\ ConfigurationValid(ctl.pair)
              THEN /\ ctl' = [ctl EXCEPT !.c.pc = "challenge", !.c.peer = p, !.c.own = ctl.pair, !.c.hn = hn]
                   /\ conn' = [conn EXCEPT !["control"][p] =
                         [host |-> TRUE, phone |-> TRUE,
                          wire |-> EncodeRecord("host_hello", [host |-> HostKey, hn |-> hn])]]
              ELSE /\ conn' = [conn EXCEPT !["control"][p] =
                         [host |-> FALSE, phone |-> TRUE, wire |-> None]]
                   /\ UNCHANGED ctl
    /\ UNCHANGED <<hostUp, store, fp, session, agreed>>

\* accept_inbound_payload: the record in the sequence, or nothing.
SequenceIndex(pc) ==
    CASE pc = "challenge" -> 2 [] pc = "server" -> 4 [] pc = "credential" -> 6 [] OTHER -> 8

HostReads(pc, type) ==
    /\ hostUp /\ ctl.c.pc = pc
    /\ Advances(SequenceIndex(pc), type)
    /\ conn["control"][ctl.c.peer].host /\ Carries("control", ctl.c.peer, type)

\* A refused record, a write that fails or a signature the identity key does
\* not give.
HostRefuses == /\ Burn
               /\ UNCHANGED <<hostUp, store, fp, session, phone, srv, agreed>>

HostAnswers(type, body) ==
    /\ conn' = Send("control", ctl.c.peer, type, body)
    /\ UNCHANGED <<hostUp, store, fp, session, phone, srv, agreed>>

\* What the Host's signers build from what the coordinator holds and sign with
\* the identity key; one that fails is a refusal.
SignedChallenge(request) == Sign(HostKey, request)
SignedFinalProof(request, proposal) ==
    Sign(HostKey, FinalProof(request, ServerNonce(request), proposal))
SignedTranscript(t) == Sign(HostKey, t)

AcceptAndroidChallengeRequest(ok) ==
    /\ HostReads("challenge", "android_challenge_request")
    /\ Spend(ok)
    /\ LET m == Wire("control", ctl.c.peer).body
       IN  IF /\ ok
              /\ m.request.pair = ctl.c.own.pair
              /\ Verifies(ctl.c.own.pair.android, m.request, m.sig)
           THEN /\ ctl' = [ctl EXCEPT !.c.pc = "server", !.c.an = m.an, !.c.req = m.request.req]
                /\ HostAnswers("host_challenge_proof", SignedChallenge(m.request))
           ELSE HostRefuses

HostProposal ==
    LET request == ChallengeRequest(ctl.c.req, ctl.c.own.pair)
    IN  ProposalFields(ctl.c.own.pair, ctl.c.hn, ctl.c.an,
            ConnectionId(ServerNonce(request), ctl.c.req, ctl.c.hn, ctl.c.an, ctl.c.own.pair))

AcceptServerChallenge(ok) ==
    /\ HostReads("server", "server_challenge")
    /\ Spend(ok)
    /\ LET request == ChallengeRequest(ctl.c.req, ctl.c.own.pair)
       IN  IF ok /\ ctl.c.req \notin srv.expired /\ ValidProposal(HostProposal)
           THEN /\ ctl' = [ctl EXCEPT !.c.pc = "credential", !.c.proposal = HostProposal]
                /\ HostAnswers("host_final_proof", SignedFinalProof(request, HostProposal))
           ELSE HostRefuses

\* What the Host asks of a credential; the mutant insists on the generation
\* that follows the last one it used.
CredentialAcceptedNextOnly(cred) == cred.gen = ctl.c.own.hwm + 1

CredentialAccepted(cred) ==
    /\ cred.gen > ctl.c.own.hwm
    /\ ClaimsValid(cred)
    /\ ClaimsMatchExpected(cred, ctl.c.req, ctl.c.own.pair, cred.gen,
                           ctl.c.proposal.conn, ctl.c.proposal)

AcceptPairGenerationCredential(ok) ==
    /\ HostReads("credential", "pair_generation_credential")
    /\ Spend(ok)
    /\ LET cred == Wire("control", ctl.c.peer).body
           t == Transcript(ctl.c.proposal, cred.gen)
       IN  IF ok /\ CredentialAccepted(cred) /\ ValidTranscript(t)
           THEN /\ ctl' = [ctl EXCEPT !.c.pc = "confirmation", !.c.transcript = t,
                                      !.c.proposal = None, !.c.req = None]
                /\ HostAnswers("host_handshake_signature", SignedTranscript(t))
           ELSE HostRefuses

AcceptAndroidHandshakeConfirmation(ok) ==
    /\ HostReads("confirmation", "android_handshake_confirmation")
    /\ Spend(ok)
    /\ LET m == Wire("control", ctl.c.peer).body
       IN  IF /\ ok
              /\ Verifies(ctl.c.own.pair.android, ctl.c.transcript, m.sig)
              /\ ConfirmPeerFinished("host", ctl.c.transcript, m.mac)
           THEN /\ ctl' = [ctl EXCEPT !.c.pc = "commit"]
                /\ conn' = [conn EXCEPT !["control"][ctl.c.peer].wire = None]
                /\ UNCHANGED <<hostUp, store, fp, session, phone, srv, agreed>>
           ELSE HostRefuses

\* Mutant: Host Finished leaves although the generation is not on disk.
GenerationCommitLost(ok) ==
    /\ hostUp /\ ctl.c.pc = "commit"
    /\ Spend(ok)
    /\ ctl' = [ctl EXCEPT !.c.pc = "finish"]
    /\ store' = CommitGeneration(store, ctl.c.own, ctl.c.transcript.gen, ok).file
    /\ UNCHANGED <<hostUp, fp, session, conn, phone, srv, agreed>>

\* generation_commit: the generation is durable before Host Finished leaves.
GenerationCommit(ok) ==
    /\ hostUp /\ ctl.c.pc = "commit"
    /\ Spend(ok)
    /\ LET r == CommitGeneration(store, ctl.c.own, ctl.c.transcript.gen, ok)
       IN  /\ store' = r.file
           /\ IF r.done THEN ctl' = [ctl EXCEPT !.c.pc = "finish"] /\ UNCHANGED conn
                        ELSE Burn
    /\ UNCHANGED <<hostUp, fp, session, phone, srv, agreed>>

WriteHostFinished(ok) ==
    /\ hostUp /\ ctl.c.pc = "finish"
    /\ Spend(ok)
    /\ IF ok /\ conn["control"][ctl.c.peer].host
       THEN /\ ctl' = [ctl EXCEPT !.c.pc = "install"]
            /\ HostAnswers("host_finished", FinishedMac("host", ctl.c.transcript))
       ELSE HostRefuses

\* session_commit hands the connection to the authorization coordinator; the
\* mark of the service moves last.
SessionCommit(ok) ==
    /\ hostUp /\ ctl.c.pc = "install"
    /\ Spend(ok)
    /\ IF ok
       THEN /\ session' = [pair |-> ctl.c.own.pair, gen |-> ctl.c.transcript.gen,
                           transcript |-> ctl.c.transcript]
            /\ ctl' = [ctl EXCEPT !.c = IdleCoordinator, !.pair.hwm = ctl.c.transcript.gen]
       ELSE /\ ctl' = [ctl EXCEPT !.c = IdleCoordinator]
            /\ UNCHANGED session
    /\ conn' = HostCloses("control", ctl.c.peer)
    /\ UNCHANGED <<hostUp, store, fp, phone, srv, agreed>>

\* The Host waits for a record of a phone that has gone, or runs out of time.
HostReadFails ==
    /\ hostUp /\ ctl.c.pc \in {"challenge", "server", "credential", "confirmation"}
    /\ \/ /\ ~conn["control"][ctl.c.peer].phone /\ NothingFromPhone("control", ctl.c.peer)
          /\ Spend(TRUE)
       \/ ~conn["control"][ctl.c.peer].host /\ Spend(TRUE)
       \/ Spend(FALSE)
    /\ HostRefuses

-----------------------------------------------------------------------------
\* The phone's side of the control handshake (AuthenticatedPairingHandshake).

PhoneReads(p, stage, type) ==
    /\ phone[p].cpc = stage
    /\ conn["control"][p].phone /\ Carries("control", p, type)

PhoneRequest(p) == ChallengeRequest(phone[p].policy.req, phone[p].ent)

PhoneProposal(p) ==
    LET request == PhoneRequest(p)
    IN  ProposalFields(phone[p].ent, phone[p].hn, phone[p].an,
            ConnectionId(ServerNonce(request), request.req, phone[p].hn, phone[p].an, phone[p].ent))

\* The attempt ends here and the connection with it.
PhoneGivesUp(p, s) ==
    /\ phone' = [phone EXCEPT ![p] = PhoneFailed(@)]
    /\ conn' = PhoneCloses("control", p)
    /\ srv' = Dropped(p, s)

PhoneSends(p, ph, type, body, s) ==
    /\ phone' = [phone EXCEPT ![p] = ph]
    /\ conn' = Send("control", p, type, body)
    /\ srv' = s

AcceptHostHello(p) ==
    /\ PhoneReads(p, "host_hello", "host_hello")
    /\ LET m == Wire("control", p).body
       IN  IF m.host = phone[p].ent.host
           THEN PhoneSends(p, [phone[p] EXCEPT !.hn = m.hn, !.cpc = "host_challenge_proof"],
                    "android_challenge_request",
                    [request |-> PhoneRequest(p), sig |-> Sign(p, PhoneRequest(p)),
                     an |-> phone[p].an], srv)
           ELSE PhoneGivesUp(p, srv)
    /\ UNCHANGED <<hostUp, store, ctl, fp, session, faults, agreed>>

\* The service answers, or its answer is lost on the way.
AcceptHostChallengeProof(p, ok) ==
    /\ PhoneReads(p, "host_challenge_proof", "host_challenge_proof")
    /\ Spend(ok)
    /\ LET issue == CanIssueChallenge(PhoneRequest(p), Wire("control", p).body,
                                      Sign(p, PhoneRequest(p)))
           s == IF issue THEN IssueChallenge(PhoneRequest(p)) ELSE srv
       IN  IF issue /\ ok
           THEN PhoneSends(p, [phone[p] EXCEPT !.challenge = TRUE, !.cpc = "host_final_proof"],
                    "server_challenge", [req |-> phone[p].policy.req], s)
           ELSE PhoneGivesUp(p, s)
    /\ UNCHANGED <<hostUp, store, ctl, fp, session, agreed>>

AcceptHostFinalProof(p, ok) ==
    /\ PhoneReads(p, "host_final_proof", "host_final_proof")
    /\ Spend(ok)
    /\ LET request == PhoneRequest(p)
           proposal == PhoneProposal(p)
           allocate == CanAllocate(request, proposal, Wire("control", p).body,
                           Sign(p, FinalProof(request, ServerNonce(request), proposal)))
           s == IF allocate THEN AllocateGeneration(request, proposal) ELSE srv
       IN  IF allocate /\ ok
           THEN LET cred == CredentialFor(s, request, proposal)
                IN  PhoneSends(p, [phone[p] EXCEPT !.cred = cred, !.cpc = "host_handshake_signature"],
                        "pair_generation_credential", cred, s)
           ELSE PhoneGivesUp(p, s)
    /\ UNCHANGED <<hostUp, store, ctl, fp, session, agreed>>

AcceptHostHandshakeSignature(p) ==
    /\ PhoneReads(p, "host_handshake_signature", "host_handshake_signature")
    /\ LET t == Transcript(phone[p].cred.proposal, phone[p].cred.gen)
       IN  IF Verifies(phone[p].ent.host, t, Wire("control", p).body)
           THEN PhoneSends(p, [phone[p] EXCEPT !.transcript = t, !.cpc = "host_finished"],
                    "android_handshake_confirmation",
                    [sig |-> Sign(p, t), mac |-> FinishedMac("android", t)], srv)
           ELSE PhoneGivesUp(p, srv)
    /\ UNCHANGED <<hostUp, store, ctl, fp, session, faults, agreed>>

AcceptHostFinished(p) ==
    /\ PhoneReads(p, "host_finished", "host_finished")
    /\ IF ConfirmPeerFinished("android", phone[p].transcript, Wire("control", p).body)
       THEN /\ phone' = [phone EXCEPT ![p] = [ClearHandshake(@) EXCEPT
                              !.cpc = "confirmed", !.transcript = phone[p].transcript,
                              !.policy = IdlePolicy]]
            /\ srv' = Forget(srv, phone[p].policy.req)
            /\ conn' = [conn EXCEPT !["control"][p] =
                            IF @.host THEN [@ EXCEPT !.wire = None] ELSE NoConn]
       ELSE PhoneGivesUp(p, srv)
    /\ UNCHANGED <<hostUp, store, ctl, fp, session, faults, agreed>>

\* Either end finds the established channel dead.  It costs a fault unless the
\* other end has really gone.
PhoneDropsChannel(p) ==
    /\ phone[p].cpc = "confirmed"
    /\ Spend(/\ session = None \/ session.transcript # phone[p].transcript
             /\ ctl.c.transcript # phone[p].transcript)
    /\ phone' = [phone EXCEPT ![p] = ClearHandshake(@)]
    /\ conn' = PhoneCloses("control", p)
    /\ UNCHANGED <<hostUp, store, ctl, fp, session, srv, agreed>>

HostDropsChannel ==
    /\ session # None
    /\ Spend(\A p \in Phones : phone[p].transcript # session.transcript)
    /\ session' = None
    /\ UNCHANGED <<hostUp, store, ctl, fp, conn, phone, srv, agreed>>

-----------------------------------------------------------------------------
\* First pairing: the Host's worker, its coordinator and the phone's.

\* The candidate is over: the coordinator is closed, then the connection.
EndCandidate == /\ fp' = [fp EXCEPT !.c = IdleFirstPair]
                /\ conn' = HostCloses("first_pair", fp.c.peer)

\* The Host reads a record of the phone, or fails the candidate.
FirstPairReads(pc, type) ==
    /\ hostUp /\ fp.c.pc = pc
    /\ conn["first_pair"][fp.c.peer].host /\ Carries("first_pair", fp.c.peer, type)

FirstPairStep(good, next, c) ==
    IF good THEN fp' = [fp EXCEPT !.c = next] /\ conn' = c ELSE EndCandidate

\* accept_untrusted_first_pair and create: the Host offers.
ConnectFirstPair(p) ==
    /\ hostUp /\ fp.running /\ fp.c.pc = "accept"
    /\ phone[p].fpc = "idle" /\ phone[p].ent = None /\ phone[p].cpc = "idle"
    /\ conn["first_pair"][p] = NoConn
    /\ fp' = [fp EXCEPT !.c.pc = "offer", !.c.peer = p]
    /\ phone' = [phone EXCEPT ![p].fpc = "host_offer"]
    /\ conn' = [conn EXCEPT !["first_pair"][p] =
           [host |-> TRUE, phone |-> TRUE, wire |-> EncodeRecord("host_first_pair_offer", [identity |-> HostKey])]]
    /\ UNCHANGED <<hostUp, store, ctl, session, srv, faults, agreed>>

AcceptAndroidOffer(ok) ==
    /\ FirstPairReads("offer", "android_first_pair_offer")
    /\ Spend(ok)
    /\ LET key == Wire("first_pair", fp.c.peer).body.identity
       IN  FirstPairStep(ok /\ key # HostKey, [fp.c EXCEPT !.pc = "user", !.android = key],
                         [conn EXCEPT !["first_pair"][fp.c.peer].wire = None])
    /\ UNCHANGED <<hostUp, store, ctl, session, phone, srv, agreed>>

\* The dialog of the Host, then confirm_local_user.
ConfirmLocalUser(yes) ==
    /\ hostUp /\ fp.c.pc = "user"
    /\ Spend(yes)
    /\ FirstPairStep(yes /\ conn["first_pair"][fp.c.peer].host,
                     [fp.c EXCEPT !.pc = "confirmation"],
                     Send("first_pair", fp.c.peer, "host_first_pair_confirmation",
                          Sign(HostKey, UserConfirmation("host", HostKey, fp.c.android))))
    /\ agreed' = IF yes THEN agreed \union {<<"host", fp.c.android>>} ELSE agreed
    /\ UNCHANGED <<hostUp, store, ctl, session, phone, srv>>

AcceptAndroidUserConfirmation(ok) ==
    /\ FirstPairReads("confirmation", "android_first_pair_confirmation")
    /\ Spend(ok)
    /\ FirstPairStep(/\ ok
                     /\ Verifies(fp.c.android, UserConfirmation("android", HostKey, fp.c.android),
                                 Wire("first_pair", fp.c.peer).body),
                     [fp.c EXCEPT !.pc = "proof"],
                     [conn EXCEPT !["first_pair"][fp.c.peer].wire = None])
    /\ UNCHANGED <<hostUp, store, ctl, session, phone, srv, agreed>>

AcceptActivationProofRequest(ok) ==
    /\ FirstPairReads("proof", "activation_proof_request")
    /\ Spend(ok)
    /\ LET proof == Wire("first_pair", fp.c.peer).body
       IN  FirstPairStep(ok /\ proof.host = HostKey /\ proof.android = fp.c.android,
                         [fp.c EXCEPT !.pc = "result", !.rev = proof.rev],
                         Send("first_pair", fp.c.peer, "host_activation_signature", Sign(HostKey, proof)))
    /\ UNCHANGED <<hostUp, store, ctl, session, phone, srv, agreed>>

AcceptActivationResult(ok) ==
    /\ FirstPairReads("result", "activation_result")
    /\ Spend(ok)
    /\ LET result == Wire("first_pair", fp.c.peer).body
       IN  FirstPairStep(ok /\ result.rev = fp.c.rev,
                         [fp.c EXCEPT !.pc = "persist",
                              !.binding = Binding(Pair(result.ent, result.rev, result.revoc,
                                                       HostKey, fp.c.android), 0)],
                         [conn EXCEPT !["first_pair"][fp.c.peer].wire = None])
    /\ UNCHANGED <<hostUp, store, ctl, session, phone, srv, agreed>>

\* commit_server_authorized_pair_and_listen: the file first, ...
BindingCommit(ok) ==
    /\ hostUp /\ fp.c.pc = "persist"
    /\ Spend(ok)
    /\ LET r == CommitServerAuthorizedRebinding(store, fp.c.binding, ok)
       IN  /\ store' = r.file
           /\ FirstPairStep(r.done, [fp.c EXCEPT !.pc = "stop"], conn)
    /\ UNCHANGED <<hostUp, ctl, session, phone, srv, agreed>>

\* ... then HostAuthenticatedControlServiceV1::stop closes the candidate's
\* connection and joins the worker, ...
StopControl ==
    /\ hostUp /\ fp.c.pc = "stop"
    /\ fp' = [fp EXCEPT !.c.pc = "join"]
    /\ ctl' = [ctl EXCEPT !.running = FALSE]
    /\ conn' = IF ctl.c.peer = None THEN conn ELSE HostCloses("control", ctl.c.peer)
    /\ UNCHANGED <<hostUp, store, session, phone, srv, faults, agreed>>

\* ... the authorization is closed and the control service starts with the
\* binding it was handed, whose mark is zero.
RestartControl(ok) ==
    /\ hostUp /\ fp.c.pc = "join" /\ ctl.c.pc = "accept"
    /\ Spend(ok)
    /\ session' = None
    /\ ctl' = IF ok THEN [running |-> TRUE, pair |-> fp.c.binding, c |-> IdleCoordinator]
                    ELSE [ctl EXCEPT !.running = FALSE]
    /\ FirstPairStep(ok, [fp.c EXCEPT !.pc = "complete"], conn)
    /\ UNCHANGED <<hostUp, store, phone, srv, agreed>>

WriteComplete(ok) ==
    /\ hostUp /\ fp.c.pc = "complete"
    /\ Spend(ok)
    /\ fp' = [fp EXCEPT !.c = IdleFirstPair]
    /\ conn' = LET c == IF ok THEN Send("first_pair", fp.c.peer, "first_pair_complete",
                                         [commitment |-> Commitment(HostKey, fp.c.android)]) ELSE conn
               IN  [c EXCEPT !["first_pair"][fp.c.peer] =
                       IF @.phone THEN [@ EXCEPT !.host = FALSE] ELSE NoConn]
    /\ UNCHANGED <<hostUp, store, ctl, session, phone, srv, agreed>>

\* The Host waits for a phone that has gone, or runs out of time.
FirstPairReadFails ==
    /\ hostUp /\ fp.c.pc \in {"offer", "confirmation", "proof", "result"}
    /\ Spend(/\ ~conn["first_pair"][fp.c.peer].phone
             /\ NothingFromPhone("first_pair", fp.c.peer))
    /\ EndCandidate
    /\ UNCHANGED <<hostUp, store, ctl, session, phone, srv, agreed>>

\* AndroidFirstPairingCoordinatorV1.connectConfirmAndInstall
PhoneOffers(p) ==
    /\ phone[p].fpc = "host_offer" /\ Carries("first_pair", p, "host_first_pair_offer")
    /\ phone' = [phone EXCEPT ![p].fpc = "user"]
    /\ conn' = Send("first_pair", p, "android_first_pair_offer", [identity |-> p])
    /\ UNCHANGED <<hostUp, store, ctl, fp, session, srv, faults, agreed>>

\* The user has compared the codes and the Host's confirmation has come.
PhoneConfirms(p) ==
    /\ phone[p].fpc = "user" /\ Carries("first_pair", p, "host_first_pair_confirmation")
    /\ Verifies(HostKey, UserConfirmation("host", HostKey, p), Wire("first_pair", p).body)
    /\ agreed' = agreed \union {<<"android", p>>}
    /\ phone' = [phone EXCEPT ![p].fpc = "confirmed"]
    /\ conn' = Send("first_pair", p, "android_first_pair_confirmation",
                    Sign(p, UserConfirmation("android", HostKey, p)))
    /\ UNCHANGED <<hostUp, store, ctl, fp, session, srv, faults>>

\* signActivationConfirmation: the Host is asked to sign the activation the
\* service has prepared, a binding with the next revision.
PhoneRequestsProof(p) ==
    /\ phone[p].fpc = "confirmed" /\ Wire("first_pair", p) = None
    /\ srv.pair = None /\ srv.rev < MaxRev
    /\ phone' = [phone EXCEPT ![p].fpc = "activating"]
    /\ conn' = Send("first_pair", p, "activation_proof_request",
                    [host |-> HostKey, android |-> p, rev |-> srv.rev + 1])
    /\ UNCHANGED <<hostUp, store, ctl, fp, session, srv, faults, agreed>>

\* The service activates and the phone passes the result on; or the answer of
\* the service is lost and the phone learns of its entitlement later.
PhoneActivates(p, ok) ==
    /\ phone[p].fpc = "activating" /\ Carries("first_pair", p, "host_activation_signature")
    /\ Spend(ok)
    /\ LET sig == Wire("first_pair", p).body
           proof == [host |-> HostKey, android |-> p, rev |-> srv.rev + 1]
           new == Pair(Ent, srv.rev + 1, 1, HostKey, p)
       IN  IF srv.pair = None /\ Verifies(HostKey, proof, sig)
           THEN /\ srv' = [srv EXCEPT !.pair = new, !.rev = @ + 1, !.hw = 0]
                /\ phone' = [phone EXCEPT ![p].ent = new, ![p].fpc = IF ok THEN "complete" ELSE "idle"]
                /\ conn' = IF ok THEN Send("first_pair", p, "activation_result",
                                          [ent |-> Ent, rev |-> new.rev, revoc |-> new.revoc])
                                 ELSE PhoneCloses("first_pair", p)
           ELSE /\ phone' = [phone EXCEPT ![p].fpc = "idle"]
                /\ conn' = PhoneCloses("first_pair", p)
                /\ UNCHANGED srv
    /\ UNCHANGED <<hostUp, store, ctl, fp, session, agreed>>

PhoneCompletes(p) ==
    /\ phone[p].fpc = "complete" /\ Carries("first_pair", p, "first_pair_complete")
    /\ Wire("first_pair", p).body.commitment = Commitment(HostKey, p)
    /\ phone' = [phone EXCEPT ![p].fpc = "idle"]
    /\ conn' = [conn EXCEPT !["first_pair"][p] = NoConn]
    /\ UNCHANGED <<hostUp, store, ctl, fp, session, srv, faults, agreed>>

\* Any failure ends the attempt: the Host has gone, or the phone's user says no.
PhoneFirstPairFails(p) ==
    /\ phone[p].fpc # "idle"
    /\ Spend(~conn["first_pair"][p].host /\ NothingFromHost("first_pair", p))
    /\ phone' = [phone EXCEPT ![p].fpc = "idle"]
    /\ conn' = PhoneCloses("first_pair", p)
    /\ UNCHANGED <<hostUp, store, ctl, fp, session, srv, agreed>>

-----------------------------------------------------------------------------
\* The administrator unbinds the card; the phone learns of it from the service.
UnbindDevice ==
    /\ srv.pair # None /\ srv.rev < MaxRev
    /\ srv' = [srv EXCEPT !.pair = None]
    /\ UNCHANGED <<hostUp, store, ctl, fp, session, conn, phone, faults, agreed>>

PhoneLearnsUnbound(p) ==
    /\ phone[p].ent # None /\ phone[p].ent # srv.pair
    /\ phone[p].fpc = "idle" /\ phone[p].cpc \in {"idle", "confirmed"}
    /\ phone' = [phone EXCEPT ![p] = [ClearHandshake(@) EXCEPT !.ent = None]]
    /\ conn' = PhoneCloses("control", p)
    /\ UNCHANGED <<hostUp, store, ctl, fp, session, srv, faults, agreed>>

-----------------------------------------------------------------------------
\* HostRuntimeFacade: the pair of services starts from the state file.
HostStart ==
    /\ ~hostUp
    /\ hostUp' = TRUE
    /\ fp' = [running |-> TRUE, c |-> IdleFirstPair]
    /\ ctl' = IF store # None
              THEN [running |-> TRUE, pair |-> store, c |-> IdleCoordinator]
              ELSE [running |-> FALSE, pair |-> None, c |-> IdleCoordinator]
    /\ UNCHANGED <<store, session, conn, phone, srv, faults, agreed>>

\* start_authenticated_control on a Host that runs already: the control service
\* of the stored pair starts when it does not run and no channel is held.  The
\* lock security_lifecycle_mutex keeps it apart from a replacement.
StartControlAgain ==
    /\ hostUp /\ store # None /\ session = None
    /\ ~ctl.running /\ fp.c.pc # "join"
    /\ ctl' = [running |-> TRUE, pair |-> store, c |-> IdleCoordinator]
    /\ UNCHANGED <<hostUp, store, fp, session, conn, phone, srv, faults, agreed>>

\* The process ends, in whatever step it was, and its sockets with it.
HostEnds ==
    /\ hostUp' = FALSE
    /\ fp' = [running |-> FALSE, c |-> IdleFirstPair]
    /\ ctl' = [running |-> FALSE, pair |-> None, c |-> IdleCoordinator]
    /\ session' = None
    /\ conn' = [s \in Ports |-> [p \in Phones |->
                    IF conn[s][p].phone THEN [conn[s][p] EXCEPT !.host = FALSE] ELSE NoConn]]
    /\ UNCHANGED <<store, phone, srv, agreed>>

\* A crash, or stop_security_services: both cost one of the bound.
HostCrash == hostUp /\ Spend(FALSE) /\ HostEnds

\* host_pair_binding_import_v1: the tool of a fresh installation.
ImportBinding ==
    /\ srv.pair # None /\ srv.pair.host = HostKey
    /\ Spend(FALSE)
    /\ store' = CommitInitialBinding(store, Binding(srv.pair, 0), TRUE).file
    /\ store' # store
    /\ UNCHANGED <<hostUp, ctl, fp, session, conn, phone, srv, agreed>>

-----------------------------------------------------------------------------
HostControlStep(ok) ==
    \/ AcceptAndroidChallengeRequest(ok) \/ AcceptServerChallenge(ok)
    \/ AcceptPairGenerationCredential(ok) \/ AcceptAndroidHandshakeConfirmation(ok)
    \/ GenerationCommit(ok) \/ WriteHostFinished(ok) \/ SessionCommit(ok)

FirstPairHostStep(ok) ==
    \/ AcceptAndroidOffer(ok) \/ ConfirmLocalUser(ok) \/ AcceptAndroidUserConfirmation(ok)
    \/ AcceptActivationProofRequest(ok) \/ AcceptActivationResult(ok)
    \/ BindingCommit(ok) \/ RestartControl(ok) \/ WriteComplete(ok)

PhoneControlStep(p) ==
    \/ AcceptHostHello(p) \/ AcceptHostChallengeProof(p, TRUE) \/ AcceptHostFinalProof(p, TRUE)
    \/ AcceptHostHandshakeSignature(p) \/ AcceptHostFinished(p)

PhoneFirstPairStep(p) ==
    \/ PhoneOffers(p) \/ PhoneConfirms(p) \/ PhoneRequestsProof(p) \/ PhoneCompletes(p)

PairingNext ==
    \/ \E ok \in BOOLEAN : HostControlStep(ok)
    \/ \E ok \in BOOLEAN : FirstPairHostStep(ok)
    \/ HostReadFails \/ FirstPairReadFails \/ StopControl
    \/ HostStart \/ StartControlAgain \/ HostCrash \/ ImportBinding \/ HostDropsChannel \/ UnbindDevice
    \/ \E r \in Requests : ExpireChallenge(r)
    \/ \E p \in Phones :
          \/ PhoneControlStep(p) \/ PhoneFirstPairStep(p)
          \/ AcceptHostChallengeProof(p, FALSE) \/ AcceptHostFinalProof(p, FALSE)
          \/ ConnectFirstPair(p) \/ PhoneFirstPairFails(p) \/ PhoneReadFails(p)
          \/ PhoneDropsChannel(p) \/ PhoneLearnsUnbound(p)
          \/ \E ok \in BOOLEAN : ConnectControl(p, ok) \/ PhoneActivates(p, ok)

\* The workers and the phones go on while nothing fails, a read ends when its
\* peer has gone, time passes, and a phone that keeps connecting is accepted:
\* the listen queue is served in order.
PairingFairness ==
    /\ WF_pairingVars(HostStart)
    /\ WF_pairingVars(HostControlStep(TRUE)) /\ WF_pairingVars(FirstPairHostStep(TRUE)) /\ WF_pairingVars(StopControl)
    /\ WF_pairingVars(HostReadFails /\ faults' = faults)
    /\ \A p \in Phones :
          /\ WF_pairingVars(PhoneControlStep(p)) /\ WF_pairingVars(PhoneReadFails(p) /\ faults' = faults)
          /\ SF_pairingVars(ConnectControl(p, TRUE))
    /\ \A r \in Requests : SF_pairingVars(ExpireChallenge(r) /\ faults' = faults)

PairingSpec == PairingInit /\ [][PairingNext]_pairingVars /\ PairingFairness

-----------------------------------------------------------------------------
\* Every variable has its type, and a worker that waits for a candidate keeps
\* nothing of the one before: no nonce, proposal or transcript.
PairingTypeOK ==
    /\ hostUp \in BOOLEAN
    /\ store \in Bindings \union {None}
    /\ ctl.running \in BOOLEAN /\ ctl.c.peer \in Phones \union {None}
    /\ ctl.c.pc = "accept" => ctl.c = IdleCoordinator
    /\ fp.running \in BOOLEAN /\ fp.c.peer \in Phones \union {None}
    /\ fp.c.pc = "accept" => fp.c = IdleFirstPair
    /\ DOMAIN conn = Ports /\ DOMAIN phone = Phones
    /\ srv.rev \in 0..MaxRev /\ srv.hw \in 0..MaxGen
    /\ faults \in 0..MaxFaults

\* The record of the Host only moves forward (host_pair_binding_store_v1.cpp):
\* to a later binding of the same card and Host, or to a later generation of
\* the pair it holds, one the service did allocate to that pair.
StoreStep ==
    \/ store = None /\ store'.hwm = 0
    \/ /\ store # None /\ store'.pair = store.pair /\ store'.hwm > store.hwm
       /\ store'.pair = srv.pair => store'.hwm <= srv.hw
    \/ store # None /\ MayRebind(store, store') /\ store'.hwm = 0

StoreMovesForward == [][store' = store \/ StoreStep]_pairingVars

\* The Host is bound only to a phone whose user and whose own user both
\* confirmed the code, by an activation the service made.
BindingWasAgreed ==
    store # None =>
        /\ {<<"host", store.pair.android>>, <<"android", store.pair.android>>} \subseteq agreed
        /\ store.pair.rev <= srv.rev
        /\ store.pair.rev = srv.rev /\ srv.pair # None => store.pair = srv.pair

\* Whoever relies on a channel, the phone or the authorization of the Host,
\* relies on a generation that is durable on the Host, so that no later session
\* of the pair can have it: the commit comes before Host Finished and before
\* session_commit.
Durable(t) == /\ store # None
              /\ \/ store.pair.rev > t.proposal.pair.rev
                 \/ store.pair = t.proposal.pair /\ store.hwm >= t.gen

ChannelIsDurable ==
    /\ \A p \in Phones : phone[p].cpc = "confirmed" => Durable(phone[p].transcript)
    /\ session # None => Durable(session.transcript)

\* The channel the Host acts on belongs to the pair in its file, except while
\* a new binding is stored and the old service is being stopped.
SessionIsStoredPair ==
    session # None => \/ store # None /\ session.pair = store.pair
                      \/ fp.c.pc \in {"stop", "join"}

\* While the Host serves its phone and the service holds the same pair, the
\* phone gets its channel, again and again: no failure leaves it with a request
\* the service refuses for ever (PairGenerationChallengeReplayPolicy).
Serving == /\ hostUp /\ ctl.running
           /\ store # None /\ srv.pair = store.pair
           /\ \E p \in Phones : phone[p].ent = store.pair

ChannelComesBack ==
    (<>[]Serving) => []<>(\E p \in Phones : phone[p].cpc = "confirmed")

\* Both sides stand on the same ground: the binding was agreed by both users,
\* a channel rests on a generation that is on the disk, and the session the
\* Host acts on is one of its stored pair.
PairStands ==
    /\ PairingTypeOK
    /\ BindingWasAgreed
    /\ ChannelIsDurable
    /\ SessionIsStoredPair
=============================================================================
