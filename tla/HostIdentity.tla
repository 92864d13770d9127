---------------------------- MODULE HostIdentity ----------------------------
(***************************************************************************)
(* The Host's persisted signing key (host_cng_device_identity.cpp): the    *)
(* main instance and any number of identity probes (--identity-probe takes *)
(* no instance mutex) open the key of one name, or create it.  Each call   *)
(* of HostCngDeviceIdentity::open_windows is a process of its own here;    *)
(* every call to the key storage provider may fail and every process may   *)
(* be killed between two of them.                                          *)
(*                                                                         *)
(* The provider is external: creating a key reserves its name, a key that  *)
(* was not finalised is visible to nobody and dies with its creator, and a *)
(* deleted key is gone although others may have it open.                   *)
(***************************************************************************)
EXTENDS Naturals, Sequences, FiniteSets

CONSTANTS
    Openers,        \* processes that open the identity
    RaceAttempts,   \* kCreateRaceOpenAttempts
    MaxMinted,      \* how many keys are ever created (bound)
    MaxMishaps,     \* provider calls that fail, kills and edited access lists (bound)
    Edits           \* access lists somebody else may put on the key

ASSUME IdentityAssumption == RaceAttempts \in Nat \ {0} /\ {MaxMinted, MaxMishaps} \subseteq Nat

VARIABLES
    scope,      \* the policy of the build and the account each process runs under
    stored,     \* the key the provider keeps under the name
    opening,    \* per process: where its call is and what it holds
    published,  \* ids of keys whose public identity some process has returned
    minted,     \* keys created so far
    mishaps

identityVars == << scope, stored, opening, published, minted, mishaps >>

Formal == scope.policy = "formal"

-----------------------------------------------------------------------------
(* The access list of a machine key *)

Principals(p) == {"system", "administrators", scope.account[p]}

AllowAll(sid) == [allow |-> TRUE, flags |-> 0, all |-> TRUE, sid |-> sid]

\* SYSTEM, Administrators and the account, each once.
BuildDescriptor(p) ==
    [protected |-> TRUE,
     aces |-> << AllowAll("system"), AllowAll("administrators") >>
              \o (IF scope.account[p] = "system" THEN << >> ELSE << AllowAll(scope.account[p]) >>)]

\* The loop over the entries with its principal_seen flags.
ValidDescriptor(p, d) ==
    /\ d.protected
    /\ Len(d.aces) = Cardinality(Principals(p))
    /\ \A i \in DOMAIN d.aces :
         /\ d.aces[i].allow /\ d.aces[i].flags = 0 /\ d.aces[i].all
         /\ d.aces[i].sid \in Principals(p)
         /\ \A j \in 1 .. i - 1 : d.aces[j].sid # d.aces[i].sid

DefaultDescriptor == [protected |-> FALSE, aces |-> << AllowAll("everyone") >>]

\* The groups an account's token carries: SYSTEM is an administrator.
Groups(account) ==
    {account, "everyone"} \cup (IF account = "system" THEN {"administrators"} ELSE {})

\* The provider opens the stored key only for who is on its access list.
Admits(p) ==
    \E i \in DOMAIN stored.dacl.aces :
        /\ stored.dacl.aces[i].allow
        /\ stored.dacl.aces[i].sid \in Groups(scope.account[p])

-----------------------------------------------------------------------------
NoKey == [state |-> "none"]
Created(id, p) == [state |-> "made", id |-> id, creator |-> p]
Finalised(id) == [state |-> "final", id |-> id, contract |-> TRUE, dacl |-> DefaultDescriptor]

\* A key of that name that something else has created, exportable.
ForeignKey == [state |-> "final", id |-> 0, contract |-> FALSE, dacl |-> DefaultDescriptor]

NotOpen == [pc |-> "off", key |-> 0, contract |-> FALSE, created |-> FALSE, tries |-> 0]

\* What a call that has found the key holds: its handle.
Opened(p) == opening' = [opening EXCEPT ![p].pc = "dacl", ![p].key = stored.id,
                                        ![p].contract = stored.contract]

\* A development key lies with its account, so that its processes are those of
\* one account; a formal one is the machine's.
IdentityInit ==
    /\ scope \in [policy : {"formal", "development"}, account : [Openers -> {"user", "system"}]]
    /\ ~Formal => \A p, q \in Openers : scope.account[p] = scope.account[q]
    /\ stored \in {NoKey, ForeignKey}
    /\ opening = [p \in Openers |-> NotOpen]
    /\ published = {}
    /\ minted = 0
    /\ mishaps = 0

Mishap == mishaps < MaxMishaps /\ mishaps' = mishaps + 1

GoesTo(p, pc) == opening' = [opening EXCEPT ![p].pc = pc]

\* The key that p has open is still the one stored.
Holds(p) == stored.state # "none" /\ stored.id = opening[p].key

\* A call on a key that is gone fails by itself; any other failure is a mishap.
Answered(p, ok) == IF ok \/ ~Holds(p) THEN UNCHANGED mishaps ELSE Mishap

\* The provider refuses the key to who is not on its list, for the asking; any
\* other error is a mishap.
Denied(p) == IF stored.state = "final" /\ ~Admits(p) THEN UNCHANGED mishaps ELSE Mishap

\* What a call does that fails: it deletes the key it has created, and no
\* other; the deletion may fail as well, and then leaves what is there.
CleanUpMutant(p, deleted) ==
    stored' = IF Holds(p) /\ (deleted \/ stored.state = "made")
              THEN NoKey ELSE stored
CleanUp(p, deleted) ==
    stored' = IF /\ opening[p].created /\ Holds(p)
                 /\ deleted \/ stored.state = "made"
              THEN NoKey ELSE stored

Fails(p, deleted) ==
    /\ CleanUp(p, deleted)
    /\ opening' = [opening EXCEPT ![p] = NotOpen]

\* The provider is opened and asked for its type; a machine key needs one
\* that keeps access lists, and the account of the process.
OpenProvider(p, ok) ==
    /\ opening[p].pc = "off"
    /\ IF ok THEN GoesTo(p, "open") /\ UNCHANGED mishaps ELSE Mishap /\ UNCHANGED opening
    /\ UNCHANGED << scope, stored, published, minted >>

\* A key that is still being made reads as missing or as in a bad state, which
\* only the race below takes for a reason to wait.
OpenKey(p, status) ==
    /\ opening[p].pc = "open"
    /\ CASE status = "success"   -> /\ stored.state = "final" /\ Admits(p)
                                    /\ Opened(p)
                                    /\ UNCHANGED << stored, mishaps >>
         [] status = "not_found" -> /\ stored.state # "final"
                                    /\ GoesTo(p, "create")
                                    /\ UNCHANGED << stored, mishaps >>
         [] status = "bad_state" -> /\ stored.state = "made"
                                    /\ Fails(p, TRUE)
                                    /\ UNCHANGED mishaps
         [] status = "error"     -> Denied(p) /\ Fails(p, TRUE)
    /\ UNCHANGED << scope, published, minted >>

CreateKey(p, status) ==
    /\ opening[p].pc = "create"
    /\ CASE status = "success" -> /\ stored.state = "none" /\ minted < MaxMinted
                                  /\ minted' = minted + 1
                                  /\ stored' = Created(minted + 1, p)
                                  /\ opening' = [opening EXCEPT ![p] =
                                       [pc |-> "configure", key |-> minted + 1,
                                        contract |-> TRUE, created |-> TRUE, tries |-> 0]]
                                  /\ UNCHANGED mishaps
         [] status = "exists"  -> /\ stored.state # "none"
                                  /\ GoesTo(p, "race")
                                  /\ UNCHANGED << stored, minted, mishaps >>
         [] status = "error"   -> Mishap /\ Fails(p, TRUE) /\ UNCHANGED minted
    /\ UNCHANGED << scope, published >>

\* Another process was first: its key is opened as soon as it is finalised.
RaceOpen(p, status) ==
    /\ opening[p].pc = "race"
    /\ CASE status = "success"     -> /\ stored.state = "final" /\ Admits(p)
                                      /\ Opened(p)
                                      /\ UNCHANGED << stored, mishaps >>
         [] status = "in_progress" -> /\ stored.state # "final"
                                      /\ UNCHANGED mishaps
                                      /\ IF opening[p].tries + 1 = RaceAttempts THEN Fails(p, TRUE)
                                         ELSE /\ opening' = [opening EXCEPT ![p].tries = @ + 1]
                                              /\ UNCHANGED stored
         [] status = "error"       -> Denied(p) /\ Fails(p, TRUE)
    /\ UNCHANGED << scope, published, minted >>

\* Signing only, not exportable, finalised: until then nobody else sees the key.
ConfigureKey(p, ok, deleted) ==
    /\ opening[p].pc = "configure"
    /\ Answered(p, ok)
    /\ IF ok THEN stored' = Finalised(opening[p].key) /\ GoesTo(p, "dacl") ELSE Fails(p, deleted)
    /\ UNCHANGED << scope, published, minted >>

\* A machine key gets the access list whether it was created or found.
SetDacl(p, ok, deleted) ==
    /\ opening[p].pc = "dacl"
    /\ IF ~Formal THEN GoesTo(p, "metadata") /\ UNCHANGED << stored, mishaps >>
       ELSE /\ Answered(p, ok)
            /\ IF ok /\ Holds(p)
               THEN stored' = [stored EXCEPT !.dacl = BuildDescriptor(p)] /\ GoesTo(p, "verify")
               ELSE Fails(p, deleted)
    /\ UNCHANGED << scope, published, minted >>

\* It is read back, and by then somebody else may have written it.
VerifyDacl(p, ok, deleted) ==
    /\ opening[p].pc = "verify"
    /\ Answered(p, ok)
    /\ IF ok /\ Holds(p) /\ ValidDescriptor(p, stored.dacl)
       THEN GoesTo(p, "metadata") /\ UNCHANGED stored
       ELSE Fails(p, deleted)
    /\ UNCHANGED << scope, published, minted >>

\* The properties of the key are read; an open handle may outlive the deletion
\* of its key.
ReadMetadata(p, ok, deleted) ==
    /\ opening[p].pc = "metadata"
    /\ Answered(p, ok)
    /\ IF ok THEN GoesTo(p, "publish") /\ UNCHANGED stored ELSE Fails(p, deleted)
    /\ UNCHANGED << scope, published, minted >>

\* P-256, signing only, not exportable, of the scope and the kind of provider
\* the policy wants.
MetadataMatchesPolicy(p) == opening[p].contract

\* The metadata are compared with the policy, the public key is exported and
\* fingerprinted, and the identity is returned.
Publish(p, ok, deleted) ==
    /\ opening[p].pc = "publish"
    /\ Answered(p, ok)
    /\ IF ok /\ MetadataMatchesPolicy(p)
       THEN /\ published' = published \cup {opening[p].key}
            /\ opening' = [opening EXCEPT ![p].pc = "done", ![p].created = FALSE]
            /\ UNCHANGED stored
       ELSE Fails(p, deleted) /\ UNCHANGED published
    /\ UNCHANGED << scope, minted >>

\* A process ends, or is killed in its call.
EndProcess(p) ==
    /\ opening[p].pc # "off"
    /\ IF opening[p].pc = "done" THEN UNCHANGED mishaps ELSE Mishap
    /\ opening' = [opening EXCEPT ![p] = NotOpen]
    /\ stored' = IF stored.state = "made" /\ stored.creator = p THEN NoKey ELSE stored
    /\ UNCHANGED << scope, published, minted >>

\* Somebody edits the access list.
EditDacl ==
    /\ stored.state = "final" /\ Mishap
    /\ \E d \in Edits : stored' = [stored EXCEPT !.dacl = d]
    /\ UNCHANGED << scope, opening, published, minted >>

OpenerStep(p) ==
    \/ \E s \in {"success", "not_found", "bad_state", "error"} : OpenKey(p, s)
    \/ \E s \in {"success", "exists", "error"} : CreateKey(p, s)
    \/ \E s \in {"success", "in_progress", "error"} : RaceOpen(p, s)
    \/ \E ok, deleted \in BOOLEAN :
         \/ ConfigureKey(p, ok, deleted)
         \/ SetDacl(p, ok, deleted)
         \/ VerifyDacl(p, ok, deleted)
         \/ ReadMetadata(p, ok, deleted)
         \/ Publish(p, ok, deleted)

IdentityNext ==
    \/ \E p \in Openers : (\E ok \in BOOLEAN : OpenProvider(p, ok)) \/ OpenerStep(p) \/ EndProcess(p)
    \/ EditDacl


-----------------------------------------------------------------------------
(* Properties *)

\* The call that created the stored key is still running, and may delete it.
Unsettled == \E p \in Openers : opening[p].created /\ opening[p].key = stored.id

\* Once the call that created a key is over, nothing takes the key away that a
\* public identity was returned for: no failing, killed or racing call.
KeyStays ==
    [][stored.state = "final" /\ stored.id \in published /\ ~Unsettled
         => stored'.state = "final" /\ stored'.id = stored.id]_identityVars

\* What failed and killed calls leave behind does not keep the next one from
\* its identity: a call that nothing disturbs gets one, unless the key of that
\* name is somebody else's or refused to its account.
IdentityOpens ==
    \A p \in Openers :
        LET Undisturbed == /\ \A q \in Openers \ {p} : opening[q].pc \in {"off", "done"}
                           /\ mishaps = MaxMishaps
                           /\ stored # NoKey \/ minted < MaxMinted
                           /\ stored.state = "final" => stored.contract /\ Admits(p)
        IN (opening[p].pc = "open" /\ Undisturbed) ~> (opening[p].pc = "done" \/ ~Undisturbed)

\* An identity once returned lasts, and the next call gets one.
IdentityLasts ==
    KeyStays /\ IdentityOpens
=============================================================================
