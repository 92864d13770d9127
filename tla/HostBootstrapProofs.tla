------------------------ MODULE HostBootstrapProofs ------------------------
(***************************************************************************)
(* What the bootstrap of the wired link never does, for every number of    *)
(* firewall rules, every set of clients, every configuration the user may  *)
(* have and any number of failing commands, kills and restarts: it never   *)
(* leaves the adapter changed without a snapshot of the user's values, it  *)
(* never removes a firewall rule of others that it has come upon or takes  *)
(* a wide firewall for ready, and its DHCP server never moves a lease.     *)
(* And what the search for the phone measures is one peer on one way,      *)
(* whatever datagrams arrive.                                              *)
(***************************************************************************)
EXTENDS HostBootstrap, MobileDiscovery, FiniteSetTheorems, WellFoundedInduction, TLAPS

(* The adapter is what its user left, in all that a snapshot records.      *)
AsFound ==
    /\ nic.mode = orig.mode /\ nic.dns = orig.dns /\ nic.policy = orig.policy
    /\ nic.transient = orig.transient

(* Where a call may have changed the adapter, or is about to.              *)
Changing == {"address", "create", "netsh", "dns", "policy", "verify", "restore", "back_address",
             "back_dns", "back_policy", "back_sharing", "check", "remove"}

(* A snapshot outlives every change; it is deleted only behind a check     *)
(* that the adapter is as found.  That check looks at neither address mode *)
(* nor DNS when the snapshot names the transient backend, which is sound   *)
(* because netsh then never runs: the backend of a transaction is the      *)
(* snapshot's until netsh or the roll-back has been decided.               *)
LinkInv ==
    /\ orig.transient = FALSE
    /\ ModifiedMeansSnapshot
    /\ link.pc \in Changing => snap # NoSnapshot
    /\ link.pc = "remove" => AsFound
    /\ snap # NoSnapshot /\ snap.backend = "transient" => nic.mode = orig.mode /\ nic.dns = orig.dns
    /\ link.pc \in {"address", "create", "netsh"} => link.owned = snap.backend
    /\ link.pc = "dns" /\ link.applied # "transient" => snap.backend = "netsh"

(* The Host's own rules are the ones it wants, each once.                  *)
Narrow == \A d \in Desired : Owned(rules, d) = OnlyCurrent

(* A transaction works its way through the rules that were not current,    *)
(* and back again at most to the last one it has touched.  It removes by   *)
(* no name under which it has come upon a rule of others, and its rules    *)
(* are as it has seen them unless another call of the Host interferes.     *)
FirewallInv ==
    /\ \A d \in Desired : fw.original[d]["foreign"] = 0 /\ fw.original[d]["extra"] = 0
    /\ fw.pc \in {"remove", "removing", "add"} => fw.at \in Stale
    /\ fw.pc \in {"verify", "audit"} => fw.last \in Stale
    /\ fw.pc \in {"back_remove", "back_removing", "back_add", "back_verify"} =>
          fw.at \in Stale /\ fw.last \in Stale /\ fw.at <= fw.last
    /\ \A d \in fw.met : rules[d]["foreign"] > 0
    /\ fw.pc \in {"removing", "back_removing"} => fw.at \notin fw.met
    /\ fw.pc # "idle" => fw.status = "none"
    /\ fw.pc = "audit" \/ fw.status \in {"ready", "provisioned"} => fw.shared \/ Narrow

(* The firewall is worked on only while the Host waits for the outcome.    *)
BootInv ==
    /\ fw.pc # "idle" => boot.pc \in {"firewall", "wait"}
    /\ boot.pc = "dhcp" => fw.shared \/ Narrow

IndInv == TypeOK /\ LinkInv /\ FirewallInv /\ BootInv
-----------------------------------------------------------------------------
(* What a step of the bootstrap may be to each of its three parts.         *)

LinkMove ==
    \/ UNCHANGED linkVars
    \/ LinkResult
    \/ \E e, o \in BOOLEAN : EnsureWithout(e, o) \/ BeginEnsure(e, o)
    \/ \E e \in BOOLEAN : RestoreWithout(e) \/ BeginRestore(e) \/ LinkStep(e) \/ Killed(e)
    \/ GatewayAppears
    \/ CableMoves

FwMove ==
    \/ UNCHANGED fwVars
    \/ FwResult
    \/ FirewallKilled
    \/ \E e, o \in BOOLEAN : BeginFirewall(e, o)
    \/ \E o \in BOOLEAN : FirewallStep(o)
    \/ \E d \in Desired, k \in Kinds : OthersAdd(d, k) \/ OthersRemove(d, k) \/ OtherCall(d, k)

DhcpMove ==
    \/ UNCHANGED dhcpVars
    \/ StopDhcp
    \/ ~dhcp.running /\ StartDhcp
    \/ \E m \in Requests, ok \in BOOLEAN : Answer(m, ok)

(* Every step of the Host, its worker, the phone or the world is one of    *)
(* these to each part.                                                     *)
LEMMA Moves ==
    ASSUME [Next]_vars
    PROVE  LinkMove /\ FwMove /\ DhcpMove
<1>0. CASE UNCHANGED vars
  BY <1>0 DEF vars, LinkMove, FwMove, DhcpMove
<1>1. ASSUME NEW ok \in BOOLEAN, CallLink(ok) PROVE LinkMove /\ FwMove /\ DhcpMove
  <2>1. LinkMove
    <3>1. Elevated \in BOOLEAN
      BY DEF Elevated
    <3>2. CASE EnsureWithout(Elevated, ok)
      BY <3>1, <3>2 DEF LinkMove
    <3>3. ASSUME NEW prefer \in BOOLEAN, BeginEnsure(prefer, ok) PROVE LinkMove
      BY <3>3 DEF LinkMove
    <3>4. CASE RestoreWithout(Elevated) \/ BeginRestore(Elevated)
      BY <3>1, <3>4 DEF LinkMove
    <3> QED BY <1>1, <3>2, <3>3, <3>4 DEF CallLink
  <2> QED BY <1>1, <2>1 DEF CallLink, FwMove, DhcpMove
<1>2. ASSUME NEW ok \in BOOLEAN, StepLink(ok) PROVE LinkMove /\ FwMove /\ DhcpMove
  BY <1>2 DEF StepLink, LinkMove, FwMove, DhcpMove
<1>3. ASSUME NEW ok \in BOOLEAN, CallFirewall(ok) PROVE LinkMove /\ FwMove /\ DhcpMove
  <2>1. Elevated \in BOOLEAN
    BY DEF Elevated
  <2> QED BY <1>3, <2>1 DEF CallFirewall, LinkMove, FwMove, DhcpMove
<1>4. ASSUME NEW ok \in BOOLEAN, StepFirewall(ok) PROVE LinkMove /\ FwMove /\ DhcpMove
  BY <1>4 DEF StepFirewall, LinkMove, FwMove, DhcpMove
<1>5. ASSUME NEW ok \in BOOLEAN, StartServer(ok) PROVE LinkMove /\ FwMove /\ DhcpMove
  BY <1>5 DEF StartServer, LinkMove, FwMove, DhcpMove
<1>6. ASSUME EnsureResult PROVE LinkMove /\ FwMove /\ DhcpMove
  BY <1>6 DEF EnsureResult, LinkMove, FwMove, DhcpMove
<1>7. ASSUME FirewallResult PROVE LinkMove /\ FwMove /\ DhcpMove
  BY <1>7 DEF FirewallResult, LinkMove, FwMove, DhcpMove
<1>8. ASSUME UndoResult \/ CloseResult PROVE LinkMove /\ FwMove /\ DhcpMove
  BY <1>8 DEF UndoResult, CloseResult, LinkMove, FwMove, DhcpMove
<1>9. ASSUME Begin \/ Warmup \/ Close PROVE LinkMove /\ FwMove /\ DhcpMove
  BY <1>9 DEF Begin, Warmup, Close, LinkMove, FwMove, DhcpMove
<1>10. ASSUME WaitResult \/ Cancelled PROVE LinkMove /\ FwMove /\ DhcpMove
  BY <1>10 DEF WaitResult, Cancelled, LinkMove, FwMove, DhcpMove, FirewallKilled
<1>11. ASSUME NEW ok \in BOOLEAN, DhcpMessage(ok) PROVE LinkMove /\ FwMove /\ DhcpMove
  BY <1>11 DEF DhcpMessage, LinkMove, FwMove, DhcpMove
<1>12. ASSUME WorkerTerminated PROVE LinkMove /\ FwMove /\ DhcpMove
  <2>1. Killed(FALSE) /\ FirewallKilled /\ (StopDhcp \/ UNCHANGED dhcpVars)
    BY <1>12 DEF WorkerTerminated, BootTypeOK
  <2> QED BY <2>1 DEF LinkMove, FwMove, DhcpMove
<1>13. ASSUME Crash PROVE LinkMove /\ FwMove /\ DhcpMove
  BY <1>13 DEF Crash, LinkMove, FwMove, DhcpMove
<1>14. ASSUME World PROVE LinkMove /\ FwMove /\ DhcpMove
  BY <1>14 DEF World, LinkMove, FwMove, DhcpMove
<1> QED
  BY <1>0, <1>1, <1>2, <1>3, <1>4, <1>5, <1>6, <1>7, <1>8, <1>9, <1>10, <1>11, <1>12, <1>13, <1>14
     DEF Next, Progress

-----------------------------------------------------------------------------
(* The adapter                                                             *)

(* A check that finds the adapter as the snapshot says finds it as its     *)
(* user left it, also where the snapshot names the transient backend and   *)
(* neither address mode nor DNS is looked at.                              *)
LEMMA MatchesMeansAsFound ==
    ASSUME LinkTypeOK, LinkInv, snap # NoSnapshot, Matches(snap)
    PROVE  AsFound
BY DEF LinkTypeOK, LinkInv, Matches, AsFound, Adapters, Isolated, ModifiedMeansSnapshot

(* Ending a call, going on to a step and turning to the roll-back change   *)
(* the call only.                                                          *)
LEMMA CallSteps ==
    ASSUME link \in Calls
    PROVE  /\ \A p \in {"idle", "write", "address", "create", "netsh", "dns", "policy", "verify",
                        "restore", "back_address", "back_dns", "back_policy", "back_sharing",
                        "check", "remove"} :
                Go(p) => /\ link' \in Calls /\ link'.pc = p
                         /\ link'.owned = link.owned /\ link'.applied = link.applied
           /\ \A t \in {"none", "already_ready", "provisioned", "no_wired_adapter",
                        "requires_elevation", "unavailable", "failed", "not_required",
                        "restored", "unsafe_snapshot"} :
                Ends(t) => link' \in Calls /\ link'.pc = "idle"
           /\ \A b \in {"transient", "netsh"} :
                Undo(b) => link' \in Calls /\ link'.pc = "restore"
<1>1. ASSUME NEW p \in {"idle", "write", "address", "create", "netsh", "dns", "policy", "verify",
                        "restore", "back_address", "back_dns", "back_policy", "back_sharing",
                        "check", "remove"}, Go(p)
      PROVE  /\ link' \in Calls /\ link'.pc = p
             /\ link'.owned = link.owned /\ link'.applied = link.applied
  BY <1>1 DEF Go, Calls
<1>2. ASSUME NEW t \in {"none", "already_ready", "provisioned", "no_wired_adapter",
                        "requires_elevation", "unavailable", "failed", "not_required",
                        "restored", "unsafe_snapshot"}, Ends(t)
      PROVE  link' \in Calls /\ link'.pc = "idle"
  BY <1>2 DEF Ends, Calls
<1>3. ASSUME NEW b \in {"transient", "netsh"}, Undo(b)
      PROVE  link' \in Calls /\ link'.pc = "restore"
  BY <1>3 DEF Undo, Calls
<1> QED BY <1>1, <1>2, <1>3

(* A call that neither changes adapter nor snapshot keeps the invariant    *)
(* where it ends or writes the snapshot next.                              *)
LEMMA LinkStays ==
    ASSUME LinkTypeOK, LinkInv, UNCHANGED <<nic, orig, snap>>,
           link' \in Calls, link'.pc \notin Changing
    PROVE  LinkTypeOK' /\ LinkInv'
BY DEF LinkTypeOK, LinkInv, ModifiedMeansSnapshot, Changing

(* A call that is past the choice of a backend may do to the adapter what  *)
(* it does with a snapshot in the file.                                    *)
LEMMA LinkChanges ==
    ASSUME LinkTypeOK, LinkInv, snap # NoSnapshot, UNCHANGED <<orig, snap>>,
           nic' \in Adapters, link' \in Calls,
           link'.pc = "remove" => AsFound',
           snap.backend = "transient" => nic'.mode = orig.mode /\ nic'.dns = orig.dns,
           link'.pc \in {"address", "create", "netsh"} => link'.owned = snap.backend,
           link'.pc = "dns" /\ link'.applied # "transient" => snap.backend = "netsh"
    PROVE  LinkTypeOK' /\ LinkInv'
BY DEF LinkTypeOK, LinkInv, ModifiedMeansSnapshot, Changing

(* What the commands make of the adapter is an adapter.                    *)
LEMMA CommandTypes ==
    ASSUME nic \in Adapters
    PROVE  /\ WithTransient \in Adapters /\ WithoutTransient \in Adapters
           /\ SharingOff \in Adapters /\ SharingOn \in Adapters
           /\ IsolatedPolicy \in Adapters
           /\ \A m \in {"dhcp", "ics", "isolated"} : NetshAddress(m) \in Adapters
           /\ \A d \in {"none", "servers"} : WithDns(d) \in Adapters
           /\ \A p \in {"own", "isolated"} : [nic EXCEPT !.policy = p] \in Adapters
           /\ WithTransient.mode = nic.mode /\ WithTransient.dns = nic.dns
           /\ SharingOff.mode = nic.mode /\ SharingOff.dns = nic.dns
           /\ SharingOn.mode = nic.mode /\ SharingOn.dns = nic.dns
           /\ IsolatedPolicy.mode = nic.mode /\ IsolatedPolicy.dns = nic.dns
           /\ \A m : NetshAddress(m).dns = nic.dns
           /\ \A d : WithDns(d).mode = nic.mode
<1>1. WithTransient \in Adapters /\ WithTransient.mode = nic.mode /\ WithTransient.dns = nic.dns
  BY DEF WithTransient, Adapters
<1>2. WithoutTransient \in Adapters
  BY DEF WithoutTransient, Adapters
<1>3. /\ SharingOff \in Adapters /\ SharingOff.mode = nic.mode /\ SharingOff.dns = nic.dns
      /\ SharingOn \in Adapters /\ SharingOn.mode = nic.mode /\ SharingOn.dns = nic.dns
  BY DEF SharingOff, SharingOn, Adapters
<1>4. IsolatedPolicy \in Adapters /\ IsolatedPolicy.mode = nic.mode /\ IsolatedPolicy.dns = nic.dns
  BY DEF IsolatedPolicy, Adapters
<1>5. ASSUME NEW m \in {"dhcp", "ics", "isolated"} PROVE NetshAddress(m) \in Adapters
  BY DEF NetshAddress, Adapters
<1>6. ASSUME NEW m PROVE NetshAddress(m).dns = nic.dns
  BY DEF NetshAddress, Adapters
<1>7. ASSUME NEW d \in {"none", "servers"} PROVE WithDns(d) \in Adapters
  BY DEF WithDns, Adapters
<1>8. ASSUME NEW d PROVE WithDns(d).mode = nic.mode
  BY DEF WithDns, Adapters
<1>9. ASSUME NEW p \in {"own", "isolated"} PROVE [nic EXCEPT !.policy = p] \in Adapters
  BY DEF Adapters
<1> QED BY <1>1, <1>2, <1>3, <1>4, <1>5, <1>6, <1>7, <1>8, <1>9

(* A call that begins has the pc and the backend it was given.             *)
LEMMA BegunCall ==
    ASSUME NEW p \in BOOLEAN, NEW b \in {"transient", "netsh"},
           NEW pc \in {"write", "address"}
    PROVE  /\ Begun(TRUE, p, pc, b) \in Calls
           /\ Begun(TRUE, p, pc, b).pc = pc /\ Begun(TRUE, p, pc, b).owned = b
<1>1. (snap # NoSnapshot /\ CanUseTransient(snap)) \in BOOLEAN
  BY DEF CanUseTransient
<1> DEFINE c == snap # NoSnapshot /\ CanUseTransient(snap)
<1>2. Begun(TRUE, p, pc, b) = [NoCall EXCEPT !.pc = pc, !.elevated = TRUE, !.prefer = p, !.owned = b,
                                          !.candidate = c]
  BY Zenon DEF Begun
<1>3. c \in BOOLEAN
  BY <1>1
<1> HIDE DEF c
<1> QED BY <1>2, <1>3 DEF Calls, NoCall

(* Starting to number the adapter: a snapshot is thrown away only where    *)
(* the adapter is as found.                                                *)
LEMMA BeginEnsureKeeps ==
    ASSUME LinkTypeOK, LinkInv, NEW prefer \in BOOLEAN, NEW ok \in BOOLEAN, BeginEnsure(prefer, ok)
    PROVE  LinkTypeOK' /\ LinkInv'
<1> USE DEF LinkTypeOK
<1>0. UNCHANGED <<nic, orig>>
  BY DEF BeginEnsure
<1>1. CASE link' = Begun(TRUE, prefer, "write", "netsh") /\ snap' = snap
  <2>1. link' \in Calls /\ link'.pc = "write"
    BY <1>1, BegunCall
  <2> QED BY <1>0, <1>1, <2>1, LinkStays DEF Changing
<1>2. CASE /\ snap # NoSnapshot /\ Matches(snap) /\ snap' = NoSnapshot
           /\ link' = Begun(TRUE, prefer, "write", "netsh")
  <2>1. link' \in Calls /\ link'.pc = "write"
    BY <1>2, BegunCall
  <2>2. AsFound
    BY <1>2, MatchesMeansAsFound
  <2>3. LinkTypeOK'
    BY <1>0, <1>2, <2>1 DEF Snapshots
  <2> QED BY <1>0, <1>2, <2>1, <2>2, <2>3 DEF LinkInv, ModifiedMeansSnapshot, AsFound, Changing
<1>3. CASE (Ends("failed") \/ Ends("unavailable")) /\ snap' = snap
  <2>1. link' \in Calls /\ link'.pc = "idle"
    BY <1>3, CallSteps
  <2> QED BY <1>0, <1>3, <2>1, LinkStays DEF Changing
<1>4. CASE snap # NoSnapshot /\ snap' = snap /\ link' = Begun(TRUE, prefer, "address", snap.backend)
  <2>1. snap.backend \in {"transient", "netsh"}
    BY <1>4 DEF Snapshots
  <2>2. link' \in Calls /\ link'.pc = "address" /\ link'.owned = snap.backend
    <3>1. PICK b \in {"transient", "netsh"} : snap.backend = b
      BY <2>1
    <3>2. Begun(TRUE, prefer, "address", b) \in Calls /\ Begun(TRUE, prefer, "address", b).pc = "address"
          /\ Begun(TRUE, prefer, "address", b).owned = b
      BY BegunCall
    <3> QED BY <1>4, <3>1, <3>2
  <2>3. snap.backend = "transient" => nic'.mode = orig.mode /\ nic'.dns = orig.dns
    BY <1>0, <1>4 DEF LinkInv
  <2> QED BY <1>0, <1>4, <2>2, <2>3, LinkChanges
<1> QED BY <1>1, <1>2, <1>3, <1>4, Zenon DEF BeginEnsure

(* The snapshot records the adapter as found, because nothing on it was    *)
(* changed while there was none.                                           *)
LEMMA WriteSnapshotKeeps ==
    ASSUME LinkTypeOK, LinkInv, NEW ok \in BOOLEAN, WriteSnapshot(ok)
    PROVE  LinkTypeOK' /\ LinkInv'
<1> USE DEF LinkTypeOK
<1>0. UNCHANGED <<nic, orig>> /\ link.pc = "write"
  BY DEF WriteSnapshot
<1>1. CASE Ends("failed") /\ snap' = snap
  <2>1. link' \in Calls /\ link'.pc = "idle"
    BY <1>1, CallSteps
  <2> QED BY <1>0, <1>1, <2>1, LinkStays DEF Changing
<1>2. CASE ok /\ nic.mode \in {"dhcp", "ics"} /\ snap = NoSnapshot
  <2> DEFINE s == Captured(link.prefer)
             b == ChooseBackend([mode |-> nic.mode, dns |-> nic.dns, policy |-> nic.policy], link.prefer)
             c == CanUseTransient(s)
  <2>1. s = [mode |-> nic.mode, dns |-> nic.dns, policy |-> nic.policy, backend |-> b]
    BY DEF Captured
  <2>2. b \in {"transient", "netsh"}
    BY DEF ChooseBackend
  <2>3. c \in BOOLEAN
    BY DEF CanUseTransient
  <2>4. /\ snap' = s
        /\ \/ Ends("unavailable")
           \/ link' = [link EXCEPT !.pc = "address", !.owned = s.backend, !.candidate = c]
    BY <1>2 DEF WriteSnapshot
  <2> HIDE DEF s, b, c
  <2>5. s \in Snapshots /\ s # NoSnapshot
    BY <1>2, <2>1, <2>2 DEF Snapshots, NoSnapshot, Adapters
  <2>6. AsFound
    BY <1>2 DEF LinkInv, ModifiedMeansSnapshot, AsFound
  <2>7. s.mode = orig.mode /\ s.dns = orig.dns /\ s.policy = orig.policy /\ orig.mode # "isolated"
    BY <1>2, <2>1, <2>6 DEF AsFound
  <2>8. s.backend = b
    BY <2>1
  <2>9. link' \in Calls /\ (link'.pc = "idle" \/ (link'.pc = "address" /\ link'.owned = s.backend))
    <3>1. CASE Ends("unavailable")
      BY <3>1, CallSteps
    <3>2. CASE link' = [link EXCEPT !.pc = "address", !.owned = s.backend, !.candidate = c]
      BY <3>2, <2>2, <2>3, <2>8 DEF Calls
    <3> QED BY <2>4, <3>1, <3>2
  <2>10. LinkTypeOK'
    BY <1>0, <2>4, <2>5, <2>9
  <2> QED BY <1>0, <2>4, <2>5, <2>6, <2>7, <2>9, <2>10
          DEF LinkInv, ModifiedMeansSnapshot, AsFound, Changing
<1> QED BY <1>1, <1>2 DEF WriteSnapshot

(* The steps that give the adapter its address.                            *)
LEMMA ApplyKeeps ==
    ASSUME LinkTypeOK, LinkInv, NEW ok \in BOOLEAN,
           \/ ApplyAddress(ok) \/ CreateTransient(ok) \/ ApplyNetsh(ok) \/ ApplyDns(ok)
           \/ ApplyPolicy(ok) \/ VerifyLink(ok)
    PROVE  LinkTypeOK' /\ LinkInv'
<1> USE DEF LinkTypeOK
<1>0. /\ UNCHANGED <<orig, snap>> /\ snap # NoSnapshot
      /\ link.owned \in {"transient", "netsh"}
      /\ snap.backend = "transient" => nic.mode = orig.mode /\ nic.dns = orig.dns
  BY DEF ApplyAddress, CreateTransient, ApplyNetsh, ApplyDns, ApplyPolicy, VerifyLink, LinkInv, Changing, Calls
<1>1. ASSUME nic' \in {nic, WithTransient, SharingOff, IsolatedPolicy}
      PROVE  nic' \in Adapters /\ nic'.mode = nic.mode /\ nic'.dns = nic.dns
  BY <1>1, CommandTypes
<1>2. CASE ApplyAddress(ok)
  <2>1. nic' \in {nic, WithTransient, SharingOff, IsolatedPolicy}
    BY <1>2 DEF ApplyAddress
  <2>2. /\ link' \in Calls
        /\ \/ link'.pc = "restore"
           \/ link'.pc \in {"create", "netsh"} /\ link'.owned = link.owned
    <3>1. CASE Undo(link.owned)
      BY <1>0, <3>1, CallSteps
    <3>2. CASE Go("netsh")
      BY <3>2, CallSteps
    <3>3. CASE Go("create")
      BY <3>3, CallSteps
    <3> QED BY <1>2, <3>1, <3>2, <3>3 DEF ApplyAddress
  <2>3. link.owned = snap.backend
    BY <1>2 DEF LinkInv, ApplyAddress
  <2> QED BY <1>0, <1>1, <2>1, <2>2, <2>3, LinkChanges
<1>7. CASE CreateTransient(ok)
  <2>1. nic' \in {nic, WithTransient, SharingOff, IsolatedPolicy}
    BY <1>7 DEF CreateTransient
  <2>2. /\ link' \in Calls
        /\ \/ link'.pc = "restore"
           \/ link'.pc = "netsh" /\ link'.owned = link.owned
           \/ link'.pc = "dns" /\ link'.applied = "transient"
    <3>1. CASE Undo(link.owned)
      BY <1>0, <3>1, CallSteps
    <3>2. CASE Go("netsh")
      BY <3>2, CallSteps
    <3>3. CASE link' = [link EXCEPT !.pc = "dns", !.applied = "transient"]
      BY <3>3 DEF Calls
    <3> QED BY <1>7, <3>1, <3>2, <3>3 DEF CreateTransient
  <2>3. link.owned = snap.backend
    BY <1>7 DEF LinkInv, CreateTransient
  <2> QED BY <1>0, <1>1, <2>1, <2>2, <2>3, LinkChanges
<1>3. CASE ApplyNetsh(ok)
  <2>1. link.owned = snap.backend
    BY <1>3 DEF LinkInv, ApplyNetsh
  <2>2. /\ nic' \in Adapters
        /\ snap.backend = "transient" => nic' = nic
    BY <1>3, <2>1, CommandTypes DEF ApplyNetsh, Ran
  <2>3. /\ link' \in Calls
        /\ \/ link'.pc = "restore"
           \/ link'.pc = "dns" /\ snap.backend = "netsh"
    <3>1. CASE Undo("netsh")
      BY <3>1, CallSteps
    <3>2. CASE link.owned = "netsh" /\ link' = [link EXCEPT !.applied = "netsh",
                      !.pc = IF ok THEN "dns" ELSE "restore", !.goal = "rollback"]
      BY <2>1, <3>2 DEF Calls
    <3> QED BY <1>3, <3>1, <3>2 DEF ApplyNetsh
  <2> QED BY <1>0, <2>2, <2>3, LinkChanges
<1>4. CASE ApplyDns(ok)
  <2>1. /\ link' \in Calls
        /\ link'.pc \in {"policy", "restore"}
    <3>1. CASE Go("policy")
      BY <3>1, CallSteps
    <3>2. CASE Undo(link.owned)
      BY <1>0, <3>2, CallSteps
    <3> QED BY <1>4, <3>1, <3>2 DEF ApplyDns
  <2>2. nic' \in Adapters /\ nic'.mode = nic.mode
    BY <1>4, CommandTypes DEF ApplyDns, Ran
  <2>3. snap.backend = "transient" => nic' = nic
    BY <1>4 DEF ApplyDns, LinkInv
  <2> QED BY <1>0, <2>1, <2>2, <2>3, LinkChanges
<1>5. CASE ApplyPolicy(ok)
  <2>1. /\ link' \in Calls
        /\ link'.pc \in {"verify", "restore"}
    <3>1. CASE Go("verify")
      BY <3>1, CallSteps
    <3>2. CASE Undo(link.owned)
      BY <1>0, <3>2, CallSteps
    <3> QED BY <1>5, <3>1, <3>2 DEF ApplyPolicy
  <2>2. nic' \in {nic, WithTransient, SharingOff, IsolatedPolicy}
    BY <1>5 DEF ApplyPolicy, Ran
  <2> QED BY <1>0, <1>1, <2>1, <2>2, LinkChanges
<1>6. CASE VerifyLink(ok)
  <2>1. /\ link' \in Calls
        /\ link'.pc \in {"idle", "restore"}
    <3>1. CASE Ends("provisioned")
      BY <3>1, CallSteps
    <3>2. CASE Undo(link.owned)
      BY <1>0, <3>2, CallSteps
    <3> QED BY <1>6, <3>1, <3>2 DEF VerifyLink
  <2>2. nic' = nic
    BY <1>6 DEF VerifyLink
  <2> QED BY <1>0, <2>1, <2>2, LinkChanges
<1> QED BY <1>2, <1>3, <1>4, <1>5, <1>6, <1>7

(* The steps that put the adapter back: what they write are the user's     *)
(* values, and "remove" is reached through a check only.                   *)
LEMMA BackKeeps ==
    ASSUME LinkTypeOK, LinkInv, NEW ok \in BOOLEAN,
           \/ Restore(ok) \/ BackAddress(ok) \/ BackDns(ok)
           \/ BackPolicy(ok) \/ BackSharing(ok) \/ CheckRestored(ok)
    PROVE  LinkTypeOK' /\ LinkInv'
<1> USE DEF LinkTypeOK
<1>0. /\ UNCHANGED <<orig, snap>> /\ snap # NoSnapshot
      /\ snap.backend = "transient" => nic.mode = orig.mode /\ nic.dns = orig.dns
      /\ snap.mode = orig.mode /\ snap.dns = orig.dns /\ snap.policy = orig.policy
      /\ orig.mode # "isolated"
      /\ snap.mode \in {"dhcp", "ics"} /\ snap.dns \in {"none", "servers"}
      /\ snap.policy \in {"own", "isolated"}
  <2>1. UNCHANGED <<orig, snap>> /\ snap # NoSnapshot
    BY DEF Restore, BackAddress, BackDns, BackPolicy, BackSharing, CheckRestored, LinkInv, Changing
  <2>2. /\ snap.mode \in {"dhcp", "ics"} /\ snap.dns \in {"none", "servers"}
        /\ snap.policy \in {"own", "isolated"}
    BY <2>1 DEF Snapshots
  <2> QED BY <2>1, <2>2 DEF LinkInv, ModifiedMeansSnapshot
<1>1. CASE Restore(ok) \/ CheckRestored(ok)
  <2>1. nic' = nic
    BY <1>1 DEF Restore, CheckRestored
  <2>2. /\ link' \in Calls
        /\ link'.pc \in {"remove", "back_address", "idle"}
        /\ link'.pc = "remove" => Matches(snap)
    <3>1. CASE Go("remove") /\ Matches(snap)
      BY <3>1, CallSteps
    <3>2. CASE Go("back_address")
      BY <3>2, CallSteps
    <3>3. CASE Ends("failed")
      BY <3>3, CallSteps
    <3> QED BY <1>1, <3>1, <3>2, <3>3 DEF Restore, CheckRestored
  <2>3. link'.pc = "remove" => AsFound'
    BY <1>0, <2>1, <2>2, MatchesMeansAsFound DEF AsFound
  <2> QED BY <1>0, <2>1, <2>2, <2>3, LinkChanges
<1>2. CASE BackAddress(ok)
  <2>1. link' \in Calls /\ link'.pc \in {"idle", "back_policy", "back_dns"}
    <3>1. CASE Ends("failed")
      BY <3>1, CallSteps
    <3>2. CASE Go("back_policy")
      BY <3>2, CallSteps
    <3>3. CASE Go("back_dns")
      BY <3>3, CallSteps
    <3> QED BY <1>2, <3>1, <3>2, <3>3 DEF BackAddress
  <2>2. nic' \in Adapters /\ (snap.backend = "transient" => nic'.mode = orig.mode /\ nic'.dns = orig.dns)
    <3>1. CASE nic' = nic
      BY <1>0, <3>1
    <3>2. CASE nic' = WithoutTransient
      BY <1>0, <3>2, CommandTypes DEF WithoutTransient, Adapters
    <3>3. CASE nic' = NetshAddress(snap.mode)
      <4>1. PICK m \in {"dhcp", "ics"} : snap.mode = m
        BY <1>0
      <4>2. NetshAddress(m) \in Adapters /\ NetshAddress(m).dns = nic.dns
        BY CommandTypes
      <4>3. NetshAddress(m).mode = m
        BY DEF NetshAddress, Adapters
      <4> QED BY <1>0, <3>3, <4>1, <4>2, <4>3
    <3> QED BY <1>2, <3>1, <3>2, <3>3 DEF BackAddress
  <2> QED BY <1>0, <2>1, <2>2, LinkChanges
<1>3. CASE BackDns(ok)
  <2>1. link' \in Calls /\ link'.pc \in {"idle", "back_policy"}
    <3>1. CASE Ends("failed")
      BY <3>1, CallSteps
    <3>2. CASE Go("back_policy")
      BY <3>2, CallSteps
    <3> QED BY <1>3, <3>1, <3>2 DEF BackDns
  <2>2. nic' \in Adapters /\ (snap.backend = "transient" => nic'.mode = orig.mode /\ nic'.dns = orig.dns)
    <3>1. CASE nic' = nic
      BY <1>0, <3>1
    <3>2. CASE nic' = WithDns(snap.dns)
      <4>1. PICK n \in {"none", "servers"} : snap.dns = n
        BY <1>0
      <4>2. WithDns(n) \in Adapters /\ WithDns(n).mode = nic.mode
        BY CommandTypes
      <4>3. WithDns(n).dns = n
        BY DEF WithDns, Adapters
      <4> QED BY <1>0, <3>2, <4>1, <4>2, <4>3
    <3> QED BY <1>3, <3>1, <3>2 DEF BackDns
  <2> QED BY <1>0, <2>1, <2>2, LinkChanges
<1>4. CASE BackPolicy(ok)
  <2>1. link' \in Calls /\ link'.pc \in {"idle", "back_sharing", "check"}
    <3>1. CASE Ends("failed")
      BY <3>1, CallSteps
    <3>2. CASE Go("back_sharing")
      BY <3>2, CallSteps
    <3>3. CASE Go("check")
      BY <3>3, CallSteps
    <3> QED BY <1>4, <3>1, <3>2, <3>3 DEF BackPolicy
  <2>2. nic' \in Adapters /\ nic'.mode = nic.mode /\ nic'.dns = nic.dns
    <3>1. CASE nic' = nic
      BY <3>1
    <3>2. CASE nic' = [nic EXCEPT !.policy = snap.policy]
      BY <1>0, <3>2 DEF Adapters
    <3> QED BY <1>4, <3>1, <3>2 DEF BackPolicy, RestoredPolicy
  <2> QED BY <1>0, <2>1, <2>2, LinkChanges
<1>5. CASE BackSharing(ok)
  <2>1. link' \in Calls /\ link'.pc \in {"idle", "check"}
    <3>1. CASE Ends("failed")
      BY <3>1, CallSteps
    <3>2. CASE Go("check")
      BY <3>2, CallSteps
    <3> QED BY <1>5, <3>1, <3>2 DEF BackSharing
  <2>2. nic' \in Adapters /\ nic'.mode = nic.mode /\ nic'.dns = nic.dns
    BY <1>5, CommandTypes DEF BackSharing
  <2> QED BY <1>0, <2>1, <2>2, LinkChanges
<1> QED BY <1>1, <1>2, <1>3, <1>4, <1>5

(* The snapshot goes when the adapter is as found.                         *)
LEMMA RemoveKeeps ==
    ASSUME LinkTypeOK, LinkInv, NEW ok \in BOOLEAN, RemoveSnapshot(ok)
    PROVE  LinkTypeOK' /\ LinkInv'
<1> USE DEF LinkTypeOK
<1>1. link' \in Calls /\ link'.pc = "idle"
  <2>1. Ends("restored") \/ Ends("failed")
    BY DEF RemoveSnapshot
  <2> QED BY <2>1, CallSteps
<1>2. /\ UNCHANGED <<nic, orig>> /\ snap' \in {snap, NoSnapshot}
      /\ AsFound
  BY DEF RemoveSnapshot, LinkInv
<1>3. LinkTypeOK'
  BY <1>1, <1>2 DEF Snapshots
<1> QED BY <1>1, <1>2, <1>3 DEF LinkInv, ModifiedMeansSnapshot, AsFound, Changing

(* The calls that start a restore, or end at once.                         *)
LEMMA CallKeeps ==
    ASSUME LinkTypeOK, LinkInv, NEW e \in BOOLEAN, NEW o \in BOOLEAN,
           EnsureWithout(e, o) \/ RestoreWithout(e) \/ BeginRestore(e)
    PROVE  LinkTypeOK' /\ LinkInv'
<1> USE DEF LinkTypeOK
<1>0. UNCHANGED <<nic, orig, snap>>
  BY DEF EnsureWithout, RestoreWithout, BeginRestore
<1>1. CASE EnsureWithout(e, o)
  <2>1. \/ Ends("no_wired_adapter") \/ Ends("already_ready") \/ Ends("failed")
        \/ Ends("requires_elevation")
    BY <1>1 DEF EnsureWithout
  <2>2. link' \in Calls /\ link'.pc = "idle"
    BY <2>1, CallSteps
  <2> QED BY <1>0, <2>2, LinkStays DEF Changing
<1>2. CASE RestoreWithout(e)
  <2>1. Ends("not_required") \/ Ends("unsafe_snapshot") \/ Ends("requires_elevation")
    BY <1>2 DEF RestoreWithout
  <2>2. link' \in Calls /\ link'.pc = "idle"
    BY <2>1, CallSteps
  <2> QED BY <1>0, <2>2, LinkStays DEF Changing
<1>3. CASE BeginRestore(e)
  <2>1. snap # NoSnapshot /\ snap.backend \in {"transient", "netsh"}
    BY <1>3 DEF BeginRestore, Snapshots
  <2>2. PICK p \in {"remove", "restore"} :
           /\ link' = [NoCall EXCEPT !.pc = p, !.elevated = e, !.owned = snap.backend]
           /\ p = "remove" => Matches(snap)
    BY <1>3 DEF BeginRestore
  <2>3. link' \in Calls /\ link'.pc = p
    BY <2>1, <2>2 DEF Calls, NoCall
  <2>4. link'.pc = "remove" => AsFound'
    BY <1>0, <2>1, <2>2, <2>3, MatchesMeansAsFound DEF AsFound
  <2>5. snap.backend = "transient" => nic'.mode = orig.mode /\ nic'.dns = orig.dns
    BY <1>0, <2>1 DEF LinkInv
  <2> QED BY <1>0, <2>1, <2>3, <2>4, <2>5, LinkChanges
<1> QED BY <1>1, <1>2, <1>3

(* A kill forgets the call, a restart besides the address that was not     *)
(* stored; the cable and the router leave alone what the snapshot records. *)
LEMMA WorldKeeps ==
    ASSUME LinkTypeOK, LinkInv, NEW e \in BOOLEAN,
           Killed(e) \/ GatewayAppears \/ CableMoves \/ LinkResult \/ UNCHANGED linkVars
    PROVE  LinkTypeOK' /\ LinkInv'
<1> USE DEF LinkTypeOK
<1>1. CASE Killed(e)
  <2>1. link' \in Calls /\ link'.pc = "idle" /\ UNCHANGED <<orig, snap>>
    BY <1>1 DEF Killed, NoCall, Calls
  <2>2. PICK t \in BOOLEAN : nic' = [nic EXCEPT !.transient = t] /\ (t => nic.transient)
    <3> DEFINE t == nic.transient /\ ~e
    <3>1. t \in BOOLEAN /\ (t => nic.transient)
      OBVIOUS
    <3>2. nic' = [nic EXCEPT !.transient = t]
      BY <1>1 DEF Killed
    <3> QED BY <3>1, <3>2, Zenon
  <2>3. /\ nic' \in Adapters /\ nic'.mode = nic.mode /\ nic'.dns = nic.dns /\ nic'.policy = nic.policy
        /\ nic'.transient = t
    BY <2>2 DEF Adapters
  <2>4. nic'.transient # orig.transient => nic.transient # orig.transient
    BY <2>2, <2>3 DEF LinkInv
  <2>5. LinkTypeOK'
    BY <2>1, <2>3
  <2> QED BY <2>1, <2>3, <2>4, <2>5 DEF LinkInv, ModifiedMeansSnapshot, Changing
<1>2. CASE GatewayAppears \/ CableMoves
  <2>1. UNCHANGED <<orig, snap, link>>
    BY <1>2 DEF GatewayAppears, CableMoves
  <2>2. /\ nic' \in Adapters /\ nic'.mode = nic.mode /\ nic'.dns = nic.dns /\ nic'.policy = nic.policy
        /\ nic'.transient = nic.transient
    BY <1>2 DEF GatewayAppears, CableMoves, Adapters
  <2>3. LinkTypeOK'
    BY <2>1, <2>2
  <2> QED BY <2>1, <2>2, <2>3 DEF LinkInv, ModifiedMeansSnapshot, AsFound
<1>3. CASE LinkResult
  <2>1. UNCHANGED <<nic, orig, snap>>
    BY <1>3 DEF LinkResult
  <2>2. /\ link' \in Calls /\ link'.pc = link.pc /\ link'.owned = link.owned
        /\ link'.applied = link.applied
    BY <1>3 DEF LinkResult, Calls
  <2>3. LinkTypeOK'
    BY <2>1, <2>2
  <2> QED BY <2>1, <2>2, <2>3 DEF LinkInv, ModifiedMeansSnapshot, AsFound
<1>4. CASE UNCHANGED linkVars
  BY <1>4 DEF linkVars, LinkInv, ModifiedMeansSnapshot, AsFound
<1> QED BY <1>1, <1>2, <1>3, <1>4

(* Every step keeps what is known of adapter and snapshot.                 *)
LEMMA LinkKept ==
    ASSUME LinkTypeOK, LinkInv, LinkMove
    PROVE  LinkTypeOK' /\ LinkInv'
<1>1. ASSUME NEW e \in BOOLEAN, LinkStep(e) PROVE LinkTypeOK' /\ LinkInv'
  BY <1>1, WriteSnapshotKeeps, ApplyKeeps, BackKeeps, RemoveKeeps DEF LinkStep
<1> QED BY <1>1, CallKeeps, BeginEnsureKeeps, WorldKeeps DEF LinkMove

-----------------------------------------------------------------------------
(* The firewall                                                            *)

(* A nonempty set of numbers has a least one.                              *)
LEMMA Smallest ==
    ASSUME NEW S, S \subseteq Nat, S # {}
    PROVE  \E m \in S : \A e \in S : m <= e
<1> DEFINE R == {ss \in Nat \X Nat : ss[1] < ss[2]}
<1>0. IsWellFoundedOn(R, Nat)
  BY NatLessThanWellFounded DEF OpToRel
<1> HIDE DEF R
<1>1. PICK m \in S : \A e \in S : ~ (<<e, m>> \in R)
  BY <1>0, WFMin
<1>2. \A e \in S : ~(e < m)
  BY <1>1 DEF R
<1> QED BY <1>2

(* The first rule of a plan that needs work.                               *)
LEMMA FirstStale ==
    ASSUME Stale # {}
    PROVE  LET f == CHOOSE d \in Stale : \A e \in Stale : d <= e
           IN  f \in Stale /\ \A e \in Stale : f <= e
<1>1. Stale \subseteq Nat
  BY FirewallAssumption DEF Stale, Desired
<1>2. \E m \in Stale : \A e \in Stale : m <= e
  BY <1>1, Smallest
<1> QED BY <1>2, Zenon

(* As long as a later rule needs work there is a next one, not beyond it.  *)
LEMMA NextStaleFound ==
    ASSUME NEW a \in Nat, NEW e \in Stale, a < e
    PROVE  LET n == CHOOSE d \in NextStale(a) : TRUE
           IN  n \in Stale /\ a < n /\ n <= e
<1> DEFINE S == {d \in Stale : d > a}
<1>0. Stale \subseteq Nat
  BY FirewallAssumption DEF Stale, Desired
<1>1. S \subseteq Nat /\ S # {}
  BY <1>0
<1>2. PICK m \in S : \A x \in S : m <= x
  BY <1>1, Smallest
<1>3. m \in NextStale(a)
  BY <1>2 DEF NextStale
<1>4. (CHOOSE d \in NextStale(a) : TRUE) \in NextStale(a)
  BY <1>3, Zenon
<1> QED BY <1>4 DEF NextStale

(* The kinds of rules, and the sets of rules that the model starts with.   *)
LEMMA KindFacts ==
    /\ OwnedKinds \subseteq Kinds
    /\ "foreign" \in Kinds /\ "extra" \in Kinds /\ "current" \in OwnedKinds
    /\ "foreign" \notin OwnedKinds /\ "extra" \notin OwnedKinds
    /\ \A k \in Kinds : k \in OwnedKinds \/ k = "foreign" \/ k = "extra"
    /\ NoRules \in [Kinds -> Nat]
    /\ OnlyCurrent \in [Kinds -> Nat]
    /\ \A k \in Kinds : NoRules[k] = 0
    /\ OnlyCurrent["current"] = 1
    /\ \A k \in Kinds : k # "current" => OnlyCurrent[k] = 0
BY DEF Kinds, OwnedKinds, NoRules, OnlyCurrent

(* The Host's own rules under a name, counted by kind.                     *)
LEMMA OwnedFacts ==
    ASSUME NEW r \in RuleSets, NEW d \in Desired
    PROVE  /\ Owned(r, d) \in [Kinds -> Nat]
           /\ \A k \in OwnedKinds : Owned(r, d)[k] = r[d][k]
           /\ Owned(r, d)["foreign"] = 0 /\ Owned(r, d)["extra"] = 0
<1>1. r[d] \in [Kinds -> Nat]
  BY DEF RuleSets
<1>2. ASSUME NEW k \in Kinds PROVE (IF k \in OwnedKinds THEN r[d][k] ELSE 0) \in Nat
  BY <1>1
<1>3. Owned(r, d) \in [Kinds -> Nat]
  BY <1>2 DEF Owned
<1>4. \A k \in OwnedKinds : Owned(r, d)[k] = r[d][k]
  BY KindFacts DEF Owned
<1>5. Owned(r, d)["foreign"] = 0 /\ Owned(r, d)["extra"] = 0
  BY KindFacts DEF Owned
<1> QED BY <1>3, <1>4, <1>5

(* How many rules of a kind there are is a number.                         *)
LEMMA CountFacts ==
    ASSUME NEW r \in RuleSets, NEW d \in Desired
    PROVE  \A k \in Kinds : r[d][k] \in Nat
BY DEF RuleSets

(* What a step leaves alone: the rules of others that a look has come      *)
(* upon, and those of other names.                                         *)
OthersKept == \A d \in Desired : /\ d \in fw.met => rules'[d]["foreign"] = rules[d]["foreign"]
                                 /\ rules'[d]["extra"] = rules[d]["extra"]

(* What a step may do to a call and the rules, as the action properties of *)
(* the firewall say it.                                                    *)
FwStepSafe ==
    /\ fw.status = "none" /\ fw'.status \in {"ready", "provisioned"} =>
         \A d \in Desired : /\ rules'[d]["extra"] = 0
                           /\ ~fw'.shared => Owned(rules', d) = OnlyCurrent
    /\ \A d \in Desired : /\ d \in fw.met \cap fw'.met => rules'[d]["foreign"] >= rules[d]["foreign"]
                          /\ rules'[d]["extra"] # rules[d]["extra"] => fw' = fw
    /\ fw'.rolled = "complete" /\ fw.rolled # "complete" =>
         \A d \in Desired : Owned(rules, d) = fw.original[d]

(* Rules that go by name leave those of other names.                       *)
LEMMA FewerFacts ==
    ASSUME NEW r \in RuleSets, NEW d \in Desired, NEW left \in Fewer(r, d)
    PROVE  /\ left \in [Kinds -> Nat]
           /\ left["extra"] = r[d]["extra"]
           /\ left["foreign"] <= r[d]["foreign"]
<1>1. PICK c \in 0..r[d]["current"], s \in 0..r[d]["stale"], l \in 0..r[d]["legacy"], f \in 0..r[d]["foreign"] :
        left = [NoRules EXCEPT !["current"] = c, !["stale"] = s, !["legacy"] = l, !["foreign"] = f,
                               !["extra"] = r[d]["extra"]]
  BY DEF Fewer
<1>2. r[d]["extra"] \in Nat /\ r[d]["foreign"] \in Nat
  BY KindFacts, CountFacts
<1>3. c \in Nat /\ s \in Nat /\ l \in Nat /\ f \in Nat /\ f <= r[d]["foreign"]
  BY <1>2
<1>4. left \in [Kinds -> Nat] /\ left["extra"] = r[d]["extra"] /\ left["foreign"] = f
  BY <1>1, <1>2, <1>3, KindFacts DEF Kinds, OwnedKinds
<1> QED BY <1>3, <1>4

(* A look notes the names where it comes upon somebody else's rule.        *)
LEMMA MeetsFacts ==
    ASSUME FirewallTypeOK, FirewallInv, NEW S, S \subseteq Desired
    PROVE  Meets(S) \subseteq Desired /\ \A d \in Meets(S) : rules[d]["foreign"] > 0
BY DEF FirewallTypeOK, FwCalls, FirewallInv, Meets

(* Turning to the roll-back starts it at the first rule that was touched.  *)
LEMMA RollBackFacts ==
    ASSUME FirewallTypeOK, NEW last \in Stale, NEW met, met \subseteq Desired, RollBack(last, met)
    PROVE  /\ fw' \in FwCalls /\ fw'.pc = "back_remove" /\ fw'.original = fw.original
           /\ fw'.at \in Stale /\ fw'.last = last /\ fw'.at <= last
           /\ fw'.status = fw.status /\ fw'.rolled = fw.rolled /\ fw'.met = met
<1> DEFINE f == CHOOSE d \in Stale : \A e \in Stale : d <= e
<1>1. f \in Stale /\ \A e \in Stale : f <= e
  BY FirstStale
<1>2. fw' = [fw EXCEPT !.pc = "back_remove", !.last = last, !.before = 0, !.met = met, !.at = f]
  BY DEF RollBack
<1> HIDE DEF f
<1>3. f \in 0..RuleCount /\ last \in 0..RuleCount
  BY <1>1, FirewallAssumption DEF Stale, Desired
<1>4. fw \in FwCalls
  BY DEF FirewallTypeOK
<1>5. fw' \in FwCalls
  BY <1>2, <1>3, <1>4 DEF FwCalls
<1>6. /\ fw'.pc = "back_remove" /\ fw'.original = fw.original
      /\ fw'.at = f /\ fw'.last = last
      /\ fw'.status = fw.status /\ fw'.rolled = fw.rolled /\ fw'.met = met
  BY <1>2, <1>4 DEF FwCalls
<1> QED BY <1>1, <1>5, <1>6

(* What a step has to show when the transaction goes on: the plan is the   *)
(* same, and the verdict is still open.                                    *)
LEMMA TransactionKeeps ==
    ASSUME FirewallTypeOK, FirewallInv, fw.pc # "idle",
           rules' \in RuleSets, OthersKept,
           fw' \in FwCalls, fw'.original = fw.original, fw'.status = fw.status,
           fw'.pc \notin {"idle"},
           fw'.rolled = "complete" => fw.rolled = "complete",
           fw'.pc \in {"remove", "removing", "add"} => fw'.at \in Stale,
           fw'.pc \in {"verify", "audit"} => fw'.last \in Stale,
           fw'.pc \in {"back_remove", "back_removing", "back_add", "back_verify"} =>
              fw'.at \in Stale /\ fw'.last \in Stale /\ fw'.at <= fw'.last,
           \A d \in fw'.met : rules'[d]["foreign"] > 0,
           fw'.pc \in {"removing", "back_removing"} => fw'.at \notin fw'.met,
           fw'.pc = "audit" => Narrow'
    PROVE  FirewallTypeOK' /\ FirewallInv' /\ FwStepSafe
<1>1. Stale' = Stale
  BY DEF Stale
<1>2. fw'.status = "none"
  BY DEF FirewallInv
<1>3. FirewallTypeOK'
  BY DEF FirewallTypeOK
<1>4. FirewallInv'
  BY <1>1, <1>2 DEF FirewallInv
<1>5. \A d \in Desired : rules[d]["foreign"] \in Nat
  BY CountFacts, KindFacts DEF FirewallTypeOK
<1>6. FwStepSafe
  BY <1>2, <1>5 DEF FwStepSafe, OthersKept
<1> QED BY <1>3, <1>4, <1>6

(* A look that lets the removal go on has found no rule of others, and one *)
(* that refuses notes it.                                                  *)
LEMMA RemoveOwnedKeeps ==
    ASSUME FirewallTypeOK, FirewallInv, NEW ok \in BOOLEAN, RemoveOwned(ok)
    PROVE  FirewallTypeOK' /\ FirewallInv' /\ FwStepSafe
<1>0. rules \in RuleSets /\ fw \in FwCalls /\ rules' = rules
  BY DEF FirewallTypeOK, RemoveOwned
<1>1. fw.pc = "remove" /\ fw.at \in Stale /\ fw.at \in Desired
  BY DEF RemoveOwned, FirewallInv, Stale
<1>2. OthersKept
  BY <1>0 DEF OthersKept
<1>3. CASE ok /\ ~Refused(fw.at, Planned(fw.at))
  <2>1. PICK p \in {"add", "removing"} : fw' = [fw EXCEPT !.pc = p, !.before = Seen(fw.at)]
    <3>1. CASE Seen(fw.at) = 0
      BY <1>3, <3>1 DEF RemoveOwned
    <3>2. CASE Seen(fw.at) # 0
      BY <1>3, <3>2 DEF RemoveOwned
    <3> QED BY <3>1, <3>2
  <2>2. Seen(fw.at) \in Nat
    BY <1>0, <1>1, CountFacts DEF Seen, Kinds, OwnedKinds
  <2>3. /\ fw' \in FwCalls /\ fw'.pc = p /\ fw'.original = fw.original /\ fw'.at = fw.at
        /\ fw'.status = fw.status /\ fw'.rolled = fw.rolled /\ fw'.met = fw.met
    BY <1>0, <2>1, <2>2 DEF FwCalls
  <2>4. fw.at \notin fw.met /\ \A d \in fw.met : rules'[d]["foreign"] > 0
    <3>1. rules[fw.at]["foreign"] = 0
      BY <1>3 DEF Refused, Collectable
    <3> QED BY <1>0, <3>1 DEF FirewallInv
  <2> QED BY <1>0, <1>1, <1>2, <2>3, <2>4, TransactionKeeps
<1>4. CASE RollBack(fw.at, Meets({fw.at}))
  <2>1. /\ Meets({fw.at}) \subseteq Desired
        /\ \A d \in Meets({fw.at}) : rules[d]["foreign"] > 0
    BY <1>1, MeetsFacts
  <2>2. /\ fw' \in FwCalls /\ fw'.pc = "back_remove" /\ fw'.original = fw.original
        /\ fw'.at \in Stale /\ fw'.last \in Stale /\ fw'.at <= fw'.last
        /\ fw'.status = fw.status /\ fw'.rolled = fw.rolled /\ fw'.met = Meets({fw.at})
    BY <1>1, <1>4, <2>1, RollBackFacts
  <2> QED BY <1>0, <1>1, <1>2, <2>1, <2>2, TransactionKeeps
<1> QED BY <1>3, <1>4 DEF RemoveOwned

(* Where the roll-back goes from a rule: to the comparison behind the last *)
(* rule that was touched, else to the next one, which there is.            *)
LEMMA BackGoesOn ==
    ASSUME FirewallTypeOK, fw.at \in Stale, fw.last \in Stale, fw.at <= fw.last,
           NEW r \in {"no", "complete", "failed"}, NEW met, met \subseteq Desired, BackOn(r, met)
    PROVE  /\ fw' \in FwCalls /\ fw'.pc \in {"back_verify", "back_remove"}
           /\ fw'.original = fw.original /\ fw'.status = fw.status /\ fw'.rolled = r
           /\ fw'.at \in Stale /\ fw'.last = fw.last /\ fw'.at <= fw'.last /\ fw'.met = met
<1> DEFINE n == IF fw.at = fw.last THEN fw.at ELSE CHOOSE e \in NextStale(fw.at) : TRUE
           q == IF fw.at = fw.last THEN "back_verify" ELSE "back_remove"
<1>0. fw \in FwCalls
  BY DEF FirewallTypeOK
<1>1. fw.at \in Nat /\ fw.last \in Nat
  BY FirewallAssumption DEF Stale, Desired
<1>2. n \in Stale /\ n <= fw.last
  <2>1. CASE fw.at = fw.last
    BY <1>1, <2>1
  <2>2. CASE fw.at # fw.last
    <3>1. fw.at < fw.last
      BY <1>1, <2>2
    <3>2. LET m == CHOOSE d \in NextStale(fw.at) : TRUE IN m \in Stale /\ m <= fw.last
      BY <1>1, <3>1, NextStaleFound
    <3> QED BY <2>2, <3>2
  <2> QED BY <2>1, <2>2
<1>3. q \in {"back_verify", "back_remove"}
  OBVIOUS
<1>4. fw' = [fw EXCEPT !.pc = q, !.at = n, !.before = 0, !.met = met, !.rolled = r]
  BY Zenon DEF BackOn
<1> HIDE DEF n, q
<1>5. n \in 0..RuleCount
  BY <1>2, FirewallAssumption DEF Stale, Desired
<1>6. fw' \in FwCalls
  BY <1>0, <1>3, <1>4, <1>5 DEF FwCalls
<1>7. /\ fw'.pc = q /\ fw'.original = fw.original /\ fw'.status = fw.status
      /\ fw'.rolled = r /\ fw'.at = n /\ fw'.last = fw.last /\ fw'.met = met
  BY <1>0, <1>4 DEF FwCalls
<1> QED BY <1>2, <1>3, <1>6, <1>7

(* Windows removes by name; no look of the call has come upon a rule of    *)
(* others there.                                                           *)
LEMMA RemoveNamedKeeps ==
    ASSUME FirewallTypeOK, FirewallInv, NEW ok \in BOOLEAN, RemoveNamed(ok)
    PROVE  FirewallTypeOK' /\ FirewallInv' /\ FwStepSafe
<1>0. rules \in RuleSets /\ fw \in FwCalls /\ fw.met \subseteq Desired
  BY DEF FirewallTypeOK, FwCalls
<1>1. /\ fw.pc \in {"removing", "back_removing"} /\ fw.at \in Stale /\ fw.at \in Desired
      /\ fw.pc = "back_removing" => fw.last \in Stale /\ fw.at <= fw.last
      /\ fw.at \notin fw.met
  <2>1. fw.pc \in {"removing", "back_removing"}
    BY DEF RemoveNamed
  <2>2. fw.at \in Stale
    BY <2>1 DEF FirewallInv
  <2> QED BY <2>1, <2>2 DEF FirewallInv, Stale
<1>2. PICK left \in Fewer(rules, fw.at) : rules' = [rules EXCEPT ![fw.at] = left]
  BY DEF RemoveNamed
<1>3. left \in [Kinds -> Nat] /\ left["extra"] = rules[fw.at]["extra"]
  BY <1>0, <1>1, FewerFacts
<1>4. /\ rules' \in RuleSets
      /\ rules'[fw.at] = left /\ \A e \in Desired : e # fw.at => rules'[e] = rules[e]
  BY <1>0, <1>1, <1>2, <1>3 DEF RuleSets
<1>5. OthersKept
  BY <1>1, <1>3, <1>4 DEF OthersKept
<1>6. \A d \in fw.met : rules'[d]["foreign"] > 0
  BY <1>0, <1>1, <1>4 DEF FirewallInv
<1>7. CASE \E p \in {"remove", "back_remove"} : /\ fw' = [fw EXCEPT !.pc = p]
                                                /\ p = "back_remove" => fw.pc = "back_removing"
  <2>1. PICK p \in {"remove", "back_remove"} : /\ fw' = [fw EXCEPT !.pc = p]
                                               /\ p = "back_remove" => fw.pc = "back_removing"
    BY <1>7
  <2>2. /\ fw' \in FwCalls /\ fw'.pc = p /\ fw'.original = fw.original /\ fw'.at = fw.at
        /\ fw'.status = fw.status /\ fw'.rolled = fw.rolled /\ fw'.met = fw.met /\ fw'.last = fw.last
    BY <1>0, <2>1 DEF FwCalls
  <2> QED BY <1>1, <1>4, <1>5, <1>6, <2>1, <2>2, TransactionKeeps
<1>8. CASE RollBack(fw.at, fw.met)
  <2>1. /\ fw' \in FwCalls /\ fw'.pc = "back_remove" /\ fw'.original = fw.original
        /\ fw'.at \in Stale /\ fw'.last \in Stale /\ fw'.at <= fw'.last
        /\ fw'.status = fw.status /\ fw'.rolled = fw.rolled /\ fw'.met = fw.met
    BY <1>0, <1>1, <1>8, RollBackFacts
  <2> QED BY <1>1, <1>4, <1>5, <1>6, <2>1, TransactionKeeps
<1>9. CASE fw.pc = "back_removing" /\ BackOn("failed", fw.met)
  <2>1. /\ fw' \in FwCalls /\ fw'.pc \in {"back_verify", "back_remove"}
        /\ fw'.original = fw.original /\ fw'.status = fw.status /\ fw'.rolled = "failed"
        /\ fw'.at \in Stale /\ fw'.last = fw.last /\ fw'.at <= fw'.last /\ fw'.met = fw.met
    BY <1>0, <1>1, <1>9, BackGoesOn
  <2> QED BY <1>1, <1>4, <1>5, <1>6, <1>9, <2>1, TransactionKeeps
<1>10. CASE ok
  <2>1. fw' = [fw EXCEPT !.pc = IF fw.pc = "removing" THEN "remove" ELSE "back_remove"]
    BY <1>10 DEF RemoveNamed
  <2>2. CASE fw.pc = "removing"
    BY <1>7, <2>1, <2>2
  <2>3. CASE fw.pc = "back_removing"
    BY <1>7, <2>1, <2>3
  <2> QED BY <1>1, <2>2, <2>3
<1>11. CASE ~ok /\ fw.pc = "removing"
  <2>1. RollBack(fw.at, fw.met)
    BY <1>11 DEF RemoveNamed
  <2> QED BY <1>8, <2>1
<1>12. CASE ~ok /\ fw.pc = "back_removing"
  <2>1. BackOn("failed", fw.met)
    BY <1>12 DEF RemoveNamed
  <2> QED BY <1>9, <1>12, <2>1
<1> QED BY <1>1, <1>10, <1>11, <1>12

(* Adding the rule under its cleared name, and on to the next one.         *)
LEMMA AddRuleKeeps ==
    ASSUME FirewallTypeOK, FirewallInv, NEW ok \in BOOLEAN, AddRule(ok)
    PROVE  FirewallTypeOK' /\ FirewallInv' /\ FwStepSafe
<1>0. rules \in RuleSets /\ fw \in FwCalls /\ fw.met \subseteq Desired
  BY DEF FirewallTypeOK, FwCalls
<1>1. fw.pc = "add" /\ fw.at \in Stale /\ fw.at \in Desired
  BY DEF AddRule, FirewallInv, Stale
<1>2. CASE ok
  <2>1. rules' = [rules EXCEPT ![fw.at]["current"] = @ + 1]
    BY <1>2 DEF AddRule, Created
  <2>2. rules[fw.at] \in [Kinds -> Nat] /\ "current" \in Kinds
    BY <1>0, <1>1, KindFacts DEF RuleSets
  <2> DEFINE new == [rules[fw.at] EXCEPT !["current"] = rules[fw.at]["current"] + 1]
  <2>3. /\ new \in [Kinds -> Nat]
        /\ \A k \in Kinds : k # "current" => new[k] = rules[fw.at][k]
    BY <2>2
  <2>4. rules' = [rules EXCEPT ![fw.at] = new]
    BY <1>0, <1>1, <2>1, <2>2
  <2> HIDE DEF new
  <2>5. /\ rules' \in RuleSets
        /\ rules'[fw.at] = new /\ \A e \in Desired : e # fw.at => rules'[e] = rules[e]
    BY <1>0, <1>1, <2>3, <2>4 DEF RuleSets
  <2>6. \A e \in Desired : rules'[e]["foreign"] = rules[e]["foreign"] /\ rules'[e]["extra"] = rules[e]["extra"]
    BY <2>3, <2>5, KindFacts
  <2>7. OthersKept /\ \A e \in fw.met : rules'[e]["foreign"] > 0
    BY <1>0, <2>6 DEF OthersKept, FirewallInv
  <2>8. CASE NextStale(fw.at) = {}
    <3>1. fw' = [fw EXCEPT !.pc = "verify", !.last = fw.at]
      BY <1>2, <2>8 DEF AddRule
    <3>2. /\ fw' \in FwCalls /\ fw'.pc = "verify" /\ fw'.original = fw.original /\ fw'.last = fw.at
          /\ fw'.status = fw.status /\ fw'.rolled = fw.rolled /\ fw'.met = fw.met
      BY <1>0, <3>1 DEF FwCalls
    <3> QED BY <1>1, <2>5, <2>7, <3>2, TransactionKeeps
  <2>9. CASE NextStale(fw.at) # {}
    <3> DEFINE n == CHOOSE d \in NextStale(fw.at) : TRUE
    <3>1. n \in NextStale(fw.at)
      BY <2>9, Zenon
    <3>2. fw' = [fw EXCEPT !.pc = "remove", !.at = n]
      BY <1>2, <2>9 DEF AddRule
    <3> HIDE DEF n
    <3>3. n \in Stale /\ n \in 0..RuleCount
      BY <3>1, FirewallAssumption DEF NextStale, Stale, Desired
    <3>4. /\ fw' \in FwCalls /\ fw'.pc = "remove" /\ fw'.original = fw.original /\ fw'.at = n
          /\ fw'.status = fw.status /\ fw'.rolled = fw.rolled /\ fw'.met = fw.met
      BY <1>0, <3>2, <3>3 DEF FwCalls
    <3> QED BY <1>1, <2>5, <2>7, <3>3, <3>4, TransactionKeeps
  <2> QED BY <2>8, <2>9
<1>3. CASE ~ok
  <2>1. rules' = rules /\ RollBack(fw.at, fw.met)
    BY <1>3 DEF AddRule
  <2>2. /\ fw' \in FwCalls /\ fw'.pc = "back_remove" /\ fw'.original = fw.original
        /\ fw'.at \in Stale /\ fw'.last \in Stale /\ fw'.at <= fw'.last
        /\ fw'.status = fw.status /\ fw'.rolled = fw.rolled /\ fw'.met = fw.met
    BY <1>0, <1>1, <2>1, RollBackFacts
  <2>3. rules' \in RuleSets /\ OthersKept /\ \A d \in fw.met : rules'[d]["foreign"] > 0
    BY <1>0, <2>1 DEF OthersKept, FirewallInv
  <2> QED BY <1>1, <2>2, <2>3, TransactionKeeps
<1> QED BY <1>2, <1>3

(* A call that ends with a verdict forgets its plan.                       *)
LEMMA FwOverFacts ==
    ASSUME NEW t \in {"none", "ready", "unfiltered", "provisioned", "requires_elevation",
                         "unavailable", "failed"}, NEW s \in BOOLEAN,
           fw' = [pc |-> "idle", at |-> 0, last |-> 0, before |-> 0,
                  original |-> [d \in Desired |-> NoRules], met |-> {}, shared |-> s,
                  rolled |-> "no", status |-> t],
           FirewallTypeOK, rules' = rules,
           t \in {"ready", "provisioned"} =>
               \A d \in Desired : (s \/ Owned(rules, d) = OnlyCurrent) /\ rules[d]["extra"] = 0
    PROVE  FirewallTypeOK' /\ FirewallInv' /\ FwStepSafe /\ fw'.pc = "idle" /\ fw'.shared = s
<1> DEFINE empty == [d \in Desired |-> NoRules]
<1>1. empty \in RuleSets /\ \A d \in Desired : empty[d]["foreign"] = 0 /\ empty[d]["extra"] = 0
  BY KindFacts DEF RuleSets
<1> DEFINE call == [pc |-> "idle", at |-> 0, last |-> 0, before |-> 0, original |-> empty, met |-> {},
                    shared |-> s, rolled |-> "no", status |-> t]
<1>2. fw' = call
  OBVIOUS
<1> HIDE DEF empty
<1>3. 0 \in 0..RuleCount
  BY FirewallAssumption
<1>4. fw' \in FwCalls
  <2>1. empty \in RuleSets
    BY <1>1
  <2>2. call \in FwCalls
    BY <1>3, <2>1, SMT DEF FwCalls
  <2> QED BY <1>2, <2>2
<1>5. /\ fw'.pc = "idle" /\ fw'.original = empty /\ fw'.status = t /\ fw'.rolled = "no"
      /\ fw'.met = {} /\ fw'.shared = s
  BY <1>2
<1>6. FirewallTypeOK'
  BY <1>4 DEF FirewallTypeOK
<1>7. t \in {"ready", "provisioned"} => fw'.shared \/ Narrow'
  BY <1>5 DEF Narrow
<1>8. FirewallInv'
  BY <1>1, <1>5, <1>7 DEF FirewallInv
<1>9. FwStepSafe
  BY <1>5 DEF FwStepSafe
<1> QED BY <1>5, <1>6, <1>8, <1>9

LEMMA FwEndsFacts ==
    ASSUME NEW t \in {"none", "ready", "unfiltered", "provisioned", "requires_elevation",
                         "unavailable", "failed"}, NEW s \in BOOLEAN,
           FwEnds(t, s), FirewallTypeOK, rules' = rules,
           t \in {"ready", "provisioned"} =>
               \A d \in Desired : (s \/ Owned(rules, d) = OnlyCurrent) /\ rules[d]["extra"] = 0
    PROVE  FirewallTypeOK' /\ FirewallInv' /\ FwStepSafe
<1>1. fw' = [pc |-> "idle", at |-> 0, last |-> 0, before |-> 0,
             original |-> [d \in Desired |-> NoRules], met |-> {}, shared |-> s,
             rolled |-> "no", status |-> t]
  BY DEF NoFwCall, FwEnds
<1> QED BY <1>1, FwOverFacts

(* Verification and audit: both verdicts rest on what Windows holds.       *)
LEMMA VerdictKeeps ==
    ASSUME FirewallTypeOK, FirewallInv, NEW ok \in BOOLEAN, VerifyRules(ok) \/ PostAudit(ok)
    PROVE  FirewallTypeOK' /\ FirewallInv' /\ FwStepSafe
<1>0. rules \in RuleSets /\ fw \in FwCalls /\ rules' = rules /\ fw.met \subseteq Desired
  BY DEF FirewallTypeOK, FwCalls, VerifyRules, PostAudit
<1>1. fw.pc \in {"verify", "audit"} /\ fw.last \in Stale
  <2>1. fw.pc \in {"verify", "audit"}
    BY DEF VerifyRules, PostAudit
  <2> QED BY <2>1 DEF FirewallInv
<1>2. OthersKept
  BY <1>0 DEF OthersKept
<1>3. ASSUME NEW met, met \subseteq Desired, \A d \in met : rules[d]["foreign"] > 0, RollBack(fw.last, met)
      PROVE  FirewallTypeOK' /\ FirewallInv' /\ FwStepSafe
  <2>1. /\ fw' \in FwCalls /\ fw'.pc = "back_remove" /\ fw'.original = fw.original
        /\ fw'.at \in Stale /\ fw'.last \in Stale /\ fw'.at <= fw'.last
        /\ fw'.status = fw.status /\ fw'.rolled = fw.rolled /\ fw'.met = met
    BY <1>1, <1>3, RollBackFacts
  <2> QED BY <1>0, <1>1, <1>2, <1>3, <2>1, TransactionKeeps
<1>4. CASE (\A d \in Desired : IsCurrent(d)) /\ fw' = [fw EXCEPT !.pc = "audit"]
  <2>1. /\ fw' \in FwCalls /\ fw'.pc = "audit" /\ fw'.original = fw.original /\ fw'.last = fw.last
        /\ fw'.status = fw.status /\ fw'.rolled = fw.rolled /\ fw'.met = fw.met
    BY <1>0, <1>4 DEF FwCalls
  <2>2. Narrow' /\ \A d \in fw.met : rules'[d]["foreign"] > 0
    BY <1>0, <1>4 DEF Narrow, IsCurrent, FirewallInv
  <2> QED BY <1>0, <1>1, <1>2, <2>1, <2>2, TransactionKeeps
<1>5. CASE fw.pc = "audit" /\ ~Conflicting /\ FwEnds("provisioned", fw.shared)
  <2>1. \A d \in Desired : rules[d]["extra"] = 0
    <3> SUFFICES ASSUME NEW d \in Desired PROVE rules[d]["extra"] = 0
      OBVIOUS
    <3>1. rules[d]["extra"] \in Nat
      BY <1>0, KindFacts, CountFacts
    <3> QED BY <1>5, <3>1 DEF Conflicting
  <2>2. fw.shared \/ Narrow
    BY <1>5 DEF FirewallInv
  <2>3. fw.shared \in BOOLEAN
    BY <1>0 DEF FwCalls
  <2> QED BY <1>0, <1>5, <2>1, <2>2, <2>3, FwEndsFacts DEF Narrow
<1> DEFINE looked == Meets({d \in Desired : \A e \in Desired : e < d => IsCurrent(e)})
<1>6. CASE RollBack(fw.last, looked)
  <2>1. looked \subseteq Desired /\ \A d \in looked : rules[d]["foreign"] > 0
    BY MeetsFacts
  <2> HIDE DEF looked
  <2> QED BY <1>3, <1>6, <2>1
<1>7. CASE RollBack(fw.last, fw.met)
  <2>1. \A d \in fw.met : rules[d]["foreign"] > 0
    BY DEF FirewallInv
  <2> QED BY <1>0, <1>3, <1>7, <2>1
<1> HIDE DEF looked
<1>8. CASE VerifyRules(ok)
  BY <1>4, <1>6, <1>8 DEF VerifyRules, looked
<1>9. CASE PostAudit(ok)
  BY <1>5, <1>7, <1>9 DEF PostAudit
<1> QED BY <1>8, <1>9

(* Looking at a name again before what was there is put back.              *)
LEMMA BackRemoveKeeps ==
    ASSUME FirewallTypeOK, FirewallInv, NEW ok \in BOOLEAN, BackRemove(ok)
    PROVE  FirewallTypeOK' /\ FirewallInv' /\ FwStepSafe
<1>0. rules \in RuleSets /\ fw \in FwCalls /\ rules' = rules
  BY DEF FirewallTypeOK, BackRemove
<1>1. /\ fw.pc = "back_remove" /\ fw.at \in Stale /\ fw.at \in Desired
      /\ fw.last \in Stale /\ fw.at <= fw.last
  BY DEF BackRemove, FirewallInv, Stale
<1>2. OthersKept
  BY <1>0 DEF OthersKept
<1>3. CASE ok /\ ~Refused(fw.at, Planned(fw.at) \cup {"current"})
  <2>1. PICK p \in {"back_add", "back_removing"} : fw' = [fw EXCEPT !.pc = p, !.before = Seen(fw.at)]
    <3>1. CASE Seen(fw.at) = 0
      BY <1>3, <3>1 DEF BackRemove
    <3>2. CASE Seen(fw.at) # 0
      BY <1>3, <3>2 DEF BackRemove
    <3> QED BY <3>1, <3>2
  <2>2. Seen(fw.at) \in Nat
    BY <1>0, <1>1, CountFacts DEF Seen, Kinds, OwnedKinds
  <2>3. /\ fw' \in FwCalls /\ fw'.pc = p /\ fw'.original = fw.original /\ fw'.at = fw.at
        /\ fw'.status = fw.status /\ fw'.rolled = fw.rolled /\ fw'.met = fw.met /\ fw'.last = fw.last
    BY <1>0, <2>1, <2>2 DEF FwCalls
  <2>4. fw.at \notin fw.met /\ \A d \in fw.met : rules'[d]["foreign"] > 0
    <3>1. rules[fw.at]["foreign"] = 0
      BY <1>3 DEF Refused, Collectable
    <3> QED BY <1>0, <3>1 DEF FirewallInv
  <2> QED BY <1>0, <1>1, <1>2, <2>3, <2>4, TransactionKeeps
<1>4. CASE BackOn("failed", Meets({fw.at}))
  <2>1. /\ Meets({fw.at}) \subseteq Desired
        /\ \A d \in Meets({fw.at}) : rules[d]["foreign"] > 0
    BY <1>1, MeetsFacts
  <2>2. /\ fw' \in FwCalls /\ fw'.pc \in {"back_verify", "back_remove"}
        /\ fw'.original = fw.original /\ fw'.status = fw.status /\ fw'.rolled = "failed"
        /\ fw'.at \in Stale /\ fw'.last = fw.last /\ fw'.at <= fw'.last /\ fw'.met = Meets({fw.at})
    BY <1>1, <1>4, <2>1, BackGoesOn
  <2> QED BY <1>0, <1>1, <1>2, <2>1, <2>2, TransactionKeeps
<1> QED BY <1>3, <1>4 DEF BackRemove

(* Adding what was there before: no rule of others is in a plan.           *)
LEMMA BackAddKeeps ==
    ASSUME FirewallTypeOK, FirewallInv, NEW ok \in BOOLEAN, BackAdd(ok)
    PROVE  FirewallTypeOK' /\ FirewallInv' /\ FwStepSafe
<1>0. rules \in RuleSets /\ fw \in FwCalls /\ fw.original \in RuleSets /\ fw.met \subseteq Desired
  BY DEF FirewallTypeOK, FwCalls
<1>1. /\ fw.pc = "back_add" /\ fw.at \in Stale /\ fw.at \in Desired
      /\ fw.last \in Stale /\ fw.at <= fw.last
      /\ fw.original[fw.at]["foreign"] = 0 /\ fw.original[fw.at]["extra"] = 0
  BY DEF BackAdd, FirewallInv, Stale
<1>2. PICK r \in {"no", "complete", "failed"} : BackOn(r, fw.met) /\ r \in {fw.rolled, "failed"}
  <2>1. fw.rolled \in {"no", "complete", "failed"}
    BY <1>0 DEF FwCalls
  <2>2. CASE ok
    BY <2>1, <2>2 DEF BackAdd
  <2>3. CASE ~ok
    BY <2>3 DEF BackAdd
  <2> QED BY <2>2, <2>3
<1>3. /\ fw' \in FwCalls /\ fw'.pc \in {"back_verify", "back_remove"}
      /\ fw'.original = fw.original /\ fw'.status = fw.status /\ fw'.rolled = r
      /\ fw'.at \in Stale /\ fw'.last = fw.last /\ fw'.at <= fw'.last /\ fw'.met = fw.met
  BY <1>0, <1>1, <1>2, BackGoesOn
<1>4. PICK some \in Fewer(fw.original, fw.at) :
        rules' = [rules EXCEPT ![fw.at] = [k \in Kinds |-> rules[fw.at][k] + some[k]]]
  BY DEF BackAdd
<1>5. some \in [Kinds -> Nat] /\ some["foreign"] = 0 /\ some["extra"] = 0
  <2>1. /\ some \in [Kinds -> Nat] /\ some["extra"] = fw.original[fw.at]["extra"]
        /\ some["foreign"] <= fw.original[fw.at]["foreign"]
    BY <1>0, <1>1, FewerFacts
  <2> QED BY <1>1, <2>1, KindFacts
<1> DEFINE new == [k \in Kinds |-> rules[fw.at][k] + some[k]]
<1>6. \A k \in Kinds : rules[fw.at][k] \in Nat
  BY <1>0, <1>1, CountFacts
<1>7. new \in [Kinds -> Nat]
  BY <1>5, <1>6
<1>8. new["foreign"] = rules[fw.at]["foreign"] /\ new["extra"] = rules[fw.at]["extra"]
  BY <1>5, <1>6, KindFacts
<1>9. rules' = [rules EXCEPT ![fw.at] = new]
  BY <1>4
<1> HIDE DEF new
<1>10. /\ rules' \in RuleSets
       /\ rules'[fw.at] = new /\ \A e \in Desired : e # fw.at => rules'[e] = rules[e]
  BY <1>0, <1>1, <1>7, <1>9 DEF RuleSets
<1>11. \A e \in Desired : rules'[e]["foreign"] = rules[e]["foreign"] /\ rules'[e]["extra"] = rules[e]["extra"]
  BY <1>8, <1>10
<1>12. OthersKept /\ \A d \in fw.met : rules'[d]["foreign"] > 0
  BY <1>0, <1>11 DEF OthersKept, FirewallInv
<1> QED BY <1>1, <1>2, <1>3, <1>10, <1>12, TransactionKeeps

(* The roll-back ends with a comparison of what is there.                  *)
LEMMA BackVerifyKeeps ==
    ASSUME FirewallTypeOK, FirewallInv, NEW ok \in BOOLEAN, BackVerify(ok)
    PROVE  FirewallTypeOK' /\ FirewallInv' /\ FwStepSafe
<1> DEFINE same == \A d \in Desired : Collectable(d) /\ Owned(rules, d) = fw.original[d]
<1>0. rules \in RuleSets /\ fw \in FwCalls /\ rules' = rules
  BY DEF FirewallTypeOK, BackVerify
<1>1. PICK r \in {"complete", "failed"} :
        /\ fw' = [fw EXCEPT !.pc = "idle", !.status = "failed", !.rolled = r]
        /\ r = "complete" => same
  <2>1. CASE ok /\ same /\ fw.rolled = "no"
    <3>1. fw' = [fw EXCEPT !.pc = "idle", !.status = "failed", !.rolled = "complete"]
      BY <2>1 DEF BackVerify
    <3> QED BY <2>1, <3>1
  <2>2. CASE ~(ok /\ same /\ fw.rolled = "no")
    <3>1. fw' = [fw EXCEPT !.pc = "idle", !.status = "failed", !.rolled = "failed"]
      BY <2>2 DEF BackVerify
    <3> QED BY <3>1
  <2> QED BY <2>1, <2>2
<1> HIDE DEF same
<1>2. fw' \in FwCalls
  BY <1>0, <1>1 DEF FwCalls
<1>3. /\ fw'.pc = "idle" /\ fw'.status = "failed" /\ fw'.rolled = r /\ fw'.original = fw.original
      /\ fw'.met = fw.met
  BY <1>0, <1>1 DEF FwCalls
<1>4. FirewallTypeOK'
  BY <1>0, <1>2 DEF FirewallTypeOK
<1>5. FirewallInv'
  BY <1>0, <1>3 DEF FirewallInv
<1>6. \A d \in Desired : rules[d]["foreign"] \in Nat
  BY <1>0, CountFacts, KindFacts
<1>7. FwStepSafe
  BY <1>0, <1>1, <1>3, <1>6 DEF FwStepSafe, same
<1> QED BY <1>4, <1>5, <1>7

(* Planning: the plan holds the Host's own rules and no others, and starts *)
(* at the first that is not current.                                       *)
LEMMA BeginFirewallKeeps ==
    ASSUME FirewallTypeOK, FirewallInv, NEW e \in BOOLEAN, NEW ok \in BOOLEAN, BeginFirewall(e, ok)
    PROVE  FirewallTypeOK' /\ FirewallInv' /\ FwStepSafe
<1>0. rules \in RuleSets /\ rules' = rules
  BY DEF FirewallTypeOK, BeginFirewall
<1>1. CASE \E t \in {"unavailable", "failed", "unfiltered", "requires_elevation"} : FwEnds(t, FALSE)
  <2>1. PICK t \in {"unavailable", "failed", "unfiltered", "requires_elevation"} : FwEnds(t, FALSE)
    BY <1>1
  <2> QED BY <1>0, <2>1, FwEndsFacts
<1>2. CASE ~Conflicting /\ (\A d \in Desired : IsCurrent(d)) /\ FwEnds("ready", FALSE)
  <2>1. \A d \in Desired : rules[d]["extra"] = 0
    <3> SUFFICES ASSUME NEW d \in Desired PROVE rules[d]["extra"] = 0
      OBVIOUS
    <3>1. rules[d]["extra"] \in Nat
      BY <1>0, KindFacts, CountFacts
    <3> QED BY <1>2, <3>1 DEF Conflicting
  <2>2. \A d \in Desired : Owned(rules, d) = OnlyCurrent
    BY <1>2 DEF IsCurrent
  <2> QED BY <1>0, <1>2, <2>1, <2>2, FwEndsFacts
<1> DEFINE plan == [d \in Desired |-> Owned(rules, d)]
           first == CHOOSE d \in Desired : /\ plan[d] # OnlyCurrent
                                           /\ \A x \in Desired : plan[x] # OnlyCurrent => d <= x
<1>3. CASE /\ \A d \in Desired : Collectable(d)
           /\ ~ \A d \in Desired : IsCurrent(d)
           /\ fw' = [NoFwCall EXCEPT !.pc = "remove", !.original = plan, !.at = first]
  <2>1. /\ plan \in RuleSets
        /\ \A d \in Desired : plan[d]["foreign"] = 0 /\ plan[d]["extra"] = 0
    BY <1>0, OwnedFacts DEF RuleSets
  <2>2. first \in Desired /\ plan[first] # OnlyCurrent
    <3> DEFINE S == {d \in Desired : plan[d] # OnlyCurrent}
    <3>1. S \subseteq Nat
      BY FirewallAssumption DEF Desired
    <3>2. S # {}
      BY <1>3 DEF IsCurrent
    <3>3. \E m \in S : \A x \in S : m <= x
      BY <3>1, <3>2, Smallest
    <3>4. \E d \in Desired : plan[d] # OnlyCurrent /\ \A x \in Desired : plan[x] # OnlyCurrent => d <= x
      BY <3>3
    <3> HIDE DEF plan
    <3> QED BY <3>4, Zenon
  <2>3. fw' = [NoFwCall EXCEPT !.pc = "remove", !.original = plan, !.at = first]
    BY <1>3
  <2> HIDE DEF plan, first
  <2>4. first \in 0..RuleCount /\ 0 \in 0..RuleCount
    BY <2>2, FirewallAssumption DEF Desired
  <2> DEFINE call == [pc |-> "remove", at |-> first, last |-> 0, before |-> 0, original |-> plan,
                      met |-> {}, shared |-> FALSE, rolled |-> "no", status |-> "none"]
  <2>5. fw' = call
    BY <2>3 DEF NoFwCall
  <2>6. call \in FwCalls
    BY <2>1, <2>4, SMT DEF FwCalls
  <2>7. /\ fw'.pc = "remove" /\ fw'.original = plan /\ fw'.at = first
        /\ fw'.status = "none" /\ fw'.rolled = "no" /\ fw'.met = {}
    BY <2>5
  <2>8. FirewallTypeOK'
    BY <1>0, <2>5, <2>6 DEF FirewallTypeOK
  <2>9. fw'.at \in Stale'
    BY <2>2, <2>7 DEF Stale
  <2>10. FirewallInv'
    BY <2>1, <2>7, <2>9 DEF FirewallInv
  <2>11. FwStepSafe
    BY <1>0, <2>7 DEF FwStepSafe
  <2> QED BY <2>8, <2>10, <2>11
<1> QED BY <1>1, <1>2, <1>3, Zenon DEF BeginFirewall

(* Others change no rule of the Host, and another call of the Host changes *)
(* no rule of others.                                                      *)
LEMMA OthersKeep ==
    ASSUME FirewallTypeOK, FirewallInv, NEW d \in Desired, NEW k \in Kinds,
           OthersAdd(d, k) \/ OthersRemove(d, k) \/ OtherCall(d, k)
    PROVE  /\ FirewallTypeOK' /\ FirewallInv' /\ FwStepSafe
           /\ fw'.pc = fw.pc
           /\ fw.shared \/ Narrow => fw'.shared \/ Narrow'
<1>0. /\ rules \in RuleSets /\ fw \in FwCalls /\ fw.met \subseteq Desired
      /\ rules[d] \in [Kinds -> Nat] /\ rules[d][k] \in Nat
  BY DEF FirewallTypeOK, FwCalls, RuleSets
<1>1. PICK n \in Nat : /\ rules' = [rules EXCEPT ![d][k] = n]
                       /\ k \notin OwnedKinds => n >= rules[d][k] \/ (k = "foreign" => d \notin fw'.met)
  <2>1. CASE OthersAdd(d, k)
    <3>1. rules' = [rules EXCEPT ![d][k] = 1] /\ 1 >= rules[d][k]
      BY <2>1 DEF OthersAdd
    <3> QED BY <3>1
  <2>2. CASE OthersRemove(d, k)
    <3>1. k = "foreign" => d \notin fw'.met
      <4>1. ASSUME k = "foreign" PROVE d \notin fw'.met
        <5>1. fw' = [fw EXCEPT !.met = fw.met \ {d}]
          BY <1>0, <2>2, <4>1 DEF OthersRemove, FwCalls
        <5> QED BY <1>0, <5>1 DEF FwCalls
      <4> QED BY <4>1
    <3>2. rules' = [rules EXCEPT ![d][k] = 0]
      BY <2>2 DEF OthersRemove
    <3> QED BY <3>1, <3>2
  <2>3. CASE OtherCall(d, k)
    <3>1. k \in OwnedKinds
      BY <2>3 DEF OtherCall
    <3>2. CASE rules' = [rules EXCEPT ![d][k] = @ + 1]
      <4>1. rules' = [rules EXCEPT ![d][k] = rules[d][k] + 1] /\ rules[d][k] + 1 \in Nat
        BY <1>0, <3>2 DEF RuleSets
      <4> QED BY <1>0, <3>1, <4>1
    <3>3. CASE rules[d][k] > 0 /\ rules' = [rules EXCEPT ![d][k] = @ - 1]
      <4>1. rules' = [rules EXCEPT ![d][k] = rules[d][k] - 1] /\ rules[d][k] - 1 \in Nat
        BY <1>0, <3>3 DEF RuleSets
      <4> QED BY <1>0, <3>1, <4>1
    <3> QED BY <2>3, <3>2, <3>3 DEF OtherCall
  <2> QED BY <2>1, <2>2, <2>3
<1>2. /\ fw' \in FwCalls /\ fw'.pc = fw.pc /\ fw'.at = fw.at /\ fw'.last = fw.last
      /\ fw'.original = fw.original /\ fw'.status = fw.status /\ fw'.rolled = fw.rolled
      /\ fw'.met \subseteq fw.met
      /\ k \in OwnedKinds => fw'.shared
      /\ k \notin OwnedKinds => fw'.shared = fw.shared
      /\ k = "extra" => fw' = fw
  <2>1. CASE fw' = fw /\ k \notin OwnedKinds
    BY <1>0, <2>1
  <2>2. CASE k = "foreign" /\ fw' = [fw EXCEPT !.met = fw.met \ {d}]
    BY <1>0, <2>2, KindFacts DEF FwCalls
  <2>3. CASE k \in OwnedKinds /\ fw' = [fw EXCEPT !.shared = TRUE]
    BY <1>0, <2>3, KindFacts DEF FwCalls
  <2>4. CASE OthersAdd(d, k)
    BY <2>1, <2>4, KindFacts DEF OthersAdd
  <2>5. CASE OthersRemove(d, k)
    <3>1. k \in {"foreign", "extra"} /\ k \notin OwnedKinds
      BY <2>5, KindFacts DEF OthersRemove
    <3>2. CASE k = "foreign"
      <4>1. fw' = [fw EXCEPT !.met = fw.met \ {d}]
        BY <1>0, <2>5, <3>2 DEF OthersRemove, FwCalls
      <4> QED BY <2>2, <3>2, <4>1
    <3>3. CASE k = "extra"
      BY <2>1, <2>5, <3>1, <3>3 DEF OthersRemove
    <3> QED BY <3>1, <3>2, <3>3
  <2>6. CASE OtherCall(d, k)
    BY <2>3, <2>6 DEF OtherCall
  <2> QED BY <2>4, <2>5, <2>6
<1> DEFINE new == [rules[d] EXCEPT ![k] = n]
<1>3. new \in [Kinds -> Nat] /\ new[k] = n /\ \A x \in Kinds : x # k => new[x] = rules[d][x]
  BY <1>0
<1>4. rules' = [rules EXCEPT ![d] = new]
  BY <1>0, <1>1 DEF RuleSets
<1> HIDE DEF new
<1>5. rules' \in RuleSets /\ rules'[d] = new /\ \A c \in Desired : c # d => rules'[c] = rules[c]
  BY <1>0, <1>3, <1>4 DEF RuleSets
<1>6. \A c \in Desired : \A x \in Kinds : c # d \/ x # k => rules'[c][x] = rules[c][x]
  BY <1>3, <1>5
<1>7. fw.shared \/ Narrow => fw'.shared \/ Narrow'
  <2>1. CASE k \in OwnedKinds
    BY <1>2, <2>1
  <2>2. CASE k \notin OwnedKinds
    <3>1. \A c \in Desired : \A x \in OwnedKinds : rules'[c][x] = rules[c][x]
      BY <1>6, <2>2, KindFacts
    <3>2. \A c \in Desired : Owned(rules', c) = Owned(rules, c)
      BY <3>1 DEF Owned
    <3> QED BY <1>2, <2>2, <3>2 DEF Narrow
  <2> QED BY <2>1, <2>2
<1>8. FirewallTypeOK'
  BY <1>2, <1>5 DEF FirewallTypeOK
<1>9. Stale' = Stale
  BY <1>2 DEF Stale
<1>10. \A c \in Desired : rules[c]["foreign"] \in Nat /\ rules'[c]["foreign"] \in Nat
  BY <1>0, <1>5, CountFacts, KindFacts
<1>11. \A c \in fw'.met : rules'[c]["foreign"] >= rules[c]["foreign"]
  <2> SUFFICES ASSUME NEW c \in fw'.met PROVE rules'[c]["foreign"] >= rules[c]["foreign"]
    OBVIOUS
  <2>1. c \in Desired
    BY <1>0, <1>2
  <2>2. CASE c # d \/ "foreign" # k
    BY <1>6, <1>10, <2>1, <2>2, KindFacts
  <2>3. CASE c = d /\ "foreign" = k
    BY <1>1, <1>3, <1>5, <2>3, KindFacts
  <2> QED BY <2>2, <2>3
<1>12. \A c \in fw'.met : rules'[c]["foreign"] > 0
  <2> SUFFICES ASSUME NEW c \in fw'.met PROVE rules'[c]["foreign"] > 0
    OBVIOUS
  <2>1. c \in Desired /\ rules[c]["foreign"] > 0
    BY <1>0, <1>2 DEF FirewallInv
  <2> QED BY <1>10, <1>11, <2>1
<1>13. FirewallInv'
  BY <1>2, <1>7, <1>9, <1>12 DEF FirewallInv
<1>14. FwStepSafe
  BY <1>2, <1>6, <1>11, KindFacts DEF FwStepSafe
<1> QED BY <1>2, <1>7, <1>8, <1>13, <1>14

(* Every step keeps what is known of the firewall, and is safe.            *)
LEMMA FirewallKept ==
    ASSUME FirewallTypeOK, FirewallInv, FwMove
    PROVE  FirewallTypeOK' /\ FirewallInv' /\ FwStepSafe
<1>1. CASE UNCHANGED fwVars
  <2>1. \A d \in Desired : rules[d]["foreign"] \in Nat
    BY CountFacts, KindFacts DEF FirewallTypeOK
  <2>2. FwStepSafe
    BY <1>1, <2>1 DEF fwVars, FwStepSafe
  <2> QED BY <1>1, <2>2 DEF fwVars, FirewallTypeOK, FirewallInv, Stale, Narrow
<1>2. CASE FwResult \/ FirewallKilled
  <2>1. rules' = rules /\ fw.shared \in BOOLEAN
    BY <1>2 DEF FwResult, FirewallKilled, FirewallTypeOK, FwCalls
  <2>2. CASE FwResult
    <3>1. fw' = [pc |-> "idle", at |-> 0, last |-> 0, before |-> 0,
                 original |-> [d \in Desired |-> NoRules], met |-> {}, shared |-> fw.shared,
                 rolled |-> "no", status |-> "none"]
      BY <2>2 DEF FwResult, NoFwCall
    <3> QED BY <2>1, <3>1, FwOverFacts
  <2>3. CASE FirewallKilled
    <3>1. fw' = [pc |-> "idle", at |-> 0, last |-> 0, before |-> 0,
                 original |-> [d \in Desired |-> NoRules], met |-> {}, shared |-> FALSE,
                 rolled |-> "no", status |-> "none"]
      BY <2>3 DEF FirewallKilled, NoFwCall
    <3> QED BY <2>1, <3>1, FwOverFacts
  <2> QED BY <1>2, <2>2, <2>3
<1>3. ASSUME NEW o \in BOOLEAN, FirewallStep(o) PROVE FirewallTypeOK' /\ FirewallInv' /\ FwStepSafe
  BY <1>3, RemoveOwnedKeeps, RemoveNamedKeeps, AddRuleKeeps, VerdictKeeps, BackRemoveKeeps, BackAddKeeps,
     BackVerifyKeeps
     DEF FirewallStep
<1> QED BY <1>1, <1>2, <1>3, BeginFirewallKeeps, OthersKeep DEF FwMove

-----------------------------------------------------------------------------
(* The DHCP server                                                         *)

(* What a step may do to the lease, as LeaseStaysWithClient says it.       *)
LeaseStepSafe ==
    /\ dhcp.running /\ dhcp'.running /\ dhcp.lease => dhcp'.mac = dhcp.mac /\ dhcp'.lease
    /\ bound' \ bound # {} => /\ dhcp.offer \/ dhcp.lease
                              /\ bound' \ bound = {dhcp.mac}
                              /\ HasOwnMac => dhcp.mac # OwnMac

(* An answer goes to the client of the offer or lease, if there is one.    *)
LEMMA DhcpKept ==
    ASSUME DhcpTypeOK, DhcpMove
    PROVE  DhcpTypeOK' /\ LeaseStepSafe
<1>1. CASE UNCHANGED dhcpVars
  BY <1>1 DEF dhcpVars, DhcpTypeOK, LeaseStepSafe
<1>2. CASE StopDhcp
  BY <1>2 DEF StopDhcp, Stopped, DhcpTypeOK, LeaseStepSafe
<1>3. CASE ~dhcp.running /\ StartDhcp
  <2>1. dhcp' = [running |-> TRUE, offer |-> FALSE, lease |-> FALSE, mac |-> NoMac] /\ bound' = {}
    BY <1>3 DEF StartDhcp, Stopped
  <2>2. DhcpTypeOK'
    BY <2>1 DEF DhcpTypeOK
  <2> QED BY <1>3, <2>1, <2>2 DEF LeaseStepSafe
<1>4. ASSUME NEW m \in Requests, NEW ok \in BOOLEAN, Answer(m, ok) PROVE DhcpTypeOK' /\ LeaseStepSafe
  <2>0. m.mac \in Clients \cup {OwnMac} /\ m.type \in {"discover", "request"}
    BY DEF Requests
  <2>1. CASE ~ok
    BY <1>4, <2>1 DEF Answer, dhcpVars, DhcpTypeOK, LeaseStepSafe
  <2>2. CASE ok /\ m.type = "discover"
    <3>1. dhcp' = [dhcp EXCEPT !.offer = TRUE, !.mac = m.mac] /\ bound' = bound
      BY <1>4, <2>2 DEF Answer, Committed
    <3>2. dhcp.lease => m.mac = dhcp.mac
      BY <1>4, <2>2 DEF Answer, Accepts
    <3>3. DhcpTypeOK'
      BY <2>0, <3>1 DEF DhcpTypeOK
    <3>4. dhcp'.mac = m.mac /\ dhcp'.lease = dhcp.lease
      BY <3>1 DEF DhcpTypeOK
    <3> QED BY <3>1, <3>2, <3>3, <3>4 DEF LeaseStepSafe
  <2>3. CASE ok /\ m.type = "request"
    <3>1. dhcp' = [dhcp EXCEPT !.lease = TRUE, !.mac = m.mac] /\ bound' = bound \cup {m.mac}
      BY <1>4, <2>3 DEF Answer, Committed
    <3>2. (dhcp.offer \/ dhcp.lease) /\ m.mac = dhcp.mac /\ (HasOwnMac => m.mac # OwnMac)
      BY <1>4, <2>3 DEF Answer, Accepts
    <3>3. DhcpTypeOK'
      BY <2>0, <3>1 DEF DhcpTypeOK
    <3>4. dhcp'.mac = m.mac /\ dhcp'.lease
      BY <3>1 DEF DhcpTypeOK
    <3> QED BY <3>1, <3>2, <3>3, <3>4 DEF LeaseStepSafe
  <2> QED BY <2>0, <2>1, <2>2, <2>3
<1> QED BY <1>1, <1>2, <1>3, <1>4 DEF DhcpMove

-----------------------------------------------------------------------------
(* The bootstrap                                                           *)

(* Going on and hiring a worker.                                           *)
LEMMA BootSteps ==
    ASSUME boot \in Boots
    PROVE  /\ \A p \in {"off", "direct", "firewall", "undo", "dhcp", "open", "wait", "found", "failed", "closing"} :
                To(p) => boot' \in Boots /\ boot'.pc = p
           /\ \A w \in {"none", "provision", "restore", "firewall"} :
                Hire(w) => boot' \in Boots /\ boot'.pc = boot.pc
<1>1. ASSUME NEW p \in {"off", "direct", "firewall", "undo", "dhcp", "open", "wait", "found", "failed", "closing"},
             To(p)
      PROVE  boot' \in Boots /\ boot'.pc = p
  BY <1>1 DEF To, Boots
<1>2. ASSUME NEW w \in {"none", "provision", "restore", "firewall"}, Hire(w)
      PROVE  boot' \in Boots /\ boot'.pc = boot.pc
  BY <1>2 DEF Hire, Boots
<1> QED BY <1>1, <1>2

(* The counter of faults stays within its bound.                           *)
LEMMA SpendKeeps ==
    ASSUME faults \in 0..MaxFaults, NEW ok \in BOOLEAN, Spend(ok)
    PROVE  faults' \in 0..MaxFaults
BY BootstrapAssumption DEF Spend

(* A step that leaves the firewall alone, or ends its call, while the Host *)
(* does not get to the DHCP server by it.                                  *)
LEMMA BootStays ==
    ASSUME BootTypeOK, BootInv, boot' \in Boots, faults' \in 0..MaxFaults,
           rules' = rules, boot'.pc = "dhcp" => fw'.shared = fw.shared,
           fw'.pc # "idle" => boot'.pc \in {"firewall", "wait"},
           boot'.pc = "dhcp" => boot.pc = "dhcp"
    PROVE  BootTypeOK' /\ BootInv'
<1>1. Narrow => Narrow'
  BY DEF Narrow
<1> QED BY <1>1 DEF BootTypeOK, BootInv

(* The steps that do something about the adapter.                          *)
LEMMA BootLinkSteps ==
    ASSUME TypeOK, FirewallInv, BootInv,
           \/ \E ok \in BOOLEAN : CallLink(ok) \/ StepLink(ok) \/ StartServer(ok) \/ DhcpMessage(ok)
           \/ EnsureResult \/ UndoResult \/ CloseResult \/ Begin \/ Warmup \/ Close \/ Cancelled
    PROVE  BootTypeOK' /\ BootInv'
<1>0. boot \in Boots /\ faults \in 0..MaxFaults /\ BootTypeOK
  BY DEF TypeOK, BootTypeOK
<1>1. rules' = rules /\ fw' = fw
  BY DEF CallLink, StepLink, StartServer, DhcpMessage, EnsureResult, UndoResult, CloseResult,
         Begin, Warmup, Close, Cancelled, fwVars
<1>2. ASSUME NEW ok \in BOOLEAN, CallLink(ok) \/ StepLink(ok) \/ DhcpMessage(ok)
      PROVE  BootTypeOK' /\ BootInv'
  <2>1. boot' = boot /\ Spend(ok)
    BY <1>2 DEF CallLink, StepLink, DhcpMessage
  <2> QED BY <1>0, <1>1, <2>1, SpendKeeps, BootStays DEF BootInv
<1>3. ASSUME NEW ok \in BOOLEAN, StartServer(ok)
      PROVE  BootTypeOK' /\ BootInv'
  <2>1. boot.pc \in {"dhcp", "open"} /\ Spend(ok)
    BY <1>3 DEF StartServer
  <2>2. boot' \in Boots /\ boot'.pc # "dhcp"
    <3>1. CASE To("wait")
      BY <1>0, <3>1, BootSteps
    <3>2. CASE boot' = [boot EXCEPT !.pc = IF ~Isolated /\ boot.try = 1 THEN "direct" ELSE "failed",
                                    !.try = IF ~Isolated THEN 2 ELSE @]
      <4> DEFINE p == IF ~Isolated /\ boot.try = 1 THEN "direct" ELSE "failed"
                 t == IF ~Isolated THEN 2 ELSE boot.try
      <4>1. p \in {"direct", "failed"} /\ t \in 1..2
        BY <1>0 DEF Boots
      <4>2. boot' = [boot EXCEPT !.pc = p, !.try = t]
        BY <1>0, <3>2 DEF Boots
      <4> HIDE DEF p, t
      <4> QED BY <1>0, <4>1, <4>2 DEF Boots
    <3> QED BY <1>3, <3>1, <3>2 DEF StartServer
  <2>3. fw.pc = "idle"
    BY <2>1 DEF BootInv
  <2> QED BY <1>0, <1>1, <2>1, <2>2, <2>3, SpendKeeps, BootStays
<1>4. CASE EnsureResult
  <2>1. boot.pc = "direct" /\ faults' = faults
    BY <1>4 DEF EnsureResult
  <2>2. boot' \in Boots /\ boot'.pc # "dhcp"
    <3>1. CASE boot' = [boot EXCEPT !.pc = "firewall"]
      BY <1>0, <3>1 DEF Boots
    <3>2. CASE Hire("provision")
      BY <1>0, <2>1, <3>2, BootSteps
    <3>3. CASE To("failed")
      BY <1>0, <3>3, BootSteps
    <3> QED BY <1>4, <3>1, <3>2, <3>3 DEF EnsureResult
  <2>3. fw.pc = "idle"
    BY <2>1 DEF BootInv
  <2> QED BY <1>0, <1>1, <2>1, <2>2, <2>3, BootStays
<1>5. CASE UndoResult \/ CloseResult
  <2>1. boot.pc \in {"undo", "closing"} /\ faults' = faults
    BY <1>5 DEF UndoResult, CloseResult
  <2>2. boot' \in Boots /\ boot'.pc # "dhcp"
    <3>1. CASE Hire("restore")
      BY <1>0, <2>1, <3>1, BootSteps
    <3>2. CASE To("failed")
      BY <1>0, <3>2, BootSteps
    <3>3. CASE To("off")
      BY <1>0, <3>3, BootSteps
    <3> QED BY <1>5, <3>1, <3>2, <3>3 DEF UndoResult, CloseResult
  <2>3. fw.pc = "idle"
    BY <2>1 DEF BootInv
  <2> QED BY <1>0, <1>1, <2>1, <2>2, <2>3, BootStays
<1>6. CASE Begin \/ Close
  <2>1. boot.pc \in {"off", "found", "failed"} /\ faults' = faults
    BY <1>6 DEF Begin, Close
  <2>2. boot' \in Boots /\ boot'.pc # "dhcp"
    <3>1. CASE boot' = [boot EXCEPT !.pc = "direct", !.try = 1]
      <4>1. PICK t \in 1..2 : t = 1
        OBVIOUS
      <4>2. boot' = [boot EXCEPT !.pc = "direct", !.try = t]
        BY <3>1, <4>1
      <4> QED BY <1>0, <4>2 DEF Boots
    <3>2. CASE To("closing")
      BY <1>0, <3>2, BootSteps
    <3> QED BY <1>6, <3>1, <3>2 DEF Begin, Close
  <2>3. fw.pc = "idle"
    BY <2>1 DEF BootInv
  <2> QED BY <1>0, <1>1, <2>1, <2>2, <2>3, BootStays
<1>7. CASE Warmup
  <2>1. boot' = boot /\ faults' = faults
    BY <1>7 DEF Warmup
  <2> QED BY <1>0, <1>1, <2>1, BootStays DEF BootInv
<1>8. CASE Cancelled
  <2>1. To("failed") /\ Spend(FALSE)
    BY <1>8 DEF Cancelled
  <2>2. boot' \in Boots /\ boot'.pc = "failed"
    BY <1>0, <2>1, BootSteps
  <2>3. fw.pc = "idle"
    BY <1>8 DEF Cancelled, BootInv
  <2>4. faults' \in 0..MaxFaults
    BY <1>0, <2>1, SpendKeeps
  <2> QED BY <1>0, <1>1, <2>2, <2>3, <2>4, BootStays
<1> QED BY <1>2, <1>3, <1>4, <1>5, <1>6, <1>7, <1>8

(* The steps that do something about the firewall, and the ends of         *)
(* processes: the DHCP server is reached behind narrow rules only, and     *)
(* they are not touched while the Host is there.                           *)
LEMMA BootFirewallSteps ==
    ASSUME TypeOK, FirewallInv, BootInv,
           \/ \E ok \in BOOLEAN : CallFirewall(ok) \/ StepFirewall(ok)
           \/ FirewallResult \/ WaitResult \/ WorkerTerminated \/ Crash \/ World
           \/ UNCHANGED vars
    PROVE  BootTypeOK' /\ BootInv'
<1>0. boot \in Boots /\ faults \in 0..MaxFaults /\ BootTypeOK
  BY DEF TypeOK, BootTypeOK
<1>1. ASSUME NEW ok \in BOOLEAN, CallFirewall(ok)
      PROVE  BootTypeOK' /\ BootInv'
  <2>1. boot' = boot /\ Spend(ok) /\ rules' = rules /\ boot.pc \in {"firewall", "wait"}
    BY <1>1 DEF CallFirewall, BeginFirewall
  <2> QED BY <1>0, <2>1, SpendKeeps, BootStays
<1>2. ASSUME NEW ok \in BOOLEAN, StepFirewall(ok)
      PROVE  BootTypeOK' /\ BootInv'
  <2>1. boot' = boot /\ Spend(ok) /\ fw.pc # "idle"
    BY <1>2 DEF StepFirewall, FirewallStep, RemoveOwned, RemoveNamed, AddRule, VerifyRules, PostAudit,
                BackRemove, BackAdd, BackVerify
  <2>2. boot'.pc \in {"firewall", "wait"}
    BY <2>1 DEF BootInv
  <2>3. faults' \in 0..MaxFaults
    BY <1>0, <2>1, SpendKeeps
  <2> QED BY <1>0, <2>1, <2>2, <2>3 DEF BootTypeOK, BootInv
<1>3. CASE FirewallResult
  <2>1. /\ boot.pc = "firewall" /\ faults' = faults /\ rules' = rules
        /\ fw'.pc = "idle" /\ fw'.shared = fw.shared
    BY <1>3 DEF FirewallResult, FwResult, NoFwCall
  <2>2. CASE fw.status \in {"ready", "provisioned", "unfiltered"}
    <3>1. fw.status # "unfiltered" => fw'.shared \/ Narrow'
      BY <2>1, <2>2 DEF FirewallInv, Narrow
    <3>2. \/ To("direct") \/ To("firewall")
          \/ fw.status # "unfiltered" /\ To("dhcp")
          \/ To("open")
      <4>1. CASE boot.worker = "provision"
        BY <1>3, <2>2, <4>1 DEF FirewallResult
      <4>2. CASE boot.worker = "firewall"
        BY <1>3, <2>2, <4>2 DEF FirewallResult
      <4>3. CASE boot.worker \notin {"provision", "firewall"}
        BY <1>3, <2>2, <4>3 DEF FirewallResult
      <4> QED BY <4>1, <4>2, <4>3
    <3>3. boot' \in Boots /\ (boot'.pc = "dhcp" => fw.status # "unfiltered")
      BY <1>0, <3>2, BootSteps
    <3> QED BY <1>0, <2>1, <3>1, <3>3 DEF BootTypeOK, BootInv
  <2>3. CASE fw.status \notin {"ready", "provisioned", "unfiltered"}
    <3>1. boot' \in Boots /\ boot'.pc # "dhcp"
      <4>1. CASE Hire("firewall")
        BY <1>0, <2>1, <4>1, BootSteps
      <4>2. CASE To("failed") \/ To("undo")
        BY <1>0, <4>2, BootSteps
      <4>3. CASE boot' = [boot EXCEPT !.pc = "undo"]
        BY <1>0, <4>3 DEF Boots
      <4> QED BY <1>3, <2>3, <4>1, <4>2, <4>3 DEF FirewallResult
    <3> QED BY <1>0, <2>1, <3>1, BootStays
  <2> QED BY <2>2, <2>3
<1>4. CASE WaitResult
  <2>1. boot.pc = "wait" /\ faults' = faults /\ rules' = rules /\ fw'.pc = "idle"
    BY <1>4 DEF WaitResult, NoFwCall
  <2>2. boot' \in Boots /\ boot'.pc # "dhcp"
    <3>1. CASE Hire("firewall")
      BY <1>0, <2>1, <3>1, BootSteps
    <3>2. CASE To("failed") \/ To("found")
      BY <1>0, <3>2, BootSteps
    <3> QED BY <1>4, <3>1, <3>2 DEF WaitResult
  <2> QED BY <1>0, <2>1, <2>2, BootStays
<1>5. CASE WorkerTerminated \/ Crash
  <2>1. Spend(FALSE) /\ rules' = rules /\ fw'.pc = "idle"
    <3>1. Spend(FALSE) /\ FirewallKilled
      BY <1>5 DEF WorkerTerminated, Crash
    <3> QED BY <3>1 DEF FirewallKilled, NoFwCall
  <2>2. boot' \in Boots /\ boot'.pc # "dhcp"
    <3>1. CASE To("failed") \/ To("off") \/ To("undo")
      BY <1>0, <3>1, BootSteps
    <3>2. CASE Crash
      <4>1. boot' = [boot EXCEPT !.pc = "off", !.worker = "none"]
        BY <3>2 DEF Crash
      <4> QED BY <1>0, <4>1 DEF Boots
    <3>3. CASE WorkerTerminated
      <4>1. CASE boot.worker = "provision"
        BY <3>1, <3>3, <4>1 DEF WorkerTerminated
      <4>2. CASE boot.worker = "restore"
        BY <3>1, <3>3, <4>2 DEF WorkerTerminated
      <4>3. CASE boot.worker \notin {"provision", "restore"}
        BY <3>1, <3>3, <4>3 DEF WorkerTerminated
      <4> QED BY <4>1, <4>2, <4>3
    <3> QED BY <1>5, <3>2, <3>3
  <2>3. faults' \in 0..MaxFaults
    BY <1>0, <2>1, SpendKeeps
  <2> QED BY <1>0, <2>1, <2>2, <2>3, BootStays
<1>6. CASE World
  <2>1. boot' = boot
    BY <1>6 DEF World
  <2>2. faults' \in 0..MaxFaults
    <3>1. faults' = faults \/ Spend(~nic.up) \/ Spend(FALSE)
      BY <1>6 DEF World
    <3>2. (~nic.up) \in BOOLEAN
      OBVIOUS
    <3> QED BY <1>0, <3>1, <3>2, BootstrapAssumption DEF Spend
  <2>3. fw'.pc = fw.pc /\ (fw.shared \/ Narrow => fw'.shared \/ Narrow')
    <3>1. CASE UNCHANGED fwVars
      BY <3>1 DEF Narrow, fwVars
    <3>2. ASSUME NEW d \in Desired, NEW k \in Kinds,
                 OthersAdd(d, k) \/ OthersRemove(d, k) \/ OtherCall(d, k)
          PROVE  fw'.pc = fw.pc /\ (fw.shared \/ Narrow => fw'.shared \/ Narrow')
      BY <3>2, OthersKeep DEF TypeOK
    <3> QED BY <1>6, <3>1, <3>2 DEF World
  <2> QED BY <1>0, <2>1, <2>2, <2>3 DEF BootTypeOK, BootInv
<1>7. CASE UNCHANGED vars
  BY <1>0, <1>7, BootStays DEF vars, fwVars, BootInv
<1> QED BY <1>1, <1>2, <1>3, <1>4, <1>5, <1>6, <1>7

-----------------------------------------------------------------------------
(* The theorems                                                            *)

(* The inductive invariant holds when the Host is first started: the       *)
(* adapter is the user's, and no call is in progress.                      *)
LEMMA InitIndInv == Init => IndInv
<1> SUFFICES ASSUME Init PROVE IndInv
  OBVIOUS
<1>1. /\ nic = orig /\ snap = NoSnapshot /\ link = NoCall
      /\ orig \in Adapters /\ ~orig.transient
  BY BootstrapAssumption DEF Init
<1>2. LinkTypeOK /\ LinkInv
  <2>1. link \in Calls /\ link.pc = "idle" /\ snap \in Snapshots
    BY <1>1 DEF NoCall, Calls, Snapshots
  <2>2. LinkTypeOK
    BY <1>1, <2>1 DEF LinkTypeOK
  <2>3. orig.transient = FALSE
    BY <1>1 DEF Adapters
  <2> QED BY <1>1, <2>1, <2>2, <2>3 DEF LinkInv, ModifiedMeansSnapshot, Changing
<1>3. rules \in RuleSets
  <2>1. NoRules \in [Kinds -> Nat] /\ OnlyCurrent \in [Kinds -> Nat]
    BY KindFacts
  <2>2. ASSUME NEW f \in [Kinds -> Nat], NEW k \in Kinds
        PROVE  [f EXCEPT ![k] = 1] \in [Kinds -> Nat]
    OBVIOUS
  <2>3. [NoRules EXCEPT !["current"] = 1, !["stale"] = 1] \in [Kinds -> Nat]
    <3> DEFINE half == [NoRules EXCEPT !["current"] = 1]
    <3>1. half \in [Kinds -> Nat] /\ "current" \in Kinds
      BY <2>1, <2>2 DEF Kinds, OwnedKinds
    <3>2. [NoRules EXCEPT !["current"] = 1, !["stale"] = 1] = [half EXCEPT !["stale"] = 1]
      BY Zenon
    <3> HIDE DEF half
    <3>3. "stale" \in Kinds
      BY DEF Kinds, OwnedKinds
    <3>4. [half EXCEPT !["stale"] = 1] \in [Kinds -> Nat]
      BY <2>2, <3>1, <3>3
    <3> QED BY <3>2, <3>4
  <2>4. "legacy" \in Kinds
    BY DEF Kinds, OwnedKinds
  <2>5. rules \in FirewallHistory
    BY DEF Init
  <2> DEFINE one == [NoRules EXCEPT !["legacy"] = 1]
             mixed == [NoRules EXCEPT !["current"] = 1, !["stale"] = 1]
  <2>6. rules \in {[d \in Desired |-> OnlyCurrent], [d \in Desired |-> NoRules],
                   [d \in Desired |-> IF d \in LegacyRules THEN one ELSE mixed]}
    BY <2>5 DEF FirewallHistory
  <2>7. one \in [Kinds -> Nat] /\ mixed \in [Kinds -> Nat]
    BY <2>1, <2>2, <2>3, <2>4
  <2> HIDE DEF one, mixed
  <2> QED BY <2>1, <2>6, <2>7 DEF RuleSets
<1>4. FirewallTypeOK /\ FirewallInv
  <2> DEFINE empty == [d \in Desired |-> NoRules]
  <2>1. empty \in RuleSets /\ \A d \in Desired : empty[d]["foreign"] = 0 /\ empty[d]["extra"] = 0
    BY KindFacts DEF RuleSets
  <2>2. fw = [pc |-> "idle", at |-> 0, last |-> 0, before |-> 0, original |-> empty, met |-> {},
              shared |-> FALSE, rolled |-> "no", status |-> "none"]
    BY DEF Init, NoFwCall
  <2> HIDE DEF empty
  <2>3. 0 \in 0..RuleCount
    BY FirewallAssumption
  <2>4. fw \in FwCalls
    <3>1. empty \in RuleSets
      BY <2>1
    <3> QED BY <2>2, <2>3, <3>1, SMT DEF FwCalls
  <2>5. fw.pc = "idle" /\ fw.original = empty /\ fw.status = "none" /\ fw.met = {}
    BY <2>2
  <2>6. FirewallTypeOK
    BY <1>3, <2>4 DEF FirewallTypeOK
  <2> QED BY <2>1, <2>5, <2>6 DEF FirewallInv
<1>5. DhcpTypeOK
  BY DEF Init, Stopped, DhcpTypeOK
<1>6. BootTypeOK /\ BootInv
  <2>1. PICK admin \in BOOLEAN : boot = [pc |-> "off", worker |-> "none", admin |-> admin, try |-> 1]
    BY DEF Init
  <2>2. boot \in Boots /\ boot.pc = "off"
    BY <2>1 DEF Boots
  <2>3. faults \in 0..MaxFaults
    BY BootstrapAssumption DEF Init
  <2>4. fw.pc = "idle"
    BY DEF Init, NoFwCall
  <2> QED BY <2>2, <2>3, <2>4 DEF BootTypeOK, BootInv
<1> QED BY <1>2, <1>4, <1>5, <1>6 DEF IndInv, TypeOK

(* Every step keeps it, and is safe to rules and lease.                    *)
LEMMA StepIndInv ==
    ASSUME IndInv, [Next]_vars
    PROVE  IndInv' /\ FwStepSafe /\ LeaseStepSafe
<1>1. LinkMove /\ FwMove /\ DhcpMove
  BY Moves
<1>2. LinkTypeOK' /\ LinkInv'
  BY <1>1, LinkKept DEF IndInv, TypeOK
<1>3. FirewallTypeOK' /\ FirewallInv' /\ FwStepSafe
  BY <1>1, FirewallKept DEF IndInv, TypeOK
<1>4. DhcpTypeOK' /\ LeaseStepSafe
  BY <1>1, DhcpKept DEF IndInv, TypeOK
<1>5. BootTypeOK' /\ BootInv'
  <2>1. TypeOK /\ FirewallInv /\ BootInv
    BY DEF IndInv
  <2>2. \/ \E ok \in BOOLEAN : CallLink(ok) \/ StepLink(ok) \/ StartServer(ok) \/ DhcpMessage(ok)
        \/ EnsureResult \/ UndoResult \/ CloseResult \/ Begin \/ Warmup \/ Close \/ Cancelled
        \/ \E ok \in BOOLEAN : CallFirewall(ok) \/ StepFirewall(ok)
        \/ FirewallResult \/ WaitResult \/ WorkerTerminated \/ Crash \/ World
        \/ UNCHANGED vars
    BY DEF Next, Progress
  <2> QED BY <2>1, <2>2, BootLinkSteps, BootFirewallSteps
<1> QED BY <1>2, <1>3, <1>4, <1>5 DEF IndInv, TypeOK

(* What the Host's bootstrap changed on the adapter, the snapshot holds    *)
(* the user's values of, through every failure, kill and restart           *)
(* (ensure_ and restore_host_direct_link_ipv4).                            *)
THEOREM AdapterTheorem == Spec => []AdapterRestorable
<1>1. IndInv => AdapterRestorable
  BY DEF IndInv, LinkInv, AdapterRestorable
<1>2. IndInv /\ [Next]_vars => IndInv'
  BY StepIndInv
<1> QED BY <1>1, <1>2, InitIndInv, PTL DEF Spec

(* ensure_host_firewall_rules takes nothing for ready that is not narrow   *)
(* unless another call of the Host interferes, removes no rule of others   *)
(* that it has come upon (one made between its look and its removal by     *)
(* name it may), calls a roll-back complete only when it is, and the phone *)
(* is waited for behind such rules only.                                   *)
THEOREM FirewallTheorem == Spec => RulesAreSafe
<1>1. IndInv /\ [Next]_vars => IndInv'
  BY StepIndInv
<1>2. IndInv /\ [Next]_vars =>
        [fw.status = "none" /\ fw'.status \in {"ready", "provisioned"} =>
           \A d \in Desired : /\ rules'[d]["extra"] = 0
                             /\ ~fw'.shared => Owned(rules', d) = OnlyCurrent]_fwVars
  BY StepIndInv DEF FwStepSafe
<1>3. IndInv /\ [Next]_vars =>
        [\A d \in Desired :
           /\ d \in fw.met \cap fw'.met => rules'[d]["foreign"] >= rules[d]["foreign"]
           /\ rules'[d]["extra"] # rules[d]["extra"] => fw' = fw]_fwVars
  BY StepIndInv DEF FwStepSafe
<1>4. IndInv /\ [Next]_vars =>
        [fw'.rolled = "complete" /\ fw.rolled # "complete" =>
           \A d \in Desired : Owned(rules, d) = fw.original[d]]_fwVars
  BY StepIndInv DEF FwStepSafe
<1>5. IndInv /\ [Next]_vars =>
        [boot.pc = "dhcp" /\ boot'.pc = "wait" =>
           /\ dhcp'.running
           /\ ~fw.shared => \A d \in Desired : rules[d]["current"] = 1 /\ rules[d]["stale"] = 0 /\ rules[d]["legacy"] = 0]_vars
  <2> SUFFICES ASSUME IndInv, Next, boot.pc = "dhcp", boot'.pc = "wait"
               PROVE  /\ dhcp'.running
                      /\ ~fw.shared => \A d \in Desired : /\ rules[d]["current"] = 1 /\ rules[d]["stale"] = 0
                                                          /\ rules[d]["legacy"] = 0
    OBVIOUS
  <2>0. boot \in Boots /\ rules \in RuleSets /\ dhcp.running \in BOOLEAN
    BY DEF IndInv, TypeOK, BootTypeOK, FirewallTypeOK, DhcpTypeOK
  <2>1. ~fw.shared => \A d \in Desired : /\ rules[d]["current"] = 1 /\ rules[d]["stale"] = 0
                                         /\ rules[d]["legacy"] = 0
    <3> SUFFICES ASSUME ~fw.shared, NEW d \in Desired
                 PROVE  rules[d]["current"] = 1 /\ rules[d]["stale"] = 0 /\ rules[d]["legacy"] = 0
      OBVIOUS
    <3>1. Owned(rules, d) = OnlyCurrent
      BY DEF IndInv, BootInv, Narrow
    <3>2. \A k \in OwnedKinds : rules[d][k] = OnlyCurrent[k]
      BY <2>0, <3>1, OwnedFacts
    <3> QED BY <3>2, KindFacts DEF OwnedKinds
  <2>2. PICK ok \in BOOLEAN : StartServer(ok)
    <3>1. ASSUME NEW ok \in BOOLEAN, CallLink(ok) \/ StepLink(ok) \/ CallFirewall(ok) \/ StepFirewall(ok)
                                     \/ DhcpMessage(ok)
          PROVE  boot' = boot
      BY <3>1 DEF CallLink, StepLink, CallFirewall, StepFirewall, DhcpMessage
    <3>6. ASSUME Cancelled PROVE boot'.pc # "wait"
      BY <2>0, <3>6, BootSteps DEF Cancelled
    <3>2. ~ (EnsureResult \/ FirewallResult \/ UndoResult \/ CloseResult \/ Begin \/ Close \/ WaitResult)
      BY DEF EnsureResult, FirewallResult, UndoResult, CloseResult, Begin, Close, WaitResult
    <3>3. Warmup \/ World => boot' = boot
      BY DEF Warmup, World
    <3>4. Crash => boot'.pc = "off"
      BY <2>0 DEF Crash, Boots
    <3>5. ASSUME WorkerTerminated PROVE boot'.pc # "wait"
      <4>1. CASE To("failed") \/ To("off") \/ To("undo")
        BY <2>0, <4>1, BootSteps
      <4>2. CASE boot.worker = "provision"
        BY <3>5, <4>1, <4>2 DEF WorkerTerminated
      <4>3. CASE boot.worker = "restore"
        BY <3>5, <4>1, <4>3 DEF WorkerTerminated
      <4>4. CASE boot.worker \notin {"provision", "restore"}
        BY <3>5, <4>1, <4>4 DEF WorkerTerminated
      <4> QED BY <4>2, <4>3, <4>4
    <3> QED BY <3>1, <3>2, <3>3, <3>4, <3>5, <3>6 DEF Next, Progress
  <2>3. dhcp'.running
    <3>1. CASE dhcp.running
      BY <2>2, <3>1 DEF StartServer, dhcpVars
    <3>2. CASE ~dhcp.running /\ StartDhcp
      BY <3>2 DEF StartDhcp, Stopped
    <3>3. CASE ~dhcp.running /\ ~StartDhcp
      <4>1. boot' = [boot EXCEPT !.pc = IF ~Isolated /\ boot.try = 1 THEN "direct" ELSE "failed",
                                 !.try = IF ~Isolated THEN 2 ELSE @]
        BY <2>2, <3>3 DEF StartServer
      <4>2. boot'.pc = IF ~Isolated /\ boot.try = 1 THEN "direct" ELSE "failed"
        BY <2>0, <4>1 DEF Boots
      <4> QED BY <4>2
    <3> QED BY <3>1, <3>2, <3>3
  <2> QED BY <2>1, <2>3
<1>6. Spec => []IndInv
  BY <1>1, InitIndInv, PTL DEF Spec
<1>7. Spec => NarrowWhenReady
  BY <1>2, <1>6, PTL DEF Spec, NarrowWhenReady
<1>8. Spec => ForeignRulesKept
  BY <1>3, <1>6, PTL DEF Spec, ForeignRulesKept
<1>9. Spec => RolledBackIsOriginal
  BY <1>4, <1>6, PTL DEF Spec, RolledBackIsOriginal
<1>10. Spec => WaitsBehindFirewall
  BY <1>5, <1>6, PTL DEF Spec, WaitsBehindFirewall
<1> QED BY <1>7, <1>8, <1>9, <1>10 DEF RulesAreSafe

(* The one address of the isolated DHCP server never moves from the client *)
(* it was leased to, and goes to no other than it was offered to.          *)
THEOREM LeaseTheorem == Spec => LeaseStaysWithClient
<1>1. IndInv /\ [Next]_vars => IndInv'
  BY StepIndInv
<1>2. IndInv /\ [Next]_vars =>
        [/\ dhcp.running /\ dhcp'.running /\ dhcp.lease => dhcp'.mac = dhcp.mac /\ dhcp'.lease
         /\ bound' \ bound # {} => /\ dhcp.offer \/ dhcp.lease
                                   /\ bound' \ bound = {dhcp.mac}
                                   /\ HasOwnMac => dhcp.mac # OwnMac]_dhcpVars
  BY StepIndInv DEF LeaseStepSafe
<1> QED BY <1>1, <1>2, InitIndInv, PTL DEF Spec, LeaseStaysWithClient

-----------------------------------------------------------------------------
(* The search for the phone and the measurement of the way to it           *)

(* A search is on one way only: a way that is known starts at a private    *)
(* address of the Host, and so does every probe it still has to send, on   *)
(* that way once it is known.                                              *)
SoundSearch(s) ==
    /\ s \in Searches
    /\ s.mode = "known" => Known(s.route)
    /\ Known(s.route) => s.route.local \in Private /\ s.mobile # NoPeer
    /\ s.pc # "loop" => s.todo = {}
    /\ \A t \in s.todo : t.via.local \in Private /\ (Known(s.route) => t.via = s.route)
    /\ s.mode = "wireless" /\ s.mobile # NoPeer => s.mobile \in Private \ {Wired}

(* What a finished search reports.                                         *)
Reported(s, seen) ==
    s.outcome.found =>
        /\ s.pc = "done"
        /\ s.outcome = Outcome(s, seen)
        /\ seen.received >= (IF s.mode = "wireless" THEN AcksNeeded ELSE 1)
        /\ s.outcome.host \in Private

(* Every token is used once, for a probe that is waited for or one whose   *)
(* acknowledgement was counted.                                            *)
Tokens(s, p, ev) ==
    /\ p \subseteq PendingProbes /\ IsFiniteSet(p)
    /\ ev \subseteq Acks /\ IsFiniteSet(ev)
    /\ \A x \in p : x.token < s.next /\ x.via.local \in Private
    /\ \A e \in ev : e.token < s.next /\ e.from = s.mobile
    /\ \A x, y \in p : x.token = y.token => x = y
    /\ \A x \in p, e \in ev : x.token # e.token
    /\ s.mobile = NoPeer => ev = {}

Counted(p, seen, ev) ==
    /\ seen \in Observations
    /\ seen.received + Cardinality(p) = seen.sent
    /\ Cardinality(ev) = seen.received

DiscoveryInv ==
    /\ SoundSearch(search)
    /\ Reported(search, observed)
    /\ Tokens(search, pending, evidence)
    /\ Counted(pending, observed, evidence)

-----------------------------------------------------------------------------
LEMMA AdapterFacts ==
  /\ Private \subseteq Nat \ {0}
  /\ \A c \in EnumerateCandidates : c.index \in Nat /\ c.local \in Nat /\ c.prefix \in Nat
<1>1. Private \subseteq Nat \ {0}
  BY DiscoveryAssumption
<1>2. ASSUME NEW c \in EnumerateCandidates
      PROVE  c.index \in Nat /\ c.local \in Nat /\ c.prefix \in Nat
  <2>1. PICK a \in NetworkAdapters : \E u \in a.addresses :
               c = [index |-> a.index, local |-> u.ip, prefix |-> u.prefix, operational |-> a.up,
                    multicast |-> ~a.loopback /\ a.multicast, preferred |-> u.preferred]
    BY <1>2 DEF EnumerateCandidates
  <2>2. PICK u \in a.addresses :
               c = [index |-> a.index, local |-> u.ip, prefix |-> u.prefix, operational |-> a.up,
                    multicast |-> ~a.loopback /\ a.multicast, preferred |-> u.preferred]
    BY <2>1
  <2>3. a.index \in Nat /\ {u.ip, u.prefix} \subseteq Nat
    BY DiscoveryAssumption
  <2> QED  BY <2>2, <2>3
<1> QED  BY <1>1, <1>2

LEMMA RouteFacts ==
  ASSUME NEW r \in LocalRoutes
  PROVE  r \in Routes /\ (Known(r) => r.local \in Private)
<1>1. CASE r = NoRoute
  BY <1>1 DEF NoRoute, Known, Routes
<1>2. CASE r # NoRoute
  <2>1. PICK c \in EnumerateCandidates :
               r = [index |-> c.index, local |-> c.local] /\ c.local \in Private
    BY <1>2 DEF LocalRoutes, IsPrivateUnicast
  <2> QED  BY <2>1, AdapterFacts DEF Routes
<1> QED  BY <1>1, <1>2

LEMMA TargetFacts ==
  ASSUME NEW t \in Targets
  PROVE  t \in Attempts /\ t.via.local \in Private
<1>1. PICK i \in SelectInterfaces(EnumerateCandidates) :
             /\ BroadcastAddress(i) \in Private
             /\ t = [to |-> BroadcastAddress(i), via |-> [index |-> i.index, local |-> i.local],
                     prefix |-> i.prefix]
  BY DEF Targets, DirectedBroadcastTargets, IsPrivateUnicast
<1>2. PICK c \in EnumerateCandidates :
             i = [index |-> c.index, local |-> c.local, prefix |-> c.prefix] /\ c.local \in Private
  BY <1>1 DEF SelectInterfaces, IsPrivateUnicast
<1>3. i.index \in Nat /\ i.local \in Nat /\ i.prefix \in Nat /\ i.local \in Private
  BY <1>2, AdapterFacts
<1>4. BroadcastAddress(i) \in Nat
  BY <1>1, AdapterFacts
<1> HIDE DEF BroadcastAddress
<1> QED  BY <1>1, <1>3, <1>4 DEF Attempts, Routes

LEMMA RoundFacts ==
  ASSUME NEW s, SoundSearch(s)
  PROVE  /\ Round(s) \subseteq Attempts
         /\ \A t \in Round(s) : t.via.local \in Private /\ (Known(s.route) => t.via = s.route)
<1> SUFFICES ASSUME NEW t \in Round(s)
             PROVE  t \in Attempts /\ t.via.local \in Private /\ (Known(s.route) => t.via = s.route)
  OBVIOUS
<1>1. CASE t = [to |-> s.mobile, via |-> s.route, prefix |-> 0] /\ Known(s.route)
  <2>1. s.mobile \in Nat /\ s.route \in Routes /\ s.route.local \in Private
    BY <1>1 DEF SoundSearch, Searches
  <2>2. t \in Attempts
    BY <1>1, <2>1 DEF Attempts
  <2> QED  BY <1>1, <2>1, <2>2
<1>2. CASE t \in ProbeTargets(s.route)
  BY <1>2, TargetFacts DEF ProbeTargets
<1> QED  BY <1>1, <1>2 DEF Round

-----------------------------------------------------------------------------
LEMMA DiscoveryInitInv == DiscoveryInit => DiscoveryInv
<1> SUFFICES ASSUME DiscoveryInit PROVE DiscoveryInv
  OBVIOUS
<1>1. SoundSearch(search)
  BY DEF DiscoveryInit, Idle, Searching, NoPeer, NoRoute, NoOutcome, SoundSearch, Searches, Known,
         Routes, Outcomes
<1>2. Reported(search, observed)
  BY DEF DiscoveryInit, Idle, Searching, NoOutcome, Reported
<1>3. Cardinality({}) = 0 /\ IsFiniteSet({})
  BY FS_EmptySet
<1>4. Tokens(search, pending, evidence)
  BY <1>3 DEF DiscoveryInit, Tokens
<1>5. Counted(pending, observed, evidence)
  BY <1>3 DEF DiscoveryInit, Counted, NewObservation, Observations
<1> QED  BY <1>1, <1>2, <1>4, <1>5 DEF DiscoveryInv

LEMMA StartsInv ==
  ASSUME NEW s, NEW opened \in BOOLEAN, Starts(s, opened),
         s \in Searches, s.mode = "known" => Known(s.route),
         Known(s.route) => s.route.local \in Private /\ s.mobile # NoPeer, s.todo = {},
         s.mode = "wireless" => s.mobile = NoPeer, s.outcome = NoOutcome
  PROVE  DiscoveryInv'
<1> DEFINE c == IF opened THEN "loop" ELSE "done"
<1>1. search' = [s EXCEPT !.pc = c] /\ c \in {"loop", "done"}
  BY DEF Starts
<1> HIDE DEF c
<1>2. /\ search' \in Searches
      /\ search'.mode = s.mode /\ search'.route = s.route /\ search'.todo = {}
      /\ search'.mobile = s.mobile /\ search'.outcome = NoOutcome
  BY <1>1 DEF Searches
<1>3. SoundSearch(search)'
  BY <1>2 DEF SoundSearch
<1>4. Reported(search, observed)'
  BY <1>2 DEF Reported, NoOutcome
<1>5. Cardinality({}) = 0 /\ IsFiniteSet({})
  BY FS_EmptySet
<1>6. Tokens(search, pending, evidence)'
  BY <1>5 DEF Starts, Tokens
<1>7. Counted(pending, observed, evidence)'
  BY <1>5 DEF Starts, Counted, NewObservation, Observations
<1> QED  BY <1>3, <1>4, <1>6, <1>7 DEF DiscoveryInv

LEMMA MeasureKnownInv ==
  ASSUME NEW r \in LocalRoutes \ {NoRoute}, NEW mobile \in Senders, NEW opened \in BOOLEAN,
         MeasureKnown(r.local, mobile, opened)
  PROVE  DiscoveryInv'
<1> DEFINE s == Searching("known", mobile, [index |-> 0, local |-> r.local], FALSE)
<1>1. r.local \in Private /\ r.local \in Nat /\ r.local # 0
  BY RouteFacts, AdapterFacts DEF Known
<1>2. mobile \in Nat /\ mobile # NoPeer
  BY DiscoveryAssumption DEF NoPeer
<1>3. s \in Searches
  BY <1>1, <1>2 DEF Searching, Searches, Routes, Outcomes, NoOutcome
<1>4. /\ s.mode = "known" /\ s.route.local = r.local /\ Known(s.route) /\ s.todo = {}
      /\ s.mobile = mobile
      /\ s.outcome = NoOutcome
  BY <1>1 DEF Searching, Known, NoRoute
<1>5. Starts(s, opened)
  BY DEF MeasureKnown
<1> HIDE DEF s
<1> QED  BY <1>1, <1>2, <1>3, <1>4, <1>5, StartsInv

LEMMA DiscoverWirelessInv ==
  ASSUME NEW sockets \in WirelessSockets, DiscoverWireless(sockets)
  PROVE  DiscoveryInv'
<1> DEFINE s == Searching("wireless", NoPeer, NoRoute, sockets.broadcast)
<1>1. sockets.opened \in BOOLEAN /\ sockets.broadcast \in BOOLEAN
  <2>1. CASE sockets = [opened |-> FALSE, broadcast |-> FALSE]
    BY <2>1
  <2>2. CASE sockets \in [opened: {TRUE}, broadcast: BOOLEAN]
    BY <2>2
  <2> QED  BY <2>1, <2>2 DEF WirelessSockets
<1>2. s \in Searches
  BY <1>1 DEF Searching, Searches, Routes, Outcomes, NoOutcome, NoPeer, NoRoute
<1>3. /\ s.mode = "wireless" /\ ~Known(s.route) /\ s.todo = {} /\ s.mobile = NoPeer
      /\ s.outcome = NoOutcome
  BY DEF Searching, Known
<1>4. Starts(s, sockets.opened)
  BY DEF DiscoverWireless
<1> HIDE DEF s
<1> QED  BY <1>1, <1>2, <1>3, <1>4, StartsInv

(* A search that has found enough changes only what it reports.            *)
LEMMA ConcludesInv ==
  ASSUME NEW s, NEW seen, SoundSearch(s), s.todo = {}, ~s.outcome.found, seen \in Observations,
         Concludes(s, seen), observed' = seen, Tokens(s, pending', evidence'),
         Counted(pending', seen, evidence')
  PROVE  DiscoveryInv'
<1>0. s \in Searches
  BY DEF SoundSearch
<1>1. CASE s.mode = "wireless" /\ EvidenceReady(s, seen)
  <2> DEFINE o == Outcome(s, seen)
  <2>1. search' = [s EXCEPT !.pc = "done", !.outcome = o]
    BY <1>1 DEF Concludes
  <2>2. Quality(seen) \in Qualities
    <3>1. seen.sent \in Nat /\ seen.received \in Nat /\ Cardinality(pending') \in Nat
          /\ seen.received + Cardinality(pending') = seen.sent
      BY FS_CardinalityType DEF Observations, Tokens, Counted
    <3>2. seen.sent - seen.received \in Nat
      BY <3>1
    <3> QED  BY <3>2 DEF Quality, Qualities
  <2>3. s.route \in Routes /\ s.mobile \in Nat
    BY <1>0 DEF Searches
  <2>4. o \in Outcomes
    BY <2>2, <2>3 DEF Outcome, Outcomes, Routes
  <2>5. o.host = s.route.local /\ Known(s.route) /\ seen.received >= AcksNeeded
    BY <1>1 DEF Outcome, EvidenceReady
  <2>6. o = Outcome([s EXCEPT !.pc = "done", !.outcome = o], seen)
    BY <1>0 DEF Outcome, Searches
  <2> HIDE DEF o
  <2>7. /\ search' \in Searches
        /\ search'.mode = s.mode /\ search'.route = s.route /\ search'.todo = {}
        /\ search'.mobile = s.mobile /\ search'.next = s.next /\ search'.outcome = o
        /\ search'.pc = "done"
    BY <1>0, <2>1, <2>4 DEF Searches
  <2>8. SoundSearch(search)'
    BY <2>7 DEF SoundSearch
  <2>9. Reported(search, observed)'
    BY <1>1, <2>1, <2>5, <2>6, <2>7 DEF Reported, SoundSearch
  <2>10. Tokens(search, pending, evidence)'
    BY <2>7 DEF Tokens
  <2> QED  BY <2>8, <2>9, <2>10 DEF DiscoveryInv
<1>2. CASE ~(s.mode = "wireless" /\ EvidenceReady(s, seen))
  <2>1. search' = s
    BY <1>2 DEF Concludes
  <2>2. Reported(s, seen)
    BY DEF Reported
  <2> QED  BY <2>1, <2>2 DEF DiscoveryInv
<1> QED  BY <1>1, <1>2

LEMMA ProbeRoundInv == DiscoveryInv /\ ProbeRound => DiscoveryInv'
<1> SUFFICES ASSUME DiscoveryInv, ProbeRound PROVE DiscoveryInv'
  OBVIOUS
<1> DEFINE todo == Round(search)
<1>1. SoundSearch(search) /\ search \in Searches
  BY DEF DiscoveryInv, SoundSearch
<1>2. /\ todo \subseteq Attempts
      /\ \A t \in todo : t.via.local \in Private /\ (Known(search.route) => t.via = search.route)
  BY <1>1, RoundFacts
<1>3. search' = [search EXCEPT !.todo = todo] /\ search.pc = "loop"
  BY DEF ProbeRound, AtLoop
<1> HIDE DEF todo
<1>4. /\ search' \in Searches
      /\ search'.mode = search.mode /\ search'.route = search.route /\ search'.todo = todo
      /\ search'.mobile = search.mobile /\ search'.next = search.next
      /\ search'.outcome = search.outcome /\ search'.pc = "loop"
  BY <1>1, <1>2, <1>3 DEF Searches
<1>5. SoundSearch(search)'
  BY <1>1, <1>2, <1>4 DEF SoundSearch
<1>6. ~search.outcome.found
  BY <1>3 DEF DiscoveryInv, Reported
<1>7. Reported(search, observed)'
  BY <1>4, <1>6 DEF Reported
<1>8. Tokens(search, pending, evidence)'
  BY <1>4 DEF DiscoveryInv, Tokens, ProbeRound
<1>9. Counted(pending, observed, evidence)'
  BY DEF DiscoveryInv, Counted, ProbeRound
<1> QED  BY <1>5, <1>7, <1>8, <1>9 DEF DiscoveryInv

LEMMA SendProbeInv ==
  ASSUME DiscoveryInv, NEW p \in search.todo, NEW ok \in BOOLEAN, SendProbe(p, ok)
  PROVE  DiscoveryInv'
<1>1. SoundSearch(search) /\ search \in Searches
  BY DEF DiscoveryInv, SoundSearch
<1> DEFINE rest == search.todo \ {p}
           next == search.next + 1
<1>2. search' = [search EXCEPT !.todo = rest, !.next = next]
  BY <1>1 DEF SendProbe, Searches
<1>3. /\ search.next \in Nat /\ search.pc = "loop" /\ p \in Attempts
      /\ p.via \in Routes /\ p.via.local \in Private
  <2>1. search.next \in Nat /\ search.todo \subseteq Attempts
    BY <1>1 DEF Searches
  <2>2. search.pc = "loop" /\ p.via.local \in Private
    BY <1>1 DEF SoundSearch
  <2>3. p.via \in Routes
    BY <2>1 DEF Attempts
  <2> QED  BY <2>1, <2>2, <2>3
<1>a. rest \subseteq Attempts /\ next \in Nat
  BY <1>1, <1>3 DEF Searches
<1> HIDE DEF rest, next
<1>b. /\ search' \in Searches
      /\ search'.mode = search.mode /\ search'.route = search.route /\ search'.todo = rest
      /\ search'.mobile = search.mobile /\ search'.next = next
      /\ search'.outcome = search.outcome /\ search'.pc = "loop"
  BY <1>1, <1>2, <1>3, <1>a DEF Searches
<1>4. /\ search' \in Searches
      /\ search'.mode = search.mode /\ search'.route = search.route
      /\ search'.todo = search.todo \ {p}
      /\ search'.mobile = search.mobile /\ search'.next = search.next + 1
      /\ search'.outcome = search.outcome /\ search'.pc = "loop"
  BY <1>b DEF rest, next
<1>5. SoundSearch(search)'
  BY <1>1, <1>4 DEF SoundSearch
<1>6. ~search.outcome.found
  BY <1>3 DEF DiscoveryInv, Reported
<1>7. Reported(search, observed)'
  BY <1>4, <1>6 DEF Reported
<1>8. Tokens(search, pending, evidence) /\ Counted(pending, observed, evidence)
  BY DEF DiscoveryInv
<1>9. CASE ok
  <2> DEFINE x == [token |-> search.next, via |-> p.via]
  <2>1. x \in PendingProbes /\ x.token = search.next /\ x.via.local \in Private
    BY <1>3 DEF PendingProbes
  <2>2. pending' = pending \cup {x} /\ observed' = [observed EXCEPT !.sent = @ + 1]
        /\ evidence' = evidence
    BY <1>9 DEF SendProbe
  <2> HIDE DEF x
  <2>3. x \notin pending
    BY <1>3, <1>8, <2>1 DEF Tokens
  <2>4. IsFiniteSet(pending') /\ Cardinality(pending') = Cardinality(pending) + 1
    BY <1>8, <2>2, <2>3, FS_AddElement DEF Tokens
  <2>5. /\ \A y \in pending : y.token \in Nat /\ y.token < search.next
        /\ \A e \in evidence : e.token \in Nat /\ e.token < search.next
    BY <1>8 DEF Tokens, PendingProbes, Acks
  <2>6. Tokens(search, pending, evidence)'
    <3>1. pending' \subseteq PendingProbes /\ evidence' \subseteq Acks /\ IsFiniteSet(evidence')
      BY <1>8, <2>1, <2>2 DEF Tokens
    <3>2. \A y \in pending' : y.token < search'.next /\ y.via.local \in Private
      BY <1>3, <1>4, <1>8, <2>1, <2>2, <2>5 DEF Tokens
    <3>3. \A e \in evidence' : e.token < search'.next /\ e.from = search'.mobile
      BY <1>3, <1>4, <1>8, <2>2, <2>5 DEF Tokens
    <3>4. \A y, z \in pending' : y.token = z.token => y = z
      BY <1>3, <1>8, <2>1, <2>2, <2>5 DEF Tokens
    <3>5. \A y \in pending', e \in evidence' : y.token # e.token
      BY <1>3, <1>8, <2>1, <2>2, <2>5 DEF Tokens
    <3>6. search'.mobile = NoPeer => evidence' = {}
      BY <1>4, <1>8, <2>2 DEF Tokens
    <3> QED  BY <2>4, <3>1, <3>2, <3>3, <3>4, <3>5, <3>6 DEF Tokens
  <2>7. /\ observed' \in Observations /\ observed'.sent = observed.sent + 1
        /\ observed'.received = observed.received
    BY <1>8, <2>2 DEF Counted, Observations
  <2>8. /\ observed.received \in Nat /\ observed.sent \in Nat /\ Cardinality(pending) \in Nat
        /\ observed.received + Cardinality(pending) = observed.sent
    BY <1>8, FS_CardinalityType DEF Tokens, Counted, Observations
  <2>9. Counted(pending, observed, evidence)'
    BY <1>8, <2>2, <2>4, <2>7, <2>8 DEF Counted
  <2> QED  BY <1>5, <1>7, <2>6, <2>9 DEF DiscoveryInv
<1>10. CASE ~ok
  <2>1. UNCHANGED << pending, observed, evidence >>
    BY <1>10 DEF SendProbe
  <2>2. /\ \A y \in pending : y.token \in Nat /\ y.token < search.next
        /\ \A e \in evidence : e.token \in Nat /\ e.token < search.next
    BY <1>8 DEF Tokens, PendingProbes, Acks
  <2>3. Tokens(search, pending, evidence)'
    BY <1>3, <1>4, <1>8, <2>1, <2>2 DEF Tokens
  <2>4. Counted(pending, observed, evidence)'
    BY <1>8, <2>1 DEF Counted
  <2> QED  BY <1>5, <1>7, <2>3, <2>4 DEF DiscoveryInv
<1> QED  BY <1>9, <1>10

LEMMA ReceiveReadyInv ==
  ASSUME DiscoveryInv, NEW from \in Senders, NEW claimed \in Senders, NEW found \in LocalRoutes,
         ReceiveReady(from, claimed, found)
  PROVE  DiscoveryInv'
<1>1. SoundSearch(search) /\ search \in Searches /\ search.pc = "loop"
  BY DEF DiscoveryInv, SoundSearch, ReceiveReady, AtLoop
<1> DEFINE way == RefreshRoute(search.route, found)
           s == [search EXCEPT !.mobile = from, !.route = way]
           todo == IF Known(s.route) THEN Round(s) ELSE {}
<1>2. /\ way \in Routes /\ (Known(way) => way.local \in Private)
      /\ Known(search.route) => way = search.route
  BY <1>1, RouteFacts DEF RefreshRoute, SoundSearch, Searches
<1>3. from \in Nat /\ from # NoPeer
  BY DiscoveryAssumption DEF NoPeer
<1>4. /\ search.mobile \in {NoPeer, from}
      /\ search.mode = "wireless" => from \in Private \ {Wired}
  BY DEF ReceiveReady, ReadyAccepted, IsPrivateUnicast
<1>5. search' = [s EXCEPT !.todo = todo]
  BY <1>1 DEF ReceiveReady, Searches
<1> HIDE DEF way
<1>6. /\ s \in Searches /\ s.mobile = from /\ s.route = way /\ s.todo = search.todo
      /\ s.mode = search.mode /\ s.pc = "loop" /\ s.next = search.next /\ s.outcome = search.outcome
  BY <1>1, <1>2, <1>3 DEF Searches
<1> HIDE DEF s
<1>7. search.todo = {}
  BY DEF ReceiveReady, AtLoop
<1>8. SoundSearch(s)
  BY <1>1, <1>2, <1>3, <1>4, <1>6, <1>7 DEF SoundSearch
<1>9. /\ todo \subseteq Attempts
      /\ \A t \in todo : t.via.local \in Private /\ (Known(s.route) => t.via = s.route)
  BY <1>8, RoundFacts
<1> HIDE DEF todo
<1>10. /\ search' \in Searches
       /\ search'.mode = search.mode /\ search'.route = s.route /\ search'.todo = todo
       /\ search'.mobile = from /\ search'.next = search.next
       /\ search'.outcome = search.outcome /\ search'.pc = "loop"
  BY <1>5, <1>6, <1>9 DEF Searches
<1>11. SoundSearch(search)'
  BY <1>6, <1>8, <1>9, <1>10 DEF SoundSearch
<1>12. ~search.outcome.found
  BY <1>1 DEF DiscoveryInv, Reported
<1>13. Reported(search, observed)'
  BY <1>10, <1>12 DEF Reported
<1>14. CASE search.mobile = NoPeer
  <2>1. pending' = {} /\ observed' = NewObservation /\ evidence' = {}
    BY <1>14 DEF ReceiveReady
  <2>2. Cardinality({}) = 0 /\ IsFiniteSet({})
    BY FS_EmptySet
  <2>3. Tokens(search, pending, evidence)'
    BY <2>1, <2>2 DEF Tokens
  <2>4. Counted(pending, observed, evidence)'
    BY <2>1, <2>2 DEF Counted, NewObservation, Observations
  <2> QED  BY <1>11, <1>13, <2>3, <2>4 DEF DiscoveryInv
<1>15. CASE search.mobile # NoPeer
  <2>1. UNCHANGED << pending, observed, evidence >>
    BY <1>15 DEF ReceiveReady
  <2>2. Tokens(search, pending, evidence)'
    BY <1>4, <1>10, <1>15, <2>1 DEF Tokens, DiscoveryInv
  <2>3. Counted(pending, observed, evidence)'
    BY <2>1 DEF Counted, DiscoveryInv
  <2> QED  BY <1>11, <1>13, <2>2, <2>3 DEF DiscoveryInv
<1> QED  BY <1>14, <1>15

(* One more acknowledgement, of a probe that nobody waits for any longer.  *)
LEMMA RecordsInv ==
  ASSUME NEW s, NEW seen, NEW probe \in pending, NEW from \in Nat \ {0}, DiscoveryInv,
         SoundSearch(s), s.todo = {}, ~s.outcome.found, s.mobile = from, s.next = search.next,
         seen \in Observations, pending' \subseteq pending \ {probe}, IsFiniteSet(pending'),
         \A e \in evidence : e.from = from, Cardinality(evidence) = seen.received,
         seen.received + 1 + Cardinality(pending') = seen.sent,
         Records(s, seen, probe, from)
  PROVE  DiscoveryInv'
<1> DEFINE counted == [seen EXCEPT !.received = @ + 1]
           e == [token |-> probe.token, from |-> from]
<1>1. observed' = counted /\ evidence' = evidence \cup {e} /\ Concludes(s, counted)
  BY DEF Records
<1>2. Tokens(search, pending, evidence)
  BY DEF DiscoveryInv
<1>3. counted \in Observations /\ counted.received = seen.received + 1 /\ counted.sent = seen.sent
  BY DEF Observations
<1>4. probe.token \in Nat /\ probe.token < search.next
  BY <1>2 DEF Tokens, PendingProbes
<1>5. e \in Acks /\ e.token = probe.token /\ e.from = from
  BY <1>4 DEF Acks
<1> HIDE DEF counted, e
<1>6. e \notin evidence
  BY <1>2, <1>5 DEF Tokens
<1>7. IsFiniteSet(evidence') /\ Cardinality(evidence') = Cardinality(evidence) + 1
  BY <1>1, <1>2, <1>6, FS_AddElement DEF Tokens
<1>8. Tokens(s, pending', evidence')
  <2>1. pending' \subseteq PendingProbes /\ evidence' \subseteq Acks
    BY <1>1, <1>2, <1>5 DEF Tokens
  <2>2. \A x \in pending' : x.token < s.next /\ x.via.local \in Private
    BY <1>2 DEF Tokens
  <2>3. \A d \in evidence' : d.token < s.next /\ d.from = s.mobile
    BY <1>1, <1>2, <1>4, <1>5 DEF Tokens
  <2>4. \A x, y \in pending' : x.token = y.token => x = y
    BY <1>2 DEF Tokens
  <2>5. \A x \in pending', d \in evidence' : x.token # d.token
    BY <1>1, <1>2, <1>5 DEF Tokens
  <2>6. s.mobile # NoPeer
    BY DEF NoPeer
  <2> QED  BY <1>7, <2>1, <2>2, <2>3, <2>4, <2>5, <2>6 DEF Tokens
<1>9. Counted(pending', counted, evidence')
  BY <1>3, <1>7 DEF Counted
<1> QED  BY <1>1, <1>3, <1>8, <1>9, ConcludesInv

LEMMA ReceiveAckInv ==
  ASSUME DiscoveryInv, NEW probe \in pending, NEW from \in Senders, NEW found \in LocalRoutes,
         ReceiveAck(probe, from, found)
  PROVE  DiscoveryInv'
<1>1. /\ SoundSearch(search) /\ search \in Searches /\ search.pc = "loop" /\ search.todo = {}
      /\ ~search.outcome.found
  BY DEF DiscoveryInv, SoundSearch, ReceiveAck, AtLoop, Reported
<1>2. Tokens(search, pending, evidence) /\ Counted(pending, observed, evidence)
  BY DEF DiscoveryInv
<1>3. from \in Nat \ {0} /\ (search.mode = "wireless" => from \in Private)
  BY DiscoveryAssumption DEF ReceiveAck, IsPrivateUnicast
<1>4. CASE ChosenByAck(probe, from)
  <2> DEFINE s == [search EXCEPT !.mobile = from, !.route = probe.via]
             seen == [sent |-> 1, received |-> 0]
  <2>1. /\ search.mobile = NoPeer /\ from # Wired /\ pending' = {}
        /\ Records(s, seen, probe, from)
    BY <1>4 DEF ChosenByAck
  <2>2. probe.via \in Routes /\ probe.via.local \in Private
    BY <1>2 DEF Tokens, PendingProbes
  <2>3. /\ s \in Searches /\ s.mobile = from /\ s.route = probe.via /\ s.todo = {}
        /\ s.mode = search.mode /\ s.pc = "loop" /\ s.next = search.next
        /\ s.outcome = search.outcome
    BY <1>1, <1>3, <2>2 DEF Searches
  <2>4. Known(probe.via)
    BY <2>2, AdapterFacts DEF Known, NoRoute
  <2>5. seen \in Observations /\ seen.sent = 1 /\ seen.received = 0
    BY DEF Observations
  <2> HIDE DEF s, seen
  <2>6. SoundSearch(s)
    BY <1>1, <1>3, <2>1, <2>2, <2>3, <2>4 DEF SoundSearch, NoPeer
  <2>7. evidence = {}
    BY <1>2, <2>1 DEF Tokens
  <2>8. Cardinality({}) = 0 /\ IsFiniteSet({})
    BY FS_EmptySet
  <2> QED  BY <1>1, <1>3, <2>1, <2>3, <2>5, <2>6, <2>7, <2>8, RecordsInv
<1>5. CASE AckOfPeer(probe, from, found)
  <2> DEFINE way == RefreshRoute(search.route, found)
             s == [search EXCEPT !.route = way]
  <2>1. /\ search.mobile = from /\ pending' = pending \ {probe}
        /\ Records(s, observed, probe, from)
    BY <1>1, <1>5 DEF AckOfPeer, Searches
  <2>2. /\ way \in Routes /\ (Known(way) => way.local \in Private)
        /\ Known(search.route) => way = search.route
    BY <1>1, RouteFacts DEF RefreshRoute, SoundSearch, Searches
  <2> HIDE DEF way
  <2>3. /\ s \in Searches /\ s.mobile = from /\ s.route = way /\ s.todo = {}
        /\ s.mode = search.mode /\ s.pc = "loop" /\ s.next = search.next
        /\ s.outcome = search.outcome
    BY <1>1, <2>1, <2>2 DEF Searches
  <2> HIDE DEF s
  <2>4. SoundSearch(s)
    BY <1>1, <1>3, <2>1, <2>2, <2>3 DEF SoundSearch, NoPeer
  <2>5. IsFiniteSet(pending') /\ Cardinality(pending') = Cardinality(pending) - 1
    BY <1>2, <2>1, FS_RemoveElement DEF Tokens
  <2>6. Cardinality(pending) \in Nat /\ observed \in Observations
    BY <1>2, FS_CardinalityType DEF Tokens, Counted
  <2>7. observed.received + 1 + Cardinality(pending') = observed.sent
    BY <1>2, <2>5, <2>6 DEF Counted, Observations
  <2>8. (\A e \in evidence : e.from = from) /\ Cardinality(evidence) = observed.received
    BY <1>2, <2>1 DEF Tokens, Counted
  <2> QED  BY <1>1, <1>3, <2>1, <2>3, <2>4, <2>5, <2>6, <2>7, <2>8, RecordsInv
<1> QED  BY <1>4, <1>5 DEF ReceiveAck

LEMMA ReceiveStaleAckInv ==
  ASSUME DiscoveryInv, NEW from \in Senders, NEW found \in LocalRoutes, ReceiveStaleAck(from, found)
  PROVE  DiscoveryInv'
<1>1. /\ SoundSearch(search) /\ search \in Searches /\ search.pc = "loop" /\ search.todo = {}
      /\ ~search.outcome.found
  BY DEF DiscoveryInv, SoundSearch, ReceiveStaleAck, AtLoop, Reported
<1> DEFINE way == RefreshRoute(search.route, found)
           s == [search EXCEPT !.route = way]
<1>2. Concludes(s, observed) /\ UNCHANGED << pending, observed, evidence >>
  BY <1>1 DEF ReceiveStaleAck, Searches
<1>3. /\ way \in Routes /\ (Known(way) => way.local \in Private)
      /\ Known(search.route) => way = search.route
  BY <1>1, RouteFacts DEF RefreshRoute, SoundSearch, Searches
<1> HIDE DEF way
<1>4. /\ s \in Searches /\ s.mobile = search.mobile /\ s.route = way /\ s.todo = {}
      /\ s.mode = search.mode /\ s.pc = "loop" /\ s.next = search.next
      /\ s.outcome = search.outcome
  BY <1>1, <1>3 DEF Searches
<1> HIDE DEF s
<1>a. search.mobile # NoPeer
  BY DiscoveryAssumption DEF ReceiveStaleAck, NoPeer
<1>5. SoundSearch(s)
  BY <1>1, <1>3, <1>4, <1>a DEF SoundSearch
<1>6. Tokens(s, pending', evidence') /\ Counted(pending', observed, evidence')
      /\ observed \in Observations
  BY <1>2, <1>4 DEF DiscoveryInv, Tokens, Counted
<1> QED  BY <1>1, <1>2, <1>4, <1>5, <1>6, ConcludesInv

LEMMA LeaveInv ==
  ASSUME DiscoveryInv, NEW cancelled \in BOOLEAN, Leave(cancelled)
  PROVE  DiscoveryInv'
<1>1. /\ SoundSearch(search) /\ search \in Searches /\ search.pc = "loop" /\ search.todo = {}
      /\ UNCHANGED << pending, observed, evidence >>
  BY DEF DiscoveryInv, SoundSearch, Leave, AtLoop
<1>2. /\ Tokens(search, pending, evidence) /\ Counted(pending, observed, evidence)
      /\ observed \in Observations
  BY DEF DiscoveryInv, Counted
<1> DEFINE found == IF search.mode = "wireless" THEN EvidenceReady(search, observed)
                    ELSE Quality(observed).reachable
           o == IF found /\ ~cancelled THEN Outcome(search, observed) ELSE NoOutcome
<1>3. search' = [search EXCEPT !.pc = "done", !.outcome = o]
  BY DEF Leave
<1>4. Outcome(search, observed) \in Outcomes
  <2>1. observed.sent \in Nat /\ observed.received \in Nat /\ Cardinality(pending) \in Nat
        /\ observed.received + Cardinality(pending) = observed.sent
    BY <1>2, FS_CardinalityType DEF Observations, Tokens, Counted
  <2>2. observed.sent - observed.received \in Nat
    BY <2>1
  <2>3. Quality(observed) \in Qualities
    BY <2>2 DEF Quality, Qualities
  <2>4. search.route \in Routes /\ search.mobile \in Nat
    BY <1>1 DEF Searches
  <2> QED  BY <2>3, <2>4 DEF Outcome, Outcomes, Routes
<1>5. o \in Outcomes
  BY <1>4 DEF Outcomes
<1>6. o.found => found /\ o = Outcome(search, observed)
  BY DEF NoOutcome
<1>7. Outcome(search, observed) = Outcome([search EXCEPT !.pc = "done", !.outcome = o], observed)
  BY <1>1 DEF Outcome, Searches
<1>8. found => /\ Known(search.route)
               /\ observed.received >= (IF search.mode = "wireless" THEN AcksNeeded ELSE 1)
  <2>1. observed.received \in Nat /\ search.mode \in {"known", "wireless"}
    BY <1>1, <1>2 DEF Observations, Searches
  <2>2. CASE search.mode = "wireless"
    BY <2>2 DEF EvidenceReady
  <2>3. CASE search.mode = "known"
    <3>1. Known(search.route)
      BY <1>1, <2>3 DEF SoundSearch
    <3>2. ASSUME found PROVE observed.received >= 1
      <4>1. Quality(observed).reachable
        BY <2>3, <3>2
      <4>2. observed.received > 0
        BY <4>1 DEF Quality
      <4> QED  BY <2>1, <4>2
    <3> QED  BY <2>3, <3>1, <3>2
  <2> QED  BY <2>1, <2>2, <2>3
<1> HIDE DEF o
<1>9. /\ search' \in Searches
      /\ search'.mode = search.mode /\ search'.route = search.route /\ search'.todo = {}
      /\ search'.mobile = search.mobile /\ search'.next = search.next /\ search'.outcome = o
      /\ search'.pc = "done"
  BY <1>1, <1>3, <1>5 DEF Searches
<1>10. SoundSearch(search)'
  BY <1>1, <1>9 DEF SoundSearch
<1>11. Reported(search, observed)'
  <2> SUFFICES ASSUME o.found
               PROVE  /\ o = Outcome(search', observed)
                      /\ observed.received >= (IF search.mode = "wireless" THEN AcksNeeded ELSE 1)
                      /\ o.host \in Private
    BY <1>1, <1>9 DEF Reported
  <2>1. o = Outcome(search, observed)
    BY <1>6
  <2>2. o.host = search.route.local
    BY <2>1 DEF Outcome
  <2> HIDE DEF found
  <2> QED  BY <1>1, <1>3, <1>6, <1>7, <1>8, <2>1, <2>2 DEF SoundSearch
<1>12. Tokens(search, pending, evidence)' /\ Counted(pending, observed, evidence)'
  BY <1>1, <1>2, <1>9 DEF Tokens, Counted
<1> QED  BY <1>10, <1>11, <1>12 DEF DiscoveryInv

LEMMA DiscoveryStepInv == DiscoveryInv /\ [DiscoveryNext]_discoveryVars => DiscoveryInv'
<1> SUFFICES ASSUME DiscoveryInv, [DiscoveryNext]_discoveryVars PROVE DiscoveryInv'
  OBVIOUS
<1>1. ASSUME NEW r \in LocalRoutes \ {NoRoute}, NEW mobile \in Senders, NEW opened \in BOOLEAN,
             MeasureKnown(r.local, mobile, opened)
      PROVE  DiscoveryInv'
  BY <1>1, MeasureKnownInv
<1>2. ASSUME NEW sockets \in WirelessSockets, DiscoverWireless(sockets)
      PROVE  DiscoveryInv'
  BY <1>2, DiscoverWirelessInv
<1>3. CASE ProbeRound
  BY <1>3, ProbeRoundInv
<1>4. ASSUME NEW p \in search.todo, NEW ok \in BOOLEAN, SendProbe(p, ok)
      PROVE  DiscoveryInv'
  BY <1>4, SendProbeInv
<1>5. ASSUME NEW from \in Senders, NEW claimed \in Senders, NEW found \in LocalRoutes,
             ReceiveReady(from, claimed, found)
      PROVE  DiscoveryInv'
  BY <1>5, ReceiveReadyInv
<1>6. ASSUME NEW from \in Senders, NEW found \in LocalRoutes, NEW probe \in pending,
             ReceiveAck(probe, from, found)
      PROVE  DiscoveryInv'
  BY <1>6, ReceiveAckInv
<1>7. ASSUME NEW from \in Senders, NEW found \in LocalRoutes, ReceiveStaleAck(from, found)
      PROVE  DiscoveryInv'
  BY <1>7, ReceiveStaleAckInv
<1>8. ASSUME NEW cancelled \in BOOLEAN, Leave(cancelled)
      PROVE  DiscoveryInv'
  BY <1>8, LeaveInv
<1>9. CASE UNCHANGED discoveryVars
  BY <1>9 DEF discoveryVars, DiscoveryInv, SoundSearch, Reported, Tokens, Counted
<1> QED
  BY <1>1, <1>2, <1>3, <1>4, <1>5, <1>6, <1>7, <1>8, <1>9 DEF DiscoveryNext

(* What [Concludes] leaves alone.                                          *)
LEMMA ConcludesStays ==
  ASSUME NEW s \in Searches, NEW seen, Concludes(s, seen)
  PROVE  search'.mobile = s.mobile /\ search'.route = s.route
BY DEF Concludes, Searches

LEMMA DiscoveryStepStays ==
  ASSUME DiscoveryInv, [DiscoveryNext]_discoveryVars, search.pc = "loop"
  PROVE  /\ search.mobile # NoPeer => search'.mobile = search.mobile
         /\ Known(search.route) => /\ search'.route = search.route
                                   /\ \A p \in pending' \ pending : p.via = search.route
<1> DEFINE Goal == /\ search.mobile # NoPeer => search'.mobile = search.mobile
                   /\ Known(search.route) =>
                        /\ search'.route = search.route
                        /\ \A p \in pending' \ pending : p.via = search.route
<1> SUFFICES Goal
  OBVIOUS
<1>0. search \in Searches /\ SoundSearch(search)
  BY DEF DiscoveryInv, SoundSearch
<1>1. ASSUME NEW s, NEW opened, Starts(s, opened) PROVE Goal
  BY <1>1 DEF Starts
<1>2. CASE ProbeRound
  BY <1>0, <1>2 DEF ProbeRound, Searches
<1>3. ASSUME NEW p \in search.todo, NEW ok \in BOOLEAN, SendProbe(p, ok) PROVE Goal
  <2>1. search'.mobile = search.mobile /\ search'.route = search.route
    BY <1>0, <1>3 DEF SendProbe, Searches
  <2>2. Known(search.route) => p.via = search.route
    BY <1>0 DEF SoundSearch
  <2>3. \A x \in pending' \ pending : x.via = p.via
    BY <1>3 DEF SendProbe
  <2> QED  BY <2>1, <2>2, <2>3
<1>4. ASSUME NEW from \in Senders, NEW claimed \in Senders, NEW found \in LocalRoutes,
             ReceiveReady(from, claimed, found)
      PROVE  Goal
  <2> DEFINE way == RefreshRoute(search.route, found)
             s == [search EXCEPT !.mobile = from, !.route = way]
             todo == IF Known(s.route) THEN Round(s) ELSE {}
  <2>1. search' = [s EXCEPT !.todo = todo]
    BY <1>0, <1>4 DEF ReceiveReady, Searches
  <2>2. search.mobile \in {NoPeer, from} /\ (Known(search.route) => way = search.route)
    BY <1>4 DEF ReceiveReady, ReadyAccepted, RefreshRoute
  <2> HIDE DEF todo, way
  <2>3. search'.mobile = from /\ search'.route = way
    BY <1>0, <2>1 DEF Searches
  <2>4. pending' \subseteq pending
    BY <1>4 DEF ReceiveReady
  <2> QED  BY <2>2, <2>3, <2>4
<1>5. ASSUME NEW from \in Senders, NEW found \in LocalRoutes, NEW probe \in pending,
             ReceiveAck(probe, from, found)
      PROVE  Goal
  <2>1. CASE ChosenByAck(probe, from)
    BY <1>0, <2>1 DEF ChosenByAck, SoundSearch
  <2>2. CASE AckOfPeer(probe, from, found)
    <3> DEFINE way == RefreshRoute(search.route, found)
               s == [search EXCEPT !.route = way]
               counted == [observed EXCEPT !.received = @ + 1]
    <3>1. pending' = pending \ {probe} /\ Concludes(s, counted)
      BY <1>0, <2>2 DEF AckOfPeer, Records, Searches
    <3>2. way \in Routes /\ (Known(search.route) => way = search.route)
      BY <1>0, RouteFacts DEF RefreshRoute, Searches
    <3> HIDE DEF way, counted
    <3>3. s \in Searches /\ s.mobile = search.mobile /\ s.route = way
      BY <1>0, <3>2 DEF Searches
    <3> HIDE DEF s
    <3> QED  BY <3>1, <3>2, <3>3, ConcludesStays
  <2> QED  BY <1>5, <2>1, <2>2 DEF ReceiveAck
<1>6. ASSUME NEW from \in Senders, NEW found \in LocalRoutes, ReceiveStaleAck(from, found)
      PROVE  Goal
  <2> DEFINE way == RefreshRoute(search.route, found)
             s == [search EXCEPT !.route = way]
  <2>1. UNCHANGED pending /\ Concludes(s, observed)
    BY <1>0, <1>6 DEF ReceiveStaleAck, Searches
  <2>2. way \in Routes /\ (Known(search.route) => way = search.route)
    BY <1>0, RouteFacts DEF RefreshRoute, Searches
  <2> HIDE DEF way
  <2>3. s \in Searches /\ s.mobile = search.mobile /\ s.route = way
    BY <1>0, <2>2 DEF Searches
  <2> HIDE DEF s
  <2> QED  BY <2>1, <2>2, <2>3, ConcludesStays
<1>7. ASSUME NEW cancelled \in BOOLEAN, Leave(cancelled) PROVE Goal
  BY <1>0, <1>7 DEF Leave, Searches
<1>8. CASE UNCHANGED discoveryVars
  BY <1>8 DEF discoveryVars
<1> HIDE DEF Goal
<1>9. ASSUME NEW r \in LocalRoutes \ {NoRoute}, NEW mobile \in Senders, NEW opened \in BOOLEAN,
             MeasureKnown(r.local, mobile, opened)
      PROVE  Goal
  BY <1>1, <1>9 DEF MeasureKnown
<1>10. ASSUME NEW sockets \in WirelessSockets, DiscoverWireless(sockets) PROVE Goal
  BY <1>1, <1>10 DEF DiscoverWireless
<1> QED
  BY <1>2, <1>3, <1>4, <1>5, <1>6, <1>7, <1>8, <1>9, <1>10 DEF DiscoveryNext

LEMMA DiscoveryInvMeans ==
  DiscoveryInv => DiscoveryTypeOK /\ LossIsARatio /\ OnePeer /\ GroundedOutcome
<1> SUFFICES ASSUME DiscoveryInv PROVE DiscoveryTypeOK /\ LossIsARatio /\ OnePeer /\ GroundedOutcome
  OBVIOUS
<1>1. DiscoveryTypeOK
  BY DEF DiscoveryInv, SoundSearch, Tokens, Counted, DiscoveryTypeOK
<1>2. LossIsARatio
  BY DEF DiscoveryInv, Counted, LossIsARatio
<1>3. OnePeer
  BY DEF DiscoveryInv, SoundSearch, Tokens, Counted, OnePeer
<1>4. GroundedOutcome
  BY DEF DiscoveryInv, Reported, GroundedOutcome
<1> QED  BY <1>1, <1>2, <1>3, <1>4

(* The Host measures one peer on one way and reports what it measured,     *)
(* however many probes are lost, answered late, twice or by somebody else. *)
THEOREM DiscoveryMeasuresOnePeer == DiscoverySpec => MeasuredOnOnePeer
<1>1. DiscoverySpec => []DiscoveryInv
  BY DiscoveryInitInv, DiscoveryStepInv, PTL DEF DiscoverySpec
<1>2. DiscoverySpec => [](DiscoveryTypeOK /\ LossIsARatio /\ OnePeer /\ GroundedOutcome)
  BY <1>1, DiscoveryInvMeans, PTL
<1>3. DiscoveryInv /\ [DiscoveryNext]_discoveryVars =>
        [search.pc = "loop" =>
         /\ search.mobile # NoPeer => search'.mobile = search.mobile
         /\ Known(search.route) => /\ search'.route = search.route
                                   /\ \A p \in pending' \ pending : p.via = search.route]_discoveryVars
  BY DiscoveryStepStays
<1>4. DiscoverySpec => StaysOnRoute
  BY <1>1, <1>3, PTL DEF DiscoverySpec, StaysOnRoute
<1> QED  BY <1>2, <1>4 DEF MeasuredOnOnePeer
=============================================================================
