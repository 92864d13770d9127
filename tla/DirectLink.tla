----------------------------- MODULE DirectLink -----------------------------
(***************************************************************************)
(* The provisioning of the direct wired link, as                           *)
(* host_direct_link_provisioner.cpp does it: choose the one Ethernet       *)
(* adapter, write down what it looks like, give it 10.57.23.1 in a         *)
(* transaction of three steps, and put everything back from the snapshot   *)
(* when a step fails or the Host is closed.  Every command to Windows is   *)
(* a step of its own, because the process may die between any two: an      *)
(* elevated worker is terminated when its time is over.                    *)
(*                                                                         *)
(* A step takes "ok": whether the command succeeds.  A failing command may *)
(* have had its effect all the same.  "netsh set address" replaces all     *)
(* addresses of an adapter, as it is documented to.  One adapter is modelled, and the     *)
(* snapshot file is whole whenever it exists (it is renamed into place).   *)
(***************************************************************************)
EXTENDS Naturals

VARIABLES
    nic,    \* the adapter as Windows has it
    orig,   \* the adapter as the user left it; only the properties read it
    snap,   \* the snapshot file, or NoSnapshot
    link    \* the call in progress: ensure_ or restore_host_direct_link_ipv4

linkVars == <<nic, orig, snap, link>>

NoSnapshot == [mode |-> "none"]

Adapters ==
    [mode: {"dhcp", "ics", "isolated", "bare"}, \* who numbers it; "isolated" is netsh's persistent 10.57.23.1
     transient: BOOLEAN,                \* 10.57.23.1 added through the IP Helper API
     alias: BOOLEAN,                    \* another program's manual address beside DHCP
     dns: {"none", "servers"},          \* static DNS servers
     policy: {"own", "isolated"},       \* forwarding, MTU, router discovery, weak host
     sharing: BOOLEAN,                  \* private side of Internet connection sharing
     gateway: BOOLEAN,                  \* a DHCP server gave it a default gateway
     up: BOOLEAN]                       \* the cable is in

Snapshots == {NoSnapshot} \cup
    [mode: {"dhcp", "ics"}, dns: {"none", "servers"}, policy: {"own", "isolated"},
     backend: {"transient", "netsh"}]

Calls ==
    [pc: {"idle", "write", "address", "create", "netsh", "dns", "policy", "verify",
          "restore", "back_address", "back_dns", "back_policy", "back_sharing", "check", "remove"},
     elevated: BOOLEAN,
     prefer: BOOLEAN,                           \* g_prefer_persistent_address_backend
     candidate: BOOLEAN,                        \* transient_address_candidate
     applied: {"none", "transient", "netsh"},   \* applied_address_backend
     owned: {"transient", "netsh"},             \* owned_address_backend of the snapshot in memory
     goal: {"rollback", "restore"},
     status: {"none", "already_ready", "provisioned", "no_wired_adapter", "requires_elevation",
              "unavailable", "failed", "not_required", "restored", "unsafe_snapshot"}]

LinkTypeOK == nic \in Adapters /\ orig \in Adapters /\ snap \in Snapshots /\ link \in Calls

NoCall == [pc |-> "idle", elevated |-> FALSE, prefer |-> FALSE, candidate |-> FALSE,
           applied |-> "none", owned |-> "netsh", goal |-> "restore", status |-> "none"]

Go(pc) == link' = [link EXCEPT !.pc = pc]
Ends(status) == link' = [link EXCEPT !.pc = "idle", !.status = status]

(* The two ways in: the mutation starts with no backend applied; a failed  *)
(* transaction is rolled back with the hint of what it has applied.        *)
Undo(owned) == link' = [link EXCEPT !.pc = "restore", !.goal = "rollback", !.owned = owned]

Isolated == nic.mode = "isolated" \/ nic.transient

(* Candidates and the plan: an adapter with the address is ready, one that *)
(* is routed or on DHCP or shares a connection can be configured; a down   *)
(* one, or one that has both the address and a gateway, is not considered. *)
Configurable == nic.up /\ ~Isolated /\ nic.mode \in {"dhcp", "ics"}
Routed == nic.up /\ nic.gateway /\ ~Isolated
Plan == IF nic.up /\ ~nic.gateway /\ Isolated THEN "ready"
        ELSE IF Configurable \/ Routed THEN "configurable" ELSE "none"

(* What the commands do to the adapter.                                    *)
WithTransient == [nic EXCEPT !.transient = TRUE]
WithoutTransient ==   \* 10.57.23.1 is deleted whoever added it
    [nic EXCEPT !.transient = FALSE, !.mode = IF nic.mode = "isolated" THEN "bare" ELSE nic.mode]
NetshAddress(mode) ==
    [nic EXCEPT !.mode = mode, !.transient = FALSE, !.alias = FALSE,
                !.gateway = nic.gateway /\ mode = "dhcp"]
SharingOff == [nic EXCEPT !.sharing = FALSE]
SharingOn == [nic EXCEPT !.sharing = TRUE]
WithDns(dns) == [nic EXCEPT !.dns = dns]
IsolatedPolicy == [nic EXCEPT !.policy = "isolated"]
RestoredPolicy(s) == [nic EXCEPT !.policy = s.policy]

(* The adapter after a command: one that failed, timed out or could not be *)
(* watched to its end may have had its effect or not.                      *)
Ran(effect, ok) == IF ok THEN {effect} ELSE {effect, nic}

CanUseTransient(s) ==
    s.mode = "dhcp" /\ nic.mode = "dhcp" /\ ~nic.gateway /\ s.dns = "none"

ChooseBackend(s, prefer) == IF ~prefer /\ CanUseTransient(s) THEN "transient" ELSE "netsh"

(* snapshot_configuration_matches: what is taken for the original          *)
(* configuration.  Sharing is not looked at, and after the transient       *)
(* backend neither address mode nor DNS.                                   *)
MatchesMutant(s) ==
    /\ ~nic.gateway /\ ~Isolated
    /\ nic.policy = s.policy
Matches(s) ==
    /\ ~nic.gateway /\ ~Isolated
    /\ nic.policy = s.policy
    /\ s.backend = "transient" \/ (nic.mode = s.mode /\ nic.dns = s.dns)

Captured(prefer) ==
    LET s == [mode |-> nic.mode, dns |-> nic.dns, policy |-> nic.policy]
    IN [mode |-> s.mode, dns |-> s.dns, policy |-> s.policy, backend |-> ChooseBackend(s, prefer)]

-----------------------------------------------------------------------------
(* ensure_host_direct_link_ipv4                                            *)

(* An adapter that is ready is used once its duplicate address detection   *)
(* is over; any other needs administrator rights.                          *)
EnsureWithout(elevated, ok) ==
    /\ link.pc = "idle" /\ link.status = "none"
    /\ \/ Plan = "none" /\ ok /\ Ends("no_wired_adapter")
       \/ Plan = "ready" /\ Ends(IF ok THEN "already_ready" ELSE "failed")
       \/ Plan = "configurable" /\ ~elevated /\ ok /\ Ends("requires_elevation")
    /\ UNCHANGED <<nic, orig, snap>>

(* With rights: a pending snapshot is kept unless the adapter already is   *)
(* what it says, in which case it is deleted and a fresh one taken.        *)
Begun(elevated, prefer, pc, owned) ==
    [NoCall EXCEPT !.pc = pc, !.elevated = elevated, !.prefer = prefer, !.owned = owned,
                   !.candidate = snap # NoSnapshot /\ CanUseTransient(snap)]

BeginEnsure(prefer, ok) ==
    /\ link.pc = "idle" /\ link.status = "none"
    /\ Plan = "configurable"
    /\ IF snap = NoSnapshot
       THEN /\ ok
            /\ link' = Begun(TRUE, prefer, "write", "netsh")
            /\ UNCHANGED snap
       ELSE IF Matches(snap)
       THEN IF ok THEN /\ snap' = NoSnapshot
                       /\ link' = Begun(TRUE, prefer, "write", "netsh")
                  ELSE Ends("failed") /\ UNCHANGED snap
       ELSE /\ ok
            /\ UNCHANGED snap
            /\ IF nic.alias /\ ~CanUseTransient(snap)
               THEN Ends("unavailable")
               ELSE link' = Begun(TRUE, prefer, "address", snap.backend)
    /\ UNCHANGED <<nic, orig>>

(* capture_snapshot and write_snapshot: the file is renamed into place,    *)
(* which Windows refuses when there is one already.  An alias whose        *)
(* adapter cannot take a second one ends the call here, snapshot and all.  *)
WriteSnapshot(ok) ==
    /\ link.pc = "write"
    /\ LET s == Captured(link.prefer) IN
       IF ok /\ nic.mode \in {"dhcp", "ics"} /\ snap = NoSnapshot
       THEN /\ snap' = s
            /\ IF nic.alias /\ ~CanUseTransient(s)
               THEN Ends("unavailable")
               ELSE link' = [link EXCEPT !.pc = "address", !.owned = s.backend,
                                         !.candidate = CanUseTransient(s)]
       ELSE Ends("failed") /\ UNCHANGED snap
    /\ UNCHANGED <<nic, orig>>

(* The address step up to the first command that cannot be taken back:     *)
(* sharing is switched off, then either the IP Helper adds the address or  *)
(* netsh is next.                                                          *)
ApplyAddress(ok) ==
    /\ link.pc = "address"
    /\ IF ok THEN /\ nic' = SharingOff
                  /\ Go(IF link.candidate /\ ~link.prefer THEN "create" ELSE "netsh")
             ELSE UNCHANGED nic /\ Undo(link.owned)
    /\ UNCHANGED <<orig, snap>>

CreateTransient(ok) ==
    /\ link.pc = "create"
    /\ \/ /\ ok
          /\ nic' = WithTransient
          /\ link' = [link EXCEPT !.pc = "dns", !.applied = "transient"]
       \/ /\ ~ok            \* not preferred, and perhaps not deleted again; or a conflict
          /\ nic' \in {nic, WithTransient}
          /\ Undo(link.owned)
       \/ /\ ~ok /\ ~nic.alias   \* not created: the fallback is netsh
          /\ UNCHANGED nic
          /\ Go("netsh")
    /\ UNCHANGED <<orig, snap>>

(* persist_snapshot_owned_address_backend, then netsh.  Recording another  *)
(* backend means writing over the snapshot, which write_snapshot cannot    *)
(* do: the call fails, and only the copy in memory has changed.            *)
ApplyNetsh(ok) ==
    /\ link.pc = "netsh"
    /\ IF link.owned # "netsh"
       THEN ok /\ Undo("netsh") /\ UNCHANGED nic
       ELSE /\ nic' \in Ran(NetshAddress("isolated"), ok)
            /\ link' = [link EXCEPT !.applied = "netsh",
                                    !.pc = IF ok THEN "dns" ELSE "restore", !.goal = "rollback"]
    /\ UNCHANGED <<orig, snap>>

ApplyDns(ok) ==
    /\ link.pc = "dns"
    /\ IF link.applied = "transient"
       THEN ok /\ Go("policy") /\ UNCHANGED nic
       ELSE /\ nic' \in Ran(WithDns("none"), ok)
            /\ IF ok THEN Go("policy") ELSE Undo(link.owned)
    /\ UNCHANGED <<orig, snap>>

ApplyPolicy(ok) ==
    /\ link.pc = "policy"
    /\ nic' \in Ran(IsolatedPolicy, ok)
    /\ IF ok THEN Go("verify") ELSE Undo(link.owned)
    /\ UNCHANGED <<orig, snap>>

VerifyLink(ok) ==
    /\ link.pc = "verify"
    /\ IF ok /\ Isolated THEN Ends("provisioned") ELSE Undo(link.owned)
    /\ UNCHANGED <<nic, orig, snap>>

-----------------------------------------------------------------------------
(* restore_host_direct_link_ipv4 and restore_snapshot_configuration        *)

RestoreWithout(elevated) ==
    /\ link.pc = "idle" /\ link.status = "none"
    /\ \/ snap = NoSnapshot /\ Ends("not_required")
       \/ snap # NoSnapshot /\ nic.gateway /\ Ends("unsafe_snapshot")
       \/ /\ snap # NoSnapshot /\ ~nic.gateway /\ ~Matches(snap) /\ ~elevated
          /\ Ends("requires_elevation")
    /\ UNCHANGED <<nic, orig, snap>>

BeginRestore(elevated) ==
    /\ link.pc = "idle" /\ link.status = "none"
    /\ snap # NoSnapshot /\ ~nic.gateway
    /\ Matches(snap) \/ elevated
    /\ link' = [NoCall EXCEPT !.pc = IF Matches(snap) THEN "remove" ELSE "restore",
                              !.elevated = elevated, !.owned = snap.backend]
    /\ UNCHANGED <<nic, orig, snap>>

(* Which way back: the backend the transaction applied, else the one the   *)
(* snapshot owns.                                                          *)
Restore(ok) ==
    /\ link.pc = "restore"
    /\ ok
    /\ IF Matches(snap) THEN Go("remove") ELSE Go("back_address")
    /\ UNCHANGED <<nic, orig, snap>>

Backend == IF link.applied = "none" THEN link.owned ELSE link.applied

BackAddress(ok) ==
    /\ link.pc = "back_address"
    /\ IF ~ok
       THEN Ends("failed") /\ UNCHANGED nic
       ELSE IF Backend = "transient"
       THEN nic' = WithoutTransient /\ Go("back_policy")
       ELSE nic' = NetshAddress(snap.mode) /\ Go("back_dns")
    /\ UNCHANGED <<orig, snap>>

BackDns(ok) ==
    /\ link.pc = "back_dns"
    /\ IF ok THEN nic' = WithDns(snap.dns) /\ Go("back_policy")
             ELSE Ends("failed") /\ UNCHANGED nic
    /\ UNCHANGED <<orig, snap>>

BackPolicyMutant(ok) ==
    /\ link.pc = "back_policy"
    /\ ok
    /\ Go("check") /\ UNCHANGED <<nic, orig, snap>>
BackPolicy(ok) ==
    /\ link.pc = "back_policy"
    /\ IF ok THEN /\ nic' = RestoredPolicy(snap)
                  /\ Go(IF Backend = "netsh" /\ snap.mode = "ics" THEN "back_sharing" ELSE "check")
             ELSE Ends("failed") /\ UNCHANGED nic
    /\ UNCHANGED <<orig, snap>>

BackSharing(ok) ==
    /\ link.pc = "back_sharing"
    /\ IF ok THEN nic' = SharingOn /\ Go("check")
             ELSE Ends("failed") /\ UNCHANGED nic
    /\ UNCHANGED <<orig, snap>>

CheckRestored(ok) ==
    /\ link.pc = "check"
    /\ IF ok /\ Matches(snap) THEN Go("remove") ELSE Ends("failed")
    /\ UNCHANGED <<nic, orig, snap>>

RemoveSnapshot(ok) ==
    /\ link.pc = "remove"
    /\ IF ok THEN snap' = NoSnapshot ELSE UNCHANGED snap
    /\ Ends(IF ok /\ link.goal = "restore" THEN "restored" ELSE "failed")
    /\ UNCHANGED <<nic, orig>>

LinkStep(ok) ==
    \/ WriteSnapshot(ok) \/ ApplyAddress(ok) \/ CreateTransient(ok) \/ ApplyNetsh(ok) \/ ApplyDns(ok)
    \/ ApplyPolicy(ok) \/ VerifyLink(ok) \/ Restore(ok) \/ BackAddress(ok)
    \/ BackDns(ok) \/ BackPolicy(ok) \/ BackSharing(ok) \/ CheckRestored(ok)
    \/ RemoveSnapshot(ok)

-----------------------------------------------------------------------------
(* The world around the adapter                                            *)

(* Where there is a router, an adapter on DHCP gets a gateway from it.     *)
GatewayAppears ==
    /\ orig.gateway /\ nic.mode = "dhcp" /\ nic.up /\ ~nic.gateway
    /\ nic' = [nic EXCEPT !.gateway = TRUE]
    /\ UNCHANGED <<orig, snap, link>>

CableMoves ==
    /\ nic' = [nic EXCEPT !.up = ~nic.up, !.gateway = FALSE]
    /\ UNCHANGED <<orig, snap, link>>

(* The process that does the work dies; a restart of Windows besides       *)
(* forgets addresses that were not stored.                                 *)
Killed(reboot) ==
    /\ link' = NoCall
    /\ nic' = [nic EXCEPT !.transient = nic.transient /\ ~reboot]
    /\ UNCHANGED <<orig, snap>>

-----------------------------------------------------------------------------
(* Whatever has been changed on the adapter can be put back: as long as    *)
(* address mode, DNS servers or interface policy are not the user's, a     *)
(* snapshot with exactly the user's values exists, wherever a worker or    *)
(* the Host was killed and whichever command failed.  (Sharing and other   *)
(* programs' addresses are not in the snapshot: see the README.)           *)
ModifiedMeansSnapshot ==
    /\ \/ nic.mode # orig.mode \/ nic.dns # orig.dns \/ nic.policy # orig.policy
       \/ nic.transient # orig.transient
       => snap # NoSnapshot
    /\ snap # NoSnapshot =>
         /\ snap.mode = orig.mode /\ snap.dns = orig.dns /\ snap.policy = orig.policy
         /\ orig.mode # "isolated"

=============================================================================
