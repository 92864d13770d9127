---------------------------- MODULE HostBootstrap ---------------------------
(***************************************************************************)
(* bootstrap_host_cat6_link: the direct link, the firewall and the DHCP    *)
(* server one after the other, then the wait for the phone; and what the   *)
(* Host does around it, from its start to a normal close.  What needs      *)
(* administrator rights is done by a worker process that Windows may       *)
(* refuse to start and that is terminated when it takes too long.          *)
(***************************************************************************)
EXTENDS DirectLink, HostFirewall, IsolatedDhcp

CONSTANTS Originals,   \* the configurations the user may have
          Overlapped,  \* those of them that are followed with overlapping firewall calls, too
          MaxFaults    \* failing commands, stops, kills and other people's changes in a behaviour

\* An address that was added through the IP Helper API is the Host's doing, never
\* what it finds on the user's adapter.
ASSUME BootstrapAssumption == Originals \subseteq {a \in Adapters : ~a.transient} /\ MaxFaults \in Nat

VARIABLES boot, faults

vars == <<linkVars, fwVars, dhcpVars, boot, faults>>

Boots ==
    [pc: {"off", "direct", "firewall", "undo",
          "dhcp", "open",    \* the server is next, behind the rules or where nothing is filtered
          "wait", "found", "failed", "closing"},
     worker: {"none", "provision", "restore", "firewall"},   \* the elevated process, if one runs
     admin: BOOLEAN,                                         \* the Host itself has the rights
     try: 1..2]

BootTypeOK == boot \in Boots /\ faults \in 0..MaxFaults

TypeOK == LinkTypeOK /\ FirewallTypeOK /\ DhcpTypeOK /\ BootTypeOK

(* What earlier builds and runs may have left in the firewall.             *)
FirewallHistory ==
    LET One(k) == [NoRules EXCEPT ![k] = 1]
        Mixed == [NoRules EXCEPT !["current"] = 1, !["stale"] = 1]
    IN {[d \in Desired |-> OnlyCurrent],
        [d \in Desired |-> NoRules],
        [d \in Desired |-> IF d \in LegacyRules THEN One("legacy") ELSE Mixed]}

Init ==
    /\ orig \in Originals /\ nic = orig /\ snap = NoSnapshot /\ link = NoCall
    /\ rules \in FirewallHistory /\ fw = NoFwCall
    /\ dhcp = Stopped /\ bound = {}
    /\ \E admin \in BOOLEAN :
          boot = [pc |-> "off", worker |-> "none", admin |-> admin, try |-> 1]
    /\ faults = 0

Elevated == boot.admin \/ boot.worker # "none"

Spend(ok) == IF ok THEN UNCHANGED faults ELSE faults < MaxFaults /\ faults' = faults + 1

To(pc) == boot' = [boot EXCEPT !.pc = pc, !.worker = "none"]
Hire(w) == boot' = [boot EXCEPT !.worker = w]

LinkResult == link' = [link EXCEPT !.status = "none"] /\ UNCHANGED <<nic, orig, snap>>
FwResult == fw' = [NoFwCall EXCEPT !.shared = fw.shared] /\ UNCHANGED rules

-----------------------------------------------------------------------------
(* The Host starts, or its worker bootstraps again after a lost link.      *)
Begin ==
    /\ boot.pc \in {"off", "found", "failed"}
    /\ boot' = [boot EXCEPT !.pc = "direct", !.try = 1]
    /\ UNCHANGED <<linkVars, fwVars, dhcpVars, faults>>

(* The Host prefers the persistent backend; its worker only does when its  *)
(* environment came through the elevation.                                 *)
Preferring(prefer) == boot.worker = "none" => prefer

CallLink(ok) ==
    /\ \/ /\ boot.pc = "direct"
          /\ \/ EnsureWithout(Elevated, ok)
             \/ Elevated /\ \E prefer \in BOOLEAN : Preferring(prefer) /\ BeginEnsure(prefer, ok)
       \/ /\ boot.pc \in {"undo", "closing"}
          /\ ok
          /\ RestoreWithout(Elevated) \/ BeginRestore(Elevated)
    /\ Spend(ok)
    /\ UNCHANGED <<fwVars, dhcpVars, boot>>

StepLink(ok) ==
    /\ LinkStep(ok)
    /\ Spend(ok)
    /\ UNCHANGED <<fwVars, dhcpVars, boot>>

(* What becomes of ensure_host_direct_link_ipv4_automatically: missing     *)
(* rights hire the worker once, and the worker's exit code only says that  *)
(* the Host may look again.                                                *)
EnsureResult ==
    /\ boot.pc = "direct" /\ link.pc = "idle" /\ link.status # "none"
    /\ LinkResult
    /\ \/ /\ link.status \in {"already_ready", "provisioned"}
          /\ boot' = [boot EXCEPT !.pc = "firewall"]
          /\ UNCHANGED dhcpVars
       \/ /\ link.status = "requires_elevation"
          /\ Hire("provision")
          /\ UNCHANGED dhcpVars
       \/ /\ link.status \in {"no_wired_adapter", "failed", "unavailable"}
          /\ To("failed")
          /\ IF boot.try = 1 THEN StopDhcp ELSE UNCHANGED dhcpVars
    /\ UNCHANGED <<fwVars, faults>>

(* An adapter that is still coming up is looked for again for a while.     *)
Warmup ==
    /\ boot.pc = "direct" /\ link.pc = "idle" /\ link.status = "no_wired_adapter"
    /\ boot.worker = "none" /\ ~nic.gateway
    /\ LinkResult
    /\ UNCHANGED <<fwVars, dhcpVars, boot, faults>>

CallFirewall(ok) ==
    /\ boot.pc \in {"firewall", "wait"}
    /\ BeginFirewall(Elevated, ok)
    /\ Spend(ok)
    /\ UNCHANGED <<linkVars, dhcpVars, boot>>

StepFirewall(ok) ==
    /\ FirewallStep(ok)
    /\ Spend(ok)
    /\ UNCHANGED <<linkVars, dhcpVars, boot>>

(* The worker that numbered the adapter also installs the rules; then the  *)
(* Host looks at both again.  A Host without the rules puts the adapter    *)
(* back before it gives up, except after the repair of a DHCP start.       *)
FirewallResult ==
    /\ boot.pc = "firewall" /\ fw.pc = "idle" /\ fw.status # "none"
    /\ FwResult
    /\ \/ /\ fw.status \in {"ready", "provisioned", "unfiltered"}
          /\ CASE boot.worker = "provision" -> To("direct")
               [] boot.worker = "firewall" -> To("firewall")
               [] OTHER -> To(IF fw.status = "unfiltered" THEN "open" ELSE "dhcp")
          /\ UNCHANGED dhcpVars
       \/ /\ fw.status = "requires_elevation"
          /\ Hire("firewall")
          /\ UNCHANGED dhcpVars
       \/ /\ fw.status \in {"unavailable", "failed"}
          /\ IF boot.try = 2 /\ boot.worker # "provision" THEN To("failed") /\ UNCHANGED dhcpVars
             ELSE IF boot.worker = "provision" THEN boot' = [boot EXCEPT !.pc = "undo"] /\ UNCHANGED dhcpVars
             ELSE To("undo") /\ StopDhcp
    /\ UNCHANGED <<linkVars, faults>>

UndoResult ==
    /\ boot.pc = "undo" /\ link.pc = "idle" /\ link.status # "none"
    /\ LinkResult
    /\ IF link.status = "requires_elevation" /\ boot.worker = "none" THEN Hire("restore") ELSE To("failed")
    /\ UNCHANGED <<fwVars, dhcpVars, faults>>

(* Two attempts: the first failure for want of the address repairs the     *)
(* link and the rules once.                                                *)
StartServer(ok) ==
    /\ boot.pc \in {"dhcp", "open"}
    /\ IF dhcp.running THEN ok /\ To("wait") /\ UNCHANGED dhcpVars
       ELSE IF ok /\ Isolated THEN StartDhcp /\ To("wait")
       ELSE /\ ok => ~Isolated
            /\ UNCHANGED dhcpVars
            /\ boot' = [boot EXCEPT !.pc = IF ~Isolated /\ boot.try = 1 THEN "direct" ELSE "failed",
                                    !.try = IF ~Isolated THEN 2 ELSE @]
    /\ Spend(ok)
    /\ UNCHANGED <<linkVars, fwVars>>

DhcpMessage(ok) ==
    /\ nic.up
    /\ \E m \in Requests : Answer(m, ok)
    /\ Spend(ok)
    /\ UNCHANGED <<linkVars, fwVars, boot>>

(* A stop is looked at before the link, before the rules and before the    *)
(* server; what was done so far stays.                                     *)
Cancelled ==
    /\ boot.worker = "none" /\ boot.try = 1
    /\ \/ boot.pc = "direct" /\ link.pc = "idle" /\ link.status = "none"
       \/ boot.pc = "firewall" /\ fw.pc = "idle" /\ fw.status = "none"
       \/ boot.pc \in {"dhcp", "open"}
    /\ To("failed") /\ StopDhcp
    /\ Spend(FALSE)
    /\ UNCHANGED <<linkVars, fwVars>>

(* wait_for_host_cat6_mobile: the rules are looked at every second, and a  *)
(* bad verdict ends the wait without giving the adapter back.              *)
WaitResult ==
    /\ boot.pc = "wait" /\ fw.pc = "idle"
    /\ \/ /\ fw.status \in {"none", "ready", "provisioned", "unfiltered"}
          /\ \/ bound # {} /\ nic.up /\ Isolated /\ To("found")  \* measure_cat6_mobile_session
             \/ To("failed")                                     \* the wait is over
       \/ fw.status = "requires_elevation" /\ Hire("firewall")
       \/ fw.status \in {"unavailable", "failed"} /\ To("failed")
    /\ fw' = NoFwCall
    /\ UNCHANGED <<rules, linkVars, dhcpVars, faults>>

(* restore_direct_link_on_clean_shutdown                                   *)
Close ==
    /\ boot.pc \in {"found", "failed"}
    /\ To("closing")
    /\ StopDhcp
    /\ UNCHANGED <<linkVars, fwVars, faults>>

CloseResult ==
    /\ boot.pc = "closing" /\ link.pc = "idle" /\ link.status # "none"
    /\ LinkResult
    /\ IF link.status = "requires_elevation" /\ boot.worker = "none" THEN Hire("restore") ELSE To("off")
    /\ UNCHANGED <<fwVars, dhcpVars, faults>>

-----------------------------------------------------------------------------
(* UAC is refused, or the worker's time is over: the Host counts it as     *)
(* failed, wherever the worker was.                                        *)
WorkerTerminated ==
    /\ boot.worker # "none"
    /\ Spend(FALSE)
    /\ Killed(FALSE) /\ FirewallKilled
    /\ CASE boot.worker = "provision" -> To("failed") /\ StopDhcp
         [] boot.worker = "restore" -> To(IF boot.pc = "closing" THEN "off" ELSE "failed") /\ UNCHANGED dhcpVars
         [] OTHER -> IF boot.pc = "wait" \/ boot.try = 2 THEN To("failed") /\ UNCHANGED dhcpVars
                                                       ELSE To("undo") /\ StopDhcp

(* The Host dies, alone or with the machine.  (A worker of a dead Host is  *)
(* taken to die with it.)                                                  *)
Crash ==
    /\ boot.pc # "off"
    /\ Spend(FALSE)
    /\ \E reboot \in BOOLEAN : Killed(reboot)
    /\ FirewallKilled
    /\ StopDhcp
    /\ boot' = [boot EXCEPT !.pc = "off", !.worker = "none"]

World ==
    \/ GatewayAppears /\ UNCHANGED <<fwVars, dhcpVars, boot, faults>>
    \/ CableMoves /\ Spend(~nic.up) /\ UNCHANGED <<fwVars, dhcpVars, boot>>
    \/ /\ \E d \in Desired, k \in Kinds : OthersAdd(d, k)
       /\ Spend(FALSE) /\ UNCHANGED <<linkVars, dhcpVars, boot>>
    \/ /\ \E d \in Desired, k \in Kinds : OthersRemove(d, k)
       /\ UNCHANGED <<linkVars, dhcpVars, boot, faults>>
    \/ /\ orig \in Overlapped
       /\ fw.pc # "idle" \/ boot.pc = "dhcp"
       /\ \E d \in Desired, k \in Kinds : OtherCall(d, k)
       /\ Spend(FALSE) /\ UNCHANGED <<linkVars, dhcpVars, boot>>

Progress ==
    \/ \E ok \in BOOLEAN : CallLink(ok) \/ StepLink(ok) \/ CallFirewall(ok) \/ StepFirewall(ok) \/ StartServer(ok)
    \/ EnsureResult \/ FirewallResult \/ UndoResult \/ CloseResult

Next ==
    \/ Progress \/ Begin \/ Warmup \/ Close \/ WaitResult \/ Cancelled
    \/ \E ok \in BOOLEAN : DhcpMessage(ok)
    \/ WorkerTerminated \/ Crash \/ World

(* The code's own steps go on, a wait ends by its deadline, and a Host     *)
(* that has failed, lost the link or is closed bootstraps again.           *)
Fairness == WF_vars(Progress) /\ WF_vars(WaitResult) /\ WF_vars(Begin)

Spec == Init /\ [][Next]_vars /\ Fairness

-----------------------------------------------------------------------------
(* A Host that is closed normally again and again gives the adapter back   *)
(* to its user, whatever was pending from crashes and failed commands:     *)
(* unless a router has given it a gateway, which the restore refuses.      *)
AdapterComesBack ==
    []<>(boot.pc = "closing") => []<>(snap = NoSnapshot \/ orig.gateway)

(* Leftovers of every kind notwithstanding, a Host that keeps trying gets  *)
(* the link, the rules and the DHCP server up, once the cable stays in and *)
(* nobody else's rules are in the way.  (Behind a router the adapter may   *)
(* get its gateway back while it has a transient address: it is then no    *)
(* candidate at all, and stays so.)                                        *)
LinkComesUp ==
    <>[](nic.up /\ \A d \in Desired : rules[d]["foreign"] = 0 /\ rules[d]["extra"] = 0)
        => []<>(boot.pc = "wait" \/ orig.gateway)

(* The phone is only waited for on a link that is closed to the rest of    *)
(* the network: the address is set, the server runs, and at the moment the *)
(* wait begins the Host's rules are the narrow ones, each once; unless     *)
(* Windows filtered nothing when the Host asked, or an overlapping call of *)
(* the Host has changed rules since.                                       *)
WaitsBehindFirewall ==
    [][boot.pc = "dhcp" /\ boot'.pc = "wait" =>
         /\ dhcp'.running
         /\ ~fw.shared => \A d \in Desired : rules[d]["current"] = 1 /\ rules[d]["stale"] = 0 /\ rules[d]["legacy"] = 0]_vars

(* What the Host changed on the adapter can be put back at every moment, and *)
(* what it changed, the user's values are still known.                       *)
AdapterRestorable == TypeOK /\ ModifiedMeansSnapshot

(* The firewall is the Host's own and nobody else's is touched: rules of     *)
(* others that a call has come upon survive it, a roll-back that calls       *)
(* itself complete is, what is called ready is narrow, and the phone is      *)
(* waited for behind it only, where Windows filters at all and no other call *)
(* of the Host interferes.                                                   *)
RulesAreSafe ==
    /\ NarrowWhenReady
    /\ ForeignRulesKept
    /\ RolledBackIsOriginal
    /\ WaitsBehindFirewall

(* From leftovers of every kind the link comes up again, and the adapter     *)
(* goes back to its user.                                                    *)
LinkRecovers == AdapterComesBack /\ LinkComesUp

-----------------------------------------------------------------------------
(* The adapters of the checked instance *)

Plain == [mode |-> "dhcp", transient |-> FALSE, alias |-> FALSE, dns |-> "none", policy |-> "own",
          sharing |-> FALSE, gateway |-> FALSE, up |-> TRUE]

OneNumbered == {[Plain EXCEPT !.mode = "isolated"]}

\* On DHCP, with and without DNS servers of the user's; behind a router; sharing
\* a connection; beside another program's address; numbered 10.57.23.1 by the user.
SixAdapters ==
    {Plain, [Plain EXCEPT !.dns = "servers"], [Plain EXCEPT !.gateway = TRUE],
     [Plain EXCEPT !.mode = "ics", !.sharing = TRUE],
     [Plain EXCEPT !.alias = TRUE], [Plain EXCEPT !.mode = "isolated"]}
=============================================================================
