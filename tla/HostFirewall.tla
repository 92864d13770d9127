---------------------------- MODULE HostFirewall ----------------------------
(***************************************************************************)
(* ensure_host_firewall_rules of host_firewall_provisioner.cpp: the nine   *)
(* inbound rules of the Host (here 1..RuleCount) are brought to exactly    *)
(* one current rule each, replacing only rules that earlier builds are     *)
(* proved to have made, or everything is put back.  Windows identifies     *)
(* rules by names that are not unique, and anybody with rights may change  *)
(* them meanwhile, a second call of the Host itself included.  Looking at  *)
(* the rules of a name and removing them by that name are two calls to     *)
(* Windows, and two steps here.                                            *)
(***************************************************************************)
EXTENDS Naturals, FiniteSets

CONSTANTS RuleCount,    \* how many rules the policy asks for
          LegacyRules   \* those that earlier builds had under another name

ASSUME FirewallAssumption == RuleCount \in Nat \ {0} /\ LegacyRules \subseteq 1..RuleCount

VARIABLES rules,  \* how many rules of each kind Windows holds under a rule's names
          fw      \* the call in progress

fwVars == <<rules, fw>>

Desired == 1..RuleCount
OwnedKinds == {"current", "stale", "legacy"}
Kinds == OwnedKinds \cup
    {"foreign",  \* same name, but not the narrow fingerprint of this Host
     "extra"}    \* another name: an enabled inbound allow for this executable

NoRules == [k \in Kinds |-> 0]

RuleSets == [Desired -> [Kinds -> Nat]]

FwCalls ==
    [pc: {"idle", "remove", "removing", "add", "verify", "audit",
          "back_remove", "back_removing", "back_add", "back_verify"},
     at: 0..RuleCount,               \* the plan being reconciled or rolled back
     last: 0..RuleCount,             \* the last plan touched
     before: Nat,                    \* rules seen before the last removal of this name, or 0
     original: RuleSets,
     met: SUBSET Desired,            \* names where a look of this call found a foreign rule, still there
     shared: BOOLEAN,                \* another call of the Host has changed rules since this one began
     rolled: {"no", "complete", "failed"},
     status: {"none", "ready", "unfiltered",   \* ready, because Windows filters nothing anyway
              "provisioned", "requires_elevation", "unavailable", "failed"}]

FirewallTypeOK == rules \in RuleSets /\ fw \in FwCalls

NoFwCall == [pc |-> "idle", at |-> 0, last |-> 0, before |-> 0,
             original |-> [d \in Desired |-> NoRules], met |-> {}, shared |-> FALSE,
             rolled |-> "no", status |-> "none"]

FwEnds(status, shared) == fw' = [NoFwCall EXCEPT !.status = status, !.shared = shared]

Owned(r, d) == [k \in Kinds |-> IF k \in OwnedKinds THEN r[d][k] ELSE 0]

(* collect_owned_snapshots and firewall_rule_is_owned: one rule of the     *)
(* name that is not proved to be ours makes the whole name untouchable.    *)
CollectableMutant(d) == TRUE
Collectable(d) == rules[d]["foreign"] = 0

OnlyCurrent == [NoRules EXCEPT !["current"] = 1]
IsCurrent(d) == Collectable(d) /\ Owned(rules, d) = OnlyCurrent

Stale == {d \in Desired : fw.original[d] # OnlyCurrent}
NextStale(after) == {d \in Stale : d > after /\ \A e \in Stale : e > after => d <= e}

(* find_conflicting_executable_rules                                       *)
Conflicting == \E d \in Desired : rules[d]["extra"] > 0

(* The Host's own rules under the names of d, as a look counts them; and   *)
(* the names of S where it comes upon somebody else's.                     *)
Seen(d) == rules[d]["current"] + rules[d]["stale"] + rules[d]["legacy"]
Meets(S) == fw.met \cup {d \in S : rules[d]["foreign"] > 0}

(* What may be left under the names of d when rules are removed by name.   *)
Fewer(r, d) ==
    {[NoRules EXCEPT !["current"] = c, !["stale"] = s, !["legacy"] = l, !["foreign"] = f,
                     !["extra"] = r[d]["extra"]] :
        c \in 0..r[d]["current"], s \in 0..r[d]["stale"], l \in 0..r[d]["legacy"], f \in 0..r[d]["foreign"]}

-----------------------------------------------------------------------------
(* Reading, planning and the elevation that changes need.  A policy that   *)
(* cannot be had makes the firewall unavailable, rules that cannot be read *)
(* or made before any is touched are a failure; but where the rules cannot *)
(* be had and every active profile is switched off, the Host goes on.      *)
BeginFirewall(elevated, ok) ==
    /\ fw.pc = "idle" /\ fw.status = "none"
    /\ \/ ~ok /\ \E status \in {"unavailable", "failed", "unfiltered"} : FwEnds(status, FALSE)
       \/ /\ ok
          /\ Conflicting \/ \E d \in Desired : ~Collectable(d)
          /\ FwEnds("failed", FALSE)
       \/ /\ ok /\ ~Conflicting
          /\ \A d \in Desired : Collectable(d)
          /\ IF \A d \in Desired : IsCurrent(d) THEN FwEnds("ready", FALSE)
             ELSE IF ~elevated THEN FwEnds("requires_elevation", FALSE)
             ELSE LET plan == [d \in Desired |-> Owned(rules, d)]
                      first == CHOOSE d \in Desired : /\ plan[d] # OnlyCurrent
                                                      /\ \A e \in Desired : plan[e] # OnlyCurrent => d <= e
                  IN fw' = [NoFwCall EXCEPT !.pc = "remove", !.original = plan, !.at = first]
    /\ UNCHANGED rules

(* create_rule, then Add.                                                  *)
Created(r, d) == [r EXCEPT ![d]["current"] = @ + 1]

RollBack(last, met) ==
    fw' = [fw EXCEPT !.pc = "back_remove", !.last = last, !.before = 0, !.met = met,
                     !.at = CHOOSE d \in Stale : \A e \in Stale : d <= e]

(* remove_all_owned_named_rules looks, removes by the name of the first    *)
(* rule it saw, and looks again until none is left.  (Two looks in a row   *)
(* are one.)  It refuses as soon as a rule of the name is not the Host's,  *)
(* a kind was not there when the plan was made, or the last removal has    *)
(* not made them fewer.                                                    *)
Refused(d, allowed) ==
    \/ ~Collectable(d)
    \/ fw.before > 0 /\ Seen(d) >= fw.before
    \/ \E k \in OwnedKinds \ allowed : rules[d][k] > 0

Planned(d) == {k \in OwnedKinds : fw.original[d][k] > 0}

RemoveOwned(ok) ==
    /\ fw.pc = "remove"
    /\ IF ok /\ ~Refused(fw.at, Planned(fw.at))
       THEN fw' = [fw EXCEPT !.pc = IF Seen(fw.at) = 0 THEN "add" ELSE "removing",
                             !.before = Seen(fw.at)]
       ELSE RollBack(fw.at, Meets({fw.at}))
    /\ UNCHANGED rules

(* The roll-back goes on with the next plan that was touched.              *)
BackOn(rolled, met) ==
    fw' = [fw EXCEPT !.pc = IF fw.at = fw.last THEN "back_verify" ELSE "back_remove",
                     !.at = IF fw.at = fw.last THEN fw.at ELSE CHOOSE e \in NextStale(fw.at) : TRUE,
                     !.before = 0, !.met = met, !.rolled = rolled]

(* remove_rule_name: Windows takes rules of the name, whoever made them,   *)
(* and at least one if there is any.                                       *)
RemoveNamed(ok) ==
    /\ fw.pc \in {"removing", "back_removing"}
    /\ \E left \in Fewer(rules, fw.at) :
          /\ ok /\ (\E k \in Kinds \ {"extra"} : rules[fw.at][k] > 0) => left # rules[fw.at]
          /\ rules' = [rules EXCEPT ![fw.at] = left]
    /\ CASE ok -> fw' = [fw EXCEPT !.pc = IF fw.pc = "removing" THEN "remove" ELSE "back_remove"]
         [] ~ok /\ fw.pc = "removing" -> RollBack(fw.at, fw.met)
         [] OTHER -> BackOn("failed", fw.met)

AddRule(ok) ==
    /\ fw.pc = "add"
    /\ IF ok
       THEN /\ rules' = Created(rules, fw.at)
            /\ IF NextStale(fw.at) = {}
               THEN fw' = [fw EXCEPT !.pc = "verify", !.last = fw.at]
               ELSE fw' = [fw EXCEPT !.pc = "remove", !.at = CHOOSE d \in NextStale(fw.at) : TRUE]
       ELSE UNCHANGED rules /\ RollBack(fw.at, fw.met)

VerifyRules(ok) ==
    /\ fw.pc = "verify"
    /\ IF ok /\ \A d \in Desired : IsCurrent(d)
       THEN fw' = [fw EXCEPT !.pc = "audit"]
       ELSE RollBack(fw.last, Meets({d \in Desired : \A e \in Desired : e < d => IsCurrent(e)}))
    /\ UNCHANGED rules

PostAudit(ok) ==
    /\ fw.pc = "audit"
    /\ IF ok /\ ~Conflicting THEN FwEnds("provisioned", fw.shared) ELSE RollBack(fw.last, fw.met)
    /\ UNCHANGED rules

(* rollback_rule_plans: a name that cannot be cleared is skipped, and what *)
(* was there before is added again; the verdict is a comparison at the end.*)
BackRemove(ok) ==
    /\ fw.pc = "back_remove"
    /\ IF ok /\ ~Refused(fw.at, Planned(fw.at) \cup {"current"})
       THEN fw' = [fw EXCEPT !.pc = IF Seen(fw.at) = 0 THEN "back_add" ELSE "back_removing",
                             !.before = Seen(fw.at)]
       ELSE BackOn("failed", Meets({fw.at}))
    /\ UNCHANGED rules

BackAdd(ok) ==
    /\ fw.pc = "back_add"
    /\ \E some \in Fewer(fw.original, fw.at) :
          /\ ok <=> some = fw.original[fw.at]
          /\ rules' = [rules EXCEPT ![fw.at] = [k \in Kinds |-> rules[fw.at][k] + some[k]]]
    /\ BackOn(IF ok THEN fw.rolled ELSE "failed", fw.met)

BackVerify(ok) ==
    /\ fw.pc = "back_verify"
    /\ LET same == \A d \in Desired : Collectable(d) /\ Owned(rules, d) = fw.original[d]
       IN fw' = [fw EXCEPT !.pc = "idle", !.status = "failed",
                           !.rolled = IF ok /\ same /\ fw.rolled = "no" THEN "complete" ELSE "failed"]
    /\ UNCHANGED rules

FirewallStep(ok) ==
    \/ RemoveOwned(ok) \/ RemoveNamed(ok) \/ AddRule(ok) \/ VerifyRules(ok) \/ PostAudit(ok)
    \/ BackRemove(ok) \/ BackAdd(ok) \/ BackVerify(ok)

(* Somebody else: makes a rule of one of our names or a broad permission   *)
(* for the executable, and removes it again.                               *)
OthersAdd(d, k) ==
    /\ k \in {"foreign", "extra"} /\ rules[d][k] = 0
    /\ rules' = [rules EXCEPT ![d][k] = 1]
    /\ UNCHANGED fw

OthersRemove(d, k) ==
    /\ k \in {"foreign", "extra"} /\ rules[d][k] > 0
    /\ rules' = [rules EXCEPT ![d][k] = 0]
    /\ fw' = IF k = "foreign" THEN [fw EXCEPT !.met = @ \ {d}] ELSE fw

(* The probe for the cable does not wait for the firewall auditor, so two  *)
(* calls of this code may overlap.  The other one, wherever it is, adds    *)
(* and removes rules of the Host's own kinds.                              *)
OtherCall(d, k) ==
    /\ k \in OwnedKinds
    /\ \/ rules' = [rules EXCEPT ![d][k] = @ + 1]
       \/ rules[d][k] > 0 /\ rules' = [rules EXCEPT ![d][k] = @ - 1]
    /\ fw' = [fw EXCEPT !.shared = TRUE]

FirewallKilled == fw' = NoFwCall /\ UNCHANGED rules

-----------------------------------------------------------------------------
(* When the Host takes the firewall for provisioned, other than because    *)
(* Windows filters nothing, every rule it needs is there exactly once, no  *)
(* older rule of its own is left, and nothing else lets the network in to  *)
(* its executable, although others may add rules between verification and  *)
(* audit; unless an overlapping call of the Host itself has changed rules  *)
(* since this one began.                                                   *)
NarrowWhenReady ==
    [][fw.status = "none" /\ fw'.status \in {"ready", "provisioned"} =>
         \A d \in Desired : /\ rules'[d]["extra"] = 0
                           /\ ~fw'.shared => Owned(rules', d) = OnlyCurrent]_fwVars

(* A rule that the Host cannot prove to be its own and that a look of the  *)
(* call has come upon is not removed by the call, neither when replacing   *)
(* nor when rolling back, though Windows removes by name; and no call      *)
(* removes a rule of another name.  (A rule of one of our names made       *)
(* between the look and the removal can go with the Host's own.)           *)
ForeignRulesKept ==
    [][\A d \in Desired :
         /\ d \in fw.met \cap fw'.met => rules'[d]["foreign"] >= rules[d]["foreign"]
         /\ rules'[d]["extra"] # rules[d]["extra"] => fw' = fw]_fwVars

(* "rollback=complete" is only reported when the Host's rules are, one for *)
(* one, those it found, whoever changed them meanwhile.                    *)
RolledBackIsOriginal ==
    [][fw'.rolled = "complete" /\ fw.rolled # "complete" =>
         \A d \in Desired : Owned(rules, d) = fw.original[d]]_fwVars
=============================================================================
