--------------------------- MODULE PolicyResolution ---------------------------
(***************************************************************************)
(* How OPAEvaluator (norviq/engine/evaluator.py) turns the policies that   *)
(* apply to one tool call into one decision: the layers it collects, the   *)
(* precedence between them, each policy's own mode, and then the rate      *)
(* limit, the trust overrides, the posture of the namespace and the        *)
(* refusal of the enforcement point, on the three ways out of evaluate().  *)
(*                                                                         *)
(* A layer's policy is [dec, mode, prio]: what it decides about the call,  *)
(* whether it is stored to enforce or to observe, and its priority.  A     *)
(* decision is [decision, rule]; of the rule names only the ones the       *)
(* pipeline looks at are told apart.                                       *)
(***************************************************************************)
EXTENDS Integers

CONSTANTS Stores,       \* the policies that may be stored: functions from layers to policies
          Events,       \* the calls that may be evaluated
          MaxPriority   \* the range of the priority column

Rank == [block |-> 0, escalate |-> 1, audit |-> 2, allow |-> 3]

\* The layers of a namespace, and the order in which _collect_candidates appends them.
Position == [class |-> 1, controls |-> 2, egress |-> 3, mcp |-> 4, baseline |-> 5, cluster |-> 6, namespace |-> 7,
             deployment |-> 8, pack |-> 9, guardrail |-> 10, pack_override |-> 11, pack_weaken |-> 12, remediation |-> 13]
Layers == DOMAIN Position
BaseLayers == {"class", "namespace", "deployment"}
PackFamily == {"pack", "pack_override", "pack_weaken"}
\* The overlays whose candidate carries no mode: they are taken as enforcing.
Modeless == PackFamily \cup {"guardrail", "remediation"}

Policy == [dec : DOMAIN Rank, mode : {"block", "audit"}, prio : -MaxPriority..MaxPriority]
\* What OPA may answer to one query, and what the call brings along.
Payloads == DOMAIN Rank \cup {"unnamed block", "nothing fired", "fired without decision", "no document", "error"}
Event == [fault : {"none", "timeout", "identity", "error"}, candidates : Nat, direct : BOOLEAN, warmed : BOOLEAN,
          defaultDeny : BOOLEAN, tries : Payloads \X Payloads, mode : {"block", "audit"}, monitor : BOOLEAN,
          exemptRate : BOOLEAN, postureReadable : BOOLEAN, readTool : BOOLEAN, overLimit : BOOLEAN,
          trust : {"ok", "low", "frozen"}, pep : {"", "block"}]

ASSUME PriorityAssumption == MaxPriority \in Nat
ASSUME StoresAssumption == \A s \in Stores : DOMAIN s \subseteq Layers /\ s \in [DOMAIN s -> Policy]
ASSUME EventsAssumption == Events \subseteq Event

-----------------------------------------------------------------------------
(* Which layers take part. *)

\* Faulty variant: controls stored to observe supersede the baseline too.
Superseded_AnyMode(store, covers) == {"controls", "baseline"} \subseteq DOMAIN store /\ covers

\* _apply_controls_supersede: saved controls that enforce and that cover the chart's preset
\* take the place of the namespace's baseline.
Superseded(store, covers) ==
    {"controls", "baseline"} \subseteq DOMAIN store /\ store.controls.mode = "block" /\ covers

\* A layer's candidate; at is its place in the list.
Candidate(store, layer, at) ==
    [layer |-> layer, at |-> at, dec |-> store[layer].dec, prio |-> store[layer].prio,
     mode |-> IF layer \in Modeless THEN "block" ELSE store[layer].mode]

\* _collect_candidates.
Candidates(store, covers, workload) ==
    LET applies(layer) == /\ layer = "deployment" => workload
                          /\ ~(layer = "baseline" /\ Superseded(store, covers))
    IN {Candidate(store, l, Position[l]) : l \in {l \in DOMAIN store : applies(l)}}

\* _collect_candidates_union, of the view over all namespaces: neither the MCP registry nor the
\* namespace and deployment tiers take part, and the cluster's baseline comes once, last.
CandidatesUnion(store, covers) ==
    Candidates([l \in DOMAIN store \ {"mcp", "namespace", "deployment", "cluster"} |-> store[l]], covers, FALSE)
        \cup {Candidate(store, l, 14) : l \in DOMAIN store \cap {"cluster"}}

-----------------------------------------------------------------------------
(* Which of them decides. *)

\* The first of a stable sort by a pair of numbers.
Leads(x, y, key) ==
    \/ key[x][1] < key[y][1]
    \/ key[x][1] = key[y][1] /\ key[x][2] < key[y][2]
    \/ key[x] = key[y] /\ x.at <= y.at
First(items, key) == CHOOSE x \in items : \A y \in items : Leads(x, y, key)

\* _effective_rank: what a decision is worth once its policy's mode has softened it.
EffectiveRank(item) ==
    IF item.mode = "audit" /\ item.dec \in {"block", "escalate"} THEN Rank.audit ELSE Rank[item.dec]

ByPriority(items) == First(items, [i \in items |-> <<-i.prio, Rank[i.dec]>>])

Layered(items, layers) == {i \in items : i.layer \in layers}
Enforcing(items) == {i \in items : i.mode # "audit"}
Observing(items) == {i \in items : i.mode = "audit"}

\* Faulty variant: observers compete by priority with the policies that enforce.
ResolvePrecedence_OneList(results) == ByPriority(results)

\* _resolve_precedence: priority decides among those that enforce; an observer only tightens.
ResolvePrecedence(results) ==
    LET winner == ByPriority(Enforcing(results))
        observer == ByPriority(Observing(results))
    IN IF Enforcing(results) = {} THEN ByPriority(results)
       ELSE IF Observing(results) # {} /\ EffectiveRank(observer) < EffectiveRank(winner) THEN observer ELSE winner

\* _resolve_pack_family: a weakening of the pack replaces the whole family.
ResolvePackFamily(results) ==
    LET weaken == Layered(results, {"pack_weaken"})
    IN IF weaken # {} THEN First(weaken, [i \in weaken |-> <<-Rank[i.dec], -i.prio>>])
       ELSE First(results, [i \in results |-> <<Rank[i.dec], -i.prio>>])

\* _resolve_hard_overlay.
ResolveHardOverlay(results) == First(results, [i \in results |-> <<EffectiveRank(i), -i.prio>>])

\* Faulty variant: a weakening of the pack replaces the hard overlays as well.
ResolveOverlay_WeakenAll(results) ==
    IF Layered(results, {"pack_weaken"}) # {} THEN ResolvePackFamily(results) ELSE ResolveHardOverlay(results)

\* _resolve_overlay.
ResolveOverlay(results) ==
    LET packs == Layered(results, PackFamily)
        hard == results \ packs
        pack == ResolvePackFamily(packs)
        floor == ResolveHardOverlay(hard)
    IN IF packs = {} THEN floor
       ELSE IF hard = {} THEN pack
       ELSE IF EffectiveRank(pack) < EffectiveRank(floor) THEN pack ELSE floor

\* _resolve_with_packs: an overlay decides only where it is strictly stricter than the base.
ResolveWithPacks(results) ==
    LET bases == Layered(results, BaseLayers)
        overlays == results \ bases
        base == ResolvePrecedence(bases)
        overlay == ResolveOverlay(overlays)
    IN IF bases = {} THEN overlay
       ELSE IF overlays = {} THEN base
       ELSE IF EffectiveRank(overlay) < EffectiveRank(base) THEN overlay ELSE base

-----------------------------------------------------------------------------
(* From the answers of OPA to the decision of the call. *)

Decision(d, r) == [decision |-> d, rule |-> r]

\* Faulty variant: a document without a decision allows whatever its rules found.
Answer_FiredAllows(payload) ==
    IF payload = "fired without decision" THEN Decision("allow", "")
    ELSE CASE payload \in DOMAIN Rank -> Decision(payload, "policy")
           [] payload = "unnamed block" -> Decision("block", "")
           [] payload = "nothing fired" -> Decision("allow", "")
           [] payload = "no document" -> Decision("block", "evaluator_invalid_payload")

\* _evaluate_opa_server and _evaluate_opa_subprocess: what one answer of OPA is taken for.  A
\* document without a decision allows only if none of its rules fired.
Answer(payload) ==
    CASE payload \in DOMAIN Rank -> Decision(payload, "policy")
      [] payload = "unnamed block" -> Decision("block", "")
      [] payload = "nothing fired" -> Decision("allow", "")
      [] payload = "fired without decision" -> Decision("block", "evaluator_invalid_payload")
      [] payload = "no document" -> Decision("block", "evaluator_invalid_payload")

\* _evaluate_single: two attempts, then the call is refused.
EvaluateSingle(tries) ==
    IF tries[1] # "error" THEN Answer(tries[1])
    ELSE IF tries[2] # "error" THEN Answer(tries[2])
    ELSE Decision("block", "evaluator_error")

\* _no_policy_decision.
NoPolicyDecision(e) ==
    IF ~e.warmed THEN Decision("block", "policy_load_pending")
    ELSE IF e.defaultDeny THEN Decision("block", "no_policy_loaded")
    ELSE Decision("allow", "default_allow")

\* Faulty variant: the freeze of an agent is softened like any policy's block.
PostureExemptRules_None(e) == {"invalid_spiffe_identity", "rate_limit_exceeded"}

\* _posture_exempt_rules.
PostureExemptRules(e) ==
    {"trust_frozen", "invalid_spiffe_identity"} \cup (IF e.exemptRate THEN {"rate_limit_exceeded"} ELSE {})

Softened(d, prefix) == Decision("audit", <<prefix, d.rule>>)
Interrupts(d) == d.decision \in {"block", "escalate"}

\* _apply_policy_mode.
ApplyPolicyMode(d, mode, e) ==
    IF mode = "audit" /\ Interrupts(d) /\ d.rule \notin PostureExemptRules(e)
    THEN Softened(d, "policy_audit_would_block") ELSE d

\* _apply_posture.
ApplyPosture(d, e) ==
    IF e.monitor /\ Interrupts(d) /\ d.rule \notin PostureExemptRules(e)
    THEN Softened(d, "monitor_would_block") ELSE d

\* _maybe_rate_limit: only a call that would be allowed is counted and throttled.
RateLimited(d, e) == d.decision = "allow" /\ ~e.readTool /\ e.overLimit

\* _apply_trust_overrides.
ApplyTrustOverrides(d, e) ==
    IF e.trust = "frozen" THEN Decision("block", "trust_frozen")
    ELSE IF e.trust = "low" /\ d.decision = "allow" THEN Decision("escalate", "escalate_low_trust")
    ELSE d

\* Faulty variant: a block nobody signed stays without a rule.
EnsureBlockAttribution_Not(d) == d

\* _ensure_block_attribution.
EnsureBlockAttribution(d) ==
    IF d.decision = "block" /\ d.rule \in {"", "default_allow"} THEN Decision("block", "unattributed_block") ELSE d

\* apply_pep_denial (sdk/core/decisions.py): last, and it only tightens.
ApplyPepDenial(d, e) ==
    IF e.pep = "block" /\ d.decision # "block" THEN Decision("block", "pep_rule") ELSE d

\* What _handle_cache_hit and the fresh path of evaluate share.
Overridden(d, e) ==
    IF RateLimited(d, e) THEN ApplyPosture(Decision("block", "rate_limit_exceeded"), e)
    ELSE EnsureBlockAttribution(ApplyPosture(ApplyTrustOverrides(d, e), e))

\* Faulty variant: the refusal of the enforcement point is not folded into a cached decision.
FromCache_Unfolded(base, e) == Overridden(base, e)

\* evaluate, with the base decision found in a cache.
FromCache(base, e) == ApplyPepDenial(Overridden(base, e), e)

\* The base decision of a fresh evaluation (the part of evaluate that is cached).  With no
\* candidate, a policy loaded directly into the evaluator is asked once, and its error is raised.
BaseDecision(e) ==
    IF e.candidates = 0 /\ ~e.direct THEN NoPolicyDecision(e)
    ELSE IF e.candidates = 0 THEN (IF e.tries[1] = "error" THEN Decision("raise", "") ELSE Answer(e.tries[1]))
    ELSE ApplyPolicyMode(EvaluateSingle(e.tries), e.mode, e)

\* The three handlers of evaluate: a timeout, an unusable identity and any other error.
FailureDecision(kind) ==
    CASE kind = "timeout" -> Decision("block", "evaluator_timeout")
      [] kind = "identity" -> Decision("block", "invalid_spiffe_identity")
      [] kind = "error" -> Decision("block", "evaluator_fallback")

\* Faulty variant: the handlers of evaluate return their refusal as it is.
SoftenFailure_Not(d, e) == d

\* _soften_failure_for_posture: an unreadable posture keeps the refusal.
SoftenFailure(d, e) == IF e.postureReadable THEN ApplyPosture(d, e) ELSE d

\* evaluate.
Evaluated(e) ==
    LET failure == IF e.fault # "none" THEN e.fault
                   ELSE IF BaseDecision(e).decision = "raise" THEN "error" ELSE "none"
    IN IF failure # "none" THEN SoftenFailure(FailureDecision(failure), e)
       ELSE ApplyPepDenial(Overridden(BaseDecision(e), e), e)

-----------------------------------------------------------------------------
VARIABLES in, out
vars == <<in, out>>

Inputs == [kind : {"resolve"}, store : Stores, covers : BOOLEAN, workload : BOOLEAN]
          \cup [kind : {"evaluate"}, e : Events]

Init == in \in Inputs /\ out = <<>>

Resolve ==
    /\ in.kind = "resolve" /\ out = <<>>
    /\ LET all == Candidates(in.store, in.covers, in.workload)
           union == CandidatesUnion(in.store, in.covers)
       IN out' = [one |-> IF all = {} THEN <<>> ELSE <<ResolveWithPacks(all)>>,
                  union |-> IF union = {} THEN <<>> ELSE <<ResolveWithPacks(union)>>]
    /\ UNCHANGED in

Decide ==
    /\ in.kind = "evaluate" /\ out = <<>>
    /\ out' = [fresh |-> Evaluated(in.e),
               cached |-> IF in.e.fault # "none" \/ BaseDecision(in.e).decision = "raise" THEN Evaluated(in.e)
                          ELSE FromCache(BaseDecision(in.e), in.e)]
    /\ UNCHANGED in

Next == Resolve \/ Decide
Spec == Init /\ [][Next]_vars

-----------------------------------------------------------------------------
(* Properties. *)

Resolved == in.kind = "resolve" /\ out # <<>>
Decided == in.kind = "evaluate" /\ out # <<>>

\* The layers no other layer may loosen.  A baseline is one until enforcing controls that cover it
\* are saved; a layer of the union view is one if that view takes it.
Floors == {"controls", "egress", "mcp", "baseline", "cluster", "guardrail", "remediation"}
Binding(layer) ==
    ~(layer = "baseline" /\ in.covers /\ "controls" \in DOMAIN in.store /\ in.store.controls.mode = "block")
FloorRank(layer) ==
    IF in.store[layer].mode = "audit" /\ layer \notin {"guardrail", "remediation"}
    THEN (IF in.store[layer].dec = "allow" THEN 3 ELSE 2) ELSE Rank[in.store[layer].dec]

\* No class policy, tier, pack or weakening, at any priority and in any mode, makes a call pass
\* that a floor stops: the winner is at least as strict as every floor, in the view of one
\* namespace and in the view over all of them.
FloorsHold ==
    Resolved => \A layer \in Floors \cap DOMAIN in.store : Binding(layer) =>
        /\ EffectiveRank(out.one[1]) <= FloorRank(layer)
        /\ layer # "mcp" => EffectiveRank(out.union[1]) <= FloorRank(layer)

\* The store without its observing base policies.
Disarmed(store) == [l \in {k \in DOMAIN store : k \notin BaseLayers \/ store[k].mode = "block"} |-> store[l]]
\* Saving a policy to observe never disarms one that enforces (the defect the code calls
\* BUG-014): without its observing base policies the namespace would not be stricter.
ObserversOnlyTighten ==
    Resolved /\ (\E l \in BaseLayers \cap DOMAIN in.store :
                    in.store[l].mode = "block" /\ (l = "deployment" => in.workload)) =>
        LET without == Candidates(Disarmed(in.store), in.covers, in.workload)
        IN EffectiveRank(out.one[1]) <= EffectiveRank(ResolveWithPacks(without))

\* The store without packs and what acts on them.
NoPacks(store) == [l \in DOMAIN store \ PackFamily |-> store[l]]
\* A weakening of a sector pack reaches the packs only: it never makes the namespace looser than
\* it is with no pack at all.
WeakeningReachesPacks ==
    Resolved /\ Candidates(NoPacks(in.store), in.covers, in.workload) # {} =>
        EffectiveRank(out.one[1]) <=
            EffectiveRank(ResolveWithPacks(Candidates(NoPacks(in.store), in.covers, in.workload)))

\* A decision does not depend on whether its base came from a cache: both ways out of evaluate
\* apply the same overrides, the refusal of the enforcement point included.
CacheIsTransparent == Decided => out.fresh = out.cached

\* Events to which the engine has no answer of a policy.
Unanswered(e) == \/ e.fault # "none"
                 \/ e.candidates > 0
                      /\ (IF e.tries[1] = "error" THEN e.tries[2] ELSE e.tries[1])
                           \in {"error", "fired without decision", "no document"}
                 \/ e.candidates = 0 /\ ~e.direct /\ ~e.warmed
                 \/ e.candidates = 0 /\ e.direct /\ e.tries[1] \in {"error", "fired without decision", "no document"}
\* Calls that leave evaluate by one of its handlers.
Failed(e) == e.fault # "none" \/ BaseDecision(e).decision = "raise"
\* Monitor mode reaches the answer: a handler cannot apply a posture that it cannot read.
MonitorApplies(e) == e.monitor /\ (Failed(e) => e.postureReadable)

\* A call to which the engine has no answer (an OPA error, a payload without a decision, a timeout, a
\* cold start, an unusable identity) passes only where an operator has asked for calls to pass: in a
\* namespace set to observe, or under a policy saved to audit, whose mode softens the refusal that
\* stands in for its answer, but none of a handler's (_apply_policy_mode).
FailuresRefuse ==
    Decided /\ Unanswered(in.e) /\ out.fresh.decision # "block" =>
        MonitorApplies(in.e) \/ (~Failed(in.e) /\ in.e.candidates > 0 /\ in.e.mode = "audit")

\* A namespace set to observe interrupts a call for three reasons only: a frozen agent, a rate
\* limit the operator kept hard, an identity nothing can be applied to; or the enforcement point
\* had refused it already.
MonitorInterruptsNothing ==
    Decided /\ in.e.monitor /\ in.e.postureReadable /\ Interrupts(out.fresh) =>
        out.fresh.rule \in PostureExemptRules(in.e) \cup {"pep_rule"}

\* A frozen agent is refused wherever the namespace enforces, failures included.  Where it observes,
\* two kinds of calls pass in spite of the freeze: those that leave by a handler, which does not look at
\* it, and those over a rate limit that is softened (_soften_failure_for_posture, _maybe_rate_limit).
FrozenIsRefused ==
    Decided /\ in.e.trust = "frozen" /\ out.fresh.decision # "block" =>
        MonitorApplies(in.e) /\ (Failed(in.e) \/ (RateLimited(BaseDecision(in.e), in.e) /\ ~in.e.exemptRate))

\* A refusal always names what refused it.
BlocksAreSigned == Decided /\ out.fresh.decision = "block" => out.fresh.rule \notin {"", "default_allow"}

\* What the code says of the freeze ("an operator who froze an agent five minutes ago expects it
\* to stay frozen") without the exceptions FrozenIsRefused makes: it does not hold, since a
\* timeout in a monitor namespace is softened before the freeze is looked at (evaluator.py:409-410).
FrozenStaysFrozen == Decided /\ in.e.trust = "frozen" => out.fresh.decision = "block"

\* Nothing that an operator adds loosens what another layer stops: no layer a floor, no observer an
\* enforcing policy, no weakening more than the packs (_resolve_with_packs).
NothingLoosens == FloorsHold /\ ObserversOnlyTighten /\ WeakeningReachesPacks

\* On each of the three ways out of evaluate: what the engine has no answer to, and what a frozen agent
\* calls, passes only in a namespace set to observe (or, for the first, under a policy saved to audit;
\* a freeze gives way there to a handler and to a softened rate limit only); monitor mode interrupts for
\* its three reasons only; a cached decision is the fresh one; and a refusal is signed.
EveryWayOut ==
    FailuresRefuse /\ MonitorInterruptsNothing /\ FrozenIsRefused /\ CacheIsTransparent /\ BlocksAreSigned
=============================================================================
