----------------------------- MODULE CrdAdmission -----------------------------
(***************************************************************************)
(* A NrvqPolicy custom resource on its way into the engine, across three   *)
(* programs that must agree: the webhook controller (webhook/controller.go)*)
(* validates it and derives a key for its creation and for its deletion,   *)
(* the API (api/routers/policies.py) resolves the key it stores under and  *)
(* decides who may delete it, and the evaluator looks policies up by keys  *)
(* of its own.  A resource is [ns, cluster, class, target, kind, name]:    *)
(* the namespace it lives in, whether it carries clusterPriority, and the  *)
(* four members of its target ("" where one is absent).                    *)
(***************************************************************************)
EXTENDS Naturals

CONSTANTS
    Admin,              \* NRVQ_ADMIN_POLICY_NAMESPACE
    Namespaces,         \* Admin and the tenants
    Classes, Workloads, \* the values a target may name
    GoLines, ApiLines,  \* the line caps of the two validators
    RegexCap

Resources ==
    [ns : Namespaces, cluster : BOOLEAN, class : Classes \cup {""}, target : Namespaces \cup {""},
     kind : {"", "deployment", "statefulset"}, name : Workloads \cup {""}]

Scoped(cr) == cr.class # "" \/ (cr.kind # "" /\ cr.name # "")

-----------------------------------------------------------------------------
(* The controller. *)

\* The schema's own rule, enforced by the Kubernetes API server.
WellFormed(cr) == cr.class # "" \/ cr.target # "" \/ (cr.kind # "" /\ cr.name # "")

ValidateClusterPriority(cr) == cr.cluster => cr.ns = Admin

\* validateTarget, given the payload's target, whose namespace is filled in.
ValidateTarget(cr) ==
    LET target == IF cr.target = "" THEN cr.ns ELSE cr.target IN
    /\ cr.kind \in {"", "deployment"}
    /\ target # cr.ns => cr.ns = Admin /\ (cr.cluster \/ Scoped(cr))

Admitted(cr) == WellFormed(cr) /\ ValidateClusterPriority(cr) /\ ValidateTarget(cr)

NamespaceBaseline(cr) ==
    cr.cluster /\ cr.target # "" /\ cr.class = "" /\ cr.kind = "" /\ cr.name = ""

\* Faulty variant: a policy is stored in the namespace of its resource.
CrossNamespace_Never(cr) == FALSE

\* crossNamespaceTargetNamespace: is the policy stored in the namespace it targets?
CrossNamespace(cr) ==
    cr.ns = Admin /\ ~cr.cluster /\ cr.target \notin {"", cr.ns} /\ Scoped(cr)

\* buildPolicySyncPayload: what is posted to the API.
Payload(cr) ==
    [ns |-> IF NamespaceBaseline(cr) \/ CrossNamespace(cr) THEN cr.target ELSE cr.ns,
     class |-> IF NamespaceBaseline(cr) THEN <<"scope", "baseline">>
               ELSE IF cr.class # "" THEN <<"class", cr.class>> ELSE <<>>,
     kind |-> cr.kind, name |-> cr.name,
     target |-> IF cr.target = "" THEN cr.ns ELSE cr.target]

\* Faulty variant: a deletion is not keyed to the target namespace.
StorageKey_OwnNamespace(cr) ==
    IF NamespaceBaseline(cr) THEN <<cr.target, <<"scope", "baseline">> >>
    ELSE <<cr.ns,
           IF cr.class # "" THEN <<"class", cr.class>>
           ELSE IF cr.kind # "" /\ cr.name # "" THEN <<cr.kind, cr.name>>
           ELSE IF cr.target # "" THEN <<"namespace", cr.target>> ELSE <<"name", "self">> >>

\* policyStorageKey: the key of a deletion, derived from the resource as it stands.
StorageKey(cr) ==
    IF NamespaceBaseline(cr) THEN <<cr.target, <<"scope", "baseline">> >>
    ELSE <<IF CrossNamespace(cr) THEN cr.target ELSE cr.ns,
           IF cr.class # "" THEN <<"class", cr.class>>
           ELSE IF cr.kind # "" /\ cr.name # "" THEN <<cr.kind, cr.name>>
           ELSE IF cr.target # "" THEN <<"namespace", cr.target>> ELSE <<"name", "self">> >>

\* deletePathFor: does the deletion ask for confirm_managed?
ConfirmManaged(key) == key[2] = <<"scope", "baseline">>

-----------------------------------------------------------------------------
(* The API. *)

\* resolve_policy_key.
ResolvePolicyKey(p) ==
    IF p.class # <<>> THEN p.class
    ELSE IF p.kind # "" /\ p.name # "" THEN <<p.kind, p.name>>
    ELSE <<"namespace", p.target>>

Stored(cr) == <<Payload(cr).ns, ResolvePolicyKey(Payload(cr))>>

\* delete_policy for a caller with this role: a managed scope needs confirmation and an admin.
DeleteAccepted(role, key, confirmed) ==
    /\ role \in {"admin", "service"}
    /\ key[2] = <<"scope", "baseline">> => confirmed /\ role = "admin"

-----------------------------------------------------------------------------
(* The evaluator: the base policies it looks up for a call. *)

Calls == [ns : Namespaces, class : Classes, workload : Workloads]

LookedUp(call) ==
    {<<call.ns, key>> : key \in {<<"class", call.class>>, <<"scope", "baseline">>,
                                 <<"namespace", call.ns>>, <<"deployment", call.workload>>}}

-----------------------------------------------------------------------------
(* Rego.  A module is described by what the validators look at: its default *)
(* decision, the bodies of its enforcement rules, whether it assigns with = *)
(* or :=, what of this a comment behind code only spells out, how rule_id   *)
(* and reason occur, its lines and its uses of regex in rule bodies and     *)
(* nested inside expressions, whether it reads what it must not, and what   *)
(* only the API refuses: a length over 64 KB, an unknown enforcement mode.  *)

Regos ==
    [default : {"none", "allow", "block"}, assign : {"=", ":="}, bodies : SUBSET {"cond", "false", "1 == 2"},
     comment : {"none", "allow", "block", "rule"}, fields : {"defined", "mentioned", "absent"},
     lines : 1..ApiLines + 1, regex : 0..RegexCap + 1, nested : 0..1, forbidden : BOOLEAN,
     over : {"none", "length", "mode"}]

\* Faulty variant: no default is required.
ValidateRego_NoDefault(m) ==
    /\ m.bodies # {} \/ m.default = "block"
    /\ m.fields = "defined" /\ m.lines <= GoLines /\ m.regex <= RegexCap /\ ~m.forbidden

\* validateRego of the controller, on the parsed module (a default rule is a rule).
ValidateRego(m) ==
    /\ m.bodies # {} \/ m.default = "block"
    /\ m.bodies \subseteq {"false", "1 == 2"} => m.default = "block"
    /\ m.fields = "defined"
    /\ m.default # "none"
    /\ m.lines <= GoLines /\ m.regex <= RegexCap /\ ~m.forbidden

\* What the API finds by text: it does not see :=, and strips comments only where they are lines of
\* their own (_strip_rego_comments).
TextDefaults(m) ==
    {d \in {"allow", "block"} : (m.assign = "=" /\ m.default = d) \/ m.comment = d}
TextBodies(m) == IF m.assign = "=" THEN m.bodies ELSE {}

\* assert_decision_resolver: partial sets without a resolver are refused as nothing is.
DecisionResolver(m) ==
    \/ "block" \in TextDefaults(m)
    \/ (TextBodies(m) # {} \/ m.comment = "rule") /\ TextDefaults(m) # {}

\* Faulty variant: the regex cap is the controller's only.
ValidateRegoSource_NoCap(m) ==
    /\ m.over = "none" /\ m.lines <= ApiLines /\ ~m.forbidden
    /\ DecisionResolver(m)
    /\ TextBodies(m) # {"false"} \/ m.comment = "rule"
    /\ m.fields # "absent"

\* validate_rego_source of the API.
ValidateRegoSource(m) ==
    /\ m.over = "none" /\ m.lines <= ApiLines /\ m.regex + m.nested <= RegexCap /\ ~m.forbidden
    /\ DecisionResolver(m)
    /\ TextBodies(m) # {"false"} \/ m.comment = "rule"
    /\ m.fields # "absent"

-----------------------------------------------------------------------------
(* One submission, and what becomes of it. *)

VARIABLES in, out
vars == <<in, out>>

Inputs == [what : {"resource"}, cr : Resources] \cup [what : {"rego"}, rego : Regos]

Init == in \in Inputs /\ out = <<>>

Submit ==
    /\ out = <<>> /\ in.what = "resource" /\ Admitted(in.cr)
    /\ out' = [stored |-> Stored(in.cr), deletes |-> StorageKey(in.cr),
               removed |-> DeleteAccepted("service", StorageKey(in.cr), ConfirmManaged(StorageKey(in.cr)))]
    /\ UNCHANGED in

SubmitRego ==
    /\ out = <<>> /\ in.what = "rego"
    /\ out' = [controller |-> ValidateRego(in.rego), api |-> ValidateRegoSource(in.rego)]
    /\ UNCHANGED in

Next == Submit \/ SubmitRego
Spec == Init /\ [][Next]_vars

Submitted == out # <<>> /\ in.what = "resource"
Validated == out # <<>> /\ in.what = "rego"

\* The key the controller deletes is the key the API stored under, for every admitted shape of
\* resource, so that deleting a resource cannot leave its policy enforcing.
CreateAndDeleteAgree == Submitted => out.stored = out.deletes

\* The calls a target names.
Names(cr, call) ==
    /\ call.ns = (IF cr.target = "" THEN cr.ns ELSE cr.target)
    /\ IF cr.class # "" THEN call.class = cr.class
       ELSE cr.kind # "" /\ cr.name # "" => call.workload = cr.name
\* clusterPriority on a target in another namespace that is no baseline (see NothingIsInert).
Elevated(cr) == cr.cluster /\ cr.target \notin {"", cr.ns} /\ ~NamespaceBaseline(cr)

\* An admitted policy decides the calls its target names and no others: the key it is stored
\* under is one the evaluator looks up for exactly those calls.
TargetsAreResolved ==
    Submitted /\ ~Elevated(in.cr) => \A call \in Calls : Names(in.cr, call) <=> out.stored \in LookedUp(call)

\* What the comments of validateTarget say of every shape it admits: none is stored where no
\* call looks.  A scoped target in another namespace that carries clusterPriority
\* is: it keeps the namespace of the resource.
NothingIsInert == Submitted => \A call \in Calls : Names(in.cr, call) => out.stored \in LookedUp(call)

\* What deletePathFor says: removing the resource removes the policy, the namespace baseline of
\* a cluster-priority resource included.  The API lets only an admin confirm, and the
\* controller's token has the service role.
DeletingRemoves == Submitted => out.removed

\* The module binds a decision on every input, whichever of its rules fire: an undefined decision
\* would be read as allow.
Binds(m) == \A fired \in SUBSET m.bodies : fired # {} \/ m.default # "none"

\* A module that the controller lets through binds a decision, and so does one that the API lets
\* through, unless a comment behind code spells out the default that it lacks.
AdmittedBindsADecision ==
    Validated => /\ out.controller => Binds(in.rego)
                 /\ out.api /\ in.rego.comment \notin {"allow", "block"} => Binds(in.rego)

\* On modules in the documented form (assignment with =, no constant conditions, no such comments,
\* rule_id and reason defined, regex used in rule bodies, within the shorter cap on lines, not over
\* 64 KB, with a known mode) the two validators agree.
PlainModulesAgree ==
    LET m == in.rego IN
    Validated /\ m.assign = "=" /\ m.bodies \subseteq {"cond"} /\ m.comment = "none" /\ m.fields # "mentioned"
    /\ m.nested = 0 /\ m.lines <= GoLines /\ m.over = "none" => (out.controller <=> out.api)

\* What the comments of validateRego demand of every module: one that the controller admits is
\* not refused by the API.
ValidatorsAgree == Validated => (out.controller => out.api)

\* What the API's refusal says ("rego_source must declare a `default decision'", policies.py:731): a
\* module it admits declares one.  A comment behind code passes for one.
ApiAdmittedBinds == Validated => (out.api => Binds(in.rego))
=============================================================================
