---------------------------- MODULE IntentDrafts ----------------------------
(***************************************************************************)
(* The inbox of policy drafts, a table that nothing enforces. Four         *)
(* requests fill it: the attack graph's intents and its defences of a data *)
(* source (routers/threats.py), remediations of a compliance control       *)
(* (routers/mitre.py) and compiled intents (routers/intents.py). All but   *)
(* the last replace what they drafted before and then cut the namespace    *)
(* down to a ceiling (retention.py). A request that replaces deletes,      *)
(* inserts and commits in one transaction at READ COMMITTED, and cuts in a *)
(* second one.                                                             *)
(***************************************************************************)
EXTENDS Integers, FiniteSets

CONSTANTS
    Requests,
    Scopes,       \* pairs of a namespace and an agent class
    Synthetic,    \* the classes of tests
    Contents,     \* what an intent of the attack graph may say
    Controls,     \* controls of compliance frameworks
    Exposes,      \* verbs the data source exposes, and how much is at risk with each
    Tools,        \* tools: the verbs whose fragments their names contain, and contain as words
    Cap, Ttl, TestTtl, MaxOps, MaxTime, MaxFaults

VARIABLES
    rows,         \* intent_drafts
    req,          \* handlers under way
    observed,     \* tools the asset graph has seen the class reach the source with
    now,
    excess,       \* of each namespace, drafts that were stored and not cut since its last cut
    ops, faults
vars == <<rows, req, observed, now, excess, ops, faults>>

Namespaces == {s[1] : s \in Scopes}
Null == <<>>
\* overlay: it is for the remediations of the class, apart from the class's own policy.
NoDraft == [id |-> Null, ns |-> "none", cls |-> "none", overlay |-> FALSE, control |-> Null, made |-> 0,
            expires |-> 0, verbs |-> {}, tools |-> {}]
Idle == [pc |-> "idle", draft |-> NoDraft, doomed |-> {}]
Of(ns) == {d \in rows : d.ns = ns}

-----------------------------------------------------------------------------
(* What a defence of the source blocks. *)

Mutating == {"write", "delete", "send"}
\* mutating_verbs_of and defense_meta: what is asked for, or everything, and never reads.
\* Faulty variant: reads too.
Targets_Reads(asked) == (IF asked = {} THEN DOMAIN Exposes ELSE asked) \cap DOMAIN Exposes
Targets(asked) == (IF asked = {} THEN Mutating ELSE asked) \cap Mutating \cap DOMAIN Exposes
\* verb_of_tool: fragments anywhere in the name, the verb with most at risk first.
VerbOfTool(t) ==
    LET hits == t.within \cap DOMAIN Exposes
    IN IF hits = {} THEN "unknown" ELSE CHOOSE v \in hits : \A w \in hits : Exposes[w] <= Exposes[v]
\* _tools_reaching_source
ToolsReachingSource(verbs) == {t \in observed : VerbOfTool(t) \in verbs}
\* generate_capability_rego: the tools seen, and names that contain a fragment as a word.
Blocks(d, t) == t \in d.tools \/ t.words \cap d.verbs # {}

-----------------------------------------------------------------------------
(* Drafts. *)

\* draft_expiry
DraftExpiry(cls, at) == at + (IF cls \in Synthetic THEN TestTtl ELSE Ttl)
Expired(d) == d.expires < now

\* The identifier is a function of what is drafted. Faulty variant: it is new every time.
DraftId_New(kind, s, what) == <<kind, s, now>>
DraftId(kind, s, what) == <<kind, s, what>>

\* intent_draft
GraphDraft(s, c) ==
    [NoDraft EXCEPT !.id = DraftId("graph", s, c), !.ns = s[1], !.cls = s[2], !.made = now, !.expires = DraftExpiry(s[2], now)]
\* capability_defend
CapabilityDraft(s, verbs) ==
    [NoDraft EXCEPT !.id = DraftId("capability", s, verbs), !.ns = s[1], !.cls = s[2], !.control = <<"capability", verbs>>,
                    !.made = now, !.expires = DraftExpiry(s[2], now), !.verbs = verbs, !.tools = ToolsReachingSource(verbs)]
\* _generate_remediation_draft
RemediationDraft(s, c) ==
    [NoDraft EXCEPT !.id = DraftId("remediation", s, c), !.ns = s[1], !.cls = s[2], !.overlay = TRUE, !.control = <<"framework", c>>,
                    !.made = now, !.expires = DraftExpiry(s[2], now)]
\* create_draft
CompiledDraft(s) ==
    [NoDraft EXCEPT !.id = <<"intent", ops>>, !.ns = s[1], !.cls = s[2], !.made = now, !.expires = now + Ttl]

\* What a request deletes before it inserts: drafts of its class with the same control, none being
\* one too; for a remediation, in the overlay and in the class itself.
\* Faulty variant: whatever the control.
Replaces_AnyControl(d, e) == e.ns = d.ns /\ e.cls = d.cls /\ (e.overlay => d.overlay)
Replaces(d, e) == e.ns = d.ns /\ e.cls = d.cls /\ e.control = d.control /\ (e.overlay => d.overlay)

Init ==
    \* An earlier release may have left remediations outside of the overlay.
    /\ now = 1
    /\ rows \in SUBSET {[RemediationDraft(s, c) EXCEPT !.overlay = FALSE, !.made = 0] : s \in {x \in Scopes : x[2] \notin Synthetic}, c \in Controls}
    /\ req = [r \in Requests |-> Idle] /\ observed = {}
    /\ excess = [n \in Namespaces |-> Cardinality(Of(n))] /\ ops = 0 /\ faults = 0

Begin(r, pc, d) ==
    /\ ops < MaxOps /\ now < MaxTime /\ req[r].pc = "idle"
    /\ req' = [req EXCEPT ![r] = [pc |-> pc, draft |-> d, doomed |-> {}]]
    /\ ops' = ops + 1 /\ now' = now + 1
    /\ UNCHANGED <<rows, observed, excess, faults>>
IntentDraft(r, s, c) == Begin(r, "delete", GraphDraft(s, c))
CapabilityDefend(r, s, asked) == Targets(asked) # {} /\ Begin(r, "delete", CapabilityDraft(s, Targets(asked)))
GenerateRemediationDraft(r, s, c) == s[2] \notin Synthetic /\ Begin(r, "delete", RemediationDraft(s, c))
CreateDraft(r, s) == Begin(r, "insert", CompiledDraft(s))

\* The delete sees what is committed when it runs.
Clear(r) ==
    /\ req[r].pc = "delete"
    /\ req' = [req EXCEPT ![r].pc = "insert", ![r].doomed = {e \in rows : Replaces(req[r].draft, e)}]
    /\ UNCHANGED <<rows, observed, now, excess, ops, faults>>
\* The insert and the commit: of two drafts with one identifier the second is refused and rolled back.
Insert(r) ==
    LET d == req[r].draft  kept == rows \ req[r].doomed  clash == \E e \in kept : e.id = d.id
        cuts == d.id[1] # "intent"
    IN /\ req[r].pc = "insert"
       /\ rows' = IF clash THEN rows ELSE kept \cup {d}
       /\ req' = [req EXCEPT ![r] = IF clash \/ ~cuts THEN Idle ELSE [@ EXCEPT !.pc = "cap", !.doomed = {}]]
       /\ excess' = IF cuts THEN excess ELSE [excess EXCEPT ![d.ns] = @ + 1]
       /\ UNCHANGED <<observed, now, ops, faults>>
Abort(r) ==
    /\ req[r].pc \in {"delete", "insert"} /\ faults < MaxFaults
    /\ req' = [req EXCEPT ![r] = Idle] /\ faults' = faults + 1
    /\ UNCHANGED <<rows, observed, now, excess, ops>>

\* enforce_draft_cap: all but the newest, no two of which were made at one time. Faulty variant: all but the oldest.
Newer(d) == {e \in Of(d.ns) : e.made > d.made}
BeyondTheCap_Newest(ns) == {d \in Of(ns) : Cardinality({e \in Of(ns) : e.made < d.made}) >= Cap}
BeyondTheCap(ns) == {d \in Of(ns) : Cardinality(Newer(d)) >= Cap}
EnforceDraftCap(r) ==
    LET ns == req[r].draft.ns IN
    /\ req[r].pc = "cap"
    /\ rows' = rows \ BeyondTheCap(ns)
    /\ excess' = [excess EXCEPT ![ns] = 0]
    /\ req' = [req EXCEPT ![r] = Idle]
    /\ UNCHANGED <<observed, now, ops, faults>>
CapFails(r) ==
    /\ req[r].pc = "cap" /\ faults < MaxFaults
    /\ excess' = [excess EXCEPT ![req[r].draft.ns] = @ + 1]
    /\ req' = [req EXCEPT ![r] = Idle] /\ faults' = faults + 1
    /\ UNCHANGED <<rows, observed, now, ops>>

\* gc_expired_drafts: on listing those of the caller's namespaces, in the background all.
\* Faulty variant: of whatever age.
Collected_All(nss) == {d \in rows : d.ns \in nss}
Collected(nss) == {d \in rows : d.ns \in nss /\ Expired(d)}
GcExpiredDrafts(nss) ==
    /\ Collected(nss) # {}
    /\ rows' = rows \ Collected(nss)
    /\ UNCHANGED <<req, observed, now, excess, ops, faults>>
\* dismiss_intent_draft
DismissIntentDraft(d) ==
    /\ ops < MaxOps /\ ops' = ops + 1
    /\ rows' = {e \in rows : e.id # d.id}
    /\ UNCHANGED <<req, observed, now, excess, faults>>
\* A tool is seen to reach the source.
Observe(t) ==
    /\ ops < MaxOps /\ ops' = ops + 1 /\ t \notin observed
    /\ observed' = observed \cup {t}
    /\ UNCHANGED <<rows, req, now, excess, faults>>
Tick ==
    /\ now < MaxTime /\ now' = now + 1
    /\ UNCHANGED <<rows, req, observed, excess, ops, faults>>

Next ==
    \/ \E r \in Requests, s \in Scopes :
          \/ \E c \in Contents : IntentDraft(r, s, c)
          \/ \E asked \in SUBSET DOMAIN Exposes : CapabilityDefend(r, s, asked)
          \/ \E c \in Controls : GenerateRemediationDraft(r, s, c)
          \/ CreateDraft(r, s)
    \/ \E r \in Requests : Clear(r) \/ Insert(r) \/ Abort(r) \/ EnforceDraftCap(r) \/ CapFails(r)
    \/ \E nss \in {{n} : n \in Namespaces} \cup {Namespaces} : GcExpiredDrafts(nss)
    \/ \E d \in rows : DismissIntentDraft(d)
    \/ \E t \in Tools : Observe(t)
    \/ Tick
Spec == Init /\ [][Next]_vars

-----------------------------------------------------------------------------
(* Properties *)

\* Every variable has its type.
TypeOK ==
    /\ \A d \in rows : d.ns \in Namespaces /\ d.made \in Nat /\ d.expires \in Nat
    /\ \A r \in Requests : req[r].pc \in {"idle", "delete", "insert", "cap"}
    /\ excess \in [Namespaces -> Nat] /\ observed \subseteq Tools

\* A namespace holds no more than the ceiling, but for drafts whose request is yet to cut, whose cut
\* failed, or that nobody cuts after; and the next cut removes these too.
CapHolds ==
    \A n \in Namespaces :
        Cardinality(Of(n)) <= Cap + excess[n] + Cardinality({r \in Requests : req[r].pc = "cap" /\ req[r].draft.ns = n})

\* However requests overlap, one control has one draft in a class and its overlay: they share an
\* identifier.
OnePerControl ==
    \A d, e \in rows : d.control # Null /\ d.ns = e.ns /\ d.control = e.control
                       /\ d.cls = e.cls => d = e

\* A defence blocks no tool that has nothing of what it defends against in its name.
DefendsWhatItNames == \A d \in rows, t \in Tools : Blocks(d, t) => t.within \cap d.verbs \cap Mutating # {}

\* A draft disappears only if it expired, was dismissed, is replaced by a draft for its own control,
\* has no control and its class gets an intent of the attack graph, or has as many newer ones in its
\* namespace as the ceiling admits.  The drafts without a control are more than the code's comment
\* speaks of: compiled intents of another router are among them (OnlyAttackGraphDrafts).
RemovedForAReason ==
    \A d \in rows \ rows' :
        \/ Expired(d)
        \/ ops' = ops + 1 /\ rows \ rows' = {d}
        \/ \E e \in rows' \ rows : /\ e.ns = d.ns /\ e.cls = d.cls /\ e.control = d.control
                                   /\ d.control = Null => e.id[1] = "graph"
        \/ Cardinality({e \in rows' : e.ns = d.ns /\ e.made > d.made}) >= Cap

(* Statements of the code that do not hold. *)

\* "keeps at most ONE pending Attack-Graph intent draft" (threats.py:993): two requests at once
\* do not see each other's.
OnePending == \A d, e \in rows : d.id[1] = "graph" /\ e.id[1] = "graph" /\ d.ns = e.ns /\ d.cls = e.cls => d = e

\* "the store can never grow unbounded even if a TTL is misconfigured" (retention.py:57): compiled
\* intents are never cut.
Ceiling ==
    faults = 0 => \A n \in Namespaces :
        Cardinality(Of(n)) <= Cap + Cardinality({r \in Requests : req[r].pc = "cap" /\ req[r].draft.ns = n})

\* "Scope the delete to Attack-Graph drafts (source_control_id IS NULL)" (threats.py:995): compiled
\* intents have none either.
OnlyAttackGraphDrafts ==
    [][\A d \in rows \ rows', e \in rows' \ rows : e.id[1] = "graph" => d.id[1] = "graph"]_vars

\* "blocks any tool that performs those verbs" (threat_intent.py:306): not one seen later whose name
\* holds the fragment within a word.
GuardsForward == \A d \in rows, t \in observed : VerbOfTool(t) \in d.verbs => Blocks(d, t)

\* "cannot over-block legitimate reads" (threat_intent.py:278): a name may hold both.
ReadsPass == \A d \in rows, t \in Tools : "read" \in t.words => ~Blocks(d, t)
==============================================================================
