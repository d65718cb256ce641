------------------------------ MODULE ToolVerbs ------------------------------
(***************************************************************************)
(* What a tool does, as policies see it: read, write, send, delete or      *)
(* unknown. The name is classified token by token and the arguments speak  *)
(* where the name does not (capability/source_registry.py). An admin may   *)
(* promote a tool to a verb (routers/threats.py): a row of Postgres, and a *)
(* map of it in the evaluator of every API replica that only the replica   *)
(* which handles the request warms again (evaluator.py). An intent policy  *)
(* is generated from the rows of that moment (threat_intent.py).           *)
(***************************************************************************)
EXTENDS Integers, Sequences, FiniteSets

CONSTANTS
    Replicas,     \* API processes
    Admins,       \* requests to promote or demote
    TokensOf,     \* the tokens of each tool's name, by their kinds (see below)
    Listed,       \* the tools named in EGRESS_TOOLS
    Allowlist,    \* the tools an intent admits
    Keys,         \* pairs of a namespace and a tool that may be promoted
    Payloads,     \* arguments of calls, as sequences of kinds of fields
    MaxEdits,     \* promotions, demotions and observations
    MaxEvents     \* failed warms, restarts and generated policies

VARIABLES
    table,        \* tool_verb_overrides: the promoted verb of each key, or "none"
    map,          \* PolicyEvaluator._verb_overrides of each replica
    task,         \* handlers of requests, and the start-up of each replica
    policy,       \* the verbs the applied intent policy was generated with, or NoPolicy
    seen,         \* verbs that recorded arguments have shown, for each tool
    edits, events,
    tables,       \* every table there has been
    excused       \* replicas that have missed a change (see StaleForAReason)
vars == <<table, map, task, policy, seen, edits, events, tables, excused>>
bounds == <<edits, events>>

(* Kinds of tokens: destroy (delete, drop) and remove (remove, wipe) destroy, and only the first  *)
(* is among threat_intent's WRITE_VERBS; exec (shell, restart); run (run, invoke) and code         *)
(* (script, lambda), what it may run; send (post, push), an act, and mail (email, export), a noun; *)
(* write; read; browse, a retrieval the lexicon does not know; report, only a prefix of reads;     *)
(* actuator (valve) and control (open); word, anything else.                                       *)
(* Kinds of fields: to, a destination; drop, insert, select, a statement; hidden, a statement that *)
(* starts with select and destroys; http, a URL under another key; foreign, the name of another    *)
(* namespace; text.                                                                                *)
Names == DOMAIN TokensOf
Tokens(n) == {TokensOf[n][k] : k \in DOMAIN TokensOf[n]}
Lead(n) == TokensOf[n][1]
Verbs == {"read", "write", "send", "delete"}
Empty == [k \in Keys |-> "none"]
NoPolicy == <<>>
NoPayload == <<"no payload">>
Idle == [pc |-> "idle", at |-> "none", rows |-> Empty]

-----------------------------------------------------------------------------
(* The classifier. *)

\* _VERB_LEXICON
LexiconVerb == [destroy |-> "delete", remove |-> "delete", exec |-> "delete", run |-> "delete",
                send |-> "send", mail |-> "send", write |-> "write", read |-> "read"]
VerbOrder == [unknown |-> -1, read |-> 0, write |-> 1, send |-> 2, delete |-> 3]
EnforcementOrder == [read |-> 0, write |-> 1, send |-> 3, delete |-> 4]
\* What a verb is worth at the least: default_risk_of_verb, 0 low .. 3 critical.
DefaultRisk == [read |-> 0, write |-> 2, send |-> 2, delete |-> 3]

\* _enforcement_rank: a token that says that something is run does not say what is done.
\* Faulty variant: it ranks as the verb it is registered under.
EnforcementRank_Flat(t, code) == EnforcementOrder[LexiconVerb[t]]
EnforcementRank(t, code) ==
    IF t = "run" /\ ~code THEN -1 ELSE IF t \in {"run", "exec"} THEN 2 ELSE EnforcementOrder[LexiconVerb[t]]

\* _classify_params: the first field that says something.
FieldVerb == [to |-> "send", drop |-> "delete", insert |-> "write", select |-> "read", hidden |-> "read", http |-> "send"]
ParamsVerb(p) ==
    LET hits == {k \in DOMAIN p : p[k] \in DOMAIN FieldVerb}
    IN IF hits = {} THEN "unknown" ELSE FieldVerb[p[CHOOSE k \in hits : \A j \in hits : k <= j]]
\* _payload_write_signal: the worst keyword anywhere.
PayloadWriteSignal(p) ==
    IF \E k \in DOMAIN p : p[k] \in {"drop", "hidden"} THEN "delete"
    ELSE IF \E k \in DOMAIN p : p[k] = "insert" THEN "write" ELSE "unknown"

\* The verb among the tokens that the lexicon knows.
NameVerb == [n \in Names |->
    LET known == Tokens(n) \cap DOMAIN LexiconVerb
        rank(t) == EnforcementRank(t, "code" \in Tokens(n))
        best == CHOOSE t \in known : \A u \in known :
                    rank(u) < rank(t) \/ (rank(u) = rank(t) /\ VerbOrder[LexiconVerb[u]] <= VerbOrder[LexiconVerb[t]])
    IN IF {"actuator", "control"} \subseteq Tokens(n) THEN "delete"
       ELSE IF known = {} THEN "unknown" ELSE LexiconVerb[best]]
\* classify_tool: only a name that runs something is judged by its arguments too.
\* Faulty variant: what the arguments say of it replaces what the name says.
ClassifyTool_Payload == [n \in Names, p \in Payloads |->
    IF NameVerb[n] = "unknown" \/ ("run" \in Tokens(n) /\ ParamsVerb(p) # "unknown") THEN ParamsVerb(p) ELSE NameVerb[n]]
ClassifyTool == [n \in Names, p \in Payloads |->
    LET name == NameVerb[n]  stated == PayloadWriteSignal(p) IN
    IF name = "unknown" THEN ParamsVerb(p)
    ELSE IF p # NoPayload /\ name \in {"read", "write"} /\ "run" \in Tokens(n)
            /\ VerbOrder[stated] > VerbOrder[name] THEN stated ELSE name]

\* _is_rate_limit_exempt: by its name, and only if the classifier agrees.
\* Faulty variant: the name is enough.
RateLimitExempt_ByName(n) == Lead(n) \in {"read", "report"} \/ TokensOf[n][Len(TokensOf[n])] = "read"
RateLimitExempt(n) ==
    /\ Lead(n) \in {"read", "report"} \/ TokensOf[n][Len(TokensOf[n])] = "read"
    /\ NameVerb[n] = "read"

\* _derived_input: a promotion counts only for a name that says nothing, and the worse reading wins.
PromotionRank == [unknown |-> -1, read |-> 0, write |-> 1, send |-> 3, delete |-> 4]
\* Faulty variant: the promotion decides.
Derived_Promoted(m, k, p) == IF k \in Keys /\ m[k] # "none" THEN m[k] ELSE ClassifyTool[k[2], p]
Derived(m, k, p) ==
    LET verb == ClassifyTool[k[2], p] IN
    IF k \in Keys /\ m[k] # "none" /\ NameVerb[k[2]] = "unknown" /\ PromotionRank[m[k]] > PromotionRank[verb]
    THEN m[k] ELSE verb

-----------------------------------------------------------------------------
(* The promoted verbs: the table and the maps. *)

Init ==
    /\ table = Empty /\ map = [r \in Replicas |-> Empty] /\ tables = {Empty}
    /\ task = [t \in Admins \cup Replicas |-> Idle]
    /\ policy = NoPolicy /\ seen = [n \in Names |-> {}]
    /\ edits = 0 /\ events = 0 /\ excused = [r \in Replicas |-> FALSE]

\* A handler runs on a replica that has started; its first statement commits.
Commits(a, r, t) ==
    /\ edits < MaxEdits /\ task[a].pc = "idle" /\ task[r].pc = "idle"
    /\ edits' = edits + 1
    /\ table' = t /\ tables' = tables \cup {t}
    /\ excused' = [q \in Replicas |-> excused[q] \/ q # r]
    /\ UNCHANGED <<map, policy, seen, events>>
Warms(a, r) == task' = [task EXCEPT ![a] = [pc |-> "select", at |-> r, rows |-> Empty]]

\* promote_tool_verb
PromoteToolVerb(a, r, k, v) == Commits(a, r, [table EXCEPT ![k] = v]) /\ Warms(a, r)
\* demote_tool_verb
\* Faulty variant: the row is all it removes.
DemoteToolVerb_NoWarm(a, r, k) == Commits(a, r, [table EXCEPT ![k] = "none"]) /\ UNCHANGED task
DemoteToolVerb(a, r, k) == Commits(a, r, [table EXCEPT ![k] = "none"]) /\ Warms(a, r)

\* warm_verb_overrides: the rows are read, and arrive later.
Select(t) ==
    /\ task[t].pc = "select"
    /\ task' = [task EXCEPT ![t] = [@ EXCEPT !.pc = "apply", !.rows = table]]
    /\ UNCHANGED <<table, map, policy, seen, bounds, tables, excused>>
WarmFails(t) ==
    /\ task[t].pc = "select" /\ events < MaxEvents
    /\ events' = events + 1
    /\ task' = [task EXCEPT ![t] = Idle]
    /\ excused' = [excused EXCEPT ![task[t].at] = TRUE]
    /\ UNCHANGED <<table, map, policy, seen, edits, tables>>
\* refresh_verb_overrides: the map is swapped whole.
\* Faulty variant: it is updated in place, and what is gone from the rows stays.
Refreshed_InPlace(old, rows) == [k \in Keys |-> IF rows[k] # "none" THEN rows[k] ELSE old[k]]
Refreshed(old, rows) == rows
RefreshVerbOverrides(t) ==
    /\ task[t].pc = "apply"
    /\ map' = [map EXCEPT ![task[t].at] = Refreshed(@, task[t].rows)]
    /\ excused' = [excused EXCEPT ![task[t].at] = task[t].rows # table]
    /\ task' = [task EXCEPT ![t] = Idle]
    /\ UNCHANGED <<table, policy, seen, bounds, tables>>

\* A replica is replaced: its requests end with it, and it warms an empty map before it serves.
Restart(r) ==
    /\ events < MaxEvents
    /\ events' = events + 1
    /\ map' = [map EXCEPT ![r] = Empty]
    /\ task' = [t \in Admins \cup Replicas |->
                  IF t = r THEN [pc |-> "select", at |-> r, rows |-> Empty] ELSE IF task[t].at = r THEN Idle ELSE task[t]]
    /\ UNCHANGED <<table, policy, seen, edits, tables, excused>>

-----------------------------------------------------------------------------
(* Observation: the evidence a promotion is suggested from. *)

\* evaluate: the verb of the arguments is recorded, if the name says nothing (see Next).
Observe(n, p) ==
    /\ edits < MaxEdits /\ ClassifyTool[n, p] # "unknown"
    /\ ClassifyTool[n, p] \notin seen[n]
    /\ seen' = [seen EXCEPT ![n] = @ \cup {ClassifyTool[n, p]}]
    /\ edits' = edits + 1
    /\ UNCHANGED <<table, map, task, policy, events, tables, excused>>
\* _top_verb
\* Faulty variant: the mildest of the verbs.
TopVerb_Mildest(vs) == CHOOSE v \in vs : \A w \in vs : VerbOrder[v] <= VerbOrder[w]
TopVerb(vs) == CHOOSE v \in vs : \A w \in vs : VerbOrder[w] <= VerbOrder[v]
\* tool_verbs: what is suggested for the tools that nothing else classifies.
Candidates == {n \in Names : seen[n] # {} /\ NameVerb[n] = "unknown" /\ \A k \in Keys : k[2] = n => table[k] = "none"}

-----------------------------------------------------------------------------
(* The intent policy. *)

\* _verb_overrides: of the rows of several namespaces the first of the worst risk, which writing and
\* sending share.
PromotedIn(n, nss) == {table[k] : k \in {j \in Keys : j[2] = n /\ j[1] \in nss /\ table[j] # "none"}}
Ties(nss) == {n \in Names : {"write", "send"} \subseteq PromotedIn(n, nss)}
VerbOverrides(nss, tie) ==
    [n \in Names |->
        LET vs == PromotedIn(n, nss)
            worst == {v \in vs : \A w \in vs : DefaultRisk[w] <= DefaultRisk[v]}
        IN IF vs = {} THEN "none" ELSE IF {"write", "send"} \subseteq worst THEN tie[n] ELSE CHOOSE v \in worst : TRUE]
\* read_promotion_would_demote: a name that is an act of sending, or starts with a mutation.
ReadPromotionWouldDemote(n) == "send" \in Tokens(n) \/ Lead(n) \in {"destroy", "write"}
\* generate_intent_rego
Learned(f) ==
    [n \in Names |-> IF n \notin Allowlist \/ (f[n] = "read" /\ ReadPromotionWouldDemote(n)) THEN "none" ELSE f[n]]
GenerateIntentRego(nss) ==
    /\ events < MaxEvents
    /\ events' = events + 1
    /\ \E tie \in [Ties(nss) -> {"write", "send"}] : policy' = Learned(VerbOverrides(nss, tie))
    /\ UNCHANGED <<table, map, task, seen, edits, tables, excused>>

IsRead(n) == (Lead(n) = "read" /\ policy[n] \notin {"write", "send", "delete"}) \/ policy[n] = "read"
RetrievalLead(n, p) == Lead(n) \in {"read", "browse"} /\ \A k \in DOMAIN p : p[k] # "to"
\* Faulty variant: the derived verb is all there is.
IsEgress_Derived(m, k, p) == Derived(m, k, p) = "send" /\ ~RetrievalLead(k[2], p)
IsEgress(m, k, p) ==
    \/ k[2] \in Listed \/ "send" \in Tokens(k[2]) \/ policy[k[2]] = "send"
    \/ Derived(m, k, p) = "send" /\ ~RetrievalLead(k[2], p)
\* allow_intent, for the toggles that are on.
AllowIntent(on, m, k, p) ==
    /\ k[2] \in Allowlist
    /\ "readonly" \in on => IsRead(k[2])
    /\ "egress" \in on => ~IsEgress(m, k, p)
    /\ "scope" \in on => \A j \in DOMAIN p : p[j] # "foreign"

Next ==
    \/ \E a \in Admins, r \in Replicas, k \in Keys :
          (\E v \in Verbs : PromoteToolVerb(a, r, k, v)) \/ DemoteToolVerb(a, r, k)
    \/ \E t \in Admins \cup Replicas : Select(t) \/ WarmFails(t) \/ RefreshVerbOverrides(t)
    \/ \E r \in Replicas : Restart(r)
    \/ \E n \in {m \in Names : NameVerb[m] = "unknown"}, p \in Payloads : Observe(n, p)
    \/ \E nss \in SUBSET {k[1] : k \in Keys} : GenerateIntentRego(nss)
Spec == Init /\ [][Next]_vars

-----------------------------------------------------------------------------
(* Properties *)

\* Every variable has its type.
TypeOK ==
    /\ table \in [Keys -> Verbs \cup {"none"}] /\ map \in [Replicas -> [Keys -> Verbs \cup {"none"}]]
    /\ task \in [Admins \cup Replicas -> [pc : {"idle", "select", "apply"}, at : Replicas \cup {"none"},
                                          rows : [Keys -> Verbs \cup {"none"}]]]
    /\ excused \in [Replicas -> BOOLEAN]

\* The map of a replica is a table there has been, whole: stale at worst, never a mixture.
MapsAreTables == \A r \in Replicas : map[r] \in tables

\* The map of a replica differs from the table only while one of its requests is about to warm it,
\* or because the replica missed a change: one made elsewhere, one whose warm failed, or one that a
\* slower request overtook.
Pending(r) == \E t \in Admins \cup Replicas : task[t].at = r /\ task[t].pc \in {"select", "apply"}
StaleForAReason == \A r \in Replicas : map[r] = table \/ Pending(r) \/ excused[r]

\* Whatever is promoted, a call is never published as less than it is by itself, and a name that the
\* classifier knows keeps its verb; what is suggested is not less than what was observed.
PromotionsOnlyRaise ==
    /\ \A m \in {map[r] : r \in Replicas}, k \in Keys : m[k] # "none" => \A p \in Payloads :
          LET verb == ClassifyTool[k[2], p]  published == Derived(m, k, p) IN
          /\ PromotionRank[published] >= PromotionRank[verb]
          /\ NameVerb[k[2]] # "unknown" => published = verb
    /\ \A n \in Candidates : \A v \in seen[n] : PromotionRank[v] <= PromotionRank[TopVerb(seen[n])]

\* Arguments never make a tool less than its name says; a name that runs something is a read only if
\* no argument says otherwise, and destroys only if nothing in it says less, or something else in it
\* destroys; and no name is spared the rate limiter that says it does more than read.
NamesAreNotTalkedDown ==
    edits = 0 => \A n \in Names :
        /\ \A p \in Payloads : /\ NameVerb[n] # "unknown" => VerbOrder[ClassifyTool[n, p]] >= VerbOrder[NameVerb[n]]
                               /\ "run" \in Tokens(n) /\ ClassifyTool[n, p] = "read" => PayloadWriteSignal(p) = "unknown"
        /\ NameVerb[n] = "delete" /\ Tokens(n) \cap {"read", "write", "send", "mail"} # {} =>
              Tokens(n) \cap {"destroy", "remove", "exec", "code", "actuator"} # {}
        /\ RateLimitExempt(n) => Tokens(n) \cap {"destroy", "remove", "exec", "send", "mail", "write"} = {}

\* With the egress toggle on, a tool whose name is an act of sending is refused, and with read-only on
\* one that was promoted to a mutation, whatever has been promoted since and wherever the call lands.
TogglesHold ==
    policy # NoPolicy => \A m \in {map[r] : r \in Replicas}, k \in Keys :
        /\ "send" \in Tokens(k[2]) \/ policy[k[2]] = "send" => \A p \in Payloads : ~AllowIntent({"egress"}, m, k, p)
        /\ policy[k[2]] \in {"write", "send", "delete"} => \A p \in Payloads : ~AllowIntent({"readonly"}, m, k, p)

(* Statements of the code that do not hold. *)

\* "reports the promoted verb on the very next call" (threats.py:1594): on the replica that handled
\* the request.
NextCall == (\A t \in Admins \cup Replicas : task[t].pc = "idle") /\ events = 0 => \A r \in Replicas : map[r] = table

\* "Pick the WORST (most destructive) match" (source_registry.py:247): of the arguments, the first.
WorstOfTheArguments ==
    \A n \in Names, p \in Payloads : NameVerb[n] = "unknown" =>
        \A k \in DOMAIN p : p[k] \in DOMAIN FieldVerb => VerbOrder[FieldVerb[p[k]]] <= VerbOrder[ClassifyTool[n, p]]

\* "A promotion may RAISE a verb; it may never LOWER one" (threat_intent.py:377): a mutation that the
\* name does not start with, or that WRITE_VERBS does not list, passes Read-only once promoted.
NeverLowered ==
    policy # NoPolicy => \A k \in Keys :
        AllowIntent({"readonly"}, Empty, k, <<>>) => NameVerb[k[2]] \in {"read", "unknown"}
==============================================================================
