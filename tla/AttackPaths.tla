----------------------------- MODULE AttackPaths -----------------------------
(***************************************************************************)
(* The attack graph of the console (src/norviq/api/routers/threats.py and  *)
(* graphs.py): from the stored asset graph, the decisions in the audit log *)
(* and the applied policies it derives the chains from an agent or an MCP  *)
(* server to what they reach, keeps one for each origin, target and        *)
(* length, ranks them and shows as many as fit. The same list is what a    *)
(* drafted intent is scored against and what an allowlist is suggested     *)
(* from. Nothing is stored; out holds the answer for the input in.         *)
(***************************************************************************)
EXTENDS Integers, Sequences, FiniteSets, SequencesExt, FiniteSetsExt, TLC

CONSTANTS
    Estates,           \* what is stored (see below)
    AskedOf(_),        \* what is asked of it
    RiskOf,            \* rank of the risk of each tool's name, 0 low .. 3 critical
    VerbOf,            \* verb of each tool's name
    NsRank,            \* place of each namespace in their order
    Probes,            \* agent classes of seeded test traffic
    MaxChains,         \* _MAX_CHAINS_PER_CHOKEPOINT
    MaxChokepoints,    \* _MAX_CHOKEPOINTS_PER_AGENT
    MaxPaths,          \* _MAX_PATHS
    MaxNonAgent,       \* _MAX_NON_AGENT_PATHS
    MaxDepth           \* _MAX_DEPTH

VARIABLES in, out
vars == <<in, out>>

\* An input has two parts. g, what is stored:
\*   nodes     the nodes in order: [id, kind, ns, name, classes, trust, sensitive], classes a
\*             sequence and trust in tenths; ns is the namespace of the snapshot, which the
\*             recorder writes on every node it gives one (evaluator.py:1861-1868);
\*   edges     the edges in order: <<source, target>>;
\*   counts    the decisions of the window: [<<agent, tool name>> -> [allow, block, would]];
\*   registry  the status of each MCP server that has a row;
\*   policies  the applied policies: [ns, cls, kind, allow, scoped, readonly];
\*   promoted  the promoted verbs, by the name of the tool.
\* r, the request:
\*   user      the caller: [role, claim], claim "" for none;
\*   wanted    the namespaces asked for, or {"all"};
\*   cls       the agent class asked for, or "all";
\*   probes    whether seeded agents are to be shown;
\*   denies    the names of the tools that the intent being drafted denies to the class.
NoCount == [allow |-> 0, block |-> 0, would |-> 0]
NoClass == "n/a"

-----------------------------------------------------------------------------
(* What is read. *)

\* _resolve_namespaces: None is every namespace; a caller with a claim gets its own.
Unrestricted(u) == u.role = "admin" \/ u.claim = "*" \/ (u.role = "service" /\ u.claim = "")
MayRead(i) == Unrestricted(i.r.user) \/ (i.r.user.claim # "" /\ (i.r.wanted = {"all"} \/ i.r.wanted \subseteq {i.r.user.claim}))
ScopeOf(i, ns) ==
    IF Unrestricted(i.r.user) THEN i.r.wanted = {"all"} \/ ns \in i.r.wanted ELSE ns = i.r.user.claim

\* _snapshot_to_assets: an agent seen under several classes becomes one node for
\* each of them and one for their identity. Its calls stay with the identity.
Asset(n, class, identity) ==
    [id |-> <<n.id, IF identity \/ Len(n.classes) <= 1 THEN "" ELSE class>>, kind |-> n.kind, ns |-> n.ns,
     name |-> n.name, cls |-> class, identity |-> identity, trust |-> n.trust, sensitive |-> n.sensitive]
AssetsOf(n) ==
    IF n.kind # "agent" \/ n.classes = <<>> THEN <<Asset(n, "", FALSE)>>
    ELSE IF Len(n.classes) = 1 THEN <<Asset(n, n.classes[1], FALSE)>>
    ELSE <<Asset(n, "", TRUE)>> \o [k \in DOMAIN n.classes |-> Asset(n, n.classes[k], FALSE)]

\* _decision_counts: the audit log names the agent and the tool of a call, so
\* that only an edge from an agent to a tool has a history.
HistoryOf(i, source, target) ==
    LET key == <<source, target.name>> IN
    IF target.kind = "tool" /\ key \in DOMAIN i.g.counts THEN i.g.counts[key] ELSE NoCount

\* _latest_snapshots, _assemble: the union of the snapshots in scope.
Read(i) == SelectSeq(i.g.nodes, LAMBDA n : ScopeOf(i, n.ns))
NodeOf(i, id) == (CHOOSE k \in DOMAIN i.g.nodes : i.g.nodes[k].id = id)
Assemble(i) ==
    LET read == {Read(i)[k].id : k \in DOMAIN Read(i)}
        es == SelectSeq(i.g.edges, LAMBDA e : e[1] \in read)
    IN [nodes |-> FlattenSeq([k \in DOMAIN Read(i) |-> AssetsOf(Read(i)[k])]),
        edges |-> [k \in DOMAIN es |->
            [from |-> <<es[k][1], "">>, to |-> <<es[k][2], "">>,
             hist |-> HistoryOf(i, es[k][1], i.g.nodes[NodeOf(i, es[k][2])])]]]

-----------------------------------------------------------------------------
(* The chains of one origin. *)

Known(g, id) == \E k \in DOMAIN g.nodes : g.nodes[k].id = id
Node(g, id) == g.nodes[CHOOSE k \in DOMAIN g.nodes : g.nodes[k].id = id]
OutOf(g, id) == SelectSeq(g.edges, LAMBDA e : e.from = id)
IsSourceAgent(n) == n.kind = "agent" /\ ~n.identity /\ n.cls # ""
OriginKind(n) == IF IsSourceAgent(n) THEN "agent" ELSE IF n.kind = "mcp_server" THEN "mcp_server" ELSE ""
ChokepointRiskRank(n) == IF n.name \in DOMAIN RiskOf THEN RiskOf[n.name] ELSE 0

Reaches1(g, S) == S \cup {g.edges[k].to : k \in {j \in DOMAIN g.edges : g.edges[j].from \in S}}
\* _reachable, unrolled as far as the longest chain of the asset graph.
Reachable(g, id) == Reaches1(g, Reaches1(g, Reaches1(g, {id}))) \ {id}

\* Every chokepoint of high risk is walked, and of the others as many as fit.
AtRank(g, hops, r) == SelectSeq(hops, LAMBDA t : ChokepointRiskRank(Node(g, t)) = r)
FirstHops(g, id) ==
    LET es == SelectSeq(OutOf(g, id), LAMBDA e : Known(g, e.to) /\ e.to # id) IN [k \in DOMAIN es |-> es[k].to]
UpTo(s, n) == IF n <= 0 THEN <<>> ELSE IF Len(s) <= n THEN s ELSE SubSeq(s, 1, n)
\* Faulty variant: the budget is one for all of them.
OrderedTools_Flat(g, id) ==
    LET hops == FirstHops(g, id) IN
    UpTo(AtRank(g, hops, 3) \o AtRank(g, hops, 2) \o AtRank(g, hops, 1) \o AtRank(g, hops, 0), MaxChokepoints)
OrderedTools(g, id) ==
    LET hops == FirstHops(g, id)
        high == AtRank(g, hops, 3) \o AtRank(g, hops, 2)
        low == AtRank(g, hops, 1) \o AtRank(g, hops, 0)
    IN high \o UpTo(low, MaxChokepoints - Len(high))

\* dfs: a chain ends at data or where nothing goes on.
RECURSIVE Dfs(_, _)
Dfs(g, path) ==
    LET next == OutOf(g, Last(path))
        on(e) == IF e.to \in ToSet(path) \/ ~Known(g, e.to) THEN <<>> ELSE Dfs(g, Append(path, e.to))
    IN IF Len(path) > MaxDepth + 1 THEN <<>>
       ELSE IF Node(g, Last(path)).kind = "data" \/ next = <<>> THEN <<path>>
       ELSE FlattenSeq([k \in DOMAIN next |-> on(next[k])])
ChainsThrough(g, id, tool) == UpTo(Dfs(g, <<id, tool>>), MaxChains)
WalkPaths(g, id) ==
    LET tools == OrderedTools(g, id) IN FlattenSeq([k \in DOMAIN tools |-> ChainsThrough(g, id, tools[k])])

-----------------------------------------------------------------------------
(* One chain, as it is shown. *)

HistOf(g, a, b) ==
    LET es == SelectSeq(OutOf(g, a), LAMBDA e : e.to = b) IN IF es = <<>> THEN NoCount ELSE es[1].hist
Hops(g, chain) == {HistOf(g, chain[k], chain[k + 1]) : k \in 1..(Len(chain) - 1)}
\* A hop that was blocked and never allowed neutralises the chain, in Monitor mode too.
Covered(h) == h.allow = 0 /\ (h.block > 0 \/ h.would > 0)
Status(hops) ==
    IF \E h \in hops : Covered(h) THEN "blocked"
    ELSE IF \A h \in hops : h.allow > 0 THEN "exploitable" ELSE "unsimulated"
StatusOrder == [exploitable |-> 0, unsimulated |-> 1, blocked |-> 2]

\* The last tool of the chain, or its target.
Chokepoint(g, chain) ==
    LET tools == SelectSeq(Tail(chain), LAMBDA x : Node(g, x).kind = "tool")
    IN IF tools = <<>> THEN Node(g, Last(chain)).name ELSE Node(g, Last(tools)).name

\* _origin_risk, in thousandths; a server without a row is one nobody has decided about.
OriginRisk(i, n) ==
    LET status == IF n.name \in DOMAIN i.g.registry THEN i.g.registry[n.name] ELSE "discovered"
    IN CASE status = "registered" -> 500 [] status = "blocked" -> 100 [] OTHER -> 1000
Risk(i, src, tgt) ==
    IF src.kind = "agent" THEN (10 - src.trust) * 50 + (IF tgt.sensitive THEN 350 ELSE 140) + 150
    ELSE (OriginRisk(i, src) * 6) \div 10 + (IF tgt.sensitive THEN 250 ELSE 100) + 100
\* _severity_from, as its place in _SEVERITY_ORDER.
Severity(risk) == IF risk >= 750 THEN 0 ELSE IF risk >= 500 THEN 1 ELSE IF risk >= 250 THEN 2 ELSE 3

\* The operation of a tool: what was promoted, else what its name says.
Operation(i, tool) ==
    IF tool \in DOMAIN i.g.promoted THEN i.g.promoted[tool]
    ELSE IF tool \in DOMAIN VerbOf THEN VerbOf[tool] ELSE "unknown"

\* _governing_policies: one policy for each class, of the last of its namespaces.
Governing(i, class) ==
    LET ps == {p \in i.g.policies : p.cls = class /\ ScopeOf(i, p.ns) /\ p.kind \in {"intent", "capability"}}
    IN {p \in ps : \A q \in ps : NsRank[q.ns] <= NsRank[p.ns]}
\* _path_governed_by
GovernedBy(i, class, tool) ==
    LET by(p) == IF p.kind = "capability" THEN "capability"
                 ELSE IF /\ p.scoped
                         /\ tool \notin p.allow \/ (p.readonly /\ Operation(i, tool) \in {"write", "delete", "send"})
                      THEN "intent" ELSE ""
    IN IF class = NoClass THEN NoClass
       ELSE IF Governing(i, class) = {} THEN "" ELSE by(CHOOSE p \in Governing(i, class) : TRUE)

BuildPath(i, g, chain) ==
    LET src == Node(g, chain[1])  tgt == Node(g, Last(chain))
        class == IF src.kind = "agent" THEN src.cls ELSE NoClass
        reach == {r \in Reachable(g, chain[1]) : Known(g, r) /\ Node(g, r).kind # "agent"}
    IN [id |-> <<src.ns, chain[1], Last(chain), Len(chain)>>, src |-> chain[1], tgt |-> Last(chain),
        ns |-> src.ns, cls |-> class, tool |-> Chokepoint(g, chain), status |-> Status(Hops(g, chain)),
        sev |-> Severity(Risk(i, src, tgt)), blast |-> Cardinality(reach \ {Last(chain)}),
        governed |-> GovernedBy(i, class, Chokepoint(g, chain))]

-----------------------------------------------------------------------------
(* The list and the view. *)

AllPaths(i) ==
    LET g == Assemble(i)
        origins == SelectSeq(g.nodes, LAMBDA n : OriginKind(n) # "")
        chains == FlattenSeq([k \in DOMAIN origins |-> WalkPaths(g, origins[k].id)])
    IN [k \in DOMAIN chains |-> BuildPath(i, g, chains[k])]
OfClass(i, p) == i.r.cls = "all" \/ p.cls = i.r.cls

\* One path for each id, of the worst status; the first of them on a tie.
\* Faulty variant: the first path of an id stays.
Dedup_First(paths) ==
    LET fresh == {k \in DOMAIN paths : \A j \in 1..(k - 1) : paths[j].id # paths[k].id}
        order == SortSeq(SetToSeq(fresh), LAMBDA a, b : a < b)
    IN [k \in DOMAIN order |-> paths[order[k]]]
Dedup(paths) ==
    LET same(k) == {j \in DOMAIN paths : paths[j].id = paths[k].id}
        rank(j) == StatusOrder[paths[j].status]
        best(k) == CHOOSE j \in same(k) : \A m \in same(k) : rank(j) < rank(m) \/ (rank(j) = rank(m) /\ j <= m)
        fresh == {k \in DOMAIN paths : \A j \in 1..(k - 1) : paths[j].id # paths[k].id}
        order == SortSeq(SetToSeq(fresh), LAMBDA a, b : a < b)
    IN [k \in DOMAIN order |-> paths[best(order[k])]]

\* Exploitable first, then by severity and by what else can be reached.
Outranks(p, q) ==
    \/ StatusOrder[p.status] < StatusOrder[q.status]
    \/ p.status = q.status /\ (p.sev < q.sev \/ (p.sev = q.sev /\ p.blast > q.blast))
Ranked(paths) ==
    LET before(a, b) == Outranks(paths[a], paths[b]) \/ (~Outranks(paths[b], paths[a]) /\ a < b)
        order == SortSeq([k \in DOMAIN paths |-> k], before)
    IN [k \in DOMAIN order |-> paths[order[k]]]

\* _derive_paths without a cap.
DerivePaths(i) == Ranked(Dedup(SelectSeq(AllPaths(i), LAMBDA p : OfClass(i, p))))
NonAgentHidden(i) ==
    Cardinality({p.id : p \in {q \in ToSet(AllPaths(i)) : ~OfClass(i, q) /\ q.cls = NoClass}})

\* get_threat_paths: the two kinds of origin have budgets of their own, and the
\* agents get what the servers leave.
OfServers(ps) == SelectSeq(ps, LAMBDA p : p.cls = NoClass)
OfAgents(ps) == SelectSeq(ps, LAMBDA p : p.cls # NoClass)
\* Faulty variant: one budget for all.
Shown_Shared(ps) == UpTo(ps, MaxPaths)
Shown(ps) ==
    LET servers == UpTo(OfServers(ps), MaxNonAgent)
        agents == UpTo(OfAgents(ps), MaxPaths - Len(servers))
    IN SelectSeq(ps, LAMBDA p : p \in ToSet(servers) \cup ToSet(agents))
Real(i, ps) == IF i.r.probes THEN ps ELSE SelectSeq(ps, LAMBDA p : p.cls = NoClass \/ p.cls \notin Probes)
ThreatPaths(i) ==
    LET all == DerivePaths(i)  kept == Real(i, all)
        classes == {p.cls : p \in ToSet(OfAgents(kept))}
    IN [paths |-> Shown(kept), all |-> kept, total |-> Len(kept),
        hidden |-> Len(all) - Len(kept), servers |-> Len(OfServers(kept)), serversHidden |-> NonAgentHidden(i),
        totals |-> [c \in classes |-> Len(SelectSeq(kept, LAMBDA p : p.cls = c))]]

\* _coverage: each path stands and falls with its one chokepoint.
Coverage(i) ==
    LET ps == ToSet(DerivePaths(i)) IN
    [covered |-> {p.id : p \in {q \in ps : q.tool \in i.r.denies}},
     residual |-> {p.id : p \in {q \in ps : q.tool \notin i.r.denies}}]

\* intent_suggest: the tools that agents of the class call.
Suggest(i) ==
    LET g == Assemble(i)
        calls == {e \in ToSet(g.edges) : Known(g, e.from) /\ Known(g, e.to) /\ Node(g, e.to).kind = "tool"
                                          /\ Node(g, e.from).kind = "agent" /\ Node(g, e.from).cls = i.r.cls}
    IN {Node(g, e.to).name : e \in calls}

-----------------------------------------------------------------------------
Init == \E g \in Estates : \E r \in AskedOf(g) : in = [g |-> g, r |-> r] /\ out = <<>>
Answer(kind, value) ==
    /\ out = <<>>
    /\ out' = IF MayRead(in) THEN <<kind, value>> ELSE <<"refused">>
    /\ UNCHANGED in
GetThreatPaths == Answer("paths", ThreatPaths(in))
IntentCoverage == in.r.cls # "all" /\ Answer("coverage", Coverage(in))
IntentSuggest == in.r.cls # "all" /\ Answer("suggestion", Suggest(in))
Next == GetThreatPaths \/ IntentCoverage \/ IntentSuggest
Spec == Init /\ [][Next]_vars

-----------------------------------------------------------------------------
(* Properties *)

Answered(kind) == out # <<>> /\ out[1] = kind

\* A tool of high risk that an agent of one class, or a server, leads to is in the list whatever
\* else they call: by itself, or behind another chokepoint on the way to the same target whose
\* chain is at least as open.
DangerousToolsAreListed ==
    Answered("paths") => LET g == Assemble(in) IN
        \A n \in ToSet(g.nodes) : \A t \in ToSet(FirstHops(g, n.id)) :
            OriginKind(n) # "" /\ OfClass(in, [cls |-> IF n.kind = "agent" THEN n.cls ELSE NoClass])
            /\ (in.r.probes \/ n.cls \notin Probes) /\ ChokepointRiskRank(Node(g, t)) >= 2 =>
            \E p \in ToSet(out[2].all) :
                /\ p.src = n.id
                /\ \/ p.tool = Node(g, t).name
                   \/ \E c \in ToSet(ChainsThrough(g, n.id, t)) :
                        Last(c) = p.tgt /\ StatusOrder[p.status] <= StatusOrder[Status(Hops(g, c))]

\* Among the paths of agents, and among those of servers, none is hidden while one that it outranks
\* is shown (an agent's and a server's are not compared: each kind has its own budget); the servers
\* take no more than their share, what is shown is in the order of the list, and the counts add up to
\* the list they are taken from.
WorstAreShown ==
    Answered("paths") =>
        LET r == out[2]
            hidden == {p \in ToSet(r.all) : p \notin ToSet(r.paths)}
        IN /\ \A p \in hidden, q \in ToSet(r.paths) : (p.cls = NoClass <=> q.cls = NoClass) => ~Outranks(p, q)
           /\ \A j, k \in DOMAIN r.paths : j < k => ~Outranks(r.paths[k], r.paths[j])
           /\ Len(OfAgents(r.paths)) >= (IF Len(OfAgents(r.all)) < MaxPaths - MaxNonAgent
                                         THEN Len(OfAgents(r.all)) ELSE MaxPaths - MaxNonAgent)
           /\ Len(r.paths) <= MaxPaths
           /\ r.servers + MapThenSumSet(LAMBDA c : r.totals[c], DOMAIN r.totals) = r.total

\* A caller bound to a namespace is shown chains of that namespace only, whatever it asks for.
OnlyOwnChains ==
    out # <<>> /\ ~Unrestricted(in.r.user) =>
        \/ out[1] = "refused"
        \/ in.r.user.claim # "" /\ (out[1] = "paths" => \A p \in ToSet(out[2].all) : p.ns = in.r.user.claim)

\* Whoever seeds an allowlist from the suggestion is asked about every tool on the class's chains.
ChokepointsAreSuggested ==
    Answered("suggestion") => \A p \in ToSet(DerivePaths(in)) : p.cls = in.r.cls => p.tool \in out[2]

(* Statements of the code that do not hold. *)

\* "a security operator must never lose sight of the worst reachable tool" (threats.py:240), where
\* "an identity super-node has no outgoing edges" (threats.py:206): an identity seen under two
\* classes keeps the calls, is no origin, and its classes have no edges.
NoCallerIsLost ==
    Answered("paths") /\ in.r.cls = "all" /\ in.r.probes =>
        \A k \in DOMAIN in.g.edges : LET n == in.g.nodes[NodeOf(in, in.g.edges[k][1])] IN
            n.kind = "agent" /\ n.classes # <<>> /\ ScopeOf(in, n.ns) => \E p \in ToSet(out[2].all) : p.src[1] = n.id

\* "count how many of the current attack paths it DENIES" (threats.py:901): a covered path may be
\* one of two chains to the same target, the other of which the intent allows.
CoveredIsClosed ==
    Answered("coverage") =>
        \A p \in ToSet(AllPaths(in)) : OfClass(in, p) /\ p.id \in out[2].covered => p.tool \in in.r.denies

\* "Every hop has allowed traffic" (threats.py:537): a chain to data whose every call was allowed is
\* not shown as exploitable, since no audit row is of the hop from the tool to the data.
AllowedIsExploitable ==
    Answered("paths") =>
        \A p \in ToSet(AllPaths(in)) : LET key == <<p.src[1], p.tool>> IN
            OfClass(in, p) /\ key \in DOMAIN in.g.counts /\ in.g.counts[key].allow > 0 /\ in.g.counts[key].block = 0
                => p.status = "exploitable"

\* "Does an applied policy for `cls` DENY this chokepoint?" (threats.py:676): the policy of another
\* namespace's class of the same name is taken for its own.
BadgeIsTrue ==
    Answered("paths") => \A p \in ToSet(out[2].all) :
        p.governed = "intent" => \E q \in in.g.policies : q.ns = p.ns /\ q.cls = p.cls
==============================================================================
