---------------------------- MODULE MC_Algorithms ----------------------------
(*****************************************************************************)
(* The functions of the system that keep no state, side by side: what they   *)
(* answer for every one of a set of inputs. part says which function the     *)
(* input is for; the resolution of policies is the module this one extends.  *)
(* The sets of inputs are constants so that the instances can use them.      *)
(*****************************************************************************)
EXTENDS PolicyResolution, Sequences, FiniteSets

CONSTANTS Docs, Blocks, Schemas, Arguments, Pods, InjectionConfigs, Trees, Fold(_), Ids,
    NamespaceOf(_), Written, Documents, Recorded, DomainOf, SlugOf, Order, Counts, Usual, Thresholds, Caps,
    Outages,
    Estates, AskedOf(_), RiskOf, VerbOf, NsRank

VARIABLES part, x1, x2

\* What the parts do not use of the shared variables has no value.
Unused == "unused"

\* The input of the resolution in the behaviours of the other parts.
AnyInput == CHOOSE i \in Inputs : TRUE

\* Listings and results of up to three parts, messages and calls.
GA == INSTANCE McpGates WITH ListBudget <- 4, ItemBudget <- 3, ListNodes <- 4, ItemNodes <- 2,
    TextBudget <- 3, ContentBudget <- 4, HeaderNodes <- 3, MaskNodes <- 2, in <- x1,
    out <- x2

\* Policy resources of three namespaces, one of them the administrators'.
CA == INSTANCE CrdAdmission WITH Admin <- "norviq", Namespaces <- {"norviq", "a", "b"},
    Classes <- {"c", "d"}, Workloads <- {"w", "x"}, GoLines <- 1, ApiLines <- 2, RegexCap <- 1,
    in <- x1, out <- x2

\* Pods of up to two containers and an init container.
PI == INSTANCE PodInjection WITH Configs <- InjectionConfigs, in <- x1, out <- x2

\* Callers of two namespaces.
CI == INSTANCE CallerIdentity WITH Namespaces <- {"a", "b"}, Classes <- {"c", "d"},
    Workloads <- {"w"}, in <- x1, out <- x2

\* Tools of up to three parameters, two of them with the names of control arguments.
CL == INSTANCE CallArguments WITH Names <- {"to", "config", "tags"}, Control <- {"config", "tags"},
    Injected <- {"config"}, MaxPositional <- 2, in <- x1, out <- x2

\* Wide and tall arguments.
AP == INSTANCE ArgumentPaths WITH Masked <- {"4"}, MaxPaths <- 3, MaxDepth <- 2, MaxLen <- 3,
    MaxNodes <- 6, in <- x1, out <- x2

\* Intents of up to two rules, and windows of up to three recorded calls.
IT == INSTANCE Intents WITH MaxWindow <- 3, Paths <- {"to", "cc", "n"}, PythonOnly <- {{"x@d", "X@D"}},
    Lower <- {"x@d", "y@d", "z@e"}, IdLen <- 4, MaxTools <- 2, MaxKeys <- 2, MaxExistence <- 1,
    MinForDomain <- 2, in <- x1, out <- x2

\* Histories around the thresholds of the score.
TR == INSTANCE TrustScore WITH MinObservations <- 20, BaselineRpm <- 10, in <- x1, out <- x2

\* Graphs of two agents and a server with room for fewer paths than there are.
AK == INSTANCE AttackPaths WITH Probes <- {"probe"}, MaxChains <- 2, MaxChokepoints <- 1,
    MaxPaths <- 3, MaxNonAgent <- 1, MaxDepth <- 4, in <- x1, out <- x2

(* The inputs. *)

\* Stored policies: up to three layers of most kinds, every decision, mode and two priorities.
Mixed == {"class", "deployment", "controls", "baseline", "cluster", "pack", "pack_weaken", "guardrail"}
SomePolicies(layer) == [dec : {"block", "audit", "allow"}, mode : IF layer \in Modeless THEN {"block"} ELSE {"block", "audit"}, prio : {1, 2}]
StoresOf(ls) == {s \in [ls -> [dec : {"block", "audit", "allow"}, mode : {"block", "audit"}, prio : {1, 2}]] :
                   \A l \in ls : s[l] \in SomePolicies(l)}
MCStores == UNION {StoresOf(ls) : ls \in {k \in SUBSET Mixed : Cardinality(k) <= 3}}
              \cup StoresOf({"namespace"}) \cup StoresOf({"egress"}) \cup StoresOf({"mcp", "class"}) \cup StoresOf({"remediation", "pack_override"})
MCEvents == {e \in [fault : {"none", "timeout", "identity", "error"}, candidates : {0, 1}, direct : BOOLEAN, warmed : BOOLEAN, defaultDeny : BOOLEAN,
               tries : {<<a, b>> : a \in Payloads, b \in {"allow", "error", "no document"}}, mode : {"block", "audit"},
               monitor : BOOLEAN, exemptRate : BOOLEAN, postureReadable : BOOLEAN, readTool : {FALSE}, overLimit : BOOLEAN,
               trust : {"ok", "low", "frozen"}, pep : {"", "block"}] :
                 /\ e.candidates = 0 => (e.tries[2] = "error" /\ e.mode = "block")
                 /\ e.candidates = 0 /\ ~e.direct => e.tries[1] = "error"
                 /\ e.candidates = 0 /\ e.direct => e.warmed /\ ~e.defaultDeny
                 /\ e.candidates = 1 => e.warmed /\ ~e.defaultDeny /\ ~e.direct
                 /\ e.tries[1] # "error" => e.tries[2] = "error"
                 /\ e.fault # "none" => e.candidates = 1 /\ e.tries = <<"allow", "error">> /\ e.mode = "block"}

\* Parts of a listing or a result, schemas and arguments.
GateDoc == [kind |-> "object", named |-> TRUE, cost |-> 1, ascii |-> TRUE, nodes |-> 1, deep |-> FALSE,
        sev |-> 0, alias |-> FALSE, pin |-> "pinned", twin |-> 1, id |-> 1]
MCDocs == {GateDoc, [GateDoc EXCEPT !.cost = 2, !.twin = 2, !.id = 2], [GateDoc EXCEPT !.cost = 4, !.ascii = FALSE, !.sev = 3],
    [GateDoc EXCEPT !.cost = 4, !.twin = 3], [GateDoc EXCEPT !.nodes = 2, !.id = 4], [GateDoc EXCEPT !.nodes = 3, !.sev = 4], [GateDoc EXCEPT !.deep = TRUE],
    [GateDoc EXCEPT !.sev = 2], [GateDoc EXCEPT !.sev = 3, !.cost = 2], [GateDoc EXCEPT !.alias = TRUE], [GateDoc EXCEPT !.pin = "drift"], [GateDoc EXCEPT !.pin = "quarantined"],
    [GateDoc EXCEPT !.id = 2], [GateDoc EXCEPT !.kind = "text", !.cost = 2], [GateDoc EXCEPT !.kind = "other"], [GateDoc EXCEPT !.named = FALSE]}
MCBlocks == {[text |-> t, cost |-> c, len |-> l, sev |-> s, secret |-> x, aside |-> 0] :
                 t \in BOOLEAN, c \in {1, 3}, l \in {1, 2}, s \in {0, 3}, x \in BOOLEAN}
            \cup {[text |-> TRUE, cost |-> 1, len |-> 1, sev |-> s, secret |-> FALSE, aside |-> 3] : s \in {0, 3}}
SchemaNames == {"a", "b"}
TypeSets == {{}, {"string"}, {"integer"}, {"number"}, {"boolean", "integer"}}
SchemaProps == UNION {[d -> TypeSets] : d \in SUBSET SchemaNames}
MCSchemas == [admits : BOOLEAN, closed : BOOLEAN, required : SUBSET SchemaNames, props : SchemaProps,
              uncheckable : {{}, {"a"}}, limits : {<<>>}]
             \cup [admits : {TRUE}, closed : BOOLEAN, required : {{}}, props : SchemaProps,
                   uncheckable : {{}}, limits : {[a |-> {"string"}]}]
MCArguments == UNION {[d -> {"string", "integer", "whole", "number", "boolean"}] : d \in SUBSET {"a", "c"}}

\* Pods, before and after injection.  Their containers are built by the module's own operator.
PC == INSTANCE PodInjection WITH Pods <- {}, Configs <- {}, in <- x1, out <- x2
InjectionConfig(image, mcp, proxy, optOut) == [image |-> image, mcp |-> mcp, proxy |-> proxy, allowOptOut |-> optOut]
MCInjectionConfigs ==
    {InjectionConfig("engine", mcp, proxy, optOut) : mcp \in BOOLEAN, proxy \in {"engine", "payload"}, optOut \in BOOLEAN}
        \cup {InjectionConfig("engine", TRUE, "none", FALSE), InjectionConfig("other", FALSE, "none", FALSE)}

AppContainer == {PC!Container("a", "app", "none", {}, "none", "none"),
        PC!Container("a", "app", "own", {"data"}, "none", "none"),
        PC!Container("a", "engine", "own", {}, "none", "none"),
        PC!Container("a", "app", "none", {"socketPath"}, "none", "none"),
        PC!Container("a", "app", "none", {"socket"}, "right", "none"),
        PC!Container("a", "app", "proxy", {"socket", "mcp"}, "right", "ours"),
        PC!Container("a", "app", "likeProxy", {"socket", "mcpWritable"}, "right", "theirs")}
SecondContainer == {PC!Container("b", "app", "own", {}, "none", "none"),
           PC!Container(PC!SidecarName, "engine", "none", {"socket"}, "right", "ours"),
           PC!Container(PC!SidecarName, "engine2", "none", {"socket"}, "none", "ours"),
           PC!Container(PC!SidecarName, "engine", "none", {}, "none", "ours"),
           PC!Container(PC!SidecarName, "engine", "own", {"socket"}, "right", "ours"),
           PC!Container(PC!SidecarName, "engine", "none", {"socket"}, "right", "theirs"),
           PC!Container("b", "foreign", "none", {"socket"}, "right", "ours"),
           PC!Container(PC!SidecarName, "app", "none", {}, "none", "none")}
InitContainer == {PC!Container("i", "app", "own", {}, "none", "none"),
          PC!Container("i", "app", "none", {"socket"}, "right", "none"),
          PC!Container(PC!McpInitName, "payload", "copy", {"stage", "socket"}, "right", "none"),
          PC!Container(PC!McpInitName, "payload", "copy", {"stage", "socket", "source"}, "right", "none")}

MCPods ==
    {[app |-> a, init |-> i, volumes |-> v, asked |-> n, optOut |-> o] :
        a \in {<<c>> : c \in AppContainer} \cup {<<c, d>> : c \in AppContainer, d \in SecondContainer},
        i \in {<<>>} \cup {<<c>> : c \in InitContainer},
        v \in {{}, {"socket"}, {"socket", "mcp"}},
        n \in {{}, {"a"}, {"i"}, {"a", "i"}, {"z"}}, o \in BOOLEAN}

MCNamespaceOf(id) == CASE id = "a/x" -> "a" [] id = "a/y" -> "a" [] id = "b/x" -> "b" [] OTHER -> ""

\* Arguments as trees, built by the module's own operators.
TB == INSTANCE ArgumentPaths WITH Trees <- {}, Masked <- {"4"}, MaxPaths <- 3, MaxDepth <- 2,
    MaxLen <- 3, MaxNodes <- 6, in <- x1, out <- x2
MCFold(s) == IF s = "A" THEN "a" ELSE s
TreeEntry(k, c) == [key |-> k, child |-> c]
Distinct(S, n) ==
    {e \in {<<>>} \cup (S \X S) \cup (IF n = 3 THEN S \X S \X S ELSE {<<d>> : d \in S}) :
        \A i, j \in DOMAIN e : i # j => e[i].key # e[j].key}
LeafTrees == {TB!Leaf("x"), TB!Leaf("y"), TB!Leaf("n"), TB!Leaf("x..")}
InnerTrees == {TB!Object(<<>>), TB!Object(<<TreeEntry(<<"b">>, TB!Leaf("x"))>>), TB!Object(<<TreeEntry(<<"b">>, TB!Leaf("n"))>>), TB!Object(<<TreeEntry(<<"4">>, TB!Leaf("x"))>>)}
DeepTrees == {TB!Object(<<TreeEntry(k, c)>>) : k \in {<<"b">>, <<"c">>}, c \in LeafTrees \cup InnerTrees}

\* WideTrees: three entries, among them a dotted key, a twin and an empty key.
WideTrees == {TB!Object(e) : e \in Distinct({TreeEntry(k, c) : k \in {<<"a">>, <<"a", "b">>, <<"A">>, TB!Empty}, c \in LeafTrees \cup InnerTrees}, 3)}
\* TallTrees: two entries over objects of objects.
TallTrees == {TB!Object(e) : e \in Distinct({TreeEntry(k, c) : k \in {<<"a">>, <<"a", "b">>, <<"a", "b", "c">>}, c \in LeafTrees \cup DeepTrees}, 2)}
MCTrees == WideTrees \cup TallTrees

\* Intents, calls and recorded calls.
MCDomainOf == [a \in {"x@d", "y@d", "X@D", "z@e"} |-> IF a = "z@e" THEN "e" ELSE "d"]
MCOrder == [n \in {"", "s", "S", "long", "read", "send", "t", "u", "v", "to", "cc", "n", "orders", "items"} |->
    CASE n = "" -> 0 [] n = "S" -> 1 [] n = "cc" -> 2 [] n = "long" -> 3 [] n = "n" -> 4 [] n = "orders" -> 5 [] n = "items" -> 13
      [] n = "read" -> 6 [] n = "s" -> 7 [] n = "send" -> 8 [] n = "t" -> 9 [] n = "to" -> 10 [] n = "u" -> 11
      [] n = "v" -> 12]
MCSlugOf == [n \in {"", "s", "S", "long", "read", "send", "t", "u", "v"} |->
    CASE n = "" -> <<>> [] n = "long" -> <<"l", "o", "n", "g">> [] n = "S" -> <<"s">> [] OTHER -> <<n>>]

Predicate(f, o, v) == [field |-> f, op |-> o, val |-> v]
Predicates == {Predicate("tool_name", "equals", {"t"}), Predicate("tool_name", "in", {"t", "u"}), Predicate("tool_name", "notMatches", {"t"}),
         Predicate("to", "equals", {"x@d"}), Predicate("to", "in", {"x@d"}), Predicate("to", "matches", {"x@d", "y@d"}),
         Predicate("to", "notMatches", {"z@e"}), Predicate("to", "notMatches", {"x@d"}), Predicate("to", "notMatches", {"x@d", "X@D"}),
         Predicate("to", "matches", {"x@d", "X@D"}),
         Predicate("data_classes", "subsetOf", {"pii"}), Predicate("data_classes", "noneOf", {"secret"}),
         Predicate("data_classes", "anyOf", {"pii"}), Predicate("data_classes", "maxCount", {}), Predicate("data_classes", "matches", {"pii"})}
DocumentRoots == {"param_paths", "param_paths_ambiguous", "data_classes", "sql_tables"}
Rule(id, plane, match, require) == [id |-> <<id>>, plane |-> plane, server |-> "", match |-> match, require |-> require]
OneRule == {<<Rule("a", pl, m, r)>> : pl \in {"call", "answer"}, m \in {{p} : p \in Predicates} \cup {{}}, r \in {{p} : p \in Predicates} \cup {{}}}
TwoRules == {<<Rule("a", "call", {p}, {q}), Rule("b", "call", {p2}, {})>> :
    p \in {x \in Predicates : x.field = "to"}, q \in {x \in Predicates : x.field = "data_classes"}, p2 \in {x \in Predicates : x.field # "data_classes"}}
MCDocuments ==
    {[direction |-> "call", tool_name |-> t, verb |-> "send", server |-> "", roots |-> rs, paths |-> ps,
      ambiguous |-> am, data_classes |-> cs, sql_tables |-> {}] :
        t \in {"t", "u"}, rs \in {DocumentRoots} \cup {DocumentRoots \ {r} : r \in DocumentRoots},
        ps \in {<<>>, [p \in {"to"} |-> "x@d"], [p \in {"to"} |-> "z@e"]}, am \in {{}, {"to"}, {"cc"}},
        cs \in {{}, {"pii"}, {"secret"}}}

CallArgs == {<<>>, [p \in {"to"} |-> "x@d"], [p \in {"to"} |-> "X@D"], [p \in {"to"} |-> "z@e"], [p \in {"cc"} |-> "y@d"],
         [p \in {"to", "cc"} |-> IF p = "to" THEN "x@d" ELSE "y@d"]}
RecordedCall(t, s, v, a, am, o, cs, ts, c) ==
    [tool |-> t, server |-> s, verb |-> v, args |-> a, ambiguous |-> am, other |-> o, classes |-> cs, tables |-> ts, capture |-> c]
MCRecorded ==
    {RecordedCall("t", "", "send", a, am, {}, {}, {}, c) : a \in CallArgs, am \in {{}, {"to"}}, c \in {"values", "keys"}}
    \cup {RecordedCall("u", "", "send", a, {}, {"n"}, cs, {}, c) : a \in CallArgs, cs \in {{}, {"secret"}}, c \in {"values", "none"}}
    \cup {RecordedCall("v", s, "read", <<>>, {}, {}, {}, ts, "values") : s \in {"s", "S"}, ts \in {{}, {"orders"}, {"items"}}}
    \cup {RecordedCall("v", "long", v, <<>>, {}, {}, {}, {}, "values") : v \in {"read", "send"}}
MCWritten == OneRule \cup TwoRules

\* Histories, thresholds and caps.
MCCounts == {h \in [allowed : {0, 19, 49}, refused : {0, 1, 5}, repeated : {0, 12}, recent : {0, 5, 13, 19, 24, 32, 49, 54, 62}, strange : {0, 2, 7}] :
                LET n == h.allowed + h.refused + h.repeated IN
                /\ h.repeated > 0 <=> h.refused = 1
                /\ h.recent \in {0, n} /\ h.strange <= n}
MCThresholds == {-1, 500}
MCCaps == {-1, 350}
MCUsual == {[mean |-> 40, std |-> 10], [mean |-> 30, std |-> 5]}
MCOutages == {{}, {"history"}, {"profile"}, {"freeze"}, {"cap"}, {"profile", "cap"}}

\* Stored graphs: agents of two namespaces and a server; t and v are dangerous tools, w is t of the
\* other namespace.
StoredNode(id, kind, ns, name, classes, trust, sensitive) ==
    [id |-> id, kind |-> kind, ns |-> ns, name |-> name, classes |-> classes, trust |-> trust, sensitive |-> sensitive]
StoredNodes(a, b) ==
    <<StoredNode("a", "agent", "a", "a", a, 2, FALSE), StoredNode("b", "agent", "b", "b", b, 8, FALSE),
      StoredNode("s", "mcp_server", "a", "s", <<>>, 0, FALSE), StoredNode("t", "tool", "a", "t", <<>>, 0, FALSE),
      StoredNode("u", "tool", "a", "u", <<>>, 0, FALSE), StoredNode("v", "tool", "a", "v", <<>>, 0, TRUE),
      StoredNode("w", "tool", "b", "t", <<>>, 0, FALSE), StoredNode("d", "data", "a", "d", <<>>, 0, TRUE),
      StoredNode("e", "data", "a", "e", <<>>, 0, TRUE)>>
StoredEdges == <<<<"a", "u">>, <<"a", "t">>, <<"a", "v">>, <<"b", "w">>, <<"s", "t">>, <<"s", "u">>,
                 <<"v", "d">>, <<"t", "d">>, <<"t", "e">>>>
SomeEdges == {SelectSeq(StoredEdges, LAMBDA e : e \in S \cup {<<"b", "w">>, <<"s", "u">>}) :
                S \in SUBSET {StoredEdges[k] : k \in DOMAIN StoredEdges}}
Counted(allow, block, would) == [allow |-> allow, block |-> block, would |-> would]
Snapshot(nodes, edges, t, v, registry, policies, promoted) ==
    [nodes |-> nodes, edges |-> edges, registry |-> registry, policies |-> policies, promoted |-> promoted,
     counts |-> [p \in {<<"a", "t">>, <<"a", "u">>, <<"a", "v">>, <<"b", "t">>} |->
                   CASE p = <<"a", "v">> -> v [] p = <<"a", "t">> -> t [] OTHER -> Counted(1, 0, 0)]]
Registered == [x \in {"s"} |-> "registered"]
ManyGraphs ==
    {Snapshot(StoredNodes(<<"c">>, b), es, t, v, Registered, {}, <<>>) :
        b \in {<<"c">>, <<"probe">>}, es \in SomeEdges, v \in {Counted(1, 0, 0), Counted(0, 1, 0), Counted(0, 0, 0)},
        t \in {Counted(0, 0, 0), Counted(1, 0, 0), Counted(0, 1, 0), Counted(1, 1, 0), Counted(0, 0, 1)}}
Applied(ns, kind, allow, readonly) ==
    [ns |-> ns, cls |-> "c", kind |-> kind, allow |-> allow, scoped |-> allow # {}, readonly |-> readonly]
FewGraphs ==
    {Snapshot(StoredNodes(a, b), es, Counted(1, 0, 0), Counted(1, 0, 0), rg, ps, pr) :
        a \in {<<"c">>, <<"c", "d">>}, b \in {<<"c">>, <<"probe">>}, rg \in {<<>>, [x \in {"s"} |-> "blocked"]},
        es \in {StoredEdges, [k \in DOMAIN StoredEdges |-> StoredEdges[Len(StoredEdges) + 1 - k]], SelectSeq(StoredEdges, LAMBDA e : e[1] # "s")},
        ps \in {{}, {Applied("a", "intent", {"t"}, TRUE)},
                {Applied("a", "intent", {"u"}, FALSE), Applied("b", "capability", {}, FALSE)}},
        pr \in {<<>>, [x \in {"v"} |-> "read"]}}
Request(role, claim, wanted, cls, probes, denies) ==
    [user |-> [role |-> role, claim |-> claim], wanted |-> wanted, cls |-> cls, probes |-> probes, denies |-> denies]
MCEstates == ManyGraphs \cup FewGraphs
MCAskedOf(g) ==
    IF g.registry = Registered THEN {Request("admin", "", {"all"}, "all", FALSE, {})}
    ELSE {Request("viewer", c, w, "all", TRUE, {}) : c \in {"", "a", "*"}, w \in {{"all"}, {"a"}, {"a", "b"}, {}}}
         \cup {Request(r, "", {"all"}, "c", p, d) : r \in {"admin", "service"}, p \in BOOLEAN, d \in {{}, {"t"}}}
MCRiskOf == [x \in {"t", "u", "v"} |-> CASE x = "t" -> 3 [] x = "v" -> 2 [] OTHER -> 0]
MCVerbOf == [x \in {"t", "v"} |-> IF x = "t" THEN "delete" ELSE "write"]
MCNsRank == [x \in {"a", "b"} |-> IF x = "a" THEN 1 ELSE 2]

-----------------------------------------------------------------------------
pool == <<x1, x2>>
all == <<part, pool, vars>>

MCInit ==
    \/ part = "resolution" /\ Init /\ x1 = Unused /\ x2 = Unused
    \/ part = "attack" /\ in = AnyInput /\ Init /\ AK!Init
    \/ part = "trust" /\ in = AnyInput /\ Init /\ TR!Init
    \/ part = "gates" /\ in = AnyInput /\ Init /\ GA!Init
    \/ part = "admission" /\ in = AnyInput /\ Init /\ CA!Init
    \/ part = "injection" /\ in = AnyInput /\ Init /\ PI!Init
    \/ part = "identity" /\ in = AnyInput /\ Init /\ CI!Init
    \/ part = "arguments" /\ in = AnyInput /\ Init /\ CL!Init
    \/ part = "paths" /\ in = AnyInput /\ Init /\ AP!Init
    \/ part = "intents" /\ in = AnyInput /\ Init /\ IT!Init

MCNext ==
    \/ part = "resolution" /\ Next /\ UNCHANGED <<part, pool>>
    \/ part = "gates" /\ GA!Next /\ UNCHANGED <<part, vars>>
    \/ part = "admission" /\ CA!Next /\ UNCHANGED <<part, vars>>
    \/ part = "injection" /\ PI!Next /\ UNCHANGED <<part, vars>>
    \/ part = "identity" /\ CI!Next /\ UNCHANGED <<part, vars>>
    \/ part = "arguments" /\ CL!Next /\ UNCHANGED <<part, vars>>
    \/ part = "paths" /\ AP!Next /\ UNCHANGED <<part, vars>>
    \/ part = "intents" /\ IT!Next /\ UNCHANGED <<part, vars>>
    \/ part = "trust" /\ TR!Next /\ UNCHANGED <<part, vars>>
    \/ part = "attack" /\ AK!Next /\ UNCHANGED <<part, vars>>

MCSpec == MCInit /\ [][MCNext]_all

-----------------------------------------------------------------------------
(* The properties, each of its own part or parts. *)

\* No entry of a listing, no message and no text of a result that is given to the scanner reaches the
\* model as the MCP server sent it unless it was read in full and is harmless, whatever came before it
\* and used up the budget, and what fits the budget together is read to its end (structured content
\* and a text beside an embedded resource's are not given to it); a look-alike of a name listed
\* earlier is withheld; and a schema that is reported as enforced refuses exactly the calls that break
\* its required names, declared types or closed set of names, whatever other keywords it holds
\* (firewall.py, scanner.py).
NothingUnreadIsPassed ==
    /\ part = "gates" => GA!NothingUnreadPasses /\ GA!WithinBudgetIsRead
    /\ part = "gates" => GA!LookAlikesAreWithheld /\ GA!SchemaAgrees

\* What the webhook admits, stores and deletes is the same policy: a resource is deleted under the
\* key it was created under, and the key is looked up for exactly the calls its target names, unless
\* it carries clusterPriority into another namespace; an admitted module binds a decision, unless the
\* API took a comment behind code for its default; and the two validators agree on modules that are
\* plain: assigned with =, no constant conditions, no such comments, no nested regex, within the
\* shorter cap on lines and the API's on length (handler.go, controller.go, policies.py).
AdmissionAgrees ==
    /\ part = "admission" => CA!CreateAndDeleteAgree /\ CA!TargetsAreResolved
    /\ part = "admission" => CA!AdmittedBindsADecision /\ CA!PlainModulesAgree

\* A pod the webhook patches has a sidecar on the socket, every other container on that socket, and
\* every MCP server it names behind the proxy its first init container delivers. A pod left alone as
\* already injected has the same, save that a container of the very image the configuration names
\* counts as the sidecar without the socket. A patched pod that comes again is never patched twice,
\* and is left alone unless it runs the sidecar's image in another container with a command of its
\* own, when it is refused. Nothing is said of a pod let through by an opt-out the operator allows
\* (injector.go, mcp_injector.go).
PodsAreGoverned ==
    /\ part = "injection" => PI!AdmittedIsGoverned /\ PI!SkippedIsGoverned
    /\ part = "injection" => PI!InjectedIsSkipped

\* Whatever the body says, a credential other than an administrator's that is tied to a namespace, by
\* its claim or by its SPIFFE id, acts only there, as its own class and workload, and a machine's under
\* no SPIFFE id that names another; one whose claim names a namespace of its own reads only there (one
\* tied by its SPIFFE id alone reads everywhere). An injected sidecar's own calls are accepted in every
\* SPIFFE mode, except under the strict requirement those of a pod without a valid class label, and
\* the claims of groups do not depend on their order (auth.py, handler.go).
CallersActAtHome ==
    /\ part = "identity" => CI!ActsAtHome
    /\ part = "identity" => CI!SidecarsAreAccepted /\ CI!GroupOrderIsIrrelevant

\* A value put before a policy under a name is the one the tool gets under that name, and nothing a
\* tool whose own signature is read is given is hidden, as long as the call fits that signature as it
\* came or that signature declares none of the framework's control names (DeclaredIsKept is about the
\* others), and no parameter or keyword is called args. Of nested arguments a path not called ambiguous
\* holds what is nested there, whole, and one value only if the walk was not cut short; the list of
\* names is complete unless it says otherwise; and a name offered for pinning is one the engine derives
\* from the call, and not an ambiguous one unless two values arrive there or the value is too long to
\* be read whole; a declared schema that is not called truncated has a name of its own for every
\* argument (wrapping.py, evaluator.py).
PoliciesSeeTheCall ==
    /\ part = "arguments" => CL!NamesAreTrue /\ CL!ReadableCallsAreWhole
    /\ part = "paths" => AP!NestedIsNotShadowed /\ AP!OneValueAPath /\ AP!CompleteUnlessTold
    /\ part = "paths" => AP!PinnedIsDerived /\ AP!DeclaredUnlessTold

\* The module compiled from an intent allows only calls a rule of it means, whatever OPA can read of its
\* patterns, and all of them where OPA reads the patterns and the engine publishes every fact. The near
\* miss it names is the closest of the rules that could be evaluated. An existence test is proposed
\* only for what was always there, and the rule proposed for a group of calls admits each of them that
\* was recorded with its values, other than one with a secret, one of a tool past the caps and, under
\* a mail-domain clause, one whose recipient is not one lower-case address (compiler.py, propose.py).
IntentsAreMeant ==
    /\ part = "intents" => IT!AllowedIsMeant /\ IT!MeantIsAllowed /\ IT!NearMissIsExact
    /\ part = "intents" => IT!ExistenceHolds /\ IT!ProposalCovers

\* One refusal, however often it is repeated, never caps an agent's trust; sustained ones escalate
\* it. Whatever cannot be read, a call is rated high only if it would not be held with everything
\* readable, except that a cap that cannot be read holds nobody. One more refusal of a tool the
\* profile does not know never raises a score, and one of a tool it knows raises it by at most a
\* step of the novelty signal (calculator.py, the signals).
ScoresAreFair ==
    /\ part = "trust" => TR!OneRefusalNeverCaps /\ TR!SustainedRefusalsEscalate
    /\ part = "trust" => TR!OutagesLiftOnlyTheCap /\ TR!RefusalsRaiseOnlyFamiliarity

\* The attack graph keeps the worst in view: a dangerous tool is listed whatever else its callers call,
\* no path of an agent is hidden while a lesser one of an agent is shown, nor one of a server while a
\* lesser one of a server is (the two kinds have budgets of their own and are not compared), what is
\* shown is ordered worst first, the counts add up, nobody is shown another namespace's chains, and an
\* allowlist is suggested with every tool on the chains of its class (threats.py).
WorstPathsAreShown ==
    /\ part = "attack" => AK!DangerousToolsAreListed /\ AK!WorstAreShown
    /\ part = "attack" => AK!OnlyOwnChains /\ AK!ChokepointsAreSuggested

==============================================================================
