------------------------------- MODULE Intents -------------------------------
(***************************************************************************)
(* engine/intent and api/routers/intents.py: a positive policy ("intent")  *)
(* is validated, compiled to Rego, proposed from recorded traffic and      *)
(* replayed against it.  The Rego the compiler emits is modelled by what   *)
(* OPA makes of it: an expression has one value or none, written as a set, *)
(* {} when it is undefined.  A regular expression is the set of values it  *)
(* matches; one that only Python can read is valid here and undefined in   *)
(* OPA.  A slug is a sequence of its pieces.                               *)
(***************************************************************************)
EXTENDS Naturals, Sequences, FiniteSets, SequencesExt

CONSTANTS
    Written,         \* intents an operator may submit
    Documents,       \* calls to judge them on
    Recorded,        \* calls the audit log may hold
    MaxWindow,       \* bound: recorded calls one proposal is made from
    Paths,           \* argument paths
    PythonOnly,      \* patterns that re.compile takes and RE2 does not (a look-ahead)
    DomainOf,        \* the mail domain of an address, lower-cased
    Lower,           \* the addresses written in lower case
    SlugOf,          \* the pieces a server, verb or tool name leaves in a slug
    Order,           \* names in sorted order
    IdLen,           \* pieces an id keeps (63 characters)
    MaxTools,        \* tools reported on, and tools and tables named by one rule
    MaxKeys,         \* _MAX_KEYS_PER_TOOL
    MaxExistence,    \* _MAX_EXISTENCE_PER_RULE
    MinForDomain     \* _MIN_CALLS_FOR_DESTINATION_RULE

VARIABLES in, out
vars == <<in, out>>

Sorted(S) == SetToSortSeq(S, LAMBDA a, b : Order[a] < Order[b])
First(S, n) == LET s == Sorted(S) IN ToSet(SubSeq(s, 1, Min({n, Len(s)})))

-----------------------------------------------------------------------------
(* The vocabulary: a predicate is [field, op, val], val a set of names; a  *)
(* maxCount allows as many elements as its val has.                        *)

ScalarFields == {"tool_name", "verb", "server"}
CollectionFields == {"data_classes", "sql_tables"}
ScalarOps == {"equals", "in", "matches", "notMatches"}
CollectionOps == {"subsetOf", "noneOf", "anyOf", "maxCount"}

CheckPredicate(p) ==
    \/ p.field \in ScalarFields \cup Paths /\ p.op \in ScalarOps
    \/ p.field \in CollectionFields /\ p.op \in CollectionOps

Predicates(rule) ==
    rule.match \cup rule.require
    \cup (IF rule.server = "" THEN {} ELSE {[field |-> "server", op |-> "equals", val |-> {rule.server}]})
\* No field is given twice: the fields of match, of require and the sugar for the server.
FieldsApart(rule) ==
    LET f(S) == {p.field : p \in S} IN
    /\ f(rule.match) \cap f(rule.require) = {}
    /\ rule.server # "" => "server" \notin f(rule.match \cup rule.require)
Normalized(intent) ==
    /\ intent # <<>>
    /\ \A i, j \in DOMAIN intent : i # j => intent[i].id # intent[j].id
    /\ \A i \in DOMAIN intent :
        /\ FieldsApart(intent[i])
        /\ Predicates(intent[i]) # {}
        /\ \A p \in Predicates(intent[i]) : CheckPredicate(p)

-----------------------------------------------------------------------------
(* What the compiled module makes of a document.                           *)

\* A document publishes some of the derived facts; an older engine fewer.
VersionGatedRoots == {"param_paths", "param_paths_ambiguous", "data_classes", "sql_tables"}
\* Faulty variant: the ambiguity list is not asked for.
RootsOf_ReadOnly(p) == IF p.field \in Paths THEN {"param_paths"} ELSE {p.field} \cap VersionGatedRoots
RootsOf(p) == IF p.field \in Paths THEN {"param_paths", "param_paths_ambiguous"} ELSE {p.field} \cap VersionGatedRoots
GatedRoots(rule) == UNION {RootsOf(p) : p \in Predicates(rule)}

PublishedPaths(d) == IF "param_paths" \in d.roots THEN DOMAIN d.paths ELSE {}
PublishedAmbiguous(d) == IF "param_paths_ambiguous" \in d.roots THEN d.ambiguous ELSE {}
Published(r, d) == r \in d.roots
FieldValues(f, d) ==
    IF f \in ScalarFields THEN {d[f]}
    ELSE IF "param_paths" \notin d.roots THEN {}
    ELSE {IF f \in DOMAIN d.paths THEN d.paths[f] ELSE ""}
Elements(f, d) == IF f \in d.roots THEN d[f] ELSE {}

Meets(x, p) == IF p.op = "notMatches" THEN x \notin p.val ELSE x \in p.val
\* schema.py asks Python whether a pattern is one; regex.match of another is undefined.
OpaReads(p) == p.op \in {"matches", "notMatches"} => p.val \notin PythonOnly
\* Faulty variant: what does not match, a pattern OPA cannot read included, meets notMatches.
Scalar_NotMatch(X, p) ==
    IF p.op = "in" THEN {\E x \in X : Meets(x, p)}
    ELSE IF p.op = "notMatches" THEN {~(OpaReads(p) /\ \E x \in X : x \in p.val)}
    ELSE IF ~OpaReads(p) THEN {} ELSE {Meets(x, p) : x \in X}
\* A comprehension over an undefined value is empty, and counting it is defined.
Scalar(X, p) ==
    IF p.op = "in" THEN {\E x \in X : Meets(x, p)} ELSE IF ~OpaReads(p) THEN {} ELSE {Meets(x, p) : x \in X}
Fits(C, p) == Cardinality(C) <= Cardinality(p.val)
CollectionMeets(C, p) ==
    IF p.op = "subsetOf" THEN C \subseteq p.val
    ELSE IF p.op = "noneOf" THEN C \cap p.val = {}
    ELSE IF p.op = "anyOf" THEN C \cap p.val # {}
    ELSE Fits(C, p)
Collection(p, d) ==
    IF p.op = "maxCount" /\ p.field \notin d.roots THEN {} ELSE {CollectionMeets(Elements(p.field, d), p)}

\* Faulty variant: one ambiguous path spoils all.
PathTrusted_NoneDoubtful(f, d) == f \in PublishedPaths(d) /\ PublishedAmbiguous(d) = {}
PathTrusted(f, d) == f \in PublishedPaths(d) \ PublishedAmbiguous(d)
\* Faulty variant: a path is compared without its guard.
Guarded_Not(p, d) == Scalar(FieldValues(p.field, d), p)
Guarded(p, d) == {PathTrusted(p.field, d) /\ TRUE \in Scalar(FieldValues(p.field, d), p)}
Predicate(p, d) ==
    IF p.field \in CollectionFields THEN Collection(p, d)
    ELSE IF p.field \in Paths THEN Guarded(p, d)
    ELSE Scalar(FieldValues(p.field, d), p)

\* The clauses of one rule: the direction, its predicates, and that the engine
\* publishes what they read.
Clauses(rule, d) ==
    {<<[field |-> "direction", op |-> "equals", val |-> {rule.plane}], {d.direction = rule.plane}>>}
    \cup {<<p, Predicate(p, d)>> : p \in Predicates(rule)}
    \cup {<<[field |-> r, op |-> "published", val |-> {}], {Published(r, d)}>> : r \in GatedRoots(rule)}
\* The object of a rule's clauses is undefined when one of them is.
Defined(rule, d) == \A c \in Clauses(rule, d) : c[2] # {}
Failed(rule, d) == {c \in Clauses(rule, d) : FALSE \in c[2]}
Matched(rule, d) == Defined(rule, d) /\ Failed(rule, d) = {}
Decision(intent, d) == IF \E i \in DOMAIN intent : Matched(intent[i], d) THEN "allow" ELSE "block"

\* The near miss of a refusal: the first rule with the fewest failed clauses.
Candidates(intent, d) == {i \in DOMAIN intent : Defined(intent[i], d)}
MinFailed(intent, d) == Min({Cardinality(Failed(intent[i], d)) : i \in Candidates(intent, d)})
\* Faulty variant: any rule is named as the nearest.
Closest_Any(intent, d) == Candidates(intent, d)
Closest(intent, d) ==
    {i \in Candidates(intent, d) : Cardinality(Failed(intent[i], d)) = MinFailed(intent, d)}
DryRun(intent, d) ==
    IF Decision(intent, d) = "allow" \/ Candidates(intent, d) = {}
    THEN [decision |-> Decision(intent, d), closest |-> 0, met |-> {}, failed |-> {}]
    ELSE LET i == Min(Closest(intent, d)) IN
         [decision |-> "block", closest |-> i, met |-> Clauses(intent[i], d) \ Failed(intent[i], d),
          failed |-> Failed(intent[i], d)]

-----------------------------------------------------------------------------
(* Recorded calls.  args are the string arguments by path, other the paths *)
(* of the rest; what a row keeps of them is its capture.                   *)

Full(call) ==
    [direction |-> "call", tool_name |-> call.tool, verb |-> call.verb, server |-> call.server,
     roots |-> VersionGatedRoots, paths |-> call.args, ambiguous |-> call.ambiguous,
     data_classes |-> call.classes, sql_tables |-> call.tables]
Bare(call) == [Full(call) EXCEPT !.paths = <<>>, !.ambiguous = {}, !.data_classes = {}, !.sql_tables = {}]
PolicyInput(call) == IF call.capture = "values" THEN Full(call) ELSE Bare(call)

\* What one row shows of its arguments.
Shown(call) == IF call.capture = "none" THEN {} ELSE DOMAIN call.args \cup call.other
\* Faulty variant: every name is taken for a string.
PinnablePaths_All(call) == Shown(call)
PinnablePaths(call) == IF call.capture = "none" THEN {} ELSE DOMAIN call.args \ call.ambiguous

NoEvidence == [calls |-> 0, keys |-> {}, pinnable |-> {}, ambiguous |-> {}, always |-> {}, truncated |-> FALSE]
AddKeys(have, new) == have \cup First(new \ have, MaxKeys - Cardinality(have))
ObserveTool(e, call) ==
    LET ambiguous == e.ambiguous \cup (IF call.capture = "none" THEN {} ELSE call.ambiguous)
        keys == AddKeys(e.keys, Shown(call))
        still == IF e.calls = 0 THEN PinnablePaths(call) ELSE e.always \cap PinnablePaths(call)
    IN [calls |-> e.calls + 1, keys |-> keys, ambiguous |-> ambiguous,
        pinnable |-> (e.pinnable \cup (PinnablePaths(call) \cap keys)) \ ambiguous,
        always |-> (still \cap keys) \ ambiguous,
        truncated |-> e.truncated \/ ~ Shown(call) \subseteq keys]
\* A tool past the cap is not reported on.
Observe(tools, call) ==
    IF call.tool \in DOMAIN tools
    THEN [tools EXCEPT ![call.tool] = ObserveTool(@, call)]
    ELSE IF Cardinality(DOMAIN tools) >= MaxTools THEN tools
    ELSE [t \in DOMAIN tools \cup {call.tool} |->
            IF t = call.tool THEN ObserveTool(NoEvidence, call) ELSE tools[t]]
Evidence(calls) == FoldLeft(Observe, <<>>, calls)

-----------------------------------------------------------------------------
(* propose_intent *)

GroupKey(call) == <<call.server, call.verb>>
Emails(call) == IF call.capture = "values" THEN {call.args[p] : p \in DOMAIN call.args} \cap DOMAIN DomainOf ELSE {}
CommonEmailDomain(group) ==
    LET domains == UNION {{DomainOf[a] : a \in Emails(group[i])} : i \in DOMAIN group} IN
    IF (\E i \in DOMAIN group : Emails(group[i]) = {}) \/ Cardinality(domains) # 1 THEN {} ELSE domains
InDomain(ds) == {a \in Lower : DomainOf[a] \in ds}

Slug(server, verb, tools) ==
    LET parts == SlugOf[server] \o SlugOf[verb] \o FlattenSeq([i \in DOMAIN tools |-> SlugOf[tools[i]]])
    IN SubSeq(parts, 1, Min({IdLen, Len(parts)}))
\* Faulty variant: the tables of the first call alone.
TablesOf_First(group) == PolicyInput(group[1]).sql_tables
TablesOf(group) == UNION {PolicyInput(group[i]).sql_tables : i \in DOMAIN group}
Rule(key, group) ==
    LET tools == {group[i].tool : i \in DOMAIN group}
        tables == TablesOf(group)
        domain == IF key[2] = "send" /\ Len(group) >= MinForDomain THEN CommonEmailDomain(group) ELSE {}
    IN [id |-> Slug(key[1], key[2], SubSeq(Sorted(tools), 1, Min({2, Cardinality(tools)}))),
        plane |-> "call", server |-> key[1],
        match |-> {[field |-> "verb", op |-> "equals", val |-> {key[2]}],
                   [field |-> "tool_name", op |-> "in", val |-> First(tools, MaxTools)]}
                  \cup {[field |-> "sql_tables", op |-> "subsetOf", val |-> First(tables, MaxTools)] : t \in tables}
                  \cup {[field |-> "to", op |-> "matches", val |-> InDomain(domain)] : d \in domain},
        require |-> {[field |-> "data_classes", op |-> "noneOf", val |-> {"secret"}]}]

\* The id a rule is left with, given the ones before it: a number is added to
\* one that is taken, and the whole is cut again.
Numbered(seen, base) == LET n == Len(SelectSeq(seen, LAMBDA b : b = base)) IN
    IF n = 0 THEN base ELSE LET id == Append(base, ToString(n)) IN SubSeq(id, 1, Min({IdLen, Len(id)}))
Renumbered(rules) ==
    [i \in DOMAIN rules |->
        [rules[i] EXCEPT !.id = Numbered([j \in 1..(i - 1) |-> rules[j].id], rules[i].id)]]

KeyOrder(a, b) == Order[a[1]] < Order[b[1]] \/ (a[1] = b[1] /\ Order[a[2]] < Order[b[2]])
ProposeIntent(calls) ==
    LET keys == SetToSortSeq({GroupKey(calls[i]) : i \in DOMAIN calls}, KeyOrder)
    IN Renumbered([i \in DOMAIN keys |-> Rule(keys[i], SelectSeq(calls, LAMBDA c : GroupKey(c) = keys[i]))])

\* Paths seen on every recorded call of every tool the rule names are required
\* to be there, with any value.
RuleTools(rule) == UNION {p.val : p \in {q \in rule.match : q.field = "tool_name"}}
AnyValue == DOMAIN DomainOf \cup {"text", ""}
\* Faulty variant: a path seen once is required.
AlwaysSeen_Sometimes(rule, evidence) ==
    LET seen(t) == IF t \in DOMAIN evidence THEN evidence[t].pinnable ELSE {} IN
    {p \in Paths : \E t \in RuleTools(rule) : p \in seen(t)}
AlwaysSeen(rule, evidence) ==
    LET seen(t) == IF t \in DOMAIN evidence THEN evidence[t].always ELSE {} IN
    {p \in Paths : \A t \in RuleTools(rule) : p \in seen(t)}
ExistenceOf(rule, evidence) ==
    {[field |-> p, op |-> "matches", val |-> AnyValue] :
        p \in First(AlwaysSeen(rule, evidence) \ {q.field : q \in rule.match \cup rule.require}, MaxExistence)}
AddExistencePredicates(intent, evidence) ==
    [i \in DOMAIN intent |-> [intent[i] EXCEPT !.require = @ \cup ExistenceOf(intent[i], evidence)]]
Propose(calls) == AddExistencePredicates(ProposeIntent(calls), Evidence(calls))

-----------------------------------------------------------------------------
Init ==
    /\ out = <<>>
    /\ \/ \E intent \in Written, doc \in Documents : in = [kind |-> "judge", intent |-> intent, doc |-> doc]
       \/ \E n \in 1..MaxWindow : \E calls \in [1..n -> Recorded] : in = [kind |-> "window", calls |-> calls]

Compile == /\ in.kind = "judge" /\ out = <<>>
           /\ out' = IF Normalized(in.intent) THEN <<DryRun(in.intent, in.doc)>> ELSE <<"refused">>
           /\ UNCHANGED in
ProposeCalls == /\ in.kind = "window" /\ out = <<>>
                /\ out' = <<Propose(in.calls)>>
                /\ UNCHANGED in
Next == Compile \/ ProposeCalls
Spec == Init /\ [][Next]_vars

-----------------------------------------------------------------------------
(* Properties *)

\* What a predicate says of the call itself, whatever the engine publishes and
\* whatever OPA makes of a pattern. A path that can be reached in two ways has
\* no value that could be relied on.
Says(p, d) ==
    IF p.field \in Paths THEN p.field \in DOMAIN d.paths \ d.ambiguous /\ Meets(d.paths[p.field], p)
    ELSE IF p.field \in CollectionFields THEN TRUE \in Collection(p, [d EXCEPT !.roots = VersionGatedRoots])
    ELSE Meets(d[p.field], p)
Meant(rule, d) == d.direction = rule.plane /\ \A p \in Predicates(rule) : Says(p, d)

Judged == in.kind = "judge" /\ out # <<>> /\ Normalized(in.intent)

\* An intent is default-deny: what the compiled module allows, some rule for
\* this direction allows by every one of its predicates, read on the call as it
\* is. An engine that does not publish a fact a rule reads, a path that can be
\* forged and a pattern OPA cannot read never make a rule match
\* (_availability_predicates, _guarded, _predicate).
AllowedIsMeant == Judged => (out[1].decision = "allow" => \E i \in DOMAIN in.intent : Meant(in.intent[i], in.doc))

\* On an engine that publishes every fact, a call that satisfies a rule is let
\* through: no clause the compiler adds refuses it, as long as OPA can read the
\* patterns of the rule.
MeantIsAllowed ==
    Judged => (/\ in.doc.roots = VersionGatedRoots
               /\ \E i \in DOMAIN in.intent :
                    Meant(in.intent[i], in.doc) /\ \A p \in Predicates(in.intent[i]) : OpaReads(p)
               => out[1].decision = "allow")

\* The same for every pattern validation takes ("is not a valid regular
\* expression" is said of the others, schema.py:113-114).  Refuted: a rule with
\* a look-ahead passes and never matches.
ValidIsAllowed ==
    Judged => (in.doc.roots = VersionGatedRoots /\ (\E i \in DOMAIN in.intent : Meant(in.intent[i], in.doc))
                => out[1].decision = "allow")

\* The near miss a refusal names is one the operator may act on: a clause it
\* shows as met holds of the call, or the failed ones say that the engine does
\* not publish what it reads, and no rule whose clauses could all be read came
\* closer (dry_run, _NEAR_MISS_RE).
NearMissIsExact ==
    Judged => (out[1].closest # 0 =>
        LET rule == in.intent[out[1].closest] IN
        /\ \A c \in out[1].met : c[1] \in Predicates(rule) =>
            \/ Says(c[1], in.doc)
            \/ \E f \in out[1].failed : f[1].op = "published" /\ f[1].field \in RootsOf(c[1])
        /\ out[1].failed # {}
        /\ \A i \in DOMAIN in.intent :
            Defined(in.intent[i], in.doc) => Cardinality(out[1].failed) <= Cardinality(Failed(in.intent[i], in.doc)))

Proposed == in.kind = "window" /\ out # <<>>
Sampled(i) == in.calls[i]
RuleFor(call) == CHOOSE i \in DOMAIN out[1] :
    /\ out[1][i].server = call.server
    /\ [field |-> "verb", op |-> "equals", val |-> {call.verb}] \in out[1][i].match

\* An existence predicate is only added for a path that every recorded call of
\* every tool of the rule carried as a string and by one route, so that it
\* refuses none of the calls it was derived from, rows that kept the names of
\* their arguments and not the values included (_add_existence_predicates).
ExistenceHolds ==
    Proposed => \A i \in DOMAIN in.calls :
        \A j \in DOMAIN out[1] : Sampled(i).tool \in RuleTools(out[1][j]) =>
            \A p \in out[1][j].require : p.field \in Paths => Says(p, Full(Sampled(i)))

\* The recipient is one string argument, an address in lower case.
PlainRecipient(call) == "to" \in DOMAIN call.args \ call.ambiguous /\ call.args["to"] \in Lower

\* The rule proposed for a group of calls admits each of them whose values were
\* recorded, but for one with a secret in it, one of a tool past the caps, and,
\* where the rule has a mail-domain clause, one whose recipient is not a plain
\* one (test_proposed_intent_covers_the_traffic_it_was_proposed_from). A row
\* without its values says too little to cover it; whether the rules make a
\* valid intent together is IdsAreUnique.
ProposalCovers ==
    Proposed => \A i \in DOMAIN in.calls :
        LET call == Sampled(i) rule == out[1][RuleFor(call)] IN
        (/\ call.capture = "values" /\ "secret" \notin call.classes
         /\ call.tool \in RuleTools(rule)
         /\ (\E p \in rule.match : p.field = "to") => PlainRecipient(call))
        => Matched(rule, Full(call))

\* "Ids must be unique; collisions are possible once slugs are truncated."
\* (propose.py:109.) The number that tells two ids apart is cut off again.
IdsAreUnique ==
    Proposed => \A i, j \in DOMAIN out[1] : i # j => out[1][i].id # out[1][j].id
==============================================================================
