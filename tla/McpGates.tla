------------------------------- MODULE McpGates -------------------------------
(***************************************************************************)
(* What the MCP firewall does with one message of the server or one call   *)
(* of the client (the gates of norviq/mcp/firewall.py and the budgets of   *)
(* norviq/mcp/scanner.py).  The patterns themselves are abstracted to a    *)
(* severity each text has; what is kept is the order in which the parts of *)
(* a message are read, the budgets they share, and what happens to a part  *)
(* that was not read to its end.                                           *)
(*                                                                         *)
(* A document (tool, list entry, prompt, question) is a record:            *)
(*   kind    "object", "text" (a bare string) or "other"                   *)
(*   named   a tool has a name, a list entry has an unflagged identifier   *)
(*   cost    what its strings cost to scan    ascii  are they all ASCII?   *)
(*   nodes   the nodes of its walk            deep   nested or wide past   *)
(*                                                   the walk's caps       *)
(*   sev     the worst severity a scan finds  alias  a key that folds to a *)
(*                                                   protocol member       *)
(*   pin     its pin status                   twin   the skeleton of its   *)
(*                                                   name                  *)
(***************************************************************************)
EXTENDS Naturals, Sequences, FiniteSets, FiniteSetsExt, SequencesExt

CONSTANTS
    ListBudget, ItemBudget,     \* _LIST_SCAN_BUDGET, _DEFINITION_SCAN_BUDGET
    ListNodes, ItemNodes,       \* _LIST_WALK_NODES, _MAX_WALK_NODES
    TextBudget,                 \* _MAX_TOTAL_SCAN_CHARS
    ContentBudget,              \* _CONTENT_GUARD_BUDGET
    HeaderNodes,                \* _HEADER_WALK_NODES
    MaskNodes                   \* _MASK_MAX_NODES

Strip == 3                      \* severities: 0 none, 1 low, 2 medium, 3 high, 4 critical
Sanitize == 2

Least(a, b) == IF a < b THEN a ELSE b
Most(a, b) == IF a < b THEN b ELSE a
Minus(a, b) == IF a < b THEN 0 ELSE a - b

-----------------------------------------------------------------------------
(* The scanner. *)

\* Did _walk_strings reach every string of d within a node allowance?
Walked(d, allowance) == ~d.deep /\ d.nodes <= allowance

\* _folded_length, _leaf_cost: what the strings of d cost, folded and with a base for each, is more
\* than a budget.
Over(d, budget) == d.cost > budget

\* Faulty variant: a text over the budget is scanned as far as it goes and passed.
ScanPairs_Passes(d, budget, walked) ==
    [scanned |-> Least(d.cost, budget), exhausted |-> ~walked,
     severity |-> IF Over(d, budget) THEN 0 ELSE d.sev]

\* _scan_pairs: a document over its budget is not scanned at all and graded high, and so is
\* one that was not walked in full; a non-ASCII one has then cost the budget it was folded for.
ScanPairs(d, budget, walked) ==
    LET over == Over(d, budget) IN
    [scanned |-> IF ~over THEN d.cost ELSE IF d.ascii THEN 0 ELSE budget,
     exhausted |-> over \/ ~walked,
     severity |-> Most(IF over THEN 3 ELSE d.sev, IF walked THEN 0 ELSE 3)]

\* scan_tool_definition and scan_catalog_item, under what is left of a list's two budgets.
ScanEntry(d, left) ==
    ScanPairs(d, Least(ItemBudget, left.budget), Walked(d, Least(ItemNodes, left.nodes)))

\* scan_object_text and scan_prompt_messages: one message has its own budgets.
ScanMessage(d) == ScanPairs(d, TextBudget, Walked(d, ItemNodes))

\* scan_untrusted_content: one text of a result, read as far as the budget goes.
ScanContent(b, budget) ==
    [scanned |-> Least(b.cost, budget), exhausted |-> b.cost > budget,
     clean |-> b.cost <= budget /\ b.sev = 0]

\* Faulty variant: every entry is charged the most an entry may cost.
Left_ChargesAll(left, d, report) ==
    [budget |-> Minus(left.budget, ItemBudget), nodes |-> Minus(left.nodes, Least(ItemNodes, left.nodes))]

\* The budgets of a list after an entry (_gate_a_tools_list); the walk gives back the nodes it did not visit.
Left(left, d, report) ==
    [budget |-> Minus(left.budget, report.scanned),
     nodes |-> Minus(left.nodes, Least(Least(ItemNodes, left.nodes), d.nodes))]

-----------------------------------------------------------------------------
(* Gate A: listings. *)

\* Faulty variant: the pin status alone decides.
ActionFor_PinOnly(severity, pin) == IF pin \in {"drift", "quarantined"} THEN "strip" ELSE "pass"
\* _action_for.
ActionFor(severity, pin) ==
    IF pin \in {"drift", "quarantined"} \/ severity >= Strip THEN "strip"
    ELSE IF severity >= Sanitize THEN "sanitize" ELSE "pass"

\* Faulty variant: a look-alike is only one more finding of its own definition.
ToolAction_AloneRead(d, report, shadowed) ==
    IF report.exhausted THEN "strip" ELSE ActionFor(IF d.alias THEN 4 ELSE report.severity, d.pin)

\* One tool of tools/list: a look-alike of an earlier name and an aliased key are critical, and
\* a definition that was not read in full is withheld whatever else it is.
ToolAction(d, report, shadowed) ==
    IF report.exhausted THEN "strip"
    ELSE ActionFor(IF d.alias \/ shadowed THEN 4 ELSE report.severity, d.pin)

\* _gate_a_tools_list: what is done to each tool in turn.
ToolsList(tools) ==
    LET start == [left |-> [budget |-> ListBudget, nodes |-> ListNodes], skeletons |-> {}, acts |-> <<>>]
        step(s, d) ==
          IF d.kind # "object" \/ ~d.named THEN [s EXCEPT !.acts = Append(@, "strip")]
          ELSE LET report == ScanEntry(d, s.left)
                   shadowed == \E k \in s.skeletons : k.twin = d.twin /\ k.id # d.id
               IN [left |-> Left(s.left, d, report),
                   skeletons |-> IF \E k \in s.skeletons : k.twin = d.twin THEN s.skeletons
                                 ELSE s.skeletons \cup {[twin |-> d.twin, id |-> d.id]},
                   acts |-> Append(s.acts, ToolAction(d, report, shadowed))]
    IN FoldLeft(step, start, tools).acts

\* _gate_a_item_list (prompts, resources, templates): entries that are no objects are scanned
\* for the record and withheld.
ItemList(items) ==
    LET start == [left |-> [budget |-> ListBudget, nodes |-> ListNodes], acts |-> <<>>]
        step(s, d) ==
          IF d.kind = "other" THEN [s EXCEPT !.acts = Append(@, "strip")]
          ELSE IF d.kind = "text"
          THEN [left |-> [s.left EXCEPT !.budget = Minus(@, ScanContent(d, s.left.budget).scanned)],
                acts |-> Append(s.acts, "strip")]
          ELSE LET report == ScanEntry(d, s.left)
                   severity == IF d.alias THEN 4 ELSE report.severity
               IN [left |-> Left(s.left, d, report),
                   acts |-> Append(s.acts,
                              IF report.exhausted \/ severity >= Strip THEN "strip"
                              ELSE IF severity > 0 THEN "annotate" ELSE "pass")]
    IN FoldLeft(step, start, items).acts

-----------------------------------------------------------------------------
(* Gate A: single messages. *)

\* Where the text is an instruction by itself; where it is about the server, at the handshake or
\* later; and where it is a demand for input.
Instructs == {"prompts/get", "elicitation"}
Noted == {"handshake", "notification"}
Demands == {"input_required"}
Surfaces == Instructs \cup Noted \cup Demands

\* One that was not read in full is withheld; a severe one is withheld where it instructs, and
\* annotated elsewhere.
Message(surface, d) ==
    LET report == ScanMessage(d) IN
    IF report.severity = 0 /\ ~report.exhausted THEN "pass"
    ELSE IF report.exhausted THEN "withhold"
    ELSE IF surface \in Instructs /\ report.severity >= Strip THEN "withhold"
    ELSE "annotate"

-----------------------------------------------------------------------------
(* The content guard: a block is [text, cost, len, sev, secret, aside]: the text that is read, an
   embedded resource's where the block has one, and the severity of one it has besides. *)

\* _guard_content with both guards on: what is done to each block, and to its secrets.  A text
\* beside an embedded resource's goes along unread.
GuardContent(blocks) ==
    LET start == [budget |-> ContentBudget, done |-> <<>>]
        step(s, b) ==
          IF ~b.text THEN [s EXCEPT !.done = Append(@, [as |-> "same", masked |-> FALSE])]
          ELSE IF s.budget = 0
          THEN [s EXCEPT !.done = Append(@, [as |-> "fenced unread", masked |-> FALSE])]
          ELSE LET report == ScanContent(b, s.budget) IN
               [budget |-> IF report.exhausted THEN 0
                           ELSE Least(Minus(s.budget, b.len), s.budget - report.scanned),
                done |-> Append(s.done, [as |-> IF report.clean THEN "same" ELSE "fenced",
                                         masked |-> b.secret])]
    IN FoldLeft(step, start, blocks).done

\* _guard_structured: the structured content of a result is walked for secrets and not scanned.
GuardStructured(nodes, secret) == [as |-> "same", masked |-> secret /\ nodes <= MaskNodes]

-----------------------------------------------------------------------------
(* Gate B before the engine: headers and the declared schema. *)

\* _sets_transport_headers: a walk of the arguments' nodes that meets the header member at
\* place `at' (0: nowhere), or gives up and refuses.
SetsTransportHeaders(nodes, at) == (at # 0 /\ at <= HeaderNodes) \/ nodes > HeaderNodes

\* A schema is [admits, closed, required, props, uncheckable, limits]: props gives each declared
\* argument its types ({}: none that can be checked), uncheckable the arguments (or "*") with one of
\* _UNCHECKABLE_KEYWORDS, limits what other keywords the checker does not evaluate (enum, const,
\* pattern, minimum) admit of an argument.  Argument values are their JSON type.
JsonTypes == {"string", "integer", "number", "boolean"}
\* Faulty variant: a float is never an integer.
IsOf_Strict(value, wanted) == value \in wanted \/ (value \in {"integer", "whole"} /\ "number" \in wanted)

\* The type test of _schema_violations.
IsOf(value, wanted) ==
    \/ value \in wanted
    \/ value = "integer" /\ "number" \in wanted
    \/ value = "whole" /\ (wanted \cap {"number", "integer"}) # {}     \* 2.0 is a JSON integer

SchemaViolations(schema, args) ==
    IF ~schema.admits THEN {}
    ELSE {<<"missing", k>> : k \in schema.required \ DOMAIN args}
         \cup {<<"undeclared", k>> : k \in IF schema.closed
                                          THEN DOMAIN args \ (DOMAIN schema.props \cup schema.required) ELSE {}}
         \cup {<<"type", k>> : k \in {k \in DOMAIN schema.props \cap DOMAIN args :
                                        schema.props[k] # {} /\ ~IsOf(args[k], schema.props[k])}}

\* _schema_enforceability: does the schema hold none of the keywords that are looked for?
FullyEnforced(schema) == schema.admits /\ schema.uncheckable = {}

-----------------------------------------------------------------------------
(* One evaluation: an input, and what the gates make of it. *)

VARIABLES in, out
vars == <<in, out>>

CONSTANTS Docs, Blocks, Schemas, Arguments      \* the inputs tried

Inputs ==
    [gate : {"tools/list", "item list"}, docs : SeqOf(Docs, 3)]
    \cup [gate : Surfaces, doc : Docs]
    \cup [gate : {"content"}, blocks : SeqOf(Blocks, 3)]
    \cup [gate : {"structured"}, nodes : 1..MaskNodes + 1, secret : BOOLEAN, sev : {0, Strip}]
    \cup [gate : {"headers"}, nodes : 1..HeaderNodes + 1, at : 0..HeaderNodes + 1]
    \cup [gate : {"schema"}, schema : Schemas, args : Arguments]

Init == in \in Inputs /\ out = <<>>

Evaluate ==
    /\ out = <<>>
    /\ out' = CASE in.gate = "tools/list" -> ToolsList(in.docs)
                [] in.gate = "item list" -> ItemList(in.docs)
                [] in.gate \in Surfaces -> <<Message(in.gate, in.doc)>>
                [] in.gate = "content" -> GuardContent(in.blocks)
                [] in.gate = "structured" -> <<GuardStructured(in.nodes, in.secret)>>
                [] in.gate = "headers" -> <<SetsTransportHeaders(in.nodes, in.at)>>
                [] in.gate = "schema" -> <<SchemaViolations(in.schema, in.args)>>
    /\ UNCHANGED in

Next == Evaluate
Spec == Init /\ [][Next]_vars

Fits(d) == d.kind = "object" /\ d.cost <= Least(ItemBudget, ListBudget) /\ ~d.deep /\ d.nodes <= Least(ItemNodes, ListNodes)

\* No entry of a listing, no message and no text of a result that the scanner is given reaches the
\* model as the server sent it unless it was read in full and is harmless, whatever came before it
\* in the message and used up the budget.  Not given to it are structured content and a text beside
\* an embedded resource's (ResultsAreRead).
NothingUnreadPasses ==
    out # <<>> =>
      /\ in.gate \in {"tools/list", "item list"} =>
           \A i \in DOMAIN out : out[i] = "pass" =>
              LET d == in.docs[i] IN Fits(d) /\ ~d.alias /\ d.sev < Sanitize
      /\ in.gate = "tools/list" =>
           \A i \in DOMAIN out : out[i] # "strip" => in.docs[i].pin \notin {"drift", "quarantined"} /\ in.docs[i].sev < Strip
      /\ in.gate \in Surfaces => (out[1] = "pass" => in.doc.cost <= TextBudget /\ ~in.doc.deep /\ in.doc.sev = 0)
      /\ in.gate = "content" =>
           \A i \in DOMAIN out : in.blocks[i].text /\ out[i].as = "same" =>
              in.blocks[i].cost <= ContentBudget /\ in.blocks[i].sev = 0

\* The budget is shared, and no earlier part is charged for more than it cost: a listing or a
\* result whose parts all fit the budget together is read to its end, so harmless parts pass
\* and every secret is masked.
WithinBudgetIsRead ==
    out # <<>> =>
      /\ in.gate \in {"tools/list", "item list"} =>
           LET total == FoldSeq(LAMBDA d, n : n + d.cost, 0, in.docs)
               nodes == FoldSeq(LAMBDA d, n : n + d.nodes, 0, in.docs)
           IN total <= ListBudget /\ nodes <= ListNodes =>
                \A i \in DOMAIN out :
                   LET d == in.docs[i] IN
                   /\ Fits(d) /\ d.named /\ d.sev = 0 /\ ~d.alias /\ d.pin = "pinned"
                   /\ \A j \in 1..i : in.docs[j].twin = d.twin => in.docs[j].id = d.id
                   => out[i] = "pass"
      /\ in.gate = "content" =>
           (FoldSeq(LAMBDA b, n : n + Most(b.cost, b.len), 0, in.blocks) < ContentBudget =>
              \A i \in DOMAIN out : /\ out[i].as # "fenced unread"
                                    /\ in.blocks[i].text /\ in.blocks[i].secret => out[i].masked)

\* A look-alike of a name listed earlier is withheld, whichever of the two is the impostor.
LookAlikesAreWithheld ==
    out # <<>> /\ in.gate = "tools/list" =>
      \A i, j \in DOMAIN out :
         LET d == in.docs[i]
             e == in.docs[j]
         IN i < j /\ d.twin = e.twin /\ d.id # e.id /\ {d.kind, e.kind} = {"object"} /\ d.named /\ e.named
            => "strip" \in {out[i], out[j]}

\* What the three keywords the checker evaluates say, a required name being a declared one (in JSON
\* Schema it is not: `additionalProperties: false' would refuse it; firewall.py:1406-1409).
ConformsTo(schema, args) ==
    /\ schema.required \subseteq DOMAIN args
    /\ schema.closed => DOMAIN args \subseteq DOMAIN schema.props \cup schema.required
    /\ \A k \in DOMAIN args : k \in DOMAIN schema.props /\ schema.props[k] # {} =>
         \E t \in schema.props[k] :
            t = args[k] \/ (args[k] \in {"integer", "whole"} /\ t \in {"number", "integer"})
\* A schema that is reported as enforced refuses exactly the calls that break its `required',
\* `properties.type' or `additionalProperties: false', whatever they are combined with, limits of
\* other keywords included, which it neither checks nor reports (EnforcedIsWhole).
SchemaAgrees ==
    out # <<>> /\ in.gate = "schema" =>
       (FullyEnforced(in.schema) => (out[1] = {} <=> ConformsTo(in.schema, in.args)))

(* Statements of the code that do not hold. *)

\* "`unchecked` never reaches an operator spelled as `conformant`" (firewall.py:1374).  Refuted: only
\* fourteen keywords are looked for, and an enum, const, pattern or minimum is not among them.
EnforcedIsWhole ==
    out # <<>> /\ in.gate = "schema" /\ FullyEnforced(in.schema) /\ out[1] = {} =>
        \A k \in DOMAIN in.args \cap DOMAIN in.schema.limits : in.args[k] \in in.schema.limits[k]

\* "a server could move an identical payload one level down and skip BOTH halves of this guard"
\* (firewall.py:2536, of what is no longer possible).  Refuted: it can add a resource with a harmless
\* text of its own to the block, or use structured content, which is masked and not scanned.
ResultsAreRead ==
    out # <<>> =>
      /\ in.gate = "content" => \A i \in DOMAIN out : in.blocks[i].text /\ out[i].as = "same" => in.blocks[i].aside = 0
      /\ in.gate = "structured" /\ out[1].as = "same" => in.sev = 0
=============================================================================
