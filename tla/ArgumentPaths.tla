--------------------------- MODULE ArgumentPaths ----------------------------
(***************************************************************************)
(* The names of a call's arguments.  OPAEvaluator._walk_paths flattens the *)
(* arguments into the paths a rule can speak of; the audit row keeps the   *)
(* names only, derived by the same walk over a copy without values; the    *)
(* adapters flatten the schema a framework declares.  A key is a sequence  *)
(* of segments, <<"a", "b">> being the key "a.b", so a path is one too.    *)
(* An object is a sequence of entries; a leaf is a string value "x" or     *)
(* "y", "x..": a string too long to be read whole, which begins as "x", or *)
(* "n": not a string, or in a schema a declaration that may hide further   *)
(* names.  A list is an object whose keys nobody chose.                    *)
(***************************************************************************)
EXTENDS Naturals, Sequences, FiniteSets, SequencesExt, FiniteSetsExt

CONSTANTS
    Trees,
    Fold(_),        \* _fold_path, segment by segment
    Masked,         \* segments that _safe_name rewrites
    MaxPaths, MaxDepth, MaxLen, MaxNodes

VARIABLES in, out
vars == <<in, out>>

Object(e) == [entries |-> e, leaf |-> ""]
Leaf(v) == [entries |-> <<>>, leaf |-> v]
IsLeaf(n) == n.leaf # ""
KeysOf(n) == {n.entries[i].key : i \in DOMAIN n.entries}
Empty == <<"">>
Join(prefix, key) == IF prefix # <<>> THEN prefix \o key ELSE IF key = Empty THEN <<>> ELSE key
Clip(path) == SubSeq(path, 1, IF Len(path) < MaxLen THEN Len(path) ELSE MaxLen)
Twins(paths) == {p \in paths : \E q \in paths \ {p} : Len(p) = Len(q) /\ \A i \in DOMAIN p : Fold(p[i]) = Fold(q[i])}

\* Faulty variant: only an empty key is suspect.
MintsAPath_EmptyOnly(key, n) == key = Empty

\* _mints_a_path: the key's first segment is the name of a sibling.
MintsAPath(key, n) == key = Empty \/ (Len(key) > 1 /\ <<key[1]>> \in KeysOf(n))

-----------------------------------------------------------------------------
(* _walk_paths.  acc: what is emitted so far.                              *)

\* What is kept of a value: its first _MAX_PATH_VALUE_LEN characters.
Clipped(value) == IF value = "x.." THEN "x" ELSE value

\* Faulty variant: the last value wins.
Emit_LastWins(acc, path, value, forged) ==
    [out |-> [p \in DOMAIN acc.out \cup {path} |-> IF p = path THEN Clipped(value) ELSE acc.out[p]],
     ambiguous |-> acc.ambiguous \cup IF forged \/ Clipped(value) # value THEN {path} ELSE {}]

\* Faulty variant: what was cut off a value is not told.
Emit_ClipsQuietly(acc, path, value, forged) ==
    [out |-> [p \in DOMAIN acc.out \cup {path} |-> IF p = path THEN Clipped(value) ELSE acc.out[p]],
     ambiguous |-> acc.ambiguous \cup
        IF forged \/ (path \in DOMAIN acc.out /\ acc.out[path] # Clipped(value)) THEN {path} ELSE {}]

Emit(acc, path, value, forged) ==
    [out |-> [p \in DOMAIN acc.out \cup {path} |-> IF p = path THEN Clipped(value) ELSE acc.out[p]],
     ambiguous |-> acc.ambiguous \cup
        IF forged \/ Clipped(value) # value \/ (path \in DOMAIN acc.out /\ acc.out[path] # Clipped(value))
        THEN {path} ELSE {}]

RECURSIVE Walk(_, _, _, _, _)
Walk(n, prefix, depth, forged, acc) ==
    IF Cardinality(DOMAIN acc.out) >= MaxPaths \/ depth > MaxDepth THEN acc
    ELSE IF IsLeaf(n) THEN IF n.leaf = "n" \/ prefix = <<>> THEN acc ELSE Emit(acc, prefix, n.leaf, forged)
    ELSE FoldLeft(LAMBDA a, e :
             LET path == Join(prefix, e.key) IN
             Walk(e.child, Clip(path), depth + 1, forged \/ MintsAPath(e.key, n) \/ Len(path) > MaxLen, a),
           acc, n.entries)

Nothing == [out |-> <<>>, ambiguous |-> {}]
WalkPaths(n) ==
    LET w == Walk(n, <<>>, 0, FALSE, Nothing) IN
    [out |-> w.out, ambiguous |-> w.ambiguous \cup Twins(DOMAIN w.out)]

-----------------------------------------------------------------------------
(* _param_key_shadow and _param_key_set.                                   *)

\* Faulty variant: what is left out is not told.
Exhausted_Silent(acc) == FALSE

Exhausted(acc) == acc.leaves >= MaxPaths \/ acc.nodes >= MaxNodes

\* A copy of the tree without its values: "x" for a string, "y" for any
\* other leaf.
RECURSIVE Shadow(_, _, _)
Shadow(n, depth, acc) ==
    LET a == [acc EXCEPT !.nodes = @ + 1] IN
    IF depth > MaxDepth THEN [a EXCEPT !.truncated = TRUE, !.tree = Leaf("y")]
    ELSE IF IsLeaf(n) THEN [a EXCEPT !.leaves = @ + 1, !.tree = Leaf(IF n.leaf = "n" THEN "y" ELSE "x")]
    ELSE LET all == FoldLeft(LAMBDA b, e :
                IF b.stop \/ b.acc.leaves >= MaxPaths \/ b.acc.nodes >= MaxNodes
                THEN [b EXCEPT !.stop = TRUE, !.acc.truncated = @ \/ Exhausted(b.acc)]
                ELSE LET c == Shadow(e.child, depth + 1, b.acc) IN
                     [b EXCEPT !.acc = c, !.kept = Append(@, [key |-> e.key, child |-> c.tree])],
                [stop |-> FALSE, acc |-> a, kept |-> <<>>], n.entries)
         IN [all.acc EXCEPT !.tree = Object(all.kept)]

SafeName(p) == [i \in DOMAIN p |-> IF p[i] \in Masked THEN "*" ELSE p[i]]

\* Faulty variant: every observed name is offered to a rule.
Pinnable_All(w, flagged) == {SafeName(p) : p \in DOMAIN w.out} \ flagged

\* The names a rule may pin: strings, not rewritten, not ambiguous.
Pinnable(w, flagged) == {p \in DOMAIN w.out : w.out[p] = "x" /\ SafeName(p) = p} \ flagged

ParamKeySet(n) ==
    LET s == Shadow(n, 0, [leaves |-> 0, nodes |-> 0, truncated |-> FALSE, tree |-> n])
        w == WalkPaths(s.tree)
        flagged == {SafeName(p) : p \in w.ambiguous}
    IN [names |-> {SafeName(p) : p \in DOMAIN w.out}, flagged |-> flagged, pinnable |-> Pinnable(w, flagged),
        truncated |-> s.truncated \/ Cardinality(DOMAIN w.out) >= MaxPaths]

-----------------------------------------------------------------------------
(* The adapters' _collect and _declared_param_keys.                        *)

\* What the adapters read of a declaration (a model, a JSON schema, a list of parameters): its fields
\* (_schema_fields), and whether a field holds more than they can tell (_child_declaration).
Fields(n) == n.entries
Hides(n) == n.leaf = "n"

DeclaredMints(key, n) == Len(key) > 1 /\ <<key[1]>> \in KeysOf(n)

\* Faulty variant: a second argument of the same name goes unnoticed.
Add_Quietly(acc, path, n) ==
    [acc EXCEPT !.keys = @ \cup {path}, !.emitted = TRUE, !.truncated = @ \/ Hides(n)]

\* A leaf: a second arrival is ambiguous and makes the set incomplete.
Add(acc, path, n) ==
    [acc EXCEPT !.keys = @ \cup {path}, !.emitted = TRUE, !.truncated = @ \/ Hides(n) \/ path \in acc.keys,
                !.ambiguous = IF path \in acc.keys THEN @ \cup {path} ELSE @]

RECURSIVE Collect(_, _, _, _)
Collect(n, prefix, depth, acc) ==
    IF depth > MaxDepth THEN [acc EXCEPT !.truncated = TRUE, !.emitted = FALSE]
    ELSE FoldLeft(LAMBDA a, e :
            LET path == prefix \o e.key
                b == [a EXCEPT !.nodes = @ + 1]
                c == IF DeclaredMints(e.key, n) THEN [b EXCEPT !.ambiguous = @ \cup {path}] ELSE b
                d == IF IsLeaf(e.child) THEN [c EXCEPT !.emitted = FALSE] ELSE Collect(e.child, path, depth + 1, c)
            IN IF a.stop THEN a
               ELSE IF b.nodes > MaxNodes THEN [b EXCEPT !.truncated = TRUE, !.stop = TRUE]
               ELSE IF e.key = Empty \/ Len(path) > MaxLen THEN [b EXCEPT !.truncated = TRUE]
               ELSE IF Cardinality(b.keys) >= MaxPaths THEN [b EXCEPT !.truncated = TRUE, !.stop = TRUE]
               ELSE IF d.emitted THEN [d EXCEPT !.stop = FALSE]
               ELSE Add([d EXCEPT !.stop = FALSE, !.emitted = a.emitted], path, e.child),
          [acc EXCEPT !.emitted = FALSE, !.stop = FALSE], Fields(n))

DeclaredParamKeys(n) ==
    LET c == Collect(n, <<>>, 0, [keys |-> {}, ambiguous |-> {}, truncated |-> FALSE, nodes |-> 0,
                                   emitted |-> FALSE, stop |-> FALSE])
    IN [keys |-> c.keys, truncated |-> c.truncated, ambiguous |-> c.ambiguous \cup Twins(c.keys)]

Init == in \in Trees /\ out = <<>>
Next == out = <<>> /\ out' = <<[engine |-> WalkPaths(in), row |-> ParamKeySet(in), declared |-> DeclaredParamKeys(in)]>> /\ UNCHANGED in
Spec == Init /\ [][Next]_vars

-----------------------------------------------------------------------------
\* The leaves of the whole tree, each with the path its keys spell, and
\* whether it is nested there key by key.
RECURSIVE Leaves(_, _, _, _)
Leaves(n, prefix, route, nested) ==
    IF IsLeaf(n) THEN {[path |-> prefix, value |-> n.leaf, route |-> route, nested |-> nested]}
    ELSE UNION {LET e == n.entries[i] IN
                Leaves(e.child, Join(prefix, e.key), Append(route, i), nested /\ Len(e.key) = 1 /\ e.key # Empty) :
                i \in DOMAIN n.entries}
RECURSIVE Declared(_, _)
Declared(n, route) ==
    IF n.entries = <<>> THEN IF route = <<>> THEN {} ELSE {route}
    ELSE UNION {Declared(n.entries[i].child, Append(route, i)) : i \in DOMAIN n.entries}
RECURSIVE Depth(_)
Depth(n) == IF IsLeaf(n) \/ n.entries = <<>> THEN 0 ELSE 1 + Max({Depth(n.entries[i].child) : i \in DOMAIN n.entries})
All == Leaves(in, <<>>, <<>>, TRUE)
Strings == {l \in All : l.value # "n"}
Whole == Cardinality(DOMAIN out[1].engine.out) < MaxPaths /\ Depth(in) <= MaxDepth

\* A path the engine does not call ambiguous carries what the arguments hold
\* nested there, whole, if they hold anything: a key that spells the path is
\* never read in its place, even when the walk is cut short before the nested
\* one, nor the beginning of a long value for all of it.
NestedIsNotShadowed ==
    out # <<>> => \A p \in DOMAIN out[1].engine.out \ out[1].engine.ambiguous :
        \A l \in All : l.path = p /\ l.nested => l.value = out[1].engine.out[p]

\* A path the engine does not call ambiguous has one value in the call,
\* whatever keys its sender chose (the docstring of _walk_paths: a forged or
\* colliding path is named), as long as the walk was not cut short.
OneValueAPath ==
    out # <<>> /\ Whole => \A p \in DOMAIN out[1].engine.out \ out[1].engine.ambiguous :
        {l.value : l \in {k \in Strings : k.path = p}} = {out[1].engine.out[p]}

\* A set of names that is not called truncated is complete: every argument
\* with a name is among them, by its name or by what the masking makes of it.
CompleteUnlessTold ==
    out # <<>> /\ ~out[1].row.truncated => \A l \in All : l.path = <<>> \/ Len(l.path) > MaxLen \/ SafeName(l.path) \in out[1].row.names

\* A rule that pins an offered name speaks of a path the engine derives from
\* this very call (the docstring of _param_key_set: otherwise an intent refuses
\* every call of the tool), and trusts, unless two values of the call arrive at
\* it or its value is too long to be read whole: names alone show neither.
PinnedIsDerived ==
    out # <<>> /\ ~out[1].row.truncated => \A p \in out[1].row.pinnable :
        /\ p \in DOMAIN out[1].engine.out
        /\ p \in out[1].engine.ambiguous =>
            LET there == {l \in Strings : l.path = p} IN Cardinality(there) > 1 \/ \E l \in there : l.value = "x.."

\* A declared set not called truncated has a name of its own for each
\* argument the framework declares, an object without fields being one.
DeclaredUnlessTold ==
    out # <<>> /\ ~out[1].declared.truncated => Cardinality(out[1].declared.keys) = Cardinality(Declared(in, <<>>))

\* What _mints_a_path says, and what does not hold: a second route to a path
\* exists exactly when the key's first segment names a sibling.  Two keys may
\* share a head that is itself no key of the object.
SecondRoutesAreSeen ==
    \A l, k \in All : l.path = k.path /\ l.route[1] # k.route[1] =>
        MintsAPath(in.entries[l.route[1]].key, in) \/ MintsAPath(in.entries[k.route[1]].key, in)

\* What DeclaredToolSchema says, and what does not hold: the ambiguous paths
\* are among the published ones.  A suspect key that holds an object is named,
\* and only the paths below it are published.
AmbiguousAreKeys == out # <<>> => out[1].declared.ambiguous \subseteq out[1].declared.keys
=============================================================================
