--------------------------- MODULE CallArguments ----------------------------
(***************************************************************************)
(* sdk/core/wrapping.py: the payload an adapter puts to the engine for a   *)
(* call of a wrapped tool.  callable_signature chooses the signature to    *)
(* read, _tool_params binds the call against it.  The values of a call are *)
(* named by where they stand in it: "p1", "p2" by position, a keyword's    *)
(* value by its keyword.                                                   *)
(***************************************************************************)
EXTENDS Naturals, Sequences, FiniteSets, SequencesExt

CONSTANTS
    Names,          \* parameter names and keywords
    Control,        \* _FRAMEWORK_CONTROL_KWARGS
    Injected,       \* _FRAMEWORK_INJECTED_PARAMS
    MaxPositional   \* bound: positional parameters, and positional values

VARIABLES in, out
vars == <<in, out>>

Positions == <<"p1", "p2", "p3">>
\* A signature: its positional names in order, keyword-only names, *args,
\* **kwargs, and whether its parameters have no defaults.
Signatures ==
    [pos : {s \in SeqOf(Names, MaxPositional) : IsInjective(s)}, only : {{}} \cup {{n} : n \in Names},
     star : BOOLEAN, starstar : BOOLEAN, need : BOOLEAN]
Star == [pos |-> <<>>, only |-> {}, star |-> TRUE, starstar |-> TRUE, need |-> FALSE]

\* A tool: the callable that has the body, whether a decorator stands before
\* it (declared *args, **kwargs, and passing a value of its own first),
\* whether the framework calls it through a trampoline of that shape, and
\* whether the names the framework declares for it (args_schema) are known.
Tools ==
    {t \in [body : Signatures, form : {"plain", "decorated", "builtin"}, trampoline : BOOLEAN, declared : BOOLEAN] :
        /\ ToSet(t.body.pos) \cap t.body.only = {}
        /\ t.form = "decorated" => t.body.pos # <<>>}
Calls == [n : 0..MaxPositional, keys : SUBSET Names, opaque : BOOLEAN]

Args(call) == SubSeq(Positions, 1, call.n)

-----------------------------------------------------------------------------
Declares(sig) == ToSet(sig.pos) \cup sig.only

\* Signature.bind: names, the rest of the positions, the rest of the keywords.
Fits(sig, args, keys) ==
    LET taken == ToSet(SubSeq(sig.pos, 1, IF Len(args) < Len(sig.pos) THEN Len(args) ELSE Len(sig.pos))) IN
    /\ Len(args) > Len(sig.pos) => sig.star
    /\ keys \cap taken = {}
    /\ keys \subseteq Declares(sig) \/ sig.starstar
    /\ sig.need => Declares(sig) \subseteq keys \cup taken

Bound(sig, args, keys) ==
    [named |-> {<<sig.pos[i], args[i]>> : i \in DOMAIN sig.pos \cap DOMAIN args}
               \cup {<<k, k>> : k \in keys \cap Declares(sig)},
     rest |-> {args[i] : i \in DOMAIN args \ DOMAIN sig.pos},
     extra |-> keys \ Declares(sig)]

-----------------------------------------------------------------------------
(* callable_signature *)

Own(t) == IF t.form = "plain" THEN t.body ELSE Star

\* _named_positionals, _binds_no_names
NamedPositionals(sig) == ToSet(sig.pos)
BindsNoNames(sig) == sig.pos = <<>> /\ sig.star

\* _declared_arg_names
DeclaredArgNames(t) == IF t.declared THEN Declares(t.body) ELSE {}

\* Faulty variant: inspect.signature follows __wrapped__.
CallableSignature_Followed(t) == t.body

\* The trampoline is looked through only when its target binds names, and the
\* framework declares all of them.
CallableSignature(t) ==
    IF ~t.trampoline THEN Own(t)
    ELSE IF t.form = "builtin" \/ BindsNoNames(Own(t)) \/ ~(NamedPositionals(Own(t)) \subseteq DeclaredArgNames(t))
            \/ DeclaredArgNames(t) = {} THEN Star
    ELSE Own(t)

Unreadable(t) == t.form = "builtin" /\ ~t.trampoline

-----------------------------------------------------------------------------
(* _tool_params: a set of name, value pairs; the list "args" has one pair  *)
(* for each of its members.                                                *)

Opaque(call, name) == call.opaque /\ name \in Control

\* Faulty variant: control names are dropped wherever they come from.
DeclaredValue_ByName(call, name, value) == IF name \in Control THEN {} ELSE {<<name, value>>}

\* _declared_value, _is_representable: plumbing under a name the framework
\* injects is dropped, anything else that cannot be shown is a sentinel.
DeclaredValue(call, name, value) ==
    IF ~Opaque(call, name) THEN {<<name, value>>}
    ELSE IF name \in Injected THEN {} ELSE {<<name, "unrepresentable">>}

Listed(args) == {<<"args", args[i]>> : i \in DOMAIN args}

\* The names cannot be trusted: the keywords as they are, or else the list.
Unnamed(call) ==
    LET clean == {<<k, k>> : k \in call.keys \ Control} IN IF clean # {} THEN clean ELSE Listed(Args(call))

Payload(t, call) ==
    LET sig == CallableSignature(t)
        attempts == {keys \in {call.keys, call.keys \ Control} : Fits(sig, Args(call), keys)}
        keys == IF call.keys \in attempts THEN call.keys ELSE call.keys \ Control
        b == Bound(sig, Args(call), keys)
        named == UNION {DeclaredValue(call, p[1], p[2]) : p \in b.named} \cup {<<k, k>> : k \in b.extra \ Control}
        rest == {<<"args", v>> : v \in b.rest}
    IN IF Unreadable(t) \/ attempts = {} THEN Unnamed(call)
       ELSE LET all == named \cup IF \E p \in named : p[1] = "args" THEN {} ELSE rest
            IN IF all # {} THEN all ELSE Listed(Args(call))

-----------------------------------------------------------------------------
\* What the body gets: a trampoline keeps injected plumbing its target does
\* not declare, a decorator passes a value of its own first.
Given(t, call) ==
    [args |-> (IF t.form = "decorated" THEN <<"injected">> ELSE <<>>) \o Args(call),
     keys |-> IF t.trampoline THEN call.keys \ (Injected \ Declares(t.body)) ELSE call.keys]

Runs(t, call) == LET g == Given(t, call) IN Fits(t.body, g.args, g.keys)
Received(t, call) == LET g == Given(t, call) IN Bound(t.body, g.args, g.keys)

Init == in \in (Tools \X Calls) /\ out = <<>>

\* The wrapper protect puts around a tool: what it asks the policy about.
Wrapper == out = <<>> /\ out' = <<Payload(in[1], in[2])>> /\ UNCHANGED in
Next == Wrapper
Spec == Init /\ [][Next]_vars

-----------------------------------------------------------------------------
Answered == out # <<>> /\ Runs(in[1], in[2])
\* The signature read is the tool's own.
Readable(t) == t.form = "plain" /\ CallableSignature(t) = t.body
\* It takes the call as it arrived, or has no name in common with the plumbing.
Exact(t, call) == Fits(t.body, Args(call), call.keys) \/ Declares(t.body) \cap Control = {}
Data(t, call) ==
    LET r == Received(t, call) IN
    {p \in r.named : p[2] # "injected" /\ ~(Opaque(call, p[1]) /\ p[1] \in Injected)}
        \cup {<<k, k>> : k \in r.extra \ Control}

\* No name is invented (the docstring of _tool_params: a missing name is
\* fail-closed, a wrong one is not): whenever the call runs, a value shown
\* under a name is the value the body gets under that name.
NamesAreTrue ==
    Answered => \A p \in out[1] :
        p[1] = "args" \/ p[2] = "unrepresentable" \/ p \in Received(in[1], in[2]).named
            \/ p[1] \in Received(in[1], in[2]).extra

\* Nothing that a tool whose own signature is read is given is hidden from
\* the engine: every argument is shown by name or in the list, or as a value that
\* cannot be represented, as long as the call fits that signature as it came
\* or the signature declares no control name (Exact; DeclaredIsKept is about
\* the other calls).  A parameter or keyword called "args" takes the list's
\* place and is left out.
ReadableCallsAreWhole ==
    Answered /\ Readable(in[1]) /\ Exact(in[1], in[2]) /\ "args" \notin Declares(in[1].body) \cup in[2].keys =>
        /\ \A p \in Data(in[1], in[2]) : p \in out[1] \/ <<p[1], "unrepresentable">> \in out[1] \/ <<"args", p[2]>> \in out[1]
        /\ \A v \in Received(in[1], in[2]).rest : <<"args", v>> \in out[1]

\* What the comment above _UNREPRESENTABLE and the docstring of
\* _declared_value say, and what does not hold: a parameter the tool declares
\* is kept, whatever it is named.  Where the framework hands over plumbing the
\* tool does not declare, the second attempt to bind removes every value with
\* a control name, the declared ones too.
DeclaredIsKept ==
    Answered /\ Readable(in[1]) => \A p \in Data(in[1], in[2]) : \E q \in out[1] : q[2] \in {p[2], "unrepresentable"}

\* The same of every value of every tool does not hold either: where no
\* signature can be read, one keyword is enough for the positional values to
\* be left out, and a parameter called "args" displaces the others.
EveryCallIsWhole ==
    Answered => \A i \in DOMAIN Args(in[2]) : \E p \in out[1] : p[2] \in {Args(in[2])[i], "unrepresentable"}
=============================================================================
