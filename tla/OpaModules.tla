------------------------------ MODULE OpaModules ------------------------------
(***************************************************************************)
(* The modules an evaluator keeps in its OPA server (norviq/engine/        *)
(* evaluator.py and opa_client.py).  An evaluation reads the rego of its   *)
(* key once, pushes it unless the evaluator's memo of digests (_pushed)    *)
(* says OPA holds it, and queries the key's module; every push and query   *)
(* is a request that may fail, be abandoned at its deadline and still be   *)
(* applied later.  Evaluations of one key share one module, dry runs of a  *)
(* scope included, and dry-run modules are evicted past a cap.             *)
(***************************************************************************)
EXTENDS Naturals, Sequences, SequencesExt, FiniteSets

CONSTANTS Evals,            \* evaluations that may be under way together
          PolicyKeys,       \* keys of stored policies, whose rego a save replaces
          DryKeys,          \* keys of dry runs, each call bringing its own rego
          MaxVersion,       \* bound: versions of a key's rego
          MaxDry,           \* _MAX_DRYRUN_MODULES
          MaxFaults,        \* bound: restarts of OPA, failed requests and expired deadlines
          MaxBegins         \* bound: evaluations started

Keys == PolicyKeys \cup DryKeys
Versions == 1..MaxVersion
None == 0

VARIABLES
    current,    \* the loader's rego of each policy key
    opa,        \* the module OPA holds for each key (None: no such module)
    late,       \* pushes whose sender has given up but which OPA may still apply
    pushed,     \* _pushed: the digest the evaluator believes OPA holds
    dry,        \* _dryrun_keys, least recently used first
    ev,         \* each evaluation: where it is, its key, rego, attempt and answer
    faults, begins,
    mixed,      \* history: keys two different texts of which were being pushed together
    unnoted     \* history: keys a push of which ended without its answer, until one is answered

vars == <<current, opa, late, pushed, dry, ev, faults, begins, mixed, unnoted>>

Idle == [pc |-> "idle", key |-> None, rego |-> None, try |-> 0, then |-> "idle", old |-> None,
         answer |-> None, crossed |-> FALSE]
Stages == {"idle", "warm", "ensure", "query", "requery", "send", "applied", "track", "delete", "answered", "refused"}

Init ==
    /\ current = [k \in PolicyKeys |-> 1]
    /\ opa = [k \in Keys |-> None] /\ late = {}
    /\ pushed = [k \in Keys |-> None] /\ dry = <<>>
    /\ ev = [e \in Evals |-> Idle]
    /\ faults = 0 /\ begins = 0 /\ mixed = {} /\ unnoted = {}

Active(e) == ev[e].pc \notin {"idle", "answered", "refused"}
Pushing(e) == ev[e].pc \in {"send", "applied"}
Go(e, pc) == ev' = [ev EXCEPT ![e].pc = pc]

-----------------------------------------------------------------------------
(* One evaluation. *)

\* A call warms the module first and has two attempts; a dry run (_validate_rego, _replay_recent)
\* is one bare _evaluate_opa.
Start(k) == [Idle EXCEPT !.key = k, !.pc = IF k \in DryKeys THEN "ensure" ELSE "warm",
                         !.try = IF k \in DryKeys THEN 2 ELSE 1]

\* evaluate reads the rego of the candidate (a dry run brings its own); this history mark tells
\* the evaluations of one key with different texts that overlap.
Begin(e, k, v) ==
    /\ ~Active(e) /\ begins < MaxBegins
    /\ k \in PolicyKeys => v = current[k]
    /\ LET others == {f \in Evals \ {e} : Active(f) /\ ev[f].key = k /\ ev[f].rego # v}
       IN ev' = [f \in Evals |-> IF f = e THEN [Start(k) EXCEPT !.rego = v, !.crossed = others # {}]
                                 ELSE IF f \in others THEN [ev[f] EXCEPT !.crossed = TRUE] ELSE ev[f]]
    /\ begins' = begins + 1
    /\ UNCHANGED <<current, opa, late, pushed, dry, faults, mixed, unnoted>>

\* _push_module is called: the request leaves.
Send(e, next) ==
    LET x == ev[e] IN
    /\ ev' = [ev EXCEPT ![e].pc = "send", ![e].then = next]
    /\ mixed' = IF \/ \E f \in Evals \ {e} : Pushing(f) /\ ev[f].key = x.key /\ ev[f].rego # x.rego
                   \/ \E m \in late : m[1] = x.key /\ m[2] # x.rego
                THEN mixed \cup {x.key} ELSE mixed

\* Faulty variant: any digest of the key will do.
Known_AnyVersion(e) == pushed[ev[e].key] # None

\* _ensure_module_pushed: nothing to do when the memo has the digest.
Known(e) == pushed[ev[e].key] = ev[e].rego

\* _warm_module before the deadline, then _ensure_module_pushed of _evaluate_opa_server.
Ensure(e) ==
    /\ ev[e].pc \in {"warm", "ensure"}
    /\ LET next == IF ev[e].pc = "warm" THEN "ensure" ELSE "query"
       IN IF Known(e) THEN Go(e, next) /\ UNCHANGED mixed ELSE Send(e, next)
    /\ UNCHANGED <<current, opa, late, pushed, dry, faults, begins, unnoted>>

\* OPA compiles the module and answers.
Apply(e) ==
    /\ ev[e].pc = "send"
    /\ opa' = [opa EXCEPT ![ev[e].key] = ev[e].rego]
    /\ Go(e, "applied")
    /\ UNCHANGED <<current, late, pushed, dry, faults, begins, mixed, unnoted>>

\* The answer arrives: the digest is noted.  Only a push of _ensure_module_pushed is tracked
\* as a dry run.
PushReturns(e) ==
    LET x == ev[e] IN
    /\ x.pc = "applied"
    /\ pushed' = [pushed EXCEPT ![x.key] = x.rego]
    /\ IF x.key \in DryKeys /\ x.then # "requery"
       THEN dry' = Append(Remove(dry, x.key), x.key) /\ Go(e, "track")
       ELSE dry' = dry /\ Go(e, x.then)
    /\ unnoted' = unnoted \ {x.key}
    /\ UNCHANGED <<current, opa, late, faults, begins, mixed>>

\* _track_dryrun_module: one turn of its loop, up to the deletion it awaits.
Track(e) ==
    /\ ev[e].pc = "track"
    /\ IF Len(dry) > MaxDry
       THEN /\ ev' = [ev EXCEPT ![e].pc = "delete", ![e].old = Head(dry)]
            /\ pushed' = [pushed EXCEPT ![Head(dry)] = None] /\ dry' = Tail(dry)
       ELSE Go(e, ev[e].then) /\ UNCHANGED <<pushed, dry>>
    /\ UNCHANGED <<current, opa, late, faults, begins, mixed, unnoted>>

\* delete_policy; its failure is swallowed.
Delete(e) ==
    /\ ev[e].pc = "delete"
    /\ \/ opa' = [opa EXCEPT ![ev[e].old] = None] /\ UNCHANGED faults
       \/ faults < MaxFaults /\ faults' = faults + 1 /\ UNCHANGED opa
    /\ Go(e, "track")
    /\ UNCHANGED <<current, late, pushed, dry, begins, mixed, unnoted>>

\* An attempt raised: what follows it (_warm_module swallows; _evaluate_single tries twice).
Raised(x) ==
    IF x.then = "ensure" THEN [x EXCEPT !.pc = "ensure"]
    ELSE IF x.try = 1 THEN [x EXCEPT !.pc = "ensure", !.try = 2, !.then = "idle"]
    ELSE [x EXCEPT !.pc = "refused"]

\* A push fails: it is refused or lost, or abandoned by its time-out and applied later.
PushFails(e) ==
    LET x == ev[e] IN
    /\ Pushing(e) /\ faults < MaxFaults /\ faults' = faults + 1
    /\ ev' = [ev EXCEPT ![e] = Raised(x)]
    /\ late' \in IF x.pc = "send" THEN {late, late \cup {<<x.key, x.rego>>}} ELSE {late}
    /\ unnoted' = IF Pushing(e) THEN unnoted \cup {x.key} ELSE unnoted
    /\ UNCHANGED <<current, opa, pushed, dry, begins, mixed>>

Answered(e) ==
    ev' = [ev EXCEPT ![e].pc = "answered", ![e].answer = opa[ev[e].key],
                     ![e].crossed = @ \/ ev[e].key \in mixed \cup unnoted]

\* Faulty variant: a module OPA does not hold allows the call.
Query_Allows(e) ==
    LET x == ev[e] IN
    /\ x.pc \in {"query", "requery"}
    /\ Answered(e)
    /\ UNCHANGED <<current, opa, late, pushed, dry, faults, begins, mixed, unnoted>>

\* query: OPA answers from the module it holds; without one the module is pushed again,
\* whatever the memo says, and asked a second time; then the call is refused.
Query(e) ==
    LET x == ev[e] IN
    /\ x.pc \in {"query", "requery"}
    /\ IF opa[x.key] # None THEN Answered(e) /\ UNCHANGED mixed
       ELSE IF x.pc = "query" THEN Send(e, "requery")
       ELSE Go(e, "refused") /\ UNCHANGED mixed
    /\ UNCHANGED <<current, opa, late, pushed, dry, faults, begins, unnoted>>

QueryFails(e) ==
    /\ ev[e].pc \in {"query", "requery"} /\ faults < MaxFaults /\ faults' = faults + 1
    /\ ev' = [ev EXCEPT ![e] = Raised([ev[e] EXCEPT !.then = "query"])]
    /\ UNCHANGED <<current, opa, late, pushed, dry, begins, mixed, unnoted>>

\* wait_for(..., 2.0) of evaluate: the call is refused wherever it is.
Expire(e) ==
    LET x == ev[e] IN
    /\ Active(e) /\ x.key \in PolicyKeys /\ x.pc # "warm" /\ x.then # "ensure" /\ faults < MaxFaults /\ faults' = faults + 1
    /\ Go(e, "refused")
    /\ late' \in IF x.pc = "send" THEN {late, late \cup {<<x.key, x.rego>>}} ELSE {late}
    /\ unnoted' = IF Pushing(e) THEN unnoted \cup {x.key} ELSE unnoted
    /\ UNCHANGED <<current, opa, pushed, dry, begins, mixed>>

-----------------------------------------------------------------------------
(* Around it. *)

\* An abandoned push reaches OPA after all.
ApplyLate(m) ==
    /\ m \in late
    /\ opa' = [opa EXCEPT ![m[1]] = m[2]] /\ late' = late \ {m}
    /\ UNCHANGED <<current, pushed, dry, ev, faults, begins, mixed, unnoted>>

\* The OPA process (a sidecar, or the managed child that _ManagedServer.ensure starts again) dies
\* and comes back empty.
Restart ==
    /\ faults < MaxFaults /\ faults' = faults + 1
    /\ opa' = [k \in Keys |-> None]
    /\ UNCHANGED <<current, late, pushed, dry, ev, begins, mixed, unnoted>>

\* The policy of a key is saved anew.
Reload(k) ==
    /\ current[k] < MaxVersion
    /\ current' = [current EXCEPT ![k] = @ + 1]
    /\ UNCHANGED <<opa, late, pushed, dry, ev, faults, begins, mixed, unnoted>>

Next ==
    \/ \E e \in Evals : \/ \E k \in Keys, v \in Versions : Begin(e, k, v)
                        \/ Ensure(e) \/ Apply(e) \/ PushReturns(e) \/ Track(e) \/ Delete(e)
                        \/ PushFails(e) \/ Query(e) \/ QueryFails(e) \/ Expire(e)
    \/ \E m \in late : ApplyLate(m)
    \/ Restart
    \/ \E k \in PolicyKeys : Reload(k)

Spec == Init /\ [][Next]_vars

-----------------------------------------------------------------------------
(* Properties. *)

TypeOK ==
    /\ current \in [PolicyKeys -> Versions]
    /\ opa \in [Keys -> {None} \cup Versions] /\ late \subseteq Keys \X Versions
    /\ pushed \in [Keys -> {None} \cup Versions]
    /\ dry \in Seq(DryKeys) /\ IsInjective(dry) /\ Len(dry) <= MaxDry + Cardinality(Evals)
    /\ ev \in [Evals -> [pc : Stages, key : Keys \cup {None}, rego : {None} \cup Versions, try : 0..2,
                         then : Stages, old : DryKeys \cup {None}, answer : {None} \cup Versions, crossed : BOOLEAN]]
    /\ faults \in 0..MaxFaults /\ begins \in 0..MaxBegins /\ mixed \subseteq Keys /\ unnoted \subseteq Keys

\* A decision comes from the text the evaluation collected, through restarts of OPA, failed
\* requests and evictions, unless another text of the same key was being evaluated meanwhile, two
\* texts of it have been pushed together, or the last push of it went unanswered.
AnsweredByItsOwnText ==
    \A e \in Evals : ev[e].pc = "answered" /\ ~ev[e].crossed => ev[e].answer = ev[e].rego

\* What _ensure_module_pushed says of itself ("a no-op once OPA already has it"): when no request
\* is under way, a module OPA holds is the one the memo names.  It does not hold: two texts pushed
\* together may be applied in one order and noted in the other.
Quiet == late = {} /\ \A e \in Evals : ~Active(e)
MemoIsRight == Quiet => \A k \in Keys : pushed[k] # None /\ opa[k] # None => opa[k] = pushed[k]

\* What the code says of the eviction of dry runs ("bounds server memory"): it does not hold when
\* a module is evicted under an evaluation, which pushes it again without tracking it.
DryRunsAreBounded == Quiet => Cardinality({k \in DryKeys : pushed[k] # None}) <= MaxDry
=============================================================================
