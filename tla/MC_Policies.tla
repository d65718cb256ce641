----------------------------- MODULE MC_Policies -----------------------------
(*****************************************************************************)
(* Small instances, side by side, of the parts that store, distribute and    *)
(* load policies, and that say what the tools they judge do. They do not     *)
(* interact here: part says which of them a behaviour is one of, and all of  *)
(* them but PolicySync, which this module extends, keep their state in one   *)
(* pool of variables. Requests are also the evaluations, callers and admins  *)
(* of the other parts.                                                       *)
(*****************************************************************************)
EXTENDS PolicySync, TLC

CONSTANTS Engine, PolicyKeys, DryKeys, Nothing

VARIABLES part, x1, x2, x3, x4, x5, x6, x7, x8, x9, x10, x11, x12, x13, x14

\* What the parts do not use of the shared variables has no value.
Unused == "unused"

\* The two revisions of the shipped controls, with the strictness of each.
Shipped == <<("c" :> 1 @@ "d" :> 2), ("c" :> 2 @@ "d" :> 1)>>

\* Requests, and what stands for them in the other parts.
Interchangeable == Permutations(Requests)

\* The loader again: one mutation, a sidecar engine and every fault.
FT == INSTANCE PolicySync WITH Replicas <- Replicas, Engines <- {Engine}, Requests <- {"m"},
    Events <- {"evaluate", "drop", "exit", "redis_fails", "db_fails"}, Keep <- 1, db <- x1,
    hist <- x2, ids <- x3, up <- x4, sub <- x5, inbox <- x6, mem <- x7, vers <- x8, listen <- x9,
    lazy <- x10, todo <- x11, task <- x12, pruning <- x13, astray <- x14

\* Two evaluations and two dry runs over one policy of two versions.
OM == INSTANCE OpaModules WITH Evals <- Requests, MaxVersion <- 2, MaxDry <- 1, MaxFaults <- 1,
    MaxBegins <- 3, current <- x1, opa <- x2, late <- x3, pushed <- x4, dry <- x5, ev <- x6,
    faults <- x7, begins <- x8, mixed <- x9, unnoted <- x10

\* Two requests over two controls and two releases.
MS == INSTANCE ManagedScopes WITH None <- Nothing, Controls <- {"c", "d"}, Items <- {"i"},
    MaxStarts <- 2, MaxFails <- 1, release <- x1, rows <- x2, module <- x3, lock <- x4,
    listed <- x5, compiled <- x6, override <- x7, posture <- x8, mirror <- x9, rq <- x10,
    starts <- x11, fails <- x12, untidy <- x13

\* Two callers and a namespace one scope below its cap.
RT == INSTANCE PolicyRoutes WITH None <- Nothing, Callers <- Requests, Controls <- {"k", "l"},
    Cap <- 3, MaxOps <- 3, db <- x1, past <- x2, lock <- x3, req <- x4, applied <- x5, wanted <- x6,
    disturbed <- x7, ops <- x8

\* What tools are called, by the kinds of their tokens, and what calls carry.
VerbTokens == ("acme" :> <<"word">> @@ "browse_mail" :> <<"browse", "mail">> @@ "slack_post" :> <<"word", "send">>
               @@ "get_mail" :> <<"read", "mail">> @@ "run_query" :> <<"run", "read">>
               @@ "run_script_status" :> <<"run", "code", "read">> @@ "open_valve" :> <<"control", "actuator">>
               @@ "invoke" :> <<"run">> @@ "report_mail" :> <<"report", "mail">> @@ "get_wipe" :> <<"read", "remove">>)
VerbKeys == {<<"n", "acme">>, <<"m", "acme">>, <<"n", "slack_post">>}
VerbPayloads ==
    {<<"no payload">>} \cup {<<f>> : f \in {"to", "drop", "insert", "hidden", "http", "foreign"}}
    \cup {<<"select", "drop">>, <<"select", "insert">>}

\* Two promotions at two replicas, of a tool in two namespaces and of one whose name says it sends.
TV == INSTANCE ToolVerbs WITH Replicas <- {"p", "q"}, Admins <- Requests, TokensOf <- VerbTokens,
    Listed <- {"browse_mail"}, Allowlist <- {"acme", "slack_post", "get_mail"}, Keys <- VerbKeys,
    Payloads <- VerbPayloads, MaxEdits <- 2, MaxEvents <- 1, table <- x1, map <- x2, task <- x3,
    policy <- x4, seen <- x5, edits <- x6, events <- x7, tables <- x8, excused <- x9

\* A data source that can be read and deleted from, and tools with these in their names.
DraftTools == {[within |-> {"delete"}, words |-> {}], [within |-> {"read"}, words |-> {"read"}],
               [within |-> {"read", "delete"}, words |-> {"read", "delete"}]}

\* Two requests to draft, for a class and for one of the tests, with a ceiling of one draft.
ID == INSTANCE IntentDrafts WITH Scopes <- {<<"n", "c">>, <<"m", "s">>}, Synthetic <- {"s"},
    Contents <- {"g", "h"}, Controls <- {"k"}, Exposes <- [read |-> 0, delete |-> 2], Tools <- DraftTools,
    Cap <- 1, Ttl <- 2, TestTtl <- 1, MaxOps <- 3, MaxTime <- 4, MaxFaults <- 1, rows <- x1, req <- x2,
    observed <- x3, now <- x4, excess <- x5, ops <- x6, faults <- x7

-----------------------------------------------------------------------------
pool == <<x1, x2, x3, x4, x5, x6, x7, x8, x9, x10, x11, x12, x13, x14>>
all == <<part, pool, vars>>

MCInit ==
    \/ part = "policy" /\ Init /\ x1 = Unused /\ x2 = Unused /\ x3 = Unused /\ x4 = Unused
            /\ x5 = Unused /\ x6 = Unused /\ x7 = Unused /\ x8 = Unused /\ x9 = Unused
            /\ x10 = Unused /\ x11 = Unused /\ x12 = Unused /\ x13 = Unused /\ x14 = Unused
    \/ part = "faults" /\ hist = {} /\ Init /\ FT!Init
    \/ part = "opa" /\ hist = {} /\ Init /\ OM!Init /\ x11 = Unused /\ x12 = Unused /\ x13 = Unused
            /\ x14 = Unused
    \/ part = "managed" /\ hist = {} /\ Init /\ MS!Init /\ x14 = Unused
    \/ part = "routes" /\ hist = {} /\ Init /\ RT!Init /\ x9 = Unused /\ x10 = Unused
            /\ x11 = Unused /\ x12 = Unused /\ x13 = Unused /\ x14 = Unused
    \/ part = "verbs" /\ hist = {} /\ Init /\ TV!Init /\ x10 = Unused /\ x11 = Unused /\ x12 = Unused
            /\ x13 = Unused /\ x14 = Unused
    \/ part = "drafts" /\ hist = {} /\ Init /\ ID!Init /\ x8 = Unused /\ x9 = Unused /\ x10 = Unused
            /\ x11 = Unused /\ x12 = Unused /\ x13 = Unused /\ x14 = Unused

MCNext ==
    \/ part = "policy" /\ Next /\ UNCHANGED <<part, pool>>
    \/ part = "faults" /\ FT!Next /\ UNCHANGED <<part, vars>>
    \/ part = "opa" /\ OM!Next /\ UNCHANGED <<part, vars, x11, x12, x13, x14>>
    \/ part = "managed" /\ MS!Next /\ UNCHANGED <<part, vars, x14>>
    \/ part = "routes" /\ RT!Next /\ UNCHANGED <<part, vars, x9, x10, x11, x12, x13, x14>>
    \/ part = "verbs" /\ TV!Next /\ UNCHANGED <<part, vars, x10, x11, x12, x13, x14>>
    \/ part = "drafts" /\ ID!Next /\ UNCHANGED <<part, vars, x8, x9, x10, x11, x12, x13, x14>>

MCSpec == MCInit /\ [][MCNext]_all

-----------------------------------------------------------------------------
(* The properties, each of its own part or parts. *)

\* What the engines hold follows what was stored.  A sidecar, or a replica that has served no mutation
\* itself, that runs and has no event left to handle holds the stored version of the policy, through
\* racing mutations, reconnections and failed requests; a replica may also hold nothing, which the
\* next evaluation reads from Postgres.  Excused is one that was not told of a change (the event was
\* lost with its connection, its request or its read failed) or into which an evaluation loaded a row
\* that had changed by then, until it handles a later event or starts again: a subscription that comes
\* back reads nothing anew (main.py:184-193).  And once no request is under way the engine holds what
\* the console shows of controls, packs, registries and postures, unless one of that kind failed or
\* two overlapped (the materialisations in baseline_router.py, packs.py, mcp.py, settings_router.py).
EnginesFollow ==
    /\ FollowersConverge
    /\ part = "faults" => FT!FollowersConverge
    /\ part = "managed" => MS!EngineFollowsConsole /\ MS!RegistriesAreCompiled
    /\ part = "managed" => MS!OneOverride /\ MS!PostureIsMirrored

\* Through restarts of OPA, failed pushes and queries, saves of the policy and evictions of dry runs, an
\* answer that an evaluation takes was computed from the text of the policy that it collected, unless
\* another text of that policy was being evaluated at the same time, two texts of it have been pushed
\* together, or the last push of it went unanswered: then it may be another text's (MemoIsRight of
\* OpaModules is refuted; _ensure_module_pushed, _evaluate_opa_server, _track_dryrun_module).
AnsweredByItsOwnText == part = "opa" => OM!AnsweredByItsOwnText

\* While one save of the controls replaces another, the engine is never looser than the console
\* shows: the stricter of the two is pushed first and the new one last (set_controls).
EngineIsAsStrictAsShown == part = "managed" => MS!EngineIsAsStrictAsShown

\* Creations of scopes take a namespace past its cap by at most one for each other creation that
\* overlaps (create_policy looks before it stores); routes that look at no cap are not counted.  A
\* merge of one control into the remediation overlay loses no control another request has put there,
\* unless the overlay is replaced or dropped outside the advisory lock.  A namespace's drafts exceed
\* their ceiling only by those not cut yet, whose cut failed or that nobody cuts after, and one control
\* has one draft, that blocks nothing it does not name (enforce_draft_cap, capability_defend,
\* _generate_remediation_draft).
CapsAndControlsHold ==
    /\ part = "routes" => RT!CapBounded /\ RT!ControlsKept
    /\ part = "drafts" => ID!CapHolds /\ ID!OnePerControl /\ ID!DefendsWhatItNames

\* The promoted verbs a replica decides with were the table at one moment, and are the table unless
\* it missed a change or is about to read it; a promotion only ever raises what a call is said to do,
\* nor do arguments talk a name down; and the egress and read-only toggles of an intent refuse what
\* they name, whatever was promoted since (source_registry.py, evaluator.py, threats.py,
\* threat_intent.py).
VerbsAreKept ==
    /\ part = "verbs" => TV!MapsAreTables /\ TV!StaleForAReason
    /\ part = "verbs" => TV!PromotionsOnlyRaise /\ TV!NamesAreNotTalkedDown /\ TV!TogglesHold

\* A draft leaves the inbox only if it expired, was dismissed, was drafted again for the same control,
\* is beyond the ceiling, or has no control and its class gets an intent of the attack graph, whichever
\* requests overlap.  The last takes compiled intents of another router too, which the comment at
\* threats.py:995 does not say (intent_draft, gc_expired_drafts).
DraftsGoForAReason == [][part = "drafts" => ID!RemovedForAReason]_all

==============================================================================
