----------------------------- MODULE ManagedScopes -----------------------------
(***************************************************************************)
(* The compiled policy scopes of one namespace, each derived from rows an  *)
(* operator edits (norviq/api/routers/baseline_router.py, packs.py and     *)
(* mcp.py):                                                                *)
(*   __controls__      from the saved effects of the baseline controls,    *)
(*                     under an advisory lock, and again at every start;   *)
(*   __pack__, __mcp__ from the enabled packs and the registered servers,  *)
(*                     read and written without a lock;                    *)
(*   __pack_override__ and __pack_weaken__, of which a save replaces the   *)
(*                     other;                                              *)
(* and the posture of the namespace (settings_router.py), a row that is    *)
(* mirrored into Redis for the engine.                                     *)
(* Every write of the loader and every commit may fail, and a process may  *)
(* die between two of them (its lock then goes with its connection).       *)
(***************************************************************************)
EXTENDS Naturals, FiniteSets

CONSTANTS None,             \* no value
          Requests,         \* requests and start-up workers that may be under way together
          Controls,         \* the controls of the preset
          Shipped,          \* Shipped[r][c]: the default effect of control c in release r
          Items,            \* pack ids, and server ids
          MaxStarts,        \* bound: requests started
          MaxFails          \* bound: failed writes and deaths

Effects == 0..2             \* _STRICTNESS: off, monitor, deny
Releases == DOMAIN Shipped

Registries == {"pack", "mcp"}
Overrides == {"override", "weaken"}
Fields == {"mode", "limit"}   \* two of the fields of a posture, each with two values

VARIABLES
    release,    \* the release the processes run
    rows,       \* namespace_baseline_controls: the saved deviations from the defaults
    module,     \* the stored __controls__ module: the release and the effects it was compiled with
    lock,       \* the holder of the advisory lock of _controls_lock
    listed,     \* the rows of each registry
    compiled,   \* the module of each registry
    override,   \* the stored override scopes
    posture,    \* the row of namespace_settings
    mirror,     \* its copy in Redis
    rq,         \* each request: what it does, where it is, and what it has read
    starts, fails,
    untidy      \* history: what was left by a failure, or written by overlapping requests

vars == <<release, rows, module, lock, listed, compiled, override, posture, mirror, rq, starts, fails, untidy>>

Rows == UNION {[d -> Effects] : d \in SUBSET Controls}
Idle == [does |-> None, pc |-> None, new |-> None, interim |-> None, item |-> None]

\* The effects GET shows and a module is compiled from: each control's row, or its default.
Described(r, rel) == [c \in Controls |-> IF c \in DOMAIN r THEN r[c] ELSE Shipped[rel][c]]
Module(rel, effects) == [release |-> rel, effects |-> effects]

Init ==
    /\ release = 1
    \* 0.2.5 wrote the rows first: a failure left rows without a module.
    /\ rows \in {[c \in {} |-> 0], [c \in Controls |-> 2]} /\ module = None /\ lock = None
    /\ listed = [k \in Registries |-> {}] /\ compiled = [k \in Registries |-> {}]
    /\ override = {} /\ posture = [f \in Fields |-> 0] /\ mirror = posture
    /\ rq = [q \in Requests |-> Idle]
    /\ starts = 0 /\ fails = 0
    /\ untidy = IF DOMAIN rows = {} THEN {} ELSE {"controls"}

Busy(q) == rq[q].does # None
Kind(does) == IF does \in {"put", "render"} THEN "controls" ELSE does

\* A request begins; one that finds another of its kind under way marks what they write.
Start(q, does, pc, new, item) ==
    /\ ~Busy(q) /\ starts < MaxStarts /\ starts' = starts + 1
    /\ rq' = [rq EXCEPT ![q] = [does |-> does, pc |-> pc, new |-> new, interim |-> None, item |-> item]]
    /\ untidy' = IF Kind(does) # "controls" /\ \E p \in Requests : rq[p].does = does
                 THEN untidy \cup {does} ELSE untidy
    /\ UNCHANGED <<release, rows, module, lock, listed, compiled, override, posture, mirror, fails>>

At(q, does, pc) == rq[q].does = does /\ rq[q].pc = pc
Goes(q, pc) == rq' = [rq EXCEPT ![q].pc = pc]
Done(q) == rq' = [rq EXCEPT ![q] = Idle]
Same == UNCHANGED <<release, starts, fails>>

-----------------------------------------------------------------------------
(* The baseline controls. *)

\* _controls_lock.
Acquire(q) ==
    /\ rq[q].pc = "lock" /\ lock = None /\ lock' = q
    /\ Goes(q, "read")
    /\ Same /\ UNCHANGED <<rows, module, listed, compiled, override, posture, mirror, untidy>>

StricterOf(before, new) == [c \in Controls |-> IF before[c] > new[c] THEN before[c] ELSE new[c]]

\* Faulty variant: the new effects are compiled before the rows say so.
Interim_New(before, new) == new

\* set_controls: the module is first written at the stricter of the old and the new effects.
Interim(before, new) == StricterOf(before, new)

PutRead(q) ==
    /\ At(q, "put", "read")
    /\ rq' = [rq EXCEPT ![q].interim = Interim(Described(rows, release), rq[q].new), ![q].pc = "first"]
    /\ Same /\ UNCHANGED <<rows, module, lock, listed, compiled, override, posture, mirror, untidy>>

\* _materialize of the interim effects, unless the stored module is that already.
PutFirst(q) ==
    /\ At(q, "put", "first")
    /\ module' = Module(release, rq[q].interim)
    /\ Goes(q, "rows")
    /\ Same /\ UNCHANGED <<rows, lock, listed, compiled, override, posture, mirror, untidy>>

\* The rows are replaced in one transaction; an effect at its shipped default keeps none.
Deviations(new, rel) == [c \in {d \in Controls : new[d] # Shipped[rel][d]} |-> new[c]]

PutRows(q) ==
    /\ At(q, "put", "rows")
    /\ rows' = Deviations(rq[q].new, release)
    /\ Goes(q, "last")
    /\ Same /\ UNCHANGED <<module, lock, listed, compiled, override, posture, mirror, untidy>>

\* Faulty variant: a relaxed control stays at its stricter effect.
Relaxed_Not(was, interim, new) == was

\* The module the rows describe, where the save relaxed something; then the lock is released.
Relaxed(was, interim, new) == IF interim # new THEN Module(release, new) ELSE was

PutLast(q) ==
    /\ At(q, "put", "last")
    /\ module' = Relaxed(module, rq[q].interim, rq[q].new)
    /\ Done(q) /\ lock' = None /\ untidy' = untidy \ {"controls"}
    /\ Same /\ UNCHANGED <<rows, listed, compiled, override, posture, mirror>>

\* rematerialize_controls of one worker at its start: under the lock, from the stored effects, where
\* the stored module is not what this release compiles.
Render(q) ==
    /\ At(q, "render", "read")
    /\ LET wanted == Module(release, Described(rows, release))
       IN module' = IF module = None /\ DOMAIN rows = {} THEN None ELSE wanted
    /\ Done(q) /\ lock' = None /\ untidy' = untidy \ {"controls"}
    /\ Same /\ UNCHANGED <<rows, listed, compiled, override, posture, mirror>>

-----------------------------------------------------------------------------
(* The registries. *)

\* enable_pack and disable_pack, decide_server and forget_server: the row is committed.
EnablePack(q) == At(q, "pack", "add") /\ listed' = [listed EXCEPT !["pack"] = @ \cup {rq[q].item}]
DisablePack(q) == At(q, "pack", "drop") /\ listed' = [listed EXCEPT !["pack"] = @ \ {rq[q].item}]
DecideServer(q) == At(q, "mcp", "add") /\ listed' = [listed EXCEPT !["mcp"] = @ \cup {rq[q].item}]
ForgetServer(q) == At(q, "mcp", "drop") /\ listed' = [listed EXCEPT !["mcp"] = @ \ {rq[q].item}]

Commit(q) ==
    /\ EnablePack(q) \/ DisablePack(q) \/ DecideServer(q) \/ ForgetServer(q)
    /\ Goes(q, "select")
    /\ Same /\ UNCHANGED <<rows, module, lock, compiled, override, posture, mirror, untidy>>

\* _materialize and _materialize_mcp_registry: the rows are read, ...
Select(q) ==
    /\ rq[q].pc = "select"
    /\ rq' = [rq EXCEPT ![q].new = listed[rq[q].does], ![q].pc = "write"]
    /\ Same /\ UNCHANGED <<rows, module, lock, listed, compiled, override, posture, mirror, untidy>>

\* Faulty variant: an empty registry leaves the module it had.
Compiled_NotEmpty(was, read) == IF read = {} THEN was ELSE read

\* ... and the module compiled from them is written (deleted, for packs, when there is none).
Compiled(was, read) == read

Write(q) ==
    /\ rq[q].pc = "write"
    /\ compiled' = [compiled EXCEPT ![rq[q].does] = Compiled(@, rq[q].new)]
    /\ Done(q)
    /\ Same /\ UNCHANGED <<rows, module, lock, listed, override, posture, mirror, untidy>>

-----------------------------------------------------------------------------
(* The override of the packs. *)

Other(x) == IF x = "weaken" THEN "override" ELSE "weaken"

\* Faulty variant: the other scope is left where it is.
PutOverride_Keeps(q) ==
    /\ \/ At(q, "change", "delete") /\ override' = override /\ Goes(q, "create")
       \/ At(q, "change", "create") /\ override' = override \cup {rq[q].item} /\ Done(q)
    /\ Same /\ UNCHANGED <<rows, module, lock, listed, compiled, posture, mirror, untidy>>

\* put_pack_override deletes the other scope, then stores its own; delete_pack_override removes both.
PutOverride(q) ==
    /\ \/ At(q, "change", "delete") /\ override' = override \ {Other(rq[q].item)} /\ Goes(q, "create")
       \/ At(q, "change", "create") /\ override' = override \cup {rq[q].item} /\ Done(q)
    /\ Same /\ UNCHANGED <<rows, module, lock, listed, compiled, posture, mirror, untidy>>

DeleteOverride(q) ==
    /\ \/ At(q, "change", "clear") /\ override' = override \ {"override"} /\ Goes(q, "clear weaken")
       \/ At(q, "change", "clear weaken") /\ override' = override \ {"weaken"} /\ Done(q)
    /\ Same /\ UNCHANGED <<rows, module, lock, listed, compiled, posture, mirror, untidy>>

-----------------------------------------------------------------------------
(* The posture. *)

\* Faulty variant: the mirror is written before the row is committed.
PutSettings_MirrorFirst(q) ==
    /\ \/ At(q, "settings", "load") /\ rq' = [rq EXCEPT ![q].interim = posture, ![q].pc = "save"] /\ UNCHANGED <<posture, mirror>>
       \/ At(q, "settings", "save") /\ mirror' = rq[q].interim /\ Goes(q, "mirror") /\ UNCHANGED posture
       \/ /\ At(q, "settings", "mirror") /\ Done(q) /\ UNCHANGED mirror
          /\ posture' = IF rq[q].item = None THEN posture ELSE [posture EXCEPT ![rq[q].item] = rq[q].new]
    /\ Same /\ UNCHANGED <<rows, module, lock, listed, compiled, override, untidy>>

\* put_settings reads the row, commits the fields it was given, and mirrors the row it has read and
\* changed; warm_ns_settings copies the row at start-up.
PutSettings(q) ==
    /\ \/ At(q, "settings", "load") /\ rq' = [rq EXCEPT ![q].interim = posture, ![q].pc = "save"] /\ UNCHANGED <<posture, mirror>>
       \/ /\ At(q, "settings", "save")
          /\ posture' = [posture EXCEPT ![rq[q].item] = rq[q].new]
          /\ rq' = [rq EXCEPT ![q].interim[rq[q].item] = rq[q].new, ![q].pc = "mirror"] /\ UNCHANGED mirror
       \/ At(q, "settings", "mirror") /\ mirror' = rq[q].interim /\ Done(q) /\ UNCHANGED posture
    /\ Same /\ UNCHANGED <<rows, module, lock, listed, compiled, override, untidy>>

WarmSettings(q) ==
    /\ At(q, "settings", "warm")
    /\ rq' = [rq EXCEPT ![q].interim = posture, ![q].pc = "mirror"]
    /\ Same /\ UNCHANGED <<rows, module, lock, listed, compiled, override, posture, mirror, untidy>>

-----------------------------------------------------------------------------
(* Failures, and a new release. *)

\* The write or commit a request is at fails, or its process dies.
Fail(q) ==
    /\ Busy(q) /\ fails < MaxFails /\ fails' = fails + 1
    /\ Done(q)
    /\ lock' = IF lock = q THEN None ELSE lock
    /\ untidy' = untidy \cup {Kind(rq[q].does)}
    /\ UNCHANGED <<release, rows, module, listed, compiled, override, posture, mirror, starts>>

\* All processes are replaced by the next release's; each of its workers renders as it starts.
Upgrade ==
    /\ release + 1 \in Releases /\ release' = release + 1
    /\ rq' = [q \in Requests |-> [Idle EXCEPT !.does = "render", !.pc = "lock"]]
    /\ lock' = None
    /\ untidy' = untidy \cup {"controls"} \cup {Kind(rq[q].does) : q \in {p \in Requests : Busy(p)}}
    /\ UNCHANGED <<rows, module, listed, compiled, override, posture, mirror, starts, fails>>

Begin(q) ==
    \/ \E new \in [Controls -> Effects] : Start(q, "put", "lock", new, None)
    \/ Start(q, "render", "lock", None, None)
    \/ \E k \in Registries, i \in Items, pc \in {"add", "drop"} : Start(q, k, pc, None, i)
    \/ \E o \in Overrides : Start(q, "change", "delete", None, o)
    \/ Start(q, "change", "clear", None, None)
    \/ \E f \in Fields, v \in {0, 1} : Start(q, "settings", "load", v, f)
    \/ Start(q, "settings", "warm", None, None)

Next ==
    \/ \E q \in Requests : \/ Begin(q) \/ Acquire(q) \/ PutRead(q) \/ PutFirst(q) \/ PutRows(q) \/ PutLast(q)
                           \/ Render(q) \/ Commit(q) \/ Select(q) \/ Write(q)
                           \/ PutOverride(q) \/ DeleteOverride(q) \/ PutSettings(q) \/ WarmSettings(q) \/ Fail(q)
    \/ Upgrade

Spec == Init /\ [][Next]_vars

-----------------------------------------------------------------------------
(* Properties. *)

\* The engine is never more lenient than the console shows: a module of the running release is at
\* least as strict, control by control, as the rows, whichever of the three writes of a save failed
\* and whatever the start-up renders did meanwhile.
EngineIsAsStrictAsShown ==
    module # None /\ module.release = release =>
        \A c \in Controls : module.effects[c] >= Described(rows, release)[c]

\* After an undisturbed save or render the engine does what the console shows.
EngineFollowsConsole ==
    "controls" \notin untidy /\ (\A q \in Requests : Kind(rq[q].does) # "controls") =>
        \/ module = Module(release, Described(rows, release))
        \/ module = None /\ DOMAIN rows = {}

\* A registry's module is its rows when no request is under way, unless one failed or two overlapped.
RegistriesAreCompiled ==
    \A k \in Registries : k \notin untidy /\ (\A q \in Requests : rq[q].does # k) => compiled[k] = listed[k]

\* An override and a weakening are never in force together, unless two saves overlapped.
OneOverride == "change" \notin untidy => Cardinality(override) <= 1

\* The engine's copy of the posture is the saved one once no save is under way, unless one failed
\* or two overlapped (then the older may be mirrored last, and stays until a restart warms it).
PostureIsMirrored ==
    "settings" \notin untidy /\ (\A q \in Requests : rq[q].does # "settings") => mirror = posture
=============================================================================
