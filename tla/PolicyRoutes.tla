---------------------------- MODULE PolicyRoutes ----------------------------
(***************************************************************************)
(* The routes of api/routers/policies.py on the rows of one namespace.     *)
(* Requests overlap: what a handler read before an await may be out of     *)
(* date when it writes.  The loader's memory, cache and events, on which   *)
(* the rows are only the first step, are PolicySync's subject; here the    *)
(* replica's memory is taken to be the rows.                               *)
(***************************************************************************)
EXTENDS Naturals, FiniteSets

CONSTANTS
    Callers,
    Controls,       \* compliance controls
    Cap,            \* policy_scope_cap_per_namespace
    MaxOps,         \* bound: requests received
    None

VARIABLES
    db,             \* policies: [Scopes -> Rows or None]
    past,           \* policy_versions: the versions saved of each scope
    lock,           \* the advisory lock of the overlay: its holder or None
    req,            \* the requests under way
    applied,        \* history: the scopes that apply_policy or a rollback ever created, which look at no cap
    wanted,         \* history: the controls applied and not taken back since
    disturbed,      \* history: the overlay was replaced or dropped outside the lock
    ops

routes == <<lock, req, ops>>
history == <<applied, wanted, disturbed>>
vars == <<db, past, lock, req, applied, wanted, disturbed, ops>>

Base == "__baseline__"
Overlay == "c__remediation__"
Pack == "__pack__"
Classes == {"c", "d"}
Scopes == Classes \cup {Base, Overlay, Pack}
Roles == {"admin", "webhook", "sidecar"}
Modes == {"block", "audit"}

\* Rego by what the routes see of it: an intent allowlist, the controls of its manifest, or neither.
Rego(intent, controls) == [intent |-> intent, controls |-> controls]
Regos == {Rego(FALSE, {}), Rego(TRUE, {})} \cup {Rego(FALSE, c) : c \in SUBSET Controls \ {{}}}
Row(rego, mode) == [rego |-> rego, mode |-> mode]
Rows == [rego : Regos, mode : Modes]

Idle == [pc |-> "idle"]

Init ==
    /\ db \in {[s \in Scopes |-> IF s \in {Pack} \cup b THEN Row(Rego(FALSE, {}), "block") ELSE None] : b \in {{}, {Base}}}
    /\ past = [s \in Scopes |-> {}]
    /\ lock = None
    /\ req = [p \in Callers |-> Idle]
    /\ applied = {} /\ wanted = {} /\ disturbed = {}
    /\ ops = 0

Begin(p, r) == req[p] = Idle /\ ops < MaxOps /\ ops' = ops + 1 /\ req' = [req EXCEPT ![p] = r]
End(p) == req' = [req EXCEPT ![p] = Idle]
To(p, pc) == req' = [req EXCEPT ![p].pc = pc]
Disturbs(how, when) == disturbed' = IF when THEN disturbed \cup {how} ELSE disturbed
Existing == {s \in Scopes : db[s] # None}

-----------------------------------------------------------------------------
(* POST /policies *)

\* _enforce_apikey_write_scope: a sidecar's token names another namespace here.
MayWrite(role) == role \in {"admin", "webhook"}

\* resolve_policy_key: the class, or else the name of the policy.
Key(b) == IF b.class # "" THEN b.class ELSE b.name

\* Policies for a class, an intent among them, controls for the overlay, rules for the floor; or a key
\* given as a policy's name.
Bodies ==
    [class : Classes, name : {""}, rego : {Rego(FALSE, {}), Rego(TRUE, {})}, mode : Modes]
    \cup [class : {Overlay}, name : {""}, rego : {Rego(FALSE, c) : c \in {{}} \cup {{k} : k \in Controls}}, mode : Modes]
    \cup [class : {Base, Pack}, name : {""}, rego : {Rego(FALSE, {})}, mode : {"block"}]
    \cup [class : {""}, name : {"c", Pack}, rego : {Rego(FALSE, {}), Rego(TRUE, {})}, mode : {"block"}]

\* _is_overlay_scope, _MANAGED_SCOPES.
IsOverlay(s) == s \in {Overlay, Pack}
Managed(s) == s = Pack

\* What create_policy accepts: an intent only over a baseline, no managed scope, no overlay on trial.
Accepted(b) ==
    /\ b.rego.intent => db[Base] # None
    /\ ~Managed(Key(b))
    /\ ~(IsOverlay(Key(b)) /\ b.mode = "audit")

\* A request of a role, and what becomes of it: refused, or on to the scope cap.
Post(p, role, b) ==
    /\ MayWrite(role) /\ Accepted(b)
    /\ Begin(p, [pc |-> "count", op |-> "post", scope |-> Key(b), rego |-> b.rego, mode |-> b.mode])
    /\ UNCHANGED <<db, past, lock, history>>

\* Faulty variant: the cap is not looked at.
Admitted_Always(s) == TRUE

\* scope_exists, count_namespace_scopes.
Admitted(s) == s \in Existing \/ Cardinality(Existing) < Cap

Accumulates(r) == r.scope = Overlay /\ r.rego.controls # {}

Count(p) ==
    /\ req[p].pc = "count"
    /\ IF Admitted(req[p].scope) THEN To(p, IF Accumulates(req[p]) THEN "lock" ELSE "store") ELSE End(p)
    /\ UNCHANGED <<db, past, lock, history, ops>>

\* loader.create: the row and one more version.
Stores(s, row) ==
    /\ db' = [db EXCEPT ![s] = row]
    /\ past' = [past EXCEPT ![s] = @ \cup {row}]

Store(p) ==
    /\ req[p].pc = "store"
    /\ LET r == req[p] IN
         /\ Stores(r.scope, Row(r.rego, r.mode))
         /\ IF r.scope = Overlay THEN wanted' = {} /\ Disturbs("replaced", lock # None)
            ELSE UNCHANGED <<wanted, disturbed>>
    /\ End(p)
    /\ UNCHANGED <<lock, applied, ops>>

-----------------------------------------------------------------------------
(* The overlay of compliance controls, read and rewritten under its lock. *)

\* Faulty variant: the lock is taken without waiting for its holder.
Locks_Shared(p) == lock' = p

\* pg_advisory_lock.
Locks(p) == lock = None /\ lock' = p

TakeLock(p) ==
    /\ req[p].pc = "lock" /\ Locks(p)
    /\ To(p, "read")
    /\ UNCHANGED <<db, past, history, ops>>

ControlsOf(row) == IF row = None THEN {} ELSE row.rego.controls

\* Faulty variant: an application replaces what the overlay held.
Merged_Replaced(op, old, controls) == IF op = "post" THEN controls ELSE old \ controls

\* union_remediation_controls, or the rest without the control.
Merged(op, old, controls) == IF op = "post" THEN old \cup controls ELSE old \ controls

\* load_from_db, then the union with the request's controls or the rest without its control.
Read(p) ==
    /\ req[p].pc = "read"
    /\ LET r == req[p]
           old == ControlsOf(db[Overlay])
           new == Merged(r.op, old, r.rego.controls)
       IN IF r.op = "revert" /\ ~(r.rego.controls \subseteq old)
          THEN lock' = None /\ End(p) /\ UNCHANGED wanted
          ELSE IF new = {}
          THEN lock' = None /\ To(p, "drop") /\ wanted' = wanted \ r.rego.controls
          ELSE /\ req' = [req EXCEPT ![p] = [@ EXCEPT !.pc = "write", !.rego.controls = new]]
               /\ wanted' = IF r.op = "post" THEN wanted \cup r.rego.controls ELSE wanted \ r.rego.controls
               /\ UNCHANGED lock
    /\ UNCHANGED <<db, past, applied, disturbed, ops>>

Write(p) ==
    /\ req[p].pc = "write"
    /\ Stores(Overlay, Row(Rego(FALSE, req[p].rego.controls), req[p].mode))
    /\ lock' = None
    /\ End(p)
    /\ UNCHANGED <<wanted, applied, disturbed, ops>>

-----------------------------------------------------------------------------
(* DELETE /policies/{namespace}/{agent_class} *)

\* Reserved scopes only with confirmation and by an administrator; packs never.
MayDelete(role, s, confirm) ==
    /\ MayWrite(role)
    /\ IF confirm /\ s \in {Base, Overlay} THEN role = "admin" ELSE s \in Classes

Delete(p, role, s, confirm) ==
    /\ MayDelete(role, s, confirm)
    /\ Begin(p, [pc |-> "drop", op |-> "delete", scope |-> s, rego |-> Rego(FALSE, {}), mode |-> "block"])
    /\ UNCHANGED <<db, past, lock, history>>

\* Taking one control back.
Revert(p, control) ==
    /\ Begin(p, [pc |-> "lock", op |-> "revert", scope |-> Overlay, rego |-> Rego(FALSE, {control}), mode |-> "block"])
    /\ UNCHANGED <<db, past, lock, history>>

\* loader.delete, outside the lock; a whole overlay takes all its controls with it.
Drop(p) ==
    /\ req[p].pc = "drop"
    /\ LET s == req[p].scope IN
         /\ db' = [db EXCEPT ![s] = None]
         /\ past' = [past EXCEPT ![s] = {}]
         /\ IF s # Overlay THEN UNCHANGED <<wanted, disturbed>>
            ELSE IF req[p].op = "delete" THEN wanted' = {} /\ Disturbs("replaced", lock # None)
            ELSE Disturbs("dropped", lock # None \/ wanted # {}) /\ UNCHANGED wanted
    /\ End(p)
    /\ UNCHANGED <<lock, applied, ops>>

-----------------------------------------------------------------------------
(* POST .../rollback and .../apply, for administrators *)

Rollback(p, s, row) ==
    /\ s \in Classes /\ row \in past[s]
    /\ Begin(p, [pc |-> "put", op |-> "rollback", scope |-> s, rego |-> row.rego, mode |-> row.mode])
    /\ UNCHANGED <<db, past, lock, history>>

\* The row of another scope, or of the same scope elsewhere, at a scope that is not reserved.
Apply(p, rego, s, mode) ==
    /\ s \in Classes \cup {Overlay}
    /\ rego \in {db[x].rego : x \in Existing} \cup {Rego(FALSE, {c}) : c \in IF s = Overlay THEN Controls ELSE {}}
    /\ s = Overlay => (db[Overlay] # None /\ rego = db[Overlay].rego) \/ rego.controls # {}
    /\ Begin(p, [pc |-> "put", op |-> "apply", scope |-> s, rego |-> rego, mode |-> mode])
    /\ UNCHANGED <<db, past, lock, history>>

Put(p) ==
    /\ req[p].pc = "put"
    /\ LET r == req[p] IN
         /\ Stores(r.scope, Row(r.rego, r.mode))
         /\ applied' = IF r.scope \in Existing THEN applied ELSE applied \cup {r.scope}
         /\ Disturbs("replaced", r.scope = Overlay)
    /\ End(p)
    /\ UNCHANGED <<lock, wanted, ops>>

Next ==
    \E p \in Callers :
        \/ \E role \in Roles, b \in Bodies : Post(p, role, b)
        \/ \E role \in Roles, s \in Scopes, confirm \in BOOLEAN : Delete(p, role, s, confirm)
        \/ \E control \in Controls : Revert(p, control)
        \/ \E s \in Classes : \E row \in past[s] : Rollback(p, s, row)
        \/ \E rego \in Regos, s \in Classes \cup {Overlay}, mode \in Modes : Apply(p, rego, s, mode)
        \/ Count(p) \/ Store(p) \/ TakeLock(p) \/ Read(p) \/ Write(p) \/ Drop(p) \/ Put(p)

Spec == Init /\ [][Next]_vars

-----------------------------------------------------------------------------
\* Rows are rows, and the holder of the lock is a request that has not let go of it.
TypeOK ==
    /\ db \in [Scopes -> Rows \cup {None}]
    /\ lock \in Callers \cup {None}
    /\ lock # None => req[lock].pc \in {"read", "write"}
    /\ \A p \in Callers : req[p].pc \in {"read", "write"} => lock = p

\* Creations that overlap pass the scope cap together, but never by more than one each: what
\* create_policy stores stays within the cap and the number of requests that can overlap. Scopes
\* that apply_policy or a rollback has created are not counted, even where a save has replaced them
\* since: those routes look at no cap, and a save that found such a scope does not either.
CapBounded == Cardinality(Existing \ applied) <= Cap + Cardinality(Callers) - 1

\* Overlapping applications and reversals of compliance controls lose none: the overlay holds
\* exactly the controls applied and not taken back (the advisory lock of create_policy and
\* delete_policy), as long as nothing replaced or dropped it outside that lock.
ControlsKept ==
    (disturbed = {} /\ \A p \in Callers : req[p].pc \notin {"write", "drop"}) => ControlsOf(db[Overlay]) = wanted

\* No route of this router touches a scope that another router materialises, however the request
\* spells its key.
LeavesManaged == db'[Pack] = db[Pack]
\* LeavesManaged of every step of the router.
ManagedUntouched == [][LeavesManaged]_db

\* What the comments on the lock say: a concurrent application is not lost.  Refuted: taking back
\* the last control lets go of the lock before it deletes the row, and a control applied in
\* between goes with it.
ControlsNeverLost ==
    ("replaced" \notin disturbed /\ \A p \in Callers : req[p].pc \notin {"write", "drop"}) =>
        wanted \subseteq ControlsOf(db[Overlay])

\* What create_policy's comment says of an overlay: it is never stored in audit mode.  Refuted by
\* apply_policy, which stores the caller's mode at any scope it accepts.
OverlaysEnforce == db[Overlay] # None => db[Overlay].mode = "block"

\* What the comment above _assert_intent_has_a_baseline_under_it is about: an intent is never the
\* only policy of its namespace.  Refuted: the baseline can be removed afterwards, and neither
\* rollback nor apply looks for it.
IntentsHaveAFloor == (\E s \in Existing : db[s].rego.intent) => db[Base] # None
=============================================================================
