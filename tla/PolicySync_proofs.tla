-------------------------- MODULE PolicySync_proofs --------------------------
(***************************************************************************)
(* The version that backs the enforcing row is never pruned, for any       *)
(* number of replicas, engines and requests, and any bounds on history.    *)
(*                                                                         *)
(* A prune acts on what it read one step earlier.  The invariant says how  *)
(* stale that may be: either the policy it read is gone for good (ids are  *)
(* not reused), or the version it took for the current one is not newer    *)
(* than the current one, and its cutoff not newer than that.               *)
(*                                                                         *)
(* Then five parts that work on the stored policies: the routes that write *)
(* them, OPA that evaluates them, the promoted verbs that they are         *)
(* generated from, the cluster resources that they come as and the intents *)
(* that are compiled to them.  Each is an instance with variables of its   *)
(* own, and has an inductive invariant of its own.                         *)
(***************************************************************************)
EXTENDS PolicySync, FiniteSetTheorems, TLAPS

\* Rows carry numbers, and ids already given out.
NumbersInv ==
    /\ ids \in Nat
    /\ \A r \in db : r.id \in Nat /\ r.ver \in Nat /\ r.id <= ids
    /\ \A h \in hist : h.id \in Nat /\ h.ver \in Nat /\ h.id <= ids

\* The scope has one row.
OneRow == \A r, s \in db : r = s

PruneInv ==
    /\ pruning \in [Requests -> [id : Nat, current : Nat, cutoff : Nat]]
    /\ \A m \in Requests :
          /\ pruning[m].cutoff <= pruning[m].current
          /\ pruning[m].id <= ids
          /\ \A r \in db : r.id = pruning[m].id => pruning[m].current <= r.ver

IndInv == NumbersInv /\ OneRow /\ CurrentVersionKept /\ PruneInv

-----------------------------------------------------------------------------
\* The first states: no row, or a row that is its own history.
LEMMA InitInd == Init => IndInv
<1> SUFFICES ASSUME Init PROVE IndInv
  OBVIOUS
<1>1. /\ db = hist /\ ids = 1
      /\ hist = {} \/ \E r \in [id : {1}, ver : {1}, rego : Regos, mode : Modes] : hist = {r}
      /\ pruning = [m \in Requests |-> NoPrune]
  BY DEF Init
<1>2. NumbersInv /\ OneRow /\ CurrentVersionKept
  BY <1>1 DEF NumbersInv, OneRow, CurrentVersionKept
<1>3. PruneInv
  <2>1. pruning \in [Requests -> [id : Nat, current : Nat, cutoff : Nat]]
    BY <1>1 DEF NoPrune
  <2>2. \A m \in Requests : pruning[m].id = 0 /\ pruning[m].current = 0 /\ pruning[m].cutoff = 0
    BY <1>1 DEF NoPrune
  <2>3. \A r \in db : r.ver = 1
    BY <1>1
  <2> QED BY <1>1, <2>1, <2>2, <2>3 DEF PruneInv
<1> QED BY <1>2, <1>3 DEF IndInv

(* The upsert of create: a version number one above the last, or a fresh   *)
(* id, which no prune under way has read.                                  *)
LEMMA StoredInd ==
    ASSUME IndInv, NEW m \in Requests, Stored(m), UNCHANGED pruning
    PROVE  IndInv'
<1>1. CASE db = {}
  <2> DEFINE n == [id |-> ids + 1, ver |-> 1, rego |-> task[m].rego, mode |-> task[m].mode]
  <2>1. db' = {n} /\ hist' = hist \cup {n} /\ ids' = ids + 1
    BY <1>1 DEF Stored, Upserted
  <2>2. n.id = ids + 1 /\ n.ver = 1 /\ n.rego = task[m].rego
    OBVIOUS
  <2> HIDE DEF n
  <2>3. NumbersInv' /\ OneRow' /\ CurrentVersionKept'
    BY <2>1, <2>2 DEF IndInv, NumbersInv, OneRow, CurrentVersionKept
  <2>4. PruneInv'
    BY <2>1, <2>2 DEF IndInv, NumbersInv, PruneInv
  <2> QED BY <2>3, <2>4 DEF IndInv
<1>2. CASE db # {}
  <2>1. PICK r \in db : db = {r}
    BY <1>2 DEF IndInv, OneRow
  <2> DEFINE n == [id |-> r.id, ver |-> r.ver + 1, rego |-> task[m].rego, mode |-> task[m].mode]
  <2>2. db' = {n} /\ hist' = hist \cup {n} /\ ids' = ids
    BY <1>2, <2>1 DEF Stored, Upserted
  <2>3. n.id = r.id /\ n.ver = r.ver + 1 /\ n.rego = task[m].rego
    OBVIOUS
  <2> HIDE DEF n
  <2>4. NumbersInv' /\ OneRow' /\ CurrentVersionKept'
    BY <2>1, <2>2, <2>3 DEF IndInv, NumbersInv, OneRow, CurrentVersionKept
  <2>5. PruneInv'
    BY <2>1, <2>2, <2>3 DEF IndInv, NumbersInv, PruneInv
  <2> QED BY <2>4, <2>5 DEF IndInv
<1> QED BY <1>1, <1>2

\* The two deletes of delete: no row, nothing to keep.
LEMMA DeletedInd ==
    ASSUME IndInv, Deleted, UNCHANGED pruning
    PROVE  IndInv'
BY DEF Deleted, IndInv, NumbersInv, OneRow, CurrentVersionKept, PruneInv

\* A mode-only apply rewrites modes, never an id, a version number or a text.
LEMMA RemodedInd ==
    ASSUME IndInv, NEW t, Remoded(t), UNCHANGED pruning
    PROVE  IndInv'
<1> DEFINE taken == {h \in hist : h.ver = t.ver /\ \E r \in db : h.id = r.id}
<1>1. /\ db' = {WithMode(r, t.mode) : r \in db}
      /\ hist' = (hist \ taken) \cup {WithMode(h, t.mode) : h \in taken}
      /\ ids' = ids
  BY DEF Remoded
<1>2. \A r, x : /\ WithMode(r, x).id = r.id /\ WithMode(r, x).ver = r.ver
                /\ WithMode(r, x).rego = r.rego
  BY DEF WithMode
<1>3. \A r \in db' : \E s \in db : r = WithMode(s, t.mode)
  BY <1>1
<1>4. \A h \in hist' : \E g \in hist : h.id = g.id /\ h.ver = g.ver /\ h.rego = g.rego
  BY <1>1, <1>2
<1>5. \A g \in hist : \E h \in hist' : h.id = g.id /\ h.ver = g.ver /\ h.rego = g.rego
  BY <1>1, <1>2
<1> HIDE DEF taken
<1>6. \A r \in db' : \E s \in db : r.id = s.id /\ r.ver = s.ver /\ r.rego = s.rego
  BY <1>2, <1>3
<1>7. NumbersInv'
  BY <1>1, <1>4, <1>6 DEF IndInv, NumbersInv
<1>8. OneRow'
  BY <1>3 DEF IndInv, OneRow
<1>9. CurrentVersionKept'
  <2> SUFFICES ASSUME NEW r \in db'
               PROVE  /\ \E h \in hist' : h.id = r.id /\ h.ver = r.ver /\ h.rego = r.rego
                      /\ \A h \in hist' : h.id = r.id => h.ver <= r.ver
    BY DEF CurrentVersionKept
  <2>1. PICK s \in db : r.id = s.id /\ r.ver = s.ver /\ r.rego = s.rego
    BY <1>6
  <2>2. PICK g \in hist : g.id = s.id /\ g.ver = s.ver /\ g.rego = s.rego
    BY DEF IndInv, CurrentVersionKept
  <2>3. \E h \in hist' : h.id = r.id /\ h.ver = r.ver /\ h.rego = r.rego
    BY <1>5, <2>1, <2>2
  <2>4. \A h \in hist' : h.id = r.id => h.ver <= r.ver
    BY <1>4, <2>1 DEF IndInv, CurrentVersionKept
  <2> QED BY <2>3, <2>4
<1>10. PruneInv'
  BY <1>1, <1>6 DEF IndInv, PruneInv
<1> QED BY <1>7, <1>8, <1>9, <1>10 DEF IndInv

\* The SELECT of prune_versions: what it reads is current.
LEMMA SelectInd ==
    ASSUME IndInv, NEW m \in Requests, Select(m)
    PROVE  IndInv'
<1>1. UNCHANGED <<db, hist, ids>>
  BY DEF Select, stores
<1>2. CASE UNCHANGED pruning
  BY <1>1, <1>2 DEF IndInv, NumbersInv, OneRow, CurrentVersionKept, PruneInv
<1>3. CASE \E r \in db : \E c \in 0..r.ver :
              pruning' = [pruning EXCEPT ![m] = [id |-> r.id, current |-> r.ver, cutoff |-> c]]
  <2>0. PICK r \in db : \E c \in 0..r.ver :
              pruning' = [pruning EXCEPT ![m] = [id |-> r.id, current |-> r.ver, cutoff |-> c]]
    BY <1>3
  <2>1. PICK c \in 0..r.ver :
              pruning' = [pruning EXCEPT ![m] = [id |-> r.id, current |-> r.ver, cutoff |-> c]]
    BY <2>0
  <2>2. r.id \in Nat /\ r.ver \in Nat /\ r.id <= ids /\ c \in Nat /\ c <= r.ver
    BY <2>1 DEF IndInv, NumbersInv
  <2>3. pruning' \in [Requests -> [id : Nat, current : Nat, cutoff : Nat]]
    BY <2>1, <2>2 DEF IndInv, PruneInv
  <2>4. /\ pruning'[m].id = r.id /\ pruning'[m].current = r.ver /\ pruning'[m].cutoff = c
        /\ \A n \in Requests \ {m} : pruning'[n] = pruning[n]
    BY <2>1, <2>2 DEF IndInv, PruneInv
  <2>5. PruneInv'
    BY <1>1, <2>2, <2>3, <2>4 DEF IndInv, PruneInv, OneRow
  <2> QED BY <1>1, <2>5 DEF IndInv, NumbersInv, OneRow, CurrentVersionKept
<1> QED BY <1>2, <1>3 DEF Select

(* The DELETE of prune_versions: the current version is either the one the *)
(* prune spares by name, or newer than its cutoff.                         *)
LEMMA PruneInd ==
    ASSUME IndInv, NEW m \in Requests, Prune(m)
    PROVE  IndInv'
<1> DEFINE t == pruning[m]
<1>1. UNCHANGED <<db, ids, pruning>> /\ hist' = hist \ Pruned(t)
  BY DEF Prune
<1>2. /\ t.id \in Nat /\ t.current \in Nat /\ t.cutoff \in Nat /\ t.cutoff <= t.current
      /\ \A r \in db : r.id = t.id => t.current <= r.ver
  BY DEF IndInv, PruneInv
<1> HIDE DEF t
<1>3. \A r \in db, h \in hist : (h.id = r.id /\ h.ver = r.ver) => h \notin Pruned(t)
  BY <1>2 DEF Pruned, IndInv, NumbersInv
<1>4. CurrentVersionKept'
  BY <1>1, <1>3 DEF IndInv, CurrentVersionKept
<1> QED BY <1>1, <1>4 DEF IndInv, NumbersInv, OneRow, PruneInv

-----------------------------------------------------------------------------
\* What every other step leaves alone.
LEMMA OtherSteps ==
    ASSUME [Next]_vars
    PROVE  \/ \E m \in Requests : \/ Stored(m) /\ UNCHANGED pruning
                                  \/ Remoded(task[m]) /\ UNCHANGED pruning
                                  \/ Select(m) \/ Prune(m)
           \/ Deleted /\ UNCHANGED pruning
           \/ UNCHANGED <<stores, pruning>>
<1>1. CASE UNCHANGED vars
  BY <1>1 DEF vars, requests
<1>2. ASSUME NEW m \in Requests, NEW p \in Replicas, Save(m, p) \/ Rollback(m, p) \/ Apply(m, p) \/ Delete(m, p)
      PROVE  UNCHANGED <<stores, pruning>>
  BY <1>2 DEF Save, Rollback, Apply, Delete, Arrives
<1>3. ASSUME NEW m \in Requests, Remember(m) \/ Patch(m) \/ PublishReload(m) \/ PublishEvent(m) \/ PublishFails(m)
      PROVE  UNCHANGED <<stores, pruning>>
  BY <1>3 DEF Remember, Patch, PublishReload, PublishEvent, PublishFails
<1>4. ASSUME NEW m \in Requests, Commit(m) \/ Remode(m) \/ DeleteRow(m)
      PROVE  (Stored(m) \/ Remoded(task[m]) \/ Deleted) /\ UNCHANGED pruning
  BY <1>4 DEF Commit, Remode, DeleteRow
<1>5. ASSUME NEW m \in Requests, WriteFails(m)
      PROVE  \/ (Stored(m) \/ Remoded(task[m]) \/ Deleted) /\ UNCHANGED pruning
             \/ UNCHANGED <<stores, pruning>>
  BY <1>5 DEF WriteFails
<1>6. ASSUME NEW p \in Procs,
             \/ Deliver(p) \/ DeliverFails(p) \/ ListenRow(p) \/ ListenRead(p) \/ ListenHistory(p)
             \/ LazyRead(p) \/ LazyWrite(p) \/ Exit(p) \/ Warm(p) \/ Subscribe(p) \/ Drop(p)
      PROVE  UNCHANGED <<stores, pruning>>
  BY <1>6 DEF Deliver, DeliverFails, ListenRow, ListenRead, ListenHistory, LazyRead, LazyWrite,
              Exit, Warm, Subscribe, Drop, requests
<1> QED BY <1>1, <1>2, <1>3, <1>4, <1>5, <1>6 DEF Next

\* Every step keeps the invariant.
LEMMA NextInd == IndInv /\ [Next]_vars => IndInv'
<1> SUFFICES ASSUME IndInv, [Next]_vars PROVE IndInv'
  OBVIOUS
<1>1. CASE UNCHANGED <<stores, pruning>>
  BY <1>1 DEF stores, IndInv, NumbersInv, OneRow, CurrentVersionKept, PruneInv
<1> QED BY <1>1, OtherSteps, StoredInd, DeletedInd, RemodedInd, SelectInd, PruneInd

(* The current version stays in policy_versions with its text, and nothing *)
(* in it is newer, whatever saves, mode changes, deletes and prunes        *)
(* overlap (prune_versions' safety invariant).                             *)
THEOREM CurrentKept == Spec => []CurrentVersionKept
<1>1. IndInv => CurrentVersionKept
  BY DEF IndInv
<1> QED BY <1>1, InitInd, NextInd, PTL DEF Spec

-----------------------------------------------------------------------------
(* The policies router: saves, deletes, rollbacks, applications, controls. *)
CONSTANTS Callers, Controls, Cap, MaxOps, NoRow
VARIABLES stored, past, lock, req, applied, wanted, disturbed, ops

RT == INSTANCE PolicyRoutes WITH db <- stored, None <- NoRow

AnyRego == [intent : BOOLEAN, controls : SUBSET Controls]
AnyRow == [rego : AnyRego, mode : RT!Modes]
OpenScopes == RT!Scopes \ {RT!Pack}
Request == [pc : {"count", "store", "lock", "read", "write", "drop", "put"},
            op : {"post", "delete", "revert", "rollback", "apply"},
            scope : OpenScopes, rego : AnyRego, mode : RT!Modes]

\* Absence is neither a caller nor a row, and the cap admits what a namespace starts with.
RouteConstants == NoRow \notin Callers /\ NoRow \notin AnyRow /\ IsFiniteSet(Callers) /\ Cap \in Nat /\ Cap >= 2 /\ Callers # {}

RouteTypes ==
    /\ stored \in [RT!Scopes -> AnyRow \cup {NoRow}] /\ past \in [RT!Scopes -> SUBSET AnyRow]
    /\ lock \in Callers \cup {NoRow} /\ applied \subseteq RT!Scopes /\ wanted \subseteq Controls
    /\ req \in [Callers -> {RT!Idle} \cup Request]

\* What a request's stage says of it.
StageInv ==
    \A p \in Callers :
        /\ req[p].pc \in {"read", "write"} <=> lock = p
        /\ req[p].pc \in {"count", "store"} => req[p].op = "post"
        /\ req[p].pc \in {"lock", "read", "write"} => req[p].op \in {"post", "revert"} /\ req[p].scope = RT!Overlay
        /\ req[p].pc \in {"lock", "read"} => req[p].rego.controls # {}
        /\ req[p].pc = "store" /\ req[p].scope = RT!Overlay => req[p].rego.controls = {}
        /\ req[p].pc = "drop" => req[p].op \in {"delete", "revert"}
        /\ req[p].pc = "drop" /\ req[p].op = "revert" => req[p].scope = RT!Overlay

\* The overlay is as wanted, or what is being written is, or the last control is being taken back.
KeptInv ==
    disturbed = {} =>
        \/ \E p \in Callers : req[p].pc = "drop" /\ req[p].op = "revert"
        \/ RT!ControlsOf(stored[RT!Overlay]) = wanted /\ \A p \in Callers : req[p].pc # "write"
        \/ \E p \in Callers : req[p].pc = "write" /\ req[p].rego.controls = wanted

\* The scopes that are, or were admitted to be, created by create_policy.
Bound(p) == req[p].pc \in {"store", "write"} \/ (req[p].pc \in {"lock", "read"} /\ req[p].op = "post")
Counted == (RT!Existing \cup {req[p].scope : p \in {q \in Callers : Bound(q)}}) \ applied
CapInv == Cardinality(Counted) <= Cap + Cardinality(Callers) - 1

RouteInv == RouteTypes /\ StageInv /\ KeptInv /\ CapInv

\* The instance counts as this module does.
LEMMA SameCardinality == ASSUME NEW S PROVE RT!Cardinality(S) = Cardinality(S)
  BY Zenon DEF RT!Cardinality, Cardinality

\* A namespace has finitely many scopes.
LEMMA ScopesFinite == IsFiniteSet(RT!Scopes)
<1>1. IsFiniteSet({})
  BY FS_EmptySet
<1>2. IsFiniteSet({"c"})
  BY <1>1, FS_AddElement
<1>3. IsFiniteSet({"c", "d"})
  <2>1. {"c", "d"} = {"c"} \cup {"d"}
    OBVIOUS
  <2> QED BY <1>2, <2>1, FS_AddElement
<1>4. IsFiniteSet({"c", "d"} \cup {RT!Base} \cup {RT!Overlay} \cup {RT!Pack})
  BY <1>3, FS_AddElement
<1>5. RT!Scopes = {"c", "d"} \cup {RT!Base} \cup {RT!Overlay} \cup {RT!Pack}
  BY DEF RT!Scopes, RT!Classes
<1> QED BY <1>4, <1>5

\* What is counted are scopes.
LEMMA CountedFinite == ASSUME RouteTypes PROVE Counted \subseteq RT!Scopes /\ IsFiniteSet(Counted)
<1>1. \A p \in Callers : Bound(p) => req[p] \in Request
  BY DEF RouteTypes, Bound, RT!Idle
<1>2. Counted \subseteq RT!Scopes
  BY <1>1 DEF Counted, RT!Existing, Request, OpenScopes
<1> QED BY <1>2, ScopesFinite, FS_Subset

\* A step that adds nothing to the count keeps within the cap.
LEMMA CountedShrinks ==
    ASSUME RouteConstants, RouteTypes, RouteTypes', CapInv, Counted' \subseteq Counted
    PROVE  CapInv'
<1>1. IsFiniteSet(Counted)
  BY CountedFinite
<1>2. Cardinality(Counted') <= Cardinality(Counted)
  BY <1>1, FS_Subset
<1>3. Cardinality(Counted) \in Nat /\ Cardinality(Counted') \in Nat /\ Cardinality(Callers) \in Nat
  BY <1>1, FS_Subset, FS_CardinalityType DEF RouteConstants
<1> QED BY <1>2, <1>3 DEF CapInv, RouteConstants

\* Only request p changes, and becomes r.
Becomes(p, r) ==
    /\ req' = [q \in Callers |-> req'[q]] /\ req'[p] = r /\ \A q \in Callers \ {p} : req'[q] = req[q]

\* A request is replaced.
LEMMA BecomesEffect ==
    ASSUME RouteTypes, NEW p \in Callers, NEW r, req' = [req EXCEPT ![p] = r] PROVE Becomes(p, r)
  BY DEF RouteTypes, Becomes

\* A request goes to its next stage, and stays what it is.
LEMMA RequestMoves ==
    ASSUME RouteTypes, NEW p \in Callers, req[p].pc # "idle", NEW pc, req' = [req EXCEPT ![p].pc = pc],
           pc \in {"count", "store", "lock", "read", "write", "drop", "put"}
    PROVE  /\ Becomes(p, req'[p]) /\ req[p] \in Request /\ req'[p] \in Request
           /\ req'[p].pc = pc /\ req'[p].op = req[p].op /\ req'[p].scope = req[p].scope
           /\ req'[p].rego = req[p].rego /\ req'[p].mode = req[p].mode
<1>1. req[p] \in Request
  BY DEF RouteTypes, RT!Idle
<1> DEFINE r == [req[p] EXCEPT !.pc = pc]
<1>2. req' = [req EXCEPT ![p] = r] /\ Becomes(p, r)
  BY BecomesEffect DEF RouteTypes
<1>3. r \in Request /\ r.pc = pc /\ r.op = req[p].op /\ r.scope = req[p].scope /\ r.rego = req[p].rego /\ r.mode = req[p].mode
  BY <1>1 DEF Request
<1> QED BY <1>1, <1>2, <1>3 DEF Becomes

\* A request arrives.
LEMMA BeginsStep ==
    ASSUME RouteConstants, RouteInv, NEW p \in Callers, NEW r \in Request, RT!Begin(p, r),
           UNCHANGED <<stored, past, lock, applied, wanted, disturbed>>,
           r.pc \in {"count", "lock", "drop", "put"},
           r.pc = "count" => r.op = "post",
           r.pc = "lock" => r.op = "revert" /\ r.scope = RT!Overlay /\ r.rego.controls # {},
           r.pc = "drop" => r.op = "delete"
    PROVE  RouteInv'
<1>1. req[p] = RT!Idle /\ req[p].pc = "idle" /\ Becomes(p, r)
  <2>1. req[p] = RT!Idle /\ req' = [req EXCEPT ![p] = r]
    BY DEF RT!Begin
  <2>2. RT!Idle.pc = "idle"
    BY DEF RT!Idle
  <2>3. Becomes(p, r)
    BY <2>1, BecomesEffect DEF RouteInv
  <2> QED BY <2>1, <2>2, <2>3
<1>2. RouteTypes'
  BY <1>1 DEF RouteInv, RouteTypes, Becomes
<1>3. StageInv'
  BY <1>1 DEF RouteInv, StageInv, Becomes
<1>4. KeptInv'
  BY <1>1 DEF RouteInv, KeptInv, Becomes
<1>5. Counted' \subseteq Counted
  BY <1>1 DEF Counted, Bound, Becomes, RT!Existing
<1> QED BY <1>2, <1>3, <1>4, <1>5, CountedShrinks DEF RouteInv

\* Two finite sets together have at most as many elements as both.
LEMMA UnionBound ==
    ASSUME NEW S, NEW T, IsFiniteSet(S), IsFiniteSet(T)
    PROVE  IsFiniteSet(S \cup T) /\ Cardinality(S \cup T) <= Cardinality(S) + Cardinality(T)
<1>1. IsFiniteSet(S \cap T) /\ Cardinality(S \cap T) \in Nat /\ Cardinality(S) \in Nat /\ Cardinality(T) \in Nat
  BY FS_Subset, FS_CardinalityType
<1>2. IsFiniteSet(S \cup T) /\ Cardinality(S \cup T) = Cardinality(S) + Cardinality(T) - Cardinality(S \cap T)
  BY FS_Union, Zenon
<1> QED BY <1>1, <1>2

\* What Cap admits: at most one scope for each request that can be under way.
LEMMA AdmitsWithin ==
    ASSUME RouteConstants, RouteTypes', Cardinality(RT!Existing) < Cap, RT!Existing' = RT!Existing
    PROVE  CapInv'
<1> DEFINE A == {q \in Callers : Bound(q)'}
           T == {req'[q].scope : q \in A}
           f == [q \in A |-> req'[q].scope]
<1>1. IsFiniteSet(A) /\ Cardinality(A) <= Cardinality(Callers) /\ Cardinality(A) \in Nat /\ Cardinality(Callers) \in Nat
  BY FS_Subset, FS_CardinalityType DEF RouteConstants
<1>2. f \in Surjection(A, T)
  BY DEF Surjection
<1>3. IsFiniteSet(T) /\ Cardinality(T) <= Cardinality(A) /\ Cardinality(T) \in Nat
  BY <1>1, <1>2, FS_Surjection, FS_CardinalityType
<1>4. IsFiniteSet(RT!Existing) /\ Cardinality(RT!Existing) \in Nat
  BY ScopesFinite, FS_Subset, FS_CardinalityType DEF RT!Existing
<1>5. IsFiniteSet(RT!Existing \cup T) /\ Cardinality(RT!Existing \cup T) <= Cardinality(RT!Existing) + Cardinality(T)
  <2> HIDE DEF T
  <2> QED BY <1>3, <1>4, UnionBound
<1>6. Counted' \subseteq RT!Existing \cup T
  BY DEF Counted
<1>7. Cardinality(Counted') <= Cardinality(RT!Existing \cup T) /\ Cardinality(Counted') \in Nat /\ Cardinality(RT!Existing \cup T) \in Nat
  BY <1>5, <1>6, FS_Subset, FS_CardinalityType
<1> QED BY <1>1, <1>3, <1>4, <1>5, <1>7 DEF CapInv, RouteConstants

\* The cap is looked at: the request is refused, or admitted.
LEMMA CountStep == ASSUME RouteConstants, RouteInv, NEW p \in Callers, RT!Count(p) PROVE RouteInv'
<1>1. req[p].pc = "count" /\ req[p].op = "post" /\ req[p] \in Request /\ UNCHANGED <<stored, past, lock, applied, wanted, disturbed>>
  BY DEF RT!Count, RouteInv, RouteTypes, StageInv, RT!Idle, RT!history
<1>2. CASE ~RT!Admitted(req[p].scope)
  <2>1. req' = [req EXCEPT ![p] = RT!Idle]
    BY <1>2 DEF RT!Count, RT!End
  <2>2. Becomes(p, RT!Idle) /\ RT!Idle.pc = "idle"
    BY <2>1, BecomesEffect DEF RouteInv, RT!Idle
  <2>3. RouteTypes'
    BY <1>1, <2>2 DEF RouteInv, RouteTypes, Becomes
  <2>4. StageInv'
    BY <1>1, <2>2 DEF RouteInv, StageInv, Becomes
  <2>5. KeptInv'
    BY <1>1, <2>2 DEF RouteInv, KeptInv, Becomes
  <2>6. Counted' \subseteq Counted
    BY <1>1, <2>2 DEF Counted, Bound, Becomes, RT!Existing
  <2> QED BY <2>3, <2>4, <2>5, <2>6, CountedShrinks DEF RouteInv
<1>3. CASE RT!Admitted(req[p].scope)
  <2> DEFINE pc == IF RT!Accumulates(req[p]) THEN "lock" ELSE "store"
  <2>1. req' = [req EXCEPT ![p].pc = pc]
    BY <1>3 DEF RT!Count, RT!To
  <2>a. pc \in {"lock", "store"} /\ (pc = "lock" <=> RT!Accumulates(req[p]))
    OBVIOUS
  <2> HIDE DEF pc
  <2>2. /\ Becomes(p, req'[p]) /\ req'[p] \in Request
        /\ req'[p].pc = pc /\ req'[p].op = "post" /\ req'[p].scope = req[p].scope /\ req'[p].rego = req[p].rego
    BY <1>1, <2>1, <2>a, RequestMoves DEF RouteInv
  <2>3. RouteTypes'
    BY <1>1, <2>2 DEF RouteInv, RouteTypes, Becomes
  <2>4. StageInv'
    BY <1>1, <2>2, <2>a DEF RouteInv, StageInv, Becomes, RT!Accumulates
  <2>5. KeptInv'
    BY <1>1, <2>2, <2>a DEF RouteInv, KeptInv, Becomes
  <2>6. CapInv'
    <3>1. RT!Existing' = RT!Existing
      BY <1>1 DEF RT!Existing
    <3>2. CASE req[p].scope \in RT!Existing
      <4>1. Counted' \subseteq Counted
        BY <1>1, <2>2, <2>a, <3>1, <3>2 DEF Counted, Bound, Becomes
      <4> QED BY <2>3, <4>1, CountedShrinks DEF RouteInv
    <3>3. CASE Cardinality(RT!Existing) < Cap
      BY <2>3, <3>1, <3>3, AdmitsWithin
    <3> QED BY <1>3, <3>2, <3>3, SameCardinality DEF RT!Admitted
  <2> QED BY <2>3, <2>4, <2>5, <2>6 DEF RouteInv
<1> QED BY <1>2, <1>3

\* A request ends with a row stored, or dropped, at a scope.
LEMMA RowTypes ==
    ASSUME RouteTypes, NEW s \in RT!Scopes, NEW row \in AnyRow, RT!Stores(s, row)
    PROVE  /\ stored' \in [RT!Scopes -> AnyRow \cup {NoRow}] /\ past' \in [RT!Scopes -> SUBSET AnyRow]
           /\ stored'[s] = row /\ \A t \in RT!Scopes : t # s => stored'[t] = stored[t]
  BY DEF RouteTypes, RT!Stores

\* The compliance overlay is a scope that requests may name.
LEMMA OverlayIsAScope == RT!Overlay \in OpenScopes /\ OpenScopes \subseteq RT!Scopes
  BY DEF RT!Overlay, OpenScopes, RT!Scopes, RT!Pack

\* Nobody is between reading and writing the overlay while the lock is free.
LEMMA Unheld == ASSUME StageInv, lock = NoRow, RouteConstants PROVE \A p \in Callers : req[p].pc \notin {"read", "write"}
  BY DEF StageInv, RouteConstants

\* An admitted save is stored.
LEMMA StoreStep == ASSUME RouteConstants, RouteInv, NEW p \in Callers, RT!Store(p) PROVE RouteInv'
<1> DEFINE s == req[p].scope
           row == RT!Row(req[p].rego, req[p].mode)
<1>1. req[p].pc = "store" /\ req[p].op = "post" /\ req[p] \in Request /\ UNCHANGED <<lock, applied>> /\ s \in OpenScopes
  BY DEF RT!Store, RouteInv, RouteTypes, StageInv, RT!Idle, Request
<1>2. RT!Stores(s, row) /\ Becomes(p, RT!Idle) /\ RT!Idle.pc = "idle"
  BY BecomesEffect DEF RouteInv, RT!Store, RT!End, RT!Idle
<1>3. row \in AnyRow /\ row # NoRow /\ row.rego = req[p].rego /\ s \in RT!Scopes
  BY <1>1, OverlayIsAScope DEF RT!Row, AnyRow, Request, RouteConstants
<1>4. IF s = RT!Overlay THEN wanted' = {} /\ disturbed' = (IF lock # NoRow THEN disturbed \cup {"replaced"} ELSE disturbed)
                        ELSE UNCHANGED <<wanted, disturbed>>
  BY DEF RT!Store, RT!Disturbs
<1> HIDE DEF row
<1>5. /\ stored' \in [RT!Scopes -> AnyRow \cup {NoRow}] /\ past' \in [RT!Scopes -> SUBSET AnyRow]
      /\ stored'[s] = row /\ \A t \in RT!Scopes : t # s => stored'[t] = stored[t]
  BY <1>2, <1>3, RowTypes DEF RouteInv
<1>6. RouteTypes'
  BY <1>1, <1>2, <1>4, <1>5 DEF RouteInv, RouteTypes, Becomes
<1>7. StageInv'
  BY <1>1, <1>2 DEF RouteInv, StageInv, Becomes
<1>8. KeptInv'
  <2> SUFFICES ASSUME disturbed' = {} PROVE KeptInv'
    BY DEF KeptInv
  <2>1. disturbed = {} /\ (s = RT!Overlay => lock = NoRow)
    BY <1>4
  <2>2. CASE s = RT!Overlay
    <3>1. RT!ControlsOf(stored[RT!Overlay])' = {} /\ wanted' = {}
      BY <1>1, <1>3, <1>4, <1>5, <2>2 DEF RT!ControlsOf, RouteInv, StageInv
    <3>2. \A q \in Callers : req'[q].pc # "write"
      BY <1>2, <2>1, <2>2, Unheld DEF RouteInv, Becomes
    <3> QED BY <3>1, <3>2 DEF KeptInv
  <2>3. CASE s # RT!Overlay
    <3>1. stored'[RT!Overlay] = stored[RT!Overlay] /\ wanted' = wanted
      BY <1>4, <1>5, <2>3, OverlayIsAScope
    <3>2. \A q \in Callers : req'[q].pc \in {"drop", "write"} \/ req[q].pc \in {"drop", "write"} => req'[q] = req[q]
      BY <1>1, <1>2 DEF Becomes
    <3> QED BY <2>1, <3>1, <3>2 DEF RouteInv, KeptInv, RT!ControlsOf
  <2> QED BY <2>2, <2>3
<1>9. Counted' \subseteq Counted
  BY <1>1, <1>2, <1>5 DEF Counted, Bound, Becomes, RT!Existing
<1> QED BY <1>6, <1>7, <1>8, <1>9, CountedShrinks DEF RouteInv

\* A request takes the advisory lock of the overlay.
LEMMA TakeLockStep == ASSUME RouteConstants, RouteInv, NEW p \in Callers, RT!TakeLock(p) PROVE RouteInv'
<1>1. /\ req[p].pc = "lock" /\ lock = NoRow /\ lock' = p /\ UNCHANGED <<stored, past, applied, wanted, disturbed>>
      /\ req' = [req EXCEPT ![p].pc = "read"]
  BY DEF RT!TakeLock, RT!Locks, RT!To, RT!history
<1>2. /\ Becomes(p, req'[p]) /\ req'[p] \in Request /\ req[p] \in Request
      /\ req'[p].pc = "read" /\ req'[p].op = req[p].op /\ req'[p].scope = req[p].scope /\ req'[p].rego = req[p].rego
  BY <1>1, RequestMoves DEF RouteInv
<1>3. RouteTypes'
  BY <1>1, <1>2 DEF RouteInv, RouteTypes, Becomes
<1>4. StageInv'
  BY <1>1, <1>2, Unheld DEF RouteInv, StageInv, Becomes, RouteConstants
<1>5. KeptInv'
  BY <1>1, <1>2 DEF RouteInv, KeptInv, Becomes
<1>6. Counted' \subseteq Counted
  BY <1>1, <1>2 DEF Counted, Bound, Becomes, RT!Existing
<1> QED BY <1>3, <1>4, <1>5, <1>6, CountedShrinks DEF RouteInv

\* The overlay is read under the lock.
LEMMA ReadStep == ASSUME RouteConstants, RouteInv, NEW p \in Callers, RT!Read(p) PROVE RouteInv'
<1> DEFINE r == req[p]
           old == RT!ControlsOf(stored[RT!Overlay])
           new == RT!Merged(r.op, old, r.rego.controls)
<1>1. /\ r.pc = "read" /\ r \in Request /\ r.op \in {"post", "revert"} /\ r.scope = RT!Overlay /\ r.rego.controls # {} /\ lock = p
      /\ UNCHANGED <<stored, past, applied, disturbed>>
  BY DEF RT!Read, RouteInv, RouteTypes, StageInv, RT!Idle
<1>2. r.rego.controls \subseteq Controls /\ old \subseteq Controls /\ (old # {} => RT!Overlay \in RT!Existing)
  <2>1. stored[RT!Overlay] \in AnyRow \cup {NoRow} /\ RT!Overlay \in RT!Scopes
    BY OverlayIsAScope DEF RouteInv, RouteTypes
  <2> QED BY <1>1, <2>1 DEF Request, AnyRego, AnyRow, RT!ControlsOf, RT!Existing
<1>3. new = IF r.op = "post" THEN old \cup r.rego.controls ELSE old \ r.rego.controls
  BY DEF RT!Merged
<1>4. \A q \in Callers : q # p => req[q].pc \notin {"read", "write"}
  BY <1>1 DEF RouteInv, StageInv
<1>5. /\ disturbed = {} => (\E q \in Callers : req[q].pc = "drop" /\ req[q].op = "revert") \/ old = wanted
      /\ wanted \subseteq Controls
  BY <1>1, <1>4 DEF RouteInv, KeptInv, RouteTypes
<1>6. RT!Existing' = RT!Existing
  BY <1>1 DEF RT!Existing
<1>7. CASE r.op = "revert" /\ ~(r.rego.controls \subseteq old)
  <2>1. lock' = NoRow /\ wanted' = wanted /\ req' = [req EXCEPT ![p] = RT!Idle]
    BY <1>7 DEF RT!Read, RT!End
  <2>2. Becomes(p, RT!Idle) /\ RT!Idle.pc = "idle"
    BY <2>1, BecomesEffect DEF RouteInv, RT!Idle
  <2>3. RouteTypes'
    BY <1>1, <2>1, <2>2 DEF RouteInv, RouteTypes, Becomes
  <2>4. StageInv'
    BY <1>1, <1>4, <2>1, <2>2 DEF RouteInv, StageInv, Becomes, RouteConstants
  <2>5. KeptInv'
    BY <1>1, <1>4, <2>1, <2>2 DEF RouteInv, KeptInv, Becomes
  <2>6. Counted' \subseteq Counted
    BY <1>1, <1>6, <2>2 DEF Counted, Bound, Becomes
  <2> QED BY <2>3, <2>4, <2>5, <2>6, CountedShrinks DEF RouteInv
<1>8. CASE ~(r.op = "revert" /\ ~(r.rego.controls \subseteq old)) /\ new = {}
  <2>1. lock' = NoRow /\ wanted' = wanted \ r.rego.controls /\ req' = [req EXCEPT ![p].pc = "drop"] /\ r.op = "revert"
    <3>1. r.op = "revert"
      BY <1>1, <1>3, <1>8
    <3> QED BY <1>8, <3>1 DEF RT!Read, RT!To
  <2>2. /\ Becomes(p, req'[p]) /\ req'[p] \in Request
        /\ req'[p].pc = "drop" /\ req'[p].op = "revert" /\ req'[p].scope = RT!Overlay
    BY <1>1, <2>1, RequestMoves DEF RouteInv
  <2>3. RouteTypes'
    BY <1>1, <2>1, <2>2 DEF RouteInv, RouteTypes, Becomes
  <2>4. StageInv'
    BY <1>1, <1>4, <2>1, <2>2 DEF RouteInv, StageInv, Becomes, RouteConstants
  <2>5. KeptInv'
    BY <2>2 DEF KeptInv
  <2>6. Counted' \subseteq Counted
    BY <1>1, <1>6, <2>1, <2>2 DEF Counted, Bound, Becomes
  <2> QED BY <2>3, <2>4, <2>5, <2>6, CountedShrinks DEF RouteInv
<1>9. CASE ~(r.op = "revert" /\ ~(r.rego.controls \subseteq old)) /\ new # {}
  <2> DEFINE y == [r EXCEPT !.pc = "write"]
             z == [y EXCEPT !.rego.controls = new]
  <2>1. /\ lock' = lock /\ req' = [req EXCEPT ![p] = z]
        /\ wanted' = IF r.op = "post" THEN wanted \cup r.rego.controls ELSE wanted \ r.rego.controls
    BY <1>9 DEF RT!Read
  <2>2. y \in Request /\ y.pc = "write" /\ y.op = r.op /\ y.scope = RT!Overlay /\ y.rego = r.rego
    BY <1>1 DEF Request
  <2>3. new \subseteq Controls
    BY <1>2, <1>3
  <2> HIDE DEF y, new
  <2>4. z \in Request /\ z.pc = "write" /\ z.op = r.op /\ z.scope = RT!Overlay /\ z.rego.controls = new
    <3> DEFINE g == [y.rego EXCEPT !.controls = new]
    <3>1. z = [y EXCEPT !.rego = g]
      OBVIOUS
    <3>2. y.rego \in AnyRego
      BY <2>2 DEF Request
    <3>3. g \in AnyRego /\ g.controls = new
      BY <2>3, <3>2 DEF AnyRego
    <3> HIDE DEF g, z
    <3> QED BY <2>2, <3>1, <3>3 DEF Request
  <2> HIDE DEF z
  <2>5. Becomes(p, z)
    BY <2>1, BecomesEffect DEF RouteInv
  <2>6. RouteTypes'
    BY <1>1, <1>2, <1>5, <2>1, <2>4, <2>5 DEF RouteInv, RouteTypes, Becomes
  <2>7. StageInv'
    BY <1>1, <1>4, <2>1, <2>4, <2>5 DEF RouteInv, StageInv, Becomes, RouteConstants
  <2>8. KeptInv'
    <3> SUFFICES ASSUME disturbed' = {} PROVE KeptInv'
      BY DEF KeptInv
    <3>1. CASE \E q \in Callers : req[q].pc = "drop" /\ req[q].op = "revert"
      BY <1>1, <2>5, <3>1 DEF KeptInv, Becomes
    <3>2. CASE old = wanted
      <4>1. new = wanted'
        BY <1>1, <1>3, <2>1, <3>2
      <4> QED BY <2>4, <2>5, <4>1 DEF KeptInv, Becomes
    <3> QED BY <1>1, <1>5, <3>1, <3>2
  <2>9. Counted' \subseteq Counted
    <3>1. Bound(p) \/ RT!Overlay \in RT!Existing
      BY <1>1, <1>2, <1>9 DEF Bound
    <3>2. ASSUME NEW x \in Counted' PROVE x \in Counted
      <4>1. x \notin applied /\ (x \in RT!Existing \/ \E q \in Callers : Bound(q)' /\ x = req'[q].scope)
        BY <1>1, <1>6, <3>2 DEF Counted
      <4>2. ASSUME NEW q \in Callers, Bound(q)', x = req'[q].scope
            PROVE  x \in RT!Existing \/ (Bound(q) /\ x = req[q].scope)
        <5>1. CASE q = p
          BY <1>1, <2>4, <2>5, <3>1, <4>2, <5>1 DEF Becomes
        <5>2. CASE q # p
          BY <2>5, <4>2, <5>2 DEF Becomes, Bound
        <5> QED BY <5>1, <5>2
      <4> QED BY <4>1, <4>2 DEF Counted
    <3> QED BY <3>2
  <2> QED BY <2>6, <2>7, <2>8, <2>9, CountedShrinks DEF RouteInv
<1> QED BY <1>7, <1>8, <1>9

\* The overlay is written back under the lock.
LEMMA WriteStep == ASSUME RouteConstants, RouteInv, NEW p \in Callers, RT!Write(p) PROVE RouteInv'
<1> DEFINE row == RT!Row(RT!Rego(FALSE, req[p].rego.controls), req[p].mode)
<1>1. /\ req[p].pc = "write" /\ req[p] \in Request /\ req[p].scope = RT!Overlay /\ lock = p /\ lock' = NoRow
      /\ UNCHANGED <<applied, wanted, disturbed>>
  BY DEF RT!Write, RouteInv, RouteTypes, StageInv, RT!Idle
<1>2. RT!Stores(RT!Overlay, row) /\ req' = [req EXCEPT ![p] = RT!Idle]
  BY DEF RT!Write, RT!End
<1>3. Becomes(p, RT!Idle) /\ RT!Idle.pc = "idle"
  BY <1>2, BecomesEffect DEF RouteInv, RT!Idle
<1>4. row \in AnyRow /\ row # NoRow /\ row.rego.controls = req[p].rego.controls
  <2> DEFINE g == RT!Rego(FALSE, req[p].rego.controls)
  <2>1. g \in AnyRego /\ g.controls = req[p].rego.controls
    BY <1>1 DEF RT!Rego, AnyRego, Request
  <2> HIDE DEF g
  <2>2. RT!Row(g, req[p].mode) \in AnyRow /\ RT!Row(g, req[p].mode).rego = g
    BY <1>1, <2>1 DEF RT!Row, AnyRow, Request
  <2> QED BY <2>1, <2>2 DEF g, RouteConstants
<1> HIDE DEF row
<1>5. /\ stored' \in [RT!Scopes -> AnyRow \cup {NoRow}] /\ past' \in [RT!Scopes -> SUBSET AnyRow]
      /\ stored'[RT!Overlay] = row /\ \A t \in RT!Scopes : t # RT!Overlay => stored'[t] = stored[t]
  BY <1>2, <1>4, RowTypes, OverlayIsAScope DEF RouteInv
<1>6. RouteTypes'
  BY <1>1, <1>3, <1>5 DEF RouteInv, RouteTypes, Becomes
<1>7. \A q \in Callers : q # p => req[q].pc \notin {"read", "write"}
  BY <1>1 DEF RouteInv, StageInv
<1>8. StageInv'
  BY <1>1, <1>3, <1>7 DEF RouteInv, StageInv, Becomes, RouteConstants
<1>9. KeptInv'
  <2> SUFFICES ASSUME disturbed' = {} PROVE KeptInv'
    BY DEF KeptInv
  <2>1. CASE \E q \in Callers : req[q].pc = "drop" /\ req[q].op = "revert"
    BY <1>1, <1>3, <2>1 DEF KeptInv, Becomes
  <2>2. CASE req[p].rego.controls = wanted
    <3>1. RT!ControlsOf(stored[RT!Overlay])' = wanted'
      BY <1>1, <1>4, <1>5, <2>2 DEF RT!ControlsOf
    <3>2. \A q \in Callers : req'[q].pc # "write"
      BY <1>3, <1>7 DEF Becomes
    <3> QED BY <3>1, <3>2 DEF KeptInv
  <2> QED BY <1>1, <1>7, <2>1, <2>2 DEF RouteInv, KeptInv
<1>10. Counted' \subseteq Counted
  BY <1>1, <1>3, <1>5 DEF Counted, Bound, Becomes, RT!Existing
<1> QED BY <1>6, <1>8, <1>9, <1>10, CountedShrinks DEF RouteInv

\* A row is deleted, outside the lock.
LEMMA DropStep == ASSUME RouteConstants, RouteInv, NEW p \in Callers, RT!Drop(p) PROVE RouteInv'
<1> DEFINE s == req[p].scope
<1>1. /\ req[p].pc = "drop" /\ req[p] \in Request /\ req[p].op \in {"delete", "revert"} /\ s \in OpenScopes
      /\ (req[p].op = "revert" => s = RT!Overlay) /\ UNCHANGED <<lock, applied>>
  BY DEF RT!Drop, RouteInv, RouteTypes, StageInv, RT!Idle, Request
<1>2. stored' = [stored EXCEPT ![s] = NoRow] /\ past' = [past EXCEPT ![s] = {}] /\ req' = [req EXCEPT ![p] = RT!Idle]
  BY DEF RT!Drop, RT!End
<1>3. Becomes(p, RT!Idle) /\ RT!Idle.pc = "idle"
  BY <1>2, BecomesEffect DEF RouteInv, RT!Idle
<1>4. IF s # RT!Overlay THEN UNCHANGED <<wanted, disturbed>>
      ELSE IF req[p].op = "delete" THEN wanted' = {} /\ disturbed' = (IF lock # NoRow THEN disturbed \cup {"replaced"} ELSE disturbed)
      ELSE wanted' = wanted /\ disturbed' = (IF lock # NoRow \/ wanted # {} THEN disturbed \cup {"dropped"} ELSE disturbed)
  BY DEF RT!Drop, RT!Disturbs
<1>5. /\ stored' \in [RT!Scopes -> AnyRow \cup {NoRow}] /\ past' \in [RT!Scopes -> SUBSET AnyRow]
      /\ stored'[s] = NoRow /\ \A t \in RT!Scopes : t # s => stored'[t] = stored[t]
  BY <1>1, <1>2, OverlayIsAScope DEF RouteInv, RouteTypes
<1>6. RouteTypes'
  BY <1>1, <1>3, <1>4, <1>5 DEF RouteInv, RouteTypes, Becomes
<1>7. StageInv'
  BY <1>1, <1>3 DEF RouteInv, StageInv, Becomes
<1>8. KeptInv'
  <2> SUFFICES ASSUME disturbed' = {} PROVE KeptInv'
    BY DEF KeptInv
  <2>1. CASE s = RT!Overlay
    <3>1. lock = NoRow /\ wanted' = {}
      BY <1>1, <1>4, <2>1
    <3>2. RT!ControlsOf(stored[RT!Overlay])' = {}
      BY <1>5, <2>1 DEF RT!ControlsOf
    <3>3. \A q \in Callers : req'[q].pc # "write"
      BY <1>3, <3>1, Unheld DEF RouteInv, Becomes
    <3> QED BY <3>1, <3>2, <3>3 DEF KeptInv
  <2>2. CASE s # RT!Overlay
    <3>1. stored'[RT!Overlay] = stored[RT!Overlay] /\ wanted' = wanted /\ disturbed = {}
      BY <1>4, <1>5, <2>2, OverlayIsAScope
    <3>2. \A q \in Callers : req[q].pc = "drop" /\ req[q].op = "revert" => req'[q] = req[q]
      BY <1>1, <1>3, <2>2 DEF Becomes
    <3>3. \A q \in Callers : req'[q].pc = "write" \/ req[q].pc = "write" => req'[q] = req[q]
      BY <1>1, <1>3 DEF Becomes
    <3> QED BY <3>1, <3>2, <3>3 DEF RouteInv, KeptInv, RT!ControlsOf
  <2> QED BY <2>1, <2>2
<1>9. Counted' \subseteq Counted
  BY <1>1, <1>3, <1>5 DEF Counted, Bound, Becomes, RT!Existing
<1> QED BY <1>6, <1>7, <1>8, <1>9, CountedShrinks DEF RouteInv

\* A rollback or an application is stored without a look at the cap: what it creates is not counted.
LEMMA PutStep == ASSUME RouteConstants, RouteInv, NEW p \in Callers, RT!Put(p) PROVE RouteInv'
<1> DEFINE s == req[p].scope
           row == RT!Row(req[p].rego, req[p].mode)
<1>1. req[p].pc = "put" /\ req[p] \in Request /\ s \in OpenScopes /\ UNCHANGED <<lock, wanted>>
  BY DEF RT!Put, RouteInv, RouteTypes, RT!Idle, Request
<1>2. /\ RT!Stores(s, row) /\ req' = [req EXCEPT ![p] = RT!Idle]
      /\ applied' = IF s \in RT!Existing THEN applied ELSE applied \cup {s}
      /\ disturbed' = IF s = RT!Overlay THEN disturbed \cup {"replaced"} ELSE disturbed
  BY DEF RT!Put, RT!End, RT!Disturbs
<1>3. Becomes(p, RT!Idle) /\ RT!Idle.pc = "idle"
  BY <1>2, BecomesEffect DEF RouteInv, RT!Idle
<1>4. row \in AnyRow /\ row # NoRow /\ s \in RT!Scopes
  BY <1>1, OverlayIsAScope DEF RT!Row, AnyRow, Request, RouteConstants
<1> HIDE DEF row
<1>5. /\ stored' \in [RT!Scopes -> AnyRow \cup {NoRow}] /\ past' \in [RT!Scopes -> SUBSET AnyRow]
      /\ stored'[s] = row /\ \A t \in RT!Scopes : t # s => stored'[t] = stored[t]
  BY <1>2, <1>4, RowTypes DEF RouteInv
<1>6. RouteTypes'
  BY <1>1, <1>2, <1>3, <1>4, <1>5 DEF RouteInv, RouteTypes, Becomes
<1>7. StageInv'
  BY <1>1, <1>3 DEF RouteInv, StageInv, Becomes
<1>8. KeptInv'
  <2> SUFFICES ASSUME disturbed' = {} PROVE KeptInv'
    BY DEF KeptInv
  <2>1. stored'[RT!Overlay] = stored[RT!Overlay] /\ disturbed = {}
    BY <1>2, <1>5, OverlayIsAScope
  <2>2. \A q \in Callers : req'[q].pc \in {"drop", "write"} \/ req[q].pc \in {"drop", "write"} => req'[q] = req[q]
    BY <1>1, <1>3 DEF Becomes
  <2> QED BY <1>1, <2>1, <2>2 DEF RouteInv, KeptInv, RT!ControlsOf
<1>9. Counted' \subseteq Counted
  BY <1>1, <1>2, <1>3, <1>5 DEF Counted, Bound, Becomes, RT!Existing
<1> QED BY <1>6, <1>7, <1>8, <1>9, CountedShrinks DEF RouteInv

\* A namespace starts with the managed pack, and perhaps a baseline.
LEMMA RouteInit == ASSUME RouteConstants PROVE RT!Init => RouteInv
<1> SUFFICES ASSUME RT!Init PROVE RouteInv
  OBVIOUS
<1> DEFINE row == RT!Row(RT!Rego(FALSE, {}), "block")
<1>1. PICK b \in {{}, {RT!Base}} : stored = [s \in RT!Scopes |-> IF s \in {RT!Pack} \cup b THEN row ELSE NoRow]
  BY DEF RT!Init
<1>2. row \in AnyRow
  <2>1. RT!Rego(FALSE, {}) \in AnyRego
    BY DEF RT!Rego, AnyRego
  <2> QED BY <2>1 DEF RT!Row, AnyRow, RT!Modes
<1>3. /\ past = [s \in RT!Scopes |-> {}] /\ lock = NoRow /\ req = [p \in Callers |-> RT!Idle] /\ RT!Idle.pc = "idle"
      /\ applied = {} /\ wanted = {} /\ disturbed = {}
  BY DEF RT!Init, RT!Idle
<1> HIDE DEF row
<1>4. RouteTypes
  BY <1>1, <1>2, <1>3 DEF RouteTypes
<1>5. StageInv
  BY <1>3 DEF StageInv, RouteConstants
<1>6. stored[RT!Overlay] = NoRow
  BY <1>1, OverlayIsAScope DEF RT!Overlay, RT!Pack, RT!Base
<1>7. KeptInv
  BY <1>3, <1>6 DEF KeptInv, RT!ControlsOf
<1>8. CapInv
  <2>1. Counted \subseteq {RT!Pack} \cup {RT!Base}
    BY <1>1, <1>3 DEF Counted, Bound, RT!Existing
  <2>2. IsFiniteSet({RT!Pack} \cup {RT!Base}) /\ Cardinality({RT!Pack} \cup {RT!Base}) <= 2
    <3>1. /\ IsFiniteSet({RT!Pack}) /\ Cardinality({RT!Pack}) = 1
          /\ IsFiniteSet({RT!Base}) /\ Cardinality({RT!Base}) = 1
      BY FS_Singleton
    <3> QED BY <3>1, UnionBound
  <2>3. Cardinality(Counted) <= 2
    <3> HIDE DEF row
    <3>1. Cardinality(Counted) <= Cardinality({RT!Pack} \cup {RT!Base})
      BY <2>1, <2>2, FS_Subset
    <3>2. Cardinality(Counted) \in Nat /\ Cardinality({RT!Pack} \cup {RT!Base}) \in Nat
      BY <2>1, <2>2, FS_Subset, FS_CardinalityType
    <3> QED BY <2>2, <3>1, <3>2
  <2>4. Cardinality(Callers) \in Nat /\ Cardinality(Callers) # 0 /\ Cardinality(Counted) \in Nat
    BY <2>1, <2>2, FS_Subset, FS_CardinalityType, FS_EmptySet DEF RouteConstants
  <2> QED BY <2>3, <2>4 DEF CapInv, RouteConstants
<1> QED BY <1>4, <1>5, <1>7, <1>8 DEF RouteInv

\* What requests may be.
LEMMA NewRequest ==
    ASSUME NEW pc \in {"count", "lock", "drop", "put"}, NEW op \in {"post", "delete", "revert", "rollback", "apply"},
           NEW s \in OpenScopes, NEW g \in AnyRego, NEW m \in RT!Modes
    PROVE  [pc |-> pc, op |-> op, scope |-> s, rego |-> g, mode |-> m] \in Request
  BY DEF Request

\* What Rego makes.
LEMMA RegoType == ASSUME NEW i \in BOOLEAN, NEW c \in SUBSET Controls PROVE RT!Rego(i, c) \in AnyRego /\ RT!Rego(i, c).controls = c
  BY DEF RT!Rego, AnyRego

\* Every request, from its arrival to its end, keeps the invariant.
LEMMA RouteStep == ASSUME RouteConstants PROVE RouteInv /\ [RT!Next]_(RT!vars) => RouteInv'
<1> SUFFICES ASSUME RouteInv, [RT!Next]_(RT!vars) PROVE RouteInv'
  OBVIOUS
<1> DEFINE Same == UNCHANGED <<stored, past, lock, applied, wanted, disturbed>>
<1>0. /\ RT!Classes \subseteq OpenScopes /\ RT!Base \in OpenScopes /\ RT!Overlay \in OpenScopes
      /\ "block" \in RT!Modes
  BY DEF OpenScopes, RT!Scopes, RT!Classes, RT!Base, RT!Overlay, RT!Pack, RT!Modes
<1>1. ASSUME NEW p \in Callers, NEW role, NEW b \in RT!Bodies, RT!Post(p, role, b) PROVE RouteInv'
  <2> DEFINE r == [pc |-> "count", op |-> "post", scope |-> RT!Key(b), rego |-> b.rego, mode |-> b.mode]
  <2>1. RT!Begin(p, r) /\ Same /\ ~RT!Managed(RT!Key(b))
    BY <1>1 DEF RT!Post, RT!history, RT!Accepted
  <2>2. RT!Key(b) \in RT!Scopes /\ b.rego \in AnyRego /\ b.mode \in RT!Modes
    <3>1. RT!Rego(FALSE, {}) \in AnyRego /\ RT!Rego(TRUE, {}) \in AnyRego
      BY RegoType
    <3>2. \A c \in {{}} \cup {{k} : k \in Controls} : RT!Rego(FALSE, c) \in AnyRego
      BY RegoType
    <3>3. "block" \in RT!Modes /\ "c" \in RT!Scopes /\ RT!Classes \cup {RT!Overlay, RT!Base, RT!Pack} \subseteq RT!Scopes
      BY DEF RT!Modes, RT!Scopes, RT!Classes
    <3>4. b.rego \in AnyRego
      BY <3>1, <3>2 DEF RT!Bodies
    <3>5. b.mode \in RT!Modes
      BY <3>3 DEF RT!Bodies
    <3>6. b.class \in RT!Classes \cup {RT!Overlay, RT!Base, RT!Pack} \/ (b.class = "" /\ b.name \in {"c", RT!Pack})
      BY DEF RT!Bodies
    <3>7. "" \notin RT!Classes \cup {RT!Overlay, RT!Base, RT!Pack}
      BY DEF RT!Classes, RT!Overlay, RT!Base, RT!Pack
    <3>8. RT!Key(b) \in RT!Scopes
      BY <3>3, <3>6, <3>7 DEF RT!Key
    <3> QED BY <3>4, <3>5, <3>8
  <2>3. RT!Key(b) \in OpenScopes
    BY <2>1, <2>2 DEF OpenScopes, RT!Managed
  <2>4. r \in Request /\ r.pc = "count" /\ r.op = "post"
    BY <2>2, <2>3, NewRequest
  <2> HIDE DEF r
  <2> QED BY <2>1, <2>4, BeginsStep
<1>2. ASSUME NEW p \in Callers, NEW role, NEW s \in RT!Scopes, NEW confirm, RT!Delete(p, role, s, confirm) PROVE RouteInv'
  <2> DEFINE r == [pc |-> "drop", op |-> "delete", scope |-> s, rego |-> RT!Rego(FALSE, {}), mode |-> "block"]
  <2>1. RT!Begin(p, r) /\ Same /\ s \in OpenScopes
    BY <1>0, <1>2 DEF RT!Delete, RT!history, RT!MayDelete
  <2>2. r \in Request /\ r.pc = "drop" /\ r.op = "delete"
    BY <1>0, <2>1, NewRequest, RegoType
  <2> HIDE DEF r
  <2> QED BY <2>1, <2>2, BeginsStep
<1>3. ASSUME NEW p \in Callers, NEW control \in Controls, RT!Revert(p, control) PROVE RouteInv'
  <2> DEFINE g == RT!Rego(FALSE, {control})
             r == [pc |-> "lock", op |-> "revert", scope |-> RT!Overlay, rego |-> g, mode |-> "block"]
  <2>1. RT!Begin(p, r) /\ Same
    BY <1>3 DEF RT!Revert, RT!history
  <2>2. g \in AnyRego /\ g.controls # {}
    <3>1. {control} \in SUBSET Controls /\ FALSE \in BOOLEAN /\ {control} # {}
      OBVIOUS
    <3>2. g \in AnyRego /\ g.controls = {control}
      BY <3>1, RegoType
    <3> QED BY <3>1, <3>2
  <2> HIDE DEF g
  <2>3. r \in Request /\ r.pc = "lock" /\ r.op = "revert" /\ r.scope = RT!Overlay /\ r.rego.controls # {}
    BY <1>0, <2>2, NewRequest
  <2> HIDE DEF r
  <2> QED BY <2>1, <2>3, BeginsStep
<1>4. ASSUME NEW p \in Callers, NEW s \in RT!Classes, NEW row \in past[s], RT!Rollback(p, s, row) PROVE RouteInv'
  <2> DEFINE r == [pc |-> "put", op |-> "rollback", scope |-> s, rego |-> row.rego, mode |-> row.mode]
  <2>1. RT!Begin(p, r) /\ Same
    BY <1>4 DEF RT!Rollback, RT!history
  <2>2. row \in AnyRow /\ s \in OpenScopes
    BY <1>0, OverlayIsAScope DEF RouteInv, RouteTypes
  <2>3. r \in Request /\ r.pc = "put"
    BY <2>2, NewRequest DEF AnyRow
  <2> HIDE DEF r
  <2> QED BY <2>1, <2>3, BeginsStep
<1>5. ASSUME NEW p \in Callers, NEW rego \in RT!Regos, NEW s \in RT!Classes \cup {RT!Overlay}, NEW mode \in RT!Modes, RT!Apply(p, rego, s, mode)
      PROVE  RouteInv'
  <2> DEFINE r == [pc |-> "put", op |-> "apply", scope |-> s, rego |-> rego, mode |-> mode]
  <2>1. RT!Begin(p, r) /\ Same
    BY <1>5 DEF RT!Apply, RT!history
  <2>2. rego \in AnyRego /\ s \in OpenScopes
    BY <1>0, RegoType DEF RT!Regos
  <2>3. r \in Request /\ r.pc = "put"
    BY <2>2, NewRequest
  <2> HIDE DEF r
  <2> QED BY <2>1, <2>3, BeginsStep
<1>6. CASE UNCHANGED RT!vars
  <2>1. Same /\ req' = req
    BY <1>6 DEF RT!vars
  <2>2. RouteTypes' /\ StageInv' /\ KeptInv'
    BY <2>1 DEF RouteInv, RouteTypes, StageInv, KeptInv, RT!ControlsOf
  <2>3. Counted' \subseteq Counted
    BY <2>1 DEF Counted, Bound, RT!Existing
  <2> QED BY <2>2, <2>3, CountedShrinks DEF RouteInv
<1> QED
  BY <1>1, <1>2, <1>3, <1>4, <1>5, <1>6, CountStep, StoreStep, TakeLockStep, ReadStep, WriteStep, DropStep, PutStep
  DEF RT!Next

\* What the invariant says of the run's properties.
LEMMA RouteInvGives == ASSUME RouteConstants PROVE RouteInv => RT!CapBounded /\ RT!ControlsKept
<1> SUFFICES ASSUME RouteInv PROVE RT!CapBounded /\ RT!ControlsKept
  OBVIOUS
<1>1. RT!ControlsKept
  BY DEF RouteInv, KeptInv, RT!ControlsKept
<1>2. RT!CapBounded
  <2>1. RT!Existing \ applied \subseteq Counted /\ IsFiniteSet(Counted)
    BY CountedFinite DEF RouteInv, Counted
  <2>2. /\ Cardinality(RT!Existing \ applied) <= Cardinality(Counted)
        /\ Cardinality(RT!Existing \ applied) \in Nat /\ Cardinality(Counted) \in Nat /\ Cardinality(Callers) \in Nat
    BY <2>1, FS_Subset, FS_CardinalityType DEF RouteConstants
  <2> QED BY <2>2, SameCardinality DEF RouteInv, CapInv, RT!CapBounded, RouteConstants
<1> QED BY <1>1, <1>2

(* Saves that overlap pass max_policies_per_namespace by at most one each, *)
(* and overlapping applications and reversals of compliance controls lose  *)
(* none of them, for any number of callers, controls and operations        *)
(* (create_policy, delete_policy, the advisory lock of the overlay).       *)
THEOREM CapAndControlsHold ==
    ASSUME RouteConstants PROVE RT!Spec => [](RT!CapBounded /\ RT!ControlsKept)
<1> QED BY RouteInit, RouteStep, RouteInvGives, PTL DEF RT!Spec

(* No request to the policies router, whatever class or name it spells,    *)
(* changes a scope that another router materialises (_MANAGED_SCOPES).     *)
THEOREM ManagedScopesUntouched == ASSUME RouteConstants PROVE RT!Spec => RT!ManagedUntouched
<1>1. RouteInv /\ [RT!Next]_(RT!vars) => [RT!LeavesManaged]_stored
  <2> SUFFICES ASSUME RouteInv, [RT!Next]_(RT!vars), stored' # stored PROVE stored'[RT!Pack] = stored[RT!Pack]
    BY DEF RT!LeavesManaged
  <2>1. PICK s \in OpenScopes : \E x : stored' = [stored EXCEPT ![s] = x]
    <3>1. ASSUME NEW p \in Callers, req[p].pc \in {"store", "write", "drop", "put"} PROVE req[p].scope \in OpenScopes
      BY <3>1 DEF RouteInv, RouteTypes, RT!Idle, Request
    <3>2. ASSUME NEW p \in Callers, RT!Store(p) PROVE \E s \in OpenScopes : \E x : stored' = [stored EXCEPT ![s] = x]
      BY <3>1, <3>2 DEF RT!Store, RT!Stores
    <3>3. ASSUME NEW p \in Callers, RT!Write(p) PROVE \E s \in OpenScopes : \E x : stored' = [stored EXCEPT ![s] = x]
      BY <3>3, OverlayIsAScope DEF RT!Write, RT!Stores
    <3>4. ASSUME NEW p \in Callers, RT!Drop(p) PROVE \E s \in OpenScopes : \E x : stored' = [stored EXCEPT ![s] = x]
      BY <3>1, <3>4 DEF RT!Drop
    <3>5. ASSUME NEW p \in Callers, RT!Put(p) PROVE \E s \in OpenScopes : \E x : stored' = [stored EXCEPT ![s] = x]
      BY <3>1, <3>5 DEF RT!Put, RT!Stores
    <3> QED BY <3>2, <3>3, <3>4, <3>5 DEF RT!Next, RT!vars, RT!Post, RT!Delete, RT!Revert, RT!Rollback, RT!Apply,
              RT!Count, RT!TakeLock, RT!Read
  <2> QED BY <2>1 DEF RouteInv, RouteTypes, OpenScopes, RT!Scopes
<1> QED BY <1>1, RouteInit, RouteStep, PTL DEF RT!Spec, RT!ManagedUntouched

-----------------------------------------------------------------------------
(* OPA and the memo of what was pushed to it.                              *)
CONSTANTS Evals, PolicyKeys, DryKeys, MaxVersion, MaxDry, MaxFaults, MaxBegins
VARIABLES current, opa, late, pushed, dry, ev, faults, begins, mixed, unnoted

OM == INSTANCE OpaModules

\* Evaluations are records; one under way asks about a key, with a text of it, and one that pushes
\* knows what it does next.
Shape(x) ==
    x = [pc |-> x.pc, key |-> x.key, rego |-> x.rego, try |-> x.try, then |-> x.then, old |-> x.old,
         answer |-> x.answer, crossed |-> x.crossed]
EvalTypes ==
    /\ ev = [e \in Evals |-> ev[e]] /\ opa = [k \in OM!Keys |-> opa[k]] /\ pushed = [k \in OM!Keys |-> pushed[k]]
    /\ \A e \in Evals : Shape(ev[e]) /\ ev[e].crossed \in BOOLEAN
    /\ \A e \in Evals : OM!Active(e) => ev[e].key \in OM!Keys /\ ev[e].rego \in OM!Versions
    /\ late \subseteq OM!Keys \X OM!Versions
    /\ \A e \in Evals : ev[e].pc \in {"send", "applied", "track", "delete"} => ev[e].then \in {"ensure", "query", "requery"}

\* What OPA holds of a key, or may yet come to hold by an abandoned push, is v.
Holds(k, v) == opa[k] \in {OM!None, v} /\ \A w : <<k, w>> \in late => w = v
Sure(k) == k \notin mixed /\ k \notin unnoted

\* Texts of a key on their way to OPA together are one text, unless the key is marked.
OneText ==
    /\ \A e, f \in Evals : OM!Pushing(e) /\ OM!Pushing(f) /\ ev[e].key = ev[f].key /\ ev[e].key \notin mixed => ev[e].rego = ev[f].rego
    /\ \A e \in Evals : \A w : OM!Pushing(e) /\ <<ev[e].key, w>> \in late /\ ev[e].key \notin mixed => w = ev[e].rego
    /\ \A k, v, w : <<k, v>> \in late /\ <<k, w>> \in late /\ k \notin mixed => v = w
\* Evaluations of one key that overlap have one text, or are marked.
Overlaps ==
    \A e, f \in Evals : OM!Active(e) /\ OM!Active(f) /\ ev[e].key = ev[f].key /\ ~ev[e].crossed => ev[f].rego = ev[e].rego
\* What was applied is there until its sender hears of it.
AppliedStays ==
    \A e \in Evals : ev[e].pc = "applied" /\ ev[e].key \notin mixed => opa[ev[e].key] \in {OM!None, ev[e].rego}
\* The memo is right, where no other text is on its way.
MemoRight ==
    \A k \in OM!Keys :
        Sure(k) /\ pushed[k] # OM!None /\ (\A f \in Evals : OM!Pushing(f) /\ ev[f].key = k => ev[f].rego = pushed[k])
           => Holds(k, pushed[k])
\* An evaluation whose module is in place finds its own text, or none.
InPlace ==
    \A e \in Evals :
        ev[e].pc \in {"query", "requery", "track", "delete"} /\ ~ev[e].crossed /\ Sure(ev[e].key)
           => Holds(ev[e].key, ev[e].rego)

OpaInv == EvalTypes /\ OneText /\ Overlaps /\ AppliedStays /\ MemoRight /\ InPlace /\ OM!AnsweredByItsOwnText

\* Evaluation e goes to a stage, and keeps what it is about.
Moved(e, pc, then) ==
    /\ ev' = [f \in Evals |-> ev'[f]] /\ \A f \in Evals \ {e} : ev'[f] = ev[f]
    /\ Shape(ev'[e])
    /\ ev'[e].pc = pc /\ ev'[e].then = then
    /\ ev'[e].key = ev[e].key /\ ev'[e].rego = ev[e].rego /\ ev'[e].crossed = ev[e].crossed

\* A record with the fields of an evaluation has its shape.
LEMMA ShapeOf ==
    ASSUME NEW a, NEW b, NEW c, NEW d, NEW g, NEW h, NEW i, NEW j
    PROVE  Shape([pc |-> a, key |-> b, rego |-> c, try |-> d, then |-> g, old |-> h, answer |-> i, crossed |-> j])
  BY DEF Shape

\* What Go does to an evaluation.
LEMMA Goes ==
    ASSUME EvalTypes, NEW e \in Evals, NEW pc, OM!Go(e, pc) PROVE Moved(e, pc, ev[e].then)
  BY DEF EvalTypes, Shape, OM!Go, Moved

\* What Send does to an evaluation: the push leaves, and it is noted what follows it.
LEMMA Sends ==
    ASSUME EvalTypes, NEW e \in Evals, NEW next, OM!Send(e, next) PROVE Moved(e, "send", next)
<1> DEFINE y == [ev[e] EXCEPT !.pc = "send"]
<1>1. /\ ev' = [f \in Evals |-> ev'[f]] /\ \A f \in Evals \ {e} : ev'[f] = ev[f]
      /\ ev'[e] = [y EXCEPT !.then = next]
  BY DEF EvalTypes, OM!Send
<1>2. Shape(y) /\ y.pc = "send" /\ y.key = ev[e].key /\ y.rego = ev[e].rego /\ y.crossed = ev[e].crossed /\ y.then = ev[e].then
  BY DEF EvalTypes, Shape
<1> HIDE DEF y
<1> DEFINE z == [y EXCEPT !.then = next]
<1>3. Shape(z) /\ z.pc = y.pc /\ z.key = y.key /\ z.rego = y.rego /\ z.crossed = y.crossed
  BY <1>2 DEF Shape
<1>4. z.then = next
  BY <1>2 DEF Shape
<1> QED BY <1>1, <1>2, <1>3, <1>4 DEF Moved

\* A tracked dry run has a module to evict.
LEMMA Deletes ==
    ASSUME EvalTypes, NEW e \in Evals, NEW o, ev' = [ev EXCEPT ![e].pc = "delete", ![e].old = o]
    PROVE  Moved(e, "delete", ev[e].then)
<1> DEFINE y == [ev[e] EXCEPT !.pc = "delete"]
<1>1. /\ ev' = [f \in Evals |-> ev'[f]] /\ \A f \in Evals \ {e} : ev'[f] = ev[f]
      /\ ev'[e] = [y EXCEPT !.old = o]
  BY DEF EvalTypes
<1>2. Shape(y) /\ y.pc = "delete" /\ y.key = ev[e].key /\ y.rego = ev[e].rego /\ y.crossed = ev[e].crossed /\ y.then = ev[e].then
  BY DEF EvalTypes, Shape
<1> HIDE DEF y
<1> DEFINE z == [y EXCEPT !.old = o]
<1>3. Shape(z) /\ z.pc = y.pc /\ z.key = y.key /\ z.rego = y.rego /\ z.crossed = y.crossed
  BY <1>2 DEF Shape
<1>4. z.then = y.then
  BY <1>2 DEF Shape
<1> QED BY <1>1, <1>2, <1>3, <1>4 DEF Moved

\* An attempt that fails is tried again, or refuses the call.
LEMMA Raises ==
    ASSUME EvalTypes, NEW e \in Evals, NEW x, Shape(x), x.key = ev[e].key, x.rego = ev[e].rego, x.crossed = ev[e].crossed,
           ev' = [ev EXCEPT ![e] = OM!Raised(x)]
    PROVE  \E t : Moved(e, "ensure", t) \/ Moved(e, "refused", t)
<1>1. /\ ev' = [f \in Evals |-> ev'[f]] /\ \A f \in Evals \ {e} : ev'[f] = ev[f]
      /\ ev'[e] = OM!Raised(x)
  BY DEF EvalTypes
<1> DEFINE y == OM!Raised(x)
<1>2. Shape(y) /\ y.pc \in {"ensure", "refused"} /\ y.key = x.key /\ y.rego = x.rego /\ y.crossed = x.crossed
  BY DEF Shape, OM!Raised
<1> QED BY <1>1, <1>2 DEF Moved

\* The types of the evaluations survive every move to a stage that has what it needs.
LEMMA MovedTypes ==
    ASSUME EvalTypes, NEW e \in Evals, OM!Active(e), NEW pc, NEW then, Moved(e, pc, then),
           pc \in {"send", "applied", "track", "delete"} => then \in {"ensure", "query", "requery"},
           opa' = [k \in OM!Keys |-> opa'[k]], pushed' = [k \in OM!Keys |-> pushed'[k]],
           late' \subseteq late \cup {<<ev[e].key, ev[e].rego>>}
    PROVE  EvalTypes'
  BY DEF EvalTypes, Moved, OM!Active

\* Overlapping evaluations: none is new and none changes its text.
LEMMA MovedOverlaps ==
    ASSUME Overlaps, NEW e \in Evals, OM!Active(e), NEW pc, NEW then, Moved(e, pc, then)
    PROVE  Overlaps'
  BY DEF Overlaps, Moved, OM!Active

\* A move that takes no answer leaves the answers right.
LEMMA MovedAnswers ==
    ASSUME OM!AnsweredByItsOwnText, NEW e \in Evals, NEW pc, NEW then, Moved(e, pc, then), pc # "answered"
    PROVE  OM!AnsweredByItsOwnText'
  BY DEF OM!AnsweredByItsOwnText, Moved

\* An evaluation gives up an attempt, or the call, and perhaps leaves a push behind.
LEMMA GivesUp ==
    ASSUME OpaInv, NEW e \in Evals, OM!Active(e), NEW pc \in {"ensure", "refused"}, NEW then, Moved(e, pc, then),
           opa' = opa, pushed' = pushed, mixed' = mixed,
           late' = late \/ (ev[e].pc = "send" /\ late' = late \cup {<<ev[e].key, ev[e].rego>>}),
           unnoted' = IF OM!Pushing(e) THEN unnoted \cup {ev[e].key} ELSE unnoted
    PROVE  OpaInv'
<1> USE DEF OM!Pushing
<1>1. EvalTypes' /\ Overlaps' /\ OM!AnsweredByItsOwnText'
  BY MovedTypes, MovedOverlaps, MovedAnswers DEF OpaInv, EvalTypes
<1>2. OneText'
  BY DEF OpaInv, OneText, Moved
<1>3. AppliedStays'
  BY DEF OpaInv, AppliedStays, Moved
<1>4. ASSUME NEW k, Sure(k)' PROVE Sure(k) /\ (ev[e].key = k => ~OM!Pushing(e)) /\ \A w : <<k, w>> \in late' <=> <<k, w>> \in late
  BY <1>4 DEF Sure
<1>5. MemoRight'
  <2> SUFFICES ASSUME NEW k \in OM!Keys, Sure(k)', pushed[k] # OM!None,
                      \A f \in Evals : OM!Pushing(f)' /\ ev'[f].key = k => ev'[f].rego = pushed[k]
               PROVE  Holds(k, pushed[k])'
    BY DEF MemoRight
  <2>1. \A f \in Evals : OM!Pushing(f) /\ ev[f].key = k => ev[f].rego = pushed[k]
    BY <1>4 DEF Moved
  <2>2. Holds(k, pushed[k])
    BY <1>4, <2>1 DEF OpaInv, MemoRight
  <2> QED BY <1>4, <2>2 DEF Holds
<1>6. InPlace'
  BY <1>4 DEF OpaInv, InPlace, Holds, Moved
<1> QED BY <1>1, <1>2, <1>3, <1>5, <1>6 DEF OpaInv

\* The memo says that the module is there.
LEMMA Finds ==
    ASSUME OpaInv, NEW e \in Evals, OM!Active(e), ~OM!Pushing(e), NEW pc \in {"ensure", "query"}, NEW then, Moved(e, pc, then),
           pc = "query" => pushed[ev[e].key] = ev[e].rego, UNCHANGED <<opa, pushed, mixed, late, unnoted>>
    PROVE  OpaInv'
<1> USE DEF OM!Pushing
<1>1. EvalTypes' /\ Overlaps' /\ OM!AnsweredByItsOwnText'
  BY MovedTypes, MovedOverlaps, MovedAnswers DEF OpaInv, EvalTypes
<1>2. OneText' /\ AppliedStays'
  BY DEF OpaInv, OneText, AppliedStays, Moved
<1>3. MemoRight'
  BY DEF OpaInv, MemoRight, Moved, Sure, Holds
<1>4. InPlace'
  <2>1. ASSUME pc = "query", ~ev[e].crossed, Sure(ev[e].key) PROVE Holds(ev[e].key, ev[e].rego)
    <3>1. \A f \in Evals : OM!Pushing(f) /\ ev[f].key = ev[e].key => ev[f].rego = ev[e].rego
      BY <2>1 DEF OpaInv, Overlaps, OM!Active
    <3>2. ev[e].key \in OM!Keys /\ ev[e].rego # OM!None
      BY DEF OpaInv, EvalTypes, OM!Versions, OM!None
    <3> QED BY <2>1, <3>1, <3>2 DEF OpaInv, MemoRight
  <2> QED BY <2>1 DEF OpaInv, InPlace, Moved, Sure, Holds
<1> QED BY <1>1, <1>2, <1>3, <1>4 DEF OpaInv

\* A push leaves; if another text of the key is on its way, the key is marked.
LEMMA SendStep ==
    ASSUME OpaInv, NEW e \in Evals, OM!Active(e), ~OM!Pushing(e), NEW next \in {"ensure", "query", "requery"}, OM!Send(e, next),
           UNCHANGED <<opa, pushed, late, unnoted>>
    PROVE  OpaInv'
<1> USE DEF OM!Pushing
<1>1. Moved(e, "send", next)
  BY Sends DEF OpaInv
<1>2. EvalTypes' /\ Overlaps' /\ OM!AnsweredByItsOwnText'
  BY <1>1, MovedTypes, MovedOverlaps, MovedAnswers DEF OpaInv, EvalTypes
<1>3. mixed \subseteq mixed'
  BY DEF OM!Send
<1>4. ASSUME ev[e].key \notin mixed'
      PROVE  /\ \A f \in Evals : OM!Pushing(f) /\ ev[f].key = ev[e].key => ev[f].rego = ev[e].rego
             /\ \A w : <<ev[e].key, w>> \in late => w = ev[e].rego
  BY <1>4 DEF OM!Send
<1>5. OneText'
  <2>1. ASSUME NEW f \in Evals, NEW g \in Evals, OM!Pushing(f)', OM!Pushing(g)', ev'[f].key = ev'[g].key, ev'[f].key \notin mixed'
        PROVE  ev'[f].rego = ev'[g].rego
    BY <1>1, <1>3, <1>4, <2>1 DEF OpaInv, OneText, Moved
  <2>2. ASSUME NEW f \in Evals, NEW w, OM!Pushing(f)', <<ev'[f].key, w>> \in late', ev'[f].key \notin mixed' PROVE w = ev'[f].rego
    BY <1>1, <1>3, <1>4, <2>2 DEF OpaInv, OneText, Moved
  <2>3. ASSUME NEW k, NEW v, NEW w, <<k, v>> \in late', <<k, w>> \in late', k \notin mixed' PROVE v = w
    BY <1>3, <2>3 DEF OpaInv, OneText
  <2> QED BY <2>1, <2>2, <2>3 DEF OneText
<1>6. AppliedStays'
  BY <1>1, <1>3 DEF OpaInv, AppliedStays, Moved
<1>7. MemoRight'
  BY <1>1, <1>3 DEF OpaInv, MemoRight, Moved, Sure, Holds
<1>8. InPlace'
  BY <1>1, <1>3 DEF OpaInv, InPlace, Moved, Sure, Holds
<1> QED BY <1>2, <1>5, <1>6, <1>7, <1>8 DEF OpaInv

\* OPA compiles the module.
LEMMA ApplyStep == ASSUME OpaInv, NEW e \in Evals, OM!Apply(e) PROVE OpaInv'
<1> USE DEF OM!Pushing
<1>1. Moved(e, "applied", ev[e].then) /\ OM!Active(e) /\ ev[e].pc = "send" /\ UNCHANGED <<late, pushed, mixed, unnoted>>
  BY Goes DEF OpaInv, OM!Apply, OM!Active
<1>2. /\ ev[e].key \in OM!Keys /\ opa'[ev[e].key] = ev[e].rego /\ opa' = [k \in OM!Keys |-> opa'[k]]
      /\ \A k \in OM!Keys : k # ev[e].key => opa'[k] = opa[k]
  BY <1>1 DEF OpaInv, EvalTypes, OM!Apply
<1>3. EvalTypes' /\ Overlaps' /\ OM!AnsweredByItsOwnText'
  BY <1>1, <1>2, MovedTypes, MovedOverlaps, MovedAnswers DEF OpaInv, EvalTypes
<1>4. OneText'
  BY <1>1 DEF OpaInv, OneText, Moved
<1>5. AppliedStays'
  <2> SUFFICES ASSUME NEW f \in Evals, ev'[f].pc = "applied", ev'[f].key \notin mixed PROVE opa'[ev'[f].key] \in {OM!None, ev'[f].rego}
    BY <1>1 DEF AppliedStays
  <2>1. CASE f = e
    BY <1>1, <1>2, <2>1 DEF Moved
  <2>2. CASE f # e
    <3>1. ev'[f] = ev[f] /\ OM!Active(f) /\ ev[f].key \in OM!Keys
      BY <1>1, <2>2 DEF OpaInv, EvalTypes, Moved, OM!Active
    <3>2. ev[f].key = ev[e].key => ev[f].rego = ev[e].rego
      BY <1>1, <3>1 DEF OpaInv, OneText
    <3> QED BY <1>1, <1>2, <3>1, <3>2 DEF OpaInv, AppliedStays
  <2> QED BY <2>1, <2>2
<1>6. MemoRight'
  <2> SUFFICES ASSUME NEW k \in OM!Keys, Sure(k), pushed[k] # OM!None,
                      \A f \in Evals : OM!Pushing(f)' /\ ev'[f].key = k => ev'[f].rego = pushed[k]
               PROVE  Holds(k, pushed[k])'
    BY <1>1 DEF MemoRight, Sure
  <2>1. \A f \in Evals : OM!Pushing(f) /\ ev[f].key = k => ev[f].rego = pushed[k]
    BY <1>1 DEF Moved
  <2>2. Holds(k, pushed[k])
    BY <2>1 DEF OpaInv, MemoRight
  <2>3. opa'[k] \in {OM!None, pushed[k]}
    BY <1>1, <1>2, <2>1, <2>2 DEF Holds
  <2> QED BY <1>1, <2>2, <2>3 DEF Holds
<1>7. InPlace'
  <2> SUFFICES ASSUME NEW f \in Evals, ev'[f].pc \in {"query", "requery", "track", "delete"}, ~ev'[f].crossed, Sure(ev[f].key)'
               PROVE  Holds(ev[f].key, ev[f].rego)'
    BY DEF InPlace
  <2>1. ev'[f] = ev[f] /\ OM!Active(f) /\ ev[f].key \in OM!Keys /\ Sure(ev[f].key)
    BY <1>1 DEF OpaInv, EvalTypes, Moved, OM!Active, Sure
  <2>2. Holds(ev[f].key, ev[f].rego)
    BY <2>1 DEF OpaInv, InPlace
  <2>3. ev[f].key = ev[e].key => ev[f].rego = ev[e].rego
    BY <1>1, <2>1 DEF OpaInv, Overlaps
  <2> QED BY <1>1, <1>2, <2>1, <2>2, <2>3 DEF Holds
<1> QED BY <1>3, <1>4, <1>5, <1>6, <1>7 DEF OpaInv

\* The sender hears that its module is there: the digest is noted, and what it does next finds the module.
LEMMA PushReturnsStep == ASSUME OpaInv, NEW e \in Evals, OM!PushReturns(e) PROVE OpaInv'
<1> USE DEF OM!Pushing
<1> DEFINE key == ev[e].key
           rego == ev[e].rego
<1>0. OM!Active(e) /\ ev[e].pc = "applied" /\ key \in OM!Keys /\ ev[e].then \in {"ensure", "query", "requery"}
  BY DEF OpaInv, EvalTypes, OM!Active, OM!PushReturns
<1>1. PICK pc \in {"track", "ensure", "query", "requery"} : Moved(e, pc, ev[e].then)
  BY <1>0, Goes DEF OpaInv, OM!PushReturns
<1>2. /\ pushed' = [pushed EXCEPT ![key] = rego] /\ unnoted' = unnoted \ {key} /\ UNCHANGED <<opa, late, mixed>>
  BY DEF OM!PushReturns
<1>3. /\ pushed'[key] = rego /\ pushed' = [k \in OM!Keys |-> pushed'[k]]
      /\ \A k \in OM!Keys : k # key => pushed'[k] = pushed[k] /\ Sure(k)' = Sure(k)
  BY <1>0, <1>2 DEF OpaInv, EvalTypes, Sure
<1>4. key \notin mixed => Holds(key, rego)
  BY <1>0 DEF OpaInv, AppliedStays, OneText, Holds
<1>5. EvalTypes' /\ Overlaps' /\ OM!AnsweredByItsOwnText'
  BY <1>0, <1>1, <1>2, <1>3, MovedTypes, MovedOverlaps, MovedAnswers DEF OpaInv, EvalTypes
<1>6. OneText' /\ AppliedStays'
  BY <1>1, <1>2 DEF OpaInv, OneText, AppliedStays, Moved
<1>7. MemoRight'
  <2> SUFFICES ASSUME NEW k \in OM!Keys, Sure(k)', pushed'[k] # OM!None,
                      \A f \in Evals : OM!Pushing(f)' /\ ev'[f].key = k => ev'[f].rego = pushed'[k]
               PROVE  opa[k] \in {OM!None, pushed'[k]} /\ \A w : <<k, w>> \in late => w = pushed'[k]
    BY <1>2 DEF MemoRight, Holds
  <2>1. CASE k = key
    BY <1>2, <1>3, <1>4, <2>1 DEF Holds, Sure
  <2>2. CASE k # key
    <3>1. \A f \in Evals : OM!Pushing(f) /\ ev[f].key = k => ev[f].rego = pushed[k]
      BY <1>1, <1>3, <2>2 DEF Moved
    <3> QED BY <1>3, <2>2, <3>1 DEF OpaInv, MemoRight, Holds
  <2> QED BY <2>1, <2>2
<1>8. InPlace'
  <2> SUFFICES ASSUME NEW f \in Evals, ev'[f].pc \in {"query", "requery", "track", "delete"}, ~ev'[f].crossed, Sure(ev[f].key)'
               PROVE  opa[ev'[f].key] \in {OM!None, ev'[f].rego} /\ \A w : <<ev'[f].key, w>> \in late => w = ev'[f].rego
    BY <1>2 DEF InPlace, Holds
  <2>1. CASE f = e
    BY <1>1, <1>2, <1>4, <2>1 DEF Holds, Sure, Moved
  <2>2. CASE f # e
    <3>1. ev'[f] = ev[f] /\ OM!Active(f) /\ ev[f].key \in OM!Keys
      BY <1>1, <2>2 DEF OpaInv, EvalTypes, Moved, OM!Active
    <3>2. CASE ev[f].key = key
      <4>1. ev[f].rego = rego
        BY <1>0, <3>1, <3>2 DEF OpaInv, Overlaps
      <4> QED BY <1>2, <1>4, <3>1, <3>2, <4>1 DEF Holds, Sure
    <3>3. CASE ev[f].key # key
      BY <1>2, <3>1, <3>3 DEF OpaInv, InPlace, Holds, Sure
    <3> QED BY <3>2, <3>3
  <2> QED BY <2>1, <2>2
<1> QED BY <1>5, <1>6, <1>7, <1>8 DEF OpaInv

\* Modules disappear from OPA, and digests from the memo: dry runs are evicted, OPA restarts.
LEMMA Forgets ==
    ASSUME OpaInv, OneText', EvalTypes', Overlaps', OM!AnsweredByItsOwnText', UNCHANGED <<late, mixed, unnoted>>,
           \A k \in OM!Keys : opa'[k] \in {opa[k], OM!None} /\ pushed'[k] \in {pushed[k], OM!None},
           \A f \in Evals : /\ ev'[f].key = ev[f].key /\ ev'[f].rego = ev[f].rego /\ ev'[f].crossed = ev[f].crossed
                            /\ OM!Pushing(f)' = OM!Pushing(f) /\ (ev'[f].pc = "applied" => ev[f].pc = "applied")
                            /\ ev'[f].pc \in {"query", "requery", "track", "delete"} => ev[f].pc \in {"query", "requery", "track", "delete"}
    PROVE  OpaInv'
<1>1. AppliedStays'
  BY DEF OpaInv, AppliedStays, EvalTypes, OM!Active
<1>2. MemoRight'
  <2> SUFFICES ASSUME NEW k \in OM!Keys, Sure(k)', pushed'[k] # OM!None,
                      \A f \in Evals : OM!Pushing(f)' /\ ev'[f].key = k => ev'[f].rego = pushed'[k]
               PROVE  opa'[k] \in {OM!None, pushed'[k]} /\ \A w : <<k, w>> \in late => w = pushed'[k]
    BY DEF MemoRight, Holds
  <2> QED BY DEF OpaInv, MemoRight, Holds, Sure
<1>3. InPlace'
  BY DEF OpaInv, InPlace, Holds, Sure, EvalTypes, OM!Active
<1> QED BY <1>1, <1>2, <1>3 DEF OpaInv

\* A dry run enters the LRU list, and perhaps pushes the oldest one out of it.
LEMMA TrackStep == ASSUME OpaInv, NEW e \in Evals, OM!Track(e) PROVE OpaInv'
<1>1. OM!Active(e) /\ ev[e].pc = "track" /\ ev[e].then \in {"ensure", "query", "requery"}
  BY DEF OpaInv, EvalTypes, OM!Active, OM!Track
<1>2. PICK pc \in {"delete", "ensure", "query", "requery"} : Moved(e, pc, ev[e].then)
  BY <1>1, Goes, Deletes DEF OpaInv, OM!Track
<1>3. /\ opa' = opa /\ UNCHANGED <<late, mixed, unnoted>> /\ pushed' = [k \in OM!Keys |-> pushed'[k]]
      /\ \A k \in OM!Keys : pushed'[k] \in {pushed[k], OM!None}
  BY DEF OpaInv, EvalTypes, OM!Track
<1>4. EvalTypes' /\ Overlaps' /\ OM!AnsweredByItsOwnText'
  BY <1>1, <1>2, <1>3, MovedTypes, MovedOverlaps, MovedAnswers DEF OpaInv, EvalTypes
<1>5. \A f \in Evals : OM!Pushing(f)' = OM!Pushing(f)
  BY <1>1, <1>2 DEF Moved, OM!Pushing
<1>6. OneText'
  BY <1>2, <1>3, <1>5 DEF OpaInv, OneText, Moved
<1> QED BY <1>1, <1>2, <1>3, <1>4, <1>5, <1>6, Forgets DEF Moved

\* The module of an evicted dry run is deleted from OPA, or the deletion fails.
LEMMA DeleteStep == ASSUME OpaInv, NEW e \in Evals, OM!Delete(e) PROVE OpaInv'
<1>1. OM!Active(e) /\ ev[e].pc = "delete" /\ ev[e].then \in {"ensure", "query", "requery"}
  BY DEF OpaInv, EvalTypes, OM!Active, OM!Delete
<1>2. Moved(e, "track", ev[e].then)
  BY <1>1, Goes DEF OpaInv, OM!Delete
<1>3. /\ pushed' = pushed /\ UNCHANGED <<late, mixed, unnoted>> /\ opa' = [k \in OM!Keys |-> opa'[k]]
      /\ \A k \in OM!Keys : opa'[k] \in {opa[k], OM!None}
  BY DEF OpaInv, EvalTypes, OM!Delete
<1>4. EvalTypes' /\ Overlaps' /\ OM!AnsweredByItsOwnText'
  BY <1>1, <1>2, <1>3, MovedTypes, MovedOverlaps, MovedAnswers DEF OpaInv, EvalTypes
<1>5. \A f \in Evals : OM!Pushing(f)' = OM!Pushing(f)
  BY <1>1, <1>2 DEF Moved, OM!Pushing
<1>6. OneText'
  BY <1>2, <1>3, <1>5 DEF OpaInv, OneText, Moved
<1> QED BY <1>1, <1>2, <1>3, <1>4, <1>5, <1>6, Forgets DEF Moved

\* OPA restarts with no modules, and nothing tells the evaluator.
LEMMA RestartStep == ASSUME OpaInv, OM!Restart PROVE OpaInv'
<1>1. UNCHANGED <<late, pushed, ev, mixed, unnoted>> /\ opa' = [k \in OM!Keys |-> OM!None]
  BY DEF OM!Restart
<1>2. EvalTypes'
  BY <1>1 DEF OpaInv, EvalTypes, OM!Active
<1>3. Overlaps' /\ OM!AnsweredByItsOwnText'
  BY <1>1 DEF OpaInv, Overlaps, OM!Active, OM!AnsweredByItsOwnText
<1>4. \A f \in Evals : OM!Pushing(f)' = OM!Pushing(f)
  BY <1>1 DEF OM!Pushing
<1>5. OneText'
  BY <1>1, <1>4 DEF OpaInv, OneText
<1> QED BY <1>1, <1>2, <1>3, <1>4, <1>5, Forgets

\* An abandoned push is applied after all; it is of the one text on its way.
LEMMA ApplyLateStep == ASSUME OpaInv, NEW m \in late, OM!ApplyLate(m) PROVE OpaInv'
<1>1. PICK k \in OM!Keys, v \in OM!Versions : m = <<k, v>>
  BY DEF OpaInv, EvalTypes
<1>2. /\ UNCHANGED <<pushed, ev, mixed, unnoted>> /\ late' = late \ {m} /\ opa'[k] = v
      /\ opa' = [j \in OM!Keys |-> opa'[j]] /\ \A j \in OM!Keys : j # k => opa'[j] = opa[j]
  BY <1>1 DEF OpaInv, EvalTypes, OM!ApplyLate
<1>3. EvalTypes' /\ Overlaps' /\ OM!AnsweredByItsOwnText'
  BY <1>2 DEF OpaInv, EvalTypes, Overlaps, OM!Active, OM!AnsweredByItsOwnText
<1>4. \A f \in Evals : OM!Pushing(f)' = OM!Pushing(f)
  BY <1>2 DEF OM!Pushing
<1>5. OneText'
  BY <1>2, <1>4 DEF OpaInv, OneText
<1>6. AppliedStays'
  <2> SUFFICES ASSUME NEW e \in Evals, ev[e].pc = "applied", ev[e].key \notin mixed PROVE opa'[ev[e].key] \in {OM!None, ev[e].rego}
    BY <1>2 DEF AppliedStays
  <2>1. ev[e].key \in OM!Keys /\ OM!Pushing(e)
    BY DEF OpaInv, EvalTypes, OM!Active, OM!Pushing
  <2>2. ev[e].key = k => v = ev[e].rego
    BY <1>1, <2>1 DEF OpaInv, OneText
  <2> QED BY <1>2, <2>1, <2>2 DEF OpaInv, AppliedStays
<1>7. \A j \in OM!Keys : \A w : Holds(j, w) => Holds(j, w)'
  BY <1>1, <1>2 DEF Holds
<1>8. MemoRight'
  BY <1>2, <1>4, <1>7 DEF OpaInv, MemoRight, Sure
<1>9. InPlace'
  <2> SUFFICES ASSUME NEW e \in Evals, ev[e].pc \in {"query", "requery", "track", "delete"}, ~ev[e].crossed, Sure(ev[e].key)
               PROVE  Holds(ev[e].key, ev[e].rego)'
    BY <1>2 DEF InPlace, Sure
  <2>1. Holds(ev[e].key, ev[e].rego) /\ ev[e].key \in OM!Keys
    BY DEF OpaInv, InPlace, EvalTypes, OM!Active
  <2> QED BY <1>1, <1>2, <2>1 DEF Holds
<1> QED BY <1>3, <1>5, <1>6, <1>8, <1>9 DEF OpaInv

\* An evaluation takes the answer of the module OPA holds.
LEMMA AnswerStep ==
    ASSUME OpaInv, NEW e \in Evals, ev[e].pc \in {"query", "requery"}, opa[ev[e].key] # OM!None, OM!Answered(e),
           UNCHANGED <<opa, late, pushed, mixed, unnoted>>
    PROVE  OpaInv'
<1> DEFINE key == ev[e].key
           marked == ev[e].crossed \/ key \in mixed \cup unnoted
           a == [ev[e] EXCEPT !.pc = "answered"]
           b == [a EXCEPT !.answer = opa[key]]
           c == [b EXCEPT !.crossed = marked]
<1>1. Shape(a) /\ a.pc = "answered" /\ a.key = key /\ a.rego = ev[e].rego /\ a.crossed = ev[e].crossed
  BY DEF OpaInv, EvalTypes, Shape
<1>2. ev' = [f \in Evals |-> ev'[f]] /\ (\A f \in Evals \ {e} : ev'[f] = ev[f]) /\ ev'[e] = c
  BY <1>1 DEF OpaInv, EvalTypes, Shape, OM!Answered
<1> HIDE DEF a
<1>3. Shape(b) /\ b.pc = a.pc /\ b.key = a.key /\ b.rego = a.rego /\ b.answer = opa[key]
  BY <1>1 DEF Shape
<1> HIDE DEF b
<1>4. Shape(c) /\ c.pc = b.pc /\ c.key = b.key /\ c.rego = b.rego /\ c.answer = b.answer /\ c.crossed = marked
  BY <1>3 DEF Shape
<1> HIDE DEF c
<1>5. marked \in BOOLEAN
  BY DEF OpaInv, EvalTypes
<1>6. EvalTypes'
  BY <1>1, <1>2, <1>3, <1>4, <1>5 DEF OpaInv, EvalTypes, OM!Active
<1> HIDE DEF marked
<1>7. OneText' /\ AppliedStays'
  BY <1>1, <1>2, <1>3, <1>4 DEF OpaInv, OneText, AppliedStays, OM!Pushing
<1>8. Overlaps'
  BY <1>1, <1>2, <1>3, <1>4 DEF OpaInv, Overlaps, OM!Active
<1>9. MemoRight'
  <2>1. \A f \in Evals : OM!Pushing(f)' = OM!Pushing(f) /\ (OM!Pushing(f) => ev'[f] = ev[f])
    BY <1>1, <1>2, <1>3, <1>4 DEF OM!Pushing
  <2> QED BY <2>1 DEF OpaInv, MemoRight, Holds, Sure
<1>10. InPlace'
  BY <1>1, <1>2, <1>3, <1>4 DEF OpaInv, InPlace, Holds, Sure
<1>11. OM!AnsweredByItsOwnText'
  <2>1. ~marked => opa[key] = ev[e].rego
    BY DEF OpaInv, InPlace, Holds, Sure, marked
  <2> QED BY <1>1, <1>2, <1>3, <1>4, <2>1 DEF OpaInv, OM!AnsweredByItsOwnText
<1> QED BY <1>6, <1>7, <1>8, <1>9, <1>10, <1>11 DEF OpaInv

\* An evaluation begins: those of its key with another text that are under way, and itself, are marked.
LEMMA BeginStep == ASSUME OpaInv, NEW e \in Evals, NEW k \in OM!Keys, NEW v \in OM!Versions, OM!Begin(e, k, v) PROVE OpaInv'
<1> DEFINE others == {f \in Evals \ {e} : OM!Active(f) /\ ev[f].key = k /\ ev[f].rego # v}
           pc == IF k \in DryKeys THEN "ensure" ELSE "warm"
<1>1. /\ ~OM!Active(e) /\ UNCHANGED <<opa, late, pushed, mixed, unnoted>>
      /\ ev' = [f \in Evals |-> IF f = e THEN [OM!Start(k) EXCEPT !.rego = v, !.crossed = others # {}]
                                 ELSE IF f \in others THEN [ev[f] EXCEPT !.crossed = TRUE] ELSE ev[f]]
  BY DEF OM!Begin
<1>2. /\ Shape(ev'[e]) /\ ev'[e].pc = pc /\ ev'[e].key = k /\ ev'[e].rego = v /\ ev'[e].crossed = (others # {})
  <2> DEFINE a == OM!Start(k)
             b == [a EXCEPT !.rego = v]
             c == [b EXCEPT !.crossed = others # {}]
  <2>1. Shape(OM!Idle) /\ OM!Idle.crossed = FALSE
    BY DEF OM!Idle, Shape
  <2>2. Shape(a) /\ a.pc = pc /\ a.key = k
    <3> DEFINE x == [OM!Idle EXCEPT !.key = k]
               y == [x EXCEPT !.pc = pc]
               z == [y EXCEPT !.try = IF k \in DryKeys THEN 2 ELSE 1]
    <3>1. Shape(x) /\ x.key = k
      BY <2>1 DEF Shape
    <3> HIDE DEF x
    <3>2. Shape(y) /\ y.pc = pc /\ y.key = k
      BY <3>1 DEF Shape
    <3> HIDE DEF y
    <3>3. Shape(z) /\ z.pc = pc /\ z.key = k
      BY <3>2 DEF Shape
    <3>4. a = z
      BY DEF OM!Start, x, y
    <3> QED BY <3>3, <3>4
  <2>3. ev'[e] = c
    BY <1>1
  <2> HIDE DEF a
  <2>4. Shape(b) /\ b.pc = pc /\ b.key = k /\ b.rego = v
    BY <2>2 DEF Shape
  <2> HIDE DEF b
  <2>5. Shape(c) /\ c.pc = pc /\ c.key = k /\ c.rego = v /\ c.crossed = (others # {})
    BY <2>4 DEF Shape
  <2> QED BY <2>3, <2>5
<1>3. ASSUME NEW f \in Evals, f # e
      PROVE  /\ Shape(ev'[f]) /\ ev'[f].pc = ev[f].pc /\ ev'[f].key = ev[f].key /\ ev'[f].rego = ev[f].rego
             /\ ev'[f].then = ev[f].then /\ ev'[f].answer = ev[f].answer
             /\ ev'[f].crossed \in BOOLEAN /\ (ev'[f].crossed <=> ev[f].crossed \/ f \in others)
  <2>1. CASE f \in others
    <3>1. ev'[f] = [ev[f] EXCEPT !.crossed = TRUE]
      BY <1>1, <1>3, <2>1
    <3>2. Shape(ev[f])
      BY DEF OpaInv, EvalTypes
    <3> HIDE DEF others
    <3>3. /\ Shape(ev'[f]) /\ ev'[f].pc = ev[f].pc /\ ev'[f].key = ev[f].key /\ ev'[f].rego = ev[f].rego
          /\ ev'[f].then = ev[f].then /\ ev'[f].answer = ev[f].answer /\ ev'[f].crossed = TRUE
      BY <3>1, <3>2 DEF Shape
    <3> QED BY <2>1, <3>3
  <2>2. CASE f \notin others
    <3>1. ev'[f] = ev[f]
      BY <1>1, <1>3, <2>2
    <3>2. Shape(ev[f]) /\ ev[f].crossed \in BOOLEAN
      BY DEF OpaInv, EvalTypes
    <3> HIDE DEF others
    <3>3. ev'[f].crossed \in BOOLEAN /\ (ev'[f].crossed <=> ev[f].crossed \/ f \in others)
      BY <2>2, <3>1, <3>2, Zenon
    <3> QED BY <3>1, <3>2, <3>3
  <2> QED BY <2>1, <2>2
<1>u. UNCHANGED <<opa, late, pushed, mixed, unnoted>>
  BY <1>1
<1>4. ev' = [f \in Evals |-> ev'[f]] /\ pc \in {"ensure", "warm"}
  BY <1>1
<1>5. \A f \in Evals : f \in others <=> f # e /\ OM!Active(f) /\ ev[f].key = k /\ ev[f].rego # v
  OBVIOUS
<1> HIDE DEF others, pc
<1>6. EvalTypes'
  BY <1>1, <1>2, <1>3, <1>4 DEF OpaInv, EvalTypes, OM!Active
<1>7. OneText' /\ AppliedStays'
  <2>1. ASSUME NEW f \in Evals, ev'[f].pc \in {"send", "applied"}
        PROVE  f # e /\ ev[f].pc = ev'[f].pc /\ ev[f].key = ev'[f].key /\ ev[f].rego = ev'[f].rego
    BY <1>2, <1>3, <1>4, <2>1
  <2>2. ASSUME NEW f \in Evals, OM!Pushing(f)' PROVE OM!Pushing(f) /\ ev[f].key = ev'[f].key /\ ev[f].rego = ev'[f].rego
    BY <2>1, <2>2 DEF OM!Pushing
  <2>3. OneText'
    BY <1>u, <2>2 DEF OpaInv, OneText
  <2>4. AppliedStays'
    BY <1>u, <2>1 DEF OpaInv, AppliedStays
  <2> QED BY <2>3, <2>4
<1>8. Overlaps'
  <2> SUFFICES ASSUME NEW f \in Evals, NEW g \in Evals, OM!Active(f)', OM!Active(g)', ev'[f].key = ev'[g].key, ~ev'[f].crossed
               PROVE  ev'[g].rego = ev'[f].rego
    BY DEF Overlaps
  <2>1. CASE f = e /\ g # e
    <3>1. others = {}
      BY <1>2, <2>1
    <3>2. OM!Active(g) /\ ev[g].key = k /\ g \notin others
      BY <1>2, <1>3, <2>1, <3>1 DEF OM!Active
    <3> QED BY <1>2, <1>3, <1>5, <2>1, <3>2
  <2>2. CASE f # e /\ g = e
    BY <1>2, <1>3, <1>5, <2>2 DEF OM!Active
  <2>3. CASE f # e /\ g # e
    BY <1>3, <2>3 DEF OpaInv, Overlaps, OM!Active
  <2> QED BY <2>1, <2>2, <2>3
<1>9. MemoRight'
  <2>1. \A f \in Evals : OM!Pushing(f) => f # e /\ OM!Pushing(f)' /\ ev'[f].key = ev[f].key /\ ev'[f].rego = ev[f].rego
    BY <1>1, <1>3 DEF OM!Pushing, OM!Active
  <2> QED BY <1>u, <2>1 DEF OpaInv, MemoRight, Holds, Sure
<1>10. InPlace'
  BY <1>u, <1>2, <1>3, <1>4 DEF OpaInv, InPlace, Holds, Sure
<1>11. OM!AnsweredByItsOwnText'
  BY <1>2, <1>3, <1>4 DEF OpaInv, OM!AnsweredByItsOwnText
<1> QED BY <1>6, <1>7, <1>8, <1>9, <1>10, <1>11 DEF OpaInv

\* OPA starts empty, and so does the memo.
LEMMA OpaInit == OM!Init => OpaInv
<1> SUFFICES ASSUME OM!Init PROVE OpaInv
  OBVIOUS
<1>1. /\ opa = [k \in OM!Keys |-> OM!None] /\ pushed = [k \in OM!Keys |-> OM!None] /\ late = {}
      /\ ev = [e \in Evals |-> OM!Idle] /\ OM!Idle.pc = "idle" /\ Shape(OM!Idle) /\ OM!Idle.crossed = FALSE
  BY DEF OM!Init, OM!Idle, Shape
<1>2. EvalTypes
  BY <1>1 DEF EvalTypes, OM!Active
<1>3. OneText /\ Overlaps /\ AppliedStays /\ InPlace /\ OM!AnsweredByItsOwnText
  BY <1>1 DEF OneText, Overlaps, AppliedStays, InPlace, OM!Active, OM!Pushing, OM!AnsweredByItsOwnText
<1>4. MemoRight
  BY <1>1 DEF MemoRight
<1> QED BY <1>2, <1>3, <1>4 DEF OpaInv

\* Every step of an evaluation, of OPA and of the loader keeps the invariant.
LEMMA OpaStep == OpaInv /\ [OM!Next]_(OM!vars) => OpaInv'
<1> SUFFICES ASSUME OpaInv, [OM!Next]_(OM!vars) PROVE OpaInv'
  OBVIOUS
<1>1. ASSUME NEW e \in Evals, OM!Ensure(e) PROVE OpaInv'
  <2>1. OM!Active(e) /\ ~OM!Pushing(e) /\ UNCHANGED <<opa, late, pushed, unnoted>>
    BY <1>1 DEF OM!Ensure, OM!Active, OM!Pushing
  <2>2. PICK next \in {"ensure", "query"} : IF OM!Known(e) THEN OM!Go(e, next) /\ UNCHANGED mixed ELSE OM!Send(e, next)
    BY <1>1 DEF OM!Ensure
  <2>3. CASE OM!Known(e)
    BY <2>1, <2>2, <2>3, Goes, Finds DEF OpaInv, OM!Known
  <2>4. CASE ~OM!Known(e)
    BY <2>1, <2>2, <2>4, SendStep
  <2> QED BY <2>3, <2>4
<1>2. ASSUME NEW e \in Evals, OM!PushFails(e) PROVE OpaInv'
  <2>1. OM!Active(e) /\ OM!Pushing(e) /\ UNCHANGED <<opa, pushed, mixed>> /\ Shape(ev[e])
    BY <1>2 DEF OM!PushFails, OM!Active, OM!Pushing, OpaInv, EvalTypes
  <2>2. /\ late' = late \/ (ev[e].pc = "send" /\ late' = late \cup {<<ev[e].key, ev[e].rego>>})
        /\ unnoted' = IF OM!Pushing(e) THEN unnoted \cup {ev[e].key} ELSE unnoted
    BY <1>2 DEF OM!PushFails
  <2>3. PICK t : Moved(e, "ensure", t) \/ Moved(e, "refused", t)
    BY <1>2, <2>1, Raises DEF OM!PushFails, OpaInv
  <2> QED BY <2>1, <2>2, <2>3, GivesUp
<1>3. ASSUME NEW e \in Evals, OM!QueryFails(e) PROVE OpaInv'
  <2> DEFINE x == [ev[e] EXCEPT !.then = "query"]
  <2>1. OM!Active(e) /\ ~OM!Pushing(e) /\ UNCHANGED <<opa, late, pushed, mixed, unnoted>> /\ ev' = [ev EXCEPT ![e] = OM!Raised(x)]
    BY <1>3 DEF OM!QueryFails, OM!Active, OM!Pushing
  <2>2. Shape(x) /\ x.key = ev[e].key /\ x.rego = ev[e].rego /\ x.crossed = ev[e].crossed
    BY DEF OpaInv, EvalTypes, Shape
  <2> HIDE DEF x
  <2>3. PICK t : Moved(e, "ensure", t) \/ Moved(e, "refused", t)
    BY <2>1, <2>2, Raises DEF OpaInv
  <2> QED BY <2>1, <2>3, GivesUp
<1>4. ASSUME NEW e \in Evals, OM!Expire(e) PROVE OpaInv'
  <2>1. OM!Active(e) /\ UNCHANGED <<opa, pushed, mixed>> /\ OM!Go(e, "refused")
    BY <1>4 DEF OM!Expire
  <2>2. /\ late' = late \/ (ev[e].pc = "send" /\ late' = late \cup {<<ev[e].key, ev[e].rego>>})
        /\ unnoted' = IF OM!Pushing(e) THEN unnoted \cup {ev[e].key} ELSE unnoted
    BY <1>4 DEF OM!Expire
  <2>3. Moved(e, "refused", ev[e].then)
    BY <2>1, Goes DEF OpaInv
  <2> QED BY <2>1, <2>2, <2>3, GivesUp
<1>5. ASSUME NEW e \in Evals, OM!Query(e) PROVE OpaInv'
  <2>1. OM!Active(e) /\ ~OM!Pushing(e) /\ ev[e].pc \in {"query", "requery"} /\ UNCHANGED <<opa, late, pushed, unnoted>>
    BY <1>5 DEF OM!Query, OM!Active, OM!Pushing
  <2>2. CASE opa[ev[e].key] # OM!None
    BY <1>5, <2>1, <2>2, AnswerStep DEF OM!Query
  <2>3. CASE opa[ev[e].key] = OM!None /\ ev[e].pc = "query"
    BY <1>5, <2>1, <2>3, SendStep DEF OM!Query
  <2>4. CASE opa[ev[e].key] = OM!None /\ ev[e].pc = "requery"
    <3>1. OM!Go(e, "refused") /\ mixed' = mixed
      BY <1>5, <2>4 DEF OM!Query
    <3>2. Moved(e, "refused", ev[e].then)
      BY <3>1, Goes DEF OpaInv
    <3> QED BY <2>1, <3>1, <3>2, GivesUp
  <2> QED BY <2>1, <2>2, <2>3, <2>4
<1>6. ASSUME UNCHANGED <<opa, late, pushed, ev, mixed, unnoted>> PROVE OpaInv'
  BY <1>6 DEF OpaInv, EvalTypes, OneText, Overlaps, AppliedStays, MemoRight, InPlace, OM!AnsweredByItsOwnText,
     OM!Active, OM!Pushing, Sure, Holds
<1>7. ASSUME NEW k, OM!Reload(k) PROVE OpaInv'
  BY <1>6, <1>7 DEF OM!Reload
<1>8. CASE UNCHANGED OM!vars
  BY <1>6, <1>8 DEF OM!vars
<1> QED
  BY <1>1, <1>2, <1>3, <1>4, <1>5, <1>7, <1>8, ApplyStep, PushReturnsStep, TrackStep, DeleteStep, ApplyLateStep, RestartStep, BeginStep
  DEF OM!Next

(* A decision comes from the policy text it was asked about, although the  *)
(* memo of pushed modules is read before the push and written after it,    *)
(* pushes are abandoned and applied late, and OPA restarts and evicts:     *)
(* unless two texts of one key were under way together, or an unnoted      *)
(* push left the memo behind (OPAClient._ensure_policy, evaluate).         *)
THEOREM OpaAnswersOwnText == OM!Spec => []OM!AnsweredByItsOwnText
<1>1. OpaInv => OM!AnsweredByItsOwnText
  BY DEF OpaInv
<1> QED BY <1>1, OpaInit, OpaStep, PTL DEF OM!Spec

-----------------------------------------------------------------------------
(* Promoted verbs, and the map of them in each replica.                    *)
CONSTANTS Admins, TokensOf, Listed, Allowlist, Keys, Payloads, MaxEdits, MaxEvents
VARIABLES table, map, tasks, policy, seen, edits, events, tables, excused

TV == INSTANCE ToolVerbs WITH task <- tasks

\* Rows on their way to a map are a table there has been; a replica's own task is its start-up.
VerbInv ==
    /\ table \in tables /\ TV!Empty \in tables
    /\ map \in [Replicas -> tables]
    /\ tasks \in [Admins \cup Replicas -> [pc : {"idle", "select", "apply"}, at : Replicas \cup {"none"}, rows : tables]]
    /\ \A t \in Admins \cup Replicas : tasks[t].pc # "idle" => tasks[t].at \in Replicas
    /\ \A r \in Replicas : tasks[r].pc # "idle" => tasks[r].at = r
    /\ excused \in [Replicas -> BOOLEAN]

\* Replicas start with the empty map, which is the table there is.
LEMMA VerbInit == TV!Init => VerbInv /\ TV!StaleForAReason
<1> SUFFICES ASSUME TV!Init PROVE VerbInv /\ TV!StaleForAReason
  OBVIOUS
<1>1. VerbInv
  BY DEF TV!Init, VerbInv, TV!Idle
<1>2. TV!StaleForAReason
  BY DEF TV!Init, TV!StaleForAReason
<1> QED BY <1>1, <1>2

\* A request that is about to read the rows keeps its replica's map pending, whoever else moves.
LEMMA VerbTasks ==
    ASSUME Replicas \cap Admins = {}, VerbInv,
           NEW t \in Admins \cup Replicas, NEW x,
           x \in [pc : {"idle", "select", "apply"}, at : Replicas \cup {"none"}, rows : tables'],
           x.pc # "idle" => x.at \in Replicas /\ (t \in Replicas => x.at = t),
           tables \subseteq tables', tasks' = [tasks EXCEPT ![t] = x]
    PROVE  /\ tasks' \in [Admins \cup Replicas -> [pc : {"idle", "select", "apply"}, at : Replicas \cup {"none"}, rows : tables']]
           /\ \A u \in Admins \cup Replicas : tasks'[u].pc # "idle" => tasks'[u].at \in Replicas
           /\ \A r \in Replicas : tasks'[r].pc # "idle" => tasks'[r].at = r
  BY DEF VerbInv

\* Promotions, demotions, restarts and the two steps of a warm-up keep what the maps may be.
LEMMA VerbStep == ASSUME Replicas \cap Admins = {} PROVE VerbInv /\ TV!StaleForAReason /\ [TV!Next]_(TV!vars) => VerbInv' /\ TV!StaleForAReason'
<1> SUFFICES ASSUME Replicas \cap Admins = {}, VerbInv, TV!StaleForAReason, [TV!Next]_(TV!vars)
    PROVE VerbInv' /\ TV!StaleForAReason'
  OBVIOUS
<1> DEFINE Record == [pc : {"idle", "select", "apply"}, at : Replicas \cup {"none"}, rows : tables']
<1>1. ASSUME NEW a \in Admins, NEW r \in Replicas, NEW t, TV!Commits(a, r, t), TV!Warms(a, r)
      PROVE VerbInv' /\ TV!StaleForAReason'
  <2> DEFINE x == [pc |-> "select", at |-> r, rows |-> TV!Empty]
  <2>1. /\ table' = t /\ tables' = tables \cup {t} /\ map' = map /\ tasks' = [tasks EXCEPT ![a] = x]
        /\ excused' = [q \in Replicas |-> excused[q] \/ q # r]
    BY <1>1 DEF TV!Commits, TV!Warms
  <2>2. x \in Record /\ x.pc # "idle" /\ x.at = r /\ a \notin Replicas
    BY <2>1 DEF VerbInv
  <2>3. VerbInv'
    <3>1. map' \in [Replicas -> tables'] /\ excused' \in [Replicas -> BOOLEAN]
      BY <2>1 DEF VerbInv
    <3> HIDE DEF x
    <3>2. /\ tasks' \in [Admins \cup Replicas -> Record]
          /\ \A u \in Admins \cup Replicas : tasks'[u].pc # "idle" => tasks'[u].at \in Replicas
          /\ \A q \in Replicas : tasks'[q].pc # "idle" => tasks'[q].at = q
      BY <2>1, <2>2, VerbTasks
    <3> QED BY <2>1, <3>1, <3>2 DEF VerbInv, TV!Empty
  <2>4. TV!Pending(r)'
    <3>1. tasks'[a] = x
      BY <2>1 DEF VerbInv
    <3> QED BY <2>2, <3>1 DEF TV!Pending
  <2>5. \A q \in Replicas : q # r => excused'[q]
    BY <2>1
  <2> QED BY <2>3, <2>4, <2>5 DEF TV!StaleForAReason
<1>2. ASSUME NEW t \in Admins \cup Replicas, TV!Select(t) PROVE VerbInv' /\ TV!StaleForAReason'
  <2> DEFINE x == [tasks[t] EXCEPT !.pc = "apply", !.rows = table]
  <2>1. tasks[t].pc = "select" /\ tasks' = [tasks EXCEPT ![t] = x] /\ UNCHANGED <<table, map, tables, excused>>
    BY <1>2 DEF TV!Select
  <2>2. x \in Record /\ x.pc = "apply" /\ x.at = tasks[t].at /\ tasks[t].at \in Replicas /\ (t \in Replicas => x.at = t)
    <3>1. /\ tasks[t] \in [pc : {"idle", "select", "apply"}, at : Replicas \cup {"none"}, rows : tables]
          /\ table \in tables'
          /\ tasks[t].at \in Replicas /\ (t \in Replicas => tasks[t].at = t)
      BY <2>1 DEF VerbInv
    <3>2. x \in [pc : {"idle", "select", "apply"}, at : Replicas \cup {"none"}, rows : tables]
      BY <2>1, <3>1
    <3>3. x.pc = "apply" /\ x.at = tasks[t].at
      BY <3>1
    <3> QED BY <2>1, <3>1, <3>2, <3>3
  <2>3. VerbInv'
    <3> HIDE DEF x
    <3>1. /\ tasks' \in [Admins \cup Replicas -> Record]
          /\ \A u \in Admins \cup Replicas : tasks'[u].pc # "idle" => tasks'[u].at \in Replicas
          /\ \A q \in Replicas : tasks'[q].pc # "idle" => tasks'[q].at = q
      BY <2>1, <2>2, VerbTasks
    <3> QED BY <2>1, <3>1 DEF VerbInv, TV!Empty
  <2>4. ASSUME NEW r \in Replicas, TV!Pending(r) PROVE TV!Pending(r)'
    <3> HIDE DEF x
    <3>1. tasks'[t] = x /\ \A u \in Admins \cup Replicas : u # t => tasks'[u] = tasks[u]
      BY <2>1 DEF VerbInv
    <3> QED BY <2>2, <2>4, <3>1 DEF TV!Pending
  <2> QED BY <2>1, <2>3, <2>4 DEF TV!StaleForAReason
<1>3. ASSUME NEW t \in Admins \cup Replicas, TV!WarmFails(t) \/ TV!RefreshVerbOverrides(t) PROVE VerbInv' /\ TV!StaleForAReason'
  <2> DEFINE r == tasks[t].at
  <2>1. tasks[t].pc # "idle" /\ tasks' = [tasks EXCEPT ![t] = TV!Idle] /\ UNCHANGED <<table, tables>>
    BY <1>3 DEF TV!WarmFails, TV!RefreshVerbOverrides
  <2>2. r \in Replicas /\ tasks[t].rows \in tables /\ TV!Idle \in Record /\ TV!Idle.pc = "idle"
    BY <2>1 DEF VerbInv, TV!Idle
  <2>3. \/ map' = map /\ excused' = [excused EXCEPT ![r] = TRUE]
        \/ map' = [map EXCEPT ![r] = tasks[t].rows] /\ excused' = [excused EXCEPT ![r] = tasks[t].rows # table]
    BY <1>3 DEF TV!WarmFails, TV!RefreshVerbOverrides, TV!Refreshed
  <2>4. VerbInv'
    <3>1. map' \in [Replicas -> tables'] /\ excused' \in [Replicas -> BOOLEAN]
      BY <2>1, <2>2, <2>3 DEF VerbInv
    <3>2. /\ tasks' \in [Admins \cup Replicas -> Record]
          /\ \A u \in Admins \cup Replicas : tasks'[u].pc # "idle" => tasks'[u].at \in Replicas
          /\ \A q \in Replicas : tasks'[q].pc # "idle" => tasks'[q].at = q
      BY <2>1, <2>2, VerbTasks
    <3> QED BY <2>1, <3>1, <3>2 DEF VerbInv, TV!Empty
  <2>5. map'[r] = table' \/ excused'[r]
    BY <2>1, <2>2, <2>3 DEF VerbInv
  <2>6. ASSUME NEW q \in Replicas, q # r PROVE map'[q] = table' \/ TV!Pending(q)' \/ excused'[q]
    <3>1. map'[q] = map[q] /\ excused'[q] = excused[q]
      BY <2>2, <2>3, <2>6 DEF VerbInv
    <3>2. \A u \in Admins \cup Replicas : u # t => tasks'[u] = tasks[u]
      BY <2>1 DEF VerbInv
    <3>3. TV!Pending(q) => TV!Pending(q)'
      BY <2>6, <3>2 DEF TV!Pending
    <3> QED BY <2>1, <3>1, <3>3 DEF TV!StaleForAReason
  <2> QED BY <2>4, <2>5, <2>6 DEF TV!StaleForAReason
<1>4. ASSUME NEW r \in Replicas, TV!Restart(r) PROVE VerbInv' /\ TV!StaleForAReason'
  <2> DEFINE x == [pc |-> "select", at |-> r, rows |-> TV!Empty]
  <2>1. /\ map' = [map EXCEPT ![r] = TV!Empty] /\ UNCHANGED <<table, tables, excused>>
        /\ tasks' = [t \in Admins \cup Replicas |-> IF t = r THEN x ELSE IF tasks[t].at = r THEN TV!Idle ELSE tasks[t]]
    BY <1>4 DEF TV!Restart
  <2>2. x \in Record /\ x.pc = "select" /\ x.at = r /\ TV!Idle \in Record /\ TV!Idle.pc = "idle"
    BY <2>1 DEF VerbInv, TV!Idle
  <2> HIDE DEF x
  <2>3. VerbInv'
    <3>1. map' \in [Replicas -> tables']
      BY <2>1 DEF VerbInv
    <3>2. /\ tasks' \in [Admins \cup Replicas -> Record]
          /\ \A u \in Admins \cup Replicas : tasks'[u].pc # "idle" => tasks'[u].at \in Replicas
          /\ \A q \in Replicas : tasks'[q].pc # "idle" => tasks'[q].at = q
      BY <2>1, <2>2 DEF VerbInv
    <3> QED BY <2>1, <3>1, <3>2 DEF VerbInv, TV!Empty
  <2>4. TV!Pending(r)'
    BY <2>1, <2>2 DEF TV!Pending
  <2>5. ASSUME NEW q \in Replicas, q # r PROVE map'[q] = table' \/ TV!Pending(q)' \/ excused'[q]
    <3>1. map'[q] = map[q] /\ excused' = excused /\ table' = table
      BY <2>1, <2>5 DEF VerbInv
    <3>2. TV!Pending(q) => TV!Pending(q)'
      BY <2>1, <2>5 DEF TV!Pending, VerbInv
    <3> QED BY <3>1, <3>2 DEF TV!StaleForAReason
  <2> QED BY <2>3, <2>4, <2>5 DEF TV!StaleForAReason
<1>5. ASSUME UNCHANGED <<table, map, tasks, tables, excused>> PROVE VerbInv' /\ TV!StaleForAReason'
  BY <1>5 DEF VerbInv, TV!StaleForAReason, TV!Pending, TV!Empty
<1> QED
  <2>1. ASSUME NEW a \in Admins, NEW r \in Replicas, NEW k \in Keys, NEW v \in TV!Verbs, TV!PromoteToolVerb(a, r, k, v)
        PROVE VerbInv' /\ TV!StaleForAReason'
    BY <1>1, <2>1 DEF TV!PromoteToolVerb
  <2>2. ASSUME NEW a \in Admins, NEW r \in Replicas, NEW k \in Keys, TV!DemoteToolVerb(a, r, k)
        PROVE VerbInv' /\ TV!StaleForAReason'
    BY <1>1, <2>2 DEF TV!DemoteToolVerb
  <2>3. ASSUME NEW n, NEW p, TV!Observe(n, p) PROVE VerbInv' /\ TV!StaleForAReason'
    BY <1>5, <2>3 DEF TV!Observe
  <2>4. ASSUME NEW nss, TV!GenerateIntentRego(nss) PROVE VerbInv' /\ TV!StaleForAReason'
    BY <1>5, <2>4 DEF TV!GenerateIntentRego
  <2>5. CASE UNCHANGED TV!vars
    BY <1>5, <2>5 DEF TV!vars
  <2> QED BY <1>2, <1>3, <1>4, <2>1, <2>2, <2>3, <2>4, <2>5 DEF TV!Next

(* A replica's map of promoted verbs is always a table there has been, and *)
(* is behind the table only where an excuse is on record: another replica  *)
(* served the promotion, a read of the table failed, or two warm-ups of    *)
(* one replica crossed (warm_tool_verbs, promote_tool_verb).               *)
THEOREM VerbMapsExplained ==
    ASSUME Replicas \cap Admins = {} PROVE TV!Spec => [](TV!MapsAreTables /\ TV!StaleForAReason)
<1>1. VerbInv => TV!MapsAreTables
  BY DEF VerbInv, TV!MapsAreTables
<1> QED BY <1>1, VerbInit, VerbStep, PTL DEF TV!Spec

-----------------------------------------------------------------------------
(* Policies that come as resources of the cluster (CrdAdmission). *)

CONSTANTS AdminNamespace, Tenants, AgentClasses, AgentWorkloads, GoLines, ApiLines, RegexCap
VARIABLES submitted, verdict

CA == INSTANCE CrdAdmission WITH Admin <- AdminNamespace, Namespaces <- Tenants, Classes <- AgentClasses,
    Workloads <- AgentWorkloads, in <- submitted, out <- verdict

\* Names are not empty, and the controller's cap is the shorter one.
AdmissionConstants ==
    /\ "" \notin Tenants \cup AgentClasses \cup AgentWorkloads
    /\ GoLines \in Nat /\ ApiLines \in Nat /\ RegexCap \in Nat /\ GoLines <= ApiLines

\* The namespace a resource is about.
Target(cr) == IF cr.target = "" THEN cr.ns ELSE cr.target

\* What was answered is what the functions compute.
AdmissionInv ==
    /\ submitted \in CA!Inputs
    /\ CA!Submitted => /\ CA!Admitted(submitted.cr)
                       /\ verdict.stored = CA!Stored(submitted.cr) /\ verdict.deletes = CA!StorageKey(submitted.cr)
    /\ CA!Validated => /\ verdict.controller = CA!ValidateRego(submitted.rego)
                       /\ verdict.api = CA!ValidateRegoSource(submitted.rego)

\* The key the API stores an admitted resource under.
KeyOf(cr) ==
    IF CA!NamespaceBaseline(cr) THEN <<"scope", "baseline">>
    ELSE IF cr.class # "" THEN <<"class", cr.class>>
    ELSE IF cr.kind # "" /\ cr.name # "" THEN <<"deployment", cr.name>>
    ELSE <<"namespace", Target(cr)>>
\* The namespace of that key.
PlaceOfKey(cr) == IF CA!NamespaceBaseline(cr) \/ CA!CrossNamespace(cr) THEN cr.target ELSE cr.ns

\* The key of an admitted resource is the one it is deleted under.
LEMMA StoredIs ==
    ASSUME NEW cr, CA!Admitted(cr) PROVE CA!Stored(cr) = <<PlaceOfKey(cr), KeyOf(cr)>> /\ CA!StorageKey(cr) = <<PlaceOfKey(cr), KeyOf(cr)>>
<1>1. PICK n, k, d, e, t :
          /\ n = PlaceOfKey(cr) /\ d = cr.kind /\ e = cr.name /\ t = Target(cr)
          /\ k = IF CA!NamespaceBaseline(cr) THEN <<"scope", "baseline">>
                 ELSE IF cr.class # "" THEN <<"class", cr.class>> ELSE <<>>
  OBVIOUS
<1>2. CA!Payload(cr) = [ns |-> n, class |-> k, kind |-> d, name |-> e, target |-> t]
  BY <1>1, Zenon DEF CA!Payload, PlaceOfKey, Target
<1>3. CA!Payload(cr).ns = n /\ CA!Payload(cr).class = k /\ CA!Payload(cr).kind = d /\ CA!Payload(cr).name = e /\ CA!Payload(cr).target = t
  BY <1>2
<1>4. CA!Stored(cr) = <<n, IF k # <<>> THEN k ELSE IF d # "" /\ e # "" THEN <<d, e>> ELSE <<"namespace", t>> >>
  BY <1>3, Zenon DEF CA!Stored, CA!ResolvePolicyKey
<1>5. cr.kind \in {"", "deployment"} /\ (cr.class # "" \/ cr.target # "" \/ (cr.kind # "" /\ cr.name # ""))
  BY Zenon DEF CA!Admitted, CA!WellFormed, CA!ValidateTarget
<1>6. (IF k # <<>> THEN k ELSE IF d # "" /\ e # "" THEN <<d, e>> ELSE <<"namespace", t>>) = KeyOf(cr)
  BY <1>1, <1>5 DEF KeyOf
<1>7. CA!StorageKey(cr) = <<PlaceOfKey(cr), KeyOf(cr)>>
  <2>1. CASE CA!NamespaceBaseline(cr)
    BY <2>1 DEF CA!StorageKey, PlaceOfKey, KeyOf
  <2>2. CASE ~CA!NamespaceBaseline(cr)
    BY <1>5, <2>2 DEF CA!StorageKey, PlaceOfKey, KeyOf, Target
  <2> QED BY <2>1, <2>2
<1> QED BY <1>1, <1>4, <1>6, <1>7

\* A resource that is not elevated is stored under the namespace it is about.
LEMMA PlaceIs ==
    ASSUME NEW cr \in CA!Resources, CA!Admitted(cr), ~CA!Elevated(cr) PROVE PlaceOfKey(cr) = Target(cr)
<1>1. CASE CA!NamespaceBaseline(cr)
  BY <1>1 DEF CA!NamespaceBaseline, PlaceOfKey, Target
<1>2. CASE ~CA!NamespaceBaseline(cr)
  BY <1>2 DEF PlaceOfKey, Target, CA!Elevated, CA!CrossNamespace, CA!Admitted, CA!ValidateTarget, CA!Resources
<1> QED BY <1>1, <1>2

\* A resource names the calls that look up the key it is stored under.
LEMMA KeysNameCalls ==
    ASSUME AdmissionConstants, NEW cr \in CA!Resources, CA!Admitted(cr), NEW call \in CA!Calls
    PROVE  CA!Names(cr, call) <=> <<Target(cr), KeyOf(cr)>> \in CA!LookedUp(call)
<1>1. call.class # "" /\ call.workload # "" /\ cr.kind \in {"", "deployment"}
  BY DEF AdmissionConstants, CA!Calls, CA!Admitted, CA!ValidateTarget
<1>2. <<Target(cr), KeyOf(cr)>> \in CA!LookedUp(call) <=>
        /\ Target(cr) = call.ns
        /\ KeyOf(cr) \in {<<"class", call.class>>, <<"scope", "baseline">>, <<"namespace", call.ns>>, <<"deployment", call.workload>>}
  BY DEF CA!LookedUp
<1>3. CA!Names(cr, call) <=> /\ call.ns = Target(cr)
                             /\ IF cr.class # "" THEN call.class = cr.class ELSE cr.kind # "" /\ cr.name # "" => call.workload = cr.name
  BY DEF CA!Names, Target
<1>4. CASE CA!NamespaceBaseline(cr)
  <2>1. KeyOf(cr) = <<"scope", "baseline">> /\ cr.class = "" /\ cr.kind = ""
    BY <1>4 DEF KeyOf, CA!NamespaceBaseline
  <2> QED BY <1>2, <1>3, <2>1
<1>5. CASE ~CA!NamespaceBaseline(cr) /\ cr.class # ""
  <2>1. KeyOf(cr) = <<"class", cr.class>>
    BY <1>5 DEF KeyOf
  <2>2. <<"class", cr.class>> \in {<<"class", call.class>>, <<"scope", "baseline">>, <<"namespace", call.ns>>, <<"deployment", call.workload>>} <=> cr.class = call.class
    OBVIOUS
  <2> QED BY <1>2, <1>3, <1>5, <2>1, <2>2
<1>6. CASE ~CA!NamespaceBaseline(cr) /\ cr.class = "" /\ cr.kind # "" /\ cr.name # ""
  <2>1. KeyOf(cr) = <<"deployment", cr.name>>
    BY <1>6 DEF KeyOf
  <2>2. <<"deployment", cr.name>> \in {<<"class", call.class>>, <<"scope", "baseline">>, <<"namespace", call.ns>>, <<"deployment", call.workload>>} <=> cr.name = call.workload
    OBVIOUS
  <2> QED BY <1>2, <1>3, <1>6, <2>1, <2>2
<1>7. CASE ~CA!NamespaceBaseline(cr) /\ cr.class = "" /\ ~(cr.kind # "" /\ cr.name # "")
  <2>1. KeyOf(cr) = <<"namespace", Target(cr)>>
    BY <1>7 DEF KeyOf
  <2> QED BY <1>2, <1>3, <1>7, <2>1
<1> QED BY <1>4, <1>5, <1>6, <1>7

\* Every verdict is computed from what was submitted.
LEMMA AdmissionStep == AdmissionInv /\ [CA!Next]_(CA!vars) => AdmissionInv'
<1> SUFFICES ASSUME AdmissionInv, [CA!Next]_(CA!vars) PROVE AdmissionInv'
  OBVIOUS
<1>1. CASE CA!Submit
  <2>1. PICK x, y, z : x = CA!Stored(submitted.cr) /\ y = CA!StorageKey(submitted.cr) /\ z = CA!DeleteAccepted("service", CA!StorageKey(submitted.cr), CA!ConfirmManaged(CA!StorageKey(submitted.cr)))
    OBVIOUS
  <2>2. verdict' = [stored |-> x, deletes |-> y, removed |-> z] /\ submitted' = submitted /\ submitted.what = "resource" /\ CA!Admitted(submitted.cr)
    BY <1>1, <2>1, Zenon DEF CA!Submit
  <2>3. verdict'.stored = x /\ verdict'.deletes = y
    BY <2>2
  <2> QED BY <2>1, <2>2, <2>3 DEF AdmissionInv, CA!Submitted, CA!Validated
<1>2. CASE CA!SubmitRego
  <2>1. PICK x, y : x = CA!ValidateRego(submitted.rego) /\ y = CA!ValidateRegoSource(submitted.rego)
    OBVIOUS
  <2>2. verdict' = [controller |-> x, api |-> y] /\ submitted' = submitted /\ submitted.what = "rego"
    BY <1>2, <2>1, Zenon DEF CA!SubmitRego
  <2>3. verdict'.controller = x /\ verdict'.api = y
    BY <2>2
  <2> QED BY <2>1, <2>2, <2>3 DEF AdmissionInv, CA!Submitted, CA!Validated
<1>3. CASE UNCHANGED CA!vars
  BY <1>3 DEF CA!vars, AdmissionInv, CA!Submitted, CA!Validated
<1> QED BY <1>1, <1>2, <1>3 DEF CA!Next

\* The plain modules.
Plain(m) == /\ m.assign = "=" /\ m.bodies \subseteq {"cond"} /\ m.comment = "none" /\ m.fields # "mentioned" /\ m.nested = 0
            /\ m.lines <= GoLines /\ m.over = "none"

\* A module that passes has a default, but for what a comment spells out to the API, and they agree
\* about plain ones.
LEMMA ValidatorsAre ==
    ASSUME AdmissionConstants, NEW m \in CA!Regos
    PROVE  /\ CA!ValidateRego(m) => m.default # "none"
           /\ CA!ValidateRegoSource(m) /\ m.comment \notin {"allow", "block"} => m.default # "none"
           /\ Plain(m) => (CA!ValidateRego(m) <=> CA!ValidateRegoSource(m))
<1>0. GoLines \in Nat /\ ApiLines \in Nat /\ RegexCap \in Nat /\ GoLines <= ApiLines
  BY DEF AdmissionConstants
<1>1. m.default \in {"none", "allow", "block"} /\ m.fields \in {"defined", "mentioned", "absent"} /\ m.lines \in Nat /\ m.regex \in Nat
  <2>1. m.default \in {"none", "allow", "block"} /\ m.fields \in {"defined", "mentioned", "absent"}
    BY DEF CA!Regos
  <2>2. m.lines \in 1 .. (ApiLines + 1) /\ m.regex \in 0 .. (RegexCap + 1)
    BY DEF CA!Regos
  <2>3. m.lines \in Nat /\ m.regex \in Nat
    BY <1>0, <2>2
  <2> QED BY <2>1, <2>3
<1>2. CA!ValidateRego(m) => m.default # "none"
  BY DEF CA!ValidateRego
<1>3. ASSUME CA!ValidateRegoSource(m), m.comment \notin {"allow", "block"} PROVE m.default # "none"
  <2>1. CA!TextDefaults(m) # {}
    BY <1>3 DEF CA!ValidateRegoSource, CA!DecisionResolver
  <2> QED BY <1>3, <2>1 DEF CA!TextDefaults
<1>4. ASSUME Plain(m) PROVE CA!ValidateRego(m) <=> CA!ValidateRegoSource(m)
  <2>1. m.lines <= ApiLines /\ m.regex + m.nested = m.regex
    <3>1. PICK x, y \in Nat : x = m.lines /\ y = m.regex
      BY <1>1
    <3>2. x <= GoLines /\ y + 0 = y
      BY <1>4, <3>1 DEF Plain
    <3>3. x <= ApiLines
      BY <1>0, <3>1, <3>2
    <3> QED BY <1>4, <3>1, <3>2, <3>3 DEF Plain
  <2>2. m.bodies # {"false"} /\ (m.bodies \subseteq {"false", "1 == 2"} <=> m.bodies = {})
    BY <1>4 DEF Plain
  <2>3. CA!TextBodies(m) = m.bodies
    BY <1>4 DEF Plain, CA!TextBodies
  <2>4. ("block" \in CA!TextDefaults(m) <=> m.default = "block") /\ (CA!TextDefaults(m) # {} <=> m.default # "none")
    BY <1>1, <1>4 DEF Plain, CA!TextDefaults
  <2>5. m.over = "none" /\ m.comment = "none" /\ m.lines <= GoLines /\ m.fields # "mentioned"
    BY <1>4 DEF Plain
  <2>6. CA!DecisionResolver(m) <=> m.default = "block" \/ (m.bodies # {} /\ m.default # "none")
    BY <2>3, <2>4, <2>5 DEF CA!DecisionResolver
  <2> QED BY <1>1, <2>1, <2>2, <2>3, <2>5, <2>6 DEF CA!ValidateRego, CA!ValidateRegoSource
<1> QED BY <1>2, <1>3, <1>4

(* For any names and any caps of which the controller's is the shorter: a  *)
(* resource is deleted under the key it was stored under; the calls that   *)
(* look that key up are the ones the resource names, unless it is          *)
(* elevated to another namespace; an admitted module binds a decision,     *)
(* unless the API took a comment behind code for its default; and the      *)
(* controller and the API agree about a plain module (the CRD controller's *)
(* mapping to a storage key, the two validators).                          *)
THEOREM AdmissionHolds ==
    ASSUME AdmissionConstants
    PROVE  CA!Spec => [](CA!CreateAndDeleteAgree /\ CA!TargetsAreResolved /\ CA!AdmittedBindsADecision /\ CA!PlainModulesAgree)
<1>1. CA!Init => AdmissionInv
  BY DEF CA!Init, AdmissionInv, CA!Submitted, CA!Validated
<1>2. AdmissionInv => CA!CreateAndDeleteAgree /\ CA!TargetsAreResolved
  <2> SUFFICES ASSUME AdmissionInv, CA!Submitted
               PROVE  /\ verdict.stored = verdict.deletes
                      /\ ~CA!Elevated(submitted.cr) => \A call \in CA!Calls : CA!Names(submitted.cr, call) <=> verdict.stored \in CA!LookedUp(call)
    BY DEF CA!CreateAndDeleteAgree, CA!TargetsAreResolved
  <2>1. submitted.cr \in CA!Resources
    BY DEF AdmissionInv, CA!Submitted, CA!Inputs
  <2>2. CA!Admitted(submitted.cr) /\ verdict.stored = CA!Stored(submitted.cr) /\ verdict.deletes = CA!StorageKey(submitted.cr)
    BY DEF AdmissionInv
  <2>3. PICK cr \in CA!Resources : cr = submitted.cr
    BY <2>1
  <2>4. CA!Stored(cr) = <<PlaceOfKey(cr), KeyOf(cr)>> /\ CA!StorageKey(cr) = <<PlaceOfKey(cr), KeyOf(cr)>>
    BY <2>2, <2>3, StoredIs
  <2>5. ~CA!Elevated(cr) => PlaceOfKey(cr) = Target(cr) /\ \A call \in CA!Calls : CA!Names(cr, call) <=> <<Target(cr), KeyOf(cr)>> \in CA!LookedUp(call)
    BY <2>2, <2>3, PlaceIs, KeysNameCalls
  <2> QED BY <2>2, <2>3, <2>4, <2>5
<1>3. AdmissionInv => CA!AdmittedBindsADecision /\ CA!PlainModulesAgree
  <2> SUFFICES ASSUME AdmissionInv, CA!Validated PROVE CA!AdmittedBindsADecision /\ CA!PlainModulesAgree
    BY DEF CA!AdmittedBindsADecision, CA!PlainModulesAgree
  <2>1. submitted.rego \in CA!Regos
    BY DEF AdmissionInv, CA!Validated, CA!Inputs
  <2>2. verdict.controller = CA!ValidateRego(submitted.rego) /\ verdict.api = CA!ValidateRegoSource(submitted.rego)
    BY DEF AdmissionInv
  <2>3. PICK m \in CA!Regos : m = submitted.rego
    BY <2>1
  <2>4. /\ CA!ValidateRego(m) => m.default # "none"
        /\ CA!ValidateRegoSource(m) /\ m.comment \notin {"allow", "block"} => m.default # "none"
        /\ Plain(m) => (CA!ValidateRego(m) <=> CA!ValidateRegoSource(m))
    BY ValidatorsAre
  <2>5. CA!AdmittedBindsADecision
    BY <2>2, <2>3, <2>4, Zenon DEF CA!AdmittedBindsADecision, CA!Binds
  <2>6. CA!PlainModulesAgree
    BY <2>2, <2>3, <2>4, Zenon DEF CA!PlainModulesAgree, Plain
  <2> QED BY <2>5, <2>6
<1> QED BY <1>1, <1>2, <1>3, AdmissionStep, PTL DEF CA!Spec

-----------------------------------------------------------------------------
(* Intents and what they compile to (Intents). *)

CONSTANTS Intentions, Calls, Recorded, MaxWindow, ArgPaths, PythonOnly, DomainOf, Lower, SlugOf, Order, IdLen, MaxTools, MaxKeys,
    MaxExistence, MinForDomain, Names, Mappings
VARIABLES asked, judged

IT == INSTANCE Intents WITH Written <- Intentions, Documents <- Calls, Paths <- ArgPaths, in <- asked, out <- judged

\* What a call document says: names, finite collections of them, and values by path.
FiniteNames == {S \in SUBSET Names : IsFiniteSet(S)}
CallDocuments == [direction : Names, tool_name : Names, verb : Names, server : Names, roots : SUBSET Names,
             paths : Mappings, ambiguous : SUBSET Names, data_classes : FiniteNames, sql_tables : FiniteNames]
\* The paths are apart from the other fields, and a count is a number.
IntentConstants ==
    /\ Calls \subseteq CallDocuments
    /\ \A intent \in Intentions : \A i \in DOMAIN intent : \A p \in IT!Predicates(intent[i]) :
        p.op = "maxCount" => IsFiniteSet(p.val)
    /\ ArgPaths \cap (IT!ScalarFields \cup IT!CollectionFields) = {}

\* A predicate whose answer is a truth value.
Countable(p) ==
    /\ p.field \in IT!CollectionFields => p.op \in IT!CollectionOps
    /\ p.op = "maxCount" => IsFiniteSet(p.val)
\* The engine publishes what a predicate reads.
Readable(p, d) == \A r \in IT!RootsOf(p) : r \in d.roots

\* A predicate on values answers with truth values.
LEMMA ScalarBoolean ==
    ASSUME NEW X, NEW p
    PROVE  IT!Scalar(X, p) \subseteq BOOLEAN
<1>1. \A x \in X : IT!Meets(x, p) \in BOOLEAN
  <2>1. ASSUME NEW x \in X PROVE IT!Meets(x, p) \in BOOLEAN
    <3>1. CASE p.op = "notMatches"
      <4>1. IT!Meets(x, p) = (x \notin p.val)
        BY <3>1 DEF IT!Meets
      <4> QED BY <4>1, Zenon
    <3>2. CASE p.op # "notMatches"
      <4>1. IT!Meets(x, p) = (x \in p.val)
        BY <3>2 DEF IT!Meets
      <4> QED BY <4>1
    <3> QED BY <3>1, <3>2
  <2> QED BY <2>1
<1>2. {\E x \in X : IT!Meets(x, p)} \subseteq BOOLEAN
  BY Zenon
<1>3. {IT!Meets(x, p) : x \in X} \subseteq BOOLEAN
  BY <1>1, Zenon
<1> QED BY <1>2, <1>3, Zenon DEF IT!Scalar

\* On one value it is true only of what it means, and, when OPA reads the pattern, of all of it.
LEMMA ScalarIs ==
    ASSUME NEW x, NEW p
    PROVE  /\ TRUE \in IT!Scalar({x}, p) => IT!Meets(x, p)
           /\ IT!OpaReads(p) /\ IT!Meets(x, p) => TRUE \in IT!Scalar({x}, p)
<1>1. CASE p.op = "in"
  <2>1. IT!Scalar({x}, p) = {\E y \in {x} : IT!Meets(y, p)}
    BY <1>1, Zenon DEF IT!Scalar
  <2>2. (\E y \in {x} : IT!Meets(y, p)) <=> IT!Meets(x, p)
    OBVIOUS
  <2> QED BY <2>1, <2>2, Zenon
<1>2. CASE p.op # "in"
  <2>1. CASE IT!OpaReads(p)
    <3>1. IT!Scalar({x}, p) = {IT!Meets(y, p) : y \in {x}}
      BY <1>2, <2>1, Zenon DEF IT!Scalar
    <3>2. IT!Meets(x, p) \in BOOLEAN
      <4>1. CASE p.op = "notMatches"
        <5>1. IT!Meets(x, p) = (x \notin p.val)
          BY <4>1 DEF IT!Meets
        <5> QED BY <5>1, Zenon
      <4>2. CASE p.op # "notMatches"
        <5>1. IT!Meets(x, p) = (x \in p.val)
          BY <4>2 DEF IT!Meets
        <5> QED BY <5>1
      <4> QED BY <4>1, <4>2
    <3>3. IT!Scalar({x}, p) = {IT!Meets(x, p)}
      BY <3>1
    <3> QED BY <3>2, <3>3
  <2>2. CASE ~IT!OpaReads(p)
    <3>1. IT!Scalar({x}, p) = {}
      BY <1>2, <2>2, Zenon DEF IT!Scalar
    <3> QED BY <2>2, <3>1
  <2> QED BY <2>1, <2>2
<1> QED BY <1>1, <1>2

\* So does one on a collection.
LEMMA CollectionBoolean ==
    ASSUME NEW p, Countable(p), NEW d \in CallDocuments, p.field \in IT!CollectionFields
    PROVE  IT!Collection(p, d) \subseteq BOOLEAN
<1>1. PICK C : C = IT!Elements(p.field, d)
  OBVIOUS
<1>2. CASE p.op = "subsetOf"
  <2>1. IT!CollectionMeets(C, p) = (C \subseteq p.val)
    BY <1>2 DEF IT!CollectionMeets
  <2> QED BY <1>1, <1>2, <2>1 DEF IT!Collection
<1>3. CASE p.op = "noneOf"
  <2>1. IT!CollectionMeets(C, p) = (C \cap p.val = {})
    BY <1>3 DEF IT!CollectionMeets
  <2> QED BY <1>1, <1>3, <2>1 DEF IT!Collection
<1>4. CASE p.op = "anyOf"
  <2>1. IT!CollectionMeets(C, p) = (C \cap p.val # {})
    BY <1>4 DEF IT!CollectionMeets
  <2> QED BY <1>1, <1>4, <2>1 DEF IT!Collection
<1>5. CASE p.op = "maxCount"
  <2>1. IsFiniteSet(C)
    <3>1. IsFiniteSet(d.data_classes) /\ IsFiniteSet(d.sql_tables)
      BY DEF CallDocuments, FiniteNames
    <3>2. IsFiniteSet({})
      BY FS_EmptySet
    <3> QED BY <1>1, <3>1, <3>2 DEF IT!Elements, IT!CollectionFields
  <2>2. Cardinality(C) \in Nat /\ Cardinality(p.val) \in Nat
    BY <1>5, <2>1, FS_CardinalityType DEF Countable
  <2>3. IT!Fits(C, p) \in BOOLEAN
    BY <2>2 DEF IT!Fits
  <2>4. IT!CollectionMeets(C, p) = IT!Fits(C, p)
    BY <1>5 DEF IT!CollectionMeets
  <2> QED BY <1>1, <2>3, <2>4 DEF IT!Collection
<1> QED BY <1>2, <1>3, <1>4, <1>5 DEF Countable, IT!CollectionOps

\* And so do both as they are compiled.
LEMMA PredicateBoolean ==
    ASSUME NEW p, Countable(p), NEW d \in CallDocuments
    PROVE  IT!Predicate(p, d) \subseteq BOOLEAN
<1>1. IT!Guarded(p, d) \subseteq BOOLEAN
  BY Zenon DEF IT!Guarded
<1> QED BY <1>1, ScalarBoolean, CollectionBoolean DEF IT!Predicate

\* Any predicate on one value of a path or a scalar, or on a collection, has one value.
LEMMA OneValue ==
    ASSUME NEW p, Countable(p), IT!CheckPredicate(p), NEW d
    PROVE  IT!Predicate(p, d) = {} \/ \E b : IT!Predicate(p, d) = {b}
<1>1. CASE p.field \in IT!CollectionFields
  <2>1. IT!Predicate(p, d) = IT!Collection(p, d)
    BY <1>1 DEF IT!Predicate
  <2> QED BY <2>1 DEF IT!Collection
<1>2. ASSUME NEW f PROVE IT!FieldValues(f, d) = {} \/ \E x : IT!FieldValues(f, d) = {x}
  BY DEF IT!FieldValues
<1>3. ASSUME NEW X, X = {} \/ \E x : X = {x} PROVE IT!Scalar(X, p) = {} \/ \E b : IT!Scalar(X, p) = {b}
  <2>1. CASE p.op = "in"
    BY <2>1, Zenon DEF IT!Scalar
  <2>2. CASE p.op # "in" /\ ~IT!OpaReads(p)
    BY <2>2, Zenon DEF IT!Scalar
  <2>3. CASE p.op # "in" /\ IT!OpaReads(p)
    <3>1. IT!Scalar(X, p) = {IT!Meets(x, p) : x \in X}
      BY <2>3, Zenon DEF IT!Scalar
    <3>2. CASE X = {}
      BY <3>1, <3>2
    <3>3. ASSUME NEW x, X = {x} PROVE IT!Scalar(X, p) = {IT!Meets(x, p)}
      BY <3>1, <3>3
    <3> QED BY <1>3, <3>2, <3>3
  <2> QED BY <2>1, <2>2, <2>3
<1>4. CASE p.field \in ArgPaths /\ p.field \notin IT!CollectionFields
  <2>1. IT!Predicate(p, d) = IT!Guarded(p, d)
    BY <1>4 DEF IT!Predicate
  <2> QED BY <2>1, Zenon DEF IT!Guarded
<1>5. CASE p.field \notin ArgPaths /\ p.field \notin IT!CollectionFields
  <2>1. IT!Predicate(p, d) = IT!Scalar(IT!FieldValues(p.field, d), p)
    BY <1>5 DEF IT!Predicate
  <2> QED BY <1>2, <1>3, <2>1
<1> QED BY <1>1, <1>4, <1>5

\* A predicate that passed validation can be counted.
LEMMA CheckedCounts ==
    ASSUME IntentConstants, NEW p, IT!CheckPredicate(p), p.op = "maxCount" => IsFiniteSet(p.val)
    PROVE  Countable(p)
<1>1. p.field \in IT!CollectionFields => p.field \notin IT!ScalarFields \cup ArgPaths
  BY DEF IntentConstants, IT!ScalarFields, IT!CollectionFields
<1> QED BY <1>1 DEF Countable, IT!CheckPredicate

\* A collection that is published is read as it is.
LEMMA CollectionReads ==
    ASSUME IntentConstants, NEW d \in CallDocuments, NEW p, p.field \in IT!CollectionFields, p.field \in d.roots
    PROVE  IT!Collection(p, [d EXCEPT !.roots = IT!VersionGatedRoots]) = IT!Collection(p, d)
<1>1. PICK e, v : v = IT!VersionGatedRoots /\ e = [d EXCEPT !.roots = v]
  OBVIOUS
<1>2. e.roots = v /\ e.data_classes = d.data_classes /\ e.sql_tables = d.sql_tables
  BY <1>1 DEF CallDocuments
<1>3. p.field \in e.roots /\ e[p.field] = d[p.field]
  BY <1>1, <1>2 DEF IT!VersionGatedRoots, IT!CollectionFields
<1>4. IT!Elements(p.field, e) = IT!Elements(p.field, d)
  BY <1>3 DEF IT!Elements
<1>5. IT!Collection(p, e) = IT!Collection(p, d)
  BY <1>3, <1>4 DEF IT!Collection
<1> QED BY <1>1, <1>5

\* What is published is read as the call has it, by a pattern OPA cannot read as nothing.
LEMMA ReadAsItIs ==
    ASSUME IntentConstants, NEW d \in CallDocuments, NEW p, IT!CheckPredicate(p), Readable(p, d)
    PROVE  /\ TRUE \in IT!Predicate(p, d) => IT!Says(p, d)
           /\ IT!OpaReads(p) /\ IT!Says(p, d) => TRUE \in IT!Predicate(p, d)
<1>1. CASE p.field \in ArgPaths
  <2>1. p.field \notin IT!CollectionFields /\ p.field \notin IT!ScalarFields
    BY <1>1 DEF IntentConstants
  <2>2. "param_paths" \in d.roots /\ "param_paths_ambiguous" \in d.roots
    BY <1>1 DEF Readable, IT!RootsOf
  <2>3. IT!PathTrusted(p.field, d) <=> p.field \in DOMAIN d.paths \ d.ambiguous
    BY <2>2 DEF IT!PathTrusted, IT!PublishedPaths, IT!PublishedAmbiguous
  <2>4. p.field \in DOMAIN d.paths => IT!FieldValues(p.field, d) = {d.paths[p.field]}
    BY <2>1, <2>2 DEF IT!FieldValues
  <2>5. PICK q : q = (TRUE \in IT!Scalar(IT!FieldValues(p.field, d), p))
    OBVIOUS
  <2>6. TRUE \in IT!Predicate(p, d) <=> IT!PathTrusted(p.field, d) /\ TRUE \in IT!Scalar(IT!FieldValues(p.field, d), p)
    BY <1>1, <2>1, Zenon DEF IT!Predicate, IT!Guarded
  <2> QED BY <1>1, <2>3, <2>4, <2>6, ScalarIs DEF IT!Says
<1>2. CASE p.field \in IT!CollectionFields
  <2>1. p.field \notin ArgPaths
    BY <1>2 DEF IntentConstants
  <2>2. p.field \in d.roots
    BY <1>2, <2>1 DEF Readable, IT!RootsOf, IT!CollectionFields, IT!VersionGatedRoots
  <2> QED BY <1>2, <2>1, <2>2, CollectionReads DEF IT!Says, IT!Predicate
<1>3. CASE p.field \in IT!ScalarFields
  <2>1. p.field \notin ArgPaths /\ p.field \notin IT!CollectionFields
    BY <1>3 DEF IntentConstants, IT!ScalarFields, IT!CollectionFields
  <2>2. IT!FieldValues(p.field, d) = {d[p.field]}
    BY <1>3 DEF IT!FieldValues
  <2> QED BY <2>1, <2>2, ScalarIs DEF IT!Says, IT!Predicate
<1> QED BY <1>1, <1>2, <1>3 DEF IT!CheckPredicate

\* The clauses of a rule that matches all hold, and all could be read.
LEMMA MatchedReads ==
    ASSUME NEW rule, NEW d \in CallDocuments, IT!Matched(rule, d), \A p \in IT!Predicates(rule) : Countable(p)
    PROVE  /\ d.direction = rule.plane
           /\ \A p \in IT!Predicates(rule) : Readable(p, d) /\ TRUE \in IT!Predicate(p, d)
<1>1. \A c \in IT!Clauses(rule, d) : c[2] # {} /\ FALSE \notin c[2]
  BY DEF IT!Matched, IT!Defined, IT!Failed
<1>2. d.direction = rule.plane
  <2>1. <<[field |-> "direction", op |-> "equals", val |-> {rule.plane}], {d.direction = rule.plane}>> \in IT!Clauses(rule, d)
    BY DEF IT!Clauses
  <2>2. FALSE \notin {d.direction = rule.plane}
    BY <1>1, <2>1
  <2> QED BY <2>2
<1>3. ASSUME NEW p \in IT!Predicates(rule) PROVE TRUE \in IT!Predicate(p, d)
  <2>1. <<p, IT!Predicate(p, d)>> \in IT!Clauses(rule, d)
    BY <1>3 DEF IT!Clauses
  <2>2. IT!Predicate(p, d) # {} /\ FALSE \notin IT!Predicate(p, d)
    BY <1>1, <2>1
  <2>3. IT!Predicate(p, d) \subseteq BOOLEAN
    BY <1>3, PredicateBoolean
  <2> QED BY <2>2, <2>3
<1>4. ASSUME NEW p \in IT!Predicates(rule), NEW r \in IT!RootsOf(p) PROVE r \in d.roots
  <2>1. r \in IT!GatedRoots(rule)
    BY <1>4 DEF IT!GatedRoots
  <2>2. <<[field |-> r, op |-> "published", val |-> {}], {IT!Published(r, d)}>> \in IT!Clauses(rule, d)
    BY <2>1 DEF IT!Clauses
  <2>3. ASSUME r \notin d.roots PROVE FALSE
    <3>1. IT!Published(r, d) = FALSE
      BY <2>3 DEF IT!Published
    <3>2. <<[field |-> r, op |-> "published", val |-> {}], {FALSE}>> \in IT!Clauses(rule, d)
      BY <2>2, <3>1, Zenon
    <3> QED BY <1>1, <3>2
  <2> QED BY <2>3
<1> QED BY <1>2, <1>3, <1>4 DEF Readable

\* On an engine that publishes everything no clause of a rule that is meant fails.
LEMMA MeantMatches ==
    ASSUME IntentConstants, NEW rule, NEW d \in CallDocuments, d.roots = IT!VersionGatedRoots, IT!Meant(rule, d),
           \A p \in IT!Predicates(rule) : Countable(p) /\ IT!CheckPredicate(p) /\ IT!OpaReads(p)
    PROVE  IT!Matched(rule, d)
<1> SUFFICES ASSUME NEW c \in IT!Clauses(rule, d) PROVE c[2] # {} /\ FALSE \notin c[2]
  BY DEF IT!Matched, IT!Defined, IT!Failed
<1>1. CASE c = <<[field |-> "direction", op |-> "equals", val |-> {rule.plane}], {d.direction = rule.plane}>>
  <2>1. c[2] = {d.direction = rule.plane}
    BY <1>1
  <2>2. (d.direction = rule.plane) = TRUE
    BY DEF IT!Meant
  <2>3. c[2] = {TRUE}
    BY <2>1, <2>2
  <2> QED BY <2>3
<1>2. ASSUME NEW p \in IT!Predicates(rule), c = <<p, IT!Predicate(p, d)>> PROVE c[2] # {} /\ FALSE \notin c[2]
  <2>1. Readable(p, d)
    BY DEF Readable, IT!RootsOf, IT!VersionGatedRoots
  <2>2. IT!CheckPredicate(p) /\ Countable(p) /\ IT!OpaReads(p) /\ IT!Says(p, d)
    BY <1>2 DEF IT!Meant
  <2>3. TRUE \in IT!Predicate(p, d)
    BY <2>1, <2>2, ReadAsItIs
  <2>4. IT!Predicate(p, d) = {} \/ \E b : IT!Predicate(p, d) = {b}
    BY <2>2, OneValue
  <2>5. c[2] = IT!Predicate(p, d)
    BY <1>2
  <2>6. IT!Predicate(p, d) = {TRUE}
    BY <2>3, <2>4
  <2>7. c[2] = {TRUE}
    BY <2>5, <2>6
  <2> QED BY <2>7
<1>3. ASSUME NEW r \in IT!GatedRoots(rule), c = <<[field |-> r, op |-> "published", val |-> {}], {IT!Published(r, d)}>>
      PROVE  c[2] # {} /\ FALSE \notin c[2]
  <2>1. r \in d.roots
    BY <1>3 DEF IT!GatedRoots, IT!RootsOf, IT!VersionGatedRoots
  <2>2. IT!Published(r, d) = TRUE
    BY <2>1 DEF IT!Published
  <2>3. c[2] = {IT!Published(r, d)}
    BY <1>3
  <2>4. c[2] = {TRUE}
    BY <2>2, <2>3
  <2> QED BY <2>4
<1> QED BY <1>1, <1>2, <1>3 DEF IT!Clauses

\* A call is allowed when a rule matches it.
LEMMA DecisionIs ==
    ASSUME NEW intent, NEW d
    PROVE  IT!DryRun(intent, d).decision = "allow" <=> \E i \in DOMAIN intent : IT!Matched(intent[i], d)
<1>1. IT!Decision(intent, d) = "allow" <=> \E i \in DOMAIN intent : IT!Matched(intent[i], d)
  BY DEF IT!Decision
<1>2. CASE IT!Decision(intent, d) = "allow" \/ IT!Candidates(intent, d) = {}
  <2>1. IT!DryRun(intent, d).decision = IT!Decision(intent, d)
    BY <1>2 DEF IT!DryRun
  <2> QED BY <1>1, <2>1
<1>3. CASE ~(IT!Decision(intent, d) = "allow" \/ IT!Candidates(intent, d) = {})
  <2>1. IT!DryRun(intent, d).decision = "block"
    BY <1>3 DEF IT!DryRun
  <2> QED BY <1>1, <1>3, <2>1
<1> QED BY <1>2, <1>3

\* The inductive invariant: a judgement is computed from what was asked.
IntentInv ==
    asked.kind = "judge" =>
        /\ asked.intent \in Intentions /\ asked.doc \in Calls
        /\ judged # <<>> /\ IT!Normalized(asked.intent) => judged = <<IT!DryRun(asked.intent, asked.doc)>>

\* Nothing has been judged.
LEMMA IntentStarts == IT!Init => IntentInv
<1> SUFFICES ASSUME IT!Init PROVE IntentInv
  OBVIOUS
<1>1. judged = <<>>
  BY DEF IT!Init
<1>2. CASE \E intent \in Intentions, doc \in Calls : asked = [kind |-> "judge", intent |-> intent, doc |-> doc]
  BY <1>1, <1>2 DEF IntentInv
<1>3. CASE \E n \in 1..MaxWindow : \E calls \in [1..n -> Recorded] : asked = [kind |-> "window", calls |-> calls]
  <2>1. asked.kind = "window"
    BY <1>3
  <2> QED BY <2>1 DEF IntentInv
<1> QED BY <1>2, <1>3 DEF IT!Init

\* Every judgement is computed from what was asked.
LEMMA IntentStep == IntentInv /\ [IT!Next]_(IT!vars) => IntentInv'
<1> SUFFICES ASSUME IntentInv, [IT!Next]_(IT!vars) PROVE IntentInv'
  OBVIOUS
<1>1. CASE IT!Compile
  <2>1. asked' = asked /\ (IT!Normalized(asked.intent) => judged' = <<IT!DryRun(asked.intent, asked.doc)>>)
    BY <1>1 DEF IT!Compile
  <2> QED BY <2>1 DEF IntentInv
<1>2. CASE IT!ProposeCalls
  <2>1. asked.kind = "window" /\ asked' = asked
    BY <1>2 DEF IT!ProposeCalls
  <2> QED BY <2>1 DEF IntentInv
<1>3. CASE UNCHANGED IT!vars
  BY <1>3 DEF IT!vars, IntentInv
<1> QED BY <1>1, <1>2, <1>3 DEF IT!Next

\* The invariant implies what the author of an intent is promised.
LEMMA IntentShows == ASSUME IntentConstants, IntentInv PROVE IT!AllowedIsMeant /\ IT!MeantIsAllowed
<1> SUFFICES ASSUME IT!Judged
             PROVE  /\ judged[1].decision = "allow" => \E i \in DOMAIN asked.intent : IT!Meant(asked.intent[i], asked.doc)
                    /\ (/\ asked.doc.roots = IT!VersionGatedRoots
                        /\ \E i \in DOMAIN asked.intent :
                             IT!Meant(asked.intent[i], asked.doc) /\ \A p \in IT!Predicates(asked.intent[i]) : IT!OpaReads(p))
                       => judged[1].decision = "allow"
  BY DEF IT!AllowedIsMeant, IT!MeantIsAllowed
<1>1. PICK intent \in Intentions, d \in Calls : asked.intent = intent /\ asked.doc = d /\ judged = <<IT!DryRun(intent, d)>> /\ IT!Normalized(intent)
  BY DEF IT!Judged, IntentInv
<1>2. d \in CallDocuments
  BY <1>1 DEF IntentConstants
<1>3. \A i \in DOMAIN intent : \A p \in IT!Predicates(intent[i]) : IT!CheckPredicate(p) /\ Countable(p)
  <2>1. \A i \in DOMAIN intent : \A p \in IT!Predicates(intent[i]) : IT!CheckPredicate(p)
    BY <1>1 DEF IT!Normalized
  <2>2. \A i \in DOMAIN intent : \A p \in IT!Predicates(intent[i]) : p.op = "maxCount" => IsFiniteSet(p.val)
    BY <1>1 DEF IntentConstants
  <2> QED BY <2>1, <2>2, CheckedCounts
<1>4. judged[1].decision = "allow" <=> \E i \in DOMAIN intent : IT!Matched(intent[i], d)
  BY <1>1, DecisionIs
<1>5. ASSUME NEW i \in DOMAIN intent, IT!Matched(intent[i], d) PROVE IT!Meant(intent[i], d)
  BY <1>2, <1>3, <1>5, MatchedReads, ReadAsItIs DEF IT!Meant
<1>6. ASSUME NEW i \in DOMAIN intent, IT!Meant(intent[i], d), d.roots = IT!VersionGatedRoots,
             \A p \in IT!Predicates(intent[i]) : IT!OpaReads(p)
      PROVE  IT!Matched(intent[i], d)
  BY <1>2, <1>3, <1>6, MeantMatches
<1> QED BY <1>1, <1>4, <1>5, <1>6

(* Whatever intents are written and whatever call they are judged on: a    *)
(* call that is allowed is one that some rule for its direction allows by  *)
(* every one of its predicates, read on the call as it is, also when the   *)
(* engine does not publish what a rule reads, a path can be forged or OPA  *)
(* cannot read a pattern; and on an engine that publishes everything a     *)
(* call that some rule means is allowed, if OPA reads the patterns of that *)
(* rule (compile_intent, _availability_predicates, _guarded).              *)
THEOREM IntentsMeant == ASSUME IntentConstants PROVE IT!Spec => [](IT!AllowedIsMeant /\ IT!MeantIsAllowed)
<1>1. IT!Spec => []IntentInv
  BY IntentStarts, IntentStep, PTL DEF IT!Spec
<1>2. IntentInv => IT!AllowedIsMeant /\ IT!MeantIsAllowed
  BY IntentShows
<1> QED BY <1>1, <1>2, PTL

=============================================================================
