----------------------------- MODULE SuiteGuard -----------------------------
(***************************************************************************)
(* POST /redteam/suite of norviq/api/routers/redteam.py: the guard that    *)
(* admits one run per namespace (a dictionary in each pod and a lock in    *)
(* Redis, engine/cache.py), the gate that bounds the runs of a pod, and    *)
(* the stored runs with their two-tier retention.                          *)
(*                                                                         *)
(* A request is identified with its run_id.  Every step ends at an await,  *)
(* so that the steps of requests interleave, on one pod and on several.    *)
(***************************************************************************)
EXTENDS Integers, FiniteSets

CONSTANTS
    Requests, Pods, Namespaces,
    None,                     \* no request
    Gate,                     \* redteam_suite_global_concurrency
    DetailRuns, SummaryRuns,  \* redteam_detail_keep_runs, redteam_summary_keep_runs
    DetailTtl, SummaryTtl,    \* redteam_detail_keep_days, redteam_summary_keep_days
    Stamps,                   \* the times a run may be created at, by its pod's clock
    Overruns,                 \* a run may outlast the TTL of its lock
    Errors,                   \* a call to Redis or Postgres, or a run, may fail
    Crashes                   \* a pod may die

ASSUME NoneAssumption == None \notin Requests
ASSUME StampsAssumption == Stamps \subseteq Nat

VARIABLES
    pc, pod, ns,    \* per request: where it is, the pod that serves it, its target namespace
    told,           \* per request: the run its 409 names
    inflight,       \* per pod: _INFLIGHT_SUITES
    lock,           \* per namespace: the value of its lock in Redis
    rows, detail,   \* redteam_runs: the stored runs, and those with their results
    stamp,          \* per request: created_at
    plan            \* per request: what its retention has decided

where == <<pod, ns>>
guard == <<inflight, lock>>
store == <<rows, detail, stamp>>
vars == <<pc, pod, ns, told, inflight, lock, rows, detail, stamp, plan>>

Executing == {"run", "persist", "retain", "prune", "finally"}
Admitted == {"gate"} \cup Executing
Releasing == {"compare", "delete"}
Ended == {"refused", "done", "unreleased", "dead"}

Nothing == [del |-> {}, nul |-> {}]

Init ==
    /\ pc = [r \in Requests |-> "new"]
    /\ pod \in [Requests -> Pods] /\ ns \in [Requests -> Namespaces]
    /\ told = [r \in Requests |-> None]
    /\ inflight = [p \in Pods |-> [n \in Namespaces |-> None]]
    /\ lock = [n \in Namespaces |-> None]
    /\ rows = {} /\ detail = {}
    /\ stamp = [r \in Requests |-> 0]
    /\ plan = [r \in Requests |-> Nothing]

Goto(r, l) == pc' = [pc EXCEPT ![r] = l]
\* Faulty variant: the 409 names the refused request's own run_id.
Refuse_OwnId(r, holder) == Goto(r, "refused") /\ told' = [told EXCEPT ![r] = r]
\* 409: a suite is already running for this namespace.
Refuse(r, holder) == Goto(r, "refused") /\ told' = [told EXCEPT ![r] = holder]

-----------------------------------------------------------------------------
(* The guard. *)

\* run_suite looks in its pod's dictionary; finding nothing it awaits acquire_lock.
Arrive(r) ==
    /\ pc[r] = "new"
    /\ LET holder == inflight[pod[r]][ns[r]] IN
         \/ holder # None /\ Refuse(r, holder)
         \/ holder = None /\ Goto(r, "set") /\ UNCHANGED told
    /\ UNCHANGED <<where, guard, store, plan>>

\* SET NX EX of acquire_lock.
SetNX(r) ==
    /\ pc[r] = "set"
    /\ \/ lock[ns[r]] = None /\ lock' = [lock EXCEPT ![ns[r]] = r] /\ Goto(r, "enter")
       \/ lock[ns[r]] # None /\ Goto(r, "get") /\ UNCHANGED lock
    /\ UNCHANGED <<where, told, inflight, store, plan>>

\* The lock was taken: the holder's run_id, unless the lock is gone by now; then the caller proceeds.
GetHolder(r) ==
    /\ pc[r] = "get"
    /\ LET holder == lock[ns[r]] IN
         \/ holder # None /\ Refuse(r, holder)
         \/ holder = None /\ Goto(r, "enter") /\ UNCHANGED told
    /\ UNCHANGED <<where, guard, store, plan>>

\* acquire_lock fails; its SET may have been applied and only the answer lost.
LockUnavailable(r) ==
    /\ Errors /\ pc[r] \in {"set", "get"}
    /\ \/ UNCHANGED lock
       \/ pc[r] = "set" /\ lock[ns[r]] = None /\ lock' = [lock EXCEPT ![ns[r]] = r]
    /\ Goto(r, "enter")
    /\ UNCHANGED <<where, told, inflight, store, plan>>

\* The request resumes, registers its run and waits for the gate.
Enter(r) ==
    /\ pc[r] = "enter"
    /\ inflight' = [inflight EXCEPT ![pod[r]][ns[r]] = r]
    /\ Goto(r, "gate")
    /\ UNCHANGED <<where, told, lock, store, plan>>

\* Faulty variant: a request whose release failed keeps its slot.
PassGate_Leaks(r) ==
    /\ pc[r] = "gate"
    /\ Cardinality({q \in Requests : pod[q] = pod[r] /\ pc[q] \in Executing \cup {"unreleased"}}) < Gate
    /\ Goto(r, "run")
    /\ UNCHANGED <<where, told, guard, store, plan>>

PassGate(r) ==
    /\ pc[r] = "gate"
    /\ Cardinality({q \in Requests : pod[q] = pod[r] /\ pc[q] \in Executing}) < Gate
    /\ Goto(r, "run")
    /\ UNCHANGED <<where, told, guard, store, plan>>

\* Faulty variant: a failed run leaves the dictionary alone.
RunSuite_Skips(r) ==
    /\ pc[r] = "run"
    /\ \/ Goto(r, "persist")
       \/ Errors /\ Goto(r, "compare")
    /\ UNCHANGED <<where, told, guard, store, plan>>

\* The attacks have been evaluated, or something raised.
RunSuite(r) ==
    /\ pc[r] = "run"
    /\ \/ Goto(r, "persist")
       \/ Errors /\ Goto(r, "finally")
    /\ UNCHANGED <<where, told, guard, store, plan>>

\* Faulty variant: a run that no longer finds its entry releases nothing.
Finally_OnlyOwn(r) ==
    /\ pc[r] = "finally"
    /\ \/ /\ inflight[pod[r]][ns[r]] = r
          /\ inflight' = [inflight EXCEPT ![pod[r]][ns[r]] = None]
          /\ Goto(r, "compare")
       \/ inflight[pod[r]][ns[r]] # r /\ UNCHANGED inflight /\ Goto(r, "done")
    /\ UNCHANGED <<where, told, lock, store, plan>>

\* `finally`: the namespace's entry goes, whoever's it is, and release_lock is awaited.
Finally(r) ==
    /\ pc[r] = "finally"
    /\ inflight' = [inflight EXCEPT ![pod[r]][ns[r]] = None]
    /\ Goto(r, "compare")
    /\ UNCHANGED <<where, told, lock, store, plan>>

\* release_lock: GET, and DEL if the value is ours.
CompareHolder(r) ==
    /\ pc[r] = "compare"
    /\ Goto(r, IF lock[ns[r]] = r THEN "delete" ELSE "done")
    /\ UNCHANGED <<where, told, guard, store, plan>>

DeleteLock(r) ==
    /\ pc[r] = "delete"
    /\ lock' = [lock EXCEPT ![ns[r]] = None]
    /\ Goto(r, "done")
    /\ UNCHANGED <<where, told, inflight, store, plan>>

\* release_lock fails: the TTL is the backstop.
ReleaseFails(r) ==
    /\ Errors /\ pc[r] \in Releasing
    /\ Goto(r, "unreleased")
    /\ UNCHANGED <<where, told, guard, store, plan>>

\* Faulty variant: the lock is set without an expiry.
Expire_NoTtl(n) == lock[n] # None /\ FALSE /\ UNCHANGED vars

\* The TTL of the lock passes: after its holder's end, or, if runs may be that long, during its run.
Expire(n) ==
    /\ lock[n] # None
    /\ Overruns \/ pc[lock[n]] \in Ended
    /\ lock' = [lock EXCEPT ![n] = None]
    /\ UNCHANGED <<pc, where, told, inflight, store, plan>>

\* A pod dies and its memory with it; one that replaces it has the same name here.
Crash(p) ==
    /\ Crashes
    /\ \E r \in Requests : pod[r] = p /\ pc[r] \notin Ended \cup {"new"}
    /\ pc' = [r \in Requests |-> IF pod[r] = p /\ pc[r] \notin Ended \cup {"new"} THEN "dead" ELSE pc[r]]
    /\ inflight' = [inflight EXCEPT ![p] = [n \in Namespaces |-> None]]
    /\ UNCHANGED <<where, told, lock, store, plan>>

-----------------------------------------------------------------------------
(* The stored runs: _persist_run, one transaction for the row and one for the retention. *)

RowsOf(n) == {r \in rows : ns[r] = n}
NewerIn(R, r) == {q \in R : stamp[q] > stamp[r]}
Newest(R) == {r \in R : NewerIn(R, r) = {}}

\* Faulty variant: sorted without reverse=True, oldest first.
plan_retention_OldestFirst(R, now) ==
    LET Before(r) == {q \in R : stamp[q] < stamp[r]}
        Outside(r, count, ttl) == Cardinality(Before(r)) >= count \/ now - stamp[r] > ttl
        rest == {r \in R : Before(r) # {}}
        del == {r \in rest : Outside(r, SummaryRuns, SummaryTtl)}
    IN [del |-> del, nul |-> {r \in rest \ del : Outside(r, DetailRuns, DetailTtl)}]

\* plan_retention: the rows to delete, and those to keep as summaries; never the newest.
plan_retention(R, now) ==
    LET Outside(r, count, ttl) == Cardinality(NewerIn(R, r)) >= count \/ now - stamp[r] > ttl
        older == R \ Newest(R)
        del == {r \in older : Outside(r, SummaryRuns, SummaryTtl)}
    IN [del |-> del, nul |-> {r \in older \ del : Outside(r, DetailRuns, DetailTtl)}]

\* The row is stamped by the pod's clock; no two rows bear the same microsecond.
InsertRun(r) ==
    /\ pc[r] = "persist"
    /\ \E t \in Stamps \ {stamp[q] : q \in rows} : stamp' = [stamp EXCEPT ![r] = t]
    /\ rows' = rows \cup {r} /\ detail' = detail \cup {r}
    /\ Goto(r, "retain")
    /\ UNCHANGED <<where, told, guard, plan>>

PlanRetention(r) ==
    /\ pc[r] = "retain"
    /\ LET p == plan_retention(RowsOf(ns[r]), stamp[r]) IN
         /\ plan' = [plan EXCEPT ![r] = p]
         /\ Goto(r, IF p = Nothing THEN "finally" ELSE "prune")
    /\ UNCHANGED <<where, told, guard, store>>

ApplyRetention(r) ==
    /\ pc[r] = "prune"
    /\ rows' = rows \ plan[r].del
    /\ detail' = detail \ (plan[r].del \cup plan[r].nul)
    /\ plan' = [plan EXCEPT ![r] = Nothing]
    /\ Goto(r, "finally")
    /\ UNCHANGED <<where, told, guard, stamp>>

\* A failing transaction is rolled back and the run is answered all the same.
PersistFails(r) ==
    /\ Errors /\ pc[r] \in {"persist", "retain", "prune"}
    /\ plan' = [plan EXCEPT ![r] = Nothing]
    /\ Goto(r, "finally")
    /\ UNCHANGED <<where, told, guard, store>>

-----------------------------------------------------------------------------
Step(r) ==
    \/ SetNX(r) \/ GetHolder(r) \/ LockUnavailable(r) \/ Enter(r) \/ PassGate(r) \/ RunSuite(r)
    \/ InsertRun(r) \/ PlanRetention(r) \/ ApplyRetention(r) \/ PersistFails(r)
    \/ Finally(r) \/ CompareHolder(r) \/ DeleteLock(r) \/ ReleaseFails(r)

Next ==
    \/ \E r \in Requests : Arrive(r) \/ Step(r)
    \/ \E n \in Namespaces : Expire(n)
    \/ \E p \in Pods : Crash(p)

Spec == Init /\ [][Next]_vars

\* A request once begun goes on, and the clock of Redis too.
FairSpec ==
    /\ Spec
    /\ \A r \in Requests : WF_vars(Step(r))
    /\ \A n \in Namespaces : WF_vars(Expire(n))

-----------------------------------------------------------------------------
(* Properties. *)

Labels == {"new", "set", "get", "enter"} \cup Admitted \cup Releasing \cup Ended

\* Every variable keeps its type: redteam_runs only holds results of stored runs.
TypeOK ==
    /\ pc \in [Requests -> Labels]
    /\ pod \in [Requests -> Pods] /\ ns \in [Requests -> Namespaces]
    /\ told \in [Requests -> Requests \cup {None}]
    /\ inflight \in [Pods -> [Namespaces -> Requests \cup {None}]]
    /\ lock \in [Namespaces -> Requests \cup {None}]
    /\ rows \subseteq Requests /\ detail \subseteq rows
    /\ stamp \in [Requests -> Nat]
    /\ plan \in [Requests -> [del : SUBSET Requests, nul : SUBSET Requests]]

\* The newest stored run of a namespace has its results, so that /redteam/results/latest can serve them,
\* although the retentions of several runs interleave and each works from what it read before.
LatestKeepsDetail == \A n \in Namespaces : Newest(RowsOf(n)) \subseteq detail

\* "a failed run never wedges the guard": an entry of _INFLIGHT_SUITES is that of a run its own pod has
\* admitted and not finished.
GuardReleased ==
    \A p \in Pods, n \in Namespaces :
        LET r == inflight[p][n] IN r # None => pod[r] = p /\ ns[r] = n /\ pc[r] \in Admitted

\* The Redis lock is never left behind: it names a request that will still release it, or one whose pod died
\* or whose release failed; a refused request never owns it.
NoStrayLock ==
    \A n \in Namespaces : lock[n] # None => ns[lock[n]] = n /\ pc[lock[n]] \notin {"new", "set", "get", "refused", "done"}

\* A 409 names a run of the same namespace that was admitted, never another refused request: of requests that
\* arrive together, on whatever pods, not all are refused.
RefusedForARun ==
    \A r \in Requests :
        told[r] # None => ns[told[r]] = ns[r] /\ pc[told[r]] \notin {"new", "set", "get", "refused"}

\* A namespace is never wedged: whoever holds its lock, dead pods and failed releases included, it becomes free.
Unwedged == \A n \in Namespaces : []<>(lock[n] = None)

\* Every request that has been begun is answered, or its pod dies: none stays for ever behind the gate of its pod.
Answered == <>[](\A r \in Requests : pc[r] \in {"new"} \cup Ended)

(* What the comments claim and the code does not do. *)

\* cache.py: "two API pods racing the same lock cannot both win"; redteam.py: "a second concurrent POST is
\* rejected (409)".
OneRunAtATime ==
    \A r, q \in Requests : r # q /\ ns[r] = ns[q] => ~(pc[r] \in Executing /\ pc[q] \in Executing)

\* redteam.py: "so the check-and-set is atomic under asyncio (no interleaving in between)": a pod's own
\* dictionary admits one run of a namespace at a time.
PodGuardAtomic ==
    \A r, q \in Requests :
        r # q /\ pod[r] = pod[q] /\ ns[r] = ns[q] => ~(pc[r] \in Executing /\ pc[q] \in Executing)

\* cache.py, release_lock: "A lock held by someone else is left alone".
LeavesOthersLock ==
    [][\A r \in Requests : DeleteLock(r) => lock[ns[r]] \in {r, None}]_vars

\* The guard of the suites, whatever interleaves, fails or crashes: the in-memory entry of a namespace
\* is removed by the request that put it, a lock belongs to a request under way or to a run that
\* crashed or failed to release it, and whoever is refused is so for a run (_guarded_suite, acquire_lock).
GuardIsSound == GuardReleased /\ NoStrayLock /\ RefusedForARun
=============================================================================
