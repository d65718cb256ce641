-------------------------- MODULE SuiteGuard_proofs --------------------------
(***************************************************************************)
(* Theorems about SuiteGuard: the guard of the red-team suite is left to   *)
(* nobody, a refusal names an admitted run, and the newest stored run      *)
(* keeps its results, for any pods, requests, namespaces and windows.      *)
(*                                                                         *)
(* The guard's invariants are inductive together.  The store's needs two   *)
(* facts besides: each namespace with rows has a newest one (MaxInv), and  *)
(* a retention under way only touches rows that have a newer one, although *)
(* the rows it read may have changed since (PlanInv).                      *)
(*                                                                         *)
(* Then five parts of the platform that many requests share: the audit     *)
(* feed, the injector's token Secrets, the pods it patches and the MCP     *)
(* proxy over HTTP and over stdio.  Each is an instance with variables and *)
(* an inductive invariant of its own.                                      *)
(***************************************************************************)
EXTENDS SuiteGuard, Sequences, FiniteSetTheorems, SequenceTheorems, TLAPS

Early == {"new", "set", "get", "enter", "gate", "run", "persist"}
Touched(q) == plan[q].del \cup plan[q].nul

\* A request has no row, and is in nobody's plan, before it inserts it.
FreshInv ==
    \A r \in Requests :
        pc[r] \in Early => r \notin rows /\ \A q \in Requests : pc[q] = "prune" => r \notin Touched(q)
\* What a retention touches has a newer row in the same namespace.
PlanInv ==
    \A q \in Requests :
        pc[q] = "prune" =>
            \A x \in Touched(q) : \E y \in rows : ns[y] = ns[x] /\ stamp[x] < stamp[y]
\* A namespace with rows has a newest one.
MaxInv ==
    \A x \in rows : \E y \in rows : ns[y] = ns[x] /\ \A z \in rows : ns[z] = ns[x] => stamp[z] <= stamp[y]

GuardInv == TypeOK /\ GuardReleased /\ NoStrayLock /\ RefusedForARun
StoreInv == FreshInv /\ PlanInv /\ MaxInv /\ LatestKeepsDetail
IndInv == GuardInv /\ StoreInv

-----------------------------------------------------------------------------
\* What plan_retention decides to delete or to null is rows of the namespace that have a newer one there.
LEMMA PlanTouches ==
    ASSUME NEW R, NEW now
    PROVE LET p == plan_retention(R, now) IN
            /\ p \in [del : SUBSET R, nul : SUBSET R]
            /\ \A x \in p.del \cup p.nul : \E y \in R : stamp[y] > stamp[x]
  BY DEF plan_retention, Newest, NewerIn

\* Initially nothing is guarded, locked or stored.
LEMMA Initial == Init => IndInv
  BY NoneAssumption DEF Init, IndInv, GuardInv, StoreInv, TypeOK, GuardReleased, NoStrayLock, RefusedForARun,
     FreshInv, PlanInv, MaxInv, LatestKeepsDetail, Nothing, Labels, Admitted, Executing, Releasing, Ended,
     Early, Touched, RowsOf, Newest, NewerIn

-----------------------------------------------------------------------------
Others == <<pod, ns, inflight, lock, rows, detail, stamp, plan>>

\* A request that has not been admitted may be sent on to where it is still not refused.
LEMMA Onward ==
    ASSUME GuardInv, NEW r \in Requests, pc[r] \in {"new", "set", "get"}, NEW l \in {"set", "get", "enter"},
           Goto(r, l), UNCHANGED told, UNCHANGED Others
    PROVE GuardInv'
<1> USE DEF GuardInv
<1>1. TypeOK'
  BY DEF TypeOK, Goto, Others, Labels
<1>2. GuardReleased'
  BY DEF TypeOK, GuardReleased, Goto, Others, Admitted, Executing
<1>3. NoStrayLock'
  BY DEF TypeOK, NoStrayLock, Goto, Others
<1>4. RefusedForARun'
  BY DEF TypeOK, RefusedForARun, Goto, Others
<1> QED
  BY <1>1, <1>2, <1>3, <1>4

\* It may be refused on account of an admitted request of its namespace.
LEMMA Refusal ==
    ASSUME GuardInv, NEW r \in Requests, pc[r] \in {"new", "get"}, NEW h \in Requests, ns[h] = ns[r],
           pc[h] \notin {"new", "set", "get", "refused"}, Refuse(r, h), UNCHANGED Others
    PROVE GuardInv'
<1> USE DEF GuardInv
<1>1. TypeOK'
  BY DEF TypeOK, Refuse, Goto, Others, Labels, Ended
<1>2. GuardReleased'
  BY DEF TypeOK, GuardReleased, Refuse, Goto, Others, Admitted, Executing
<1>3. NoStrayLock'
  BY DEF TypeOK, NoStrayLock, Refuse, Goto, Others
<1>4. RefusedForARun'
  BY NoneAssumption DEF TypeOK, RefusedForARun, Refuse, Goto, Others
<1> QED
  BY <1>1, <1>2, <1>3, <1>4

\* It may take the free lock, and then enters.
LEMMA Locking ==
    ASSUME GuardInv, NEW r \in Requests, pc[r] = "set", lock' = [lock EXCEPT ![ns[r]] = r], Goto(r, "enter"),
           UNCHANGED <<pod, ns, told, inflight, rows, detail, stamp, plan>>
    PROVE GuardInv'
<1> USE DEF GuardInv
<1>1. TypeOK'
  BY DEF TypeOK, Goto, Labels
<1>2. GuardReleased'
  BY DEF TypeOK, GuardReleased, Goto, Admitted, Executing
<1>3. NoStrayLock'
  BY DEF TypeOK, NoStrayLock, Goto
<1>4. RefusedForARun'
  BY DEF TypeOK, RefusedForARun, Goto
<1> QED
  BY <1>1, <1>2, <1>3, <1>4

\* Every step keeps what is claimed of the dictionary, the lock and the refusals.
LEMMA GuardStep ==
    ASSUME GuardInv, [Next]_vars
    PROVE GuardInv'
<1> USE DEF GuardInv
<1>1. CASE \E r \in Requests : Arrive(r)
  <2>1. PICK r \in Requests : Arrive(r)
    BY <1>1
  <2>2. CASE inflight[pod[r]][ns[r]] # None
    <3>1. Refuse(r, inflight[pod[r]][ns[r]]) /\ pc[r] = "new" /\ UNCHANGED Others
      BY <2>1, <2>2 DEF Arrive, where, guard, store, Others
    <3>2. /\ inflight[pod[r]][ns[r]] \in Requests
          /\ ns[inflight[pod[r]][ns[r]]] = ns[r]
          /\ pc[inflight[pod[r]][ns[r]]] \in Admitted
      BY <2>2 DEF TypeOK, GuardReleased
    <3> QED
      BY <3>1, <3>2, Refusal DEF Admitted, Executing
  <2>3. CASE inflight[pod[r]][ns[r]] = None
    <3>1. Goto(r, "set") /\ pc[r] = "new" /\ UNCHANGED told /\ UNCHANGED Others
      BY <2>1, <2>3 DEF Arrive, where, guard, store, Others
    <3> QED
      BY <3>1, Onward
  <2> QED
    BY <2>2, <2>3
<1>2. CASE \E r \in Requests : SetNX(r)
  <2>1. PICK r \in Requests : SetNX(r)
    BY <1>2
  <2>2. CASE lock[ns[r]] = None
    BY <2>1, <2>2, Locking DEF SetNX, where, store
  <2>3. CASE lock[ns[r]] # None
    BY <2>1, <2>3, Onward DEF SetNX, where, guard, store, Others
  <2> QED
    BY <2>2, <2>3
<1>3. CASE \E r \in Requests : GetHolder(r)
  <2>1. PICK r \in Requests : GetHolder(r)
    BY <1>3
  <2>2. CASE lock[ns[r]] # None
    <3>1. Refuse(r, lock[ns[r]]) /\ pc[r] = "get" /\ UNCHANGED Others
      BY <2>1, <2>2 DEF GetHolder, where, guard, store, Others
    <3>2. /\ lock[ns[r]] \in Requests
          /\ ns[lock[ns[r]]] = ns[r]
          /\ pc[lock[ns[r]]] \notin {"new", "set", "get", "refused"}
      BY <2>2 DEF TypeOK, NoStrayLock
    <3> QED
      BY <3>1, <3>2, Refusal
  <2>3. CASE lock[ns[r]] = None
    BY <2>1, <2>3, Onward DEF GetHolder, where, guard, store, Others
  <2> QED
    BY <2>2, <2>3
<1>4. CASE \E r \in Requests : LockUnavailable(r)
  <2>1. PICK r \in Requests : LockUnavailable(r)
    BY <1>4
  <2>2. CASE UNCHANGED lock
    BY <2>1, <2>2, Onward DEF LockUnavailable, where, store, Others
  <2>3. CASE lock' = [lock EXCEPT ![ns[r]] = r] /\ pc[r] = "set"
    BY <2>1, <2>3, Locking DEF LockUnavailable, where, store
  <2> QED
    BY <2>1, <2>2, <2>3 DEF LockUnavailable
<1> USE NoneAssumption DEF TypeOK, GuardReleased, NoStrayLock, RefusedForARun,
      Labels, Admitted, Executing, Releasing, Ended, where, guard, store
<1>5. CASE \E r \in Requests : Enter(r)
  BY <1>5 DEF Enter, Goto
<1>6. CASE \E r \in Requests : PassGate(r)
  BY <1>6 DEF PassGate, Goto
<1>7. CASE \E r \in Requests : RunSuite(r)
  <2>1. PICK r \in Requests : RunSuite(r)
    BY <1>7
  <2>2. CASE pc' = [pc EXCEPT ![r] = "persist"]
    BY <2>1, <2>2 DEF RunSuite, Goto
  <2>3. CASE pc' = [pc EXCEPT ![r] = "finally"]
    BY <2>1, <2>3 DEF RunSuite, Goto
  <2> QED
    BY <2>1, <2>2, <2>3 DEF RunSuite, Goto
<1>8. CASE \E r \in Requests : InsertRun(r)
  BY <1>8, StampsAssumption DEF InsertRun, Goto
<1>9. CASE \E r \in Requests : PlanRetention(r)
  <2>1. PICK r \in Requests : PlanRetention(r)
    BY <1>9
  <2>2. plan_retention(RowsOf(ns[r]), stamp[r]) \in [del : SUBSET Requests, nul : SUBSET Requests]
    <3>1. RowsOf(ns[r]) \subseteq Requests
      BY DEF RowsOf
    <3> QED
      BY <3>1, PlanTouches
  <2> QED
    BY <2>1, <2>2 DEF PlanRetention, Goto
<1>10. CASE \E r \in Requests : ApplyRetention(r)
  BY <1>10 DEF ApplyRetention, Goto, Nothing
<1>11. CASE \E r \in Requests : PersistFails(r)
  BY <1>11 DEF PersistFails, Goto, Nothing
<1>12. CASE \E r \in Requests : Finally(r)
  BY <1>12 DEF Finally, Goto
<1>13. CASE \E r \in Requests : CompareHolder(r)
  BY <1>13 DEF CompareHolder, Goto
<1>14. CASE \E r \in Requests : DeleteLock(r)
  BY <1>14 DEF DeleteLock, Goto
<1>15. CASE \E r \in Requests : ReleaseFails(r)
  BY <1>15 DEF ReleaseFails, Goto
<1>16. CASE \E n \in Namespaces : Expire(n)
  BY <1>16 DEF Expire
<1>17. CASE \E p \in Pods : Crash(p)
  BY <1>17 DEF Crash
<1>18. CASE UNCHANGED vars
  BY <1>18 DEF vars
<1> QED
  BY <1>1, <1>2, <1>3, <1>4, <1>5, <1>6, <1>7, <1>8, <1>9, <1>10, <1>11, <1>12, <1>13, <1>14, <1>15, <1>16, <1>17, <1>18 DEF Next, Step

-----------------------------------------------------------------------------
\* A step that leaves the table alone and begins no retention keeps what is claimed of the stored runs.
LEMMA StoreIdle ==
    ASSUME StoreInv, UNCHANGED <<ns, rows, detail, stamp>>,
           \A q \in Requests : pc'[q] = "prune" => pc[q] = "prune" /\ plan'[q] = plan[q],
           \A q \in Requests : pc'[q] \in Early => pc[q] \in Early
    PROVE StoreInv'
<1> USE DEF StoreInv
<1>1. FreshInv'
  BY DEF FreshInv, Touched
<1>2. PlanInv'
  BY DEF PlanInv, Touched
<1>3. MaxInv'
  BY DEF MaxInv
<1>4. LatestKeepsDetail'
  BY DEF LatestKeepsDetail, RowsOf, Newest, NewerIn
<1> QED
  BY <1>1, <1>2, <1>3, <1>4

\* Inserting a row keeps what is claimed of the stored runs: the newest row is the one it was, or the new one.
LEMMA StoreInsert ==
    ASSUME TypeOK, TypeOK', StoreInv, NEW r \in Requests, InsertRun(r)
    PROVE StoreInv'
<1> USE DEF StoreInv
<1>1. PICK t \in Nat : stamp' = [stamp EXCEPT ![r] = t]
  BY StampsAssumption DEF InsertRun
<1>2. /\ pc[r] = "persist" /\ pc' = [pc EXCEPT ![r] = "retain"]
      /\ rows' = rows \cup {r} /\ detail' = detail \cup {r}
      /\ ns' = ns /\ plan' = plan
  BY DEF InsertRun, Goto, where
<1>3. r \notin rows /\ \A q \in Requests : pc[q] = "prune" => r \notin Touched(q)
  BY <1>2 DEF FreshInv, Early
<1>4. \A x \in Requests \ {r} : stamp'[x] = stamp[x] /\ pc'[x] = pc[x]
  BY <1>1, <1>2 DEF TypeOK
<1>5. FreshInv'
  BY <1>2, <1>4 DEF FreshInv, Early, Touched, TypeOK
<1>6. PlanInv'
  <2> SUFFICES ASSUME NEW q \in Requests, pc'[q] = "prune", NEW x \in Touched(q)'
               PROVE \E y \in rows' : ns'[y] = ns'[x] /\ stamp'[x] < stamp'[y]
    BY DEF PlanInv
  <2>1. pc[q] = "prune" /\ x \in Touched(q)
    BY <1>2 DEF Touched, TypeOK
  <2>2. PICK y \in rows : ns[y] = ns[x] /\ stamp[x] < stamp[y]
    BY <2>1 DEF PlanInv
  <2>3. x \in Requests \ {r} /\ y \in Requests \ {r}
    BY <1>3, <2>1 DEF Touched, TypeOK
  <2> QED
    BY <1>2, <1>4, <2>2, <2>3
<1>7. MaxInv'
  <2> SUFFICES ASSUME NEW x \in rows'
               PROVE \E y \in rows' : ns'[y] = ns'[x] /\ \A z \in rows' : ns'[z] = ns'[x] => stamp'[z] <= stamp'[y]
    BY DEF MaxInv
  <2>1. CASE \A z \in rows : ns[z] = ns[x] => stamp[z] <= t
    <3>1. CASE ns[r] = ns[x]
      <4>1. stamp'[r] = t /\ r \in rows' /\ ns'[r] = ns'[x]
        BY <1>1, <1>2, <3>1 DEF TypeOK
      <4>2. \A z \in rows' : ns'[z] = ns'[x] => stamp'[z] <= stamp'[r]
        BY <1>2, <1>4, <2>1, <4>1 DEF TypeOK
      <4> QED
        BY <4>1, <4>2
    <3>2. CASE ns[r] # ns[x]
      <4>1. x \in rows
        BY <1>2, <3>2
      <4>2. PICK y \in rows : ns[y] = ns[x] /\ \A z \in rows : ns[z] = ns[x] => stamp[z] <= stamp[y]
        BY <4>1 DEF MaxInv
      <4> QED
        BY <1>2, <1>3, <1>4, <3>2, <4>2 DEF TypeOK
    <3> QED
      BY <3>1, <3>2
  <2>2. CASE \E z \in rows : ns[z] = ns[x] /\ ~ (stamp[z] <= t)
    <3>1. PICK w \in rows : ns[w] = ns[x] /\ ~ (stamp[w] <= t)
      BY <2>2
    <3>2. PICK y \in rows : ns[y] = ns[w] /\ \A z \in rows : ns[z] = ns[w] => stamp[z] <= stamp[y]
      BY DEF MaxInv
    <3>3. t <= stamp[y]
      BY <3>1, <3>2 DEF TypeOK
    <3> QED
      <4>1. stamp'[r] = t /\ stamp'[y] = stamp[y] /\ y \in rows' /\ ns'[y] = ns'[x]
        BY <1>1, <1>2, <1>3, <1>4, <3>1, <3>2 DEF TypeOK
      <4>2. \A z \in rows' : ns'[z] = ns'[x] => stamp'[z] <= stamp'[y]
        BY <1>2, <1>4, <3>1, <3>2, <3>3, <4>1 DEF TypeOK
      <4> QED
        BY <4>1, <4>2
  <2> QED
    BY <2>1, <2>2
<1>8. LatestKeepsDetail'
  <2> SUFFICES ASSUME NEW n \in Namespaces, NEW x \in rows', ns'[x] = n, x # r,
                      \A z \in rows' : ns'[z] = n => ~ (stamp'[z] > stamp'[x])
               PROVE x \in detail'
    BY <1>2 DEF LatestKeepsDetail, RowsOf, Newest, NewerIn
  <2>1. x \in rows /\ ns[x] = n /\ \A z \in rows : ns[z] = n => ~ (stamp[z] > stamp[x])
    BY <1>2, <1>3, <1>4 DEF TypeOK
  <2> QED
    BY <1>2, <2>1 DEF LatestKeepsDetail, RowsOf, Newest, NewerIn
<1> QED
  BY <1>5, <1>6, <1>7, <1>8

\* A retention that has read the table plans to touch rows that have a newer one.
LEMMA StorePlan ==
    ASSUME TypeOK, TypeOK', StoreInv, NEW r \in Requests, PlanRetention(r)
    PROVE StoreInv'
<1> USE DEF StoreInv
<1> DEFINE p == plan_retention(RowsOf(ns[r]), stamp[r])
<1>1. /\ pc[r] = "retain" /\ plan' = [plan EXCEPT ![r] = p]
      /\ pc' = [pc EXCEPT ![r] = IF p = Nothing THEN "finally" ELSE "prune"]
      /\ UNCHANGED <<ns, rows, detail, stamp>>
  BY DEF PlanRetention, Goto, where, store
<1>2. /\ p.del \cup p.nul \subseteq RowsOf(ns[r])
      /\ \A x \in p.del \cup p.nul : \E y \in RowsOf(ns[r]) : stamp[y] > stamp[x]
  BY PlanTouches
<1> HIDE DEF p
<1>3. \A x \in p.del \cup p.nul : x \in rows /\ \E y \in rows : ns[y] = ns[x] /\ stamp[x] < stamp[y]
  BY <1>2 DEF RowsOf, TypeOK
<1>4. Touched(r)' = p.del \cup p.nul
  BY <1>1 DEF Touched, TypeOK
<1>5. \A q \in Requests \ {r} : pc'[q] = pc[q] /\ Touched(q)' = Touched(q)
  BY <1>1 DEF Touched, TypeOK
<1>6. FreshInv'
  BY <1>1, <1>3, <1>4, <1>5 DEF FreshInv, Early, TypeOK
<1>7. PlanInv'
  BY <1>1, <1>3, <1>4, <1>5 DEF PlanInv
<1>8. MaxInv'
  BY <1>1 DEF MaxInv
<1>9. LatestKeepsDetail'
  BY <1>1 DEF LatestKeepsDetail, RowsOf, Newest, NewerIn
<1> QED
  BY <1>6, <1>7, <1>8, <1>9

\* Applying a retention keeps what is claimed of the stored runs: the newest row is not among those it touches.
LEMMA StorePrune ==
    ASSUME TypeOK, TypeOK', StoreInv, NEW r \in Requests, ApplyRetention(r)
    PROVE StoreInv'
<1> USE DEF StoreInv
<1>1. /\ pc[r] = "prune" /\ pc' = [pc EXCEPT ![r] = "finally"]
      /\ rows' = rows \ plan[r].del /\ detail' = detail \ Touched(r)
      /\ plan' = [plan EXCEPT ![r] = Nothing]
      /\ UNCHANGED <<ns, stamp>>
  BY DEF ApplyRetention, Goto, where, Touched
<1>2. \A q \in Requests : pc'[q] = "prune" => pc[q] = "prune" /\ Touched(q)' = Touched(q)
  BY <1>1 DEF Touched, TypeOK
<1>3. ASSUME NEW x \in rows
      PROVE \E y \in rows' : /\ y \notin Touched(r) /\ ns[y] = ns[x]
                            /\ \A z \in rows : ns[z] = ns[x] => stamp[z] <= stamp[y]
  <2>1. PICK y \in rows : ns[y] = ns[x] /\ \A z \in rows : ns[z] = ns[x] => stamp[z] <= stamp[y]
    BY DEF MaxInv
  <2>2. y \notin Touched(r)
    <3> SUFFICES ASSUME y \in Touched(r) PROVE FALSE
      OBVIOUS
    <3>1. PICK w \in rows : ns[w] = ns[y] /\ stamp[y] < stamp[w]
      BY <1>1 DEF PlanInv
    <3> QED
      BY <2>1, <3>1 DEF TypeOK
  <2> QED
    BY <1>1, <2>1, <2>2 DEF Touched
<1>4. FreshInv'
  BY <1>1, <1>2 DEF FreshInv, Early, TypeOK
<1>5. PlanInv'
  <2> SUFFICES ASSUME NEW q \in Requests, pc'[q] = "prune", NEW x \in Touched(q)'
               PROVE \E y \in rows' : ns'[y] = ns'[x] /\ stamp'[x] < stamp'[y]
    BY DEF PlanInv
  <2>1. PICK w \in rows : ns[w] = ns[x] /\ stamp[x] < stamp[w]
    BY <1>2 DEF PlanInv
  <2>2. PICK y \in rows' : ns[y] = ns[w] /\ \A z \in rows : ns[z] = ns[w] => stamp[z] <= stamp[y]
    BY <1>3
  <2>3. x \in Requests /\ y \in Requests
    BY <1>1, <1>2 DEF Touched, TypeOK
  <2> QED
    BY <1>1, <2>1, <2>2, <2>3 DEF TypeOK
<1>6. MaxInv'
  BY <1>1, <1>3 DEF MaxInv
<1>7. LatestKeepsDetail'
  <2> SUFFICES ASSUME NEW n \in Namespaces, NEW x \in rows', ns[x] = n,
                      \A z \in rows' : ns[z] = n => ~ (stamp[z] > stamp[x])
               PROVE x \in detail'
    BY <1>1 DEF LatestKeepsDetail, RowsOf, Newest, NewerIn
  <2>1. x \in rows
    BY <1>1
  <2>2. PICK y \in rows' : ns[y] = n /\ \A z \in rows : ns[z] = n => stamp[z] <= stamp[y]
    BY <1>3, <2>1
  <2>3. \A z \in rows : ns[z] = n => stamp[z] <= stamp[x]
    BY <1>1, <2>1, <2>2 DEF TypeOK
  <2>4. x \in detail
    BY <2>1, <2>3 DEF LatestKeepsDetail, RowsOf, Newest, NewerIn, TypeOK
  <2>5. x \notin Touched(r)
    <3> SUFFICES ASSUME x \in Touched(r) PROVE FALSE
      OBVIOUS
    <3>1. PICK w \in rows : ns[w] = ns[x] /\ stamp[x] < stamp[w]
      BY <1>1 DEF PlanInv
    <3> QED
      BY <2>1, <2>3, <3>1 DEF TypeOK
  <2> QED
    BY <1>1, <2>4, <2>5
<1> QED
  BY <1>4, <1>5, <1>6, <1>7

-----------------------------------------------------------------------------
\* Every step keeps the inductive invariant.
LEMMA Inductive ==
    ASSUME IndInv, [Next]_vars
    PROVE IndInv'
<1> USE DEF IndInv
<1>1. GuardInv'
  BY GuardStep
<1>2. StoreInv'
  <2> USE DEF GuardInv
  <2>1. CASE \E r \in Requests : InsertRun(r)
    BY <1>1, <2>1, StoreInsert
  <2>2. CASE \E r \in Requests : PlanRetention(r)
    BY <1>1, <2>2, StorePlan
  <2>3. CASE \E r \in Requests : ApplyRetention(r)
    BY <1>1, <2>3, StorePrune
  <2>4. CASE \E r \in Requests : PersistFails(r)
    BY <2>4, StoreIdle DEF PersistFails, Goto, TypeOK, Early, where, store
  <2>5. CASE \E r \in Requests : Arrive(r) \/ SetNX(r) \/ GetHolder(r) \/ LockUnavailable(r)
    BY <2>5, StoreIdle DEF Arrive, SetNX, GetHolder, LockUnavailable, Refuse, Goto, TypeOK, Early, where, store
  <2>6. CASE \E r \in Requests : Enter(r) \/ PassGate(r) \/ RunSuite(r)
    BY <2>6, StoreIdle DEF Enter, PassGate, RunSuite, Goto, TypeOK, Early, where, store
  <2>7. CASE \E r \in Requests : Finally(r) \/ CompareHolder(r) \/ DeleteLock(r) \/ ReleaseFails(r)
    BY <2>7, StoreIdle DEF Finally, CompareHolder, DeleteLock, ReleaseFails, Goto, TypeOK, Early, where, store
  <2>8. CASE \E n \in Namespaces : Expire(n)
    BY <2>8, StoreIdle DEF Expire, where, store
  <2>9. CASE \E p \in Pods : Crash(p)
    BY <2>9, StoreIdle DEF Crash, TypeOK, Early, Ended, where, store
  <2>10. CASE UNCHANGED vars
    BY <2>10, StoreIdle DEF vars
  <2> QED
    BY <2>1, <2>2, <2>3, <2>4, <2>5, <2>6, <2>7, <2>8, <2>9, <2>10 DEF Next, Step
<1> QED
  BY <1>1, <1>2

\* The inductive invariant holds in every reachable state.
LEMMA Invariance == Spec => []IndInv
  BY Initial, Inductive, PTL DEF Spec

\* Every reachable state of the red-team suite's guard and store is well typed.
THEOREM TypeCorrect == Spec => []TypeOK
<1>1. IndInv => TypeOK
  BY DEF IndInv, GuardInv
<1> QED
  BY <1>1, Invariance, PTL

\* Whatever fails, an entry of _INFLIGHT_SUITES belongs to a run its pod is executing.
THEOREM GuardIsReleased == Spec => []GuardReleased
<1>1. IndInv => GuardReleased
  BY DEF IndInv, GuardInv
<1> QED
  BY <1>1, Invariance, PTL

\* The Redis lock is never left behind by a request that was refused or has released it.
THEOREM LockIsAccountedFor == Spec => []NoStrayLock
<1>1. IndInv => NoStrayLock
  BY DEF IndInv, GuardInv
<1> QED
  BY <1>1, Invariance, PTL

\* Every 409 names a run that was admitted.
THEOREM RefusalsAreForARun == Spec => []RefusedForARun
<1>1. IndInv => RefusedForARun
  BY DEF IndInv, GuardInv
<1> QED
  BY <1>1, Invariance, PTL

\* The guard of the suites is sound in all three places at once (GuardIsSound).
THEOREM GuardSound == Spec => []GuardIsSound
<1>1. IndInv => GuardIsSound
  BY DEF IndInv, GuardInv, GuardIsSound
<1> QED
  BY <1>1, Invariance, PTL

\* However runs and their retentions overlap, and whatever the windows are, the newest stored run of a
\* namespace keeps its results.
THEOREM LatestIsKept == Spec => []LatestKeepsDetail
<1>1. IndInv => LatestKeepsDetail
  BY DEF IndInv, StoreInv
<1> QED
  BY <1>1, Invariance, PTL

-----------------------------------------------------------------------------
(* The live feed of audit records.                                         *)
CONSTANTS Processes, AuditRecords, Limit, MaxFaults
VARIABLES sockets, queue, seen, out, bus, at, owed, failures

AF == INSTANCE AuditFeed WITH Records <- AuditRecords, open <- sockets, faults <- failures

\* r is in a sequence; nothing is in it twice.
In(r, s) == \E i \in 1 .. Len(s) : s[i] = r
Once(s) == \A i, j \in 1 .. Len(s) : s[i] = s[j] => i = j
\* What the socket of p has got, or will get from its queue.
Line(p) == seen[p] \o queue[p]
\* Redis has r, or will have it, for process p.
Underway(p, r) == r \in out \/ In(r, bus[p])

FeedTypes ==
    /\ queue \in [Processes -> Seq(AuditRecords)] /\ seen \in [Processes -> Seq(AuditRecords)]
    /\ bus \in [Processes -> Seq(AuditRecords)] /\ out \subseteq AuditRecords
    /\ at \in [AuditRecords -> Processes \cup {AF!Nowhere}] /\ owed \in [Processes -> SUBSET AuditRecords]
    /\ failures \in Nat /\ sockets \subseteq Processes

\* A record passes through Redis once, to each process; until it is there it is not in the line of a
\* process that did not publish it.
OnceInv ==
    \A p \in Processes :
        /\ Once(Line(p)) /\ Once(bus[p])
        /\ \A r \in out : ~In(r, bus[p])
        /\ \A r \in AuditRecords : at[r] = AF!Nowhere => ~Underway(p, r) /\ ~In(r, Line(p))
        /\ \A r \in AuditRecords : Underway(p, r) /\ In(r, Line(p)) => at[r] = p

\* What is owed is in the line, or on its way from another process.
OwedInv ==
    failures = 0 =>
        \A p \in Processes : \A r \in owed[p] : In(r, Line(p)) \/ (Underway(p, r) /\ at[r] # p)

FeedInv == FeedTypes /\ OnceInv /\ OwedInv

-----------------------------------------------------------------------------
\* What Append adds to a sequence.
LEMMA Appended ==
    ASSUME NEW S, NEW s \in Seq(S), NEW r \in S
    PROVE  /\ Append(s, r) \in Seq(S) /\ \A x : In(x, Append(s, r)) <=> In(x, s) \/ x = r
           /\ Once(s) /\ ~In(r, s) => Once(Append(s, r))
<1>1. /\ Append(s, r) \in Seq(S) /\ Len(Append(s, r)) = Len(s) + 1 /\ Len(s) \in Nat
      /\ \A i \in 1 .. Len(s) : Append(s, r)[i] = s[i]
      /\ Append(s, r)[Len(s) + 1] = r
  OBVIOUS
<1>2. \A i : i \in 1 .. (Len(s) + 1) <=> i \in 1 .. Len(s) \/ i = Len(s) + 1
  BY <1>1
<1> QED BY <1>1, <1>2 DEF In, Once

\* What Tail takes from a sequence.
LEMMA Tailed ==
    ASSUME NEW S, NEW s \in Seq(S), s # <<>>
    PROVE  /\ Tail(s) \in Seq(S) /\ Head(s) \in S /\ In(Head(s), s) /\ \A x : In(x, s) <=> In(x, Tail(s)) \/ x = Head(s)
           /\ Once(s) => Once(Tail(s)) /\ ~In(Head(s), Tail(s))
<1>1. /\ Tail(s) \in Seq(S) /\ Len(Tail(s)) = Len(s) - 1 /\ Len(s) \in Nat /\ Len(s) >= 1
      /\ \A i \in 1 .. (Len(s) - 1) : Tail(s)[i] = s[i + 1]
      /\ Head(s) = s[1] /\ s[1] \in S
  OBVIOUS
<1>2. \A i : i \in 1 .. Len(s) <=> i = 1 \/ (\E j \in 1 .. (Len(s) - 1) : i = j + 1)
  <2>1. \A i \in 2 .. Len(s) : i - 1 \in 1 .. (Len(s) - 1) /\ i = (i - 1) + 1
    BY <1>1
  <2> QED BY <1>1, <2>1
<1>3. \A j \in 1 .. (Len(s) - 1) : j + 1 \in 1 .. Len(s) /\ j + 1 # 1
  BY <1>1
<1>4. \A x : In(x, s) <=> In(x, Tail(s)) \/ x = Head(s)
  BY <1>1, <1>2 DEF In
<1>5. ASSUME Once(s) PROVE Once(Tail(s))
  BY <1>1, <1>3, <1>5 DEF Once
<1>6. ASSUME Once(s) PROVE ~In(Head(s), Tail(s))
  BY <1>1, <1>3, <1>6 DEF Once, In
<1> QED BY <1>1, <1>4, <1>5, <1>6

\* Appending to the second part appends to the whole.
LEMMA ConcatAppend ==
    ASSUME NEW S, NEW s \in Seq(S), NEW q \in Seq(S), NEW r \in S PROVE s \o Append(q, r) = Append(s \o q, r)
  OBVIOUS

\* What moves from the head of the second part to the end of the first leaves the whole.
LEMMA ConcatTail ==
    ASSUME NEW S, NEW s \in Seq(S), NEW q \in Seq(S), q # <<>> PROVE Append(s, Head(q)) \o Tail(q) = s \o q
  OBVIOUS

\* What is in a sequence of two parts is in one of them.
LEMMA Lined ==
    ASSUME NEW S, NEW s \in Seq(S), NEW q \in Seq(S)
    PROVE  /\ s \o q \in Seq(S) /\ \A x : In(x, s \o q) <=> In(x, s) \/ In(x, q)
           /\ <<>> \o <<>> = <<>> /\ \A x : ~In(x, <<>>)
<1>1. s \o q \in Seq(S)
  OBVIOUS
<1>3. \A x : In(x, s \o q) <=> In(x, s) \/ In(x, q)
  <2>1. /\ Len(s \o q) = Len(s) + Len(q) /\ Len(s) \in Nat /\ Len(q) \in Nat
        /\ \A i \in 1 .. Len(s) : (s \o q)[i] = s[i] /\ \A j \in 1 .. Len(q) : (s \o q)[Len(s) + j] = q[j]
    OBVIOUS
  <2>2. \A j \in 1 .. Len(q) : (s \o q)[Len(s) + j] = q[j]
    OBVIOUS
  <2>3. ASSUME NEW i \in 1 .. (Len(s) + Len(q)), i \notin 1 .. Len(s) PROVE \E j \in 1 .. Len(q) : i = Len(s) + j
    <3>1. i - Len(s) \in 1 .. Len(q) /\ i = Len(s) + (i - Len(s))
      BY <2>1, <2>3
    <3> QED BY <3>1
  <2>4. (\A i \in 1 .. Len(s) : i \in 1 .. (Len(s) + Len(q))) /\ (\A j \in 1 .. Len(q) : Len(s) + j \in 1 .. (Len(s) + Len(q)))
    BY <2>1
  <2>5. ASSUME NEW x, In(x, s \o q) PROVE In(x, s) \/ In(x, q)
    <3>1. PICK i \in 1 .. (Len(s) + Len(q)) : (s \o q)[i] = x
      BY <2>1, <2>5 DEF In
    <3>2. CASE i \in 1 .. Len(s)
      BY <2>1, <3>1, <3>2 DEF In
    <3>3. CASE i \notin 1 .. Len(s)
      <4>1. PICK j \in 1 .. Len(q) : i = Len(s) + j
        BY <2>3, <3>3
      <4> QED BY <2>2, <3>1, <4>1 DEF In
    <3> QED BY <3>2, <3>3
  <2>6. ASSUME NEW x, In(x, s) PROVE In(x, s \o q)
    BY <2>1, <2>4, <2>6 DEF In
  <2>7. ASSUME NEW x, In(x, q) PROVE In(x, s \o q)
    <3>1. PICK j \in 1 .. Len(q) : q[j] = x
      BY <2>7 DEF In
    <3>2. Len(s) + j \in 1 .. Len(s \o q) /\ (s \o q)[Len(s) + j] = x
      BY <2>1, <2>2, <2>4, <3>1
    <3> QED BY <3>2 DEF In
  <2> QED BY <2>5, <2>6, <2>7
<1>4. <<>> \o <<>> = <<>> /\ \A x : ~In(x, <<>>)
  BY DEF In
<1> QED BY <1>1, <1>3, <1>4

-----------------------------------------------------------------------------
\* What a step does to lines and buses is all that the invariant sees of it.
LEMMA FeedInit == AF!Init => FeedInv
<1> SUFFICES ASSUME AF!Init PROVE FeedInv
  OBVIOUS
<1>1. FeedTypes
  BY DEF AF!Init, FeedTypes
<1>2. \A p \in Processes : Line(p) = <<>> /\ bus[p] = <<>> /\ owed[p] = {}
  BY DEF AF!Init, Line
<1>3. out = {} /\ \A x : ~In(x, <<>>)
  BY DEF AF!Init, In
<1>4. Once(<<>>)
  BY DEF Once
<1>5. OnceInv
  BY <1>2, <1>3, <1>4 DEF OnceInv, Underway
<1>6. OwedInv
  BY <1>2 DEF OwedInv
<1> QED BY <1>1, <1>5, <1>6 DEF FeedInv

\* A line is a sequence of records.
LEMMA LineType == ASSUME FeedTypes, NEW p \in Processes PROVE Line(p) \in Seq(AuditRecords)
  BY Lined DEF FeedTypes, Line

\* A record is put in a line, unless the queue is full.
LEMMA PutInLine ==
    ASSUME FeedTypes, NEW p \in Processes, NEW r \in AuditRecords, queue' = [queue EXCEPT ![p] = AF!Put(p, r)], UNCHANGED seen
    PROVE  /\ queue' \in [Processes -> Seq(AuditRecords)]
           /\ \A q \in Processes \ {p} : Line(q)' = Line(q)
           /\ \/ /\ p \in sockets /\ Len(queue[p]) < Limit
                 /\ Line(p)' = Append(Line(p), r)
              \/ ~(p \in sockets /\ Len(queue[p]) < Limit) /\ Line(p)' = Line(p)
<1>1. seen[p] \in Seq(AuditRecords) /\ queue[p] \in Seq(AuditRecords) /\ Append(queue[p], r) \in Seq(AuditRecords)
  BY Appended DEF FeedTypes
<1>2. seen[p] \o Append(queue[p], r) = Append(seen[p] \o queue[p], r)
  <2>1. \A s, q \in Seq(AuditRecords) : s \o Append(q, r) = Append(s \o q, r)
    BY ConcatAppend
  <2>2. seen[p] \in Seq(AuditRecords) /\ queue[p] \in Seq(AuditRecords)
    BY <1>1
  <2> QED BY <2>1, <2>2, Zenon
<1>3. queue'[p] = AF!Put(p, r) /\ \A q \in Processes \ {p} : queue'[q] = queue[q]
  BY DEF FeedTypes
<1>4. queue' \in [Processes -> Seq(AuditRecords)]
  BY <1>1 DEF FeedTypes, AF!Put
<1>5. CASE p \in sockets /\ Len(queue[p]) < Limit
  BY <1>2, <1>3, <1>4, <1>5 DEF AF!Put, Line
<1>6. CASE ~(p \in sockets /\ Len(queue[p]) < Limit)
  BY <1>3, <1>4, <1>6 DEF AF!Put, Line
<1> QED BY <1>5, <1>6

\* A process publishes a record: its own socket gets it at once, the others through Redis.
LEMMA PublishStep ==
    ASSUME AF!Nowhere \notin Processes, FeedInv, NEW p \in Processes, NEW r \in AuditRecords, AF!Publish(p, r) PROVE FeedInv'
<1>1. /\ at[r] = AF!Nowhere /\ at' = [at EXCEPT ![r] = p] /\ out' = out \cup {r} /\ UNCHANGED <<sockets, seen, bus, failures>>
      /\ queue' = [queue EXCEPT ![p] = AF!Put(p, r)]
      /\ owed' = [q \in Processes |-> IF q = p THEN AF!Owe(q, r) ELSE IF q \in sockets THEN owed[q] \cup {r} ELSE owed[q]]
  BY DEF AF!Publish
<1>2. FeedTypes
  BY DEF FeedInv
<1>3. /\ queue' \in [Processes -> Seq(AuditRecords)]
      /\ \A q \in Processes \ {p} : Line(q)' = Line(q)
      /\ \/ /\ p \in sockets /\ Len(queue[p]) < Limit
            /\ Line(p)' = Append(Line(p), r)
         \/ ~(p \in sockets /\ Len(queue[p]) < Limit) /\ Line(p)' = Line(p)
  BY <1>1, <1>2, PutInLine
<1>4. FeedTypes'
  BY <1>1, <1>2, <1>3 DEF FeedTypes, AF!Owe
<1>5. \A q \in Processes : ~Underway(q, r) /\ ~In(r, Line(q))
  BY <1>1 DEF FeedInv, OnceInv
<1>6. \A q \in Processes : Line(q) \in Seq(AuditRecords)
  BY <1>2, LineType
<1>7. \A q \in Processes, x \in AuditRecords :
         /\ Underway(q, x)' <=> Underway(q, x) \/ x = r
         /\ In(x, Line(q))' => In(x, Line(q)) \/ (x = r /\ q = p)
         /\ In(x, Line(q)) => In(x, Line(q))'
  <2>1. /\ \A x : In(x, Append(Line(p), r)) <=> In(x, Line(p)) \/ x = r
        /\ Once(Line(p)) /\ ~In(r, Line(p)) => Once(Append(Line(p), r))
    BY <1>6, Appended
  <2>2. \A q \in Processes, x \in AuditRecords : Underway(q, x)' <=> Underway(q, x) \/ x = r
    BY <1>1 DEF Underway
  <2>3. \A x \in AuditRecords : (In(x, Line(p))' => In(x, Line(p)) \/ x = r) /\ (In(x, Line(p)) => In(x, Line(p))')
    BY <1>3, <2>1
  <2>4. \A q \in Processes \ {p}, x \in AuditRecords : In(x, Line(q))' <=> In(x, Line(q))
    BY <1>3
  <2> QED BY <2>2, <2>3, <2>4
<1>8. \A q \in Processes : Once(Line(q))'
  <2>1. Once(Line(p)) /\ ~In(r, Line(p)) => Once(Append(Line(p), r))
    BY <1>6, Appended
  <2>2. Once(Line(p))'
    BY <1>3, <1>5, <2>1 DEF FeedInv, OnceInv
  <2>3. \A q \in Processes \ {p} : Once(Line(q))'
    BY <1>3 DEF FeedInv, OnceInv
  <2> QED BY <2>2, <2>3
<1>9. at'[r] = p /\ \A x \in AuditRecords \ {r} : at'[x] = at[x]
  BY <1>1, <1>2 DEF FeedTypes
<1>10. OnceInv'
  <2> SUFFICES ASSUME NEW q \in Processes
               PROVE  /\ Once(Line(q))' /\ Once(bus'[q])
                      /\ \A x \in out' : ~In(x, bus'[q])
                      /\ \A x \in AuditRecords : at'[x] = AF!Nowhere => ~Underway(q, x)' /\ ~In(x, Line(q))'
                      /\ \A x \in AuditRecords : Underway(q, x)' /\ In(x, Line(q))' => at'[x] = q
    BY DEF OnceInv
  <2>1. Once(bus'[q]) /\ \A x \in out' : ~In(x, bus'[q])
    BY <1>1, <1>5 DEF FeedInv, OnceInv, Underway
  <2>2. \A x \in AuditRecords : at'[x] = AF!Nowhere => ~Underway(q, x)' /\ ~In(x, Line(q))'
    BY <1>7, <1>9 DEF FeedInv, OnceInv
  <2>3. \A x \in AuditRecords : Underway(q, x)' /\ In(x, Line(q))' => at'[x] = q
    BY <1>5, <1>7, <1>9 DEF FeedInv, OnceInv
  <2> QED BY <1>8, <2>1, <2>2, <2>3
<1>11. OwedInv'
  <2> SUFFICES ASSUME failures' = 0, NEW q \in Processes, NEW x \in owed'[q]
               PROVE  In(x, Line(q))' \/ (Underway(q, x)' /\ at'[x] # q)
    BY DEF OwedInv
  <2>1. x \in AuditRecords
    BY <1>4 DEF FeedTypes
  <2>2. CASE x \in owed[q] /\ x # r
    <3>1. In(x, Line(q)) \/ (Underway(q, x) /\ at[x] # q)
      BY <1>1, <2>2 DEF FeedInv, OwedInv
    <3> QED BY <1>7, <1>9, <2>1, <2>2, <3>1
  <2>3. CASE x = r /\ q # p
    BY <1>7, <1>9, <2>1, <2>3
  <2>4. CASE x = r /\ q = p
    <3>1. p \in sockets /\ Len(queue[p]) < Limit
      BY <1>1, <2>4 DEF AF!Owe
    <3>2. Line(p)' = Append(Line(p), r)
      BY <1>3, <3>1
    <3> QED BY <1>6, <2>4, <3>2, Appended
  <2>5. x \in owed[q] \/ x = r
    BY <1>1 DEF AF!Owe
  <2> QED BY <2>2, <2>3, <2>4, <2>5
<1> QED BY <1>4, <1>10, <1>11 DEF FeedInv

\* Redis takes a record, for everyone, or the publication fails.
LEMMA RelayStep ==
    ASSUME FeedInv, NEW r \in AuditRecords, AF!Relay(r) PROVE FeedInv'
<1>1. r \in out /\ out' = out \ {r} /\ bus' = [q \in Processes |-> Append(bus[q], r)] /\ UNCHANGED <<sockets, queue, seen, at, owed, failures>>
  BY DEF AF!Relay
<1>2. FeedTypes /\ \A q \in Processes : bus[q] \in Seq(AuditRecords)
  BY DEF FeedInv, FeedTypes
<1>3. \A q \in Processes : /\ Append(bus[q], r) \in Seq(AuditRecords)
                           /\ \A x : In(x, Append(bus[q], r)) <=> In(x, bus[q]) \/ x = r
                           /\ Once(bus[q]) /\ ~In(r, bus[q]) => Once(Append(bus[q], r))
  BY <1>2, Appended
<1>4. FeedTypes'
  BY <1>1, <1>2, <1>3 DEF FeedTypes
<1>5. \A q \in Processes : Line(q)' = Line(q) /\ bus'[q] = Append(bus[q], r)
  BY <1>1 DEF Line
<1>6. \A q \in Processes, x \in AuditRecords : Underway(q, x)' <=> Underway(q, x)
  BY <1>1, <1>3, <1>5 DEF Underway
<1>7. \A q \in Processes : Once(bus'[q]) /\ \A x \in out' : ~In(x, bus'[q])
  BY <1>1, <1>3, <1>5 DEF FeedInv, OnceInv
<1>8. OnceInv'
  BY <1>1, <1>5, <1>6, <1>7 DEF FeedInv, OnceInv
<1>9. OwedInv'
  <2>1. \A q \in Processes : \A x \in owed[q] : x \in AuditRecords
    BY <1>2 DEF FeedTypes
  <2> QED BY <1>1, <1>5, <1>6, <2>1 DEF FeedInv, OwedInv
<1> QED BY <1>4, <1>8, <1>9 DEF FeedInv

\* Something is lost on the way, and that is on record.
LEMMA LossStep ==
    ASSUME FeedInv, failures' = failures + 1, out' \subseteq out, bus' \in [Processes -> Seq(AuditRecords)],
           \A q \in Processes : bus'[q] \in {bus[q], <<>>}, UNCHANGED <<sockets, queue, seen, at, owed>>
    PROVE  FeedInv'
<1>1. FeedTypes'
  BY DEF FeedInv, FeedTypes
<1>2. \A q \in Processes : Line(q)' = Line(q)
  BY DEF Line
<1>3. Once(<<>>) /\ \A x : ~In(x, <<>>)
  BY DEF Once, In
<1>4. \A q \in Processes, x \in AuditRecords : Underway(q, x)' => Underway(q, x)
  BY <1>3 DEF Underway
<1>5. \A q \in Processes : Once(bus'[q]) /\ \A x \in out' : ~In(x, bus'[q])
  BY <1>3 DEF FeedInv, OnceInv
<1>6. OnceInv'
  BY <1>2, <1>4, <1>5 DEF FeedInv, OnceInv
<1>7. OwedInv'
  BY DEF FeedInv, FeedTypes, OwedInv
<1> QED BY <1>1, <1>6, <1>7 DEF FeedInv

\* A process takes a record from Redis; its own it has already.
LEMMA DeliverStep ==
    ASSUME FeedInv, NEW p \in Processes, AF!Deliver(p) PROVE FeedInv'
<1> DEFINE h == Head(bus[p])
<1>1. FeedTypes /\ bus[p] \in Seq(AuditRecords) /\ bus[p] # <<>>
  BY DEF FeedInv, FeedTypes, AF!Deliver
<1>2. /\ Tail(bus[p]) \in Seq(AuditRecords) /\ h \in AuditRecords /\ In(h, bus[p])
      /\ \A x : In(x, bus[p]) <=> In(x, Tail(bus[p])) \/ x = h
      /\ Once(bus[p]) => Once(Tail(bus[p])) /\ ~In(h, Tail(bus[p]))
  BY <1>1, Tailed
<1>3. PICK r \in AuditRecords : r = h
  BY <1>2
<1> HIDE DEF h
<1>4. /\ bus' = [bus EXCEPT ![p] = Tail(@)] /\ UNCHANGED <<sockets, seen, out, at, failures>>
      /\ \/ at[r] = p /\ UNCHANGED <<queue, owed>>
         \/ at[r] # p /\ queue' = [queue EXCEPT ![p] = AF!Put(p, r)] /\ owed' = [owed EXCEPT ![p] = AF!Owe(p, r)]
  BY <1>3 DEF AF!Deliver, AF!Echo, h
<1>5. bus'[p] = Tail(bus[p]) /\ bus' \in [Processes -> Seq(AuditRecords)] /\ \A q \in Processes \ {p} : bus'[q] = bus[q]
  BY <1>1, <1>2, <1>4 DEF FeedTypes
<1>6. Underway(p, r) /\ r \notin out
  BY <1>2, <1>3 DEF Underway, FeedInv, OnceInv
<1>7. /\ \A q \in Processes \ {p}, x \in AuditRecords : Underway(q, x)' <=> Underway(q, x)
      /\ \A x \in AuditRecords : Underway(p, x) <=> Underway(p, x)' \/ x = r
      /\ ~Underway(p, r)'
  <2>1. \A q \in Processes \ {p}, x \in AuditRecords : Underway(q, x)' <=> Underway(q, x)
    BY <1>4, <1>5 DEF Underway
  <2>2. \A x \in AuditRecords : Underway(p, x) <=> Underway(p, x)' \/ x = r
    BY <1>2, <1>3, <1>4, <1>5 DEF Underway
  <2>3. ~Underway(p, r)'
    BY <1>2, <1>3, <1>4, <1>5, <1>6 DEF Underway, FeedInv, OnceInv
  <2> QED BY <2>1, <2>2, <2>3
<1>8. \A q \in Processes : Once(bus'[q]) /\ \A x \in out' : ~In(x, bus'[q])
  BY <1>2, <1>4, <1>5 DEF FeedInv, OnceInv
<1>9. CASE at[r] = p /\ UNCHANGED <<queue, owed>>
  <2>1. FeedTypes'
    BY <1>1, <1>4, <1>5, <1>9 DEF FeedTypes
  <2>2. \A q \in Processes : Line(q)' = Line(q)
    BY <1>4, <1>9 DEF Line
  <2>3. OnceInv'
    BY <1>4, <1>7, <1>8, <2>2 DEF FeedInv, OnceInv
  <2>4. OwedInv'
    <3> SUFFICES ASSUME failures' = 0, NEW q \in Processes, NEW x \in owed'[q]
                 PROVE  In(x, Line(q))' \/ (Underway(q, x)' /\ at'[x] # q)
      BY DEF OwedInv
    <3>1. x \in owed[q] /\ x \in AuditRecords
      BY <1>9, <2>1 DEF FeedTypes
    <3>2. In(x, Line(q)) \/ (Underway(q, x) /\ at[x] # q)
      BY <1>4, <3>1 DEF FeedInv, OwedInv
    <3> QED BY <1>4, <1>7, <1>9, <2>2, <3>1, <3>2
  <2> QED BY <2>1, <2>3, <2>4 DEF FeedInv
<1>10. CASE at[r] # p /\ queue' = [queue EXCEPT ![p] = AF!Put(p, r)] /\ owed' = [owed EXCEPT ![p] = AF!Owe(p, r)]
  <2>1. /\ queue' \in [Processes -> Seq(AuditRecords)]
        /\ \A q \in Processes \ {p} : Line(q)' = Line(q)
        /\ \/ /\ p \in sockets /\ Len(queue[p]) < Limit
              /\ Line(p)' = Append(Line(p), r)
           \/ ~(p \in sockets /\ Len(queue[p]) < Limit) /\ Line(p)' = Line(p)
    BY <1>1, <1>4, <1>10, PutInLine
  <2>2. FeedTypes'
    BY <1>1, <1>4, <1>5, <1>10, <2>1 DEF FeedTypes, AF!Owe
  <2>3. ~In(r, Line(p)) /\ Line(p) \in Seq(AuditRecords)
    BY <1>1, <1>6, <1>10, LineType DEF FeedInv, OnceInv
  <2>4. /\ \A x : In(x, Append(Line(p), r)) <=> In(x, Line(p)) \/ x = r
        /\ Once(Line(p)) => Once(Append(Line(p), r))
    BY <2>3, Appended
  <2>5. \A x \in AuditRecords : (In(x, Line(p))' => In(x, Line(p)) \/ x = r) /\ (In(x, Line(p)) => In(x, Line(p))')
    BY <2>1, <2>4
  <2>6. \A q \in Processes : Once(Line(q))'
    <3>1. Once(Line(p))'
      BY <2>1, <2>4 DEF FeedInv, OnceInv
    <3>2. \A q \in Processes \ {p} : Once(Line(q))'
      BY <2>1 DEF FeedInv, OnceInv
    <3> QED BY <3>1, <3>2
  <2>7. \A q \in Processes, x \in AuditRecords :
           /\ at[x] = AF!Nowhere => ~Underway(q, x)' /\ ~In(x, Line(q))'
           /\ Underway(q, x)' /\ In(x, Line(q))' => at[x] = q
    <3>1. at[r] # AF!Nowhere
      BY <1>6 DEF FeedInv, OnceInv
    <3>2. \A x \in AuditRecords : /\ at[x] = AF!Nowhere => ~Underway(p, x)' /\ ~In(x, Line(p))'
                                  /\ Underway(p, x)' /\ In(x, Line(p))' => at[x] = p
      BY <1>7, <2>5, <3>1 DEF FeedInv, OnceInv
    <3>3. \A q \in Processes \ {p}, x \in AuditRecords :
             /\ at[x] = AF!Nowhere => ~Underway(q, x)' /\ ~In(x, Line(q))'
             /\ Underway(q, x)' /\ In(x, Line(q))' => at[x] = q
      BY <1>7, <2>1 DEF FeedInv, OnceInv
    <3> QED BY <3>2, <3>3
  <2>8. OnceInv'
    BY <1>4, <1>8, <2>6, <2>7 DEF OnceInv
  <2>9. OwedInv'
    <3> SUFFICES ASSUME failures' = 0, NEW q \in Processes, NEW x \in owed'[q]
                 PROVE  In(x, Line(q))' \/ (Underway(q, x)' /\ at'[x] # q)
      BY DEF OwedInv
    <3>1. x \in AuditRecords
      BY <2>2 DEF FeedTypes
    <3>2. CASE q # p
      <4>1. x \in owed[q]
        BY <1>1, <1>10, <3>2 DEF FeedTypes
      <4>2. In(x, Line(q)) \/ (Underway(q, x) /\ at[x] # q)
        BY <1>4, <4>1 DEF FeedInv, OwedInv
      <4> QED BY <1>4, <1>7, <2>1, <3>1, <3>2, <4>2
    <3>3. CASE q = p /\ x # r
      <4>1. x \in owed[p]
        BY <1>1, <1>10, <3>3 DEF FeedTypes, AF!Owe
      <4>2. In(x, Line(p)) \/ (Underway(p, x) /\ at[x] # p)
        BY <1>4, <4>1 DEF FeedInv, OwedInv
      <4> QED BY <1>4, <1>7, <2>5, <3>1, <3>3, <4>2
    <3>4. CASE q = p /\ x = r
      <4>1. p \in sockets /\ Len(queue[p]) < Limit
        BY <1>1, <1>10, <3>4 DEF FeedTypes, AF!Owe
      <4> QED BY <2>1, <2>4, <3>4, <4>1
    <3> QED BY <3>2, <3>3, <3>4
  <2> QED BY <2>2, <2>8, <2>9 DEF FeedInv
<1> QED BY <1>4, <1>9, <1>10

\* Sockets open and close, and get what is in their queues.
LEMMA SocketStep ==
    ASSUME FeedInv, NEW p \in Processes, AF!Open(p) \/ AF!Close(p) \/ AF!Send(p) PROVE FeedInv'
<1>0. UNCHANGED <<out, bus, at, failures>>
  BY DEF AF!Open, AF!Close, AF!Send
<1>1. CASE AF!Open(p)
  <2>1. UNCHANGED <<queue, seen, owed>> /\ sockets' \subseteq Processes
    BY <1>1 DEF AF!Open, FeedInv, FeedTypes
  <2> QED BY <1>0, <2>1 DEF FeedInv, FeedTypes, OnceInv, OwedInv, Line, Underway
<1>2. CASE AF!Send(p)
  <2>1. FeedTypes /\ seen[p] \in Seq(AuditRecords) /\ queue[p] \in Seq(AuditRecords) /\ queue[p] # <<>>
    BY <1>2 DEF AF!Send, FeedInv, FeedTypes
  <2>2. /\ Tail(queue[p]) \in Seq(AuditRecords) /\ Append(seen[p], Head(queue[p])) \in Seq(AuditRecords)
        /\ Append(seen[p], Head(queue[p])) \o Tail(queue[p]) = seen[p] \o queue[p]
    <3>1. Tail(queue[p]) \in Seq(AuditRecords) /\ Head(queue[p]) \in AuditRecords
      BY <2>1, Tailed
    <3>2. Append(seen[p], Head(queue[p])) \in Seq(AuditRecords)
      BY <2>1, <3>1, Appended
    <3>3. Append(seen[p], Head(queue[p])) \o Tail(queue[p]) = seen[p] \o queue[p]
      BY <2>1, ConcatTail, Zenon
    <3> QED BY <3>1, <3>2, <3>3
  <2>3. /\ seen' = [seen EXCEPT ![p] = Append(@, Head(queue[p]))] /\ queue' = [queue EXCEPT ![p] = Tail(@)]
        /\ UNCHANGED <<sockets, owed>>
    BY <1>2 DEF AF!Send
  <2>4. FeedTypes'
    BY <1>0, <2>1, <2>2, <2>3 DEF FeedTypes
  <2>5. \A q \in Processes : Line(q)' = Line(q)
    BY <2>1, <2>2, <2>3 DEF FeedTypes, Line
  <2> QED BY <1>0, <2>3, <2>4, <2>5 DEF FeedInv, OnceInv, OwedInv, Underway
<1>3. CASE AF!Close(p)
  <2>1. /\ sockets' \subseteq sockets /\ queue' = [queue EXCEPT ![p] = <<>>] /\ seen' = [seen EXCEPT ![p] = <<>>]
        /\ owed' = [owed EXCEPT ![p] = {}]
    BY <1>3 DEF AF!Close
  <2>2. FeedTypes /\ <<>> \in Seq(AuditRecords)
    BY DEF FeedInv
  <2>3. FeedTypes'
    BY <1>0, <2>1, <2>2 DEF FeedTypes
  <2>4. Line(p)' = <<>> /\ \A q \in Processes \ {p} : Line(q)' = Line(q) /\ owed'[q] = owed[q]
    BY <2>1, <2>2 DEF FeedTypes, Line
  <2>5. owed'[p] = {} /\ Once(<<>>) /\ \A x : ~In(x, <<>>)
    BY <2>1, <2>2 DEF FeedTypes, Once, In
  <2>6. OnceInv'
    BY <1>0, <2>4, <2>5 DEF FeedInv, OnceInv, Underway
  <2>7. OwedInv'
    BY <1>0, <2>4, <2>5 DEF FeedInv, OwedInv, Underway
  <2> QED BY <2>3, <2>6, <2>7 DEF FeedInv
<1> QED BY <1>1, <1>2, <1>3

\* Every step keeps the invariant.
LEMMA FeedStep == ASSUME AF!Nowhere \notin Processes PROVE FeedInv /\ [AF!Next]_(AF!vars) => FeedInv'
<1> SUFFICES ASSUME FeedInv, [AF!Next]_(AF!vars) PROVE FeedInv'
  OBVIOUS
<1>0. bus \in [Processes -> Seq(AuditRecords)] /\ <<>> \in Seq(AuditRecords)
  BY DEF FeedInv, FeedTypes
<1>1. ASSUME NEW r \in AuditRecords, AF!RelayFails(r) PROVE FeedInv'
  BY <1>0, <1>1, LossStep DEF AF!RelayFails, AF!Fault
<1>2. ASSUME NEW p \in Processes, AF!Disconnect(p) PROVE FeedInv'
  BY <1>0, <1>2, LossStep DEF AF!Disconnect, AF!Fault
<1>3. CASE UNCHANGED AF!vars
  BY <1>3 DEF AF!vars, FeedInv, FeedTypes, OnceInv, OwedInv, Line, Underway
<1> QED BY <1>1, <1>2, <1>3, PublishStep, RelayStep, DeliverStep, SocketStep DEF AF!Next

(* A dashboard's socket gets no record twice, and while Redis loses        *)
(* nothing it gets, or has coming, every record published since it opened  *)
(* that its queue had room for: for any number of processes and records,   *)
(* although a record reaches the socket's process directly or through      *)
(* Redis, which echoes it to its publisher (AuditHub).                     *)
THEOREM FeedHolds ==
    ASSUME AF!Nowhere \notin Processes PROVE AF!Spec => [](AF!NoneTwice /\ AF!OwedIsComing)
<1>1. FeedInv => AF!NoneTwice /\ AF!OwedIsComing
  <2> SUFFICES ASSUME FeedInv PROVE AF!NoneTwice /\ AF!OwedIsComing
    OBVIOUS
  <2>1. ASSUME NEW p \in Processes
        PROVE  /\ seen[p] \in Seq(AuditRecords) /\ queue[p] \in Seq(AuditRecords) /\ bus[p] \in Seq(AuditRecords)
               /\ Line(p) \in Seq(AuditRecords) /\ DOMAIN Line(p) = 1 .. Len(Line(p))
               /\ DOMAIN seen[p] = 1 .. Len(seen[p]) /\ DOMAIN queue[p] = 1 .. Len(queue[p]) /\ DOMAIN bus[p] = 1 .. Len(bus[p])
    BY LineType DEF FeedInv, FeedTypes
  <2>2. AF!NoneTwice
    BY <2>1 DEF FeedInv, OnceInv, Once, Line, AF!NoneTwice
  <2>3. AF!OwedIsComing
    <3> SUFFICES ASSUME failures = 0, NEW p \in sockets, NEW r \in owed[p] PROVE r \in AF!Held(p) \/ r \in AF!Coming(p)
      BY DEF AF!OwedIsComing
    <3>1. p \in Processes /\ r \in AuditRecords
      BY DEF FeedInv, FeedTypes
    <3>2. In(r, Line(p)) \/ Underway(p, r)
      BY <3>1 DEF FeedInv, OwedInv
    <3>3. In(r, Line(p)) => In(r, seen[p]) \/ In(r, queue[p])
      BY <2>1, <3>1, Lined DEF Line
    <3>4. In(r, seen[p]) \/ In(r, queue[p]) => r \in AF!Held(p)
      BY <2>1, <3>1 DEF In, AF!Held, AF!ToSet
    <3>5. Underway(p, r) => r \in AF!Coming(p)
      BY <2>1, <3>1 DEF Underway, In, AF!Coming
    <3> QED BY <3>2, <3>3, <3>4, <3>5
  <2> QED BY <2>2, <2>3
<1> QED BY <1>1, FeedInit, FeedStep, PTL DEF AF!Spec

-----------------------------------------------------------------------------
(* The Secret of a sidecar's token.                                        *)
CONSTANTS Admissions, Workloads, Required
VARIABLES admissions, secrets, lastError, overlapped, writer

SE == INSTANCE SidecarSecret WITH Requests <- Admissions, requests <- admissions

Admission == [step : SE!Steps, dry : BOOLEAN, workload : Workloads, env : {"none", "absent", "literal", "ref"}]

\* Admissions that run together are on record as overlapping.
MetInv == \A r, o \in Admissions : r # o /\ SE!Running(r) /\ SE!Running(o) => r \in overlapped
\* What is referred to, or about to be, is there.
WrittenInv ==
    \A r \in Admissions :
        ~admissions[r].dry /\ (admissions[r].step = "written" \/ admissions[r].env = "ref")
           => admissions[r].workload \in DOMAIN secrets
\* The error that an admission on its own will look at is its own, and only a writer leaves one.
ErrorInv ==
    /\ lastError => writer
    /\ \A r \in Admissions :
        /\ admissions[r].step \in {"check", "admitted", "refused"} <=> admissions[r].env # "none"
        /\ admissions[r].step \in {"create", "update", "failed", "written"} => writer
        /\ r \notin overlapped /\ admissions[r].step = "check" /\ writer /\ admissions[r].env # "absent" =>
              (lastError <=> admissions[r].env = "literal")

SecretInv ==
    /\ admissions \in [Admissions -> Admission] /\ lastError \in BOOLEAN /\ writer \in BOOLEAN
    /\ MetInv /\ WrittenInv /\ ErrorInv /\ SE!AloneIsExact

\* Only admission r changes, and becomes x.
Turns(r, x) == admissions' = [o \in Admissions |-> IF o = r THEN x ELSE admissions[o]]

\* No admission has begun.
LEMMA SecretInit == ASSUME Workloads # {} PROVE SE!Init => SecretInv
<1> SUFFICES ASSUME SE!Init PROVE SecretInv
  OBVIOUS
<1>1. (CHOOSE w \in Workloads : TRUE) \in Workloads
  OBVIOUS
<1> DEFINE w0 == CHOOSE w \in Workloads : TRUE
<1>2. admissions = [r \in Admissions |-> [step |-> "idle", dry |-> FALSE, workload |-> w0, env |-> "none"]]
  BY DEF SE!Init
<1> HIDE DEF w0
<1>3. admissions \in [Admissions -> Admission]
  BY <1>1, <1>2 DEF Admission, SE!Steps, w0
<1>4. \A r \in Admissions : admissions[r].step = "idle" /\ admissions[r].env = "none"
  BY <1>2
<1>5. lastError = FALSE /\ writer \in BOOLEAN /\ overlapped = {}
  BY DEF SE!Init
<1> QED BY <1>3, <1>4, <1>5 DEF SecretInv, MetInv, WrittenInv, ErrorInv, SE!AloneIsExact, SE!Running

\* A step of an admission, and what it means for the others.
LEMMA OthersStay ==
    ASSUME SecretInv, NEW r \in Admissions, NEW x \in Admission, Turns(r, x), SE!Running(r), UNCHANGED <<writer, overlapped>>,
           DOMAIN secrets \subseteq DOMAIN secrets', lastError' \in BOOLEAN,
           ~x.dry /\ (x.step = "written" \/ x.env = "ref") => x.workload \in DOMAIN secrets',
           x.step \in {"check", "admitted", "refused"} <=> x.env # "none",
           lastError' => writer, x.step \in {"create", "update", "failed", "written"} => writer,
           r \notin overlapped /\ x.step = "check" /\ writer /\ x.env # "absent" => (lastError' <=> x.env = "literal"),
           r \notin overlapped /\ x.step = "admitted" /\ x.env = "literal" => ~(Required /\ writer),
           r \notin overlapped /\ x.step = "refused" => Required /\ writer /\ x.env \in {"literal", "absent"}
    PROVE  SecretInv'
<1>1. admissions' \in [Admissions -> Admission] /\ admissions'[r] = x /\ \A o \in Admissions : o # r => admissions'[o] = admissions[o]
  BY DEF Turns, SecretInv
<1>2. MetInv'
  BY <1>1 DEF SecretInv, MetInv, SE!Running
<1>3. WrittenInv'
  BY <1>1 DEF SecretInv, WrittenInv
<1>4. ErrorInv'
  <2>1. \A o \in Admissions : o # r /\ o \notin overlapped => ~SE!Running(o)
    BY DEF SecretInv, MetInv
  <2> QED BY <1>1, <2>1 DEF SecretInv, ErrorInv, SE!Running
<1>5. SE!AloneIsExact'
  BY <1>1 DEF SecretInv, SE!AloneIsExact
<1> QED BY <1>1, <1>2, <1>3, <1>4, <1>5 DEF SecretInv

\* An admission goes to its next step, and stays what it is.
LEMMA GoesTo ==
    ASSUME SecretInv, NEW r \in Admissions, NEW s \in SE!Steps, SE!Goes(r, s)
    PROVE  \E x \in Admission : /\ Turns(r, x) /\ x.step = s /\ (x.dry <=> admissions[r].dry)
                                /\ x.workload = admissions[r].workload /\ x.env = admissions[r].env
<1> DEFINE x == [admissions[r] EXCEPT !.step = s]
<1>1. x \in Admission /\ x.step = s /\ (x.dry <=> admissions[r].dry) /\ x.workload = admissions[r].workload /\ x.env = admissions[r].env
  BY DEF SecretInv, Admission
<1>2. Turns(r, x)
  BY DEF SE!Goes, Turns, SecretInv
<1> QED BY <1>1, <1>2

\* An admission decides how its containers get the token.
LEMMA ComesTo ==
    ASSUME SecretInv, NEW r \in Admissions, NEW e \in {"literal", "ref"},
           admissions' = [admissions EXCEPT ![r].step = "check", ![r].env = e]
    PROVE  \E x \in Admission : /\ Turns(r, x) /\ x.step = "check" /\ (x.dry <=> admissions[r].dry)
                                /\ x.workload = admissions[r].workload /\ x.env = e
<1> DEFINE y == [admissions[r] EXCEPT !.step = "check"]
<1>1. y \in Admission /\ y.step = "check" /\ (y.dry <=> admissions[r].dry) /\ y.workload = admissions[r].workload
  BY DEF SecretInv, Admission, SE!Steps
<1>2. Turns(r, [y EXCEPT !.env = e])
  BY DEF Turns, SecretInv
<1> HIDE DEF y
<1> DEFINE z == [y EXCEPT !.env = e]
<1>3. z \in Admission /\ z.step = "check" /\ (z.dry <=> y.dry) /\ z.workload = y.workload /\ z.env = e
  BY <1>1 DEF Admission
<1> QED BY <1>1, <1>2, <1>3

\* Every step of an admission keeps the invariant.
LEMMA SecretStep == SecretInv /\ [SE!Next]_(SE!vars) => SecretInv'
<1> SUFFICES ASSUME SecretInv, [SE!Next]_(SE!vars) PROVE SecretInv'
  OBVIOUS
<1>0. SE!Steps = {"idle", "create", "update", "failed", "written", "check", "admitted", "refused"}
  BY DEF SE!Steps
<1>1. ASSUME NEW r \in Admissions, NEW w \in Workloads, NEW dry \in BOOLEAN, NEW has \in BOOLEAN, SE!Begin(r, w, dry, has)
      PROVE  SecretInv'
  <2> DEFINE s == IF ~writer \/ ~has THEN "check" ELSE IF dry THEN "written" ELSE "create"
             e == IF ~has THEN "absent" ELSE IF ~writer THEN "literal" ELSE "none"
             x == [step |-> s, dry |-> dry, workload |-> w, env |-> e]
  <2>4. x \in Admission /\ x.step = s /\ x.env = e
    BY <1>0 DEF Admission
  <2>5. Turns(r, x)
    BY <1>1 DEF SE!Begin, SecretInv, Turns
  <2>6. /\ s \in {"check", "written", "create"} /\ (s = "check" <=> e # "none") /\ (s # "check" => writer)
        /\ e \in {"none", "absent", "literal"} /\ (e = "literal" => ~writer) /\ (~x.dry => s # "written")
    BY DEF SecretInv
  <2> HIDE DEF x, s, e
  <2>7. /\ admissions' \in [Admissions -> Admission] /\ admissions'[r] = x
        /\ \A o \in Admissions : o # r => admissions'[o] = admissions[o]
    BY <2>4, <2>5 DEF Turns, SecretInv
  <2>8. ~SE!Running(r) /\ UNCHANGED <<writer, secrets, lastError>>
    BY <1>1 DEF SE!Begin, SE!Running
  <2>9. overlapped \subseteq overlapped' /\ \A o \in Admissions : o # r /\ SE!Running(o) => o \in overlapped' /\ r \in overlapped'
    BY <1>1 DEF SE!Begin, SE!Others
  <2>10. MetInv'
    BY <2>7, <2>9 DEF SecretInv, MetInv, SE!Running
  <2>11. WrittenInv'
    BY <2>4, <2>6, <2>7, <2>8 DEF SecretInv, WrittenInv
  <2>12. ErrorInv'
    BY <2>4, <2>6, <2>7, <2>8, <2>9 DEF SecretInv, ErrorInv
  <2>13. SE!AloneIsExact'
    BY <2>4, <2>6, <2>7, <2>8, <2>9 DEF SecretInv, SE!AloneIsExact
  <2> QED BY <2>7, <2>8, <2>10, <2>11, <2>12, <2>13 DEF SecretInv
<1>2. ASSUME NEW r \in Admissions, SE!Create(r) PROVE SecretInv'
  <2>1. SE!Running(r) /\ admissions[r].env = "none" /\ UNCHANGED <<writer, lastError, overlapped>> /\ (lastError => writer) /\ writer
    BY <1>2 DEF SE!Create, SE!Running, SecretInv, ErrorInv, Admission
  <2>2. CASE SE!Goes(r, "update") /\ UNCHANGED secrets
    BY <1>0, <2>1, <2>2, GoesTo, OthersStay DEF SecretInv
  <2>3. CASE SE!Goes(r, "written") /\ secrets' = SE!Fill(admissions[r].workload, r)
    <3>1. DOMAIN secrets' = DOMAIN secrets \cup {admissions[r].workload}
      BY <2>3 DEF SE!Fill
    <3> QED BY <1>0, <2>1, <2>3, <3>1, GoesTo, OthersStay DEF SecretInv
  <2> QED BY <1>2, <2>2, <2>3 DEF SE!Create
<1>3. ASSUME NEW r \in Admissions, SE!Update(r) PROVE SecretInv'
  <2>1. SE!Running(r) /\ admissions[r].env = "none" /\ UNCHANGED <<writer, lastError, overlapped>> /\ (lastError => writer) /\ writer /\ SE!Goes(r, "written")
    BY <1>3 DEF SE!Update, SE!Running, SecretInv, ErrorInv, Admission
  <2>2. DOMAIN secrets' = DOMAIN secrets \cup {admissions[r].workload}
    BY <1>3 DEF SE!Update, SE!Fill
  <2> QED BY <1>0, <2>1, <2>2, GoesTo, OthersStay DEF SecretInv
<1>4. ASSUME NEW r \in Admissions, NEW landed \in BOOLEAN, SE!WriteFails(r, landed) PROVE SecretInv'
  <2>1. SE!Running(r) /\ admissions[r].env = "none" /\ UNCHANGED <<writer, lastError, overlapped>> /\ (lastError => writer) /\ writer /\ SE!Goes(r, "failed")
    BY <1>4 DEF SE!WriteFails, SE!Running, SecretInv, ErrorInv, Admission
  <2>2. DOMAIN secrets \subseteq DOMAIN secrets'
    BY <1>4 DEF SE!WriteFails, SE!Fill
  <2> QED BY <1>0, <2>1, <2>2, GoesTo, OthersStay DEF SecretInv
<1>5. ASSUME NEW r \in Admissions, SE!Literal(r) PROVE SecretInv'
  <2>1. SE!Running(r) /\ UNCHANGED <<writer, secrets, overlapped>> /\ writer /\ lastError'
    BY <1>5 DEF SE!Literal, SE!Running, SecretInv, ErrorInv
  <2>2. PICK x \in Admission : Turns(r, x) /\ x.step = "check" /\ x.env = "literal"
    BY <1>5, ComesTo DEF SE!Literal
  <2> QED BY <1>0, <2>1, <2>2, OthersStay
<1>6. ASSUME NEW r \in Admissions, SE!Refer(r) PROVE SecretInv'
  <2>1. SE!Running(r) /\ UNCHANGED <<writer, secrets, overlapped>> /\ writer /\ ~lastError' /\ lastError' \in BOOLEAN
    BY <1>6 DEF SE!Refer, SE!Running, SecretInv, ErrorInv
  <2>2. PICK x \in Admission : /\ Turns(r, x) /\ x.step = "check" /\ x.env = "ref"
                               /\ x.workload = admissions[r].workload /\ (x.dry <=> admissions[r].dry)
    BY <1>6, ComesTo DEF SE!Refer
  <2>3. ~x.dry => x.workload \in DOMAIN secrets
    BY <1>6, <2>2 DEF SE!Refer, SecretInv, WrittenInv
  <2> QED BY <1>0, <2>1, <2>2, <2>3, OthersStay
<1>7. ASSUME NEW r \in Admissions, SE!Respond(r) PROVE SecretInv'
  <2> DEFINE s == IF Required /\ lastError THEN "refused" ELSE "admitted"
  <2>1. SE!Running(r) /\ UNCHANGED <<writer, secrets, lastError, overlapped>> /\ SE!Goes(r, s)
    BY <1>7 DEF SE!Respond, SE!Running
  <2>2. s \in {"refused", "admitted"} /\ (s = "refused" <=> Required /\ lastError)
    OBVIOUS
  <2> HIDE DEF s
  <2>3. PICK x \in Admission : /\ Turns(r, x) /\ x.step = s /\ (x.dry <=> admissions[r].dry)
                               /\ x.workload = admissions[r].workload /\ x.env = admissions[r].env
    BY <1>0, <2>1, <2>2, GoesTo
  <2>4. /\ admissions[r].env # "none"
        /\ lastError => writer
        /\ r \notin overlapped /\ writer /\ admissions[r].env # "absent" => (lastError <=> admissions[r].env = "literal")
        /\ ~admissions[r].dry /\ admissions[r].env = "ref" => admissions[r].workload \in DOMAIN secrets
    BY <1>7 DEF SE!Respond, SecretInv, ErrorInv, WrittenInv
  <2>5. lastError' \in BOOLEAN
    BY <2>1 DEF SecretInv
  <2> QED BY <2>1, <2>2, <2>3, <2>4, <2>5, OthersStay
<1>8. CASE UNCHANGED SE!vars
  BY <1>8 DEF SE!vars, SecretInv, MetInv, WrittenInv, ErrorInv, SE!AloneIsExact, SE!Running
<1> QED BY <1>1, <1>2, <1>3, <1>4, <1>5, <1>6, <1>7, <1>8 DEF SE!Next

(* A pod whose container env refers to its token Secret is admitted only   *)
(* after the Secret was written, and an admission that no other overlaps,  *)
(* in a webhook with a writer, is refused exactly when the Secret is       *)
(* required and its own write failed, one with nothing to write apart: for *)
(* any number of admissions, although they share the injector's            *)
(* lastSecretError (sidecar_secret.go).                                    *)
THEOREM ReferredSecretsExist ==
    ASSUME Workloads # {} PROVE SE!Spec => [](SE!ReferredSecretExists /\ SE!AloneIsExact)
<1>1. SecretInv => SE!ReferredSecretExists /\ SE!AloneIsExact
  BY DEF SecretInv, WrittenInv, SE!ReferredSecretExists
<1> QED BY <1>1, SecretInit, SecretStep, PTL DEF SE!Spec

-----------------------------------------------------------------------------
(* Answers of the MCP proxy over HTTP.                                     *)
CONSTANTS Posts, RpcIds, NoPost, MaxStreams, MaxMints, PerStream, Total, Budget, PostBacks
VARIABLES rpc, state, unanswered, taken, streams, opened, entries, minted, posting

MH == INSTANCE McpHttp WITH Ids <- RpcIds, None <- NoPost, id <- rpc, pending <- unanswered, answers <- taken

\* A request that waits for its answer was sent and has none, and one that was not sent has none.
AnswerInv ==
    /\ state \in [Posts -> {"new", "mediating", "refused", "sent"}]
    /\ unanswered \in [Posts -> BOOLEAN]
    /\ taken \in [Posts -> Seq({"proxy", "own"})]
    /\ \A s \in streams : s.kind \in {"post", "resumed", "get"}
    /\ \A p \in Posts : Len(taken[p]) <= 1
    /\ \A p \in Posts : unanswered[p] => state[p] = "sent" /\ taken[p] = <<>>
    /\ \A p \in Posts : state[p] \in {"new", "mediating"} => taken[p] = <<>>

\* Nothing has been sent.
LEMMA AnswerInit == MH!Init => AnswerInv
  BY DEF MH!Init, AnswerInv

\* Every step of the proxy keeps the invariant.
LEMMA AnswerStep == AnswerInv /\ [MH!Next]_(MH!vars) => AnswerInv'
<1> SUFFICES ASSUME AnswerInv, [MH!Next]_(MH!vars) PROVE AnswerInv'
  OBVIOUS
<1>1. ASSUME NEW p \in Posts, MH!HandlePost(p) PROVE AnswerInv'
  BY <1>1 DEF AnswerInv, MH!HandlePost
<1>2. ASSUME NEW p \in Posts, MH!RefusePost(p) PROVE AnswerInv'
  <2>1. taken[p] = <<>> /\ ~unanswered[p]
    BY <1>2 DEF AnswerInv, MH!RefusePost
  <2>2. Append(taken[p], "proxy") = <<"proxy">> /\ <<"proxy">> \in Seq({"proxy", "own"}) /\ Len(<<"proxy">>) = 1
    BY <2>1
  <2> QED BY <1>2, <2>1, <2>2 DEF AnswerInv, MH!RefusePost
<1>3. ASSUME NEW p \in Posts, MH!ForwardPost(p) PROVE AnswerInv'
  BY <1>3 DEF AnswerInv, MH!ForwardPost, MH!Open
<1>4. ASSUME NEW s \in streams, NEW i \in RpcIds, MH!Response(s, i) PROVE AnswerInv'
  <2>1. PICK p \in Posts : /\ p = s.of /\ unanswered[p]
                           /\ unanswered' = [unanswered EXCEPT ![p] = FALSE]
                           /\ taken' = [taken EXCEPT ![p] = Append(@, "own")]
    <3>1. \A p \in MH!AnsweredBy(s, i) : p \in Posts /\ p = s.of /\ unanswered[p]
      BY DEF MH!AnsweredBy, AnswerInv
    <3> QED BY <1>4, <3>1 DEF MH!Response
  <2>2. Append(taken[p], "own") = <<"own">> /\ <<"own">> \in Seq({"proxy", "own"}) /\ Len(<<"own">>) = 1
    <3>1. taken[p] = <<>>
      BY <2>1 DEF AnswerInv
    <3> QED BY <3>1
  <2>3. state' = state /\ streams' = streams
    BY <1>4 DEF MH!Response
  <2> QED BY <2>1, <2>2, <2>3 DEF AnswerInv
<1>5. CASE UNCHANGED <<state, unanswered, taken>> /\ streams' \subseteq streams
  BY <1>5 DEF AnswerInv
<1>6. ASSUME NEW m, MH!HandleGet(m) PROVE AnswerInv'
  <2>1. PICK kind \in {"get", "resumed"} : \E of : streams' = streams \cup {[n |-> opened + 1, of |-> of, kind |-> kind]}
    BY <1>6 DEF MH!HandleGet, MH!Open
  <2> QED BY <1>6, <2>1 DEF AnswerInv, MH!HandleGet
<1> QED BY <1>1, <1>2, <1>3, <1>4, <1>5, <1>6
        DEF MH!Next, MH!vars, MH!EventId, MH!SpawnPostBack, MH!StreamEnds, MH!PostBackEnds

(* A JSON-RPC request that the proxy posts upstream is answered at most    *)
(* once, by the proxy's refusal or by a response on a stream of its own,   *)
(* for any number of posts, streams, resumptions and ids that repeat       *)
(* (mcp/http.py, handle_post and the mediation of streams).                *)
THEOREM HttpAnswersOnce == MH!Spec => []MH!OneAnswerOfItsOwn
<1>1. AnswerInv => MH!OneAnswerOfItsOwn
  BY DEF AnswerInv, MH!OneAnswerOfItsOwn
<1> QED BY <1>1, AnswerInit, AnswerStep, PTL DEF MH!Spec

-----------------------------------------------------------------------------
(* One MCP session over stdio (McpSession). *)

CONSTANTS N, ReadAhead, Cap, MaxLists, MaxAsks
VARIABLES method, form, sent, inbox, held, waiting, pump, own, lists, lateLists, busy, backoff, listed, generation,
    started, catalog, forwarded, replies, asks, asked, phase

MS == INSTANCE McpSession WITH queue <- inbox, pending <- waiting, late <- lateLists, answers <- replies, open <- asked

SessionConstants == N \in Nat /\ Cap \in Nat \ {0}
Reqs == 1 .. N

\* r is in a sequence.
Has(s, r) == \E i \in 1 .. Len(s) : s[i] = r
\* The ids of a map rise; those of the queue do too, answers apart.
Rising(s) == \A i, j \in 1 .. Len(s) : i < j => s[i] < s[j]
RisingIds(s) == \A i, j \in 1 .. Len(s) : i < j => s[i] = 0 \/ s[j] = 0 \/ s[i] < s[j]
\* What a rising sequence loses, and gains at its end.
Less(s, t, r) == t \in Seq(Reqs) /\ Rising(t) /\ (\A x : Has(t, x) <=> Has(s, x) /\ x # r) /\ Len(t) <= Len(s)

\* What a map that may be full gains at its end.
More(s, t, r) ==
    /\ t \in Seq(Reqs) /\ Rising(t) /\ Len(t) <= Cap /\ Has(t, r)
    /\ \A x : Has(t, x) => Has(s, x) \/ x = r
    /\ \A x : Has(s, x) /\ ~Has(t, x) => Len(t) = Cap /\ \A y : Has(t, y) => x < y

\* Ids are numbers.
LEMMA IdsAre == ASSUME SessionConstants, NEW s \in Seq(Reqs) PROVE Len(s) \in Nat /\ DOMAIN s = 1 .. Len(s) /\ \A i \in 1 .. Len(s) : s[i] \in Reqs /\ s[i] \in Nat
<1>1. Len(s) \in Nat /\ DOMAIN s = 1 .. Len(s) /\ \A i \in 1 .. Len(s) : s[i] \in Reqs
  OBVIOUS
<1>2. Reqs \subseteq Nat
  BY DEF Reqs, SessionConstants
<1> QED BY <1>1, <1>2

\* What the tail of a rising map keeps.
LEMMA TailRises ==
    ASSUME SessionConstants, NEW s \in Seq(Reqs), Rising(s), s # <<>>
    PROVE  Less(s, Tail(s), Head(s)) /\ Len(Tail(s)) = Len(s) - 1 /\ Has(s, Head(s)) /\ \A x : Has(Tail(s), x) => Head(s) < x
<1>1. /\ Tail(s) \in Seq(Reqs) /\ Len(Tail(s)) = Len(s) - 1 /\ Len(s) \in Nat /\ Len(s) >= 1 /\ Head(s) = s[1]
      /\ \A i \in 1 .. (Len(s) - 1) : Tail(s)[i] = s[i + 1]
  OBVIOUS
<1>2. \A i \in 1 .. Len(s) : i = 1 \/ (i - 1 \in 1 .. (Len(s) - 1) /\ Tail(s)[i - 1] = s[i])
  BY <1>1
<1>3. \A i \in 1 .. (Len(s) - 1) : i + 1 \in 1 .. Len(s) /\ 1 < i + 1 /\ s[1] < s[i + 1]
  BY <1>1 DEF Rising
<1>4. Rising(Tail(s))
  <2> SUFFICES ASSUME NEW i \in 1 .. (Len(s) - 1), NEW j \in 1 .. (Len(s) - 1), i < j PROVE Tail(s)[i] < Tail(s)[j]
    BY <1>1 DEF Rising
  <2>1. i + 1 \in 1 .. Len(s) /\ j + 1 \in 1 .. Len(s) /\ i + 1 < j + 1
    BY <1>1
  <2> QED BY <1>1, <2>1 DEF Rising
<1>5. \A x : Has(Tail(s), x) => Has(s, x) /\ s[1] < x
  BY <1>1, <1>3 DEF Has
<1>6. \A x : Has(s, x) /\ x # s[1] => Has(Tail(s), x)
  BY <1>1, <1>2 DEF Has
<1>7. s[1] \in Nat /\ Has(s, s[1])
  BY <1>1, IdsAre DEF Has
<1> QED BY <1>1, <1>4, <1>5, <1>6, <1>7 DEF Less

\* What a rising map gains at its end.
LEMMA AppendRises ==
    ASSUME NEW s \in Seq(Reqs), Rising(s), NEW r \in Reqs, \A x : Has(s, x) => x < r
    PROVE  /\ Append(s, r) \in Seq(Reqs) /\ Rising(Append(s, r)) /\ Len(Append(s, r)) = Len(s) + 1
           /\ \A x : Has(Append(s, r), x) <=> Has(s, x) \/ x = r
<1>1. /\ Append(s, r) \in Seq(Reqs) /\ Len(Append(s, r)) = Len(s) + 1 /\ Len(s) \in Nat
      /\ \A i \in 1 .. Len(s) : Append(s, r)[i] = s[i]
      /\ Append(s, r)[Len(s) + 1] = r
  OBVIOUS
<1>2. \A i : i \in 1 .. (Len(s) + 1) <=> i \in 1 .. Len(s) \/ i = Len(s) + 1
  BY <1>1
<1>3. \A i \in 1 .. Len(s) : s[i] < r
  BY DEF Has
<1>4. Rising(Append(s, r))
  <2> SUFFICES ASSUME NEW i \in 1 .. (Len(s) + 1), NEW j \in 1 .. (Len(s) + 1), i < j PROVE Append(s, r)[i] < Append(s, r)[j]
    BY <1>1 DEF Rising
  <2>1. i \in 1 .. Len(s)
    BY <1>1
  <2>2. j \in 1 .. Len(s) \/ j = Len(s) + 1
    BY <1>2
  <2> QED BY <1>1, <1>3, <2>1, <2>2 DEF Rising
<1> QED BY <1>1, <1>2, <1>4 DEF Has

\* What _PendingMap.put makes of a map.
LEMMA PutRises ==
    ASSUME SessionConstants, NEW s \in Seq(Reqs), Rising(s), Len(s) <= Cap, NEW r \in Reqs, \A x : Has(s, x) => x < r
    PROVE  More(s, MS!Put(s, r), r)
<1>0. Len(s) \in Nat /\ Cap \in Nat /\ Cap >= 1
  BY DEF SessionConstants
<1>1. CASE Len(s) >= Cap
  <2>1. s # <<>> /\ Len(s) = Cap
    BY <1>0, <1>1
  <2>2. Less(s, Tail(s), Head(s)) /\ Len(Tail(s)) = Len(s) - 1 /\ Has(s, Head(s)) /\ \A x : Has(Tail(s), x) => Head(s) < x
    BY <2>1, TailRises
  <2>3. Tail(s) \in Seq(Reqs) /\ Rising(Tail(s)) /\ \A x : Has(Tail(s), x) => x < r
    BY <2>2 DEF Less
  <2>4. PICK t : t = Append(Tail(s), r)
    OBVIOUS
  <2>5. /\ t \in Seq(Reqs) /\ Rising(t) /\ Len(t) = Len(Tail(s)) + 1
        /\ \A x : Has(t, x) <=> Has(Tail(s), x) \/ x = r
    BY <2>3, <2>4, AppendRises
  <2>6. MS!Put(s, r) = t
    BY <1>1, <2>4 DEF MS!Put
  <2>7. Len(t) = Cap
    BY <1>0, <2>1, <2>2, <2>5
  <2>8. \A x : Has(s, x) /\ ~Has(t, x) => x = Head(s)
    BY <2>2, <2>5 DEF Less
  <2>9. \A y : Has(t, y) => Head(s) < y
    BY <2>2, <2>5
  <2>10. Has(t, r) /\ \A x : Has(t, x) => Has(s, x) \/ x = r
    BY <2>2, <2>5 DEF Less
  <2>11. Len(t) <= Cap
    BY <1>0, <2>7
  <2> QED BY <2>5, <2>6, <2>7, <2>8, <2>9, <2>10, <2>11 DEF More
<1>2. CASE ~(Len(s) >= Cap)
  <2>1. PICK t : t = Append(s, r)
    OBVIOUS
  <2>2. /\ t \in Seq(Reqs) /\ Rising(t) /\ Len(t) = Len(s) + 1
        /\ \A x : Has(t, x) <=> Has(s, x) \/ x = r
    BY <2>1, AppendRises
  <2>3. MS!Put(s, r) = t
    BY <1>2, <2>1 DEF MS!Put
  <2>4. Len(t) <= Cap /\ Has(t, r) /\ \A x : Has(s, x) => Has(t, x)
    BY <1>0, <1>2, <2>2
  <2> QED BY <2>2, <2>3, <2>4 DEF More
<1> QED BY <1>1, <1>2

\* What Discard makes of a map.
LEMMA DiscardRises ==
    ASSUME SessionConstants, NEW s \in Seq(Reqs), Rising(s), NEW r PROVE Less(s, MS!Discard(s, r), r)
<1>0. Len(s) \in Nat /\ DOMAIN s = 1 .. Len(s) /\ (r \in MS!ToSet(s) <=> Has(s, r)) /\ \A i \in 1 .. Len(s) : s[i] \in Nat /\ s[i] \in Reqs
  BY IdsAre DEF MS!ToSet, Has
<1>1. CASE ~Has(s, r)
  BY <1>0, <1>1 DEF MS!Discard, Less
<1>2. CASE Has(s, r)
  <2>1. PICK k \in 1 .. Len(s) : s[k] = r /\ k = CHOOSE i \in DOMAIN s : s[i] = r
    BY <1>0, <1>2 DEF Has
  <2>2. PICK t : t = SubSeq(s, 1, k - 1) \o SubSeq(s, k + 1, Len(s))
    OBVIOUS
  <2>3. MS!Discard(s, r) = t
    BY <1>0, <1>2, <2>1, <2>2 DEF MS!Discard, MS!RemoveAt
  <2>4. /\ t \in Seq(Reqs) /\ Len(t) = Len(s) - 1
        /\ \A i \in 1 .. (k - 1) : t[i] = s[i]
        /\ \A i \in k .. (Len(s) - 1) : t[i] = s[i + 1]
    <3>1. PICK u, v : u = SubSeq(s, 1, k - 1) /\ v = SubSeq(s, k + 1, Len(s))
      OBVIOUS
    <3>2. u \in Seq(Reqs) /\ Len(u) = k - 1 /\ \A i \in 1 .. (k - 1) : u[i] = s[i]
      <4>1. 1 \in Int /\ k - 1 \in Int /\ \A i \in 1 .. (k - 1) : s[i] \in Reqs
        BY <1>0, <2>1
      <4>2. /\ u \in Seq(Reqs) /\ Len(u) = IF 1 <= k - 1 THEN (k - 1) - 1 + 1 ELSE 0
            /\ \A i \in 1 .. (k - 1) - 1 + 1 : u[i] = s[1 + i - 1]
        BY <3>1, <4>1, SubSeqProperties
      <4> QED BY <1>0, <2>1, <4>2
    <3>3. v \in Seq(Reqs) /\ Len(v) = Len(s) - k /\ \A i \in 1 .. (Len(s) - k) : v[i] = s[k + i]
      <4>1. k + 1 \in Int /\ Len(s) \in Int /\ \A i \in (k + 1) .. Len(s) : s[i] \in Reqs
        BY <1>0, <2>1
      <4>2. /\ v \in Seq(Reqs) /\ Len(v) = IF k + 1 <= Len(s) THEN Len(s) - (k + 1) + 1 ELSE 0
            /\ \A i \in 1 .. Len(s) - (k + 1) + 1 : v[i] = s[(k + 1) + i - 1]
        BY <3>1, <4>1, SubSeqProperties
      <4>3. \A i \in 1 .. (Len(s) - k) : i \in 1 .. Len(s) - (k + 1) + 1 /\ (k + 1) + i - 1 = k + i
        BY <1>0, <2>1
      <4> QED BY <1>0, <2>1, <4>2, <4>3
    <3>4. /\ u \o v \in Seq(Reqs) /\ Len(u \o v) = Len(u) + Len(v)
          /\ \A i \in 1 .. Len(u) + Len(v) : (u \o v)[i] = IF i <= Len(u) THEN u[i] ELSE v[i - Len(u)]
      BY <3>2, <3>3, ConcatProperties
    <3>5. t = u \o v
      BY <2>2, <3>1
    <3>6. Len(u) + Len(v) = Len(s) - 1
      BY <1>0, <2>1, <3>2, <3>3
    <3>7. ASSUME NEW i \in 1 .. (k - 1) PROVE t[i] = s[i]
      <4>1. i \in 1 .. Len(u) + Len(v) /\ i <= Len(u)
        BY <1>0, <2>1, <3>2, <3>3
      <4> QED BY <3>2, <3>4, <3>5, <4>1
    <3>8. ASSUME NEW i \in k .. (Len(s) - 1) PROVE t[i] = s[i + 1]
      <4>0. i \in Int /\ k \in Int /\ k >= 1 /\ i >= k /\ i <= Len(s) - 1
        BY <1>0, <2>1
      <4>1. i \in 1 .. Len(u) + Len(v) /\ ~(i <= Len(u)) /\ i - Len(u) \in 1 .. (Len(s) - k) /\ k + (i - Len(u)) = i + 1
        BY <1>0, <3>2, <3>3, <4>0
      <4>2. v[i - Len(u)] = s[k + (i - Len(u))]
        BY <3>3, <4>1
      <4> QED BY <3>4, <3>5, <4>1, <4>2
    <3> QED BY <3>4, <3>5, <3>6, <3>7, <3>8
  <2>5. \A i \in 1 .. (Len(s) - 1) : \E a \in 1 .. Len(s) : t[i] = s[a] /\ a # k /\ ((i < k /\ a = i) \/ (i >= k /\ a = i + 1))
    <3> SUFFICES ASSUME NEW i \in 1 .. (Len(s) - 1)
                 PROVE  \E a \in 1 .. Len(s) : t[i] = s[a] /\ a # k /\ ((i < k /\ a = i) \/ (i >= k /\ a = i + 1))
      OBVIOUS
    <3>1. CASE i < k
      <4>1. i \in 1 .. (k - 1) /\ i \in 1 .. Len(s)
        BY <1>0, <2>1, <3>1
      <4> QED BY <2>4, <3>1, <4>1
    <3>2. CASE ~(i < k)
      <4>0. i \in Int /\ k \in Int /\ k >= 1 /\ i >= k /\ i <= Len(s) - 1
        BY <1>0, <2>1, <3>2
      <4>1. i \in k .. (Len(s) - 1) /\ i + 1 \in 1 .. Len(s) /\ i + 1 # k /\ i >= k
        BY <1>0, <4>0
      <4> QED BY <2>4, <4>1
    <3> QED BY <3>1, <3>2
  <2>6. Rising(t)
    <3> SUFFICES ASSUME NEW i \in 1 .. (Len(s) - 1), NEW j \in 1 .. (Len(s) - 1), i < j PROVE t[i] < t[j]
      BY <2>4 DEF Rising
    <3>1. PICK a \in 1 .. Len(s) : t[i] = s[a] /\ ((i < k /\ a = i) \/ (i >= k /\ a = i + 1))
      BY <2>5
    <3>2. PICK b \in 1 .. Len(s) : t[j] = s[b] /\ ((j < k /\ b = j) \/ (j >= k /\ b = j + 1))
      BY <2>5
    <3>3. a < b
      BY <1>0, <2>1, <3>1, <3>2
    <3> QED BY <3>1, <3>2, <3>3 DEF Rising
  <2>7. \A x : Has(t, x) => Has(s, x) /\ x # r
    <3> SUFFICES ASSUME NEW i \in 1 .. (Len(s) - 1) PROVE Has(s, t[i]) /\ t[i] # r
      BY <2>4 DEF Has
    <3>1. PICK a \in 1 .. Len(s) : t[i] = s[a] /\ a # k
      BY <2>5
    <3>2. s[a] # s[k]
      <4>1. a < k \/ k < a
        BY <1>0, <2>1, <3>1
      <4> QED BY <1>0, <2>1, <4>1 DEF Rising
    <3> QED BY <2>1, <3>1, <3>2 DEF Has
  <2>8. \A x : Has(s, x) /\ x # r => Has(t, x)
    <3> SUFFICES ASSUME NEW a \in 1 .. Len(s), s[a] # r PROVE Has(t, s[a])
      BY DEF Has
    <3>1. a # k
      BY <2>1
    <3>2. CASE a < k
      <4>1. a \in 1 .. (k - 1) /\ a \in 1 .. (Len(s) - 1)
        BY <1>0, <2>1, <3>2
      <4> QED BY <2>4, <4>1 DEF Has
    <3>3. CASE a > k
      <4>1. a - 1 \in k .. (Len(s) - 1) /\ a - 1 \in 1 .. (Len(s) - 1) /\ (a - 1) + 1 = a
        BY <1>0, <2>1, <3>3
      <4>2. t[a - 1] = s[a]
        BY <2>4, <4>1
      <4> QED BY <2>4, <4>1, <4>2 DEF Has
    <3> QED BY <1>0, <2>1, <3>1, <3>2, <3>3
  <2>9. Len(t) <= Len(s)
    BY <1>0, <2>4
  <2> QED BY <2>3, <2>4, <2>6, <2>7, <2>8, <2>9 DEF Less
<1> QED BY <1>1, <1>2

Ids == {0} \cup Reqs
Places == {"idle", "answer", "warm", "listing", "refuse", "evaluate", "forward"}
Replies == [by : {"proxy", "server"}, as : MS!Methods]

SessTypes ==
    /\ method \in [Reqs -> MS!Methods] /\ sent \in Nat /\ sent <= N
    /\ inbox \in Seq(Ids) /\ held \in Seq(Reqs) /\ waiting \in Seq(Reqs)
    /\ pump \in [at : Places, req : Ids] /\ forwarded \subseteq Reqs
    /\ replies \in [Reqs -> Seq(Replies)]
    /\ generation \in Nat /\ started \in Nat

\* The maps and the queue are in the order of the ids, and the maps within their bound.
MapsRise ==
    /\ Rising(held) /\ Len(held) <= Cap
    /\ Rising(waiting) /\ Len(waiting) <= Cap
    /\ RisingIds(inbox)
\* Ids were sent.
AllSent ==
    /\ \A x : Has(inbox, x) => x <= sent
    /\ \A x : Has(held, x) => x <= sent
    /\ pump.req <= sent
    /\ \A f \in forwarded : f <= sent
\* The queue is behind the pump and the pump behind what was forwarded.
InOrder ==
    /\ \A x : Has(inbox, x) /\ x # 0 => pump.req < x /\ \A f \in forwarded : f < x
    /\ pump.req # 0 => \A f \in forwarded : f < pump.req
AtWork == pump.at \in {"idle", "answer"} <=> pump.req = 0
Awaited == \A x : Has(waiting, x) => x \in forwarded /\ replies[x] = <<>>
AnsweredIsPast == \A x \in Reqs : replies[x] # <<>> => x <= sent /\ ~Has(inbox, x) /\ x # pump.req
OneAnswer == \A x \in Reqs : Len(replies[x]) <= 1
ByServer == \A x \in Reqs : (\E i \in 1 .. Len(replies[x]) : replies[x][i].by = "server") => x \in forwarded
HeldInPump == \A x : Has(held, x) => Has(inbox, x) \/ pump.req = x
Later(x) == {q \in forwarded : q > x}
LostToFull == \A x \in Reqs : x \in forwarded /\ ~Has(waiting, x) /\ replies[x] = <<>> => Cardinality(Later(x)) >= Cap

SessInv ==
    /\ SessTypes /\ MapsRise /\ AllSent /\ InOrder /\ AtWork /\ Awaited
    /\ AnsweredIsPast /\ OneAnswer /\ ByServer /\ HeldInPump /\ LostToFull

\* Ids and requests are numbers.
LEMMA ReqsAre == ASSUME SessionConstants PROVE Reqs \subseteq Nat /\ Ids \subseteq Nat /\ 0 \notin Reqs /\ Reqs \subseteq Ids /\ \A x : x \in Ids /\ x # 0 => x \in Reqs
  BY DEF SessionConstants, Reqs, Ids

\* What the tail of the queue keeps.
LEMMA IdTail ==
    ASSUME SessionConstants, NEW s \in Seq(Ids), RisingIds(s), s # <<>>
    PROVE  /\ Tail(s) \in Seq(Ids) /\ RisingIds(Tail(s)) /\ Head(s) \in Ids /\ Has(s, Head(s))
           /\ \A x : Has(s, x) <=> x = Head(s) \/ Has(Tail(s), x)
           /\ \A x : Has(Tail(s), x) => x \in Ids
           /\ \A x : Has(Tail(s), x) /\ x # 0 /\ Head(s) # 0 => Head(s) < x
<1>1. /\ Tail(s) \in Seq(Ids) /\ Len(Tail(s)) = Len(s) - 1 /\ Len(s) \in Nat /\ Len(s) >= 1 /\ Head(s) = s[1] /\ Head(s) \in Ids
      /\ \A i \in 1 .. (Len(s) - 1) : Tail(s)[i] = s[i + 1] /\ Tail(s)[i] \in Ids
  OBVIOUS
<1>2. \A i \in 1 .. Len(s) : i = 1 \/ (i - 1 \in 1 .. (Len(s) - 1) /\ Tail(s)[i - 1] = s[i])
  BY <1>1
<1>3. 1 \in 1 .. Len(s) /\ \A i \in 1 .. (Len(s) - 1) : i + 1 \in 1 .. Len(s) /\ 1 < i + 1
  BY <1>1
<1>4. RisingIds(Tail(s))
  <2> SUFFICES ASSUME NEW i \in 1 .. (Len(s) - 1), NEW j \in 1 .. (Len(s) - 1), i < j
               PROVE Tail(s)[i] = 0 \/ Tail(s)[j] = 0 \/ Tail(s)[i] < Tail(s)[j]
    BY <1>1 DEF RisingIds
  <2>1. i + 1 \in 1 .. Len(s) /\ j + 1 \in 1 .. Len(s) /\ i + 1 < j + 1
    BY <1>1
  <2> QED BY <1>1, <2>1 DEF RisingIds
<1>5. \A x : Has(Tail(s), x) => Has(s, x) /\ (x # 0 /\ s[1] # 0 => s[1] < x) /\ x \in Ids
  <2> SUFFICES ASSUME NEW i \in 1 .. (Len(s) - 1)
               PROVE Has(s, Tail(s)[i]) /\ (Tail(s)[i] # 0 /\ s[1] # 0 => s[1] < Tail(s)[i]) /\ Tail(s)[i] \in Ids
    BY <1>1 DEF Has
  <2>1. Tail(s)[i] = s[i + 1]
    BY <1>1
  <2> QED BY <1>1, <1>3, <2>1 DEF Has, RisingIds
<1>6. \A x : Has(s, x) => x = s[1] \/ Has(Tail(s), x)
  BY <1>1, <1>2 DEF Has
<1>7. Has(s, s[1])
  BY <1>3 DEF Has
<1> QED BY <1>1, <1>4, <1>5, <1>6, <1>7

\* What the queue gains at its end.
LEMMA IdAppend ==
    ASSUME NEW s \in Seq(Ids), RisingIds(s), NEW r \in Ids, \A x : Has(s, x) /\ x # 0 /\ r # 0 => x < r
    PROVE  /\ Append(s, r) \in Seq(Ids) /\ RisingIds(Append(s, r))
           /\ \A x : Has(Append(s, r), x) <=> Has(s, x) \/ x = r
<1>1. /\ Append(s, r) \in Seq(Ids) /\ Len(Append(s, r)) = Len(s) + 1 /\ Len(s) \in Nat
      /\ \A i \in 1 .. Len(s) : Append(s, r)[i] = s[i]
      /\ Append(s, r)[Len(s) + 1] = r
  OBVIOUS
<1>2. \A i : i \in 1 .. (Len(s) + 1) <=> i \in 1 .. Len(s) \/ i = Len(s) + 1
  BY <1>1
<1>3. \A i \in 1 .. Len(s) : s[i] = 0 \/ r = 0 \/ s[i] < r
  BY DEF Has
<1>4. RisingIds(Append(s, r))
  <2> SUFFICES ASSUME NEW i \in 1 .. (Len(s) + 1), NEW j \in 1 .. (Len(s) + 1), i < j
               PROVE Append(s, r)[i] = 0 \/ Append(s, r)[j] = 0 \/ Append(s, r)[i] < Append(s, r)[j]
    BY <1>1 DEF RisingIds
  <2>1. i \in 1 .. Len(s)
    BY <1>1
  <2>2. j \in 1 .. Len(s) \/ j = Len(s) + 1
    BY <1>2
  <2> QED BY <1>1, <1>3, <2>1, <2>2 DEF RisingIds
<1> QED BY <1>1, <1>2, <1>4 DEF Has

\* A rising map holds as many ids as it is long.
LEMMA MapCounts ==
    ASSUME SessionConstants, NEW s \in Seq(Reqs), Rising(s), NEW S, S \subseteq Reqs, \A x : Has(s, x) => x \in S
    PROVE  Len(s) <= Cardinality(S) /\ Cardinality(S) \in Nat
<1>0. Len(s) \in Nat /\ DOMAIN s = 1 .. Len(s) /\ \A i \in 1 .. Len(s) : s[i] \in Reqs /\ s[i] \in Nat
  BY IdsAre
<1>1. IsFiniteSet(S)
  <2>1. IsFiniteSet(Reqs)
    BY FS_Interval DEF Reqs, SessionConstants
  <2> QED BY <2>1, FS_Subset
<1>2. \A i, j \in 1 .. Len(s) : s[i] = s[j] => i = j
  <2> SUFFICES ASSUME NEW i \in 1 .. Len(s), NEW j \in 1 .. Len(s), i # j PROVE s[i] # s[j]
    OBVIOUS
  <2>1. i < j \/ j < i
    BY <1>0
  <2> QED BY <1>0, <2>1 DEF Rising
<1>3. s \in [1 .. Len(s) -> S]
  BY <1>0 DEF Has
<1>4. s \in Injection(1 .. Len(s), S)
  BY <1>2, <1>3 DEF Injection, IsInjective
<1>5. IsFiniteSet(1 .. Len(s)) /\ Cardinality(1 .. Len(s)) = Len(s)
  <2>1. PICK n \in Nat : n = Len(s)
    BY <1>0
  <2>2. IsFiniteSet(1 .. n) /\ Cardinality(1 .. n) = IF 1 > n THEN 0 ELSE n - 1 + 1
    BY FS_Interval
  <2>3. Cardinality(1 .. n) = n
    BY <2>2
  <2> QED BY <2>1, <2>2, <2>3
<1>6. Cardinality(1 .. Len(s)) <= Cardinality(S)
  BY <1>1, <1>4, <1>5, FS_Injection DEF ExistsInjection
<1> QED BY <1>1, <1>5, <1>6, FS_CardinalityType

\* More forwarded requests count for more.
LEMMA LaterGrows ==
    ASSUME SessionConstants, NEW F, NEW G, F \subseteq G, G \subseteq Reqs, NEW x
    PROVE  Cardinality({q \in F : q > x}) <= Cardinality({q \in G : q > x})
           /\ Cardinality({q \in F : q > x}) \in Nat /\ Cardinality({q \in G : q > x}) \in Nat
<1>1. IsFiniteSet(Reqs)
  BY FS_Interval DEF Reqs, SessionConstants
<1>2. IsFiniteSet({q \in G : q > x}) /\ {q \in F : q > x} \subseteq {q \in G : q > x}
  BY <1>1, FS_Subset
<1> QED BY <1>2, FS_Subset, FS_CardinalityType

-----------------------------------------------------------------------------
\* Nothing has been sent.
LEMMA SessStarts == ASSUME SessionConstants, MS!Init PROVE SessInv
<1>1. \A x : ~Has(<<>>, x)
  BY DEF Has
<1>2. /\ method \in [Reqs -> MS!Methods] /\ sent = 0 /\ inbox = <<>> /\ held = <<>> /\ waiting = <<>>
      /\ pump = [at |-> "idle", req |-> 0] /\ forwarded = {} /\ replies = [r \in Reqs |-> <<>>] /\ generation = 0 /\ started = 0
  BY DEF MS!Init, MS!Idle, MS!ClientRequests, Reqs
<1>3. SessTypes
  BY <1>2 DEF SessTypes, SessionConstants, Places, Ids
<1>4. Rising(<<>>) /\ RisingIds(<<>>) /\ Len(<<>>) <= Cap
  BY DEF Rising, RisingIds, SessionConstants
<1>5. MapsRise
  BY <1>2, <1>4 DEF MapsRise
<1>6. AllSent /\ InOrder /\ AtWork /\ HeldInPump /\ Awaited
  BY <1>1, <1>2 DEF AllSent, InOrder, AtWork, HeldInPump, Awaited
<1>7. AnsweredIsPast /\ OneAnswer /\ ByServer /\ LostToFull
  BY <1>1, <1>2 DEF AnsweredIsPast, OneAnswer, ByServer, LostToFull
<1> QED BY <1>3, <1>5, <1>6, <1>7 DEF SessInv

\* A step that moves at most within the pump keeps the invariant.
LEMMA SessAt ==
    ASSUME SessionConstants, SessInv, SessTypes',
           UNCHANGED <<sent, inbox, held, waiting, forwarded, replies>>,
           pump'.req = pump.req, pump.at \in {"idle", "answer"} <=> pump'.at \in {"idle", "answer"}
    PROVE  SessInv'
<1>1. MapsRise' /\ AllSent' /\ InOrder' /\ HeldInPump' /\ Awaited'
  BY DEF SessInv, MapsRise, AllSent, InOrder, HeldInPump, Awaited
<1>2. AtWork'
  BY DEF SessInv, AtWork
<1>3. AnsweredIsPast' /\ OneAnswer' /\ ByServer'
  BY DEF SessInv, AnsweredIsPast, OneAnswer, ByServer
<1>4. LostToFull'
  BY DEF SessInv, LostToFull, Later
<1> QED BY <1>1, <1>2, <1>3, <1>4 DEF SessInv

\* The reader takes a request of the client.
LEMMA SessReadRequest == ASSUME SessionConstants, SessInv, MS!ReadRequest PROVE SessInv'
<1>1. PICK r : r = sent + 1
  OBVIOUS
<1>2. /\ sent' = r /\ held' = MS!Put(held, r) /\ inbox' = Append(inbox, r) /\ r <= N
      /\ UNCHANGED <<method, waiting, pump, forwarded, replies, generation, started>>
  BY <1>1 DEF MS!ReadRequest, MS!Note, MS!cold, MS!gateA, SessInv, SessTypes, SessionConstants
<1>3. r \in Reqs /\ r \in Ids /\ r # 0 /\ sent \in Nat /\ sent < r /\ r \in Nat
  BY <1>1, <1>2 DEF SessInv, SessTypes, Reqs, Ids, SessionConstants
<1>4. (\A x : Has(held, x) => x \in Nat /\ x < r) /\ (\A x : Has(inbox, x) => x \in Nat /\ x < r)
  <2>1. (\A x : Has(held, x) => x \in Reqs) /\ (\A x : Has(inbox, x) => x \in Ids)
    BY DEF Has, SessInv, SessTypes
  <2>2. (\A x : Has(held, x) => x \in Nat /\ x <= sent) /\ (\A x : Has(inbox, x) => x \in Nat /\ x <= sent)
    BY <2>1, ReqsAre DEF SessInv, AllSent
  <2>3. \A x \in Nat : x <= sent => x < r
    BY <1>1, <1>3
  <2> QED BY <2>2, <2>3
<1>5. More(held, held', r)
  BY <1>2, <1>3, <1>4, PutRises DEF SessInv, SessTypes, MapsRise
<1>6. /\ inbox' \in Seq(Ids) /\ RisingIds(inbox')
      /\ \A x : Has(inbox', x) <=> Has(inbox, x) \/ x = r
  BY <1>2, <1>3, <1>4, IdAppend DEF SessInv, SessTypes, MapsRise
<1>7. SessTypes'
  BY <1>2, <1>3, <1>5, <1>6 DEF SessInv, SessTypes, More
<1>8. MapsRise'
  BY <1>2, <1>5, <1>6 DEF SessInv, MapsRise, More
<1>9. pump.req \in Nat /\ pump.req <= sent /\ \A f \in forwarded : f \in Nat /\ f <= sent
  BY ReqsAre DEF SessInv, SessTypes, AllSent
<1>10. AllSent'
  <2>1. \A x : Has(inbox', x) => x <= r
    BY <1>3, <1>4, <1>6
  <2>2. \A x : Has(held', x) => x <= r
    BY <1>3, <1>4, <1>5 DEF More
  <2> QED BY <1>2, <1>3, <1>9, <2>1, <2>2 DEF AllSent
<1>11. InOrder'
  BY <1>2, <1>3, <1>6, <1>9 DEF SessInv, InOrder
<1>12. AtWork' /\ Awaited' /\ OneAnswer' /\ ByServer'
  BY <1>2 DEF SessInv, AtWork, Awaited, OneAnswer, ByServer
<1>13. AnsweredIsPast'
  <2>1. \A x \in Reqs : replies[x] # <<>> => x \in Nat /\ x <= r /\ x # r
    BY <1>3, ReqsAre DEF SessInv, AnsweredIsPast
  <2> QED BY <1>2, <1>6, <2>1 DEF SessInv, AnsweredIsPast
<1>14. HeldInPump'
  BY <1>2, <1>5, <1>6 DEF SessInv, HeldInPump, More
<1>15. LostToFull'
  BY <1>2 DEF SessInv, LostToFull, Later
<1> QED BY <1>7, <1>8, <1>10, <1>11, <1>12, <1>13, <1>14, <1>15 DEF SessInv

\* The reader takes an answer of the client.
LEMMA SessReadAnswer == ASSUME SessionConstants, SessInv, MS!ReadAnswer PROVE SessInv'
<1>1. /\ inbox' = Append(inbox, 0)
      /\ UNCHANGED <<method, sent, held, waiting, pump, forwarded, replies, generation, started>>
  BY DEF MS!ReadAnswer, MS!client, MS!corr, MS!cold, MS!gateA
<1>2. /\ inbox' \in Seq(Ids) /\ RisingIds(inbox')
      /\ \A x : Has(inbox', x) <=> Has(inbox, x) \/ x = 0
  BY <1>1, IdAppend DEF SessInv, SessTypes, MapsRise, Ids
<1>3. SessTypes' /\ MapsRise'
  BY <1>1, <1>2 DEF SessInv, SessTypes, MapsRise
<1>4. AllSent'
  <2>1. 0 <= sent
    BY DEF SessInv, SessTypes
  <2> QED BY <1>1, <1>2, <2>1 DEF SessInv, AllSent
<1>5. InOrder' /\ AtWork' /\ Awaited' /\ OneAnswer' /\ ByServer' /\ HeldInPump'
  BY <1>1, <1>2 DEF SessInv, InOrder, AtWork, Awaited, OneAnswer, ByServer, HeldInPump
<1>6. AnsweredIsPast'
  BY <1>1, <1>2, ReqsAre DEF SessInv, AnsweredIsPast
<1>7. LostToFull'
  BY <1>1 DEF SessInv, LostToFull, Later
<1> QED BY <1>3, <1>4, <1>5, <1>6, <1>7 DEF SessInv

\* The pump takes a message.
LEMMA SessTake == ASSUME SessionConstants, SessInv, MS!Take PROVE SessInv'
<1>1. PICK r : r = Head(inbox)
  OBVIOUS
<1>2. /\ pump = [at |-> "idle", req |-> 0] /\ inbox # <<>> /\ inbox' = Tail(inbox)
      /\ pump' = [at |-> IF r = 0 THEN "answer" ELSE IF method[r] = "tools/call" THEN "warm"
                         ELSE IF method[r] = "alias" THEN "refuse" ELSE "forward", req |-> r]
      /\ UNCHANGED <<method, sent, held, waiting, forwarded, replies, generation, started>>
  BY <1>1 DEF MS!Take, MS!Idle, MS!client, MS!corr, MS!cold, MS!gateA
<1>3. /\ inbox' \in Seq(Ids) /\ RisingIds(inbox') /\ r \in Ids /\ Has(inbox, r)
      /\ \A x : Has(inbox, x) <=> x = r \/ Has(inbox', x)
      /\ \A x : Has(inbox', x) => x \in Ids
      /\ \A x : Has(inbox', x) /\ x # 0 /\ r # 0 => r < x
  BY <1>1, <1>2, IdTail DEF SessInv, SessTypes, MapsRise
<1>4. pump.req = 0 /\ pump'.req = r /\ pump'.at \in Places /\ pump' \in [at : Places, req : Ids] /\ (pump'.at \in {"idle", "answer"} <=> r = 0)
  BY <1>2, <1>3 DEF Places
<1>5. SessTypes' /\ MapsRise'
  BY <1>2, <1>3, <1>4 DEF SessInv, SessTypes, MapsRise
<1>6. AllSent'
  BY <1>2, <1>3, <1>4 DEF SessInv, AllSent
<1>7. InOrder'
  <2>1. \A x : Has(inbox', x) /\ x # 0 => 0 < x
    BY <1>3, ReqsAre
  <2> QED BY <1>2, <1>3, <1>4, <2>1 DEF SessInv, InOrder
<1>8. AtWork' /\ Awaited' /\ OneAnswer' /\ ByServer'
  BY <1>2, <1>4 DEF SessInv, AtWork, Awaited, OneAnswer, ByServer
<1>9. AnsweredIsPast' /\ HeldInPump'
  <2>1. \A x : Has(held, x) => x # 0
    BY ReqsAre DEF SessInv, SessTypes, Has
  <2> QED BY <1>2, <1>3, <1>4, <2>1 DEF SessInv, AnsweredIsPast, HeldInPump
<1>10. LostToFull'
  BY <1>2 DEF SessInv, LostToFull, Later
<1> QED BY <1>5, <1>6, <1>7, <1>8, <1>9, <1>10 DEF SessInv

\* The pump forwards an answer.
LEMMA SessPassAnswer == ASSUME SessionConstants, SessInv, MS!PassAnswer PROVE SessInv'
<1>1. /\ pump.at = "answer" /\ pump' = [at |-> "idle", req |-> 0]
      /\ UNCHANGED <<method, sent, inbox, held, waiting, forwarded, replies, generation, started>>
  BY DEF MS!PassAnswer, MS!Idle, MS!client, MS!corr, MS!cold, MS!gateA
<1>2. pump.req = 0 /\ pump'.req = 0 /\ pump'.at = "idle" /\ pump' \in [at : Places, req : Ids]
  BY <1>1 DEF SessInv, AtWork, Places, Ids
<1>3. SessTypes'
  BY <1>1, <1>2 DEF SessInv, SessTypes
<1> QED BY <1>1, <1>2, <1>3, SessAt

\* An answer to a request that had none.
LEMMA AnswerIs ==
    ASSUME SessTypes, NEW r \in Reqs, NEW b \in {"proxy", "server"}, replies[r] = <<>>, MS!Answer(r, b, method[r])
    PROVE  /\ replies' \in [Reqs -> Seq(Replies)] /\ Len(replies'[r]) = 1 /\ replies'[r] # <<>> /\ replies'[r][1].by = b
           /\ \A x \in Reqs : x # r => replies'[x] = replies[x]
<1>1. PICK a : a = [by |-> b, as |-> method[r]]
  OBVIOUS
<1>2. a \in Replies /\ a.by = b
  BY <1>1 DEF SessTypes, Replies
<1>3. replies' = [replies EXCEPT ![r] = Append(replies[r], a)]
  BY <1>1 DEF MS!Answer
<1>4. Append(replies[r], a) = <<a>>
  OBVIOUS
<1>5. replies' = [replies EXCEPT ![r] = <<a>>] /\ <<a>> \in Seq(Replies) /\ Len(<<a>>) = 1 /\ <<a>> # <<>> /\ <<a>>[1] = a
  BY <1>2, <1>3, <1>4
<1> QED BY <1>2, <1>5 DEF SessTypes

\* The proxy answers a request itself.
LEMMA SessRefuse == ASSUME SessionConstants, SessInv, MS!Refuse PROVE SessInv'
<1>1. PICK r : r = pump.req
  OBVIOUS
<1>2. /\ pump.at \in {"refuse", "evaluate"} /\ held' = MS!Discard(held, r) /\ MS!Answer(r, "proxy", method[r])
      /\ pump' = [at |-> "idle", req |-> 0]
      /\ UNCHANGED <<method, sent, inbox, waiting, forwarded, generation, started>>
  BY <1>1 DEF MS!Refuse, MS!Idle, MS!client, MS!cold, MS!gateA
<1>3. r \in Ids /\ r # 0 /\ r \in Reqs /\ r \in Nat /\ r <= sent
  <2>1. r \in Ids /\ r # 0 /\ r <= sent
    BY <1>1, <1>2 DEF SessInv, SessTypes, AtWork, AllSent
  <2> QED BY <2>1, ReqsAre
<1>4. pump'.req = 0 /\ pump'.at = "idle" /\ pump' \in [at : Places, req : Ids]
  BY <1>2 DEF Places, Ids
<1>5. Less(held, held', r)
  BY <1>2, DiscardRises DEF SessInv, SessTypes, MapsRise
<1>6. replies[r] = <<>>
  BY <1>1, <1>3 DEF SessInv, AnsweredIsPast
<1>7. /\ replies' \in [Reqs -> Seq(Replies)] /\ Len(replies'[r]) = 1 /\ replies'[r] # <<>> /\ replies'[r][1].by = "proxy"
      /\ \A x \in Reqs : x # r => replies'[x] = replies[x]
  BY <1>2, <1>3, <1>6, AnswerIs DEF SessInv
<1>8. ~Has(inbox, r) /\ r \notin forwarded
  BY <1>1, <1>3, ReqsAre DEF SessInv, SessTypes, InOrder
<1>9. SessTypes'
  BY <1>2, <1>4, <1>5, <1>7 DEF SessInv, SessTypes, Less
<1>10. MapsRise'
  <2>1. Len(held') <= Cap
    BY <1>5 DEF SessInv, SessTypes, MapsRise, Less, SessionConstants
  <2> QED BY <1>2, <1>5, <2>1 DEF SessInv, MapsRise, Less
<1>11. AllSent'
  <2>1. 0 <= sent
    BY DEF SessInv, SessTypes
  <2> QED BY <1>2, <1>4, <1>5, <2>1 DEF SessInv, AllSent, Less
<1>12. InOrder'
  <2>1. \A x : Has(inbox, x) /\ x # 0 => 0 < x
    <3>1. \A x : Has(inbox, x) => x \in Ids
      BY DEF Has, SessInv, SessTypes
    <3> QED BY <3>1, ReqsAre
  <2> QED BY <1>2, <1>4, <2>1 DEF SessInv, InOrder
<1>13. AtWork'
  BY <1>4 DEF AtWork
<1>14. Awaited'
  <2>1. \A x : Has(waiting, x) => x \in Reqs /\ x # r
    BY <1>8 DEF SessInv, SessTypes, Awaited
  <2> QED BY <1>2, <1>7, <2>1 DEF SessInv, Awaited
<1>15. AnsweredIsPast'
  BY <1>2, <1>3, <1>4, <1>7, <1>8, ReqsAre DEF SessInv, AnsweredIsPast
<1>16. OneAnswer'
  <2>1. Len(replies'[r]) <= 1
    BY <1>7
  <2>2. \A x \in Reqs : x # r => Len(replies'[x]) <= 1
    BY <1>7 DEF SessInv, OneAnswer
  <2> QED BY <2>1, <2>2 DEF OneAnswer
<1>17. ByServer'
  <2> SUFFICES ASSUME NEW x \in Reqs, NEW i \in 1 .. Len(replies'[x]), replies'[x][i].by = "server" PROVE x \in forwarded'
    BY DEF ByServer
  <2>1. CASE x = r
    <3>0. i \in 1 .. 1
      BY <1>7, <2>1
    <3>1. i = 1
      BY <3>0
    <3> QED BY <1>7, <2>1, <3>1
  <2>2. CASE x # r
    BY <1>2, <1>7, <2>2 DEF SessInv, ByServer
  <2> QED BY <2>1, <2>2
<1>18. HeldInPump'
  BY <1>1, <1>2, <1>5 DEF SessInv, HeldInPump, Less
<1>19. LostToFull'
  <2>1. \A x \in Reqs : replies'[x] = <<>> => replies[x] = <<>>
    BY <1>6, <1>7
  <2> QED BY <1>2, <2>1 DEF SessInv, LostToFull, Later
<1> QED BY <1>9, <1>10, <1>11, <1>12, <1>13, <1>14, <1>15, <1>16, <1>17, <1>18, <1>19 DEF SessInv

\* A request is forwarded: what a full map evicts has Cap later ones.
LEMMA SessForward == ASSUME SessionConstants, SessInv, MS!Forward PROVE SessInv'
<1>1. PICK r : r = pump.req
  OBVIOUS
<1>2. /\ pump.at \in {"forward", "evaluate"} /\ held' = MS!Discard(held, r) /\ waiting' = MS!Put(waiting, r)
      /\ forwarded' = forwarded \cup {r} /\ pump' = [at |-> "idle", req |-> 0]
      /\ UNCHANGED <<method, sent, inbox, replies, generation, started>>
  BY <1>1 DEF MS!Forward, MS!Idle, MS!client, MS!cold, MS!gateA
<1>3. r \in Ids /\ r # 0 /\ r \in Reqs /\ r \in Nat /\ r <= sent
  <2>1. r \in Ids /\ r # 0 /\ r <= sent
    BY <1>1, <1>2 DEF SessInv, SessTypes, AtWork, AllSent
  <2> QED BY <2>1, ReqsAre
<1>4. pump'.req = 0 /\ pump'.at = "idle" /\ pump' \in [at : Places, req : Ids]
  BY <1>2 DEF Places, Ids
<1>5. Less(held, held', r)
  BY <1>2, DiscardRises DEF SessInv, SessTypes, MapsRise
<1>6. replies[r] = <<>>
  BY <1>1, <1>3 DEF SessInv, AnsweredIsPast
<1>7. More(waiting, waiting', r)
  <2>1. \A x : Has(waiting, x) => x < r
    BY <1>1, <1>3 DEF SessInv, Awaited, InOrder
  <2> QED BY <1>2, <1>3, <2>1, PutRises DEF SessInv, SessTypes, MapsRise
<1>8. SessTypes'
  BY <1>2, <1>3, <1>4, <1>5, <1>7 DEF SessInv, SessTypes, Less, More
<1>9. MapsRise'
  <2>1. Len(held') <= Cap
    BY <1>5 DEF SessInv, SessTypes, MapsRise, Less, SessionConstants
  <2> QED BY <1>2, <1>5, <1>7, <2>1 DEF SessInv, MapsRise, Less, More
<1>10. AllSent'
  <2>1. 0 <= sent
    BY DEF SessInv, SessTypes
  <2> QED BY <1>2, <1>3, <1>4, <1>5, <2>1 DEF SessInv, AllSent, Less
<1>11. InOrder'
  <2>1. \A x : Has(inbox, x) /\ x # 0 => 0 < x /\ r < x
    <3>1. \A x : Has(inbox, x) => x \in Ids
      BY DEF Has, SessInv, SessTypes
    <3> QED BY <1>1, <3>1, ReqsAre DEF SessInv, InOrder
  <2> QED BY <1>2, <1>4, <2>1 DEF SessInv, InOrder
<1>12. AtWork'
  BY <1>4 DEF AtWork
<1>13. Awaited'
  BY <1>2, <1>6, <1>7 DEF SessInv, Awaited, More
<1>14. AnsweredIsPast' /\ OneAnswer' /\ ByServer'
  BY <1>2, <1>4, ReqsAre DEF SessInv, AnsweredIsPast, OneAnswer, ByServer
<1>15. HeldInPump'
  BY <1>1, <1>2, <1>5 DEF SessInv, HeldInPump, Less
<1>16. LostToFull'
  <2> SUFFICES ASSUME NEW x \in Reqs, x \in forwarded', ~Has(waiting', x), replies'[x] = <<>>
               PROVE  Cardinality({q \in forwarded' : q > x}) >= Cap
    BY DEF LostToFull, Later
  <2>0. Cap \in Nat /\ forwarded' \subseteq Reqs /\ forwarded \subseteq forwarded'
    BY <1>2, <1>3 DEF SessInv, SessTypes, SessionConstants
  <2>1. x # r /\ x \in forwarded
    BY <1>2, <1>7 DEF More
  <2>2. CASE Has(waiting, x)
    <3>1. Len(waiting') = Cap /\ \A y : Has(waiting', y) => x < y
      BY <1>7, <2>2 DEF More
    <3>2. \A y : Has(waiting', y) => y \in forwarded'
      BY <1>2, <1>7 DEF SessInv, Awaited, More
    <3>3. \A y : Has(waiting', y) => y \in {q \in forwarded' : q > x}
      BY <2>0, <3>1, <3>2, ReqsAre
    <3>4. waiting' \in Seq(Reqs) /\ Rising(waiting') /\ {q \in forwarded' : q > x} \subseteq Reqs
      BY <1>7, <2>0 DEF More
    <3>5. Len(waiting') <= Cardinality({q \in forwarded' : q > x}) /\ Cardinality({q \in forwarded' : q > x}) \in Nat
      BY <3>3, <3>4, MapCounts
    <3> QED BY <2>0, <3>1, <3>5
  <2>3. CASE ~Has(waiting, x)
    <3>1. Cardinality({q \in forwarded : q > x}) >= Cap
      BY <1>2, <2>1, <2>3 DEF SessInv, LostToFull, Later
    <3>2. /\ Cardinality({q \in forwarded : q > x}) <= Cardinality({q \in forwarded' : q > x})
          /\ Cardinality({q \in forwarded : q > x}) \in Nat /\ Cardinality({q \in forwarded' : q > x}) \in Nat
      BY <2>0, LaterGrows
    <3> QED BY <2>0, <3>1, <3>2
  <2> QED BY <2>2, <2>3
<1> QED BY <1>8, <1>9, <1>10, <1>11, <1>12, <1>13, <1>14, <1>15, <1>16 DEF SessInv

\* The server answers a request that waits, or its answer is dropped.
LEMMA SessServerAnswers ==
    ASSUME SessionConstants, SessInv, NEW r \in Reqs, NEW w \in BOOLEAN, MS!ServerAnswers(r, w) PROVE SessInv'
<1>1. /\ r \in MS!ToSet(waiting)
      /\ UNCHANGED <<method, sent, inbox, held, pump, forwarded, started>>
  BY DEF MS!ServerAnswers, MS!client, MS!cold
<1>2. Has(waiting, r) /\ r \in forwarded /\ replies[r] = <<>>
  <2>1. Has(waiting, r)
    BY <1>1, IdsAre DEF MS!ToSet, Has, SessInv, SessTypes
  <2> QED BY <2>1 DEF SessInv, Awaited
<1>3. generation' \in Nat
  BY DEF MS!ServerAnswers, MS!gateA, SessInv, SessTypes
<1>4. CASE ~w
  <2>1. UNCHANGED <<waiting, replies>>
    BY <1>4 DEF MS!ServerAnswers, MS!Defective
  <2>2. SessTypes'
    BY <1>1, <1>3, <2>1 DEF SessInv, SessTypes
  <2> QED BY <1>1, <2>1, <2>2, SessAt
<1>5. CASE w
  <2>1. waiting' = MS!Discard(waiting, r) /\ MS!Answer(r, "server", method[r])
    BY <1>5 DEF MS!ServerAnswers, MS!Pop
  <2>2. Less(waiting, waiting', r)
    BY <2>1, DiscardRises DEF SessInv, SessTypes, MapsRise
  <2>3. /\ replies' \in [Reqs -> Seq(Replies)] /\ Len(replies'[r]) = 1 /\ replies'[r] # <<>> /\ replies'[r][1].by = "server"
        /\ \A x \in Reqs : x # r => replies'[x] = replies[x]
    BY <1>2, <2>1, AnswerIs DEF SessInv
  <2>4. SessTypes'
    BY <1>1, <1>3, <2>2, <2>3 DEF SessInv, SessTypes, Less
  <2>5. MapsRise'
    <3>1. Len(waiting') <= Cap
      BY <2>2 DEF SessInv, SessTypes, MapsRise, Less, SessionConstants
    <3> QED BY <1>1, <2>2, <3>1 DEF SessInv, MapsRise, Less
  <2>6. AllSent' /\ InOrder' /\ AtWork' /\ HeldInPump'
    BY <1>1 DEF SessInv, AllSent, InOrder, AtWork, HeldInPump
  <2>7. Awaited'
    BY <1>1, <2>2, <2>3 DEF SessInv, SessTypes, Awaited, Less
  <2>8. AnsweredIsPast'
    <3>1. r <= sent /\ r # 0 /\ ~Has(inbox, r) /\ r # pump.req
      BY <1>2, ReqsAre DEF SessInv, AllSent, InOrder, SessTypes
    <3> QED BY <1>1, <2>3, <3>1 DEF SessInv, AnsweredIsPast
  <2>9. OneAnswer'
    <3>1. Len(replies'[r]) <= 1
      BY <2>3
    <3>2. \A x \in Reqs : x # r => Len(replies'[x]) <= 1
      BY <2>3 DEF SessInv, OneAnswer
    <3> QED BY <3>1, <3>2 DEF OneAnswer
  <2>10. ByServer'
    BY <1>1, <1>2, <2>3 DEF SessInv, ByServer
  <2>11. LostToFull'
    <3>1. \A x \in Reqs : replies'[x] = <<>> => replies[x] = <<>> /\ x # r
      BY <2>3
    <3> QED BY <1>1, <2>2, <3>1 DEF SessInv, LostToFull, Later, Less
  <2> QED BY <2>4, <2>5, <2>6, <2>7, <2>8, <2>9, <2>10, <2>11 DEF SessInv
<1> QED BY <1>4, <1>5

\* The places of the proxy's own listing in the pump.
LEMMA SessWarms ==
    ASSUME SessionConstants, SessInv, MS!WarmSkips \/ MS!WarmLists \/ MS!ColdListed PROVE SessInv'
<1>1. PICK a \in {"evaluate", "listing"} : pump' = [pump EXCEPT !.at = a]
  BY DEF MS!WarmSkips, MS!WarmLists, MS!ColdListed
<1>2. pump.at \in {"warm", "listing"} /\ UNCHANGED <<method, sent, inbox, held, waiting, forwarded, replies, generation>> /\ started' \in {started, generation}
  BY DEF MS!WarmSkips, MS!WarmLists, MS!ColdListed, MS!client, MS!corr, MS!cold, MS!gateA
<1>3. pump' \in [at : Places, req : Ids] /\ pump'.at = a /\ pump'.req = pump.req
  BY <1>1 DEF SessInv, SessTypes, Places
<1>4. SessTypes'
  BY <1>2, <1>3 DEF SessInv, SessTypes
<1> QED BY <1>2, <1>3, <1>4, SessAt

\* A step that touches nothing of it keeps the invariant.
LEMMA SessQuiet ==
    ASSUME SessionConstants, SessInv, UNCHANGED <<method, sent, inbox, held, waiting, pump, forwarded, replies, generation, started>>
    PROVE  SessInv'
<1>1. SessTypes'
  BY DEF SessInv, SessTypes
<1> QED BY <1>1, SessAt

\* Every step keeps the invariant.
LEMMA SessNext == ASSUME SessionConstants, SessInv, [MS!Next]_(MS!vars) PROVE SessInv'
<1>1. CASE MS!ReadRequest
  BY <1>1, SessReadRequest
<1>2. CASE MS!ReadAnswer
  BY <1>2, SessReadAnswer
<1>3. CASE MS!Take
  BY <1>3, SessTake
<1>4. CASE MS!PassAnswer
  BY <1>4, SessPassAnswer
<1>5. CASE MS!Refuse
  BY <1>5, SessRefuse
<1>6. CASE MS!Forward
  BY <1>6, SessForward
<1>7. CASE MS!WarmSkips \/ MS!WarmLists \/ MS!ColdListed
  BY <1>7, SessWarms
<1>8. CASE MS!ListTimeout \/ MS!BackoffEnds
  <2>1. UNCHANGED <<method, sent, inbox, held, waiting, pump, forwarded, replies, generation, started>>
    BY <1>8 DEF MS!ListTimeout, MS!BackoffEnds, MS!client, MS!corr, MS!gateA
  <2> QED BY <2>1, SessQuiet
<1>9. CASE \E r \in MS!ClientRequests, w \in BOOLEAN : MS!ServerAnswers(r, w)
  BY <1>9, SessServerAnswers DEF MS!ClientRequests, Reqs
<1>10. CASE \E a \in BOOLEAN : MS!ServerListsTools(a)
  <2>1. UNCHANGED <<method, sent, inbox, held, waiting, pump, forwarded, replies, generation, started>>
    BY <1>10 DEF MS!ServerListsTools, MS!client, MS!corr, MS!gateA
  <2> QED BY <2>1, SessQuiet
<1>11. CASE MS!ServerAsks
  <2>1. UNCHANGED <<method, sent, inbox, held, waiting, pump, forwarded, replies, generation, started>>
    BY <1>11 DEF MS!ServerAsks, MS!client, MS!corr, MS!gateA
  <2> QED BY <2>1, SessQuiet
<1>12. CASE MS!ClientCloses \/ MS!Stop
  <2>1. UNCHANGED <<method, sent, inbox, held, waiting, pump, forwarded, replies, generation, started>>
    BY <1>12 DEF MS!ClientCloses, MS!Stop, MS!client, MS!corr, MS!cold, MS!gateA
  <2> QED BY <2>1, SessQuiet
<1>13. CASE UNCHANGED MS!vars
  <2>1. UNCHANGED <<method, sent, inbox, held, waiting, pump, forwarded, replies, generation, started>>
    BY <1>13 DEF MS!vars, MS!client, MS!corr, MS!cold, MS!gateA
  <2> QED BY <2>1, SessQuiet
<1> QED BY <1>1, <1>2, <1>3, <1>4, <1>5, <1>6, <1>7, <1>8, <1>9, <1>10, <1>11, <1>12, <1>13 DEF MS!Next

\* The instance counts as this module does.
LEMMA SameCardinality == \A S : MS!Cardinality(S) = Cardinality(S)
  BY Zenon DEF MS!Cardinality, Cardinality, MS!IsFiniteSet, IsFiniteSet

\* The invariant implies what a session promises.
LEMMA SessShows ==
    ASSUME SessionConstants, SessInv
    PROVE  MS!AnsweredOnce /\ MS!HeldIsNotAnswered /\ MS!HeldIsInThePump /\ MS!OnlyFullMapsLose
<1>1. MS!ClientRequests = Reqs
  BY DEF MS!ClientRequests, Reqs
<1>2. \A x \in Reqs : DOMAIN replies[x] = 1 .. Len(replies[x])
  BY DEF SessInv, SessTypes
<1>3. (\A x : x \in MS!ToSet(inbox) <=> Has(inbox, x)) /\ (\A x : x \in MS!ToSet(held) <=> Has(held, x)) /\ (\A x : x \in MS!ToSet(waiting) <=> Has(waiting, x))
  <2>1. DOMAIN inbox = 1 .. Len(inbox) /\ DOMAIN held = 1 .. Len(held) /\ DOMAIN waiting = 1 .. Len(waiting)
    BY DEF SessInv, SessTypes
  <2> QED BY <2>1 DEF MS!ToSet, Has
<1>4. MS!AnsweredOnce
  BY <1>1 DEF MS!AnsweredOnce, SessInv, OneAnswer
<1>5. MS!HeldIsNotAnswered
  BY <1>1, <1>2 DEF MS!HeldIsNotAnswered, SessInv, ByServer
<1>6. MS!HeldIsInThePump
  BY <1>3 DEF MS!HeldIsInThePump, SessInv, HeldInPump
<1>7. MS!OnlyFullMapsLose
  BY <1>1, <1>3, SameCardinality DEF MS!OnlyFullMapsLose, MS!Lost, SessInv, LostToFull, Later
<1> QED BY <1>4, <1>5, <1>6, <1>7

(* Whatever the server sends and whenever, a client request of an MCP      *)
(* session over stdio gets at most one answer, and the server's only if    *)
(* the request was forwarded; a held request is on its way through the     *)
(* pump; and a request is lost only when Cap later ones were forwarded:    *)
(* for any number of requests and any bound of the maps (Correlation,      *)
(* _PendingMap, on_server_message).                                        *)
THEOREM SessionHolds ==
    ASSUME SessionConstants
    PROVE  MS!Spec => [](MS!AnsweredOnce /\ MS!HeldIsNotAnswered /\ MS!HeldIsInThePump /\ MS!OnlyFullMapsLose)
<1>1. MS!Init => SessInv
  BY SessStarts
<1>2. SessInv /\ [MS!Next]_(MS!vars) => SessInv'
  BY SessNext
<1>3. SessInv => MS!AnsweredOnce /\ MS!HeldIsNotAnswered /\ MS!HeldIsInThePump /\ MS!OnlyFullMapsLose
  BY SessShows
<1> QED BY <1>1, <1>2, <1>3, PTL DEF MS!Spec

\* The catalogue of a client that has listed: the proxy's own listing is out of date.
ListInv ==
    /\ generation \in Nat /\ started \in Nat /\ started <= generation /\ listed \in BOOLEAN
    /\ catalog = "client" => listed
    /\ catalog = "client" /\ pump.at = "listing" => started < generation

\* Every step keeps the invariant, and the listing of the client.
LEMMA ListNext == ASSUME ListInv, [MS!Next]_(MS!vars) PROVE ListInv' /\ (catalog = "client" => catalog' = "client")
<1>1. CASE MS!WarmLists
  BY <1>1 DEF MS!WarmLists, MS!gateA, ListInv
<1>2. CASE MS!ColdListed
  <2>1. /\ pump' = [pump EXCEPT !.at = "evaluate"] /\ pump.at = "listing" /\ UNCHANGED <<generation, started>>
        /\ catalog' = MS!ColdResult /\ listed' = (listed \/ own = "done")
    BY <1>2 DEF MS!ColdListed
  <2>2. catalog = "client" => catalog' = "client"
    BY <2>1 DEF MS!ColdResult, ListInv
  <2>3. catalog' = "client" => catalog = "client"
    BY <2>1 DEF MS!ColdResult
  <2>4. catalog' = "client" => listed'
    BY <2>1, <2>3 DEF ListInv
  <2>5. listed' \in BOOLEAN
    BY <2>1
  <2>6. pump'.at # "listing"
    BY <2>1
  <2> QED BY <2>1, <2>2, <2>4, <2>5, <2>6 DEF ListInv
<1>3. CASE \E r \in MS!ClientRequests, w \in BOOLEAN : MS!ServerAnswers(r, w)
  <2>1. UNCHANGED <<pump, started>> /\ (UNCHANGED <<listed, generation, catalog>> \/ (listed' = TRUE /\ generation' = generation + 1 /\ catalog' = "client"))
    BY <1>3 DEF MS!ServerAnswers, MS!gateA, MS!cold
  <2>2. CASE UNCHANGED <<listed, generation, catalog>>
    BY <2>1, <2>2 DEF ListInv
  <2>3. CASE listed' = TRUE /\ generation' = generation + 1 /\ catalog' = "client"
    <3>1. listed' \in BOOLEAN /\ listed'
      BY <2>3
    <3>2. generation' \in Nat /\ started' \in Nat /\ started' < generation' /\ started' <= generation'
      BY <2>1, <2>3 DEF ListInv
    <3> QED BY <2>3, <3>1, <3>2 DEF ListInv
  <2> QED BY <2>1, <2>2, <2>3
<1>4. CASE MS!Take \/ MS!PassAnswer \/ MS!Refuse \/ MS!Forward \/ MS!WarmSkips
  <2>1. UNCHANGED <<generation, started, listed, catalog>>
    BY <1>4 DEF MS!Take, MS!PassAnswer, MS!Refuse, MS!Forward, MS!WarmSkips, MS!gateA, MS!cold
  <2>2. pump'.at # "listing"
    <3>1. CASE MS!Take
      <4>1. PICK p \in {"answer", "warm", "refuse", "forward"} : pump' = [at |-> p, req |-> Head(inbox)]
        BY <3>1 DEF MS!Take
      <4> QED BY <4>1
    <3>2. CASE MS!PassAnswer \/ MS!Refuse \/ MS!Forward
      <4>1. pump' = [at |-> "idle", req |-> 0]
        BY <3>2 DEF MS!PassAnswer, MS!Refuse, MS!Forward, MS!Idle
      <4> QED BY <4>1
    <3>3. CASE MS!WarmSkips
      <4>1. pump' = [pump EXCEPT !.at = "evaluate"]
        BY <3>3 DEF MS!WarmSkips
      <4> QED BY <4>1
    <3> QED BY <1>4, <3>1, <3>2, <3>3
  <2> QED BY <2>1, <2>2 DEF ListInv
<1>5. CASE \/ MS!ReadRequest \/ MS!ReadAnswer \/ MS!ListTimeout \/ MS!BackoffEnds
           \/ (\E a \in BOOLEAN : MS!ServerListsTools(a)) \/ MS!ServerAsks \/ MS!ClientCloses \/ MS!Stop \/ UNCHANGED MS!vars
  <2>1. UNCHANGED <<generation, started, listed, catalog, pump>>
    BY <1>5 DEF MS!ReadRequest, MS!ReadAnswer, MS!ListTimeout, MS!BackoffEnds, MS!ServerListsTools, MS!ServerAsks, MS!ClientCloses, MS!Stop, MS!vars, MS!gateA, MS!cold
  <2> QED BY <2>1 DEF ListInv
<1> QED BY <1>1, <1>2, <1>3, <1>4, <1>5 DEF MS!Next

(* The proxy's own tools/list never replaces a listing that the client was *)
(* given after the proxy asked, although its answer arrives beside the     *)
(* client's own (_cold_list_once, _client_list_generation).                *)
THEOREM ClientListingKept == MS!Spec => MS!ClientListingStands
<1>1. ASSUME MS!Init PROVE ListInv
  <2>1. generation = 0 /\ started = 0 /\ listed = FALSE /\ catalog = "none"
    BY <1>1 DEF MS!Init
  <2>2. listed \in BOOLEAN
    BY <2>1
  <2>3. catalog # "client"
    BY <2>1
  <2> QED BY <2>1, <2>2, <2>3 DEF ListInv
<1>2. ListInv /\ [MS!Next]_(MS!vars) => ListInv'
  BY ListNext
<1>3. ListInv /\ [MS!Next]_(MS!vars) => [MS!KeepsClientListing]_(MS!vars)
  BY ListNext DEF MS!KeepsClientListing
<1> QED BY <1>1, <1>2, <1>3, PTL DEF MS!Spec, MS!ClientListingStands

-----------------------------------------------------------------------------
(* What becomes of a pod at admission (PodInjection). *)

CONSTANTS Submissions, Injections, Words
VARIABLES admission, ruling

PI == INSTANCE PodInjection WITH Pods <- Submissions, Configs <- Injections, in <- admission, out <- ruling

\* Containers, pods and configurations over any words, among them the ones the webhook writes.
Containers == [name : Words, image : Words, cmd : Words, mounts : SUBSET Words, env : Words, route : Words]
PodSpecs == [app : Seq(Containers), init : Seq(Containers), volumes : SUBSET Words, asked : SUBSET Words, optOut : BOOLEAN]
Settings == [image : Words, mcp : BOOLEAN, proxy : Words, allowOptOut : BOOLEAN]
Literals == {"engine", "engine2", "none", "copy", "proxy", "right", "ours", "socket", "tmp", "stage", "mcp", PI!SidecarName, PI!McpInitName}
PodConstants == Literals \subseteq Words /\ Submissions \subseteq PodSpecs /\ Injections \subseteq Settings

\* What the patch leaves, whatever the configured image.
Injected(cfg, spec) ==
    /\ "socket" \in spec.volumes
    /\ \E c \in PI!Range(spec.app) : PI!Guard(c)
    /\ \A c \in PI!Range(spec.app) : PI!Guard(c) \/ PI!ContainerWired(c)
    /\ \A c \in PI!Range(spec.init) : PI!ContainerWired(c)
    /\ PI!McpFullyInjected(cfg, spec)

\* The elements of a list.
LEMMA RangeIs ==
    ASSUME NEW s
    PROVE  PI!Range(s) = {s[i] : i \in DOMAIN s}
  BY DEF PI!Range

\* Wiring, and wrapping, a container that nobody has wired.
LEMMA WiredIs ==
    ASSUME PodConstants, NEW c \in Containers, c.mounts \cap {"socket", "socketPath", "socketVolume"} = {}, c.env = "none"
    PROVE  /\ PI!WiredUp(c) \in Containers /\ PI!ContainerWired(PI!WiredUp(c)) /\ PI!WiredUp(c).name = c.name
           /\ PI!Wrapped(PI!WiredUp(c)) \in Containers /\ PI!ContainerWired(PI!Wrapped(PI!WiredUp(c)))
           /\ PI!Wrapped(PI!WiredUp(c)).name = c.name /\ PI!McpWrappedCorrectly(PI!Wrapped(PI!WiredUp(c)))
<1>1. PI!WiredUp(c) = [c EXCEPT !.mounts = @ \cup {"socket"}, !.env = "right"]
  BY DEF PI!WiredUp, PI!HasSocketMount, PI!HasSocketPathEnv
<1>2. PICK d : d = PI!WiredUp(c)
  OBVIOUS
<1>3. "right" \in Words /\ "socket" \in Words /\ "mcp" \in Words /\ "proxy" \in Words /\ "ours" \in Words
  BY DEF PodConstants, Literals
<1>4. PICK m, r : m = c.mounts \cup {"socket"} /\ m \in SUBSET Words /\ r = "right" /\ r \in Words
  <2>1. c.mounts \in SUBSET Words
    BY DEF Containers
  <2>2. c.mounts \cup {"socket"} \in SUBSET Words
    BY <1>3, <2>1
  <2> QED BY <1>3, <2>2, Zenon
<1>5. d = [c EXCEPT !.mounts = m, !.env = r]
  BY <1>1, <1>2, <1>4, Zenon
<1>6. d \in Containers
  BY <1>4, <1>5 DEF Containers
<1>7. d.mounts = m /\ d.env = r /\ d.name = c.name
  BY <1>5 DEF Containers
<1>8. PICK e, k, q, u : e = PI!Wrapped(d) /\ k = d.mounts \cup {"mcp"} /\ k \in SUBSET Words /\ q = "proxy" /\ q \in Words
                        /\ u = "ours" /\ u \in Words
  <2>1. d.mounts \in SUBSET Words
    BY <1>6 DEF Containers
  <2>2. d.mounts \cup {"mcp"} \in SUBSET Words
    BY <1>3, <2>1
  <2> QED BY <1>3, <2>2, Zenon
<1>9. e = [d EXCEPT !.cmd = q, !.mounts = k, !.route = u]
  BY <1>8, Zenon DEF PI!Wrapped
<1>10. e \in Containers
  BY <1>6, <1>8, <1>9 DEF Containers
<1>11. e.cmd = q /\ e.mounts = k /\ e.route = u /\ e.env = d.env /\ e.name = d.name
  BY <1>6, <1>9 DEF Containers
<1>12. "socket" \in d.mounts /\ "socket" \in e.mounts /\ "mcp" \in e.mounts
  BY <1>4, <1>7, <1>8, <1>11
<1> QED BY <1>2, <1>4, <1>6, <1>7, <1>8, <1>10, <1>11, <1>12 DEF PI!ContainerWired, PI!MountsNorviqSocketVolume, PI!McpWrappedCorrectly

\* Containers nobody has wired yet.
Bare(list) == \A i \in DOMAIN list : list[i].mounts \cap {"socket", "socketPath", "socketVolume"} = {} /\ list[i].env = "none"

\* Every container of a patched list is wired, and a server that is a target wrapped.
LEMMA PatchedListIs ==
    ASSUME PodConstants, NEW cfg, NEW spec, NEW kind, NEW list \in Seq(Containers), Bare(list), NEW L, L = PI!PatchedList(cfg, spec, kind, list)
    PROVE  /\ L \in Seq(Containers) /\ Len(L) = Len(list) /\ DOMAIN L = DOMAIN list
           /\ \A i \in DOMAIN list : /\ L[i] \in Containers /\ PI!ContainerWired(L[i]) /\ L[i].name = list[i].name
                                     /\ cfg.mcp /\ PI!IsTarget(spec, kind, i) => PI!McpWrappedCorrectly(L[i])
<1>1. DOMAIN L = DOMAIN list /\ DOMAIN list = 1..Len(list) /\ Len(list) \in Nat
  BY DEF PI!PatchedList
<1>2. ASSUME NEW i \in DOMAIN list
      PROVE  /\ L[i] \in Containers /\ PI!ContainerWired(L[i]) /\ L[i].name = list[i].name
             /\ cfg.mcp /\ PI!IsTarget(spec, kind, i) => PI!McpWrappedCorrectly(L[i])
  <2>1. PICK c \in Containers : c = list[i]
    BY <1>2
  <2>2. L[i] = IF cfg.mcp /\ PI!IsTarget(spec, kind, i) THEN PI!Wrapped(PI!WiredUp(c)) ELSE PI!WiredUp(c)
    BY <1>2, <2>1 DEF PI!PatchedList
  <2>3. c.mounts \cap {"socket", "socketPath", "socketVolume"} = {} /\ c.env = "none"
    BY <1>2, <2>1 DEF Bare
  <2> QED BY <2>1, <2>2, <2>3, WiredIs
<1>3. L \in [1..Len(list) -> Containers]
  <2>1. L = [i \in DOMAIN list |-> IF cfg.mcp /\ PI!IsTarget(spec, kind, i) THEN PI!Wrapped(PI!WiredUp(list[i])) ELSE PI!WiredUp(list[i])]
    BY DEF PI!PatchedList
  <2>2. L = [i \in 1..Len(list) |-> L[i]]
    BY <1>1, <2>1
  <2> QED BY <1>1, <1>2, <2>2
<1>4. L \in Seq(Containers) /\ Len(L) = Len(list)
  BY <1>1, <1>3
<1> QED BY <1>1, <1>2, <1>4

\* No two containers of a pod have the same name.
DistinctNames(a, n) ==
    /\ \A i, j \in DOMAIN a : a[i].name = a[j].name => i = j
    /\ \A i, j \in DOMAIN n : n[i].name = n[j].name => i = j
    /\ \A i \in DOMAIN n, j \in DOMAIN a : n[i].name # a[j].name

\* That is what Kubernetes asks of a pod.
LEMMA UniqueIs ==
    ASSUME NEW p, NEW a \in Seq(Containers), NEW n \in Seq(Containers), a = p.app, n = p.init, PI!UniqueNames(p)
    PROVE  DistinctNames(a, n)
<1>1. PICK both : both = n \o a
  OBVIOUS
<1>2. \A i, j \in DOMAIN both : both[i].name = both[j].name => i = j
  BY <1>1, Zenon DEF PI!UniqueNames
<1>3. PICK p1 \in Nat, q1 \in Nat : /\ p1 = Len(n) /\ q1 = Len(a) /\ DOMAIN n = 1..p1 /\ DOMAIN a = 1..q1
                                    /\ DOMAIN both = 1..(p1 + q1)
  <2>1. Len(n) \in Nat /\ DOMAIN n = 1..Len(n) /\ Len(a) \in Nat /\ DOMAIN a = 1..Len(a)
    OBVIOUS
  <2>2. both \in Seq(Containers) /\ Len(both) = Len(n) + Len(a)
    BY <1>1, ConcatProperties
  <2>3. DOMAIN both = 1..(Len(n) + Len(a))
    BY <2>2
  <2> QED BY <2>1, <2>3, Zenon
<1>0. \A i \in 1..(p1 + q1) : both[i] = IF i <= p1 THEN n[i] ELSE a[i - p1]
  BY <1>1, <1>3, ConcatProperties
<1>4. ASSUME NEW i \in 1..p1 PROVE i \in DOMAIN both /\ both[i] = n[i]
  <2>1. i \in 1..(p1 + q1) /\ i <= p1
    BY <1>4
  <2> QED BY <1>0, <1>3, <2>1
<1>5. ASSUME NEW i \in 1..q1 PROVE p1 + i \in DOMAIN both /\ both[p1 + i] = a[i]
  <2>1. p1 + i \in 1..(p1 + q1) /\ ~ (p1 + i <= p1) /\ (p1 + i) - p1 = i
    BY <1>5
  <2> QED BY <1>0, <1>3, <2>1
<1>6. ASSUME NEW i \in 1..q1, NEW j \in 1..q1, a[i].name = a[j].name PROVE i = j
  <2>1. p1 + i = p1 + j
    BY <1>2, <1>5, <1>6
  <2> QED BY <2>1
<1>7. ASSUME NEW i \in 1..p1, NEW j \in 1..p1, n[i].name = n[j].name PROVE i = j
  BY <1>2, <1>4, <1>7
<1>8. ASSUME NEW i \in 1..p1, NEW j \in 1..q1, n[i].name = a[j].name PROVE FALSE
  <2>1. i = p1 + j
    BY <1>2, <1>4, <1>5, <1>8
  <2> QED BY <2>1
<1> QED BY <1>3, <1>6, <1>7, <1>8 DEF DistinctNames

\* What a pod that is to be injected does not have.
LEMMA InjectIsBare ==
    ASSUME NEW cfg, NEW spec \in PodSpecs, PI!ClassifyPod(cfg, spec) = "inject"
    PROVE  Bare(spec.app) /\ Bare(spec.init)
<1>1. ~PI!EnforcementArtifact(cfg, spec)
  BY DEF PI!ClassifyPod
<1>2. \A c \in PI!Range(spec.app) \cup PI!Range(spec.init) :
         c.mounts \cap {"socket", "socketPath", "socketVolume"} = {} /\ c.env = "none"
  BY <1>1 DEF PI!EnforcementArtifact, PI!AllPodContainers, PI!HasSocketMount, PI!HasSocketPathEnv
<1>3. PICK a, n : a = spec.app /\ n = spec.init
  OBVIOUS
<1>4. \A i \in DOMAIN a : a[i] \in PI!Range(a)
  BY RangeIs
<1>5. \A i \in DOMAIN n : n[i] \in PI!Range(n)
  BY RangeIs
<1> QED BY <1>2, <1>3, <1>4, <1>5 DEF Bare

\* The pod that the patch makes, part by part.
LEMMA PatchIs ==
    ASSUME PodConstants, NEW cfg \in Settings, NEW spec \in PodSpecs, Bare(spec.app), Bare(spec.init),
           NEW new, new = PI!CreatePatch(cfg, spec)
    PROVE  \E A \in Seq(Containers), I \in Seq(Containers) :
             /\ A = PI!PatchedList(cfg, spec, "app", spec.app) /\ I = PI!PatchedList(cfg, spec, "init", spec.init)
             /\ new.app = A \o <<PI!Sidecar(cfg)>>
             /\ new.init = (IF PI!AsksMcp(cfg, spec) THEN <<PI!McpInitContainer(cfg)>> ELSE <<>>) \o I
             /\ new.volumes = spec.volumes \cup {"socket", "tmp"} \cup (IF PI!AsksMcp(cfg, spec) THEN {"mcp"} ELSE {})
             /\ new.asked = spec.asked /\ new.optOut = spec.optOut
<1>1. spec.app \in Seq(Containers) /\ spec.init \in Seq(Containers)
  BY DEF PodSpecs
<1>2. PICK A \in Seq(Containers), I \in Seq(Containers) :
         A = PI!PatchedList(cfg, spec, "app", spec.app) /\ I = PI!PatchedList(cfg, spec, "init", spec.init)
  <2>1. PICK A, I : A = PI!PatchedList(cfg, spec, "app", spec.app) /\ I = PI!PatchedList(cfg, spec, "init", spec.init)
    OBVIOUS
  <2>2. A \in Seq(Containers) /\ I \in Seq(Containers)
    BY <1>1, <2>1, PatchedListIs
  <2> QED BY <2>1, <2>2
<1>3. PICK x, y, z : /\ x = A \o <<PI!Sidecar(cfg)>>
                     /\ y = (IF PI!AsksMcp(cfg, spec) THEN <<PI!McpInitContainer(cfg)>> ELSE <<>>) \o I
                     /\ z = spec.volumes \cup {"socket", "tmp"} \cup (IF PI!AsksMcp(cfg, spec) THEN {"mcp"} ELSE {})
  OBVIOUS
<1>4. new = [spec EXCEPT !.app = x, !.init = y, !.volumes = z]
  BY <1>2, <1>3, Zenon DEF PI!CreatePatch, PI!PatchedInit
<1>5. new.app = x /\ new.init = y /\ new.volumes = z /\ new.asked = spec.asked /\ new.optOut = spec.optOut
  BY <1>4 DEF PodSpecs
<1> QED BY <1>2, <1>3, <1>5

\* The containers that the injector adds.
LEMMA AddedAre ==
    ASSUME PodConstants, NEW cfg \in Settings, PI!IsAllowedSidecarImage(cfg.image), NEW s, s = PI!Sidecar(cfg), NEW k, k = PI!McpInitContainer(cfg)
    PROVE  /\ s \in Containers /\ PI!Guard(s)
           /\ k \in Containers /\ PI!ContainerWired(k) /\ PI!IsInjectorMcpInitContainer(cfg, k) /\ k.cmd = "copy"
<1>1. PICK i, p : i = cfg.image /\ p = cfg.proxy /\ i \in Words /\ p \in Words
  BY DEF Settings
<1>2. s = [name |-> PI!SidecarName, image |-> i, cmd |-> "none", mounts |-> {"socket", "tmp"}, env |-> "right", route |-> "ours"]
  BY <1>1, Zenon DEF PI!Sidecar, PI!Container
<1>3. k = [name |-> PI!McpInitName, image |-> p, cmd |-> "copy", mounts |-> {"stage", "socket"}, env |-> "right", route |-> "none"]
  BY <1>1, Zenon DEF PI!McpInitContainer, PI!Container
<1>4. Literals \subseteq Words
  BY DEF PodConstants
<1>5. /\ PI!SidecarName \in Words /\ PI!McpInitName \in Words /\ "none" \in Words /\ "copy" \in Words /\ "right" \in Words
      /\ "ours" \in Words /\ {"socket", "tmp"} \in SUBSET Words /\ {"stage", "socket"} \in SUBSET Words
  BY <1>4 DEF Literals
<1>6. s \in Containers /\ k \in Containers
  BY <1>1, <1>2, <1>3, <1>5 DEF Containers
<1>7. i \in {"engine", "engine2"}
  BY <1>1 DEF PI!IsAllowedSidecarImage
<1>8. PI!Guard(s)
  BY <1>2, <1>7 DEF PI!Guard
<1>9. k.name = PI!McpInitName /\ k.image = p /\ k.cmd = "copy" /\ k.mounts = {"stage", "socket"} /\ k.env = "right"
  BY <1>3
<1>10. PI!ContainerWired(k) /\ PI!IsInjectorMcpInitContainer(cfg, k)
  BY <1>1, <1>9 DEF PI!ContainerWired, PI!MountsNorviqSocketVolume, PI!IsInjectorMcpInitContainer
<1> QED BY <1>6, <1>8, <1>9, <1>10


\* A list with one more container at its end.
AtEnd(x, A, s) ==
    /\ x \in Seq(Containers) /\ s \in PI!Range(x)
    /\ \A i \in DOMAIN A : i \in DOMAIN x /\ x[i] = A[i]
    /\ \A c \in PI!Range(x) : c = s \/ \E i \in DOMAIN A : c = A[i]
\* And at its start.
AtStart(y, I, k) ==
    /\ y \in Seq(Containers) /\ Len(y) > 0 /\ y[1] = k /\ k \in PI!Range(y)
    /\ \A i \in DOMAIN I : 1 + i \in DOMAIN y /\ y[1 + i] = I[i]
    /\ \A c \in PI!Range(y) : c = k \/ \E i \in DOMAIN I : c = I[i]

\* The sidecar comes last.
LEMMA EndIs ==
    ASSUME NEW A \in Seq(Containers), NEW s \in Containers, NEW x, x = A \o <<s>>
    PROVE  AtEnd(x, A, s)
<1>1. PICK n \in Nat : n = Len(A) /\ DOMAIN A = 1..n
  OBVIOUS
<1>2. <<s>> \in Seq(Containers) /\ Len(<<s>>) = 1 /\ <<s>>[1] = s
  OBVIOUS
<1>3. x \in Seq(Containers) /\ Len(x) = n + 1 /\ \A i \in 1..(n + 1) : x[i] = IF i <= n THEN A[i] ELSE <<s>>[i - n]
  BY <1>1, <1>2, ConcatProperties
<1>4. DOMAIN x = 1..(n + 1)
  BY <1>3
<1>5. ASSUME NEW i \in 1..n PROVE i \in DOMAIN x /\ x[i] = A[i]
  <2>1. i \in 1..(n + 1) /\ i <= n
    BY <1>5
  <2> QED BY <1>3, <1>4, <2>1
<1>6. n + 1 \in 1..(n + 1) /\ ~(n + 1 <= n) /\ (n + 1) - n = 1
  OBVIOUS
<1>7. x[n + 1] = s
  BY <1>2, <1>3, <1>6
<1>8. ASSUME NEW c \in PI!Range(x) PROVE c = s \/ \E i \in DOMAIN A : c = A[i]
  <2>1. PICK i \in 1..(n + 1) : c = x[i]
    BY <1>4, <1>8, RangeIs
  <2>2. i = n + 1 \/ i \in 1..n
    BY <2>1
  <2> QED BY <1>1, <1>5, <1>7, <2>1, <2>2
<1>9. s \in PI!Range(x)
  BY <1>4, <1>6, <1>7, RangeIs
<1> QED BY <1>1, <1>3, <1>5, <1>8, <1>9 DEF AtEnd

\* The copying container comes first.
LEMMA StartIs ==
    ASSUME NEW I \in Seq(Containers), NEW k \in Containers, NEW y, y = <<k>> \o I
    PROVE  AtStart(y, I, k)
<1>1. PICK n \in Nat : n = Len(I) /\ DOMAIN I = 1..n
  OBVIOUS
<1>2. <<k>> \in Seq(Containers) /\ Len(<<k>>) = 1 /\ <<k>>[1] = k
  OBVIOUS
<1>3. y \in Seq(Containers) /\ Len(y) = 1 + n /\ \A i \in 1..(1 + n) : y[i] = IF i <= 1 THEN <<k>>[i] ELSE I[i - 1]
  BY <1>1, <1>2, ConcatProperties
<1>4. DOMAIN y = 1..(1 + n)
  BY <1>3
<1>5. ASSUME NEW i \in 1..n PROVE 1 + i \in DOMAIN y /\ y[1 + i] = I[i]
  <2>1. 1 + i \in 1..(1 + n) /\ ~(1 + i <= 1) /\ (1 + i) - 1 = i
    BY <1>5
  <2> QED BY <1>3, <1>4, <2>1
<1>6. 1 \in 1..(1 + n) /\ 1 <= 1
  OBVIOUS
<1>7. y[1] = k
  BY <1>2, <1>3, <1>6
<1>8. ASSUME NEW c \in PI!Range(y) PROVE c = k \/ \E i \in DOMAIN I : c = I[i]
  <2>1. PICK i \in 1..(1 + n) : c = y[i]
    BY <1>4, <1>8, RangeIs
  <2>2. i = 1 \/ (i - 1 \in 1..n /\ ~(i <= 1))
    BY <2>1
  <2> QED BY <1>1, <1>3, <1>7, <2>1, <2>2
<1>9. k \in PI!Range(y)
  BY <1>4, <1>6, <1>7, RangeIs
<1>10. Len(y) > 0
  BY <1>3
<1>11. y \in Seq(Containers)
  BY <1>3
<1>12. \A i \in DOMAIN I : 1 + i \in DOMAIN y /\ y[1 + i] = I[i]
  BY <1>1, <1>5
<1> QED BY <1>7, <1>8, <1>9, <1>10, <1>11, <1>12 DEF AtStart

\* A server is behind the proxy.
Behind(name, A, I) ==
    \/ \E i \in DOMAIN A : A[i].name = name /\ PI!McpWrappedCorrectly(A[i])
    \/ \E i \in DOMAIN I : I[i].name = name /\ PI!McpWrappedCorrectly(I[i])

\* Every server that a pod names is behind the proxy once its lists are patched.
LEMMA ServersAreWrapped ==
    ASSUME PodConstants, NEW cfg, NEW spec \in PodSpecs, Bare(spec.app), Bare(spec.init), cfg.mcp, ~PI!McpTargetsFail(cfg, spec), spec.asked # {},
           NEW A, A = PI!PatchedList(cfg, spec, "app", spec.app), NEW I, I = PI!PatchedList(cfg, spec, "init", spec.init),
           DistinctNames(A, I), NEW name \in spec.asked
    PROVE  Behind(name, A, I)
<1>1. PICK a \in Seq(Containers), n \in Seq(Containers) : a = spec.app /\ n = spec.init
  BY DEF PodSpecs
<1>2. /\ DOMAIN A = DOMAIN a
      /\ \A i \in DOMAIN a : A[i].name = a[i].name /\ (PI!IsTarget(spec, "app", i) => PI!McpWrappedCorrectly(A[i]))
  BY <1>1, PatchedListIs
<1>3. /\ DOMAIN I = DOMAIN n
      /\ \A i \in DOMAIN n : I[i].name = n[i].name /\ (PI!IsTarget(spec, "init", i) => PI!McpWrappedCorrectly(I[i]))
  BY <1>1, PatchedListIs
<1>4. PICK c \in PI!AllPodContainers(spec) : c.name = name
  BY DEF PI!McpTargetsFail
<1>5. CASE c \in PI!Range(a)
  <2>1. PICK i \in DOMAIN a : c = a[i]
    BY <1>5, RangeIs
  <2>2. DOMAIN a = 1..Len(a) /\ Len(a) \in Nat
    BY <1>1
  <2>3. \A k \in 1..(i - 1) : k \in DOMAIN a /\ k # i
    BY <2>1, <2>2
  <2>4. \A k \in 1..(i - 1) : a[k].name # a[i].name
    BY <1>2, <2>1, <2>3 DEF DistinctNames
  <2>5. PI!IsTarget(spec, "app", i)
    BY <1>1, <1>4, <2>1, <2>4 DEF PI!IsTarget
  <2> QED BY <1>2, <1>4, <2>1, <2>5 DEF Behind
<1>6. CASE c \in PI!Range(n)
  <2>1. PICK i \in DOMAIN n : c = n[i]
    BY <1>6, RangeIs
  <2>2. DOMAIN n = 1..Len(n) /\ Len(n) \in Nat
    BY <1>1
  <2>3. \A k \in 1..(i - 1) : k \in DOMAIN n /\ k # i
    BY <2>1, <2>2
  <2>4. \A k \in 1..(i - 1) : n[k].name # n[i].name
    BY <1>3, <2>1, <2>3 DEF DistinctNames
  <2>5. \A d \in PI!Range(a) : d.name # n[i].name
    BY <1>2, <1>3, <2>1, RangeIs DEF DistinctNames
  <2>6. PI!IsTarget(spec, "init", i)
    BY <1>1, <1>4, <2>1, <2>4, <2>5 DEF PI!IsTarget
  <2> QED BY <1>3, <1>4, <2>1, <2>6 DEF Behind
<1> QED BY <1>1, <1>4, <1>5, <1>6 DEF PI!AllPodContainers

\* The patch makes a governed pod, which the webhook will take for its own.
LEMMA PatchInjects ==
    ASSUME PodConstants, NEW cfg \in Settings, NEW spec \in PodSpecs, Bare(spec.app), Bare(spec.init), ~PI!McpTargetsFail(cfg, spec),
           PI!IsAllowedSidecarImage(cfg.image), NEW new, new = PI!CreatePatch(cfg, spec), PI!UniqueNames(new)
    PROVE  new \in PodSpecs /\ Injected(cfg, new) /\ PI!Governed(cfg, new)
<1>1. PICK A \in Seq(Containers), I \in Seq(Containers) :
             /\ A = PI!PatchedList(cfg, spec, "app", spec.app) /\ I = PI!PatchedList(cfg, spec, "init", spec.init)
             /\ new.app = A \o <<PI!Sidecar(cfg)>>
             /\ new.init = (IF PI!AsksMcp(cfg, spec) THEN <<PI!McpInitContainer(cfg)>> ELSE <<>>) \o I
             /\ new.volumes = spec.volumes \cup {"socket", "tmp"} \cup (IF PI!AsksMcp(cfg, spec) THEN {"mcp"} ELSE {})
             /\ new.asked = spec.asked /\ new.optOut = spec.optOut
  BY PatchIs
<1>2. PICK s \in Containers, k \in Containers :
             /\ s = PI!Sidecar(cfg) /\ k = PI!McpInitContainer(cfg)
             /\ PI!Guard(s) /\ PI!ContainerWired(k) /\ PI!IsInjectorMcpInitContainer(cfg, k) /\ k.cmd = "copy"
  BY AddedAre
<1>3. spec.app \in Seq(Containers) /\ spec.init \in Seq(Containers)
  BY DEF PodSpecs
<1>4. (\A i \in DOMAIN A : PI!ContainerWired(A[i])) /\ (\A i \in DOMAIN I : PI!ContainerWired(I[i]))
  BY <1>1, <1>3, PatchedListIs
<1>5. PICK x, y : x = new.app /\ y = new.init
  OBVIOUS
<1>6. /\ x \in Seq(Containers) /\ s \in PI!Range(x)
      /\ \A i \in DOMAIN A : i \in DOMAIN x /\ x[i] = A[i]
      /\ \A c \in PI!Range(x) : c = s \/ \E i \in DOMAIN A : c = A[i]
  <2>1. x = A \o <<s>> /\ A \in Seq(Containers) /\ s \in Containers
    BY <1>1, <1>2, <1>5
  <2>2. AtEnd(x, A, s)
    BY <2>1, EndIs
  <2> QED BY <2>2 DEF AtEnd
<1>7. \A c \in PI!Range(x) : PI!Guard(c) \/ PI!ContainerWired(c)
  BY <1>2, <1>4, <1>6
<1>8. /\ y \in Seq(Containers) /\ \A c \in PI!Range(y) : PI!ContainerWired(c)
      /\ \E d \in Nat : \A i \in DOMAIN I : d + i \in DOMAIN y /\ y[d + i] = I[i]
      /\ PI!AsksMcp(cfg, spec) => Len(y) > 0 /\ y[1] = k /\ k \in PI!Range(y)
  <2>1. CASE PI!AsksMcp(cfg, spec)
    <3>1. y = <<k>> \o I
      BY <1>1, <1>2, <1>5, <2>1
    <3>2. /\ y \in Seq(Containers) /\ Len(y) > 0 /\ y[1] = k /\ k \in PI!Range(y)
          /\ \A i \in DOMAIN I : 1 + i \in DOMAIN y /\ y[1 + i] = I[i]
          /\ \A c \in PI!Range(y) : c = k \/ \E i \in DOMAIN I : c = I[i]
      <4>1. I \in Seq(Containers) /\ k \in Containers
        BY <1>1, <1>2
      <4>2. AtStart(y, I, k)
        BY <3>1, <4>1, StartIs
      <4> QED BY <4>2 DEF AtStart
    <3> QED BY <1>2, <1>4, <3>2
  <2>2. CASE ~PI!AsksMcp(cfg, spec)
    <3>1. y = I
      BY <1>1, <1>5, <2>2, ConcatEmptySeq
    <3>2. \A i \in DOMAIN I : 0 + i = i
      BY <1>1
    <3>3. \A c \in PI!Range(I) : \E i \in DOMAIN I : c = I[i]
      BY RangeIs
    <3> QED BY <1>1, <1>4, <2>2, <3>1, <3>2, <3>3
  <2> QED BY <2>1, <2>2
<1>9. new \in PodSpecs
  <2>1. PICK z : z = new.volumes /\ z \in SUBSET Words
    <3>1. spec.volumes \in SUBSET Words
      BY DEF PodSpecs
    <3>2. {"socket", "tmp"} \subseteq Words /\ (IF PI!AsksMcp(cfg, spec) THEN {"mcp"} ELSE {}) \subseteq Words
      BY DEF PodConstants, Literals
    <3> QED BY <1>1, <3>1, <3>2
  <2>2. new = [spec EXCEPT !.app = x, !.init = y, !.volumes = z]
    <3>1. PICK x1, y1, z1 : new = [spec EXCEPT !.app = x1, !.init = y1, !.volumes = z1]
      BY Zenon DEF PI!CreatePatch
    <3>2. new.app = x1 /\ new.init = y1 /\ new.volumes = z1
      BY <3>1 DEF PodSpecs
    <3> QED BY <1>5, <2>1, <3>1, <3>2
  <2> QED BY <1>6, <1>8, <2>1, <2>2 DEF PodSpecs
<1>10. DistinctNames(A, I)
  <2>1. DistinctNames(x, y)
    <3>1. x \in Seq(Containers) /\ y \in Seq(Containers)
      BY <1>6, <1>8
    <3> QED BY <1>5, <3>1, UniqueIs
  <2>2. PICK d \in Nat : \A i \in DOMAIN I : d + i \in DOMAIN y /\ y[d + i] = I[i]
    BY <1>8
  <2>3. DOMAIN I = 1..Len(I) /\ Len(I) \in Nat
    BY <1>1
  <2>4. ASSUME NEW i \in DOMAIN I, NEW j \in DOMAIN I, I[i].name = I[j].name PROVE i = j
    <3>1. d + i = d + j
      BY <2>1, <2>2, <2>4 DEF DistinctNames
    <3>2. i \in Int /\ j \in Int
      BY <2>3, <2>4
    <3> QED BY <2>2, <3>1, <3>2
  <2> QED BY <1>6, <2>1, <2>2, <2>4 DEF DistinctNames
<1>11. PI!McpFullyInjected(cfg, new)
  <2> SUFFICES ASSUME cfg.mcp, spec.asked # {}
               PROVE  /\ "mcp" \in new.volumes
                      /\ \E c \in PI!Range(new.init) : PI!IsInjectorMcpInitContainer(cfg, c)
                      /\ \A name \in spec.asked : \E c \in PI!AllPodContainers(new) : c.name = name /\ PI!McpWrappedCorrectly(c)
    BY <1>1, Zenon DEF PI!McpFullyInjected
  <2>1. PI!AsksMcp(cfg, spec)
    BY DEF PI!AsksMcp
  <2>2. "mcp" \in new.volumes
    BY <1>1, <2>1
  <2>3. \E c \in PI!Range(new.init) : PI!IsInjectorMcpInitContainer(cfg, c)
    BY <1>2, <1>5, <1>8, <2>1
  <2>4. ASSUME NEW name \in spec.asked PROVE \E c \in PI!AllPodContainers(new) : c.name = name /\ PI!McpWrappedCorrectly(c)
    <3>1. Behind(name, A, I)
      BY <1>1, <1>10, <2>4, ServersAreWrapped
    <3>2. \A i \in DOMAIN A : A[i] \in PI!Range(x)
      BY <1>6, RangeIs
    <3>3. \A i \in DOMAIN I : I[i] \in PI!Range(y)
      BY <1>8, RangeIs
    <3> QED BY <1>5, <3>1, <3>2, <3>3 DEF PI!AllPodContainers, Behind
  <2> QED BY <2>2, <2>3, <2>4
<1>12. Injected(cfg, new)
  BY <1>1, <1>2, <1>5, <1>6, <1>7, <1>8, <1>11 DEF Injected
<1>13. PI!Governed(cfg, new)
  <2>1. \A c \in PI!Range(new.app) \cup PI!Range(new.init) : PI!Guard(c) \/ ("socket" \in c.mounts /\ c.env = "right")
    BY <1>5, <1>7, <1>8 DEF PI!ContainerWired, PI!MountsNorviqSocketVolume
  <2>2. ASSUME cfg.mcp, spec.asked # {}
        PROVE  Len(new.init) > 0 /\ new.init[1].cmd = "copy"
    BY <1>2, <1>5, <1>8, <2>2 DEF PI!AsksMcp
  <2>3. ASSUME cfg.mcp, spec.asked # {}, NEW name \in spec.asked
        PROVE  \E c \in PI!Range(new.app) \cup PI!Range(new.init) : c.name = name /\ c.cmd = "proxy" /\ "mcp" \in c.mounts
    BY <1>1, <1>11, <2>3 DEF PI!McpFullyInjected, PI!AllPodContainers, PI!McpWrappedCorrectly
  <2>4. \E c \in PI!Range(new.app) : PI!Guard(c)
    BY <1>2, <1>5, <1>6
  <2>5. ASSUME cfg.mcp, new.asked # {}
        PROVE  /\ \A n \in new.asked : \E c \in PI!Range(new.app) \cup PI!Range(new.init) :
                                          c.name = n /\ c.cmd = "proxy" /\ "mcp" \in c.mounts
               /\ Len(new.init) > 0 /\ new.init[1].cmd = "copy"
    BY <1>1, <2>2, <2>3, <2>5, Zenon
  <2> QED BY <2>1, <2>4, <2>5, Zenon DEF PI!Governed
<1> QED BY <1>9, <1>12, <1>13

\* The webhook takes an injected pod for its own, unless another container runs the sidecar's image.
LEMMA InjectedSkips ==
    ASSUME NEW cfg, NEW spec, Injected(cfg, spec), ~PI!SharesTheImage(cfg, spec), cfg.image \in {"engine", "engine2"}
    PROVE  PI!ClassifyPod(cfg, spec) = "skip"
<1>1. ASSUME NEW c, PI!Guard(c) PROVE PI!IsTrustedSidecar(cfg, c)
  BY <1>1 DEF PI!Guard, PI!IsTrustedSidecar, PI!IsSidecarContainer, PI!HasSocketMount, PI!SameName, PI!IsAllowedSidecarImage, PI!SidecarRoutingTrusted
<1>2. PI!FullyInjected(cfg, spec)
  BY <1>1 DEF Injected, PI!FullyInjected
<1>3. ~PI!NeuteredSidecarDecoy(cfg, spec)
  <2> SUFFICES ASSUME NEW c \in PI!AllPodContainers(spec), ~(cfg.mcp /\ PI!IsInjectorMcpInitContainer(cfg, c)), c.cmd # "none",
                      PI!OccupiesEnforcementPath(c, cfg.image)
               PROVE  FALSE
    BY DEF PI!NeuteredSidecarDecoy
  <2>1. PI!SameName(c.image)
    BY DEF PI!OccupiesEnforcementPath, PI!IsSidecarContainer, PI!SameName
  <2>2. cfg.mcp /\ c = PI!McpInitContainer(cfg)
    BY <2>1 DEF PI!SharesTheImage
  <2>3. c = [name |-> PI!McpInitName, image |-> cfg.proxy, cmd |-> "copy", mounts |-> {"stage", "socket"}, env |-> "right", route |-> "none"]
    BY <2>2, Zenon DEF PI!McpInitContainer, PI!Container
  <2>4. PI!IsInjectorMcpInitContainer(cfg, c)
    BY <2>3 DEF PI!IsInjectorMcpInitContainer
  <2> QED BY <2>2, <2>4
<1> QED BY <1>2, <1>3 DEF PI!ClassifyPod

\* What the webhook answers.
LEMMA RulingIs ==
    ASSUME PodConstants, NEW cfg \in Settings, NEW spec \in PodSpecs, NEW r, r = PI!HandleAdmission(cfg, spec), r.allowed
    PROVE  /\ r.pod \in PodSpecs
           /\ r.verdict = "inject" => Injected(cfg, r.pod) /\ PI!Governed(cfg, r.pod)
           /\ r.verdict = "skip" => r.pod = spec /\ PI!FullyInjected(cfg, spec)
<1>1. CASE PI!ClassifyPod(cfg, spec) = "deny"
  <2>1. r = [allowed |-> FALSE]
    BY <1>1, Zenon DEF PI!HandleAdmission, PI!Refused
  <2> QED BY <2>1
<1>2. CASE PI!ClassifyPod(cfg, spec) = "skip"
  <2>1. r = [allowed |-> TRUE, pod |-> spec, verdict |-> "skip"]
    BY <1>2 DEF PI!HandleAdmission, PI!Admitted
  <2>2. PI!FullyInjected(cfg, spec)
    BY <1>2 DEF PI!ClassifyPod
  <2> QED BY <2>1, <2>2
<1>3. CASE PI!ClassifyPod(cfg, spec) = "inject"
  <2>1. CASE spec.optOut /\ cfg.allowOptOut
    <3>1. r = [allowed |-> TRUE, pod |-> spec, verdict |-> "optedOut"]
      BY <1>3, <2>1 DEF PI!HandleAdmission, PI!Admitted
    <3> QED BY <3>1
  <2>2. CASE ~(spec.optOut /\ cfg.allowOptOut)
    <3>1. r = PI!PatchResponse(cfg, spec)
      BY <1>3, <2>2 DEF PI!HandleAdmission
    <3>2. PICK new : new = PI!CreatePatch(cfg, spec)
      OBVIOUS
    <3>3. PI!Refused.allowed = FALSE
      BY DEF PI!Refused
    <3>4. PI!IsAllowedSidecarImage(cfg.image) /\ ~PI!McpTargetsFail(cfg, spec)
      BY <3>1, <3>3 DEF PI!PatchResponse
    <3>5. PI!UniqueNames(new) /\ r = [allowed |-> TRUE, pod |-> new, verdict |-> "inject"]
      BY <3>1, <3>2, <3>3, <3>4 DEF PI!PatchResponse, PI!Admitted
    <3>6. Bare(spec.app) /\ Bare(spec.init)
      BY <1>3, InjectIsBare
    <3>7. new \in PodSpecs /\ Injected(cfg, new) /\ PI!Governed(cfg, new)
      BY <3>2, <3>4, <3>5, <3>6, PatchInjects
    <3> QED BY <3>5, <3>7
  <2> QED BY <2>1, <2>2
<1> QED BY <1>1, <1>2, <1>3 DEF PI!ClassifyPod

\* What was answered is what the functions compute; a pod that comes back injected carries the injection.
PodInv ==
    /\ admission.cfg \in Settings /\ admission.pod \in PodSpecs
    /\ ruling # <<>> => ruling = PI!HandleAdmission(admission.cfg, admission.pod)
    /\ admission.before = "inject" =>
         /\ ruling = PI!HandleAdmission(admission.cfg, admission.pod)
         /\ Injected(admission.cfg, admission.pod) /\ admission.cfg.image \in {"engine", "engine2"}

\* Nothing has been answered.
LEMMA PodStarts ==
    ASSUME PodConstants, PI!Init
    PROVE  PodInv
<1>1. PICK cfg \in Injections, spec \in Submissions : admission = [cfg |-> cfg, pod |-> spec, before |-> "no"]
  BY DEF PI!Init, PI!Inputs
<1>2. admission.cfg = cfg /\ admission.pod = spec /\ admission.before = "no"
  BY <1>1
<1> QED BY <1>1, <1>2 DEF PI!Init, PodInv, PodConstants

\* Every answer is computed from what was sent, or from what was answered before.
LEMMA PodStep ==
    ASSUME PodConstants, PodInv, [PI!Next]_PI!vars
    PROVE  PodInv'
<1>1. CASE UNCHANGED PI!vars
  BY <1>1 DEF PI!vars, PodInv
<1>2. CASE PI!Admit
  BY <1>2 DEF PI!Admit, PodInv
<1>3. ASSUME NEW image \in {"engine", "engine2"}, PI!Readmit(image)
      PROVE  PodInv'
  <2>1. PICK cfg, spec, before : cfg = [admission.cfg EXCEPT !.image = image] /\ spec = ruling.pod /\ before = ruling.verdict
    OBVIOUS
  <2>2. /\ ruling # <<>> /\ ruling.allowed
        /\ admission' = [cfg |-> cfg, pod |-> spec, before |-> before] /\ ruling' = PI!HandleAdmission(cfg, spec)
    BY <1>3, <2>1, Zenon DEF PI!Readmit
  <2>3. admission'.cfg = cfg /\ admission'.pod = spec /\ admission'.before = before
    BY <2>2
  <2>4. image \in Words
    BY <1>3 DEF PodConstants, Literals
  <2>5. cfg \in Settings /\ cfg.image = image /\ cfg.mcp = admission.cfg.mcp /\ cfg.proxy = admission.cfg.proxy
    BY <2>1, <2>4 DEF PodInv, Settings
  <2>6. ruling = PI!HandleAdmission(admission.cfg, admission.pod)
    BY <2>2 DEF PodInv
  <2>7. spec \in PodSpecs /\ (before = "inject" => Injected(admission.cfg, spec))
    BY <2>1, <2>2, <2>6, RulingIs DEF PodInv
  <2>8. before = "inject" => Injected(cfg, spec)
    <3>1. ASSUME NEW c PROVE PI!IsInjectorMcpInitContainer(cfg, c) = PI!IsInjectorMcpInitContainer(admission.cfg, c)
      BY <2>5, Zenon DEF PI!IsInjectorMcpInitContainer
    <3>2. PI!McpFullyInjected(admission.cfg, spec) => PI!McpFullyInjected(cfg, spec)
      BY <2>5, <3>1 DEF PI!McpFullyInjected
    <3> QED BY <2>7, <3>2 DEF Injected
  <2> QED BY <1>3, <2>2, <2>3, <2>5, <2>7, <2>8 DEF PodInv
<1> QED BY <1>1, <1>2, <1>3 DEF PI!Next

(* Whatever pod is sent: one that is patched is governed, by a sidecar on  *)
(* the socket, with every other container on it and every MCP server it    *)
(* names behind the proxy that its first init container delivers; one that *)
(* is left alone has a container that counts as the sidecar (the           *)
(* configured image counts without a mount), every other container on the  *)
(* socket and every MCP server it names behind the proxy; and a patched    *)
(* pod that comes back is never patched again, and is left alone, also     *)
(* after the sidecar's image moved, unless another container runs that     *)
(* image with a command of its own, when it may be refused: for pods of    *)
(* any number of containers (handleAdmission, classifyPod, createPatch).   *)
THEOREM PodsGoverned ==
    ASSUME PodConstants
    PROVE  PI!Spec => [](PI!AdmittedIsGoverned /\ PI!SkippedIsGoverned /\ PI!InjectedIsSkipped)
<1>1. PodInv => PI!AdmittedIsGoverned
  BY RulingIs DEF PodInv, PI!AdmittedIsGoverned
<1>2. PodInv => PI!SkippedIsGoverned
  <2> SUFFICES ASSUME PodInv, ruling # <<>>, ruling.allowed, ruling.verdict = "skip"
               PROVE  /\ \E c \in PI!Range(ruling.pod.app) : PI!Stands(admission.cfg, c)
                      /\ \A c \in PI!Range(ruling.pod.app) : PI!Stands(admission.cfg, c) \/ ("socket" \in c.mounts /\ c.env = "right")
                      /\ \A c \in PI!Range(ruling.pod.init) : "socket" \in c.mounts /\ c.env = "right"
                      /\ (admission.cfg.mcp /\ ruling.pod.asked # {}) =>
                           /\ \E c \in PI!Range(ruling.pod.init) : c.cmd = "copy" /\ "stage" \in c.mounts
                           /\ \A n \in ruling.pod.asked : \E c \in PI!Range(ruling.pod.app) \cup PI!Range(ruling.pod.init) :
                                c.name = n /\ c.cmd = "proxy" /\ "mcp" \in c.mounts /\ c.route = "ours"
    BY DEF PI!SkippedIsGoverned
  <2>1. PI!FullyInjected(admission.cfg, ruling.pod)
    BY RulingIs DEF PodInv
  <2>2. ASSUME NEW c, PI!IsTrustedSidecar(admission.cfg, c) PROVE PI!Stands(admission.cfg, c)
    BY <2>2 DEF PI!IsTrustedSidecar, PI!Stands, PI!SidecarRoutingTrusted, PI!IsSidecarContainer
  <2>3. ASSUME NEW c, PI!ContainerWired(c) PROVE "socket" \in c.mounts /\ c.env = "right"
    BY <2>3 DEF PI!ContainerWired, PI!MountsNorviqSocketVolume
  <2>4. ASSUME admission.cfg.mcp, ruling.pod.asked # {}
        PROVE  /\ \E c \in PI!Range(ruling.pod.init) : c.cmd = "copy" /\ "stage" \in c.mounts
               /\ \A n \in ruling.pod.asked : \E c \in PI!Range(ruling.pod.app) \cup PI!Range(ruling.pod.init) :
                    c.name = n /\ c.cmd = "proxy" /\ "mcp" \in c.mounts /\ c.route = "ours"
    <3>1. PI!McpFullyInjected(admission.cfg, ruling.pod)
      BY <2>1 DEF PI!FullyInjected
    <3>2. \E c \in PI!Range(ruling.pod.init) : PI!IsInjectorMcpInitContainer(admission.cfg, c)
      BY <2>4, <3>1 DEF PI!McpFullyInjected
    <3>3. \A n \in ruling.pod.asked : \E c \in PI!AllPodContainers(ruling.pod) : c.name = n /\ PI!McpWrappedCorrectly(c)
      BY <2>4, <3>1 DEF PI!McpFullyInjected
    <3>4. \E c \in PI!Range(ruling.pod.init) : c.cmd = "copy" /\ "stage" \in c.mounts
      BY <3>2 DEF PI!IsInjectorMcpInitContainer
    <3>5. ASSUME NEW n \in ruling.pod.asked
          PROVE  \E c \in PI!Range(ruling.pod.app) \cup PI!Range(ruling.pod.init) :
                    c.name = n /\ c.cmd = "proxy" /\ "mcp" \in c.mounts /\ c.route = "ours"
      <4>1. PICK c \in PI!AllPodContainers(ruling.pod) : c.name = n /\ PI!McpWrappedCorrectly(c)
        BY <3>3
      <4>2. c \in PI!Range(ruling.pod.app) \cup PI!Range(ruling.pod.init)
        BY DEF PI!AllPodContainers
      <4> QED BY <4>1, <4>2 DEF PI!McpWrappedCorrectly
    <3> QED BY <3>4, <3>5
  <2> QED BY <2>1, <2>2, <2>3, <2>4 DEF PI!FullyInjected
<1>3. PodInv => PI!InjectedIsSkipped
  <2> SUFFICES ASSUME PodInv, admission.before = "inject"
               PROVE  /\ ruling.allowed => ruling.verdict = "skip"
                      /\ ruling.allowed \/ PI!SharesTheImage(admission.cfg, admission.pod)
    BY DEF PI!InjectedIsSkipped
  <2>1. ruling = PI!HandleAdmission(admission.cfg, admission.pod)
    BY DEF PodInv
  <2>2. ASSUME PI!ClassifyPod(admission.cfg, admission.pod) = "skip"
        PROVE  ruling.allowed /\ ruling.verdict = "skip"
    <3>1. ruling = [allowed |-> TRUE, pod |-> admission.pod, verdict |-> "skip"]
      BY <2>1, <2>2 DEF PI!HandleAdmission, PI!Admitted
    <3> QED BY <3>1
  <2>3. PI!ClassifyPod(admission.cfg, admission.pod) \in {"skip", "deny"}
    <3>1. PI!EnforcementArtifact(admission.cfg, admission.pod)
      BY DEF PodInv, Injected, PI!EnforcementArtifact
    <3> QED BY <3>1 DEF PI!ClassifyPod
  <2>4. ASSUME PI!ClassifyPod(admission.cfg, admission.pod) = "deny"
        PROVE  ~ruling.allowed
    <3>1. ruling = [allowed |-> FALSE]
      BY <2>1, <2>4, Zenon DEF PI!HandleAdmission, PI!Refused
    <3> QED BY <3>1
  <2>5. ASSUME ~PI!SharesTheImage(admission.cfg, admission.pod)
        PROVE  PI!ClassifyPod(admission.cfg, admission.pod) = "skip"
    BY <2>5, InjectedSkips DEF PodInv
  <2> QED BY <2>2, <2>3, <2>4, <2>5
<1> QED BY <1>1, <1>2, <1>3, PodStarts, PodStep, PTL DEF PI!Spec

=============================================================================
