---------------------------- MODULE DecisionCache ----------------------------
(***************************************************************************)
(* The decision caches of norviq/engine/evaluator.py for one (namespace,   *)
(* agent class, tool): a Redis entry all pods share (engine/cache.py) and  *)
(* an optional entry in each pod's memory, the L1 (inproc_cache.TTLCache). *)
(* A decision is a version of the policy, and the moment the evaluation    *)
(* read that version.  A pod learns of a new version by serving the save   *)
(* or from a peer's event (PolicySync) and then invalidates.               *)
(*                                                                         *)
(* Time is a number of ticks.  Every step ends at an await, so that the    *)
(* steps of evaluations, saves and invalidations interleave.               *)
(***************************************************************************)
EXTENDS Integers, TLC, TLAPS

CONSTANTS
    Pods, Calls,   \* processes with an evaluator; evaluations under way at the same time
    Ttl,           \* redis_ttl_eval_s
    L1Ttl,         \* evaluator_inproc_cache_ttl_s; 0 turns the L1 off
    MaxCall,       \* no evaluation is under way for longer
    MaxTime,       \* bound of the clock
    MaxVersions    \* bound of the saves

ASSUME TimesAssumption == Ttl \in Nat /\ L1Ttl \in Nat /\ L1Ttl <= Ttl /\ MaxCall \in Nat
ASSUME PodsAssumption == Pods # {}
ASSUME BoundsAssumption == MaxTime \in Nat /\ MaxVersions \in Nat

VARIABLES
    now,
    latest, mem,   \* the saved version; per pod, the version its loader holds
    redis, l1,     \* the Redis entry; per pod, its L1 entry
    inval,         \* per pod: how far its invalidation is
    call           \* per evaluation: where it is and what it has

caches == <<redis, l1>>
vars == <<now, latest, mem, redis, l1, inval, call>>

\* ver of the policy, read at asof.
Decision == [ver : Nat, asof : Nat]
None == [ver |-> 0, asof |-> 0]
\* An entry is there until it expires; an empty cache holds one that has.
Cached == [val : Decision, until : Nat]
Empty == [val |-> None, until |-> 0]
Live(e) == now < e.until

Init ==
    /\ now = 0
    /\ latest = 1
    /\ mem = [p \in Pods |-> 1]
    /\ redis = Empty
    /\ l1 = [p \in Pods |-> Empty]
    /\ inval = [p \in Pods |-> "idle"]
    /\ call = [c \in Calls |-> [pc |-> "new", pod |-> CHOOSE p \in Pods : TRUE, began |-> 0, floor |-> 0, val |-> None]]

-----------------------------------------------------------------------------
(* Policy changes and invalidation. *)

\* A save served by p is in its memory; the invalidation follows.
SavePolicy(p) ==
    /\ latest < MaxVersions /\ inval[p] = "idle"
    /\ latest' = latest + 1
    /\ mem' = [mem EXCEPT ![p] = latest + 1]
    /\ inval' = [inval EXCEPT ![p] = "begin"]
    /\ UNCHANGED <<now, caches, call>>

\* A peer's event has been applied; it may never come.
Hear(p) ==
    /\ mem[p] < latest /\ inval[p] = "idle"
    /\ mem' = [mem EXCEPT ![p] = latest]
    /\ inval' = [inval EXCEPT ![p] = "begin"]
    /\ UNCHANGED <<now, latest, caches, call>>

\* invalidate_eval_scope: the hook clears this pod's L1 first, then the keys are listed.
Clear(p) ==
    /\ inval[p] = "begin"
    /\ l1' = [l1 EXCEPT ![p] = Empty]
    /\ inval' = [inval EXCEPT ![p] = IF Live(redis) THEN "delete" ELSE "idle"]
    /\ UNCHANGED <<now, latest, mem, redis, call>>

\* The listed keys are deleted, or Redis fails.
DeleteKeys(p) ==
    /\ inval[p] = "delete"
    /\ redis' \in {redis, Empty}
    /\ inval' = [inval EXCEPT ![p] = "idle"]
    /\ UNCHANGED <<now, latest, mem, l1, call>>

-----------------------------------------------------------------------------
(* Evaluations. *)

Goes(c, pc, val) == call' = [call EXCEPT ![c].pc = pc, ![c].val = val]

\* Every pod has the saved version and has invalidated: the save is done.
Effective == \A p \in Pods : mem[p] = latest /\ inval[p] = "idle"

Begin(c, p) ==
    /\ call[c].pc \in {"new", "done"}
    /\ call' = [call EXCEPT ![c] = [pc |-> "look", pod |-> p, began |-> now,
                                    floor |-> IF Effective THEN latest ELSE 0, val |-> None]]
    /\ UNCHANGED <<now, latest, mem, caches, inval>>

L1Hit(c) ==
    /\ call[c].pc = "look" /\ Live(l1[call[c].pod])
    /\ Goes(c, "done", l1[call[c].pod].val)
    /\ UNCHANGED <<now, latest, mem, caches, inval>>

\* Not in the L1: one round trip to Redis, which may fail and then answers nothing.
Fetch(c) ==
    /\ call[c].pc = "look" /\ ~Live(l1[call[c].pod])
    /\ \/ Live(redis) /\ Goes(c, "fetched", redis.val)
       \/ Goes(c, "missed", None)
    /\ UNCHANGED <<now, latest, mem, caches, inval>>

\* Faulty variant: a hit is written back to Redis.
Fill_Recaches(c) ==
    /\ call[c].pc = "fetched"
    /\ l1' = [l1 EXCEPT ![call[c].pod] = [val |-> call[c].val, until |-> now + L1Ttl]]
    /\ redis' = [val |-> call[c].val, until |-> now + Ttl]
    /\ Goes(c, "done", call[c].val)
    /\ UNCHANGED <<now, latest, mem, inval>>

\* The answer is back: it fills the L1 with a TTL of its own.
Fill(c) ==
    /\ call[c].pc = "fetched"
    /\ l1' = [l1 EXCEPT ![call[c].pod] = [val |-> call[c].val, until |-> now + L1Ttl]]
    /\ Goes(c, "done", call[c].val)
    /\ UNCHANGED <<now, latest, mem, redis, inval>>

\* _collect_candidates: the policy this pod holds.
Collect(c) ==
    /\ call[c].pc = "missed"
    /\ Goes(c, "computed", [ver |-> mem[call[c].pod], asof |-> now])
    /\ UNCHANGED <<now, latest, mem, caches, inval>>

\* set_eval, after OPA has answered.
Store(c) ==
    /\ call[c].pc = "computed"
    /\ redis' = [val |-> call[c].val, until |-> now + Ttl]
    /\ Goes(c, "stored", call[c].val)
    /\ UNCHANGED <<now, latest, mem, l1, inval>>

(* A decision that is not cached, or a failure, which blocks whatever the  *)
(* policy says: the call ends without a trace.                             *)
NotStored(c) ==
    /\ call[c].pc \in {"missed", "computed"}
    /\ Goes(c, "done", IF call[c].pc = "missed" THEN [ver |-> latest, asof |-> now] ELSE call[c].val)
    /\ UNCHANGED <<now, latest, mem, caches, inval>>

\* set_eval is back: the decision goes into this pod's L1 too.
Mirror(c) ==
    /\ call[c].pc = "stored"
    /\ l1' = [l1 EXCEPT ![call[c].pod] = [val |-> call[c].val, until |-> now + L1Ttl]]
    /\ Goes(c, "done", call[c].val)
    /\ UNCHANGED <<now, latest, mem, redis, inval>>

\* Faulty variant: a clock that can be set back.
Tick_WallClock ==
    /\ now < MaxTime
    /\ \A c \in Calls : call[c].pc \in {"new", "done"} \/ now < call[c].began + MaxCall
    /\ now' \in {now - 1, now + 1}
    /\ UNCHANGED <<latest, mem, caches, inval, call>>

\* Time passes: what expires is gone.
Tick ==
    /\ now < MaxTime
    /\ \A c \in Calls : call[c].pc \in {"new", "done"} \/ now < call[c].began + MaxCall
    /\ now' = now + 1
    /\ redis' = IF now + 1 < redis.until THEN redis ELSE Empty
    /\ l1' = [p \in Pods |-> IF now + 1 < l1[p].until THEN l1[p] ELSE Empty]
    /\ UNCHANGED <<latest, mem, inval, call>>

Next ==
    \/ Tick
    \/ \E p \in Pods : SavePolicy(p) \/ Hear(p) \/ Clear(p) \/ DeleteKeys(p)
    \/ \E c \in Calls :
          \/ \E p \in Pods : Begin(c, p)
          \/ L1Hit(c) \/ Fetch(c) \/ Fill(c) \/ Collect(c) \/ Store(c) \/ NotStored(c) \/ Mirror(c)

Spec == Init /\ [][Next]_vars

-----------------------------------------------------------------------------
(* Properties *)

\* Every variable has its type.
TypeOK ==
    /\ now \in Nat /\ latest \in Nat
    /\ mem \in [Pods -> Nat]
    /\ redis \in Cached /\ l1 \in [Pods -> Cached]
    /\ inval \in [Pods -> {"idle", "begin", "delete"}]
    /\ call \in [Calls -> [pc : {"new", "look", "fetched", "missed", "computed", "stored", "done"},
                           pod : Pods, began : Nat, floor : Nat, val : Decision]]

(* However many invalidations fail, are overtaken by an evaluation or are  *)
(* never heard of, what a call is served was this or another pod's policy  *)
(* at most one evaluation, one Redis TTL, one more round trip and one L1   *)
(* TTL before the call began.                                              *)
AgeBound == MaxCall + Ttl + MaxCall + L1Ttl
StaleBound == \A c \in Calls : call[c].pc = "done" => call[c].began <= call[c].val.asof + AgeBound

(* The comment on the L1: it never leaves a decision cached longer than    *)
(* the Redis entry's own bound, a TTL after the evaluation that stored it. *)
OneTtl == \A p \in Pods : Live(l1[p]) => now <= l1[p].val.asof + MaxCall + Ttl

(* The console: a saved policy is effective on the next tool call.  A call *)
(* that begins when every pod holds the saved version and has invalidated  *)
(* is judged by it.                                                        *)
EffectiveNextCall == \A c \in Calls : call[c].pc = "done" => call[c].val.ver >= call[c].floor

\* Neither calls nor pods are told apart by anything but their names.
Interchangeable == Permutations(Calls) \cup Permutations(Pods)

-----------------------------------------------------------------------------
(***************************************************************************)
(* How old a served decision can be, for any number of pods and            *)
(* evaluations and any TTLs.  The invariant carries the age of a decision  *)
(* along its way: an evaluation under way, the Redis entry, an answer from *)
(* Redis under way, an L1 entry.                                           *)
(***************************************************************************)

\* An evaluation under way is not older than MaxCall.
UnderWay(c) == call[c].pc \in {"look", "fetched", "missed", "computed", "stored"}
TimeInv == \A c \in Calls : UnderWay(c) => call[c].began <= now /\ now <= call[c].began + MaxCall

\* What an evaluation has computed, it read after it began; what it fetched, Redis held.
CallInv ==
    \A c \in Calls :
        /\ call[c].pc \in {"computed", "stored"} => call[c].began <= call[c].val.asof
        /\ call[c].pc = "fetched" => call[c].began <= call[c].val.asof + MaxCall + Ttl

RedisInv == redis.until <= redis.val.asof + MaxCall + Ttl
L1Inv == \A p \in Pods : l1[p].until <= l1[p].val.asof + AgeBound

IndInv == TypeOK /\ TimeInv /\ CallInv /\ RedisInv /\ L1Inv /\ StaleBound

USE TimesAssumption

-----------------------------------------------------------------------------
\* The empty caches are older than everything.
LEMMA InitInd == Init => IndInv
<1> SUFFICES ASSUME Init PROVE IndInv
  OBVIOUS
<1>1. (CHOOSE p \in Pods : TRUE) \in Pods
  BY PodsAssumption
<1>2. \A c \in Calls : call[c].pc = "new"
  BY DEF Init
<1>3. None \in Decision /\ Empty \in Cached
  BY DEF None, Decision, Empty, Cached
<1>4. TypeOK
  BY <1>1, <1>3 DEF Init, TypeOK
<1>5. RedisInv /\ L1Inv
  BY DEF Init, RedisInv, L1Inv, Empty, None, AgeBound
<1> QED BY <1>2, <1>4, <1>5 DEF IndInv, TimeInv, UnderWay, CallInv, StaleBound

\* A pod learns of a version or invalidates: no decision gets older.
LEMMA PolicyInd ==
    ASSUME IndInv, NEW p \in Pods, SavePolicy(p) \/ Hear(p) \/ Clear(p) \/ DeleteKeys(p)
    PROVE  IndInv'
<1>1. Empty \in Cached /\ Empty.until = 0 /\ Empty.val.asof = 0
  BY DEF Empty, Cached, None, Decision
<1>2. now' = now /\ call' = call
  BY DEF SavePolicy, Hear, Clear, DeleteKeys
<1>3. redis' \in {redis, Empty} /\ (l1' = l1 \/ l1' = [l1 EXCEPT ![p] = Empty])
  BY DEF SavePolicy, Hear, Clear, DeleteKeys, caches
<1>4. TypeOK'
  <2>1. latest' \in Nat /\ mem' \in [Pods -> Nat] /\ inval' \in [Pods -> {"idle", "begin", "delete"}]
    BY DEF SavePolicy, Hear, Clear, DeleteKeys, IndInv, TypeOK
  <2> QED BY <1>1, <1>2, <1>3, <2>1 DEF IndInv, TypeOK
<1>5. RedisInv'
  BY <1>1, <1>3 DEF IndInv, RedisInv
<1>6. L1Inv'
  BY <1>1, <1>3 DEF IndInv, TypeOK, L1Inv, AgeBound
<1> QED BY <1>2, <1>4, <1>5, <1>6 DEF IndInv, TimeInv, UnderWay, CallInv, StaleBound

\* A call's step changes that call only.
LEMMA GoesEffect ==
    ASSUME TypeOK, NEW c \in Calls, NEW pc, NEW val, Goes(c, pc, val)
    PROVE  /\ call'[c].pc = pc /\ call'[c].val = val
           /\ call'[c].began = call[c].began /\ call'[c].pod = call[c].pod /\ call'[c].floor = call[c].floor
           /\ \A d \in Calls \ {c} : call'[d] = call[d]
BY DEF TypeOK, Goes

\* Its type.
LEMMA GoesType ==
    ASSUME TypeOK, NEW c \in Calls, NEW val \in Decision,
           NEW pc \in {"new", "look", "fetched", "missed", "computed", "stored", "done"}, Goes(c, pc, val)
    PROVE  call' \in [Calls -> [pc : {"new", "look", "fetched", "missed", "computed", "stored", "done"},
                                pod : Pods, began : Nat, floor : Nat, val : Decision]]
BY DEF TypeOK, Goes

\* A call begins.
LEMMA BeginInd ==
    ASSUME IndInv, NEW c \in Calls, NEW p \in Pods, Begin(c, p)
    PROVE  IndInv'
<1>1. None \in Decision
  BY DEF None, Decision
<1>2. UNCHANGED <<now, latest, mem, redis, l1, inval>>
  BY DEF Begin, caches
<1>3. TypeOK'
  BY <1>1, <1>2 DEF Begin, IndInv, TypeOK
<1>4. /\ call'[c].pc = "look" /\ call'[c].began = now
      /\ \A d \in Calls \ {c} : call'[d] = call[d]
  BY DEF Begin, IndInv, TypeOK
<1>5. TimeInv'
  BY <1>2, <1>4 DEF IndInv, TypeOK, TimeInv, UnderWay
<1>6. CallInv' /\ StaleBound'
  BY <1>2, <1>4 DEF IndInv, CallInv, StaleBound
<1> QED BY <1>2, <1>3, <1>5, <1>6 DEF IndInv, RedisInv, L1Inv

\* A step of a call under way that leaves the caches alone.
LEMMA ReadInd ==
    ASSUME IndInv, NEW c \in Calls, L1Hit(c) \/ Fetch(c) \/ Collect(c) \/ NotStored(c)
    PROVE  IndInv'
<1>1. UNCHANGED <<now, latest, mem, redis, l1, inval>>
  BY DEF L1Hit, Fetch, Collect, NotStored, caches
<1>2. /\ TypeOK /\ UnderWay(c) /\ call[c] \in [pc : {"new", "look", "fetched", "missed", "computed", "stored", "done"},
                                   pod : Pods, began : Nat, floor : Nat, val : Decision]
      /\ call[c].began \in Nat /\ call[c].began <= now /\ call[c].val \in Decision
      /\ now \in Nat /\ latest \in Nat
  BY DEF IndInv, TypeOK, TimeInv, UnderWay, L1Hit, Fetch, Collect, NotStored
<1>3. PICK pc, val :
        /\ Goes(c, pc, val) /\ val \in Decision
        /\ \/ pc = "done" /\ call[c].began <= val.asof + AgeBound
           \/ pc = "fetched" /\ call[c].began <= val.asof + MaxCall + Ttl
           \/ pc = "missed"
           \/ pc = "computed" /\ call[c].began <= val.asof
  <2>1. CASE L1Hit(c)
    <3> DEFINE e == l1[call[c].pod]
    <3>1. e \in Cached /\ e.until <= e.val.asof + AgeBound /\ now < e.until
      BY <1>2, <2>1 DEF IndInv, TypeOK, L1Inv, L1Hit, Live
    <3>2. e.val \in Decision /\ e.val.asof \in Nat /\ e.until \in Nat /\ AgeBound \in Nat
      BY <3>1 DEF Cached, Decision, AgeBound
    <3>3. call[c].began <= e.val.asof + AgeBound
      BY <1>2, <3>1, <3>2
    <3> QED BY <2>1, <3>2, <3>3 DEF L1Hit
  <2>2. CASE Fetch(c)
    <3>1. CASE Live(redis) /\ Goes(c, "fetched", redis.val)
      <4>1. redis.val \in Decision /\ redis.val.asof \in Nat /\ redis.until \in Nat
        BY <1>2 DEF TypeOK, Cached, Decision
      <4>2. call[c].began <= redis.val.asof + MaxCall + Ttl
        BY <1>2, <3>1, <4>1 DEF IndInv, RedisInv, Live
      <4> QED BY <3>1, <4>1, <4>2
    <3>2. CASE Goes(c, "missed", None)
      BY <3>2 DEF None, Decision
    <3> QED BY <2>2, <3>1, <3>2 DEF Fetch
  <2>3. CASE Collect(c)
    <3> DEFINE v == [ver |-> mem[call[c].pod], asof |-> now]
    <3>1. v \in Decision /\ v.asof = now
      BY <1>2 DEF TypeOK, Decision
    <3> QED BY <1>2, <2>3, <3>1 DEF Collect
  <2>4. CASE NotStored(c)
    <3>1. CASE call[c].pc = "missed"
      <4> DEFINE v == [ver |-> latest, asof |-> now]
      <4>1. v \in Decision /\ v.asof = now /\ AgeBound \in Nat
        BY <1>2 DEF Decision, AgeBound
      <4>2. call[c].began <= v.asof + AgeBound
        BY <1>2, <4>1
      <4>3. Goes(c, "done", v)
        BY <2>4, <3>1 DEF NotStored
      <4> QED BY <4>1, <4>2, <4>3
    <3>2. CASE call[c].pc = "computed"
      <4>1. call[c].val.asof \in Nat /\ AgeBound \in Nat /\ call[c].began <= call[c].val.asof
        BY <1>2, <3>2 DEF IndInv, CallInv, Decision, AgeBound
      <4>2. Goes(c, "done", call[c].val)
        BY <2>4, <3>2 DEF NotStored
      <4> QED BY <1>2, <4>1, <4>2
    <3> QED BY <2>4, <3>1, <3>2 DEF NotStored
  <2> QED BY <2>1, <2>2, <2>3, <2>4
<1>4. TypeOK'
  BY <1>1, <1>2, <1>3, GoesType DEF TypeOK
<1>5. /\ call'[c].pc = pc /\ call'[c].val = val /\ call'[c].began = call[c].began
      /\ \A d \in Calls \ {c} : call'[d] = call[d]
  BY <1>2, <1>3, GoesEffect
<1>6. TimeInv'
  BY <1>1, <1>2, <1>5 DEF IndInv, TimeInv, UnderWay
<1>7. CallInv' /\ StaleBound'
  BY <1>1, <1>3, <1>5 DEF IndInv, CallInv, StaleBound
<1> QED BY <1>1, <1>4, <1>6, <1>7 DEF IndInv, RedisInv, L1Inv

\* set_eval: the entry expires a TTL after an evaluation that is not older than MaxCall.
LEMMA StoreInd ==
    ASSUME IndInv, NEW c \in Calls, Store(c)
    PROVE  IndInv'
<1>1. UNCHANGED <<now, latest, mem, l1, inval>> /\ Goes(c, "stored", call[c].val)
      /\ redis' = [val |-> call[c].val, until |-> now + Ttl]
  BY DEF Store
<1>2. /\ TypeOK /\ call[c].pc = "computed" /\ call[c].val \in Decision /\ call[c].val.asof \in Nat
      /\ call[c].began \in Nat /\ now \in Nat
      /\ call[c].began <= now /\ now <= call[c].began + MaxCall /\ call[c].began <= call[c].val.asof
  BY DEF Store, IndInv, TypeOK, TimeInv, UnderWay, CallInv, Decision
<1>3. /\ call'[c].pc = "stored" /\ call'[c].val = call[c].val /\ call'[c].began = call[c].began
      /\ \A d \in Calls \ {c} : call'[d] = call[d]
  BY <1>1, <1>2, GoesEffect
<1>4. TypeOK'
  <2>1. redis' \in Cached
    BY <1>1, <1>2 DEF Cached
  <2> QED BY <1>1, <1>2, <2>1, GoesType DEF TypeOK
<1>5. RedisInv'
  BY <1>1, <1>2 DEF RedisInv
<1>6. TimeInv' /\ CallInv' /\ StaleBound'
  BY <1>1, <1>2, <1>3 DEF IndInv, TimeInv, UnderWay, CallInv, StaleBound
<1> QED BY <1>1, <1>4, <1>5, <1>6 DEF IndInv, L1Inv

\* A decision goes into the L1, from Redis or from this evaluation.
LEMMA KeepInd ==
    ASSUME IndInv, NEW c \in Calls, Fill(c) \/ Mirror(c)
    PROVE  IndInv'
<1> DEFINE p == call[c].pod
           e == [val |-> call[c].val, until |-> now + L1Ttl]
<1>1. /\ UNCHANGED <<now, latest, mem, redis, inval>> /\ Goes(c, "done", call[c].val)
      /\ l1' = [l1 EXCEPT ![p] = e]
  BY DEF Fill, Mirror
<1>2. /\ TypeOK /\ call[c].val \in Decision /\ call[c].val.asof \in Nat /\ p \in Pods
      /\ call[c].began \in Nat /\ now \in Nat /\ AgeBound \in Nat
      /\ call[c].began <= now /\ now <= call[c].began + MaxCall
      /\ call[c].began <= call[c].val.asof + MaxCall + Ttl
  BY DEF Fill, Mirror, IndInv, TypeOK, TimeInv, UnderWay, CallInv, Decision, AgeBound
<1>3. /\ call'[c].pc = "done" /\ call'[c].val = call[c].val /\ call'[c].began = call[c].began
      /\ \A d \in Calls \ {c} : call'[d] = call[d]
  BY <1>1, <1>2, GoesEffect
<1>4. e \in Cached /\ e.until <= e.val.asof + AgeBound
  BY <1>2 DEF Cached, AgeBound
<1> HIDE DEF e
<1>5. TypeOK'
  BY <1>1, <1>2, <1>4, GoesType DEF TypeOK
<1>6. L1Inv'
  BY <1>1, <1>2, <1>4 DEF IndInv, TypeOK, L1Inv
<1>7. call[c].began <= call[c].val.asof + AgeBound
  BY <1>2 DEF AgeBound
<1>8. TimeInv' /\ CallInv' /\ StaleBound'
  BY <1>1, <1>3, <1>7 DEF IndInv, TimeInv, UnderWay, CallInv, StaleBound
<1> QED BY <1>1, <1>5, <1>6, <1>8 DEF IndInv, RedisInv

\* Time passes, but no call outlives MaxCall.
LEMMA TickInd == ASSUME IndInv, Tick PROVE IndInv'
<1>1. Empty \in Cached /\ Empty.until = 0 /\ Empty.val.asof = 0
  BY DEF Empty, Cached, None, Decision
<1>2. UNCHANGED <<latest, mem, inval, call>> /\ now' = now + 1 /\ now \in Nat
  BY DEF Tick, IndInv, TypeOK
<1>3. redis' \in {redis, Empty}
      /\ l1' = [p \in Pods |-> IF now + 1 < l1[p].until THEN l1[p] ELSE Empty]
  BY DEF Tick
<1>4. TypeOK'
  BY <1>1, <1>2, <1>3 DEF IndInv, TypeOK
<1>5. TimeInv'
  BY <1>2 DEF Tick, IndInv, TypeOK, TimeInv, UnderWay
<1>6. RedisInv' /\ L1Inv'
  BY <1>1, <1>3 DEF IndInv, RedisInv, L1Inv, AgeBound
<1> QED BY <1>2, <1>4, <1>5, <1>6 DEF IndInv, CallInv, StaleBound

\* Every step keeps the invariant.
LEMMA NextInd == IndInv /\ [Next]_vars => IndInv'
<1> SUFFICES ASSUME IndInv, [Next]_vars PROVE IndInv'
  OBVIOUS
<1>1. CASE UNCHANGED vars
  BY <1>1 DEF vars, IndInv, TypeOK, TimeInv, UnderWay, CallInv, RedisInv, L1Inv, StaleBound
<1> QED BY <1>1, PolicyInd, BeginInd, ReadInd, StoreInd, KeepInd, TickInd DEF Next

\* Types, for any number of pods and calls.
THEOREM TypeCorrect == Spec => []TypeOK
<1>1. IndInv => TypeOK
  BY DEF IndInv
<1> QED BY <1>1, InitInd, NextInd, PTL DEF Spec

(* No call is served a decision older than two evaluations, the Redis TTL  *)
(* and the L1 TTL together, whatever the invalidations do.                 *)
THEOREM Bounded == Spec => []StaleBound
<1>1. IndInv => StaleBound
  BY DEF IndInv
<1> QED BY <1>1, InitInd, NextInd, PTL DEF Spec

=============================================================================
