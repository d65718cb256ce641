-------------------------- MODULE SessionRevocation --------------------------
(***************************************************************************)
(* Logout as a denylist of session tokens (norviq/api/session_revocation): *)
(* an in-process mirror per API process, Redis (the cache that reaches the *)
(* other processes) and Postgres (the durable record).  A logout writes    *)
(* mirror, Redis, Postgres in that order; the Postgres write is queued     *)
(* before it is tried.  Every process loads all rows before it serves and  *)
(* then runs a sync pass again and again: pull the rows since its          *)
(* watermark, retry the queue, rewrite the queue into Redis, repair Redis  *)
(* after a data loss.                                                      *)
(*                                                                         *)
(* A token stands for its one or two keys, which every store call carries  *)
(* together.  Logouts and the pass of one process interleave at each await.*)
(***************************************************************************)
EXTENDS Integers, FiniteSets, TLC

CONSTANTS
    Procs,      \* API processes
    Tokens,     \* session tokens; each is logged out at most once
    Nobody,     \* the process of a token nobody logged out here
    Events,     \* what may go wrong (EventsAssumption)
    Overlap,    \* _SYNC_OVERLAP_S in ticks of the database clock
    MaxClock,   \* bound on the database clock
    MaxLate     \* bound on inserts whose caller stopped waiting

ASSUME NobodyAssumption == Nobody \notin Procs
ASSUME EventsAssumption ==
    Events \subseteq {"db_fails", "redis_fails", "wipe", "exit", "expire"}
ASSUME ClockAssumption == Overlap \in Nat \ {0} /\ MaxClock \in Nat /\ MaxLate \in Nat

VARIABLES
    db,       \* revoked_tokens: rows with the start time of their transaction
    late,     \* insert transactions nobody waits for any more
    clock,    \* the database clock
    redis,    \* revoked:* keys
    marker,   \* REVOCATION_SEED_MARKER
    expired,  \* tokens past their own exp
    lpc, lproc, lat,   \* per token: where its logout is, on which process, its insert's start
    up, mirror, queue, wm,          \* per process: _mirror, _unpersisted, _sync_watermark
    pp, boot, failed, intact, pend, pat, seeds,   \* per process: its sync pass
    due, orphan, toImport           \* history, read by properties only

stores == <<db, late, clock, redis, marker, expired>>
logouts == <<lpc, lproc, lat>>
proc == <<up, mirror, queue, wm>>
pass == <<pp, boot, failed, intact, pend, pat, seeds>>
history == <<due, orphan, toImport>>
vars == <<stores, logouts, proc, pass, history>>

None == -1 - Overlap     \* no watermark: below every transaction's start
Live == Tokens \ expired
Row == [tok : Tokens, at : Nat]
Insert == [toks : SUBSET Tokens, at : Nat]
Toks(rows) == {r.tok : r \in rows}
Queued == UNION {queue[p] : p \in Procs}

\* ON CONFLICT DO NOTHING: a key that has a row keeps it.
Inserted(toks, at) == db \cup {[tok |-> t, at |-> at] : t \in toks \ Toks(db)}

-----------------------------------------------------------------------------
\* Before the first process of this release starts: what the release before it revoked is in Redis only.
Init ==
    /\ db = {} /\ late = {} /\ clock = 0
    /\ redis \in SUBSET Tokens
    /\ marker = FALSE
    /\ expired = {}
    /\ lpc = [t \in Tokens |-> IF t \in redis THEN "done" ELSE "live"]
    /\ lproc = [t \in Tokens |-> Nobody]
    /\ lat = [t \in Tokens |-> 0]
    /\ up = [p \in Procs |-> "down"]
    /\ mirror = [p \in Procs |-> {}]
    /\ queue = [p \in Procs |-> {}]
    /\ wm = [p \in Procs |-> None]
    /\ pp = [p \in Procs |-> "idle"]
    /\ boot = [p \in Procs |-> FALSE]
    /\ failed = [p \in Procs |-> FALSE]
    /\ intact = [p \in Procs |-> FALSE]
    /\ pend = [p \in Procs |-> {}]
    /\ pat = [p \in Procs |-> 0]
    /\ seeds = [p \in Procs |-> {}]
    /\ due = [p \in Procs |-> {}]
    /\ orphan = redis
    /\ toImport = [p \in Procs |-> {}]

Goto(p, l) == pp' = [pp EXCEPT ![p] = l]

-----------------------------------------------------------------------------
(* revoke, on a process that serves. *)

\* The mirror first; no await before the Redis call.
Logout(p, t) ==
    /\ up[p] = "serving"
    /\ lpc[t] = "live" /\ t \in Live
    /\ mirror' = [mirror EXCEPT ![p] = @ \cup {t}]
    /\ lpc' = [lpc EXCEPT ![t] = "redis"]
    /\ lproc' = [lproc EXCEPT ![t] = p]
    /\ UNCHANGED <<stores, lat, up, queue, wm, pass, history>>

\* Redis answers or fails; then the entries are queued and their insert begins.
LogoutRedis(t) ==
    /\ lpc[t] = "redis"
    /\ \/ redis' = redis \cup ({t} \cap Live)
       \/ "redis_fails" \in Events /\ UNCHANGED redis
    /\ queue' = [queue EXCEPT ![lproc[t]] = @ \cup {t}]
    /\ lpc' = [lpc EXCEPT ![t] = "persist"]
    /\ lat' = [lat EXCEPT ![t] = clock]
    /\ UNCHANGED <<db, late, clock, marker, expired, lproc, up, mirror, wm, pass, history>>

\* The logout is answered, and its locals go with it.
Answered(t) ==
    /\ lpc' = [lpc EXCEPT ![t] = "done"]
    /\ lproc' = [lproc EXCEPT ![t] = Nobody]
    /\ lat' = [lat EXCEPT ![t] = 0]

\* The insert landed: only now the entries leave the queue.
LogoutPersist(t) ==
    /\ lpc[t] = "persist"
    /\ db' = Inserted({t}, lat[t])
    /\ queue' = [queue EXCEPT ![lproc[t]] = @ \ {t}]
    /\ Answered(t)
    /\ UNCHANGED <<late, clock, redis, marker, expired, up, mirror, wm, pass, history>>

\* A call to Postgres that failed did nothing, or is still on its way when its caller goes on (_bounded).
GivesUp(toks, at) ==
    /\ "db_fails" \in Events
    /\ \/ UNCHANGED late
       \/ Cardinality(late) < MaxLate /\ late' = late \cup {[toks |-> toks, at |-> at]}

\* It failed, was not answered in time, or the request was cancelled: still queued.
LogoutPersistFails(t) ==
    /\ lpc[t] = "persist"
    /\ GivesUp({t}, lat[t])
    /\ Answered(t)
    /\ UNCHANGED <<db, clock, redis, marker, expired, proc, pass, history>>

-----------------------------------------------------------------------------
(* sync: one pass. *)

\* Faulty variant: the pass starts from an empty mirror and leaves it to the pull to fill it.
PassBegin_Empties(p) ==
    /\ up[p] \in {"boot", "serving"}
    /\ pp[p] = "idle"
    /\ boot' = [boot EXCEPT ![p] = wm[p] = None]
    /\ failed' = [failed EXCEPT ![p] = FALSE]
    /\ mirror' = [mirror EXCEPT ![p] = {}]
    /\ toImport' = IF wm[p] = None THEN [toImport EXCEPT ![p] = orphan \cap redis] ELSE toImport
    /\ Goto(p, "pull")
    /\ UNCHANGED <<stores, logouts, up, queue, wm, intact, pend, pat, seeds, due, orphan>>

\* Expired entries are dropped, whatever the stores do.
PassBegin(p) ==
    /\ up[p] \in {"boot", "serving"}
    /\ pp[p] = "idle"
    /\ boot' = [boot EXCEPT ![p] = wm[p] = None]
    /\ failed' = [failed EXCEPT ![p] = FALSE]
    /\ mirror' = [mirror EXCEPT ![p] = @ \cap Live]
    /\ toImport' = IF wm[p] = None THEN [toImport EXCEPT ![p] = orphan \cap redis] ELSE toImport
    /\ Goto(p, "pull")
    /\ UNCHANGED <<stores, logouts, up, queue, wm, intact, pend, pat, seeds, due, orphan>>

\* Faulty variant: the first pull is the last one.
Pulled_AtBootOnly(p) == {r \in db : r.tok \in Live /\ wm[p] = None}

\* The live rows written since the watermark; all of them on the first pass.
Pulled(p) == {r \in db : r.tok \in Live /\ r.at > wm[p]}

\* Faulty variant: the watermark is the database's now.
Watermark_NoOverlap == clock

Watermark == clock - Overlap

\* Faulty variant: the insert is stamped with the watermark, not with the start of its transaction.
Persists_Backdated(p, toks) == pend' = [pend EXCEPT ![p] = toks] /\ pat' = [pat EXCEPT ![p] = Watermark]

\* The pass begins to insert toks; and its insert is over.
Persists(p, toks) == pend' = [pend EXCEPT ![p] = toks] /\ pat' = [pat EXCEPT ![p] = clock]
Over(p) == pend' = [pend EXCEPT ![p] = {}] /\ pat' = [pat EXCEPT ![p] = 0]

\* Faulty variant: the queue is left to the shutdown.
Pending_None(p) == {}

\* The queue as the pass is about to write it.
Pending(p) == queue[p] \cap Live

\* _pull, and the snapshot of the queue _flush_unpersisted writes next.
Pull(p) ==
    /\ pp[p] = "pull"
    /\ mirror' = [mirror EXCEPT ![p] = @ \cup Toks(Pulled(p))]
    /\ wm' = [wm EXCEPT ![p] = Watermark]
    /\ due' = [due EXCEPT ![p] = Toks(db)]
    /\ queue' = [queue EXCEPT ![p] = @ \cap Live]
    /\ IF Pending(p) = {} THEN Goto(p, "rewrite") /\ UNCHANGED <<pend, pat>>
       ELSE Goto(p, "flush") /\ Persists(p, Pending(p))
    /\ UNCHANGED <<stores, logouts, up, boot, failed, intact, seeds, orphan, toImport>>

\* Redis is not touched before the first successful pull.
PullFails(p) ==
    /\ pp[p] = "pull"
    /\ "db_fails" \in Events
    /\ failed' = [failed EXCEPT ![p] = TRUE]
    /\ Goto(p, IF wm[p] = None THEN "end" ELSE "rewrite")
    /\ UNCHANGED <<stores, logouts, proc, boot, intact, pend, pat, seeds, history>>

\* Only what was written leaves the queue: a logout may have queued more during the await.
Written(p) == [queue EXCEPT ![p] = @ \ pend[p]]

Flush(p) ==
    /\ pp[p] = "flush"
    /\ db' = Inserted(pend[p], pat[p])
    /\ queue' = Written(p)
    /\ Over(p)
    /\ Goto(p, "rewrite")
    /\ UNCHANGED <<late, clock, redis, marker, expired, logouts, up, mirror, wm, boot, failed, intact, seeds, history>>

\* Faulty variant: the snapshot was taken out of the queue before it was written.
FlushFails_Drops(p) ==
    /\ pp[p] = "flush"
    /\ GivesUp(pend[p], pat[p])
    /\ failed' = [failed EXCEPT ![p] = TRUE]
    /\ queue' = Written(p)
    /\ Over(p)
    /\ Goto(p, "rewrite")
    /\ UNCHANGED <<db, clock, redis, marker, expired, logouts, up, mirror, wm, boot, intact, seeds, history>>

FlushFails(p) ==
    /\ pp[p] = "flush"
    /\ GivesUp(pend[p], pat[p])
    /\ failed' = [failed EXCEPT ![p] = TRUE]
    /\ Over(p)
    /\ Goto(p, "rewrite")
    /\ UNCHANGED <<db, clock, redis, marker, expired, logouts, proc, boot, intact, seeds, history>>

\* _rewrite_unpersisted: the queue goes into Redis on every pass, marker or not.
Rewrite(p) ==
    /\ pp[p] = "rewrite"
    /\ queue' = [queue EXCEPT ![p] = @ \cap Live]
    /\ redis' = redis \cup (queue[p] \cap Live)
    /\ Goto(p, "marker")
    /\ UNCHANGED <<db, late, clock, marker, expired, logouts, up, mirror, wm, boot, failed, intact, pend, pat,
                   seeds, history>>

\* _reconcile_cache goes on at boot and after a data loss only.
Reconciles(p) == ~marker \/ boot[p]

ReadMarker(p) ==
    /\ pp[p] = "marker"
    /\ intact' = [intact EXCEPT ![p] = marker]
    /\ Goto(p, IF Reconciles(p) THEN "scan" ELSE "end")
    /\ UNCHANGED <<stores, logouts, proc, boot, failed, pend, pat, seeds, history>>

\* Import what only Redis holds: into the mirror and the queue before any further await.
Scan(p) ==
    /\ pp[p] = "scan"
    /\ LET imported == redis \ mirror[p] IN
       /\ mirror' = [mirror EXCEPT ![p] = @ \cup imported]
       /\ queue' = [queue EXCEPT ![p] = @ \cup imported]
       /\ Persists(p, imported)
       /\ seeds' = [seeds EXCEPT ![p] = IF intact[p] THEN {} ELSE (mirror[p] \cup imported) \cap Live]
       /\ Goto(p, IF ~intact[p] THEN "reseed" ELSE IF imported = {} THEN "end" ELSE "import")
    /\ UNCHANGED <<stores, logouts, up, wm, boot, failed, intact, history>>

\* reseed_revoked_tokens: the entries, then the marker, in separate round trips.
Reseed(p) ==
    /\ pp[p] = "reseed"
    /\ redis' = redis \cup (seeds[p] \cap Live)
    /\ seeds' = [seeds EXCEPT ![p] = {}]
    /\ Goto(p, "seal")
    /\ UNCHANGED <<db, late, clock, marker, expired, logouts, proc, boot, failed, intact, pend, pat, history>>

SetMarker(p) ==
    /\ pp[p] = "seal"
    /\ marker' = TRUE
    /\ Persists(p, pend[p])
    /\ Goto(p, IF pend[p] = {} THEN "end" ELSE "import")
    /\ UNCHANGED <<db, late, clock, redis, expired, logouts, proc, boot, failed, intact, seeds, history>>

\* Any Redis call of the pass may fail; the pass then ends, and its process serves all the same.
RedisFails(p) ==
    /\ "redis_fails" \in Events
    /\ pp[p] \in {"rewrite", "marker", "scan", "reseed", "seal"}
    /\ Goto(p, "end")
    /\ UNCHANGED <<stores, logouts, proc, boot, failed, intact, pend, pat, seeds, history>>

\* The imports are persisted, or stay queued.
Import(p) ==
    /\ pp[p] = "import"
    /\ db' = Inserted(pend[p], pat[p])
    /\ queue' = Written(p)
    /\ Goto(p, "end")
    /\ UNCHANGED <<late, clock, redis, marker, expired, logouts, up, mirror, wm, boot, failed, intact, pend, pat,
                   seeds, history>>

ImportFails(p) ==
    /\ pp[p] = "import"
    /\ GivesUp(pend[p], pat[p])
    /\ Goto(p, "end")
    /\ UNCHANGED <<db, clock, redis, marker, expired, logouts, proc, boot, failed, intact, pend, pat, seeds, history>>

\* No pass runs in p, and its locals are gone.
NoPass(p) ==
    /\ Goto(p, "idle")
    /\ Over(p)
    /\ seeds' = [seeds EXCEPT ![p] = {}]
    /\ boot' = [boot EXCEPT ![p] = FALSE]
    /\ failed' = [failed EXCEPT ![p] = FALSE]
    /\ intact' = [intact EXCEPT ![p] = FALSE]

\* A store error is raised after Redis had its turn: a boot pass that raised is tried again.
PassEnd(p) ==
    /\ pp[p] = "end"
    /\ up' = [up EXCEPT ![p] = IF failed[p] THEN @ ELSE "serving"]
    /\ NoPass(p)
    /\ UNCHANGED <<stores, logouts, mirror, queue, wm, history>>

-----------------------------------------------------------------------------
(* Processes and environment. *)

\* bind_store, then the first pass.
Start(p) ==
    /\ up[p] = "down"
    /\ up' = [up EXCEPT ![p] = "boot"]
    /\ UNCHANGED <<stores, logouts, mirror, queue, wm, pass, history>>

(* The process is gone: killed, refused to start, or shut down (then it    *)
(* makes one last attempt at its queue first).  Its memory is lost; an     *)
(* insert of the pass or of a logout may still commit; a logout under way  *)
(* is never answered.                                                      *)
Exit(p) ==
    /\ "exit" \in Events
    /\ up[p] # "down"
    /\ \E last \in {{}, queue[p] \cap Live} :
          /\ db' = Inserted(last, clock)
          /\ orphan' = orphan \cup (queue[p] \ last)
    /\ \/ UNCHANGED late
       \/ pp[p] \in {"flush", "import"} /\ Cardinality(late) < MaxLate
          /\ late' = late \cup {[toks |-> pend[p], at |-> pat[p]]}
    /\ up' = [up EXCEPT ![p] = "down"]
    /\ mirror' = [mirror EXCEPT ![p] = {}]
    /\ queue' = [queue EXCEPT ![p] = {}]
    /\ wm' = [wm EXCEPT ![p] = None]
    /\ NoPass(p)
    /\ lpc' = [t \in Tokens |-> IF lproc[t] = p /\ lpc[t] \in {"redis", "persist"} THEN "cut" ELSE lpc[t]]
    /\ due' = [due EXCEPT ![p] = {}]
    /\ toImport' = [toImport EXCEPT ![p] = {}]
    /\ UNCHANGED <<clock, redis, marker, expired, lproc, lat>>

\* An insert nobody waits for commits, or never does.
LateInsert(x) ==
    /\ x \in late
    /\ late' = late \ {x}
    /\ db' \in {db, Inserted(x.toks, x.at)}
    /\ UNCHANGED <<clock, redis, marker, expired, logouts, proc, pass, history>>

\* The start times of the insert transactions still open.
OpenInserts ==
    {x.at : x \in late} \cup {lat[t] : t \in {u \in Tokens : lpc[u] = "persist"}}
        \cup {pat[p] : p \in {q \in Procs : pp[q] \in {"flush", "import"}}}

\* Time passes; one insert is shorter than the overlap.
Tick ==
    /\ clock < MaxClock
    /\ \A a \in OpenInserts : clock + 1 - a < Overlap
    /\ clock' = clock + 1
    /\ UNCHANGED <<db, late, redis, marker, expired, logouts, proc, pass, history>>

\* Redis comes back without its data.
Wipe ==
    /\ "wipe" \in Events
    /\ redis' = {} /\ marker' = FALSE
    /\ toImport' = [p \in Procs |-> IF up[p] = "boot" THEN {} ELSE toImport[p]]
    /\ UNCHANGED <<db, late, clock, expired, logouts, proc, pass, due, orphan>>

\* A token reaches its exp: its Redis key's TTL ends with it.
Expire(t) ==
    /\ "expire" \in Events
    /\ t \in Live
    /\ expired' = expired \cup {t}
    /\ redis' = redis \ {t}
    /\ UNCHANGED <<db, late, clock, marker, logouts, proc, pass, history>>

-----------------------------------------------------------------------------
PassStep(p) ==
    \/ PassBegin(p) \/ Pull(p) \/ PullFails(p) \/ Flush(p) \/ FlushFails(p) \/ Rewrite(p) \/ ReadMarker(p)
    \/ Scan(p) \/ Reseed(p) \/ SetMarker(p) \/ RedisFails(p) \/ Import(p) \/ ImportFails(p) \/ PassEnd(p)

LogoutStep(t) ==
    \/ \E p \in Procs : Logout(p, t)
    \/ LogoutRedis(t) \/ LogoutPersist(t) \/ LogoutPersistFails(t)

Environment ==
    \/ \E p \in Procs : Start(p) \/ Exit(p)
    \/ \E x \in late : LateInsert(x)
    \/ Tick \/ Wipe
    \/ \E t \in Tokens : Expire(t)

Next == (\E p \in Procs : PassStep(p)) \/ (\E t \in Tokens : LogoutStep(t)) \/ Environment

Spec == Init /\ [][Next]_vars

(* Processes are restarted and keep passing; a request under way goes on.  *)
(* Postgres is down only for a while: a call that keeps being tried        *)
(* succeeds some time.                                                     *)
Fairness ==
    /\ \A p \in Procs : WF_vars(Start(p)) /\ WF_vars(PassStep(p)) /\ SF_vars(Pull(p)) /\ SF_vars(Flush(p))
    /\ \A t \in Tokens : WF_vars(LogoutRedis(t)) /\ WF_vars(LogoutPersist(t) \/ LogoutPersistFails(t))

FairSpec == Spec /\ Fairness

-----------------------------------------------------------------------------
(* Properties. *)

\* Every variable keeps the shape the code gives it.
TypeOK ==
    /\ db \subseteq Row
    /\ late \subseteq Insert
    /\ clock \in Nat
    /\ redis \subseteq Tokens /\ marker \in BOOLEAN /\ expired \subseteq Tokens
    /\ lpc \in [Tokens -> {"live", "redis", "persist", "done", "cut"}]
    /\ lproc \in [Tokens -> Procs \cup {Nobody}]
    /\ lat \in [Tokens -> Nat]
    /\ up \in [Procs -> {"down", "boot", "serving"}]
    /\ mirror \in [Procs -> SUBSET Tokens] /\ queue \in [Procs -> SUBSET Tokens]
    /\ wm \in [Procs -> Int]
    /\ pp \in [Procs -> {"idle", "pull", "flush", "rewrite", "marker", "scan", "reseed", "seal", "import", "end"}]
    /\ boot \in [Procs -> BOOLEAN] /\ failed \in [Procs -> BOOLEAN] /\ intact \in [Procs -> BOOLEAN]
    /\ pend \in [Procs -> SUBSET Tokens] /\ pat \in [Procs -> Nat] /\ seeds \in [Procs -> SUBSET Tokens]
    /\ due \in [Procs -> SUBSET Tokens] /\ orphan \subseteq Tokens /\ toImport \in [Procs -> SUBSET Tokens]

(* _pull: an incremental pull misses nothing.  Whatever row was committed  *)
(* by a process's last pull is in its mirror, although rows carry the      *)
(* start time of transactions that commit later, in any order.             *)
PullMissesNothing == \A p \in Procs : due[p] \cap Live \subseteq mirror[p]

(* _persist_or_queue, _flush_unpersisted: a logout that was answered is in *)
(* Postgres or in the queue of a process that retries it; the only         *)
(* exceptions are those still queued when their process exited, and what   *)
(* the release before left in Redis.                                       *)
NothingDropped ==
    \A t \in Live : lpc[t] = "done" => t \in Toks(db) \cup Queued \cup orphan

(* The residue (module docstring): "the next process to boot imports them  *)
(* into Postgres; they are lost only if Redis also loses its data before   *)
(* that boot".  What Redis alone held when a process booted, and kept      *)
(* until the process served, is not lost as long as that process runs.     *)
BootImports ==
    \A p \in Procs : up[p] = "serving" => toImport[p] \cap Live \subseteq Toks(db) \cup Queued \cup redis

(* The marker "vouches for all of them" (cache.py _write_revoked,          *)
(* revoke_tokens: "the marker means the whole denylist is present"): while *)
(* it is set, every logout that was answered is in Redis.                  *)
MarkerVouches == marker => \A t \in Live : lpc[t] = "done" => t \in redis

\* Every process refuses the live tokens whose revocation is durable.
Caught == \A p \in Procs : Toks(db) \cap Live \subseteq mirror[p]

\* Every process comes to refuse a token whose revocation is durable (sync).
Converges == []<>Caught

\* No process has a live revocation that is not durable.
Drained == Queued \cap Live \subseteq Toks(db)

\* A queued revocation becomes durable (every pass retries the queue).
QueueDrains == []<>Drained

\* The tokens whose logout has begun, and the processes there are.
Ended == {t \in Tokens : lpc[t] # "live"}
Running == {p \in Procs : up[p] # "down"}

Promised == INSTANCE Denylist WITH
    revoked <- Ended, durable <- Toks(db), running <- Running, refuses <- mirror
StepsAsPromised == [Promised!Next]_(Promised!vars)

(* revoke, sync: the mirrors, the queues and the three stores implement    *)
(* the denylist.  No pass, import, retry or loss of Redis makes a process  *)
(* refuse a token nobody logged out or accept again one that it refused.   *)
ImplementsDenylist == Promised!Spec

\* Once nothing fails any more, every process has come to refuse what is durably revoked and every
\* queued revocation has become durable, again and again (the periodic pass: pull and flush).
CatchesUp == Converges /\ QueueDrains

\* Neither processes nor tokens are told apart by anything but their names.
Interchangeable == Permutations(Procs) \cup Permutations(Tokens)
=============================================================================
