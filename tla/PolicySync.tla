----------------------------- MODULE PolicySync -----------------------------
(***************************************************************************)
(* One policy scope (namespace, agent class) kept by several processes:    *)
(* norviq/engine/policy_loader.py, with the listeners of api/main.py and   *)
(* sidecar/proxy.py.  Postgres holds the current row and the version       *)
(* history.  Every API replica and every embedded engine keeps a copy in   *)
(* memory, which is what the evaluator enforces, and learns of a change    *)
(* through Redis pub/sub: replicas from norviq:policy_events (their own    *)
(* echo skipped), engines from norviq:policy:invalidated.                  *)
(*                                                                         *)
(* A row, or a memory entry, is a set of at most one element.  What a      *)
(* policy says is its rego: a text and a priority.  Every step of a        *)
(* request, of a listener or of an evaluation ends at an await.            *)
(***************************************************************************)
EXTENDS Integers, Sequences, FiniteSets

CONSTANTS
    Replicas,      \* API processes
    Engines,       \* embedded engines (norviq-engine, embedded sidecars)
    Requests,      \* mutations of the scope; each runs once, on a replica
    Texts,         \* policy texts
    Priorities,    \* their priorities
    Ops,           \* the operations of the instance (OpsAssumption)
    Events,        \* what may happen around them (EventsAssumption)
    MaxVersions,   \* policy_max_versions: history kept in memory
    Keep           \* policy_version_keep_count: history kept in Postgres

ASSUME OpsAssumption == Ops \subseteq {"save", "apply", "rollback", "delete"}
ASSUME EventsAssumption ==
    Events \subseteq {"evaluate", "drop", "exit", "redis_fails", "db_fails"}
ASSUME BoundsAssumption == MaxVersions \in Nat \ {0} /\ Keep \in Nat
ASSUME ProcsAssumption == Replicas \cap Engines = {}

VARIABLES
    db, hist, ids,         \* policies, policy_versions, ids given out
    up, sub, inbox,        \* per process: running, subscribed, messages not handled yet
    mem, vers,             \* per process: _policies, _versions
    listen, lazy,          \* per process: the load its listener, an evaluation is making
    todo, task, pruning,   \* per request: the steps before it, its arguments, what its prune read
    astray                 \* history, read by properties only: see Missed and LazyWrite

stores == <<db, hist, ids>>
links == <<up, sub, inbox>>
memory == <<mem, vers>>
loads == <<listen, lazy>>
requests == <<todo, task, pruning>>
vars == <<stores, links, memory, loads, requests, astray>>

Procs == Replicas \cup Engines
Regos == Texts \X Priorities
Modes == {"block", "audit"}
Entry == [rego : Regos, mode : Modes]
Version == [ver : Nat, rego : Regos, mode : Modes]
Row == [id : Nat, ver : Nat, rego : Regos, mode : Modes]
AsEntry(rows) == {[rego |-> r.rego, mode |-> r.mode] : r \in rows}

\* The last n of a history; the history of the current row, oldest first.
LastN(s, n) == SubSeq(s, IF Len(s) > n THEN Len(s) - n + 1 ELSE 1, Len(s))
Snapshots ==
    LET hs == {h \in hist : \E r \in db : h.id = r.id}
        vs == {[ver |-> h.ver, rego |-> h.rego, mode |-> h.mode] : h \in hs}
    IN  CHOOSE s \in [1..Cardinality(vs) -> vs] : \A i, j \in DOMAIN s : i < j => s[i].ver < s[j].ver

NoLoad == [pc |-> "idle", row |-> {}, snaps |-> <<>>]
NoTask == [at |-> CHOOSE p \in Replicas : TRUE, rego |-> CHOOSE r \in Regos : TRUE, mode |-> "block",
           ver |-> 0, held |-> FALSE]
NoPrune == [id |-> 0, current |-> 0, cutoff |-> 0]

-----------------------------------------------------------------------------
\* Every process has been up for a while: it holds what Postgres holds.
Init ==
    /\ hist \in {{}} \cup {{r} : r \in [id : {1}, ver : {1}, rego : Regos, mode : Modes]}
    /\ db = hist
    /\ ids = 1
    /\ up = [p \in Procs |-> TRUE]
    /\ sub = [p \in Procs |-> "on"]
    /\ inbox = [p \in Procs |-> <<>>]
    /\ mem = [p \in Procs |-> AsEntry(db)]
    /\ vers = [p \in Procs |-> Snapshots]
    /\ listen = [p \in Procs |-> NoLoad]
    /\ lazy = [p \in Procs |-> NoLoad]
    /\ todo = [m \in Requests |-> <<"begin">>]
    /\ task = [m \in Requests |-> NoTask]
    /\ pruning = [m \in Requests |-> NoPrune]
    /\ astray = {}

(* The processes in ps are not told of a change: what they hold may be     *)
(* stale until the next change they hear of, or a restart.                 *)
Missed(ps) == astray' = astray \cup {p \in ps : up[p]}

\* _unload_local, and the first half of delete.
Unloads(p) ==
    /\ mem' = [mem EXCEPT ![p] = {}]
    /\ vers' = [vers EXCEPT ![p] = <<>>]

-----------------------------------------------------------------------------
(* Mutations.  todo lists the steps a request still has to take. *)

At(m, step) == todo[m] # <<>> /\ Head(todo[m]) = step
Moves(m) == todo' = [todo EXCEPT ![m] = Tail(@)]
Ends(m) == todo' = [todo EXCEPT ![m] = <<>>]

Arrives(m, p, steps, args) ==
    /\ At(m, "begin")
    /\ up[p]
    /\ todo' = [todo EXCEPT ![m] = steps]
    /\ task' = [task EXCEPT ![m] = args]
    /\ UNCHANGED pruning

Creating == <<"commit", "memory", "reload", "event", "select", "prune">>

\* create: any process, any content.
Save(m, p) ==
    /\ "save" \in Ops
    /\ \E e \in Entry : Arrives(m, p, Creating, [NoTask EXCEPT !.at = p, !.rego = e.rego, !.mode = e.mode])
    /\ UNCHANGED <<stores, links, memory, loads, astray>>

\* rollback: the snapshot in this process's memory is saved again.
Rollback(m, p) ==
    /\ "rollback" \in Ops
    /\ \E i \in DOMAIN vers[p] :
          Arrives(m, p, Creating, [NoTask EXCEPT !.at = p, !.rego = vers[p][i].rego, !.mode = vers[p][i].mode])
    /\ UNCHANGED <<stores, links, memory, loads, astray>>

\* The number of the newest version this process knows.
NewestKnown(p) == IF vers[p] = <<>> THEN 1 ELSE vers[p][Len(vers[p])].ver

(* apply_to_target: memory decides.  A text it does not hold is saved.  One *)
(* it holds is not saved again: another mode is written into the row, the   *)
(* same mode is reaffirmed, and in either case the source's priority goes   *)
(* into memory alone.                                                       *)
Apply(m, p) ==
    /\ "apply" \in Ops
    /\ \E e \in Entry :
          LET args == [NoTask EXCEPT !.at = p, !.rego = e.rego, !.mode = e.mode, !.ver = NewestKnown(p)]
              same == {c \in mem[p] : c.rego[1] = e.rego[1]}
          IN  \/ /\ same = {}
                 /\ Arrives(m, p, Creating, args)
                 /\ UNCHANGED mem
              \/ /\ \E c \in same : c.mode # e.mode
                 /\ Arrives(m, p, <<"remode", "patch", "reload", "event">>, args)
                 /\ UNCHANGED mem
              \/ /\ \E c \in same : c.mode = e.mode
                 /\ Arrives(m, p, <<"reload">>, args)
                 /\ mem' = [mem EXCEPT ![p] = {e}]
    /\ UNCHANGED <<stores, links, vers, loads, astray>>

\* delete: this process's memory first.
Delete(m, p) ==
    /\ "delete" \in Ops
    /\ Arrives(m, p, <<"delete", "event", "reload">>, [NoTask EXCEPT !.at = p, !.held = mem[p] # {}])
    /\ Unloads(p)
    /\ UNCHANGED <<stores, links, loads, astray>>

\* The upsert and its version row, in one transaction.
Upserted(m) ==
    IF db = {} THEN {[id |-> ids + 1, ver |-> 1, rego |-> task[m].rego, mode |-> task[m].mode]}
    ELSE {[id |-> r.id, ver |-> r.ver + 1, rego |-> task[m].rego, mode |-> task[m].mode] : r \in db}

Stored(m) ==
    /\ db' = Upserted(m)
    /\ hist' = hist \cup Upserted(m)
    /\ ids' = IF db = {} THEN ids + 1 ELSE ids

Commit(m) ==
    /\ At(m, "commit")
    /\ Stored(m)
    /\ Moves(m)
    /\ \E r \in Upserted(m) : task' = [task EXCEPT ![m].ver = r.ver]
    /\ UNCHANGED <<links, memory, loads, pruning, astray>>

\* create goes on: history and memory, in one step.
Remember(m) ==
    /\ At(m, "memory")
    /\ LET t == task[m] IN
       /\ vers' = [vers EXCEPT ![t.at] =
                      LastN(Append(@, [ver |-> t.ver, rego |-> t.rego, mode |-> t.mode]), MaxVersions)]
       /\ mem' = [mem EXCEPT ![t.at] = {[rego |-> t.rego, mode |-> t.mode]}]
    /\ Moves(m)
    /\ UNCHANGED <<stores, links, loads, task, pruning, astray>>

\* The mode alone: the row, and the version this process takes for the current one.
WithMode(r, mode) == [id |-> r.id, ver |-> r.ver, rego |-> r.rego, mode |-> mode]
Remoded(t) ==
    LET taken == {h \in hist : h.ver = t.ver /\ \E r \in db : h.id = r.id} IN
    /\ db' = {WithMode(r, t.mode) : r \in db}
    /\ hist' = (hist \ taken) \cup {WithMode(h, t.mode) : h \in taken}
    /\ UNCHANGED ids

\* No row, no answer.
Remode(m) ==
    /\ At(m, "remode")
    /\ Remoded(task[m])
    /\ IF db = {} THEN Ends(m) ELSE Moves(m)
    /\ UNCHANGED <<links, memory, loads, task, pruning, astray>>

Patch(m) ==
    /\ At(m, "patch")
    /\ LET t == task[m] IN
       /\ vers' = [vers EXCEPT ![t.at] = IF @ = <<>> THEN @ ELSE [@ EXCEPT ![Len(@)].mode = t.mode]]
       /\ mem' = [mem EXCEPT ![t.at] = {[rego |-> t.rego, mode |-> t.mode]}]
    /\ Moves(m)
    /\ UNCHANGED <<stores, links, loads, task, pruning, astray>>

\* Row and history go in one transaction.  Nothing anywhere: a plain 404, and nobody is told.
Deleted == db' = {} /\ hist' = {h \in hist : \A r \in db : h.id # r.id} /\ UNCHANGED ids
DeleteRow(m) ==
    /\ At(m, "delete")
    /\ Deleted
    /\ IF db = {} /\ ~task[m].held THEN Ends(m) ELSE Moves(m)
    /\ UNCHANGED <<links, memory, loads, task, pruning, astray>>

\* A message reaches those of ps that are subscribed.
Publish(ps, op) ==
    /\ inbox' = [p \in Procs |-> IF p \in ps /\ sub[p] = "on" THEN Append(inbox[p], op) ELSE inbox[p]]
    /\ Missed({p \in ps : sub[p] # "on"})

\* Faulty variant: a delete tells the replicas only.
PublishReload_NotOnDelete(m) ==
    /\ At(m, "reload")
    /\ IF ~task[m].held THEN Publish(Engines, "reload") ELSE UNCHANGED <<inbox, astray>>
    /\ Moves(m)
    /\ UNCHANGED <<stores, up, sub, memory, loads, task, pruning>>

\* norviq:policy:invalidated, heard by the engines.
PublishReload(m) ==
    /\ At(m, "reload")
    /\ Publish(Engines, "reload")
    /\ Moves(m)
    /\ UNCHANGED <<stores, up, sub, memory, loads, task, pruning>>

\* norviq:policy_events, heard by the replicas; the publisher skips its own.
PublishEvent(m) ==
    /\ At(m, "event")
    /\ Publish(Replicas \ {task[m].at}, IF todo[m] = <<"event", "reload">> THEN "delete" ELSE "upsert")
    /\ Moves(m)
    /\ UNCHANGED <<stores, up, sub, memory, loads, task, pruning>>

\* The change a request makes is in Postgres, and it has steps left.
Committed(m) == todo[m] # <<>> /\ Head(todo[m]) \notin {"begin", "commit", "remode", "delete"}

(* The request ends early after its commit: Redis fails, the commit's      *)
(* acknowledgement is lost, or its process exits.  Those it has not told   *)
(* yet are not told.                                                       *)
Untold(m) ==
    LET left == IF Committed(m) THEN {todo[m][i] : i \in DOMAIN todo[m]} ELSE {}
    IN  (IF "event" \in left THEN Replicas \ {task[m].at} ELSE {}) \cup (IF "reload" \in left THEN Engines ELSE {})

PublishFails(m) ==
    /\ "redis_fails" \in Events
    /\ At(m, "reload") \/ At(m, "event")
    /\ Missed(Untold(m))
    /\ Ends(m)
    /\ UNCHANGED <<stores, links, memory, loads, task, pruning>>

\* The transaction fails, or it landed and its process does not know.
WriteFails(m) ==
    /\ "db_fails" \in Events
    /\ \/ At(m, "commit") /\ Stored(m)
       \/ At(m, "delete") /\ Deleted
       \/ At(m, "remode") /\ Remoded(task[m])
       \/ todo[m] # <<>> /\ Head(todo[m]) \in {"commit", "delete", "remode", "select", "prune"} /\ UNCHANGED stores
    /\ IF db' = db THEN UNCHANGED astray ELSE Missed(Procs)
    /\ Ends(m)
    /\ UNCHANGED <<links, memory, loads, task, pruning>>

(* prune_versions reads the current version.  Its cutoff, taken before, is *)
(* a version number: the versions up to it are older.                      *)
Select(m) ==
    /\ At(m, "select")
    /\ IF db = {} THEN Ends(m) /\ UNCHANGED pruning
       ELSE /\ \E r \in db : \E c \in 0..r.ver :
                  pruning' = [pruning EXCEPT ![m] = [id |-> r.id, current |-> r.ver, cutoff |-> c]]
            /\ Moves(m)
    /\ UNCHANGED <<stores, links, memory, loads, task, astray>>

\* The versions a prune removes.
Newest(id) == {h \in hist : h.id = id /\ Cardinality({g \in hist : g.id = id /\ g.ver > h.ver}) < Keep}

\* Faulty variant: the current version is like any other.
Pruned_CurrentToo(t) == {h \in hist : h.id = t.id /\ h.ver <= t.cutoff /\ h \notin Newest(t.id)}

Pruned(t) == {h \in hist : h.id = t.id /\ h.ver # t.current /\ h.ver <= t.cutoff /\ h \notin Newest(t.id)}

Prune(m) ==
    /\ At(m, "prune")
    /\ hist' = hist \ Pruned(pruning[m])
    /\ Moves(m)
    /\ UNCHANGED <<db, ids, links, memory, loads, task, pruning, astray>>

-----------------------------------------------------------------------------
(* What a process hears, and what it loads. *)

\* The next message: a delete unloads, anything else reads the row.
Deliver(p) ==
    /\ inbox[p] # <<>> /\ listen[p].pc = "idle"
    /\ inbox' = [inbox EXCEPT ![p] = Tail(@)]
    /\ IF Head(inbox[p]) = "delete"
       THEN Unloads(p) /\ UNCHANGED listen
       ELSE listen' = [listen EXCEPT ![p] = [NoLoad EXCEPT !.pc = "row", !.row = db]] /\ UNCHANGED memory
    /\ UNCHANGED <<stores, up, sub, lazy, requests, astray>>

\* The read fails: the message is dropped, memory stays.
DeliverFails(p) ==
    /\ "db_fails" \in Events
    /\ inbox[p] # <<>> /\ listen[p].pc = "idle" /\ Head(inbox[p]) # "delete"
    /\ inbox' = [inbox EXCEPT ![p] = Tail(@)]
    /\ Missed({p})
    /\ UNCHANGED <<stores, up, sub, memory, loads, requests>>

\* Faulty variant: the mode is not read, and "block" stands in for it.
ListenRow_BlockDefault(p) ==
    /\ listen[p].pc = "row"
    /\ IF listen[p].row = {} THEN Unloads(p)
       ELSE mem' = [mem EXCEPT ![p] = {[rego |-> r.rego, mode |-> "block"] : r \in listen[p].row}] /\ UNCHANGED vers
    /\ listen' = [listen EXCEPT ![p] = IF p \in Engines \/ @.row = {} THEN NoLoad ELSE [@ EXCEPT !.pc = "read"]]
    /\ astray' = IF listen[p].row = db THEN astray \ {p} ELSE astray
    /\ UNCHANGED <<stores, links, lazy, requests>>

\* load_from_db returns: the row into memory; no row, no entry.  A replica goes on to the history.
ListenRow(p) ==
    /\ listen[p].pc = "row"
    /\ IF listen[p].row = {} THEN Unloads(p)
       ELSE mem' = [mem EXCEPT ![p] = AsEntry(listen[p].row)] /\ UNCHANGED vers
    /\ listen' = [listen EXCEPT ![p] = IF p \in Engines \/ @.row = {} THEN NoLoad ELSE [@ EXCEPT !.pc = "read"]]
    /\ astray' = IF listen[p].row = db THEN astray \ {p} ELSE astray
    /\ UNCHANGED <<stores, links, lazy, requests>>

\* _rehydrate_versions_for_key: the read; without rows, or failed, it changes nothing.
ListenRead(p) ==
    /\ listen[p].pc = "read"
    /\ \/ /\ listen' = [listen EXCEPT ![p] = IF Snapshots = <<>> THEN NoLoad
                                         ELSE [@ EXCEPT !.pc = "history", !.snaps = Snapshots]]
          /\ UNCHANGED astray
       \/ "db_fails" \in Events /\ listen' = [listen EXCEPT ![p] = NoLoad] /\ Missed({p})
    /\ UNCHANGED <<stores, links, memory, lazy, requests>>

ListenHistory(p) ==
    /\ listen[p].pc = "history"
    /\ vers' = [vers EXCEPT ![p] = LastN(listen[p].snaps, MaxVersions)]
    /\ listen' = [listen EXCEPT ![p] = NoLoad]
    /\ UNCHANGED <<stores, links, mem, lazy, requests, astray>>

\* An evaluation misses in memory and reads the row; it keeps what it finds.
LazyRead(p) ==
    /\ "evaluate" \in Events
    /\ up[p] /\ lazy[p].pc = "idle" /\ mem[p] = {} /\ db # {}
    /\ lazy' = [lazy EXCEPT ![p] = [NoLoad EXCEPT !.pc = "row", !.row = db]]
    /\ UNCHANGED <<stores, links, memory, listen, requests, astray>>

LazyWrite(p) ==
    /\ lazy[p].pc = "row"
    /\ mem' = [mem EXCEPT ![p] = AsEntry(lazy[p].row)]
    /\ lazy' = [lazy EXCEPT ![p] = NoLoad]
    /\ astray' = IF lazy[p].row = db THEN astray ELSE astray \cup {p}
    /\ UNCHANGED <<stores, links, vers, listen, requests>>

-----------------------------------------------------------------------------
(* Processes come and go. *)

\* The requests of an exiting process end where they are.
Exit(p) ==
    /\ "exit" \in Events
    /\ up[p]
    /\ up' = [up EXCEPT ![p] = FALSE]
    /\ sub' = [sub EXCEPT ![p] = "no"]
    /\ inbox' = [inbox EXCEPT ![p] = <<>>]
    /\ mem' = [mem EXCEPT ![p] = {}]
    /\ vers' = [vers EXCEPT ![p] = <<>>]
    /\ listen' = [listen EXCEPT ![p] = NoLoad]
    /\ lazy' = [lazy EXCEPT ![p] = NoLoad]
    /\ LET own == {m \in Requests : task[m].at = p /\ ~At(m, "begin")} IN
       /\ todo' = [m \in Requests |-> IF m \in own THEN <<>> ELSE todo[m]]
       /\ Missed((UNION {Untold(m) : m \in own}) \ {p})
    /\ UNCHANGED <<stores, task, pruning>>

\* warm_cache, before anything is served; the subscription comes later.
Warm(p) ==
    /\ ~up[p]
    /\ up' = [up EXCEPT ![p] = TRUE]
    /\ mem' = [mem EXCEPT ![p] = AsEntry(db)]
    /\ vers' = [vers EXCEPT ![p] = LastN(Snapshots, MaxVersions)]
    /\ astray' = astray \ {p}
    /\ UNCHANGED <<stores, sub, inbox, loads, requests>>

\* A replica subscribes again and again, an engine once per start.
Subscribe(p) ==
    /\ up[p] /\ sub[p] = "no"
    /\ sub' = [sub EXCEPT ![p] = "on"]
    /\ UNCHANGED <<stores, up, inbox, memory, loads, requests, astray>>

\* The connection breaks while the listener waits for a message.
Drop(p) ==
    /\ "drop" \in Events
    /\ sub[p] = "on" /\ listen[p].pc = "idle"
    /\ sub' = [sub EXCEPT ![p] = IF p \in Engines THEN "lost" ELSE "no"]
    /\ inbox' = [inbox EXCEPT ![p] = <<>>]
    /\ IF inbox[p] = <<>> THEN UNCHANGED astray ELSE Missed({p})
    /\ UNCHANGED <<stores, up, memory, loads, requests>>

-----------------------------------------------------------------------------
Next ==
    \/ \E m \in Requests :
          \/ \E p \in Replicas : Save(m, p) \/ Rollback(m, p) \/ Apply(m, p) \/ Delete(m, p)
          \/ Commit(m) \/ Remember(m) \/ Remode(m) \/ Patch(m) \/ DeleteRow(m)
          \/ PublishReload(m) \/ PublishEvent(m) \/ Select(m) \/ Prune(m)
          \/ PublishFails(m) \/ WriteFails(m)
    \/ \E p \in Procs :
          \/ Deliver(p) \/ DeliverFails(p) \/ ListenRow(p) \/ ListenRead(p) \/ ListenHistory(p)
          \/ LazyRead(p) \/ LazyWrite(p)
          \/ Exit(p) \/ Warm(p) \/ Subscribe(p) \/ Drop(p)

Spec == Init /\ [][Next]_vars

-----------------------------------------------------------------------------
(* Properties *)

Step == {"commit", "memory", "reload", "event", "select", "prune", "remode", "patch", "delete", "begin"}
Load == [pc : {"idle", "row", "read", "history"}, row : SUBSET Row, snaps : Seq(Version)]

\* Every variable has its type.
TypeOK ==
    /\ db \in SUBSET Row /\ hist \in SUBSET Row /\ ids \in Nat
    /\ up \in [Procs -> BOOLEAN]
    /\ sub \in [Procs -> {"on", "no", "lost"}]
    /\ inbox \in [Procs -> Seq({"delete", "upsert", "reload"})]
    /\ mem \in [Procs -> SUBSET Entry]
    /\ vers \in [Procs -> Seq(Version)]
    /\ listen \in [Procs -> Load] /\ lazy \in [Procs -> Load]
    /\ todo \in [Requests -> Seq(Step)]
    /\ task \in [Requests -> [at : Replicas, rego : Regos, mode : Modes, ver : Nat, held : BOOLEAN]]
    /\ pruning \in [Requests -> [id : Nat, current : Nat, cutoff : Nat]]
    /\ astray \in SUBSET Procs

(* prune_versions: the version that backs the enforcing row is never       *)
(* pruned, and history holds nothing newer, whatever saves, deletes and    *)
(* prunes run between a prune's SELECT and its DELETE.                     *)
CurrentVersionKept ==
    \A r \in db : /\ \E h \in hist : h.id = r.id /\ h.ver = r.ver /\ h.rego = r.rego
                  /\ \A h \in hist : h.id = r.id => h.ver <= r.ver

\* Everything p could still be told is in its memory.
Quiet(p) ==
    /\ up[p] /\ inbox[p] = <<>> /\ listen[p].pc = "idle" /\ lazy[p].pc = "idle"
    /\ \A m \in Requests : p \notin Untold(m)

(* A process that serves no mutation itself, an engine or a peer replica,  *)
(* enforces what Postgres holds once it has handled what it was told,      *)
(* unless a message to it was lost or an evaluation's load brought back a  *)
(* row that had already changed: an engine holds the row; a replica holds  *)
(* it and the number of its version, or nothing, which the next evaluation *)
(* reads from Postgres (a late delete event).                              *)
FollowersConverge ==
    \A p \in Procs \ astray :
        (Quiet(p) /\ \A m \in Requests : At(m, "begin") \/ task[m].at # p)
            => /\ mem[p] = AsEntry(db) \/ (mem[p] = {} /\ p \in Replicas)
               /\ p \in Replicas => vers[p] = <<>> \/ (\E r \in db : NewestKnown(p) = r.ver)

\* No request, message or load is under way anywhere.
Idle == (\A m \in Requests : todo[m] \in {<<>>, <<"begin">>}) /\ (\A p \in Procs : Quiet(p))

(* api/main.py skips a process's own echo because "local state is already  *)
(* current": once all is quiet, a replica that saved enforces the row.     *)
OwnEchoCurrent == Idle => \A m \in Requests : todo[m] = <<>> => mem[task[m].at] = AsEntry(db)

(* apply_remote_event: every replica enforces the same policy set within   *)
(* pub/sub latency.                                                        *)
ReplicasAgree == Idle => \A p, q \in Replicas : mem[p] = mem[q]

(* delete removes the policy from every layer, so it cannot be             *)
(* resurrected: once all is quiet, no replica enforces a policy that       *)
(* Postgres does not hold.                                                 *)
DeleteFinal == (Idle /\ db = {}) => \A p \in Replicas : mem[p] = {}

(* apply_to_target patches the current version's row in policy_versions,   *)
(* so a later rollback to it does not resurrect the stale mode.            *)
ModeOfCurrent ==
    \A r \in db, h \in hist : (h.id = r.id /\ h.ver = r.ver) => h.mode = r.mode
=============================================================================
