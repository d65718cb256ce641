----------------------------- MODULE AssetGraph ------------------------------
(***************************************************************************)
(* engine/graph and the evaluator's background recording: the runtime      *)
(* asset graph of one namespace.  Every replica keeps a live builder,      *)
(* restored from the stored snapshot at its first record; each record      *)
(* changes the builder and stores the whole of it, in Redis and as a new   *)
(* row.  A builder holds at most MaxNodes nodes and evicts the ones it     *)
(* takes for the least recently used.                                      *)
(***************************************************************************)
EXTENDS Naturals, Sequences, FiniteSets, FiniteSetsExt, SequencesExt

CONSTANTS
    Replicas, Tasks,
    Agents, Tools,
    Asset,        \* the data node a tool's verb stands for, or "none"
    ServedBy,     \* the MCP server a tool's calls report, or "none"
    MaxNodes,     \* AssetGraphBuilder._max_nodes
    MaxTasks, MaxRestarts, MaxFaults  \* bounds

VARIABLES
    live,      \* per replica: its builder, <<>> before its first record
    cached,    \* the snapshot in Redis, <<>> when it has expired
    row,       \* the newest stored row
    task,      \* per background task: where it stands
    begun, restarts, faults,
    gone,      \* ghost: nodes that were removed
    clean      \* ghost: one restore at a time, every save landed before the next
vars == <<live, cached, row, task, begun, restarts, faults, gone, clean>>

-----------------------------------------------------------------------------
(* AssetGraphBuilder: tick holds last_seen_tick, typed the nodes that have *)
(* their attributes.  used and unfair are ghosts: when a node was really   *)
(* last touched, and whether a node was evicted before an older one.       *)

Empty == [tick |-> <<>>, typed |-> {}, edges |-> {}, clock |-> 0, used |-> <<>>, unfair |-> FALSE]
Nodes(g) == DOMAIN g.tick

Uses(g) == IF g.used = <<>> THEN 0 ELSE Max({g.used[n] : n \in DOMAIN g.used})
Touch(g, n) ==
    LET put(f, v) == [m \in DOMAIN f \cup {n} |-> IF m = n THEN v ELSE f[m]] IN
    [g EXCEPT !.clock = @ + 1, !.tick = put(@, g.clock + 1), !.used = put(@, Uses(g) + 1)]

RemoveNode(g, n) ==
    LET cut(f) == [m \in DOMAIN f \ {n} |-> f[m]] IN
    [g EXCEPT !.tick = cut(@), !.used = cut(@), !.typed = @ \ {n}, !.edges = {e \in @ : n \notin {e[1], e[2]}}]

OldestNodeId(g) == CHOOSE n \in Nodes(g) : \A m \in Nodes(g) : g.tick[n] <= g.tick[m]
Evict(g) ==
    LET n == OldestNodeId(g) IN [RemoveNode(g, n) EXCEPT !.unfair = @ \/ \E m \in Nodes(g) : g.used[m] < g.used[n]]
EnforceNodeLimit(g) ==
    LET n == Cardinality(Nodes(g)) IN
    FoldLeft(LAMBDA h, i : Evict(h), g, [i \in 1..(IF n > MaxNodes THEN n - MaxNodes ELSE 0) |-> i])

\* add_agent, add_tool, add_data, add_mcp_server
AddNode(g, n) == EnforceNodeLimit([Touch(g, n) EXCEPT !.typed = @ \cup {n}])
AddMissing(g, n) == IF n \in Nodes(g) THEN g ELSE AddNode(g, n)

\* DiGraph.add_edge makes an end that is missing, without attributes or tick.
AddEdge(g, m, n) ==
    LET ends(f, v) == [x \in DOMAIN f \cup {m, n} |-> IF x \in DOMAIN f THEN f[x] ELSE v] IN
    [g EXCEPT !.tick = ends(@, 0), !.used = ends(@, Uses(g) + 1), !.edges = @ \cup {<<m, n>>}]
UpsertCallEdge(g, a, t) == Touch(Touch(AddEdge(g, a, t), a), t)
EnsureToolCallNodes(g, a, t) == AddMissing(AddMissing(g, a), t)
RecordDataAccess(g, t, d) == AddEdge(AddMissing(AddMissing(g, t), d), t, d)
RecordMappedData(g, t) == IF Asset[t] = "none" THEN g ELSE RecordDataAccess(AddNode(g, Asset[t]), t, Asset[t])
RecordMcpServing(g, t) ==
    LET s == ServedBy[t] IN
    IF s = "none" THEN g ELSE Touch(Touch(AddEdge(AddMissing(AddMissing(g, s), t), s, t), s), t)
RecordToolCall(g, a, t) ==
    RecordMcpServing(RecordMappedData(UpsertCallEdge(EnsureToolCallNodes(g, a, t), a, t), t), t)

\* The attributes are stored with the ticks; the clock starts again at the
\* number of nodes.
FromDict(snapshot) == [snapshot EXCEPT !.clock = Cardinality(Nodes(snapshot))]

-----------------------------------------------------------------------------
Idle == [at |-> "idle"]
Loading(t) == task[t].at = "loading"
Saving(t) == task[t].at \in {"caching", "storing"}

Init ==
    /\ live = [r \in Replicas |-> <<>>]
    /\ cached = <<>> /\ row = <<>>
    /\ task = [t \in Tasks |-> Idle]
    /\ begun = 0 /\ restarts = 0 /\ faults = 0
    /\ gone = {} /\ clean = TRUE

\* GraphStore.load: the snapshot in Redis, or the newest row.
Stored == IF cached # <<>> THEN cached ELSE row
GetGraph(r) == IF live[r] = <<>> THEN Empty ELSE live[r][1]

\* What a task does to the builder: _safe_record_graph or remove_graph_node.
Works == [agent : Agents, tool : Tools] \cup [remove : Agents]
Apply(g, w) == IF "remove" \in DOMAIN w THEN RemoveNode(g, w.remove) ELSE RecordToolCall(g, w.agent, w.tool)
\* A removal of a node that is not there stores nothing.
Stores(g, w) == "remove" \in DOMAIN w => w.remove \in Nodes(g)

\* The builder is changed and its payload taken without an await between them.
Record(t, r, w) ==
    LET g == Apply(GetGraph(r), w) IN
    /\ live' = [live EXCEPT ![r] = <<g>>]
    /\ task' = [task EXCEPT ![t] = IF Stores(GetGraph(r), w) THEN [at |-> "caching", by |-> r, payload |-> g] ELSE Idle]
    /\ clean' = (clean /\ ~ \E u \in Tasks \ {t} : Saving(u))

\* A decision, or a deregistration, queues a task; it begins by restoring the
\* namespace when this process has not touched it yet.
Begin(t, r, w) ==
    /\ task[t].at = "idle"
    /\ begun < MaxTasks /\ begun' = begun + 1
    /\ gone' = IF "remove" \in DOMAIN w THEN gone \cup {w.remove} ELSE gone
    /\ IF live[r] = <<>>
       THEN /\ task' = [task EXCEPT ![t] = [at |-> "loading", by |-> r, work |-> w]]
            /\ clean' = (clean /\ ~ \E u \in Tasks : Loading(u) \/ Saving(u))
            /\ UNCHANGED live
       ELSE Record(t, r, w)
    /\ UNCHANGED <<cached, row, restarts, faults>>

\* Faulty variant: a fresh process starts from an empty graph.
RestoreGraph_Not(r) == live
RestoreGraph(r) == IF Stored = <<>> THEN live ELSE [live EXCEPT ![r] = <<FromDict(Stored[1])>>]
\* The load returns: the builder is replaced whether or not another task has
\* restored or changed it meanwhile.
Loaded(t) ==
    /\ Loading(t)
    /\ LET r == task[t].by  w == task[t].work
           g == IF RestoreGraph(r)[r] = <<>> THEN Empty ELSE RestoreGraph(r)[r][1]
       IN /\ live' = [live EXCEPT ![r] = <<Apply(g, w)>>]
          /\ task' = [task EXCEPT ![t] = IF Stores(g, w) THEN [at |-> "caching", by |-> r, payload |-> Apply(g, w)] ELSE Idle]
    /\ UNCHANGED <<cached, row, begun, restarts, faults, gone, clean>>
LoadFails(t) ==
    /\ Loading(t) /\ faults < MaxFaults
    /\ Record(t, task[t].by, task[t].work)
    /\ faults' = faults + 1
    /\ UNCHANGED <<cached, row, begun, restarts, gone>>

\* GraphStore.save: Redis, then a new row, then the analysis caches.
SaveCache(t) ==
    /\ task[t].at = "caching"
    /\ cached' = <<task[t].payload>>
    /\ task' = [task EXCEPT ![t].at = "storing"]
    /\ UNCHANGED <<live, row, begun, restarts, faults, gone, clean>>
SaveDb(t) ==
    /\ task[t].at = "storing"
    /\ row' = <<task[t].payload>>
    /\ task' = [task EXCEPT ![t] = Idle]
    /\ UNCHANGED <<live, cached, begun, restarts, faults, gone, clean>>
SaveFails(t) ==
    /\ Saving(t) /\ faults < MaxFaults
    /\ faults' = faults + 1
    /\ task' = [task EXCEPT ![t] = Idle]
    /\ UNCHANGED <<live, cached, row, begun, restarts, gone, clean>>

\* The snapshot in Redis lives five minutes.
Expire ==
    /\ cached # <<>> /\ cached' = <<>>
    /\ UNCHANGED <<live, row, task, begun, restarts, faults, gone, clean>>
\* The process ends; its tasks with it.
Restart(r) ==
    /\ restarts < MaxRestarts /\ restarts' = restarts + 1
    /\ live' = [live EXCEPT ![r] = <<>>]
    /\ task' = [t \in Tasks |-> IF task[t].at # "idle" /\ task[t].by = r THEN Idle ELSE task[t]]
    /\ clean' = (clean /\ ~ \E t \in Tasks : task[t].at # "idle" /\ task[t].by = r)
    /\ UNCHANGED <<cached, row, begun, faults, gone>>

Next ==
    \/ \E t \in Tasks, r \in Replicas, w \in Works : Begin(t, r, w)
    \/ \E t \in Tasks : Loaded(t) \/ LoadFails(t) \/ SaveCache(t) \/ SaveDb(t) \/ SaveFails(t)
    \/ Expire
    \/ \E r \in Replicas : Restart(r)
Spec == Init /\ [][Next]_vars

-----------------------------------------------------------------------------
(* Properties *)

NodeIds == Agents \cup Tools \cup {Asset[t] : t \in Tools} \cup {ServedBy[t] : t \in Tools}
IsGraph(g) == Nodes(g) \subseteq NodeIds /\ g.typed \subseteq Nodes(g) /\ \A e \in g.edges : {e[1], e[2]} \subseteq Nodes(g)
TypeOK ==
    /\ \A r \in Replicas : live[r] # <<>> => IsGraph(live[r][1])
    /\ \A s \in {cached, row} : s # <<>> => IsGraph(s[1])
    /\ \A t \in Tasks : task[t].at \in {"idle", "loading", "caching", "storing"}

\* A builder stays within its limit but for the two ends of the edge it added
\* last: adding nodes may evict them, and add_edge, which does not look at the
\* limit, puts them back (_enforce_node_limit, _upsert_call_edge).
NodesBounded == \A r \in Replicas : live[r] # <<>> => Cardinality(Nodes(live[r][1])) <= MaxNodes + 2

\* With one replica, where restores do not overlap other tasks, no save
\* overtakes another and nothing fails, a restart forgets nothing: a save drops
\* a node from the stored graph only to keep the limit, or because it was
\* removed (_restore_graph: "graph amnesia on every deploy").
SaveKeepsTheGraph ==
    clean' /\ faults' = 0 /\ Cardinality(Replicas) = 1 /\ Stored # <<>> /\ cached' # <<>> =>
        LET lost == Nodes(Stored[1]) \ Nodes(Stored'[1]) IN
        lost \subseteq gone \/ Cardinality(Nodes(Stored'[1])) >= MaxNodes
\* SaveKeepsTheGraph of every step.
SavesKeepTheGraph == [][SaveKeepsTheGraph]_vars

\* "GRAPH-RESTORE: on the FIRST record for a namespace after a process start,
\* restore the persisted snapshot into the live builder. Without this, [...] the
\* next save clobbers the accumulated snapshot" (evaluator.py:1841). Refuted:
\* a task whose load returns late replaces what another has recorded meanwhile,
\* and a load that fails leaves an empty builder whose save replaces the rest.
NothingForgotten ==
    [][Stored # <<>> /\ cached' # <<>> =>
        LET lost == Nodes(Stored[1]) \ Nodes(Stored'[1]) IN
        lost \subseteq gone \/ Cardinality(Nodes(Stored'[1])) >= MaxNodes]_vars

\* "Evict least recently used nodes above cap." (asset_graph.py:398.) Refuted:
\* a restored builder starts its clock at the number of its nodes, below ticks
\* it has restored, and so evicts what was touched since.
EvictsLeastRecent == \A r \in Replicas : live[r] # <<>> => ~ live[r][1].unfair

\* "Create missing agent or tool nodes before call-edge write."
\* (asset_graph.py:194.) Refuted at the limit: adding the tool evicts the agent
\* when it is the oldest node, and the edge puts it back without its type.
NodesAreTyped == \A r \in Replicas : live[r] # <<>> => Nodes(live[r][1]) \subseteq live[r][1].typed
==============================================================================
