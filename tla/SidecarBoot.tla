---------------------------- MODULE SidecarBoot -----------------------------
(***************************************************************************)
(* The embedded sidecar's own engine: it connects, loads the policies once *)
(* their tables exist, starts its watcher of policy events and serves.     *)
(* The version of one policy stands for its text.                          *)
(***************************************************************************)
EXTENDS Naturals

CONSTANTS
    Attempts,       \* STARTUP_ATTEMPTS
    Deadline,       \* _SCHEMA_WAIT_S, in waits for the schema
    MaxVersion,     \* bound: saves of the policy
    MaxFaults       \* bound: failing reads, lost connections, crashes

VARIABLES
    store,          \* Postgres and Redis: "down", "empty" (no tables yet), "ready"
    version,        \* the policy in Postgres
    pc, tries, waits, loaded,
    watcher,        \* "off", "on", "ended"
    news,           \* invalidations Redis has yet to deliver
    missed,         \* history: why the loaded policy may be an old one
    faults

vars == <<store, version, pc, tries, waits, loaded, watcher, news, missed, faults>>
process == <<pc, tries, waits, loaded, watcher, news, missed>>

TypeOK ==
    /\ store \in {"down", "empty", "ready"} /\ version \in 1..MaxVersion
    /\ pc \in {"connecting", "warming", "opening", "serving", "exited"}
    /\ tries \in 0..Attempts /\ waits \in 0..Deadline /\ loaded \in 0..version
    /\ watcher \in {"off", "on", "ended"} /\ news \in 0..MaxVersion
    /\ missed \subseteq {"gap", "dropped", "failed"} /\ faults \in 0..MaxFaults

Boot(p) ==
    [pc |-> p, tries |-> 0, waits |-> 0, loaded |-> 0, watcher |-> "off", news |-> 0]

Init ==
    /\ store \in {"down", "empty", "ready"} /\ version = 1 /\ pc = "connecting" /\ tries = 0 /\ waits = 0
    /\ loaded = 0 /\ watcher = "off" /\ news = 0 /\ missed = {} /\ faults = 0

Fault == faults < MaxFaults /\ faults' = faults + 1

\* The API: start-up creates the tables, a save commits and publishes.
StoreComes ==
    /\ store # "ready"
    /\ store' = IF store = "down" THEN "empty" ELSE "ready"
    /\ UNCHANGED <<version, process, faults>>

Save ==
    /\ store = "ready" /\ version < MaxVersion /\ version' = version + 1
    /\ news' = IF watcher = "on" THEN news + 1 ELSE news
    /\ missed' = IF watcher = "on" \/ loaded = 0 THEN missed
                 ELSE missed \cup {IF watcher = "ended" THEN "dropped" ELSE "gap"}
    /\ UNCHANGED <<store, pc, tries, waits, loaded, watcher, faults>>

Exit == pc' = "exited"

\* Faulty variant: the last attempt leaves the process neither up nor gone.
Connect_Hangs ==
    /\ pc = "connecting" /\ tries + 1 < Attempts
    /\ IF store # "down" THEN pc' = "warming" /\ tries' = 0 ELSE tries' = tries + 1 /\ UNCHANGED pc
    /\ UNCHANGED <<store, version, waits, loaded, watcher, news, missed, faults>>

\* connect_with_backoff
Connect ==
    /\ pc = "connecting"
    /\ IF store # "down" THEN pc' = "warming" /\ tries' = 0
       ELSE IF tries + 1 = Attempts THEN Exit /\ UNCHANGED tries
       ELSE tries' = tries + 1 /\ UNCHANGED pc
    /\ UNCHANGED <<store, version, waits, loaded, watcher, news, missed, faults>>

\* Faulty variant: the sidecar serves whatever warm_cache did.
Warm_Serves ==
    /\ pc = "warming" /\ pc' = "opening"
    /\ UNCHANGED <<store, version, tries, waits, loaded, watcher, news, missed, faults>>

\* _warm_cache_once_the_schema_exists
Warm ==
    /\ pc = "warming" /\ store = "ready" /\ loaded' = version /\ pc' = "opening"
    /\ UNCHANGED <<store, version, tries, waits, watcher, news, missed, faults>>

\* A store that cannot be reached has the budget of the connection.
WarmUnreachable ==
    /\ pc = "warming" /\ Fault
    /\ IF tries + 1 = Attempts THEN Exit /\ UNCHANGED tries ELSE tries' = tries + 1 /\ UNCHANGED pc
    /\ UNCHANGED <<store, version, waits, loaded, watcher, news, missed>>

\* Missing tables are waited for until the deadline.
WarmNoSchema ==
    /\ pc = "warming" /\ store = "empty"
    /\ IF waits = Deadline THEN Exit /\ UNCHANGED waits ELSE waits' = waits + 1 /\ UNCHANGED pc
    /\ UNCHANGED <<store, version, tries, loaded, watcher, news, missed, faults>>

\* start: the watcher is a task of its own; the socket opens without waiting
\* for its subscription.
Listen ==
    /\ pc \in {"opening", "serving"} /\ watcher = "off" /\ watcher' = "on"
    /\ UNCHANGED <<store, version, pc, tries, waits, loaded, news, missed, faults>>

Serve ==
    /\ pc = "opening" /\ pc' = "serving"
    /\ UNCHANGED <<store, version, tries, waits, loaded, watcher, news, missed, faults>>

\* Faulty variant: the event is taken as the reload.
Reload_Not ==
    /\ watcher = "on" /\ news > 0 /\ news' = news - 1 /\ UNCHANGED <<loaded, missed, store, version, pc, tries, waits, watcher, faults>>

\* _on_policy_invalidated: the row is read again, whatever it was.
Reload ==
    /\ watcher = "on" /\ news > 0 /\ news' = news - 1 /\ loaded' = version /\ missed' = {}
    /\ UNCHANGED <<store, version, pc, tries, waits, watcher, faults>>

\* A reload that fails is logged and not repeated.
ReloadFails ==
    /\ watcher = "on" /\ news > 0 /\ Fault
    /\ news' = news - 1 /\ missed' = missed \cup {"failed"}
    /\ UNCHANGED <<store, version, pc, tries, waits, loaded, watcher>>

\* _watch_policy_events: an error of the subscription ends the watcher.
Drop ==
    /\ watcher = "on" /\ Fault /\ watcher' = "ended" /\ news' = 0
    /\ missed' = IF news > 0 THEN missed \cup {"dropped"} ELSE missed
    /\ UNCHANGED <<store, version, pc, tries, waits, loaded>>

\* stop, or a crash; the kubelet starts the container again.
Stop == pc \in {"opening", "serving"} /\ Fault /\ Exit /\ UNCHANGED <<store, version, tries, waits, loaded, watcher, news, missed>>

Restart ==
    /\ pc = "exited" /\ missed' = {}
    /\ LET b == Boot("connecting") IN
       /\ pc' = b.pc /\ tries' = b.tries /\ waits' = b.waits /\ loaded' = b.loaded /\ watcher' = b.watcher /\ news' = b.news
    /\ UNCHANGED <<store, version, faults>>

Next ==
    \/ StoreComes \/ Save \/ Connect \/ Warm \/ WarmUnreachable \/ WarmNoSchema
    \/ Listen \/ Serve \/ Reload \/ ReloadFails \/ Drop \/ Stop \/ Restart

Spec == Init /\ [][Next]_vars

\* The store comes up, the process runs, the kubelet restarts it and Redis
\* delivers; nothing makes a fault happen.
FairSpec ==
    /\ Spec
    /\ WF_vars(StoreComes) /\ WF_vars(Connect) /\ WF_vars(Warm) /\ WF_vars(WarmNoSchema)
    /\ WF_vars(Listen) /\ WF_vars(Serve) /\ WF_vars(Reload) /\ WF_vars(Restart)

-----------------------------------------------------------------------------
\* The sidecar decides from policies it has read: the socket opens only after
\* a load that succeeded, and an out-of-date policy is one whose news is on
\* the way or was lost in one of three ways: saved before the watcher had
\* subscribed, lost with the subscription, or a reload that failed.
StaleForAReason == pc = "serving" => loaded > 0 /\ (loaded < version => news > 0 \/ missed # {})

Serving == pc = "serving"

\* Waiting for the tables or for the store ends, in a restart if need be, and
\* the sidecar comes to serve.
Starts == []<>Serving

\* What the watcher is for, and what does not hold: a saved policy reaches
\* the sidecar.  The watcher of the API subscribes again after an error; this
\* one ends, and a save before its subscription is not heard at all.
SavesArrive == \A v \in 2..MaxVersion : version = v ~> (loaded >= v \/ pc = "exited")
=============================================================================
