------------------------------- MODULE Fleet -------------------------------
(***************************************************************************)
(* Fleet distribution to one spoke.  The hub keeps authored policies, a    *)
(* bundle version for the cluster and the rollout it was last told of      *)
(* (fleet_policy, fleet, ingest).  Every replica of the spoke pulls the    *)
(* bundle, applies it policy by policy to the shared store and records     *)
(* what it applied (fleet_puller), and handles join and leave              *)
(* (fleet_enroll).  A bundle's signature is taken as checked: what arrives *)
(* is what was signed, or the pull ends (Refuse).                          *)
(***************************************************************************)
EXTENDS Naturals, FiniteSets

CONSTANTS
    Replicas,
    Keys, Reserved,     \* policy keys, and those among them of RESERVED_SCOPES
    Fleetwide, Override,    \* the authored names of each key: by selector, or for this cluster
    Legacy,             \* reserved keys that an older hub pushed and that are still recorded
    MaxEdits, MaxFaults, MaxVersion     \* bounds: administrators' operations, failures, bundle versions

VARIABLES
    rows,       \* hub: FleetPolicy, the text under each name, 0 when absent
    cluster,    \* hub: the bundle_version of the Cluster row, in a set that is empty without the row
    rollout,    \* hub: the PolicyRollout row, in a set likewise
    token,      \* hub: UsedJoinToken
    store,      \* spoke: the policies, each with the bundle that wrote it (saved_by), 0 for its own
    state,      \* spoke: FleetBundleState rows, under the cluster's id and under the empty one
    joined,     \* spoke: FleetJoinState.enabled
    on,         \* replicas whose settings say fleet
    loop,       \* each replica's puller: stopped, running or asked to stop
    pull,       \* the pull each replica is in
    claim,      \* replicas whose join has claimed its token
    signed,     \* history: what was signed under the version current at the hub
    claims,     \* history: successful claims of the token minted last
    mishaps,    \* history: "crossed" once a pull began while another replica was in one, "torn" once a
                \* pull ended between its writes and its record
    edits, faults

hub == <<rows, cluster, rollout, token>>
vars == <<hub, store, state, joined, on, loop, pull, claim, signed, claims, mishaps, edits, faults>>

Names == Fleetwide \cup Override
KeyOf(n) == n[2]
Texts == 0..MaxEdits + 1
Absent == [text |-> 0, by |-> 0]
Own == [text |-> 1, by |-> 0]
Idle == [pc |-> "idle"]
Pcs == {"read", "got", "apply", "drop", "persist", "report"}
Id(r) == IF r \in on THEN "cluster" ELSE "none"

TypeOK ==
    /\ rows \in [Names -> Texts] /\ token \in {"none", "minted", "claimed"}
    /\ cluster \subseteq Nat /\ Cardinality(cluster) <= 1 /\ Cardinality(rollout) <= 1
    /\ \A k \in Keys : store[k].text \in Texts /\ store[k].by \in Nat
    /\ \A i \in {"cluster", "none"} : state[i].last \in Nat /\ state[i].manifest \subseteq Keys
    /\ joined \in BOOLEAN /\ on \subseteq Replicas /\ claim \subseteq Replicas /\ mishaps \subseteq {"crossed", "torn"}
    /\ loop \in [Replicas -> {"stopped", "running", "stopping"}]
    /\ \A r \in Replicas : pull[r] = Idle \/ (pull[r].pc \in Pcs /\ loop[r] # "stopped")

\* A spoke that joined earlier, or one that may yet join.  Legacy rows are in the hub as well.
Init ==
    /\ rows = [n \in Names |-> IF KeyOf(n) \in Legacy THEN 1 ELSE 0]
    /\ rollout = {} /\ token = "none"
    /\ store = [k \in Keys |-> IF k \in Reserved THEN Own ELSE Absent]
    /\ joined \in BOOLEAN
    /\ cluster = IF joined THEN {0} ELSE {}
    /\ state = [i \in {"cluster", "none"} |-> [last |-> 0, manifest |-> IF i = "cluster" THEN Legacy ELSE {}]]
    /\ on = IF joined THEN Replicas ELSE {}
    /\ loop = [r \in Replicas |-> IF joined THEN "running" ELSE "stopped"]
    /\ pull = [r \in Replicas |-> Idle] /\ claim = {}
    /\ signed = {} /\ claims = 0 /\ mishaps = {} /\ edits = 0 /\ faults = 0

Edit == edits < MaxEdits /\ edits' = edits + 1
Fault == faults < MaxFaults /\ faults' = faults + 1
Ends(r) == pull' = [pull EXCEPT ![r] = Idle]
At(r, pc) == pull[r] # Idle /\ pull[r].pc = pc

\* The pull of r is between its check and its record.
Writing(r) == \E pc \in {"apply", "drop", "persist"} : At(r, pc)

-----------------------------------------------------------------------------
(* The hub. *)

\* author_policy: a reserved scope is refused; every authoring is a new text, version included.
Author(n) ==
    /\ KeyOf(n) \notin Reserved /\ Edit
    /\ rows' = [rows EXCEPT ![n] = edits + 2]
    /\ UNCHANGED <<cluster, rollout, token, store, state, joined, on, loop, pull, claim, signed, claims, mishaps, faults>>

Retract(n) ==
    /\ rows[n] # 0 /\ Edit
    /\ rows' = [rows EXCEPT ![n] = 0]
    /\ UNCHANGED <<cluster, rollout, token, store, state, joined, on, loop, pull, claim, signed, claims, mishaps, faults>>

\* _resolve_for_cluster: a policy for this cluster before one by selector; no reserved scope.
Resolved ==
    [k \in {KeyOf(n) : n \in {m \in Names : rows[m] # 0 /\ KeyOf(m) \notin Reserved}} |->
        LET ns == {n \in Names : KeyOf(n) = k /\ rows[n] # 0}
        IN rows[IF ns \cap Override # {} THEN CHOOSE n \in ns : n \in Override ELSE CHOOSE n \in ns : TRUE]]

\* get_bundle, up to its write.  The digest of a bundle stands for its policies.
Ask(r) ==
    /\ loop[r] = "running" /\ r \in on /\ pull[r] = Idle /\ cluster # {}
    /\ \E v \in cluster :
         v < MaxVersion /\ pull' = [pull EXCEPT ![r] =
           [pc |-> "read", bundle |-> Resolved, version |-> v, todo |-> {}, last |-> 0, state |-> "failed",
            bump |-> v = 0 \/ \A o \in rollout : o.detail # {Resolved}]]
    /\ mishaps' = IF \E q \in Replicas \ {r} : pull[q] # Idle THEN mishaps \cup {"crossed"} ELSE mishaps
    /\ UNCHANGED <<hub, store, state, joined, on, loop, claim, signed, claims, edits, faults>>

\* The version goes up when the bundle is not the one noted in the rollout.
Sign(r) ==
    /\ pull[r] # Idle /\ pull[r].pc = "read"
    /\ IF pull[r].bump /\ cluster = {} THEN Ends(r) /\ UNCHANGED <<cluster, rollout, signed>>
       ELSE LET v == pull[r].version + (IF pull[r].bump THEN 1 ELSE 0) IN
            /\ pull' = [pull EXCEPT ![r].pc = "got", ![r].version = v]
            /\ IF pull[r].bump
               THEN /\ cluster' = {v}
                    /\ rollout' = {[version |-> v, detail |-> {pull[r].bundle}, state |-> "pending"]}
                    /\ signed' = {pull[r].bundle}
               ELSE UNCHANGED <<cluster, rollout, signed>>
    /\ UNCHANGED <<rows, token, store, state, joined, on, loop, claim, claims, mishaps, edits, faults>>

\* report_rollout overwrites the detail, where the digest was kept.
Reported(r) ==
    LET expected == IF rollout = {} THEN {pull[r].version} ELSE {o.version : o \in rollout}
    IN {[version |-> v, detail |-> {},
         state |-> IF pull[r].state = "failed" THEN "failed" ELSE IF pull[r].version = v THEN "applied" ELSE "diverged"] :
            v \in expected}

\* Faulty variant: the claim is checked, not taken, in the update.
ClaimToken_Again(r) ==
    /\ token # "none" /\ r \notin claim
    /\ token' = "claimed" /\ claims' = claims + 1
    /\ claim' = claim \cup {r}
    /\ UNCHANGED <<rows, cluster, rollout, store, state, joined, on, loop, pull, signed, mishaps, edits, faults>>

\* mint_cluster_join_token, and claim_join_token by one conditional update.
Mint ==
    /\ token # "minted" /\ Edit /\ token' = "minted" /\ claims' = 0
    /\ UNCHANGED <<rows, cluster, rollout, store, state, joined, on, loop, pull, claim, signed, mishaps, faults>>

ClaimToken(r) ==
    /\ token = "minted" /\ r \notin claim
    /\ token' = "claimed" /\ claims' = claims + 1
    /\ claim' = claim \cup {r}
    /\ UNCHANGED <<rows, cluster, rollout, store, state, joined, on, loop, pull, signed, mishaps, edits, faults>>

\* The claim succeeds and its answer is lost: fleet_join gives up (502).
ClaimLost ==
    /\ token = "minted" /\ Fault
    /\ token' = "claimed" /\ claims' = claims + 1
    /\ UNCHANGED <<rows, cluster, rollout, store, state, joined, on, loop, pull, claim, signed, mishaps, edits>>

\* remove_cluster; the relay's next heartbeat brings the row back with no version.
Remove ==
    /\ cluster # {} /\ Edit
    /\ cluster' = {} /\ rollout' = {} /\ token' = "none" /\ signed' = {}
    /\ UNCHANGED <<rows, store, state, joined, on, loop, pull, claim, claims, mishaps, faults>>

Heartbeat ==
    /\ cluster = {} /\ on # {}
    /\ cluster' = {0}
    /\ UNCHANGED <<rows, rollout, token, store, state, joined, on, loop, pull, claim, signed, claims, mishaps, edits, faults>>

-----------------------------------------------------------------------------
(* pull_once *)

\* Faulty variant: any bundle is applied.
Newer_Always(r) == TRUE

Newer(r) == pull[r].version > state[Id(r)].last

\* Without its settings a replica verifies no bundle.
Check(r) ==
    /\ At(r, "got")
    /\ IF r \in on /\ Newer(r)
       THEN pull' = [pull EXCEPT ![r].pc = "apply", ![r].last = state[Id(r)].last,
                                 ![r].todo = DOMAIN pull[r].bundle \ Reserved]
       ELSE Ends(r)
    /\ UNCHANGED <<hub, store, state, joined, on, loop, claim, signed, claims, mishaps, edits, faults>>

\* No answer from the hub, a bad signature, another cluster's bundle, or one outside its time window.
Refuse(r) ==
    /\ At(r, "got") /\ Fault /\ Ends(r)
    /\ UNCHANGED <<hub, store, state, joined, on, loop, claim, signed, claims, mishaps, edits>>

Apply(r) ==
    /\ At(r, "apply") /\ pull[r].todo # {}
    /\ LET k == CHOOSE k \in pull[r].todo : TRUE IN
       /\ store' = [store EXCEPT ![k] = [text |-> pull[r].bundle[k], by |-> pull[r].version]]
       /\ pull' = [pull EXCEPT ![r].todo = @ \ {k}]
    /\ UNCHANGED <<hub, state, joined, on, loop, claim, signed, claims, mishaps, edits, faults>>

\* Faulty variant: whatever was recorded is deleted.
Dropped_Reserved(r) == state[Id(r)].manifest \ DOMAIN pull[r].bundle

\* Faulty variant: nothing is reconciled.
Dropped_Nothing(r) == {}

\* _dropped_keys
Dropped(r) == (state[Id(r)].manifest \ DOMAIN pull[r].bundle) \ Reserved

Reconcile(r) ==
    /\ At(r, "apply") /\ pull[r].todo = {}
    /\ pull' = [pull EXCEPT ![r].pc = "drop", ![r].todo = Dropped(r)]
    /\ UNCHANGED <<hub, store, state, joined, on, loop, claim, signed, claims, mishaps, edits, faults>>

Drop(r) ==
    /\ At(r, "drop")
    /\ IF pull[r].todo = {} THEN pull' = [pull EXCEPT ![r].pc = "persist"] /\ UNCHANGED store
       ELSE LET k == CHOOSE k \in pull[r].todo : TRUE IN
            /\ store' = [store EXCEPT ![k] = Absent]
            /\ pull' = [pull EXCEPT ![r].todo = @ \ {k}]
    /\ UNCHANGED <<hub, state, joined, on, loop, claim, signed, claims, mishaps, edits, faults>>

\* Faulty variant: the hub is told of a success.
ApplyFails_Unsaid(r) ==
    /\ \/ At(r, "apply")
       \/ At(r, "drop")
    /\ Fault
    /\ pull' = [pull EXCEPT ![r].pc = "report", ![r].state = "applied"]
    /\ mishaps' = mishaps \cup {"torn"}
    /\ UNCHANGED <<hub, store, state, joined, on, loop, claim, signed, claims, edits>>

\* A write of the store fails: the hub is told, nothing is recorded.
ApplyFails(r) ==
    /\ \/ At(r, "apply")
       \/ At(r, "drop")
    /\ Fault
    /\ pull' = [pull EXCEPT ![r].pc = "report"]
    /\ mishaps' = mishaps \cup {"torn"}
    /\ UNCHANGED <<hub, store, state, joined, on, loop, claim, signed, claims, edits>>

Persist(r) ==
    /\ At(r, "persist")
    /\ state' = [state EXCEPT ![Id(r)] =
          [last |-> pull[r].version, manifest |-> DOMAIN pull[r].bundle \ Reserved]]
    /\ pull' = [pull EXCEPT ![r].pc = "report", ![r].state = "applied"]
    /\ UNCHANGED <<hub, store, joined, on, loop, claim, signed, claims, mishaps, edits, faults>>

\* _persist raises out of the pull: nothing is recorded and the hub is not told.
PersistFails(r) ==
    /\ At(r, "persist") /\ Fault /\ Ends(r)
    /\ mishaps' = mishaps \cup {"torn"}
    /\ UNCHANGED <<hub, store, state, joined, on, loop, claim, signed, claims, edits>>

\* _report: best effort, and to no cluster once the settings are cleared.
Report(r) ==
    /\ At(r, "report") /\ Ends(r)
    /\ \/ r \in on /\ rollout' = Reported(r) /\ UNCHANGED faults
       \/ UNCHANGED rollout /\ IF r \in on THEN Fault ELSE UNCHANGED faults
    /\ UNCHANGED <<rows, cluster, token, store, state, joined, on, loop, claim, signed, claims, mishaps, edits>>

-----------------------------------------------------------------------------
(* fleet_join, fleet_leave, restarts, and the spoke's own administrators. *)

Start(r) == IF loop[r] = "stopped" THEN "running" ELSE loop[r]

Join(r) ==
    /\ r \in claim /\ claim' = claim \ {r}
    /\ joined' = TRUE /\ on' = on \cup {r}
    /\ state' = [i \in DOMAIN state |-> [state[i] EXCEPT !.last = 0]]
    /\ loop' = [loop EXCEPT ![r] = Start(r)]
    /\ UNCHANGED <<hub, store, pull, signed, claims, mishaps, edits, faults>>

Recorded == UNION {state[i].manifest : i \in DOMAIN state}

\* Everything recorded is deleted and forgotten; then the puller of this replica is told to stop.
Leave(r) ==
    /\ Edit /\ joined' = FALSE /\ on' = on \ {r}
    /\ store' = [k \in Keys |-> IF k \in Recorded THEN Absent ELSE store[k]]
    /\ state' = [i \in DOMAIN state |-> [last |-> 0, manifest |-> {}]]
    /\ loop' = [loop EXCEPT ![r] = IF @ = "running" THEN "stopping" ELSE @]
    /\ UNCHANGED <<hub, pull, claim, signed, claims, mishaps, faults>>

\* The loop sees the event between two pulls.
Stops(r) ==
    /\ loop[r] = "stopping" /\ pull[r] = Idle
    /\ loop' = [loop EXCEPT ![r] = "stopped"]
    /\ UNCHANGED <<hub, store, state, joined, on, pull, claim, signed, claims, mishaps, edits, faults>>

\* configure_from_join_state
Restart(r) ==
    /\ Fault /\ Ends(r) /\ claim' = claim \ {r}
    /\ on' = IF joined THEN on \cup {r} ELSE on \ {r}
    /\ loop' = [loop EXCEPT ![r] = IF joined THEN "running" ELSE "stopped"]
    /\ mishaps' = IF Writing(r) THEN mishaps \cup {"torn"} ELSE mishaps
    /\ UNCHANGED <<hub, store, state, joined, signed, claims, edits>>

\* A policy of the spoke's own, through its policy routes.
Local(k) ==
    /\ k \notin Reserved /\ Edit
    /\ \E p \in {Own, Absent} : store' = [store EXCEPT ![k] = p]
    /\ UNCHANGED <<hub, state, joined, on, loop, pull, claim, signed, claims, mishaps, faults>>

Pull(r) ==
    \/ Ask(r) \/ Sign(r) \/ Check(r) \/ Refuse(r) \/ Apply(r) \/ Reconcile(r) \/ Drop(r) \/ ApplyFails(r)
    \/ Persist(r) \/ PersistFails(r) \/ Report(r)

Next ==
    \/ \E n \in Names : Author(n) \/ Retract(n)
    \/ Mint \/ ClaimLost \/ Remove \/ Heartbeat
    \/ \E r \in Replicas : Pull(r) \/ ClaimToken(r) \/ Join(r) \/ Leave(r) \/ Stops(r) \/ Restart(r)
    \/ \E k \in Keys : Local(k)

Spec == Init /\ [][Next]_vars

-----------------------------------------------------------------------------
\* A pull never writes or deletes a scope that the cluster manages itself, whatever rows the hub holds
\* and whatever an older bundle left recorded (_resolve_for_cluster, pull_once).
SparesReserved == \A k \in Reserved : store'[k] = store[k] \/ \E r \in Replicas : Leave(r)
\* PullsSpareReserved: SparesReserved of every step of hub and spoke.
PullsSpareReserved == [][SparesReserved]_vars

\* A push can be taken back: every policy that a bundle wrote is recorded or belongs to the pull under
\* way, whatever joins and leaves come between its steps, unless a pull ended between its writes and
\* its record or two replicas pulled at once (pull_once's reconcile; retract_policy, "a push is fully
\* reversible").  Bundles refused, reports and claims lost and restarts elsewhere are no exceptions.
PushesAreOnRecord ==
    mishaps = {} =>
        \A k \in Keys : store[k].by > 0 =>
            k \in Recorded \/ \E r \in Replicas : Writing(r) /\ k \in DOMAIN pull[r].bundle

\* The version a spoke has recorded falls only by joining or leaving, or when a pull records what it
\* compared with a record that another replica has raised since (pull_once reads last and writes
\* version without a condition; fleet_puller, "never downgraded").  Crashes, failed pulls and the hub
\* forgetting the cluster do not take it back.
NotDowngraded ==
    \A i \in DOMAIN state :
        \/ state'[i].last >= state[i].last
        \/ \E r \in Replicas : Join(r) \/ Leave(r) \/ (Persist(r) /\ state[i].last > pull[r].last)
\* NeverDowngraded: NotDowngraded of every step of hub and spoke.
NeverDowngraded == [][NotDowngraded]_vars

\* Unless two replicas pulled at once, the hub shows a bundle as applied only when the spoke has
\* recorded that very version, or has begun a new lineage since (report_rollout).
AppliedIsTrue ==
    "crossed" \notin mishaps => \A o \in rollout : o.state = "applied" => state["cluster"].last \in {0, o.version}

\* However many replicas try, and whatever answers are lost, a token enrols at most once
\* (claim_join_token).
ClaimedOnce == claims <= 1

\* The version of a bundle is stable while its policies are ("so re-pull no-ops on the spoke",
\* fleet_policy.py:191).  Refuted: a report overwrites the digest with its own detail, so the next pull
\* after every report gets a new version, is applied again and reported again.
VersionIsStable ==
    [][\A v \in cluster, w \in cluster' : w = v + 1 => signed' # signed]_vars

\* A spoke that left enforces no pushed policy ("SHED any fleet-pushed policy", fleet_enroll.py:142).
\* Refuted: a pull under way, or the puller of another replica, applies its bundle after the shedding.
LeftIsShed ==
    ~ joined /\ (\A r \in Replicas : loop[r] = "stopped") => \A k \in Keys : store[k].by = 0

\* A cluster's own scopes are never deleted by the fleet ("never fleet-deleted", fleet_puller.py:148).
\* Refuted: leaving deletes everything an older bundle left recorded.
ReservedIsKept == \A k \in Reserved : store[k] = Own

\* A spoke that is enrolled pulls.  Refuted: a join while a leave waits for its pull finds the puller
\* still running and does not start it; the leave then stops it.
JoinedPulls == joined => \E r \in Replicas : loop[r] # "stopped"
=============================================================================
