----------------------------- MODULE MC_Platform -----------------------------
(*****************************************************************************)
(* Small instances, side by side, of the parts around the engine that keep   *)
(* shared state: login, audit, fleet, graph, the clients that enforce, the   *)
(* proxies' HTTP transport, the grace period of revocation and the secrets of*)
(* injected sidecars. They do not interact here: part says which of them a   *)
(* behaviour is one of, and all but the enforcing clients, which this module *)
(* extends, keep their state in one pool of variables. Actors are the        *)
(* callers, agents, processes, tasks, posts and checks of the parts.         *)
(*****************************************************************************)
EXTENDS EnforcementPoint, TLC

CONSTANTS Actors, Pods, Records, Nothing

VARIABLES part, x1, x2, x3, x4, x5, x6, x7, x8, x9, x10, x11, x12, x13, x14, x15, x16

\* What the parts do not use of the shared variables has no value.
Unused == "unused"

\* Of the tools one reads an asset and one is served by an MCP server.
GraphAsset == ("t" :> "data" @@ "u" :> "none" @@ "v" :> "none")
GraphServer == ("t" :> "none" @@ "u" :> "server" @@ "v" :> "none")

\* The actors are told apart by nothing but their names.
Interchangeable == Permutations(Actors)

\* Three admissions of pods of two workloads.
SE == INSTANCE SidecarSecret WITH Requests <- Pods, Workloads <- {"w", "x"}, Required <- TRUE,
    requests <- x1, secrets <- x2, lastError <- x3, overlapped <- x4, writer <- x5

\* Two callers, one of two sources each.
LW == INSTANCE LoginWindows WITH Callers <- Actors, Sources <- {"o", "x"}, HttpLimit <- 2,
    MaxAttempts <- 1, Multiplier <- 2, MaxLogins <- 3, MaxFaults <- 1, count <- x1, mortal <- x2,
    login <- x3, wrong <- x4, ever <- x5, logins <- x6, faults <- x7, stuck <- x8

\* A spoke of two replicas, and a hub; m is a scope the cluster manages itself.
FL == INSTANCE Fleet WITH Replicas <- Actors, Keys <- {"k", "m"}, Reserved <- {"m"},
    Fleetwide <- {<<"f", "k">>, <<"f", "m">>}, Override <- {<<"o", "k">>}, Legacy <- {"m"},
    MaxEdits <- 2, MaxFaults <- 1, MaxVersion <- 2, rows <- x1, cluster <- x2, rollout <- x3,
    token <- x4, store <- x5, state <- x6, joined <- x7, on <- x8, loop <- x9, pull <- x10,
    claim <- x11, signed <- x12, claims <- x13, edits <- x14, faults <- x15, mishaps <- x16

\* A window of two hours of two ticks.
RE == INSTANCE FleetRelay WITH Hour <- 2, Window <- 4, MaxTime <- 7, MaxLate <- 2, now <- x1,
    audit <- x2, hub <- x3, late <- x4, given <- x5, fresh <- x6

\* Two processes whose forwarders share a cursor, and two audit rows that commit in any order.
AT == INSTANCE AuditTrail WITH Processes <- Actors, Nobody <- Nothing, Events <- {1, 2}, Gate <- 1,
    Batch <- 1, Retention <- 0, MaxTime <- 2, MaxFaults <- 1, MaxExports <- 0, now <- x1, row <- x2,
    cursor <- x3, loaded <- x4, saved <- x5, fwd <- x6, sent <- x7, missed <- x8, export <- x9,
    exports <- x10, faults <- x11, excuses <- x12

\* One process, three rows in batches and pages of two, and an export.
AX == INSTANCE AuditTrail WITH Processes <- {"p"}, Nobody <- Nothing, Events <- {1, 2, 3}, Gate <- 2,
    Batch <- 2, Retention <- 0, MaxTime <- 2, MaxFaults <- 1, MaxExports <- 1, now <- x1, row <- x2,
    cursor <- x3, loaded <- x4, saved <- x5, fwd <- x6, sent <- x7, missed <- x8, export <- x9,
    exports <- x10, faults <- x11, excuses <- x12

\* Two processes with one place in each queue.
AF == INSTANCE AuditFeed WITH Processes <- Actors, Limit <- 1, MaxFaults <- 1, open <- x1,
    queue <- x2, seen <- x3, out <- x4, bus <- x5, at <- x6, owed <- x7, faults <- x8

\* Two tasks on a graph of at most four nodes.
AG == INSTANCE AssetGraph WITH Replicas <- {"r"}, Tasks <- Actors, Agents <- {"a", "b"},
    Tools <- {"t", "u", "v"}, Asset <- GraphAsset, ServedBy <- GraphServer, MaxNodes <- 4,
    MaxTasks <- 3, MaxRestarts <- 1, MaxFaults <- 1, live <- x1, cached <- x2, row <- x3,
    task <- x4, begun <- x5, restarts <- x6, faults <- x7, gone <- x8, clean <- x9

\* Two checks and two outages.
RG == INSTANCE RevocationGrace WITH Checks <- Actors, Grace <- 2, ReadTime <- 1, MaxTime <- 5,
    MaxOutages <- 2, now <- x1, up <- x2, outages <- x3, since <- x4, degraded <- x5, known <- x6,
    check <- x7, last <- x8, failed <- x9, late <- x10, fresh <- x11

\* Two posts of a session and three streams.
MH == INSTANCE McpHttp WITH None <- Nothing, Posts <- Actors, Ids <- {1, 2}, MaxStreams <- 3,
    MaxMints <- 3, PerStream <- 2, Total <- 2, Budget <- 3, PostBacks <- 1, id <- x1, state <- x2,
    pending <- x3, answers <- x4, streams <- x5, opened <- x6, entries <- x7, minted <- x8,
    posting <- x9

-----------------------------------------------------------------------------
pool == <<x1, x2, x3, x4, x5, x6, x7, x8, x9, x10, x11, x12, x13, x14, x15, x16>>
all == <<part, pool, vars>>

MCInit ==
    \/ part = "pep" /\ Init /\ x1 = Unused /\ x2 = Unused /\ x3 = Unused /\ x4 = Unused
            /\ x5 = Unused /\ x6 = Unused /\ x7 = Unused /\ x8 = Unused /\ x9 = Unused
            /\ x10 = Unused /\ x11 = Unused /\ x12 = Unused /\ x13 = Unused /\ x14 = Unused
            /\ x15 = Unused /\ x16 = Unused
    \/ part = "secret" /\ Init /\ SE!Init /\ x6 = Unused /\ x7 = Unused
            /\ x8 = Unused /\ x9 = Unused /\ x10 = Unused /\ x11 = Unused /\ x12 = Unused
            /\ x13 = Unused /\ x14 = Unused /\ x15 = Unused /\ x16 = Unused
    \/ part = "login" /\ Init /\ LW!Init /\ x9 = Unused /\ x10 = Unused
            /\ x11 = Unused /\ x12 = Unused /\ x13 = Unused /\ x14 = Unused /\ x15 = Unused /\ x16 = Unused
    \/ part = "fleet" /\ Init /\ FL!Init
    \/ part = "relay" /\ Init /\ RE!Init /\ x7 = Unused /\ x8 = Unused /\ x9 = Unused
            /\ x10 = Unused /\ x11 = Unused /\ x12 = Unused /\ x13 = Unused /\ x14 = Unused
            /\ x15 = Unused /\ x16 = Unused
    \/ part = "trail" /\ Init /\ AT!Init /\ x13 = Unused /\ x14 = Unused
            /\ x15 = Unused /\ x16 = Unused
    \/ part = "pages" /\ Init /\ AX!Init /\ x13 = Unused /\ x14 = Unused
            /\ x15 = Unused /\ x16 = Unused
    \/ part = "feed" /\ Init /\ AF!Init /\ x9 = Unused /\ x10 = Unused /\ x11 = Unused
            /\ x12 = Unused /\ x13 = Unused /\ x14 = Unused /\ x15 = Unused /\ x16 = Unused
    \/ part = "graph" /\ Init /\ AG!Init /\ x10 = Unused /\ x11 = Unused /\ x12 = Unused
            /\ x13 = Unused /\ x14 = Unused /\ x15 = Unused /\ x16 = Unused
    \/ part = "grace" /\ Init /\ RG!Init /\ x12 = Unused /\ x13 = Unused /\ x14 = Unused
            /\ x15 = Unused /\ x16 = Unused
    \/ part = "http" /\ Init /\ MH!Init /\ x10 = Unused /\ x11 = Unused /\ x12 = Unused
            /\ x13 = Unused /\ x14 = Unused /\ x15 = Unused /\ x16 = Unused

MCNext ==
    \/ part = "pep" /\ Next /\ UNCHANGED <<part, pool>>
    \/ part = "secret" /\ SE!Next /\ UNCHANGED <<part, vars, x6, x7, x8, x9, x10, x11, x12, x13, x14, x15, x16>>
    \/ part = "login" /\ LW!Next /\ UNCHANGED <<part, vars, x9, x10, x11, x12, x13, x14, x15, x16>>
    \/ part = "fleet" /\ FL!Next /\ UNCHANGED <<part, vars>>
    \/ part = "relay" /\ RE!Next /\ UNCHANGED <<part, vars, x7, x8, x9, x10, x11, x12, x13, x14, x15, x16>>
    \/ part = "trail" /\ AT!Next /\ UNCHANGED <<part, vars, x13, x14, x15, x16>>
    \/ part = "pages" /\ AX!Next /\ UNCHANGED <<part, vars, x13, x14, x15, x16>>
    \/ part = "feed" /\ AF!Next /\ UNCHANGED <<part, vars, x9, x10, x11, x12, x13, x14, x15, x16>>
    \/ part = "graph" /\ AG!Next /\ UNCHANGED <<part, vars, x10, x11, x12, x13, x14, x15, x16>>
    \/ part = "grace" /\ RG!Next /\ UNCHANGED <<part, vars, x12, x13, x14, x15, x16>>
    \/ part = "http" /\ MH!Next /\ UNCHANGED <<part, vars, x10, x11, x12, x13, x14, x15, x16>>

MCSpec == MCInit /\ [][MCNext]_all

-----------------------------------------------------------------------------
(* The properties, each of its own part or parts. *)

\* In a window a source tries no more wrong passwords than it may, but for one for each other attempt
\* under way and each failed command; who is locked out has tried as many himself, or all together
\* the multiple; and a counter that is there has an expiry or is being given one, unless that very
\* EXPIRE failed or the answer to its INCR was lost, which leaves it for good (auth_login.py,
\* rate_limit.py, cache.py:504-506).
LoginHolds ==
    /\ part = "login" => LW!GuessesBounded
    /\ part = "login" => LW!LockedBySomeReason
    /\ part = "login" => LW!WindowsEnd

\* A join token is claimed once however requests race.  Unless two replicas pulled at once, the hub
\* believes a version applied only if the spoke recorded it, and whatever a spoke has applied is on
\* its record, so that it can be withdrawn again; a pull that ended between its writes and its record
\* is the other exception to this.  The counts relayed to the hub never exceed what happened, and are
\* exact for the recent past after a relay (fleet.py, fleet_puller.py, fleet_relay.py).
FleetIsTrue ==
    /\ part = "fleet" => FL!ClaimedOnce /\ FL!PushesAreOnRecord /\ FL!AppliedIsTrue
    /\ part = "relay" => RE!NeverOvercounts /\ RE!RecentIsExact

\* A forwarder sends a row twice only after a failed post, a cursor that could not be read or saved,
\* a crash between a post and its save, or an older cursor saved by another forwarder; a row is
\* skipped by all of them only if it committed after one of its own or a later time was read, or was
\* cut off a full batch whose last row has its time.  An export that ends holds every row that was
\* there at its start and was not pruned, and none twice.  A live subscriber sees an event at most
\* once, and, while Redis does not fail, one it has not seen is on the way to it or met its full
\* queue (siem.py, audit.py, audit_hub.py).
TrailIsComplete ==
    /\ part = "trail" => AT!NotReplayed /\ AT!OnlyMissedOnesAreSkipped
    /\ part = "pages" => AX!NotReplayed /\ AX!OnlyMissedOnesAreSkipped /\ AX!ExportIsComplete
    /\ part = "feed" => AF!NoneTwice /\ AF!OwedIsComing

\* While Redis does not answer, a session is let through only until the grace period has passed,
\* and a blip shorter than it refuses nobody, if the last answer was recent (is_revoked).
OutagesAreBounded ==
    /\ part = "grace" => RG!SustainedIsRefused
    /\ part = "grace" => RG!RecentBlipsAreRidden

\* A POST of an MCP session gets one answer, its own, whatever streams carry it, and the events
\* kept for replay stay within their bounds (http.py).
HttpAnswersHold ==
    /\ part = "http" => MH!OneAnswerOfItsOwn
    /\ part = "http" => MH!EventIdsBounded

\* A pod is admitted with a reference to a secret only if the secret exists, dry runs apart.  An
\* admission that overlaps no other ends as its own write did, where the webhook has a writer: with
\* the secret required, none is admitted with credentials in the pod, and none whose secret was
\* written is refused; one that has nothing to write may be refused for an earlier one's error
\* (sidecar_secret.go).
SecretsAreThere ==
    /\ part = "secret" => SE!ReferredSecretExists
    /\ part = "secret" => SE!AloneIsExact

\* No pull touches a scope that the cluster keeps for itself.  The version a spoke has recorded falls
\* only by joining or leaving, or when a pull records what it compared with a record that the other
\* replica has raised since.  With one replica, while nothing fails, no two saves overlap and no
\* restore overlaps another task, a save of the asset graph drops a node only if it was removed or to
\* keep the limit (fleet_puller.py, asset_graph.py).
StepsAreSafe ==
    [][/\ part = "fleet" => FL!SparesReserved /\ FL!NotDowngraded
       /\ part = "graph" => AG!SaveKeepsTheGraph]_all

==============================================================================
