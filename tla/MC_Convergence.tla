--------------------------- MODULE MC_Convergence ----------------------------
(*****************************************************************************)
(* Small instances, side by side, of the parts that repeat what failed until *)
(* two sides agree: the policy controller, the status it derives, the start  *)
(* of a sidecar, and the pins an MCP proxy shares with the control plane.    *)
(* part says which of them a behaviour is one of; all but the pins, which    *)
(* this module extends, keep their state in one pool of variables.           *)
(*****************************************************************************)
EXTENDS McpPins

CONSTANTS Policies

VARIABLES part, x1, x2, x3, x4, x5, x6, x7, x8, x9, x10, x11, x12, x13, x14, x15, x16

\* What the parts do not use of the shared variables has no value.
Unused == "unused"

\* What the server serves in the behaviours of the other parts.
AnyDigest == CHOOSE d \in Digests : TRUE

\* One resource that changes twice, and one fault.
CC == INSTANCE CrdController WITH Texts <- {"preset", "a", "bad"}, Slots <- 1, MaxChanges <- 2,
    MaxFaults <- 1, MaxWatch <- 1, cr <- x1, store <- x2, watch <- x3, event <- x4, jobs <- x5,
    net <- x6, api <- x7, failed <- x8, applied <- x9, image <- x10, overtaken <- x11,
    unstamped <- x12, misplaced <- x13, abandoned <- x14, changes <- x15, faults <- x16

\* The controller again: a resource that may be deleted and created anew.
CD == INSTANCE CrdController WITH Texts <- {"preset", "bad"}, Slots <- 1, MaxChanges <- 3,
    MaxFaults <- 1, MaxWatch <- 1, cr <- x1, store <- x2, watch <- x3, event <- x4, jobs <- x5,
    net <- x6, api <- x7, failed <- x8, applied <- x9, image <- x10, overtaken <- x11,
    unstamped <- x12, misplaced <- x13, abandoned <- x14, changes <- x15, faults <- x16

\* Two policies, two classes, queues of one entry.
DS == INSTANCE DerivedStatus WITH Classes <- {"c", "d"}, Pinned <- {"i"}, Refused <- {"latest"},
    Limit <- 1, MaxChanges <- 4, MaxFaults <- 1, policy <- x1, noticed <- x2, stale <- x3,
    exists <- x4, classes <- x5, counting <- x6, count <- x7, config <- x8, configs <- x9,
    total <- x10, image <- x11, missed <- x12, changes <- x13, faults <- x14

\* Three faults on the way to serving.
SB == INSTANCE SidecarBoot WITH Attempts <- 2, Deadline <- 2, MaxVersion <- 4, MaxFaults <- 3,
    store <- x1, version <- x2, pc <- x3, tries <- x4, waits <- x5, loaded <- x6, watcher <- x7,
    news <- x8, missed <- x9, faults <- x10

-----------------------------------------------------------------------------
pool == <<x1, x2, x3, x4, x5, x6, x7, x8, x9, x10, x11, x12, x13, x14, x15, x16>>
all == <<part, pool, vars>>

\* A step of one part, for the fairness of all: part never changes, so fairness of the disjunction of
\* steps of different parts is fairness of each.
OnlyController(A) == part = "controller" /\ A /\ UNCHANGED <<vars>>
OnlyAgain(A) == part = "again" /\ A /\ UNCHANGED <<vars>>
OnlyStatus(A) == part = "status" /\ A /\ UNCHANGED <<x15, x16, vars>>
OnlyBoot(A) == part = "boot" /\ A /\ UNCHANGED <<x11, x12, x13, x14, x15, x16, vars>>

MCInit ==
    \/ part = "pins" /\ Init /\ x1 = Unused /\ x2 = Unused /\ x3 = Unused /\ x4 = Unused
            /\ x5 = Unused /\ x6 = Unused /\ x7 = Unused /\ x8 = Unused /\ x9 = Unused
            /\ x10 = Unused /\ x11 = Unused /\ x12 = Unused /\ x13 = Unused /\ x14 = Unused
            /\ x15 = Unused /\ x16 = Unused
    \/ part = "controller" /\ mode = "tofu" /\ served = AnyDigest /\ Init /\ CC!Init
    \/ part = "again" /\ mode = "tofu" /\ served = AnyDigest /\ Init /\ CD!Init
    \/ part = "status" /\ mode = "tofu" /\ served = AnyDigest /\ Init /\ DS!Init /\ x15 = Unused
            /\ x16 = Unused
    \/ part = "boot" /\ mode = "tofu" /\ served = AnyDigest /\ Init /\ SB!Init /\ x11 = Unused
            /\ x12 = Unused /\ x13 = Unused /\ x14 = Unused /\ x15 = Unused /\ x16 = Unused

MCNext ==
    \/ part = "pins" /\ Next /\ UNCHANGED <<part, pool>>
    \/ part = "controller" /\ CC!Next /\ UNCHANGED <<part, vars>>
    \/ part = "again" /\ CD!Next /\ UNCHANGED <<part, vars>>
    \/ part = "status" /\ DS!Next /\ UNCHANGED <<part, vars, x15, x16>>
    \/ part = "boot" /\ SB!Next /\ UNCHANGED <<part, vars, x11, x12, x13, x14, x15, x16>>

\* The fairness of every part, where that part is the one that runs.
MCFairness ==
    /\ WF_pool(OnlyBoot(SB!StoreComes) \/ OnlyController(CC!Deliver) \/ OnlyAgain(CD!Deliver) \/ OnlyStatus(DS!HandlePolicy))
    /\ WF_pool(OnlyBoot(SB!Connect) \/ OnlyController(CC!Handle) \/ OnlyAgain(CD!Handle) \/ OnlyStatus(DS!ProcessClass))
    /\ WF_pool(OnlyBoot(SB!Warm) \/ OnlyController(CC!Resync) \/ OnlyAgain(CD!Resync) \/ OnlyStatus(DS!WriteCount))
    /\ WF_pool(OnlyBoot(SB!WarmNoSchema) \/ OnlyController(CC!Runs(1)) \/ OnlyAgain(CD!Runs(1)) \/ OnlyStatus(DS!ProcessConfig))
    /\ WF_pool(OnlyBoot(SB!Listen))
    /\ WF_pool(OnlyBoot(SB!Serve))
    /\ WF_pool(OnlyBoot(SB!Reload))
    /\ WF_pool(OnlyBoot(SB!Restart))
    /\ SF_pool(OnlyController(CC!Sweep) \/ OnlyAgain(CD!Sweep) \/ OnlyStatus(DS!SweepSends("c")))
    /\ SF_pool(OnlyStatus(DS!SweepSends("d")))
    /\ SF_pool(OnlyStatus(DS!SweepSends("config")))
    /\ \A p \in Proxies :
         /\ WF_vars(part = "pins" /\ (LoadRead(p)))
         /\ WF_vars(part = "pins" /\ (LoadApply(p)))
         /\ WF_vars(part = "pins" /\ (LoadServers(p)))
         /\ WF_vars(part = "pins" /\ (List(p) \/ ListBlocked(p)))
    /\ \A p \in Proxies, d \in Digests, s \in BOOLEAN :
         LET r == [from |-> p, digest |-> d, sent |-> s] IN
         WF_vars(part = "pins" /\ (FlushStart(r) \/ Observe(r)))

MCSpec == MCInit /\ [][MCNext]_all /\ MCFairness

-----------------------------------------------------------------------------
(* The properties, each of its own part or parts. *)

\* Once nothing fails any more the two sides come to agree and stay so. Every proxy decides as the
\* stored pin and server decision say. The API holds what a valid resource says, and a deleted resource
\* is gone with its policy: unless a request was carried out after a later one or after its client gave
\* up, the last attempt to delete a policy failed or found no slot, the controller restarted with the
\* resource already gone, a carried-out request was not stamped, or an outcome was recorded for another
\* resource of the name; what a deleted class has latched is left out. Every derived count is the
\* number of cached policies, except where an event was dropped by a full queue, a status write failed,
\* or the config was deleted with copies of it still queued. A sidecar that waits for its tables or its
\* store comes to serve, in a restart if need be. On the way a policy is in the API only under its
\* resource's finalizer, and a sidecar serves only policies it has read (pins.py, controller.go,
\* startup_retry.py, proxy.py).
Repaired ==
    /\ <>[](part = "pins" => Agreed)
    /\ <>[]((part = "controller" => CC!SettledInOrder) /\ (part = "again" => CD!SettledInOrder))
    /\ <>[](part = "status" => DS!Refreshed)
    /\ []<>(part = "boot" => SB!Serving)
    /\ []((part = "controller" => CC!FinalizerBeforeStore) /\ (part = "again" => CD!FinalizerBeforeStore))
    /\ [](part = "boot" => SB!StaleForAReason)

==============================================================================
