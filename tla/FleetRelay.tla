----------------------------- MODULE FleetRelay -----------------------------
(***************************************************************************)
(* The relay's hourly audit counts (fleet_relay._aggregate, relay_once)    *)
(* and the hub's upsert of them (ingest.rollup).  Each cycle counts the    *)
(* records of a trailing window by hour, and the hub sets the count of     *)
(* each hour it is sent.  A post may be lost, or land after the relay gave *)
(* up on it.  Time is in ticks, several to the hour.                       *)
(***************************************************************************)
EXTENDS Naturals, FiniteSetsExt

CONSTANTS
    Hour,       \* ticks to the hour
    Window,     \* _AUDIT_WINDOW_HOURS, in ticks
    MaxTime, MaxLate    \* bounds: ticks, posts given up on

VARIABLES now, audit, hub, late, given, fresh

vars == <<now, audit, hub, late, given, fresh>>
Buckets == {t \div Hour : t \in 0..MaxTime}

TypeOK ==
    /\ now \in 0..MaxTime /\ audit \in [0..MaxTime -> {0, 1}]
    /\ hub \in [Buckets -> Nat] /\ given \in 0..MaxLate
    /\ \A p \in late : DOMAIN p \subseteq Buckets
    /\ fresh \in BOOLEAN

Init ==
    /\ now = 0 /\ audit = [t \in 0..MaxTime |-> 0]
    /\ hub = [b \in Buckets |-> 0] /\ late = {} /\ given = 0
    /\ fresh = TRUE     \* history: nothing was logged or landed since the last cycle

Sum(ts) == MapThenSumSet(LAMBDA t : audit[t], ts)
Total(b) == Sum({t \in 0..MaxTime : t \div Hour = b})

\* Faulty variant: an hour less is counted.
InWindow_Short(t) == t + Window >= now + Hour

InWindow(t) == t + Window >= now

\* _aggregate: hours without a record in the window are not sent.
Aggregate ==
    [b \in {t \div Hour : t \in {u \in 0..now : audit[u] > 0 /\ InWindow(u)}} |->
        Sum({t \in 0..now : t \div Hour = b /\ InWindow(t)})]

\* Faulty variant: the hub adds what it is sent.
Rollup_Adds(post) == [b \in Buckets |-> hub[b] + IF b \in DOMAIN post THEN post[b] ELSE 0]

\* ingest.rollup: set, not added.
Rollup(post) == [b \in Buckets |-> IF b \in DOMAIN post THEN post[b] ELSE hub[b]]

Log ==
    /\ audit[now] = 0
    /\ audit' = [audit EXCEPT ![now] = 1] /\ fresh' = FALSE
    /\ UNCHANGED <<now, hub, late, given>>

Tick == now < MaxTime /\ now' = now + 1 /\ UNCHANGED <<audit, hub, late, given, fresh>>

Relay ==
    /\ hub' = Rollup(Aggregate) /\ fresh' = TRUE
    /\ UNCHANGED <<now, audit, late, given>>

\* The post fails for the relay; it may yet land.
GiveUp ==
    /\ given < MaxLate /\ given' = given + 1
    /\ late' = late \cup {Aggregate}
    /\ UNCHANGED <<now, audit, hub, fresh>>

Land(post) ==
    /\ late' = late \ {post} /\ hub' = Rollup(post) /\ fresh' = FALSE
    /\ UNCHANGED <<now, audit, given>>

Next == Log \/ Tick \/ Relay \/ GiveUp \/ \E post \in late : Land(post)

Spec == Init /\ [][Next]_vars

-----------------------------------------------------------------------------
\* No record is counted twice, however often a window is sent again and however late a post lands
\* (ingest.rollup, "converges instead of double-counting").
NeverOvercounts == \A b \in Buckets : hub[b] <= Total(b)

\* After a cycle the hub has every hour that lies wholly in the window as it is, whatever was lost
\* before ("a dropped POST self-heals").
RecentIsExact == fresh => \A b \in Buckets : b * Hour + Window >= now => hub[b] = Total(b)

\* A count is never replaced by a smaller one while everything arrives in order.  Refuted: the window
\* begins within an hour, so its oldest hour is counted in part and that part replaces the whole.
CountsStand == [][late = {} => \A b \in Buckets : hub'[b] >= hub[b]]_vars
=============================================================================
