----------------------------- MODULE AuditFeed ------------------------------
(***************************************************************************)
(* The live audit feed: AuditHub.publish gives a record to the subscribers *)
(* of its own process at once and to the other processes through Redis;    *)
(* each subscriber has a bounded queue, drained by its websocket.          *)
(***************************************************************************)
EXTENDS Naturals, Sequences, FiniteSets, SequencesExt

CONSTANTS
    Processes, Records,
    Limit,          \* maxsize of a subscriber's queue
    MaxFaults       \* bound: failed publications, dropped subscriptions to Redis

VARIABLES
    open,       \* processes with a websocket: one subscriber each
    queue, seen,
    out,        \* publications under way
    bus,        \* what Redis has yet to deliver to each process, in order
    at,         \* history: where each record was published
    owed,       \* history: what each open socket should get
    faults

vars == <<open, queue, seen, out, bus, at, owed, faults>>
Nowhere == "nowhere"
Held(p) == ToSet(queue[p]) \cup ToSet(seen[p])
Coming(p) == {r \in Records : r \in out \/ \E i \in DOMAIN bus[p] : bus[p][i] = r}

TypeOK ==
    /\ open \subseteq Processes /\ out \subseteq Records /\ at \in [Records -> Processes \cup {Nowhere}]
    /\ \A p \in Processes : Len(queue[p]) <= Limit /\ ToSet(bus[p]) \subseteq Records /\ owed[p] \subseteq Records

Init ==
    /\ open = {} /\ out = {}
    /\ queue = [p \in Processes |-> <<>>] /\ seen = [p \in Processes |-> <<>>] /\ bus = [p \in Processes |-> <<>>]
    /\ at = [r \in Records |-> Nowhere] /\ owed = [p \in Processes |-> {}] /\ faults = 0

Fault == faults < MaxFaults /\ faults' = faults + 1

\* subscribe, unsubscribe
Open(p) ==
    /\ p \notin open /\ open' = open \cup {p}
    /\ UNCHANGED <<queue, seen, out, bus, at, owed, faults>>

Close(p) ==
    /\ p \in open /\ open' = open \ {p}
    /\ queue' = [queue EXCEPT ![p] = <<>>] /\ seen' = [seen EXCEPT ![p] = <<>>] /\ owed' = [owed EXCEPT ![p] = {}]
    /\ UNCHANGED <<out, bus, at, faults>>

\* publish_local: a full queue drops the record.
Put(p, r) == IF p \in open /\ Len(queue[p]) < Limit THEN Append(queue[p], r) ELSE queue[p]

\* What is put in a full queue is no longer owed.
Owe(p, r) == IF p \in open /\ Len(queue[p]) < Limit THEN owed[p] \cup {r} ELSE owed[p] \ {r}

\* Faulty variant: a record stays in the process that decided.
Publish_LocalOnly(p, r) ==
    /\ at[r] = Nowhere /\ at' = [at EXCEPT ![r] = p]
    /\ queue' = [queue EXCEPT ![p] = Put(p, r)]
    /\ owed' = [q \in Processes |-> IF q = p THEN Owe(q, r) ELSE IF q \in open THEN owed[q] \cup {r} ELSE owed[q]]
    /\ UNCHANGED <<open, seen, out, bus, faults>>

\* publish: here at once, elsewhere by a task.
Publish(p, r) ==
    /\ at[r] = Nowhere /\ at' = [at EXCEPT ![r] = p]
    /\ queue' = [queue EXCEPT ![p] = Put(p, r)]
    /\ out' = out \cup {r}
    /\ owed' = [q \in Processes |-> IF q = p THEN Owe(q, r) ELSE IF q \in open THEN owed[q] \cup {r} ELSE owed[q]]
    /\ UNCHANGED <<open, seen, bus, faults>>

\* publish_audit_record: Redis has it for everyone, the publisher included; a failure is swallowed.
Relay(r) ==
    /\ r \in out /\ out' = out \ {r}
    /\ bus' = [q \in Processes |-> Append(bus[q], r)]
    /\ UNCHANGED <<open, queue, seen, at, owed, faults>>

RelayFails(r) ==
    /\ r \in out /\ Fault /\ out' = out \ {r}
    /\ UNCHANGED <<open, queue, seen, bus, at, owed>>

\* Faulty variant: a process takes its own publication again.
Echo_Taken(p, r) == FALSE

Echo(p, r) == at[r] = p

\* deliver_from_peer
Deliver(p) ==
    /\ bus[p] # <<>> /\ bus' = [bus EXCEPT ![p] = Tail(@)]
    /\ LET r == Head(bus[p]) IN
       IF Echo(p, r) THEN UNCHANGED <<queue, owed>>
       ELSE queue' = [queue EXCEPT ![p] = Put(p, r)] /\ owed' = [owed EXCEPT ![p] = Owe(p, r)]
    /\ UNCHANGED <<open, seen, out, at, faults>>

\* The listener loses its connection and subscribes anew: what was published between is not for it.
Disconnect(p) ==
    /\ Fault /\ bus' = [bus EXCEPT ![p] = <<>>]
    /\ UNCHANGED <<open, queue, seen, out, at, owed>>

\* ws_audit
Send(p) ==
    /\ queue[p] # <<>>
    /\ seen' = [seen EXCEPT ![p] = Append(@, Head(queue[p]))]
    /\ queue' = [queue EXCEPT ![p] = Tail(@)]
    /\ UNCHANGED <<open, out, bus, at, owed, faults>>

Next ==
    \/ \E p \in Processes : Open(p) \/ Close(p) \/ Deliver(p) \/ Disconnect(p) \/ Send(p)
    \/ \E r \in Records : Relay(r) \/ RelayFails(r) \/ \E p \in Processes : Publish(p, r)

Spec == Init /\ [][Next]_vars

-----------------------------------------------------------------------------
\* A socket gets a record at most once, from its own process or through Redis and never both ways
\* (deliver_from_peer).
NoneTwice ==
    \A p \in Processes : \A i, j \in DOMAIN (seen[p] \o queue[p]) :
        (seen[p] \o queue[p])[i] = (seen[p] \o queue[p])[j] => i = j

\* A socket that is open when a record is published gets it, wherever that is, unless its queue is full
\* or Redis fails on the way: a slow client loses only its own (publish, publish_local).
OwedIsComing == faults = 0 => \A p \in open : owed[p] \subseteq Held(p) \cup Coming(p)
=============================================================================
