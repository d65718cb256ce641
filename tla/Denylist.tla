------------------------------ MODULE Denylist -------------------------------
(***************************************************************************)
(* What session revocation promises, without its stores, queues and        *)
(* passes: a process refuses only tokens somebody logged out, it forgets   *)
(* one only when the token has expired or when the process ends, and what  *)
(* is durable stays so.                                                    *)
(***************************************************************************)
CONSTANTS Procs, Tokens

VARIABLES
    revoked,   \* tokens whose logout has begun
    expired,   \* tokens past their own exp
    durable,   \* tokens whose revocation outlives every process
    running,   \* the processes there are
    refuses    \* per process: the tokens it refuses by itself
vars == <<revoked, expired, durable, running, refuses>>

Init ==
    /\ revoked \subseteq Tokens
    /\ expired = {} /\ durable = {} /\ running = {}
    /\ refuses = [p \in Procs |-> {}]

\* The process that serves a logout refuses the token from then on.
Revoke(p, t) ==
    /\ p \in running
    /\ t \in Tokens \ (revoked \cup expired)
    /\ revoked' = revoked \cup {t}
    /\ refuses' = [refuses EXCEPT ![p] = @ \cup {t}]
    /\ UNCHANGED <<expired, durable, running>>

Persist(ts) ==
    /\ durable' = durable \cup ts
    /\ UNCHANGED <<revoked, expired, running, refuses>>

Learn(p, ts) ==
    /\ p \in running
    /\ refuses' = [refuses EXCEPT ![p] = @ \cup ts]
    /\ UNCHANGED <<revoked, expired, durable, running>>

Prune(p) ==
    /\ p \in running
    /\ refuses' = [refuses EXCEPT ![p] = @ \ expired]
    /\ UNCHANGED <<revoked, expired, durable, running>>

Start(p) ==
    /\ running' = running \cup {p}
    /\ UNCHANGED <<revoked, expired, durable, refuses>>

\* A process that stops may make some of its revocations durable first.
Stop(p, ts) ==
    /\ p \in running /\ running' = running \ {p}
    /\ durable' = durable \cup ts
    /\ refuses' = [refuses EXCEPT ![p] = {}]
    /\ UNCHANGED <<revoked, expired>>

Expire(t) ==
    /\ expired' = expired \cup {t}
    /\ UNCHANGED <<revoked, durable, running, refuses>>

Next ==
    \/ \E p \in Procs, t \in Tokens : Revoke(p, t)
    \/ \E ts \in SUBSET revoked : Persist(ts)
    \/ \E p \in Procs, ts \in SUBSET revoked : Learn(p, ts) \/ Stop(p, ts)
    \/ \E p \in Procs : Prune(p) \/ Start(p)
    \/ \E t \in Tokens : Expire(t)
Spec == Init /\ [][Next]_vars
==============================================================================
