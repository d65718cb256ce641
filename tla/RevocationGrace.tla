--------------------------- MODULE RevocationGrace ---------------------------
(***************************************************************************)
(* session_revocation.is_revoked in one API process while Redis comes and  *)
(* goes: the mirror first, then Redis, and when Redis cannot be read a     *)
(* grace period measured by one clock, started by the first failing check  *)
(* and cleared by the next answered one.  Checks overlap: each awaits      *)
(* Redis.  Token "out" was logged out through another process, token "in"  *)
(* is a session nobody ended.                                              *)
(***************************************************************************)
EXTENDS Integers, FiniteSets

CONSTANTS
    Checks,      \* requests being authenticated
    Grace,       \* _REVOCATION_GRACE_S
    ReadTime,    \* the Redis client's time limit
    MaxTime, MaxOutages  \* bounds

VARIABLES
    now, up, outages,
    since,       \* when the latest outage began
    degraded,    \* _degraded_since, -1 for None
    known,       \* the mirror holds the logged-out token
    check,       \* per request: where it stands
    last,        \* the answer given last
    failed,      \* ghost: the first failing check of this outage, -1 for none
    late,        \* ghost: a read begun before this outage was answered after failed
    fresh        \* ghost: since the last outage a check was answered and none has failed after it
vars == <<now, up, outages, since, degraded, known, check, last, failed, late, fresh>>

Tokens == {"in", "out"}
Idle == [at |-> "idle"]
NoAnswer == [token |-> "none"]
Reading(c) == check[c].at = "reading"

Init ==
    /\ now = 0 /\ up = TRUE /\ outages = 0 /\ since = 0
    /\ degraded = -1 /\ known = FALSE
    /\ check = [c \in Checks |-> Idle]
    /\ last = NoAnswer
    /\ failed = -1 /\ late = FALSE /\ fresh = TRUE

Give(c, revoked) ==
    /\ check' = [check EXCEPT ![c] = Idle]
    /\ last' = [token |-> check[c].token, revoked |-> revoked, at |-> now]

\* A token the mirror holds is refused without an await; the others ask Redis.
InMirror(t) == t = "out" /\ known
IsRevoked(c, t) ==
    /\ check[c].at = "idle"
    /\ IF InMirror(t)
       THEN last' = [token |-> t, revoked |-> TRUE, at |-> now] /\ UNCHANGED check
       ELSE /\ check' = [check EXCEPT ![c] = [at |-> "reading", token |-> t, began |-> now, sent |-> up, hit |-> ~ up]]
            /\ UNCHANGED last
    /\ UNCHANGED <<now, up, outages, since, degraded, known, failed, late, fresh>>

\* Faulty variant: an answered read leaves the clock running.
Cleared_Not == degraded
Cleared == -1
\* An answer that left Redis before the outage may be read in it.
Answered(c) ==
    /\ Reading(c) /\ (up \/ check[c].sent)
    /\ Give(c, check[c].token = "out")
    /\ degraded' = Cleared
    /\ late' = (late \/ failed # -1)
    /\ fresh' = (fresh \/ up)
    /\ UNCHANGED <<now, up, outages, since, known, failed>>

DegradedSince == IF degraded = -1 THEN now ELSE degraded
\* Faulty variant: no limit.
FailClosed_Never == FALSE
FailClosed == now - DegradedSince > Grace
ReadFails(c) ==
    /\ Reading(c) /\ (~ up \/ check[c].hit)
    /\ Give(c, FailClosed)
    /\ degraded' = DegradedSince
    /\ failed' = IF failed = -1 /\ ~ up THEN now ELSE failed
    /\ fresh' = (fresh /\ ~ up)
    /\ UNCHANGED <<now, up, outages, since, known, late>>

\* sync's pull brings the row of the logout from Postgres, whether Redis is up or not.
Pull ==
    /\ ~ known /\ known' = TRUE
    /\ UNCHANGED <<now, up, outages, since, degraded, check, last, failed, late, fresh>>

GoDown ==
    /\ up /\ outages < MaxOutages
    /\ up' = FALSE /\ outages' = outages + 1 /\ since' = now
    /\ check' = [c \in Checks |-> IF Reading(c) THEN [check[c] EXCEPT !.hit = TRUE] ELSE check[c]]
    /\ failed' = -1 /\ late' = FALSE
    /\ UNCHANGED <<now, degraded, known, last, fresh>>
ComeUp ==
    /\ ~ up /\ up' = TRUE
    /\ failed' = -1 /\ late' = FALSE /\ fresh' = FALSE
    /\ UNCHANGED <<now, outages, since, degraded, known, check, last>>
Tick ==
    /\ now < MaxTime
    /\ \A c \in Checks : Reading(c) => now - check[c].began < ReadTime
    /\ now' = now + 1
    /\ UNCHANGED <<up, outages, since, degraded, known, check, last, failed, late, fresh>>

Next ==
    \/ \E c \in Checks : Answered(c) \/ ReadFails(c) \/ \E t \in Tokens : IsRevoked(c, t)
    \/ Pull \/ GoDown \/ ComeUp \/ Tick
Spec == Init /\ [][Next]_vars

-----------------------------------------------------------------------------
(* Properties *)

TypeOK ==
    /\ now \in 0..MaxTime /\ since \in 0..MaxTime /\ outages \in 0..MaxOutages
    /\ degraded \in -1..MaxTime /\ degraded <= now
    /\ {up, known, late, fresh} \subseteq BOOLEAN
    /\ \A c \in Checks : Reading(c) => check[c].token \in Tokens /\ now - check[c].began <= ReadTime

GivenNow(t, revoked) == last.token = t /\ last.revoked = revoked /\ last.at = now

\* "A SUSTAINED outage is a different thing [...] past the window this refuses
\* rather than guesses" (session_revocation.py:365): once a check has failed in
\* an outage, a logged-out token is let through for at most the grace period,
\* unless an answer sent before the outage arrived after that check and cleared
\* the clock.
SustainedIsRefused ==
    ~ up /\ failed # -1 /\ ~ late /\ GivenNow("out", FALSE) => now - failed <= Grace

\* "A blip inside the grace window keeps everyone working": a session nobody
\* ended is refused only in an outage that has lasted longer than the grace
\* period, where a check was answered between that outage and the one before
\* and none failed after it.
RecentBlipsAreRidden == ~ up /\ fresh /\ GivenNow("in", TRUE) => now - since > Grace

\* "A successful read clears the outage clock, so the grace window measures THIS
\* outage rather than accumulating across unrelated blips."
\* (session_revocation.py:390.) Refuted: when no check reaches Redis between two
\* blips, the clock of the first is still running in the second, and its first
\* failing check refuses everyone.
BlipsAreRidden == ~ up /\ GivenNow("in", TRUE) => now - since > Grace
==============================================================================
