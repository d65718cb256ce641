---------------------------- MODULE LoginWindows ----------------------------
(***************************************************************************)
(* Fixed windows kept in Redis (incr_call_count: INCR, and EXPIRE by       *)
(* whoever made the counter 1) and the logins they throttle:               *)
(* RateLimitMiddleware in front, then the two lock-outs of auth_login, per *)
(* user and source and per user.  Attempts overlap at every await; each    *)
(* Redis command may fail by itself, and every caller swallows that.       *)
(***************************************************************************)
EXTENDS Naturals, FiniteSets, FiniteSetsExt

CONSTANTS
    Callers, Sources,
    HttpLimit,          \* http_rate_limit_auth_login_per_window
    MaxAttempts,        \* auth_login_max_attempts
    Multiplier,         \* _USERNAME_LOCK_MULTIPLIER
    MaxLogins, MaxFaults    \* bounds: attempts begun, failing commands

VARIABLES
    count,          \* the counters in Redis, 0 when absent
    mortal,         \* the counters that have a time to live
    login,          \* the attempts under way
    wrong,          \* history: wrong passwords tried by each source in its window
    ever,           \* history: wrong passwords tried by each source at all
    stuck,          \* history: the counters whose EXPIRE failed, or was never sent for a lost answer
    logins, faults

vars == <<count, mortal, login, wrong, ever, stuck, logins, faults>>
history == <<wrong, ever>>

\* One counter per bucket of the middleware, per user and source, and per user.  A source is the
\* address _client_ip settles on.
Http(s) == <<"http", s>>
Ip(s) == <<"ip", s>>
User == <<"user">>
Keys == {Http(s) : s \in Sources} \cup {Ip(s) : s \in Sources} \cup {User}
Idle == [pc |-> "idle"]
Pcs == {"http", "httpExpire", "ipLock", "userLock", "verify", "ip", "ipExpire", "user", "userExpire", "clearIp", "clearUser"}

TypeOK ==
    /\ count \in [Keys -> Nat] /\ mortal \subseteq {k \in Keys : count[k] > 0} /\ stuck \subseteq Keys
    /\ \A c \in Callers : login[c] = Idle \/ login[c] \in [pc : Pcs, from : Sources, right : BOOLEAN]

Init ==
    /\ count = [k \in Keys |-> 0] /\ mortal = {}
    /\ login = [c \in Callers |-> Idle]
    /\ wrong = [s \in Sources |-> 0] /\ ever = [s \in Sources |-> 0] /\ stuck = {}
    /\ logins = 0 /\ faults = 0

At(c, pc) == login[c] # Idle /\ login[c].pc = pc
To(c, pc) == login' = [login EXCEPT ![c].pc = pc]
Ends(c) == login' = [login EXCEPT ![c] = Idle]
Fault == faults < MaxFaults /\ faults' = faults + 1

Arrive(c, s, right) ==
    /\ login[c] = Idle /\ logins < MaxLogins /\ logins' = logins + 1
    /\ login' = [login EXCEPT ![c] = [pc |-> "http", from |-> s, right |-> right]]
    /\ UNCHANGED <<count, mortal, stuck, history, faults>>

-----------------------------------------------------------------------------
(* incr_call_count and its kin. *)

\* A counter of an attempt at step pc goes up.  Whoever made it 1 goes on to set its expiry.
Incr(c, k, pc, expire, next) ==
    /\ At(c, pc)
    /\ count' = [count EXCEPT ![k] = @ + 1]
    /\ IF count[k] = 0 THEN To(c, expire) ELSE next
    /\ UNCHANGED <<mortal, stuck, history, logins, faults>>

\* INCR raises: it was not carried out, or it was and its answer is lost.  A counter that it made then
\* has no expiry, for EXPIRE is only sent by who reads the 1.
Unanswered(k) ==
    \/ UNCHANGED <<count, stuck>>
    \/ /\ count' = [count EXCEPT ![k] = @ + 1]
       /\ stuck' = IF count[k] = 0 THEN stuck \cup {k} ELSE stuck

IncrFails(c, k, pc, next) ==
    At(c, pc) /\ Fault /\ Unanswered(k) /\ To(c, next) /\ UNCHANGED <<mortal, history, logins>>

\* Faulty variant: no expiry is set.
Expire_Not(c, k, pc, next) == At(c, pc) /\ To(c, next) /\ UNCHANGED <<count, mortal, stuck, history, logins, faults>>

\* EXPIRE does nothing when the counter is gone by now.
Expire(c, k, pc, next) ==
    /\ At(c, pc) /\ To(c, next)
    /\ mortal' = IF count[k] > 0 THEN mortal \cup {k} ELSE mortal
    /\ UNCHANGED <<count, stuck, history, logins, faults>>

ExpireFails(c, k, pc, next) ==
    At(c, pc) /\ Fault /\ stuck' = stuck \cup {k} /\ To(c, next) /\ UNCHANGED <<count, mortal, history, logins>>

\* A counter is removed, by its expiry or by reset_call_count; what is counted starts again.
Remove(k) ==
    /\ count' = [count EXCEPT ![k] = 0]
    /\ mortal' = mortal \ {k} /\ stuck' = stuck \ {k}
    /\ wrong' = [s \in Sources |-> IF k = Ip(s) THEN 0 ELSE wrong[s]]

WindowEnds(k) == k \in mortal /\ Remove(k) /\ UNCHANGED <<login, ever, logins, faults>>

-----------------------------------------------------------------------------
(* RateLimitMiddleware *)

Admitted(n) == n <= HttpLimit

HttpIncr(c) ==
    LET k == Http(login[c].from) IN
    Incr(c, k, "http", "httpExpire", IF Admitted(count[k] + 1) THEN To(c, "ipLock") ELSE Ends(c))

\* The middleware fails open.
HttpFails(c) ==
    LET k == Http(login[c].from) IN
    IncrFails(c, k, "http", "ipLock") \/ ExpireFails(c, k, "httpExpire", "ipLock")

HttpExpire(c) == At(c, "httpExpire") /\ Expire(c, Http(login[c].from), "httpExpire", "ipLock")

-----------------------------------------------------------------------------
(* login *)

\* Faulty variant: the check lets one more through.
Locked_Late(k, ceiling) == count[k] > ceiling

\* is_locked_out
Locked(k, ceiling) == count[k] >= ceiling

\* Faulty variant: a user is locked as early as a source.
UserCeiling_Same == MaxAttempts

UserCeiling == MaxAttempts * Multiplier

CheckIp(c) ==
    /\ At(c, "ipLock")
    /\ IF Locked(Ip(login[c].from), MaxAttempts) THEN Ends(c) ELSE To(c, "userLock")
    /\ UNCHANGED <<count, mortal, stuck, history, logins, faults>>

CheckUser(c) ==
    /\ At(c, "userLock")
    /\ IF Locked(User, UserCeiling) THEN Ends(c) ELSE To(c, "verify")
    /\ UNCHANGED <<count, mortal, stuck, history, logins, faults>>

\* is_locked_out answers no when Redis does not.
CheckFails(c) ==
    /\ Fault
    /\ \/ At(c, "ipLock") /\ To(c, "userLock")
       \/ At(c, "userLock") /\ To(c, "verify")
    /\ UNCHANGED <<count, mortal, stuck, history, logins>>

Verify(c) ==
    /\ At(c, "verify")
    /\ LET s == login[c].from IN
         IF login[c].right THEN To(c, "clearIp") /\ UNCHANGED history
         ELSE /\ To(c, "ip")
              /\ wrong' = [wrong EXCEPT ![s] = @ + 1] /\ ever' = [ever EXCEPT ![s] = @ + 1]
    /\ UNCHANGED <<count, mortal, stuck, logins, faults>>

\* register_failure, twice.
CountIp(c) == At(c, "ip") /\ Incr(c, Ip(login[c].from), "ip", "ipExpire", To(c, "user"))
ExpireIp(c) == At(c, "ipExpire") /\ Expire(c, Ip(login[c].from), "ipExpire", "user")
CountUser(c) == At(c, "user") /\ Incr(c, User, "user", "userExpire", Ends(c))

ExpireUser(c) ==
    /\ At(c, "userExpire") /\ Ends(c)
    /\ mortal' = IF count[User] > 0 THEN mortal \cup {User} ELSE mortal
    /\ UNCHANGED <<count, stuck, history, logins, faults>>

CountFails(c) ==
    \/ IncrFails(c, Ip(login[c].from), "ip", "user")
    \/ ExpireFails(c, Ip(login[c].from), "ipExpire", "user")
    \/ /\ \/ At(c, "user") /\ Unanswered(User)
          \/ At(c, "userExpire") /\ stuck' = stuck \cup {User} /\ UNCHANGED count
       /\ Fault /\ Ends(c) /\ UNCHANGED <<mortal, history, logins>>

\* clear_failures, twice.
Clear(c) ==
    /\ \/ At(c, "clearIp") /\ Remove(Ip(login[c].from)) /\ To(c, "clearUser")
       \/ At(c, "clearUser") /\ Remove(User) /\ Ends(c)
    /\ UNCHANGED <<ever, logins, faults>>

ClearFails(c) ==
    /\ Fault
    /\ \/ At(c, "clearIp") /\ To(c, "clearUser")
       \/ At(c, "clearUser") /\ Ends(c)
    /\ UNCHANGED <<count, mortal, stuck, history, logins>>

Step(c) ==
    \/ HttpIncr(c) \/ HttpExpire(c) \/ CheckIp(c) \/ CheckUser(c) \/ Verify(c)
    \/ CountIp(c) \/ ExpireIp(c) \/ CountUser(c) \/ ExpireUser(c) \/ Clear(c)

Fails(c) == HttpFails(c) \/ CheckFails(c) \/ CountFails(c) \/ ClearFails(c)

Next ==
    \/ \E c \in Callers, s \in Sources, right \in BOOLEAN : Arrive(c, s, right)
    \/ \E c \in Callers : login[c] # Idle /\ (Step(c) \/ Fails(c))
    \/ \E k \in Keys : WindowEnds(k)

Spec == Init /\ [][Next]_vars

\* Attempts go on, and Redis ends windows.
FairSpec ==
    /\ Spec
    /\ \A c \in Callers : WF_vars(login[c] # Idle /\ Step(c))
    /\ \A k \in Keys : WF_vars(WindowEnds(k))

-----------------------------------------------------------------------------
\* However many attempts overlap between the check and the count, a source tries at most the
\* permitted number of wrong passwords in a window, and one for each other attempt that was under way
\* and for each failed command (login, register_failure).
GuessesBounded ==
    \A s \in Sources : wrong[s] <= MaxAttempts + (Cardinality(Callers) - 1) + faults

\* Who is refused for his own source has tried that many wrong passwords from there himself.
LockedByItsOwn ==
    \A c \in Callers :
        (At(c, "ipLock") /\ Locked(Ip(login[c].from), MaxAttempts)) => ever[login[c].from] >= MaxAttempts

\* The operator is not locked out by others, short of the much higher ceiling of the user: who is
\* refused has tried that many wrong passwords himself, or all sources together that many more
\* (the comment on login, "the legitimate operator, from a different address, is untouched").
LockedBySomeReason ==
    /\ LockedByItsOwn
    /\ \A c \in Callers :
          (At(c, "userLock") /\ Locked(User, UserCeiling)) =>
              MapThenSumSet(LAMBDA s : ever[s], Sources) >= MaxAttempts * Multiplier

\* Every window ends: a counter has its expiry, or the attempt that made it is about to set it, unless
\* that very EXPIRE failed or the answer to the INCR before it was lost (cache.py:504-506): such a
\* counter stays, the middleware's for good and a lock-out's until a successful login resets it.  No
\* other failure, no overlap of attempts and no reset in between leaves a counter without.
WindowsEnd ==
    \A k \in Keys :
        count[k] > 0 =>
            \/ k \in mortal \/ k \in stuck
            \/ \E c \in Callers : \/ At(c, "httpExpire") /\ k = Http(login[c].from)
                                  \/ At(c, "ipExpire") /\ k = Ip(login[c].from)
                                  \/ At(c, "userExpire") /\ k = User

\* A failing Redis command costs no more than the request it hits ("a Redis blip must never take the
\* API down", rate_limit.py:26): a source that is over its limit is under it again later.  Refuted: when
\* the EXPIRE of a new counter fails, the counter stays for ever, and so does the refusal.
BlipsPass == \A s \in Sources : count[Http(s)] >= HttpLimit ~> count[Http(s)] < HttpLimit
=============================================================================
