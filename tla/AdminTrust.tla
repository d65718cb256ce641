----------------------------- MODULE AdminTrust -----------------------------
(***************************************************************************)
(* The admin trust control of ONE agent (norviq/api/routers/agents.py and  *)
(* the owner fence of norviq/engine/cache.py): PUT /agents/{id}/trust,     *)
(* DELETE /agents/{id} and the boot warm, run by several API processes.    *)
(* Agents do not share any of this state, so one is enough.                *)
(*                                                                         *)
(* The control lives twice: durably in the agent_registry row of Postgres  *)
(* and live in Redis (the store), which is what the evaluator enforces.    *)
(* A writer holds a session-level advisory lock on its own connection for  *)
(* the whole operation.  The lock dies with the connection while the       *)
(* writer runs on, and a store call cut off by a timeout may still land    *)
(* later; the owner key with its monotonic token is the fence against      *)
(* both.                                                                   *)
(***************************************************************************)
EXTENDS Integers, FiniteSets, TLC

CONSTANTS
    Writers,   \* requests (and boot warms); each runs one operation
    Caps,      \* the trust caps an admin may ask for, as positive numbers
    Kinds,     \* the operations of the instance: "put", "delete", "warm"
    Events,    \* what may happen around them (EventsAssumption)
    Nobody,    \* no holder of the agent's lock
    MaxLate    \* bound on the store calls in flight after their caller gave up

ASSUME CapsAssumption == Caps \subseteq Nat \ {0}
ASSUME KindsAssumption == Kinds \subseteq {"put", "delete", "warm"}
ASSUME EventsAssumption ==
    Events \subseteq {"session_ends", "db_fails", "store_fails", "owner_expires", "flush", "call", "prune"}
ASSUME NobodyAssumption == Nobody \notin Writers
ASSUME MaxLateAssumption == MaxLate \in Nat

VARIABLES
    row,       \* agent_registry has a row for the agent
    registry,  \* its frozen / trust_cap columns
    store,     \* agent_frozen: / agent_trust_override: in Redis
    owner,     \* agent_trust_owner: in Redis
    wire,      \* store calls whose caller stopped waiting; they may land
    seq,       \* agent_trust_fence_seq
    lock,      \* the writer whose session holds the advisory lock
    late,      \* writers whose commit is in flight on an abandoned connection
    pc, kind, req, mode, tries, token, mine, outcome, answer,  \* per writer
    floor, overrun, gap, fresh   \* history variables, read by properties only

stores == <<row, registry, store, owner, wire, seq, lock, late>>
locals == <<pc, kind, req, mode, tries, token, mine, outcome, answer>>
history == <<floor, overrun, gap, fresh>>
vars == <<stores, locals, history>>

-----------------------------------------------------------------------------
\* Controls: the freeze flag and the cap, as registry and store hold them.

NoCap == 0
Control == [frozen : BOOLEAN, cap : Caps \cup {NoCap}]
Open == [frozen |-> FALSE, cap |-> NoCap]
Frozen == [frozen |-> TRUE, cap |-> NoCap]

\* What a PUT can ask for: score 0 freezes, a score between 0 and 1 caps, 1.0 clears both.
Asked == {Frozen, Open} \cup [frozen : {FALSE}, cap : Caps]

Controlled(c) == c.frozen \/ c.cap # NoCap

\* new is at least as strict as prior.
IsTightening(prior, new) ==
    \/ new.frozen
    \/ /\ ~prior.frozen
       /\ \/ prior.cap = NoCap
          \/ new.cap # NoCap /\ new.cap <= prior.cap

-----------------------------------------------------------------------------
(* The owner fence.  Its value is "<last>" or "<last>:<stolen>"; a missing *)
(* key reads as token 0 with no steal, a value no claim ever leaves.       *)

Owner == [last : Nat, stolen : Nat]
NoOwner == [last |-> 0, stolen |-> 0]
Token(t) == [last |-> t, stolen |-> 0]

\* Faulty variants (mutation runs): the claim does not compare tokens; a steal takes the next token.
Claim_AnyToken(own) == IF own = NoOwner THEN [owner EXCEPT !.stolen = @ + 1] ELSE own
Claim_StealsToken(own) ==
    IF own = NoOwner THEN Token(owner.last + 1) ELSE IF own.last < owner.last THEN owner ELSE own

\* The owner after a claim script ran: NoOwner as argument is a claim without a token (a steal).
Claim(own) ==
    IF own = NoOwner THEN [owner EXCEPT !.stolen = @ + 1]
    ELSE IF own.last < owner.last \/ (own.last = owner.last /\ owner.stolen > 0)
         THEN owner
         ELSE own

\* A claim of own was accepted (the script returned a token, not false).
Accepted(own) == own = NoOwner \/ Claim(own) = own

\* What w's write makes of the store: a PUT replaces both keys, the warm adds one and deletes nothing.
Written(w) ==
    IF kind[w] # "warm" THEN req[w]
    ELSE IF req[w].frozen THEN [store EXCEPT !.frozen = TRUE]
    ELSE [store EXCEPT !.cap = req[w].cap]

RaisedFloor(own) ==
    LET f == IF own = NoOwner THEN owner.last + 1
             ELSE IF Accepted(own) THEN own.last ELSE 0
    IN  IF f > floor THEN f ELSE floor

\* Redis runs one claim script, respectively one fenced write script.
RunClaim(own) == owner' = Claim(own) /\ floor' = RaisedFloor(own)

\* Faulty variant: the write script does not look at the owner key.
RunWrite_Unfenced(w, own) == store' = Written(w) /\ UNCHANGED overrun

RunWrite(w, own) ==
    /\ store' = IF owner = own THEN Written(w) ELSE store
    /\ overrun' = (overrun \/ (owner = own /\ own.stolen = 0 /\ own.last < floor))

\* The calls w can have in flight.
Call(w, cmd, own) == [by |-> w, cmd |-> cmd, own |-> own, n |-> tries[w]]
Calls == [by : Writers, cmd : {"claim", "write"}, own : Owner, n : 0..3]

-----------------------------------------------------------------------------
\* The agent may already carry a control, live and durable, and has a row if it does.
Init ==
    /\ registry \in Asked
    /\ store = registry
    /\ row \in {r \in BOOLEAN : Controlled(registry) => r}
    /\ owner = NoOwner
    /\ wire = {}
    /\ seq = 0
    /\ lock = Nobody
    /\ late = {}
    /\ pc = [w \in Writers |-> "idle"]
    /\ kind = [w \in Writers |-> "put"]
    /\ req = [w \in Writers |-> Open]
    /\ mode = [w \in Writers |-> "none"]
    /\ tries = [w \in Writers |-> 0]
    /\ token = [w \in Writers |-> 0]
    /\ mine = [w \in Writers |-> NoOwner]
    /\ outcome = [w \in Writers |-> "none"]
    /\ answer = [w \in Writers |-> "none"]
    /\ floor = 0
    /\ overrun = FALSE
    /\ gap = FALSE
    /\ fresh = {}

Goto(w, l) == pc' = [pc EXCEPT ![w] = l]
Answer(w, a) == Goto(w, "release") /\ answer' = [answer EXCEPT ![w] = a]

\* The operation arrives: a PUT with its score, a DELETE, or a process that boots and warms.
Begin(w) ==
    /\ pc[w] = "idle"
    /\ Goto(w, "lock")
    /\ \E k \in Kinds :
          /\ kind' = [kind EXCEPT ![w] = k]
          /\ IF k = "put" THEN \E c \in Asked : req' = [req EXCEPT ![w] = c]
                          ELSE UNCHANGED req
    /\ UNCHANGED <<stores, mode, tries, token, mine, outcome, answer, history>>

\* pg_advisory_lock granted on the writer's own session.
Acquire(w) ==
    /\ pc[w] = "lock"
    /\ lock = Nobody
    /\ lock' = w
    /\ Goto(w, "read")
    /\ fresh' = fresh \cup {w}
    /\ UNCHANGED <<row, registry, store, owner, wire, seq, late, kind, req, mode, tries,
                   token, mine, outcome, answer, floor, overrun, gap>>

\* A statement on w's connection fails: its session is gone, or the database does not answer.
DbFails(w) == lock # w \/ "db_fails" \in Events

(* The operation goes on without the lock: nothing is applied, except that *)
(* a freeze steals the fence.  given is the answer unless that lands.      *)
WithoutLock(w, given) ==
    /\ answer' = [answer EXCEPT ![w] = given]
    /\ IF kind[w] = "put" /\ req[w].frozen
          THEN /\ Goto(w, "claim")
               /\ mode' = [mode EXCEPT ![w] = "steal"]
               /\ tries' = [tries EXCEPT ![w] = 2]
          ELSE Goto(w, "release") /\ UNCHANGED <<mode, tries>>

(* No lock: contended past the timeout, no connection, pool or slots       *)
(* exhausted.  A lock statement that failed may have been granted: its     *)
(* session then holds the lock until it is invalidated.                    *)
NoLock(w) ==
    /\ pc[w] = "lock"
    /\ lock # Nobody \/ "db_fails" \in Events
    /\ WithoutLock(w, "not_applied")
    /\ \/ UNCHANGED lock
       \/ lock = Nobody /\ lock' = w
    /\ UNCHANGED <<row, registry, store, owner, wire, seq, late, kind, req, token, mine, outcome, history>>

\* Faulty variant: every change goes to the store first.
Direction_StoreFirst(w) == "tighten"

\* A tightening goes to the store before the registry, a loosening after it.
Direction(w) == IF IsTightening(registry, req[w]) THEN "tighten" ELSE "loosen"

\* The registry is read under the lock.  For a PUT the direction of the change follows from it.
PutReads(w) ==
    /\ kind[w] = "put"
    /\ mode' = [mode EXCEPT ![w] = Direction(w)]
    /\ Goto(w, "token")
    /\ UNCHANGED <<req, answer>>

\* DELETE refuses an agent without a row or under a control, and goes on to ask the store.
DeleteReads(w) ==
    /\ kind[w] = "delete"
    /\ IF row /\ ~Controlled(registry) THEN Goto(w, "live") /\ UNCHANGED answer ELSE Answer(w, "refused")
    /\ UNCHANGED <<req, mode>>

\* The boot warm re-reads the row it locked: without a control there is nothing to add.
WarmReads(w) ==
    /\ kind[w] = "warm"
    /\ IF Controlled(registry)
       THEN /\ req' = [req EXCEPT ![w] = registry]
            /\ mode' = [mode EXCEPT ![w] = "warm"]
            /\ Goto(w, "token")
            /\ UNCHANGED answer
       ELSE Answer(w, "ok") /\ UNCHANGED <<req, mode>>

Read(w) ==
    /\ pc[w] = "read"
    /\ lock = w
    /\ PutReads(w) \/ DeleteReads(w) \/ WarmReads(w)
    /\ UNCHANGED <<stores, kind, tries, token, mine, outcome, history>>

(* The read fails (a dead session, a statement timeout), or the fence      *)
(* token of a tightening does: the lock is released, or left to its        *)
(* abandoned session, and the operation goes on without it.                *)
ReadFails(w) ==
    /\ DbFails(w)
    /\ pc[w] = "read" \/ (pc[w] = "token" /\ mode[w] = "tighten")
    /\ WithoutLock(w, "not_applied")
    /\ lock' \in {lock} \cup (IF lock = w THEN {Nobody} ELSE {})
    /\ UNCHANGED <<row, registry, store, owner, wire, seq, late, kind, req, token, mine, outcome, history>>

\* DELETE reads the live keys too: a control only the store knows refuses it, and so does a store that fails.
LiveControl(w) ==
    /\ pc[w] = "live"
    /\ \/ (Controlled(store) \/ "store_fails" \in Events) /\ Answer(w, "refused")
       \/ ~Controlled(store) /\ Goto(w, "persist") /\ UNCHANGED answer
    /\ UNCHANGED <<stores, kind, req, mode, tries, token, mine, outcome, history>>

\* nextval('agent_trust_fence_seq') on the lock's session.
FenceToken(w) ==
    /\ pc[w] = "token"
    /\ lock = w
    /\ seq' = seq + 1
    /\ token' = [token EXCEPT ![w] = seq + 1]
    /\ tries' = [tries EXCEPT ![w] = IF mode[w] = "warm" THEN 3 ELSE 2]
    /\ Goto(w, IF mode[w] = "tighten" THEN "check" ELSE "claim")
    /\ UNCHANGED <<row, registry, store, owner, wire, lock, late, kind, req, mode, mine, outcome, answer, history>>

\* Without a token a loosening is refused and a warm attempt fails: nothing was written.
TokenFails(w) ==
    /\ DbFails(w)
    /\ pc[w] = "token"
    /\ mode[w] \in {"loosen", "warm"}
    /\ Answer(w, "not_applied")
    /\ UNCHANGED <<stores, kind, req, mode, tries, token, mine, outcome, history>>

-----------------------------------------------------------------------------
(* _fenced_write: at most tries attempts of check, claim, write.           *)

\* It returns out to its caller.
Return(w, out) ==
    /\ outcome' = [outcome EXCEPT ![w] = out]
    /\ \/ mode[w] = "tighten" /\ Goto(w, "persist") /\ UNCHANGED answer
       \/ mode[w] = "steal" /\ Answer(w, IF out = "applied" THEN "live_only" ELSE answer[w])
       \/ mode[w] = "retry" /\ Answer(w, IF out = "applied" THEN "ok" ELSE "not_live")
       \/ mode[w] = "warm" /\ Answer(w, IF out = "applied" THEN "ok" ELSE "not_applied")

\* The attempt did not settle it: the next one, or the end.
Again(w) ==
    IF tries[w] > 1
    THEN /\ tries' = [tries EXCEPT ![w] = @ - 1]
         /\ Goto(w, IF mode[w] \in {"steal", "warm"} THEN "claim" ELSE "check")
         /\ UNCHANGED <<outcome, answer>>
    ELSE Return(w, "none") /\ UNCHANGED tries

\* Faulty variant: it waits for a session that is gone.
StillConnected_Waits(w) ==
    /\ pc[w] = "check"
    /\ lock = w
    /\ Goto(w, "claim")
    /\ UNCHANGED <<stores, kind, req, mode, tries, token, mine, outcome, answer, history>>

\* _still_connected: the lock's session answers.  A slow answer counts as gone.
StillConnected(w) ==
    /\ pc[w] = "check"
    /\ \/ lock = w /\ Goto(w, "claim") /\ UNCHANGED <<outcome, answer>>
       \/ DbFails(w) /\ Return(w, "none")
    /\ UNCHANGED <<stores, kind, req, mode, tries, token, mine, history>>

ClaimArg(w) == IF mode[w] = "steal" THEN NoOwner ELSE Token(token[w])

\* The claim answers.  The warm does not look at the answer.
ClaimOwner(w) ==
    /\ pc[w] = "claim"
    /\ RunClaim(ClaimArg(w))
    /\ IF Accepted(ClaimArg(w)) \/ mode[w] = "warm"
       THEN /\ mine' = [mine EXCEPT ![w] = IF mode[w] = "steal" THEN owner' ELSE Token(token[w])]
            /\ Goto(w, IF mode[w] = "loosen" THEN "persist" ELSE "write")
            /\ UNCHANGED <<outcome, answer>>
       ELSE /\ IF mode[w] = "loosen" THEN Answer(w, "not_applied") /\ UNCHANGED outcome
                                     ELSE Return(w, "lost")
            /\ UNCHANGED mine
    /\ UNCHANGED <<row, registry, store, wire, seq, lock, late, kind, req, mode, tries, token,
                   overrun, gap, fresh>>

\* A store call with no answer in time: it ran, it will not run, or it is still on the wire.
NoAnswer(w, cmd, own) ==
    /\ "store_fails" \in Events
    /\ \/ UNCHANGED <<store, owner, wire, floor, overrun>>
       \/ cmd = "claim" /\ RunClaim(own) /\ UNCHANGED <<store, overrun, wire>>
       \/ cmd = "write" /\ RunWrite(w, own) /\ UNCHANGED <<owner, floor, wire>>
       \/ /\ Cardinality(wire) < MaxLate
          /\ wire' = wire \cup {Call(w, cmd, own)}
          /\ UNCHANGED <<store, owner, floor, overrun>>

ClaimFails(w) ==
    /\ pc[w] = "claim"
    /\ NoAnswer(w, "claim", ClaimArg(w))
    /\ IF mode[w] \in {"loosen", "warm"}
       THEN Answer(w, "not_applied") /\ UNCHANGED <<tries, outcome>>
       ELSE Again(w)
    /\ UNCHANGED <<row, registry, seq, lock, late, kind, req, mode, token, mine, gap, fresh>>

\* A committed loosening whose first write did not settle: one attempt under a fresh claim.
RetryOnce(w) ==
    /\ mode' = [mode EXCEPT ![w] = "retry"]
    /\ tries' = [tries EXCEPT ![w] = 1]
    /\ Goto(w, "check")
    /\ UNCHANGED <<outcome, answer>>

(* The write answers: applied, lost to another owner, or the key missing.  *)
(* A loosening's first write is outside the loop and is followed by one    *)
(* round of it; the warm re-claims after a lost write too.                 *)
WriteControl(w) ==
    /\ pc[w] = "write"
    /\ RunWrite(w, mine[w])
    /\ LET lost == owner # NoOwner /\ owner # mine[w] IN
       \/ /\ mode[w] = "loosen" /\ (owner = mine[w] \/ lost)
          /\ Answer(w, IF lost THEN "not_live" ELSE "ok")
          /\ UNCHANGED <<mode, tries, outcome>>
       \/ mode[w] = "loosen" /\ owner = NoOwner /\ RetryOnce(w)
       \/ /\ mode[w] # "loosen" /\ (owner = mine[w] \/ (lost /\ mode[w] # "warm"))
          /\ Return(w, IF lost THEN "lost" ELSE "applied")
          /\ UNCHANGED <<mode, tries>>
       \/ /\ mode[w] # "loosen" /\ (owner = NoOwner \/ (lost /\ mode[w] = "warm"))
          /\ Again(w)
          /\ UNCHANGED mode
    /\ UNCHANGED <<row, registry, owner, wire, seq, lock, late, kind, req, token, mine, floor, gap, fresh>>

WriteFails(w) ==
    /\ pc[w] = "write"
    /\ NoAnswer(w, "write", mine[w])
    /\ \/ mode[w] = "loosen" /\ RetryOnce(w)
       \/ mode[w] = "warm" /\ Answer(w, "not_applied") /\ UNCHANGED <<mode, tries, outcome>>
       \/ mode[w] \notin {"loosen", "warm"} /\ Again(w) /\ UNCHANGED mode
    /\ UNCHANGED <<row, registry, seq, lock, late, kind, req, token, mine, gap, fresh>>

-----------------------------------------------------------------------------
\* The registry after w's transaction: a freeze or cap upserts, a clear only updates, a DELETE is conditional.
Commit(w) ==
    IF kind[w] = "delete"
    THEN row' = (row /\ Controlled(registry)) /\ UNCHANGED registry
    ELSE row' = (row \/ Controlled(req[w])) /\ registry' = req[w]

\* The store may now be looser than the registry: w's tightening is durable without its own fenced write.
OpensGap(w) == kind[w] = "put" /\ mode[w] # "loosen" /\ ~(mode[w] = "tighten" /\ outcome[w] = "applied")

Persist(w) ==
    /\ pc[w] = "persist"
    /\ lock = w
    /\ Commit(w)
    /\ IF mode[w] = "loosen" THEN Goto(w, "write") /\ UNCHANGED answer
       ELSE Answer(w, CASE kind[w] = "delete" -> IF row /\ ~Controlled(registry) THEN "ok" ELSE "refused"
                        [] kind[w] # "delete" -> IF outcome[w] = "applied" THEN "ok" ELSE "not_live")
    /\ gap' = (gap \/ OpensGap(w))
    /\ fresh' = IF OpensGap(w) THEN {} ELSE fresh
    /\ UNCHANGED <<store, owner, wire, seq, lock, late, kind, req, mode, tries, token, mine, outcome, floor, overrun>>

(* The commit fails, or its acknowledgement is lost, or it is abandoned    *)
(* and may still land while its session lives.  A freeze that is not live  *)
(* then steals the fence, still under the lock.                            *)
PersistFails(w) ==
    /\ DbFails(w)
    /\ pc[w] = "persist"
    /\ \/ UNCHANGED <<row, registry, late, gap, fresh>>
       \/ /\ lock = w
          /\ Commit(w)
          /\ gap' = (gap \/ OpensGap(w))
          /\ fresh' = IF OpensGap(w) THEN {} ELSE fresh
          /\ UNCHANGED late
       \/ /\ lock = w
          /\ late' = late \cup {w}
          /\ UNCHANGED <<row, registry, gap, fresh>>
    /\ IF mode[w] = "tighten" /\ outcome[w] # "applied"
       THEN WithoutLock(w, "unconfirmed")
       ELSE /\ Answer(w, IF mode[w] = "tighten" THEN "live_only" ELSE "unconfirmed")
            /\ UNCHANGED <<mode, tries>>
    /\ UNCHANGED <<store, owner, wire, seq, lock, kind, req, token, mine, outcome, floor, overrun>>

\* pg_advisory_unlock, or a connection given up with the lock still held.  Then the answer is returned.
Release(w) ==
    /\ pc[w] = "release"
    /\ Goto(w, "done")
    /\ \/ UNCHANGED lock
       \/ lock = w /\ w \notin late /\ lock' = Nobody
    /\ tries' = [tries EXCEPT ![w] = 0]
    /\ mine' = [mine EXCEPT ![w] = NoOwner]
    /\ gap' = (gap /\ ~(answer[w] = "ok" /\ kind[w] # "delete" /\ lock = w /\ w \in fresh))
    /\ UNCHANGED <<row, registry, store, owner, wire, seq, late, kind, req, mode, token,
                   outcome, answer, floor, overrun, fresh>>

-----------------------------------------------------------------------------
(* The environment. *)

\* The session that holds the lock ends: a killed backend, a partition, an invalidated connection.
SessionEnds(w) ==
    /\ "session_ends" \in Events
    /\ lock = w
    /\ lock' = Nobody
    /\ late' = late \ {w}
    /\ UNCHANGED <<row, registry, store, owner, wire, seq, locals, history>>

\* A commit in flight on an abandoned connection lands.
LateCommit(w) ==
    /\ w \in late
    /\ lock = w
    /\ Commit(w)
    /\ late' = late \ {w}
    /\ gap' = (gap \/ OpensGap(w))
    /\ fresh' = IF OpensGap(w) THEN {} ELSE fresh
    /\ UNCHANGED <<store, owner, wire, seq, lock, locals, floor, overrun>>

\* A store call whose caller gave up runs after all, or is lost for good.
LateCall(c) ==
    /\ c \in wire
    /\ wire' = wire \ {c}
    /\ \/ UNCHANGED <<store, owner, floor, overrun>>
       \/ c.cmd = "claim" /\ RunClaim(c.own) /\ UNCHANGED <<store, overrun>>
       \/ c.cmd = "write" /\ RunWrite(c.by, c.own) /\ UNCHANGED <<owner, floor>>
    /\ UNCHANGED <<row, registry, seq, lock, late, locals, gap, fresh>>

\* w may still make a claim or write that its token or an earlier claim entitles it to.
Outstanding(w) ==
    \/ pc[w] \notin {"idle", "done"} /\ (token[w] # 0 \/ mine[w] # NoOwner)
    \/ \E c \in wire : c.by = w

(* The owner key expires.  Its TTL is longer than any one operation        *)
(* (_owner_ttl_ms), so no operation at or below it is still running.       *)
OwnerExpires ==
    /\ "owner_expires" \in Events
    /\ owner # NoOwner
    /\ \A w \in Writers : Outstanding(w) => token[w] > owner.last
    /\ owner' = NoOwner
    /\ UNCHANGED <<row, registry, store, wire, seq, lock, late, locals, history>>

\* Redis loses its data.
StoreFlush ==
    /\ "flush" \in Events
    /\ store' = Open
    /\ owner' = NoOwner
    /\ floor' = 0
    /\ gap' = TRUE
    /\ fresh' = {}
    /\ UNCHANGED <<row, registry, wire, seq, lock, late, locals, overrun>>

\* The evaluator's write-through on a call of the agent: a row appears, its control columns are not touched.
FirstCall ==
    /\ "call" \in Events
    /\ ~row
    /\ row' = TRUE
    /\ UNCHANGED <<registry, store, owner, wire, seq, lock, late, locals, history>>

\* Faulty variant: it ages every idle row out.
PruneRow_AnyRow ==
    /\ "prune" \in Events
    /\ row
    /\ row' = FALSE
    /\ UNCHANGED <<registry, store, owner, wire, seq, lock, late, locals, history>>

\* The retention pruner ages the row out unless it carries a control.
PruneRow ==
    /\ "prune" \in Events
    /\ row
    /\ ~Controlled(registry)
    /\ row' = FALSE
    /\ UNCHANGED <<registry, store, owner, wire, seq, lock, late, locals, history>>

-----------------------------------------------------------------------------
Step(w) ==
    \/ Begin(w) \/ Acquire(w) \/ NoLock(w) \/ Read(w) \/ ReadFails(w) \/ LiveControl(w)
    \/ FenceToken(w) \/ TokenFails(w) \/ StillConnected(w)
    \/ ClaimOwner(w) \/ ClaimFails(w) \/ WriteControl(w) \/ WriteFails(w)
    \/ Persist(w) \/ PersistFails(w) \/ Release(w)

Environment ==
    \/ \E w \in Writers : SessionEnds(w) \/ LateCommit(w)
    \/ \E c \in wire : LateCall(c)
    \/ OwnerExpires \/ StoreFlush \/ FirstCall \/ PruneRow

Next == (\E w \in Writers : Step(w)) \/ Environment

Spec == Init /\ [][Next]_vars

\* An operation under way keeps running; a session nobody uses is ended by Postgres' idle and keepalive bounds.
GoesOn(w) == pc[w] # "idle" /\ Step(w)
IsEnded(w) == pc[w] = "done" /\ SessionEnds(w)

Fairness == \A w \in Writers : WF_vars(GoesOn(w)) /\ WF_vars(IsEnded(w))

FairSpec == Spec /\ Fairness
-----------------------------------------------------------------------------
(* Properties. *)

\* Every variable keeps the shape the code gives it.
TypeOK ==
    /\ row \in BOOLEAN
    /\ registry \in Asked
    /\ store \in Control
    /\ owner \in Owner
    /\ wire \subseteq Calls
    /\ seq \in Nat
    /\ lock \in Writers \cup {Nobody}
    /\ late \subseteq Writers
    /\ pc \in [Writers -> {"idle", "lock", "read", "live", "token", "check", "claim", "write",
                           "persist", "release", "done"}]
    /\ kind \in [Writers -> {"put", "delete", "warm"}]
    /\ req \in [Writers -> Asked]
    /\ mode \in [Writers -> {"none", "tighten", "loosen", "retry", "steal", "warm"}]
    /\ tries \in [Writers -> 0..3]
    /\ token \in [Writers -> Nat]
    /\ mine \in [Writers -> Owner]
    /\ outcome \in [Writers -> {"none", "applied", "lost"}]
    /\ answer \in [Writers -> {"none", "ok", "live_only", "not_live", "unconfirmed",
                               "not_applied", "refused"}]
    /\ floor \in Nat
    /\ overrun \in BOOLEAN
    /\ gap \in BOOLEAN
    /\ fresh \subseteq Writers

(* The fence (cache.py _CLAIM_LUA, _FENCED_CONTROL_LUA): a store write     *)
(* never lands from a lock holder older than the newest claim, nor from    *)
(* one a freeze stole the fence from, however late it arrives.             *)
FenceHolds == ~overrun

(* The kill switch does not starve its successors (cache.py _CLAIM_LUA):   *)
(* the first claim of a writer that still holds the lock is accepted,      *)
(* however many freezes stole the fence and however many dead writers      *)
(* claimed late while it waited.                                           *)
FirstClaimAccepted ==
    \A w \in Writers :
        /\ lock = w
        /\ pc[w] \in {"check", "claim"}
        /\ tries[w] = IF mode[w] = "warm" THEN 3 ELSE 2
        /\ mode[w] # "steal"
        => Accepted(Token(token[w]))

(* update_trust: the store is looser than the registry only after a        *)
(* tightening was committed without being seen to land (answered "NOT      *)
(* live") or Redis lost its data, and only until the next successful       *)
(* change or warm.                                                         *)
StoreCoversRegistry == gap \/ IsTightening(registry, store)

(* update_trust: a change answered 200 is in the registry and in the store *)
(* (or a freeze has replaced it there) as long as its lock is held.        *)
OkHoldsInBoth ==
    \A w \in Writers :
        answer[w] = "ok" /\ kind[w] = "put" /\ lock = w /\ w \in fresh =>
            /\ registry = req[w]
            /\ store = req[w] \/ store.frozen

(* deregister_agent and the pruner: a row that carries a freeze or a cap   *)
(* is never deleted, and a control is never lifted by deleting its row.    *)
DeleteLiftsNothing ==
    [][row /\ ~row' => ~Controlled(registry) /\ registry' = registry]_vars

\* No operation is under way, and no session holds the lock.
Concluded == lock = Nobody /\ \A w \in Writers : pc[w] \in {"idle", "done"}

\* Every operation is answered and its lock comes free, whatever failed on the way (_agent_lock).
Settles == <>[]Concluded

(* update_trust's docstring: "200 means the registry row and the store     *)
(* both hold the new state": when a PUT's answer becomes 200, the registry *)
(* holds what it asked for.                                                *)
OkMeansRegistryHolds ==
    [][\A w \in Writers :
          kind[w] = "put" /\ answer[w] # "ok" /\ answer'[w] = "ok" => registry' = req[w]]_vars

\* The writers are told apart by nothing but their names.
Interchangeable == Permutations(Writers)
=============================================================================
