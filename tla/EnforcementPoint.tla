-------------------------- MODULE EnforcementPoint --------------------------
(***************************************************************************)
(* Where a tool call is stopped or let through.  Agents of one process     *)
(* share a PolicyEngineClient and its circuit breaker; the agents behind a *)
(* thin-proxy sidecar share a RemoteEvaluator, which has none.  A turn is  *)
(* what a framework runs at once: one wrapped tool, or all the calls of a  *)
(* LangGraph node, which are put to the engine one after the other before  *)
(* any of them runs.                                                       *)
(***************************************************************************)
EXTENDS Naturals, FiniteSets, TLAPS

CONSTANTS
    Agents,
    Proxied,        \* agents behind a sidecar
    Mode,           \* sdk_fallback_mode: "allow", "block" or a misspelt value
    MaxRetries, Threshold, Reset,
    MaxCalls,       \* bound: calls of one turn
    MaxTurns,       \* bound: turns of one agent
    MaxTime         \* bound: ticks of the clock

ASSUME LimitsAssumption ==
    {MaxRetries, Threshold, Reset, MaxTurns, MaxTime} \subseteq Nat /\ MaxCalls \in Nat \ {0}

VARIABLES
    now, failures, openUntil,   \* the client: _failure_count, _circuit_open_until
    turn,                       \* the turn each agent is at
    turns,
    silent                      \* history: attempts the engine left unanswered since it last answered one

vars == <<now, failures, openUntil, turn, turns, silent>>
client == <<failures, openUntil, silent>>

Idle == [pc |-> "idle", left |-> 0, attempt |-> 0, pep |-> FALSE, seen |-> {}]
Answers == {"allow", "audit", "block", "escalate"}
Outcomes == Answers \cup {"refused", "moved", "error", "silent", "garbled"}

TypeOK ==
    /\ now \in 0..MaxTime /\ openUntil \in 0..(MaxTime + Reset) /\ failures \in Nat /\ silent \in Nat
    /\ turns \in [Agents -> 0..MaxTurns]
    /\ turn \in [Agents -> [pc : {"idle", "start", "posting", "waiting", "ran", "stopped"}, left : 0..MaxCalls,
                            attempt : 0..MaxRetries, pep : BOOLEAN, seen : SUBSET (Outcomes \cup {"open", "unencodable"})]]

Init ==
    /\ now = 0 /\ failures = 0 /\ openUntil = 0 /\ silent = 0
    /\ turn = [a \in Agents |-> Idle] /\ turns = [a \in Agents |-> 0]

Tick == now < MaxTime /\ now' = now + 1 /\ UNCHANGED <<client, turn, turns>>

IsCircuitOpen == now < openUntil

Started(a, n, pep) ==
    /\ turn[a].pc \in {"idle", "ran", "stopped"} /\ turns[a] < MaxTurns /\ turns' = [turns EXCEPT ![a] = @ + 1]
    /\ turn' = [turn EXCEPT ![a] = [Idle EXCEPT !.pc = "start", !.left = n, !.pep = pep]]
    /\ UNCHANGED <<now, client>>

\* A wrapped tool, a GuardedToolNode or a policy_filter: a turn begins.  An
\* MCP enforcement point may already have refused the call (pep).
Begin(a) == a \notin Proxied /\ \E n \in 1..MaxCalls, pep \in BOOLEAN : Started(a, n, pep)

\* SidecarProxy._process_request: one request at a time.
Request(a) == a \in Proxied /\ Started(a, 1, FALSE)

\* The HTTP endpoint turns a request away: no JSON object, or another host
\* without a token that binds it to an identity.
TurnedAway(a) ==
    /\ a \in Proxied /\ turn[a].pc = "start"
    /\ turn' = [turn EXCEPT ![a].pc = "stopped"]
    /\ UNCHANGED <<now, client, turns>>

\* _fallback_decision and the end of _evaluate_upstream.
Fallback == IF Mode = "allow" THEN "allow" ELSE "block"

\* Faulty variant: a denial of the enforcement point is left to the engine.
ApplyPepDenial_Trusts(decision, pep) == decision

ApplyPepDenial(decision, pep) == IF pep THEN "block" ELSE decision

\* Faulty variant: only a block stops a call.
IsAllowed_NotBlocked(decision) == decision # "block"

\* PolicyDecision.is_allowed; intercept_or_raise raises on the other two.
IsAllowed(decision) == decision \in {"allow", "audit"}

\* Faulty variant: a refused call of a batch is skipped and the rest runs.
Decided_Skips(t, decision, how) ==
    [t EXCEPT !.attempt = 0, !.left = @ - 1, !.seen = @ \cup ({how} \ {"allow", "audit"}),
              !.pc = IF t.left = 1 THEN "ran" ELSE "start"]

\* intercept and intercept_or_raise: what the decision of one call does to
\* its turn.  seen: the outcomes of its calls other than a plain permission.
Decided(t, decision, how) ==
    [t EXCEPT !.attempt = 0, !.seen = @ \cup ({how} \ {"allow", "audit"}),
              !.left = IF IsAllowed(ApplyPepDenial(decision, t.pep)) THEN @ - 1 ELSE @,
              !.pc = IF ~IsAllowed(ApplyPepDenial(decision, t.pep)) THEN "stopped"
                     ELSE IF t.left = 1 THEN "ran" ELSE "start"]

\* evaluate with the circuit open: the engine is not asked.
CircuitOpen(a) ==
    /\ turn[a].pc = "start" /\ a \notin Proxied /\ IsCircuitOpen
    /\ turn' = [turn EXCEPT ![a] = Decided(@, Fallback, "open")]
    /\ UNCHANGED <<now, client, turns>>

\* A call that cannot be encoded is not sent.  _post refuses it; the proxied
\* evaluator encodes within its attempt, where the failure is one like any other.
Unencodable(a) ==
    /\ turn[a].pc = "start" /\ (a \in Proxied \/ ~IsCircuitOpen)
    /\ turn' = [turn EXCEPT ![a] = Decided(@, IF a \in Proxied THEN Fallback ELSE "block", "unencodable")]
    /\ UNCHANGED <<now, client, turns>>

Post(a) ==
    /\ turn[a].pc = "start" /\ (a \in Proxied \/ ~IsCircuitOpen)
    /\ turn' = [turn EXCEPT ![a].pc = "posting"]
    /\ UNCHANGED <<now, client, turns>>

RecordSuccess == failures' = 0 /\ openUntil' = 0

RecordFailure ==
    /\ failures' = failures + 1
    /\ openUntil' = IF failures + 1 >= Threshold THEN now + Reset ELSE openUntil

\* Faulty variant: a 4xx counts against the engine too.
Counted_Refusals(o) == o \in {"error", "silent", "refused"}

\* The outcomes of an attempt that count as a failure of the engine.
Counted(o) == o \in {"error", "silent"}

\* What an attempt does to the shared client: answered when the response is
\* a 2xx, whether or not a decision can be read from it.
Recorded(a, o) ==
    /\ IF a \in Proxied THEN UNCHANGED <<failures, openUntil>>
       ELSE IF o \in Answers \cup {"garbled"} THEN RecordSuccess
       ELSE IF Counted(o) THEN RecordFailure
       ELSE UNCHANGED <<failures, openUntil>>
    /\ silent' = IF a \in Proxied THEN silent
                 ELSE IF o \in Answers \cup {"garbled"} THEN 0
                 ELSE IF o \in {"error", "silent"} THEN silent + 1 ELSE silent

Retried(a, o) == turn[a].attempt < MaxRetries /\ (o = "silent" \/ (o = "error" /\ a \in Proxied))

\* Faulty variant: every status error is an outage.
Verdict_Outage(a, o) == IF o \in Answers THEN o ELSE Fallback

\* _handle_http_error, _handle_timeout, _handle_unknown_error; refused in
\* _evaluate_upstream, which also counts a 3xx as a refusal.
Verdict(a, o) ==
    IF o \in Answers THEN o
    ELSE IF o = "refused" \/ (o = "moved" /\ a \in Proxied) THEN "block" ELSE Fallback

\* The response, or its absence, of one attempt.
Answer(a, o) ==
    /\ turn[a].pc = "posting" /\ Recorded(a, o)
    /\ turn' = [turn EXCEPT ![a] = IF Retried(a, o) THEN [@ EXCEPT !.pc = "waiting"] ELSE Decided(@, Verdict(a, o), o)]
    /\ UNCHANGED <<now, turns>>

\* The back-off ends; the circuit is not asked again.
Retry(a) ==
    /\ turn[a].pc = "waiting"
    /\ turn' = [turn EXCEPT ![a].pc = "posting", ![a].attempt = @ + 1]
    /\ UNCHANGED <<now, client, turns>>

Next ==
    \/ Tick
    \/ \E a \in Agents : Begin(a) \/ Request(a) \/ TurnedAway(a) \/ CircuitOpen(a) \/ Unencodable(a) \/ Post(a) \/ Retry(a)
    \/ \E a \in Agents, o \in Outcomes : Answer(a, o)

Spec == Init /\ [][Next]_vars

-----------------------------------------------------------------------------
\* A turn that ran was allowed call by call: no enforcement point had refused
\* it, and every call of it was answered allow or audit by the engine or,
\* under the allow mode only, got no decision it could read.  A 4xx never gets
\* there, nor does a call that the SDK client cannot encode; one that the
\* proxied evaluator cannot encode does (_evaluate_upstream, except Exception).
RunsOnlyWhatWasLetThrough ==
    \A a \in Agents : turn[a].pc = "ran" =>
        /\ ~turn[a].pep /\ turn[a].left = 0
        /\ turn[a].seen \cap {"block", "escalate", "refused"} = {}
        /\ "unencodable" \in turn[a].seen => a \in Proxied
        /\ turn[a].seen # {} => Mode = "allow"

\* The circuit opens on silence only: while it is open, the last Threshold
\* attempts or more of all agents together went without an answer, and none
\* of them was a refusal (the comment in _post: an expired credential must
\* not become an outage).
OpensOnSilenceOnly == IsCircuitOpen => silent >= Threshold

\* What _handle_http_error and _evaluate_upstream say of the whole path, and what
\* does not hold: a call falls back to the mode only when the engine did not
\* answer it.  A 2xx whose body is no decision falls back as well, and so does a
\* call that the proxied evaluator cannot encode.
OnlyOutagesFallBack ==
    \A a \in Agents : turn[a].pc = "ran" => turn[a].seen \subseteq {"error", "silent", "open"}

\* Both: what runs was let through call by call, and the circuit opens on silence only.
EnforcesAnswers == RunsOnlyWhatWasLetThrough /\ OpensOnSilenceOnly

-----------------------------------------------------------------------------
(***************************************************************************)
(* What the enforcing clients promise, for any number of agents, calls,    *)
(* retries and any threshold of the circuit breaker.                       *)
(*                                                                         *)
(* What a turn that ran has seen is settled call by call, so the invariant *)
(* says of every turn under way what RunsOnlyWhatWasLetThrough says of one *)
(* that ran (Onward).  The circuit is open only for silence because the    *)
(* failures the client counts are never more than the unanswered attempts, *)
(* and whatever resets the one resets the other (Breaker).                 *)
(***************************************************************************)

Turn == [pc : {"idle", "start", "posting", "waiting", "ran", "stopped"}, left : 0..MaxCalls,
         attempt : 0..MaxRetries, pep : BOOLEAN, seen : SUBSET (Outcomes \cup {"open", "unencodable"})]

\* A turn of agent a whose calls so far were all let through.
Cleared(a, t) ==
    /\ t.seen \cap {"block", "escalate", "refused"} = {}
    /\ "unencodable" \in t.seen => a \in Proxied
    /\ t.seen # {} => Mode = "allow"

\* What holds of a turn at each of its steps.
Proper(a, t) ==
    /\ t.pc \in {"start", "posting", "waiting"} => Cleared(a, t) /\ t.left \in 1..MaxCalls
    /\ t.pc = "waiting" => t.attempt < MaxRetries
    /\ t.pc = "ran" => Cleared(a, t) /\ ~t.pep /\ t.left = 0

Onward == \A a \in Agents : Proper(a, turn[a])
Breaker == failures <= silent /\ (openUntil > 0 => silent >= Threshold)

IndInv == TypeOK /\ Onward /\ Breaker

-----------------------------------------------------------------------------
\* The fields of a turn.
LEMMA TurnFields ==
  ASSUME NEW t \in Turn
  PROVE  /\ t.pc \in {"idle", "start", "posting", "waiting", "ran", "stopped"} /\ t.left \in 0..MaxCalls
         /\ t.attempt \in 0..MaxRetries /\ t.pep \in BOOLEAN
         /\ t.seen \in SUBSET (Outcomes \cup {"open", "unencodable"})
  BY DEF Turn

\* A turn begins with calls to make, and nothing seen.
LEMMA FreshTurn ==
  ASSUME NEW n \in 0..MaxCalls, NEW p \in BOOLEAN
  PROVE  /\ [Idle EXCEPT !.pc = "start", !.left = n, !.pep = p] \in Turn
         /\ [Idle EXCEPT !.pc = "start", !.left = n, !.pep = p].pc = "start"
         /\ [Idle EXCEPT !.pc = "start", !.left = n, !.pep = p].left = n
         /\ [Idle EXCEPT !.pc = "start", !.left = n, !.pep = p].seen = {}
<1>1. ASSUME NEW x \in Turn
      PROVE  /\ [x EXCEPT !.pc = "start", !.left = n, !.pep = p] \in Turn
             /\ [x EXCEPT !.pc = "start", !.left = n, !.pep = p].pc = "start"
             /\ [x EXCEPT !.pc = "start", !.left = n, !.pep = p].left = n
             /\ [x EXCEPT !.pc = "start", !.left = n, !.pep = p].seen = x.seen
  BY <1>1 DEF Turn
<1>2. Idle \in Turn /\ Idle.seen = {}
  BY LimitsAssumption DEF Idle, Turn
<1> QED
  BY <1>1, <1>2

\* A decision moves a turn on only if it allows the call and no enforcement point refused it.
LEMMA DecidedProper ==
  ASSUME NEW a \in Agents, NEW t \in Turn, Cleared(a, t), t.left \in 1..MaxCalls, NEW decision,
         NEW how \in Outcomes \cup {"open", "unencodable"},
         decision \in {"allow", "audit"} =>
            \/ how \in {"allow", "audit"}
            \/ Mode = "allow" /\ how \notin {"block", "escalate", "refused"} /\ (how = "unencodable" => a \in Proxied)
  PROVE  Decided(t, decision, how) \in Turn /\ Proper(a, Decided(t, decision, how))
<1> USE LimitsAssumption
<1> DEFINE ok == IsAllowed(ApplyPepDenial(decision, t.pep))
           u == Decided(t, decision, how)
<1>1. /\ t.pep \in BOOLEAN /\ t.attempt \in 0..MaxRetries /\ t.left \in 0..MaxCalls
      /\ t.seen \in SUBSET (Outcomes \cup {"open", "unencodable"})
  BY TurnFields
<1>2. ok => decision \in {"allow", "audit"} /\ ~t.pep
  BY <1>1 DEF IsAllowed, ApplyPepDenial
<1> HIDE DEF ok
<1>3. u = [t EXCEPT !.attempt = 0, !.seen = @ \cup ({how} \ {"allow", "audit"}),
                    !.left = IF ok THEN @ - 1 ELSE @,
                    !.pc = IF ~ok THEN "stopped" ELSE IF t.left = 1 THEN "ran" ELSE "start"]
  BY DEF Decided, ok
<1> HIDE DEF u
<1>4. /\ u.attempt = 0 /\ u.seen = t.seen \cup ({how} \ {"allow", "audit"}) /\ u.pep = t.pep
      /\ u.left = (IF ok THEN t.left - 1 ELSE t.left)
      /\ u.pc = (IF ~ok THEN "stopped" ELSE IF t.left = 1 THEN "ran" ELSE "start")
  BY <1>3 DEF Turn
<1>5. u \in Turn
  <2>1. t.seen \cup ({how} \ {"allow", "audit"}) \in SUBSET (Outcomes \cup {"open", "unencodable"})
    BY <1>1
  <2>2. (IF ok THEN t.left - 1 ELSE t.left) \in 0..MaxCalls
    OBVIOUS
  <2>3. (IF ~ok THEN "stopped" ELSE IF t.left = 1 THEN "ran" ELSE "start")
           \in {"idle", "start", "posting", "waiting", "ran", "stopped"}
    OBVIOUS
  <2>4. 0 \in 0..MaxRetries
    OBVIOUS
  <2> QED
    BY <1>3, <2>1, <2>2, <2>3, <2>4 DEF Turn
<1>6. ok => Cleared(a, u)
  BY <1>2, <1>4 DEF Cleared
<1>7. Proper(a, u)
  <2>1. CASE ~ok
    BY <1>4, <2>1 DEF Proper
  <2>2. CASE ok /\ t.left = 1
    BY <1>2, <1>4, <1>6, <2>2 DEF Proper
  <2>3. CASE ok /\ t.left # 1
    BY <1>4, <1>6, <2>3 DEF Proper
  <2> QED
    BY <2>1, <2>2, <2>3
<1> QED
  BY <1>5, <1>7 DEF u

\* What one attempt does to the client keeps its count below the silence.
LEMMA RecordedBreaker ==
  ASSUME TypeOK, Breaker, NEW a \in Agents, NEW o \in Outcomes, Recorded(a, o)
  PROVE  /\ failures' \in Nat /\ silent' \in Nat /\ openUntil' \in 0..(MaxTime + Reset)
         /\ Breaker'
<1> USE LimitsAssumption
<1>1. now \in 0..MaxTime /\ failures \in Nat /\ silent \in Nat /\ openUntil \in 0..(MaxTime + Reset)
  BY DEF TypeOK
<1>2. CASE a \in Proxied
  BY <1>1, <1>2 DEF Recorded, Breaker
<1>3. CASE a \notin Proxied /\ o \in Answers \cup {"garbled"}
  BY <1>1, <1>3 DEF Recorded, RecordSuccess, Breaker
<1>4. CASE a \notin Proxied /\ o \notin Answers \cup {"garbled"} /\ o \in {"error", "silent"}
  <2>1. failures' = failures + 1 /\ silent' = silent + 1
    BY <1>4 DEF Recorded, Counted, RecordFailure
  <2>2. openUntil' = IF failures + 1 >= Threshold THEN now + Reset ELSE openUntil
    BY <1>4 DEF Recorded, Counted, RecordFailure
  <2> QED
    BY <1>1, <2>1, <2>2 DEF Breaker
<1>5. CASE a \notin Proxied /\ o \notin Answers \cup {"garbled"} /\ o \notin {"error", "silent"}
  BY <1>1, <1>5 DEF Recorded, Counted, Breaker
<1> QED
  BY <1>2, <1>3, <1>4, <1>5

\* A step that replaces one agent's turn by a proper one keeps the types and the invariant of the turns.
LEMMA TurnStep ==
  ASSUME TypeOK, Onward, NEW a \in Agents, NEW t \in Turn, Proper(a, t), turn' = [turn EXCEPT ![a] = t]
  PROVE  turn' \in [Agents -> Turn] /\ Onward'
<1>1. turn \in [Agents -> Turn]
  BY DEF TypeOK, Turn
<1> QED
  BY <1>1 DEF Onward

\* Every step keeps the invariant.
LEMMA Stepping == IndInv /\ [Next]_vars => IndInv'
<1> SUFFICES ASSUME IndInv, [Next]_vars PROVE IndInv'
  OBVIOUS
<1> USE LimitsAssumption
<1>1. TypeOK /\ Onward /\ Breaker /\ turn \in [Agents -> Turn]
  BY DEF IndInv, TypeOK, Turn
<1>2. ASSUME turn' \in [Agents -> Turn], Onward', UNCHANGED <<now, client, turns>>
      PROVE  IndInv'
  BY <1>1, <1>2 DEF IndInv, TypeOK, Turn, client, Breaker
<1>3. CASE Tick
  <2>1. now' \in 0..MaxTime /\ UNCHANGED <<failures, openUntil, silent, turn, turns>>
    BY <1>1, <1>3 DEF Tick, client, TypeOK
  <2> QED
    BY <1>1, <2>1 DEF IndInv, TypeOK, Onward, Breaker
<1>4. ASSUME NEW a \in Agents, NEW n \in 1..MaxCalls, NEW pep \in BOOLEAN, Started(a, n, pep) PROVE IndInv'
  <2> DEFINE t == [Idle EXCEPT !.pc = "start", !.left = n, !.pep = pep]
  <2>1. n \in 0..MaxCalls /\ 0 \in 0..MaxRetries
    OBVIOUS
  <2>2. t \in Turn /\ t.pc = "start" /\ t.left = n /\ t.seen = {}
    BY <2>1, FreshTurn
  <2> HIDE DEF t
  <2>3. Proper(a, t)
    BY <2>2 DEF Proper, Cleared
  <2>4. turn' = [turn EXCEPT ![a] = t]
    BY <1>4 DEF Started, t
  <2>5. turn' \in [Agents -> Turn] /\ Onward'
    BY <1>1, <2>2, <2>3, <2>4, TurnStep
  <2>6. turns' \in [Agents -> 0..MaxTurns] /\ UNCHANGED <<now, client>>
    BY <1>1, <1>4 DEF Started, TypeOK
  <2> QED
    BY <1>1, <2>5, <2>6 DEF IndInv, TypeOK, Turn, client, Breaker
<1>5. ASSUME NEW a \in Agents, Begin(a) PROVE IndInv'
  BY <1>4, <1>5 DEF Begin
<1>6. ASSUME NEW a \in Agents, Request(a) PROVE IndInv'
  <2>1. 1 \in 1..MaxCalls
    OBVIOUS
  <2>2. Started(a, 1, FALSE)
    BY <1>6, Zenon DEF Request
  <2>3. FALSE \in BOOLEAN
    OBVIOUS
  <2> QED
    BY <1>4, <2>1, <2>2, <2>3, Zenon
<1>7. ASSUME NEW a \in Agents, TurnedAway(a) PROVE IndInv'
  <2>1. turn[a] \in Turn /\ turn' = [turn EXCEPT ![a] = [turn[a] EXCEPT !.pc = "stopped"]]
    BY <1>1, <1>7 DEF TurnedAway
  <2>2. [turn[a] EXCEPT !.pc = "stopped"] \in Turn /\ [turn[a] EXCEPT !.pc = "stopped"].pc = "stopped"
    BY <2>1 DEF Turn
  <2>3. Proper(a, [turn[a] EXCEPT !.pc = "stopped"])
    BY <2>2 DEF Proper
  <2> QED
    BY <1>1, <1>2, <1>7, <2>1, <2>2, <2>3, TurnStep DEF TurnedAway
<1>8. ASSUME NEW a \in Agents, CircuitOpen(a) PROVE IndInv'
  <2>1. turn[a] \in Turn /\ Cleared(a, turn[a]) /\ turn[a].left \in 1..MaxCalls
    BY <1>1, <1>8 DEF CircuitOpen, Onward, Proper
  <2>2. Fallback \in {"allow", "audit"} => Mode = "allow"
    BY DEF Fallback
  <2>3. Decided(turn[a], Fallback, "open") \in Turn /\ Proper(a, Decided(turn[a], Fallback, "open"))
    BY <2>1, <2>2, DecidedProper
  <2>4. turn' = [turn EXCEPT ![a] = Decided(turn[a], Fallback, "open")]
    BY <1>1, <1>8 DEF CircuitOpen
  <2> QED
    BY <1>1, <1>2, <1>8, <2>3, <2>4, TurnStep DEF CircuitOpen
<1>9. ASSUME NEW a \in Agents, Unencodable(a) PROVE IndInv'
  <2>1. turn[a] \in Turn /\ Cleared(a, turn[a]) /\ turn[a].left \in 1..MaxCalls
    BY <1>1, <1>9 DEF Unencodable, Onward, Proper
  <2> DEFINE d == IF a \in Proxied THEN Fallback ELSE "block"
  <2>4. d \in {"allow", "audit"} => Mode = "allow" /\ a \in Proxied
    BY DEF Fallback
  <2>3. turn' = [turn EXCEPT ![a] = Decided(turn[a], d, "unencodable")]
    BY <1>1, <1>9 DEF Unencodable
  <2> HIDE DEF d
  <2>2. Decided(turn[a], d, "unencodable") \in Turn /\ Proper(a, Decided(turn[a], d, "unencodable"))
    BY <2>1, <2>4, DecidedProper
  <2> QED
    BY <1>1, <1>2, <1>9, <2>2, <2>3, TurnStep DEF Unencodable
<1>10. ASSUME NEW a \in Agents, Post(a) PROVE IndInv'
  <2> DEFINE t == [turn[a] EXCEPT !.pc = "posting"]
  <2>1. turn[a] \in Turn /\ Cleared(a, turn[a]) /\ turn[a].left \in 1..MaxCalls /\ turn' = [turn EXCEPT ![a] = t]
    BY <1>1, <1>10 DEF Post, Onward, Proper
  <2>2. t \in Turn /\ t.pc = "posting" /\ t.seen = turn[a].seen /\ t.left = turn[a].left
    BY <2>1 DEF Turn
  <2> HIDE DEF t
  <2>3. Proper(a, t)
    BY <2>1, <2>2 DEF Proper, Cleared
  <2> QED
    BY <1>1, <1>2, <1>10, <2>1, <2>2, <2>3, TurnStep DEF Post
<1>11. ASSUME NEW a \in Agents, Retry(a) PROVE IndInv'
  <2> DEFINE t == [turn[a] EXCEPT !.pc = "posting", !.attempt = @ + 1]
  <2>1. /\ turn[a] \in Turn /\ Cleared(a, turn[a]) /\ turn[a].left \in 1..MaxCalls /\ turn[a].attempt < MaxRetries
        /\ turn[a].attempt \in 0..MaxRetries
    BY <1>1, <1>11, TurnFields DEF Retry, Onward, Proper
  <2>2. turn' = [turn EXCEPT ![a] = t]
    BY <1>1, <1>11 DEF Retry
  <2>3. turn[a].attempt + 1 \in 0..MaxRetries
    BY <2>1
  <2>4. t \in Turn /\ t.pc = "posting" /\ t.seen = turn[a].seen /\ t.left = turn[a].left
    BY <2>1, <2>3 DEF Turn
  <2> HIDE DEF t
  <2>5. Proper(a, t)
    BY <2>1, <2>4 DEF Proper, Cleared
  <2> QED
    BY <1>1, <1>2, <1>11, <2>2, <2>4, <2>5, TurnStep DEF Retry
<1>12. ASSUME NEW a \in Agents, NEW o \in Outcomes, Answer(a, o) PROVE IndInv'
  <2>1. turn[a] \in Turn /\ Cleared(a, turn[a]) /\ turn[a].left \in 1..MaxCalls
    BY <1>1, <1>12 DEF Answer, Onward, Proper
  <2>2. turn' \in [Agents -> Turn] /\ Onward'
    <3>1. CASE Retried(a, o)
      <4> DEFINE t == [turn[a] EXCEPT !.pc = "waiting"]
      <4>1. turn' = [turn EXCEPT ![a] = t]
        BY <1>1, <1>12, <3>1 DEF Answer
      <4>2. t \in Turn /\ t.pc = "waiting" /\ t.seen = turn[a].seen /\ t.left = turn[a].left /\ t.attempt = turn[a].attempt
        BY <2>1 DEF Turn
      <4> HIDE DEF t
      <4>3. Proper(a, t)
        BY <2>1, <3>1, <4>2 DEF Proper, Cleared, Retried
      <4> QED
        BY <1>1, <4>1, <4>2, <4>3, TurnStep
    <3>2. CASE ~Retried(a, o)
      <4> DEFINE t == Decided(turn[a], Verdict(a, o), o)
      <4>1. turn' = [turn EXCEPT ![a] = t]
        BY <1>1, <1>12, <3>2 DEF Answer
      <4>2. Verdict(a, o) \in {"allow", "audit"} =>
               \/ o \in {"allow", "audit"}
               \/ Mode = "allow" /\ o \notin {"block", "escalate", "refused"} /\ (o = "unencodable" => a \in Proxied)
        BY DEF Verdict, Fallback, Answers, Outcomes
      <4>3. t \in Turn /\ Proper(a, t)
        BY <2>1, <4>2, DecidedProper
      <4> HIDE DEF t
      <4> QED
        BY <1>1, <4>1, <4>3, TurnStep
    <3> QED
      BY <3>1, <3>2
  <2>3. /\ failures' \in Nat /\ silent' \in Nat /\ openUntil' \in 0..(MaxTime + Reset)
        /\ Breaker'
    BY <1>1, <1>12, RecordedBreaker DEF Answer
  <2> QED
    BY <1>1, <1>12, <2>2, <2>3 DEF IndInv, TypeOK, Turn, Answer
<1>13. CASE UNCHANGED vars
  BY <1>1, <1>13 DEF vars, IndInv, TypeOK, Onward, Breaker
<1> QED
  BY <1>3, <1>5, <1>6, <1>7, <1>8, <1>9, <1>10, <1>11, <1>12, <1>13 DEF Next

-----------------------------------------------------------------------------
\* The invariant holds in every reachable state.
LEMMA Invariance == Spec => []IndInv
<1>1. Init => IndInv
  <2> SUFFICES ASSUME Init PROVE IndInv
    OBVIOUS
  <2> USE LimitsAssumption
  <2>1. Idle \in Turn /\ \A a : Proper(a, Idle)
    BY DEF Idle, Turn, Proper
  <2>2. TypeOK
    BY <2>1 DEF Init, TypeOK, Turn
  <2>3. Onward /\ Breaker
    BY <2>1 DEF Init, Onward, Breaker
  <2> QED
    BY <2>2, <2>3 DEF IndInv
<1> QED
  BY <1>1, Stepping, PTL DEF Spec

\* Every reachable state of the enforcing clients is well typed.
THEOREM TypeCorrect == Spec => []TypeOK
<1>1. IndInv => TypeOK
  BY DEF IndInv
<1> QED
  BY <1>1, Invariance, PTL

\* For any number of agents, calls and retries and any threshold: a turn that ran was let through call by
\* call, by an answer or, in the allow mode, by the fallback, which a refusal never reaches and a call that
\* cannot be encoded reaches in the proxied evaluator only; and the circuit is open only after Threshold
\* attempts without an answer (PolicyEngineClient, RemoteEvaluator, intercept_or_raise).
THEOREM AnswersEnforced == Spec => []EnforcesAnswers
<1>1. IndInv => RunsOnlyWhatWasLetThrough
  BY DEF IndInv, Onward, Proper, Cleared, RunsOnlyWhatWasLetThrough
<1>2. IndInv => OpensOnSilenceOnly
  <2> SUFFICES ASSUME IndInv, now < openUntil PROVE silent >= Threshold
    BY DEF OpensOnSilenceOnly, IsCircuitOpen
  <2>1. now \in 0..MaxTime /\ openUntil \in 0..(MaxTime + Reset)
    BY DEF IndInv, TypeOK
  <2> QED
    BY <2>1, LimitsAssumption DEF IndInv, Breaker
<1> QED
  BY <1>1, <1>2, Invariance, PTL DEF EnforcesAnswers

=============================================================================
