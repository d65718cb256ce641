# Norviq in TLA+

Norviq decides the tool calls of AI agents. An API with two or more replicas
keeps policies; engines, in the API or in sidecars, evaluate calls with OPA;
SDKs, sidecars and MCP proxies put the calls to an engine and stop what it
refuses; a Kubernetes webhook injects sidecars and turns custom resources into
policies; Redis holds what must be fast and shared, Postgres what must survive;
a fleet hub distributes policies to clusters. This directory holds TLA+ models
of the parts whose correctness depends on interleavings, failures or the
interplay of rules, TLC configurations that check them on small instances, and
theorems that TLAPS checks for every instance. `PROJECT.json` maps each
definition to the lines it models, and lists the hazards the properties are
for.

## The system and its parts

| Part | State | What is hard | What makes it correct | Modules |
|---|---|---|---|---|
| Admin trust writes (`api/routers/agents.py`, fence in `engine/cache.py`) | registry row, live control and owner key in Redis, advisory lock | lock sessions that end unnoticed, store calls that land late, commits without an answer | the store is never laxer than the registry, stale writers are fenced off, a deletion lifts no control, everyone is answered | `AdminTrust` |
| Session revocation (`api/session_revocation.py`) | mirror and queue per process, denylist and marker in Redis, rows | rows visible out of order, failed writes, crashes, a Redis that loses its data | no revocation is skipped or dropped, every process comes to know it, outages are ridden for a bounded time | `SessionRevocation`, `Denylist`, `RevocationGrace` |
| Policy loader and sync (`engine/policy_loader.py`, listeners) | row and history, memory per process | two replicas changing one scope, lost events, partial failures | listeners end with what Postgres holds; the enforced version stays in the history | `PolicySync` |
| Managed scopes and policy routes (`api/routers/`: policies, baseline, packs, settings, mcp) | rows, compiled modules, locks, postures | read-modify-write across awaits, restarts between saving and materialising | the engine is as strict as the console shows; caps and controls hold | `ManagedScopes`, `PolicyRoutes` |
| Decision caches (`engine/evaluator.py`, `inproc_cache.py`) | Redis entry, L1 per pod | an evaluation that overlaps a change, lost invalidations | a bound on how old a served decision is | `DecisionCache` |
| OPA modules (`engine/evaluator.py`, `opa_client.py`) | modules in OPA, memo of digests, dry-run list | requests applied after their deadline, restarts, evictions under an evaluation | a call is answered by its own policy's text | `OpaModules` |
| Resolution and pipeline (`engine/evaluator.py`) | none | ten layers, two modes, priorities, three ways out of `evaluate` | nothing an operator adds loosens a floor; failures refuse | `PolicyResolution` |
| Trust score (`engine/trust/`) | history, caps | thresholds, reads that fail one by one | one refusal never caps, an outage lifts nothing but the admin's cap | `TrustScore` |
| Arguments and intents (`engine/intent/`, `sdk/core/wrapping.py`) | none | dotted and ambiguous names, truncation, Rego's undefined | a policy sees the call that is made; an intent allows what it says | `CallArguments`, `ArgumentPaths`, `Intents` |
| Asset graph (`engine/graph/`) | live builder, stored snapshot | loads and saves around each other, the cap | saving loses nothing | `AssetGraph` |
| Red-team suite (`api/routers/redteam.py`) | dictionary per pod, lock in Redis, stored runs | check and act with awaits in between, crashes, expiring locks | the guard is given back, refusals name a run, the newest run keeps its results | `SuiteGuard` |
| MCP firewall (`mcp/`) | pending maps, pins, catalogue, event ids | early, late, double and malformed answers, polls racing reports, budgets | one answer to each request, nothing unread passes, only approved definitions are callable | `McpPins`, `McpSession`, `McpHttp`, `McpGates` |
| Enforcing clients (`sdk/`, `sidecar/`) | circuit breaker, turns, loaded policies | shared failures, retries, waits for tables | what runs was let through call by call | `EnforcementPoint`, `SidecarBoot` |
| Webhook (`webhook/`) | resources, queues, secrets | re-drives racing changes, goroutines sharing an injector | the API comes to hold what the resource says; admitted pods are governed | `CrdAdmission`, `CrdController`, `DerivedStatus`, `PodInjection`, `SidecarSecret` |
| Login and identity (`api/routers/auth_login.py`, `api/auth.py`) | counters with expiry, claims | increment and expiry are two commands; claims against body | guesses are bounded; callers act at home | `LoginWindows`, `CallerIdentity` |
| Fleet (`api/routers/fleet*.py`, `fleet/`, `fleet_puller.py`) | tokens, bundle versions, manifest, counts | lost answers, partial application, several replicas | a token enrols once, a pull that overlaps no other takes nothing back, the record is true | `Fleet`, `FleetRelay` |
| Audit (`engine/audit_emitter.py`, `api/siem.py`, `audit_retention.py`, `audit_hub.py`) | rows, cursor, queues | commits out of order, failing sinks, full queues | a forwarder repeats and skips only for a known reason, an export is complete | `AuditTrail`, `AuditFeed` |
| Attack graph, verbs and drafts (`api/routers/threats.py`, `graphs.py`, `api/threat_intent.py`, `api/retention.py`, `engine/capability/`) | table and maps of promoted verbs, inbox of drafts | maps that only one replica warms, requests that delete and insert side by side, limits of a walk over a graph anybody can grow | the worst paths are shown, a promotion never makes a tool look milder, drafts go for a reason | `AttackPaths`, `ToolVerbs`, `IntentDrafts` |
| Content inspection, graph searches that nobody is shown, dashboards, configuration, telemetry, CLI, console, rego and chart | derived or constant data | characters, presentation | out of scope | none |

Each module's header says what its state stands for, and each action names the
function it models where its own name does not.

## Conventions

Every step of a model ends where the code awaits (or, in Go, where a goroutine
can be overtaken): between two awaits a coroutine runs alone in its process. An
action is one such stretch, with the effect of the call it was waiting for. A
call that may time out has an action for "applied and answered", one for
"failed", and, where the client's timeout leaves the call in flight, a set of
late calls that may land at any time.

`Events` (or `Errors`, `Overruns`, `Crashes`, `MaxFaults`) says what may go wrong
in an instance. Definitions whose name ends in an underscore and a phrase
(`Finally_OnlyOwn`) are the code with a plausible mistake. No specification uses
them; putting one in the place of the definition it follows makes a property
fail, which shows that the property depends on that code. History variables are
read by properties only.

The modules of functions (`PolicyResolution`, `McpGates`, `CrdAdmission`,
`PodInjection`, `CallerIdentity`, `CallArguments`, `ArgumentPaths`, `Intents`,
`TrustScore`, `AttackPaths`) have an input `in`, any of a set of inputs, and an
output `out`, filled by one action per function. Their properties compare the
output with a reference definition, or relate several outputs.

### Several parts in one run

`MC_Policies`, `MC_Platform`, `MC_Algorithms`, `MC_Convergence` and `MC_Answers`
check several components side by side: the components of one such module do not
interact, `part` says which one a behaviour belongs to and never changes, and a
property speaks of its part only. One component, the *base*, is extended, so
that its own properties and assumptions are checked under their own names; the
others are instances whose variables are taken from a pool `x1, x2, ...`, with
the constants given in the `INSTANCE`. The state space is the sum of the parts'
spaces, not their product. Sets that stand for interchangeable things in every
part (`Requests`, `Actors`) are shared, so that one symmetry set serves all.

A fairness condition of a part is stated of the step conjoined with its `part`;
because `part` is constant, fairness of a disjunction of such steps of different
parts is fairness of each of them. Liveness properties have the forms `[]<>P`
and `<>[]P` for the same reason: with `part = ... => P` inside they are about
one part, and TLC handles them without a tableau per component.

## The runs

| Run | Question | Instance and why it is enough |
|---|---|---|
| `admin_faults` | Does any write get past the fence? (`FenceHolds`) | two PUTs, sessions that end, one late call at a time, an expiring owner key. A freeze that steals needs no lock, so two writers are a steal and a holder; one cap, since caps are only compared |
| `admin_operations` | Is the store ever laxer than the registry, a 200 untrue, a control lifted by a deletion? (`StoreCoversRegistry`, `OkHoldsInBoth`, `DeleteLiftsNothing`) | PUT, DELETE and warm-up of two writers with every event but late calls |
| `revocation_durable` | Can a pull skip a row, or a logout be lost? (`PullMissesNothing`, `NothingDropped`) | two processes, a clock of two ticks with an overlap of two, so that an insert stays open across pulls and commits behind the newest stamp; exits and expiring tokens |
| `revocation_live` | Does every process come to refuse, and is every step one of the abstract denylist? (`CatchesUp`, `ImplementsDenylist`) | two processes, a failing Postgres, a Redis that fails and that loses its data |
| `decision_bound` | How old can a served decision be? (`StaleBound`) | two pods, calls and saves; all times one tick and a clock of five, one more than the bound |
| `policies` | Do engines enforce what is stored and shown? (`CurrentVersionKept`, `EnginesFollow`, `AnsweredByItsOwnText`, `EngineIsAsStrictAsShown`, `CapsAndControlsHold`, `VerbsAreKept`, `DraftsGoForAReason`) | loader: any two of save, apply, rollback, delete on two replicas, and one of them with every fault and an engine; OPA: two evaluations, two dry runs, a cap of one; controls: two requests, two releases; routes: two callers, one scope below the cap; verbs: two replicas, two requests of an admin, three tools, payloads of up to two fields; drafts: two requests, two classes, a ceiling of one draft |
| `platform` | Does the shared state around the engine survive races and faults? (eight properties, one or two per part) | enforcing clients: two agents on one client and one behind a sidecar, two calls, one retry, a threshold of two; login: two callers of two sources and a failing command; fleet: two replicas with a puller each, two edits, two versions, a fault; relay: two hours of two ticks; audit: two rows and two forwarders that share a cursor, and one process with three rows, pages of two and an export; graph: two tasks at a cap of four; grace: two checks, two outages; HTTP: two posts, three streams; secrets: three admissions |
| `algorithms` | Do the functions agree with their reference definitions? (ten properties) | every one of about 1.5 million inputs: up to three layers of stored policies with every decision and mode and two priorities, listings and results around each budget, pods of two containers, texts on each side of every cap, trees of three entries with values too long to be read, intents of two rules with patterns only one of the two readers takes, histories around the thresholds with each read failing alone, asset graphs of two agents and a server with room for fewer paths than there are |
| `convergence` | Is what failed repeated until both sides agree? (`CallableWasApproved`, `Repaired`) | a proxy and two definitions; a resource that changes twice, or is deleted and created anew, with a fault (of a status write too); two classes and queues of one entry; three faults before a sidecar serves |
| `answers` | Does everyone get an answer? (`LatestKeepsDetail`, `GuardIsSound`, `SessionAnswersOnce`, `AllAnswer`) | two suites on two pods and namespaces with every failure and three stamps, so that each retention window is met; two trust writers; three client requests where the map holds two |
| `policy_delete`, `arguments_kept` | see Findings | |

`Interchangeable` is a symmetry of the runs that check no liveness. Deadlock is
not checked where the bounded number of requests, changes and faults, or the
bounded clock, lets the system stop.

Definitions named after another one with a suffix (`Pending_None`,
`Emit_LastWins`) are faulty variants of it: a dropped guard, a missing reset, a
swapped order. Put in its place, each of them makes the module's run report a
violation; a property that gathers several statements has a variant for most of
them, so that none holds for want of a case. `revocation_durable` has one token,
and with one token a flush that empties its queue loses nothing; that a flush
takes away only what it wrote shows with two (`Procs = {p1}`,
`Tokens = {t1, t2}`), and `LogoutKept` covers any number.

## The modules

### AdminTrust

PUT and DELETE of an agent's trust and the warm-up at boot, for one agent
(agents share none of this state). A writer takes a session-level advisory
lock, reads the registry, takes a fencing token from the sequence, and then
writes store and registry, in an order that depends on the direction: a
tightening reaches the store first, a loosening the registry first. The store
is written through two Lua scripts of `cache.py`: a claim of the owner key and a
write that is applied only while the owner is the writer's. A freeze that cannot
take a lock *steals*: it claims past the owner and writes. The lock dies with
its connection, so `SessionEnds` may happen at any moment; a cut-off call goes
to `wire` and may be run by `LateCall`; a commit without an answer goes to
`late`. `StoreCoversRegistry` excepts the window the code itself reports as not
live (the history variable `gap`). The owner key's TTL is taken to be longer
than an operation with its calls in flight.

### SessionRevocation, Denylist, RevocationGrace

A logout writes the mirror, Redis and Postgres, in this order, and is queued
before Postgres is tried. A process loads all rows at boot, then repeats a pass:
pull the rows above its watermark less an overlap, flush the queue, rewrite it
into Redis, and reconcile Redis if its marker is missing (or at boot): scan,
import what Postgres lacks, reseed, set the marker. An insert's transaction is
taken to be shorter than the overlap (the guard of `Tick`): the code chooses the
overlap far above its statement timeout. `Denylist` says what this promises
without stores and passes; `SessionRevocation` implements it, with the mirrors
as what the processes refuse and the rows as what is durable. `RevocationGrace` is
`is_revoked` while Redis comes and goes: one clock per process, started by the
first failing check and cleared by the next answered one.

### PolicySync

One scope, its row and history in Postgres, and the copies in the memory of API
replicas and engines. A request is a list of steps still to do (`todo`), each
one await of `create`, `apply`, `rollback` or `delete`; its prune of the history
reads first and deletes later. Events go through Redis pub/sub to those
subscribed at that moment: replicas reload row and history and skip their own
echo, engines reload. An evaluation that finds nothing in memory loads it.
`FollowersConverge` is about sidecars and replicas that served no mutation
themselves (`OwnEchoCurrent` below says why), lets a replica hold nothing, which
its next evaluation reads, and excepts processes that missed a message or a load
they needed until they handle a later one (the history variable `astray`). A save's transaction is taken to be
shorter than the age window of the prune.

### ManagedScopes, PolicyRoutes

`ManagedScopes` is the saving of compliance controls, packs, MCP registries and
postures and their compilation into policies, on request and at start, across
releases whose shipped controls differ. `EngineIsAsStrictAsShown` is the order
"stricter of the two first" of a save of controls. Packs and registries
materialise without a lock: two overlapping saves may leave the older one
compiled until the next start, and overlapping settings saves the older posture;
the properties except exactly that (`untidy`). `PolicyRoutes` is the router's
cap, reserved scopes, overlays and intents on the rows of one namespace.

### DecisionCache, OpaModules, PolicyResolution

`DecisionCache` is the decision of one (namespace, class, tool) in Redis and in
each pod's L1; a decision is the version it was made from and the moment that
version was read. `MaxCall` bounds an evaluation: OPA calls have a timeout of
two seconds per candidate and Redis calls the pool's timeout. `OpaModules` is
what OPA holds against what the evaluator's memo says. `PolicyResolution` is the
choice among layers (`ResolveWithPacks`, for one namespace and for the view over
all) and then `evaluate`: base decision, policy mode, rate limit, trust
overrides, posture, attribution and the enforcement point's refusal, with the
cached, fresh and failing ways out. `FailuresRefuse` and `FrozenIsRefused` name
the calls that pass nevertheless: in a namespace set to observe, and, for a
failure without a handler, under a policy saved to audit; a frozen agent passes
only where the namespace observes, by a handler or a softened rate limit.
`AnsweredByItsOwnText` exempts evaluations of one policy that overlap with two
texts: there the code does mix them up (`MemoIsRight` below). Priorities are an
`Integer` column, so `MaxPriority` bounds them.

### TrustScore, CallArguments, ArgumentPaths, Intents

Scores are in thousandths and signals in tenths, so that the weighted sum is
exact. `CallArguments` binds a call to a signature; `ArgumentPaths` flattens
arguments to paths, with keys as sequences of segments and strings that may be
longer than a path takes; `Intents` compiles rules and models the Rego by what it
decides, an undefined expression being the empty set. A pattern is one of a set of
words that Python's `re`, which validates it, and OPA's RE2, which evaluates it, may
tell apart (`PythonOnly`, `OpaReads`). In `TrustScore` each read fails alone: the
freeze fails closed, the admin's cap open, the history and the profile to their
conservative values; the novelty signal counts the strange calls among the last
twenty, refused ones included, so one more refusal of a tool the profile knows may
raise the score by that signal's step and by nothing more
(`RefusalsRaiseOnlyFamiliarity`). The raising signal of the score and in-process
caches of the profile are left out.

### AttackPaths, ToolVerbs, IntentDrafts

`AttackPaths` is one request to the attack graph: which snapshots the caller may
read, the assembled graph, the walk with its limits (chains per chokepoint,
depth), status, risk and severity of a path, its badge, the ranking and what is
shown under two budgets, which is why `WorstAreShown` compares agents' paths
with agents' and servers' with servers'; and the two other users of the same
list, the coverage of a draft and the suggested allowlist. `ToolVerbs` is the
classification of a call by the tokens of its name and the fields of its
arguments, the table of promoted verbs, the map of it in every replica, and the
intent that is generated from the table. A promotion is a commit and then a
select and a replacement of the map, so that two on one replica may cross.
`IntentDrafts` is the inbox that four routers fill, each deleting and inserting
in a transaction at read committed and cutting to the ceiling in a second one.
Redrafting an intent of the attack graph deletes every draft of its class
without a control, compiled intents of another router among them
(`OnlyAttackGraphDrafts` below); the property `RemovedForAReason` counts this as
a replacement, as the code does.

### AssetGraph, AuditTrail, AuditFeed, Fleet, FleetRelay, LoginWindows

Each is its stored state with its faults and restarts. `Fleet` is a hub and a spoke
whose replicas each run a puller (`main.py:269-270`); a bundle is applied policy by
policy with its manifest, and the version is read before and recorded after.
`mishaps` notes that two pulls have overlapped (`crossed`) or that one ended between
its writes and its record (`torn`); the properties say what holds without them, and
`NeverDowngraded` what holds in any case. `AuditTrail` has a forwarder in every API
process (`main.py:254-255`), all on one stored cursor: `missed` are the rows that
the cursor's comparison of times cannot see, and `excuses` the events after which a
batch is sent again. `LoginWindows` has INCR and EXPIRE as two commands of Redis;
`stuck` are the counters whose EXPIRE failed. A signature is taken as checked.

### SuiteGuard

`run_suite` looks in `_INFLIGHT_SUITES` (`Arrive`), asks Redis for the lock,
registers (`Enter`), passes the process-wide gate, runs, stores the run and
applies the retention, and in `finally` gives everything back. A pod may die at
any step; the lock then expires. Rows are stamped by their pods' clocks, in any
order; no two bear the same microsecond.

### McpPins, McpSession, McpHttp, McpGates

`McpPins`: one tool of one server whose definition changes; proxies poll rows
and servers, decide a listing from their own copy and report in the background;
operators approve and revoke. `McpSession`: both pumps of stdio, the read-ahead
queue, held and pending requests, the proxy's own `tools/list`. `McpHttp`: a
correlation per POST, resumable streams, minted event ids with their limits.
`McpGates`: which parts of a listing or a result are read within the budgets
before they pass, look-alikes, and the checks of declared schemas. A block may carry
a text of its own and a resource's, of which one is scanned; structured content is
masked and not scanned; and a schema counts as fully enforced if it holds none of
fourteen keywords, whatever else it demands (`limits`). `SchemaAgrees` reads
`required` and `additionalProperties` as the code does, under which a required name
is a declared one.

### EnforcementPoint, SidecarBoot

`EnforcementPoint`: agents that share a client and its circuit breaker, and
agents behind a sidecar without one; a turn may hold several calls (a LangGraph
node), each put to the engine before any runs. A call that cannot be encoded
raises in the SDK's client; the proxied evaluator encodes within its try and
falls back. `SidecarBoot`: connecting with back-off, the wait for the schema,
the watcher.

### CrdAdmission, CrdController, DerivedStatus, PodInjection, SidecarSecret

`CrdAdmission` derives the key of a resource at creation, in the API, at
deletion and in the evaluator, and compares the two validators of its text, with
their caps and with comments behind code, which the API's do not strip.
`CrdController` follows one name through informer, bounded syncs, sweep, stamps
and finalizer. `DerivedStatus` is the count of policies per class and the image
of the sidecar; writes of a status may fail and are only logged. `PodInjection`
patches, refuses or skips a pod; `SidecarSecret` is the Injector shared by
concurrent admissions, in a webhook that may have no writer of secrets
(`writer`). `SettledInOrder` says what an API that answers again comes to hold,
and names what is then left behind: requests carried out after a later one,
deletions abandoned, stamps missed, outcomes recorded for another resource of
the name. `CrdController` is checked with one slot of the pool: two overlapping
syncs of one resource may land in either order, which the code accepts.

## Fairness

* A running request goes on (`AdminTrust`, `SuiteGuard`, `SessionRevocation`,
  `McpSession`): every await in it is bounded by a timeout.
* Loops that repeat go on: `sync_forever`, the proxies' polling, the informer,
  the workers of the queues, the sidecar's start-up (which Kubernetes restarts).
* Strong fairness, where a step may be disabled again and again but not for
  ever: Postgres fails any number of times, not always (`Pull`, `Flush`), and
  the sweep finds the queue free again and again (`Sweep`, `SweepSends`).
* Time passes in Redis and Postgres: locks expire, and abandoned sessions end by
  the keepalive and idle-session settings of the lock's connection.
* An MCP server that was sent a request answers it (`ServerAnswers`): the proxy
  has no time-out of its own for these, and the property is about the proxy.
* Faults are bounded by `MaxFaults`, so "once nothing fails any more" is the
  rest of every behaviour.

## Findings

A violation run checks a statement of the repository, and TLC's trace shows the
code doing otherwise.

* `policy_delete`: "Delete a policy from EVERY layer so it cannot be
  resurrected" (`policy_loader.py:478`). An evaluation that loads the row while
  `delete` waits for Postgres puts it back into memory.
* `arguments_kept`: "a DECLARED parameter is kept" (`wrapping.py:81`). When the
  framework passes plumbing that the tool does not declare, the second attempt
  to bind leaves out every value with a control name, declared ones included, so
  the policy does not see them.

The modules define further statements of the code about itself that do not hold
as they are put. No run lists them. Each is an invariant unless noted; adding it
to the configuration of the module's run (for an instance: with its prefix and
its `part`, as a definition of the MC module) gives the trace, at the instance
of the run unless another one is given.

| Module | Definition | Statement, and what the code does |
|---|---|---|
| `AdminTrust` | `OkMeansRegistryHolds` (property) | "200 means the registry row and the store both hold the new state": a retried loosening answers 200 after another writer committed |
| `SessionRevocation` | `BootImports` | "the next process to boot imports them into Postgres": a boot pass whose Redis half fails serves without the import (with `redis_fails`, `wipe` and `exit`) |
| | `MarkerVouches` | "the marker means the whole denylist is present": Redis may lose its data between the entries and the marker |
| `RevocationGrace` | `BlipsAreRidden` | "the grace window measures THIS outage": without a check between two blips the clock of the first still runs in the second |
| `PolicySync` | `OwnEchoCurrent` | "our own publish — local state is already current": two saves on one replica update its memory in the other order |
| | `ReplicasAgree` | "every replica enforces the same policy set": the priority of a mode-only apply stays in one replica's memory (two priorities) |
| | `ModeOfCurrent` | "also patch the CURRENT version's row": a replica with a stale history patches an older row (`Keep = 2`) |
| `DecisionCache` | `OneTtl` | "never leave a stale decision cached LONGER than the Redis eval cache's own 5s": a Redis hit fills the L1 for a further TTL (TTLs of 2) |
| | `EffectiveNextCall` | "Effective on the next tool call for this class.": an overlapping evaluation stores its old decision after the invalidation |
| `OpaModules` | `MemoIsRight` | "a no-op once OPA already has it": two texts pushed together are applied in one order and noted in the other |
| | `DryRunsAreBounded` | "bounds server memory": a module evicted under an evaluation is pushed again untracked |
| `PolicyResolution` | `FrozenStaysFrozen` | "expects it to stay frozen": a timeout in a monitor namespace is softened before the freeze is looked at |
| `PolicyRoutes` | `ControlsNeverLost` | taking back the last control lets go of the lock before it deletes the row, with a control applied in between |
| | `OverlaysEnforce` | an overlay "is never stored in audit mode": `apply_policy` stores the caller's mode |
| | `IntentsHaveAFloor` | the baseline under an intent can be removed afterwards |
| `SuiteGuard` | `OneRunAtATime` | "two API pods racing the same lock cannot both win": who finds the lock taken and then gone runs without it (three requests, `Gate = 2`) |
| | `PodGuardAtomic` | "the check-and-set is atomic under asyncio": the lock is awaited in between (`Gate = 2`) |
| | `LeavesOthersLock` (property) | "A lock held by someone else is left alone": GET and DEL are two commands |
| `McpPins` | `LoadedRevokeEnforced` | a reloaded revocation reaches a call only when its client lists again |
| `EnforcementPoint` | `OnlyOutagesFallBack` | a 2xx whose body is no decision falls back like an outage |
| `CallArguments` | `EveryCallIsWhole` | where no signature can be read, one keyword hides the positional values |
| `ArgumentPaths` | `SecondRoutesAreSeen` | two keys may share a head that is itself no key |
| | `AmbiguousAreKeys` | an ambiguous key that holds an object is named, and only the paths below it are published |
| `Intents` | `IdsAreUnique` | "Ids must be unique": the number that tells two ids apart is cut off again |
| | `ValidIsAllowed` | "is not a valid regular expression" (`schema.py:113-114`) is said of what Python does not take: a rule with a look-ahead passes, and OPA never matches it |
| `AssetGraph` | `NothingForgotten` (property) | a load that returns late, or fails, replaces what was recorded meanwhile |
| | `EvictsLeastRecent` | a restored builder starts its clock below the ticks it restored |
| | `NodesAreTyped` | at the cap, adding the tool may evict the agent of the same call |
| `AttackPaths` | `NoCallerIsLost` | "must never lose sight of the worst reachable tool" (`threats.py:240`): an identity seen under two classes keeps its calls and is no origin |
| | `CoveredIsClosed` | "count how many of the current attack paths it DENIES" (`threats.py:901`): of two chains to one target one is counted, and the other may be allowed |
| | `AllowedIsExploitable` | "Every hop has allowed traffic" (`threats.py:537`): no audit row is of the hop from a tool to its data |
| | `BadgeIsTrue` | "Does an applied policy for `cls` DENY this chokepoint?" (`threats.py:676`): the class of the same name in another namespace counts |
| `ToolVerbs` | `NextCall` | "reports the promoted verb on the very next call" (`threats.py:1594`): on the replica that served the promotion |
| | `WorstOfTheArguments` | "Pick the WORST (most destructive) match" (`source_registry.py:247`): of the arguments, the first |
| | `NeverLowered` | "A promotion may RAISE a verb; it may never LOWER one" (`threat_intent.py:377`): a mutation the name does not begin with passes Read-only once promoted |
| `IntentDrafts` | `OnePending` | "keeps at most ONE pending Attack-Graph intent draft" (`threats.py:993`): two requests at once do not see each other's |
| | `Ceiling` | "the store can never grow unbounded" (`retention.py:57`): compiled intents are never cut |
| | `OnlyAttackGraphDrafts` (property) | "Scope the delete to Attack-Graph drafts" (`threats.py:995`): compiled intents have no control either |
| | `GuardsForward` | "blocks any tool that performs those verbs" (`threat_intent.py:306`): not one seen later that holds the fragment within a word |
| | `ReadsPass` | "cannot over-block legitimate reads" (`threat_intent.py:278`): a name may hold both |
| `CrdAdmission` | `DeletingRemoves` | only an admin may confirm the deletion of a cluster baseline; the controller's token has the service role |
| | `NothingIsInert` | a scoped target elsewhere that carries clusterPriority is stored where no call looks |
| | `ValidatorsAgree` | the two validators differ on modules that are not plain |
| | `ApiAdmittedBinds` | "rego_source must declare a `default decision`" (`policies.py:731`): one in a comment behind code will do |
| `CrdController` | `MissedStampIsHarmless` (property) | a missed stamp and a return to the stamped text leave the API with the text in between |
| | `TransientsAreRetried` (property) | a failure recorded by name silences the next resource of that name |
| `DerivedStatus` | `DeletedIsReset` (property) | a queued copy of a deleted config sets its image again |
| `PodInjection` | `EveryInjectedIsSkipped` | a container with the sidecar's image and its own command is a decoy once wired |
| | `SkippedSidecarListens` | "the pod EXACTLY carries the injector's output" (`handler.go:434`): the container that counts as the sidecar by its image need not mount the socket |
| `SidecarSecret` | `RequiredIsKept` | another admission's success clears the error before it is looked at, and a webhook without a writer sets none |
| `SidecarBoot` | `SavesArrive` (property) | the sidecar's watcher ends after an error, and misses what precedes its subscription |
| `LoginWindows` | `BlipsPass` (property) | a counter whose EXPIRE failed stays for ever |
| `CallerIdentity` | `IssuedKeysWork` | a key whose namespace is not its SPIFFE id's is issued, and refused on every call |
| `McpGates` | `EnforcedIsWhole` | "`unchecked` never reaches an operator spelled as `conformant`" (`firewall.py:1374`): an enum, const, pattern or minimum is neither checked nor reported |
| | `ResultsAreRead` | "a server could move an identical payload one level down and skip BOTH halves of this guard" (`firewall.py:2536`), said of what is no longer possible: of a block with two texts one is scanned, and structured content is not |
| `Fleet` | `VersionIsStable` (property) | a report overwrites the digest, so every report is followed by a new version |
| | `LeftIsShed` | a pull under way, or the puller of another replica, applies its bundle after the shedding |
| | `ReservedIsKept` | leaving deletes reserved scopes that an older bundle left recorded |
| | `JoinedPulls` | a join during a leave finds the puller still running, and the leave then stops it |
| `FleetRelay` | `CountsStand` (property) | the window begins within an hour, whose part replaces the whole |
| `AuditTrail` | `AllForwarded` (property) | the cursor is a time: a row that commits after a later one was read is never sent |
| | `SentOnce` | "one forwarder per deployment today" (`siem.py:101`): every API process starts one |

## What is proved

The theorems are about `Spec`, for every value of the constants that satisfies
the named assumptions of the modules: bounds are natural numbers, `Nobody` and
`None` are outside the sets they are told apart from, the L1's TTL is at most
Redis's, stores and events have the shapes the code gives them. Each rests on an
inductive invariant (or, for the functions, on what one step computes), whose
parts TLC has checked before.

* `AdminTrust_proofs`: `TypeCorrect`, `FenceSound`, `StoreCovers`, `OkHolds`,
  `DeleteSafe`. `FenceHolds` is not inductive alone: the argument needs what
  each program counter implies (`PcInv`), that calls in flight carry tokens that
  were given out (`WireInv`, `TokenInv`), that the owner never falls below the
  highest token whose writer may rely on it (`FloorInv`), what a writer has read
  of the registry under its lock (`RegInv`, `FreshInv`), and which store
  contents an accepted claim vouches for (`VouchInv`, `CoverInv`).
* `SessionRevocation_proofs`: `TypeCorrect`, `PullComplete`, `LogoutKept`. The
  key is `RowInv` with `TimeInv`: a row not yet visible belongs to a transaction
  that began less than an overlap ago, so every watermark is below its stamp.
  `DenylistImplemented` is the refinement: initial states map to initial states,
  and every step to a step of `Denylist` or a stutter. It needs that no store,
  queue, late insert or pass holds a token nobody logged out (`OnlyEnded`), and
  that only a process that is there has a pass (`PassesRun`).
* `PolicySync_proofs`: `CurrentKept`. `PruneInv` relates what a prune has read to
  the row: as long as the row's id is the one read, its version is at least the
  one read, and what is deleted is below it.
* `DecisionCache`: `TypeCorrect`, `Bounded`. The invariant bounds the age of a
  decision at each place it can be: in an evaluation, in Redis, in the L1.
* `SuiteGuard_proofs`: `TypeCorrect`, `GuardIsReleased`, `LockIsAccountedFor`,
  `RefusalsAreForARun` and, of the three, `GuardSound`; `LatestIsKept`. The
  first are inductive together. `LatestIsKept` needs that a namespace with rows
  has a newest one (`MaxInv`, itself kept by each step, so that no induction over
  sets is needed) and that whatever a retention under way touches has a newer
  row now, and not only in what it read (`PlanInv`).
* `PolicyResolution_proofs`: `ResolutionIsSafe`, `PipelineIsSafe`, for every
  store, priority and event and not only for those TLC enumerates. The resolvers
  choose the first of a stable sort; `FirstLeads` shows that it exists, by the
  least of a set of natural numbers and without induction, and that it leads every
  other item. From it the strictest hard overlay decides among its kind, and the
  winner is at least as strict as the base policies alone and as the overlays
  alone. `StricterParts` compares a store with one whose layers were taken away:
  this is what "an observer never disarms" and "a weakening reaches the packs
  only" are about. The pipeline is a case split over the three ways out.
* `McpPins`: `TypeCorrect`, `CallableApproved`, `StrictNeedsApproval`. The
  property is about the catalogue, where a verdict is a copy of a copy: of the
  pin, of a row in an answer on its way, of the stored row. `Trust` says of each
  of these what the property says of the last.
* `EnforcementPoint`: `TypeCorrect`, `AnswersEnforced`. `Onward` says of every
  turn under way what the property says of one that ran, and `Breaker` that the
  client never counts more failures than attempts went unanswered. The proof
  needs a turn to hold at least one call, hence `MaxCalls` is not 0.

The modules of proofs also instantiate further components and prove theorems
about them, for every value of their constants. A theorem with a hypothesis on
the constants names it; each is a definition next to the instance.

| Theorem (in) | States | Inductive invariant | Hypothesis |
|---|---|---|---|
| `OutagesBounded` (`SessionRevocation_proofs`) | `SustainedIsRefused`, `RecentBlipsAreRidden` of `RevocationGrace` | `GraceInv`: once a check failed in an outage its clock is running, and since no later than that; a clock that runs after an answered check is of this outage (`ClockInv`) | the grace period is a number |
| `LoginBounds` (same) | `GuessesBounded`, `LockedByItsOwn`, `WindowsEnd` of `LoginWindows` | `LoginInv`: what a source has tried is at most its counter, its logins between check and count and the commands that failed (`Bounds`), and a counter has its expiry, a command under way that sets it, or is one whose EXPIRE failed (`EndInv`) | `LoginConstants`: finitely many callers, at least one attempt |
| `CallersBound` (same) | `ActsAtHome`, `SidecarsAreAccepted`, `GroupOrderIsIrrelevant` of `CallerIdentity` | `IdentityInv`: an answer is what the functions compute; the claims depend on the set of the groups | `IdentityConstants`: names are not empty, `denied` is no namespace, every namespace has an id |
| `CapAndControlsHold`, `ManagedScopesUntouched` (`PolicySync_proofs`) | `CapBounded`, `ControlsKept`, `ManagedUntouched` of `PolicyRoutes` | `RouteInv`: the scopes `create_policy` has created or admitted are at most the cap and one for each other caller (`CapInv`); until a plain save or delete disturbs it the overlay holds the controls applied and not taken back, or what is being written does, or the last one is being dropped (`KeptInv`) | `RouteConstants`: finitely many callers, a cap of at least 2 |
| `OpaAnswersOwnText` (same) | `AnsweredByItsOwnText` of `OpaModules` | `OpaInv`: texts of one key under way are one text or are marked as crossed (`OneText`, `Overlaps`), the memo is right where no push went unnoted (`MemoRight`), and a module pushed for an evaluation is in place until its query (`InPlace`) | none |
| `VerbMapsExplained` (same) | `MapsAreTables`, `StaleForAReason` of `ToolVerbs` | `VerbInv`: rows on their way to a map are a table there has been | admins are told apart from replicas |
| `AdmissionHolds` (same) | `CreateAndDeleteAgree`, `TargetsAreResolved`, `AdmittedBindsADecision`, `PlainModulesAgree` of `CrdAdmission` | `AdmissionInv`: a verdict is what the functions compute | `AdmissionConstants`: names are not empty, the caps are numbers, the controller's is the shorter |
| `IntentsMeant` (same) | `AllowedIsMeant`, `MeantIsAllowed` of `Intents` | `IntentInv`; `ReadAsItIs`: a predicate whose roots are published and whose pattern OPA takes reads the call as it is, which the added clauses make sure of | `IntentConstants`: paths are told apart from fields, collections and counts are finite |
| `FeedHolds` (`SuiteGuard_proofs`) | `NoneTwice`, `OwedIsComing` of `AuditFeed` | `FeedInv`: a record is in one place on its way to a socket (`OnceInv`), and what is owed is in the line or with another process (`OwedInv`) | no process is called `Nowhere` |
| `ReferredSecretsExist` (same) | `ReferredSecretExists`, `AloneIsExact` of `SidecarSecret` | `SecretInv`: who refers has written (`WrittenInv`), and the shared error is an undisturbed admission's own | there is a workload |
| `PodsGoverned` (same) | `AdmittedIsGoverned`, `SkippedIsGoverned`, `InjectedIsSkipped` of `PodInjection` | `PodInv`: a pod that comes back carries what the patch put there (`Injected`); `PatchInjects` follows each container through the patch | `PodConstants`: pods and settings are records over words that include the injector's own |
| `HttpAnswersOnce` (same) | `OneAnswerOfItsOwn` of `McpHttp` | `AnswerInv`: who waits was sent and has no answer | none |
| `SessionHolds`, `ClientListingKept` (same) | `AnsweredOnce`, `HeldIsNotAnswered`, `HeldIsInThePump`, `OnlyFullMapsLose`, `ClientListingStands` of `McpSession` | `SessInv`: a request is in one of queue, hand, map and answers, and one evicted has `Cap` later ones (`LostToFull`); `ListInv`: the proxy's listing began before the client's | `SessionConstants`: a number of requests, maps with room for one |
| `TokenOnce`, `ReservedIsSpared` (`PolicyResolution_proofs`) | `ClaimedOnce`, `PullsSpareReserved` of `Fleet` | `ClaimInv`: a token that waits was not claimed; `SpareInv`: what a pull is about to write or delete is not reserved | reserved scopes are keys |
| `SpokeIsTrue`, `VersionsOnlyRise` (same) | `AppliedIsTrue`, `PushesAreOnRecord`, `NeverDowngraded` of `Fleet` | `ReadInv`: a pull that writes is newer than what it read as recorded, which alone gives `VersionsOnlyRise`; until two pulls overlap there is one replica (`AloneInv`) whose pull, if any, explains what the hub shows (`AppliedInv`) and, until one is torn, what was pushed (`RecordInv`) | there is a replica (`SpokeIsTrue`) |
| `ScoresFair` (`AdminTrust_proofs`) | `OneRefusalNeverCaps`, `SustainedRefusalsEscalate`, `OutagesLiftOnlyTheCap`, `RefusalsRaiseOnlyFamiliarity` of `TrustScore` | `ScoreInv`: a score is what the function computes; each signal but the novelty falls with every refusal (`RateFalls`, `CapFalls`, `SpeedFalls`, `DecayIs`, together `SumFalls`), and the novelty rises by one step at most | `ScoreConstants`: counts and caps are numbers, outages are sets of the reads that fail |

What the proofs corrected. The arms of some CASE expressions of `TrustScore`
(`ToolNovelty`, `ScopeDrift`) and of `AttackPaths` overlapped, and which one TLA+
takes then is open: they are IFs now, in the order of the code.
`SkippedIsGoverned` spoke of a sidecar that mounts the socket, which the
classification does not ask of the container with the configured image; it is
stated as the code decides it, and what it said before is
`SkippedSidecarListens`. The exception of `InjectedIsSkipped` spared every
container with the name of the injector's init container; it spares the
injector's own. `CapBounded` did not count a scope again that a save replaced
after `apply_policy` had created it, but the save looks at no cap when the scope
is there; the scopes that those routes ever created are left out now.
`PushesAreOnRecord` had an exception for a leave that waits for a pull, which it
does not need. `AppliedIsTrue` needs that no two replicas have pulled at once. That
"one more refusal never raises the score" and "a failing store never approves" are
false once the novelty is counted and the cap is read as the code does it;
`RefusalsRaiseOnlyFamiliarity` and `OutagesLiftOnlyTheCap` say what is left of them.

Only model-checked:

* liveness (`CatchesUp`, `Repaired`, `AllAnswer`): fairness and ENABLED are out
  of the prover's reach;
* what is computed over sequences and trees for every input: `McpGates`
  (`NothingUnreadIsPassed`), `CallArguments` and `ArgumentPaths`
  (`PoliciesSeeTheCall`), `AttackPaths` (`WorstPathsAreShown`), and of `Intents`
  the near miss and the proposals, which sort, count and fold: they need
  induction over data;
* `EnginesFollow` and the type invariant of `PolicySync`, where a history is a
  sequence chosen to be sorted, whose existence needs such an induction too; so do
  `AuditTrail` and `FleetRelay`, whose rows are folded; `FirstClaimAccepted` of
  `AdminTrust`;
* `EventIdsBounded` of `McpHttp` and the ceiling per user of `LoginWindows`,
  which count sets that grow and shrink in several steps;
* `ManagedScopes`, `AssetGraph` and `IntentDrafts`, and the classification of
  names in `ToolVerbs` (`PromotionsOnlyRaise`, `NamesAreNotTalkedDown`,
  `TogglesHold`), which is about the particular lexicon.

## What is not modelled, and why

Contents: rego texts, prompts, masking and the patterns of the scanner are
strings; where a decision depends on them a model has what they decide. The
history reset of an agent is left out; listings, dashboards and the other
searches over a stored graph only read. Rendering, logging, metrics, the console
and the chart hold no state that a decision depends on. Redis and Postgres are
modelled from how the code uses them: single commands and scripts of Redis are
atomic, transactions of Postgres are read-committed, Redis may lose its data,
Postgres does not. Two effects that no property here is about: a retried POST of
the SDK is evaluated, audited and counted by the rate limit once per attempt,
and a sidecar treats a 3xx as a refusal where the SDK treats it as an outage
(`Verdict` has both).
