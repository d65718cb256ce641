------------------------------ MODULE McpSession ------------------------------
(***************************************************************************)
(* One stdio session of the MCP firewall (norviq/mcp/stdio.py and the      *)
(* correlation of norviq/mcp/firewall.py): a pump from the client to the   *)
(* server that mediates one message at a time behind a read-ahead queue,   *)
(* and a pump back that runs beside it.  The server may send anything at   *)
(* any time: answers to ids it has not seen, a second answer, a malformed  *)
(* one, a late answer to the proxy's own tools/list, requests of its own.  *)
(* Client request i has JSON-RPC id i; the server may return it as the     *)
(* string form, which _PendingMap.match reads back.  The ids of one client *)
(* have one type.                                                          *)
(***************************************************************************)
EXTENDS Naturals, Sequences, FiniteSets, SequencesExt

CONSTANTS
    N,          \* bound: requests the client sends
    ReadAhead,  \* _READ_AHEAD
    Cap,        \* settings.mcp_max_pending_requests, per map
    MaxLists,   \* bound: tools/list requests of the proxy's own
    MaxAsks     \* bound: requests the server sends the client

ClientRequests == 1..N
Methods == {"tools/list", "tools/call", "other", "alias"}   \* "alias": an envelope key the client reads differently

VARIABLES
    method,     \* per request: what it asks for
    form,       \* the type in which the server returns ids
    sent,       \* how many messages the client has sent
    queue,      \* messages read ahead of the pump; 0 is an answer to a server request
    held, pending,  \* the Correlation: ids read but not forwarded, ids forwarded, oldest first
    pump,       \* [at, req]: where on_client_message of the pumped message is
    own,        \* the future of the proxy's tools/list
    lists,      \* how many of them were sent
    late,       \* answers the server still owes to such lists
    busy,       \* history: the server already waited for the client when the list was sent
    backoff,    \* _cold_list_failed is recent
    listed, generation, started,   \* _catalog_listed, _client_list_generation, its value when the list began
    catalog,    \* whose listing the catalogue holds
    forwarded,  \* requests written to the server
    answers,    \* per request: the answers written to the client, as [by, as]
    asks,       \* server requests so far
    open,       \* a server request waits for the client's answer
    phase

corr == <<held, pending>>
cold == <<own, lists, late, busy, backoff, started>>
gateA == <<listed, generation, catalog>>
client == <<method, form, sent>>
vars == <<client, queue, corr, pump, cold, gateA, forwarded, answers, asks, open, phase>>

Idle == [at |-> "idle", req |-> 0]

Init ==
    /\ method \in [ClientRequests -> Methods] /\ form \in {"number", "string"}
    /\ sent = 0 /\ queue = <<>> /\ held = <<>> /\ pending = <<>>
    /\ pump = Idle
    /\ own = "none" /\ lists = 0 /\ late = 0 /\ busy = FALSE /\ backoff = FALSE /\ started = 0
    /\ listed = FALSE /\ generation = 0 /\ catalog = "none"
    /\ forwarded = {}
    /\ answers = [r \in ClientRequests |-> <<>>]
    /\ asks = 0 /\ open = "no"
    /\ phase = "run"

\* _PendingMap.put: a full map evicts its oldest entry.
Put(map, r) == Append(IF Len(map) >= Cap THEN Tail(map) ELSE map, r)
\* An id has one entry in a map.
Discard(map, r) == IF r \in ToSet(map) THEN RemoveAt(map, CHOOSE i \in DOMAIN map : map[i] = r) ELSE map
Answer(r, by, as) == answers' = [answers EXCEPT ![r] = Append(@, [by |-> by, as |-> as])]

-----------------------------------------------------------------------------
(* The client and its pump. *)

\* Faulty variant: a request is pending from the moment it is read.
Note_Pending(r) == pending' = Put(pending, r) /\ UNCHANGED held
\* note_client_request: a request is held from the moment it is read.
Note(r) == held' = Put(held, r) /\ UNCHANGED pending

\* The client sends its next request and the reader takes it while the queue has room.
ReadRequest ==
    /\ phase = "run" /\ sent < N /\ Len(queue) < ReadAhead
    /\ sent' = sent + 1
    /\ Note(sent + 1)
    /\ queue' = Append(queue, sent + 1)
    /\ UNCHANGED <<method, form, pump, cold, gateA, forwarded, answers, asks, open, phase>>

\* The client answers the server's request, behind whatever it sent before.
ReadAnswer ==
    /\ phase = "run" /\ open = "client" /\ Len(queue) < ReadAhead
    /\ queue' = Append(queue, 0) /\ open' = "queued"
    /\ UNCHANGED <<client, corr, pump, cold, gateA, forwarded, answers, asks, phase>>

\* The pump takes a message.  A tools/call first warms a cold catalogue.
Take ==
    /\ pump = Idle /\ queue # <<>>
    /\ queue' = Tail(queue)
    /\ LET r == Head(queue) IN
         pump' = [at |-> IF r = 0 THEN "answer" ELSE IF method[r] = "tools/call" THEN "warm"
                         ELSE IF method[r] = "alias" THEN "refuse" ELSE "forward", req |-> r]
    /\ UNCHANGED <<client, corr, cold, gateA, forwarded, answers, asks, open, phase>>

\* An answer to a server request is forwarded; the server has what it waited for.
PassAnswer ==
    /\ pump.at = "answer"
    /\ open' = "no" /\ pump' = Idle
    /\ UNCHANGED <<client, queue, corr, cold, gateA, forwarded, answers, asks, phase>>

\* Faulty variant: the refused id stays held.
Refuse_KeepsHeld ==
    /\ pump.at \in {"refuse", "evaluate"}
    /\ Answer(pump.req, "proxy", method[pump.req])
    /\ pump' = Idle
    /\ UNCHANGED <<client, queue, corr, cold, gateA, forwarded, asks, open, phase>>

\* An ambiguous key, a malformed call, Gate A or Gate B: the proxy answers itself.
Refuse ==
    /\ pump.at \in {"refuse", "evaluate"}
    /\ held' = Discard(held, pump.req)
    /\ Answer(pump.req, "proxy", method[pump.req])
    /\ pump' = Idle
    /\ UNCHANGED <<client, queue, pending, cold, gateA, forwarded, asks, open, phase>>

\* Allowed by the engine, or not a governed method: pending, then written to the server.
Forward ==
    /\ pump.at \in {"forward", "evaluate"}
    /\ held' = Discard(held, pump.req)
    /\ pending' = Put(pending, pump.req)
    /\ forwarded' = forwarded \cup {pump.req}
    /\ pump' = Idle
    /\ UNCHANGED <<client, queue, cold, gateA, answers, asks, open, phase>>

\* _warm_cold_catalog: nothing to do, or the proxy lists the tools itself and waits.
WarmSkips ==
    /\ pump.at = "warm" /\ (listed \/ backoff)
    /\ pump' = [pump EXCEPT !.at = "evaluate"]
    /\ UNCHANGED <<client, queue, corr, cold, gateA, forwarded, answers, asks, open, phase>>

WarmLists ==
    /\ pump.at = "warm" /\ ~listed /\ ~backoff /\ lists < MaxLists
    /\ pump' = [pump EXCEPT !.at = "listing"]
    /\ own' = "waiting" /\ lists' = lists + 1 /\ late' = late + 1 /\ started' = generation
    /\ busy' = (open # "no")
    /\ UNCHANGED <<client, queue, corr, backoff, gateA, forwarded, answers, asks, open, phase>>

\* asyncio.wait_for gives up on the list.
ListTimeout ==
    /\ own = "waiting"
    /\ own' = "failed"
    /\ UNCHANGED <<client, queue, corr, pump, lists, late, busy, backoff, started, gateA, forwarded, answers, asks, open, phase>>

\* Faulty variant: the proxy's listing is scanned although the client has listed since.
ColdResult_Unchecked == IF own = "done" THEN "cold" ELSE catalog
\* _cold_list_once after its await: a listing the client was given meanwhile supersedes it.
ColdResult == IF own = "done" /\ generation = started THEN "cold" ELSE catalog

ColdListed ==
    /\ pump.at = "listing" /\ own \in {"done", "failed"}
    /\ catalog' = ColdResult
    /\ listed' = (listed \/ own = "done")
    /\ backoff' = (own = "failed")
    /\ own' = "none"
    /\ pump' = [pump EXCEPT !.at = "evaluate"]
    /\ UNCHANGED <<client, queue, corr, lists, late, busy, started, generation, forwarded, answers, asks, open, phase>>

\* _COLD_LIST_RETRY_S passes.
BackoffEnds ==
    /\ backoff /\ lists < MaxLists
    /\ backoff' = FALSE
    /\ UNCHANGED <<client, queue, corr, pump, own, lists, late, busy, started, gateA, forwarded, answers, asks, open, phase>>

-----------------------------------------------------------------------------
(* The server and the pump back. *)

\* Faulty variant: an answer that is not well formed still uses up its request.
Defective_Pops(r) == pending' = Discard(pending, r)
\* _response_defect: a defective answer is dropped and its request stays pending.
Defective(r) == UNCHANGED pending

\* Faulty variant: an id matches in the type it was sent in only.
Candidates_Exact(r) == {<<form, r>>}
\* _candidates: the keys an id may have been registered under, its own type and the other one.
Candidates(r) == {<<form, r>>, <<"number", r>>, <<"string", r>>}

\* Faulty variant: the answered request stays pending.
Pop_Not(r) == UNCHANGED pending
Pop(r) == pending' = Discard(pending, r)

\* An answer to id r, in either form, well formed for the method or not.  Nothing is
\* delivered unless r was forwarded and not answered.
ServerAnswers(r, wellformed) ==
    /\ phase # "stopped" /\ r \in ToSet(pending) /\ <<"number", r>> \in Candidates(r)
    /\ IF ~wellformed THEN Defective(r) /\ UNCHANGED <<answers, gateA>>
       ELSE /\ Pop(r)
            /\ Answer(r, "server", method[r])
            /\ IF method[r] = "tools/list"
               THEN listed' = TRUE /\ generation' = generation + 1 /\ catalog' = "client"
               ELSE UNCHANGED gateA
    /\ UNCHANGED <<client, queue, held, pump, cold, forwarded, asks, open, phase>>

\* The answer to the proxy's own list.  One that nobody waits for any more is dropped by its
\* id's prefix; the ids of two lists differ, so only the last list sent can be awaited.
ServerListsTools(awaited) ==
    /\ phase # "stopped" /\ late > 0
    /\ awaited => own = "waiting" /\ open = "no"
    /\ late' = late - 1
    /\ \/ awaited /\ own' = "done"
       \/ awaited /\ own' = "failed"          \* an error or a malformed listing
       \/ ~awaited /\ (own = "waiting" => late > 1) /\ UNCHANGED own
    /\ UNCHANGED <<client, queue, corr, pump, lists, busy, backoff, started, gateA, forwarded, answers, asks, open, phase>>

\* Faulty variant: the pending list is not abandoned.
Abandon_Not == UNCHANGED own
\* A server request while the proxy's list is pending abandons the list, so that the client's
\* answer can get through the pump (a ping is answered by the proxy itself: no step).
Abandon == own' = IF own = "waiting" THEN "failed" ELSE own

ServerAsks ==
    /\ phase # "stopped" /\ open = "no" /\ asks < MaxAsks
    /\ asks' = asks + 1 /\ open' = "client"
    /\ Abandon
    /\ UNCHANGED <<client, queue, corr, pump, lists, late, busy, backoff, started, gateA, forwarded, answers, phase>>

-----------------------------------------------------------------------------
(* The end of the session (run, _shutdown). *)

\* The client closes its stream; the pump ends once the queue is empty, and the server is
\* given _DRAIN_TIMEOUT_S to answer what it was sent.
ClientCloses ==
    /\ phase = "run" /\ phase' = "eof"
    /\ UNCHANGED <<client, queue, corr, pump, cold, gateA, forwarded, answers, asks, open>>

Stop ==
    /\ phase = "eof" /\ queue = <<>> /\ pump = Idle
    /\ phase' = "stopped"
    /\ UNCHANGED <<client, queue, corr, pump, cold, gateA, forwarded, answers, asks, open>>

Next ==
    \/ ReadRequest \/ ReadAnswer \/ Take \/ PassAnswer \/ Refuse \/ Forward
    \/ WarmSkips \/ WarmLists \/ ListTimeout \/ ColdListed \/ BackoffEnds
    \/ \E r \in ClientRequests, w \in BOOLEAN : ServerAnswers(r, w)
    \/ \E a \in BOOLEAN : ServerListsTools(a)
    \/ ServerAsks \/ ClientCloses \/ Stop

Spec == Init /\ [][Next]_vars

\* Both pumps run; the client answers what it is asked; the server answers the proxy's list
\* unless it is itself waiting for the client, and answers each forwarded request well-formed.
\* The time-out of the list is relied on only when the server was already waiting for the
\* client as the list was sent: nothing abandons such a list, and the client's answer is
\* behind the call in the queue.
BusyTimeout == busy /\ ListTimeout
Fairness ==
    /\ WF_vars(ReadAnswer) /\ WF_vars(Take) /\ WF_vars(PassAnswer)
    /\ WF_vars(Refuse \/ Forward) /\ WF_vars(WarmSkips \/ WarmLists) /\ WF_vars(ColdListed)
    /\ WF_vars(ServerListsTools(TRUE)) /\ WF_vars(BusyTimeout)
    /\ \A r \in ClientRequests : WF_vars(ServerAnswers(r, TRUE))

FairSpec == Spec /\ Fairness

-----------------------------------------------------------------------------
(* Properties. *)

\* Every variable keeps its type, and the queue and the maps their bounds (_PendingMap, _HeldRequests).
TypeOK ==
    /\ method \in [ClientRequests -> Methods] /\ form \in {"number", "string"} /\ sent \in 0..N
    /\ queue \in Seq({0} \cup ClientRequests) /\ Len(queue) <= ReadAhead
    /\ held \in Seq(ClientRequests) /\ Len(held) <= Cap
    /\ pending \in Seq(ClientRequests) /\ Len(pending) <= Cap
    /\ pump \in [at : {"idle", "answer", "warm", "listing", "refuse", "evaluate", "forward"}, req : {0} \cup ClientRequests]
    /\ own \in {"none", "waiting", "done", "failed"}
    /\ lists \in 0..MaxLists /\ late \in 0..MaxLists /\ backoff \in BOOLEAN /\ busy \in BOOLEAN
    /\ started \in 0..N /\ generation \in 0..N /\ listed \in BOOLEAN
    /\ catalog \in {"none", "cold", "client"}
    /\ forwarded \subseteq ClientRequests
    /\ answers \in [ClientRequests -> Seq([by : {"proxy", "server"}, as : Methods])]
    /\ asks \in 0..MaxAsks /\ open \in {"no", "client", "queued"}
    /\ phase \in {"run", "eof", "stopped"}

\* Whatever the server sends and whenever, a client request gets at most one answer, and one
\* the proxy refused never gets the server's (on_server_message, Correlation).
AnsweredOnce == \A r \in ClientRequests : Len(answers[r]) <= 1

\* No answer of the server reaches the client under the id of a request that the proxy still
\* holds, queues or has refused.
HeldIsNotAnswered ==
    \A r \in ClientRequests : (\E i \in DOMAIN answers[r] : answers[r][i].by = "server") => r \in forwarded

\* A held request is on its way: read and not yet through the pump, so that held never fills
\* with entries nobody will remove.
HeldIsInThePump == \A r \in ToSet(held) : r \in ToSet(queue) \/ pump.req = r

KeepsClientListing == catalog = "client" => catalog' = "client"

\* The proxy's own listing never replaces one the client was given after the proxy asked.
ClientListingStands == [][KeepsClientListing]_vars

PumpIdle == pump = Idle

\* While the session runs the pump comes back for the next message, even when the server asks
\* the client something in the middle of the proxy's own tools/list and answers nothing until
\* it has been told (_pump_server_to_client abandons the list).
PumpReturns == []<>PumpIdle

\* A forwarded request the proxy has lost track of: the server's answer to it will be dropped.
Lost(r) == r \in forwarded /\ r \notin ToSet(pending) /\ answers[r] = <<>>

\* Only a full map loses a request, and then the oldest: Cap requests were forwarded after it.
\* Malformed, early or duplicate answers lose nothing.
OnlyFullMapsLose == \A r \in ClientRequests : Lost(r) => Cardinality({q \in forwarded : q > r}) >= Cap

SentAreAnswered == phase # "stopped" => \A r \in forwarded : answers[r] # <<>> \/ Lost(r)

\* A request the server was sent is answered, unless the map overflowed or the session stopped.
ForwardedIsAnswered == <>[]SentAreAnswered
=============================================================================
