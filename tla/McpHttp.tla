------------------------------- MODULE McpHttp -------------------------------
(***************************************************************************)
(* The streamable-HTTP transport of the MCP firewall (norviq/mcp/http.py): *)
(* every POST has a Correlation of its own, its response stream may break  *)
(* and be resumed by a GET that names an event id the proxy minted, and a  *)
(* refusal of a server request is posted back in the background.           *)
(***************************************************************************)
EXTENDS Naturals, Sequences, FiniteSets, SequencesExt

CONSTANTS
    Posts,        \* POSTs of the clients behind this proxy
    Ids,          \* the JSON-RPC ids they use; two clients may use the same one
    None,
    MaxStreams,   \* bound: response streams opened
    MaxMints,     \* bound: event ids minted
    PerStream, Total, Budget,  \* _MAX_EVENT_IDS_PER_STREAM, _MAX_EVENT_IDS, _MAX_EVENT_ID_BUDGET
    PostBacks     \* _MAX_POST_BACKS

VARIABLES
    id,           \* per POST: its request id
    state,        \* per POST: "new", "mediating", "refused", "sent"
    pending,      \* per POST: is its request unanswered? (Correlation.pending)
    answers,      \* per POST: the answers the client took for it
    streams,      \* open upstream responses: [n, of, kind]
    opened,       \* streams opened so far
    entries,      \* _EventIds.entries, oldest first: [minted, of, stream, size]
    minted,       \* ids minted so far
    posting       \* _post_backs

vars == <<id, state, pending, answers, streams, opened, entries, minted, posting>>

Stream == [n : 1..MaxStreams, of : Posts \cup {None}, kind : {"post", "resumed", "get"}]

Init ==
    /\ id \in [Posts -> Ids]
    /\ state = [p \in Posts |-> "new"]
    /\ pending = [p \in Posts |-> FALSE]
    /\ answers = [p \in Posts |-> <<>>]
    /\ streams = {} /\ opened = 0
    /\ entries = <<>> /\ minted = 0
    /\ posting = 0

Open(of, kind) ==
    /\ opened < MaxStreams /\ opened' = opened + 1
    /\ streams' = streams \cup {[n |-> opened + 1, of |-> of, kind |-> kind]}

\* _handle_post up to the mediation of the message.
HandlePost(p) ==
    /\ state[p] = "new"
    /\ state' = [state EXCEPT ![p] = "mediating"]
    /\ UNCHANGED <<id, pending, answers, streams, opened, entries, minted, posting>>

\* The firewall answers the POST itself.
RefusePost(p) ==
    /\ state[p] = "mediating"
    /\ state' = [state EXCEPT ![p] = "refused"]
    /\ answers' = [answers EXCEPT ![p] = Append(@, "proxy")]
    /\ UNCHANGED <<id, pending, streams, opened, entries, minted, posting>>

\* Forwarded: exactly one upstream request, whose response (JSON or a stream) is pumped.
ForwardPost(p) ==
    /\ state[p] = "mediating"
    /\ state' = [state EXCEPT ![p] = "sent"]
    /\ pending' = [pending EXCEPT ![p] = TRUE]
    /\ Open(p, "post")
    /\ UNCHANGED <<id, answers, entries, minted, posting>>

-----------------------------------------------------------------------------
(* Event ids. *)

EntriesOf(es, stream) == SelectSeq(es, LAMBDA e : e.stream = stream)
Bytes(es) == FoldSeq(LAMBDA e, n : n + e.size, 0, es)
Without(es, e) == SelectSeq(es, LAMBDA x : x # e)

\* _EventIds.add first drops the oldest ids of its own stream, then the oldest of all.
TrimStream(es, stream) ==
    IF Len(EntriesOf(es, stream)) >= PerStream THEN Without(es, Head(EntriesOf(es, stream))) ELSE es

\* Faulty variant: the new id's size is not counted.
TrimAll_Uncounted(es, size) ==
    LET fits(k) == Len(es) - k < Total /\ Bytes(SubSeq(es, k + 1, Len(es))) <= Budget
        drop == CHOOSE k \in 0..Len(es) : (k = Len(es) \/ fits(k)) /\ \A j \in 0..(k - 1) : ~fits(j)
    IN SubSeq(es, drop + 1, Len(es))

TrimAll(es, size) ==
    LET fits(k) == Len(es) - k < Total /\ Bytes(SubSeq(es, k + 1, Len(es))) + size <= Budget
        drop == CHOOSE k \in 0..Len(es) : (k = Len(es) \/ fits(k)) /\ \A j \in 0..(k - 1) : ~fits(j)
    IN SubSeq(es, drop + 1, Len(es))

\* The POST whose answer a resumption would continue: none for a GET stream.
Origin(s) == IF s.kind = "get" THEN None ELSE s.of

Mint(s, size) ==
    /\ minted < MaxMints /\ minted' = minted + 1
    /\ entries' = Append(TrimAll(TrimStream(entries, s.n), size),
                         [minted |-> minted + 1, of |-> Origin(s), stream |-> s.n, size |-> size])

-----------------------------------------------------------------------------
(* What the server sends on a stream. *)

\* Faulty variant: any pending request of the proxy can be answered on any stream.
AnsweredBy_Any(s, i) == {p \in Posts : pending[p] /\ id[p] = i}
\* The request a response with id i on stream s answers: on a POST's stream that POST's own
\* request by its id; on a resumed stream the original request whatever the id; on a GET none.
AnsweredBy(s, i) ==
    CASE s.kind = "get" -> {}
      [] s.kind = "resumed" -> {p \in Posts : p = s.of /\ pending[p]}
      [] s.kind = "post" -> {p \in Posts : p = s.of /\ pending[p] /\ id[p] = i}

\* A frame with a well-formed response; the client of that stream takes it for its request.
Response(s, i) ==
    /\ s \in streams
    /\ \E p \in AnsweredBy(s, i) :
         /\ pending' = [pending EXCEPT ![p] = FALSE]
         /\ answers' = [answers EXCEPT ![p] = Append(@, IF s.of = p THEN "own" ELSE "other")]
    /\ UNCHANGED <<id, state, streams, opened, entries, minted, posting>>

\* A frame with an event id (its message, if any, is mediated by the other actions).
EventId(s, size) ==
    /\ s \in streams
    /\ Mint(s, size)
    /\ UNCHANGED <<id, state, pending, answers, streams, opened, posting>>

\* A server request the firewall refuses: the refusal is posted back, unless too many are.
SpawnPostBack(s) ==
    /\ s \in streams /\ posting < PostBacks
    /\ posting' = posting + 1
    /\ UNCHANGED <<id, state, pending, answers, streams, opened, entries, minted>>

\* The post-back ends, by its answer, an error or its time-out.
PostBackEnds ==
    /\ posting > 0 /\ posting' = posting - 1
    /\ UNCHANGED <<id, state, pending, answers, streams, opened, entries, minted>>

\* The stream ends, breaks, or is cut because a message exceeds the size limit.
StreamEnds(s) ==
    /\ s \in streams /\ streams' = streams \ {s}
    /\ UNCHANGED <<id, state, pending, answers, opened, entries, minted, posting>>

\* _handle_get with a Last-Event-ID: a known id resumes its POST's stream, an unknown one,
\* and one minted on a GET stream, opens a plain GET stream.
HandleGet(m) ==
    /\ LET known == {i \in DOMAIN entries : entries[i].minted = m}
           of == IF known = {} THEN None ELSE entries[CHOOSE i \in known : TRUE].of
       IN Open(of, IF of = None THEN "get" ELSE "resumed")
    /\ UNCHANGED <<id, state, pending, answers, entries, minted, posting>>

Next ==
    \/ \E p \in Posts : HandlePost(p) \/ RefusePost(p) \/ ForwardPost(p)
    \/ \E s \in streams : \/ \E i \in Ids : Response(s, i)
                          \/ \E z \in 1..2 : EventId(s, z)
                          \/ SpawnPostBack(s) \/ StreamEnds(s)
    \/ PostBackEnds
    \/ \E m \in 0..minted : HandleGet(m)

Spec == Init /\ [][Next]_vars

-----------------------------------------------------------------------------

TypeOK ==
    /\ id \in [Posts -> Ids]
    /\ state \in [Posts -> {"new", "mediating", "refused", "sent"}]
    /\ pending \in [Posts -> BOOLEAN]
    /\ streams \subseteq Stream /\ opened \in 0..MaxStreams
    /\ minted \in 0..MaxMints /\ posting \in 0..PostBacks
    /\ Len(entries) <= Total

\* A request gets one answer, however often its stream breaks and is resumed and whatever ids
\* the server answers under, and never one that came on the stream of another POST.
OneAnswerOfItsOwn == \A p \in Posts : Len(answers[p]) <= 1 /\ \A i \in DOMAIN answers[p] : answers[p][i] # "other"

\* The table of event ids stays within its three bounds, with the streams' shares counted per
\* stream (a single oversized id apart), and keeps the most recent ids.
EventIdsBounded ==
    /\ \A s \in 1..MaxStreams : Len(EntriesOf(entries, s)) <= PerStream
    /\ Len(entries) > 1 => Bytes(entries) <= Budget
    /\ minted > 0 => entries # <<>> /\ Last(entries).minted = minted
=============================================================================
