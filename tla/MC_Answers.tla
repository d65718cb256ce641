----------------------------- MODULE MC_Answers ------------------------------
(*****************************************************************************)
(* Small instances, side by side, of the parts that must answer whatever     *)
(* fails on the way: the red-team suites with their guard, which this module *)
(* extends, the changes of an agent's trust, and an MCP session. They do not *)
(* interact here: part says which of them a behaviour is one of, and the     *)
(* last two keep their state in one pool of variables.                       *)
(*****************************************************************************)
EXTENDS SuiteGuard

CONSTANTS Writers

VARIABLES part, x1, x2, x3, x4, x5, x6, x7, x8, x9, x10, x11, x12, x13, x14, x15, x16, x17, x18,
    x19, x20, x21

\* What the parts do not use of the shared variables has no value.
Unused == "unused"

\* Room for a stamp per request and for a gap longer than SummaryTtl.
Microseconds == 1..Cardinality(Requests) + 1

\* Where the requests would go in the behaviours of the other parts.
HomePod == CHOOSE p \in Pods : TRUE
HomeNamespace == CHOOSE n \in Namespaces : TRUE

\* Two changes of the trust of an agent, with failing sessions.
AT == INSTANCE AdminTrust WITH Nobody <- None, Caps <- {1}, Kinds <- {"put"},
    Events <- {"session_ends", "db_fails"}, MaxLate <- 0, row <- x1, registry <- x2, store <- x3,
    owner <- x4, wire <- x5, seq <- x6, lock <- x7, late <- x8, pc <- x9, kind <- x10, req <- x11,
    mode <- x12, tries <- x13, token <- x14, mine <- x15, outcome <- x16, answer <- x17,
    floor <- x18, overrun <- x19, gap <- x20, fresh <- x21

\* Three requests of a client of an MCP server, two of which the proxy can hold.
SE == INSTANCE McpSession WITH N <- 3, ReadAhead <- 2, Cap <- 2, MaxLists <- 2, MaxAsks <- 1,
    method <- x1, form <- x2, sent <- x3, queue <- x4, held <- x5, pending <- x6, pump <- x7,
    own <- x8, lists <- x9, late <- x10, busy <- x11, backoff <- x12, listed <- x13,
    generation <- x14, started <- x15, catalog <- x16, forwarded <- x17, answers <- x18,
    asks <- x19, open <- x20, phase <- x21

-----------------------------------------------------------------------------
pool == <<x1, x2, x3, x4, x5, x6, x7, x8, x9, x10, x11, x12, x13, x14, x15, x16, x17, x18, x19,
          x20, x21>>
all == <<part, pool, vars>>

\* A step of one part, for the fairness of all: part never changes, so fairness of the disjunction of
\* steps of different parts is fairness of each.
OnlyTrust(A) == part = "trust" /\ A /\ UNCHANGED <<vars>>
OnlySession(A) == part = "session" /\ A /\ UNCHANGED <<vars>>

MCInit ==
    \/ part = "suites" /\ Init /\ x1 = Unused /\ x2 = Unused /\ x3 = Unused /\ x4 = Unused
            /\ x5 = Unused /\ x6 = Unused /\ x7 = Unused /\ x8 = Unused /\ x9 = Unused
            /\ x10 = Unused /\ x11 = Unused /\ x12 = Unused /\ x13 = Unused /\ x14 = Unused
            /\ x15 = Unused /\ x16 = Unused /\ x17 = Unused /\ x18 = Unused /\ x19 = Unused
            /\ x20 = Unused /\ x21 = Unused
    \/ part = "trust" /\ pod = [r \in Requests |-> HomePod] /\ ns = [r \in Requests |-> HomeNamespace] /\ Init /\ AT!Init
    \/ part = "session" /\ pod = [r \in Requests |-> HomePod] /\ ns = [r \in Requests |-> HomeNamespace] /\ Init /\ SE!Init

MCNext ==
    \/ part = "suites" /\ Next /\ UNCHANGED <<part, pool>>
    \/ part = "trust" /\ AT!Next /\ UNCHANGED <<part, vars>>
    \/ part = "session" /\ SE!Next /\ UNCHANGED <<part, vars>>

\* The fairness of every part, where that part is the one that runs.
MCFairness ==
    /\ \A r \in Requests : WF_vars(Step(r))
    /\ \A n \in Namespaces : WF_vars(Expire(n))
    /\ \A w \in Writers : WF_pool(OnlyTrust(AT!GoesOn(w))) /\ WF_pool(OnlyTrust(AT!IsEnded(w)))
    /\ WF_pool(OnlySession(SE!ReadAnswer))
    /\ WF_pool(OnlySession(SE!Take))
    /\ WF_pool(OnlySession(SE!PassAnswer))
    /\ WF_pool(OnlySession(SE!Refuse \/ SE!Forward))
    /\ WF_pool(OnlySession(SE!WarmSkips \/ SE!WarmLists))
    /\ WF_pool(OnlySession(SE!ColdListed))
    /\ WF_pool(OnlySession(SE!ServerListsTools(TRUE)))
    /\ WF_pool(OnlySession(SE!BusyTimeout))
    /\ \A r \in SE!ClientRequests : WF_pool(OnlySession(SE!ServerAnswers(r, TRUE)))

MCSpec == MCInit /\ [][MCNext]_all /\ MCFairness

-----------------------------------------------------------------------------
(* The properties, each of its own part or parts. *)

\* Whatever the server sends and whenever, a client request gets at most one answer, and one that
\* the proxy still holds, queues or has refused never gets the server's; a held request is on its
\* way through the pump; and only a full map loses a request, the oldest (on_server_message,
\* Correlation).
SessionAnswersOnce ==
    /\ part = "session" => SE!AnsweredOnce /\ SE!HeldIsNotAnswered
    /\ part = "session" => SE!HeldIsInThePump /\ SE!OnlyFullMapsLose

\* Whatever fails on the way, every suite is answered and its namespace's lock comes free again and
\* again; every change of an agent's trust is answered and its lock comes free; the pump of an MCP
\* session comes back for the next message, even when the server asks the client something in the
\* middle of the proxy's own tools/list; and a request the server was sent is answered, unless the
\* map overflowed or the session stopped. No listing of the proxy's own replaces one that the
\* client was given after the proxy asked (_guarded_suite, _agent_lock, _pump_server_to_client).
AllAnswer ==
    /\ Unwedged /\ Answered
    /\ <>[](part = "trust" => AT!Concluded)
    /\ []<>(part = "session" => SE!PumpIdle)
    /\ <>[](part = "session" => SE!SentAreAnswered)
    /\ [][part = "session" => SE!KeepsClientListing]_all

==============================================================================
