----------------------------- MODULE AuditTrail -----------------------------
(***************************************************************************)
(* The durable audit trail.  In every API process AuditEmitter writes each *)
(* decision's record in a background task, a bounded number at a time, and *)
(* an AuditForwarder posts the stored rows to the SIEM in batches, from a  *)
(* cursor that it keeps in memory and saves in the one row they all share; *)
(* _stream_audit_rows exports rows in pages; RetentionPruner deletes old   *)
(* ones.  A row's time is taken when its INSERT runs and is seen when its  *)
(* transaction commits.                                                    *)
(***************************************************************************)
EXTENDS Naturals, Sequences, FiniteSets, FiniteSetsExt, SequencesExt

CONSTANTS
    Processes, Nobody,  \* the API processes, and what is none of them
    Events,         \* numbers: the order of the rows' ids
    Gate,           \* audit_emit_max_concurrency
    Batch,          \* rows in a batch of a forwarder, and in a page of the export
    Retention,      \* audit_retention_days, in ticks
    MaxTime, MaxFaults, MaxExports      \* bounds: ticks, failures, exports

VARIABLES
    now,
    row,        \* each event's record: its stage, its time and the process that writes it
    cursor,     \* each forwarder's cursor in memory, 0 for none
    loaded,     \* forwarders that have asked for the saved one
    saved,      \* SiemForwardCursor, one for all
    fwd,        \* the batch each forwarder is at
    sent,       \* how often each row reached the SIEM from each forwarder
    missed,     \* history: rows that committed after one of the same or a later time was read, or were
                \* cut off a full batch whose last row has their time
    excuses,    \* history: what makes a forwarder send again
    export,     \* the export under way: what was there at its start, what it has given, its next page
    exports, faults

vars == <<now, row, cursor, loaded, saved, fwd, sent, missed, excuses, export, exports, faults>>
forwarder == <<cursor, loaded, saved, fwd, sent, excuses>>
Idle == [pc |-> "idle", rows |-> <<>>]
Stored == {e \in Events : row[e].at = "stored"}
Writing(p) == {e \in Events : row[e].at = "writing" /\ row[e].by = p}
Set(s) == {s[i] : i \in DOMAIN s}
Excuses == {"post", "load", "save", "crash", "older"}

TypeOK ==
    /\ now \in 1..MaxTime /\ cursor \in [Processes -> 0..MaxTime] /\ saved \in 0..MaxTime /\ loaded \subseteq Processes
    /\ row \in [Events -> [at : {"none", "queued", "writing", "stored", "lost", "pruned"}, time : 0..MaxTime,
                           by : Processes \cup {Nobody}]]
    /\ \A p \in Processes : /\ Cardinality(Writing(p)) <= Gate
                            /\ fwd[p].pc \in {"idle", "fetch", "post", "save"} /\ Set(fwd[p].rows) \subseteq Events
    /\ missed \subseteq Events /\ excuses \subseteq Excuses /\ export.pc \in {"idle", "page"}

Init ==
    /\ now = 1 /\ row = [e \in Events |-> [at |-> "none", time |-> 0, by |-> Nobody]]
    /\ cursor = [p \in Processes |-> 0] /\ loaded = {} /\ saved = 0 /\ fwd = [p \in Processes |-> Idle]
    /\ sent = [p \in Processes |-> [e \in Events |-> 0]] /\ missed = {} /\ excuses = {}
    /\ export = [pc |-> "idle", had |-> {}, out |-> <<>>] /\ exports = 0 /\ faults = 0

Fault == faults < MaxFaults /\ faults' = faults + 1
Tick == now < MaxTime /\ now' = now + 1 /\ UNCHANGED <<row, forwarder, missed, export, exports, faults>>

-----------------------------------------------------------------------------
(* AuditEmitter *)

Emit(e, p) ==
    /\ row[e].at = "none"
    /\ row' = [row EXCEPT ![e] = [at |-> "queued", time |-> 0, by |-> p]]
    /\ UNCHANGED <<now, forwarder, missed, export, exports, faults>>

Free(p) == Cardinality(Writing(p)) < Gate

\* A task gets its permit and a connection, and inserts.
Insert(e) ==
    /\ row[e].at = "queued" /\ Free(row[e].by)
    /\ row' = [row EXCEPT ![e].at = "writing", ![e].time = now]
    /\ UNCHANGED <<now, forwarder, missed, export, exports, faults>>

\* What the forwarders have read up to.
ReadUpTo == Max({saved} \cup UNION {{cursor[p]} \cup {row[e].time : e \in Set(fwd[p].rows)} : p \in Processes})

Commit(e) ==
    /\ row[e].at = "writing"
    /\ row' = [row EXCEPT ![e].at = "stored"]
    /\ missed' = IF row[e].time <= ReadUpTo THEN missed \cup {e} ELSE missed
    /\ UNCHANGED <<now, forwarder, export, exports, faults>>

\* The record of a failed write is gone; so are those of a process that dies.
WriteFails(e) ==
    /\ row[e].at = "writing" /\ Fault
    /\ row' = [row EXCEPT ![e].at = "lost"]
    /\ UNCHANGED <<now, forwarder, missed, export, exports>>

Received(p) == [sent EXCEPT ![p] = [e \in Events |-> @[e] + IF e \in Set(fwd[p].rows) THEN 1 ELSE 0]]

\* A crash during a post may leave it done; one after it, before the cursor is saved, forgets it.
Restart(p) ==
    /\ Fault
    /\ row' = [e \in Events |-> IF row[e].at \in {"queued", "writing"} /\ row[e].by = p
                                 THEN [row[e] EXCEPT !.at = "lost"] ELSE row[e]]
    /\ cursor' = [cursor EXCEPT ![p] = 0] /\ loaded' = loaded \ {p} /\ fwd' = [fwd EXCEPT ![p] = Idle]
    /\ sent' \in {sent} \cup (IF fwd[p].pc = "post" THEN {Received(p)} ELSE {})
    /\ excuses' = IF fwd[p].pc \in {"post", "save"} THEN excuses \cup {"crash"} ELSE excuses
    /\ export' \in {export, [pc |-> "idle", had |-> {}, out |-> <<>>]}
    /\ UNCHANGED <<now, saved, missed, exports>>

\* An orderly one drains the tasks and waits for the batch (close, stop).
Redeploy(p) ==
    /\ p \in loaded /\ fwd[p].pc = "idle" /\ export.pc = "idle"
    /\ \A e \in Events : row[e].by = p => row[e].at \notin {"queued", "writing"}
    /\ cursor' = [cursor EXCEPT ![p] = 0] /\ loaded' = loaded \ {p}
    /\ UNCHANGED <<now, row, saved, fwd, sent, missed, excuses, export, exports, faults>>

-----------------------------------------------------------------------------
(* AuditForwarder *)

\* Faulty variant: every process begins at the first row.
LoadCursor_Not(p) == loaded' = loaded \cup {p} /\ cursor' = cursor

LoadCursor(p) ==
    loaded' = loaded \cup {p} /\ cursor' = IF p \in loaded THEN cursor ELSE [cursor EXCEPT ![p] = saved]

\* forward_once; a cursor that cannot be read is taken as none, and not asked for again.
Poll(p) ==
    /\ fwd[p].pc = "idle"
    /\ fwd' = [fwd EXCEPT ![p] = [pc |-> "fetch", rows |-> <<>>]]
    /\ \/ LoadCursor(p) /\ UNCHANGED <<excuses, faults>>
       \/ /\ p \notin loaded /\ loaded' = loaded \cup {p} /\ cursor' = cursor
          /\ Fault /\ excuses' = excuses \cup {"load"}
    /\ UNCHANGED <<now, row, saved, sent, missed, export, exports>>

Before(d, e) == row[d].time < row[e].time \/ (row[d].time = row[e].time /\ d < e)
FirstOf(set) == SubSeq(SetToSortSeq(set, Before), 1, Min({Batch, Cardinality(set)}))

\* _fetch_new
Fetch(p) ==
    /\ fwd[p].pc = "fetch"
    /\ LET new == {e \in Stored : row[e].time > cursor[p]}
           rows == FirstOf(new)
       IN /\ fwd' = [fwd EXCEPT ![p] = IF rows = <<>> THEN Idle ELSE [pc |-> "post", rows |-> rows]]
          /\ missed' = missed \cup {e \in new \ Set(rows) : row[e].time = row[Last(rows)].time}
    /\ UNCHANGED <<now, row, cursor, loaded, saved, sent, excuses, export, exports, faults>>

\* The cursor moves once the batch is posted.
Post(p) ==
    /\ fwd[p].pc = "post"
    /\ sent' = Received(p) /\ cursor' = [cursor EXCEPT ![p] = row[Last(fwd[p].rows)].time]
    /\ fwd' = [fwd EXCEPT ![p].pc = "save"]
    /\ UNCHANGED <<now, row, loaded, saved, missed, excuses, export, exports, faults>>

\* Faulty variant: the cursor moves whether or not the batch is posted.
PostFails_Moves(p) ==
    /\ fwd[p].pc = "post" /\ Fault
    /\ sent' \in {sent, Received(p)} /\ excuses' = excuses \cup {"post"}
    /\ cursor' = [cursor EXCEPT ![p] = row[Last(fwd[p].rows)].time]
    /\ fwd' = [fwd EXCEPT ![p] = Idle]
    /\ UNCHANGED <<now, row, loaded, saved, missed, export, exports>>

\* The SIEM may have taken a batch whose post fails.
PostFails(p) ==
    /\ fwd[p].pc = "post" /\ Fault
    /\ sent' \in {sent, Received(p)} /\ excuses' = excuses \cup {"post"}
    /\ fwd' = [fwd EXCEPT ![p] = Idle]
    /\ UNCHANGED <<now, row, cursor, loaded, saved, missed, export, exports>>

\* _save_cursor overwrites what another forwarder saved; a full batch is followed by another.
Save(p) ==
    /\ fwd[p].pc = "save"
    /\ \/ /\ saved' = cursor[p] /\ UNCHANGED faults
          /\ excuses' = IF cursor[p] < saved THEN excuses \cup {"older"} ELSE excuses
       \/ saved' = saved /\ Fault /\ excuses' = excuses \cup {"save"}
    /\ fwd' = [fwd EXCEPT ![p] = IF Len(@.rows) < Batch THEN Idle ELSE [pc |-> "fetch", rows |-> <<>>]]
    /\ UNCHANGED <<now, row, cursor, loaded, sent, missed, export, exports>>

-----------------------------------------------------------------------------
(* Export and retention. *)

Export ==
    /\ export.pc = "idle" /\ exports < MaxExports /\ exports' = exports + 1
    /\ export' = [pc |-> "page", had |-> Stored, out |-> <<>>]
    /\ UNCHANGED <<now, row, forwarder, missed, faults>>

\* Faulty variant: a page begins after the time of the last row.
Remaining_ByTime == {e \in Stored : export.out = <<>> \/ row[e].time < row[Last(export.out)].time}

\* Faulty variant: a page begins at the time of the last row.
Remaining_AtTime == {e \in Stored : export.out = <<>> \/ row[e].time <= row[Last(export.out)].time}

\* The rows before the last one given, by time and id.
Remaining == {e \in Stored : export.out = <<>> \/ Before(e, Last(export.out))}

\* _stream_audit_rows, newest first.
Page ==
    /\ export.pc = "page"
    /\ LET newest == SetToSortSeq(Remaining, LAMBDA d, e : Before(e, d))
           page == SubSeq(newest, 1, Min({Batch, Len(newest)}))
       IN export' = [export EXCEPT !.out = @ \o page, !.pc = IF Len(page) < Batch THEN "idle" ELSE "page"]
    /\ UNCHANGED <<now, row, forwarder, missed, exports, faults>>

\* _prune_audit
Prune ==
    /\ \E e \in Stored : row[e].time + Retention < now
    /\ row' = [e \in Events |-> IF e \in Stored /\ row[e].time + Retention < now THEN [row[e] EXCEPT !.at = "pruned"] ELSE row[e]]
    /\ UNCHANGED <<now, forwarder, missed, export, exports, faults>>

Next ==
    \/ \E e \in Events : (\E p \in Processes : Emit(e, p)) \/ Insert(e) \/ Commit(e) \/ WriteFails(e)
    \/ \E p \in Processes : Restart(p) \/ Redeploy(p) \/ Poll(p) \/ Fetch(p) \/ Post(p) \/ PostFails(p) \/ Save(p)
    \/ Tick \/ Export \/ Page \/ Prune

Spec == Init /\ [][Next]_vars

\* The processes' tasks are scheduled, and the database answers.
FairSpec ==
    /\ Spec /\ \A p \in Processes : WF_vars(Poll(p)) /\ WF_vars(Fetch(p)) /\ WF_vars(Post(p)) /\ WF_vars(Save(p))
    /\ \A e \in Events : WF_vars(Commit(e))

-----------------------------------------------------------------------------
\* A forwarder sends a row twice only for one of the reasons there are: a post that failed, a saved
\* cursor that could not be read or written, a crash between the post and the record of it, or a
\* cursor that another forwarder overwrote with its own, older one.  Polls, full batches, orderly
\* restarts, other crashes and failed writes of rows resume where they stopped (forward_once).  The
\* SIEM still gets a row once from every process.
NotReplayed == \A p \in Processes, e \in Events : sent[p][e] > 1 => excuses # {}

\* A stored row that a forwarder is past and that none has sent committed after a row of the same or a
\* later time was read, or was cut off a full batch whose last row has its time (_fetch_new); failed
\* posts, failed saves, crashes, and cursors taken over from another process lose none.
OnlyMissedOnesAreSkipped ==
    \A e \in Stored :
        (\E p \in Processes : row[e].time <= cursor[p]) /\ (\A p \in Processes : sent[p][e] = 0) => e \in missed

\* An export gives every row that was there at its start and was not pruned meanwhile, and none twice,
\* whatever is stored between two pages (_stream_audit_rows).
ExportIsComplete ==
    /\ \A i, j \in DOMAIN export.out : export.out[i] = export.out[j] => i = j
    /\ (export.pc = "idle") => \A e \in export.had : row[e].at = "stored" => e \in Set(export.out)

\* Every stored row is forwarded ("streams new audit rows", docs/configuration.md:414).  Refuted: the
\* cursor is a time, so a row that commits after a later one was read is never sent, nor is one that
\* shares its time with the last row of a full batch.
AllForwarded == \A e \in Events : row[e].at = "stored" ~> (row[e].at = "pruned" \/ \E p \in Processes : sent[p][e] > 0)

\* A row is forwarded once ("one forwarder per deployment today", siem.py:101).  Refuted: every API
\* process starts one (main.py:254-255), and each sends every row.
SentOnce == excuses = {} => \A e \in Events : \A p, q \in Processes : sent[p][e] > 0 /\ sent[q][e] > 0 => p = q
=============================================================================
