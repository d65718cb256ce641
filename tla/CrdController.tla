---------------------------- MODULE CrdController ----------------------------
(***************************************************************************)
(* The controller of webhook/controller.go and one NrvqPolicy name: the    *)
(* informer delivers the resource's changes, valid ones are posted to the  *)
(* policy API by goroutines of a bounded pool, a sweep re-drives what did  *)
(* not succeed or has drifted from the image's presets, and a finalizer    *)
(* holds a deleted resource until the API has deleted its policy.          *)
(* Resources under the name are told apart by uid; gen is the generation.  *)
(***************************************************************************)
EXTENDS Naturals, Sequences, SequencesExt

CONSTANTS
    None,
    Texts,          \* what a spec may say, Preset and Bad (refused by validation) among it
    Slots,          \* the size of syncSemaphore
    MaxChanges,     \* bound: changes by users (creations, updates, deletions, class deletions)
    MaxFaults,      \* bound: failed calls and writes, restarts, expired finalizers
    MaxWatch        \* bound: how far behind the informer is when the sweep runs

VARIABLES
    cr,             \* the resource in Kubernetes
    store,          \* the informer's copy
    watch,          \* the changes not yet delivered
    event,          \* the change the informer's listener is about to handle
    jobs,           \* the goroutines, oldest first, each with the copy it was started for
    net,            \* requests whose client gave up and which may still be applied
    api,            \* the policy in the API: [text, uid] or None
    failed,         \* failedGenMap: [gen, uid], compared by gen alone
    applied,        \* appliedRegoMap
    image,          \* the running image, which holds the text of the preset
    overtaken,      \* history: a request was applied after one that was issued later
    unstamped,      \* history: the stamp of a carried-out request was not written
    misplaced,      \* history: an outcome was recorded on a later resource of the name
    abandoned,      \* history: a resource went away although its policy was not deleted
    changes, faults

kube == <<cr, watch>>
memory == <<failed, applied>>
history == <<overtaken, unstamped, misplaced, abandoned>>
vars == <<cr, store, watch, event, jobs, net, api, failed, applied, image, overtaken, unstamped, misplaced, abandoned, changes, faults>>

Preset == "preset"
Bad == "bad"
TextOf(u) == IF u.text = Preset THEN <<Preset, image>> ELSE <<"rego", u.text>>

Fresh(uid, text) ==
    [uid |-> uid, gen |-> 1, text |-> text, del |-> FALSE, fin |-> FALSE,
     phase |-> "", stamp |-> None]

Init ==
    /\ cr = None /\ store = None /\ watch = <<>> /\ event = None
    /\ jobs = <<>> /\ net = {} /\ api = None
    /\ failed = None /\ applied = None
    /\ image = 1
    /\ overtaken = FALSE /\ unstamped = FALSE /\ misplaced = FALSE /\ abandoned = FALSE
    /\ changes = 0 /\ faults = 0

Fault == faults < MaxFaults /\ faults' = faults + 1
Change == changes < MaxChanges /\ changes' = changes + 1

\* The resource is written, and the informer will hear of it.
Writes(new) == cr' = new /\ watch' = IF new = cr THEN watch ELSE Append(watch, [obj |-> new, gone |-> FALSE, synced |-> FALSE])
\* It goes away; the event carries the delete-synced annotation.
Goes(synced) == cr' = None /\ watch' = Append(watch, [obj |-> cr, gone |-> TRUE, synced |-> synced])
\* updatePolicyStatus: the resource now under the name gets the phase; a failure is only logged.
SetPhase(phase) ==
    \/ /\ IF cr = None THEN UNCHANGED kube ELSE Writes([cr EXCEPT !.phase = phase])
       /\ UNCHANGED faults
    \/ cr # None /\ Fault /\ UNCHANGED kube

-----------------------------------------------------------------------------
(* Users. *)

Create(text) ==
    /\ Change /\ cr = None
    /\ Writes(Fresh(changes + 1, text))
    /\ UNCHANGED <<store, event, jobs, net, api, memory, image, history, faults>>

Update(text) ==
    /\ Change /\ cr # None /\ ~cr.del
    /\ text # cr.text
    /\ Writes([cr EXCEPT !.gen = @ + 1, !.text = text])
    /\ UNCHANGED <<store, event, jobs, net, api, memory, image, history, faults>>

Delete ==
    /\ Change /\ cr # None /\ ~cr.del
    /\ IF cr.fin THEN Writes([cr EXCEPT !.del = TRUE]) ELSE Goes(FALSE)
    /\ UNCHANGED <<store, event, jobs, net, api, memory, image, history, faults>>

\* handleClassDelete latches the policies of a class that went away.
ClassDeleted ==
    /\ Change /\ cr # None /\ ~cr.del /\ store # None
    /\ SetPhase("ClassDeleted")
    /\ UNCHANGED <<store, event, jobs, net, api, memory, image, history>>

-----------------------------------------------------------------------------
(* Handlers: each runs in the informer's or in the sweep's goroutine. *)

Job(kind, u) == [kind |-> kind, u |-> u, text |-> TextOf(u), pc |-> "sent", passed |-> FALSE]
Spawn(kind, u) == jobs' = Append(jobs, Job(kind, u))

\* The select on syncSemaphore.
HasSlot == Len(jobs) < Slots

\* reconcileDeletingPolicyAsync.
HandleDeleting(u) ==
    /\ IF u.fin /\ HasSlot THEN Spawn("delete", u) ELSE UNCHANGED jobs
    /\ UNCHANGED <<kube, memory, faults>>

\* A resource that cannot be synced: its generation is remembered.
HandleInvalid(u) ==
    /\ failed' = [gen |-> u.gen, uid |-> u.uid]
    /\ SetPhase("Error")
    /\ UNCHANGED <<jobs, applied>>

\* The resource as it is after addFinalizerWithRetry, which finds it by name.
Protected(u) == IF u.fin THEN cr ELSE [cr EXCEPT !.fin = TRUE]

\* Faulty variant: the policy is posted whether or not the finalizer could be added.
HandleValid_Unprotected(u) ==
    /\ IF HasSlot THEN Spawn("post", u) /\ UNCHANGED <<kube, faults>>
       ELSE SetPhase("Pending") /\ UNCHANGED jobs
    /\ UNCHANGED memory

\* The finalizer, then a slot: posted in the background, or marked Pending.  When the finalizer
\* cannot be added (the resource is gone, or Kubernetes fails) nothing else happens.
HandleValid(u) ==
    \/ /\ u.fin \/ cr # None
       /\ LET now == Protected(u) IN
            IF HasSlot THEN /\ Spawn("post", u) /\ UNCHANGED faults
                            /\ IF u.fin THEN UNCHANGED kube ELSE Writes(now)
            ELSE /\ UNCHANGED jobs
                 /\ IF cr = None THEN UNCHANGED <<kube, faults>>
                    ELSE \/ Writes([now EXCEPT !.phase = "Pending"]) /\ UNCHANGED faults
                         \/ Writes(now) /\ Fault
       /\ UNCHANGED memory
    \/ /\ ~u.fin /\ cr = None
       /\ UNCHANGED <<kube, jobs, memory, faults>>
    \/ /\ ~u.fin /\ Fault
       /\ UNCHANGED <<kube, jobs, memory>>

HandlePolicy(u) ==
    IF u.del THEN HandleDeleting(u) ELSE IF u.text = Bad THEN HandleInvalid(u) ELSE HandleValid(u)

\* handlePolicyDelete: the last chance to delete the policy, unless it is known to be deleted.
HandleGone(u, synced) ==
    /\ IF ~synced /\ HasSlot THEN Spawn("final", u) ELSE UNCHANGED jobs
    /\ UNCHANGED <<kube, memory, faults>>

\* shouldProcessUpdate.
Processes(old, new) == old = None \/ old.uid # new.uid \/ old.del \/ new.del \/ old.gen # new.gen

\* The informer takes the next change into its store; its listener hears of it afterwards.
Deliver ==
    /\ watch # <<>> /\ event = None
    /\ LET e == Head(watch) IN
         /\ store' = IF e.gone THEN None ELSE e.obj
         /\ event' = IF e.gone \/ Processes(store, e.obj) THEN e ELSE None
    /\ watch' = Tail(watch)
    /\ UNCHANGED <<cr, jobs, net, api, memory, image, history, changes, faults>>

Handle ==
    /\ event # None
    /\ event' = None
    /\ IF event.gone THEN HandleGone(event.obj, event.synced) ELSE HandlePolicy(event.obj)
    /\ abandoned' = (abandoned \/ (event.gone /\ ~event.synced /\ ~HasSlot))
    /\ UNCHANGED <<store, net, api, image, overtaken, unstamped, misplaced, changes>>

\* The informer's resync offers the stored copy again; only a deleting one is processed.
Resync ==
    /\ watch = <<>> /\ event = None /\ store # None /\ store.del
    /\ event' = [obj |-> store, gone |-> FALSE, synced |-> FALSE]
    /\ UNCHANGED <<kube, store, jobs, net, api, memory, image, history, changes, faults>>

\* policyContentDrifted: neither the stamp nor this process remembers applying this text.
Drifted(u) == u.text # Bad /\ u.stamp # TextOf(u) /\ applied # TextOf(u)

\* failedGeneration: the resource's generation is one that cannot succeed.
Hopeless(u) == IF failed = None THEN FALSE ELSE failed.gen = u.gen

\* Faulty variant: only what is not Active is re-driven.
Redriven_NotActive(u) ==
    u.phase \notin {"Active", "ClassDeleted"} /\ ~Hopeless(u)

\* What a pass of retryUnsyncedPolicies re-drives.
Redriven(u) ==
    IF u.phase = "Active" THEN Drifted(u)
    ELSE u.phase # "ClassDeleted" /\ ~Hopeless(u)

Sweep ==
    /\ store # None /\ ~store.del /\ Len(watch) < MaxWatch
    /\ Redriven(store)
    /\ HandlePolicy(store)
    /\ UNCHANGED <<store, event, net, api, image, history, changes>>

-----------------------------------------------------------------------------
(* The goroutines, and the API. *)

Without(i) == RemoveAt(jobs, i)

\* The API carries request i out: earlier requests of the controller are now out of date.
Carries(i) ==
    /\ overtaken' = (overtaken \/ jobs[i].passed)
    /\ api' = IF jobs[i].kind = "post" THEN [text |-> jobs[i].text, uid |-> jobs[i].u.uid] ELSE None
    /\ jobs' = [k \in DOMAIN jobs |->
                  IF k < i THEN [jobs[k] EXCEPT !.passed = TRUE]
                  ELSE IF k = i THEN [jobs[k] EXCEPT !.pc = "answered"] ELSE jobs[k]]

Applied(i) ==
    /\ jobs[i].pc = "sent"
    /\ Carries(i)
    /\ UNCHANGED <<kube, store, event, net, memory, image, unstamped, misplaced, abandoned, changes, faults>>

\* The call fails: refused, or timed out with the request still on its way.
Fails(i) ==
    /\ jobs[i].pc = "sent" /\ Fault
    /\ \E late \in BOOLEAN : net' = IF late THEN net \cup {[kind |-> jobs[i].kind, text |-> jobs[i].text, uid |-> jobs[i].u.uid]} ELSE net
    /\ jobs' = [jobs EXCEPT ![i].pc = "failed"]
    /\ UNCHANGED <<kube, store, event, api, memory, image, history, changes>>

\* A request whose caller gave up is carried out after all.
Late(r) ==
    /\ r \in net
    /\ net' = net \ {r}
    /\ api' = IF r.kind = "post" THEN [text |-> r.text, uid |-> r.uid] ELSE None
    /\ overtaken' = TRUE
    /\ UNCHANGED <<kube, store, event, jobs, memory, image, unstamped, misplaced, abandoned, changes, faults>>

\* A failed POST is reported in the status, and the sweep retries it.
PostFailed(i) ==
    /\ jobs[i].kind = "post" /\ jobs[i].pc = "failed"
    /\ SetPhase("Error")
    /\ jobs' = Without(i)
    /\ UNCHANGED <<store, event, net, api, memory, image, history, changes>>

PostDone(i) ==
    /\ jobs[i].kind = "post" /\ jobs[i].pc = "answered"
    /\ failed' = None
    /\ SetPhase("Active")
    /\ misplaced' = (misplaced \/ (IF cr = None THEN FALSE ELSE cr.uid # jobs[i].u.uid))
    /\ jobs' = [jobs EXCEPT ![i].pc = "stamp"]
    /\ UNCHANGED <<store, event, net, api, applied, image, overtaken, unstamped, abandoned, changes>>

\* stampAppliedRego: in this process always, on the resource unless it already says so.
Stamp(i) ==
    /\ jobs[i].pc = "stamp"
    /\ applied' = jobs[i].text
    /\ misplaced' = (misplaced \/ (IF cr = None THEN FALSE ELSE cr.uid # jobs[i].u.uid))
    /\ \/ /\ IF cr = None \/ jobs[i].u.stamp = jobs[i].text THEN UNCHANGED kube
             ELSE Writes([cr EXCEPT !.stamp = jobs[i].text])
          /\ UNCHANGED <<unstamped, faults>>
       \/ Fault /\ unstamped' = TRUE /\ UNCHANGED kube
    /\ jobs' = Without(i)
    /\ UNCHANGED <<store, event, net, api, failed, image, overtaken, abandoned, changes>>

\* The policy is deleted: the finalizer is removed, unless the copy is out of date.
Finalize(i) ==
    /\ jobs[i].kind = "delete" /\ jobs[i].pc = "answered"
    /\ IF cr = jobs[i].u THEN Goes(TRUE) ELSE UNCHANGED kube
    /\ jobs' = Without(i)
    /\ UNCHANGED <<store, event, net, api, memory, image, history, changes, faults>>

\* The deletion failed: retried by the resync, or given up once the finalizer is too old.
DeleteFailed(i) ==
    /\ jobs[i].kind = "delete" /\ jobs[i].pc = "failed"
    /\ \/ UNCHANGED <<kube, faults>>
       \/ cr = jobs[i].u /\ Fault /\ Goes(FALSE)
    /\ jobs' = Without(i)
    /\ UNCHANGED <<store, event, net, api, memory, image, history, changes>>

\* The last chance came and went.
FinalEnds(i) ==
    /\ jobs[i].kind = "final" /\ jobs[i].pc \in {"answered", "failed"}
    /\ abandoned' = (abandoned \/ jobs[i].pc = "failed")
    /\ jobs' = Without(i)
    /\ UNCHANGED <<kube, store, event, net, api, memory, image, overtaken, unstamped, misplaced, changes, faults>>

\* The controller restarts, maybe with a newer image; the informer lists the resource anew.
Restart ==
    /\ Fault
    /\ jobs' = <<>> /\ failed' = None /\ applied' = None /\ event' = None /\ store' = None
    /\ watch' = IF cr = None THEN <<>> ELSE <<[obj |-> cr, gone |-> FALSE, synced |-> FALSE]>>
    /\ image' \in {image, image + 1}
    /\ abandoned' = (abandoned \/ cr = None)
    /\ unstamped' = (unstamped \/ \E i \in DOMAIN jobs : jobs[i].kind = "post" /\ jobs[i].pc \in {"answered", "stamp"})
    /\ UNCHANGED <<cr, net, api, overtaken, misplaced, changes>>

Step(i) == Applied(i) \/ PostFailed(i) \/ PostDone(i) \/ Stamp(i) \/ Finalize(i) \/ DeleteFailed(i) \/ FinalEnds(i)

Next ==
    \/ \E text \in Texts : Create(text) \/ Update(text)
    \/ Delete \/ ClassDeleted
    \/ Deliver \/ Handle \/ Resync \/ Sweep \/ Restart
    \/ \E i \in DOMAIN jobs : Step(i) \/ Fails(i)
    \/ \E r \in net : Late(r)

Spec == Init /\ [][Next]_vars

\* A goroutine of the pool goes on.
Runs(i) == i \in DOMAIN jobs /\ Step(i)

\* The informer, its listener, the tickers and the goroutines keep running.
FairSpec ==
    /\ Spec
    /\ WF_vars(Deliver) /\ WF_vars(Handle) /\ WF_vars(Resync) /\ SF_vars(Sweep)
    /\ \A i \in 1..Slots : WF_vars(Runs(i))

-----------------------------------------------------------------------------
Bodies == {<<Preset, n>> : n \in 1..(MaxFaults + 1)} \cup {<<"rego", t>> : t \in Texts \ {Preset, Bad}}
Resources ==
    [uid : 1..MaxChanges, gen : 1..(MaxChanges + 1), text : Texts, del : BOOLEAN,
     fin : BOOLEAN, phase : {"", "Active", "Error", "Pending", "ClassDeleted"}, stamp : Bodies \cup {None}]

\* The pool of goroutines is never exceeded, and the stamp on a resource names a text the
\* controller sent.
TypeOK ==
    /\ cr \in Resources \cup {None} /\ store \in Resources \cup {None}
    /\ Len(jobs) <= Slots
    /\ applied \in Bodies \cup {None}
    /\ api # None => api.text \in Bodies

\* A policy is in the API only under the finalizer's protection: as long as the resource it came
\* from exists, that resource cannot go away before its policy (handlePolicy adds the finalizer
\* before it posts).
FinalizerBeforeStore == (api # None /\ cr # None /\ api.uid = cr.uid) => cr.fin

\* No request was overtaken by one issued later, and no deletion was given up.
InOrder == ~overtaken /\ ~abandoned /\ net = {}
\* Nothing is recorded, on the resource or as a failure, of an earlier resource of the name.
OwnRecords == ~misplaced /\ (IF failed = None \/ cr = None THEN TRUE ELSE failed.uid = cr.uid)

Settled ==
    IF cr = None THEN api = None
    ELSE (cr.text # Bad /\ ~cr.del /\ cr.phase # "ClassDeleted") =>
            (api # None /\ api.text = TextOf(cr) /\ cr.phase = "Active")

SettledInOrder == (InOrder /\ ~unstamped /\ OwnRecords) => Settled

\* Once nothing fails any more, the API comes to hold what a valid resource says and the resource to
\* be Active, and a resource that was deleted comes to be gone with its policy, a failed status write
\* notwithstanding (policyRetryWorker, the informer's resync): unless a request was carried out after
\* a later one or after its client gave up, the last attempt to delete a policy failed or found no
\* slot, the process restarted with the resource already gone, a carried-out request was not stamped
\* (the write failed, or a restart came first), or an outcome was recorded for another resource of
\* the name.  What is latched by a deleted class and
\* what is being deleted is left out.
Converges == <>[]SettledInOrder

\* What stampAppliedRego's comment says: a missed stamp costs one more sync.  Refuted: when the
\* resource goes back to the text of the stamp it still bears, the sweep finds it Active and not
\* drifted, and the API keeps the text whose stamp was missed.
MissedStampIsHarmless == <>[]((InOrder /\ OwnRecords) => Settled)

\* What policyRetryWorker's comment promises: a sync that fails transiently is retried.  Refuted:
\* failedGenMap is keyed by namespace and name, so a failure of a resource since deleted also
\* silences the one created after it at the same generation.
TransientsAreRetried == <>[]((InOrder /\ ~unstamped /\ ~misplaced) => Settled)
=============================================================================
