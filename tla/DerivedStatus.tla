---------------------------- MODULE DerivedStatus ----------------------------
(***************************************************************************)
(* webhook/controller.go: what the controller derives for NrvqClass and    *)
(* NrvqConfig from the policies it has cached.  Events of classes and of   *)
(* the config wait in bounded queues for one worker each; a change of a    *)
(* policy raises a flag, and the sweep that finds it raised queues every   *)
(* class and the config again.  The config also names the image of the     *)
(* injected sidecar.                                                       *)
(***************************************************************************)
EXTENDS Naturals, Sequences, FiniteSets, SequencesExt

CONSTANTS
    Policies, Classes,
    Pinned, Refused,   \* images a config may name: usable ones, and mutable or foreign ones
    Limit,             \* capacity of the queues
    MaxChanges, MaxFaults  \* bounds

VARIABLES
    policy,     \* the cached policies: the class each targets, "none" for no policy
    noticed,    \* no change of the cache is waiting for its handler
    stale,      \* derivedStatusStale
    exists,     \* the classes there are
    classes,    \* classQueue
    counting,   \* what classWorker is about to write: <<class, count>>, or <<>>
    count,      \* per class: status.policyCount
    config,     \* <<image>> of the config "default", "none" for no image; <<>> for no config
    configs,    \* configQueue: copies of the config
    total,      \* the config's status.totalPolicies
    image,      \* RuntimeConfig: the image the injector uses
    missed,     \* ghost: resources whose last event was dropped or whose last write failed
    changes, faults
vars == <<policy, noticed, stale, exists, classes, counting, count, config, configs, total, image, missed, changes, faults>>

Init ==
    /\ policy = [p \in Policies |-> "none"] /\ noticed = TRUE /\ stale = FALSE
    /\ exists = {} /\ classes = <<>> /\ counting = <<>> /\ count = [c \in Classes |-> 0]
    /\ config = <<>> /\ configs = <<>> /\ total = 0 /\ image = "default"
    /\ missed = {} /\ changes = 0 /\ faults = 0

Counted(c) == Cardinality({p \in Policies : policy[p] = c})
Total == Cardinality({p \in Policies : policy[p] # "none"})
Change == changes < MaxChanges /\ changes' = changes + 1

\* The informer changes its cache, then calls the handler, which raises the flag
\* (handlePolicy, handlePolicyDelete).
PolicyChanges(p, c) ==
    /\ Change /\ policy[p] # c
    /\ policy' = [policy EXCEPT ![p] = c]
    /\ noticed' = FALSE
    /\ UNCHANGED <<stale, exists, classes, counting, count, config, configs, total, image, missed, faults>>
\* Faulty variant: a deletion does not raise the flag.
Raises_CreationsOnly == stale \/ Total > 0
Raises == TRUE
HandlePolicy ==
    /\ ~ noticed /\ noticed' = TRUE
    /\ stale' = Raises
    /\ UNCHANGED <<policy, exists, classes, counting, count, config, configs, total, image, missed, changes, faults>>

\* A send to a full queue is skipped.
Sent(q, x) == IF Len(q) < Limit THEN Append(q, x) ELSE q
Drops(q) == Len(q) >= Limit

HandleClassEvent(c) ==
    /\ Change /\ c \notin exists
    /\ exists' = exists \cup {c} /\ count' = [count EXCEPT ![c] = 0]
    /\ classes' = Sent(classes, c)
    /\ missed' = IF Drops(classes) THEN missed \cup {c} ELSE missed \ {c}
    /\ UNCHANGED <<policy, noticed, stale, counting, config, configs, total, image, faults>>
\* What the deletion does to the class's policies is CrdController's.
HandleClassDelete(c) ==
    /\ Change /\ c \in exists
    /\ exists' = exists \ {c}
    /\ UNCHANGED <<policy, noticed, stale, classes, counting, count, config, configs, total, image, missed, faults>>
HandleConfigEvent(i) ==
    /\ Change /\ config # <<i>>
    /\ config' = <<i>> /\ total' = IF config = <<>> THEN 0 ELSE total
    /\ configs' = Sent(configs, i)
    /\ missed' = IF Drops(configs) THEN missed \cup {"config"} ELSE missed \ {"config"}
    /\ UNCHANGED <<policy, noticed, stale, exists, classes, counting, count, image, faults>>
\* A copy that is still queued is worked on after the deletion.
HandleConfigDelete ==
    /\ Change /\ config # <<>>
    /\ config' = <<>> /\ image' = "default"
    /\ missed' = IF configs # <<>> THEN missed \cup {"config"} ELSE missed \ {"config"}
    /\ UNCHANGED <<policy, noticed, stale, exists, classes, counting, count, configs, total, faults>>

\* refreshDerivedStatusIfStale: the flag is lowered first, and raised again when a
\* send was skipped. The store lists the classes in any order.
\* Faulty variant: a skipped send is forgotten.
Rearmed_Not(full) == FALSE
Rearmed(full) == full
Refresh(cs) ==
    LET room == Limit - Len(classes)
        taken == SubSeq(cs, 1, IF Len(cs) < room THEN Len(cs) ELSE room)
        full == Len(cs) > room \/ (config # <<>> /\ Drops(configs))
    IN /\ stale
       /\ stale' = Rearmed(full)
       /\ classes' = classes \o taken
       /\ configs' = IF config = <<>> THEN configs ELSE Sent(configs, config[1])
       /\ missed' = missed \ (Range(taken) \cup (IF config = <<>> \/ Drops(configs) THEN {} ELSE {"config"}))
       /\ UNCHANGED <<policy, noticed, exists, counting, count, config, total, image, changes, faults>>

\* classWorker: the policies are counted, then the status is read and written.
ProcessClass ==
    /\ classes # <<>> /\ counting = <<>>
    /\ classes' = Tail(classes)
    /\ counting' = <<Head(classes), Counted(Head(classes))>>
    /\ UNCHANGED <<policy, noticed, stale, exists, count, config, configs, total, image, missed, changes, faults>>
WriteCount ==
    /\ counting # <<>> /\ counting' = <<>>
    /\ count' = IF counting[1] \in exists THEN [count EXCEPT ![counting[1]] = counting[2]] ELSE count
    /\ UNCHANGED <<policy, noticed, stale, exists, classes, config, configs, total, image, missed, changes, faults>>
WriteFails ==
    /\ counting # <<>> /\ counting' = <<>>
    /\ faults < MaxFaults /\ faults' = faults + 1
    /\ missed' = missed \cup {counting[1]}
    /\ UNCHANGED <<policy, noticed, stale, exists, classes, count, config, configs, total, image, changes>>

\* configWorker: an image that is not allowed, mutable or absent changes nothing.
SetsImage(i) == i \in Pinned
TakeConfig ==
    LET i == Head(configs) IN
    /\ configs # <<>> /\ configs' = Tail(configs)
    /\ image' = IF SetsImage(i) THEN i ELSE image
    /\ UNCHANGED <<policy, noticed, stale, exists, classes, counting, count, config, changes>>
ProcessConfig ==
    /\ TakeConfig
    /\ total' = IF config = <<>> THEN total ELSE Total
    /\ UNCHANGED <<missed, faults>>
ConfigWriteFails ==
    /\ TakeConfig
    /\ faults < MaxFaults /\ faults' = faults + 1
    /\ missed' = missed \cup {"config"}
    /\ UNCHANGED total

Next ==
    \/ \E p \in Policies, c \in Classes \cup {"none"} : PolicyChanges(p, c)
    \/ HandlePolicy
    \/ \E cs \in SetToSeqs(exists) : Refresh(cs)
    \/ \E c \in Classes : HandleClassEvent(c) \/ HandleClassDelete(c)
    \/ \E i \in Pinned \cup Refused \cup {"none"} : HandleConfigEvent(i)
    \/ HandleConfigDelete
    \/ ProcessClass \/ WriteCount \/ WriteFails \/ ProcessConfig \/ ConfigWriteFails
Spec == Init /\ [][Next]_vars

\* The informer's handlers, the ticker and the two workers run as long as the
\* controller does. The ticks do not follow the workers, and the store's order is
\* a map's: no class comes last, and no tick finds the queue full, every time.
SweepBegins(c) == \E cs \in SetToSeqs(exists) : cs # <<>> /\ cs[1] = c /\ Refresh(cs)
SweepSends(x) == IF x = "config" THEN ~ Drops(configs) /\ \E cs \in SetToSeqs(exists) : Refresh(cs)
                 ELSE ~ Drops(classes) /\ SweepBegins(x)
Fairness ==
    /\ WF_vars(HandlePolicy) /\ WF_vars(ProcessClass) /\ WF_vars(WriteCount) /\ WF_vars(ProcessConfig)
    /\ \A x \in Classes \cup {"config"} : SF_vars(SweepSends(x))
FairSpec == Spec /\ Fairness

-----------------------------------------------------------------------------
(* Properties *)

\* The image is the default or a pinned one, whatever a config names.
TypeOK ==
    /\ policy \in [Policies -> Classes \cup {"none"}] /\ count \in [Classes -> 0..Cardinality(Policies)]
    /\ exists \subseteq Classes /\ classes \in BoundedSeq(Classes, Limit)
    /\ configs \in BoundedSeq(Pinned \cup Refused \cup {"none"}, Limit)
    /\ image \in Pinned \cup {"default"} /\ total \in 0..Cardinality(Policies)

Refreshed ==
    /\ \A c \in exists \ missed : count[c] = Counted(c)
    /\ "config" \notin missed =>
         /\ config # <<>> => total = Total
         /\ config = <<>> => image = "default"
         /\ \A i \in Pinned : config = <<i>> => image = i

\* "re-arm the flag so the next tick retries, instead of silently losing the
\* refresh for good" (controller.go:409): every count comes to be the number of
\* cached policies, and the image the one the config names, except where an event
\* was dropped by a full queue, a status write failed, or the config was deleted
\* with copies of it still queued.
CountsConverge == <>[]Refreshed

\* handleConfigDelete gives the sidecar its default image back. Refuted: a copy of
\* the config still queued when it is deleted sets the deleted image again.
DeletedIsReset == <>[](config = <<>> => image = "default")
==============================================================================
