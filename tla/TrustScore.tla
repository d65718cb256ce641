----------------------------- MODULE TrustScore ------------------------------
(***************************************************************************)
(* engine/trust: the score of one call, from the agent's history of the    *)
(* last hour and its profile, the freeze and the admin's cap.  Scores are  *)
(* in thousandths and signals in tenths, so that the weighted sum, in      *)
(* hundredths of a weight, is exact.  A history is given by its counts:    *)
(* the calls let through, the distinct refusals, and the repetitions of    *)
(* refused calls.                                                          *)
(***************************************************************************)
EXTENDS Integers, Sequences, FiniteSets

CONSTANTS
    Counts,            \* histories: [allowed, refused, repeated, recent, strange]
    MinObservations,   \* _MIN_OBSERVATIONS_FOR_CAP
    BaselineRpm,       \* calls a minute the profile takes for normal
    Usual,             \* entropies the profile knows: [mean, std], in tenths of a bit
    Thresholds, Caps,  \* bounds: thresholds of a namespace and admin caps, -1 for none
    Outages            \* bounds: the sets of reads that may fail together

VARIABLES in, out
vars == <<in, out>>

\* What is read for a call, each on its own. On the path without the per-pod cache the
\* freeze comes with the profile, and is read alone when that read fails.
Lookups == {"history", "profile", "freeze", "cap"}

\* What a call is judged on. Of the history, recent entries fall in the last
\* minute and strange ones, of the last twenty, name tools the profile does not
\* know; minutes: since the last distinct refusal; entropy: of the parameters,
\* in tenths of a bit; fails: what cannot be read.
Inputs ==
    [history : Counts, minutes : {0, 60}, knows : {"nothing", "tool", "others"},
     scope : {"open", "allowed", "blocked", "other"}, entropy : {10, 48}, usual : Usual, depth : {0, 4},
     frozen : BOOLEAN, cap : Caps, threshold : Thresholds, fails : Outages]

-----------------------------------------------------------------------------
\* _safe_history: an unreadable history is twenty refusals with no call to name.
Unreadable == [allowed |-> 0, refused |-> 20, repeated |-> 0, recent |-> 20, strange |-> 20]
\* Faulty variant: it is no history.
SafeHistory_Empty(i) ==
    IF "history" \in i.fails THEN [allowed |-> 0, refused |-> 0, repeated |-> 0, recent |-> 0, strange |-> 0] ELSE i.history
SafeHistory(i) == IF "history" \in i.fails THEN Unreadable ELSE i.history

\* Faulty variant: retries of a refused call count again.
Collapsed_Not(h) == [allowed |-> h.allowed, refused |-> h.refused + h.repeated]
Collapsed(h) == [allowed |-> h.allowed, refused |-> h.refused]
Observed(h) == Collapsed(h).allowed + Collapsed(h).refused

\* The signals, in tenths.
ViolationRate(h) ==
    LET r == Collapsed(h).refused  n == Observed(h) IN
    IF r = 0 THEN 10 ELSE IF 50 * r <= n THEN 8 ELSE IF 20 * r <= n THEN 6
    ELSE IF 10 * r <= n THEN 4 ELSE IF 5 * r <= n THEN 2 ELSE 0
TimeDecay(i, h) ==
    IF Collapsed(h).refused = 0 THEN 10
    ELSE LET m == IF "history" \in i.fails THEN 0 ELSE i.minutes IN
         IF m >= 1440 THEN 10 ELSE IF m >= 720 THEN 8 ELSE IF m >= 360 THEN 6
         ELSE IF m >= 60 THEN 4 ELSE IF m >= 10 THEN 2 ELSE 1
\* A profile that cannot be read knows nothing, forbids this tool, expects one
\* call a minute and parameters of one bit.
Recent(h) == LET n == h.allowed + h.refused + h.repeated IN IF n < 20 THEN n ELSE 20
ToolNovelty(i, h) ==
    LET extra == IF i.knows = "tool" THEN 0 ELSE 1
        novel == h.strange + extra
        all == IF Recent(h) + extra < 1 THEN 1 ELSE Recent(h) + extra
        by(low, some, many) == IF 10 * novel <= all THEN low ELSE IF 10 * novel <= 3 * all THEN some ELSE many
    IN IF i.knows = "nothing" \/ "profile" \in i.fails THEN 5
       ELSE IF i.knows = "tool" THEN by(10, 7, 5) ELSE by(7, 4, 2)
ScopeDrift(i) ==
    IF "profile" \in i.fails \/ i.scope = "blocked" THEN 0
    ELSE IF i.scope = "open" THEN 7 ELSE IF i.scope = "allowed" THEN 10 ELSE 5
ParamEntropy(i) ==
    LET mean == IF "profile" \in i.fails THEN 10 ELSE i.usual.mean
        std == IF "profile" \in i.fails THEN 2 ELSE i.usual.std
    IN IF i.entropy <= mean + std THEN 10 ELSE IF i.entropy <= mean + 2 * std THEN 7
       ELSE IF i.entropy <= mean + 3 * std THEN 4 ELSE 2
ChainDepth(i) == IF i.depth <= 3 THEN 10 - 2 * i.depth ELSE 2
SessionVelocity(i, h) ==
    LET calls == h.recent + 1
        base == IF "profile" \in i.fails THEN 1 ELSE BaselineRpm
    IN IF calls <= base THEN 10 ELSE IF calls <= 2 * base THEN 8 ELSE IF calls <= 3 * base THEN 5 ELSE 3

Weighted(i, h) ==
    25 * ViolationRate(h) + 20 * ToolNovelty(i, h) + 15 * ScopeDrift(i) + 15 * ParamEntropy(i)
    + 10 * TimeDecay(i, h) + 10 * ChainDepth(i) + 5 * SessionVelocity(i, h)

\* Faulty variant: a rate over any number of calls caps.
ViolationCap_AnySample(h) ==
    CASE ViolationRate(h) <= 0 -> 300 [] ViolationRate(h) = 2 -> 450 [] ViolationRate(h) = 4 -> 600 [] OTHER -> 1000
\* Faulty variant: two entries of the table of caps are swapped.
ViolationCap_Swapped(h) ==
    IF Observed(h) < MinObservations THEN 1000
    ELSE CASE ViolationRate(h) <= 0 -> 300 [] ViolationRate(h) = 2 -> 600 [] ViolationRate(h) = 4 -> 450
           [] OTHER -> 1000
ViolationCap(h) ==
    LET rate == ViolationRate(h) IN
    IF Observed(h) < MinObservations THEN 1000
    ELSE IF rate <= 0 THEN 300 ELSE IF rate = 2 THEN 450 ELSE IF rate = 4 THEN 600 ELSE 1000
WeightedSum(i, h) == LET w == Weighted(i, h)  c == ViolationCap(h) IN IF w < c THEN w ELSE c

\* The freeze fails closed; the cap, a read of its own, fails open.
\* Faulty variant: the freeze fails open too.
Frozen_Open(i) == i.frozen /\ "freeze" \notin i.fails
Frozen(i) == i.frozen \/ "freeze" \in i.fails
Override(i) == IF "cap" \in i.fails THEN -1 ELSE i.cap
Score(i) ==
    LET s == WeightedSum(i, SafeHistory(i)) IN
    IF Frozen(i) THEN 0 ELSE IF Override(i) >= 0 /\ Override(i) < s THEN Override(i) ELSE s
High(i) == IF i.threshold = -1 THEN 700 ELSE i.threshold
Low(i) == IF i.threshold = -1 THEN 400 ELSE (i.threshold * 4) \div 7
Categorize(i, score) ==
    IF Frozen(i) THEN "frozen" ELSE IF score = 0 THEN "low"
    ELSE IF score >= High(i) THEN "high" ELSE IF score >= Low(i) THEN "medium" ELSE "low"

-----------------------------------------------------------------------------
Init == in \in Inputs /\ out = <<>>
Calculate ==
    /\ out = <<>>
    /\ out' = <<[score |-> Score(in), category |-> Categorize(in, Score(in))]>>
    /\ UNCHANGED in
Next == Calculate
Spec == Init /\ [][Next]_vars

-----------------------------------------------------------------------------
(* Properties *)

\* "It just cannot be forced into the escalation band by a single event"
\* (calculator.py:329): with no cap by an admin and everything readable, one refused call,
\* however often it is retried and however many calls the history holds, leaves
\* the score of an agent that is not frozen at the weighted sum of its signals.
OneRefusalNeverCaps ==
    out # <<>> /\ in.fails = {} /\ ~ in.frozen /\ in.history.refused <= 1 /\ in.cap = -1 =>
        out[1].score = Weighted(in, in.history)

\* An agent refused more than one call in five, over enough distinct calls, and
\* one whose history cannot be read, is held for approval under the default
\* tiers whatever its other signals say and whatever else cannot be read.
SustainedRefusalsEscalate ==
    out # <<>> /\ in.threshold = -1
    /\ (\/ "history" \in in.fails
        \/ /\ in.history.allowed + in.history.refused >= MinObservations
           /\ 5 * in.history.refused > in.history.allowed + in.history.refused)
        => out[1].category \in {"low", "frozen"}

\* The same call with everything readable; a cap that could not be read is not set.
Readable(i) == [i EXCEPT !.fails = {}, !.cap = IF "cap" \in i.fails THEN -1 ELSE @]

\* Whatever cannot be read, a call is rated high under the default tiers only if it
\* would not be held with everything readable. The cap is left out: it fails open,
\* so an agent held by the cap alone is rated by its behaviour while the cap cannot be
\* read ("the cap merely reverts to the computed behavior", _safe_override_only).
OutagesLiftOnlyTheCap ==
    out # <<>> /\ in.threshold = -1 /\ out[1].category = "high" =>
        Categorize(Readable(in), Score(Readable(in))) \notin {"low", "frozen"}

\* One more distinct refusal, just now, of a tool the profile knows or does not:
\* it may push a strange or a known call out of the last twenty.
Refusal(h, strange) == [h EXCEPT !.refused = @ + 1, !.recent = @ + 1, !.strange = strange]
Refused(i, known) ==
    {[i EXCEPT !.minutes = 0, !.history = Refusal(i.history, s)] :
        s \in LET h == i.history  new == h.strange + (IF known THEN 0 ELSE 1) IN
              IF Recent(h) < 20 THEN {new}
              ELSE {n \in {new, new - 1} : n = new => h.strange < 20} \ {-1}}

\* One more refusal of a tool the profile does not know never raises the score. One
\* of a tool it knows may: it dilutes the strange calls among the last twenty
\* (ToolNoveltySignal counts refused calls too), but by one step of the novelty
\* signal at most, 60 thousandths.
RefusalsRaiseOnlyFamiliarity ==
    out # <<>> =>
        /\ \A j \in Refused(in, FALSE) : Score(j) <= out[1].score
        /\ \A j \in Refused(in, TRUE) : Score(j) <= out[1].score + 60
==============================================================================
