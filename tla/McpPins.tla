------------------------------- MODULE McpPins -------------------------------
(***************************************************************************)
(* The pinned tool definitions of one MCP server, as several firewall      *)
(* proxies (norviq/mcp/pins.py, servers.py, firewall.py, stdio.py) and the *)
(* control plane (norviq/api/routers/mcp.py) keep them.  The server serves *)
(* one tool, whose definition is its digest.  A proxy reads the control    *)
(* plane by polling, decides a listing from its own copy, and reports what *)
(* it saw in the background; a tool call reads the frozen catalogue entry. *)
(***************************************************************************)
EXTENDS Naturals, FiniteSets, TLAPS

CONSTANTS
    Proxies, Digests,
    Flagged,        \* the definitions whose scan reaches the strip severity
    None,
    MaxChanges,     \* bound: how often the server changes its definition
    MaxOps,         \* bound: operator requests
    MaxFaults       \* bound: failed calls and restarts

ASSUME BoundsAssumption == MaxChanges \in Nat /\ MaxOps \in Nat /\ MaxFaults \in Nat

VARIABLES
    mode,           \* settings.mcp_pin_mode, the same for every proxy
    row,            \* the McpToolPin row
    decision,       \* the status of the McpServer row; no row is reachable
    served,         \* the definition the server serves
    pins,           \* per proxy: its ControlPlanePinStore._pins
    degraded, pending,
    known,          \* per proxy: the server decision its registry holds
    fetch,          \* per proxy: the answer of a load() in flight ({}: none in flight)
    catalog,        \* per proxy: the CatalogEntry of the tool
    reported,       \* per proxy: _reported_fingerprint
    reports,        \* flush tasks and the observe requests they send
    blessed,        \* history: definitions an operator approved or a first listing trusted
    changes, ops, faults

plane == <<row, decision>>
proxy == <<pins, degraded, pending, known, fetch, catalog, reported>>
vars == <<mode, plane, served, proxy, reports, blessed, changes, ops, faults>>

Pin == [digest : Digests, approved : BOOLEAN]
Row == [approved_digest : Digests, last_digest : Digests, approved : BOOLEAN]
Decisions == {"reachable", "blocked"}   \* discovered and registered servers are both reachable
Statuses == {"first_seen", "quarantined", "pinned", "drift"}
Entry == [digest : Digests, status : Statuses, action : {"pass", "strip"}]
Report == [from : Proxies, digest : Digests, sent : BOOLEAN]

Init ==
    /\ mode \in {"tofu", "strict"}
    /\ row = None /\ decision = "reachable"
    /\ served \in Digests
    /\ pins = [p \in Proxies |-> None]
    /\ degraded = [p \in Proxies |-> FALSE]
    /\ pending = [p \in Proxies |-> FALSE]
    /\ known = [p \in Proxies |-> "reachable"]
    /\ fetch = [p \in Proxies |-> {}]
    /\ catalog = [p \in Proxies |-> None]
    /\ reported = [p \in Proxies |-> None]
    /\ reports = {} /\ blessed = {}
    /\ changes = 0 /\ ops = 0 /\ faults = 0

Fault == faults < MaxFaults /\ faults' = faults + 1
Operate == ops < MaxOps /\ ops' = ops + 1

-----------------------------------------------------------------------------
(* The proxy. *)

\* The status PinRegistry.check gives definition d.
StatusOf(pin, d) ==
    IF pin = None THEN IF mode = "tofu" THEN "first_seen" ELSE "quarantined"
    ELSE IF pin.digest # d THEN "drift"
    ELSE IF pin.approved THEN "pinned" ELSE "quarantined"

\* Faulty variant: drift re-pins the tool to the new definition.
PinAfter_Repins(pin, d) ==
    IF pin = None \/ pin.digest # d THEN [digest |-> d, approved |-> mode = "tofu"] ELSE pin

\* Faulty variant: a first listing is trusted in strict mode as well.
PinAfter_AlwaysTrusts(pin, d) == IF pin = None THEN [digest |-> d, approved |-> TRUE] ELSE pin

\* The record PinRegistry.check leaves: drift keeps the approved digest.
PinAfter(pin, d) == IF pin = None THEN [digest |-> d, approved |-> mode = "tofu"] ELSE pin

\* _action_for: drift, quarantine or a severe finding strips the tool from the list.
ActionFor(status, d) == IF status \in {"drift", "quarantined"} \/ d \in Flagged THEN "strip" ELSE "pass"

CallDenied(e) == e.status \in {"drift", "quarantined"} \/ e.action = "strip"

\* catalog_report_due: the catalogue's fingerprint is remembered before it is reported.
ReportDue(p, d) ==
    IF reported[p] = d THEN UNCHANGED <<reported, reports>>
    ELSE /\ reported' = [reported EXCEPT ![p] = d]
         /\ reports' = reports \cup {[from |-> p, digest |-> d, sent |-> FALSE]}

\* _gate_a_tools_list for a reachable server, then _report_catalog.
List(p) ==
    /\ known[p] # "blocked"
    /\ LET s == StatusOf(pins[p], served) IN
         /\ pins' = [pins EXCEPT ![p] = PinAfter(@, served)]
         /\ pending' = [pending EXCEPT ![p] = @ \/ s = "drift" \/ pins[p] = None]
         /\ catalog' = [catalog EXCEPT ![p] =
                [digest |-> served, status |-> s, action |-> ActionFor(s, served)]]
         /\ blessed' = IF s = "first_seen" THEN blessed \cup {served} ELSE blessed
    /\ ReportDue(p, served)
    /\ UNCHANGED <<mode, plane, served, degraded, known, fetch, changes, ops, faults>>

\* The listing of a blocked server is answered empty; the catalogue keeps its entry, and a
\* proxy that never listed has nothing to report.
ListBlocked(p) ==
    /\ known[p] = "blocked"
    /\ IF catalog[p] = None THEN UNCHANGED <<reported, reports>> ELSE ReportDue(p, catalog[p].digest)
    /\ UNCHANGED <<mode, plane, served, pins, degraded, pending, known, fetch, catalog, blessed,
                   changes, ops, faults>>

\* flush up to its await: a degraded store, or one with nothing pending, drops the report.
FlushStart(r) ==
    /\ r \in reports /\ ~r.sent
    /\ pending' = [pending EXCEPT ![r.from] = FALSE]
    /\ reports' = (reports \ {r}) \cup
         IF degraded[r.from] \/ ~pending[r.from] THEN {} ELSE {[r EXCEPT !.sent = TRUE]}
    /\ UNCHANGED <<mode, plane, served, pins, degraded, known, fetch, catalog, reported, blessed,
                   changes, ops, faults>>

\* load: the control plane answers with its row, or with no row.
LoadRead(p) ==
    /\ fetch[p] = {}
    /\ fetch' = [fetch EXCEPT ![p] = {row}]
    /\ UNCHANGED <<mode, plane, served, pins, degraded, pending, known, catalog, reported, reports,
                   blessed, changes, ops, faults>>

\* Faulty variant: a loaded row only fills a pin the proxy does not have.
Loaded_FillsOnly(p) ==
    IF None \in fetch[p] \/ pins[p] # None THEN pins[p]
    ELSE LET r == CHOOSE r \in fetch[p] : TRUE IN [digest |-> r.approved_digest, approved |-> r.approved]

\* Every row answered replaces the pin; a row that is gone leaves it.
Loaded(p) ==
    IF None \in fetch[p] THEN pins[p]
    ELSE LET r == CHOOSE r \in fetch[p] : TRUE IN [digest |-> r.approved_digest, approved |-> r.approved]

LoadApply(p) ==
    /\ fetch[p] # {}
    /\ pins' = [pins EXCEPT ![p] = Loaded(p)]
    /\ degraded' = [degraded EXCEPT ![p] = FALSE]
    /\ fetch' = [fetch EXCEPT ![p] = {}]
    /\ UNCHANGED <<mode, plane, served, pending, known, catalog, reported, reports, blessed,
                   changes, ops, faults>>

\* A failed load keeps the copy and marks it degraded.
LoadFails(p) ==
    /\ Fault
    /\ degraded' = [degraded EXCEPT ![p] = TRUE]
    /\ fetch' = [fetch EXCEPT ![p] = {}]
    /\ UNCHANGED <<mode, plane, served, pins, pending, known, catalog, reported, reports, blessed,
                   changes, ops>>

\* ControlPlaneServerStore.load replaces the decisions; a failed one keeps them (no step).
LoadServers(p) ==
    /\ known' = [known EXCEPT ![p] = decision]
    /\ UNCHANGED <<mode, plane, served, pins, degraded, pending, fetch, catalog, reported, reports,
                   blessed, changes, ops, faults>>

\* _shutdown reports the catalogue once more; the next process starts empty and its first
\* loads have succeeded or failed.  Reports not yet sent die with the process.
Restart(p) ==
    /\ Fault
    /\ \E ok \in BOOLEAN :
         /\ pins' = [pins EXCEPT ![p] =
                IF ok /\ row # None THEN [digest |-> row.approved_digest, approved |-> row.approved] ELSE None]
         /\ degraded' = [degraded EXCEPT ![p] = ~ok]
         /\ known' = [known EXCEPT ![p] = IF ok THEN decision ELSE "reachable"]
    /\ pending' = [pending EXCEPT ![p] = FALSE]
    /\ fetch' = [fetch EXCEPT ![p] = {}]
    /\ catalog' = [catalog EXCEPT ![p] = None]
    /\ reported' = [reported EXCEPT ![p] = None]
    /\ LET own == {r \in reports : r.from = p /\ ~r.sent}
           last == IF pending[p] /\ ~degraded[p] /\ catalog[p] # None
                   THEN {[from |-> p, digest |-> catalog[p].digest, sent |-> TRUE]} ELSE {}
       IN reports' = (reports \ own) \cup last
    /\ UNCHANGED <<mode, plane, served, blessed, changes, ops>>

-----------------------------------------------------------------------------
(* The server and the control plane.  A request on the one row is one transaction. *)

ServerChanges ==
    /\ changes < MaxChanges /\ changes' = changes + 1
    /\ served' \in Digests \ {served}
    /\ UNCHANGED <<mode, plane, proxy, reports, blessed, ops, faults>>

\* observe: an unknown tool is recorded (trusted in tofu mode); a known one gets last_digest only.
Recorded(d) ==
    /\ row' = IF row = None
              THEN [approved_digest |-> d, last_digest |-> d, approved |-> mode = "tofu"]
              ELSE [row EXCEPT !.last_digest = d]
    /\ blessed' = IF row = None /\ mode = "tofu" THEN blessed \cup {d} ELSE blessed

Observe(r) ==
    /\ r \in reports /\ r.sent
    /\ Recorded(r.digest)
    /\ reports' = reports \ {r}
    /\ UNCHANGED <<mode, decision, served, proxy, changes, ops, faults>>

\* A proxy outside Proxies reports a definition it was served at some time.
PeerReports(d) ==
    /\ Recorded(d)
    /\ UNCHANGED <<mode, decision, served, proxy, reports, changes, ops, faults>>

\* The request or its commit fails; flush logs and forgets it.
ReportLost(r) ==
    /\ r \in reports /\ r.sent /\ Fault
    /\ reports' = reports \ {r}
    /\ UNCHANGED <<mode, plane, served, proxy, blessed, changes, ops>>

\* approve_pin: only the approved or the last reported digest can be approved.
ApprovePin(d) ==
    /\ Operate
    /\ row # None /\ d \in {row.approved_digest, row.last_digest}
    /\ row' = [row EXCEPT !.approved_digest = d, !.approved = TRUE]
    /\ blessed' = blessed \cup {d}
    /\ UNCHANGED <<mode, decision, served, proxy, reports, changes, faults>>

RevokePin ==
    /\ Operate
    /\ row # None
    /\ row' = [row EXCEPT !.approved = FALSE]
    /\ UNCHANGED <<mode, decision, served, proxy, reports, blessed, changes, faults>>

\* decide_server; the compiled registry policy it refreshes is modelled in ManagedScopes.
DecideServer(status) ==
    /\ Operate
    /\ decision' = status
    /\ UNCHANGED <<mode, row, served, proxy, reports, blessed, changes, faults>>

\* forget_server deletes the pin, and the decision unless it is a block.
ForgetServer ==
    /\ Operate
    /\ row' = None
    /\ decision' = IF decision = "blocked" THEN "blocked" ELSE "reachable"
    /\ UNCHANGED <<mode, served, proxy, reports, blessed, changes, faults>>

Next ==
    \/ \E p \in Proxies : \/ List(p) \/ ListBlocked(p) \/ LoadRead(p) \/ LoadApply(p) \/ LoadFails(p)
                          \/ LoadServers(p) \/ Restart(p)
    \/ \E r \in reports : FlushStart(r) \/ Observe(r) \/ ReportLost(r)
    \/ ServerChanges
    \/ \E d \in Digests : ApprovePin(d) \/ PeerReports(d)
    \/ RevokePin
    \/ \E s \in Decisions : DecideServer(s)
    \/ ForgetServer

Spec == Init /\ [][Next]_vars

\* The refresh loops and the flush tasks run, sent requests are answered, and a client that
\* keeps using the server lists its tools again.
Fairness ==
    /\ \A p \in Proxies :
         /\ WF_vars(LoadRead(p)) /\ WF_vars(LoadApply(p)) /\ WF_vars(LoadServers(p))
         /\ WF_vars(List(p) \/ ListBlocked(p))
    /\ \A p \in Proxies, d \in Digests, s \in BOOLEAN :
         LET r == [from |-> p, digest |-> d, sent |-> s] IN WF_vars(FlushStart(r) \/ Observe(r))

FairSpec == Spec /\ Fairness

-----------------------------------------------------------------------------

TypeOK ==
    /\ mode \in {"tofu", "strict"}
    /\ row \in Row \cup {None} /\ decision \in Decisions
    /\ served \in Digests
    /\ pins \in [Proxies -> Pin \cup {None}]
    /\ degraded \in [Proxies -> BOOLEAN] /\ pending \in [Proxies -> BOOLEAN]
    /\ known \in [Proxies -> Decisions]
    /\ fetch \in [Proxies -> SUBSET (Row \cup {None})]
    /\ catalog \in [Proxies -> Entry \cup {None}]
    /\ reported \in [Proxies -> Digests \cup {None}]
    /\ reports \subseteq Report
    /\ blessed \subseteq Digests
    /\ changes \in 0..MaxChanges /\ ops \in 0..MaxOps /\ faults \in 0..MaxFaults

Callable(p) == catalog[p] # None /\ ~CallDenied(catalog[p])

\* However listings, reports, reloads, approvals, forgotten servers and restarts of several
\* proxies interleave, a definition a proxy lists and lets be called is one that an operator
\* approved or that a first listing trusted: a changed definition never slips in with the
\* approval of the old one (PinRegistry.check, observe, approve_pin, load).
CallableWasApproved == \A p \in Proxies : Callable(p) => catalog[p].digest \in blessed \ Flagged

\* In strict mode nothing is trusted on first use, by a proxy or by the control plane: as
\* long as nobody approved a definition, no proxy lists it.
StrictTrustsNothing ==
    mode = "strict" => \A p \in Proxies : pins[p] # None /\ pins[p].approved => pins[p].digest \in blessed

\* A proxy decides as the control plane has stored.
Agreed ==
    \A p \in Proxies :
        /\ known[p] = decision
        /\ decision # "blocked" /\ row # None =>
             /\ catalog[p] # None
             /\ CallDenied(catalog[p]) <=>
                  (~row.approved \/ row.approved_digest # served \/ served \in Flagged)

\* Once the operator, the server and the faults are done, every proxy comes to hold the
\* current server decision and, for a server it may list, to decide the tool as the stored
\* pin says, whatever was loaded, reported or lost in which order on the way (start_refresh,
\* load, flush).
Agreement == <>[]Agreed

\* What start_refresh says of a revocation: a proxy that has reloaded the revoked pin no
\* longer lets the tool be called.  It does until its client lists again, because a call reads
\* the catalogue entry and load() does not touch it.
LoadedRevokeEnforced == \A p \in Proxies : pins[p] # None /\ ~pins[p].approved => ~Callable(p)

-----------------------------------------------------------------------------
(***************************************************************************)
(* A tool an MCP proxy lets be called has a definition that an operator    *)
(* approved or that a first listing trusted, for any number of proxies,    *)
(* definitions, restarts and reports on the way.                           *)
(*                                                                         *)
(* The property is about the catalogue, and is not inductive: a catalogue  *)
(* entry copies the verdict of a pin, a pin copies an answered row, a row  *)
(* in an answer copies the stored row.  Trust says of each of these copies *)
(* what CallableWasApproved says of the last one.                          *)
(***************************************************************************)

\* What vouches for a definition vouches for one that somebody trusted, wherever the verdict is kept.
RowTrusted(r) == r # None /\ r.approved => r.approved_digest \in blessed
PinTrusted(p) == pins[p] # None /\ pins[p].approved => pins[p].digest \in blessed
EntryTrusted(p) ==
    catalog[p] # None => /\ catalog[p].status \in {"first_seen", "pinned"} => catalog[p].digest \in blessed
                         /\ catalog[p].digest \in Flagged => catalog[p].action = "strip"
Trust ==
    /\ RowTrusted(row)
    /\ \A p \in Proxies : PinTrusted(p) /\ EntryTrusted(p) /\ \A r \in fetch[p] : RowTrusted(r)

IndInv == TypeOK /\ Trust

-----------------------------------------------------------------------------
(* Types. *)

\* The status of a definition and the pin it leaves are well typed.
LEMMA CheckTypes ==
  ASSUME TypeOK, NEW pin \in Pin \cup {None}, NEW d \in Digests
  PROVE  /\ StatusOf(pin, d) \in Statuses
         /\ PinAfter(pin, d) \in Pin
         /\ [digest |-> d, status |-> StatusOf(pin, d), action |-> ActionFor(StatusOf(pin, d), d)] \in Entry
<1>1. StatusOf(pin, d) \in Statuses
  BY DEF StatusOf, Statuses
<1>2. PinAfter(pin, d) \in Pin
  BY DEF PinAfter, Pin, TypeOK
<1>3. ActionFor(StatusOf(pin, d), d) \in {"pass", "strip"}
  BY DEF ActionFor
<1> QED
  BY <1>1, <1>2, <1>3 DEF Entry

\* What a load in flight leaves in the pins is well typed.
LEMMA LoadedType ==
  ASSUME TypeOK, NEW p \in Proxies, fetch[p] # {}
  PROVE  /\ Loaded(p) \in Pin \cup {None}
         /\ None \notin fetch[p] =>
               \E r \in fetch[p] : r \in Row /\ Loaded(p) = [digest |-> r.approved_digest, approved |-> r.approved]
<1>1. fetch[p] \in SUBSET (Row \cup {None}) /\ pins[p] \in Pin \cup {None}
  BY DEF TypeOK
<1>2. CASE None \in fetch[p]
  BY <1>1, <1>2 DEF Loaded
<1>3. CASE None \notin fetch[p]
  <2> DEFINE r == CHOOSE r \in fetch[p] : TRUE
  <2>1. r \in fetch[p]
    OBVIOUS
  <2>2. r \in Row
    BY <1>1, <1>3, <2>1
  <2>3. Loaded(p) = [digest |-> r.approved_digest, approved |-> r.approved]
    BY <1>3 DEF Loaded
  <2> HIDE DEF r
  <2>4. Loaded(p) \in Pin
    BY <2>2, <2>3 DEF Row, Pin
  <2> QED
    BY <2>1, <2>2, <2>3, <2>4
<1> QED
  BY <1>2, <1>3

\* A report that is due is one of this proxy.
LEMMA ReportDueType ==
  ASSUME TypeOK, NEW p \in Proxies, NEW d \in Digests, ReportDue(p, d)
  PROVE  reported' \in [Proxies -> Digests \cup {None}] /\ reports' \subseteq Report
<1>1. [from |-> p, digest |-> d, sent |-> FALSE] \in Report
  BY DEF Report
<1>2. CASE reported[p] = d
  BY <1>2 DEF ReportDue, TypeOK
<1>3. CASE reported[p] # d
  BY <1>1, <1>3 DEF ReportDue, TypeOK
<1> QED
  BY <1>2, <1>3

\* The row an observation records is well typed.
LEMMA RecordedType ==
  ASSUME TypeOK, NEW d \in Digests, Recorded(d)
  PROVE  row' \in Row /\ blessed' \subseteq Digests /\ blessed \subseteq blessed'
<1>1. row' \in Row
  BY DEF Recorded, TypeOK, Row
<1> QED
  BY <1>1 DEF Recorded, TypeOK

\* Every step keeps the types.
LEMMA TypeStep == TypeOK /\ [Next]_vars => TypeOK'
<1> SUFFICES ASSUME TypeOK, [Next]_vars PROVE TypeOK'
  OBVIOUS
<1> USE BoundsAssumption
<1>1. ASSUME NEW p \in Proxies, List(p) PROVE TypeOK'
  <2>1. pins[p] \in Pin \cup {None} /\ served \in Digests
    BY DEF TypeOK
  <2>2. reported' \in [Proxies -> Digests \cup {None}] /\ reports' \subseteq Report
    BY <1>1, <2>1, ReportDueType DEF List
  <2>3. pins' \in [Proxies -> Pin \cup {None}] /\ catalog' \in [Proxies -> Entry \cup {None}]
    BY <1>1, <2>1, CheckTypes DEF List, TypeOK
  <2>4. blessed' \subseteq Digests /\ pending' \in [Proxies -> BOOLEAN]
    BY <1>1, <2>1 DEF List, TypeOK
  <2> QED
    BY <1>1, <2>2, <2>3, <2>4 DEF List, plane, TypeOK
<1>2. ASSUME NEW p \in Proxies, ListBlocked(p) PROVE TypeOK'
  <2>1. reported' \in [Proxies -> Digests \cup {None}] /\ reports' \subseteq Report
    <3>1. CASE catalog[p] = None
      BY <1>2, <3>1 DEF ListBlocked, TypeOK
    <3>2. CASE catalog[p] # None
      <4>1. catalog[p].digest \in Digests /\ ReportDue(p, catalog[p].digest)
        BY <1>2, <3>2 DEF ListBlocked, TypeOK, Entry
      <4> QED
        BY <4>1, ReportDueType
    <3> QED
      BY <3>1, <3>2
  <2> QED
    BY <1>2, <2>1 DEF ListBlocked, plane, TypeOK
<1>3. ASSUME NEW p \in Proxies, LoadRead(p) PROVE TypeOK'
  BY <1>3 DEF LoadRead, plane, TypeOK
<1>4. ASSUME NEW p \in Proxies, LoadApply(p) PROVE TypeOK'
  <2>1. Loaded(p) \in Pin \cup {None}
    BY <1>4, LoadedType DEF LoadApply
  <2> QED
    BY <1>4, <2>1 DEF LoadApply, plane, TypeOK
<1>5. ASSUME NEW p \in Proxies, LoadFails(p) PROVE TypeOK'
  BY <1>5 DEF LoadFails, Fault, plane, TypeOK
<1>6. ASSUME NEW p \in Proxies, LoadServers(p) PROVE TypeOK'
  BY <1>6 DEF LoadServers, plane, TypeOK
<1>7. ASSUME NEW p \in Proxies, Restart(p) PROVE TypeOK'
  <2>1. PICK ok \in BOOLEAN :
          /\ pins' = [pins EXCEPT ![p] =
                IF ok /\ row # None THEN [digest |-> row.approved_digest, approved |-> row.approved] ELSE None]
          /\ degraded' = [degraded EXCEPT ![p] = ~ok]
          /\ known' = [known EXCEPT ![p] = IF ok THEN decision ELSE "reachable"]
    BY <1>7 DEF Restart
  <2>2. pins' \in [Proxies -> Pin \cup {None}]
    BY <2>1 DEF TypeOK, Row, Pin
  <2>3. degraded' \in [Proxies -> BOOLEAN] /\ known' \in [Proxies -> Decisions]
    BY <2>1 DEF TypeOK, Decisions
  <2>4. reports' \subseteq Report
    <3>1. catalog[p] # None => [from |-> p, digest |-> catalog[p].digest, sent |-> TRUE] \in Report
      BY DEF TypeOK, Entry, Report
    <3> QED
      BY <1>7, <3>1 DEF Restart, TypeOK
  <2>5. faults' \in 0..MaxFaults
    BY <1>7 DEF Restart, Fault, TypeOK
  <2> QED
    BY <1>7, <2>2, <2>3, <2>4, <2>5 DEF Restart, plane, TypeOK
<1>8. ASSUME NEW r \in reports, FlushStart(r) PROVE TypeOK'
  <2>1. [r EXCEPT !.sent = TRUE] \in Report /\ r.from \in Proxies
    BY DEF TypeOK, Report
  <2> QED
    BY <1>8, <2>1 DEF FlushStart, plane, TypeOK
<1>9. ASSUME NEW r \in reports, Observe(r) PROVE TypeOK'
  <2>1. r.digest \in Digests /\ Recorded(r.digest)
    BY <1>9 DEF TypeOK, Report, Observe
  <2> QED
    BY <1>9, <2>1, RecordedType DEF Observe, proxy, TypeOK
<1>10. ASSUME NEW r \in reports, ReportLost(r) PROVE TypeOK'
  BY <1>10 DEF ReportLost, Fault, plane, proxy, TypeOK
<1>11. CASE ServerChanges
  BY <1>11 DEF ServerChanges, plane, proxy, TypeOK
<1>12. ASSUME NEW d \in Digests, ApprovePin(d) PROVE TypeOK'
  <2>1. row \in Row
    BY <1>12 DEF ApprovePin, TypeOK
  <2>2. row' \in Row
    BY <1>12, <2>1 DEF ApprovePin, Row
  <2> QED
    BY <1>12, <2>2 DEF ApprovePin, Operate, proxy, TypeOK
<1>13. ASSUME NEW d \in Digests, PeerReports(d) PROVE TypeOK'
  <2>1. Recorded(d)
    BY <1>13 DEF PeerReports
  <2> QED
    BY <1>13, <2>1, RecordedType DEF PeerReports, proxy, TypeOK
<1>14. CASE RevokePin
  <2>1. row \in Row
    BY <1>14 DEF RevokePin, TypeOK
  <2>2. row' \in Row
    BY <1>14, <2>1 DEF RevokePin, Row
  <2> QED
    BY <1>14, <2>2 DEF RevokePin, Operate, proxy, TypeOK
<1>15. ASSUME NEW s \in Decisions, DecideServer(s) PROVE TypeOK'
  BY <1>15 DEF DecideServer, Operate, proxy, TypeOK
<1>16. CASE ForgetServer
  BY <1>16 DEF ForgetServer, Operate, proxy, TypeOK, Decisions
<1>17. CASE UNCHANGED vars
  BY <1>17 DEF vars, plane, proxy, TypeOK
<1> QED
  BY <1>1, <1>2, <1>3, <1>4, <1>5, <1>6, <1>7, <1>8, <1>9, <1>10, <1>11, <1>12, <1>13, <1>14, <1>15, <1>16,
     <1>17 DEF Next

-----------------------------------------------------------------------------
(* Trust. *)

\* A definition that is trusted stays so: every copy that is left alone keeps its voucher.
LEMMA Kept ==
  ASSUME Trust, blessed \subseteq blessed', row' = row \/ RowTrusted(row)',
         \A p \in Proxies : \/ pins'[p] = pins[p]
                            \/ PinTrusted(p)',
         \A p \in Proxies : \/ catalog'[p] = catalog[p]
                            \/ EntryTrusted(p)',
         \A p \in Proxies : \/ fetch'[p] \subseteq fetch[p] \cup {row}
  PROVE  Trust'
<1>1. RowTrusted(row)'
  BY DEF Trust, RowTrusted
<1>2. ASSUME NEW p \in Proxies PROVE PinTrusted(p)'
  BY DEF Trust, PinTrusted
<1>3. ASSUME NEW p \in Proxies PROVE EntryTrusted(p)'
  BY DEF Trust, EntryTrusted
<1>4. ASSUME NEW p \in Proxies, NEW r \in fetch'[p]
      PROVE  r # None /\ r.approved => r.approved_digest \in blessed'
  <2>1. r \in fetch[p] \/ r = row
    BY <1>4
  <2> QED
    BY <2>1 DEF Trust, RowTrusted
<1> QED
  BY <1>1, <1>2, <1>3, <1>4 DEF Trust, RowTrusted

\* A row is approved by an observation only if it was before or a first one is trusted.
LEMMA RecordedTrust ==
  ASSUME TypeOK, Trust, NEW d \in Digests, Recorded(d)
  PROVE  RowTrusted(row)' /\ blessed \subseteq blessed'
<1>1. CASE row = None
  BY <1>1 DEF Recorded, RowTrusted
<1>2. CASE row # None
  <2>1. row \in Row /\ row' = [row EXCEPT !.last_digest = d]
    BY <1>2 DEF TypeOK, Recorded
  <2>2. row'.approved = row.approved /\ row'.approved_digest = row.approved_digest
    BY <2>1 DEF Row
  <2> QED
    BY <1>2, <2>2 DEF Trust, RowTrusted, Recorded
<1> QED
  BY <1>1, <1>2

\* One step of any proxy, of the control plane or of an operator keeps the trust.
LEMMA TrustStep == TypeOK /\ Trust /\ [Next]_vars => Trust'
<1> SUFFICES ASSUME TypeOK, Trust, [Next]_vars PROVE Trust'
  OBVIOUS
<1>1. ASSUME NEW p \in Proxies, List(p) PROVE Trust'
  <2> DEFINE s == StatusOf(pins[p], served)
  <2>1. s \in {"first_seen", "pinned"} => served \in blessed'
    <3>1. CASE s = "first_seen"
      BY <1>1, <3>1 DEF List
    <3>2. CASE s = "pinned"
      <4>1. pins[p] # None /\ pins[p].digest = served /\ pins[p].approved
        BY <3>2 DEF StatusOf
      <4> QED
        BY <1>1, <4>1 DEF Trust, PinTrusted, List
    <3> QED
      BY <3>1, <3>2
  <2>2. blessed \subseteq blessed'
    BY <1>1 DEF List
  <2>3. pins' = [pins EXCEPT ![p] = PinAfter(@, served)] /\ p \in DOMAIN pins
    BY <1>1 DEF List, TypeOK
  <2>4. PinTrusted(p)'
    <3>1. CASE pins[p] = None
      <4>1. pins'[p] = [digest |-> served, approved |-> mode = "tofu"]
        BY <2>3, <3>1 DEF PinAfter
      <4>2. mode = "tofu" => s = "first_seen"
        BY <3>1 DEF StatusOf
      <4>3. CASE mode = "tofu"
        <5>1. served \in blessed'
          BY <2>1, <4>2, <4>3
        <5>2. pins'[p].digest = served
          BY <4>1
        <5> QED
          BY <5>1, <5>2 DEF PinTrusted
      <4>4. CASE mode # "tofu"
        <5>1. pins'[p] = [digest |-> served, approved |-> FALSE]
          BY <2>3, <3>1, <4>4 DEF PinAfter
        <5>2. ~pins'[p].approved
          BY <5>1
        <5> QED
          BY <5>2 DEF PinTrusted
      <4> QED
        BY <4>3, <4>4
    <3>2. CASE pins[p] # None
      BY <2>2, <2>3, <3>2 DEF PinAfter, PinTrusted, Trust
    <3> QED
      BY <3>1, <3>2
  <2>5. catalog' = [catalog EXCEPT ![p] = [digest |-> served, status |-> s, action |-> ActionFor(s, served)]]
        /\ p \in DOMAIN catalog
    BY <1>1 DEF List, TypeOK
  <2>6. EntryTrusted(p)'
    <3>1. catalog'[p] = [digest |-> served, status |-> s, action |-> ActionFor(s, served)]
      BY <2>5
    <3>2. served \in Flagged => ActionFor(s, served) = "strip"
      BY DEF ActionFor
    <3> HIDE DEF s
    <3> QED
      BY <2>1, <3>1, <3>2 DEF EntryTrusted
  <2>7. row' = row /\ fetch' = fetch
    BY <1>1 DEF List, plane
  <2>8. \A q \in Proxies : q # p => pins'[q] = pins[q] /\ catalog'[q] = catalog[q]
    BY <2>3, <2>5 DEF TypeOK
  <2> QED
    BY <2>2, <2>4, <2>6, <2>7, <2>8, Kept
<1>2. ASSUME NEW p \in Proxies, ListBlocked(p) PROVE Trust'
  BY <1>2, Kept DEF ListBlocked, plane
<1>3. ASSUME NEW p \in Proxies, LoadRead(p) PROVE Trust'
  <2>1. \A q \in Proxies : fetch'[q] \subseteq fetch[q] \cup {row}
    BY <1>3 DEF LoadRead, TypeOK
  <2>2. row' = row /\ pins' = pins /\ catalog' = catalog /\ blessed' = blessed
    BY <1>3 DEF LoadRead, plane
  <2> QED
    BY <2>1, <2>2, Kept
<1>4. ASSUME NEW p \in Proxies, LoadApply(p) PROVE Trust'
  <2>1. fetch[p] # {} /\ pins' = [pins EXCEPT ![p] = Loaded(p)] /\ p \in DOMAIN pins
    BY <1>4 DEF LoadApply, TypeOK
  <2>2. pins'[p] = pins[p] \/ PinTrusted(p)'
    <3>1. CASE None \in fetch[p]
      BY <2>1, <3>1 DEF Loaded
    <3>2. CASE None \notin fetch[p]
      <4>1. PICK r \in fetch[p] : r \in Row /\ Loaded(p) = [digest |-> r.approved_digest, approved |-> r.approved]
        BY <2>1, <3>2, LoadedType
      <4>2. r # None /\ RowTrusted(r)
        BY <3>2, <4>1 DEF Trust
      <4>3. pins'[p].digest = r.approved_digest /\ pins'[p].approved = r.approved
        BY <2>1, <4>1
      <4> QED
        BY <1>4, <4>2, <4>3 DEF RowTrusted, PinTrusted, LoadApply
    <3> QED
      BY <3>1, <3>2
  <2>3. \A q \in Proxies : q # p => pins'[q] = pins[q]
    BY <2>1 DEF TypeOK
  <2>4. \A q \in Proxies : fetch'[q] \subseteq fetch[q] \cup {row}
    BY <1>4 DEF LoadApply, TypeOK
  <2>5. row' = row /\ catalog' = catalog /\ blessed' = blessed
    BY <1>4 DEF LoadApply, plane
  <2> QED
    BY <2>2, <2>3, <2>4, <2>5, Kept
<1>5. ASSUME NEW p \in Proxies, LoadFails(p) PROVE Trust'
  <2>1. \A q \in Proxies : fetch'[q] \subseteq fetch[q] \cup {row}
    BY <1>5 DEF LoadFails, TypeOK
  <2>2. row' = row /\ pins' = pins /\ catalog' = catalog /\ blessed' = blessed
    BY <1>5 DEF LoadFails, plane
  <2> QED
    BY <2>1, <2>2, Kept
<1>6. ASSUME NEW p \in Proxies, LoadServers(p) PROVE Trust'
  BY <1>6, Kept DEF LoadServers, plane
<1>7. ASSUME NEW p \in Proxies, Restart(p) PROVE Trust'
  <2>1. row' = row /\ blessed' = blessed
    BY <1>7 DEF Restart, plane
  <2>2. PICK ok \in BOOLEAN :
          pins' = [pins EXCEPT ![p] =
             IF ok /\ row # None THEN [digest |-> row.approved_digest, approved |-> row.approved] ELSE None]
    BY <1>7 DEF Restart
  <2>3. PinTrusted(p)'
    <3>1. p \in DOMAIN pins
      BY DEF TypeOK
    <3>2. CASE ok /\ row # None
      <4>1. pins'[p].digest = row.approved_digest /\ pins'[p].approved = row.approved
        BY <2>2, <3>1, <3>2
      <4> QED
        BY <2>1, <3>2, <4>1 DEF Trust, RowTrusted, PinTrusted
    <3>3. CASE ~(ok /\ row # None)
      BY <2>2, <3>1, <3>3 DEF PinTrusted
    <3> QED
      BY <3>2, <3>3
  <2>4. EntryTrusted(p)'
    <3>1. catalog'[p] = None
      BY <1>7 DEF Restart, TypeOK
    <3> QED
      BY <3>1 DEF EntryTrusted
  <2>5. \A q \in Proxies : q # p => pins'[q] = pins[q] /\ catalog'[q] = catalog[q]
    BY <1>7, <2>2 DEF TypeOK, Restart
  <2>6. \A q \in Proxies : fetch'[q] \subseteq fetch[q] \cup {row}
    BY <1>7 DEF Restart, TypeOK
  <2> QED
    BY <2>1, <2>3, <2>4, <2>5, <2>6, Kept
<1>8. ASSUME NEW r \in reports, FlushStart(r) PROVE Trust'
  BY <1>8, Kept DEF FlushStart, plane
<1>9. ASSUME NEW r \in reports, Observe(r) PROVE Trust'
  <2>1. r.digest \in Digests /\ Recorded(r.digest)
    BY <1>9 DEF TypeOK, Report, Observe
  <2>2. pins' = pins /\ catalog' = catalog /\ fetch' = fetch
    BY <1>9 DEF Observe, proxy
  <2> QED
    BY <2>1, <2>2, RecordedTrust, Kept
<1>10. ASSUME NEW r \in reports, ReportLost(r) PROVE Trust'
  BY <1>10, Kept DEF ReportLost, plane, proxy
<1>11. CASE ServerChanges
  BY <1>11, Kept DEF ServerChanges, plane, proxy
<1>12. ASSUME NEW d \in Digests, ApprovePin(d) PROVE Trust'
  <2>1. row \in Row
    BY <1>12 DEF ApprovePin, TypeOK
  <2>2. row'.approved_digest = d /\ d \in blessed' /\ blessed \subseteq blessed'
    BY <1>12, <2>1 DEF ApprovePin, Row
  <2>3. pins' = pins /\ catalog' = catalog /\ fetch' = fetch
    BY <1>12 DEF ApprovePin, proxy
  <2> QED
    BY <2>2, <2>3, Kept DEF RowTrusted
<1>13. ASSUME NEW d \in Digests, PeerReports(d) PROVE Trust'
  <2>1. Recorded(d) /\ pins' = pins /\ catalog' = catalog /\ fetch' = fetch
    BY <1>13 DEF PeerReports, proxy
  <2> QED
    BY <2>1, RecordedTrust, Kept
<1>14. CASE RevokePin
  <2>1. row \in Row
    BY <1>14 DEF RevokePin, TypeOK
  <2>2. row'.approved = FALSE /\ blessed' = blessed
    BY <1>14, <2>1 DEF RevokePin, Row
  <2>3. pins' = pins /\ catalog' = catalog /\ fetch' = fetch
    BY <1>14 DEF RevokePin, proxy
  <2> QED
    BY <2>2, <2>3, Kept DEF RowTrusted
<1>15. ASSUME NEW s \in Decisions, DecideServer(s) PROVE Trust'
  BY <1>15, Kept DEF DecideServer, proxy
<1>16. CASE ForgetServer
  BY <1>16, Kept DEF ForgetServer, proxy, RowTrusted
<1>17. CASE UNCHANGED vars
  BY <1>17, Kept DEF vars, plane, proxy
<1> QED
  BY <1>1, <1>2, <1>3, <1>4, <1>5, <1>6, <1>7, <1>8, <1>9, <1>10, <1>11, <1>12, <1>13, <1>14, <1>15, <1>16,
     <1>17 DEF Next

-----------------------------------------------------------------------------
\* The invariant holds in every reachable state.
LEMMA Invariance == Spec => []IndInv
<1>1. Init => IndInv
  <2> SUFFICES ASSUME Init PROVE IndInv
    OBVIOUS
  <2>1. TypeOK
    BY BoundsAssumption DEF Init, TypeOK, Decisions
  <2>2. Trust
    BY DEF Init, Trust, RowTrusted, PinTrusted, EntryTrusted
  <2> QED
    BY <2>1, <2>2 DEF IndInv
<1>2. IndInv /\ [Next]_vars => IndInv'
  BY TypeStep, TrustStep DEF IndInv
<1> QED
  BY <1>1, <1>2, PTL DEF Spec

\* Every reachable state of the pins is well typed.
THEOREM TypeCorrect == Spec => []TypeOK
<1>1. IndInv => TypeOK
  BY DEF IndInv
<1> QED
  BY <1>1, Invariance, PTL

\* For any number of proxies and definitions, whatever is lost, restarted or reported in whichever order,
\* a tool that a proxy lets be called has a definition that was approved or trusted at first
\* (PinRegistry.check, ControlPlanePinStore.load, observe, approve_pin).
THEOREM CallableApproved == Spec => []CallableWasApproved
<1>1. IndInv => CallableWasApproved
  <2> SUFFICES ASSUME IndInv, NEW p \in Proxies, Callable(p)
               PROVE  catalog[p].digest \in blessed \ Flagged
    BY DEF CallableWasApproved
  <2>1. catalog[p] # None /\ ~CallDenied(catalog[p])
    BY DEF Callable
  <2>2. catalog[p] \in Entry /\ EntryTrusted(p)
    BY <2>1 DEF IndInv, TypeOK, Trust
  <2>3. catalog[p].status \in {"first_seen", "pinned"} /\ catalog[p].action # "strip"
    BY <2>1, <2>2 DEF CallDenied, Entry, Statuses
  <2> QED
    BY <2>1, <2>2, <2>3 DEF EntryTrusted
<1> QED
  BY <1>1, Invariance, PTL

\* In strict mode a pin that lets its tool be listed is one that somebody approved (mcp_pin_mode).
THEOREM StrictNeedsApproval == Spec => []StrictTrustsNothing
<1>1. IndInv => StrictTrustsNothing
  BY DEF IndInv, Trust, PinTrusted, StrictTrustsNothing
<1> QED
  BY <1>1, Invariance, PTL

=============================================================================
