--------------------------- MODULE CallerIdentity ---------------------------
(***************************************************************************)
(* api/auth.py: who a caller may act as.  The claims of a credential       *)
(* (issued by the webhook, by POST /keys, or by an identity provider whose *)
(* groups are mapped to claims) decide the namespace, class, SPIFFE id and *)
(* workload a request is evaluated as, whatever its body says.  An empty   *)
(* string is an absent value.                                              *)
(***************************************************************************)
EXTENDS Naturals, Sequences, SequencesExt

CONSTANTS Namespaces, Classes, Workloads,
          Ids,              \* SPIFFE ids
          NamespaceOf(_)    \* _parse_norviq_spiffe_id: the namespace an id names, "" for a foreign id

VARIABLES in, out
vars == <<in, out>>

Roles == {"admin", "service", "viewer"}
Users == [role : Roles, ns : Namespaces \cup {"", "*"}, class : Classes \cup {""}, id : Ids \cup {""}, workload : Workloads \cup {""}]
Bodies == [ns : Namespaces \cup {""}, class : Classes \cup {""}, id : Ids \cup {""}, workload : Workloads \cup {""}]
Denied == "denied"

-----------------------------------------------------------------------------
(* Binding a request to its credential. *)

ScopedNamespace(user, requested) ==
    IF user.role = "admin" THEN requested
    ELSE IF user.role # "service" /\ user.ns = "" THEN Denied
    ELSE IF requested \notin {"", user.ns} /\ user.ns # "" THEN Denied
    ELSE IF user.ns # "" THEN user.ns ELSE requested

AttestedNamespace(user, requested) ==
    IF user.role # "service" \/ user.id = "" \/ NamespaceOf(user.id) = "" THEN ""
    ELSE LET attested == NamespaceOf(user.id) IN
         IF user.ns \notin {"", attested} \/ requested \notin {"", attested} THEN Denied ELSE attested

\* Faulty variant: both fields are demanded whatever the deployment can issue.
RequiredBoundFields_Both(mode) == {"class", "id"}

RequiredBoundFields(mode) == IF mode = "workload-api" THEN {"class"} ELSE {"class", "id"}

\* Faulty variant: an id the credential does not bind is taken as it comes.
CrossNamespaceId_Accepted(user, id) == FALSE

\* _reject_cross_namespace_spiffe
CrossNamespaceId(user, id) ==
    user.role = "service" /\ user.ns # "" /\ id # "" /\ NamespaceOf(id) \notin {"", user.ns}

Bound(user) == {f \in {"class", "id", "workload"} : user[f] # ""}

\* scoped_identity: a contradiction is refused, and a machine credential that is bound to too little.
IdentityRefused(cfg, user, body) ==
    /\ user.role # "admin"
    /\ \/ \E f \in Bound(user) : body[f] \notin {"", user[f]}
       \/ "id" \notin Bound(user) /\ CrossNamespaceId(user, body.id)
       \/ user.role = "service" /\ cfg.strict /\ ~(RequiredBoundFields(cfg.mode) \subseteq Bound(user))

\* Otherwise claims override, and a workload that is not claimed is dropped.
ScopedIdentity(user, body) ==
    [f \in DOMAIN body |->
        IF user.role # "admin" /\ f \in Bound(user) THEN user[f]
        ELSE IF user.role # "admin" /\ f = "workload" /\ Bound(user) # {} THEN "" ELSE body[f]]

BindCallerIdentity(cfg, user, body) ==
    LET scoped == ScopedNamespace(user, body.ns)
        attested == AttestedNamespace(user, body.ns)
        id == ScopedIdentity(user, body)
        ns == IF attested # "" THEN attested ELSE scoped
    IN IF scoped = Denied \/ attested = Denied \/ IdentityRefused(cfg, user, body) THEN [ok |-> FALSE]
       ELSE [ok |-> TRUE, id |-> IF ns # "" THEN [id EXCEPT !.ns = ns] ELSE id]

\* read_namespace: the rows a caller reads; "" is all of them.
ReadNamespace(user, requested) ==
    IF requested # "all" THEN ScopedNamespace(user, requested)
    ELSE IF user.role = "admin" \/ user.ns = "*" \/ (user.role = "service" /\ user.ns = "") THEN ""
    ELSE IF user.ns = "" THEN Denied ELSE user.ns

-----------------------------------------------------------------------------
(* Issuing. *)

\* The id a pod of a namespace has, by the mock formula or by its SVID (engine/identity.py).
Svid(ns) == CHOOSE i \in Ids : NamespaceOf(i) = ns

\* mintSidecarToken, for a pod of a namespace with a class label (or none) and an owner (or none).
MintSidecarToken(cfg, ns, class, workload) ==
    [role |-> "service", ns |-> ns, class |-> class, workload |-> workload,
     id |-> IF cfg.mode = "mock" THEN Svid(ns) ELSE ""]

\* create_key: a service key is bound to a class, and to an id where the deployment issues them.
KeyAccepted(cfg, key) ==
    key.role = "service" => key.class # "" /\ ("id" \in RequiredBoundFields(cfg.mode) => key.id # "")

\* The credential of an accepted key (authenticate_api_key).
ApiKey(key) == [key EXCEPT !.workload = ""]

-----------------------------------------------------------------------------
(* _apply_group_mapping: the claims of an identity provider's groups. *)

Rank == [admin |-> 3, service |-> 2, viewer |-> 1]
Only(set) == IF set = {} THEN "" ELSE CHOOSE x \in set : TRUE

\* Faulty variant: the first group's namespace counts.
Mapped_First(groups, role) ==
    [role |-> role, ns |-> IF groups = <<>> THEN "" ELSE Head(groups).ns]

Mapped(groups, role) ==
    LET namespaces == {g.ns : g \in Range(groups)} \ {""} IN
    IF \E a, b \in namespaces : a # b THEN [role |-> Denied, ns |-> ""] ELSE [role |-> role, ns |-> Only(namespaces)]

ApplyGroupMapping(groups) ==
    IF groups = <<>> THEN [role |-> "viewer", ns |-> ""]
    ELSE LET role == CHOOSE r \in {g.role : g \in Range(groups)} : \A g \in Range(groups) : Rank[g.role] <= Rank[r]
         IN IF role = "admin" THEN [role |-> "admin", ns |-> ""] ELSE Mapped(groups, role)

-----------------------------------------------------------------------------
Configs == [strict : BOOLEAN, mode : {"mock", "workload-api"}]
Groups == SeqOf([role : Roles, ns : Namespaces \cup {""}], 2)

Inputs ==
    [what : {"call"}, cfg : Configs, user : Users, body : Bodies]
    \cup [what : {"sidecar"}, cfg : Configs, ns : Namespaces, class : Classes \cup {""}, workload : Workloads \cup {""}]
    \cup [what : {"key"}, cfg : Configs, key : {u \in Users : u.workload = "" /\ u.ns # "*"}]
    \cup [what : {"groups"}, groups : Groups]

Init == in \in Inputs /\ out = <<>>

Call ==
    /\ out = <<>> /\ in.what = "call"
    /\ out' = [bound |-> BindCallerIdentity(in.cfg, in.user, in.body),
               reads |-> {ReadNamespace(in.user, r) : r \in {"all", in.body.ns}}]
    /\ UNCHANGED in

\* What an agent says of itself: the injected environment and its id.
Self(user, id) == [ns |-> user.ns, class |-> user.class, id |-> id, workload |-> user.workload]

Sidecar ==
    /\ out = <<>> /\ in.what = "sidecar"
    /\ LET user == MintSidecarToken(in.cfg, in.ns, in.class, in.workload) IN
         out' = [user |-> user, bound |-> BindCallerIdentity(in.cfg, user, Self(user, Svid(in.ns)))]
    /\ UNCHANGED in

Issue ==
    /\ out = <<>> /\ in.what = "key" /\ KeyAccepted(in.cfg, in.key)
    /\ LET user == ApiKey(in.key) IN
         out' = [user |-> user, bound |-> BindCallerIdentity(in.cfg, user, Self(user, user.id))]
    /\ UNCHANGED in

MapGroups ==
    /\ out = <<>> /\ in.what = "groups"
    /\ out' = [claims |-> ApplyGroupMapping(in.groups), swapped |-> ApplyGroupMapping(Reverse(in.groups))]
    /\ UNCHANGED in

Next == Call \/ Sidecar \/ Issue \/ MapGroups
Spec == Init /\ [][Next]_vars

-----------------------------------------------------------------------------
\* The namespace a credential is tied to, by its claim or by its SPIFFE id.
Home(user) == IF user.ns # "" THEN user.ns ELSE IF user.role = "service" /\ user.id # "" THEN NamespaceOf(user.id) ELSE ""

\* Whatever the body says, a credential tied to a namespace acts only there, as its own class and
\* workload, and a machine credential under no SPIFFE id that names another namespace.  One whose
\* claim names its namespace reads no other namespace's rows; a machine credential that is tied by its
\* SPIFFE id alone reads all of them, as read_namespace does not look at the id (scoped_identity,
\* attested_namespace, read_namespace).
ActsAtHome ==
    (out # <<>> /\ in.what = "call" /\ in.user.role # "admin" /\ Home(in.user) # "") =>
        /\ out.bound.ok =>
             /\ out.bound.id.ns = Home(in.user)
             /\ in.user.class # "" => out.bound.id.class = in.user.class
             /\ Bound(in.user) # {} => out.bound.id.workload = in.user.workload
             /\ in.user.role = "service" /\ out.bound.id.id # "" => NamespaceOf(out.bound.id.id) \in {"", Home(in.user)}
        /\ in.user.ns \notin {"", "*"} => out.reads \subseteq {in.user.ns, Denied}

\* An injected sidecar's own calls are accepted, in every SPIFFE mode, as the class and workload its
\* pod was admitted as, and under the strict requirement too unless its pod has no valid class label:
\* the webhook injects that one as well, and every call of it is refused (_required_bound_fields,
\* patchResponse).
SidecarsAreAccepted ==
    (out # <<>> /\ in.what = "sidecar") =>
        /\ out.bound.ok <=> (in.cfg.strict => in.class # "")
        /\ out.bound.ok => out.bound.id = Self(out.user, Svid(in.ns))

\* The claims do not depend on the order in which a provider lists the groups.
GroupOrderIsIrrelevant == (out # <<>> /\ in.what = "groups") => out.claims = out.swapped

\* A service key that is issued works for its own agent, as create_key's comment has it ("creation
\* and enforcement have to agree on what a usable service key IS", keys.py:106-107).  Refuted: a key
\* whose namespace is not that of its SPIFFE id is issued and then refused on every call.
IssuedKeysWork == (out # <<>> /\ in.what = "key" /\ in.key.role = "service") => out.bound.ok
=============================================================================
