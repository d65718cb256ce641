--------------------------- MODULE SidecarSecret ---------------------------
(***************************************************************************)
(* webhook/sidecar_secret.go and the end of handler.go: the credentials a  *)
(* sidecar is started with.  Every admission mints its own, writes them to *)
(* the workload's Secret and refers to it from the pod; when the write     *)
(* fails they go into the pod itself, unless the operator requires the     *)
(* Secret.  A webhook without a client writes none, and an admission that  *)
(* minted nothing has nothing to write.  Admissions run concurrently (one  *)
(* goroutine per request of the HTTP server) and share one Injector, whose *)
(* lastSecretError tells the handler about the failed write.               *)
(***************************************************************************)
EXTENDS Naturals

CONSTANTS
    Requests,       \* admissions, each with its freshly minted credentials
    Workloads,      \* sidecarSecretName: one Secret per workload and class
    Required        \* SidecarSecretRequired

VARIABLES
    writer,     \* the webhook has a SecretWriter (NewHandler)
    requests,   \* what has become of each admission
    secrets,    \* the Secrets that exist: workload -> the admission whose credentials it holds
    lastError,  \* lastSecretError is set
    overlapped  \* history: the admissions that ran while another one did

vars == <<writer, requests, secrets, lastError, overlapped>>

Steps == {"idle", "create", "update", "failed", "written", "check", "admitted", "refused"}

TypeOK ==
    /\ requests \in [Requests -> [step : Steps, dry : BOOLEAN, workload : Workloads, env : {"none", "absent", "literal", "ref"}]]
    /\ DOMAIN secrets \subseteq Workloads /\ \A w \in DOMAIN secrets : secrets[w] \in Requests
    /\ writer \in BOOLEAN /\ lastError \in BOOLEAN /\ overlapped \subseteq Requests

Init ==
    /\ writer \in BOOLEAN
    /\ requests = [r \in Requests |-> [step |-> "idle", dry |-> FALSE, workload |-> CHOOSE w \in Workloads : TRUE, env |-> "none"]]
    /\ secrets = [w \in {} |-> 0] /\ lastError = FALSE /\ overlapped = {}

Running(r) == requests[r].step \notin {"idle", "admitted", "refused"}
Others(r) == {o \in Requests \ {r} : Running(o)}
Goes(r, step) == requests' = [requests EXCEPT ![r].step = step]
Fill(w, r) == [v \in DOMAIN secrets \cup {w} |-> IF v = w THEN r ELSE secrets[v]]

\* patchResponse, CreatePatch, and credentialEnv up to its write: without a writer, or with nothing
\* to move, the env and the error stay as they are; a dry run writes nothing.
Begin(r, w, dry, minted) ==
    /\ requests[r].step = "idle"
    /\ requests' = [requests EXCEPT ![r] =
          [step |-> IF ~writer \/ ~minted THEN "check" ELSE IF dry THEN "written" ELSE "create",
           dry |-> dry, workload |-> w,
           env |-> IF ~minted THEN "absent" ELSE IF ~writer THEN "literal" ELSE "none"]]
    /\ overlapped' = IF Others(r) = {} THEN overlapped ELSE overlapped \cup Others(r) \cup {r}
    /\ UNCHANGED <<writer, secrets, lastError>>

\* Upsert: create, and update what exists already; both may fail or time out, after the time-out
\* with or without effect.
Create(r) ==
    /\ requests[r].step = "create"
    /\ LET w == requests[r].workload IN
         IF w \in DOMAIN secrets THEN Goes(r, "update") /\ UNCHANGED secrets
         ELSE Goes(r, "written") /\ secrets' = Fill(w, r)
    /\ UNCHANGED <<writer, lastError, overlapped>>

Update(r) ==
    /\ requests[r].step = "update" /\ Goes(r, "written")
    /\ secrets' = Fill(requests[r].workload, r)
    /\ UNCHANGED <<writer, lastError, overlapped>>

\* Faulty variant: a failed write is logged and otherwise ignored.
WriteFails_Ignored(r, landed) ==
    /\ requests[r].step \in {"create", "update"}
    /\ requests[r].step = "create" /\ landed => requests[r].workload \notin DOMAIN secrets
    /\ secrets' = IF landed THEN Fill(requests[r].workload, r) ELSE secrets
    /\ Goes(r, "written") /\ UNCHANGED <<writer, lastError, overlapped>>

WriteFails(r, landed) ==
    /\ requests[r].step \in {"create", "update"}
    /\ requests[r].step = "create" /\ landed => requests[r].workload \notin DOMAIN secrets
    /\ secrets' = IF landed THEN Fill(requests[r].workload, r) ELSE secrets
    /\ Goes(r, "failed") /\ UNCHANGED <<writer, lastError, overlapped>>

\* credentialEnv's two ends.
Literal(r) ==
    /\ requests[r].step = "failed" /\ lastError' = TRUE
    /\ requests' = [requests EXCEPT ![r].step = "check", ![r].env = "literal"]
    /\ UNCHANGED <<writer, secrets, overlapped>>

\* Faulty variant: an old error is not forgotten.
Refer_KeepsError(r) ==
    /\ requests[r].step = "written" /\ UNCHANGED lastError
    /\ requests' = [requests EXCEPT ![r].step = "check", ![r].env = "ref"]
    /\ UNCHANGED <<writer, secrets, overlapped>>

Refer(r) ==
    /\ requests[r].step = "written" /\ lastError' = FALSE
    /\ requests' = [requests EXCEPT ![r].step = "check", ![r].env = "ref"]
    /\ UNCHANGED <<writer, secrets, overlapped>>

\* Faulty variant: the requirement is not looked at.
Respond_Admits(r) ==
    /\ requests[r].step = "check" /\ Goes(r, "admitted") /\ UNCHANGED <<writer, secrets, lastError, overlapped>>

\* The handler's look at the shared error.
Respond(r) ==
    /\ requests[r].step = "check"
    /\ Goes(r, IF Required /\ lastError THEN "refused" ELSE "admitted")
    /\ UNCHANGED <<writer, secrets, lastError, overlapped>>

Next ==
    \E r \in Requests :
        \/ \E w \in Workloads, dry, minted \in BOOLEAN : Begin(r, w, dry, minted)
        \/ Create(r) \/ Update(r) \/ Literal(r) \/ Refer(r) \/ Respond(r)
        \/ \E landed \in BOOLEAN : WriteFails(r, landed)

Spec == Init /\ [][Next]_vars

-----------------------------------------------------------------------------
\* A pod that refers to a Secret is admitted only when that Secret has been written, dry runs
\* apart: it would never start otherwise (secretRefEnv: not optional).
ReferredSecretExists ==
    \A r \in Requests :
        (requests[r].step = "admitted" /\ requests[r].env = "ref" /\ ~requests[r].dry) =>
            requests[r].workload \in DOMAIN secrets

\* An admission that meets no other ends as its own write did, where the webhook has a writer: with
\* the Secret required, credentials in the pod are never admitted, and one whose Secret was written is
\* never refused for what became of an earlier admission.  One that has no credentials to move is the
\* exception: it leaves the error of an earlier one standing and may be refused for it.  Without a
\* writer nobody is refused, and what is required has no effect (credentialEnv, patchResponse).
AloneIsExact ==
    \A r \in Requests \ overlapped :
        /\ requests[r].step = "admitted" /\ requests[r].env = "literal" => ~(Required /\ writer)
        /\ requests[r].step = "refused" => Required /\ writer /\ requests[r].env \in {"literal", "absent"}

\* A required Secret is never replaced by credentials in the pod, as the field's comment implies
\* ("Only ever read immediately after CreatePatch on the same goroutine", injector.go:33-34).
\* Refuted: another admission's success clears the error between its setting and the look at it, and
\* a webhook without a writer sets none.
RequiredIsKept ==
    Required => \A r \in Requests : requests[r].step = "admitted" => requests[r].env # "literal"
=============================================================================
