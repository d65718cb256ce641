---------------------------- MODULE PodInjection ----------------------------
(***************************************************************************)
(* webhook/handler.go, injector.go and mcp_injector.go: what becomes of a  *)
(* pod at admission.  A pod is refused, left alone, or patched with the    *)
(* sidecar, the wiring of its containers to the enforcement socket, and    *)
(* the wrapping of the MCP servers it names.  A container is described by  *)
(* what the webhook looks at; environment, probes and resources that no    *)
(* decision depends on are left out.                                       *)
(***************************************************************************)
EXTENDS Naturals, Sequences, SequencesExt

CONSTANTS Pods, Configs     \* the pods and configurations looked at

VARIABLES in, out

vars == <<in, out>>

\* Images by how they compare with the configured one: the same reference, the same name from the
\* allowed registry, the same name from elsewhere, the payload image, or another.
SameName(image) == image \in {"engine", "engine2", "foreign"}
IsAllowedSidecarImage(image) == image \in {"engine", "engine2"}

Container(name, image, cmd, mounts, env, route) ==
    [name |-> name, image |-> image, cmd |-> cmd, mounts |-> mounts, env |-> env, route |-> route]

SidecarName == "norviq-sidecar"
McpInitName == "norviq-mcp-init"

-----------------------------------------------------------------------------
(* What a container presents. *)

HasSocketMount(c) == c.mounts \cap {"socket", "socketPath", "socketVolume"} # {}
MountsNorviqSocketVolume(c) == "socket" \in c.mounts
HasSocketPathEnv(c) == c.env # "none"
ContainerWired(c) == MountsNorviqSocketVolume(c) /\ c.env = "right"

IsSidecarContainer(c, image) == c.image = image \/ (HasSocketMount(c) /\ SameName(c.image))

OccupiesEnforcementPath(c, image) ==
    /\ HasSocketMount(c) \/ HasSocketPathEnv(c) \/ c.name = SidecarName
    /\ IsSidecarContainer(c, image)

\* Where decisions are asked for is where the configuration says.
SidecarRoutingTrusted(c) == c.route = "ours"

\* The container that copies the proxy into the pod, and its exact likeness.
McpInitContainer(cfg) == Container(McpInitName, cfg.proxy, "copy", {"stage", "socket"}, "right", "none")
IsInjectorMcpInitContainer(cfg, c) ==
    /\ c.name = McpInitName /\ c.cmd = "copy" /\ "stage" \in c.mounts /\ "source" \notin c.mounts
    /\ c.image = cfg.proxy \/ (SameName(c.image) /\ SameName(cfg.proxy))

AllPodContainers(pod) == Range(pod.init) \cup Range(pod.app)

\* Faulty variant: the injector's own copying container is not told apart.
NeuteredSidecarDecoy_NoExemption(cfg, pod) ==
    \E c \in AllPodContainers(pod) : c.cmd # "none" /\ OccupiesEnforcementPath(c, cfg.image)

\* A sidecar look-alike that runs something else.
NeuteredSidecarDecoy(cfg, pod) ==
    \E c \in AllPodContainers(pod) :
        /\ ~(cfg.mcp /\ IsInjectorMcpInitContainer(cfg, c))
        /\ c.cmd # "none" /\ OccupiesEnforcementPath(c, cfg.image)

-----------------------------------------------------------------------------
(* MCP servers named by the pod's annotation. *)

\* mcpTargets: every named container is there and has a command to wrap; otherwise refused.
McpTargetsFail(cfg, pod) ==
    /\ cfg.mcp /\ pod.asked # {}
    /\ \/ cfg.proxy = "none"
       \/ \E n \in pod.asked : \A c \in AllPodContainers(pod) : c.name # n \/ c.cmd = "none"

\* mcpWrappedCorrectly: the proxy with this server's id, mounted read-only, asking the right API.
McpWrappedCorrectly(c) == c.cmd = "proxy" /\ "mcp" \in c.mounts /\ c.route = "ours"

McpFullyInjected(cfg, pod) ==
    (cfg.mcp /\ pod.asked # {}) =>
        /\ "mcp" \in pod.volumes
        /\ \E c \in Range(pod.init) : IsInjectorMcpInitContainer(cfg, c)
        /\ \A n \in pod.asked : \E c \in AllPodContainers(pod) : c.name = n /\ McpWrappedCorrectly(c)

McpArtifact(cfg, pod) ==
    \/ pod.volumes \cap {"mcp", "mcpOther"} # {}
    \/ \E c \in AllPodContainers(pod) :
        \/ c.name = McpInitName /\ ~IsInjectorMcpInitContainer(cfg, c)
        \/ c.mounts \cap {"mcp", "mcpWritable", "stage"} # {}
        \/ c.cmd \in {"proxy", "likeProxy"}

-----------------------------------------------------------------------------
(* The verdict on a pod. *)

\* Faulty variant: the image's name is enough.
IsTrustedSidecar_ByName(cfg, c) == c.cmd = "none" /\ IsSidecarContainer(c, cfg.image) /\ SidecarRoutingTrusted(c)

IsTrustedSidecar(cfg, c) ==
    /\ c.cmd = "none" /\ IsSidecarContainer(c, cfg.image)
    /\ c.image = cfg.image \/ IsAllowedSidecarImage(c.image)
    /\ SidecarRoutingTrusted(c)

\* Faulty variant: a sidecar is enough.
FullyInjected_AnySidecar(cfg, pod) ==
    "socket" \in pod.volumes /\ \E c \in Range(pod.app) : IsTrustedSidecar(cfg, c)

FullyInjected(cfg, pod) ==
    /\ "socket" \in pod.volumes
    /\ \E c \in Range(pod.app) : IsTrustedSidecar(cfg, c)
    /\ \A c \in Range(pod.app) : IsTrustedSidecar(cfg, c) \/ ContainerWired(c)
    /\ \A c \in Range(pod.init) : ContainerWired(c)
    /\ McpFullyInjected(cfg, pod)

EnforcementArtifact(cfg, pod) ==
    \/ "socket" \in pod.volumes
    \/ \E c \in AllPodContainers(pod) :
        OccupiesEnforcementPath(c, cfg.image) \/ HasSocketMount(c) \/ HasSocketPathEnv(c)
    \/ cfg.mcp /\ McpArtifact(cfg, pod)

ClassifyPod(cfg, pod) ==
    IF NeuteredSidecarDecoy(cfg, pod) THEN "deny"
    ELSE IF FullyInjected(cfg, pod) THEN "skip"
    ELSE IF EnforcementArtifact(cfg, pod) THEN "deny" ELSE "inject"

-----------------------------------------------------------------------------
(* The patch. *)

Sidecar(cfg) == Container(SidecarName, cfg.image, "none", {"socket", "tmp"}, "right", "ours")

\* mountPatches, envPatches: what a container does not have yet.
WiredUp(c) ==
    [c EXCEPT !.mounts = IF HasSocketMount(c) THEN @ ELSE @ \cup {"socket"},
              !.env = IF HasSocketPathEnv(c) THEN @ ELSE "right"]

\* mcpWrappedCommand, mcpEnv.
Wrapped(c) == [c EXCEPT !.cmd = "proxy", !.mounts = @ \cup {"mcp"}, !.route = "ours"]

\* findPodContainer: the first container of that name, app containers before init containers.
IsTarget(pod, kind, i) ==
    LET list == IF kind = "app" THEN pod.app ELSE pod.init IN
    /\ list[i].name \in pod.asked
    /\ \A k \in 1..(i - 1) : list[k].name # list[i].name
    /\ kind = "init" => \A c \in Range(pod.app) : c.name # list[i].name

\* The containers of one list, patched by their index in the pod as it was sent.
PatchedList(cfg, pod, kind, list) ==
    [i \in DOMAIN list |->
        IF cfg.mcp /\ IsTarget(pod, kind, i) THEN Wrapped(WiredUp(list[i])) ELSE WiredUp(list[i])]

AsksMcp(cfg, pod) == cfg.mcp /\ pod.asked # {}

\* Faulty variant: the copying container is put first before the others are patched by index.
PatchedInit_PrependFirst(cfg, pod) ==
    LET list == IF AsksMcp(cfg, pod) THEN <<McpInitContainer(cfg)>> \o pod.init ELSE pod.init IN
    [i \in DOMAIN list |->
        IF i \in DOMAIN pod.init THEN PatchedList(cfg, pod, "init", SubSeq(list, 1, Len(pod.init)))[i] ELSE list[i]]

\* Patched, then preceded by the copying container (initContainerPatch comes last).
PatchedInit(cfg, pod) ==
    (IF AsksMcp(cfg, pod) THEN <<McpInitContainer(cfg)>> ELSE <<>>) \o PatchedList(cfg, pod, "init", pod.init)

CreatePatch(cfg, pod) ==
    [pod EXCEPT
        !.app = PatchedList(cfg, pod, "app", pod.app) \o <<Sidecar(cfg)>>,
        !.init = PatchedInit(cfg, pod),
        !.volumes = @ \cup {"socket", "tmp"} \cup IF AsksMcp(cfg, pod) THEN {"mcp"} ELSE {}]

Refused == [allowed |-> FALSE]
Admitted(pod, verdict) == [allowed |-> TRUE, pod |-> pod, verdict |-> verdict]

\* Kubernetes refuses a pod two of whose containers have the same name.
UniqueNames(pod) ==
    \A i, j \in DOMAIN (pod.init \o pod.app) :
        (pod.init \o pod.app)[i].name = (pod.init \o pod.app)[j].name => i = j

PatchResponse(cfg, pod) ==
    IF ~IsAllowedSidecarImage(cfg.image) \/ McpTargetsFail(cfg, pod) THEN Refused
    ELSE LET new == CreatePatch(cfg, pod) IN
         IF UniqueNames(new) THEN Admitted(new, "inject") ELSE Refused

HandleAdmission(cfg, pod) ==
    LET verdict == ClassifyPod(cfg, pod) IN
    IF verdict = "deny" THEN Refused
    ELSE IF verdict = "skip" THEN Admitted(pod, "skip")
    ELSE IF pod.optOut /\ cfg.allowOptOut THEN Admitted(pod, "optedOut") ELSE PatchResponse(cfg, pod)

-----------------------------------------------------------------------------
Inputs == {[cfg |-> cfg, pod |-> pod, before |-> "no"] : cfg \in Configs, pod \in Pods}

Init == in \in Inputs /\ out = <<>>

Admit == out = <<>> /\ out' = HandleAdmission(in.cfg, in.pod) /\ UNCHANGED in

\* A pod admitted before comes back, maybe after the sidecar's image was moved to a new release.
Readmit(image) ==
    /\ out # <<>> /\ in.before = "no" /\ out.allowed
    /\ LET cfg == [in.cfg EXCEPT !.image = image] IN
         /\ in' = [cfg |-> cfg, pod |-> out.pod, before |-> out.verdict]
         /\ out' = HandleAdmission(cfg, out.pod)

Next == Admit \/ (\E image \in {"engine", "engine2"} : Readmit(image))

Spec == Init /\ [][Next]_vars

-----------------------------------------------------------------------------
(* What a governed pod is, said without the webhook's own tests. *)

Guard(c) == c.image \in {"engine", "engine2"} /\ c.cmd = "none" /\ c.route = "ours" /\ "socket" \in c.mounts
Governed(cfg, pod) ==
    /\ \E c \in Range(pod.app) : Guard(c)
    /\ \A c \in Range(pod.app) \cup Range(pod.init) : Guard(c) \/ ("socket" \in c.mounts /\ c.env = "right")
    /\ (cfg.mcp /\ pod.asked # {}) =>
        /\ \A n \in pod.asked : \E c \in Range(pod.app) \cup Range(pod.init) :
                c.name = n /\ c.cmd = "proxy" /\ "mcp" \in c.mounts
        /\ Len(pod.init) > 0 /\ pod.init[1].cmd = "copy"

\* Every pod that is patched is governed: a real sidecar on the socket, every other container on that
\* socket, and every MCP server it names behind the proxy that the first init container delivers
\* (handleAdmission).
AdmittedIsGoverned ==
    (out # <<>> /\ out.allowed /\ out.verdict = "inject") => Governed(in.cfg, out.pod)

\* A container that counts as the sidecar of a pod left alone: started as built, asking where the
\* configuration says, and of the image the configuration names, or of another image of its registry
\* and then with a mount that could be the socket's.
Stands(cfg, c) ==
    /\ c.cmd = "none" /\ c.route = "ours"
    /\ c.image = cfg.image \/ (IsAllowedSidecarImage(c.image) /\ HasSocketMount(c))

\* A pod that is left alone as already injected, whoever wrote it, has a container that counts as the
\* sidecar, every other container of it is on the socket, and every MCP server it names is behind a
\* proxy that asks where the configuration says, with a container that delivers the proxy among the
\* init containers (fullyInjected, mcpFullyInjected).  Whether the configured image itself is on the
\* socket is not asked (SkippedSidecarListens).
SkippedIsGoverned ==
    (out # <<>> /\ out.allowed /\ out.verdict = "skip") =>
        /\ \E c \in Range(out.pod.app) : Stands(in.cfg, c)
        /\ \A c \in Range(out.pod.app) : Stands(in.cfg, c) \/ ("socket" \in c.mounts /\ c.env = "right")
        /\ \A c \in Range(out.pod.init) : "socket" \in c.mounts /\ c.env = "right"
        /\ (in.cfg.mcp /\ out.pod.asked # {}) =>
            /\ \E c \in Range(out.pod.init) : c.cmd = "copy" /\ "stage" \in c.mounts
            /\ \A n \in out.pod.asked : \E c \in Range(out.pod.app) \cup Range(out.pod.init) :
                    c.name = n /\ c.cmd = "proxy" /\ "mcp" \in c.mounts /\ c.route = "ours"

\* "the pod EXACTLY carries the injector's output" (handler.go:434).  Refuted: the container that
\* counts as the sidecar by the configured image itself need not mount the socket.
SkippedSidecarListens ==
    (out # <<>> /\ out.allowed /\ out.verdict = "skip") => \E c \in Range(out.pod.app) : Guard(c)

\* A container other than the webhook's own runs the sidecar's image with a command of its own.
SharesTheImage(cfg, pod) ==
    \E c \in AllPodContainers(pod) : SameName(c.image) /\ c.cmd # "none" /\ ~(cfg.mcp /\ c = McpInitContainer(cfg))

\* The webhook recognises its own work, also when its sidecar image has moved to another tag of the
\* allowed registry: a pod it injected is never injected again, and it is skipped when it comes back,
\* unless a container of it runs the sidecar's image with a command of its own (then it is refused,
\* EveryInjectedIsSkipped).
InjectedIsSkipped ==
    in.before = "inject" =>
        /\ out.allowed => out.verdict = "skip"
        /\ out.allowed \/ SharesTheImage(in.cfg, in.pod)

\* The same for every pod, as classifyPod's comment promises ("idempotent re-admission").  Refuted:
\* a container of the pod that runs the sidecar's image with its own command, which is admitted and
\* wired, is a decoy once it carries the wiring.
EveryInjectedIsSkipped ==
    (in.before = "inject") => out.allowed /\ out.verdict = "skip"
=============================================================================
