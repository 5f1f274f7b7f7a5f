-------------------------------- MODULE Rollout --------------------------------
(***************************************************************************)
(* What becomes of the generated YAML files in a cluster: the user applies *)
(* the files of several versions to one namespace and deletes versions     *)
(* again, with the commands that the files' headers give (internal/impl/   *)
(* kube.go:439-457), while Kubernetes creates and removes the pods of the  *)
(* Deployments, and the babysitter of each pod reads its ConfigMap and     *)
(* finds the pods of the other components by it (internal/tool/            *)
(* babysitter.go:43-66, internal/impl/babysitter.go:177-200).              *)
(*                                                                         *)
(* kubectl and the controllers are not in the repository; the resources,   *)
(* the commands and the babysitters are.  A babysitter is as RoutingView   *)
(* says, Babysitter has the details: it learns of pods, once they are      *)
(* there, in a step of its own.                                            *)
(***************************************************************************)
EXTENDS Resources

CONSTANTS
    Versions,      \* the versions, of one or several applications
    Of,            \* Of[v]: the deployment that v's file was generated from
    Uses,          \* Uses[c]: the components that component c activates
    MaxFaults,     \* bound: commands interrupted, and pods lost
    Nothing        \* no pod, no config

ASSUME RolloutAssumption ==
    /\ \A v, w \in Versions : Of[v].deploymentId = Of[w].deploymentId => v = w
    /\ \A v \in Versions : WellFormed(Of[v].groups)
    /\ \A c \in DOMAIN Uses : Uses[c] \subseteq DOMAIN Uses
    /\ MaxFaults \in Nat

VARIABLES
    objects,    \* the resources in the namespace
    stage,      \* stage[v]: what the user has done with v's file
    next,       \* next[v]: the resource that kubectl applies next, or kind it deletes
    pods,       \* pods[s]: the pod in slot s, or Nothing
    faults      \* counter, for the bound

vars == <<objects, stage, next, pods, faults>>

Stages == {"none", "applying", "applied", "deleting", "deleted"}

Files == [v \in Versions |-> generateYAMLs(Of[v])]
File(v) == Files[v]

Commands == [v \in Versions |-> header(Of[v]).delete]

\* A slot for a pod of each Deployment (bound: one pod at a time).
AllResources == UNION {Range(File(v)) : v \in Versions}
Slots == {r.name : r \in {r \in AllResources : r.kind = "Deployment"}}

OfKind(kind) == {o \in objects : o.kind = kind}

Init ==
    /\ objects = {}
    /\ stage = [v \in Versions |-> "none"]
    /\ next = [v \in Versions |-> 1]
    /\ pods = [s \in Slots |-> Nothing]
    /\ faults = 0
-------------------------------------------------------------------------------
(* The user. *)

\* kubectl apply -f kube_<version>.yaml, for the first time or again.  To apply
\* a file again of which everything is in place would change nothing.
Apply(v) ==
    /\ stage[v] \in {"none", "applied", "deleted"}
    /\ ~ Range(File(v)) \subseteq objects
    /\ stage' = [stage EXCEPT ![v] = "applying"]
    /\ UNCHANGED <<objects, next, pods, faults>>

\* The resources are created in the order of the file, each in place of the
\* one that has its kind and name.
ApplyResource(v) ==
    /\ stage[v] = "applying"
    /\ LET r == File(v)[next[v]]
       IN  objects' = {o \in objects : o.kind # r.kind \/ o.name # r.name} \cup {r}
    /\ IF next[v] < Len(File(v))
       THEN /\ next' = [next EXCEPT ![v] = @ + 1]
            /\ UNCHANGED stage
       ELSE /\ next' = [next EXCEPT ![v] = 1]
            /\ stage' = [stage EXCEPT ![v] = "applied"]
    /\ UNCHANGED <<pods, faults>>

\* kubectl delete all,configmaps --selector=serviceweaver/version=<version>
Delete(v) ==
    /\ stage[v] \in {"none", "applied"}
    /\ stage' = [stage EXCEPT ![v] = "deleting"]
    /\ UNCHANGED <<objects, next, pods, faults>>

\* What the command selects.  A resource without labels is never selected.
Selected(v) ==
    {o \in objects : "labels" \in DOMAIN o /\ o.labels.version = Commands[v].Version}

SelectedPods(v) ==
    {s \in Slots : pods[s] # Nothing /\ pods[s].spec.podLabels.version = Commands[v].Version}

\* The command deletes one thing after another, and kind after kind.
DeleteResource(v) ==
    /\ stage[v] = "deleting"
    /\ LET kind == Commands[v].kinds[next[v]]
           here == {o \in Selected(v) : o.kind = kind}
       IN  \/ /\ \E o \in here : objects' = objects \ {o}
              /\ UNCHANGED <<stage, next, pods>>
           \/ /\ kind = "Pod"
              /\ \E s \in SelectedPods(v) : pods' = [pods EXCEPT ![s] = Nothing]
              /\ UNCHANGED <<objects, stage, next>>
           \/ /\ here = {} /\ (kind = "Pod" => SelectedPods(v) = {})
              /\ IF next[v] < Len(Commands[v].kinds)
                 THEN /\ next' = [next EXCEPT ![v] = @ + 1]
                      /\ UNCHANGED stage
                 ELSE /\ next' = [next EXCEPT ![v] = 1]
                      /\ stage' = [stage EXCEPT ![v] = "deleted"]
              /\ UNCHANGED <<objects, pods>>
    /\ UNCHANGED faults

\* The user interrupts kubectl, or it cannot reach the cluster.
Interrupt(v) ==
    /\ stage[v] \in {"applying", "deleting"}
    /\ stage' = [stage EXCEPT ![v] = "none"]
    /\ next' = [next EXCEPT ![v] = 1]
    /\ faults < MaxFaults
    /\ faults' = faults + 1
    /\ UNCHANGED <<objects, pods>>
-------------------------------------------------------------------------------
(* Kubernetes. *)

\* A Deployment that has no pod gets one.
CreatePod(s) ==
    /\ pods[s] = Nothing
    /\ \E dep \in OfKind("Deployment") :
          /\ dep.name = s
          /\ pods' = [pods EXCEPT ![s] = [spec |-> dep, cfg |-> Nothing, routing |-> <<>>]]
    /\ UNCHANGED <<objects, stage, next, faults>>

\* A pod whose Deployment is gone, or has another pod template by now, is
\* removed.
RemovePod(s) ==
    /\ pods[s] # Nothing
    /\ pods[s].spec \notin objects
    /\ pods' = [pods EXCEPT ![s] = Nothing]
    /\ UNCHANGED <<objects, stage, next, faults>>

\* A pod is evicted, or its node fails.
LosePod(s) ==
    /\ pods[s] # Nothing
    /\ faults < MaxFaults
    /\ faults' = faults + 1
    /\ pods' = [pods EXCEPT ![s] = Nothing]
    /\ UNCHANGED <<objects, stage, next>>
-------------------------------------------------------------------------------
(* The babysitters. *)

Running == {s \in Slots : pods[s] # Nothing /\ pods[s].cfg # Nothing}

\* The components that the weavelet in a pod of the given Deployment activates.
Used(spec) == UNION {Uses[c] : c \in Range(spec.container.args)}

\* The container starts when the ConfigMap it mounts is there, and reads it.
StartPod(s) ==
    /\ pods[s] # Nothing
    /\ pods[s].cfg = Nothing
    /\ \E cm \in OfKind("ConfigMap") :
          /\ cm.name = pods[s].spec.configMap
          /\ pods' = [pods EXCEPT ![s].cfg = cm,
                                  ![s].routing = [c \in Used(pods[s].spec) |-> {}]]
    /\ UNCHANGED <<objects, stage, next, faults>>

\* Is a service account bound to the role that lets it watch pods?
MayWatch(serviceAccount) ==
    \E b \in OfKind("RoleBinding") :
       /\ b.subject = serviceAccount
       /\ \E role \in OfKind("Role") : role.name = b.role

\* The pods that a babysitter with the given config takes to host c.
Hosting(cfg, c) ==
    {s \in Running : pods[s].spec.podName =
                        deploymentName(cfg.labels.app, cfg.Groups[c], cfg.DeploymentId)}

\* The routing info of a component is brought up to date.
Learn(s, c) ==
    /\ s \in Running
    /\ c \in DOMAIN pods[s].routing
    /\ c \in DOMAIN pods[s].cfg.Groups
    /\ MayWatch(pods[s].spec.serviceAccount)
    /\ pods' = [pods EXCEPT ![s].routing[c] = Hosting(pods[s].cfg, c)]
    /\ UNCHANGED <<objects, stage, next, faults>>

Components == UNION {Uses[c] : c \in DOMAIN Uses}

Next ==
    \/ \E v \in Versions :
          \/ Apply(v)  \/ ApplyResource(v)
          \/ Delete(v) \/ DeleteResource(v)
          \/ Interrupt(v)
    \/ \E s \in Slots :
          \/ CreatePod(s) \/ RemovePod(s) \/ LosePod(s) \/ StartPod(s)
          \/ \E c \in Components : Learn(s, c)

Spec == Init /\ [][Next]_vars

\* kubectl goes on until it is done or interrupted, Kubernetes brings about what
\* the resources ask for, and watches deliver.  Nothing is assumed of the user
\* and the nodes.
FairSpec ==
    /\ Spec
    /\ \A v \in Versions : WF_vars(ApplyResource(v) \/ DeleteResource(v))
    /\ \A s \in Slots :
          /\ WF_vars(CreatePod(s) \/ RemovePod(s) \/ StartPod(s))
          /\ \A c \in Components : WF_vars(Learn(s, c))
-------------------------------------------------------------------------------
(* Properties. *)

TypeOK ==
    /\ objects \subseteq AllResources
    /\ \A o, u \in objects : o.kind = u.kind /\ o.name = u.name => o = u
    /\ stage \in [Versions -> Stages]
    /\ \A v \in Versions : next[v] \in DOMAIN File(v) \cup DOMAIN Commands[v].kinds
    /\ \A s \in Slots : pods[s] # Nothing =>
          /\ pods[s].spec.kind = "Deployment" /\ pods[s].spec.name = s
          /\ pods[s].cfg # Nothing =>
                /\ pods[s].cfg.kind = "ConfigMap"
                /\ pods[s].cfg.labels = pods[s].spec.podLabels
          /\ \A c \in DOMAIN pods[s].routing : pods[s].routing[c] \subseteq Slots
    /\ faults \in 0 .. MaxFaults

\* Which version the pod in a slot belongs to.
VersionOf(s) == CHOOSE v \in Versions : Of[v].deploymentId = pods[s].spec.podLabels.version

\* While versions are applied, deleted and applied again side by side, a pod's
\* routing info for a component only ever has pods that belong to the pod's own
\* version and were started to run that component (kube.go:104, 569-578,
\* babysitter.go:177-182).
RoutesWithinVersion ==
    \A s \in Running : \A c \in DOMAIN pods[s].routing :
       \A q \in pods[s].routing[c] : pods[q] # Nothing =>
          /\ VersionOf(q) = VersionOf(s)
          /\ c \in Range(pods[q].spec.container.args)

\* What only v's file has: not the roles, nor a Service whose name, given in the
\* config file, another version's Service has too.
Roles == {"Role", "RoleBinding"}
Own == [v \in Versions |->
          {r \in Range(File(v)) :
             /\ r.kind \notin Roles
             /\ \A o \in AllResources :
                   r.kind = "Service" /\ o.kind = "Service" /\ o.name = r.name => o = r}]

\* What was applied for a version, and is only in its file, stays as it is there,
\* whatever is done with other versions meanwhile: only the roles, and Services
\* whose name several versions share, may change or go (kube.go:88-93, 181-190,
\* 555-558).
VersionsAreIndependent ==
    \A v \in Versions : stage[v] = "applied" => Own[v] \subseteq objects

\* A Service only leads to pods whose weavelet listens for that listener: its
\* target port is the one the babysitter got from its ConfigMap, and is open in
\* the container (kube.go:194-209, 257-264, 573-575).
ServicesReachListeners ==
    \A o \in OfKind("Service") : \A s \in Running :
       pods[s].spec.podName = o.selector =>
          /\ o.targetPort = GetListenerAddress(pods[s].cfg, o.listener)
          /\ [name |-> o.listener, containerPort |-> o.targetPort] \in pods[s].spec.container.ports

\* Every babysitter that runs may watch pods: the roles "grant permissions to
\* the appropriate service accounts. [...] The babysitter watches pods to
\* generate routing info" (kube.go:494-498).
BabysittersMayWatch ==
    \A s \in Running : MayWatch(pods[s].spec.serviceAccount)

\* Every group of v has a running pod that can reach the components it uses.
Up(v) ==
    \A g \in Range(Of[v].groups) : \E s \in Running :
       /\ pods[s].spec.podName = deploymentName(Of[v].app, g.Name, Of[v].deploymentId)
       /\ \A c \in DOMAIN pods[s].routing : pods[s].routing[c] \cap Running # {}

\* A version that is applied, and left alone, comes up: its pods start and find
\* each other, whatever is done with other versions before, meanwhile and
\* afterwards (kube.go:439-441).
RolloutCompletes ==
    \A v \in Versions : <>[](stage[v] = "applied") => <>[]Up(v)

\* A version that is deleted, and left alone, is gone: none of its pods comes
\* back, and nothing but the roles is left of its file (kube.go:455-457).
DeletionCompletes ==
    \A v \in Versions : <>[](stage[v] = "deleted") =>
       <>[]( /\ \A s \in Slots : pods[s] # Nothing => pods[s].spec.container.image # Of[v].image
             /\ \A r \in Range(File(v)) : r.kind \notin Roles => r \notin objects )
===============================================================================
