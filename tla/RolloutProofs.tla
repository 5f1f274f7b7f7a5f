----------------------------- MODULE RolloutProofs -----------------------------
(***************************************************************************)
(* Proofs about Rollout, for any number of versions of any applications.   *)
(*                                                                         *)
(* The argument: a name determines the version, and the group, that a      *)
(* resource was generated for, but for the roles and the Services that the *)
(* config file names; so no command for one version replaces or selects    *)
(* what only another one has, a container reads the config of its own      *)
(* version, and the pods it then selects are pods of that version.         *)
(***************************************************************************)
EXTENDS Rollout, ResourcesProofs

RoleOf(v)    == generateRolesAndBindings(Of[v].config.ServiceAccount)[1]
BindingOf(v) == generateRolesAndBindings(Of[v].config.ServiceAccount)[2]
ConfigOf(v)  == generateConfigMap(Of[v])

GroupsOf(v) == DOMAIN Of[v].groups
ListenersOf(v, i) == Range(Of[v].groups[i].listeners)
NameOf(v, i) == deploymentName(Of[v].app, Of[v].groups[i].Name, Of[v].deploymentId)

DeploymentOf(v, i) == buildDeployment(Of[v], Of[v].groups[i])
AutoscalerOf(v, i) == buildAutoscaler(Of[v], Of[v].groups[i])
ServiceOf(v, i, l) == buildListenerService(Of[v], Of[v].groups[i], l)

\* What a resource of v's file is, by its kind.
IsOf(r, v) ==
    /\ r.kind = "Role" => r = RoleOf(v)
    /\ r.kind = "RoleBinding" => r = BindingOf(v)
    /\ r.kind = "ConfigMap" => r = ConfigOf(v)
    /\ r.kind = "Deployment" => \E i \in GroupsOf(v) : r = DeploymentOf(v, i)
    /\ r.kind = "HorizontalPodAutoscaler" => \E i \in GroupsOf(v) : r = AutoscalerOf(v, i)
    /\ r.kind = "Service" => \E i \in GroupsOf(v) : \E l \in ListenersOf(v, i) : r = ServiceOf(v, i, l)
    /\ r.kind \in {"Role", "RoleBinding", "ConfigMap", "Deployment", "HorizontalPodAutoscaler", "Service"}
    /\ r.kind \notin Roles => r.labels.version = Of[v].deploymentId
-------------------------------------------------------------------------------
(* The resources. *)

LEMMA RoleFields ==
    ASSUME NEW v
    PROVE  /\ RoleOf(v) = [kind |-> "Role", name |-> <<"serviceweaver-pods-getter">>]
           /\ BindingOf(v).kind = "RoleBinding"
           /\ BindingOf(v).role = RoleOf(v).name
           /\ BindingOf(v).subject = Of[v].config.ServiceAccount
           /\ "labels" \notin DOMAIN RoleOf(v) /\ "labels" \notin DOMAIN BindingOf(v)
BY DEF RoleOf, BindingOf, generateRolesAndBindings

LEMMA ConfigFields ==
    ASSUME NEW v
    PROVE  /\ ConfigOf(v).kind = "ConfigMap"
           /\ ConfigOf(v).name = <<"config", Of[v].deploymentId>>
           /\ ConfigOf(v).labels = Labels(Of[v])
           /\ ConfigOf(v).DeploymentId = Of[v].deploymentId
           /\ ConfigOf(v).Listeners = Listeners(Of[v].groups)
           /\ ConfigOf(v).Groups = GroupNames(Of[v].groups)
BY DEF ConfigOf, generateConfigMap, configMapName

LEMMA DeploymentFields ==
    ASSUME NEW v, NEW i
    PROVE  /\ DeploymentOf(v, i).kind = "Deployment"
           /\ DeploymentOf(v, i).name = NameOf(v, i)
           /\ DeploymentOf(v, i).podName = NameOf(v, i)
           /\ DeploymentOf(v, i).labels = Labels(Of[v])
           /\ DeploymentOf(v, i).podLabels = Labels(Of[v])
           /\ DeploymentOf(v, i).serviceAccount = Of[v].config.ServiceAccount
           /\ DeploymentOf(v, i).configMap = <<"config", Of[v].deploymentId>>
           /\ DeploymentOf(v, i).container.args = Of[v].groups[i].Components
           /\ DeploymentOf(v, i).container.ports =
                 {[name |-> l.name, containerPort |-> l.port] : l \in ListenersOf(v, i)}
BY DEF DeploymentOf, buildDeployment, buildContainer, configMapName, NameOf, ListenersOf

LEMMA AutoscalerFields ==
    ASSUME NEW v, NEW i
    PROVE  /\ AutoscalerOf(v, i).kind = "HorizontalPodAutoscaler"
           /\ AutoscalerOf(v, i).name = NameOf(v, i)
           /\ AutoscalerOf(v, i).labels = Labels(Of[v])
BY DEF AutoscalerOf, buildAutoscaler, NameOf

LEMMA ServiceFields ==
    ASSUME NEW v, NEW i, NEW l
    PROVE  /\ ServiceOf(v, i, l).kind = "Service"
           /\ ServiceOf(v, i, l).labels = Labels(Of[v])
           /\ ServiceOf(v, i, l).listener = l.name
           /\ ServiceOf(v, i, l).selector = NameOf(v, i)
           /\ ServiceOf(v, i, l).targetPort = l.port
BY DEF ServiceOf, buildListenerService, NameOf

LEMMA VersionLabel ==
    ASSUME NEW v
    PROVE  Labels(Of[v]).version = Of[v].deploymentId /\ Labels(Of[v]).app = Of[v].app
BY DEF Labels

\* A Deployment's name says which group of which version it is for.
LEMMA NamesDetermine ==
    ASSUME NEW v \in Versions, NEW w \in Versions, NEW i \in GroupsOf(v), NEW j \in GroupsOf(w),
           NameOf(v, i) = NameOf(w, j)
    PROVE  v = w /\ i = j
<1>1. Of[v].deploymentId = Of[w].deploymentId /\ Of[v].groups[i].Name = Of[w].groups[j].Name
      BY DEF NameOf, deploymentName
<1>2. v = w
      BY <1>1, RolloutAssumption
<1> QED BY <1>1, <1>2, RolloutAssumption DEF WellFormed, GroupsOf

LEMMA FileFacts ==
    ASSUME NEW v \in Versions
    PROVE  /\ Len(File(v)) \in Nat /\ DOMAIN File(v) = 1 .. Len(File(v)) /\ Len(File(v)) >= 3
           /\ File(v)[1] = RoleOf(v) /\ File(v)[2] = BindingOf(v) /\ File(v)[3] = ConfigOf(v)
           /\ \A k \in DOMAIN File(v) : k > 3 => File(v)[k] \in AllCore(Of[v])
           /\ \A r \in Range(File(v)) : r \in {RoleOf(v), BindingOf(v), ConfigOf(v)} \cup AllCore(Of[v])
<1>1. WellFormed(Of[v].groups)
      BY RolloutAssumption
<1>2. File(v) = generateYAMLs(Of[v])
      BY DEF File, Files
<1> DEFINE f == generateYAMLs(Of[v])
           roles == generateRolesAndBindings(Of[v].config.ServiceAccount)
           m == generateConfigMap(Of[v])
           S == AllCore(Of[v])
<1>3. /\ Len(f) \in Nat /\ DOMAIN f = 1 .. Len(f) /\ Len(f) >= 3
      /\ f[1] = roles[1] /\ f[2] = roles[2] /\ f[3] = m
      BY <1>1, FileParts
<1>4. /\ \A k \in DOMAIN f : k > 3 => f[k] \in S
      /\ \A r \in Range(f) : r \in {roles[1], roles[2], m} \cup S
      BY <1>1, FileParts
<1> HIDE DEF f, roles, m, S
<1> QED BY <1>2, <1>3, <1>4 DEF RoleOf, BindingOf, ConfigOf, f, roles, m, S

LEMMA InCore ==
    ASSUME NEW v, NEW r \in AllCore(Of[v])
    PROVE  \E i \in GroupsOf(v) :
              \/ r = DeploymentOf(v, i) \/ r = AutoscalerOf(v, i)
              \/ \E l \in ListenersOf(v, i) : r = ServiceOf(v, i, l)
BY DEF AllCore, CoreOf, GroupsOf, ListenersOf, DeploymentOf, AutoscalerOf, ServiceOf

LEMMA CoreIsOf ==
    ASSUME NEW v, NEW r \in AllCore(Of[v])
    PROVE  IsOf(r, v) /\ r.kind \notin {"Role", "RoleBinding", "ConfigMap"}
<1>1. PICK i \in GroupsOf(v) :
              \/ r = DeploymentOf(v, i) \/ r = AutoscalerOf(v, i)
              \/ \E l \in ListenersOf(v, i) : r = ServiceOf(v, i, l)
      BY InCore
<1>2. CASE r = DeploymentOf(v, i)
  <2>1. r.kind = "Deployment" /\ r.labels.version = Of[v].deploymentId
        BY <1>2, DeploymentFields, VersionLabel
  <2> QED BY <1>2, <2>1 DEF IsOf
<1>3. CASE r = AutoscalerOf(v, i)
  <2>1. r.kind = "HorizontalPodAutoscaler" /\ r.labels.version = Of[v].deploymentId
        BY <1>3, AutoscalerFields, VersionLabel
  <2> QED BY <1>3, <2>1 DEF IsOf
<1>4. CASE \E l \in ListenersOf(v, i) : r = ServiceOf(v, i, l)
  <2>1. r.kind = "Service" /\ r.labels.version = Of[v].deploymentId
        BY <1>4, ServiceFields, VersionLabel
  <2> QED BY <1>4, <2>1 DEF IsOf
<1> QED BY <1>1, <1>2, <1>3, <1>4

\* Every resource is one that a version's file was generated with.
LEMMA FileIsOf ==
    ASSUME NEW v \in Versions, NEW r \in Range(File(v))
    PROVE  IsOf(r, v)
<1>1. CASE r = RoleOf(v)
  <2>1. r.kind = "Role"
        BY <1>1, RoleFields
  <2> QED BY <1>1, <2>1 DEF IsOf, Roles
<1>2. CASE r = BindingOf(v)
  <2>1. r.kind = "RoleBinding"
        BY <1>2, RoleFields
  <2> QED BY <1>2, <2>1 DEF IsOf, Roles
<1>3. CASE r = ConfigOf(v)
  <2>1. r.kind = "ConfigMap" /\ r.labels.version = Of[v].deploymentId
        BY <1>3, ConfigFields, VersionLabel
  <2> QED BY <1>3, <2>1 DEF IsOf
<1> QED BY <1>1, <1>2, <1>3, FileFacts, CoreIsOf

LEMMA ResourceIsOf ==
    ASSUME NEW r \in AllResources
    PROVE  \E v \in Versions : r \in Range(File(v)) /\ IsOf(r, v)
BY FileIsOf DEF AllResources

LEMMA FileInAll ==
    ASSUME NEW v \in Versions, NEW k \in DOMAIN File(v)
    PROVE  File(v)[k] \in Range(File(v)) /\ File(v)[k] \in AllResources
BY DEF Range, AllResources

LEMMA DeploymentIs ==
    ASSUME NEW r \in AllResources, r.kind = "Deployment"
    PROVE  \E v \in Versions : \E i \in GroupsOf(v) : r = DeploymentOf(v, i)
BY ResourceIsOf DEF IsOf

LEMMA ServiceIs ==
    ASSUME NEW r \in AllResources, r.kind = "Service"
    PROVE  \E v \in Versions : \E i \in GroupsOf(v) : \E l \in ListenersOf(v, i) : r = ServiceOf(v, i, l)
BY ResourceIsOf DEF IsOf

LEMMA ConfigIs ==
    ASSUME NEW r \in AllResources, r.kind = "ConfigMap"
    PROVE  \E v \in Versions : r = ConfigOf(v)
BY ResourceIsOf DEF IsOf

\* There is no other resource of the kind and name of one that is a version's own.
LEMMA OwnIsUnique ==
    ASSUME NEW v \in Versions, NEW x \in Own[v], NEW r \in AllResources,
           x.kind = r.kind, x.name = r.name
    PROVE  x = r
<1>1. /\ x \in Range(File(v)) /\ x.kind \notin Roles
      /\ x.kind = "Service" /\ r.kind = "Service" => r = x
      BY DEF Own
<1>2. IsOf(x, v)
      BY <1>1, FileIsOf
<1>3. PICK w \in Versions : IsOf(r, w)
      BY ResourceIsOf
<1>4. CASE x.kind = "ConfigMap"
  <2>1. x = ConfigOf(v) /\ r = ConfigOf(w)
        BY <1>2, <1>3, <1>4 DEF IsOf
  <2>2. Of[v].deploymentId = Of[w].deploymentId
        BY <2>1, ConfigFields
  <2> QED BY <2>1, <2>2, RolloutAssumption
<1>5. CASE x.kind = "Deployment"
  <2>1. PICK i \in GroupsOf(v) : x = DeploymentOf(v, i)
        BY <1>2, <1>5 DEF IsOf
  <2>2. PICK j \in GroupsOf(w) : r = DeploymentOf(w, j)
        BY <1>3, <1>5 DEF IsOf
  <2>3. NameOf(v, i) = NameOf(w, j)
        BY <2>1, <2>2, DeploymentFields
  <2> QED BY <2>1, <2>2, <2>3, NamesDetermine
<1>6. CASE x.kind = "HorizontalPodAutoscaler"
  <2>1. PICK i \in GroupsOf(v) : x = AutoscalerOf(v, i)
        BY <1>2, <1>6 DEF IsOf
  <2>2. PICK j \in GroupsOf(w) : r = AutoscalerOf(w, j)
        BY <1>3, <1>6 DEF IsOf
  <2>3. NameOf(v, i) = NameOf(w, j)
        BY <2>1, <2>2, AutoscalerFields
  <2> QED BY <2>1, <2>2, <2>3, NamesDetermine
<1>7. CASE x.kind = "Service"
      BY <1>1, <1>7
<1> QED BY <1>1, <1>2, <1>4, <1>5, <1>6, <1>7 DEF IsOf, Roles
-------------------------------------------------------------------------------
(* The inductive invariant. *)

\* The namespace has one resource at most of a kind and name.
ObjectsInv ==
    /\ objects \subseteq AllResources
    /\ \A o, u \in objects : o.kind = u.kind /\ o.name = u.name => o = u

\* How far the commands are.
CommandsInv ==
    /\ stage \in [Versions -> Stages]
    /\ next \in [Versions -> Nat]
    /\ \A v \in Versions :
          /\ stage[v] = "applying" => next[v] \in DOMAIN File(v)
          /\ stage[v] = "deleting" => next[v] \in DOMAIN Commands[v].kinds
          /\ stage[v] \notin {"applying", "deleting"} => next[v] = 1
    /\ faults \in 0 .. MaxFaults

Pod(spec, cfg, routing) == [spec |-> spec, cfg |-> cfg, routing |-> routing]

\* The pod in slot s is for a group of a version.  It reads the ConfigMap of that
\* version and takes only the pods for c that this ConfigMap tells it to.
IsPod(p, s) ==
    /\ p = Pod(p.spec, p.cfg, p.routing)
    /\ p.routing = [c \in DOMAIN p.routing |-> p.routing[c]]
    /\ \E v \in Versions : \E i \in GroupsOf(v) :
          /\ p.spec = DeploymentOf(v, i) /\ s = NameOf(v, i)
          /\ p.cfg \in {Nothing, ConfigOf(v)}
    /\ \A c \in DOMAIN p.routing : \A q \in p.routing[c] :
          /\ q \in Slots /\ c \in DOMAIN p.cfg.Groups
          /\ q = deploymentName(p.cfg.labels.app, p.cfg.Groups[c], p.cfg.DeploymentId)

PodsInv ==
    /\ pods = [s \in Slots |-> pods[s]]
    /\ \A s \in Slots : pods[s] # Nothing => IsPod(pods[s], s)

\* What has been applied of a version's own is there.
OwnInv ==
    \A v \in Versions :
       /\ stage[v] = "applying" =>
             \A k \in DOMAIN File(v) :
                k < next[v] /\ File(v)[k] \in Own[v] => File(v)[k] \in objects
       /\ stage[v] = "applied" => Own[v] \subseteq objects

IInv == ObjectsInv /\ CommandsInv /\ PodsInv /\ OwnInv

\* All versions run under one service account.
OneAccount ==
    \A v, w \in Versions : Of[v].config.ServiceAccount = Of[w].config.ServiceAccount

\* The roles are there as soon as a ConfigMap is, and stay.
RolesThere == \A v \in Versions : RoleOf(v) \in objects /\ BindingOf(v) \in objects

RolesInv ==
    /\ \A v \in Versions :
          stage[v] = "applying" =>
             /\ next[v] > 1 => RoleOf(v) \in objects
             /\ next[v] > 2 => BindingOf(v) \in objects
    /\ \A o \in objects : o.kind = "ConfigMap" => RolesThere
    /\ \A s \in Slots : pods[s] # Nothing /\ pods[s].cfg # Nothing => RolesThere
-------------------------------------------------------------------------------
LEMMA CommandFacts ==
    ASSUME NEW v \in Versions
    PROVE  /\ Commands[v].Version = Of[v].deploymentId
           /\ Len(Commands[v].kinds) = 5 /\ DOMAIN Commands[v].kinds = 1 .. 5
BY DEF Commands, header, selectedKinds, allKinds

\* A command for one version takes nothing away that is another one's own, nor
\* puts anything in its place.
LEMMA OwnStays ==
    ASSUME ObjectsInv, NEW v \in Versions, NEW x \in Own[v], x \in objects,
           NEW w \in Versions, stage[w] = "applying", next[w] \in DOMAIN File(w), ApplyResource(w)
    PROVE  x \in objects'
<1> DEFINE r == File(w)[next[w]]
<1>1. r \in AllResources
      BY FileInAll
<1>2. objects' = {o \in objects : o.kind # r.kind \/ o.name # r.name} \cup {r}
      BY DEF ApplyResource
<1> HIDE DEF r
<1> QED BY <1>1, <1>2, OwnIsUnique

LEMMA OwnNotSelected ==
    ASSUME NEW v \in Versions, NEW x \in Own[v], NEW w \in Versions, x \in Selected(w)
    PROVE  v = w
<1>1. x \in Range(File(v)) /\ x.kind \notin Roles
      BY DEF Own
<1>2. x.labels.version = Of[v].deploymentId
      BY <1>1, FileIsOf DEF IsOf
<1>3. x.labels.version = Of[w].deploymentId
      BY CommandFacts DEF Selected
<1> QED BY <1>2, <1>3, RolloutAssumption
-------------------------------------------------------------------------------
LEMMA InitIInv == Init => IInv /\ RolesInv
<1> SUFFICES ASSUME Init PROVE IInv /\ RolesInv
    OBVIOUS
<1>1. ObjectsInv
      BY DEF Init, ObjectsInv
<1>2. CommandsInv
      BY RolloutAssumption DEF Init, CommandsInv, Stages
<1>3. PodsInv
      BY DEF Init, PodsInv
<1>4. OwnInv
      BY DEF Init, OwnInv
<1>5. RolesInv
      BY DEF Init, RolesInv
<1> QED BY <1>1, <1>2, <1>3, <1>4, <1>5 DEF IInv

LEMMA ObjectsStep == IInv /\ [Next]_vars => ObjectsInv'
<1> SUFFICES ASSUME IInv, [Next]_vars PROVE ObjectsInv'
    OBVIOUS
<1>1. ASSUME NEW v \in Versions, ApplyResource(v)
      PROVE  ObjectsInv'
  <2>1. File(v)[next[v]] \in AllResources
        BY <1>1, FileInAll DEF IInv, CommandsInv, ApplyResource
  <2> QED BY <1>1, <2>1 DEF IInv, ObjectsInv, ApplyResource
<1>2. ASSUME NEW v \in Versions, DeleteResource(v)
      PROVE  ObjectsInv'
  <2>1. objects' \subseteq objects
        BY <1>2 DEF DeleteResource
  <2> QED BY <2>1 DEF IInv, ObjectsInv
<1>3. ASSUME UNCHANGED objects
      PROVE  ObjectsInv'
      BY <1>3 DEF IInv, ObjectsInv
<1> QED BY <1>1, <1>2, <1>3 DEF Next, vars, Apply, Delete, Interrupt,
       CreatePod, RemovePod, LosePod, StartPod, Learn

LEMMA CommandsStep == IInv /\ [Next]_vars => CommandsInv'
<1> SUFFICES ASSUME IInv, [Next]_vars PROVE CommandsInv'
    OBVIOUS
<1>0. \A v \in Versions : 1 \in DOMAIN File(v) /\ 1 \in DOMAIN Commands[v].kinds
      BY FileFacts, CommandFacts
<1>1. ASSUME NEW v \in Versions, Apply(v)
      PROVE  CommandsInv'
      BY <1>0, <1>1 DEF IInv, CommandsInv, Apply, Stages
<1>2. ASSUME NEW v \in Versions, ApplyResource(v)
      PROVE  CommandsInv'
  <2>1. /\ Len(File(v)) \in Nat /\ DOMAIN File(v) = 1 .. Len(File(v))
        /\ next[v] \in Nat
        BY FileFacts DEF IInv, CommandsInv
  <2> QED BY <1>2, <2>1 DEF IInv, CommandsInv, ApplyResource, Stages
<1>3. ASSUME NEW v \in Versions, Delete(v)
      PROVE  CommandsInv'
      BY <1>0, <1>3 DEF IInv, CommandsInv, Delete, Stages
<1>4. ASSUME NEW v \in Versions, DeleteResource(v)
      PROVE  CommandsInv'
  <2>1. /\ Len(Commands[v].kinds) = 5 /\ DOMAIN Commands[v].kinds = 1 .. 5
        /\ next[v] \in Nat
        BY CommandFacts DEF IInv, CommandsInv
  <2>2. CASE UNCHANGED <<stage, next>>
        BY <1>4, <2>2 DEF IInv, CommandsInv, DeleteResource
  <2>3. CASE IF next[v] < Len(Commands[v].kinds)
                 THEN /\ next' = [next EXCEPT ![v] = @ + 1]
                      /\ UNCHANGED stage
                 ELSE /\ next' = [next EXCEPT ![v] = 1]
                      /\ stage' = [stage EXCEPT ![v] = "deleted"]
    <3>1. UNCHANGED faults /\ stage[v] = "deleting"
          BY <1>4 DEF DeleteResource
    <3> QED BY <2>1, <2>3, <3>1 DEF IInv, CommandsInv, Stages
  <2> QED BY <1>4, <2>2, <2>3 DEF DeleteResource
<1>5. ASSUME NEW v \in Versions, Interrupt(v)
      PROVE  CommandsInv'
      BY <1>0, <1>5, RolloutAssumption DEF IInv, CommandsInv, Interrupt, Stages
<1>6. ASSUME NEW s \in Slots, LosePod(s)
      PROVE  CommandsInv'
      BY <1>6, RolloutAssumption DEF IInv, CommandsInv, LosePod
<1>7. ASSUME UNCHANGED <<stage, next, faults>>
      PROVE  CommandsInv'
      BY <1>7 DEF IInv, CommandsInv
<1> QED BY <1>1, <1>2, <1>3, <1>4, <1>5, <1>6, <1>7 DEF Next, vars,
       CreatePod, RemovePod, StartPod, Learn
-------------------------------------------------------------------------------
(* Pods. *)

\* The pods with the one in slot s replaced.
WithPod(f, s, p) == [f EXCEPT ![s] = p]

\* A pod with its config or its routing replaced.
WithConfig(p, cfg)      == [p EXCEPT !.cfg = cfg]
WithRouting(p, routing) == [p EXCEPT !.routing = routing]

\* The pods with both replaced in one of them.
WithStarted(f, s, cfg, routing) == [f EXCEPT ![s].cfg = cfg, ![s].routing = routing]

LEMMA Fields ==
    ASSUME NEW x, NEW y, NEW z, NEW a, NEW b
    PROVE  /\ WithRouting(Pod(x, y, z), b) = Pod(x, y, b)
           /\ WithConfig(Pod(x, y, z), a) = Pod(x, a, z)
           /\ Pod(x, y, z).spec = x /\ Pod(x, y, z).cfg = y /\ Pod(x, y, z).routing = z
BY DEF Pod, WithConfig, WithRouting

LEMMA Twice ==
    ASSUME NEW S, NEW f, f = [x \in S |-> f[x]], NEW s \in S, NEW p, NEW q
    PROVE  WithPod(WithPod(f, s, p), s, q) = WithPod(f, s, q) /\ WithPod(f, s, p)[s] = p
BY DEF WithPod

LEMMA ConfigAndRouting ==
    ASSUME NEW S, NEW f, f = [x \in S |-> f[x]], NEW s \in S, NEW a, NEW b,
           NEW x, NEW y, NEW z, f[s] = Pod(x, y, z)
    PROVE  WithStarted(f, s, a, b) = WithPod(f, s, Pod(x, a, b))
<1> DEFINE g == WithPod(f, s, WithConfig(f[s], a))
<1>1. [f EXCEPT ![s].cfg = a] = g
      BY Zenon DEF WithPod, WithConfig
<1>2. g[s] = Pod(x, a, z)
      BY Fields, Twice
<1>3. [g EXCEPT ![s].routing = b] = WithPod(g, s, WithRouting(g[s], b))
      BY Zenon DEF WithPod, WithRouting
<1>4. WithStarted(f, s, a, b) = [[f EXCEPT ![s].cfg = a] EXCEPT ![s].routing = b]
      BY Zenon DEF WithStarted
<1>5. WithStarted(f, s, a, b) = WithPod(g, s, WithRouting(g[s], b))
      BY <1>1, <1>3, <1>4, Zenon
<1>6. WithRouting(g[s], b) = Pod(x, a, b)
      BY <1>2, Fields
<1>7. WithPod(g, s, WithRouting(g[s], b)) = WithPod(f, s, WithRouting(g[s], b))
      BY Twice
<1> HIDE DEF g
<1> QED BY <1>5, <1>6, <1>7, Zenon

LEMMA RoutingOf ==
    ASSUME NEW S, NEW f, f = [x \in S |-> f[x]], NEW s \in S, NEW c, NEW b,
           NEW x, NEW y, NEW z, f[s] = Pod(x, y, z)
    PROVE  [f EXCEPT ![s].routing[c] = b] = WithPod(f, s, Pod(x, y, [z EXCEPT ![c] = b]))
<1>1. [f EXCEPT ![s].routing[c] = b] = WithPod(f, s, WithRouting(f[s], [f[s].routing EXCEPT ![c] = b]))
      BY Zenon DEF WithPod, WithRouting
<1>2. WithRouting(f[s], [f[s].routing EXCEPT ![c] = b]) = Pod(x, y, [z EXCEPT ![c] = b])
      BY Fields
<1> QED BY <1>1, <1>2, Zenon

LEMMA PodChange ==
    ASSUME PodsInv, NEW s \in Slots, NEW p, p # Nothing => IsPod(p, s), pods' = WithPod(pods, s, p)
    PROVE  PodsInv'
BY DEF PodsInv, WithPod

LEMMA CreateKeeps ==
    ASSUME IInv, NEW s \in Slots, CreatePod(s)
    PROVE  PodsInv'
<1>1. PICK dep \in OfKind("Deployment") :
          /\ dep.name = s
          /\ pods' = [pods EXCEPT ![s] = [spec |-> dep, cfg |-> Nothing, routing |-> <<>>]]
      BY DEF CreatePod
<1> DEFINE p == Pod(dep, Nothing, <<>>)
<1>2. dep \in AllResources /\ dep.kind = "Deployment"
      BY DEF OfKind, IInv, ObjectsInv
<1>3. PICK v \in Versions : \E i \in GroupsOf(v) : dep = DeploymentOf(v, i)
      BY <1>2, DeploymentIs
<1>4. PICK i \in GroupsOf(v) : dep = DeploymentOf(v, i)
      BY <1>3
<1>5. s = NameOf(v, i)
      BY <1>1, <1>4, DeploymentFields
<1>6. IsPod(p, s)
  <2>1. /\ p.spec = dep /\ p.cfg = Nothing /\ p.routing = <<>>
        /\ p = Pod(p.spec, p.cfg, p.routing)
        BY DEF Pod
  <2> HIDE DEF p
  <2>2. DOMAIN p.routing = {} /\ p.routing = [c \in DOMAIN p.routing |-> p.routing[c]]
        BY <2>1
  <2> QED BY <1>4, <1>5, <2>1, <2>2 DEF IsPod
<1>7. pods' = WithPod(pods, s, p)
      BY <1>1 DEF WithPod, Pod
<1> HIDE DEF p
<1> QED BY <1>6, <1>7, PodChange DEF IInv

LEMMA StartKeeps ==
    ASSUME IInv, NEW s \in Slots, StartPod(s)
    PROVE  PodsInv'
<1>1. PICK cm \in OfKind("ConfigMap") :
          /\ cm.name = pods[s].spec.configMap
          /\ pods' = [pods EXCEPT ![s].cfg = cm,
                                  ![s].routing = [c \in Used(pods[s].spec) |-> {}]]
      BY DEF StartPod
<1>2. pods = [x \in Slots |-> pods[x]] /\ IsPod(pods[s], s)
      BY DEF StartPod, IInv, PodsInv
<1> DEFINE old == pods[s]
           none == [c \in Used(old.spec) |-> {}]
           p == Pod(old.spec, cm, none)
<1>3. pods' = WithPod(pods, s, p)
  <2>1. old = Pod(old.spec, old.cfg, old.routing)
        BY <1>2 DEF IsPod
  <2>2. pods' = WithStarted(pods, s, cm, none)
        BY <1>1, Zenon DEF WithStarted
  <2> HIDE DEF none
  <2> QED BY <1>2, <2>1, <2>2, ConfigAndRouting
<1>4. PICK v \in Versions : \E i \in GroupsOf(v) : old.spec = DeploymentOf(v, i) /\ s = NameOf(v, i)
      BY <1>2 DEF IsPod
<1>5. cm = ConfigOf(v)
  <2>1. cm \in AllResources /\ cm.kind = "ConfigMap"
        BY DEF OfKind, IInv, ObjectsInv
  <2>2. PICK w \in Versions : cm = ConfigOf(w)
        BY <2>1, ConfigIs
  <2>3. <<"config", Of[w].deploymentId>> = <<"config", Of[v].deploymentId>>
        BY <1>1, <1>4, <2>2, ConfigFields, DeploymentFields
  <2> QED BY <2>2, <2>3, RolloutAssumption
<1>6. IsPod(p, s)
  <2>1. /\ p.spec = old.spec /\ p.cfg = cm /\ p.routing = none
        /\ p = Pod(p.spec, p.cfg, p.routing)
        BY DEF Pod
  <2>2. none = [c \in DOMAIN none |-> none[c]] /\ \A c \in DOMAIN none : none[c] = {}
        OBVIOUS
  <2> HIDE DEF p, none, old
  <2> QED BY <1>4, <1>5, <2>1, <2>2 DEF IsPod
<1> HIDE DEF p
<1> QED BY <1>3, <1>6, PodChange DEF IInv

LEMMA LearnKeeps ==
    ASSUME IInv, NEW s \in Slots, NEW c, Learn(s, c)
    PROVE  PodsInv'
<1> DEFINE old == pods[s]
           found == Hosting(old.cfg, c)
           routing == [old.routing EXCEPT ![c] = found]
           p == Pod(old.spec, old.cfg, routing)
<1>1. pods = [x \in Slots |-> pods[x]] /\ IsPod(old, s)
      BY DEF Learn, Running, IInv, PodsInv
<1>2. /\ c \in DOMAIN old.routing /\ c \in DOMAIN old.cfg.Groups
      /\ pods' = [pods EXCEPT ![s].routing[c] = found]
      BY DEF Learn
<1>3. pods' = WithPod(pods, s, p)
  <2>1. old = Pod(old.spec, old.cfg, old.routing)
        BY <1>1 DEF IsPod
  <2> HIDE DEF found
  <2> QED BY <1>1, <1>2, <2>1, RoutingOf
<1>4. ASSUME NEW q \in found
      PROVE  /\ q \in Slots
             /\ q = deploymentName(old.cfg.labels.app, old.cfg.Groups[c], old.cfg.DeploymentId)
  <2>1. /\ q \in Slots /\ pods[q] # Nothing
        /\ pods[q].spec.podName = deploymentName(old.cfg.labels.app, old.cfg.Groups[c], old.cfg.DeploymentId)
        BY DEF Hosting, Running
  <2>2. IsPod(pods[q], q)
        BY <2>1 DEF IInv, PodsInv
  <2>3. PICK v \in Versions : \E i \in GroupsOf(v) :
            pods[q].spec = DeploymentOf(v, i) /\ q = NameOf(v, i)
        BY <2>2 DEF IsPod
  <2>4. pods[q].spec.podName = q
        BY <2>3, DeploymentFields
  <2> QED BY <2>1, <2>4
<1>5. IsPod(p, s)
  <2>1. /\ p.spec = old.spec /\ p.cfg = old.cfg /\ p.routing = routing
        /\ p = Pod(p.spec, p.cfg, p.routing)
        BY DEF Pod
  <2>2. old.routing = [x \in DOMAIN old.routing |-> old.routing[x]]
        BY <1>1 DEF IsPod
  <2>3. /\ DOMAIN routing = DOMAIN old.routing
        /\ routing = [x \in DOMAIN routing |-> routing[x]]
        /\ \A x \in DOMAIN routing : routing[x] = IF x = c THEN found ELSE old.routing[x]
    <3> HIDE DEF found, old
    <3> QED BY <2>2
  <2> HIDE DEF p, routing, old, found
  <2> QED BY <1>1, <1>2, <1>4, <2>1, <2>3 DEF IsPod
<1> HIDE DEF p
<1> QED BY <1>3, <1>5, PodChange DEF IInv

LEMMA PodsStep == IInv /\ [Next]_vars => PodsInv'
<1> SUFFICES ASSUME IInv, [Next]_vars PROVE PodsInv'
    OBVIOUS
<1>1. ASSUME NEW s \in Slots, pods' = [pods EXCEPT ![s] = Nothing]
      PROVE  PodsInv'
      BY <1>1, PodChange DEF WithPod, IInv
<1>2. ASSUME UNCHANGED pods
      PROVE  PodsInv'
      BY <1>2 DEF IInv, PodsInv
<1>3. ASSUME NEW v \in Versions, DeleteResource(v)
      PROVE  PodsInv'
  <2>1. UNCHANGED pods \/ \E s \in SelectedPods(v) : pods' = [pods EXCEPT ![s] = Nothing]
        BY <1>3 DEF DeleteResource
  <2> QED BY <1>1, <1>2, <2>1 DEF SelectedPods
<1> QED BY <1>1, <1>2, <1>3, CreateKeeps, StartKeeps, LearnKeeps DEF Next, vars,
       Apply, ApplyResource, Delete, Interrupt, RemovePod, LosePod
-------------------------------------------------------------------------------
(* What is a version's own. *)

LEMMA ApplyKeepsOwn ==
    ASSUME IInv, NEW w \in Versions, ApplyResource(w)
    PROVE  OwnInv'
<1>0. /\ stage[w] = "applying" /\ next[w] \in DOMAIN File(w)
      /\ Len(File(w)) \in Nat /\ DOMAIN File(w) = 1 .. Len(File(w))
      /\ \A k \in DOMAIN File(w) : k \in Nat
      BY FileFacts DEF IInv, CommandsInv, ApplyResource
<1>1. File(w)[next[w]] \in objects'
      BY DEF ApplyResource
<1>2. ASSUME NEW v \in Versions, NEW x \in Own[v], x \in objects
      PROVE  x \in objects'
      BY <1>0, <1>2, OwnStays DEF IInv
<1>3. ASSUME NEW v \in Versions, v # w
      PROVE  stage'[v] = stage[v] /\ next'[v] = next[v]
      BY <1>3 DEF IInv, CommandsInv, ApplyResource
<1>4. ASSUME NEW k \in DOMAIN File(w), k <= next[w], File(w)[k] \in Own[w]
      PROVE  File(w)[k] \in objects'
  <2>1. CASE k = next[w]
        BY <1>1, <2>1
  <2>2. CASE k < next[w]
        BY <1>0, <1>2, <1>4, <2>2 DEF IInv, OwnInv
  <2> QED BY <1>0, <1>4, <2>1, <2>2
<1>5. CASE next[w] < Len(File(w))
  <2>1. stage' = stage /\ next'[w] = next[w] + 1
        BY <1>5 DEF ApplyResource, IInv, CommandsInv
  <2>2. \A k \in DOMAIN File(w) : k < next'[w] => k <= next[w]
        BY <1>0, <2>1
  <2> QED BY <1>0, <1>2, <1>3, <1>4, <2>1, <2>2 DEF IInv, OwnInv
<1>6. CASE ~ next[w] < Len(File(w))
  <2>1. stage'[w] = "applied"
        BY <1>6 DEF ApplyResource, IInv, CommandsInv
  <2>2. \A k \in DOMAIN File(w) : k <= next[w]
        BY <1>0, <1>6
  <2>3. ASSUME NEW x \in Own[w]
        PROVE  x \in objects'
    <3>1. PICK k \in DOMAIN File(w) : x = File(w)[k]
          BY DEF Own, Range
    <3> QED BY <1>4, <2>2, <3>1
  <2> QED BY <1>2, <1>3, <2>1, <2>3 DEF IInv, OwnInv
<1> QED BY <1>5, <1>6

LEMMA DeleteKeepsOwn ==
    ASSUME IInv, NEW w \in Versions, DeleteResource(w)
    PROVE  OwnInv'
<1>1. CASE UNCHANGED objects
  <2>1. \A v \in Versions : stage'[v] \in {"applying", "applied"} => stage'[v] = stage[v] /\ next'[v] = next[v]
        BY DEF DeleteResource, IInv, CommandsInv
  <2> QED BY <1>1, <2>1 DEF IInv, OwnInv
<1>2. CASE UNCHANGED <<stage, next>> /\ \E o \in Selected(w) : objects' = objects \ {o}
  <2>1. PICK o \in Selected(w) : objects' = objects \ {o}
        BY <1>2
  <2>2. stage[w] = "deleting"
        BY DEF DeleteResource
  <2>3. ASSUME NEW v \in Versions, stage[v] # "deleting", NEW x \in Own[v], x \in objects
        PROVE  x \in objects'
        BY <2>1, <2>2, <2>3, OwnNotSelected
  <2> QED BY <1>2, <2>3 DEF IInv, OwnInv
<1> QED BY <1>1, <1>2 DEF DeleteResource

LEMMA OwnStep == IInv /\ [Next]_vars => OwnInv'
<1> SUFFICES ASSUME IInv, [Next]_vars PROVE OwnInv'
    OBVIOUS
<1>1. ASSUME NEW v \in Versions, Apply(v)
      PROVE  OwnInv'
  <2>1. next[v] = 1 /\ \A k \in DOMAIN File(v) : ~ k < 1
        BY <1>1, FileFacts DEF Apply, IInv, CommandsInv
  <2> QED BY <1>1, <2>1 DEF Apply, IInv, CommandsInv, OwnInv
<1>2. ASSUME NEW v \in Versions, Delete(v)
      PROVE  OwnInv'
      BY <1>2 DEF Delete, IInv, CommandsInv, OwnInv
<1>3. ASSUME NEW v \in Versions, Interrupt(v)
      PROVE  OwnInv'
      BY <1>3 DEF Interrupt, IInv, CommandsInv, OwnInv
<1>4. ASSUME UNCHANGED <<objects, stage, next>>
      PROVE  OwnInv'
      BY <1>4 DEF IInv, OwnInv
<1> QED BY <1>1, <1>2, <1>3, <1>4, ApplyKeepsOwn, DeleteKeepsOwn DEF Next, vars,
       CreatePod, RemovePod, LosePod, StartPod, Learn

LEMMA NextIInv == IInv /\ [Next]_vars => IInv'
BY ObjectsStep, CommandsStep, PodsStep, OwnStep DEF IInv

LEMMA Invariant == Spec => []IInv
<1>1. Init => IInv
      BY InitIInv
<1>2. IInv /\ [Next]_vars => IInv'
      BY NextIInv
<1> QED BY <1>1, <1>2, PTL DEF Spec
-------------------------------------------------------------------------------
(* The properties. *)

\* The variables have their types, the namespace has one resource of a name, and
\* the pods are those of its Deployments and have the config of their version
\* (kube.go:86-167).
THEOREM TypeCorrect == Spec => []TypeOK
<1>1. IInv => TypeOK
  <2> SUFFICES ASSUME IInv PROVE TypeOK
      OBVIOUS
  <2>1. ASSUME NEW v \in Versions
        PROVE  next[v] \in DOMAIN File(v) \cup DOMAIN Commands[v].kinds
    <3>1. 1 \in DOMAIN File(v)
          BY FileFacts
    <3> QED BY <3>1 DEF IInv, CommandsInv
  <2>2. ASSUME NEW s \in Slots, pods[s] # Nothing
        PROVE  /\ pods[s].spec.kind = "Deployment" /\ pods[s].spec.name = s
               /\ pods[s].cfg # Nothing =>
                     /\ pods[s].cfg.kind = "ConfigMap"
                     /\ pods[s].cfg.labels = pods[s].spec.podLabels
               /\ \A c \in DOMAIN pods[s].routing : pods[s].routing[c] \subseteq Slots
    <3>1. IsPod(pods[s], s)
          BY <2>2 DEF IInv, PodsInv
    <3>2. pods[s].spec.kind = "Deployment" /\ pods[s].spec.name = s
          BY <3>1, DeploymentFields DEF IsPod
    <3>3. ASSUME pods[s].cfg # Nothing
          PROVE  pods[s].cfg.kind = "ConfigMap" /\ pods[s].cfg.labels = pods[s].spec.podLabels
      <4>1. PICK v \in Versions : \E i \in GroupsOf(v) :
                pods[s].spec = DeploymentOf(v, i) /\ pods[s].cfg = ConfigOf(v)
            BY <3>1, <3>3 DEF IsPod
      <4> QED BY <4>1, ConfigFields, DeploymentFields
    <3> QED BY <3>1, <3>2, <3>3 DEF IsPod
  <2> QED BY <2>1, <2>2 DEF TypeOK, IInv, ObjectsInv, CommandsInv
<1> QED BY <1>1, Invariant, PTL

\* A pod only ever routes to pods of its own version that run the component,
\* however versions are applied and deleted side by side (kube.go:104, 569-578,
\* babysitter.go:177-182).
THEOREM OnlyWithinVersion == Spec => []RoutesWithinVersion
<1>1. IInv => RoutesWithinVersion
  <2> SUFFICES ASSUME IInv, NEW s \in Running, NEW c \in DOMAIN pods[s].routing,
                      NEW q \in pods[s].routing[c], pods[q] # Nothing
               PROVE  /\ VersionOf(q) = VersionOf(s)
                      /\ c \in Range(pods[q].spec.container.args)
      BY DEF RoutesWithinVersion
  <2>1. s \in Slots /\ pods[s] # Nothing /\ pods[s].cfg # Nothing
        BY DEF Running
  <2>2. IsPod(pods[s], s)
        BY <2>1 DEF IInv, PodsInv
  <2>3. PICK v \in Versions : \E i \in GroupsOf(v) :
            pods[s].spec = DeploymentOf(v, i) /\ pods[s].cfg = ConfigOf(v)
        BY <2>1, <2>2 DEF IsPod
  <2>4. /\ q \in Slots /\ c \in DOMAIN pods[s].cfg.Groups
        /\ q = deploymentName(pods[s].cfg.labels.app, pods[s].cfg.Groups[c], pods[s].cfg.DeploymentId)
        BY <2>2 DEF IsPod
  <2>5. PICK k \in GroupsOf(v) : c \in Range(Of[v].groups[k].Components) /\ q = NameOf(v, k)
    <3>1. c \in DOMAIN GroupNames(Of[v].groups)
          BY <2>3, <2>4, ConfigFields
    <3>2. WellFormed(Of[v].groups)
          BY RolloutAssumption
    <3>3. PICK k \in GroupsOf(v) : c \in Range(Of[v].groups[k].Components)
          BY <3>1, <3>2, GroupNamesAre DEF GroupsOf
    <3>4. GroupNames(Of[v].groups)[c] = Of[v].groups[k].Name
          BY <3>2, <3>3, GroupNamesAre DEF GroupsOf
    <3>5. q = deploymentName(Of[v].app, Of[v].groups[k].Name, Of[v].deploymentId)
          BY <2>3, <2>4, <3>4, ConfigFields, VersionLabel
    <3> QED BY <3>3, <3>5 DEF NameOf
  <2>6. IsPod(pods[q], q)
        BY <2>4 DEF IInv, PodsInv
  <2>7. PICK w \in Versions : \E j \in GroupsOf(w) : pods[q].spec = DeploymentOf(w, j) /\ q = NameOf(w, j)
        BY <2>6 DEF IsPod
  <2>8. w = v /\ pods[q].spec = DeploymentOf(v, k)
        BY <2>5, <2>7, NamesDetermine
  <2>9. pods[q].spec.podLabels = Labels(Of[v]) /\ pods[s].spec.podLabels = Labels(Of[v])
        BY <2>3, <2>8, DeploymentFields
  <2>10. VersionOf(q) = VersionOf(s)
        BY <2>9 DEF VersionOf
  <2> QED BY <2>5, <2>8, <2>10, DeploymentFields
<1> QED BY <1>1, Invariant, PTL

\* No command given for one version changes or removes what was applied for
\* another and is only in that one's file: only the roles, and Services whose
\* name several versions share, are common (kube.go:88-93, 181-190, 555-558).
THEOREM OthersAreLeftAlone == Spec => []VersionsAreIndependent
<1>1. IInv => VersionsAreIndependent
      BY DEF IInv, OwnInv, VersionsAreIndependent
<1> QED BY <1>1, Invariant, PTL

\* A Service leads to the port that the babysitter gives the listener in each
\* pod it selects, and the container has it open (kube.go:194-209, 257-264,
\* 573-575).
THEOREM ServicesLeadToListeners == Spec => []ServicesReachListeners
<1>1. IInv => ServicesReachListeners
  <2> SUFFICES ASSUME IInv, NEW o \in OfKind("Service"), NEW s \in Running,
                      pods[s].spec.podName = o.selector
               PROVE  /\ o.targetPort = GetListenerAddress(pods[s].cfg, o.listener)
                      /\ [name |-> o.listener, containerPort |-> o.targetPort]
                            \in pods[s].spec.container.ports
      BY DEF ServicesReachListeners
  <2>1. o \in AllResources /\ o.kind = "Service"
        BY DEF OfKind, IInv, ObjectsInv
  <2>2. PICK w \in Versions : \E j \in GroupsOf(w) : \E l \in ListenersOf(w, j) : o = ServiceOf(w, j, l)
        BY <2>1, ServiceIs
  <2>3. PICK j \in GroupsOf(w) : \E l \in ListenersOf(w, j) : o = ServiceOf(w, j, l)
        BY <2>2
  <2>4. PICK l \in ListenersOf(w, j) : o = ServiceOf(w, j, l)
        BY <2>3
  <2>5. s \in Slots /\ pods[s] # Nothing /\ pods[s].cfg # Nothing
        BY DEF Running
  <2>6. IsPod(pods[s], s)
        BY <2>5 DEF IInv, PodsInv
  <2>7. PICK v \in Versions : \E i \in GroupsOf(v) :
            pods[s].spec = DeploymentOf(v, i) /\ pods[s].cfg = ConfigOf(v)
        BY <2>5, <2>6 DEF IsPod
  <2>8. PICK i \in GroupsOf(v) : pods[s].spec = DeploymentOf(v, i)
        BY <2>7
  <2>9. v = w /\ i = j
    <3>1. NameOf(v, i) = NameOf(w, j)
          BY <2>4, <2>8, DeploymentFields, ServiceFields
    <3> QED BY <3>1, NamesDetermine
  <2>10. o.listener = l.name /\ o.targetPort = l.port
        BY <2>4, ServiceFields
  <2>11. pods[s].cfg.Listeners = Listeners(Of[w].groups)
        BY <2>7, <2>9, ConfigFields
  <2>12. l.name \in DOMAIN Listeners(Of[w].groups) /\ Listeners(Of[w].groups)[l.name] = l.port
        BY RolloutAssumption, ListenerPorts DEF GroupsOf, ListenersOf
  <2>13. o.targetPort = GetListenerAddress(pods[s].cfg, o.listener)
        BY <2>10, <2>11, <2>12 DEF GetListenerAddress
  <2>14. [name |-> l.name, containerPort |-> l.port] \in pods[s].spec.container.ports
        BY <2>8, <2>9, DeploymentFields
  <2> QED BY <2>10, <2>13, <2>14
<1> QED BY <1>1, Invariant, PTL
-------------------------------------------------------------------------------
(* The roles. *)

LEMMA SameRoles ==
    ASSUME OneAccount, NEW v \in Versions, NEW w \in Versions
    PROVE  RoleOf(v) = RoleOf(w) /\ BindingOf(v) = BindingOf(w)
BY DEF OneAccount, RoleOf, BindingOf

\* To apply a file again replaces a role by itself.
LEMMA RolesStay ==
    ASSUME OneAccount, IInv, NEW w \in Versions, ApplyResource(w), NEW v \in Versions
    PROVE  /\ RoleOf(v) \in objects => RoleOf(v) \in objects'
           /\ BindingOf(v) \in objects => BindingOf(v) \in objects'
<1> DEFINE r == File(w)[next[w]]
<1>1. objects' = {o \in objects : o.kind # r.kind \/ o.name # r.name} \cup {r}
      BY DEF ApplyResource
<1>2. r \in Range(File(w))
      BY FileInAll DEF ApplyResource, IInv, CommandsInv
<1>3. IsOf(r, w)
      BY <1>2, FileIsOf
<1> HIDE DEF r
<1>4. r.kind = "Role" => r = RoleOf(v)
      BY <1>3, SameRoles DEF IsOf
<1>5. r.kind = "RoleBinding" => r = BindingOf(v)
      BY <1>3, SameRoles DEF IsOf
<1>6. RoleOf(v).kind = "Role" /\ BindingOf(v).kind = "RoleBinding"
      BY RoleFields
<1> QED BY <1>1, <1>4, <1>5, <1>6

\* No command selects them.
LEMMA RolesNotDeleted ==
    ASSUME NEW w \in Versions, DeleteResource(w), NEW v \in Versions
    PROVE  /\ RoleOf(v) \in objects => RoleOf(v) \in objects'
           /\ BindingOf(v) \in objects => BindingOf(v) \in objects'
           /\ objects' \subseteq objects
<1>1. RoleOf(v) \notin Selected(w) /\ BindingOf(v) \notin Selected(w)
      BY RoleFields DEF Selected
<1>2. UNCHANGED objects \/ \E o \in Selected(w) : objects' = objects \ {o}
      BY DEF DeleteResource
<1> QED BY <1>1, <1>2

\* A file has its roles before its ConfigMap.
LEMMA ApplyKeepsRoles ==
    ASSUME OneAccount, IInv, RolesInv, NEW w \in Versions, ApplyResource(w)
    PROVE  RolesInv'
<1> DEFINE r == File(w)[next[w]]
<1>1. /\ stage[w] = "applying" /\ next[w] \in DOMAIN File(w)
      /\ DOMAIN File(w) = 1 .. Len(File(w)) /\ Len(File(w)) \in Nat
      /\ next[w] \in Nat /\ next[w] >= 1
      BY FileFacts DEF ApplyResource, IInv, CommandsInv
<1>2. objects' = {o \in objects : o.kind # r.kind \/ o.name # r.name} \cup {r}
      BY DEF ApplyResource
<1>3. RolesThere => RolesThere'
      BY RolesStay DEF RolesThere
<1>4. ASSUME r.kind = "ConfigMap"
      PROVE  RolesThere
  <2>1. next[w] > 2
    <3>1. CASE next[w] = 1
          BY <1>4, <3>1, FileFacts, RoleFields
    <3>2. CASE next[w] = 2
          BY <1>4, <3>2, FileFacts, RoleFields
    <3> QED BY <1>1, <3>1, <3>2
  <2>2. RoleOf(w) \in objects /\ BindingOf(w) \in objects
        BY <1>1, <2>1 DEF RolesInv
  <2> QED BY <2>2, SameRoles DEF RolesThere
<1>5. ASSUME NEW o \in objects', o.kind = "ConfigMap"
      PROVE  RolesThere'
  <2>1. CASE o \in objects
        BY <1>3, <1>5, <2>1 DEF RolesInv
  <2>2. CASE o = r
        BY <1>3, <1>4, <1>5, <2>2
  <2> HIDE DEF r
  <2> QED BY <1>2, <2>1, <2>2
<1>6. ASSUME NEW s \in Slots, pods'[s] # Nothing /\ pods'[s].cfg # Nothing
      PROVE  RolesThere'
  <2>1. pods' = pods
        BY DEF ApplyResource
  <2> QED BY <1>3, <1>6, <2>1 DEF RolesInv
<1>7. ASSUME NEW v \in Versions, stage'[v] = "applying"
      PROVE  /\ next'[v] > 1 => RoleOf(v) \in objects'
             /\ next'[v] > 2 => BindingOf(v) \in objects'
  <2>1. CASE v # w
    <3>1. stage'[v] = stage[v] /\ next'[v] = next[v]
          BY <2>1 DEF ApplyResource, IInv, CommandsInv
    <3> QED BY <1>7, <3>1, RolesStay DEF RolesInv
  <2>2. CASE v = w
    <3>1. next'[w] = next[w] + 1
          BY <1>7, <2>2 DEF ApplyResource, IInv, CommandsInv
    <3>2. r \in objects'
          BY <1>2
    <3>3. CASE next[w] = 1
      <4>1. r = RoleOf(w)
            BY <3>3, FileFacts
      <4> QED BY <2>2, <3>1, <3>2, <3>3, <4>1
    <3>4. CASE next[w] = 2
      <4>1. r = BindingOf(w)
            BY <3>4, FileFacts
      <4>2. RoleOf(w) \in objects'
            BY <1>1, <3>4, RolesStay DEF RolesInv
      <4> QED BY <2>2, <3>2, <4>1, <4>2
    <3>5. CASE next[w] > 2
          BY <1>1, <2>2, <3>5, RolesStay DEF RolesInv
    <3> QED BY <1>1, <3>3, <3>4, <3>5
  <2> QED BY <2>1, <2>2
<1> HIDE DEF r
<1> QED BY <1>5, <1>6, <1>7 DEF RolesInv

LEMMA DeleteKeepsRoles ==
    ASSUME IInv, RolesInv, NEW w \in Versions, DeleteResource(w)
    PROVE  RolesInv'
<1>1. RolesThere => RolesThere'
      BY RolesNotDeleted DEF RolesThere
<1>2. ASSUME NEW o \in objects', o.kind = "ConfigMap"
      PROVE  RolesThere'
      BY <1>1, <1>2, RolesNotDeleted DEF RolesInv
<1>3. ASSUME NEW s \in Slots, pods'[s] # Nothing /\ pods'[s].cfg # Nothing
      PROVE  RolesThere'
  <2>1. pods' = pods \/ \E q \in SelectedPods(w) : pods' = [pods EXCEPT ![q] = Nothing]
        BY DEF DeleteResource
  <2>2. pods'[s] = pods[s]
        BY <1>3, <2>1 DEF IInv, PodsInv
  <2> QED BY <1>1, <1>3, <2>2 DEF RolesInv
<1>4. ASSUME NEW v \in Versions, stage'[v] = "applying"
      PROVE  /\ next'[v] > 1 => RoleOf(v) \in objects'
             /\ next'[v] > 2 => BindingOf(v) \in objects'
  <2>1. stage'[v] = stage[v] /\ next'[v] = next[v]
        BY <1>4 DEF DeleteResource, IInv, CommandsInv
  <2> QED BY <1>4, <2>1, RolesNotDeleted DEF RolesInv
<1> QED BY <1>2, <1>3, <1>4 DEF RolesInv

LEMMA StartKeepsRoles ==
    ASSUME IInv, RolesInv, NEW s \in Slots, StartPod(s)
    PROVE  RolesInv'
<1>1. RolesThere
      BY DEF StartPod, OfKind, RolesInv
<1>2. UNCHANGED <<objects, stage, next>>
      BY DEF StartPod
<1> QED BY <1>1, <1>2 DEF RolesInv, RolesThere

LEMMA LearnKeepsRoles ==
    ASSUME IInv, RolesInv, NEW s \in Slots, NEW c, Learn(s, c)
    PROVE  RolesInv'
<1>1. RolesThere
      BY DEF Learn, Running, RolesInv
<1>2. UNCHANGED <<objects, stage, next>>
      BY DEF Learn
<1> QED BY <1>1, <1>2 DEF RolesInv, RolesThere

LEMMA RolesStep == OneAccount /\ IInv /\ RolesInv /\ [Next]_vars => RolesInv'
<1> SUFFICES ASSUME OneAccount, IInv, RolesInv, [Next]_vars PROVE RolesInv'
    OBVIOUS
<1>1. ASSUME NEW v \in Versions, Apply(v)
      PROVE  RolesInv'
      BY <1>1 DEF Apply, IInv, CommandsInv, RolesInv, RolesThere
<1>2. ASSUME NEW v \in Versions, Delete(v) \/ Interrupt(v)
      PROVE  RolesInv'
      BY <1>2 DEF Delete, Interrupt, IInv, CommandsInv, RolesInv, RolesThere
<1>3. ASSUME NEW s \in Slots, CreatePod(s)
      PROVE  RolesInv'
  <2>1. /\ UNCHANGED <<objects, stage, next>>
        /\ \A q \in Slots : pods'[q] # pods[q] => pods'[q].cfg = Nothing
        BY <1>3 DEF CreatePod, IInv, PodsInv
  <2> QED BY <2>1 DEF RolesInv, RolesThere
<1>4. ASSUME NEW s \in Slots, RemovePod(s) \/ LosePod(s)
      PROVE  RolesInv'
  <2>1. /\ UNCHANGED <<objects, stage, next>>
        /\ \A q \in Slots : pods'[q] = pods[q] \/ pods'[q] = Nothing
        BY <1>4 DEF RemovePod, LosePod, IInv, PodsInv
  <2> QED BY <2>1 DEF RolesInv, RolesThere
<1>5. ASSUME UNCHANGED vars
      PROVE  RolesInv'
      BY <1>5 DEF vars, RolesInv, RolesThere
<1> QED BY <1>1, <1>2, <1>3, <1>4, <1>5, ApplyKeepsRoles, DeleteKeepsRoles,
       StartKeepsRoles, LearnKeepsRoles DEF Next

\* When all versions run under one service account, every babysitter that runs
\* may watch pods, before, while and after others are applied and deleted
\* (kube.go:494-498).
THEOREM WatchersAreAllowed ==
    ASSUME OneAccount
    PROVE  Spec => []BabysittersMayWatch
<1>1. Init => IInv /\ RolesInv
      BY InitIInv
<1>2. IInv /\ RolesInv /\ [Next]_vars => IInv' /\ RolesInv'
      BY OneAccount, NextIInv, RolesStep
<1>3. IInv /\ RolesInv => BabysittersMayWatch
  <2> SUFFICES ASSUME IInv, RolesInv, NEW s \in Running PROVE MayWatch(pods[s].spec.serviceAccount)
      BY DEF BabysittersMayWatch
  <2>1. s \in Slots /\ pods[s] # Nothing /\ pods[s].cfg # Nothing
        BY DEF Running
  <2>2. PICK v \in Versions : \E i \in GroupsOf(v) : pods[s].spec = DeploymentOf(v, i)
        BY <2>1 DEF IInv, PodsInv, IsPod
  <2>3. pods[s].spec.serviceAccount = Of[v].config.ServiceAccount
        BY <2>2, DeploymentFields
  <2>4. RoleOf(v) \in objects /\ BindingOf(v) \in objects
        BY <2>1 DEF RolesInv, RolesThere
  <2>5. /\ RoleOf(v).kind = "Role" /\ BindingOf(v).kind = "RoleBinding"
        /\ BindingOf(v).role = RoleOf(v).name
        /\ BindingOf(v).subject = Of[v].config.ServiceAccount
        BY RoleFields
  <2> QED BY <2>3, <2>4, <2>5 DEF MayWatch, OfKind
<1> QED BY <1>1, <1>2, <1>3, PTL DEF Spec
================================================================================
