---------------------------- MODULE KubeDeployment ----------------------------
(***************************************************************************)
(* How `weaver kube deploy` turns an application and a kube config file    *)
(* into a YAML file: generateYAMLs and newDeployment (internal/impl/       *)
(* kube.go:362-408, 672-730).  Go visits the components of the binary in   *)
(* an order that differs from run to run; each visit takes ports from one  *)
(* global counter and appends to a group.  Everything is generated into a  *)
(* buffer, which is written at the end.  The model runs the command again  *)
(* and again on one input, each time as a new process with a new           *)
(* deployment id.                                                          *)
(***************************************************************************)
EXTENDS Resources

CONSTANTS
    Inputs,    \* the applications and kube config files considered
    DepIds,    \* DepIds[n]: deployment id of the nth run
    Rank       \* Rank[n]: place of the name n in the order of strings

\* A binary has tables of components and their listeners.  Every listener has a
\* name of its own: the ConfigMap is keyed by it.
ASSUME BinaryAssumption ==
    \A in \in Inputs :
       /\ in.binary.names \subseteq STRING
       /\ in.binary.listeners \in Seq([Component : STRING, Listeners : Seq(STRING)])

ASSUME ListenerAssumption ==
    \A in \in Inputs : \A l, m \in Range(in.binary.listeners) :
       /\ l # m => Range(l.Listeners) \cap Range(m.Listeners) = {}
       /\ IsInjective(l.Listeners)

\* The groups of the config file, and its listeners; a port may be any number.
ASSUME ConfigAssumption ==
    \A in \in Inputs :
       /\ in.config.Groups \in Seq(Range(in.config.Groups))
       /\ in.config.Listeners \in
            Seq([Name : STRING, ServiceName : STRING, Public : BOOLEAN, Port : Int])

ASSUME RunsAssumption == DepIds \in Seq(STRING) /\ DepIds # <<>>

FirstPort == 20000   \* the initial value of externalPort

VARIABLES
    input,         \* the binary and config file of this behaviour
    run,           \* number of this run of the command
    step,          \* what generateYAMLs does next
    todo,          \* components the loop of newDeployment has yet to visit
    groupsByName,  \* group name |-> group
    externalPort,  \* the global port counter
    groups,        \* d.groups
    out,           \* the buffer: a sequence of resources
    file,          \* contents of the YAML file of this run
    previous       \* history: d.groups of the last run that finished

vars == <<input, run, step, todo, groupsByName, externalPort, groups, out, file, previous>>

depId == DepIds[run]

\* The image: named in the config file, or after this version of the app.
image == IF input.config.Image # "" THEN <<input.config.Image>> ELSE <<"app", depId>>

d == [app |-> "app", deploymentId |-> depId, image |-> image,
      config |-> input.config, groups |-> groups]

Steps == {"group", "roles", "config", "core", "write", "done", "failed"}

\* Component |-> its listeners, as read from the binary: the component graph
\* names the components, a second table the listeners of some of them.
readComponentsAndListeners(binary) ==
    [c \in binary.names \cup {l.Component : l \in Range(binary.listeners)} |->
       LET entries == {i \in DOMAIN binary.listeners : binary.listeners[i].Component = c}
       IN  IF entries = {} THEN <<>> ELSE binary.listeners[Max(entries)].Listeners]

components == readComponentsAndListeners(input.binary)

\* (A listener whose config entry gives no port gets port 0, for a mutation.)
newListenerZeroPort(dep, config, name, port) ==
    LET entries == {i \in DOMAIN config.Listeners : config.Listeners[i].Name = name}
    IN  [name |-> name, serviceName |-> <<name, dep>>, public |-> FALSE,
         port |-> IF entries = {} THEN port ELSE config.Listeners[Min(entries)].Port]

\* A listener gets the next port and a service name of its own version, which
\* the first entry for it in the config file may replace.
newListener(dep, config, name, port) ==
    LET entries == {i \in DOMAIN config.Listeners : config.Listeners[i].Name = name}
        l       == config.Listeners[Min(entries)]
        default == [name |-> name, serviceName |-> <<name, dep>>, public |-> FALSE, port |-> port]
    IN  IF entries = {} THEN default
        ELSE [default EXCEPT
                !.serviceName = IF l.ServiceName # "" THEN <<l.ServiceName>> ELSE @,
                !.public      = l.Public,
                !.port        = IF l.Port # 0 THEN l.Port ELSE @]

\* (One port for all listeners of a component, for a mutation.)
onePortEach(names, port) ==
    [i \in DOMAIN names |-> newListener(depId, input.config, names[i], port)]

\* Listeners with the given names, the counter being at the given port.
newListeners(names, port) ==
    [i \in DOMAIN names |-> newListener(depId, input.config, names[i], port + i - 1)]

\* The config file's group of a component (the last that lists it), or a group
\* with no specs and the component's own name.
configGroup(config, c) ==
    LET entries == {i \in DOMAIN config.Groups : c \in config.Groups[i].Components}
    IN  IF entries # {} THEN config.Groups[Max(entries)]
        ELSE [Name |-> c, Components |-> {c}, StorageSpec |-> {},
              ResourceSpec |-> Unset, ScalingSpec |-> Unset]

\* Rank is an order of the names that groups may have.
ASSUME RankAssumption ==
    \A in \in Inputs :
       LET names == {configGroup(in.config, c).Name :
                       c \in DOMAIN readComponentsAndListeners(in.binary)}
       IN  /\ \A n \in names : Rank[n] \in Nat
           /\ \A m, n \in names : Rank[m] = Rank[n] => m = n

Init ==
    /\ input \in Inputs
    /\ run = 1
    /\ step = "group"
    /\ todo = DOMAIN components
    /\ groupsByName = <<>>
    /\ externalPort = FirstPort
    /\ groups = <<>>
    /\ out = <<>>
    /\ file = <<>>
    /\ previous = <<>>

newGroup(cgroup) ==
    [Name |-> cgroup.Name, Components |-> <<>>, listeners |-> <<>>,
     StorageSpec |-> cgroup.StorageSpec, ResourceSpec |-> cgroup.ResourceSpec,
     ScalingSpec |-> cgroup.ScalingSpec]

\* The group formed so far for components of cgroup, or a new one.
groupOf(cgroup) ==
    IF cgroup.Name \in DOMAIN groupsByName THEN groupsByName[cgroup.Name]
    ELSE newGroup(cgroup)

\* The map with one group added or replaced.
WithGroup(name, g) ==
    [n \in DOMAIN groupsByName \cup {name} |-> IF n = name THEN g ELSE groupsByName[n]]

\* One round of the loop of newDeployment.
AddComponent(c) ==
    /\ step = "group"
    /\ c \in todo
    /\ todo' = todo \ {c}
    /\ LET cgroup == configGroup(input.config, c)
           names  == components[c]
           g      == [groupOf(cgroup) EXCEPT
                        !.Components = Append(@, c),
                        !.listeners  = @ \o newListeners(names, externalPort)]
       IN  /\ groupsByName' = WithGroup(cgroup.Name, g)
           /\ externalPort' = externalPort + Len(names)
    /\ UNCHANGED <<input, run, step, groups, out, file, previous>>

\* (The groups in Go's order of their map, for a mutation.)
KeepGroupsUnsorted ==
    /\ step = "group"
    /\ todo = {}
    /\ \E names \in SetToSeqs(DOMAIN groupsByName) :
          groups' = [i \in DOMAIN names |-> groupsByName[names[i]]]
    /\ step' = "roles"
    /\ UNCHANGED <<input, run, todo, groupsByName, externalPort, out, file, previous>>

\* All components have been visited: sort the groups by name.
SortGroups ==
    /\ step = "group"
    /\ todo = {}
    /\ \E names \in SetToSeqs(DOMAIN groupsByName) :
          /\ \A i, j \in DOMAIN names : i < j => Rank[names[i]] < Rank[names[j]]
          /\ groups' = [i \in DOMAIN names |-> groupsByName[names[i]]]
    /\ step' = "roles"
    /\ UNCHANGED <<input, run, todo, groupsByName, externalPort, out, file, previous>>

GenerateRoles ==
    /\ step = "roles"
    /\ out' = out \o generateRolesAndBindings(input.config.ServiceAccount)
    /\ step' = "config"
    /\ UNCHANGED <<input, run, todo, groupsByName, externalPort, groups, file, previous>>

\* The ConfigMap needs the metrics export interval to parse.
GenerateConfigMap ==
    /\ step = "config"
    /\ input.config.ExportInterval # "bad"
    /\ out' = Append(out, generateConfigMap(d))
    /\ step' = "core"
    /\ UNCHANGED <<input, run, todo, groupsByName, externalPort, groups, file, previous>>

\* The binary cannot be read, or no YAML can be made of the header or of a
\* resource: the command ends before it has written anything.
Fail ==
    /\ \/ step = "group" /\ todo = DOMAIN components
       \/ step \in {"roles", "config", "core"}
    /\ step' = "failed"
    /\ UNCHANGED <<input, run, todo, groupsByName, externalPort, groups, out, file, previous>>

\* All groups, in order.
GenerateCore ==
    /\ step = "core"
    /\ out' = out \o FlattenSeq([i \in DOMAIN groups |-> generateCoreYAMLs(d, groups[i])])
    /\ step' = "write"
    /\ UNCHANGED <<input, run, todo, groupsByName, externalPort, groups, file, previous>>

\* The file named after the deployment id is new.  A failed write may leave
\* part of the buffer in it.
WriteFile ==
    /\ step = "write"
    /\ \/ /\ file' = out
          /\ step' = "done"
       \/ /\ \E n \in 0 .. Len(out) - 1 : file' = SubSeq(out, 1, n)
          /\ step' = "failed"
    /\ UNCHANGED <<input, run, todo, groupsByName, externalPort, groups, out, previous>>

\* The command is run again.
Rerun ==
    /\ step \in {"done", "failed"}
    /\ run < Len(DepIds)
    /\ run' = run + 1
    /\ previous' = IF step = "done" THEN groups ELSE previous
    /\ step' = "group"
    /\ todo' = DOMAIN components
    /\ groupsByName' = <<>>
    /\ externalPort' = FirstPort
    /\ groups' = <<>>
    /\ out' = <<>>
    /\ file' = <<>>
    /\ UNCHANGED input

Next ==
    \/ \E c \in todo : AddComponent(c)
    \/ SortGroups
    \/ GenerateRoles
    \/ GenerateConfigMap
    \/ Fail
    \/ GenerateCore
    \/ WriteFile
    \/ Rerun

Spec == Init /\ [][Next]_vars
-------------------------------------------------------------------------------
(* Properties. *)

Resource == [kind : {"Role", "RoleBinding", "ConfigMap", "Service", "Deployment",
                     "HorizontalPodAutoscaler"}]

TypeOK ==
    /\ input \in Inputs
    /\ run \in DOMAIN DepIds
    /\ step \in Steps
    /\ todo \subseteq DOMAIN components
    /\ externalPort \in Nat
    /\ \A n \in DOMAIN groupsByName :
          /\ groupsByName[n].Name = n
          /\ groupsByName[n].Components \in Seq(DOMAIN components)
          /\ groupsByName[n].listeners \in Seq(Listener)
    /\ Range(groups) \subseteq Range(groupsByName)
    /\ \A s \in {out, file} : \A r \in Range(s) : [kind |-> r.kind] \in Resource

Listed(c) == c \in UNION {g.Components : g \in Range(input.config.Groups)}

\* In whatever order Go visits the components, each one visited is in exactly
\* one group, once, with all its listeners: in that of the name that the config
\* file gives its group or, if the file lists it in none, of its own name.  It
\* has that group to itself, if no group of the file has the component's name
\* (kube.go:679-715).
PartitionsComponents ==
    \A c \in DOMAIN components \ todo :
       LET mine == configGroup(input.config, c).Name
       IN  /\ mine \in DOMAIN groupsByName
           /\ \A n \in DOMAIN groupsByName :
                 /\ Cardinality({i \in DOMAIN groupsByName[n].Components :
                                   groupsByName[n].Components[i] = c})
                      = (IF n = mine THEN 1 ELSE 0)
                 /\ \A l \in Range(components[c]) :
                      Cardinality({i \in DOMAIN groupsByName[n].listeners :
                                     groupsByName[n].listeners[i].name = l})
                         = (IF n = mine THEN 1 ELSE 0)
           /\ ~Listed(c) /\ c \notin {g.Name : g \in Range(input.config.Groups)}
                 => Range(groupsByName[c].Components) = {c}

OfKind(s, kind) == {r \in Range(s) : r.kind = kind}

\* Once the file is written, the pods agree with what their babysitters read:
\* the name by which a babysitter selects the pods of a component is the label
\* of exactly the pods that run it, and the port it gives a listener is a port
\* of those pods, to which exactly one Service, selecting those pods, forwards.
ConfigAgreesWithResources ==
    step = "done" =>
       \E cm \in OfKind(file, "ConfigMap") :
          \A c \in DOMAIN components :
             \E dep \in OfKind(file, "Deployment") :
                /\ {r \in OfKind(file, "Deployment") : c \in Range(r.container.args)} = {dep}
                /\ dep.configMap = cm.name
                /\ dep.podName = deploymentName(d.app, cm.Groups[c], cm.DeploymentId)
                /\ \A l \in Range(components[c]) :
                      /\ [name |-> l, containerPort |-> GetListenerAddress(cm, l)] \in dep.container.ports
                      /\ {<<s.selector, s.targetPort>> :
                            s \in {r \in OfKind(file, "Service") : r.listener = l}}
                           = {<<dep.podName, GetListenerAddress(cm, l)>>}

\* Does the config file leave the port of the listener to the deployer?
AutoPort(name) ==
    LET entries == {i \in DOMAIN input.config.Listeners : input.config.Listeners[i].Name = name}
    IN  entries = {} \/ input.config.Listeners[Min(entries)].Port = 0

AllListeners == UNION {Range(groupsByName[n].listeners) : n \in DOMAIN groupsByName}

\* No two listeners that leave their port to the deployer get the same one,
\* whatever their groups and the order of the visits (kube.go:777-779).
AutoPortsDistinct ==
    \A l, m \in AllListeners :
       l # m /\ AutoPort(l.name) /\ AutoPort(m.name) => l.port # m.port

\* What a resource needs to be there when it is created.
Needs(r) ==
    CASE r.kind = "RoleBinding" -> {<<"Role", r.role>>}
      [] r.kind = "Deployment" -> {<<"ConfigMap", r.configMap>>}
      [] r.kind = "HorizontalPodAutoscaler" -> {<<"Deployment", r.target>>}
      [] OTHER -> {}

\* kubectl applies the file from top to bottom, and the file may have been cut
\* off by a failed write: still nothing in it needs what does not precede it.
NeedsComeFirst ==
    \A i \in DOMAIN file :
       Needs(file[i]) \subseteq {<<file[j].kind, file[j].name>> : j \in 1 .. i - 1}

\* The sequence of values f of the resources of a kind, in the file's order.
Each(kind, f(_)) ==
    FlattenSeq([k \in DOMAIN file |-> IF file[k].kind = kind THEN <<f(file[k])>> ELSE <<>>])

\* Does the command to view or delete "the deployed resources" select r?
Selected(r) ==
    /\ r.kind \in Range(header(d).delete.kinds)
    /\ r.labels.version = header(d).delete.Version

\* The name that the config file gives the Service of a listener, or "".
GivenName(name) ==
    LET entries == {i \in DOMAIN input.config.Listeners : input.config.Listeners[i].Name = name}
    IN  IF entries = {} THEN "" ELSE input.config.Listeners[Min(entries)].ServiceName

\* Are these Services to which the config file gives one name?
GivenOneName(r, s) ==
    /\ r.kind = "Service" /\ s.kind = "Service"
    /\ GivenName(r.listener) # "" /\ GivenName(r.listener) = GivenName(s.listener)

\* What the header of the file says (kube.go:426-457): the file has a Deployment
\* for every group of components, an autoscaler for every Deployment and a
\* Service for every listener.  No two resources have one kind and name, so that
\* applying the file makes all of them, but the Services to which the config
\* file gives one name; and the kinds and the version in the command to view or
\* delete "the deployed resources" are those of all but the roles.
HeaderIsTrue ==
    step = "done" =>
       /\ Each("Deployment", LAMBDA r : r.container.args) = header(d).Groups
       /\ Each("Service", LAMBDA r : r.listener) = header(d).Listeners
       /\ Each("HorizontalPodAutoscaler", LAMBDA r : r.target) = Each("Deployment", LAMBDA r : r.name)
       /\ \A i, j \in DOMAIN file :
             file[i].kind = file[j].kind /\ file[i].name = file[j].name
                => i = j \/ GivenOneName(file[i], file[j])
       /\ \A r \in Range(file) : Selected(r) <=> r.kind \notin {"Role", "RoleBinding"}

\* Groups of the config file, or a group and a component outside any group,
\* that have one name and different specs.
Clashing(config) ==
    \E c, e \in DOMAIN components :
       LET g == configGroup(config, c)
           h == configGroup(config, e)
       IN  g.Name = h.Name /\ newGroup(g) # newGroup(h)

\* Two runs on one input write the same groups in the same order, with the same
\* components, listeners and specs: what the sort at kube.go:717-721 is for.
\* (Of specs that clash, those of the component visited first are taken.)
Outline(gs) ==
    [i \in DOMAIN gs |->
       [name |-> gs[i].Name, components |-> Range(gs[i].Components),
        listeners |-> {l.name : l \in Range(gs[i].listeners)},
        specs |-> IF Clashing(input.config) THEN <<>>
                  ELSE <<gs[i].StorageSpec, gs[i].ResourceSpec, gs[i].ScalingSpec>>]]

RerunKeepsOutline ==
    previous # <<>> /\ groups # <<>> => Outline(groups) = Outline(previous)

\* "Sort groups by name to ensure stable YAML" (kube.go:717): two runs on one
\* input write the same components, in the same order, and the same ports.
Layout(gs) ==
    [i \in DOMAIN gs |->
       <<gs[i].Name, gs[i].Components,
         [j \in DOMAIN gs[i].listeners |-> <<gs[i].listeners[j].name, gs[i].listeners[j].port>>]>>]

StableYAML ==
    previous # <<>> /\ groups # <<>> => Layout(groups) = Layout(previous)

\* "If zero or not specified, the first available port is used" (config.go:
\* 137-139): the port the deployer picks is not that of another listener in
\* the same container.
AutoPortIsAvailable ==
    \A n \in DOMAIN groupsByName : \A l, m \in Range(groupsByName[n].listeners) :
       l # m /\ AutoPort(l.name) => l.port # m.port
===============================================================================
