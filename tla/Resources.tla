------------------------------ MODULE Resources ------------------------------
(***************************************************************************)
(* The Kubernetes resources that `weaver kube deploy` generates            *)
(* (internal/impl/kube.go), as functions of a deployment d:                *)
(*                                                                         *)
(*   d.app, d.deploymentId, d.image   the application, version and image   *)
(*   d.config                         the kube config file                 *)
(*   d.groups                         the groups, in the order they are    *)
(*                                    written                              *)
(*                                                                         *)
(* and of a group g of d and a listener of g.  Only what another resource, *)
(* Kubernetes or a babysitter looks at is kept; a name is a tuple of what  *)
(* it is built from, so equal names are equal strings.                     *)
(***************************************************************************)
EXTENDS Integers, Sequences, SequencesExt, Naming

servicePort == 80   \* port of every listener's Service

CONSTANT Unset      \* a spec that the config file does not give

\* A listener of a group (kube.go's listener type).
Listener == [name : STRING, serviceName : Seq(STRING), public : BOOLEAN, port : Int \ {0}]

\* What the groups of a deployment are when newDeployment is done with them: named
\* differently, and with no component and no listener in two of them or twice in one.
WellFormed(groups) ==
    /\ groups \in Seq(Range(groups))
    /\ \A i \in DOMAIN groups :
          /\ groups[i].Components \in Seq(STRING) /\ IsInjective(groups[i].Components)
          /\ groups[i].listeners \in Seq(Listener) /\ IsInjective(groups[i].listeners)
    /\ \A i, j \in DOMAIN groups :
          /\ groups[i].Name = groups[j].Name => i = j
          /\ \A c \in Range(groups[i].Components) : c \in Range(groups[j].Components) => i = j
          /\ \A l \in Range(groups[i].listeners), m \in Range(groups[j].listeners) :
                l.name = m.name => i = j /\ l = m

\* The first of the two specs that is given: a group's knob overrides the app's.
Override(spec, default) == IF spec # Unset THEN spec ELSE default

\* (Names and labels without the version, for mutations.)
unversionedConfigMap(deploymentId) == <<"config", "">>
unversionedLabels(d) == [app |-> d.app, version |-> ""]

configMapName(deploymentId) == <<"config", deploymentId>>

\* The labels by which all resources of a version can be selected.
Labels(d) == [app |-> d.app, version |-> d.deploymentId]

\* A container runs the babysitter with the group's components as arguments.
buildContainer(d, g) ==
    [image     |-> d.image,
     args      |-> g.Components,
     ports     |-> {[name |-> l.name, containerPort |-> l.port] : l \in Range(g.listeners)},
     mounts    |-> {"config"} \cup d.config.StorageSpec \cup g.StorageSpec,
     resources |-> Override(g.ResourceSpec, d.config.ResourceSpec),
     probes    |-> d.config.ProbeSpec]

\* Prefer to spread the pods of one Deployment over the nodes, besides what the
\* config file says.
updateAffinitySpec(spec, labels) ==
    IF spec = Unset THEN [preferred |-> <<labels>>, rest |-> Unset]
    ELSE [preferred |-> <<labels>> \o spec.preferred, rest |-> spec.rest]

buildDeployment(d, g) ==
    LET name == deploymentName(d.app, g.Name, d.deploymentId)
    IN  [kind           |-> "Deployment",
         name           |-> name,
         labels         |-> Labels(d),
         selector       |-> name,
         podName        |-> name,       \* the pods' "serviceweaver/name" label
         podLabels      |-> Labels(d),  \* and their other two
         serviceAccount |-> d.config.ServiceAccount,
         hostNetwork    |-> d.config.UseHostNetwork,
         affinity       |-> updateAffinitySpec(d.config.AffinitySpec, name),
         configMap      |-> configMapName(d.deploymentId),
         volumes        |-> {"config"} \cup d.config.StorageSpec \cup g.StorageSpec,
         container      |-> buildContainer(d, g)]

buildListenerService(d, g, lis) ==
    [kind       |-> "Service",
     name       |-> lis.serviceName,
     type       |-> IF lis.public THEN "LoadBalancer" ELSE "ClusterIP",
     labels     |-> Labels(d),
     listener   |-> lis.name,
     selector   |-> deploymentName(d.app, g.Name, d.deploymentId),
     port       |-> servicePort,
     targetPort |-> lis.port]

buildAutoscaler(d, g) ==
    LET name == deploymentName(d.app, g.Name, d.deploymentId)
    IN  [kind   |-> "HorizontalPodAutoscaler",
         name   |-> name,
         labels |-> Labels(d),
         target |-> name,
         spec   |-> Override(g.ScalingSpec, Override(d.config.ScalingSpec, "1 to 10 replicas"))]

\* The Role and its binding have fixed names and no labels.
generateRolesAndBindings(serviceAccount) ==
    << [kind |-> "Role", name |-> <<"serviceweaver-pods-getter">>],
       [kind    |-> "RoleBinding",
        name    |-> <<"serviceweaver-default-pods-getter">>,
        role    |-> <<"serviceweaver-pods-getter">>,
        subject |-> serviceAccount] >>

\* The babysitters' config: the port of every listener and the group of every
\* component.  Both are Go maps filled in the order of the groups, so the last
\* of several entries with one key stays.
Listeners(groups) ==
    LET all == FlattenSeq([i \in DOMAIN groups |-> groups[i].listeners])
    IN  [n \in {l.name : l \in Range(all)} |->
           all[Max({i \in DOMAIN all : all[i].name = n})].port]

\* (The component's own name in place of its group's, for a mutation.)
ComponentNames(groups) ==
    [c \in UNION {Range(g.Components) : g \in Range(groups)} |-> c]

GroupNames(groups) ==
    [c \in UNION {Range(g.Components) : g \in Range(groups)} |->
       groups[Max({i \in DOMAIN groups : c \in Range(groups[i].Components)})].Name]

generateConfigMap(d) ==
    [kind         |-> "ConfigMap",
     name         |-> configMapName(d.deploymentId),
     labels       |-> Labels(d),
     DeploymentId |-> d.deploymentId,
     Listeners    |-> Listeners(d.groups),
     Groups       |-> GroupNames(d.groups)]

\* A babysitter tells its weavelet the port of a listener by its config.
GetListenerAddress(cfg, name) ==
    IF name \in DOMAIN cfg.Listeners THEN cfg.Listeners[name] ELSE "not found"

\* (The autoscaler before what it scales, for a mutation.)
autoscalerFirst(d, g) ==
    [i \in DOMAIN g.listeners |-> buildListenerService(d, g, g.listeners[i])]
      \o <<buildAutoscaler(d, g), buildDeployment(d, g)>>

\* The resources of one group: a Service for each listener, the Deployment and
\* its autoscaler.
generateCoreYAMLs(d, g) ==
    [i \in DOMAIN g.listeners |-> buildListenerService(d, g, g.listeners[i])]
      \o <<buildDeployment(d, g), buildAutoscaler(d, g)>>

\* The kinds that kubectl calls "all", as far as they matter here, and those of
\* the commands to view and delete the resources: "all,configmaps".
allKinds == <<"Pod", "Service", "Deployment", "HorizontalPodAutoscaler">>
selectedKinds == Append(allKinds, "ConfigMap")

\* What the header of the file says: what the file contains, and the command
\* that removes it again, kind by kind.
header(d) ==
    [Groups    |-> [i \in DOMAIN d.groups |-> d.groups[i].Components],
     Listeners |-> FlattenSeq([i \in DOMAIN d.groups |->
                      [j \in DOMAIN d.groups[i].listeners |-> d.groups[i].listeners[j].name]]),
     delete    |-> [kinds |-> selectedKinds, Version |-> d.deploymentId]]

\* (The roles after the pods that need them, for a mutation.)
rolesLast(d) ==
    <<generateConfigMap(d)>>
      \o FlattenSeq([i \in DOMAIN d.groups |-> generateCoreYAMLs(d, d.groups[i])])
      \o generateRolesAndBindings(d.config.ServiceAccount)

\* All resources of the file, in its order.
generateYAMLs(d) ==
    generateRolesAndBindings(d.config.ServiceAccount)
      \o <<generateConfigMap(d)>>
      \o FlattenSeq([i \in DOMAIN d.groups |-> generateCoreYAMLs(d, d.groups[i])])
===============================================================================
