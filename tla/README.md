# A TLA+ model of weaver-kube

`weaver kube` deploys Service Weaver applications on Kubernetes. It has two halves that never run
together and that only meet in the resources the first one writes:

* **`weaver kube deploy`** runs once, on the developer's machine. It checks the application binary,
  builds and pushes a container image, groups the binary's components, and writes one YAML file with
  a ConfigMap, a Deployment and an autoscaler per group, a Service per listener, and roles.
* **`weaver kube babysitter`** runs in every pod. It starts the application's binary (the *weavelet*)
  through an `envelope` of the Service Weaver runtime, watches the pods of the components the
  weavelet asks for, and keeps the weavelet's routing info up to date.

Between them are `kubectl` and Kubernetes, which the repository relies on and does not contain: the
files of several versions are applied to one namespace, next to each other, and deleted again.

The modules here model both, check them with TLC on small instances, and prove some of their
properties with TLAPS for instances of any size. `PROJECT.json` lists every definition with the lines
of the source it stands for.

## 1. Inventory

| component | code | state | operations | talks to |
|---|---|---|---|---|
| Routing | `internal/impl/babysitter.go` 153-258 | `watching` under `mu`; per goroutine `addrs` and a watch | `ActivateComponent`, `watchPods` | weavelet (calls both ways), API server (watch) |
| Babysitter process | `babysitter.go` 70-151, `internal/tool/babysitter.go` | an errgroup: its context and first error; ticker | `NewBabysitter`, `Serve`, metrics loop | envelope, `HandleMetrics` plugin |
| Handlers | `babysitter.go` 260-350 | the errors of a `LogBatch` call; a snapshot of metrics | `GetListenerAddress`, `LogBatch`, `HandleTraceSpans`, `readMetrics` | weavelet, plugins |
| YAML generation | `internal/impl/kube.go` | the counter `externalPort`; groups under construction; a buffer | `newDeployment`, `generateYAMLs`, builders | the binary, the YAML file |
| Deploy command | `internal/impl/deploy.go`, `docker.go` | a working directory, the image store, the registry | `Deploy`, `buildImage`, `pushImage` | docker or podman, the user |
| Rollout and deletion of versions | the files and their headers (`kube.go` 343-358, 439-457), applied by `kubectl` | the namespace's resources and pods | apply, delete, interrupt; controllers; babysitters | all versions in the namespace |
| Config schema | `internal/impl/config.go`, `kube.proto` | none | none | written by deploy, read by babysitters |
| Commands, versions, examples | `cmd`, `tool`, `internal/tool`, `version.go`, `examples` | none | none | |

**What is hard here, and what makes each part correct.**

* *Routing.* One goroutine per activation, racing for `mu`; one watch per component, whose connection
  may break, be opened again, or expire; events without an address, with a new one, or of a pod that
  was never known; an update of the weavelet that fails; cancellation, panic and restart at any point.
  It is correct if one goroutine watches each component, its map follows the cluster, the weavelet's
  routing info follows the map, only this version's pods are in it, it never goes back, and it
  converges to the pods that can be reached.
* *Babysitter process.* Two goroutines, two contexts, a random `select`. It is correct if the process
  ends when the weavelet does, reports why, and keeps exporting until then; and if the plugins get
  every log entry and every metric the config file asks for.
* *YAML generation.* Go's map order, one port counter for all groups, names that several resources and
  the babysitters have to agree on, a write that fails halfway.
* *Deploy.* External commands that hang or fail, a binary that changes while the command runs, two
  runs on one host. It is correct if a YAML file and its image are of one binary, and nothing holds up
  the command but the user and the registry.
* *Rollout.* Commands that stop halfway, controllers that create pods meanwhile, names that two
  versions share. It is correct if what is done with one version changes nothing that is another's
  alone, and a version that is applied comes up while one that is deleted goes.

The full list, line by line, is under "hazards" in `PROJECT.json`; a hazard that no property covers
yet says why.

## 2. Modules

| module | what it is |
|---|---|
| `Naming` | `deploymentName`, shared by both halves: a name is the tuple of what it is computed from |
| `PodStreams` | the environment of a babysitter: the cluster's pods and the API server's watches as client-go's RetryWatcher presents them (external code) |
| `Babysitter` | `ActivateComponent` and `watchPods`, over `PodStreams` |
| `RoutingView` | abstract specification: each pod's address is a growing log, the routing info shows one position of each log and only moves forward |
| `Serve` | the babysitter's process: startup, errgroup, metrics loop, log batches, end |
| `Resources` | the generated resources, the file and its header as functions of a deployment and a group |
| `KubeDeployment` | `newDeployment` and `generateYAMLs`, run again and again, over `Resources` |
| `Deploy` | `Deploy` and `buildAndUploadDockerImage`, several runs on one host |
| `Rollout` | the files of `Resources` in a cluster: `kubectl`, controllers and the babysitters they start |
| `MC...` | the small instances for TLC |
| `BabysitterProofs`, `RoutingProofs`, `ServeProofs`, `DeployProofs`, `KubeDeploymentProofs`, `RolloutProofs` | theorems about the module of that name (`RoutingProofs`: about `Babysitter`, and that it implements `RoutingView`) |
| `SequenceProofs` | lemmas about `Max`, `Min` and `FlattenSeq`, induction, orders of a set |
| `ResourcesProofs` | lemmas about the generated file, its ConfigMap and its header, for any deployment |

`Rollout` composes the two halves: what the first generates (`Resources`) is what its babysitters
read. Those are abstract there (a step `Learn` brings one component's routing info up to date, as
`RoutingView` allows); `Babysitter` has the details, for one babysitter and any cluster.

### Babysitter

`pc[g]` is the place of goroutine `g` in `watchPods`: `lock`, `check` and `claim` are the critical
section (167-174) statement by statement, so that the mutex does its work in the model too; `lookup`
and `create` come before the loop; `select` and `update` are the loop's two blocking places. `addrs[g]`
is the Go map, with `NoIP` for an absent key. `routing[c]` is what the weavelet was last given, as a
set: the code builds the list from a Go map, so its order means nothing, and that two pods of one
address give it twice is left out. An event is received and applied to the map in one step, as no
other goroutine sees the map; the call to the weavelet is a step of its own, between which and the
receipt anything may happen. `ver` and `seen` are history variables: they say of which change of a
pod's address the map and the routing info speak, and exist for the refinement mapping only.

`PodStreams` is modelled from the way `watchPods` uses it. A pod gets an address after its creation
and may get others; it never loses one before it is deleted, and its name does not come back, as
Deployments name their pods. A new connection starts with an `Added` event for each existing pod, in
any order, because the `WatchFunc` opens it without a resource version. A broken connection loses what
it still carried. An expired watch closes the channel.

### Serve

`loop` and `envelope` are the two goroutines of the errgroup, `ctx` and `err` its context and error,
`parent` the context given to `NewBabysitter`. The envelope has the parent context, the metrics loop
the group's: the model keeps them apart because the code's behaviour after a failed export depends on
it. `envelope.Serve` is taken to return only with an error, as the runtime documents.

`opts` says which plugins there are and what the config file says of metrics; it does not change. The
metrics loop first makes its ticker (`NewTicker`), which panics on an interval of zero, a value that
`kube.go:581` parses and nobody checks. `readMetrics` is a step between the tick and the plugin's call,
as the weavelet may go down in between; a metric is where it comes from and whether it is generated.
The babysitter's own process may have generated ones too: no component runs in it, but the stubs by which
it calls the weavelet bring such metrics with them (`OwnMetrics`). `LogBatch` starts a call, `handleLogEntry` hands over one entry, `LogReply` returns. One call at a time is a
bound; two calls share nothing but the plugin.

### KubeDeployment and Resources

`AddComponent(c)` is one round of the loop over the components map; that any `c` in `todo` may be next
is Go's map order. The rest of `generateYAMLs` is one action per stage. A resource is a record of what
another resource, Kubernetes or a babysitter looks at; an equal name is an equal tuple. That `hash8`
has no collisions, that deployment ids differ in their first eight characters, and that listener names
are unique (`ListenerAssumption`; the ConfigMap is keyed by them) is assumed. `configGroup` and
`groupOf` follow the code where names of groups clash: two groups of one name, or a group with the name
of a component outside any group, become one group, and the component that is visited first decides its
specs.

`SortGroups` takes the one listing of the map's groups whose names ascend. `Rank` stands for the order of
Go's strings, which TLA+ has not: it is any injection of the names that may occur into the numbers
(`RankAssumption`). `BinaryAssumption` and `ConfigAssumption` are the types of what is read, and
`RunsAssumption` says that the command is run. Service names that the config file gives are names of their
own: that one is also the generated name of a listener is not represented, as nobody knows the id of a
deployment beforehand. `WellFormed` is what `newDeployment` makes of the groups
(theorem `GroupsAreWellFormed`), and what `Rollout` assumes of each version's file.

### Deploy

One action per stage that reads or changes something shared: the binary, the image store, the
registry. `described[r]` is the binary that run `r` describes in its YAML file, `workDir[r]` the copy
in its build context. A rebuild replaces the binary at once, so that `cp` copies one binary or the
other. Each check may also fail for another reason than the one it looks for. Components and listeners are
read from the binary one after the other (kube.go:803, 813) and here in one step, `generateYAMLs`; a rebuild
between the two reads is one after the copy, of which no property speaks. An image's name is a record of repository, name and version; `app:<version>` is never the name
that a config file gives (`"" \notin Runs`: a fixed name has no version). Nothing removes an image from
the host.

### Rollout

`objects` are the resources in the namespace, at most one of each kind and name; `stage[v]` and
`next[v]` say how far the user's command on version `v`'s file is. `ApplyResource` creates or replaces
one resource of `generateYAMLs(Of[v])`; `DeleteResource` removes one thing that the header's command
selects, kind by kind, where `all` stands for pods, Services, Deployments and autoscalers. Both stop
where `Interrupt` stops them, and can be given again. `CreatePod` and `RemovePod` are the controllers
(one pod per Deployment is a bound), `LosePod` is an eviction. `StartPod` is the babysitter command: it
reads the ConfigMap its Deployment names. `Learn` is its routing: the pods it finds are those with the
name that `deploymentName` computes from its config, and it may only look if `MayWatch`, that is, if a
RoleBinding ties its service account to the Role. Everything generated is `Resources`', unchanged.

## 3. Runs

CHECK_DEADLOCK is off in all of them: every instance is bounded and comes to rest, and the program
really may (a babysitter blocks in its `select`; the commands end).

| run | instance and bounds | shows |
|---|---|---|
| `Babysitter_faults` | 2 activations of one component; 3 pods, one of another version; 2 addresses; 4 cluster changes; one of each: broken connection per watch, failed update, failed creation, restart; expiry allowed | six safety properties and the refinement of `RoutingView`: one watch loop per component (`SingleWatcher`), a mutex that is always released (`LockIsReleased`), the map in step with the cluster (`InSync`), the routing info with the map (`RoutingFollowsAddrs`), of this version (`OwnVersionOnly`), never going back (`RoutingOnlyMovesForward`) |
| `Babysitter_converges` | 2 activations of a component and of one that has no group, 2 pods, 3 changes, one broken connection per watch, one failed update, one restart | every activation is served, whoever wins the race; every live pod is reached, and only those unless a connection broke, or the last update failed; cancellation ends the loops |
| `Babysitter_missed_delete` | 1 pod, 1 broken connection | *violation*: a pod deleted in between stays |
| `Babysitter_watch_expires` | 1 pod, expiry allowed | *violation*: nobody watches the component again |
| `KubeDeployment_generate` | 4 components, 3 listeners, 5 config files, 2 runs each; failures at each stage | partition, agreement of config and resources, ports, order, a header that lists what is there and whose command selects all but the roles, equal outlines |
| `KubeDeployment_stable` | all components in one group | *violation*: order and ports differ from run to run |
| `KubeDeployment_ports` | an explicit port the counter comes to | *violation*: two listeners of one container on one port |
| `Deploy_runs` | 2 runs, 4 config files, 3 binaries, 1 rebuild | image and YAML belong together, unless the binary is rebuilt in between; a hanging build is given up |
| `Serve_serve` | all plugins and options; one batch of 3 entries at a time | the process ends, reports the cause, leaves nothing running; every metric that is asked for arrives, and others only of the babysitter itself when the weavelet cannot be asked; batches are handled whole |
| `Serve_plugin_fails` | the same | *violation*: one failed export is the last |
| `Rollout_versions` | 2 versions of one application with other groups and ports, a shared Service name, one interruption or lost pod | routing within a version, independence of versions but for shared names, Services that lead to listeners, permissions; what is applied comes up, what is deleted goes |
| `Rollout_accounts` | 2 versions with service accounts of their own | *violation*: the later file takes the earlier version's permission to watch pods |

Why the bounds are enough: four changes let a pod be created, get an address, get another one and be
deleted, and let two pods of one component interleave up to an address each; three, where progress is checked, leave out
only that two pods have addresses at once, or one its whole life, of which the safety properties speak. Two
activations of a component are the smallest race; a second connection is the first that can miss or repeat something. `Steps` is 10 as in the code; the
counters of failures only bound how often the environment fails. In `KubeDeployment` two runs are
what the comparison of runs needs, and the config files cover: no groups, a group, overlapping groups
with a component the binary lacks, a listener listed twice, a port that is given and one that is not, a Service name given to one listener and
to two, an interval that does not parse, group names that clash. `Deploy` with two runs has one that overtakes the other at each stage. In `Rollout` the two
versions share the name of a group, of the roles and of a Service, and differ in all else, so that each
name is tried; the user may apply and delete both in any order, again and again, without a bound; one
fault at any point cuts a command at each of its places.

### Fairness

* `Babysitter`: `WF(GoStep(g))`, as the Go scheduler runs a goroutine that is not blocked and calls
  return; `WF(Connect(g))`, as RetryWatcher tries again until it is connected. The cluster, failures,
  activation, cancellation and restart have no fairness: `Converges` speaks of a cluster that has come
  to rest, which the bound on its changes brings about in every behaviour.
* `Serve`: weak fairness for steps that stay possible, those of a `LogBatch` call and `NewTicker` included. The `select` picks among its ready cases at
  random, so `TakeTick` and `TakeDone` have strong fairness: a cancellation is seen even if a tick is
  ready every time. The plugin is assumed to return.
* `Deploy`: weak fairness of what the command does itself, the firing of the build's timer included.
  None of the user's answer, nor of the build tool: that is what `OnlyPushesMayHang` is about.
* `Rollout`: weak fairness of a `kubectl` that was started, of each controller and of each watch, as
  Kubernetes promises to bring about what the resources ask for. None of the user, who may never give a
  command, nor of interruptions and lost pods.

### Where the code and its words differ

Six runs show the code doing something other than its comments or documentation say; "findings" in
`PROJECT.json` quotes the lines. In short: a reconnecting watch misses deletions (babysitter.go:197);
an expired watch is never replaced (221); a failed export is the last (138); the YAML is not stable
(kube.go:689, 717); a picked port may be taken (kube.go:777); the RoleBinding has one subject for all
versions in the namespace (kube.go:528).

More was met while modelling. The models do the same as the code; no run is spent on these, and the
properties in whose way they are say what they leave out:

* An update of the weavelet that fails is not repeated (babysitter.go:252), although the routing info is
  said to be updated "whenever the set of pods changes" (164-165): it is out of date until the next change.
  `Converges` and `RoutingFollowsAddrs` leave out a component whose last update failed.
* If the weavelet cannot be asked for its metrics, those of the babysitter itself are returned unfiltered
  (327), generated ones included, although the comment at 339-340 speaks of all. `SnapshotIsFiltered` says
  that the plugin gets no others unasked.
* A component that no group lists is not "in a group by itself" (kube.go:679) if a group of the config file
  has its name (696): it is merged into that. `PartitionsComponents` says when it is alone.
* Two listeners may be given one Service name (785); the second Service replaces the first when the file is
  applied, and there is not "a Service for every listener" (440). `HeaderIsTrue` leaves out such pairs.
* The header lists the Role and RoleBinding among the resources (441), but its commands "to view the deployed
  resources" (447-449) and "to delete the resources" (455-457) do not select them: they are of other kinds and
  have no version label. `HeaderIsTrue` and `DeletionCompletes` say so.
* A Service whose name the config file gives (785) belongs to the version applied last, and is deleted with
  it although another version is still applied, so the name need not persist "across application versions"
  (359-360). `VersionsAreIndependent` leaves out names that versions share, and `ServicesReachListeners` is
  about the Services that are there.
* The binary whose version is checked (deploy.go:83, 140-141) need not be the one that is deployed, if it is
  built again before it is copied (docker.go:91). And it is read again after the image is built
  (deploy.go:137): a YAML file may describe another binary than the image has, if it is built again after the
  copy. `YAMLMatchesImage` leaves out the runs in which that happens; no property speaks of the checks, as it
  would have to leave out all rebuilds and then repeat the guards.
* The function given to `wait.ExponentialBackoff` (babysitter.go:195-205) returns the error of
  `NewRetryWatcher`, and `ExponentialBackoff` stops at the first error, so the ten attempts the
  comments speak of (186, 194, 202) are one. `CreateWatcher` is the code's behaviour; the present
  `NewRetryWatcher` fails only for a resource version of "" or "0".
* An export interval of "0s" makes every babysitter with a `HandleMetrics` plugin panic.
* kube.go:343-358 describes stable names of Deployments and a gradual rollout from version to version; the
  code gives each version names of its own, and a rollout runs the versions side by side.
* A comment (kube.go:690) names a group after its first component; the code takes the config file's name.

## 4. Proofs

All theorems hold for any values of the constants that the assumptions below allow, bounds included.

| module | theorem | statement | argument |
|---|---|---|---|
| `BabysitterProofs` | `AtMostOneWatcher` | `Spec => []SingleWatcher` | `MutexInv`: a goroutine in `check` or `claim` holds `mu`, one past `claim` has its component in `watching`, and one in `claim` has not |
| | `MutexIsReleased` | `Spec => []LockIsReleased` | the `Ownership` part of `MutexInv`: `mu = g` exactly if `g` is in `check` or `claim`, from which a step always leads on |
| | `TypeCorrect` | `Spec => []TypeOK` | by action; `lookup` needs a requested component, and `watching` that `claim` adds one, which `MutexInv` says |
| | `RoutingIsAddrs` | `Spec => []RoutingFollowsAddrs` | `FollowInv`: outside `update` a watch loop's map equals the routing info or its last call failed; a loop at `lookup` finds its component's routing info empty; `SingleWatcher` says that no other loop writes it |
| `RoutingProofs` | `OnlyOwnVersion` | `Spec => []OwnVersionOnly` | `WatchInv` and the `Labelled` part of `StreamInv`: the events in flight and the pods heard of are of the pods that the watch's selector matches |
| | `RoutingMovesForward` | `Spec => RoutingOnlyMovesForward` | refinement: `RoutingView`'s log is the pod's history, its position `seen`. `HistoryInv`: a pod's history only grows; `StreamInv`: the events in flight are true at the position they carry, and in order; `MapInv`: `addrs[g][p]` is the address at `ver[g][p]`; `SeenInv`: the same of the routing info |
| | `WatchesAreInSync` | `Spec => []InSync` | `TellInv`: of each pod that a connected watch selects, the latest position is in the stream, or in the map, or the pod is gone and the watch was disconnected or never heard of it. `ConnectInv` for a new connection: its list of existing pods is a sequence without repetition, as long as there are pods, so it has them all |
| `ServeProofs` | `TypeCorrect` | `Spec => []TypeOK` | by action |
| | `CauseReported` | `Spec => []CauseIsReported` | `CauseInv`: the group's error is a cancellation only if the parent's context is cancelled, as otherwise the group's context is cancelled by an error that was recorded first |
| | `NothingRunsAfterServe` | `Spec => NothingAfterServe` | `ReturnInv`: a goroutine that has returned has left an error, and the metrics loop runs only while the process does |
| | `SnapshotsAreFiltered` | `Spec => []SnapshotIsFiltered` | inductive as it stands, given that only `readMetrics` changes the snapshot on the way to the plugin |
| | `BatchesAreHandledWhole` | `Spec => []BatchIsHandledWhole` | `BatchInv`: during a call every entry is handed over or still to come, and a reply has none to come |
| `DeployProofs` | `TypeCorrect` | `Spec => []TypeOK` | by action |
| | `YAMLAndImageAgree` | `Spec => []YAMLMatchesImage` | `RunInv`, of each run: what its stage says of its build context, of the binary it copied (`CopyInv`) and of its image. The image names of two runs differ unless a config file gives them (`NamesDiffer`), so a step of one run keeps the invariant of the others |
| `KubeDeploymentProofs` | `AutomaticPortsDiffer` | `Spec => []AutoPortsDistinct` | all ports given so far are below the counter, and the listeners of the next component get theirs from the counter on |
| | `ComponentsArePartitioned` | `Spec => []PartitionsComponents` | `GroupInv`: a group has only components that belong to it, with their listeners, and a visited component is in one place of one group. A visit adds a component that was in none; the listeners it brings have names no other component has (`NamesAreUnique`). A component that no group lists is alone in the group of its name, as only a group of the config file could give that name to another (`LoneName`) |
| | `GroupsAreWellFormed` | `Spec => []WellFormed(groups)` | `MapInv` (a group has the name it is listed under, and the specs of a visited component's group) and `SortedInv` (`d.groups` has each group of the map once, in the order of the names); that no listener is in two groups is `GroupInv` |
| | `TypeCorrect` | `Spec => []TypeOK` | the above, and `BufferInv`: the buffer is as much of `generateYAMLs(d)` as the stage says, and the file is a beginning of it |
| | `NothingIsNeededEarly` | `Spec => []NeedsComeFirst` | `BufferInv`; in `generateYAMLs(d)` the roles and the ConfigMap come first, and an autoscaler after its Deployment within its group's part (`FlattenOffsets`), so a beginning of the file has what its resources need |
| | `ConfigAgrees` | `Spec => []ConfigAgreesWithResources` | `BufferInv`, `GroupInv`, and of a well-formed list of groups: the last entry of the ConfigMap's maps for a key is the only one, so it speaks of the one Deployment and the one Service that there are for it |
| | `HeaderTells` | `Spec => []HeaderIsTrue` | `BufferInv`; picking the resources of one kind from the file is picking them from each group's part (`PickedFlat`, by induction); names differ as groups and listeners do, but for the listeners in `SharedNames`, to which the config file gives one; the kinds of the file are the six of `FileKinds`, of which the command has all but two |
| | `RerunsAgree` | `Spec => []RerunKeepsOutline` | `OutlineInv`: the groups of a run, and those of the run before it, are what the input says but for the order within a group and the ports; a set of names has one ascending order (`OneOrder`) |
| `RolloutProofs` | `TypeCorrect` | `Spec => []TypeOK` | `ObjectsInv` (one resource of a kind and name), `CommandsInv` (how far the commands are), `PodsInv` |
| | `OnlyWithinVersion` | `Spec => []RoutesWithinVersion` | `PodsInv`: a pod is one of a Deployment of some version, the config it has read is that version's, and its routing has only pods with the name that this config gives; a name determines version and group (`NamesDetermine`) |
| | `OthersAreLeftAlone` | `Spec => []VersionsAreIndependent` | `OwnInv`: what has been applied of a version's own is in the namespace. Another version's resource of the same kind and name is the same one (`OwnIsUnique`), and its delete command selects another label |
| | `ServicesLeadToListeners` | `Spec => []ServicesReachListeners` | `ObjectsInv`, `PodsInv`: a Service, whichever version it is of, selects the name of the pods of its listener's group, and their container has its port |
| | `WatchersAreAllowed` | `OneAccount` implies `Spec => []BabysittersMayWatch` | `RolesInv`: the roles are there as soon as a ConfigMap is, and a babysitter starts only with one; they are replaced by their equals, and no command removes them |

One theorem has a hypothesis. `OneAccount`: all versions run under one service account, as they do
unless their config files say otherwise; `Rollout_accounts` is the counterexample without it.

The assumptions on constants are `StreamAssumption` and `BabysitterAssumption` (types, finitely many
pods), `BinaryAssumption`, `ListenerAssumption` (listener names are unique in a binary),
`ConfigAssumption`, `RunsAssumption` and `RankAssumption` (section 2), `RolloutAssumption` (versions have
deployment ids of their own and well-formed groups), and `DeployAssumption` (types; no run has the empty
version). TLC evaluates each of them on the instances.

Few of the invariants are inductive by themselves. `SingleWatcher` says nothing of goroutines in the
critical section, `RoutingFollowsAddrs` nothing of one that is about to start its loop; `InSync`
speaks of the end of a stream, but a step of the goroutine takes its first event, so that its
strengthening must say of each pod where its last event is; `YAMLMatchesImage` speaks of finished
runs only, and `PartitionsComponents` not of whether a component that is still to come has left a
trace. `VersionsAreIndependent` speaks of versions that are applied, so that `OwnInv` must say of one that is
being applied what is there already; `RoutesWithinVersion` needs that a pod has the config of its version
before it has looked for another.

What the file looks like depends on `FlattenSeq`, a recursive function over a sequence of any length.
Its equations follow from its definition, and the lemmas about it by induction, for which
`SequenceProofs` has a rule of its own: a set that has 0, and `n + 1` if it has `n`, has all numbers
(from the library's `WFMin`), and likewise for sequences (`SequenceInduction`). The library's rules take
an operator as their parameter, which the provers cannot instantiate; a set they can.

Every safety invariant and action property that a passing run checks is proved, one of them under the
hypothesis above. Only model-checked are the liveness properties, which need fairness and `ENABLED`:
`Converges`, `CancelStopsWatching`, `EveryActivationIsServed`, `OnlyPushesMayHang`, `ProcessEnds`,
`RolloutCompletes` and `DeletionCompletes`.

## 5. Not modelled

* The text of resources, headers, logs and messages; annotations; probes and volumes beyond their
  presence. No property is about them.
* Handlers without state: `HandleTraceSpans` passes its argument on, `ExportListener` replies with a
  constant, the certificate handlers panic.
* `kubectl`, the controllers, the API server, `docker`, the weavelet and the plugins are external:
  they are modelled from how the code uses them, no further. A node's cache of images is left out: that a
  fixed image name is not pulled again (kube.go:287) is a hazard without a property.
* What the application's config file says: the ConfigMap has it as a whole. It is read twice
  (deploy.go:70, kube.go:564), and may change in between; the model has one file per run.
* The schema of the config (`kube.proto`, `config.go`) and generated code (`kube.pb.go`,
  `weaver_gen.go`): types without behaviour of their own.
* Registration of commands, version commands, the applications in `examples`, the scripts in `dev`:
  no state of the deployer.

## 6. Plan

Done: `Naming`, `PodStreams`, `RoutingView` and `Babysitter` with two modules of proofs; `Resources` and
`KubeDeployment`, `Serve`, `Deploy` and `Rollout`, which composes generation, cluster and babysitters,
each with proofs of all invariants that its runs check.

What is left:

1. `System`: `Babysitter` instantiated with `Groups` and `PodOf` as `Resources` generates them. `Rollout`
   has the question in its abstract form (what a babysitter looks for is what the Deployments have), and
   `WellFormed` ties what `KubeDeployment` makes to what `Rollout` assumes.
2. Deployment ids that share their first eight characters (kube.go:869) as versions of `Rollout`.
