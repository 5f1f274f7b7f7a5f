------------------------------ MODULE Babysitter ------------------------------
(***************************************************************************)
(* The part of a babysitter that keeps its weavelet's routing info up to   *)
(* date: ActivateComponent and watchPods (internal/impl/babysitter.go:     *)
(* 153-258).  ActivateComponent starts a goroutine for every request;      *)
(* the goroutine makes sure that it is the only one for its component,     *)
(* creates a watch of the pods that host it, and from then on turns watch  *)
(* events into a map from pod names to addresses, which it sends to the    *)
(* weavelet whenever it changes.                                           *)
(***************************************************************************)
EXTENDS PodStreams

CONSTANTS
    Components,       \* component names a weavelet may activate
    App,              \* b.app.Name
    DepId,            \* b.cfg.DeploymentId
    Groups,           \* b.cfg.Groups: component name |-> group name
    NoCall,           \* nobody holds the mutex
    Steps,            \* wait.Backoff.Steps, 10 in the code
    MaxUpdateErrors,  \* bound: failed UpdateRoutingInfo calls
    MaxCreateErrors,  \* bound: failed NewRetryWatcher calls
    MaxRestarts       \* bound: restarts of the container

ASSUME BabysitterAssumption ==
    /\ App \in STRING
    /\ DepId \in STRING
    /\ DOMAIN Groups \subseteq Components
    /\ Groups \in [DOMAIN Groups -> STRING]
    /\ NoCall \notin Calls
    /\ "" \notin Components
    /\ Steps \in Nat \ {0}
    /\ MaxUpdateErrors \in Nat
    /\ MaxCreateErrors \in Nat
    /\ MaxRestarts \in Nat

VARIABLES
    pc,           \* pc[g]: where goroutine g is in watchPods
    req,          \* req[g]: the component g was started for
    mu,           \* holder of b.mu
    watching,     \* b.watching
    addrs,        \* addrs[g]: g's map from pods to addresses, NoIP if absent
    attempts,     \* attempts[g]: calls of NewRetryWatcher
    routing,      \* routing[c]: replicas in the weavelet's routing info for c
    cancelled,    \* b.ctx is cancelled
    failed,       \* failed[c]: did the last UpdateRoutingInfo for c fail?
    updateErrors, createErrors, restarts,   \* counters, for the bounds
    ver,          \* history: ver[g][p] is the pos of the event addrs[g][p] is from
    seen          \* history: seen[c][p] is the pos that routing[c] shows for p

goVars   == <<pc, req, mu, watching, addrs, attempts, ver>>
viewVars == <<routing, failed, updateErrors, seen>>
envVars  == <<cancelled, createErrors, restarts>>
vars     == <<clusterVars, watchVars, goVars, viewVars, envVars>>

\* Where a goroutine can be: not started; waiting for b.mu; reading and
\* writing b.watching under it; looking up the group; creating the watcher;
\* in the select; calling UpdateRoutingInfo; returned; panicking.
PCs == {"idle", "lock", "check", "claim", "lookup", "create", "select",
        "update", "done", "panic"}
Watching == {"lookup", "create", "select", "update", "panic"}

TypeOK ==
    /\ StreamTypeOK
    /\ pc \in [Calls -> PCs]
    /\ req \in [Calls -> Components \cup {""}]
    /\ mu \in Calls \cup {NoCall}
    /\ watching \in SUBSET Components
    /\ addrs \in [Calls -> [Pods -> IPs \cup {NoIP}]]
    /\ attempts \in [Calls -> Nat]
    /\ routing \in [Components -> SUBSET IPs]
    /\ cancelled \in BOOLEAN
    /\ failed \in [Components -> BOOLEAN]
    /\ updateErrors \in Nat
    /\ createErrors \in Nat
    /\ restarts \in Nat
    /\ ver \in [Calls -> [Pods -> Nat]]
    /\ seen \in [Components -> [Pods -> Nat]]

NoAddrs == [p \in Pods |-> NoIP]
NoPos   == [p \in Pods |-> 0]

\* The name of the Deployment that hosts c, if the config knows c.
NameOf(c) == deploymentName(App, Groups[c], DepId)

\* NewBabysitter: an empty watching set, and a weavelet without routing info.
Init ==
    /\ StreamInit
    /\ pc = [g \in Calls |-> "idle"]
    /\ req = [g \in Calls |-> ""]
    /\ mu = NoCall
    /\ watching = {}
    /\ addrs = [g \in Calls |-> NoAddrs]
    /\ attempts = [g \in Calls |-> 0]
    /\ ver = [g \in Calls |-> NoPos]
    /\ routing = [c \in Components |-> {}]
    /\ failed = [c \in Components |-> FALSE]
    /\ seen = [c \in Components |-> NoPos]
    /\ cancelled = FALSE
    /\ updateErrors = 0
    /\ createErrors = 0
    /\ restarts = 0

Goto(g, label) == pc' = [pc EXCEPT ![g] = label]

\* A panic in any goroutine ends the whole process.
Running == \A g \in Calls : pc[g] # "panic"
-------------------------------------------------------------------------------
(* The babysitter. *)

\* The weavelet asks for a component; a goroutine is started and the request
\* is answered at once.
ActivateComponent(g, c) ==
    /\ Running
    /\ pc[g] = "idle"
    /\ Goto(g, "lock")
    /\ req' = [req EXCEPT ![g] = c]
    /\ UNCHANGED <<clusterVars, watchVars, viewVars, envVars,
                   mu, watching, addrs, attempts, ver>>

\* (A Lock that does not wait, for a mutation.)
LockWithoutWaiting(g) ==
    /\ pc[g] = "lock"
    /\ mu' = g
    /\ Goto(g, "check")
    /\ UNCHANGED <<clusterVars, watchVars, viewVars, envVars,
                   req, watching, addrs, attempts, ver>>

\* b.mu.Lock()
Lock(g) ==
    /\ pc[g] = "lock"
    /\ mu = NoCall
    /\ mu' = g
    /\ Goto(g, "check")
    /\ UNCHANGED <<clusterVars, watchVars, viewVars, envVars,
                   req, watching, addrs, attempts, ver>>

\* (A Check whose early return forgets to unlock, for a mutation.)
CheckKeepingLock(g) ==
    /\ pc[g] = "check"
    /\ Goto(g, IF req[g] \in watching THEN "done" ELSE "claim")
    /\ UNCHANGED <<clusterVars, watchVars, viewVars, envVars,
                   req, mu, watching, addrs, attempts, ver>>

\* Read b.watching: if the component is watched, unlock and return.
Check(g) ==
    /\ pc[g] = "check"
    /\ IF req[g] \in watching
       THEN /\ mu' = NoCall
            /\ Goto(g, "done")
       ELSE /\ Goto(g, "claim")
            /\ UNCHANGED mu
    /\ UNCHANGED <<clusterVars, watchVars, viewVars, envVars,
                   req, watching, addrs, attempts, ver>>

\* (A Claim that forgets to unlock, for a mutation.)
ClaimKeepingLock(g) ==
    /\ pc[g] = "claim"
    /\ watching' = watching \cup {req[g]}
    /\ Goto(g, "lookup")
    /\ UNCHANGED <<clusterVars, watchVars, viewVars, envVars,
                   req, mu, addrs, attempts, ver>>

\* Add the component to b.watching and unlock.
Claim(g) ==
    /\ pc[g] = "claim"
    /\ watching' = watching \cup {req[g]}
    /\ mu' = NoCall
    /\ Goto(g, "lookup")
    /\ UNCHANGED <<clusterVars, watchVars, viewVars, envVars,
                   req, addrs, attempts, ver>>

\* b.cfg.Groups[component]; a component without a group is an error, which
\* ActivateComponent's goroutine prints.
LookupGroup(g) ==
    /\ pc[g] = "lookup"
    /\ IF req[g] \in DOMAIN Groups
       THEN /\ selector' = [selector EXCEPT ![g] = NameOf(req[g])]
            /\ Goto(g, "create")
       ELSE /\ Goto(g, "done")
            /\ UNCHANGED selector
    /\ UNCHANGED <<clusterVars, conn, stream, breaks, viewVars, envVars,
                   req, mu, watching, addrs, attempts, ver>>

\* wait.ExponentialBackoff around NewRetryWatcher: at most Steps attempts.  It
\* stops at the first attempt whose function returns an error, and the
\* function here returns NewRetryWatcher's; the error is then a panic.
CreateWatcher(g) ==
    /\ pc[g] = "create"
    /\ attempts[g] < Steps
    /\ attempts' = [attempts EXCEPT ![g] = @ + 1]
    /\ \/ /\ conn' = [conn EXCEPT ![g] = "connecting"]
          /\ Goto(g, "select")
          /\ UNCHANGED createErrors
       \/ /\ createErrors < MaxCreateErrors
          /\ createErrors' = createErrors + 1
          /\ Goto(g, "panic")
          /\ UNCHANGED conn
    /\ UNCHANGED <<clusterVars, selector, stream, breaks, viewVars,
                   cancelled, restarts, req, mu, watching, addrs, ver>>

\* (Handlers that miss a kind of event, for mutations.)
ApplyWithoutDeleted(known, e) ==
    IF e.type # "Deleted" /\ e.ip # NoIP THEN [known EXCEPT ![e.pod] = e.ip] ELSE known

ApplyWithoutModified(known, e) ==
    CASE e.type = "Deleted" -> [known EXCEPT ![e.pod] = NoIP]
      [] e.type = "Added" /\ e.ip # NoIP -> [known EXCEPT ![e.pod] = e.ip]
      [] OTHER -> known

ChangedUnlessDeleted(known, e) == e.type # "Deleted" /\ e.ip # NoIP /\ known[e.pod] # e.ip

\* (A list of replicas with an entry for a pod that has no address.)
ReplicasWithEmpty(known) == Range(known)

\* Does the event change the map of addresses?  One without an address does
\* not, nor does the deletion of a pod that is not in the map.
Changed(known, e) ==
    \/ e.type = "Deleted" /\ known[e.pod] # NoIP
    \/ e.type # "Deleted" /\ e.ip # NoIP /\ known[e.pod] # e.ip

\* What the event makes of the map.
Apply(known, e) ==
    CASE e.type = "Deleted" -> [known EXCEPT ![e.pod] = NoIP]
      [] e.type # "Deleted" /\ e.ip # NoIP -> [known EXCEPT ![e.pod] = e.ip]
      [] OTHER -> known

\* The replicas put into a RoutingInfo.
Replicas(known) == Range(known) \ {NoIP}

\* The select receives an event.  If it changed the map, the weavelet has to
\* be told; if not, the goroutine is back at the select.
Receive(g) ==
    /\ pc[g] = "select"
    /\ stream[g] # <<>>
    /\ LET e == Head(stream[g])
       IN  /\ addrs' = [addrs EXCEPT ![g] = Apply(@, e)]
           /\ ver' = [ver EXCEPT ![g][e.pod] = e.pos]
           /\ Goto(g, IF Changed(addrs[g], e) THEN "update" ELSE "select")
    /\ stream' = [stream EXCEPT ![g] = Tail(@)]
    /\ UNCHANGED <<clusterVars, conn, selector, breaks, viewVars, envVars,
                   req, mu, watching, attempts>>

\* The weavelet takes the routing info, or the call fails, which is printed
\* and not tried again.  Either way the goroutine returns to the select.
UpdateRoutingInfo(g) ==
    /\ pc[g] = "update"
    /\ Goto(g, "select")
    /\ LET c == req[g]
       IN  \/ /\ routing' = [routing EXCEPT ![c] = Replicas(addrs[g])]
              /\ seen' = [seen EXCEPT ![c] = ver[g]]
              /\ failed' = [failed EXCEPT ![c] = FALSE]
              /\ UNCHANGED updateErrors
           \/ /\ updateErrors < MaxUpdateErrors
              /\ updateErrors' = updateErrors + 1
              /\ failed' = [failed EXCEPT ![c] = TRUE]
              /\ UNCHANGED <<routing, seen>>
    /\ UNCHANGED <<clusterVars, watchVars, envVars,
                   req, mu, watching, addrs, attempts, ver>>

\* The watch's channel is closed and drained: watchPods returns nil, and the
\* component stays in b.watching.
ChannelClosed(g) ==
    /\ pc[g] = "select"
    /\ conn[g] = "ended"
    /\ stream[g] = <<>>
    /\ Goto(g, "done")
    /\ UNCHANGED <<clusterVars, watchVars, viewVars, envVars,
                   req, mu, watching, addrs, attempts, ver>>

\* (A break out of the select only, for a mutation.)
StopBySelectBreak(g) ==
    /\ pc[g] = "select"
    /\ cancelled
    /\ conn' = [conn EXCEPT ![g] = "off"]
    /\ stream' = [stream EXCEPT ![g] = <<>>]
    /\ UNCHANGED <<clusterVars, selector, breaks, pc, viewVars, envVars,
                   req, mu, watching, addrs, attempts, ver>>

\* ctx.Done() is ready; select may take it whatever else is ready.
StopOnCancel(g) ==
    /\ pc[g] = "select"
    /\ cancelled
    /\ Goto(g, "done")
    /\ conn' = [conn EXCEPT ![g] = "off"]
    /\ stream' = [stream EXCEPT ![g] = <<>>]
    /\ UNCHANGED <<clusterVars, selector, breaks, viewVars, envVars,
                   req, mu, watching, addrs, attempts, ver>>

GoStep(g) ==
    /\ Running
    /\ \/ Lock(g)           \/ Check(g)         \/ Claim(g)
       \/ LookupGroup(g)    \/ CreateWatcher(g)
       \/ Receive(g)        \/ UpdateRoutingInfo(g)
       \/ ChannelClosed(g)  \/ StopOnCancel(g)

\* The context the babysitter was started with is cancelled.
Cancel ==
    /\ ~cancelled
    /\ cancelled' = TRUE
    /\ UNCHANGED <<clusterVars, watchVars, goVars, viewVars, createErrors, restarts>>

\* The process ends, by a panic or for any other reason, and kubelet starts
\* the container again: a new babysitter, a new weavelet, the same cluster.
Restart ==
    /\ restarts < MaxRestarts
    /\ restarts' = restarts + 1
    /\ pc' = [g \in Calls |-> "idle"]
    /\ req' = [g \in Calls |-> ""]
    /\ mu' = NoCall
    /\ watching' = {}
    /\ addrs' = [g \in Calls |-> NoAddrs]
    /\ attempts' = [g \in Calls |-> 0]
    /\ ver' = [g \in Calls |-> NoPos]
    /\ routing' = [c \in Components |-> {}]
    /\ failed' = [c \in Components |-> FALSE]
    /\ seen' = [c \in Components |-> NoPos]
    /\ cancelled' = FALSE
    /\ conn' = [g \in Calls |-> "off"]
    /\ selector' = [g \in Calls |-> <<>>]
    /\ stream' = [g \in Calls |-> <<>>]
    /\ breaks' = [g \in Calls |-> 0]
    /\ UNCHANGED <<clusterVars, updateErrors, createErrors>>

Next ==
    \/ ClusterStep /\ UNCHANGED <<goVars, viewVars, envVars>>
    \/ WatchStep   /\ UNCHANGED <<goVars, viewVars, envVars>>
    \/ \E g \in Calls : GoStep(g)
    \/ \E g \in Calls, c \in Components : ActivateComponent(g, c)
    \/ Cancel
    \/ Restart

Spec == Init /\ [][Next]_vars

\* Go runs every goroutine that is not blocked, and RetryWatcher keeps on
\* trying to connect.  Nothing is assumed of the cluster, the weavelet's
\* requests, faults or cancellation.
FairSpec ==
    /\ Spec
    /\ \A g \in Calls :
          /\ WF_vars(GoStep(g))
          /\ WF_vars(Connect(g) /\ UNCHANGED <<goVars, viewVars, envVars>>)
-------------------------------------------------------------------------------
(* Properties. *)

\* The pods that host c: those of its group in this deployment of this app.
HostsOf(c) ==
    {p \in Pods : /\ c \in DOMAIN Groups
                  /\ PodOf[p] = [app |-> App, group |-> Groups[c], dep |-> DepId]}

\* The addresses at which c can be reached now.
Reachable(c) == {CurIP(p) : p \in {q \in HostsOf(c) : phase[q] = "live"}} \ {NoIP}

\* However many times the weavelet activates a component, at any time at most
\* one goroutine watches its pods: what b.mu and b.watching are for (167-174).
SingleWatcher ==
    \A g, h \in Calls :
       g # h /\ pc[g] \in Watching /\ pc[h] \in Watching => req[g] # req[h]

\* No path through watchPods leaves b.mu locked: not the early return of a
\* second activation, nor the one that goes on to watch (167-174).
LockIsReleased == \A g \in Calls : mu = g => pc[g] \in {"check", "claim"}

\* What addrs[g][p] will be when g has received all that was sent to it.
Drained(g, p) ==
    LET mine == {i \in DOMAIN stream[g] : stream[g][i].pod = p}
        last == stream[g][Max(mine)]
    IN  IF mine = {}               THEN addrs[g][p]
        ELSE IF last.type = "Deleted" THEN NoIP
        ELSE last.ip

\* While its connection is open, a goroutine's map together with the events
\* on their way to it is exactly the cluster: no pod of the component is
\* missing, none has an old address, and a pod that is gone is in the map only
\* if the connection broke before (the event loop, 213-242, against the watch).
InSync ==
    \A g \in Calls, p \in Pods :
       conn[g] = "open" /\ PodLabel(p) = selector[g] =>
          \/ Drained(g, p) = CurIP(p)
          \/ phase[p] = "deleted" /\ breaks[g] > 0

\* Whenever a goroutine waits for the next event, the weavelet has exactly
\* the replicas of its map, unless the last UpdateRoutingInfo failed (240-255).
RoutingFollowsAddrs ==
    \A g \in Calls :
       pc[g] = "select" /\ ~failed[req[g]] =>
          routing[req[g]] = Replicas(addrs[g])

\* A weavelet is only ever given addresses of pods of its own deployment: not
\* of another version, another app or another group (177-182, kube.go:866).
OwnVersionOnly ==
    \A c \in Components : routing[c] \subseteq UNION {Range(hist[p]) : p \in HostsOf(c)}

\* The routing info only moves forward: RoutingView says how.
View == INSTANCE RoutingView WITH Hosts <- [c \in Components |-> HostsOf(c)]
RoutingOnlyMovesForward == View!Spec

\* Once the cluster is at rest, every watched component's routing info is the
\* set of addresses at which it can be reached: "updating the routing info
\* whenever the set of pods changes" (164-165).
RoutingIsUpToDate ==
    <>[](cancelled \/ \A c \in watching \cap DOMAIN Groups : routing[c] = Reachable(c))

\* The same, unless the last update of the weavelet failed, which nothing but the
\* next change of the map makes good (252-255); and where the connection of a
\* component's watch broke, addresses of pods that are gone may remain.  All the
\* others are known all the same, as a new connection lists the pods that exist
\* (196-200).
Converges ==
    <>[](cancelled \/
         \A c \in watching \cap DOMAIN Groups : ~failed[c] =>
            /\ Reachable(c) \subseteq routing[c]
            /\ \/ routing[c] \subseteq Reachable(c)
               \/ \E g \in Calls : req[g] = c /\ breaks[g] > 0)

\* A component that the weavelet activates and the config knows gets a watch
\* loop, whichever of the goroutines started for it wins the race for b.mu and
\* whatever the others do (154-175).
EveryActivationIsServed ==
    \A g \in Calls, c \in DOMAIN Groups :
       req[g] = c ~>
          \/ cancelled
          \/ req[g] # c
          \/ \E h \in Calls : req[h] = c /\ pc[h] \in {"select", "update"}

\* When the context is cancelled, every watch loop comes to its end (216-218).
CancelStopsWatching ==
    cancelled ~> \A g \in Calls : pc[g] \in {"idle", "done"}
===============================================================================
