------------------------------ MODULE PodStreams ------------------------------
(***************************************************************************)
(* What a babysitter sees of Kubernetes: the pods of the cluster and the   *)
(* watch streams of the API server, through client-go's RetryWatcher.      *)
(* None of this code is in the repository; it is modelled from how         *)
(* watchPods (internal/impl/babysitter.go) uses it:                        *)
(*                                                                         *)
(*  - the pods come from Deployments, so a deleted pod's name never comes  *)
(*    back; a pod has no address at first, gets one, and may get another;  *)
(*  - a watch is opened without a resource version (the WatchFunc of line  *)
(*    197 drops the options RetryWatcher passes it), so that every new     *)
(*    connection starts with one Added event for each pod that exists and  *)
(*    then carries the changes, in order;                                  *)
(*  - RetryWatcher hides a broken connection by opening another one, and   *)
(*    closes its channel for good when the server says the watch expired.  *)
(***************************************************************************)
EXTENDS Naturals, FiniteSets, Sequences, SequencesExt, Naming

CONSTANTS
    Pods,          \* the pods that may ever exist
    PodOf,         \* PodOf[p]: the app, group and deployment id p was built from
    IPs,           \* pod addresses
    NoIP,          \* the empty address
    Calls,         \* the watchPods goroutines of one babysitter, each with a watch
    MaxChanges,    \* bound: changes to the cluster
    MaxBreaks,     \* bound: broken connections of one watch
    StreamsMayEnd  \* may the server expire a watch?

ASSUME StreamAssumption ==
    /\ IsFiniteSet(Pods)
    /\ PodOf \in [Pods -> [app : STRING, group : STRING, dep : STRING]]
    /\ NoIP \notin IPs
    /\ MaxChanges \in Nat
    /\ MaxBreaks \in Nat
    /\ StreamsMayEnd \in BOOLEAN

VARIABLES
    phase,     \* phase[p]: has p been created, has it been deleted?
    hist,      \* hist[p]: the addresses p has had, NoIP once it is deleted
    conn,      \* conn[g]: state of the connection behind g's watch
    selector,  \* selector[g]: the name g's watch selects pods by
    stream,    \* stream[g]: events sent and not yet received by g
    breaks,    \* breaks[g]: how often g's connection broke
    changes    \* number of cluster changes so far

clusterVars == <<phase, hist, changes>>
watchVars   == <<conn, selector, stream, breaks>>

Phases      == {"absent", "live", "deleted"}
Connections == {"off", "connecting", "open", "ended"}
Names       == STRING \X STRING \X STRING
Event       == [type : {"Added", "Modified", "Deleted"}, pod : Pods,
                ip : IPs \cup {NoIP}, pos : Nat]

StreamTypeOK ==
    /\ phase \in [Pods -> Phases]
    /\ hist \in [Pods -> Seq(IPs \cup {NoIP})]
    /\ conn \in [Calls -> Connections]
    /\ selector \in [Calls -> Names \cup {<<>>}]
    /\ stream \in [Calls -> Seq(Event)]
    /\ breaks \in [Calls -> Nat]
    /\ changes \in Nat

\* The pod's "serviceweaver/name" label, set by buildDeployment.
PodLabel(p) == deploymentName(PodOf[p].app, PodOf[p].group, PodOf[p].dep)

\* The address of p after its first n changes of address, and now.
AddrAt(p, n) == IF n = 0 THEN NoIP ELSE hist[p][n]
CurIP(p)     == AddrAt(p, Len(hist[p]))

\* The pods a watch with the given selector lists when it is opened.
Listed(name) == {p \in Pods : phase[p] = "live" /\ PodLabel(p) = name}

\* An event shows p's status at the time it is sent; pos (history, not seen
\* by the program) says how many changes of address that status reflects.
EventOf(type, p) == [type |-> type, pod |-> p, ip |-> CurIP(p), pos |-> Len(hist[p])]

StreamInit ==
    /\ phase = [p \in Pods |-> "absent"]
    /\ hist = [p \in Pods |-> <<>>]
    /\ conn = [g \in Calls |-> "off"]
    /\ selector = [g \in Calls |-> <<>>]
    /\ stream = [g \in Calls |-> <<>>]
    /\ breaks = [g \in Calls |-> 0]
    /\ changes = 0
-------------------------------------------------------------------------------
(* The cluster. *)

\* Every open watch that selects p gets the event.
Emit(e) ==
    stream' = [g \in Calls |->
                 IF conn[g] = "open" /\ selector[g] = PodLabel(e.pod)
                 THEN Append(stream[g], e)
                 ELSE stream[g]]

Change == changes < MaxChanges /\ changes' = changes + 1

\* A Deployment's controller creates a pod; it has no address yet.
PodCreate(p) ==
    /\ Change
    /\ phase[p] = "absent"
    /\ phase' = [phase EXCEPT ![p] = "live"]
    /\ Emit(EventOf("Added", p))
    /\ UNCHANGED <<hist, conn, selector, breaks>>

\* The pod gets its address, or another one when its sandbox is rebuilt.
\* Pods on the host network of one node share an address.
PodAssign(p, ip) ==
    /\ Change
    /\ phase[p] = "live"
    /\ ip # CurIP(p)
    /\ hist' = [hist EXCEPT ![p] = Append(@, ip)]
    /\ Emit([type |-> "Modified", pod |-> p, ip |-> ip, pos |-> Len(hist[p]) + 1])
    /\ UNCHANGED <<phase, conn, selector, breaks>>

\* Some other part of the pod's status changes.
PodTouch(p) ==
    /\ Change
    /\ phase[p] = "live"
    /\ Emit(EventOf("Modified", p))
    /\ UNCHANGED <<phase, hist, conn, selector, breaks>>

\* The pod is deleted: scaled down, evicted, or its Deployment removed.
PodDelete(p) ==
    /\ Change
    /\ phase[p] = "live"
    /\ phase' = [phase EXCEPT ![p] = "deleted"]
    /\ hist' = IF CurIP(p) = NoIP THEN hist
               ELSE [hist EXCEPT ![p] = Append(@, NoIP)]
    /\ Emit([type |-> "Deleted", pod |-> p, ip |-> CurIP(p), pos |-> Len(hist'[p])])
    /\ UNCHANGED <<conn, selector, breaks>>
-------------------------------------------------------------------------------
(* The watch of goroutine g. *)

\* The connection is made: the pods that exist now are sent in some order.
Connect(g) ==
    /\ conn[g] = "connecting"
    /\ conn' = [conn EXCEPT ![g] = "open"]
    /\ \E order \in SetToSeqs(Listed(selector[g])) :
          stream' = [stream EXCEPT ![g] =
                       [i \in DOMAIN order |-> EventOf("Added", order[i])]]
    /\ UNCHANGED <<clusterVars, selector, breaks>>

\* The connection breaks; what it still carried is lost, and RetryWatcher
\* will connect again.
Break(g) ==
    /\ conn[g] = "open"
    /\ breaks[g] < MaxBreaks
    /\ breaks' = [breaks EXCEPT ![g] = @ + 1]
    /\ conn' = [conn EXCEPT ![g] = "connecting"]
    /\ stream' = [stream EXCEPT ![g] = <<>>]
    /\ UNCHANGED <<clusterVars, selector>>

\* The server expires the watch (410 Gone): RetryWatcher passes on what it
\* has, then the error, which watchPods' switch ignores, and closes.
End(g) ==
    /\ StreamsMayEnd
    /\ conn[g] = "open"
    /\ conn' = [conn EXCEPT ![g] = "ended"]
    /\ UNCHANGED <<clusterVars, selector, stream, breaks>>

ClusterStep ==
    \E p \in Pods :
       \/ PodCreate(p)
       \/ \E ip \in IPs : PodAssign(p, ip)
       \/ PodTouch(p)
       \/ PodDelete(p)

WatchStep == \E g \in Calls : Connect(g) \/ Break(g) \/ End(g)
===============================================================================
