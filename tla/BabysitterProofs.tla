--------------------------- MODULE BabysitterProofs ---------------------------
(***************************************************************************)
(* Proofs about Babysitter, for every value of its constants: the type     *)
(* invariant, that a component never has two watch loops, and that the     *)
(* weavelet's routing info is what its watch loop knows.                   *)
(***************************************************************************)
EXTENDS Babysitter, FiniteSetTheorems, SequenceTheorems, TLAPS

(***************************************************************************)
(* Mutual exclusion.                                                       *)
(***************************************************************************)

MutexTypeOK ==
    /\ pc \in [Calls -> PCs]
    /\ req \in [Calls -> Components \cup {""}]
    /\ watching \subseteq Components
    /\ \A g \in Calls : pc[g] # "idle" => req[g] \in Components

\* Who reads or writes b.watching, and nobody else, holds b.mu; who is about to add a component
\* has seen that it is not there; who is past that has added it.
Ownership ==
    \A g \in Calls :
       /\ pc[g] \in {"check", "claim"} <=> mu = g
       /\ pc[g] = "claim" => req[g] \notin watching
       /\ pc[g] \in Watching => req[g] \in watching

MutexInv == MutexTypeOK /\ Ownership /\ SingleWatcher

\* A goroutine that is past b.mu.Unlock() and goes on, or returns, disturbs
\* nothing.
LEMMA MovesOn ==
    ASSUME MutexInv, NEW g \in Calls, pc[g] \in Watching,
           NEW label \in Watching \cup {"done"}, pc' = [pc EXCEPT ![g] = label],
           UNCHANGED <<req, mu, watching>>
    PROVE  MutexInv'
BY DEF MutexInv, MutexTypeOK, Ownership, SingleWatcher, Watching, PCs

LEMMA NobodyIsNoCall == NoCall \notin Calls
BY BabysitterAssumption

LEMMA MutexInit == Init => MutexInv
BY NobodyIsNoCall DEF Init, MutexInv, MutexTypeOK, Ownership, SingleWatcher, Watching, PCs

LEMMA MutexStep == MutexInv /\ [Next]_vars => MutexInv'
<1> SUFFICES ASSUME MutexInv, [Next]_vars PROVE MutexInv'
    OBVIOUS
<1> USE DEF Goto
<1>1. ASSUME UNCHANGED goVars PROVE MutexInv'
      BY <1>1 DEF goVars, MutexInv, MutexTypeOK, Ownership, SingleWatcher
<1>2. ASSUME NEW g \in Calls, NEW c \in Components, ActivateComponent(g, c) PROVE MutexInv'
      BY <1>2 DEF ActivateComponent, MutexInv, MutexTypeOK, Ownership, SingleWatcher, Watching, PCs
<1>3. ASSUME NEW g \in Calls, GoStep(g) PROVE MutexInv'
  <2>1. CASE Lock(g)
    <3>1. /\ pc[g] = "lock" /\ mu = NoCall /\ mu' = g
          /\ pc' = [pc EXCEPT ![g] = "check"]
          /\ UNCHANGED <<req, watching>>
          BY <2>1 DEF Lock
    <3>2. \A h \in Calls : mu # h /\ pc[h] \notin {"check", "claim"}
          BY <3>1, NobodyIsNoCall DEF MutexInv, Ownership
    <3>3. Ownership'
          BY <3>1, <3>2 DEF MutexInv, MutexTypeOK, Ownership, Watching
    <3> QED BY <3>1, <3>3 DEF MutexInv, MutexTypeOK, SingleWatcher, Watching, PCs
  <2>2. CASE Check(g)
    <3>1. pc[g] = "check" /\ mu = g /\ UNCHANGED <<req, watching>>
          BY <2>2 DEF Check, MutexInv, Ownership
    <3>2. CASE req[g] \in watching
      <4>1. mu' = NoCall /\ pc' = [pc EXCEPT ![g] = "done"]
            BY <2>2, <3>2 DEF Check
      <4>2. Ownership'
            BY <3>1, <4>1, NobodyIsNoCall DEF MutexInv, MutexTypeOK, Ownership, Watching
      <4> QED BY <3>1, <4>1, <4>2 DEF MutexInv, MutexTypeOK, SingleWatcher, Watching, PCs
    <3>3. CASE req[g] \notin watching
      <4>1. mu' = mu /\ pc' = [pc EXCEPT ![g] = "claim"]
            BY <2>2, <3>3 DEF Check
      <4> QED BY <3>1, <3>3, <4>1
              DEF MutexInv, MutexTypeOK, Ownership, SingleWatcher, Watching, PCs
    <3> QED BY <3>2, <3>3
  <2>3. CASE Claim(g)
    <3>1. /\ pc[g] = "claim" /\ mu = g /\ req[g] \notin watching
          /\ req' = req /\ watching' = watching \cup {req[g]}
          /\ pc' = [pc EXCEPT ![g] = "lookup"]
          BY <2>3 DEF Claim, MutexInv, Ownership
    <3>2. MutexTypeOK'
          BY <3>1 DEF MutexInv, MutexTypeOK, PCs
    \* No other goroutine is reading or writing b.watching.
    <3>3. \A h \in Calls : h # g => pc[h] \notin {"check", "claim"}
          BY <3>1 DEF MutexInv, Ownership
    <3>4. Ownership'
          BY <2>3, <3>1, <3>3, NobodyIsNoCall DEF Claim, MutexInv, MutexTypeOK, Ownership, Watching
    \* No other goroutine watches the component: it would be in b.watching.
    <3>5. SingleWatcher'
          BY <3>1 DEF MutexInv, MutexTypeOK, Ownership, SingleWatcher, Watching
    <3> QED BY <3>2, <3>4, <3>5 DEF MutexInv
  <2>4. CASE LookupGroup(g)
        BY <2>4, MovesOn DEF LookupGroup, Watching
  <2>5. CASE CreateWatcher(g)
        BY <2>5, MovesOn DEF CreateWatcher, Watching
  <2>6. CASE Receive(g)
        BY <2>6, MovesOn DEF Receive, Watching
  <2>7. CASE UpdateRoutingInfo(g)
        BY <2>7, MovesOn DEF UpdateRoutingInfo, Watching
  <2>8. CASE ChannelClosed(g)
        BY <2>8, MovesOn DEF ChannelClosed, Watching
  <2>9. CASE StopOnCancel(g)
        BY <2>9, MovesOn DEF StopOnCancel, Watching
  <2> QED BY <1>3, <2>1, <2>2, <2>3, <2>4, <2>5, <2>6, <2>7, <2>8, <2>9 DEF GoStep
<1>4. CASE Restart
      BY <1>4, NobodyIsNoCall DEF Restart, MutexInv, MutexTypeOK, Ownership, SingleWatcher, Watching, PCs
<1>5. CASE UNCHANGED vars
      BY <1>5, <1>1 DEF vars
<1>6. CASE Cancel
      BY <1>6, <1>1 DEF Cancel
<1>7. ASSUME (ClusterStep \/ WatchStep) /\ UNCHANGED goVars PROVE MutexInv'
      BY <1>7, <1>1
<1> QED BY <1>2, <1>3, <1>4, <1>5, <1>6, <1>7 DEF Next

\* However many times the weavelet activates a component, however the requests
\* and their goroutines interleave, at most one of them watches its pods
\* (babysitter.go:167-174).
THEOREM AtMostOneWatcher == Spec => []SingleWatcher
<1>1. Init => MutexInv
      BY MutexInit
<1>2. MutexInv /\ [Next]_vars => MutexInv'
      BY MutexStep
<1>3. MutexInv => SingleWatcher
      BY DEF MutexInv
<1> QED BY <1>1, <1>2, <1>3, PTL DEF Spec

\* Whoever holds b.mu is in the critical section: no way out of it leaves the
\* mutex locked, so every activation gets its turn (babysitter.go:167-174).
THEOREM MutexIsReleased == Spec => []LockIsReleased
<1>1. Init => MutexInv
      BY MutexInit
<1>2. MutexInv /\ [Next]_vars => MutexInv'
      BY MutexStep
<1>3. MutexInv => LockIsReleased
      BY DEF MutexInv, Ownership, LockIsReleased
<1> QED BY <1>1, <1>2, <1>3, PTL DEF Spec

(***************************************************************************)
(* The type invariant.                                                     *)
(***************************************************************************)

Addr == IPs \cup {NoIP}

LEMMA CurIPType ==
    ASSUME StreamTypeOK, NEW p \in Pods
    PROVE  CurIP(p) \in Addr /\ Len(hist[p]) \in Nat
BY DEF StreamTypeOK, CurIP, AddrAt, Addr

LEMMA EventType ==
    ASSUME StreamTypeOK, NEW p \in Pods, NEW type \in {"Added", "Modified", "Deleted"}
    PROVE  EventOf(type, p) \in Event
BY CurIPType DEF EventOf, Event, Addr

LEMMA EmitType ==
    ASSUME StreamTypeOK, NEW e \in Event, Emit(e)
    PROVE  stream' \in [Calls -> Seq(Event)]
BY DEF StreamTypeOK, Emit

LEMMA ClusterTyped ==
    ASSUME StreamTypeOK, ClusterStep
    PROVE  StreamTypeOK'
<1> USE StreamAssumption DEF Change
<1>1. ASSUME NEW p \in Pods, PodCreate(p) PROVE StreamTypeOK'
  <2>1. stream' \in [Calls -> Seq(Event)]
        BY <1>1, EventType, EmitType DEF PodCreate
  <2> QED BY <1>1, <2>1 DEF PodCreate, StreamTypeOK, Phases
<1>2. ASSUME NEW p \in Pods, NEW ip \in IPs, PodAssign(p, ip) PROVE StreamTypeOK'
  <2> DEFINE e == [type |-> "Modified", pod |-> p, ip |-> ip, pos |-> Len(hist[p]) + 1]
  <2>1. e \in Event
        BY CurIPType DEF Event
  <2>2. stream' \in [Calls -> Seq(Event)]
        BY <1>2, <2>1, EmitType DEF PodAssign
  <2>3. hist' \in [Pods -> Seq(Addr)]
        BY <1>2 DEF PodAssign, StreamTypeOK, Addr
  <2> QED BY <1>2, <2>2, <2>3 DEF PodAssign, StreamTypeOK, Addr
<1>3. ASSUME NEW p \in Pods, PodTouch(p) PROVE StreamTypeOK'
  <2>1. stream' \in [Calls -> Seq(Event)]
        BY <1>3, EventType, EmitType DEF PodTouch
  <2> QED BY <1>3, <2>1 DEF PodTouch, StreamTypeOK
<1>4. ASSUME NEW p \in Pods, PodDelete(p) PROVE StreamTypeOK'
  <2> DEFINE e == [type |-> "Deleted", pod |-> p, ip |-> CurIP(p), pos |-> Len(hist'[p])]
  <2>1. hist' \in [Pods -> Seq(Addr)]
        BY <1>4 DEF PodDelete, StreamTypeOK, Addr
  <2>2. e \in Event
        BY <2>1, CurIPType DEF Event, Addr
  <2>3. stream' \in [Calls -> Seq(Event)]
        BY <1>4, <2>2, EmitType DEF PodDelete
  <2> QED BY <1>4, <2>1, <2>3 DEF PodDelete, StreamTypeOK, Addr, Phases
<1> QED BY <1>1, <1>2, <1>3, <1>4 DEF ClusterStep

\* A watch lists its pods as a sequence of them.
LEMMA ListedSeq ==
    ASSUME NEW name, NEW order \in SetToSeqs(Listed(name))
    PROVE  order \in Seq(Pods)
<1>1. Listed(name) \subseteq Pods /\ IsFiniteSet(Listed(name))
      BY StreamAssumption, FS_Subset DEF Listed
<1>2. Cardinality(Listed(name)) \in Nat
      BY <1>1, FS_CardinalityType
<1>3. order \in [1 .. Cardinality(Listed(name)) -> Pods]
      BY <1>1 DEF SetToSeqs
<1> QED BY <1>2, <1>3

LEMMA WatchTyped ==
    ASSUME StreamTypeOK, WatchStep
    PROVE  StreamTypeOK'
<1>1. ASSUME NEW g \in Calls, Connect(g) PROVE StreamTypeOK'
  <2>1. PICK order \in SetToSeqs(Listed(selector[g])) :
           stream' = [stream EXCEPT ![g] = [i \in DOMAIN order |-> EventOf("Added", order[i])]]
        BY <1>1 DEF Connect
  <2>2. order \in Seq(Pods)
        BY ListedSeq
  <2>3. \A i \in DOMAIN order : EventOf("Added", order[i]) \in Event
        BY <2>2, EventType
  <2>4. [i \in DOMAIN order |-> EventOf("Added", order[i])] \in Seq(Event)
        BY <2>2, <2>3
  <2>5. stream' \in [Calls -> Seq(Event)]
        BY <2>1, <2>4 DEF StreamTypeOK
  <2> QED BY <1>1, <2>5 DEF Connect, StreamTypeOK, Connections, clusterVars
<1>2. ASSUME NEW g \in Calls, Break(g) PROVE StreamTypeOK'
      BY <1>2 DEF Break, StreamTypeOK, Connections, clusterVars
<1>3. ASSUME NEW g \in Calls, End(g) PROVE StreamTypeOK'
      BY <1>3 DEF End, StreamTypeOK, Connections, clusterVars
<1> QED BY <1>1, <1>2, <1>3 DEF WatchStep

LEMMA TypeInit == Init => TypeOK
<1> SUFFICES ASSUME Init PROVE TypeOK
    OBVIOUS
<1>1. <<>> \in Seq(Addr) /\ <<>> \in Seq(Event)
      BY EmptySeq
<1>2. StreamTypeOK
      BY <1>1 DEF Init, StreamInit, StreamTypeOK, Phases, Connections, Addr
<1>3. pc \in [Calls -> PCs] /\ req \in [Calls -> Components \cup {""}]
      BY DEF Init, PCs
<1>4. addrs \in [Calls -> [Pods -> Addr]] /\ ver \in [Calls -> [Pods -> Nat]]
      BY DEF Init, NoAddrs, NoPos, Addr
<1>5. /\ routing \in [Components -> SUBSET IPs]
      /\ failed \in [Components -> BOOLEAN]
      /\ seen \in [Components -> [Pods -> Nat]]
      BY DEF Init, NoPos
<1>6. attempts \in [Calls -> Nat]
      BY DEF Init
<1> QED BY <1>2, <1>3, <1>4, <1>5, <1>6 DEF Init, TypeOK, Addr

LEMMA TypeStep == MutexInv /\ TypeOK /\ [Next]_vars => TypeOK'
<1> SUFFICES ASSUME MutexInv, TypeOK, [Next]_vars PROVE TypeOK'
    OBVIOUS
<1> USE DEF Goto
<1>1. ASSUME StreamTypeOK', UNCHANGED <<goVars, viewVars, envVars>> PROVE TypeOK'
      BY <1>1 DEF TypeOK, goVars, viewVars, envVars
<1>2. CASE ClusterStep /\ UNCHANGED <<goVars, viewVars, envVars>>
      BY <1>1, <1>2, ClusterTyped DEF TypeOK
<1>3. CASE WatchStep /\ UNCHANGED <<goVars, viewVars, envVars>>
      BY <1>1, <1>3, WatchTyped DEF TypeOK
<1>4. ASSUME NEW g \in Calls, NEW c \in Components, ActivateComponent(g, c) PROVE TypeOK'
      BY <1>4 DEF ActivateComponent, TypeOK, StreamTypeOK, PCs, clusterVars, watchVars, viewVars, envVars
<1>5. ASSUME NEW g \in Calls, GoStep(g) PROVE TypeOK'
  <2>1. CASE Lock(g)
        BY <2>1 DEF Lock, TypeOK, StreamTypeOK, PCs, clusterVars, watchVars, viewVars, envVars
  <2>2. CASE Check(g)
        BY <2>2 DEF Check, TypeOK, StreamTypeOK, PCs, clusterVars, watchVars, viewVars, envVars
  <2>3. CASE Claim(g)
        BY <2>3 DEF Claim, MutexInv, MutexTypeOK, TypeOK, StreamTypeOK, PCs, clusterVars, watchVars, viewVars, envVars
  <2>4. CASE LookupGroup(g)
    <3>1. req[g] \in DOMAIN Groups => NameOf(req[g]) \in Names
          BY BabysitterAssumption DEF NameOf, deploymentName, Names
    <3>2. selector' \in [Calls -> Names \cup {<<>>}]
          BY <2>4, <3>1 DEF LookupGroup, TypeOK, StreamTypeOK
    <3>3. pc' \in [Calls -> PCs]
          BY <2>4 DEF LookupGroup, TypeOK, PCs
    <3> QED BY <2>4, <3>2, <3>3
            DEF LookupGroup, TypeOK, StreamTypeOK, clusterVars, viewVars, envVars
  <2>5. CASE CreateWatcher(g)
    <3>1. conn' \in [Calls -> Connections] /\ pc' \in [Calls -> PCs]
          BY <2>5 DEF CreateWatcher, TypeOK, StreamTypeOK, Connections, PCs
    <3>2. /\ attempts' = [attempts EXCEPT ![g] = attempts[g] + 1]
          /\ attempts \in [Calls -> Nat]
          BY <2>5 DEF CreateWatcher, TypeOK
    <3>3. attempts' \in [Calls -> Nat]
          BY <3>2
    <3>4. createErrors' \in {createErrors, createErrors + 1} /\ createErrors \in Nat
          BY <2>5 DEF CreateWatcher, TypeOK
    <3>5. createErrors' \in Nat
          BY <3>4
    <3> QED BY <2>5, <3>1, <3>3, <3>5 DEF CreateWatcher, TypeOK, StreamTypeOK, clusterVars, viewVars
  <2>6. CASE Receive(g)
    <3> DEFINE e     == Head(stream[g])
               known == Apply(addrs[g], e)
    <3>1. stream[g] \in Seq(Event) /\ stream[g] # <<>>
          BY <2>6 DEF Receive, TypeOK, StreamTypeOK
    <3>2. e \in Event /\ Tail(stream[g]) \in Seq(Event)
          BY <3>1, HeadTailProperties
    <3>3. known \in [Pods -> Addr]
          BY <3>2 DEF Apply, Event, TypeOK, Addr
    <3>4. addrs' \in [Calls -> [Pods -> Addr]]
          BY <2>6, <3>3 DEF Receive, TypeOK, Addr
    <3>5. ver' \in [Calls -> [Pods -> Nat]]
          BY <2>6, <3>2 DEF Receive, TypeOK, Event
    <3>6. pc' \in [Calls -> PCs]
          BY <2>6 DEF Receive, TypeOK, PCs
    <3>7. stream' \in [Calls -> Seq(Event)]
          BY <2>6, <3>2 DEF Receive, TypeOK, StreamTypeOK
    <3> QED BY <2>6, <3>4, <3>5, <3>6, <3>7
            DEF Receive, TypeOK, StreamTypeOK, Addr, clusterVars, viewVars, envVars
  <2>7. CASE UpdateRoutingInfo(g)
    <3>1. addrs[g] \in [Pods -> Addr]
          BY DEF TypeOK, Addr
    <3>2. Replicas(addrs[g]) \subseteq IPs
          BY <3>1 DEF Replicas, Range, Addr
    <3>3. routing' \in [Components -> SUBSET IPs]
          BY <2>7, <3>2 DEF UpdateRoutingInfo, TypeOK
    <3>4. seen' \in [Components -> [Pods -> Nat]]
          BY <2>7 DEF UpdateRoutingInfo, TypeOK
    <3>5. failed' \in [Components -> BOOLEAN]
          BY <2>7 DEF UpdateRoutingInfo, TypeOK
    <3>6. updateErrors' \in {updateErrors, updateErrors + 1} /\ updateErrors \in Nat
          BY <2>7 DEF UpdateRoutingInfo, TypeOK
    <3>7. updateErrors' \in Nat
          BY <3>6
    <3>8. pc' \in [Calls -> PCs]
          BY <2>7 DEF UpdateRoutingInfo, TypeOK, PCs
    <3> QED BY <2>7, <3>3, <3>4, <3>5, <3>7, <3>8
            DEF UpdateRoutingInfo, TypeOK, StreamTypeOK, clusterVars, watchVars, envVars
  <2>8. CASE ChannelClosed(g)
        BY <2>8 DEF ChannelClosed, TypeOK, StreamTypeOK, PCs, clusterVars, watchVars, viewVars, envVars
  <2>9. CASE StopOnCancel(g)
    <3>1. stream' \in [Calls -> Seq(Event)]
          BY <2>9, EmptySeq DEF StopOnCancel, TypeOK, StreamTypeOK
    <3> QED BY <2>9, <3>1
            DEF StopOnCancel, TypeOK, StreamTypeOK, Connections, PCs, clusterVars, viewVars, envVars
  <2> QED BY <1>5, <2>1, <2>2, <2>3, <2>4, <2>5, <2>6, <2>7, <2>8, <2>9 DEF GoStep
<1>6. CASE Cancel
      BY <1>6 DEF Cancel, TypeOK, StreamTypeOK, clusterVars, watchVars, goVars, viewVars
<1>7. CASE Restart
  <2>1. StreamTypeOK'
        BY <1>7, EmptySeq DEF Restart, TypeOK, StreamTypeOK, Connections, clusterVars
  <2>2. pc' \in [Calls -> PCs] /\ req' \in [Calls -> Components \cup {""}]
        BY <1>7 DEF Restart, PCs
  <2>3. addrs' \in [Calls -> [Pods -> Addr]] /\ ver' \in [Calls -> [Pods -> Nat]]
        BY <1>7 DEF Restart, NoAddrs, NoPos, Addr
  <2>4. /\ routing' \in [Components -> SUBSET IPs]
        /\ failed' \in [Components -> BOOLEAN]
        /\ seen' \in [Components -> [Pods -> Nat]]
        BY <1>7 DEF Restart, NoPos
  <2>5. attempts' \in [Calls -> Nat]
        BY <1>7 DEF Restart
  <2>6. restarts' = restarts + 1 /\ restarts \in Nat
        BY <1>7 DEF Restart, TypeOK
  <2>7. restarts' \in Nat
        BY <2>6
  <2> QED BY <1>7, <2>1, <2>2, <2>3, <2>4, <2>5, <2>7 DEF Restart, TypeOK, Addr
<1>8. CASE UNCHANGED vars
      BY <1>8 DEF vars, TypeOK, StreamTypeOK, clusterVars, watchVars, goVars, viewVars, envVars
<1> QED BY <1>2, <1>3, <1>4, <1>5, <1>6, <1>7, <1>8 DEF Next

\* Every variable keeps its type.
THEOREM TypeCorrect == Spec => []TypeOK
<1>1. Init => MutexInv /\ TypeOK
      BY MutexInit, TypeInit
<1>2. MutexInv /\ TypeOK /\ [Next]_vars => (MutexInv /\ TypeOK)'
      BY MutexStep, TypeStep
<1> QED BY <1>1, <1>2, PTL DEF Spec

(***************************************************************************)
(* The weavelet has what the goroutine has.                                *)
(***************************************************************************)

\* Before a goroutine is at its select its map is empty; nothing was sent to
\* the weavelet for a component that is not watched, or whose goroutine has
\* not got there.
Fresh ==
    /\ \A g \in Calls :
          /\ pc[g] \in {"idle", "lock", "check", "claim", "lookup", "create"} =>
                addrs[g] = NoAddrs
          /\ pc[g] \in {"lookup", "create"} => routing[req[g]] = {}
    /\ \A c \in Components \ watching : routing[c] = {}

FollowInv == Fresh /\ RoutingFollowsAddrs

LEMMA NoReplicas == Replicas(NoAddrs) = {}
BY DEF Replicas, NoAddrs, Range

\* If an event does not count as a change, the map is as it was.
LEMMA UnchangedApply ==
    ASSUME NEW known \in [Pods -> IPs \cup {NoIP}], NEW e \in Event, ~Changed(known, e)
    PROVE  Apply(known, e) = known
BY DEF Changed, Apply, Event

LEMMA FollowInit == Init => FollowInv
BY DEF Init, FollowInv, Fresh, RoutingFollowsAddrs

LEMMA FollowStep == MutexInv /\ TypeOK /\ FollowInv /\ [Next]_vars => FollowInv'
<1> SUFFICES ASSUME MutexInv, TypeOK, FollowInv, [Next]_vars PROVE FollowInv'
    OBVIOUS
<1> USE DEF Goto, FollowInv
<1>1. ASSUME UNCHANGED <<pc, req, watching, addrs, routing, failed>> PROVE FollowInv'
      BY <1>1 DEF Fresh, RoutingFollowsAddrs
<1>2. ASSUME NEW g \in Calls, NEW c \in Components, ActivateComponent(g, c) PROVE FollowInv'
      BY <1>2 DEF ActivateComponent, viewVars, Fresh, RoutingFollowsAddrs, MutexInv, MutexTypeOK
<1>3. ASSUME NEW g \in Calls, GoStep(g) PROVE FollowInv'
  \* Steps that leave the maps and the routing info alone.
  <2>1. ASSUME UNCHANGED <<req, watching, addrs, routing, failed>>,
               NEW label \in {"check", "claim", "create", "done", "panic"},
               pc' = [pc EXCEPT ![g] = label],
               label \in {"check", "claim", "create"} =>
                  pc[g] \in {"lock", "check", "lookup"},
               label = "create" => pc[g] = "lookup"
        PROVE  FollowInv'
        BY <2>1 DEF Fresh, RoutingFollowsAddrs, MutexInv, MutexTypeOK
  <2>2. CASE Lock(g)
        BY <2>1, <2>2 DEF Lock, viewVars
  <2>3. CASE Check(g)
        BY <2>1, <2>3 DEF Check, viewVars
  <2>4. CASE Claim(g)
        BY <2>4 DEF Claim, viewVars, Fresh, RoutingFollowsAddrs, MutexInv, MutexTypeOK, Ownership
  <2>5. CASE LookupGroup(g)
        BY <2>1, <2>5 DEF LookupGroup, viewVars
  <2>6. CASE CreateWatcher(g)
    <3>1. CASE pc' = [pc EXCEPT ![g] = "select"]
      <4>1. addrs[g] = NoAddrs /\ routing[req[g]] = {}
            BY <2>6 DEF CreateWatcher, Fresh
      <4> QED BY <2>6, <3>1, <4>1, NoReplicas
              DEF CreateWatcher, viewVars, Fresh, RoutingFollowsAddrs, MutexInv, MutexTypeOK
    <3>2. CASE pc' = [pc EXCEPT ![g] = "panic"]
          BY <2>1, <2>6, <3>2 DEF CreateWatcher, viewVars
    <3> QED BY <2>6, <3>1, <3>2 DEF CreateWatcher
  <2>7. CASE Receive(g)
    <3> DEFINE e       == Head(stream[g])
               known   == Apply(addrs[g], e)
               changed == Changed(addrs[g], e)
    <3>1. /\ pc[g] = "select" /\ addrs' = [addrs EXCEPT ![g] = known]
          /\ pc' = [pc EXCEPT ![g] = IF changed THEN "update" ELSE "select"]
          /\ UNCHANGED <<req, watching, routing, failed>>
          BY <2>7 DEF Receive, viewVars
    <3>2. ~changed => known = addrs[g]
          BY <2>7, UnchangedApply, HeadTailProperties DEF Receive, TypeOK, StreamTypeOK
    <3> HIDE DEF known, changed
    <3>3. \A h \in Calls : h # g => pc'[h] = pc[h] /\ addrs'[h] = addrs[h]
          BY <3>1
    <3>4. pc'[g] \in {"select", "update"}
          BY <3>1 DEF MutexInv, MutexTypeOK
    <3>5. Fresh'
          BY <3>1, <3>3, <3>4 DEF Fresh
    <3>6. RoutingFollowsAddrs'
          BY <3>1, <3>2 DEF RoutingFollowsAddrs, MutexInv, MutexTypeOK, TypeOK
    <3> QED BY <3>5, <3>6
  <2>8. CASE UpdateRoutingInfo(g)
    <3>1. /\ pc[g] = "update" /\ pc' = [pc EXCEPT ![g] = "select"]
          /\ UNCHANGED <<req, watching, addrs>>
          /\ req[g] \in Components /\ req[g] \in watching
          BY <2>8 DEF UpdateRoutingInfo, MutexInv, MutexTypeOK, Ownership, Watching
    \* No other goroutine depends on this component's routing info.
    <3>2. \A h \in Calls : h # g /\ pc[h] \in {"lookup", "create", "select"} => req[h] # req[g]
          BY <3>1 DEF MutexInv, SingleWatcher, Watching
    <3>3. /\ \A c \in Components : c # req[g] => routing'[c] = routing[c] /\ failed'[c] = failed[c]
          /\ ~failed'[req[g]] => routing'[req[g]] = Replicas(addrs[g])
          BY <2>8, <3>1 DEF UpdateRoutingInfo, TypeOK
    <3>4. Fresh'
          BY <3>1, <3>2, <3>3 DEF Fresh, MutexInv, MutexTypeOK
    <3>5. RoutingFollowsAddrs'
          BY <3>1, <3>2, <3>3 DEF RoutingFollowsAddrs, MutexInv, MutexTypeOK
    <3> QED BY <3>4, <3>5
  <2>9. CASE ChannelClosed(g)
        BY <2>1, <2>9 DEF ChannelClosed, viewVars
  <2>10. CASE StopOnCancel(g)
        BY <2>1, <2>10 DEF StopOnCancel, viewVars
  <2> QED BY <1>3, <2>2, <2>3, <2>4, <2>5, <2>6, <2>7, <2>8, <2>9, <2>10 DEF GoStep
<1>4. CASE Restart
      BY <1>4 DEF Restart, Fresh, RoutingFollowsAddrs
<1>5. CASE UNCHANGED vars
      BY <1>5, <1>1 DEF vars, goVars, viewVars
<1>6. CASE Cancel
      BY <1>6, <1>1 DEF Cancel, goVars, viewVars
<1>7. ASSUME (ClusterStep \/ WatchStep) /\ UNCHANGED <<goVars, viewVars>>
      PROVE FollowInv'
      BY <1>7, <1>1 DEF goVars, viewVars
<1> QED BY <1>2, <1>3, <1>4, <1>5, <1>6, <1>7 DEF Next

\* Whenever a goroutine is back at its select, the weavelet has exactly the
\* replicas of its map, unless the last UpdateRoutingInfo failed (240-255).
THEOREM RoutingIsAddrs == Spec => []RoutingFollowsAddrs
<1>1. Init => MutexInv /\ TypeOK /\ FollowInv
      BY MutexInit, TypeInit, FollowInit
<1>2. MutexInv /\ TypeOK /\ FollowInv /\ [Next]_vars => (MutexInv /\ TypeOK /\ FollowInv)'
      BY MutexStep, TypeStep, FollowStep
<1>3. FollowInv => RoutingFollowsAddrs
      BY DEF FollowInv
<1> QED BY <1>1, <1>2, <1>3, PTL DEF Spec
===============================================================================
