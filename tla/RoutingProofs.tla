----------------------------- MODULE RoutingProofs -----------------------------
(***************************************************************************)
(* Babysitter implements RoutingView, for every value of its constants:    *)
(* the routing info only moves forward, and only ever has addresses of     *)
(* pods that host the component in the babysitter's own version.           *)
(*                                                                         *)
(* The argument follows an address from the pod to the weavelet.  An event *)
(* in flight shows an address the pod had at some position of its history, *)
(* and events of one pod arrive in the order of their positions; the map   *)
(* shows the position of the last event received; and what the weavelet    *)
(* was shown is not ahead of the map of the one goroutine that watches.    *)
(*                                                                         *)
(* Last comes the other direction, InSync: a watch loop's map together     *)
(* with the events on their way to it is the cluster, as long as its       *)
(* connection is open.                                                     *)
(***************************************************************************)
EXTENDS BabysitterProofs, SequenceProofs

\* A pod that is not deleted has never lost its address.
HistoryInv ==
    \A p \in Pods : phase[p] # "deleted" => \A n \in 1 .. Len(hist[p]) : hist[p][n] # NoIP

\* The address of p at a position of the histories h.
At(h, p, n) == IF n = 0 THEN NoIP ELSE h[p][n]

\* A goroutine's map shows each pod at the position of the last event received.
MapInv ==
    \A g \in Calls, p \in Pods :
       ver[g][p] <= Len(hist[p]) /\ addrs[g][p] = At(hist, p, ver[g][p])

\* An event tells the truth about the position it is from.
Truthful(h, e) ==
    /\ e.pos <= Len(h[e.pod])
    /\ e.type = "Deleted" => At(h, e.pod, e.pos) = NoIP
    /\ e.type # "Deleted" => /\ e.ip = At(h, e.pod, e.pos)
                             /\ e.ip = NoIP => e.pos = 0

\* The events s are truthful, newer than what is known, and in order.
InOrder(h, s, known) ==
    \A i \in 1 .. Len(s) :
       /\ Truthful(h, s[i])
       /\ known[s[i].pod] <= s[i].pos
       /\ \A j \in i .. Len(s) : s[j].pod = s[i].pod => s[i].pos <= s[j].pos

\* They are of pods with the given label.
Labelled(s, name) == \A i \in 1 .. Len(s) : PodLabel(s[i].pod) = name

StreamInv ==
    \A g \in Calls : InOrder(hist, stream[g], ver[g]) /\ Labelled(stream[g], selector[g])

\* A goroutine without a watch has received nothing; one that has a watch
\* selects the pods of its component, and has heard of no others.
Before == {"idle", "lock", "check", "claim", "lookup", "create"}

WatchInv ==
    \A g \in Calls :
       /\ pc[g] \in Before => ver[g] = NoPos /\ stream[g] = <<>> /\ conn[g] = "off"
       /\ pc[g] \in {"create", "select", "update"} =>
             req[g] \in DOMAIN Groups /\ selector[g] = NameOf(req[g])
       /\ pc[g] \in {"select", "update"} =>
             \A p \in Pods : ver[g][p] # 0 => p \in HostsOf(req[g])

\* The weavelet is not ahead of the goroutine that watches.
SeenInv ==
    /\ \A c \in Components \ watching : seen[c] = NoPos
    /\ \A g \in Calls : pc[g] \in Watching => \A p \in Pods : seen[req[g]][p] <= ver[g][p]

RoutingInv == HistoryInv /\ MapInv /\ StreamInv /\ WatchInv /\ SeenInv /\ OwnVersionOnly
-------------------------------------------------------------------------------
(* Facts about values, which hold of the variables before and after a step. *)

Histories == [Pods -> Seq(Addr)]

LEMMA HistoryType ==
    ASSUME NEW h \in Histories, NEW p \in Pods
    PROVE  h[p] \in Seq(Addr) /\ Len(h[p]) \in Nat
BY DEF Histories

LEMMA StreamType ==
    ASSUME NEW s \in Seq(Event)
    PROVE  Len(s) \in Nat /\ \A i \in 1 .. Len(s) : s[i] \in Event
OBVIOUS

LEMMA EventFields ==
    ASSUME NEW e \in Event
    PROVE  e.pod \in Pods /\ e.pos \in Nat /\ e.ip \in Addr
BY DEF Event, Addr

LEMMA Types ==
    ASSUME TypeOK
    PROVE  /\ hist \in Histories
           /\ stream \in [Calls -> Seq(Event)]
           /\ addrs \in [Calls -> [Pods -> Addr]]
           /\ ver \in [Calls -> [Pods -> Nat]]
           /\ seen \in [Components -> [Pods -> Nat]]
           /\ pc \in [Calls -> PCs]
BY DEF TypeOK, StreamTypeOK, Addr, Histories

\* The cluster only ever adds to a pod's history.
Grows(h, k) ==
    \A p \in Pods : /\ Len(h[p]) <= Len(k[p])
                    /\ \A n \in 1 .. Len(h[p]) : k[p][n] = h[p][n]

\* What was true of a position stays true.
LEMMA PositionsStay ==
    ASSUME NEW h \in Histories, NEW k \in Histories, Grows(h, k),
           NEW p \in Pods, NEW n \in Nat, n <= Len(h[p])
    PROVE  n <= Len(k[p]) /\ At(k, p, n) = At(h, p, n)
<1>1. Len(h[p]) \in Nat /\ Len(k[p]) \in Nat
      BY HistoryType
<1>2. n <= Len(k[p])
      BY <1>1 DEF Grows
<1>3. n # 0 => k[p][n] = h[p][n]
      BY <1>1 DEF Grows
<1> QED BY <1>2, <1>3 DEF At

LEMMA TruthStays ==
    ASSUME NEW h \in Histories, NEW k \in Histories, Grows(h, k), NEW e \in Event, Truthful(h, e)
    PROVE  Truthful(k, e)
<1>1. e.pod \in Pods /\ e.pos \in Nat /\ e.pos <= Len(h[e.pod])
      BY EventFields DEF Truthful
<1>2. e.pos <= Len(k[e.pod]) /\ At(k, e.pod, e.pos) = At(h, e.pod, e.pos)
      BY <1>1, PositionsStay
<1> QED BY <1>2 DEF Truthful

LEMMA OrderStays ==
    ASSUME NEW h \in Histories, NEW k \in Histories, Grows(h, k), NEW s \in Seq(Event),
           NEW known \in [Pods -> Nat], InOrder(h, s, known)
    PROVE  InOrder(k, s, known)
<1>1. \A i \in 1 .. Len(s) : Truthful(k, s[i])
      BY StreamType, TruthStays DEF InOrder
<1> QED BY <1>1 DEF InOrder

\* A truthful event of the latest position goes to the end of the line.
LEMMA AppendInOrder ==
    ASSUME NEW h \in Histories, NEW s \in Seq(Event), NEW known \in [Pods -> Nat],
           InOrder(h, s, known), NEW e \in Event, Truthful(h, e),
           e.pos = Len(h[e.pod]), known[e.pod] <= Len(h[e.pod])
    PROVE  InOrder(h, Append(s, e), known)
<1> DEFINE t == Append(s, e)
<1>1. /\ Len(t) = Len(s) + 1 /\ Len(s) \in Nat /\ t[Len(t)] = e
      /\ \A i \in 1 .. Len(s) : t[i] = s[i] /\ s[i] \in Event
      OBVIOUS
<1>2. \A i \in 1 .. Len(s) : s[i].pod = e.pod => s[i].pos <= e.pos
      BY DEF InOrder, Truthful
<1> HIDE DEF t
<1>3. \A i \in 1 .. Len(t) : i \in 1 .. Len(s) \/ i = Len(t)
      BY <1>1
<1>4. \A i \in 1 .. Len(t) : Truthful(h, t[i]) /\ known[t[i].pod] <= t[i].pos
      BY <1>1, <1>3 DEF InOrder
<1>5. ASSUME NEW i \in 1 .. Len(t), NEW j \in i .. Len(t), t[j].pod = t[i].pod
      PROVE  t[i].pos <= t[j].pos
  <2>1. CASE j \in 1 .. Len(s)
    <3>1. i \in 1 .. Len(s) /\ j \in i .. Len(s)
          BY <1>1, <2>1
    <3> QED BY <1>1, <1>5, <3>1 DEF InOrder
  <2>2. CASE j = Len(t) /\ i \in 1 .. Len(s)
        BY <1>1, <1>2, <1>5, <2>2
  <2>3. CASE j = Len(t) /\ i = Len(t)
        BY <1>1, <2>3, EventFields
  <2>4. j \in 1 .. Len(t)
        BY <1>1
  <2> QED BY <1>3, <2>1, <2>2, <2>3, <2>4
<1> QED BY <1>4, <1>5 DEF InOrder, t

LEMMA AppendLabelled ==
    ASSUME NEW s \in Seq(Event), NEW name, Labelled(s, name), NEW e \in Event, PodLabel(e.pod) = name
    PROVE  Labelled(Append(s, e), name)
<1> DEFINE t == Append(s, e)
<1>1. \A i \in 1 .. Len(t) : t[i] = e \/ \E j \in 1 .. Len(s) : t[i] = s[j]
      OBVIOUS
<1> HIDE DEF t
<1> QED BY <1>1 DEF Labelled, t

\* When the first event is received, the others are still newer than the map.
LEMMA TailInOrder ==
    ASSUME NEW h \in Histories, NEW s \in Seq(Event), s # <<>>, NEW known \in [Pods -> Nat],
           InOrder(h, s, known)
    PROVE  InOrder(h, Tail(s), [known EXCEPT ![Head(s).pod] = Head(s).pos])
<1> DEFINE t == Tail(s)
           e == Head(s)
           new == [known EXCEPT ![e.pod] = e.pos]
<1>1. /\ Len(s) \in Nat /\ Len(t) = Len(s) - 1 /\ 1 \in 1 .. Len(s) /\ e = s[1]
      /\ \A i \in 1 .. Len(t) : t[i] = s[i + 1] /\ i + 1 \in 1 .. Len(s)
      OBVIOUS
<1>2. \A i \in 1 .. Len(s) : s[i].pod \in Pods
      BY StreamType, EventFields
<1> HIDE DEF t, e
<1> SUFFICES ASSUME NEW i \in 1 .. Len(t)
             PROVE  /\ Truthful(h, t[i])
                    /\ new[t[i].pod] <= t[i].pos
                    /\ \A j \in i .. Len(t) : t[j].pod = t[i].pod => t[i].pos <= t[j].pos
    BY DEF InOrder, t, e
<1>3. Truthful(h, t[i]) /\ known[t[i].pod] <= t[i].pos
      BY <1>1 DEF InOrder
<1>4. t[i].pod = e.pod => e.pos <= t[i].pos
  <2>1. i + 1 \in 1 .. Len(s)
        BY <1>1
  <2> QED BY <1>1, <2>1 DEF InOrder
<1>5. ASSUME NEW j \in i .. Len(t), t[j].pod = t[i].pod PROVE t[i].pos <= t[j].pos
  <2>1. /\ j \in 1 .. Len(t) /\ j + 1 \in (i + 1) .. Len(s) /\ i + 1 \in 1 .. Len(s)
        BY <1>1
  <2> QED BY <1>1, <1>5, <2>1 DEF InOrder
<1> QED BY <1>1, <1>2, <1>3, <1>4, <1>5

LEMMA TailLabelled ==
    ASSUME NEW s \in Seq(Event), s # <<>>, NEW name, Labelled(s, name)
    PROVE  Labelled(Tail(s), name) /\ PodLabel(Head(s).pod) = name
<1>1. Len(s) \in Nat /\ Len(Tail(s)) = Len(s) - 1 /\ Head(s) = s[1] /\ 1 \in 1 .. Len(s)
      OBVIOUS
<1>2. \A i \in 1 .. Len(Tail(s)) : Tail(s)[i] = s[i + 1] /\ i + 1 \in 1 .. Len(s)
      OBVIOUS
<1> QED BY <1>1, <1>2 DEF Labelled
-------------------------------------------------------------------------------
(* The cluster. *)

\* Every watch that gets the event is still in order.
LEMMA EmitKeeps ==
    ASSUME TypeOK, hist' \in Histories, Grows(hist, hist'), MapInv, StreamInv,
           NEW e \in Event, Emit(e), Truthful(hist', e), e.pos = Len(hist'[e.pod]),
           UNCHANGED <<conn, selector, pc, ver, addrs>>
    PROVE  MapInv' /\ StreamInv' /\ \A g \in Calls : conn[g] = "off" => stream'[g] = stream[g]
<1>1. MapInv'
  <2> SUFFICES ASSUME NEW g \in Calls, NEW p \in Pods
               PROVE  ver[g][p] <= Len(hist'[p]) /\ addrs[g][p] = At(hist', p, ver[g][p])
      BY DEF MapInv
  <2>1. ver[g][p] \in Nat /\ ver[g][p] <= Len(hist[p]) /\ addrs[g][p] = At(hist, p, ver[g][p])
        BY Types DEF MapInv
  <2> QED BY <2>1, Types, PositionsStay
<1>2. ASSUME NEW g \in Calls
      PROVE  InOrder(hist', stream'[g], ver[g]) /\ Labelled(stream'[g], selector[g])
  <2>1. stream[g] \in Seq(Event) /\ ver[g] \in [Pods -> Nat] /\ e.pod \in Pods
        BY Types, EventFields
  <2>2. InOrder(hist', stream[g], ver[g]) /\ Labelled(stream[g], selector[g])
        BY <2>1, Types, OrderStays DEF StreamInv
  <2>3. ver[g][e.pod] <= Len(hist'[e.pod])
        BY <1>1, <2>1 DEF MapInv
  <2>4. CASE conn[g] = "open" /\ selector[g] = PodLabel(e.pod)
    <3>1. stream'[g] = Append(stream[g], e)
          BY <2>4 DEF Emit
    <3> QED BY <2>1, <2>2, <2>3, <2>4, <3>1, AppendInOrder, AppendLabelled
  <2>5. CASE ~(conn[g] = "open" /\ selector[g] = PodLabel(e.pod))
    <3>1. stream'[g] = stream[g]
          BY <2>5 DEF Emit
    <3> QED BY <2>2, <3>1
  <2> QED BY <2>4, <2>5
<1>3. StreamInv'
      BY <1>2 DEF StreamInv
<1>4. \A g \in Calls : conn[g] = "off" => stream'[g] = stream[g]
      BY DEF Emit
<1> QED BY <1>1, <1>3, <1>4

\* What a live pod's status shows.
LEMMA StatusIsTruthful ==
    ASSUME TypeOK, HistoryInv, NEW p \in Pods, phase[p] # "deleted",
           NEW type \in {"Added", "Modified"}
    PROVE  /\ EventOf(type, p) \in Event
           /\ Truthful(hist, EventOf(type, p))
           /\ EventOf(type, p).pos = Len(hist[p]) /\ EventOf(type, p).pod = p
<1>1. hist[p] \in Seq(Addr) /\ Len(hist[p]) \in Nat
      BY Types, HistoryType
<1>2. Len(hist[p]) # 0 => hist[p][Len(hist[p])] # NoIP
      BY <1>1 DEF HistoryInv
<1>3. EventOf(type, p) \in Event
      BY EventType DEF TypeOK
<1> QED BY <1>1, <1>2, <1>3 DEF EventOf, Truthful, At, CurIP, AddrAt

\* A pod whose address changes gets one more position.
LEMMA AppendGrows ==
    ASSUME NEW h \in Histories, NEW p \in Pods, NEW a \in Addr, NEW k \in Histories,
           k[p] = Append(h[p], a), \A q \in Pods : q # p => k[q] = h[q]
    PROVE  /\ Grows(h, k)
           /\ Len(h[p]) \in Nat
           /\ Len(k[p]) = Len(h[p]) + 1 /\ k[p][Len(h[p]) + 1] = a
<1> DEFINE s == h[p]
           t == k[p]
<1>1. s \in Seq(Addr)
      BY HistoryType
<1>2. /\ Len(s) \in Nat /\ Len(t) = Len(s) + 1 /\ t[Len(s) + 1] = a
      /\ \A n \in 1 .. Len(s) : t[n] = s[n]
      BY <1>1
<1> HIDE DEF t
<1>3. Grows(h, k)
  <2> SUFFICES ASSUME NEW q \in Pods
               PROVE  Len(h[q]) <= Len(k[q]) /\ \A n \in 1 .. Len(h[q]) : k[q][n] = h[q][n]
      BY DEF Grows
  <2>1. Len(h[q]) \in Nat
        BY HistoryType
  <2>2. CASE q = p
        BY <1>2, <2>2 DEF t
  <2>3. CASE q # p
        BY <2>1, <2>3
  <2> QED BY <2>2, <2>3
<1> QED BY <1>2, <1>3 DEF t

LEMMA SameGrows == \A h \in Histories : Grows(h, h)
<1> SUFFICES ASSUME NEW h \in Histories, NEW p \in Pods PROVE Len(h[p]) <= Len(h[p])
    BY DEF Grows
<1> QED BY HistoryType

\* What the four changes of the cluster have in common.
Kept ==
    /\ hist' \in Histories /\ Grows(hist, hist')
    /\ HistoryInv' /\ MapInv' /\ StreamInv'
    /\ \A g \in Calls : conn[g] = "off" => stream'[g] = stream[g]
    /\ \/ hist' = hist
       \/ \E p \in Pods : /\ hist' = [hist EXCEPT ![p] = hist'[p]]
                          /\ Len(hist'[p]) = Len(hist[p]) + 1

LEMMA ChangeKeeps ==
    ASSUME TypeOK, HistoryInv, MapInv, StreamInv, ClusterStep, UNCHANGED goVars
    PROVE  Kept /\ UNCHANGED <<conn, selector>>
<1>1. UNCHANGED <<pc, ver, addrs>>
      BY DEF goVars
<1>2. hist \in Histories /\ Grows(hist, hist)
      BY Types, SameGrows
<1>3. ASSUME NEW p \in Pods, PodCreate(p) PROVE Kept /\ UNCHANGED <<conn, selector>>
  <2> DEFINE e == EventOf("Added", p)
  <2>1. /\ UNCHANGED <<hist, conn, selector>> /\ phase' = [phase EXCEPT ![p] = "live"]
        /\ phase[p] = "absent" /\ Emit(e)
        BY <1>3 DEF PodCreate
  <2>2. HistoryInv'
        BY <2>1 DEF HistoryInv, TypeOK, StreamTypeOK
  <2>3. e \in Event /\ Truthful(hist', e) /\ e.pos = Len(hist'[e.pod])
        BY <2>1, StatusIsTruthful
  <2> HIDE DEF e
  <2> QED BY <1>1, <1>2, <2>1, <2>2, <2>3, EmitKeeps DEF Kept
<1>4. ASSUME NEW p \in Pods, NEW ip \in IPs, PodAssign(p, ip)
      PROVE  Kept /\ UNCHANGED <<conn, selector>>
  <2> DEFINE e == [type |-> "Modified", pod |-> p, ip |-> ip, pos |-> Len(hist[p]) + 1]
  <2>1. /\ UNCHANGED <<phase, conn, selector>> /\ hist' = [hist EXCEPT ![p] = Append(@, ip)]
        /\ Emit(e)
        BY <1>4 DEF PodAssign
  <2>2. ip \in Addr /\ ip # NoIP
        BY StreamAssumption DEF Addr
  <2>3. /\ hist' \in Histories /\ hist'[p] = Append(hist[p], ip)
        /\ \A q \in Pods : q # p => hist'[q] = hist[q]
        /\ hist' = [hist EXCEPT ![p] = hist'[p]]
        BY <1>2, <2>1, <2>2 DEF Histories
  <2>4. /\ Grows(hist, hist') /\ Len(hist[p]) \in Nat
        /\ Len(hist'[p]) = Len(hist[p]) + 1 /\ hist'[p][Len(hist[p]) + 1] = ip
        BY <1>2, <2>2, <2>3, AppendGrows
  <2>5. HistoryInv'
    <3> SUFFICES ASSUME NEW q \in Pods, phase[q] # "deleted", NEW n \in 1 .. Len(hist'[q])
                 PROVE  hist'[q][n] # NoIP
        BY <2>1 DEF HistoryInv
    <3>1. CASE q # p
          BY <2>3, <2>4, <3>1 DEF HistoryInv
    <3>2. CASE q = p /\ n # Len(hist[p]) + 1
      <4>1. n \in 1 .. Len(hist[p])
            BY <2>4, <3>2
      <4> QED BY <2>3, <2>4, <3>2, <4>1 DEF HistoryInv, Grows
    <3>3. CASE q = p /\ n = Len(hist[p]) + 1
          BY <2>2, <2>4, <3>3
    <3> QED BY <3>1, <3>2, <3>3
  <2>6. e \in Event /\ Truthful(hist', e) /\ e.pos = Len(hist'[e.pod])
        BY <2>2, <2>3, <2>4 DEF Event, Truthful, At
  <2> HIDE DEF e
  <2>7. MapInv' /\ StreamInv' /\ \A g \in Calls : conn[g] = "off" => stream'[g] = stream[g]
        BY <1>1, <2>1, <2>4, <2>6, <2>3, EmitKeeps
  <2> QED BY <2>1, <2>4, <2>5, <2>7, <2>3 DEF Kept
<1>5. ASSUME NEW p \in Pods, PodTouch(p) PROVE Kept /\ UNCHANGED <<conn, selector>>
  <2> DEFINE e == EventOf("Modified", p)
  <2>1. UNCHANGED <<hist, phase, conn, selector>> /\ phase[p] = "live" /\ Emit(e)
        BY <1>5 DEF PodTouch
  <2>2. HistoryInv'
        BY <2>1 DEF HistoryInv
  <2>3. e \in Event /\ Truthful(hist', e) /\ e.pos = Len(hist'[e.pod])
        BY <2>1, StatusIsTruthful
  <2> HIDE DEF e
  <2> QED BY <1>1, <1>2, <2>1, <2>2, <2>3, EmitKeeps DEF Kept
<1>6. ASSUME NEW p \in Pods, PodDelete(p) PROVE Kept /\ UNCHANGED <<conn, selector>>
  <2> DEFINE e == [type |-> "Deleted", pod |-> p, ip |-> CurIP(p), pos |-> Len(hist'[p])]
  <2>1. /\ UNCHANGED <<conn, selector>> /\ phase' = [phase EXCEPT ![p] = "deleted"]
        /\ hist' = IF CurIP(p) = NoIP THEN hist ELSE [hist EXCEPT ![p] = Append(@, NoIP)]
        /\ Emit(e)
        BY <1>6 DEF PodDelete
  <2>2. CurIP(p) \in Addr /\ Len(hist[p]) \in Nat /\ NoIP \in Addr
        BY CurIPType DEF TypeOK, Addr
  <2>3. /\ hist' \in Histories /\ Grows(hist, hist')
        /\ \A q \in Pods : q # p => hist'[q] = hist[q]
        /\ Len(hist'[p]) \in Nat /\ At(hist', p, Len(hist'[p])) = NoIP
        /\ \/ hist' = hist
           \/ hist' = [hist EXCEPT ![p] = hist'[p]] /\ Len(hist'[p]) = Len(hist[p]) + 1
    <3>1. CASE CurIP(p) = NoIP
          BY <1>2, <2>1, <2>2, <3>1 DEF CurIP, AddrAt, At
    <3>2. CASE CurIP(p) # NoIP
      <4>1. hist' = [hist EXCEPT ![p] = Append(@, NoIP)]
            BY <2>1, <3>2
      <4>2. /\ hist' \in Histories /\ hist'[p] = Append(hist[p], NoIP)
            /\ \A q \in Pods : q # p => hist'[q] = hist[q]
            /\ hist' = [hist EXCEPT ![p] = hist'[p]]
            BY <1>2, <2>2, <4>1 DEF Histories
      <4>3. /\ Grows(hist, hist')
            /\ Len(hist'[p]) = Len(hist[p]) + 1 /\ hist'[p][Len(hist[p]) + 1] = NoIP
            BY <1>2, <2>2, <4>2, AppendGrows
      <4> QED BY <2>2, <4>2, <4>3 DEF At
    <3> QED BY <3>1, <3>2
  <2>4. HistoryInv'
        BY <2>1, <2>3 DEF HistoryInv, TypeOK, StreamTypeOK
  <2>5. e \in Event /\ Truthful(hist', e) /\ e.pos = Len(hist'[e.pod])
        BY <2>2, <2>3 DEF Event, Truthful, Addr
  <2> HIDE DEF e
  <2>6. MapInv' /\ StreamInv' /\ \A g \in Calls : conn[g] = "off" => stream'[g] = stream[g]
        BY <1>1, <2>1, <2>3, <2>5, EmitKeeps
  <2> QED BY <2>1, <2>3, <2>4, <2>6 DEF Kept
<1> QED BY <1>3, <1>4, <1>5, <1>6 DEF ClusterStep

LEMMA RangeGrows ==
    ASSUME NEW h \in Histories, NEW k \in Histories, Grows(h, k), NEW p \in Pods
    PROVE  Range(h[p]) \subseteq Range(k[p])
<1>1. h[p] \in Seq(Addr) /\ k[p] \in Seq(Addr) /\ Len(h[p]) \in Nat /\ Len(k[p]) \in Nat
      BY HistoryType
<1>2. DOMAIN h[p] = 1 .. Len(h[p]) /\ DOMAIN k[p] = 1 .. Len(k[p])
      BY <1>1
<1>3. \A n \in 1 .. Len(h[p]) : n \in 1 .. Len(k[p]) /\ k[p][n] = h[p][n]
      BY <1>1 DEF Grows
<1> QED BY <1>2, <1>3 DEF Range

LEMMA ClusterKeeps ==
    ASSUME TypeOK, RoutingInv, ClusterStep, UNCHANGED <<goVars, viewVars>>
    PROVE  RoutingInv'
<1>1. Kept /\ UNCHANGED <<conn, selector>>
      BY ChangeKeeps DEF RoutingInv
<1>2. UNCHANGED <<pc, req, watching, ver, seen, routing>>
      BY DEF goVars, viewVars
<1>3. WatchInv'
      BY <1>1, <1>2 DEF RoutingInv, WatchInv, Kept
<1>4. SeenInv'
      BY <1>2 DEF RoutingInv, SeenInv
<1>5. \A p \in Pods : Range(hist[p]) \subseteq Range(hist'[p])
      BY <1>1, Types, RangeGrows DEF Kept
<1>6. OwnVersionOnly'
  <2> SUFFICES ASSUME NEW c \in Components, NEW a \in routing[c]
               PROVE  \E p \in HostsOf(c) : a \in Range(hist'[p])
      BY <1>2 DEF OwnVersionOnly
  <2>1. PICK p \in HostsOf(c) : a \in Range(hist[p])
        BY DEF RoutingInv, OwnVersionOnly
  <2>2. p \in Pods
        BY DEF HostsOf
  <2> QED BY <1>5, <2>1, <2>2
<1> QED BY <1>1, <1>3, <1>4, <1>6 DEF RoutingInv, Kept
-------------------------------------------------------------------------------
(* The watches. *)

\* What a step may not change, if nothing but one goroutine's stream changes.
LEMMA StreamKeeps ==
    ASSUME TypeOK, RoutingInv, NEW g \in Calls,
           UNCHANGED <<hist, phase, selector, pc, req, watching, addrs, ver, seen, routing>>,
           \A h \in Calls : h # g => stream'[h] = stream[h] /\ conn'[h] = conn[h],
           InOrder(hist, stream'[g], ver[g]), Labelled(stream'[g], selector[g]),
           pc[g] \notin Before
    PROVE  RoutingInv'
<1>1. HistoryInv' /\ MapInv' /\ SeenInv' /\ OwnVersionOnly'
      BY DEF RoutingInv, HistoryInv, MapInv, SeenInv, OwnVersionOnly
<1>2. StreamInv'
      BY DEF RoutingInv, StreamInv
<1>3. WatchInv'
      BY DEF RoutingInv, WatchInv
<1> QED BY <1>1, <1>2, <1>3 DEF RoutingInv

\* A new connection lists live pods, which the watch selects.
LEMMA ListedPods ==
    ASSUME NEW name, NEW order \in SetToSeqs(Listed(name))
    PROVE  \A i \in DOMAIN order : order[i] \in Listed(name)
BY DEF SetToSeqs

LEMMA ConnectKeeps ==
    ASSUME TypeOK, RoutingInv, NEW g \in Calls, Connect(g), UNCHANGED <<goVars, viewVars>>
    PROVE  RoutingInv'
<1>1. PICK order \in SetToSeqs(Listed(selector[g])) :
         stream' = [stream EXCEPT ![g] = [i \in DOMAIN order |-> EventOf("Added", order[i])]]
      BY DEF Connect
<1> DEFINE s == [i \in DOMAIN order |-> EventOf("Added", order[i])]
<1>2. order \in Seq(Pods) /\ \A i \in DOMAIN order : order[i] \in Listed(selector[g])
      BY ListedSeq, ListedPods
<1>3. Len(s) \in Nat /\ 1 .. Len(s) = DOMAIN order
      BY <1>2
<1>4. ASSUME NEW i \in 1 .. Len(s)
      PROVE  /\ Truthful(hist, s[i]) /\ s[i].pod \in Pods /\ PodLabel(s[i].pod) = selector[g]
             /\ s[i].pos = Len(hist[s[i].pod]) /\ s[i].pos \in Nat
             /\ ver[g][s[i].pod] <= s[i].pos
  <2> DEFINE p == order[i]
  <2>1. p \in Pods /\ phase[p] = "live" /\ PodLabel(p) = selector[g]
        BY <1>2, <1>3 DEF Listed
  <2>2. s[i] = EventOf("Added", p)
        BY <1>3
  <2>3. /\ s[i] \in Event /\ Truthful(hist, s[i])
        /\ s[i].pos = Len(hist[p]) /\ s[i].pod = p
        BY <2>1, <2>2, StatusIsTruthful DEF RoutingInv
  <2> HIDE DEF s, p
  <2> QED BY <2>1, <2>3, EventFields DEF RoutingInv, MapInv
<1>5. stream'[g] = s /\ \A h \in Calls : h # g => stream'[h] = stream[h]
      BY <1>1 DEF TypeOK, StreamTypeOK
<1> HIDE DEF s
<1>6. InOrder(hist, s, ver[g])
  <2> SUFFICES ASSUME NEW i \in 1 .. Len(s), NEW j \in i .. Len(s), s[j].pod = s[i].pod
               PROVE  s[i].pos <= s[j].pos
      BY <1>4 DEF InOrder
  <2>1. j \in 1 .. Len(s)
        BY <1>3
  <2> QED BY <1>4, <2>1
<1>7. Labelled(s, selector[g])
      BY <1>4 DEF Labelled
<1>8. /\ conn[g] = "connecting" /\ \A h \in Calls : h # g => conn'[h] = conn[h]
      /\ UNCHANGED <<hist, phase, selector, pc, req, watching, addrs, ver, seen, routing>>
      BY DEF Connect, clusterVars, goVars, viewVars, TypeOK, StreamTypeOK
<1>9. pc[g] \notin Before
      BY <1>8 DEF RoutingInv, WatchInv
<1> QED BY <1>5, <1>6, <1>7, <1>8, <1>9, StreamKeeps

\* Nothing is in order, and so is what a watch had before it ends.
LEMMA NothingInOrder ==
    ASSUME NEW h, NEW known, NEW name
    PROVE  InOrder(h, <<>>, known) /\ Labelled(<<>>, name)
BY DEF InOrder, Labelled

LEMMA WatchKeeps ==
    ASSUME TypeOK, RoutingInv, WatchStep, UNCHANGED <<goVars, viewVars>>
    PROVE  RoutingInv'
<1>1. UNCHANGED <<pc, req, watching, addrs, ver, seen, routing>>
      BY DEF goVars, viewVars
<1>2. ASSUME NEW g \in Calls, Break(g) PROVE RoutingInv'
  <2>1. /\ conn[g] = "open" /\ \A h \in Calls : h # g => stream'[h] = stream[h] /\ conn'[h] = conn[h]
        /\ stream'[g] = <<>> /\ UNCHANGED <<hist, phase, selector>>
        BY <1>2 DEF Break, clusterVars, TypeOK, StreamTypeOK
  <2>2. pc[g] \notin Before
        BY <2>1 DEF RoutingInv, WatchInv
  <2>3. InOrder(hist, stream'[g], ver[g]) /\ Labelled(stream'[g], selector[g])
        BY <2>1, NothingInOrder, Types
  <2> QED BY <1>1, <2>1, <2>2, <2>3, StreamKeeps
<1>3. ASSUME NEW g \in Calls, End(g) PROVE RoutingInv'
  <2>1. /\ conn[g] = "open" /\ \A h \in Calls : h # g => stream'[h] = stream[h] /\ conn'[h] = conn[h]
        /\ stream'[g] = stream[g] /\ UNCHANGED <<hist, phase, selector>>
        BY <1>3 DEF End, clusterVars, TypeOK, StreamTypeOK
  <2>2. pc[g] \notin Before
        BY <2>1 DEF RoutingInv, WatchInv
  <2>3. InOrder(hist, stream'[g], ver[g]) /\ Labelled(stream'[g], selector[g])
        BY <2>1 DEF RoutingInv, StreamInv
  <2> QED BY <1>1, <2>1, <2>2, <2>3, StreamKeeps
<1> QED BY <1>2, <1>3, ConnectKeeps DEF WatchStep
-------------------------------------------------------------------------------
(* The goroutines. *)

\* A pod with the label that a component's watch selects hosts it.
LEMMA LabelMeansHost ==
    ASSUME NEW p \in Pods, NEW c \in DOMAIN Groups, PodLabel(p) = NameOf(c)
    PROVE  p \in HostsOf(c)
<1>1. PodOf[p] \in [app : STRING, group : STRING, dep : STRING]
      BY StreamAssumption
<1>2. PodOf[p].app = App /\ PodOf[p].group = Groups[c] /\ PodOf[p].dep = DepId
      BY DEF PodLabel, NameOf, deploymentName
<1>3. PodOf[p] = [app |-> App, group |-> Groups[c], dep |-> DepId]
      BY <1>1, <1>2
<1> QED BY <1>3 DEF HostsOf

\* A step that only takes one goroutine from one label to another.
LEMMA MoveKeeps ==
    ASSUME MutexInv, TypeOK, RoutingInv, NEW g \in Calls, NEW label \in PCs,
           pc' = [pc EXCEPT ![g] = label],
           UNCHANGED <<clusterVars, selector, stream, req, watching, addrs, ver, routing, seen>>,
           \A h \in Calls : h # g => conn'[h] = conn[h],
           label \in Before => pc[g] \in Before /\ conn'[g] = conn[g] /\ label # "create",
           label \in Watching => pc[g] \in Watching,
           label \in {"select", "update"} => pc[g] \in {"create", "select", "update"}
    PROVE  RoutingInv'
<1>1. UNCHANGED <<hist, phase>>
      BY DEF clusterVars
<1>2. HistoryInv' /\ MapInv' /\ StreamInv' /\ OwnVersionOnly'
      BY <1>1 DEF RoutingInv, HistoryInv, MapInv, StreamInv, OwnVersionOnly
<1>3. pc'[g] = label /\ \A h \in Calls : h # g => pc'[h] = pc[h]
      BY DEF TypeOK
<1>4. pc[g] = "create" => ver[g] = NoPos
      BY DEF RoutingInv, WatchInv, Before
<1>5. WatchInv'
      BY <1>3, <1>4 DEF RoutingInv, WatchInv, NoPos, Before
<1>6. SeenInv'
      BY <1>3 DEF RoutingInv, SeenInv
<1> QED BY <1>2, <1>5, <1>6 DEF RoutingInv

LEMMA ActivateKeeps ==
    ASSUME MutexInv, TypeOK, RoutingInv, NEW g \in Calls, NEW c \in Components,
           ActivateComponent(g, c)
    PROVE  RoutingInv'
<1>1. /\ UNCHANGED <<hist, phase, conn, selector, stream, watching, addrs, ver, routing, seen>>
      /\ pc[g] = "idle" /\ pc'[g] = "lock"
      /\ \A h \in Calls : h # g => pc'[h] = pc[h] /\ req'[h] = req[h]
      BY DEF ActivateComponent, Goto, clusterVars, watchVars, viewVars, TypeOK
<1>2. HistoryInv' /\ MapInv' /\ StreamInv' /\ OwnVersionOnly'
      BY <1>1 DEF RoutingInv, HistoryInv, MapInv, StreamInv, OwnVersionOnly
<1>3. WatchInv'
      BY <1>1 DEF RoutingInv, WatchInv, Before
<1>4. SeenInv'
      BY <1>1 DEF RoutingInv, SeenInv, Watching
<1> QED BY <1>2, <1>3, <1>4 DEF RoutingInv

LEMMA ClaimKeeps ==
    ASSUME MutexInv, TypeOK, RoutingInv, NEW g \in Calls, Claim(g)
    PROVE  RoutingInv'
<1>1. /\ UNCHANGED <<hist, phase, conn, selector, stream, req, addrs, ver, routing, seen>>
      /\ pc[g] = "claim" /\ pc'[g] = "lookup" /\ \A h \in Calls : h # g => pc'[h] = pc[h]
      /\ watching' = watching \cup {req[g]}
      BY DEF Claim, Goto, clusterVars, watchVars, viewVars, TypeOK
<1>2. HistoryInv' /\ MapInv' /\ StreamInv' /\ OwnVersionOnly'
      BY <1>1 DEF RoutingInv, HistoryInv, MapInv, StreamInv, OwnVersionOnly
<1>3. WatchInv'
      BY <1>1 DEF RoutingInv, WatchInv, Before
\* Nothing was shown of a component that nobody watched.
<1>4. seen[req[g]] = NoPos /\ ver[g] = NoPos
      BY <1>1 DEF MutexInv, MutexTypeOK, Ownership, RoutingInv, SeenInv, WatchInv, Before
<1>5. SeenInv'
      BY <1>1, <1>4 DEF RoutingInv, SeenInv, NoPos
<1> QED BY <1>2, <1>3, <1>5 DEF RoutingInv

LEMMA LookupKeeps ==
    ASSUME MutexInv, TypeOK, RoutingInv, NEW g \in Calls, LookupGroup(g),
           req[g] \in DOMAIN Groups
    PROVE  RoutingInv'
<1>1. /\ UNCHANGED <<hist, phase, conn, stream, req, watching, addrs, ver, routing, seen>>
      /\ pc[g] = "lookup" /\ pc'[g] = "create" /\ \A h \in Calls : h # g => pc'[h] = pc[h]
      /\ selector'[g] = NameOf(req[g]) /\ \A h \in Calls : h # g => selector'[h] = selector[h]
      BY DEF LookupGroup, Goto, clusterVars, viewVars, TypeOK, StreamTypeOK
<1>2. HistoryInv' /\ MapInv' /\ OwnVersionOnly'
      BY <1>1 DEF RoutingInv, HistoryInv, MapInv, OwnVersionOnly
<1>3. stream[g] = <<>>
      BY <1>1 DEF RoutingInv, WatchInv, Before
<1>4. StreamInv'
      BY <1>1, <1>3, NothingInOrder DEF RoutingInv, StreamInv
<1>5. WatchInv'
      BY <1>1 DEF RoutingInv, WatchInv, Before
<1>6. SeenInv'
      BY <1>1 DEF RoutingInv, SeenInv, Watching
<1> QED BY <1>2, <1>4, <1>5, <1>6 DEF RoutingInv

\* The map follows an event that is in order.
LEMMA ApplyKeeps ==
    ASSUME NEW h \in Histories, NEW e \in Event, Truthful(h, e),
           NEW known \in [Pods -> Addr], NEW old \in [Pods -> Nat], old[e.pod] <= e.pos,
           \A p \in Pods : known[p] = At(h, p, old[p])
    PROVE  Apply(known, e)[e.pod] = At(h, e.pod, e.pos)
<1>1. e.pod \in Pods /\ e.pos \in Nat /\ e.ip \in Addr
      BY EventFields
<1>2. CASE e.type = "Deleted"
      BY <1>1, <1>2 DEF Apply, Truthful
<1>3. CASE e.type # "Deleted" /\ e.ip # NoIP
      BY <1>1, <1>3 DEF Apply, Truthful
<1>4. CASE e.type # "Deleted" /\ e.ip = NoIP
  <2>1. e.pos = 0 /\ old[e.pod] = 0
        BY <1>1, <1>4 DEF Truthful
  <2>2. Apply(known, e) = known
        BY <1>4 DEF Apply
  <2> QED BY <1>1, <2>1, <2>2 DEF At
<1> QED BY <1>2, <1>3, <1>4

LEMMA ApplyElsewhere ==
    ASSUME NEW known \in [Pods -> Addr], NEW e \in Event, NEW p \in Pods, p # e.pod
    PROVE  Apply(known, e)[p] = known[p]
BY DEF Apply

LEMMA ReceiveKeeps ==
    ASSUME MutexInv, TypeOK, RoutingInv, NEW g \in Calls, Receive(g)
    PROVE  RoutingInv'
<1> DEFINE s == stream[g]
           e == Head(s)
<1>1. /\ UNCHANGED <<hist, phase, conn, selector, req, watching, routing, seen>>
      /\ pc[g] = "select" /\ pc'[g] \in {"select", "update"}
      /\ \A h \in Calls : h # g => /\ pc'[h] = pc[h] /\ stream'[h] = stream[h]
                                   /\ ver'[h] = ver[h] /\ addrs'[h] = addrs[h]
      /\ stream'[g] = Tail(s) /\ s # <<>>
      /\ ver'[g] = [ver[g] EXCEPT ![e.pod] = e.pos]
      /\ addrs'[g] = Apply(addrs[g], e)
      BY DEF Receive, Goto, clusterVars, viewVars, TypeOK, StreamTypeOK
<1>2. /\ s \in Seq(Event) /\ ver[g] \in [Pods -> Nat] /\ addrs[g] \in [Pods -> Addr]
      /\ hist \in Histories
      BY Types
<1>3. e \in Event /\ e.pod \in Pods /\ e.pos \in Nat
      BY <1>1, <1>2, HeadTailProperties, EventFields
<1>4. InOrder(hist, s, ver[g]) /\ Labelled(s, selector[g])
      BY DEF RoutingInv, StreamInv
<1>5. Truthful(hist, e) /\ ver[g][e.pod] <= e.pos
  <2>1. 1 \in 1 .. Len(s) /\ e = s[1]
        BY <1>1, <1>2
  <2> QED BY <1>4, <2>1 DEF InOrder
<1>6. /\ InOrder(hist, Tail(s), [ver[g] EXCEPT ![e.pod] = e.pos])
      /\ Labelled(Tail(s), selector[g]) /\ PodLabel(e.pod) = selector[g]
      BY <1>1, <1>2, <1>4, TailInOrder, TailLabelled
<1> HIDE DEF s, e
<1>7. HistoryInv' /\ OwnVersionOnly'
      BY <1>1 DEF RoutingInv, HistoryInv, OwnVersionOnly
<1>8. MapInv'
  <2>1. /\ \A p \in Pods : ver[g][p] <= Len(hist[p]) /\ addrs[g][p] = At(hist, p, ver[g][p])
        BY DEF RoutingInv, MapInv
  <2>2. Apply(addrs[g], e)[e.pod] = At(hist, e.pod, e.pos)
        BY <1>2, <1>3, <1>5, <2>1, ApplyKeeps
  <2>3. ver'[g][e.pod] = e.pos /\ \A p \in Pods : p # e.pod => ver'[g][p] = ver[g][p]
        BY <1>1, <1>2, <1>3
  <2>4. ASSUME NEW p \in Pods
        PROVE  ver'[g][p] <= Len(hist[p]) /\ addrs'[g][p] = At(hist, p, ver'[g][p])
    <3>1. CASE p = e.pod
      <4>1. ver'[g][p] = e.pos /\ e.pos <= Len(hist[p])
            BY <1>5, <2>3, <3>1 DEF Truthful
      <4>2. addrs'[g][p] = At(hist, p, e.pos)
            BY <1>1, <2>2, <3>1
      <4> QED BY <4>1, <4>2
    <3>2. CASE p # e.pod
      <4>1. addrs'[g][p] = addrs[g][p]
            BY <1>1, <1>2, <1>3, <3>2, ApplyElsewhere
      <4> QED BY <2>1, <2>3, <3>2, <4>1
    <3> QED BY <3>1, <3>2
  <2>5. ASSUME NEW h \in Calls, h # g, NEW p \in Pods
        PROVE  ver'[h][p] <= Len(hist[p]) /\ addrs'[h][p] = At(hist, p, ver'[h][p])
    <3>1. ver'[h] = ver[h] /\ addrs'[h] = addrs[h]
          BY <1>1, <2>5
    <3> QED BY <3>1 DEF RoutingInv, MapInv
  <2>6. hist' = hist
        BY <1>1
  <2> QED BY <2>4, <2>5, <2>6 DEF MapInv
<1>9. StreamInv'
      BY <1>1, <1>6 DEF RoutingInv, StreamInv
<1>10. WatchInv'
  <2>1. req[g] \in DOMAIN Groups /\ selector[g] = NameOf(req[g])
        BY <1>1 DEF RoutingInv, WatchInv
  <2>2. e.pod \in HostsOf(req[g])
        BY <1>3, <1>6, <2>1, LabelMeansHost
  <2>3. \A p \in Pods : ver'[g][p] # 0 => p \in HostsOf(req[g])
        BY <1>1, <1>2, <2>2 DEF RoutingInv, WatchInv
  <2> QED BY <1>1, <2>1, <2>3 DEF RoutingInv, WatchInv, Before
<1>11. SeenInv'
  <2>1. pc[g] \in Watching /\ req[g] \in Components
        BY <1>1 DEF Watching, MutexInv, MutexTypeOK
  <2>2. seen[req[g]] \in [Pods -> Nat] /\ \A p \in Pods : seen[req[g]][p] <= ver[g][p]
        BY <2>1, Types DEF RoutingInv, SeenInv
  <2>3. \A p \in Pods : seen[req[g]][p] <= ver'[g][p]
        BY <1>1, <1>2, <1>3, <1>5, <2>2
  <2> QED BY <1>1, <2>3 DEF RoutingInv, SeenInv
<1> QED BY <1>7, <1>8, <1>9, <1>10, <1>11 DEF RoutingInv

LEMMA UpdateKeeps ==
    ASSUME MutexInv, TypeOK, RoutingInv, NEW g \in Calls, UpdateRoutingInfo(g)
    PROVE  RoutingInv'
<1> DEFINE c == req[g]
<1>1. /\ UNCHANGED <<hist, phase, conn, selector, stream, req, watching, addrs, ver>>
      /\ pc[g] = "update" /\ pc'[g] = "select" /\ \A h \in Calls : h # g => pc'[h] = pc[h]
      /\ \/ UNCHANGED <<routing, seen>>
         \/ /\ routing' = [routing EXCEPT ![c] = Replicas(addrs[g])]
            /\ seen' = [seen EXCEPT ![c] = ver[g]]
      BY DEF UpdateRoutingInfo, Goto, clusterVars, watchVars, TypeOK
<1>2. c \in Components /\ c \in watching
      BY <1>1 DEF MutexInv, MutexTypeOK, Ownership, Watching
<1>3. HistoryInv' /\ MapInv' /\ StreamInv'
      BY <1>1 DEF RoutingInv, HistoryInv, MapInv, StreamInv
<1>4. WatchInv'
      BY <1>1 DEF RoutingInv, WatchInv, Before
<1>5. CASE UNCHANGED <<routing, seen>>
  <2>1. SeenInv' /\ OwnVersionOnly'
        BY <1>1, <1>5 DEF RoutingInv, SeenInv, OwnVersionOnly, Watching
  <2> QED BY <1>3, <1>4, <2>1 DEF RoutingInv
<1>6. CASE /\ routing' = [routing EXCEPT ![c] = Replicas(addrs[g])]
           /\ seen' = [seen EXCEPT ![c] = ver[g]]
  <2>1. /\ seen'[c] = ver[g] /\ routing'[c] = Replicas(addrs[g])
        /\ \A d \in Components : d # c => seen'[d] = seen[d] /\ routing'[d] = routing[d]
        BY <1>2, <1>6 DEF TypeOK
  \* No other goroutine is measured against this component's routing info.
  <2>2. \A h \in Calls : h # g /\ pc[h] \in Watching => req[h] \in Components /\ req[h] # c
        BY <1>1 DEF MutexInv, MutexTypeOK, SingleWatcher, Watching
  <2>3. \A p \in Pods : ver[g][p] \in Nat
        BY Types
  <2>4. SeenInv'
        BY <1>1, <1>2, <2>1, <2>2, <2>3 DEF RoutingInv, SeenInv
  <2>5. ASSUME NEW a \in Replicas(addrs[g]) PROVE \E p \in HostsOf(c) : a \in Range(hist[p])
    <3>1. PICK p \in Pods : a = addrs[g][p] /\ a # NoIP
          BY Types DEF Replicas, Range
    <3>2. /\ ver[g][p] \in Nat /\ ver[g][p] <= Len(hist[p])
          /\ a = At(hist, p, ver[g][p])
          BY <3>1, <2>3 DEF RoutingInv, MapInv
    <3>3. ver[g][p] # 0 /\ a = hist[p][ver[g][p]]
          BY <3>1, <3>2 DEF At
    <3>4. p \in HostsOf(c)
          BY <1>1, <3>3 DEF RoutingInv, WatchInv
    <3>5. hist[p] \in Seq(Addr)
          BY Types, HistoryType
    <3>6. ver[g][p] \in DOMAIN hist[p]
          BY <3>2, <3>3, <3>5
    <3> QED BY <3>3, <3>4, <3>6 DEF Range
  <2>6. OwnVersionOnly'
    <3> SUFFICES ASSUME NEW d \in Components, NEW a \in routing'[d]
                 PROVE  \E p \in HostsOf(d) : a \in Range(hist[p])
        BY <1>1 DEF OwnVersionOnly
    <3>1. CASE d = c
          BY <2>1, <2>5, <3>1
    <3>2. CASE d # c
          BY <2>1, <3>2 DEF RoutingInv, OwnVersionOnly
    <3> QED BY <3>1, <3>2
  <2> QED BY <1>3, <1>4, <2>4, <2>6 DEF RoutingInv
<1> QED BY <1>1, <1>5, <1>6

LEMMA StopKeeps ==
    ASSUME MutexInv, TypeOK, RoutingInv, NEW g \in Calls, StopOnCancel(g)
    PROVE  RoutingInv'
<1>1. /\ UNCHANGED <<hist, phase, selector, req, watching, addrs, ver, routing, seen>>
      /\ pc[g] = "select" /\ pc'[g] = "done" /\ stream'[g] = <<>>
      /\ \A h \in Calls : h # g => pc'[h] = pc[h] /\ conn'[h] = conn[h] /\ stream'[h] = stream[h]
      BY DEF StopOnCancel, Goto, clusterVars, viewVars, TypeOK, StreamTypeOK
<1>2. HistoryInv' /\ MapInv' /\ OwnVersionOnly'
      BY <1>1 DEF RoutingInv, HistoryInv, MapInv, OwnVersionOnly
<1>3. StreamInv'
      BY <1>1, NothingInOrder DEF RoutingInv, StreamInv
<1>4. WatchInv'
      BY <1>1 DEF RoutingInv, WatchInv, Before
<1>5. SeenInv'
      BY <1>1 DEF RoutingInv, SeenInv, Watching
<1> QED BY <1>2, <1>3, <1>4, <1>5 DEF RoutingInv

LEMMA GoKeeps ==
    ASSUME MutexInv, TypeOK, RoutingInv, NEW g \in Calls, GoStep(g)
    PROVE  RoutingInv'
<1> USE DEF Goto
<1>1. CASE Lock(g)
      BY <1>1, MoveKeeps DEF Lock, watchVars, viewVars, Before, Watching, PCs
<1>2. CASE Check(g)
      BY <1>2, MoveKeeps DEF Check, watchVars, viewVars, Before, Watching, PCs
<1>3. CASE Claim(g)
      BY <1>3, ClaimKeeps
<1>4. CASE LookupGroup(g) /\ req[g] \in DOMAIN Groups
      BY <1>4, LookupKeeps
<1>5. CASE LookupGroup(g) /\ req[g] \notin DOMAIN Groups
      BY <1>5, MoveKeeps DEF LookupGroup, viewVars, Before, Watching, PCs
<1>6. CASE CreateWatcher(g)
  <2>1. /\ UNCHANGED <<clusterVars, selector, stream, req, watching, addrs, ver, routing, seen>>
        /\ pc[g] = "create" /\ \A h \in Calls : h # g => conn'[h] = conn[h]
        /\ \/ pc' = [pc EXCEPT ![g] = "select"]
           \/ pc' = [pc EXCEPT ![g] = "panic"]
        BY <1>6 DEF CreateWatcher, viewVars, TypeOK, StreamTypeOK
  <2> QED BY <2>1, MoveKeeps DEF Before, Watching, PCs
<1>7. CASE Receive(g)
      BY <1>7, ReceiveKeeps
<1>8. CASE UpdateRoutingInfo(g)
      BY <1>8, UpdateKeeps
<1>9. CASE ChannelClosed(g)
      BY <1>9, MoveKeeps DEF ChannelClosed, watchVars, viewVars, Before, Watching, PCs
<1>10. CASE StopOnCancel(g)
      BY <1>10, StopKeeps
<1> QED BY <1>1, <1>2, <1>3, <1>4, <1>5, <1>6, <1>7, <1>8, <1>9, <1>10 DEF GoStep
-------------------------------------------------------------------------------
(* The invariant, and what follows from it. *)

LEMMA RoutingInit == Init => RoutingInv
<1> SUFFICES ASSUME Init PROVE RoutingInv
    OBVIOUS
<1>0. \A p \in Pods : hist[p] = <<>> /\ Len(hist[p]) = 0
      BY EmptySeq DEF Init, StreamInit
<1>1. HistoryInv
  <2> SUFFICES ASSUME NEW p \in Pods, NEW n \in 1 .. Len(hist[p]) PROVE FALSE
      BY DEF HistoryInv
  <2> QED BY <1>0
<1>2. MapInv
  <2>1. \A g \in Calls, p \in Pods : ver[g][p] = 0 /\ addrs[g][p] = NoIP
        BY DEF Init, NoPos, NoAddrs
  <2> QED BY <1>0, <2>1 DEF MapInv, At
<1>3. StreamInv
      BY NothingInOrder DEF Init, StreamInit, StreamInv
<1>4. WatchInv /\ SeenInv
      BY DEF Init, StreamInit, WatchInv, SeenInv, Before, Watching
<1>5. OwnVersionOnly
      BY DEF Init, OwnVersionOnly
<1> QED BY <1>1, <1>2, <1>3, <1>4, <1>5 DEF RoutingInv

LEMMA RestartKeeps ==
    ASSUME TypeOK, RoutingInv, Restart
    PROVE  RoutingInv'
<1>1. UNCHANGED <<hist, phase>>
      BY DEF Restart, clusterVars
<1>2. HistoryInv'
      BY <1>1 DEF RoutingInv, HistoryInv
<1>3. MapInv'
  <2>1. \A p \in Pods : 0 <= Len(hist[p])
        BY Types, HistoryType
  <2> QED BY <1>1, <2>1 DEF Restart, MapInv, NoPos, NoAddrs, At
<1>4. StreamInv'
      BY NothingInOrder DEF Restart, StreamInv
<1>5. WatchInv' /\ SeenInv'
      BY DEF Restart, WatchInv, SeenInv, Before, Watching
<1>6. OwnVersionOnly'
      BY DEF Restart, OwnVersionOnly
<1> QED BY <1>2, <1>3, <1>4, <1>5, <1>6 DEF RoutingInv

LEMMA RoutingStep == MutexInv /\ TypeOK /\ RoutingInv /\ [Next]_vars => RoutingInv'
<1> SUFFICES ASSUME MutexInv, TypeOK, RoutingInv, [Next]_vars PROVE RoutingInv'
    OBVIOUS
<1>1. CASE ClusterStep /\ UNCHANGED <<goVars, viewVars, envVars>>
      BY <1>1, ClusterKeeps
<1>2. CASE WatchStep /\ UNCHANGED <<goVars, viewVars, envVars>>
      BY <1>2, WatchKeeps
<1>3. ASSUME NEW g \in Calls, GoStep(g) PROVE RoutingInv'
      BY <1>3, GoKeeps
<1>4. ASSUME NEW g \in Calls, NEW c \in Components, ActivateComponent(g, c) PROVE RoutingInv'
      BY <1>4, ActivateKeeps
<1>5. CASE Restart
      BY <1>5, RestartKeeps
<1>6. CASE Cancel \/ UNCHANGED vars
  <2>1. UNCHANGED <<clusterVars, watchVars, goVars, viewVars>>
        BY <1>6 DEF Cancel, vars
  <2> QED BY <2>1 DEF clusterVars, watchVars, goVars, viewVars, RoutingInv, HistoryInv, MapInv,
                      StreamInv, WatchInv, SeenInv, OwnVersionOnly
<1> QED BY <1>1, <1>2, <1>3, <1>4, <1>5, <1>6 DEF Next

\* All of it together, which is inductive.
IInv == MutexInv /\ TypeOK /\ RoutingInv

LEMMA AllInvariant == Spec => []IInv
<1>1. Init => IInv
      BY MutexInit, TypeInit, RoutingInit DEF IInv
<1>2. IInv /\ [Next]_vars => IInv'
      BY MutexStep, TypeStep, RoutingStep DEF IInv
<1> QED BY <1>1, <1>2, PTL DEF Spec

\* A weavelet is only ever given addresses of pods of its own deployment,
\* whatever pods of other versions, apps and groups run in the cluster
\* (babysitter.go:177-182, kube.go:866).
THEOREM OnlyOwnVersion == Spec => []OwnVersionOnly
<1>1. IInv => OwnVersionOnly
      BY DEF IInv, RoutingInv
<1> QED BY <1>1, AllInvariant, PTL

\* What UpdateRoutingInfo tells the weavelet is a view of the pods' logs that
\* is not behind the last one.
LEMMA UpdateLearns ==
    ASSUME IInv, NEW g \in Calls, UpdateRoutingInfo(g)
    PROVE  View!Learn(req[g]) \/ UNCHANGED View!vars
<1> DEFINE c == req[g]
<1>1. /\ pc[g] = "update" /\ UNCHANGED hist
      /\ \/ UNCHANGED <<routing, seen>>
         \/ /\ routing' = [routing EXCEPT ![c] = Replicas(addrs[g])]
            /\ seen' = [seen EXCEPT ![c] = ver[g]]
      BY DEF UpdateRoutingInfo, clusterVars
<1>2. CASE UNCHANGED <<routing, seen>>
      BY <1>1, <1>2 DEF View!vars
<1>3. CASE /\ routing' = [routing EXCEPT ![c] = Replicas(addrs[g])]
           /\ seen' = [seen EXCEPT ![c] = ver[g]]
  <2>1. c \in Components /\ pc[g] \in Watching
        BY <1>1 DEF IInv, MutexInv, MutexTypeOK, Watching
  <2>2. seen'[c] = ver[g] /\ seen' = [seen EXCEPT ![c] = seen'[c]]
        BY <1>3, <2>1 DEF IInv, TypeOK
  <2>3. \A p \in Pods : seen'[c][p] \in seen[c][p] .. Len(hist[p])
    <3> SUFFICES ASSUME NEW p \in Pods PROVE seen'[c][p] \in seen[c][p] .. Len(hist[p])
        OBVIOUS
    <3>1. ver[g][p] \in Nat /\ seen[c][p] \in Nat /\ Len(hist[p]) \in Nat
          BY <2>1, Types, HistoryType DEF IInv
    <3>2. seen[c][p] <= ver[g][p] /\ ver[g][p] <= Len(hist[p])
          BY <2>1 DEF IInv, RoutingInv, SeenInv, MapInv
    <3> QED BY <2>2, <3>1, <3>2
  <2>4. \A p \in Pods \ HostsOf(c) : seen'[c][p] = 0
        BY <1>1, <2>2 DEF IInv, RoutingInv, WatchInv
  <2>5. Replicas(addrs[g]) = View!Shown(ver[g])
    <3>1. addrs[g] \in [Pods -> Addr] /\ \A p \in Pods : addrs[g][p] = At(hist, p, ver[g][p])
          BY Types DEF IInv, RoutingInv, MapInv
    <3>2. Range(addrs[g]) = {At(hist, p, ver[g][p]) : p \in Pods}
          BY <3>1 DEF Range
    <3> QED BY <3>2 DEF Replicas, View!Shown, At
  <2>6. routing' = [routing EXCEPT ![c] = View!Shown(seen'[c])]
        BY <1>3, <2>2, <2>5
  <2> QED BY <1>1, <2>1, <2>2, <2>3, <2>4, <2>6 DEF View!Learn
<1> QED BY <1>1, <1>2, <1>3

LEMMA ViewStep == IInv /\ [Next]_vars => [View!Next]_(View!vars)
<1> SUFFICES ASSUME IInv, [Next]_vars PROVE View!Next \/ UNCHANGED View!vars
    OBVIOUS
<1>1. CASE ClusterStep /\ UNCHANGED <<goVars, viewVars, envVars>>
  <2>1. Kept /\ UNCHANGED <<seen, routing>>
        BY <1>1, ChangeKeeps DEF IInv, RoutingInv, viewVars
  <2>2. CASE hist' = hist
        BY <2>1, <2>2 DEF View!vars
  <2>3. ASSUME NEW p \in Pods, hist' = [hist EXCEPT ![p] = hist'[p]],
               Len(hist'[p]) = Len(hist[p]) + 1
        PROVE  View!Move(p)
        BY <2>1, <2>3 DEF Kept, Grows, View!Move
  <2> QED BY <2>1, <2>2, <2>3 DEF Kept, View!Next
<1>2. CASE WatchStep /\ UNCHANGED <<goVars, viewVars, envVars>>
      BY <1>2 DEF WatchStep, Connect, Break, End, clusterVars, viewVars, View!vars
<1>3. ASSUME NEW g \in Calls, GoStep(g) PROVE View!Next \/ UNCHANGED View!vars
  <2>1. CASE UpdateRoutingInfo(g)
    <3>1. req[g] \in Components
          BY <2>1 DEF UpdateRoutingInfo, IInv, MutexInv, MutexTypeOK
    <3> QED BY <2>1, <3>1, UpdateLearns DEF View!Next
  <2>2. CASE ~UpdateRoutingInfo(g)
        BY <1>3, <2>2 DEF GoStep, Lock, Check, Claim, LookupGroup, CreateWatcher, Receive,
                          ChannelClosed, StopOnCancel, clusterVars, viewVars, View!vars
  <2> QED BY <2>1, <2>2
<1>4. ASSUME NEW g \in Calls, NEW c \in Components, ActivateComponent(g, c)
      PROVE  UNCHANGED View!vars
      BY <1>4 DEF ActivateComponent, clusterVars, viewVars, View!vars
<1>5. CASE Restart
      BY <1>5 DEF Restart, clusterVars, NoPos, View!Forget, View!Next
<1>6. CASE Cancel \/ UNCHANGED vars
      BY <1>6 DEF Cancel, vars, clusterVars, viewVars, View!vars
<1> QED BY <1>1, <1>2, <1>3, <1>4, <1>5, <1>6 DEF Next

\* watchPods implements RoutingView: however watches break, events pile up,
\* calls fail and babysitters restart, the routing info of a component never
\* goes back to an older address of a pod (babysitter.go:164-258).
THEOREM RoutingMovesForward == Spec => RoutingOnlyMovesForward
<1>1. Init => View!Init
      BY DEF Init, StreamInit, NoPos, View!Init
<1>2. IInv /\ [Next]_vars => [View!Next]_(View!vars)
      BY ViewStep
<1> QED BY <1>1, <1>2, AllInvariant, PTL DEF Spec, RoutingOnlyMovesForward, View!Spec
-------------------------------------------------------------------------------
(***************************************************************************)
(* The map is in sync.  Of every pod that a watch selects, either the last *)
(* change of address is in the stream, or the map shows it already, or the *)
(* pod is gone and the watch missed the deletion because its connection    *)
(* broke.  A new connection restores this, as it lists every pod that      *)
(* exists; each change of the cluster adds its event; and receiving an     *)
(* event takes it from the stream to the map.                              *)
(***************************************************************************)

\* A pod has no address before it exists, and none when it is gone.
PhaseInv ==
    \A p \in Pods : /\ phase[p] = "absent"  => Len(hist[p]) = 0
                    /\ phase[p] = "deleted" => At(hist, p, Len(hist[p])) = NoIP

\* A watch that is not connected has nothing in flight, and if it never was
\* connected, nothing received.
ConnectInv ==
    \A g \in Calls : conn[g] = "connecting" =>
       /\ stream[g] = <<>>
       /\ breaks[g] = 0 => ver[g] = NoPos

\* An event of p that shows position n is in flight; none of p's is.
Sent(s, p, n)  == \E i \in 1 .. Len(s) : s[i].pod = p /\ s[i].pos = n
Unheard(s, p)  == \A i \in 1 .. Len(s) : s[i].pod # p

\* The watch has been told, or will be, or could not be.
Told(s, p, n, known, gone, broken) ==
    \/ Sent(s, p, n)
    \/ known = n
    \/ gone /\ (broken \/ (known = 0 /\ Unheard(s, p)))

TellInv ==
    \A g \in Calls, p \in Pods :
       conn[g] = "open" /\ PodLabel(p) = selector[g] =>
          Told(stream[g], p, Len(hist[p]), ver[g][p], phase[p] = "deleted", breaks[g] > 0)

SyncInv == PhaseInv /\ ConnectInv /\ TellInv
-------------------------------------------------------------------------------
(* Facts about values. *)

LEMMA AppendSent ==
    ASSUME NEW s \in Seq(Event), NEW e \in Event
    PROVE  /\ Sent(Append(s, e), e.pod, e.pos)
           /\ \A p \in Pods, n \in Nat : Sent(s, p, n) => Sent(Append(s, e), p, n)
           /\ \A p \in Pods : p # e.pod /\ Unheard(s, p) => Unheard(Append(s, e), p)
<1> DEFINE t == Append(s, e)
<1>1. /\ Len(t) = Len(s) + 1 /\ Len(s) \in Nat /\ t[Len(t)] = e
      /\ \A i \in 1 .. Len(s) : t[i] = s[i]
      OBVIOUS
<1> HIDE DEF t
<1>2. \A i \in 1 .. Len(t) : i \in 1 .. Len(s) \/ i = Len(t)
      BY <1>1
<1>3. Len(t) \in 1 .. Len(t) /\ \A i \in 1 .. Len(s) : i \in 1 .. Len(t)
      BY <1>1
<1>4. Sent(t, e.pod, e.pos)
      BY <1>1, <1>3 DEF Sent
<1>5. \A p \in Pods, n \in Nat : Sent(s, p, n) => Sent(t, p, n)
      BY <1>1, <1>3 DEF Sent
<1>6. \A p \in Pods : p # e.pod /\ Unheard(s, p) => Unheard(t, p)
      BY <1>1, <1>2 DEF Unheard
<1> QED BY <1>4, <1>5, <1>6 DEF t

\* e is the first event of s, and t are the others.
First(s, e, t) == Len(s) = Len(t) + 1 /\ s[1] = e /\ \A i \in 1 .. Len(t) : t[i] = s[i + 1]

\* The map's positions, before and after e is received.
Positions == [Pods -> Nat]

Moved(known, e, new) == new[e.pod] = e.pos /\ \A q \in Pods : q # e.pod => new[q] = known[q]

LEMMA HeadTail ==
    ASSUME NEW s \in Seq(Event), s # <<>>
    PROVE  Head(s) \in Event /\ Tail(s) \in Seq(Event) /\ First(s, Head(s), Tail(s))
BY DEF First

\* Receiving the first event takes it from the stream to the map.
LEMMA TailTold ==
    ASSUME NEW h \in Histories, NEW s \in Seq(Event), NEW e \in Event, NEW t \in Seq(Event),
           First(s, e, t), NEW known \in Positions, InOrder(h, s, known), NEW p \in Pods,
           NEW new \in Positions, Moved(known, e, new), NEW n \in Nat, n = Len(h[p])
    PROVE  /\ Sent(s, p, n) \/ known[p] = n => Sent(t, p, n) \/ new[p] = n
           /\ known[p] = 0 /\ Unheard(s, p) => new[p] = 0 /\ Unheard(t, p)
<1>1. /\ Len(s) \in Nat /\ Len(t) = Len(s) - 1 /\ 1 \in 1 .. Len(s) /\ e = s[1]
      /\ \A i \in 1 .. Len(t) : t[i] = s[i + 1] /\ i + 1 \in 1 .. Len(s)
      BY DEF First
<1>2. \A i \in 1 .. Len(s) : i = 1 \/ (i - 1 \in 1 .. Len(t) /\ s[i] = t[i - 1])
      BY <1>1
<1>3. e \in Event /\ e.pod \in Pods /\ e.pos \in Nat /\ n \in Nat
      BY <1>1, StreamType, EventFields, HistoryType
<1>4. Truthful(h, e) /\ known[e.pod] <= e.pos
      BY <1>1 DEF InOrder
<1>5. new[e.pod] = e.pos /\ \A q \in Pods : q # e.pod => new[q] = known[q]
      BY DEF Moved
<1>6. ASSUME Sent(s, p, n)
      PROVE  Sent(t, p, n) \/ new[p] = n
  <2>1. PICK i \in 1 .. Len(s) : s[i].pod = p /\ s[i].pos = n
        BY <1>6 DEF Sent
  <2>2. CASE i = 1
        BY <1>1, <1>5, <2>1, <2>2
  <2>3. CASE i # 1
        BY <1>2, <2>1, <2>3 DEF Sent
  <2> QED BY <2>2, <2>3
<1>7. ASSUME known[p] = n
      PROVE  new[p] = n
  <2>1. CASE p = e.pod
    <3>1. e.pos <= n /\ n <= e.pos
          BY <1>4, <1>7, <2>1 DEF Truthful
    <3> QED BY <1>3, <1>5, <2>1, <3>1
  <2>2. CASE p # e.pod
        BY <1>5, <1>7, <2>2
  <2> QED BY <2>1, <2>2
<1>8. ASSUME known[p] = 0, Unheard(s, p)
      PROVE  new[p] = 0 /\ Unheard(t, p)
  <2>1. p # e.pod
        BY <1>1, <1>8 DEF Unheard
  <2>2. Unheard(t, p)
        BY <1>1, <1>8 DEF Unheard
  <2> QED BY <1>5, <1>8, <2>1, <2>2
<1> QED BY <1>6, <1>7, <1>8

\* A new connection lists every pod that its watch selects.
LEMMA ListsAll ==
    ASSUME NEW name, NEW order \in SetToSeqs(Listed(name)), NEW p \in Listed(name)
    PROVE  \E i \in 1 .. Len(order) : order[i] = p
<1> DEFINE S == Listed(name)
           n == Cardinality(S)
<1>1. S \subseteq Pods /\ IsFiniteSet(S)
      BY StreamAssumption, FS_Subset DEF Listed
<1>2. n \in Nat
      BY <1>1, FS_CardinalityType
<1>3. order \in [1 .. n -> S] /\ \A i, j \in 1 .. n : i # j => order[i] # order[j]
      BY DEF SetToSeqs
<1>4. order \in Injection(1 .. n, S)
      BY <1>3 DEF Injection, IsInjective
<1>5. Cardinality(1 .. n) = n
  <2> HIDE DEF n
  <2> QED BY <1>2, FS_Interval
<1>6. order \in Surjection(1 .. n, S)
  <2> HIDE DEF S
  <2> QED BY <1>1, <1>4, <1>5, FS_Injection
<1>7. Len(order) = n
      BY <1>2, <1>3
<1> QED BY <1>6, <1>7 DEF Surjection
-------------------------------------------------------------------------------
(* The cluster. *)

\* Every watch that selects the pod is sent its latest position; nothing is
\* new of the others.
LEMMA EmitTells ==
    ASSUME TypeOK, SyncInv, NEW e \in Event, Emit(e), e.pos = Len(hist'[e.pod]),
           \A q \in Pods : q # e.pod => hist'[q] = hist[q] /\ phase'[q] = phase[q],
           UNCHANGED <<conn, selector, breaks, ver>>
    PROVE  ConnectInv' /\ TellInv'
<1>1. ConnectInv'
  <2>1. \A g \in Calls : conn[g] = "connecting" => stream'[g] = stream[g]
        BY DEF Emit
  <2> QED BY <2>1 DEF SyncInv, ConnectInv
<1>2. ASSUME NEW g \in Calls, NEW p \in Pods, conn[g] = "open", PodLabel(p) = selector[g]
      PROVE  Told(stream'[g], p, Len(hist'[p]), ver[g][p], phase'[p] = "deleted", breaks[g] > 0)
  <2>1. stream[g] \in Seq(Event) /\ ver[g][p] \in Nat /\ e.pod \in Pods
        BY Types, EventFields
  <2>2. Len(hist[p]) \in Nat
        BY Types, HistoryType
  <2>3. CASE p = e.pod
    <3>1. stream'[g] = Append(stream[g], e)
          BY <1>2, <2>3 DEF Emit
    <3>2. Sent(stream'[g], p, Len(hist'[p]))
          BY <2>1, <2>3, <3>1, AppendSent
    <3> QED BY <3>2 DEF Told
  <2>4. CASE p # e.pod
    <3>1. Told(stream[g], p, Len(hist[p]), ver[g][p], phase[p] = "deleted", breaks[g] > 0)
          BY <1>2 DEF SyncInv, TellInv
    <3>2. hist'[p] = hist[p] /\ phase'[p] = phase[p]
          BY <2>4
    <3>3. stream'[g] = stream[g] \/ stream'[g] = Append(stream[g], e)
          BY DEF Emit
    <3>4. Told(Append(stream[g], e), p, Len(hist[p]), ver[g][p], phase[p] = "deleted", breaks[g] > 0)
      <4>1. /\ Sent(stream[g], p, Len(hist[p])) => Sent(Append(stream[g], e), p, Len(hist[p]))
            /\ Unheard(stream[g], p) => Unheard(Append(stream[g], e), p)
            BY <2>1, <2>2, <2>4, AppendSent
      <4> QED BY <3>1, <4>1 DEF Told
    <3> QED BY <3>1, <3>2, <3>3, <3>4
  <2> QED BY <2>3, <2>4
<1>3. TellInv'
      BY <1>2 DEF TellInv
<1> QED BY <1>1, <1>3

LEMMA ClusterTells ==
    ASSUME TypeOK, RoutingInv, SyncInv, ClusterStep, UNCHANGED goVars
    PROVE  SyncInv'
<1>1. UNCHANGED ver /\ hist \in Histories
      BY Types DEF goVars
<1>2. ASSUME NEW p \in Pods, PodCreate(p) PROVE SyncInv'
  <2> DEFINE e == EventOf("Added", p)
  <2>1. /\ UNCHANGED <<hist, conn, selector, breaks>> /\ phase' = [phase EXCEPT ![p] = "live"]
        /\ phase[p] = "absent" /\ Emit(e)
        BY <1>2 DEF PodCreate
  <2>2. e \in Event /\ e.pod = p /\ e.pos = Len(hist'[e.pod])
        BY <2>1, StatusIsTruthful DEF RoutingInv
  <2>3. phase'[p] = "live" /\ \A q \in Pods : q # p => phase'[q] = phase[q]
        BY <2>1 DEF TypeOK, StreamTypeOK
  <2>4. PhaseInv'
        BY <2>1, <2>3 DEF SyncInv, PhaseInv
  <2> HIDE DEF e
  <2>5. ConnectInv' /\ TellInv'
        BY <1>1, <2>1, <2>2, <2>3, EmitTells
  <2> QED BY <2>4, <2>5 DEF SyncInv
<1>3. ASSUME NEW p \in Pods, NEW ip \in IPs, PodAssign(p, ip) PROVE SyncInv'
  <2> DEFINE e == [type |-> "Modified", pod |-> p, ip |-> ip, pos |-> Len(hist[p]) + 1]
  <2>1. /\ UNCHANGED <<phase, conn, selector, breaks>> /\ hist' = [hist EXCEPT ![p] = Append(@, ip)]
        /\ phase[p] = "live" /\ Emit(e)
        BY <1>3 DEF PodAssign
  <2>2. ip \in Addr
        BY DEF Addr
  <2>3. hist'[p] = Append(hist[p], ip) /\ \A q \in Pods : q # p => hist'[q] = hist[q]
        BY <1>1, <2>1 DEF Histories
  <2>4. Len(hist[p]) \in Nat /\ Len(hist'[p]) = Len(hist[p]) + 1
    <3>1. hist[p] \in Seq(Addr)
          BY <1>1, HistoryType
    <3> QED BY <2>2, <2>3, <3>1
  <2>5. e \in Event /\ e.pod = p /\ e.pos = Len(hist'[e.pod])
        BY <2>2, <2>4 DEF Event, Addr
  <2>6. PhaseInv'
        BY <2>1, <2>3 DEF SyncInv, PhaseInv, At
  <2> HIDE DEF e
  <2>7. ConnectInv' /\ TellInv'
        BY <1>1, <2>1, <2>3, <2>5, EmitTells
  <2> QED BY <2>6, <2>7 DEF SyncInv
<1>4. ASSUME NEW p \in Pods, PodTouch(p) PROVE SyncInv'
  <2> DEFINE e == EventOf("Modified", p)
  <2>1. UNCHANGED <<hist, phase, conn, selector, breaks>> /\ phase[p] = "live" /\ Emit(e)
        BY <1>4 DEF PodTouch
  <2>2. e \in Event /\ e.pod = p /\ e.pos = Len(hist'[e.pod])
        BY <2>1, StatusIsTruthful DEF RoutingInv
  <2>3. PhaseInv'
        BY <2>1 DEF SyncInv, PhaseInv
  <2> HIDE DEF e
  <2>4. ConnectInv' /\ TellInv'
        BY <1>1, <2>1, <2>2, EmitTells
  <2> QED BY <2>3, <2>4 DEF SyncInv
<1>5. ASSUME NEW p \in Pods, PodDelete(p) PROVE SyncInv'
  <2> DEFINE e == [type |-> "Deleted", pod |-> p, ip |-> CurIP(p), pos |-> Len(hist'[p])]
  <2>1. /\ UNCHANGED <<conn, selector, breaks>> /\ phase' = [phase EXCEPT ![p] = "deleted"]
        /\ hist' = IF CurIP(p) = NoIP THEN hist ELSE [hist EXCEPT ![p] = Append(@, NoIP)]
        /\ Emit(e)
        BY <1>5 DEF PodDelete
  <2>2. CurIP(p) \in Addr /\ hist[p] \in Seq(Addr) /\ NoIP \in Addr /\ Len(hist[p]) \in Nat
        BY <1>1, CurIPType, HistoryType DEF TypeOK, Addr
  <2>3. /\ \A q \in Pods : q # p => hist'[q] = hist[q] /\ phase'[q] = phase[q]
        /\ Len(hist'[p]) \in Nat /\ At(hist', p, Len(hist'[p])) = NoIP
        /\ phase'[p] = "deleted"
    <3>1. /\ \A q \in Pods : q # p => hist'[q] = hist[q]
          /\ hist'[p] = IF CurIP(p) = NoIP THEN hist[p] ELSE Append(hist[p], NoIP)
          BY <1>1, <2>1 DEF Histories
    <3>2. \A q \in Pods : phase'[q] = IF q = p THEN "deleted" ELSE phase[q]
          BY <2>1 DEF TypeOK, StreamTypeOK
    <3>3. CASE CurIP(p) = NoIP
          BY <2>2, <3>1, <3>2, <3>3 DEF CurIP, AddrAt, At
    <3>4. CASE CurIP(p) # NoIP
      <4>1. hist'[p] = Append(hist[p], NoIP)
            BY <3>1, <3>4
      <4>2. Len(hist'[p]) = Len(hist[p]) + 1 /\ hist'[p][Len(hist[p]) + 1] = NoIP
            BY <2>2, <4>1
      <4> QED BY <2>2, <3>1, <3>2, <4>2 DEF At
    <3> QED BY <3>3, <3>4
  <2>4. e \in Event /\ e.pod = p /\ e.pos = Len(hist'[e.pod])
        BY <2>2, <2>3 DEF Event, Addr
  <2>5. PhaseInv'
    <3> SUFFICES ASSUME NEW q \in Pods
                 PROVE  /\ phase'[q] = "absent"  => Len(hist'[q]) = 0
                        /\ phase'[q] = "deleted" => At(hist', q, Len(hist'[q])) = NoIP
        BY DEF PhaseInv
    <3>1. CASE q = p
          BY <2>3, <3>1
    <3>2. CASE q # p
          BY <2>3, <3>2 DEF SyncInv, PhaseInv, At
    <3> QED BY <3>1, <3>2
  <2> HIDE DEF e
  <2>6. ConnectInv' /\ TellInv'
        BY <1>1, <2>1, <2>3, <2>4, EmitTells
  <2> QED BY <2>5, <2>6 DEF SyncInv
<1> QED BY <1>2, <1>3, <1>4, <1>5 DEF ClusterStep
-------------------------------------------------------------------------------
(* The watches. *)

\* What a step that changes one goroutine's watch, or none, has to say of it.
LEMMA WatchTells ==
    ASSUME SyncInv, NEW g \in Calls, UNCHANGED <<hist, phase>>,
           \A h \in Calls : h # g => /\ conn'[h] = conn[h] /\ stream'[h] = stream[h]
                                     /\ selector'[h] = selector[h] /\ ver'[h] = ver[h]
                                     /\ breaks'[h] = breaks[h],
           conn'[g] = "connecting" => stream'[g] = <<>> /\ (breaks'[g] = 0 => ver'[g] = NoPos),
           \A p \in Pods : conn'[g] = "open" /\ PodLabel(p) = selector'[g] =>
              Told(stream'[g], p, Len(hist[p]), ver'[g][p], phase[p] = "deleted", breaks'[g] > 0)
    PROVE  SyncInv'
<1>1. PhaseInv'
      BY DEF SyncInv, PhaseInv
<1>2. ConnectInv'
      BY DEF SyncInv, ConnectInv
<1>3. TellInv'
  <2> SUFFICES ASSUME NEW h \in Calls, NEW p \in Pods, conn'[h] = "open",
                      PodLabel(p) = selector'[h]
               PROVE  Told(stream'[h], p, Len(hist[p]), ver'[h][p], phase[p] = "deleted", breaks'[h] > 0)
      BY DEF TellInv
  <2>1. CASE h = g
        BY <2>1
  <2>2. CASE h # g
    <3>1. Told(stream[h], p, Len(hist[p]), ver[h][p], phase[p] = "deleted", breaks[h] > 0)
          BY <2>2 DEF SyncInv, TellInv
    <3> QED BY <2>2, <3>1
  <2> QED BY <2>1, <2>2
<1> QED BY <1>1, <1>2, <1>3 DEF SyncInv

LEMMA ConnectTells ==
    ASSUME TypeOK, RoutingInv, SyncInv, NEW g \in Calls, Connect(g), UNCHANGED goVars
    PROVE  SyncInv'
<1>1. PICK order \in SetToSeqs(Listed(selector[g])) :
         stream' = [stream EXCEPT ![g] = [i \in DOMAIN order |-> EventOf("Added", order[i])]]
      BY DEF Connect
<1> DEFINE s == [i \in DOMAIN order |-> EventOf("Added", order[i])]
<1>2. order \in Seq(Pods) /\ \A i \in DOMAIN order : order[i] \in Listed(selector[g])
      BY ListedSeq, ListedPods
<1>3. 1 .. Len(s) = DOMAIN order /\ DOMAIN order = 1 .. Len(order)
      BY <1>2
<1>4. \A i \in 1 .. Len(s) : s[i].pod = order[i] /\ s[i].pos = Len(hist[order[i]])
      BY <1>3 DEF EventOf
<1>5. /\ conn[g] = "connecting" /\ conn'[g] = "open" /\ stream'[g] = s
      /\ \A h \in Calls : h # g => conn'[h] = conn[h] /\ stream'[h] = stream[h]
      /\ UNCHANGED <<hist, phase, selector, breaks, ver>>
      BY <1>1 DEF Connect, clusterVars, goVars, TypeOK, StreamTypeOK
<1> HIDE DEF s
<1>6. ASSUME NEW p \in Pods, PodLabel(p) = selector[g]
      PROVE  Told(s, p, Len(hist[p]), ver[g][p], phase[p] = "deleted", breaks[g] > 0)
  <2>1. CASE phase[p] = "live"
    <3>1. p \in Listed(selector[g])
          BY <1>6, <2>1 DEF Listed
    <3>2. Sent(s, p, Len(hist[p]))
          BY <1>3, <1>4, <3>1, ListsAll DEF Sent
    <3> QED BY <3>2 DEF Told
  <2>2. CASE phase[p] = "absent"
    <3>1. Len(hist[p]) = 0 /\ ver[g][p] \in Nat /\ ver[g][p] <= Len(hist[p])
          BY <2>2, Types DEF SyncInv, PhaseInv, RoutingInv, MapInv
    <3> QED BY <3>1 DEF Told
  <2>3. CASE phase[p] = "deleted"
    <3>1. Unheard(s, p)
          BY <1>2, <1>3, <1>4, <2>3 DEF Unheard, Listed
    <3>2. breaks[g] = 0 => ver[g][p] = 0
          BY <1>5 DEF SyncInv, ConnectInv, NoPos
    <3>3. breaks[g] \in Nat
          BY DEF TypeOK, StreamTypeOK
    <3>4. breaks[g] = 0 \/ breaks[g] > 0
          BY <3>3
    <3> QED BY <2>3, <3>1, <3>2, <3>4 DEF Told
  <2> QED BY <2>1, <2>2, <2>3 DEF TypeOK, StreamTypeOK, Phases
<1> QED BY <1>5, <1>6, WatchTells

LEMMA WatchStepTells ==
    ASSUME TypeOK, RoutingInv, SyncInv, WatchStep, UNCHANGED goVars
    PROVE  SyncInv'
<1>1. UNCHANGED ver
      BY DEF goVars
<1>2. ASSUME NEW g \in Calls, Break(g) PROVE SyncInv'
  <2>1. /\ conn'[g] = "connecting" /\ stream'[g] = <<>> /\ breaks'[g] = breaks[g] + 1
        /\ breaks[g] \in Nat
        /\ \A h \in Calls : h # g => conn'[h] = conn[h] /\ stream'[h] = stream[h] /\ breaks'[h] = breaks[h]
        /\ UNCHANGED <<hist, phase, selector>>
        BY <1>2 DEF Break, clusterVars, TypeOK, StreamTypeOK
  <2>2. breaks'[g] # 0
        BY <2>1
  <2> QED BY <1>1, <2>1, <2>2, WatchTells
<1>3. ASSUME NEW g \in Calls, End(g) PROVE SyncInv'
  <2>1. /\ conn'[g] = "ended" /\ \A h \in Calls : h # g => conn'[h] = conn[h]
        /\ UNCHANGED <<hist, phase, selector, stream, breaks>>
        BY <1>3 DEF End, clusterVars, TypeOK, StreamTypeOK
  <2> QED BY <1>1, <2>1, WatchTells
<1> QED BY <1>2, <1>3, ConnectTells DEF WatchStep
-------------------------------------------------------------------------------
(* The goroutines. *)

LEMMA ReceiveTells ==
    ASSUME TypeOK, RoutingInv, SyncInv, NEW g \in Calls, Receive(g)
    PROVE  SyncInv'
<1> DEFINE s == stream[g]
<1>1. /\ UNCHANGED <<hist, phase, conn, selector, breaks>> /\ s # <<>>
      /\ \A h \in Calls : h # g => stream'[h] = stream[h] /\ ver'[h] = ver[h]
      /\ stream'[g] = Tail(s)
      /\ ver'[g] = [ver[g] EXCEPT ![Head(s).pod] = Head(s).pos]
      BY DEF Receive, clusterVars, TypeOK, StreamTypeOK
<1>2. s \in Seq(Event) /\ ver[g] \in [Pods -> Nat] /\ hist \in Histories
      BY Types
<1>3. InOrder(hist, s, ver[g]) /\ ver'[g] \in [Pods -> Nat]
  <2>1. Head(s) \in Event
        BY <1>1, <1>2
  <2> HIDE DEF s
  <2>2. ver'[g] \in [Pods -> Nat]
        BY <1>1, <1>2, <2>1, EventFields
  <2> QED BY <2>2 DEF RoutingInv, StreamInv, s
<1>4. conn[g] # "connecting"
      BY <1>1 DEF SyncInv, ConnectInv
<1>5. ASSUME NEW p \in Pods, conn[g] = "open", PodLabel(p) = selector[g]
      PROVE  Told(stream'[g], p, Len(hist[p]), ver'[g][p], phase[p] = "deleted", breaks[g] > 0)
  <2>1. Told(s, p, Len(hist[p]), ver[g][p], phase[p] = "deleted", breaks[g] > 0)
        BY <1>5 DEF SyncInv, TellInv
  <2> DEFINE e == Head(s)
             t == Tail(s)
             known == ver[g]
             new == ver'[g]
             n == Len(hist[p])
  <2>2. /\ s \in Seq(Event) /\ e \in Event /\ t \in Seq(Event) /\ First(s, e, t)
        /\ known \in Positions /\ new \in Positions
        /\ InOrder(hist, s, known) /\ Moved(known, e, new)
        BY <1>1, <1>2, <1>3, HeadTail, EventFields DEF Moved, Positions
  <2>3. stream'[g] = t /\ n = Len(hist[p]) /\ n \in Nat
        BY <1>1, <1>2, HistoryType
  <2> HIDE DEF s, e, t, known, new, n
  <2>4. /\ Sent(s, p, n) \/ known[p] = n => Sent(t, p, n) \/ new[p] = n
        /\ known[p] = 0 /\ Unheard(s, p) => new[p] = 0 /\ Unheard(t, p)
        BY <1>2, <2>2, <2>3, TailTold
  <2> QED BY <2>1, <2>3, <2>4 DEF Told, known, new
<1> QED BY <1>1, <1>4, <1>5, WatchTells

LEMMA GoTells ==
    ASSUME TypeOK, RoutingInv, SyncInv, NEW g \in Calls, GoStep(g)
    PROVE  SyncInv'
<1>1. CASE Receive(g)
      BY <1>1, ReceiveTells
<1>2. CASE CreateWatcher(g)
  <2>1. /\ pc[g] = "create" /\ conn'[g] \in {"connecting", conn[g]}
        /\ \A h \in Calls : h # g => conn'[h] = conn[h]
        /\ UNCHANGED <<hist, phase, selector, stream, breaks, ver>>
        BY <1>2 DEF CreateWatcher, clusterVars, TypeOK, StreamTypeOK
  <2>2. ver[g] = NoPos /\ stream[g] = <<>> /\ conn[g] = "off"
        BY <2>1 DEF RoutingInv, WatchInv, Before
  <2> QED BY <2>1, <2>2, WatchTells
<1>3. CASE LookupGroup(g)
  <2>1. /\ pc[g] = "lookup" /\ \A h \in Calls : h # g => selector'[h] = selector[h]
        /\ UNCHANGED <<hist, phase, conn, stream, breaks, ver>>
        BY <1>3 DEF LookupGroup, clusterVars, TypeOK, StreamTypeOK
  <2>2. conn[g] = "off"
        BY <2>1 DEF RoutingInv, WatchInv, Before
  <2> QED BY <2>1, <2>2, WatchTells
<1>4. CASE StopOnCancel(g)
  <2>1. /\ conn'[g] = "off" /\ \A h \in Calls : h # g => conn'[h] = conn[h] /\ stream'[h] = stream[h]
        /\ UNCHANGED <<hist, phase, selector, breaks, ver>>
        BY <1>4 DEF StopOnCancel, clusterVars, TypeOK, StreamTypeOK
  <2> QED BY <2>1, WatchTells
<1>5. CASE Lock(g) \/ Check(g) \/ Claim(g) \/ UpdateRoutingInfo(g) \/ ChannelClosed(g)
      BY <1>5 DEF Lock, Check, Claim, UpdateRoutingInfo, ChannelClosed, clusterVars, watchVars,
                  SyncInv, PhaseInv, ConnectInv, TellInv
<1> QED BY <1>1, <1>2, <1>3, <1>4, <1>5 DEF GoStep

LEMMA SyncInit == Init => SyncInv
<1>1. ASSUME Init PROVE PhaseInv
  <2>1. \A p \in Pods : phase[p] = "absent" /\ Len(hist[p]) = 0
        BY <1>1, EmptySeq DEF Init, StreamInit
  <2> QED BY <2>1 DEF PhaseInv
<1>2. Init => ConnectInv /\ TellInv
      BY DEF Init, StreamInit, ConnectInv, TellInv
<1> QED BY <1>1, <1>2 DEF SyncInv

LEMMA SyncStep == IInv /\ SyncInv /\ [Next]_vars => SyncInv'
<1> SUFFICES ASSUME IInv, SyncInv, [Next]_vars PROVE SyncInv'
    OBVIOUS
<1>0. TypeOK /\ RoutingInv
      BY DEF IInv
<1>1. CASE ClusterStep /\ UNCHANGED <<goVars, viewVars, envVars>>
      BY <1>0, <1>1, ClusterTells
<1>2. CASE WatchStep /\ UNCHANGED <<goVars, viewVars, envVars>>
      BY <1>0, <1>2, WatchStepTells
<1>3. ASSUME NEW g \in Calls, GoStep(g) PROVE SyncInv'
      BY <1>0, <1>3, GoTells
<1>4. CASE Restart
      BY <1>4 DEF Restart, clusterVars, SyncInv, PhaseInv, ConnectInv, TellInv
<1>5. ASSUME UNCHANGED <<clusterVars, watchVars, ver>> PROVE SyncInv'
      BY <1>5 DEF clusterVars, watchVars, SyncInv, PhaseInv, ConnectInv, TellInv
<1>6. ASSUME NEW g \in Calls, NEW c \in Components, ActivateComponent(g, c) PROVE SyncInv'
      BY <1>5, <1>6 DEF ActivateComponent
<1>7. CASE Cancel \/ UNCHANGED vars
      BY <1>5, <1>7 DEF Cancel, vars, goVars
<1> QED BY <1>1, <1>2, <1>3, <1>4, <1>6, <1>7 DEF Next
-------------------------------------------------------------------------------
(* What the goroutine will know. *)

\* Received to the end, a stream that has p's latest position shows it.
LEMMA LastIsLatest ==
    ASSUME NEW h \in Histories, NEW s \in Seq(Event), NEW known \in [Pods -> Nat],
           InOrder(h, s, known), NEW p \in Pods,
           NEW mine, mine = {i \in DOMAIN s : s[i].pod = p}, mine # {},
           Sent(s, p, Len(h[p])) \/ known[p] = Len(h[p])
    PROVE  /\ s[Max(mine)].type = "Deleted" => At(h, p, Len(h[p])) = NoIP
           /\ s[Max(mine)].type # "Deleted" => s[Max(mine)].ip = At(h, p, Len(h[p]))
<1> DEFINE n == Len(h[p])
           m == Max(mine)
<1>1. DOMAIN s = 1 .. Len(s) /\ Len(s) \in Nat /\ n \in Nat
      BY HistoryType
<1>2. mine \in SUBSET (1 .. Len(s))
      BY <1>1
<1>3. m \in mine /\ \A i \in mine : i <= m
      BY <1>1, <1>2, MaxOfSet
<1> HIDE DEF m, n
<1>4. m \in 1 .. Len(s) /\ s[m].pod = p /\ s[m] \in Event
      BY <1>1, <1>3, StreamType
<1>5. Truthful(h, s[m]) /\ known[p] <= s[m].pos /\ s[m].pos \in Nat /\ s[m].pos <= n
      BY <1>4, EventFields DEF InOrder, Truthful, n
<1>6. ASSUME Sent(s, p, n)
      PROVE  n <= s[m].pos
  <2>1. PICK i \in 1 .. Len(s) : s[i].pod = p /\ s[i].pos = n
        BY <1>6 DEF Sent
  <2>2. i \in mine
        BY <1>1, <2>1
  <2>3. m \in i .. Len(s)
        BY <1>1, <1>3, <1>4, <2>2
  <2> QED BY <1>4, <2>1, <2>3 DEF InOrder
<1>7. s[m].pos = n
      BY <1>1, <1>5, <1>6 DEF n
<1> QED BY <1>4, <1>5, <1>7 DEF Truthful, m, n

LEMMA SyncMeansInSync == IInv /\ SyncInv => InSync
<1> SUFFICES ASSUME IInv, SyncInv, NEW g \in Calls, NEW p \in Pods,
                    conn[g] = "open", PodLabel(p) = selector[g],
                    ~ (phase[p] = "deleted" /\ breaks[g] > 0)
             PROVE  Drained(g, p) = CurIP(p)
    BY DEF InSync
<1> DEFINE s    == stream[g]
           mine == {i \in DOMAIN s : s[i].pod = p}
<1>1. CurIP(p) = At(hist, p, Len(hist[p]))
      BY DEF CurIP, AddrAt, At
<1>2. s \in Seq(Event) /\ ver[g] \in [Pods -> Nat] /\ hist \in Histories
      BY Types DEF IInv
<1>3. InOrder(hist, s, ver[g]) /\ addrs[g][p] = At(hist, p, ver[g][p])
      BY DEF IInv, RoutingInv, StreamInv, MapInv
<1>4. Told(s, p, Len(hist[p]), ver[g][p], phase[p] = "deleted", breaks[g] > 0)
      BY DEF SyncInv, TellInv
<1>5. Drained(g, p) = IF mine = {} THEN addrs[g][p]
                      ELSE IF s[Max(mine)].type = "Deleted" THEN NoIP ELSE s[Max(mine)].ip
      BY DEF Drained
<1>6. DOMAIN s = 1 .. Len(s)
      BY <1>2
<1>7. mine = {} <=> Unheard(s, p)
      BY <1>6 DEF Unheard
<1>8. Sent(s, p, Len(hist[p])) => mine # {}
      BY <1>6 DEF Sent
<1>9. CASE Sent(s, p, Len(hist[p])) \/ ver[g][p] = Len(hist[p])
  <2>1. CASE mine = {}
        BY <1>1, <1>3, <1>5, <1>8, <1>9, <2>1
  <2>2. CASE mine # {}
    <3>1. /\ s[Max(mine)].type = "Deleted" => At(hist, p, Len(hist[p])) = NoIP
          /\ s[Max(mine)].type # "Deleted" => s[Max(mine)].ip = At(hist, p, Len(hist[p]))
      <4>1. mine = {i \in DOMAIN s : s[i].pod = p}
            OBVIOUS
      <4> HIDE DEF s, mine
      <4> QED BY <1>2, <1>3, <1>9, <2>2, <4>1, LastIsLatest
    <3> QED BY <1>1, <1>5, <2>2, <3>1
  <2> QED BY <2>1, <2>2
<1>10. CASE phase[p] = "deleted" /\ ver[g][p] = 0 /\ Unheard(s, p)
  <2>1. Drained(g, p) = NoIP
        BY <1>3, <1>5, <1>7, <1>10 DEF At
  <2> QED BY <1>1, <1>10, <2>1 DEF SyncInv, PhaseInv
<1> QED BY <1>4, <1>9, <1>10 DEF Told

\* While a watch's connection is open, its goroutine's map together with the
\* events on their way to it is exactly the cluster, but for the deletions it
\* missed while the connection was broken (babysitter.go:196-242).
THEOREM WatchesAreInSync == Spec => []InSync
<1>1. Init => SyncInv
      BY SyncInit
<1>2. IInv /\ SyncInv /\ [Next]_vars => SyncInv'
      BY SyncStep
<1>3. IInv /\ SyncInv => InSync
      BY SyncMeansInSync
<1> QED BY <1>1, <1>2, <1>3, AllInvariant, PTL DEF Spec
===============================================================================
