------------------------- MODULE KubeDeploymentProofs -------------------------
(***************************************************************************)
(* Proofs about KubeDeployment, for any binaries and config files, any     *)
(* number of runs, and any order in which Go visits the components.        *)
(*                                                                         *)
(* The ports that the deployer picks are distinct (IInv): the counter only *)
(* grows; the ports given so far are below it, and the listeners of the    *)
(* next component get ports from the counter on, one each.                 *)
(*                                                                         *)
(* The components are partitioned (GroupInv): a group has only components  *)
(* that belong to it, with their listeners, and a visited component is in  *)
(* one place of one group.                                                 *)
(*                                                                         *)
(* WholeInv adds what the groups of the map are (MapInv), that d.groups    *)
(* has them in the order of their names (SortedInv), and that the buffer   *)
(* and the file are a beginning of generateYAMLs(d) (BufferInv).  The      *)
(* properties of a written file follow from it and from what               *)
(* ResourcesProofs says of generateYAMLs.  OutlineInv says of the groups   *)
(* of a run, and of the last run before it, what is the same in any run.   *)
(***************************************************************************)
EXTENDS KubeDeployment, ResourcesProofs, FiniteSetTheorems

\* The listeners that newListeners may return.
Made == {newListener(depId, input.config, name, port) : name \in STRING, port \in Nat}

\* The groups have listeners of this run only, each with its automatic port.
PortInv ==
    /\ \A n \in DOMAIN groupsByName : groupsByName[n].listeners \in Seq(Made)
    /\ \A l \in AllListeners : AutoPort(l.name) => l.port \in 0 .. externalPort - 1

KInv ==
    /\ input \in Inputs
    /\ externalPort \in Nat
    /\ todo \subseteq DOMAIN components
    /\ \A n \in DOMAIN groupsByName : "listeners" \in DOMAIN groupsByName[n]
    /\ PortInv

IInv == KInv /\ AutoPortsDistinct
-------------------------------------------------------------------------------
LEMMA ElementIn ==
    ASSUME NEW S, NEW s \in Seq(S), NEW i \in DOMAIN s
    PROVE  s[i] \in S
OBVIOUS

LEMMA TableEntry ==
    ASSUME NEW Names, NEW x \in [Component : STRING, Listeners : Names]
    PROVE  x.Listeners \in Names
OBVIOUS

\* The listeners of a component are a sequence of names.
LEMMA ListenersAreNames ==
    ASSUME input \in Inputs, NEW c \in DOMAIN components
    PROVE  components[c] \in Seq(STRING)
<1> DEFINE ls == input.binary.listeners
           entries == {i \in DOMAIN ls : ls[i].Component = c}
<1>1. ls \in Seq([Component : STRING, Listeners : Seq(STRING)])
      BY BinaryAssumption
<1>2. components[c] = IF entries = {} THEN <<>> ELSE ls[Max(entries)].Listeners
      BY DEF components, readComponentsAndListeners
<1>3. ASSUME entries # {}
      PROVE  ls[Max(entries)].Listeners \in Seq(STRING)
  <2>1. entries \in SUBSET (1 .. Len(ls)) /\ Len(ls) \in Nat
        BY <1>1
  <2>2. Max(entries) \in entries
        BY <1>3, <2>1, MaxOfSet
  <2>3. Max(entries) \in DOMAIN ls
        BY <2>2
  <2>4. ASSUME NEW i \in DOMAIN ls
        PROVE  ls[i].Listeners \in Seq(STRING)
    <3>1. ls[i] \in [Component : STRING, Listeners : Seq(STRING)]
      <4> HIDE DEF ls
      <4> QED BY <1>1, ElementIn
    <3> QED BY <3>1, TableEntry
  <2> HIDE DEF ls, entries
  <2> QED BY <2>3, <2>4
<1> HIDE DEF ls, entries
<1>4. <<>> \in Seq(STRING)
      OBVIOUS
<1> QED BY <1>2, <1>3, <1>4
-------------------------------------------------------------------------------
\* A listener keeps its name, and gets the port it is offered unless the config
\* file gives it one.
LEMMA NewListenerPort ==
    ASSUME NEW name \in STRING, NEW port \in Nat
    PROVE  LET l == newListener(depId, input.config, name, port)
           IN  l.name = name /\ (AutoPort(name) => l.port = port)
BY DEF newListener, AutoPort

\* The listeners of a component get ports from the counter on, one each.
LEMMA NewListenersPorts ==
    ASSUME NEW names \in Seq(STRING), NEW port \in Nat
    PROVE  /\ newListeners(names, port) \in Seq(Made)
           /\ Len(newListeners(names, port)) = Len(names)
           /\ \A i \in 1 .. Len(names) :
                 LET l == newListeners(names, port)[i]
                 IN  AutoPort(l.name) => l.port = port + i - 1
<1>1. Len(names) \in Nat /\ DOMAIN names = 1 .. Len(names)
      OBVIOUS
<1>2. newListeners(names, port) =
         [i \in 1 .. Len(names) |-> newListener(depId, input.config, names[i], port + i - 1)]
      BY <1>1 DEF newListeners
<1> DEFINE l(i) == newListener(depId, input.config, names[i], port + i - 1)
<1>3. ASSUME NEW i \in 1 .. Len(names)
      PROVE  l(i) \in Made /\ (AutoPort(l(i).name) => l(i).port = port + i - 1)
  <2>1. names[i] \in STRING /\ port + i - 1 \in Nat
        BY <1>1
  <2>2. l(i) \in Made
        BY <2>1 DEF Made
  <2>3. l(i).name = names[i] /\ (AutoPort(names[i]) => l(i).port = port + i - 1)
        BY <2>1, NewListenerPort
  <2> HIDE DEF l
  <2> QED BY <2>2, <2>3
<1>4. newListeners(names, port) = [i \in 1 .. Len(names) |-> l(i)]
      BY <1>2
<1> HIDE DEF l
<1> QED BY <1>1, <1>3, <1>4

\* What is in a sequence that another one is appended to.
LEMMA RangeOfConcat ==
    ASSUME NEW S, NEW s \in Seq(S), NEW t \in Seq(S)
    PROVE  s \o t \in Seq(S) /\ Range(s \o t) = Range(s) \cup Range(t)
<1>1. s \o t \in Seq(S) /\ Len(s \o t) = Len(s) + Len(t)
      OBVIOUS
<1>2. Range(s \o t) \subseteq Range(s) \cup Range(t)
      BY <1>1 DEF Range
<1>3. \A i \in DOMAIN s : i \in DOMAIN (s \o t) /\ (s \o t)[i] = s[i]
      BY <1>1
<1>4. \A i \in DOMAIN t : Len(s) + i \in DOMAIN (s \o t) /\ (s \o t)[Len(s) + i] = t[i]
      BY <1>1
<1>5. Range(s) \subseteq Range(s \o t)
      BY <1>3 DEF Range
<1>6. Range(t) \subseteq Range(s \o t)
  <2>1. ASSUME NEW i \in DOMAIN t
        PROVE  t[i] \in Range(s \o t)
    <3>1. Len(s) + i \in DOMAIN (s \o t) /\ (s \o t)[Len(s) + i] = t[i]
          BY <1>4
    <3> QED BY <3>1 DEF Range
  <2> QED BY <2>1 DEF Range
<1> QED BY <1>1, <1>2, <1>5, <1>6

LEMMA AddKeeps ==
    ASSUME IInv, NEW c \in todo, AddComponent(c)
    PROVE  IInv'
<1> DEFINE cgroup == configGroup(input.config, c)
           names  == components[c]
           old    == groupOf(cgroup)
           new    == newListeners(names, externalPort)
           g      == [old EXCEPT !.Components = Append(@, c), !.listeners = @ \o new]
<1>1. KInv /\ PortInv /\ AutoPortsDistinct
      BY DEF IInv, KInv
<1>2. names \in Seq(STRING) /\ Len(names) \in Nat
      BY <1>1, ListenersAreNames DEF KInv
<1>3. /\ groupsByName' = WithGroup(cgroup.Name, g)
      /\ externalPort' = externalPort + Len(names)
      /\ UNCHANGED <<input, run>>
      /\ todo' \subseteq todo
      BY DEF AddComponent
<1>4. /\ new \in Seq(Made)
      /\ Len(new) = Len(names)
      /\ \A i \in 1 .. Len(names) : AutoPort(new[i].name) => new[i].port = externalPort + i - 1
      BY <1>1, <1>2, NewListenersPorts DEF KInv
<1>5. /\ "listeners" \in DOMAIN old
      /\ old.listeners \in Seq(Made)
      /\ Range(old.listeners) \subseteq AllListeners
  <2>1. CASE cgroup.Name \in DOMAIN groupsByName
        BY <1>1, <2>1 DEF groupOf, KInv, PortInv, AllListeners
  <2>2. CASE cgroup.Name \notin DOMAIN groupsByName
    <3>1. old = newGroup(cgroup)
          BY <2>2 DEF groupOf
    <3>2. "listeners" \in DOMAIN old /\ old.listeners = <<>>
          BY <3>1 DEF newGroup
    <3> QED BY <3>2 DEF Range
  <2> QED BY <2>1, <2>2
<1> HIDE DEF cgroup, names, old, new
<1>6. "listeners" \in DOMAIN g /\ g.listeners = old.listeners \o new
      BY <1>5
<1>7. g.listeners \in Seq(Made) /\ Range(g.listeners) \subseteq AllListeners \cup Range(new)
      BY <1>4, <1>5, <1>6, RangeOfConcat
<1> HIDE DEF g
<1>8. /\ DOMAIN groupsByName' = DOMAIN groupsByName \cup {cgroup.Name}
      /\ \A n \in DOMAIN groupsByName' :
            groupsByName'[n] = IF n = cgroup.Name THEN g ELSE groupsByName[n]
      BY <1>3 DEF WithGroup
<1>9. AllListeners' \subseteq AllListeners \cup Range(new)
      BY <1>7, <1>8 DEF AllListeners
<1>10. Made' = Made /\ \A n : AutoPort(n)' = AutoPort(n)
      BY <1>3 DEF Made, AutoPort, depId
<1>11. ASSUME NEW l \in Range(new), AutoPort(l.name)
       PROVE  \E i \in 1 .. Len(names) : l = new[i] /\ l.port = externalPort + i - 1
      BY <1>2, <1>4, <1>11 DEF Range
<1>12. externalPort \in Nat /\ \A l \in AllListeners : AutoPort(l.name) => l.port \in 0 .. externalPort - 1
      BY <1>1 DEF KInv, PortInv
<1>13. KInv'
  <2>1. externalPort' \in Nat /\ input' \in Inputs /\ todo' \subseteq (DOMAIN components)'
        BY <1>1, <1>2, <1>3 DEF KInv, components
  <2>2. \A n \in DOMAIN groupsByName' : "listeners" \in DOMAIN groupsByName'[n]
        BY <1>1, <1>6, <1>8 DEF KInv
  <2>3. \A n \in DOMAIN groupsByName' : groupsByName'[n].listeners \in Seq(Made)
        BY <1>1, <1>7, <1>8 DEF PortInv
  <2>4. ASSUME NEW l \in AllListeners', AutoPort(l.name)
        PROVE  l.port \in 0 .. (externalPort' - 1)
    <3>1. CASE l \in AllListeners
          BY <1>2, <1>3, <1>12, <2>4, <3>1
    <3>2. CASE l \in Range(new)
          BY <1>2, <1>3, <1>11, <1>12, <2>4, <3>2
    <3> QED BY <1>9, <2>4, <3>1, <3>2
  <2> QED BY <1>10, <2>1, <2>2, <2>3, <2>4 DEF KInv, PortInv
<1>14. AutoPortsDistinct'
  <2> SUFFICES ASSUME NEW l \in AllListeners', NEW m \in AllListeners',
                      l # m, AutoPort(l.name), AutoPort(m.name)
               PROVE  l.port # m.port
      BY <1>10 DEF AutoPortsDistinct
  <2>1. CASE l \in AllListeners /\ m \in AllListeners
        BY <1>1, <2>1 DEF AutoPortsDistinct
  <2>2. CASE l \in AllListeners /\ m \in Range(new)
        BY <1>11, <1>12, <2>2
  <2>3. CASE l \in Range(new) /\ m \in AllListeners
        BY <1>11, <1>12, <2>3
  <2>4. CASE l \in Range(new) /\ m \in Range(new)
        BY <1>11, <1>12, <2>4
  <2> QED BY <1>9, <2>1, <2>2, <2>3, <2>4
<1> QED BY <1>13, <1>14 DEF IInv

\* A new process starts like this.
Started ==
    /\ groupsByName = <<>> /\ externalPort = FirstPort
    /\ input \in Inputs /\ todo = DOMAIN components

LEMMA StartedIInv == Started => IInv
<1> SUFFICES ASSUME Started PROVE IInv
    OBVIOUS
<1>1. DOMAIN groupsByName = {} /\ AllListeners = {}
      BY DEF Started, AllListeners
<1> QED BY <1>1 DEF Started, IInv, KInv, PortInv, AutoPortsDistinct, FirstPort

LEMMA NextIInv == IInv /\ [Next]_vars => IInv'
<1> SUFFICES ASSUME IInv, [Next]_vars PROVE IInv'
    OBVIOUS
<1>1. CASE \E c \in todo : AddComponent(c)
      BY <1>1, AddKeeps
<1>2. CASE Rerun
  <2>1. Started'
        BY <1>2 DEF Rerun, Started, IInv, KInv, components
  <2> QED BY <2>1, StartedIInv, PTL
<1>3. CASE UNCHANGED <<input, run, todo, groupsByName, externalPort>>
  <2>1. Made' = Made /\ AllListeners' = AllListeners /\ components' = components
        BY <1>3 DEF Made, AllListeners, components, depId
  <2>2. \A n : AutoPort(n)' = AutoPort(n)
        BY <1>3 DEF AutoPort
  <2> QED BY <1>3, <2>1, <2>2 DEF IInv, KInv, PortInv, AutoPortsDistinct
<1>4. CASE \/ SortGroups \/ GenerateRoles \/ GenerateConfigMap \/ Fail \/ GenerateCore \/ WriteFile
      BY <1>3, <1>4 DEF SortGroups, GenerateRoles, GenerateConfigMap, Fail, GenerateCore, WriteFile
<1> QED BY <1>1, <1>2, <1>3, <1>4 DEF Next, vars
-------------------------------------------------------------------------------
(* The theorem. *)

\* No two listeners that leave their port to the deployer get the same one,
\* whatever their groups and the order of the visits (kube.go:777-779).
THEOREM AutomaticPortsDiffer == Spec => []AutoPortsDistinct
<1>1. Init => IInv
      BY StartedIInv DEF Started, Init
<1>2. IInv => AutoPortsDistinct
      BY DEF IInv
<1> QED BY <1>1, <1>2, NextIInv, PTL DEF Spec
-------------------------------------------------------------------------------
(* The groups partition the components. *)

\* Where c is in a group's components, and a listener in its listeners.
Places(s, c) == {i \in DOMAIN s : s[i] = c}
Named(s, l)  == {i \in DOMAIN s : s[i].name = l}

GroupNameOf == [c \in DOMAIN components |-> configGroup(input.config, c).Name]
Visited == DOMAIN components \ todo

\* The groups gs only have what belongs to them, and only of components in V;
Belong(gs, V, listenersOf, group) ==
    \A n \in DOMAIN gs :
       /\ {"Components", "listeners"} \subseteq DOMAIN gs[n]
       /\ gs[n].Components \in Seq(DOMAIN listenersOf)
       /\ \A c \in Range(gs[n].Components) : c \in V /\ group[c] = n
       /\ \A l \in Range(gs[n].listeners) :
             \E c \in V : group[c] = n /\ l.name \in Range(listenersOf[c])

\* and each of these is in its group, in one place.
Placed(gs, V, listenersOf, group) ==
    \A c \in V :
       /\ group[c] \in DOMAIN gs
       /\ \E i : Places(gs[group[c]].Components, c) = {i}
       /\ \A l \in Range(listenersOf[c]) : \E i : Named(gs[group[c]].listeners, l) = {i}

GroupInv ==
    /\ Belong(groupsByName, Visited, components, GroupNameOf)
    /\ Placed(groupsByName, Visited, components, GroupNameOf)

\* The table's entry for a component, if it has one.
LEMMA EntryOf ==
    ASSUME input \in Inputs, NEW c \in DOMAIN components, components[c] # <<>>
    PROVE  \E e \in Range(input.binary.listeners) : e.Component = c /\ components[c] = e.Listeners
<1> DEFINE ls == input.binary.listeners
           entries == {i \in DOMAIN ls : ls[i].Component = c}
<1>1. ls \in Seq([Component : STRING, Listeners : Seq(STRING)])
      BY BinaryAssumption
<1>2. entries # {} /\ components[c] = ls[Max(entries)].Listeners
      BY DEF components, readComponentsAndListeners
<1>3. entries \in SUBSET (1 .. Len(ls)) /\ Len(ls) \in Nat
      BY <1>1
<1>4. Max(entries) \in entries
      BY <1>2, <1>3, MaxOfSet
<1>5. Max(entries) \in DOMAIN ls /\ ls[Max(entries)].Component = c
      BY <1>4
<1> QED BY <1>2, <1>5 DEF Range

\* No listener name occurs twice: not in one component, nor in two.
LEMMA NamesAreUnique ==
    ASSUME input \in Inputs, NEW c \in DOMAIN components
    PROVE  /\ IsInjective(components[c])
           /\ \A e \in DOMAIN components :
                 e # c => Range(components[c]) \cap Range(components[e]) = {}
<1>1. CASE components[c] = <<>>
      BY <1>1 DEF IsInjective, Range
<1>2. CASE components[c] # <<>>
  <2>1. PICK x \in Range(input.binary.listeners) : x.Component = c /\ components[c] = x.Listeners
        BY <1>2, EntryOf
  <2>2. IsInjective(components[c])
        BY <2>1, ListenerAssumption
  <2>3. ASSUME NEW e \in DOMAIN components, e # c, components[e] # <<>>
        PROVE  Range(components[c]) \cap Range(components[e]) = {}
    <3>1. PICK y \in Range(input.binary.listeners) : y.Component = e /\ components[e] = y.Listeners
          BY <2>3, EntryOf
    <3> QED BY <2>1, <2>3, <3>1, ListenerAssumption
  <2>4. \A e \in DOMAIN components : components[e] = <<>> => Range(components[e]) = {}
        BY DEF Range
  <2> QED BY <2>2, <2>3, <2>4
<1> QED BY <1>1, <1>2

LEMMA PlacesOfAppend ==
    ASSUME NEW S, NEW s \in Seq(S), NEW c \in S
    PROVE  /\ Append(s, c) \in Seq(S) /\ Range(Append(s, c)) = Range(s) \cup {c}
           /\ Places(Append(s, c), c) = Places(s, c) \cup {Len(s) + 1}
           /\ \A e : e # c => Places(Append(s, c), e) = Places(s, e)
<1> DEFINE t == Append(s, c)
<1>1. /\ t \in Seq(S) /\ Len(s) \in Nat
      /\ DOMAIN t = DOMAIN s \cup {Len(s) + 1} /\ Len(s) + 1 \notin DOMAIN s
      /\ t[Len(s) + 1] = c /\ \A i \in DOMAIN s : t[i] = s[i]
      OBVIOUS
<1> HIDE DEF t
<1>2. Range(t) = Range(s) \cup {c}
      BY <1>1 DEF Range
<1>3. \A e : Places(t, e) = IF e = c THEN Places(s, e) \cup {Len(s) + 1} ELSE Places(s, e)
      BY <1>1 DEF Places
<1> QED BY <1>1, <1>2, <1>3 DEF t

LEMMA NamedOfConcat ==
    ASSUME NEW S, NEW s \in Seq(S), NEW t \in Seq(S), NEW l
    PROVE  Named(s \o t, l) = Named(s, l) \cup {Len(s) + i : i \in Named(t, l)}
<1> DEFINE u == s \o t
<1>1. /\ Len(s) \in Nat /\ Len(t) \in Nat /\ Len(u) = Len(s) + Len(t)
      /\ DOMAIN s = 1 .. Len(s) /\ DOMAIN t = 1 .. Len(t) /\ DOMAIN u = 1 .. Len(u)
      /\ \A i \in 1 .. Len(s) : u[i] = s[i]
      /\ \A i \in 1 .. Len(t) : u[Len(s) + i] = t[i]
      OBVIOUS
<1> HIDE DEF u
<1>2. \A i \in 1 .. Len(s) : i \in 1 .. Len(u)
      BY <1>1
<1>3. \A i \in 1 .. Len(t) : Len(s) + i \in 1 .. Len(u)
      BY <1>1
<1>4. \A i \in 1 .. Len(u) : i \in 1 .. Len(s) \/ \E j \in 1 .. Len(t) : i = Len(s) + j
  <2>1. ASSUME NEW i \in 1 .. Len(u), i \notin 1 .. Len(s)
        PROVE  i - Len(s) \in 1 .. Len(t) /\ i = Len(s) + (i - Len(s))
        BY <1>1, <2>1
  <2> QED BY <2>1
<1>5. ASSUME NEW i \in Named(u, l)
      PROVE  i \in Named(s, l) \/ \E j \in Named(t, l) : i = Len(s) + j
  <2>1. i \in 1 .. Len(u) /\ u[i].name = l
        BY <1>1 DEF Named
  <2>2. CASE i \in 1 .. Len(s)
        BY <1>1, <2>1, <2>2 DEF Named
  <2>3. ASSUME NEW j \in 1 .. Len(t), i = Len(s) + j
        PROVE  j \in Named(t, l)
        BY <1>1, <2>1, <2>3 DEF Named
  <2> QED BY <1>4, <2>1, <2>2, <2>3
<1>6. Named(s, l) \subseteq Named(u, l)
      BY <1>1, <1>2 DEF Named
<1>7. {Len(s) + i : i \in Named(t, l)} \subseteq Named(u, l)
      BY <1>1, <1>3 DEF Named
<1> QED BY <1>5, <1>6, <1>7 DEF u

\* Each name gets one new listener.
LEMMA NamedOfNew ==
    ASSUME NEW names \in Seq(STRING), NEW port \in Nat, IsInjective(names)
    PROVE  /\ \A l \in Range(newListeners(names, port)) : l.name \in Range(names)
           /\ \A l \in Range(names) : \E i : Named(newListeners(names, port), l) = {i}
<1> DEFINE new == newListeners(names, port)
<1>1. Len(names) \in Nat /\ DOMAIN names = 1 .. Len(names)
      OBVIOUS
<1>2. DOMAIN new = DOMAIN names
      BY DEF newListeners
<1>3. ASSUME NEW i \in DOMAIN names
      PROVE  new[i].name = names[i]
  <2>1. names[i] \in STRING /\ port + i - 1 \in Nat
        BY <1>1
  <2>2. new[i] = newListener(depId, input.config, names[i], port + i - 1)
        BY DEF newListeners
  <2> HIDE DEF new
  <2> QED BY <2>1, <2>2, NewListenerPort
<1> HIDE DEF new
<1>4. \A l \in Range(new) : l.name \in Range(names)
      BY <1>2, <1>3 DEF Range
<1>5. ASSUME NEW l \in Range(names)
      PROVE  \E i : Named(new, l) = {i}
  <2>1. PICK i \in DOMAIN names : names[i] = l
        BY DEF Range
  <2>2. Named(new, l) = {i}
        BY <1>2, <1>3, <2>1 DEF Named, IsInjective
  <2> QED BY <2>2
<1> QED BY <1>4, <1>5 DEF new

\* The visit of a component adds it, and its listeners, to its group.
LEMMA AddGroups ==
    ASSUME IInv, GroupInv, NEW c \in todo, AddComponent(c)
    PROVE  GroupInv'
<1> DEFINE cgroup == configGroup(input.config, c)
           mine   == cgroup.Name
           names  == components[c]
           old    == groupOf(cgroup)
           new    == newListeners(names, externalPort)
           g      == [old EXCEPT !.Components = Append(@, c), !.listeners = @ \o new]
<1>1. /\ input \in Inputs /\ externalPort \in Nat /\ c \in DOMAIN components /\ todo \subseteq DOMAIN components
      /\ \A n \in DOMAIN groupsByName : groupsByName[n].listeners \in Seq(Made)
      BY DEF IInv, KInv, PortInv
<1>2. /\ groupsByName' = WithGroup(mine, g)
      /\ todo' = todo \ {c} /\ components' = components /\ GroupNameOf' = GroupNameOf
      BY DEF AddComponent, components, GroupNameOf
<1>3. names \in Seq(STRING) /\ IsInjective(names)
      BY <1>1, ListenersAreNames, NamesAreUnique
<1>4. /\ new \in Seq(Made)
      /\ \A l \in Range(new) : l.name \in Range(names)
      /\ \A l \in Range(names) : \E i : Named(new, l) = {i}
      BY <1>1, <1>3, NewListenersPorts, NamedOfNew
<1>5. Visited' = Visited \cup {c} /\ c \notin Visited
      BY <1>1, <1>2 DEF Visited
\* What the group had before.
<1>6. /\ {"Components", "listeners"} \subseteq DOMAIN old
      /\ old.Components \in Seq(DOMAIN components) /\ old.listeners \in Seq(Made)
      /\ \A e \in Range(old.Components) : e \in Visited /\ GroupNameOf[e] = mine
      /\ \A l \in Range(old.listeners) :
            \E e \in Visited : GroupNameOf[e] = mine /\ l.name \in Range(components[e])
      /\ mine \in DOMAIN groupsByName => old = groupsByName[mine]
  <2>1. CASE mine \in DOMAIN groupsByName
    <3>1. old = groupsByName[mine]
          BY <2>1 DEF groupOf
    <3> HIDE DEF old, mine
    <3> QED BY <1>1, <2>1, <3>1 DEF GroupInv, Belong, Placed
  <2>2. CASE mine \notin DOMAIN groupsByName
    <3>1. old = newGroup(cgroup)
          BY <2>2 DEF groupOf
    <3>2. {"Components", "listeners"} \subseteq DOMAIN old /\ old.Components = <<>> /\ old.listeners = <<>>
          BY <3>1 DEF newGroup
    <3> QED BY <2>2, <3>2 DEF Range
  <2> QED BY <2>1, <2>2
<1>7. GroupNameOf[c] = mine
      BY <1>1 DEF GroupNameOf
<1> HIDE DEF cgroup, mine, names, old, new
<1>8. /\ {"Components", "listeners"} \subseteq DOMAIN g
      /\ g.Components = Append(old.Components, c) /\ g.listeners = old.listeners \o new
      BY <1>6
<1> HIDE DEF g
<1>9. /\ DOMAIN groupsByName' = DOMAIN groupsByName \cup {mine}
      /\ groupsByName'[mine] = g
      /\ \A n \in DOMAIN groupsByName : n # mine => groupsByName'[n] = groupsByName[n]
      BY <1>2 DEF WithGroup
<1>10. /\ g.Components \in Seq(DOMAIN components) /\ Range(g.Components) = Range(old.Components) \cup {c}
       /\ Places(g.Components, c) = Places(old.Components, c) \cup {Len(old.Components) + 1}
       /\ \A e : e # c => Places(g.Components, e) = Places(old.Components, e)
       BY <1>1, <1>6, <1>8, PlacesOfAppend
<1>11. /\ Range(g.listeners) = Range(old.listeners) \cup Range(new)
       /\ \A l : Named(g.listeners, l) =
                    Named(old.listeners, l) \cup {Len(old.listeners) + i : i \in Named(new, l)}
       BY <1>4, <1>6, <1>8, RangeOfConcat, NamedOfConcat
<1>12. \A e \in Visited : e \in DOMAIN components /\ e # c /\ Range(components[e]) \cap Range(names) = {}
       BY <1>1, <1>5, NamesAreUnique DEF Visited, names
\* Nothing of c was in the group before, and nothing new is of another component.
<1>13. Places(old.Components, c) = {}
       BY <1>5, <1>6 DEF Places, Range
<1>14. ASSUME NEW l \in Range(names)
       PROVE  Named(old.listeners, l) = {}
  <2> SUFFICES ASSUME NEW x \in Range(old.listeners), x.name = l PROVE FALSE
      BY DEF Named, Range
  <2>1. PICK e \in Visited : x.name \in Range(components[e])
        BY <1>6
  <2> QED BY <1>12, <2>1
<1>15. \A e \in Visited : \A l \in Range(components[e]) : Named(new, l) = {}
       BY <1>4, <1>12 DEF Named, Range
<1>16. ASSUME NEW n \in DOMAIN groupsByName'
       PROVE  LET h == groupsByName'[n]
              IN  /\ {"Components", "listeners"} \subseteq DOMAIN h
                  /\ h.Components \in Seq(DOMAIN components)
                  /\ \A e \in Range(h.Components) : e \in Visited' /\ GroupNameOf[e] = n
                  /\ \A l \in Range(h.listeners) :
                        \E e \in Visited' : GroupNameOf[e] = n /\ l.name \in Range(components[e])
  <2>1. CASE n = mine
    <3>1. \A l \in Range(g.listeners) :
             \E e \in Visited' : GroupNameOf[e] = n /\ l.name \in Range(components[e])
      <4>1. \A l \in Range(new) : l.name \in Range(components[c])
            BY <1>4 DEF names
      <4> QED BY <1>5, <1>6, <1>7, <1>11, <2>1, <4>1
    <3> QED BY <1>5, <1>6, <1>7, <1>8, <1>9, <1>10, <2>1, <3>1
  <2>2. CASE n # mine
        BY <1>5, <1>9, <2>2 DEF GroupInv, Belong, Placed
  <2> QED BY <2>1, <2>2
<1>17. ASSUME NEW e \in Visited'
       PROVE  /\ GroupNameOf[e] \in DOMAIN groupsByName'
              /\ \E i : Places(groupsByName'[GroupNameOf[e]].Components, e) = {i}
              /\ \A l \in Range(components[e]) :
                    \E i : Named(groupsByName'[GroupNameOf[e]].listeners, l) = {i}
  <2>1. CASE e = c
    <3>1. Places(g.Components, e) = {Len(old.Components) + 1}
          BY <1>10, <1>13, <2>1
    <3>2. ASSUME NEW l \in Range(names)
          PROVE  \E i : Named(g.listeners, l) = {i}
      <4>1. PICK i : Named(new, l) = {i}
            BY <1>4
      <4>2. Named(g.listeners, l) = {Len(old.listeners) + i}
            BY <1>11, <1>14, <4>1
      <4> QED BY <4>2
    <3> QED BY <1>7, <1>9, <2>1, <3>1, <3>2 DEF names
  <2>2. CASE e \in Visited /\ GroupNameOf[e] # mine
    <3>1. /\ GroupNameOf[e] \in DOMAIN groupsByName
          /\ \E i : Places(groupsByName[GroupNameOf[e]].Components, e) = {i}
          /\ \A l \in Range(components[e]) :
                \E i : Named(groupsByName[GroupNameOf[e]].listeners, l) = {i}
          BY <2>2 DEF GroupInv, Placed
    <3>2. groupsByName'[GroupNameOf[e]] = groupsByName[GroupNameOf[e]]
          BY <1>9, <2>2, <3>1
    <3> QED BY <1>9, <3>1, <3>2
  <2>3. CASE e \in Visited /\ GroupNameOf[e] = mine
    <3>1. /\ mine \in DOMAIN groupsByName /\ \E i : Places(old.Components, e) = {i}
          /\ \A l \in Range(components[e]) : \E i : Named(old.listeners, l) = {i}
          BY <1>6, <2>3 DEF GroupInv, Belong, Placed
    <3>2. Places(g.Components, e) = Places(old.Components, e)
          BY <1>10, <1>12, <2>3
    <3>3. \A l \in Range(components[e]) : Named(g.listeners, l) = Named(old.listeners, l)
          BY <1>11, <1>15, <2>3
    <3> QED BY <1>9, <2>3, <3>1, <3>2, <3>3
  <2> QED BY <1>5, <2>1, <2>2, <2>3
<1>18. Belong(groupsByName', Visited', components, GroupNameOf)
      BY <1>16 DEF Belong
<1>19. Placed(groupsByName', Visited', components, GroupNameOf)
      BY <1>17 DEF Placed
<1> QED BY <1>2, <1>18, <1>19 DEF GroupInv

LEMMA StartedGroups == Started => GroupInv
BY DEF Started, GroupInv, Belong, Placed, Visited

LEMMA NextGroups == IInv /\ GroupInv /\ [Next]_vars => GroupInv'
<1> SUFFICES ASSUME IInv, GroupInv, [Next]_vars PROVE GroupInv'
    OBVIOUS
<1>1. CASE \E c \in todo : AddComponent(c)
      BY <1>1, AddGroups
<1>2. CASE Rerun
  <2>1. Started'
        BY <1>2 DEF Rerun, Started, IInv, KInv, components
  <2> QED BY <2>1, StartedGroups, PTL
<1>3. CASE UNCHANGED <<input, todo, groupsByName>>
  <2>1. components' = components /\ GroupNameOf' = GroupNameOf
        BY <1>3 DEF components, GroupNameOf
  <2> QED BY <1>3, <2>1 DEF GroupInv, Visited
<1>4. CASE \/ SortGroups \/ GenerateRoles \/ GenerateConfigMap \/ Fail \/ GenerateCore \/ WriteFile
      BY <1>3, <1>4 DEF SortGroups, GenerateRoles, GenerateConfigMap, Fail, GenerateCore, WriteFile
<1> QED BY <1>1, <1>2, <1>3, <1>4 DEF Next, vars

\* A component that is in no group of the config file is the only one to give
\* its group its name, unless a group of the file has that name.
LEMMA LoneName ==
    ASSUME input \in Inputs, NEW c \in DOMAIN components,
           ~Listed(c), c \notin {g.Name : g \in Range(input.config.Groups)}
    PROVE  /\ GroupNameOf[c] = c
           /\ \A e \in DOMAIN components : GroupNameOf[e] = c => e = c
<1> DEFINE gs == input.config.Groups
           entries(e) == {i \in DOMAIN gs : e \in gs[i].Components}
<1>1. \A e : configGroup(input.config, e).Name =
               IF entries(e) # {} THEN gs[Max(entries(e))].Name ELSE e
      BY DEF configGroup
<1>2. entries(c) = {}
      BY DEF Listed, Range
<1>3. ASSUME NEW e \in DOMAIN components, entries(e) # {}
      PROVE  gs[Max(entries(e))].Name # c
  <2>2. gs \in Seq(Range(gs)) /\ entries(e) \subseteq DOMAIN gs
        BY ConfigAssumption
  <2>1. Max(entries(e)) \in DOMAIN gs
    <3>1. DOMAIN gs = 1 .. Len(gs) /\ Len(gs) \in Nat
          BY <2>2
    <3>2. entries(e) \subseteq 1 .. Len(gs)
          BY <2>2, <3>1
    <3> HIDE DEF entries, gs
    <3>3. Max(entries(e)) \in entries(e)
          BY <1>3, <3>1, <3>2, MaxOfSet
    <3> QED BY <2>2, <3>3
  <2> QED BY <2>1 DEF Range
<1> HIDE DEF entries
<1> QED BY <1>1, <1>2, <1>3 DEF GroupNameOf

LEMMA GroupsPartition == IInv /\ GroupInv => PartitionsComponents
<1> SUFFICES ASSUME IInv, GroupInv, NEW c \in Visited
             PROVE  LET mine == GroupNameOf[c]
                    IN  /\ mine \in DOMAIN groupsByName
                        /\ \A n \in DOMAIN groupsByName :
                              /\ Cardinality(Places(groupsByName[n].Components, c))
                                   = (IF n = mine THEN 1 ELSE 0)
                              /\ \A l \in Range(components[c]) :
                                   Cardinality(Named(groupsByName[n].listeners, l))
                                     = (IF n = mine THEN 1 ELSE 0)
                        /\ ~Listed(c) /\ c \notin {g.Name : g \in Range(input.config.Groups)}
                              => Range(groupsByName[c].Components) = {c}
    BY ZenonT(60) DEF PartitionsComponents, Visited, GroupNameOf, Places, Named
<1>1. \A i : Cardinality({i}) = 1
      BY FS_Singleton
<1>2. Cardinality({}) = 0
      BY FS_EmptySet
<1>3. c \in DOMAIN components /\ input \in Inputs
      BY DEF Visited, IInv, KInv
<1>4. ASSUME NEW n \in DOMAIN groupsByName, n # GroupNameOf[c]
      PROVE  /\ Places(groupsByName[n].Components, c) = {}
             /\ \A l \in Range(components[c]) : Named(groupsByName[n].listeners, l) = {}
  <2>1. c \notin Range(groupsByName[n].Components)
        BY <1>4 DEF GroupInv, Belong, Placed
  <2>2. ASSUME NEW l \in Range(groupsByName[n].listeners)
        PROVE  l.name \notin Range(components[c])
    <3>1. PICK e \in Visited : GroupNameOf[e] = n /\ l.name \in Range(components[e])
          BY DEF GroupInv, Belong, Placed
    <3>2. e \in DOMAIN components /\ e # c
          BY <1>4, <3>1 DEF Visited
    <3> QED BY <1>3, <3>1, <3>2, NamesAreUnique
  <2> QED BY <2>1, <2>2 DEF Places, Named, Range
<1>5. /\ GroupNameOf[c] \in DOMAIN groupsByName
      /\ Cardinality(Places(groupsByName[GroupNameOf[c]].Components, c)) = 1
      /\ \A l \in Range(components[c]) :
            Cardinality(Named(groupsByName[GroupNameOf[c]].listeners, l)) = 1
      BY <1>1 DEF GroupInv, Placed
<1>6. ASSUME NEW n \in DOMAIN groupsByName
      PROVE  /\ Cardinality(Places(groupsByName[n].Components, c))
                   = (IF n = GroupNameOf[c] THEN 1 ELSE 0)
             /\ \A l \in Range(components[c]) :
                  Cardinality(Named(groupsByName[n].listeners, l))
                     = (IF n = GroupNameOf[c] THEN 1 ELSE 0)
      BY <1>2, <1>4, <1>5
<1>7. ASSUME ~Listed(c), c \notin {g.Name : g \in Range(input.config.Groups)}
      PROVE  Range(groupsByName[c].Components) = {c}
  <2>1. /\ GroupNameOf[c] = c
        /\ \A e \in DOMAIN components : GroupNameOf[e] = c => e = c
        BY <1>3, <1>7, LoneName
  <2>2. c \in DOMAIN groupsByName /\ Places(groupsByName[c].Components, c) # {}
        BY <1>2, <1>5, <2>1
  <2>3. c \in Range(groupsByName[c].Components)
        BY <2>2 DEF Places, Range
  <2>4. \A e \in Range(groupsByName[c].Components) : e \in Visited /\ GroupNameOf[e] = c
        BY <2>2 DEF GroupInv, Belong
  <2> QED BY <2>1, <2>3, <2>4 DEF Visited
<1> QED BY <1>5, <1>6, <1>7

\* In whatever order Go visits the components, and after every visit, each one
\* visited is in exactly one group, once, with all its listeners: that of the
\* name which the config file gives its group, or of its own name; and a
\* component that is in no group of the file, none of which has its name, has
\* its group to itself (kube.go:679-715).
THEOREM ComponentsArePartitioned == Spec => []PartitionsComponents
<1>1. Init => IInv /\ GroupInv
      BY StartedIInv, StartedGroups DEF Started, Init
<1>2. IInv /\ GroupInv /\ [Next]_vars => (IInv /\ GroupInv)'
      BY NextIInv, NextGroups
<1> QED BY <1>1, <1>2, GroupsPartition, PTL DEF Spec
-------------------------------------------------------------------------------
(* The rest of the inductive invariant: the groups of the map, d.groups, the  *)
(* buffer and the file, and the last run.                                     *)

GroupFields == {"Name", "Components", "listeners", "StorageSpec", "ResourceSpec", "ScalingSpec"}

Specs(g) == <<g.StorageSpec, g.ResourceSpec, g.ScalingSpec>>

\* A group has the name that the map has it under, and is there for a component
\* that was visited, with what the config file says of that one's group.
IsGroup(g, n, V, group, config) ==
    /\ GroupFields \subseteq DOMAIN g
    /\ g.Name = n
    /\ g.listeners \in Seq(Listener)
    /\ \E c \in V : group[c] = n /\ Specs(g) = Specs(configGroup(config, c))

MapInv ==
    /\ run \in DOMAIN DepIds /\ step \in Steps /\ externalPort > 0
    /\ IsFiniteSet(DOMAIN groupsByName)
    /\ \A n \in DOMAIN groupsByName :
          IsGroup(groupsByName[n], n, Visited, GroupNameOf, input.config)

\* The names in the order of strings, and the groups in the order of the names.
InOrder(names) == \A i, j \in DOMAIN names : i < j => Rank[names[i]] < Rank[names[j]]

Sorted(gs) ==
    \E names \in SetToSeqs(DOMAIN groupsByName) :
       InOrder(names) /\ gs = [i \in DOMAIN names |-> groupsByName[names[i]]]

SortedInv ==
    /\ step = "group" => groups = <<>>
    /\ step \notin {"group", "failed"} => todo = {} /\ Sorted(groups)
    /\ groups # <<>> => todo = {} /\ Sorted(groups)

\* s is as much as has been made of t.
Begins(s, t) ==
    /\ Len(s) \in Nat /\ DOMAIN s = 1 .. Len(s) /\ Len(s) <= Len(t)
    /\ \A i \in 1 .. Len(s) : s[i] = t[i]

\* In step st, the buffer o and the file f for the deployment e.
Buffered(st, o, f, e) ==
    /\ st \in {"group", "roles"} => o = <<>>
    /\ st = "config" => o = generateRolesAndBindings(e.config.ServiceAccount)
    /\ st = "core" => o = generateRolesAndBindings(e.config.ServiceAccount) \o <<generateConfigMap(e)>>
    /\ st \in {"write", "done"} => o = generateYAMLs(e)
    /\ st = "done" => f = o
    /\ st \notin {"done", "failed"} => f = <<>>
    /\ o # <<>> => WellFormed(e.groups) /\ Begins(o, generateYAMLs(e))
    /\ f # <<>> => WellFormed(e.groups) /\ Begins(f, generateYAMLs(e))

BufferInv == Buffered(step, out, file, d)

\* The groups gs are what any run on this input would make, but for the order of
\* what is in them and their ports.
Canonical(gs, listenersOf, group, config) ==
    \E names \in SetToSeqs(Range(group)) :
       /\ IsFiniteSet(Range(group))
       /\ InOrder(names) /\ DOMAIN gs = DOMAIN names
       /\ \A i \in DOMAIN names :
             /\ gs[i].Name = names[i]
             /\ Range(gs[i].Components) = {c \in DOMAIN listenersOf : group[c] = names[i]}
             /\ {l.name : l \in Range(gs[i].listeners)} =
                   UNION {Range(listenersOf[c]) : c \in {e \in DOMAIN listenersOf : group[e] = names[i]}}
             /\ \E c \in DOMAIN listenersOf :
                   group[c] = names[i] /\ Specs(gs[i]) = Specs(configGroup(config, c))

OutlineInv ==
    /\ groups # <<>> => Canonical(groups, components, GroupNameOf, input.config)
    /\ previous # <<>> => Canonical(previous, components, GroupNameOf, input.config)
-------------------------------------------------------------------------------
(* The map. *)

\* The listener r with what l, its entry in the config file, says.
Configured(r, l) ==
    [r EXCEPT !.serviceName = IF l.ServiceName # "" THEN <<l.ServiceName>> ELSE @,
              !.public      = l.Public,
              !.port        = IF l.Port # 0 THEN l.Port ELSE @]

LEMMA ConfiguredTyped ==
    ASSUME NEW r \in Listener,
           NEW l \in [Name : STRING, ServiceName : STRING, Public : BOOLEAN, Port : Int]
    PROVE  Configured(r, l) \in Listener
<1>1. <<l.ServiceName>> \in Seq(STRING) /\ l.Public \in BOOLEAN /\ l.Port \in Int
      OBVIOUS
<1> QED BY <1>1 DEF Listener, Configured

\* A listener has a port, whatever the config file says of it.
LEMMA NewListenerTyped ==
    ASSUME input \in Inputs, run \in DOMAIN DepIds, NEW name \in STRING, NEW port \in Nat, port > 0
    PROVE  newListener(depId, input.config, name, port) \in Listener
<1> DEFINE ls      == input.config.Listeners
           entries == {i \in DOMAIN ls : ls[i].Name = name}
           l       == ls[Min(entries)]
           default == [name |-> name, serviceName |-> <<name, depId>>, public |-> FALSE, port |-> port]
<1>1. ls \in Seq([Name : STRING, ServiceName : STRING, Public : BOOLEAN, Port : Int])
      BY ConfigAssumption
<1>2. depId \in STRING
      BY RunsAssumption DEF depId
<1>3. default \in Listener
      BY <1>2 DEF Listener
<1>4. newListener(depId, input.config, name, port) =
         IF entries = {} THEN default
         ELSE Configured(default, l)
      BY Zenon DEF newListener, Configured
<1>5. ASSUME entries # {}
      PROVE  l \in [Name : STRING, ServiceName : STRING, Public : BOOLEAN, Port : Int]
  <2>1. entries \in SUBSET Nat
        BY <1>1
  <2>2. Min(entries) \in DOMAIN ls
        BY <1>5, <2>1, MinOfSet
  <2> HIDE DEF ls, entries
  <2> QED BY <1>1, <2>2, ElementIn
<1> HIDE DEF default, l, entries
<1>6. entries # {} => Configured(default, l) \in Listener
      BY <1>3, <1>5, ConfiguredTyped
<1> QED BY <1>3, <1>4, <1>6

LEMMA NewListenersTyped ==
    ASSUME input \in Inputs, run \in DOMAIN DepIds, NEW names \in Seq(STRING), NEW port \in Nat, port > 0
    PROVE  newListeners(names, port) \in Seq(Listener)
<1> DEFINE l(i) == newListener(depId, input.config, names[i], port + i - 1)
<1>1. Len(names) \in Nat /\ DOMAIN names = 1 .. Len(names)
      OBVIOUS
<1>2. newListeners(names, port) = [i \in 1 .. Len(names) |-> l(i)]
      BY <1>1 DEF newListeners
<1>3. ASSUME NEW i \in 1 .. Len(names)
      PROVE  l(i) \in Listener
  <2>1. names[i] \in STRING /\ port + i - 1 \in Nat /\ port + i - 1 > 0
        BY <1>1
  <2> QED BY <2>1, NewListenerTyped
<1> HIDE DEF l
<1> QED BY <1>1, <1>2, <1>3

\* A group with other components and listeners has the name and specs it had.
WithParts(g, Components, listeners) ==
    [g EXCEPT !.Components = Components, !.listeners = listeners]

LEMMA PartsOnly ==
    ASSUME NEW old, GroupFields \subseteq DOMAIN old, NEW x, NEW y
    PROVE  /\ GroupFields \subseteq DOMAIN WithParts(old, x, y)
           /\ WithParts(old, x, y).Name = old.Name
           /\ Specs(WithParts(old, x, y)) = Specs(old)
           /\ WithParts(old, x, y).Components = x
           /\ WithParts(old, x, y).listeners = y
BY DEF GroupFields, Specs, WithParts

LEMMA AddKeepsMap ==
    ASSUME IInv, MapInv, NEW c \in todo, AddComponent(c)
    PROVE  MapInv'
<1> DEFINE cgroup == configGroup(input.config, c)
           mine   == cgroup.Name
           names  == components[c]
           old    == groupOf(cgroup)
           new    == newListeners(names, externalPort)
           g      == [old EXCEPT !.Components = Append(@, c), !.listeners = @ \o new]
<1>1. /\ input \in Inputs /\ externalPort \in Nat /\ c \in DOMAIN components
      /\ run \in DOMAIN DepIds /\ externalPort > 0 /\ IsFiniteSet(DOMAIN groupsByName)
      BY DEF IInv, KInv, MapInv
<1>2. /\ groupsByName' = WithGroup(mine, g)
      /\ externalPort' = externalPort + Len(names)
      /\ todo' = todo \ {c} /\ GroupNameOf' = GroupNameOf
      /\ UNCHANGED <<input, run, step>>
      BY DEF AddComponent, components, GroupNameOf
<1>3. names \in Seq(STRING) /\ Len(names) \in Nat
      BY <1>1, ListenersAreNames
<1>4. new \in Seq(Listener)
      BY <1>1, <1>3, NewListenersTyped
<1>5. Visited \subseteq Visited' /\ c \in Visited' /\ GroupNameOf[c] = mine
      BY <1>1, <1>2 DEF Visited, GroupNameOf, AddComponent, components
<1>6. /\ GroupFields \subseteq DOMAIN old /\ old.Name = mine /\ old.listeners \in Seq(Listener)
      /\ \E e \in Visited' : GroupNameOf[e] = mine /\ Specs(old) = Specs(configGroup(input.config, e))
  <2>1. CASE mine \in DOMAIN groupsByName
    <3>1. old = groupsByName[mine]
          BY <2>1 DEF groupOf
    <3>2. IsGroup(old, mine, Visited, GroupNameOf, input.config)
          BY <2>1, <3>1 DEF MapInv
    <3> HIDE DEF old, mine
    <3> QED BY <1>5, <3>2 DEF IsGroup
  <2>2. CASE mine \notin DOMAIN groupsByName
    <3>1. old = newGroup(cgroup)
          BY <2>2 DEF groupOf
    <3>2. /\ GroupFields \subseteq DOMAIN old /\ old.Name = mine /\ old.listeners = <<>>
          /\ Specs(old) = Specs(cgroup)
          BY <3>1 DEF newGroup, GroupFields, Specs
    <3> QED BY <1>5, <3>2
  <2> QED BY <2>1, <2>2
<1> HIDE DEF mine, names, old, new
<1>7. /\ GroupFields \subseteq DOMAIN g
      /\ g.Name = old.Name /\ Specs(g) = Specs(old)
      /\ g.listeners = old.listeners \o new
  <2>1. g = WithParts(old, Append(old.Components, c), old.listeners \o new)
        BY Zenon DEF WithParts
  <2>2. GroupFields \subseteq DOMAIN old
        BY <1>6
  <2> DEFINE x == Append(old.Components, c)
             y == old.listeners \o new
  <2> HIDE DEF g, x, y
  <2>3. /\ GroupFields \subseteq DOMAIN WithParts(old, x, y)
        /\ WithParts(old, x, y).Name = old.Name
        /\ Specs(WithParts(old, x, y)) = Specs(old)
        /\ WithParts(old, x, y).listeners = y
        BY <2>2, PartsOnly
  <2> QED BY <2>1, <2>3 DEF x, y
<1> HIDE DEF g, cgroup
<1>8. IsGroup(g, mine, Visited', GroupNameOf, input.config)
  <2>1. g.listeners \in Seq(Listener)
        BY <1>4, <1>6, <1>7
  <2> QED BY <1>6, <1>7, <2>1 DEF IsGroup
<1>9. ASSUME NEW n \in DOMAIN groupsByName
      PROVE  IsGroup(groupsByName[n], n, Visited', GroupNameOf, input.config)
      BY <1>5 DEF MapInv, IsGroup
<1>10. /\ DOMAIN groupsByName' = DOMAIN groupsByName \cup {mine}
       /\ \A n \in DOMAIN groupsByName' :
             groupsByName'[n] = IF n = mine THEN g ELSE groupsByName[n]
       BY <1>2 DEF WithGroup
<1>11. IsFiniteSet(DOMAIN groupsByName')
       BY <1>1, <1>10, FS_AddElement
<1> QED BY <1>1, <1>2, <1>3, <1>8, <1>9, <1>10, <1>11 DEF MapInv
StartedRun == Started /\ run \in DOMAIN DepIds /\ step = "group"

LEMMA StartedMap == StartedRun => MapInv
BY FS_EmptySet DEF StartedRun, Started, MapInv, FirstPort, Steps

LEMMA NextMap == IInv /\ MapInv /\ [Next]_vars => MapInv'
<1> SUFFICES ASSUME IInv, MapInv, [Next]_vars PROVE MapInv'
    OBVIOUS
<1>1. CASE \E c \in todo : AddComponent(c)
      BY <1>1, AddKeepsMap
<1>2. CASE Rerun
  <2>1. Started'
        BY <1>2 DEF Rerun, Started, IInv, KInv, components
  <2>2. run' \in DOMAIN DepIds /\ step' = "group"
    <3>1. DOMAIN DepIds = 1 .. Len(DepIds) /\ Len(DepIds) \in Nat
          BY RunsAssumption
    <3> QED BY <1>2, <3>1 DEF Rerun, MapInv
  <2>3. StartedRun'
        BY <2>1, <2>2 DEF StartedRun
  <2> QED BY <2>3, StartedMap, PTL
<1>3. CASE UNCHANGED <<input, run, todo, groupsByName, externalPort>> /\ step' \in Steps
  <2>1. GroupNameOf' = GroupNameOf /\ Visited' = Visited
        BY <1>3 DEF GroupNameOf, Visited, components
  <2> QED BY <1>3, <2>1 DEF MapInv
<1>4. CASE SortGroups \/ GenerateRoles \/ GenerateConfigMap \/ Fail \/ GenerateCore \/ WriteFile
  <2>1. step' \in Steps
        BY <1>4 DEF SortGroups, GenerateRoles, GenerateConfigMap, Fail, GenerateCore, WriteFile, Steps
  <2> QED BY <1>3, <1>4, <2>1 DEF SortGroups, GenerateRoles, GenerateConfigMap, Fail, GenerateCore, WriteFile
<1>5. CASE UNCHANGED vars
      BY <1>3, <1>5 DEF vars, MapInv
<1> QED BY <1>1, <1>2, <1>4, <1>5 DEF Next
-------------------------------------------------------------------------------
(* The sorted groups. *)

\* A sequence of all elements of a set.
LEMMA Enumeration ==
    ASSUME NEW S, IsFiniteSet(S), NEW f \in SetToSeqs(S)
    PROVE  /\ f \in Seq(S) /\ Len(f) \in Nat /\ DOMAIN f = 1 .. Len(f) /\ Len(f) = Cardinality(S)
           /\ Range(f) = S
           /\ \A i, j \in DOMAIN f : f[i] = f[j] => i = j
<1> DEFINE n == Cardinality(S)
<1>1. n \in Nat
      BY FS_CardinalityType
<1>2. f \in [1 .. n -> S] /\ \A i, j \in 1 .. n : i # j => f[i] # f[j]
      BY DEF SetToSeqs
<1>3. f \in Injection(1 .. n, S)
      BY <1>2 DEF Injection, IsInjective
<1>4. IsFiniteSet(1 .. n) /\ Cardinality(1 .. n) = n
      BY <1>1, FS_Interval
<1>5. f \in Surjection(1 .. n, S)
      BY <1>3, <1>4, FS_Injection
<1> HIDE DEF n
<1>6. Range(f) = S
      BY <1>2, <1>5 DEF Surjection, Range
<1> QED BY <1>1, <1>2, <1>6 DEF n

LEMMA ComponentsAreNames ==
    ASSUME input \in Inputs
    PROVE  DOMAIN components \subseteq STRING
<1>1. input.binary.listeners \in Seq([Component : STRING, Listeners : Seq(STRING)])
      BY BinaryAssumption
<1>2. ASSUME NEW l \in Range(input.binary.listeners)
      PROVE  l.Component \in STRING
  <2> DEFINE ls == input.binary.listeners
  <2>1. PICK i \in DOMAIN ls : l = ls[i]
        BY DEF Range
  <2>2. ls[i] \in [Component : STRING, Listeners : Seq(STRING)]
    <3> HIDE DEF ls
    <3> QED BY <1>1, ElementIn DEF ls
  <2> QED BY <2>1, <2>2
<1> QED BY <1>2, BinaryAssumption DEF components, readComponentsAndListeners

\* What d.groups has of the map, and in which order.
Takes(gs, names) ==
    /\ Len(names) \in Nat /\ DOMAIN gs = 1 .. Len(names) /\ DOMAIN names = 1 .. Len(names)
    /\ Range(names) = DOMAIN groupsByName
    /\ \A i, j \in DOMAIN names : names[i] = names[j] => i = j
    /\ gs \in Seq(Range(gs))
    /\ \A i \in DOMAIN gs :
          names[i] \in DOMAIN groupsByName /\ gs[i] = groupsByName[names[i]]

LEMMA SortedParts ==
    ASSUME MapInv, NEW gs, Sorted(gs)
    PROVE  \E names \in SetToSeqs(DOMAIN groupsByName) : InOrder(names) /\ Takes(gs, names)
<1>1. PICK names \in SetToSeqs(DOMAIN groupsByName) :
           InOrder(names) /\ gs = [i \in DOMAIN names |-> groupsByName[names[i]]]
      BY DEF Sorted
<1>2. /\ Len(names) \in Nat /\ DOMAIN names = 1 .. Len(names) /\ Range(names) = DOMAIN groupsByName
      /\ \A i, j \in DOMAIN names : names[i] = names[j] => i = j
      BY Enumeration DEF MapInv
<1>3. DOMAIN gs = 1 .. Len(names) /\ \A i \in DOMAIN gs : gs[i] = groupsByName[names[i]]
      BY <1>1, <1>2
<1>4. \A i \in DOMAIN gs : names[i] \in DOMAIN groupsByName
      BY <1>2, <1>3 DEF Range
<1>5. gs \in Seq(Range(gs))
  <2>1. gs \in [1 .. Len(names) -> Range(gs)]
    <3>1. gs = [i \in 1 .. Len(names) |-> gs[i]]
          BY <1>1, <1>2
    <3>2. \A i \in 1 .. Len(names) : gs[i] \in Range(gs)
          BY <1>3 DEF Range
    <3> QED BY <3>1, <3>2
  <2> QED BY <1>2, <2>1
<1> QED BY <1>1, <1>2, <1>3, <1>4, <1>5 DEF Takes

LEMMA SortedIsWellFormed ==
    ASSUME IInv, GroupInv, MapInv, NEW gs, Sorted(gs)
    PROVE  WellFormed(gs)
<1>0. PICK names \in SetToSeqs(DOMAIN groupsByName) : Takes(gs, names)
      BY SortedParts
<1>1. /\ DOMAIN gs = DOMAIN names
      /\ \A i, j \in DOMAIN names : names[i] = names[j] => i = j
      /\ gs \in Seq(Range(gs))
      /\ \A i \in DOMAIN gs :
            names[i] \in DOMAIN groupsByName /\ gs[i] = groupsByName[names[i]]
      BY <1>0 DEF Takes
<1>2. input \in Inputs
      BY DEF IInv, KInv
<1>3. ASSUME NEW i \in DOMAIN gs
      PROVE  /\ gs[i].Name = names[i]
             /\ gs[i].Components \in Seq(STRING)
             /\ gs[i].listeners \in Seq(Listener)
             /\ \A c \in Range(gs[i].Components) : GroupNameOf[c] = names[i]
             /\ \A l \in Range(gs[i].listeners) :
                   \E c \in Visited : GroupNameOf[c] = names[i] /\ l.name \in Range(components[c])
  <2>1. gs[i].Name = names[i] /\ gs[i].listeners \in Seq(Listener)
        BY <1>1 DEF MapInv, IsGroup
  <2>2. /\ gs[i].Components \in Seq(DOMAIN components)
        /\ \A c \in Range(gs[i].Components) : GroupNameOf[c] = names[i]
        /\ \A l \in Range(gs[i].listeners) :
              \E c \in Visited : GroupNameOf[c] = names[i] /\ l.name \in Range(components[c])
        BY <1>1, SMTT(30) DEF GroupInv, Belong
  <2>3. gs[i].Components \in Seq(STRING)
        BY <1>2, <2>2, ComponentsAreNames
  <2> QED BY <2>1, <2>2, <2>3
<1>4. ASSUME NEW i \in DOMAIN gs, NEW j \in DOMAIN gs
      PROVE  /\ gs[i].Name = gs[j].Name => i = j
             /\ \A c \in Range(gs[i].Components) : c \in Range(gs[j].Components) => i = j
  <2>1. gs[i].Name = names[i] /\ gs[j].Name = names[j]
        BY <1>3
  <2>2. \A c \in Range(gs[i].Components) : c \in Range(gs[j].Components) => names[i] = names[j]
    <3>1. \A c \in Range(gs[i].Components) : GroupNameOf[c] = names[i]
          BY <1>3
    <3>2. \A c \in Range(gs[j].Components) : GroupNameOf[c] = names[j]
          BY <1>3
    <3> QED BY <3>1, <3>2
  <2> QED BY <1>1, <2>1, <2>2
<1>5. ASSUME NEW i \in DOMAIN gs, NEW j \in DOMAIN gs,
             NEW l \in Range(gs[i].listeners), NEW m \in Range(gs[j].listeners), l.name = m.name
      PROVE  i = j /\ l = m
  <2>1. PICK c \in Visited : GroupNameOf[c] = names[i] /\ l.name \in Range(components[c])
        BY <1>3
  <2>2. PICK e \in Visited : GroupNameOf[e] = names[j] /\ m.name \in Range(components[e])
        BY <1>3
  <2>3. c \in DOMAIN components /\ e \in DOMAIN components
        BY DEF Visited
  <2>4. c = e
        BY <1>2, <1>5, <2>1, <2>2, <2>3, NamesAreUnique
  <2>5. i = j
        BY <1>1, <2>1, <2>2, <2>4
  <2>6. PICK k : Named(gs[i].listeners, l.name) = {k}
    <3>1. \E k : Named(groupsByName[GroupNameOf[c]].listeners, l.name) = {k}
          BY <2>1 DEF GroupInv, Placed
    <3>2. groupsByName[GroupNameOf[c]] = gs[i]
          BY <1>1, <2>1
    <3> QED BY <3>1, <3>2
  <2> DEFINE ls == gs[i].listeners
  <2>7. PICK x \in DOMAIN ls : ls[x] = l
        BY DEF Range
  <2>8. PICK y \in DOMAIN ls : ls[y] = m
        BY <2>5 DEF Range
  <2>9. x = y
        BY <1>5, <2>6, <2>7, <2>8 DEF Named
  <2> QED BY <2>5, <2>7, <2>8, <2>9
<1>6. ASSUME NEW i \in DOMAIN gs
      PROVE  IsInjective(gs[i].Components) /\ IsInjective(gs[i].listeners)
  <2> DEFINE g == gs[i]
  <2>1. g = groupsByName[names[i]] /\ names[i] \in DOMAIN groupsByName
        BY <1>1
  <2>2. ASSUME NEW c \in Range(g.Components)
        PROVE  \E x : Places(g.Components, c) = {x}
    <3>1. c \in Visited /\ GroupNameOf[c] = names[i]
          BY <2>1 DEF GroupInv, Belong
    <3> QED BY <2>1, <3>1 DEF GroupInv, Placed
  <2>3. ASSUME NEW l \in Range(g.listeners)
        PROVE  \E x : Named(g.listeners, l.name) = {x}
    <3>1. PICK c \in Visited : GroupNameOf[c] = names[i] /\ l.name \in Range(components[c])
          BY <1>3
    <3>2. \E x : Named(groupsByName[GroupNameOf[c]].listeners, l.name) = {x}
          BY <3>1 DEF GroupInv, Placed
    <3> QED BY <2>1, <3>1, <3>2
  <2> HIDE DEF g
  <2>4. IsInjective(g.Components)
    <3> SUFFICES ASSUME NEW a \in DOMAIN g.Components, NEW b \in DOMAIN g.Components,
                        g.Components[a] = g.Components[b]
                 PROVE  a = b
        BY DEF IsInjective
    <3>1. PICK x : Places(g.Components, g.Components[a]) = {x}
          BY <2>2 DEF Range
    <3> QED BY <3>1 DEF Places
  <2>5. IsInjective(g.listeners)
    <3> SUFFICES ASSUME NEW a \in DOMAIN g.listeners, NEW b \in DOMAIN g.listeners,
                        g.listeners[a] = g.listeners[b]
                 PROVE  a = b
        BY DEF IsInjective
    <3>1. PICK x : Named(g.listeners, g.listeners[a].name) = {x}
          BY <2>3 DEF Range
    <3> QED BY <3>1 DEF Named
  <2> QED BY <2>4, <2>5 DEF g
<1> QED BY <1>1, <1>3, <1>4, <1>5, <1>6 DEF WellFormed

LEMMA NextSorted == SortedInv /\ [Next]_vars => SortedInv'
<1> SUFFICES ASSUME SortedInv, [Next]_vars PROVE SortedInv'
    OBVIOUS
<1>1. CASE \E c \in todo : AddComponent(c)
      BY <1>1 DEF AddComponent, SortedInv
<1>2. CASE Rerun
      BY <1>2 DEF Rerun, SortedInv
<1>3. CASE SortGroups
  <2>1. todo' = {} /\ step' = "roles" /\ groupsByName' = groupsByName
        BY <1>3 DEF SortGroups
  <2>2. \E names \in SetToSeqs(DOMAIN groupsByName) :
           InOrder(names) /\ groups' = [i \in DOMAIN names |-> groupsByName[names[i]]]
        BY <1>3 DEF SortGroups, InOrder
  <2> QED BY <2>1, <2>2 DEF SortedInv, Sorted
<1>4. CASE GenerateRoles \/ GenerateConfigMap \/ Fail \/ GenerateCore \/ WriteFile \/ UNCHANGED vars
  <2>1. UNCHANGED <<todo, groupsByName, groups>>
        BY <1>4 DEF GenerateRoles, GenerateConfigMap, Fail, GenerateCore, WriteFile, vars
  <2>2. /\ step' = "group" => step = "group"
        /\ step' \notin {"group", "failed"} => step \notin {"group", "failed"}
        BY <1>4 DEF GenerateRoles, GenerateConfigMap, Fail, GenerateCore, WriteFile, vars
  <2> QED BY <2>1, <2>2 DEF SortedInv, Sorted
<1> QED BY <1>1, <1>2, <1>3, <1>4 DEF Next

LEMMA GroupsWellFormed == IInv /\ GroupInv /\ MapInv /\ SortedInv => WellFormed(groups)
<1> SUFFICES ASSUME IInv, GroupInv, MapInv, SortedInv PROVE WellFormed(groups)
    OBVIOUS
<1>1. WellFormed(<<>>)
      BY DEF WellFormed
<1>2. CASE groups # <<>>
      BY <1>2, SortedIsWellFormed DEF SortedInv
<1> QED BY <1>1, <1>2
-------------------------------------------------------------------------------
(* The buffer and the file. *)

LEMMA BeginningsOfFile ==
    ASSUME NEW e, WellFormed(e.groups)
    PROVE  LET roles == generateRolesAndBindings(e.config.ServiceAccount)
               all   == generateYAMLs(e)
           IN  /\ Begins(roles, all)
               /\ Begins(roles \o <<generateConfigMap(e)>>, all)
               /\ Begins(all, all)
               /\ \A n \in 0 .. Len(all) : Begins(SubSeq(all, 1, n), all)
<1> DEFINE roles == generateRolesAndBindings(e.config.ServiceAccount)
           all   == generateYAMLs(e)
           a == roles[1]
           b == roles[2]
           m == generateConfigMap(e)
           X == {a, b, m} \cup AllCore(e)
<1>1. /\ Len(all) \in Nat /\ DOMAIN all = 1 .. Len(all) /\ Len(all) >= 3
      /\ all[1] = a /\ all[2] = b /\ all[3] = m
      BY FileParts
<1>2. roles = <<a, b>>
      BY DEF generateRolesAndBindings
<1>3. all \in Seq(X)
      BY FileParts
<1> HIDE DEF roles, all, a, b, m, X
<1>4. Begins(<<a, b>>, all)
      BY <1>1 DEF Begins
<1>5. Begins(<<a, b>> \o <<m>>, all)
      BY <1>1 DEF Begins
<1>6. Begins(all, all)
      BY <1>1 DEF Begins
<1>7. \A n \in 0 .. Len(all) : Begins(SubSeq(all, 1, n), all)
      BY <1>1, <1>3 DEF Begins
<1> QED BY <1>2, <1>4, <1>5, <1>6, <1>7 DEF roles, all, m

LEMMA NextBuffer == WellFormed(groups) /\ BufferInv /\ [Next]_vars => BufferInv'
<1> SUFFICES ASSUME WellFormed(groups), BufferInv, [Next]_vars
             PROVE  Buffered(step', out', file', d')
    BY DEF BufferInv
<1> DEFINE roles == generateRolesAndBindings(d.config.ServiceAccount)
           all   == generateYAMLs(d)
           m     == generateConfigMap(d)
<1>1. d.groups = groups /\ d.config = input.config
      BY DEF d
<1>2. WellFormed(d.groups)
      BY <1>1
<1>3. /\ Begins(roles, all) /\ Begins(roles \o <<m>>, all) /\ Begins(all, all)
      /\ \A n \in 0 .. Len(all) : Begins(SubSeq(all, 1, n), all)
      BY <1>2, BeginningsOfFile
<1>4. Buffered(step, out, file, d)
      BY DEF BufferInv
<1>5. CASE step = "group" /\ step' \in {"group", "roles", "failed"} /\ UNCHANGED <<out, file>>
      BY <1>4, <1>5 DEF Buffered
<1>6. CASE (\E c \in todo : AddComponent(c)) \/ SortGroups
      BY <1>5, <1>6 DEF AddComponent, SortGroups
<1>7. CASE Rerun
      BY <1>7 DEF Rerun, Buffered
<1>8. ASSUME UNCHANGED <<input, run, groups>>
      PROVE  d' = d
      BY <1>8 DEF d, depId, image
<1> HIDE DEF roles, all, m
<1>9. CASE GenerateRoles
  <2>1. /\ step = "roles" /\ step' = "config" /\ file' = file
        /\ out' = out \o roles /\ d' = d
        BY <1>1, <1>8, <1>9 DEF GenerateRoles, roles
  <2>2. out' = roles
    <3>1. out = <<>>
          BY <1>4, <2>1 DEF Buffered
    <3>2. <<>> \o roles = roles
          BY DEF roles, generateRolesAndBindings
    <3> QED BY <2>1, <3>1, <3>2
  <2>3. file = <<>>
        BY <1>4, <2>1 DEF Buffered
  <2> QED BY <1>2, <1>3, <2>1, <2>2, <2>3 DEF Buffered, roles, all
<1>10. CASE GenerateConfigMap
  <2>1. /\ step = "config" /\ step' = "core" /\ file' = file
        /\ out' = Append(out, m) /\ d' = d
        BY <1>8, <1>10 DEF GenerateConfigMap, m
  <2>2. out' = roles \o <<m>>
    <3>1. out = roles
          BY <1>4, <2>1 DEF Buffered, roles
    <3>2. Append(roles, m) = roles \o <<m>>
          BY DEF roles, generateRolesAndBindings
    <3> QED BY <2>1, <3>1, <3>2
  <2>3. file = <<>>
        BY <1>4, <2>1 DEF Buffered
  <2> QED BY <1>2, <1>3, <2>1, <2>2, <2>3 DEF Buffered, roles, m, all
<1>11. CASE GenerateCore
  <2> DEFINE core == FlattenSeq([i \in DOMAIN groups |-> generateCoreYAMLs(d, groups[i])])
  <2>1. /\ step = "core" /\ step' = "write" /\ file' = file
        /\ out' = out \o core /\ d' = d
        BY <1>8, <1>11 DEF GenerateCore
  <2>2. out' = all
    <3>1. out = roles \o <<m>>
          BY <1>4, <2>1 DEF Buffered, roles, m
    <3>2. all = roles \o <<m>> \o core
          BY <1>1, Zenon DEF all, roles, m, generateYAMLs
    <3> HIDE DEF core
    <3> QED BY <2>1, <3>1, <3>2
  <2>3. file = <<>>
        BY <1>4, <2>1 DEF Buffered
  <2> HIDE DEF core
  <2> QED BY <1>2, <1>3, <2>1, <2>2, <2>3 DEF Buffered, all
<1>12. CASE WriteFile
  <2>1. step = "write" /\ out' = out /\ d' = d /\ out = all
        BY <1>4, <1>8, <1>12 DEF WriteFile, Buffered, all
  <2>2. CASE file' = out /\ step' = "done"
        BY <1>2, <1>3, <2>1, <2>2 DEF Buffered, all
  <2>3. CASE (\E n \in 0 .. Len(out) - 1 : file' = SubSeq(out, 1, n)) /\ step' = "failed"
    <3>1. PICK n \in 0 .. Len(all) - 1 : file' = SubSeq(all, 1, n)
          BY <2>1, <2>3
    <3>2. n \in 0 .. Len(all)
      <4>1. Len(all) \in Nat
            BY <1>3 DEF Begins
      <4> QED BY <4>1
    <3>3. Begins(file', all)
          BY <1>3, <3>1, <3>2
    <3> QED BY <1>2, <1>3, <2>1, <2>3, <3>3 DEF Buffered, all
  <2> QED BY <1>12, <2>2, <2>3 DEF WriteFile
<1>13. CASE Fail
  <2>1. step' = "failed" /\ UNCHANGED <<out, file>> /\ d' = d
        BY <1>8, <1>13 DEF Fail
  <2> QED BY <1>4, <2>1 DEF Buffered
<1>14. CASE UNCHANGED vars
  <2>1. UNCHANGED <<step, out, file>> /\ d' = d
        BY <1>8, <1>14 DEF vars
  <2> QED BY <1>4, <2>1
<1> QED BY <1>6, <1>7, <1>9, <1>10, <1>11, <1>12, <1>13, <1>14 DEF Next
-------------------------------------------------------------------------------
(* The whole invariant, and what follows from it. *)

WholeInv == IInv /\ GroupInv /\ MapInv /\ SortedInv /\ BufferInv

LEMMA Holds == Spec => []WholeInv
<1>1. Init => WholeInv
  <2>1. Init => StartedRun
        BY RunsAssumption DEF Init, Started, StartedRun
  <2>2. Init => SortedInv /\ BufferInv
        BY DEF Init, SortedInv, BufferInv, Buffered
  <2> QED BY <2>1, <2>2, StartedIInv, StartedGroups, StartedMap DEF StartedRun, WholeInv
<1>2. WholeInv /\ [Next]_vars => WholeInv'
      BY NextIInv, NextGroups, NextMap, NextSorted, NextBuffer, GroupsWellFormed DEF WholeInv
<1> QED BY <1>1, <1>2, PTL DEF Spec

\* Whenever the groups have been formed, they are as the model of the rollout
\* assumes: named differently, with no component and no listener in two of them
\* or twice in one (newDeployment, kube.go:672-730).
THEOREM GroupsAreWellFormed == Spec => []WellFormed(groups)
<1>1. WholeInv => WellFormed(groups)
      BY GroupsWellFormed DEF WholeInv
<1> QED BY <1>1, Holds, PTL

LEMMA BeginsRange ==
    ASSUME NEW s, NEW t, Begins(s, t), DOMAIN t = 1 .. Len(t), Len(t) \in Nat
    PROVE  Range(s) \subseteq Range(t)
<1>1. ASSUME NEW i \in DOMAIN s
      PROVE  i \in DOMAIN t /\ s[i] = t[i]
      BY DEF Begins
<1> QED BY <1>1 DEF Range

LEMMA Typed == WholeInv => TypeOK
<1> SUFFICES ASSUME WholeInv PROVE TypeOK
    OBVIOUS
<1>1. /\ input \in Inputs /\ run \in DOMAIN DepIds /\ step \in Steps
      /\ todo \subseteq DOMAIN components /\ externalPort \in Nat
      BY DEF WholeInv, IInv, KInv, MapInv
<1>2. ASSUME NEW n \in DOMAIN groupsByName
      PROVE  /\ groupsByName[n].Name = n
             /\ groupsByName[n].Components \in Seq(DOMAIN components)
             /\ groupsByName[n].listeners \in Seq(Listener)
      BY DEF WholeInv, MapInv, IsGroup, GroupInv, Belong
<1>3. Range(groups) \subseteq Range(groupsByName)
  <2>1. CASE groups = <<>>
        BY <2>1 DEF Range
  <2>2. CASE groups # <<>>
    <3>1. Sorted(groups)
          BY <2>2 DEF WholeInv, SortedInv
    <3>2. PICK names \in SetToSeqs(DOMAIN groupsByName) : Takes(groups, names)
          BY <3>1, SortedParts DEF WholeInv
    <3> QED BY <3>2 DEF Takes, Range
  <2> QED BY <2>1, <2>2
<1>4. ASSUME NEW s, s # <<>> => WellFormed(d.groups) /\ Begins(s, generateYAMLs(d)), NEW r \in Range(s)
      PROVE  [kind |-> r.kind] \in Resource
  <2>1. s # <<>>
        BY DEF Range
  <2>2. r \in Range(generateYAMLs(d))
    <3>1. /\ DOMAIN generateYAMLs(d) = 1 .. Len(generateYAMLs(d))
          /\ Len(generateYAMLs(d)) \in Nat
          BY <1>4, <2>1, FileParts
    <3> QED BY <1>4, <2>1, <3>1, BeginsRange
  <2>3. r.kind \in {"Role", "RoleBinding", "ConfigMap", "Service", "Deployment", "HorizontalPodAutoscaler"}
        BY <1>4, <2>1, <2>2, FileKinds
  <2> QED BY <2>3 DEF Resource
<1>5. \A s \in {out, file} : \A r \in Range(s) : [kind |-> r.kind] \in Resource
      BY <1>4 DEF WholeInv, BufferInv, Buffered
<1> QED BY <1>1, <1>2, <1>3, <1>5 DEF TypeOK

\* The types of the state: in particular every listener of every group has a
\* port, whatever the config file says (kube.go:732-775), d.groups has groups of
\* the map only, and the buffer and the file have resources of six kinds.
THEOREM TypeCorrect == Spec => []TypeOK
BY Holds, Typed, PTL

LEMMA FileIsOrdered == WholeInv => NeedsComeFirst
<1> SUFFICES ASSUME WholeInv, NEW i \in DOMAIN file
             PROVE  Needs(file[i]) \subseteq {<<file[j].kind, file[j].name>> : j \in 1 .. i - 1}
    BY DEF NeedsComeFirst
<1> DEFINE all == generateYAMLs(d)
           roles == generateRolesAndBindings(d.config.ServiceAccount)
           m == generateConfigMap(d)
           r == file[i]
<1>1. WellFormed(d.groups) /\ Begins(file, all)
  <2>1. file # <<>>
        OBVIOUS
  <2> QED BY <2>1 DEF WholeInv, BufferInv, Buffered
<1>2. /\ Len(all) \in Nat /\ DOMAIN all = 1 .. Len(all) /\ Len(all) >= 3
      /\ all[1] = roles[1] /\ all[2] = roles[2] /\ all[3] = m
      BY <1>1, FileParts
<1>3. /\ roles[1].kind = "Role" /\ roles[2].kind = "RoleBinding"
      /\ roles[2].role = roles[1].name /\ m.kind = "ConfigMap"
      BY FirstKinds
<1>4. i \in 1 .. Len(all) /\ \A j \in 1 .. i : j \in 1 .. Len(all) /\ file[j] = all[j]
  <2> HIDE DEF all
  <2> QED BY <1>1, <1>2 DEF Begins
<1>5. r \in Range(all)
  <2>1. r = all[i] /\ i \in DOMAIN all
        BY <1>2, <1>4
  <2> QED BY <2>1 DEF Range
<1>6. /\ r.kind \in {"Role", "RoleBinding", "ConfigMap", "Service", "Deployment", "HorizontalPodAutoscaler"}
      /\ r.kind = "RoleBinding" => r = roles[2]
      /\ r.kind = "Deployment" => \E x \in DOMAIN d.groups : r = buildDeployment(d, d.groups[x])
      BY <1>1, <1>5, FileKinds
<1>7. \A k \in 1 .. Len(all) : all[k].kind = "HorizontalPodAutoscaler" =>
         /\ k - 1 \in 1 .. Len(all)
         /\ all[k - 1].kind = "Deployment" /\ all[k - 1].name = all[k].target
      BY <1>1, <1>2, AutoscalerFollows
<1> HIDE DEF all, roles, m
<1>8. CASE r.kind = "RoleBinding"
  <2>1. Needs(r) = {<<"Role", r.role>>}
        BY <1>8 DEF Needs
  <2>2. i # 1
        BY <1>2, <1>3, <1>4, <1>8
  <2>3. 1 \in 1 .. i - 1
        BY <1>2, <1>4, <2>2
  <2>4. file[1].kind = "Role" /\ file[1].name = r.role
        BY <1>2, <1>3, <1>4, <1>6, <1>8
  <2> QED BY <2>1, <2>3, <2>4
<1>9. CASE r.kind = "Deployment"
  <2>1. Needs(r) = {<<"ConfigMap", r.configMap>>}
        BY <1>9 DEF Needs
  <2>2. i # 1 /\ i # 2 /\ i # 3
        BY <1>2, <1>3, <1>4, <1>9
  <2>3. 3 \in 1 .. i - 1 /\ 3 \in 1 .. i
        BY <1>2, <1>4, <2>2
  <2>4. file[3] = m
        BY <1>2, <1>4, <2>3
  <2>5. m.name = r.configMap
    <3>1. \A g : buildDeployment(d, g).configMap = m.name
          BY DEF buildDeployment, generateConfigMap, m
    <3> QED BY <1>6, <1>9, <3>1
  <2> QED BY <1>3, <2>1, <2>3, <2>4, <2>5
<1>10. CASE r.kind = "HorizontalPodAutoscaler"
  <2>1. Needs(r) = {<<"Deployment", r.target>>}
        BY <1>10 DEF Needs
  <2>2. r = all[i]
        BY <1>2, <1>4
  <2>3. i - 1 \in 1 .. Len(all) /\ all[i - 1].kind = "Deployment" /\ all[i - 1].name = r.target
        BY <1>4, <1>7, <1>10, <2>2
  <2>4. i - 1 \in 1 .. i - 1 /\ file[i - 1] = all[i - 1]
        BY <1>2, <1>4, <2>3
  <2> QED BY <2>1, <2>3, <2>4
<1>11. CASE r.kind \notin {"RoleBinding", "Deployment", "HorizontalPodAutoscaler"}
       BY <1>11 DEF Needs
<1> QED BY <1>8, <1>9, <1>10, <1>11

\* kubectl applies the file from top to bottom, and the file may have been cut
\* off by a failed write: nothing in it needs what does not precede it
\* (generateYAMLs, kube.go:362-408).
THEOREM NothingIsNeededEarly == Spec => []NeedsComeFirst
BY Holds, FileIsOrdered, PTL

LEMMA PodsAgreeWithConfig == WholeInv => ConfigAgreesWithResources
<1> SUFFICES ASSUME WholeInv, step = "done" PROVE ConfigAgreesWithResources
    BY DEF ConfigAgreesWithResources
<1>1. /\ file = generateYAMLs(d) /\ WellFormed(d.groups)
      /\ d.groups = groups /\ d.app = "app" /\ d.deploymentId = depId
  <2>1. file = generateYAMLs(d)
        BY DEF WholeInv, BufferInv, Buffered
  <2>2. d.groups = groups /\ d.app = "app" /\ d.deploymentId = depId
        BY DEF d
  <2> QED BY <2>1, <2>2, GroupsWellFormed DEF WholeInv
<1>2. todo = {} /\ Sorted(groups)
      BY DEF WholeInv, SortedInv
<1>3. PICK names \in SetToSeqs(DOMAIN groupsByName) : Takes(groups, names)
      BY <1>2, SortedParts DEF WholeInv
<1> DEFINE cm == generateConfigMap(d)
           deps == OfKind(file, "Deployment")
           svcs == OfKind(file, "Service")
<1>4. cm \in OfKind(file, "ConfigMap")
      BY <1>1, FileHas, FirstKinds DEF OfKind
<1>5. deps = {r \in Range(generateYAMLs(d)) : r.kind = "Deployment"}
      BY <1>1 DEF OfKind
<1>6. svcs = {r \in Range(generateYAMLs(d)) : r.kind = "Service"}
      BY <1>1 DEF OfKind
<1> HIDE DEF deps, svcs, cm
<1>7. ASSUME NEW c \in DOMAIN components
      PROVE  \E dep \in deps :
                /\ {r \in deps : c \in Range(r.container.args)} = {dep}
                /\ dep.configMap = cm.name
                /\ dep.podName = deploymentName(d.app, cm.Groups[c], cm.DeploymentId)
                /\ \A l \in Range(components[c]) :
                      /\ [name |-> l, containerPort |-> GetListenerAddress(cm, l)] \in dep.container.ports
                      /\ {<<s.selector, s.targetPort>> : s \in {r \in svcs : r.listener = l}}
                           = {<<dep.podName, GetListenerAddress(cm, l)>>}
  <2>1. c \in Visited
        BY <1>2 DEF Visited
  <2>2. /\ GroupNameOf[c] \in DOMAIN groupsByName
        /\ \E x : Places(groupsByName[GroupNameOf[c]].Components, c) = {x}
        /\ \A l \in Range(components[c]) :
              \E x : Named(groupsByName[GroupNameOf[c]].listeners, l) = {x}
        BY <2>1 DEF WholeInv, GroupInv, Placed
  <2>3. PICK i \in DOMAIN groups : groups[i] = groupsByName[GroupNameOf[c]]
        BY <1>3, <2>2 DEF Takes, Range
  <2>4. c \in Range(groups[i].Components)
        BY <2>2, <2>3 DEF Places, Range
  <2> DEFINE dep == buildDeployment(d, d.groups[i])
  <2>5. /\ dep \in deps
        /\ {r \in deps : c \in Range(r.container.args)} = {dep}
        /\ dep.configMap = cm.name
        /\ dep.podName = deploymentName(d.app, cm.Groups[c], cm.DeploymentId)
        BY <1>1, <1>5, <2>4, OneDeployment DEF cm
  <2>6. ASSUME NEW l \in Range(components[c])
        PROVE  /\ [name |-> l, containerPort |-> GetListenerAddress(cm, l)] \in dep.container.ports
               /\ {<<s.selector, s.targetPort>> : s \in {r \in svcs : r.listener = l}}
                    = {<<dep.podName, GetListenerAddress(cm, l)>>}
    <3>1. PICK lis \in Range(groups[i].listeners) : lis.name = l
          BY <2>2, <2>3 DEF Named, Range
    <3>2. /\ [name |-> lis.name, containerPort |-> GetListenerAddress(cm, lis.name)] \in dep.container.ports
          /\ {<<s.selector, s.targetPort>> : s \in {r \in svcs : r.listener = lis.name}}
               = {<<dep.podName, GetListenerAddress(cm, lis.name)>>}
          BY <1>1, <1>6, OneService DEF cm
    <3> QED BY <3>1, <3>2
  <2> HIDE DEF dep
  <2> QED BY <2>5, <2>6
<1> QED BY <1>4, <1>7 DEF ConfigAgreesWithResources, deps, svcs

\* Once the file is written, the pods agree with what their babysitters read
\* from the ConfigMap: the name by which a babysitter selects the pods of a
\* component is the label of exactly the pods that run it, and the port it gives
\* a listener is one of those pods' ports, to which exactly one Service forwards
\* (kube.go:145-362, 555-610).
THEOREM ConfigAgrees == Spec => []ConfigAgreesWithResources
BY Holds, PodsAgreeWithConfig, PTL
-------------------------------------------------------------------------------
(* Two runs. *)

LEMMA FormedIsCanonical ==
    ASSUME WholeInv, todo = {}, NEW gs, Sorted(gs)
    PROVE  Canonical(gs, components, GroupNameOf, input.config)
<1>1. PICK names \in SetToSeqs(DOMAIN groupsByName) : InOrder(names) /\ Takes(gs, names)
      BY SortedParts DEF WholeInv
<1>2. Visited = DOMAIN components /\ DOMAIN GroupNameOf = DOMAIN components
      BY DEF Visited, GroupNameOf
<1>3. DOMAIN groupsByName = Range(GroupNameOf)
  <2>1. ASSUME NEW n \in DOMAIN groupsByName
        PROVE  n \in Range(GroupNameOf)
        BY <1>2 DEF WholeInv, MapInv, IsGroup, Range
  <2>2. ASSUME NEW c \in DOMAIN components
        PROVE  GroupNameOf[c] \in DOMAIN groupsByName
        BY <1>2 DEF WholeInv, GroupInv, Placed
  <2> QED BY <1>2, <2>1, <2>2 DEF Range
<1>4. DOMAIN gs = DOMAIN names /\ IsFiniteSet(DOMAIN groupsByName)
      BY <1>1 DEF Takes, WholeInv, MapInv
<1>5. ASSUME NEW i \in DOMAIN names
      PROVE  /\ gs[i].Name = names[i]
             /\ Range(gs[i].Components) = {c \in DOMAIN components : GroupNameOf[c] = names[i]}
             /\ {l.name : l \in Range(gs[i].listeners)} =
                   UNION {Range(components[c]) :
                            c \in {e \in DOMAIN components : GroupNameOf[e] = names[i]}}
             /\ \E c \in DOMAIN components :
                   GroupNameOf[c] = names[i] /\ Specs(gs[i]) = Specs(configGroup(input.config, c))
  <2> DEFINE n == names[i]
             g == gs[i]
  <2>1. n \in DOMAIN groupsByName /\ g = groupsByName[n]
        BY <1>1, <1>4 DEF Takes
  <2>2. IsGroup(g, n, DOMAIN components, GroupNameOf, input.config)
        BY <1>2, <2>1 DEF WholeInv, MapInv
  <2>3. /\ \A c \in Range(g.Components) : c \in DOMAIN components /\ GroupNameOf[c] = n
        /\ \A l \in Range(g.listeners) :
              \E c \in DOMAIN components : GroupNameOf[c] = n /\ l.name \in Range(components[c])
        BY <1>2, <2>1 DEF WholeInv, GroupInv, Belong
  <2>4. ASSUME NEW c \in DOMAIN components, GroupNameOf[c] = n
        PROVE  /\ \E x : Places(g.Components, c) = {x}
               /\ \A l \in Range(components[c]) : \E x : Named(g.listeners, l) = {x}
    <3>1. c \in Visited /\ groupsByName[GroupNameOf[c]] = g
          BY <1>2, <2>1, <2>4
    <3>2. /\ \E x : Places(groupsByName[GroupNameOf[c]].Components, c) = {x}
          /\ \A l \in Range(components[c]) :
                \E x : Named(groupsByName[GroupNameOf[c]].listeners, l) = {x}
          BY <3>1 DEF WholeInv, GroupInv, Placed
    <3> HIDE DEF g
    <3> QED BY <3>1, <3>2
  <2> HIDE DEF n, g
  <2>5. ASSUME NEW c \in DOMAIN components, GroupNameOf[c] = n
        PROVE  /\ c \in Range(g.Components)
               /\ \A l \in Range(components[c]) : \E m \in Range(g.listeners) : m.name = l
    <3>1. c \in Range(g.Components)
      <4>1. PICK x : Places(g.Components, c) = {x}
            BY <2>4, <2>5
      <4> QED BY <4>1 DEF Places, Range
    <3>2. ASSUME NEW l \in Range(components[c])
          PROVE  \E m \in Range(g.listeners) : m.name = l
      <4>1. PICK x : Named(g.listeners, l) = {x}
            BY <2>4, <2>5
      <4> QED BY <4>1 DEF Named, Range
    <3> QED BY <3>1, <3>2
  <2>6. Range(g.Components) = {c \in DOMAIN components : GroupNameOf[c] = n}
        BY <2>3, <2>5
  <2>7. {l.name : l \in Range(g.listeners)} =
           UNION {Range(components[c]) : c \in {e \in DOMAIN components : GroupNameOf[e] = n}}
        BY <2>3, <2>5
  <2> QED BY <2>2, <2>6, <2>7 DEF IsGroup, n, g
<1> QED BY <1>1, <1>3, <1>4, <1>5 DEF Canonical

LEMMA NextOutline == WholeInv /\ OutlineInv /\ [Next]_vars => OutlineInv'
<1> SUFFICES ASSUME WholeInv, OutlineInv, [Next]_vars PROVE OutlineInv'
    OBVIOUS
<1>1. input' = input
      BY DEF Next, vars, AddComponent, SortGroups, GenerateRoles, GenerateConfigMap, Fail,
             GenerateCore, WriteFile, Rerun
<1>2. components' = components /\ GroupNameOf' = GroupNameOf
      BY <1>1 DEF components, GroupNameOf
<1>3. CASE SortGroups
  <2>1. Sorted(groups') /\ todo = {} /\ previous' = previous
        BY <1>3 DEF SortGroups, Sorted, InOrder
  <2>2. Canonical(groups', components, GroupNameOf, input.config)
        BY <2>1, FormedIsCanonical
  <2> QED BY <1>1, <1>2, <2>1, <2>2 DEF OutlineInv
<1>4. CASE Rerun
  <2>1. groups' = <<>> /\ previous' \in {groups, previous}
        BY <1>4 DEF Rerun
  <2> QED BY <1>1, <1>2, <2>1 DEF OutlineInv
<1>5. CASE UNCHANGED <<groups, previous>>
      BY <1>1, <1>2, <1>5 DEF OutlineInv
<1> QED BY <1>3, <1>4, <1>5 DEF Next, vars, AddComponent, GenerateRoles, GenerateConfigMap, Fail,
                                 GenerateCore, WriteFile

\* One name, one rank.
LEMMA RanksOfNames ==
    ASSUME input \in Inputs
    PROVE  \A n \in Range(GroupNameOf) : Rank[n] \in Nat
<1>1. \A c \in DOMAIN components : Rank[configGroup(input.config, c).Name] \in Nat
      BY RankAssumption DEF components
<1> QED BY <1>1 DEF GroupNameOf, Range

LEMMA OneOutline ==
    ASSUME input \in Inputs, NEW gs, NEW hs,
           Canonical(gs, components, GroupNameOf, input.config),
           Canonical(hs, components, GroupNameOf, input.config)
    PROVE  Outline(gs) = Outline(hs)
<1> DEFINE S == Range(GroupNameOf)
           Is(xs, names) ==
              /\ InOrder(names) /\ DOMAIN xs = DOMAIN names
              /\ \A i \in DOMAIN names :
                    /\ xs[i].Name = names[i]
                    /\ Range(xs[i].Components) = {c \in DOMAIN components : GroupNameOf[c] = names[i]}
                    /\ {l.name : l \in Range(xs[i].listeners)} =
                          UNION {Range(components[c]) :
                                   c \in {e \in DOMAIN components : GroupNameOf[e] = names[i]}}
                    /\ \E c \in DOMAIN components :
                          GroupNameOf[c] = names[i] /\ Specs(xs[i]) = Specs(configGroup(input.config, c))
<1>1. IsFiniteSet(S) /\ \E names \in SetToSeqs(S) : Is(gs, names)
      BY DEF Canonical
<1>2. \E names \in SetToSeqs(S) : Is(hs, names)
      BY DEF Canonical
<1>3. PICK p \in SetToSeqs(S) : Is(gs, p)
      BY <1>1
<1>4. PICK q \in SetToSeqs(S) : Is(hs, q)
      BY <1>2
<1>5. p = q
  <2> DEFINE n == Cardinality(S)
  <2>1. /\ n \in Nat /\ p \in [1 .. n -> S] /\ q \in [1 .. n -> S]
        /\ S \subseteq {p[j] : j \in 1 .. n} /\ S \subseteq {q[j] : j \in 1 .. n}
    <3>1. p \in Seq(S) /\ Len(p) = n /\ DOMAIN p = 1 .. n /\ Range(p) = S /\ n \in Nat
          BY <1>1, Enumeration
    <3>2. q \in Seq(S) /\ Len(q) = n /\ DOMAIN q = 1 .. n /\ Range(q) = S
          BY <1>1, Enumeration
    <3> HIDE DEF S, n
    <3> QED BY <3>1, <3>2 DEF Range
  <2>2. Increasing(p, n, Rank) /\ Increasing(q, n, Rank)
    <3>1. DOMAIN p = 1 .. n /\ DOMAIN q = 1 .. n
          BY <2>1
    <3>2. InOrder(p) /\ InOrder(q)
          BY <1>3, <1>4
    <3> QED BY <3>1, <3>2 DEF InOrder, Increasing
  <2>3. \A x \in S : Rank[x] \in Nat
        BY RanksOfNames
  <2>4. HasAll(p, n, S) /\ HasAll(q, n, S) /\ n \in Nat
        BY <2>1 DEF HasAll
  <2> HIDE DEF S, n, Is
  <2> QED BY <2>2, <2>3, <2>4, OneOrder
<1>6. Is(gs, p) /\ Is(hs, p)
      BY <1>3, <1>4, <1>5
<1>7. DOMAIN gs = DOMAIN hs
      BY <1>6
<1>8. ASSUME NEW i \in DOMAIN gs
      PROVE  /\ gs[i].Name = hs[i].Name
             /\ Range(gs[i].Components) = Range(hs[i].Components)
             /\ {l.name : l \in Range(gs[i].listeners)} = {l.name : l \in Range(hs[i].listeners)}
             /\ Clashing(input.config) \/ Specs(gs[i]) = Specs(hs[i])
  <2>1. i \in DOMAIN p
        BY <1>6
  <2>2. PICK c \in DOMAIN components :
           GroupNameOf[c] = p[i] /\ Specs(gs[i]) = Specs(configGroup(input.config, c))
        BY <1>6, <2>1
  <2>3. PICK e \in DOMAIN components :
           GroupNameOf[e] = p[i] /\ Specs(hs[i]) = Specs(configGroup(input.config, e))
        BY <1>6, <2>1
  <2>4. Clashing(input.config) \/ Specs(gs[i]) = Specs(hs[i])
    <3> DEFINE g == configGroup(input.config, c)
               h == configGroup(input.config, e)
    <3>1. g.Name = h.Name
          BY <2>2, <2>3 DEF GroupNameOf
    <3>2. Clashing(input.config) \/ newGroup(g) = newGroup(h)
          BY <3>1 DEF Clashing
    <3> HIDE DEF g, h
    <3>3. newGroup(g) = newGroup(h) => Specs(g) = Specs(h)
      <4>1. Specs(newGroup(g)) = Specs(g) /\ Specs(newGroup(h)) = Specs(h)
            BY DEF newGroup, Specs
      <4> QED BY <4>1
    <3> QED BY <2>2, <2>3, <3>2, <3>3 DEF g, h
  <2>5. gs[i].Name = hs[i].Name
        BY <1>6, <2>1
  <2>6. Range(gs[i].Components) = Range(hs[i].Components)
        BY <1>6, <2>1
  <2>7. {l.name : l \in Range(gs[i].listeners)} = {l.name : l \in Range(hs[i].listeners)}
        BY <1>6, <2>1
  <2> QED BY <2>4, <2>5, <2>6, <2>7
<1> DEFINE Line(g) ==
              [name |-> g.Name, components |-> Range(g.Components),
               listeners |-> {l.name : l \in Range(g.listeners)},
               specs |-> IF Clashing(input.config) THEN <<>>
                         ELSE <<g.StorageSpec, g.ResourceSpec, g.ScalingSpec>>]
<1>9. ASSUME NEW i \in DOMAIN gs
      PROVE  Line(gs[i]) = Line(hs[i])
      BY <1>8 DEF Specs
<1>10. Outline(gs) = [i \in DOMAIN gs |-> Line(gs[i])] /\ Outline(hs) = [i \in DOMAIN hs |-> Line(hs[i])]
       BY DEF Outline
<1> HIDE DEF Line
<1> QED BY <1>7, <1>9, <1>10

\* Two runs on one input write the same groups in the same order, with the same
\* components, listeners and specs, in whatever order Go visits the components:
\* what the sort by name is for (kube.go:717-721).
THEOREM RerunsAgree == Spec => []RerunKeepsOutline
<1>1. Init => OutlineInv
      BY DEF Init, OutlineInv
<1>2. WholeInv /\ OutlineInv => RerunKeepsOutline
  <2> SUFFICES ASSUME WholeInv, OutlineInv, previous # <<>>, groups # <<>>
               PROVE  Outline(groups) = Outline(previous)
      BY DEF RerunKeepsOutline
  <2>1. input \in Inputs
        BY DEF WholeInv, IInv, KInv
  <2> QED BY <2>1, OneOutline DEF OutlineInv
<1> QED BY <1>1, <1>2, Holds, NextOutline, PTL DEF Spec
-------------------------------------------------------------------------------
(* The header. *)

\* The Service of a listener has the name that the config file gives it, if it
\* gives one, and otherwise one of this version.
ServiceName(name) ==
    IF GivenName(name) # "" THEN <<GivenName(name)>> ELSE <<name, depId>>

LEMMA ServiceNameOf ==
    ASSUME input \in Inputs, NEW name \in STRING, NEW port \in Nat
    PROVE  LET l == newListener(depId, input.config, name, port)
           IN  l.name = name /\ l.serviceName = ServiceName(name)
<1> DEFINE ls      == input.config.Listeners
           entries == {i \in DOMAIN ls : ls[i].Name = name}
           e       == ls[Min(entries)]
           default == [name |-> name, serviceName |-> <<name, depId>>, public |-> FALSE, port |-> port]
           l       == newListener(depId, input.config, name, port)
<1>1. l = IF entries = {} THEN default ELSE Configured(default, e)
      BY Zenon DEF newListener, Configured
<1>2. GivenName(name) = IF entries = {} THEN "" ELSE e.ServiceName
      BY Zenon DEF GivenName
<1>3. default.name = name /\ default.serviceName = <<name, depId>>
      OBVIOUS
<1>4. /\ Configured(default, e).name = name
      /\ Configured(default, e).serviceName =
            IF e.ServiceName # "" THEN <<e.ServiceName>> ELSE <<name, depId>>
      BY DEF Configured
<1> HIDE DEF default, entries, e, l
<1>5. CASE entries = {}
      BY <1>1, <1>2, <1>3, <1>5 DEF l, ServiceName
<1>6. CASE entries # {}
      BY <1>1, <1>2, <1>4, <1>6 DEF l, ServiceName
<1> QED BY <1>5, <1>6

LEMMA OneTuple ==
    ASSUME NEW a, NEW b, NEW c, NEW e
    PROVE  /\ <<a>> = <<b>> => a = b
           /\ <<a, c>> = <<b, e>> => a = b
           /\ <<a>> # <<b, e>>
<1>1. Len(<<a>>) = 1 /\ Len(<<b, e>>) = 2
      OBVIOUS
<1>2. <<a>> # <<b, e>>
      BY <1>1
<1> QED BY <1>2

\* The pairs of listeners to which the config file gives one Service name.
SharedNames ==
    {p \in STRING \X STRING : GivenName(p[1]) # "" /\ GivenName(p[1]) = GivenName(p[2])}

LEMMA ServicesOfListeners ==
    ASSUME input \in Inputs, NEW l \in Made, NEW m \in Made, l.serviceName = m.serviceName
    PROVE  l.name = m.name \/ <<l.name, m.name>> \in SharedNames
<1>1. \A r \in Made : r.name \in STRING /\ r.serviceName = ServiceName(r.name)
  <2> TAKE r \in Made
  <2>1. PICK name \in STRING, port \in Nat : r = newListener(depId, input.config, name, port)
        BY DEF Made
  <2>2. r.name = name /\ r.serviceName = ServiceName(name)
        BY <2>1, ServiceNameOf
  <2> QED BY <2>1, <2>2
<1>2. /\ l.name \in STRING /\ m.name \in STRING
      /\ ServiceName(l.name) = ServiceName(m.name)
      BY <1>1
<1>3. \A x, y : <<x, depId>> = <<y, depId>> => x = y
      BY OneTuple
<1>4. \A x, y : <<x>> # <<y, depId>> /\ (<<x>> = <<y>> => x = y)
      BY OneTuple
<1>5. CASE GivenName(l.name) = "" /\ GivenName(m.name) = ""
      BY <1>2, <1>3, <1>5 DEF ServiceName
<1>6. CASE GivenName(l.name) # "" /\ GivenName(m.name) # ""
  <2>1. GivenName(l.name) = GivenName(m.name)
        BY <1>2, <1>4, <1>6 DEF ServiceName
  <2> QED BY <1>2, <1>6, <2>1 DEF SharedNames
<1>7. ASSUME NEW x, NEW y, GivenName(x) # "", GivenName(y) = "", ServiceName(x) = ServiceName(y)
      PROVE  FALSE
      BY <1>4, <1>7 DEF ServiceName
<1> QED BY <1>2, <1>5, <1>6, <1>7

\* Each Service of the groups is of one listener, but for those names.
LEMMA ServicesAreOwn ==
    ASSUME WholeInv
    PROVE  OwnNames(groups, SharedNames)
<1>1. CASE groups = <<>>
      BY <1>1 DEF OwnNames
<1>2. CASE groups # <<>>
  <2>1. PICK names \in SetToSeqs(DOMAIN groupsByName) : Takes(groups, names)
        BY <1>2, SortedParts DEF WholeInv, SortedInv
  <2>2. \A i \in DOMAIN groups : groups[i].listeners \in Seq(Made)
        BY <2>1 DEF Takes, WholeInv, IInv, KInv, PortInv
  <2>3. \A i \in DOMAIN groups : \A l \in Range(groups[i].listeners) : l \in Made
    <3> TAKE i \in DOMAIN groups
    <3>1. groups[i].listeners \in Seq(Made)
          BY <2>2
    <3> QED BY <3>1, ElementIn DEF Range
  <2>4. input \in Inputs
        BY DEF WholeInv, IInv, KInv
  <2> QED BY <2>3, <2>4, ServicesOfListeners DEF OwnNames
<1> QED BY <1>1, <1>2

LEMMA HeaderOfFile == WholeInv => HeaderIsTrue
<1> SUFFICES ASSUME WholeInv, step = "done" PROVE HeaderIsTrue
    BY DEF HeaderIsTrue
<1>1. file = generateYAMLs(d) /\ d.groups = groups
      BY DEF WholeInv, BufferInv, Buffered, d
<1>2. WellFormed(d.groups) /\ OwnNames(d.groups, SharedNames)
      BY <1>1, GroupsWellFormed, ServicesAreOwn DEF WholeInv
<1>3. \A i, j \in DOMAIN file :
         file[i].kind = file[j].kind /\ file[i].name = file[j].name
            => i = j \/ Sharing(file[i], file[j], SharedNames)
      BY <1>1, <1>2, OneOfEachName
<1>4. \A r, s : Sharing(r, s, SharedNames) => GivenOneName(r, s)
      BY DEF Sharing, SharedNames, GivenOneName
<1>5. HeaderSays(d, file)
      BY <1>1, <1>2, HeaderParts
<1>6. /\ Each("Deployment", LAMBDA r : r.container.args) = header(d).Groups
      /\ Each("Service", LAMBDA r : r.listener) = header(d).Listeners
      /\ Each("HorizontalPodAutoscaler", LAMBDA r : r.target) = Each("Deployment", LAMBDA r : r.name)
      BY <1>5, Zenon DEF HeaderSays, Each
<1>7. \A r \in Range(file) : Selected(r) <=> r.kind \notin {"Role", "RoleBinding"}
      BY <1>5 DEF HeaderSays, Selected
<1> QED BY <1>3, <1>4, <1>6, <1>7 DEF HeaderIsTrue

\* The header of the file is true: the Deployments, autoscalers and Services it
\* speaks of are in the file, each with a name of its own, but for the Services
\* to which the config file gives one name; and the kinds and the version of its
\* command are those of all but the roles (kube.go:186, 426-457).
THEOREM HeaderTells == Spec => []HeaderIsTrue
BY Holds, HeaderOfFile, PTL
===============================================================================
