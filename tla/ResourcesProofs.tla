---------------------------- MODULE ResourcesProofs ----------------------------
(***************************************************************************)
(* Facts about the generated resources, for any deployment: what the file  *)
(* of a version consists of, and what the babysitters' config says of a    *)
(* listener and of a component.  The proofs about generating the file      *)
(* (KubeDeploymentProofs) and about applying it (RolloutProofs) share them.*)
(***************************************************************************)
EXTENDS Resources, SequenceProofs

\* The resources of one group.
CoreOf(d, g) ==
    {buildDeployment(d, g), buildAutoscaler(d, g)}
      \cup {buildListenerService(d, g, l) : l \in Range(g.listeners)}

LEMMA TwoMore ==
    ASSUME NEW S, NEW n \in Nat, NEW s \in [1 .. n -> S], NEW x \in S, NEW y \in S
    PROVE  /\ s \o <<x, y>> \in Seq(S) /\ Len(s \o <<x, y>>) = n + 2
           /\ \A i \in 1 .. n : (s \o <<x, y>>)[i] = s[i]
           /\ (s \o <<x, y>>)[n + 1] = x
           /\ (s \o <<x, y>>)[n + 2] = y
<1>1. s \in Seq(S) /\ Len(s) = n
      OBVIOUS
<1> QED BY <1>1

\* They are written in this order.
LEMMA CoreParts ==
    ASSUME NEW d, NEW g, NEW L, g.listeners \in Seq(L)
    PROVE  /\ Len(g.listeners) \in Nat /\ DOMAIN g.listeners = 1 .. Len(g.listeners)
           /\ generateCoreYAMLs(d, g) \in Seq(CoreOf(d, g))
           /\ Len(generateCoreYAMLs(d, g)) = Len(g.listeners) + 2
           /\ \A i \in 1 .. Len(g.listeners) :
                 generateCoreYAMLs(d, g)[i] = buildListenerService(d, g, g.listeners[i])
           /\ generateCoreYAMLs(d, g)[Len(g.listeners) + 1] = buildDeployment(d, g)
           /\ generateCoreYAMLs(d, g)[Len(g.listeners) + 2] = buildAutoscaler(d, g)
<1> DEFINE n == Len(g.listeners)
           S == CoreOf(d, g)
           svc(i) == buildListenerService(d, g, g.listeners[i])
           s == [i \in 1 .. n |-> svc(i)]
           x == buildDeployment(d, g)
           y == buildAutoscaler(d, g)
<1>1. n \in Nat /\ DOMAIN g.listeners = 1 .. n
      OBVIOUS
<1>2. generateCoreYAMLs(d, g) = s \o <<x, y>>
      BY <1>1 DEF generateCoreYAMLs
<1>3. x \in S /\ y \in S
      BY DEF CoreOf
<1>4. ASSUME NEW i \in 1 .. n
      PROVE  svc(i) \in S
  <2>1. g.listeners[i] \in Range(g.listeners)
        BY <1>1 DEF Range
  <2> QED BY <2>1 DEF CoreOf
<1> HIDE DEF x, y, n, S, svc
<1>5. s \in [1 .. n -> S] /\ \A i \in 1 .. n : s[i] = svc(i)
      BY <1>4
<1> HIDE DEF s
<1>6. /\ s \o <<x, y>> \in Seq(S) /\ Len(s \o <<x, y>>) = n + 2
      /\ \A i \in 1 .. n : (s \o <<x, y>>)[i] = svc(i)
      /\ (s \o <<x, y>>)[n + 1] = x
      /\ (s \o <<x, y>>)[n + 2] = y
  <2>1. /\ s \o <<x, y>> \in Seq(S) /\ Len(s \o <<x, y>>) = n + 2
        /\ \A i \in 1 .. n : (s \o <<x, y>>)[i] = s[i]
        /\ (s \o <<x, y>>)[n + 1] = x
        /\ (s \o <<x, y>>)[n + 2] = y
        BY <1>1, <1>3, <1>5, TwoMore
  <2> QED BY <1>5, <2>1
<1> QED BY <1>1, <1>2, <1>6 DEF x, y, n, S, svc

LEMMA CoreRange ==
    ASSUME NEW d, NEW g, NEW L, g.listeners \in Seq(L)
    PROVE  Range(generateCoreYAMLs(d, g)) = CoreOf(d, g)
<1> DEFINE n == Len(g.listeners)
           s == generateCoreYAMLs(d, g)
           S == CoreOf(d, g)
           svc(l) == buildListenerService(d, g, l)
           x == buildDeployment(d, g)
           y == buildAutoscaler(d, g)
<1>1. /\ n \in Nat /\ DOMAIN g.listeners = 1 .. n
      /\ s \in Seq(S) /\ Len(s) = n + 2
      /\ \A i \in 1 .. n : s[i] = svc(g.listeners[i])
      /\ s[n + 1] = x /\ s[n + 2] = y
      BY CoreParts
<1>2. S = {x, y} \cup {svc(l) : l \in Range(g.listeners)}
      BY DEF CoreOf
<1> HIDE DEF x, y, n, S, svc, s
<1>3. DOMAIN s = 1 .. n + 2 /\ n + 1 \in DOMAIN s /\ n + 2 \in DOMAIN s /\ \A i \in 1 .. n : i \in DOMAIN s
      BY <1>1
<1>4. x \in Range(s) /\ y \in Range(s)
      BY <1>1, <1>3 DEF Range
<1>5. ASSUME NEW l \in Range(g.listeners)
      PROVE  svc(l) \in Range(s)
  <2>1. PICK i \in 1 .. n : l = g.listeners[i]
        BY <1>1 DEF Range
  <2> QED BY <1>1, <1>3, <2>1 DEF Range
<1>6. Range(s) \subseteq S
      BY <1>1, <1>3 DEF Range
<1> QED BY <1>2, <1>4, <1>5, <1>6 DEF s, S
-------------------------------------------------------------------------------
(* All groups. *)

AllCore(d) == UNION {CoreOf(d, d.groups[i]) : i \in DOMAIN d.groups}

EachCore(d) == [i \in DOMAIN d.groups |-> generateCoreYAMLs(d, d.groups[i])]

LEMMA GroupsAreSequence ==
    ASSUME NEW groups, WellFormed(groups)
    PROVE  /\ groups \in Seq(Range(groups))
           /\ Len(groups) \in Nat /\ DOMAIN groups = 1 .. Len(groups)
           /\ \A i \in DOMAIN groups : groups[i].listeners \in Seq(Listener)
BY DEF WellFormed

LEMMA CoreIsSequence ==
    ASSUME NEW d, WellFormed(d.groups)
    PROVE  /\ EachCore(d) \in Seq(Seq(AllCore(d)))
           /\ Len(EachCore(d)) = Len(d.groups)
           /\ \A i \in DOMAIN d.groups : EachCore(d)[i] = generateCoreYAMLs(d, d.groups[i])
<1> DEFINE core(i) == generateCoreYAMLs(d, d.groups[i])
           n == Len(d.groups)
           S == AllCore(d)
<1>1. n \in Nat /\ DOMAIN d.groups = 1 .. n
      BY GroupsAreSequence
<1>2. ASSUME NEW i \in 1 .. n
      PROVE  core(i) \in Seq(S)
  <2>1. d.groups[i].listeners \in Seq(Listener)
        BY <1>1, GroupsAreSequence
  <2>2. core(i) \in Seq(CoreOf(d, d.groups[i]))
        BY <2>1, CoreParts
  <2>3. CoreOf(d, d.groups[i]) \subseteq S
        BY <1>1 DEF AllCore
  <2> HIDE DEF core, S
  <2> QED BY <2>2, <2>3
<1>3. EachCore(d) = [i \in 1 .. n |-> core(i)]
      BY <1>1 DEF EachCore
<1> HIDE DEF core, n, S
<1>4. [i \in 1 .. n |-> core(i)] \in Seq(Seq(S)) /\ Len([i \in 1 .. n |-> core(i)]) = n
      BY <1>1, <1>2
<1>5. \A i \in 1 .. n : EachCore(d)[i] = core(i)
      BY <1>3
<1> QED BY <1>1, <1>3, <1>4, <1>5 DEF core, n, S

LEMMA CoreOfAllGroups ==
    ASSUME NEW d, WellFormed(d.groups)
    PROVE  FlattenSeq(EachCore(d)) \in Seq(AllCore(d)) /\ Range(FlattenSeq(EachCore(d))) = AllCore(d)
<1> DEFINE ss == EachCore(d)
           S == AllCore(d)
<1>1. /\ ss \in Seq(Seq(S)) /\ Len(ss) = Len(d.groups)
      /\ \A i \in DOMAIN d.groups : ss[i] = generateCoreYAMLs(d, d.groups[i])
      BY CoreIsSequence
<1>2. DOMAIN ss = DOMAIN d.groups
      BY DEF EachCore
<1>3. ASSUME NEW i \in DOMAIN d.groups
      PROVE  Range(ss[i]) = CoreOf(d, d.groups[i])
      BY <1>1, GroupsAreSequence, CoreRange
<1> HIDE DEF ss
<1>4. /\ FlattenSeq(ss) \in Seq(S)
      /\ \A x : x \in Range(FlattenSeq(ss)) <=> \E i \in DOMAIN ss : x \in Range(ss[i])
  <2> HIDE DEF S
  <2> QED BY <1>1, FlattenRange
<1>5. \A x : x \in S <=> \E i \in DOMAIN d.groups : x \in CoreOf(d, d.groups[i])
      BY DEF AllCore
<1>6. \A x : x \in Range(FlattenSeq(ss)) <=> x \in S
  <2> HIDE DEF S
  <2> QED BY <1>2, <1>3, <1>4, <1>5
<1> HIDE DEF S
<1>7. Range(FlattenSeq(ss)) = S
      BY <1>6
<1> QED BY <1>4, <1>7 DEF ss, S

LEMMA ThreeThen ==
    ASSUME NEW a, NEW b, NEW m, NEW S, NEW t \in Seq(S)
    PROVE  LET f == <<a, b>> \o <<m>> \o t
           IN  /\ Len(t) \in Nat /\ DOMAIN t = 1 .. Len(t)
               /\ Len(f) = Len(t) + 3 /\ DOMAIN f = 1 .. Len(f)
               /\ f[1] = a /\ f[2] = b /\ f[3] = m
               /\ \A k \in 1 .. Len(t) : f[k + 3] = t[k]
<1> DEFINE U == S \cup {a, b, m}
<1>1. <<a, b>> \in Seq(U) /\ <<m>> \in Seq(U) /\ t \in Seq(U)
      OBVIOUS
<1>2. <<a, b>> \o <<m>> \in Seq(U) /\ Len(<<a, b>> \o <<m>>) = 3
      BY <1>1
<1>3. /\ (<<a, b>> \o <<m>>)[1] = a /\ (<<a, b>> \o <<m>>)[2] = b
      /\ (<<a, b>> \o <<m>>)[3] = m
      BY <1>1
<1> HIDE DEF U
<1> QED BY <1>1, <1>2, <1>3

\* The file: the roles, the ConfigMap, and then the resources of the groups.
LEMMA FileParts ==
    ASSUME NEW d, WellFormed(d.groups)
    PROVE  LET f     == generateYAMLs(d)
               roles == generateRolesAndBindings(d.config.ServiceAccount)
           IN  /\ f \in Seq({roles[1], roles[2], generateConfigMap(d)} \cup AllCore(d))
               /\ Len(f) \in Nat /\ DOMAIN f = 1 .. Len(f) /\ Len(f) >= 3
               /\ f[1] = roles[1] /\ f[2] = roles[2] /\ f[3] = generateConfigMap(d)
               /\ \A k \in DOMAIN f : k > 3 => f[k] \in AllCore(d)
               /\ \A x : x \in Range(f) <=>
                     x \in {roles[1], roles[2], generateConfigMap(d)} \cup AllCore(d)
<1> DEFINE r == generateRolesAndBindings(d.config.ServiceAccount)
           m == generateConfigMap(d)
           t == FlattenSeq(EachCore(d))
           S == AllCore(d)
           a == r[1]
           b == r[2]
<1>1. r = <<a, b>>
      BY DEF generateRolesAndBindings
<1>2. t \in Seq(S) /\ Range(t) = S
      BY CoreOfAllGroups
<1>3. generateYAMLs(d) = r \o <<m>> \o t
      BY DEF generateYAMLs, EachCore
<1> HIDE DEF r, m, t, S, a, b
<1>4. generateYAMLs(d) = <<a, b>> \o <<m>> \o t
      BY <1>1, <1>3
<1> DEFINE f == <<a, b>> \o <<m>> \o t
<1>5. /\ Len(t) \in Nat /\ Len(f) = Len(t) + 3 /\ DOMAIN f = 1 .. Len(f) /\ DOMAIN t = 1 .. Len(t)
      /\ f[1] = a /\ f[2] = b /\ f[3] = m
      /\ \A k \in 1 .. Len(t) : f[k + 3] = t[k]
      BY <1>2, ThreeThen
<1> HIDE DEF f
<1>6. ASSUME NEW k \in DOMAIN f, k > 3
      PROVE  f[k] \in S
  <2>1. k - 3 \in 1 .. Len(t) /\ (k - 3) + 3 = k
        BY <1>5, <1>6
  <2>2. t[k - 3] \in S
        BY <1>2, <1>5, <2>1
  <2> QED BY <1>5, <2>1, <2>2
<1>7. ASSUME NEW x \in Range(f)
      PROVE  x \in {a, b, m} \cup S
  <2>1. PICK k \in DOMAIN f : x = f[k]
        BY DEF Range
  <2>2. k = 1 \/ k = 2 \/ k = 3 \/ k > 3
        BY <1>5
  <2> QED BY <1>5, <1>6, <2>1, <2>2
<1>8. ASSUME NEW x \in {a, b, m} \cup S
      PROVE  x \in Range(f)
  <2>1. CASE x \in S
    <3>1. PICK k \in 1 .. Len(t) : x = t[k]
          BY <1>2, <1>5, <2>1 DEF Range
    <3>2. k + 3 \in DOMAIN f /\ f[k + 3] = x
          BY <1>5, <3>1
    <3> QED BY <3>2 DEF Range
  <2>2. CASE x \in {a, b, m}
    <3>1. 1 \in DOMAIN f /\ 2 \in DOMAIN f /\ 3 \in DOMAIN f
          BY <1>5
    <3> QED BY <1>5, <2>2, <3>1 DEF Range
  <2> QED BY <2>1, <2>2
<1>9. /\ Len(f) \in Nat /\ DOMAIN f = 1 .. Len(f) /\ Len(f) >= 3
      BY <1>5
<1>10. f \in Seq({a, b, m} \cup S)
  <2> DEFINE X == {a, b, m} \cup S
  <2>1. t \in Seq(X)
        BY <1>2
  <2>2. a \in X /\ b \in X /\ m \in X
        OBVIOUS
  <2> HIDE DEF X
  <2>3. <<a, b>> \in Seq(X) /\ <<m>> \in Seq(X)
        BY <2>2
  <2>4. <<a, b>> \o <<m>> \in Seq(X)
        BY <2>3
  <2> DEFINE u == <<a, b>> \o <<m>>
  <2> HIDE DEF u
  <2>5. u \o t \in Seq(X)
        BY <2>1, <2>4 DEF u
  <2> QED BY <2>5 DEF f, u, X
<1> QED BY <1>4, <1>5, <1>6, <1>7, <1>8, <1>9, <1>10 DEF f, r, m, S, a, b
-------------------------------------------------------------------------------
(* What is what in the file, by its kind. *)

LEMMA CoreKinds ==
    ASSUME NEW d, NEW g, NEW r \in CoreOf(d, g)
    PROVE  /\ r.kind \in {"Service", "Deployment", "HorizontalPodAutoscaler"}
           /\ r.kind = "Deployment" => r = buildDeployment(d, g)
           /\ r.kind = "HorizontalPodAutoscaler" => r = buildAutoscaler(d, g)
           /\ r.kind = "Service" => \E l \in Range(g.listeners) : r = buildListenerService(d, g, l)
<1>1. buildDeployment(d, g).kind = "Deployment"
      BY DEF buildDeployment
<1>2. buildAutoscaler(d, g).kind = "HorizontalPodAutoscaler"
      BY DEF buildAutoscaler
<1>3. \A l : buildListenerService(d, g, l).kind = "Service"
      BY DEF buildListenerService
<1> QED BY <1>1, <1>2, <1>3 DEF CoreOf

LEMMA FirstKinds ==
    ASSUME NEW d
    PROVE  LET roles == generateRolesAndBindings(d.config.ServiceAccount)
           IN  /\ roles[1].kind = "Role" /\ roles[2].kind = "RoleBinding"
               /\ roles[2].role = roles[1].name
               /\ generateConfigMap(d).kind = "ConfigMap"
BY DEF generateRolesAndBindings, generateConfigMap

LEMMA FileKinds ==
    ASSUME NEW d, WellFormed(d.groups), NEW r \in Range(generateYAMLs(d))
    PROVE  /\ r.kind \in {"Role", "RoleBinding", "ConfigMap", "Service", "Deployment", "HorizontalPodAutoscaler"}
           /\ r.kind = "RoleBinding" => r = generateRolesAndBindings(d.config.ServiceAccount)[2]
           /\ r.kind = "ConfigMap" => r = generateConfigMap(d)
           /\ r.kind = "Deployment" => \E i \in DOMAIN d.groups : r = buildDeployment(d, d.groups[i])
           /\ r.kind = "HorizontalPodAutoscaler" => \E i \in DOMAIN d.groups : r = buildAutoscaler(d, d.groups[i])
           /\ r.kind = "Service" =>
                 \E i \in DOMAIN d.groups : \E l \in Range(d.groups[i].listeners) :
                    r = buildListenerService(d, d.groups[i], l)
<1> DEFINE roles == generateRolesAndBindings(d.config.ServiceAccount)
<1>1. r \in {roles[1], roles[2], generateConfigMap(d)} \cup AllCore(d)
      BY FileParts
<1>2. CASE r \in AllCore(d)
  <2>1. PICK i \in DOMAIN d.groups : r \in CoreOf(d, d.groups[i])
        BY <1>2 DEF AllCore
  <2> QED BY <2>1, CoreKinds
<1>3. CASE r \in {roles[1], roles[2], generateConfigMap(d)}
      BY <1>3, FirstKinds
<1> QED BY <1>1, <1>2, <1>3

LEMMA FileHas ==
    ASSUME NEW d, WellFormed(d.groups)
    PROVE  /\ generateConfigMap(d) \in Range(generateYAMLs(d))
           /\ \A i \in DOMAIN d.groups :
                 /\ buildDeployment(d, d.groups[i]) \in Range(generateYAMLs(d))
                 /\ buildAutoscaler(d, d.groups[i]) \in Range(generateYAMLs(d))
                 /\ \A l \in Range(d.groups[i].listeners) :
                       buildListenerService(d, d.groups[i], l) \in Range(generateYAMLs(d))
<1>1. \A i \in DOMAIN d.groups : CoreOf(d, d.groups[i]) \subseteq AllCore(d)
      BY DEF AllCore
<1>2. ASSUME NEW i \in DOMAIN d.groups
      PROVE  /\ buildDeployment(d, d.groups[i]) \in AllCore(d)
             /\ buildAutoscaler(d, d.groups[i]) \in AllCore(d)
             /\ \A l \in Range(d.groups[i].listeners) :
                   buildListenerService(d, d.groups[i], l) \in AllCore(d)
      BY <1>1 DEF CoreOf
<1> QED BY <1>2, FileParts

\* After the third element of f come the sequences ss, one after the other: what
\* element is where, and which one is before it.
Follow(f, ss) ==
    \A k \in 4 .. Len(f) : \E i \in 1 .. Len(ss) : \E j \in 1 .. Len(ss[i]) :
       /\ f[k] = ss[i][j]
       /\ j > 1 => k - 1 \in 4 .. Len(f) /\ f[k - 1] = ss[i][j - 1]

LEMMA ThreeThenMany ==
    ASSUME NEW S, NEW ss \in Seq(Seq(S)), NEW a, NEW b, NEW m
    PROVE  Follow(<<a, b>> \o <<m>> \o FlattenSeq(ss), ss)
<1> DEFINE t == FlattenSeq(ss)
           f == <<a, b>> \o <<m>> \o t
<1>1. t \in Seq(S)
      BY FlattenOffsets
<1>2. PICK off : Offsets(off, ss) /\ Flattened(t, ss, off)
      BY FlattenOffsets
<1>3. \A x \in 1 .. off[Len(ss)] : \E i \in 1 .. Len(ss) : \E j \in 1 .. Len(ss[i]) : x = off[i - 1] + j
      BY <1>2, OffsetsCover
<1> HIDE DEF t
<1>4. Len(t) \in Nat /\ Len(f) = Len(t) + 3 /\ \A x \in 1 .. Len(t) : f[x + 3] = t[x]
      BY <1>1, ThreeThen
<1> HIDE DEF f
<1>5. /\ Len(ss) \in Nat /\ \A i \in 1 .. Len(ss) : Len(ss[i]) \in Nat
      /\ \A i \in 1 .. Len(ss) : off[i - 1] \in Nat
  <2>1. Len(ss) \in Nat /\ \A i \in 1 .. Len(ss) : Len(ss[i]) \in Nat
        OBVIOUS
  <2>2. off \in [0 .. Len(ss) -> Nat]
        BY <1>2 DEF Offsets
  <2>3. ASSUME NEW i \in 1 .. Len(ss)
        PROVE  off[i - 1] \in Nat
    <3>1. i - 1 \in 0 .. Len(ss)
          BY <2>1
    <3> QED BY <2>2, <3>1
  <2> QED BY <2>1, <2>3
<1>6. ASSUME NEW k \in 4 .. Len(f)
      PROVE  \E i \in 1 .. Len(ss) : \E j \in 1 .. Len(ss[i]) :
                /\ f[k] = ss[i][j]
                /\ j > 1 => k - 1 \in 4 .. Len(f) /\ f[k - 1] = ss[i][j - 1]
  <2>1. k - 3 \in 1 .. off[Len(ss)] /\ k \in Nat
        BY <1>2, <1>4 DEF Flattened
  <2>2. PICK i \in 1 .. Len(ss) : \E j \in 1 .. Len(ss[i]) : k - 3 = off[i - 1] + j
        BY <1>3, <2>1
  <2>3. PICK j : j \in 1 .. Len(ss[i]) /\ k - 3 = off[i - 1] + j
        BY <2>2
  <2> DEFINE s == ss[i]
             o == off[i - 1]
  <2>4. /\ o \in Nat /\ Len(s) \in Nat /\ j \in 1 .. Len(s) /\ k - 3 = o + j
        /\ \A x \in 1 .. Len(s) : o + x \in 1 .. Len(t) /\ t[o + x] = s[x]
        BY <1>2, <1>5, <2>3 DEF Flattened
  <2> HIDE DEF s, o
  <2>5. f[k] = s[j]
    <3>1. k = (o + j) + 3
          BY <2>1, <2>4
    <3> QED BY <1>4, <2>4, <3>1
  <2>6. ASSUME j > 1
        PROVE  k - 1 \in 4 .. Len(f) /\ f[k - 1] = s[j - 1]
    <3>1. j - 1 \in 1 .. Len(s) /\ k - 1 = (o + (j - 1)) + 3
          BY <2>1, <2>4, <2>6
    <3>2. o + (j - 1) \in 1 .. Len(t)
          BY <2>4, <3>1
    <3>3. f[k - 1] = s[j - 1]
          BY <1>4, <2>4, <3>1, <3>2
    <3>4. k - 1 \in 4 .. Len(f)
          BY <1>4, <2>1, <3>1, <3>2
    <3> QED BY <3>3, <3>4
  <2> QED BY <2>3, <2>5, <2>6 DEF s
<1> QED BY <1>6 DEF f, t, Follow

\* The resource before an autoscaler is the Deployment that it scales.
LEMMA AutoscalerFollows ==
    ASSUME NEW d, WellFormed(d.groups)
    PROVE  \A k \in DOMAIN generateYAMLs(d) :
              generateYAMLs(d)[k].kind = "HorizontalPodAutoscaler" =>
                 /\ k - 1 \in DOMAIN generateYAMLs(d)
                 /\ generateYAMLs(d)[k - 1].kind = "Deployment"
                 /\ generateYAMLs(d)[k - 1].name = generateYAMLs(d)[k].target
<1> DEFINE f == generateYAMLs(d)
           roles == generateRolesAndBindings(d.config.ServiceAccount)
           a == roles[1]
           b == roles[2]
           m == generateConfigMap(d)
           ss == EachCore(d)
           S == AllCore(d)
<1>1. f = <<a, b>> \o <<m>> \o FlattenSeq(ss)
  <2>1. roles = <<a, b>>
        BY DEF generateRolesAndBindings
  <2>2. f = roles \o <<m>> \o FlattenSeq(ss)
        BY DEF generateYAMLs, EachCore
  <2> HIDE DEF roles, a, b, m, ss, f
  <2> QED BY <2>1, <2>2
<1>2. ss \in Seq(Seq(S)) /\ Len(ss) = Len(d.groups) /\ DOMAIN d.groups = 1 .. Len(d.groups)
      BY CoreIsSequence, GroupsAreSequence
<1>3. /\ Len(f) \in Nat /\ DOMAIN f = 1 .. Len(f)
      /\ f[1].kind = "Role" /\ f[2].kind = "RoleBinding" /\ f[3].kind = "ConfigMap"
      BY FileParts, FirstKinds
<1>4. \A i \in 1 .. Len(ss) :
         LET g == d.groups[i]
             n == Len(g.listeners)
         IN  /\ n \in Nat /\ Len(ss[i]) = n + 2
             /\ \A x \in 1 .. n : ss[i][x] = buildListenerService(d, g, g.listeners[x])
             /\ ss[i][n + 1] = buildDeployment(d, g)
             /\ ss[i][n + 2] = buildAutoscaler(d, g)
  <2>1. TAKE i \in 1 .. Len(ss)
  <2> DEFINE g == d.groups[i]
  <2>2. i \in DOMAIN d.groups
        BY <1>2
  <2>3. ss[i] = generateCoreYAMLs(d, g) /\ g.listeners \in Seq(Listener)
        BY <2>2, CoreIsSequence, GroupsAreSequence
  <2> DEFINE n == Len(g.listeners)
             s == ss[i]
  <2>4. /\ n \in Nat /\ Len(s) = n + 2
        /\ \A x \in 1 .. n : s[x] = buildListenerService(d, g, g.listeners[x])
        /\ s[n + 1] = buildDeployment(d, g)
        /\ s[n + 2] = buildAutoscaler(d, g)
    <3> HIDE DEF g, s
    <3> QED BY <2>3, CoreParts DEF s
  <2> QED BY <2>4
<1> HIDE DEF a, b, m, ss, S, f
<1>5. Follow(f, ss)
      BY <1>1, <1>2, ThreeThenMany
<1>6. ASSUME NEW k \in 1 .. Len(f), f[k].kind = "HorizontalPodAutoscaler"
      PROVE  /\ k - 1 \in 1 .. Len(f)
             /\ f[k - 1].kind = "Deployment" /\ f[k - 1].name = f[k].target
  <2>1. k \in 4 .. Len(f)
        BY <1>3, <1>6
  <2>2. PICK i \in 1 .. Len(ss) : \E j \in 1 .. Len(ss[i]) :
           /\ f[k] = ss[i][j]
           /\ j > 1 => k - 1 \in 4 .. Len(f) /\ f[k - 1] = ss[i][j - 1]
        BY <1>5, <2>1 DEF Follow
  <2> DEFINE g == d.groups[i]
             n == Len(g.listeners)
             s == ss[i]
  <2>3. /\ n \in Nat /\ Len(s) = n + 2
        /\ \A x \in 1 .. n : s[x] = buildListenerService(d, g, g.listeners[x])
        /\ s[n + 1] = buildDeployment(d, g)
        /\ s[n + 2] = buildAutoscaler(d, g)
        BY <1>4
  <2>4. PICK j : /\ j \in 1 .. Len(s) /\ f[k] = s[j]
                 /\ j > 1 => k - 1 \in 4 .. Len(f) /\ f[k - 1] = s[j - 1]
        BY <2>2
  <2> HIDE DEF g, n, s
  <2>5. /\ \A l : buildListenerService(d, g, l).kind = "Service"
        /\ buildDeployment(d, g).kind = "Deployment"
        /\ buildDeployment(d, g).name = buildAutoscaler(d, g).target
        BY DEF buildListenerService, buildDeployment, buildAutoscaler
  <2>6. j = n + 2
    <3>1. j \in 1 .. n \/ j = n + 1 \/ j = n + 2
          BY <2>3, <2>4
    <3>2. s[j].kind = "HorizontalPodAutoscaler"
          BY <1>6, <2>4
    <3> QED BY <2>3, <2>5, <3>1, <3>2
  <2>7. j > 1 /\ j - 1 = n + 1
        BY <2>3, <2>6
  <2>8. f[k - 1] = buildDeployment(d, g) /\ f[k] = buildAutoscaler(d, g) /\ k - 1 \in 4 .. Len(f)
        BY <2>3, <2>4, <2>6, <2>7
  <2> QED BY <1>3, <2>5, <2>8
<1> QED BY <1>3, <1>6 DEF f
-------------------------------------------------------------------------------
(* What the ConfigMap says. *)

LEMMA ListenersAreSequence ==
    ASSUME NEW groups, WellFormed(groups)
    PROVE  /\ [i \in DOMAIN groups |-> groups[i].listeners] \in Seq(Seq(Listener))
           /\ FlattenSeq([i \in DOMAIN groups |-> groups[i].listeners]) \in Seq(Listener)
           /\ \A l : l \in Range(FlattenSeq([i \in DOMAIN groups |-> groups[i].listeners]))
                        <=> \E i \in DOMAIN groups : l \in Range(groups[i].listeners)
<1> DEFINE n == Len(groups)
           ls(i) == groups[i].listeners
           ss == [i \in DOMAIN groups |-> ls(i)]
<1>1. n \in Nat /\ DOMAIN groups = 1 .. n /\ \A i \in 1 .. n : ls(i) \in Seq(Listener)
      BY GroupsAreSequence
<1> HIDE DEF n, ls
<1>2. ss = [i \in 1 .. n |-> ls(i)]
      BY <1>1
<1>3. ss \in Seq(Seq(Listener)) /\ DOMAIN ss = DOMAIN groups /\ \A i \in DOMAIN groups : ss[i] = ls(i)
      BY <1>1, <1>2
<1> HIDE DEF ss
<1>4. /\ FlattenSeq(ss) \in Seq(Listener)
      /\ \A x : x \in Range(FlattenSeq(ss)) <=> \E i \in DOMAIN ss : x \in Range(ss[i])
      BY <1>3, FlattenRange
<1>5. \A x : x \in Range(FlattenSeq(ss)) <=> \E i \in DOMAIN groups : x \in Range(ls(i))
      BY <1>3, <1>4
<1> QED BY <1>3, <1>4, <1>5 DEF ss, ls

\* The port of a listener.
LEMMA ListenerPorts ==
    ASSUME NEW groups, WellFormed(groups),
           NEW i \in DOMAIN groups, NEW l \in Range(groups[i].listeners)
    PROVE  l.name \in DOMAIN Listeners(groups) /\ Listeners(groups)[l.name] = l.port
<1> DEFINE all == FlattenSeq([k \in DOMAIN groups |-> groups[k].listeners])
           places == {k \in DOMAIN all : all[k].name = l.name}
<1>1. all \in Seq(Listener) /\ \A x : x \in Range(all) <=> \E k \in DOMAIN groups : x \in Range(groups[k].listeners)
      BY ListenersAreSequence
<1>2. Listeners(groups) = [n \in {x.name : x \in Range(all)} |->
                             all[Max({k \in DOMAIN all : all[k].name = n})].port]
      BY DEF Listeners
<1> HIDE DEF all
<1>3. l \in Range(all)
      BY <1>1
<1>4. l.name \in {x.name : x \in Range(all)}
      BY <1>3
<1>5. Listeners(groups)[l.name] = all[Max(places)].port
      BY <1>2, <1>4
<1>6. Max(places) \in places
  <2>1. places \in SUBSET (1 .. Len(all)) /\ Len(all) \in Nat
        BY <1>1
  <2>2. places # {}
        BY <1>3 DEF Range
  <2> QED BY <2>1, <2>2, MaxOfSet
<1> DEFINE m == all[Max(places)]
<1>7. m \in Range(all) /\ m.name = l.name
      BY <1>6 DEF Range
<1> HIDE DEF m
<1>8. PICK j \in DOMAIN groups : m \in Range(groups[j].listeners)
      BY <1>1, <1>7
<1>9. m = l
      BY <1>7, <1>8 DEF WellFormed
<1> QED BY <1>2, <1>4, <1>5, <1>9 DEF m

\* The group of a component.
LEMMA GroupNamesAre ==
    ASSUME NEW groups, WellFormed(groups)
    PROVE  /\ \A i \in DOMAIN groups : \A c \in Range(groups[i].Components) :
                 c \in DOMAIN GroupNames(groups) /\ GroupNames(groups)[c] = groups[i].Name
           /\ \A c \in DOMAIN GroupNames(groups) :
                 \E i \in DOMAIN groups : c \in Range(groups[i].Components)
<1> DEFINE C == UNION {Range(g.Components) : g \in Range(groups)}
           mine(c) == {i \in DOMAIN groups : c \in Range(groups[i].Components)}
<1>1. GroupNames(groups) = [c \in C |-> groups[Max(mine(c))].Name]
      BY DEF GroupNames
<1>2. ASSUME NEW c
      PROVE  c \in C <=> \E i \in DOMAIN groups : c \in Range(groups[i].Components)
      BY DEF Range
<1>3. ASSUME NEW i \in DOMAIN groups, NEW c \in Range(groups[i].Components)
      PROVE  c \in C /\ Max(mine(c)) = i
  <2>1. c \in C
        BY <1>2
  <2>2. \A j \in DOMAIN groups : c \in Range(groups[j].Components) => i = j
        BY DEF WellFormed
  <2>3. mine(c) = {i}
        BY <2>2
  <2>4. {i} \in SUBSET (1 .. Len(groups)) /\ Len(groups) \in Nat
        BY GroupsAreSequence
  <2>5. Max({i}) \in {i}
        BY <2>4, MaxOfSet
  <2> QED BY <2>1, <2>3, <2>5
<1> HIDE DEF C, mine
<1>4. ASSUME NEW i \in DOMAIN groups, NEW c \in Range(groups[i].Components)
      PROVE  c \in DOMAIN GroupNames(groups) /\ GroupNames(groups)[c] = groups[i].Name
      BY <1>1, <1>3
<1> QED BY <1>1, <1>2, <1>4
-------------------------------------------------------------------------------
(* The pods and the ConfigMap. *)

\* One Deployment runs a component, with pods named as the ConfigMap says.
LEMMA OneDeployment ==
    ASSUME NEW d, WellFormed(d.groups),
           NEW i \in DOMAIN d.groups, NEW c \in Range(d.groups[i].Components)
    PROVE  LET cm   == generateConfigMap(d)
               dep  == buildDeployment(d, d.groups[i])
               deps == {r \in Range(generateYAMLs(d)) : r.kind = "Deployment"}
           IN  /\ dep \in deps
               /\ {r \in deps : c \in Range(r.container.args)} = {dep}
               /\ dep.configMap = cm.name
               /\ dep.podName = deploymentName(d.app, cm.Groups[c], cm.DeploymentId)
<1> DEFINE g == d.groups[i]
           cm == generateConfigMap(d)
           dep == buildDeployment(d, g)
           all == Range(generateYAMLs(d))
           deps == {r \in all : r.kind = "Deployment"}
<1>1. dep \in deps
  <2>1. dep \in all
        BY FileHas
  <2>2. dep.kind = "Deployment"
        BY DEF buildDeployment
  <2> QED BY <2>1, <2>2
<1>2. \A j \in DOMAIN d.groups : buildDeployment(d, d.groups[j]).container.args = d.groups[j].Components
      BY DEF buildDeployment, buildContainer
<1>3. ASSUME NEW r \in deps, c \in Range(r.container.args)
      PROVE  r = dep
  <2>1. PICK j \in DOMAIN d.groups : r = buildDeployment(d, d.groups[j])
        BY FileKinds
  <2>2. c \in Range(d.groups[j].Components)
        BY <1>2, <1>3, <2>1
  <2>3. i = j
        BY <2>2 DEF WellFormed
  <2> QED BY <2>1, <2>3
<1>4. c \in Range(dep.container.args)
      BY <1>2
<1>5. dep.configMap = cm.name /\ dep.podName = deploymentName(d.app, g.Name, d.deploymentId)
      BY DEF buildDeployment, generateConfigMap
<1>6. cm.Groups = GroupNames(d.groups) /\ cm.DeploymentId = d.deploymentId
      BY DEF generateConfigMap
<1>7. GroupNames(d.groups)[c] = g.Name
      BY GroupNamesAre
<1> HIDE DEF cm, dep, deps, all, g
<1>8. {r \in deps : c \in Range(r.container.args)} = {dep}
      BY <1>1, <1>3, <1>4
<1> QED BY <1>1, <1>5, <1>6, <1>7, <1>8 DEF cm, dep, deps, all, g

\* The port of a listener of the group is a port of the pods, to which one
\* Service forwards.
LEMMA OneService ==
    ASSUME NEW d, WellFormed(d.groups),
           NEW i \in DOMAIN d.groups, NEW l \in Range(d.groups[i].listeners)
    PROVE  LET cm   == generateConfigMap(d)
               dep  == buildDeployment(d, d.groups[i])
               port == GetListenerAddress(cm, l.name)
               svcs == {r \in Range(generateYAMLs(d)) : r.kind = "Service"}
           IN  /\ [name |-> l.name, containerPort |-> port] \in dep.container.ports
               /\ {<<s.selector, s.targetPort>> : s \in {r \in svcs : r.listener = l.name}}
                     = {<<dep.podName, port>>}
<1> DEFINE g == d.groups[i]
           cm == generateConfigMap(d)
           dep == buildDeployment(d, g)
           port == GetListenerAddress(cm, l.name)
           all == Range(generateYAMLs(d))
           svcs == {r \in all : r.kind = "Service"}
           svc == buildListenerService(d, g, l)
<1>1. port = l.port
  <2>1. cm.Listeners = Listeners(d.groups)
        BY DEF generateConfigMap
  <2>2. l.name \in DOMAIN Listeners(d.groups) /\ Listeners(d.groups)[l.name] = l.port
        BY ListenerPorts
  <2> HIDE DEF cm
  <2> QED BY <2>1, <2>2 DEF GetListenerAddress
<1> HIDE DEF port
<1>2. [name |-> l.name, containerPort |-> port] \in dep.container.ports
  <2>1. dep.container.ports = {[name |-> m.name, containerPort |-> m.port] : m \in Range(g.listeners)}
        BY DEF buildDeployment, buildContainer
  <2> HIDE DEF dep
  <2> QED BY <1>1, <2>1
<1>3. svc \in svcs /\ svc.listener = l.name
  <2>1. svc \in all
        BY FileHas
  <2>2. svc.kind = "Service" /\ svc.listener = l.name
        BY DEF buildListenerService
  <2> QED BY <2>1, <2>2
<1>4. svc.selector = dep.podName /\ svc.targetPort = l.port
      BY DEF buildListenerService, buildDeployment
<1>5. ASSUME NEW r \in svcs, r.listener = l.name
      PROVE  r = svc
  <2>1. PICK j \in DOMAIN d.groups : \E m \in Range(d.groups[j].listeners) :
             r = buildListenerService(d, d.groups[j], m)
        BY FileKinds
  <2>2. PICK m : m \in Range(d.groups[j].listeners) /\ r = buildListenerService(d, d.groups[j], m)
        BY <2>1
  <2>3. l.name = m.name
        BY <1>5, <2>2 DEF buildListenerService
  <2>4. \A x, y \in DOMAIN d.groups :
           \A p \in Range(d.groups[x].listeners), q \in Range(d.groups[y].listeners) :
              p.name = q.name => x = y /\ p = q
        BY DEF WellFormed
  <2>5. i = j /\ l = m
    <3> HIDE DEF svcs
    <3> QED BY <2>2, <2>3, <2>4
  <2> QED BY <2>2, <2>5
<1> HIDE DEF svc, svcs, dep, cm, all, g
<1>6. {r \in svcs : r.listener = l.name} = {svc}
      BY <1>3, <1>5
<1>7. {<<s.selector, s.targetPort>> : s \in {svc}} = {<<dep.podName, port>>}
      BY <1>1, <1>4
<1> QED BY <1>2, <1>6, <1>7 DEF svcs, dep, port, cm, all, g
-------------------------------------------------------------------------------
(* What the header says of the file. *)

\* Every Service is of one listener, but for the pairs of listeners in shared.
OwnNames(groups, shared) ==
    \A i, j \in DOMAIN groups :
       \A l \in Range(groups[i].listeners), m \in Range(groups[j].listeners) :
          l.serviceName = m.serviceName => l.name = m.name \/ <<l.name, m.name>> \in shared

\* Are r and s Services of listeners that are in shared?
Sharing(r, s, shared) ==
    r.kind = "Service" /\ s.kind = "Service" /\ <<r.listener, s.listener>> \in shared

\* All that is in the file.
Everything(d) ==
    {generateRolesAndBindings(d.config.ServiceAccount)[1],
     generateRolesAndBindings(d.config.ServiceAccount)[2],
     generateConfigMap(d)} \cup AllCore(d)

\* What h picks, if that is nothing of the first elements.
LEMMA PickedOfRest ==
    ASSUME NEW X, NEW V, NEW h \in [X -> Seq(V)]
    PROVE  \A ss \in Seq(Seq(X)), s \in Seq(X) :
              Picked(h, s) = <<>> =>
                 Picked(h, Cat(s, FlattenSeq(ss))) = FlattenSeq([i \in DOMAIN ss |-> Picked(h, ss[i])])
<1>1. \A ss \in Seq(Seq(X)) :
         FlattenSeq(ss) \in Seq(X) /\ Picked(h, FlattenSeq(ss)) = Picked(EachPicked(h, X), ss)
      BY PickedFlat
<1>2. \A s \in Seq(X) : /\ Picked(h, s) \in Seq(V)
                        /\ \A x \in X : Picked(h, Append(s, x)) = Cat(Picked(h, s), h[x])
      BY PickedAppend
<1>3. \A s, t \in Seq(X) : Picked(h, Cat(s, t)) = Cat(Picked(h, s), Picked(h, t))
      BY PickedCat
<1>4. \A t \in Seq(V) : Cat(<<>>, t) = t
      BY DEF Cat
<1>5. SUFFICES ASSUME NEW ss \in Seq(Seq(X)), NEW s \in Seq(X), Picked(h, s) = <<>>
               PROVE  Picked(h, Cat(s, FlattenSeq(ss))) = FlattenSeq([i \in DOMAIN ss |-> Picked(h, ss[i])])
      OBVIOUS
<1>6. Picked(h, Cat(s, FlattenSeq(ss))) = Picked(EachPicked(h, X), ss)
      BY <1>1, <1>2, <1>3, <1>4, <1>5
<1>7. PickedEach(EachPicked(h, X), ss) = [i \in DOMAIN ss |-> Picked(h, ss[i])]
  <2> DEFINE H == EachPicked(h, X)
  <2>1. \A i \in DOMAIN ss : ss[i] \in Seq(X)
        OBVIOUS
  <2>2. \A i \in DOMAIN ss : H[ss[i]] = Picked(h, ss[i])
        BY <2>1 DEF EachPicked
  <2> HIDE DEF H
  <2>3. PickedEach(H, ss) = [i \in DOMAIN ss |-> Picked(h, ss[i])]
        BY <2>2 DEF PickedEach
  <2> QED BY <2>3 DEF H
<1> QED BY <1>6, <1>7 DEF Picked

LEMMA ThreeOf ==
    ASSUME NEW a, NEW b, NEW m
    PROVE  <<a, b>> \o <<m>> \in Seq({a, b, m})
<1>1. <<a, b>> \in Seq({a, b, m}) /\ <<m>> \in Seq({a, b, m})
      OBVIOUS
<1> QED BY <1>1

\* What h picks of the file, if that is nothing of the roles and the ConfigMap.
LEMMA PickedOfFile ==
    ASSUME NEW d, WellFormed(d.groups), NEW V, NEW h \in [Everything(d) -> Seq(V)],
           \A r \in Everything(d) : r.kind \in {"Role", "RoleBinding", "ConfigMap"} => h[r] = <<>>
    PROVE  Picked(h, generateYAMLs(d)) =
              FlattenSeq([i \in DOMAIN d.groups |-> Picked(h, generateCoreYAMLs(d, d.groups[i]))])
<1>0. \A ss \in Seq(Seq(Everything(d))), s \in Seq(Everything(d)) :
         Picked(h, s) = <<>> =>
            Picked(h, Cat(s, FlattenSeq(ss))) = FlattenSeq([i \in DOMAIN ss |-> Picked(h, ss[i])])
      BY PickedOfRest, ZenonT(60)
<1> DEFINE roles == generateRolesAndBindings(d.config.ServiceAccount)
           a == roles[1]
           b == roles[2]
           m == generateConfigMap(d)
           F == {a, b, m}
           ss == EachCore(d)
<1>1. generateYAMLs(d) = Cat(<<a, b>> \o <<m>>, FlattenSeq(ss)) /\ <<a, b>> \o <<m>> \in Seq(F)
  <2>1. roles = <<a, b>>
        BY DEF generateRolesAndBindings
  <2>2. generateYAMLs(d) = roles \o <<m>> \o FlattenSeq(ss)
        BY DEF generateYAMLs, EachCore
  <2> HIDE DEF roles, a, b, m, ss
  <2>3. <<a, b>> \o <<m>> \in Seq(F)
        BY ThreeOf
  <2> QED BY <2>1, <2>2, <2>3 DEF Cat
<1>2. /\ ss \in Seq(Seq(Everything(d))) /\ DOMAIN ss = DOMAIN d.groups
      /\ \A i \in DOMAIN d.groups : ss[i] = generateCoreYAMLs(d, d.groups[i])
  <2>1. ss \in Seq(Seq(AllCore(d)))
        BY CoreIsSequence
  <2>2. AllCore(d) \subseteq Everything(d)
        BY DEF Everything
  <2>3. DOMAIN ss = DOMAIN d.groups /\ \A i \in DOMAIN d.groups : ss[i] = generateCoreYAMLs(d, d.groups[i])
        BY DEF EachCore
  <2> HIDE DEF ss
  <2>4. ss \in Seq(Seq(Everything(d)))
        BY <2>1, <2>2
  <2> QED BY <2>3, <2>4
<1>3. F \subseteq Everything(d) /\ \A r \in F : h[r] = <<>>
      BY FirstKinds DEF Everything
<1> HIDE DEF a, b, m, ss
<1>4. Picked(h, generateYAMLs(d)) = FlattenSeq([i \in DOMAIN ss |-> Picked(h, ss[i])])
  <2>1. Picked(h, Cat(<<a, b>> \o <<m>>, FlattenSeq(ss))) = FlattenSeq([i \in DOMAIN ss |-> Picked(h, ss[i])])
    <3> DEFINE s == <<a, b>> \o <<m>>
    <3>1. s \in Seq(F)
          BY <1>1
    <3> HIDE DEF s, F
    <3>2. s \in Seq(Everything(d))
          BY <1>3, <3>1
    <3>3. Picked(h, s) = <<>>
          BY <1>3, <3>1, PickedNothing
    <3>4. Picked(h, Cat(s, FlattenSeq(ss))) = FlattenSeq([i \in DOMAIN ss |-> Picked(h, ss[i])])
          BY <1>0, <1>2, <3>2, <3>3
    <3> QED BY <3>4 DEF s
  <2> QED BY <1>1, <2>1
<1>5. [i \in DOMAIN ss |-> Picked(h, ss[i])]
         = [i \in DOMAIN d.groups |-> Picked(h, generateCoreYAMLs(d, d.groups[i]))]
      BY <1>2
<1> QED BY <1>4, <1>5

LEMMA PickedOfThree ==
    ASSUME NEW X, NEW V, NEW h \in [X -> Seq(V)], NEW u \in Seq(X), NEW x \in X, NEW y \in X
    PROVE  Picked(h, Cat(u, <<x, y>>)) = Cat(Picked(h, u), Cat(h[x], h[y]))
<1>1. \A s \in Seq(X) : /\ Picked(h, s) \in Seq(V)
                        /\ \A r \in X : Picked(h, Append(s, r)) = Cat(Picked(h, s), h[r])
      BY PickedAppend
<1>2. /\ Append(u, x) \in Seq(X) /\ h[x] \in Seq(V) /\ h[y] \in Seq(V)
      OBVIOUS
<1>5. Append(Append(u, x), y) = Cat(u, <<x, y>>)
  <2>1. <<x, y>> = Append(<<x>>, y) /\ <<x>> \in Seq(X)
        OBVIOUS
  <2>2. Cat(u, Append(<<x>>, y)) = Append(Cat(u, <<x>>), y) /\ Cat(u, <<x>>) = Append(u, x)
        BY <2>1 DEF Cat
  <2> QED BY <2>1, <2>2
<1>3. Picked(h, Cat(u, <<x, y>>)) = Cat(Cat(Picked(h, u), h[x]), h[y])
      BY <1>1, <1>2, <1>5
<1>4. \A p, q, w \in Seq(V) : Cat(Cat(p, q), w) = Cat(p, Cat(q, w))
      BY DEF Cat
<1> QED BY <1>1, <1>2, <1>3, <1>4

LEMMA ListedIn ==
    ASSUME NEW X, NEW n \in Nat, NEW u, DOMAIN u = 1 .. n, u = [j \in 1 .. n |-> u[j]],
           \A j \in 1 .. n : u[j] \in X
    PROVE  u \in Seq(X)
OBVIOUS

\* What it picks of the resources of a group.
LEMMA PickedOfCore ==
    ASSUME NEW d, WellFormed(d.groups), NEW V, NEW h \in [Everything(d) -> Seq(V)],
           NEW i \in DOMAIN d.groups
    PROVE  LET g == d.groups[i]
           IN  Picked(h, generateCoreYAMLs(d, g)) =
                  Cat(Picked(h, [j \in DOMAIN g.listeners |-> buildListenerService(d, g, g.listeners[j])]),
                      Cat(h[buildDeployment(d, g)], h[buildAutoscaler(d, g)]))
<1> DEFINE g == d.groups[i]
           u == [j \in DOMAIN g.listeners |-> buildListenerService(d, g, g.listeners[j])]
           x == buildDeployment(d, g)
           y == buildAutoscaler(d, g)
<1>1. CoreOf(d, g) \subseteq Everything(d)
      BY DEF Everything, AllCore
<1>2. x \in Everything(d) /\ y \in Everything(d)
      BY <1>1 DEF CoreOf
<1>3. u \in Seq(Everything(d))
  <2>1. Len(g.listeners) \in Nat /\ DOMAIN g.listeners = 1 .. Len(g.listeners)
        BY GroupsAreSequence
  <2>2. \A j \in DOMAIN g.listeners : u[j] \in Everything(d)
        BY <1>1 DEF CoreOf, Range
  <2>3. u = [j \in 1 .. Len(g.listeners) |-> u[j]] /\ DOMAIN u = 1 .. Len(g.listeners)
        BY <2>1
  <2> HIDE DEF u, g
  <2> QED BY <2>1, <2>2, <2>3, ListedIn
<1>4. generateCoreYAMLs(d, g) = Cat(u, <<x, y>>)
      BY DEF generateCoreYAMLs, Cat
<1> HIDE DEF u, x, y, g
<1>5. Picked(h, Cat(u, <<x, y>>)) = Cat(Picked(h, u), Cat(h[x], h[y]))
      BY <1>2, <1>3, PickedOfThree
<1> QED BY <1>4, <1>5 DEF u, x, y, g

\* The value v[r] of each resource r of a kind.
PickKind(d, kind, v) == [r \in Everything(d) |-> IF r.kind = kind THEN <<v[r]>> ELSE <<>>]

LEMMA PickKindIs ==
    ASSUME NEW d, NEW V, NEW v \in [Everything(d) -> V]
    PROVE  \A kind :
              /\ PickKind(d, kind, v) \in [Everything(d) -> Seq(V)]
              /\ \A r \in Everything(d) : r.kind = kind => PickKind(d, kind, v)[r] = <<v[r]>>
              /\ \A r \in Everything(d) : r.kind # kind => PickKind(d, kind, v)[r] = <<>>
<1> TAKE kind
<1> DEFINE X == Everything(d)
           h == PickKind(d, kind, v)
<1>1. /\ \A r \in X : r.kind = kind => h[r] = <<v[r]>>
      /\ \A r \in X : r.kind # kind => h[r] = <<>>
      BY DEF PickKind
<1>2. \A r \in X : <<v[r]>> \in Seq(V) /\ <<>> \in Seq(V)
      OBVIOUS
<1>3. \A r \in X : h[r] \in Seq(V)
  <2> HIDE DEF X, h
  <2> QED BY <1>1, <1>2
<1>4. h = [r \in X |-> h[r]]
      BY DEF PickKind
<1> HIDE DEF X, h
<1>5. h \in [X -> Seq(V)]
      BY <1>3, <1>4
<1> QED BY <1>1, <1>5 DEF X, h

\* These of the Services of a group, its Deployment and its autoscaler.
LEMMA PickKindOfCore ==
    ASSUME NEW d, WellFormed(d.groups), NEW V, NEW v \in [Everything(d) -> V]
    PROVE  \A i \in DOMAIN d.groups :
           LET g == d.groups[i]
               core == generateCoreYAMLs(d, g)
           IN  /\ Picked(PickKind(d, "Deployment", v), core) = <<v[buildDeployment(d, g)]>>
               /\ Picked(PickKind(d, "HorizontalPodAutoscaler", v), core) = <<v[buildAutoscaler(d, g)]>>
               /\ Picked(PickKind(d, "Service", v), core) =
                     [j \in DOMAIN g.listeners |-> v[buildListenerService(d, g, g.listeners[j])]]
<1>0. \A kind :
         /\ PickKind(d, kind, v) \in [Everything(d) -> Seq(V)]
         /\ \A r \in Everything(d) : r.kind = kind => PickKind(d, kind, v)[r] = <<v[r]>>
         /\ \A r \in Everything(d) : r.kind # kind => PickKind(d, kind, v)[r] = <<>>
      BY PickKindIs
<1> TAKE i \in DOMAIN d.groups
<1> DEFINE g == d.groups[i]
           svc(j) == buildListenerService(d, g, g.listeners[j])
           u == [j \in DOMAIN g.listeners |-> svc(j)]
           x == buildDeployment(d, g)
           y == buildAutoscaler(d, g)
           core == generateCoreYAMLs(d, g)
           h(kind) == PickKind(d, kind, v)
           Y == {svc(j) : j \in DOMAIN g.listeners}
<1>1. /\ x \in Everything(d) /\ x.kind = "Deployment"
      /\ y \in Everything(d) /\ y.kind = "HorizontalPodAutoscaler"
      /\ \A j \in DOMAIN g.listeners : svc(j) \in Everything(d) /\ svc(j).kind = "Service"
  <2>1. CoreOf(d, g) \subseteq Everything(d)
        BY DEF Everything, AllCore
  <2>2. x \in CoreOf(d, g) /\ y \in CoreOf(d, g) /\ \A j \in DOMAIN g.listeners : svc(j) \in CoreOf(d, g)
        BY DEF CoreOf, Range
  <2>3. /\ x.kind = "Deployment" /\ y.kind = "HorizontalPodAutoscaler"
        /\ \A j \in DOMAIN g.listeners : svc(j).kind = "Service"
        BY DEF buildDeployment, buildAutoscaler, buildListenerService
  <2> HIDE DEF x, y, svc, g
  <2> QED BY <2>1, <2>2, <2>3
<1>2. \A kind :
         /\ h(kind) \in [Everything(d) -> Seq(V)]
         /\ \A r \in Everything(d) : r.kind = kind => h(kind)[r] = <<v[r]>>
         /\ \A r \in Everything(d) : r.kind # kind => h(kind)[r] = <<>>
      BY <1>0
<1>3. \A kind : Picked(h(kind), core) = Cat(Picked(h(kind), u), Cat(h(kind)[x], h(kind)[y]))
      BY <1>2, PickedOfCore, ZenonT(60)
<1>4. /\ Len(g.listeners) \in Nat /\ DOMAIN g.listeners = 1 .. Len(g.listeners)
      BY GroupsAreSequence
<1> HIDE DEF h, g, svc, x, y, core
<1>5. ASSUME NEW kind, kind # "Service"
      PROVE  Picked(h(kind), u) = <<>>
  <2>1. u \in Seq(Y)
        BY <1>4
  <2>2. \A r \in Y : h(kind)[r] = <<>>
        BY <1>1, <1>2, <1>5
  <2> HIDE DEF u, Y
  <2> QED BY <2>1, <2>2, PickedNothing
<1>6. Picked(h("Service"), u) = [j \in DOMAIN g.listeners |-> v[svc(j)]]
  <2> DEFINE w == [j \in DOMAIN g.listeners |-> v[svc(j)]]
  <2>1. \A j \in DOMAIN g.listeners : h("Service")[svc(j)] = <<v[svc(j)]>>
        BY <1>1, <1>2
  <2>2. PickedEach(h("Service"), u) = [j \in DOMAIN g.listeners |-> <<v[svc(j)]>>]
        BY <2>1 DEF PickedEach
  <2>3. w \in Seq(V)
        BY <1>1, <1>4
  <2>4. [j \in DOMAIN w |-> <<w[j]>>] = [j \in DOMAIN g.listeners |-> <<v[svc(j)]>>]
        OBVIOUS
  <2>5. FlattenSeq([j \in DOMAIN w |-> <<w[j]>>]) = w
    <3> HIDE DEF w
    <3> QED BY <2>3, PickedSingles
  <2> QED BY <2>2, <2>4, <2>5 DEF Picked
<1>8. /\ <<v[x]>> \in Seq(V) /\ <<v[y]>> \in Seq(V) /\ <<>> \in Seq(V)
      /\ [j \in DOMAIN g.listeners |-> v[svc(j)]] \in Seq(V)
      BY <1>1, <1>4
<1> HIDE DEF u
<1>9. Picked(h("Deployment"), core) = <<v[x]>>
  <2>1. h("Deployment")[x] = <<v[x]>> /\ h("Deployment")[y] = <<>>
        BY <1>1, <1>2
  <2>2. Picked(h("Deployment"), u) = <<>>
        BY <1>5
  <2>3. Picked(h("Deployment"), core) = Cat(<<>>, Cat(<<v[x]>>, <<>>))
        BY <1>3, <2>1, <2>2
  <2>4. Cat(<<v[x]>>, <<>>) = <<v[x]>> /\ Cat(<<>>, <<v[x]>>) = <<v[x]>>
        BY DEF Cat
  <2> QED BY <2>3, <2>4
<1>10. Picked(h("HorizontalPodAutoscaler"), core) = <<v[y]>>
  <2>1. h("HorizontalPodAutoscaler")[x] = <<>> /\ h("HorizontalPodAutoscaler")[y] = <<v[y]>>
        BY <1>1, <1>2
  <2>2. Picked(h("HorizontalPodAutoscaler"), u) = <<>>
        BY <1>5
  <2>3. Picked(h("HorizontalPodAutoscaler"), core) = Cat(<<>>, Cat(<<>>, <<v[y]>>))
        BY <1>3, <2>1, <2>2
  <2>4. Cat(<<>>, <<v[y]>>) = <<v[y]>> /\ Cat(<<>>, <<v[y]>>) = <<v[y]>>
        BY DEF Cat
  <2> QED BY <2>3, <2>4
<1>11. Picked(h("Service"), core) = [j \in DOMAIN g.listeners |-> v[svc(j)]]
  <2> DEFINE w == [j \in DOMAIN g.listeners |-> v[svc(j)]]
  <2>1. h("Service")[x] = <<>> /\ h("Service")[y] = <<>>
        BY <1>1, <1>2
  <2>2. w \in Seq(V)
        BY <1>8
  <2>3. Picked(h("Service"), u) = w
        BY <1>6
  <2> HIDE DEF w
  <2>4. Picked(h("Service"), core) = Cat(w, Cat(<<>>, <<>>))
        BY <1>3, <2>1, <2>3
  <2>5. Cat(<<>>, <<>>) = <<>> /\ Cat(w, <<>>) = w
        BY <2>2 DEF Cat
  <2>6. Picked(h("Service"), core) = w
        BY <2>4, <2>5
  <2> QED BY <2>6 DEF w
<1> QED BY <1>9, <1>10, <1>11 DEF h, g, svc, x, y, core

\* And of the file: a Deployment and an autoscaler for every group, and the
\* Services of its listeners.
EachDeployment(d, v) == [i \in DOMAIN d.groups |-> v[buildDeployment(d, d.groups[i])]]
EachAutoscaler(d, v) == [i \in DOMAIN d.groups |-> v[buildAutoscaler(d, d.groups[i])]]
EachService(d, v) ==
    [i \in DOMAIN d.groups |->
       [j \in DOMAIN d.groups[i].listeners |->
          v[buildListenerService(d, d.groups[i], d.groups[i].listeners[j])]]]

LEMMA PickKindOfFile ==
    ASSUME NEW d, WellFormed(d.groups), NEW V, NEW v \in [Everything(d) -> V]
    PROVE  /\ Picked(PickKind(d, "Deployment", v), generateYAMLs(d)) = EachDeployment(d, v)
           /\ Picked(PickKind(d, "HorizontalPodAutoscaler", v), generateYAMLs(d)) = EachAutoscaler(d, v)
           /\ Picked(PickKind(d, "Service", v), generateYAMLs(d)) = FlattenSeq(EachService(d, v))
<1>0. \A kind :
         /\ PickKind(d, kind, v) \in [Everything(d) -> Seq(V)]
         /\ \A r \in Everything(d) : r.kind = kind => PickKind(d, kind, v)[r] = <<v[r]>>
         /\ \A r \in Everything(d) : r.kind # kind => PickKind(d, kind, v)[r] = <<>>
      BY PickKindIs
<1> DEFINE I == DOMAIN d.groups
           core(i) == generateCoreYAMLs(d, d.groups[i])
           dep(i) == v[buildDeployment(d, d.groups[i])]
           hpa(i) == v[buildAutoscaler(d, d.groups[i])]
           svcs(i) == [j \in DOMAIN d.groups[i].listeners |->
                         v[buildListenerService(d, d.groups[i], d.groups[i].listeners[j])]]
           h(kind) == PickKind(d, kind, v)
<1>1. \A i \in I : /\ Picked(h("Deployment"), core(i)) = <<dep(i)>>
                   /\ Picked(h("HorizontalPodAutoscaler"), core(i)) = <<hpa(i)>>
                   /\ Picked(h("Service"), core(i)) = svcs(i)
      BY PickKindOfCore
<1>2. \A kind \in {"Deployment", "HorizontalPodAutoscaler", "Service"} :
         Picked(h(kind), generateYAMLs(d)) = FlattenSeq([i \in I |-> Picked(h(kind), core(i))])
  <2>1. TAKE kind \in {"Deployment", "HorizontalPodAutoscaler", "Service"}
  <2>2. h(kind) \in [Everything(d) -> Seq(V)]
        BY <1>0
  <2>3. \A r \in Everything(d) : r.kind \in {"Role", "RoleBinding", "ConfigMap"} => h(kind)[r] = <<>>
    <3>1. \A r \in Everything(d) : r.kind # kind => h(kind)[r] = <<>>
          BY <1>0
    <3> QED BY <3>1
  <2> HIDE DEF h
  <2> QED BY <2>2, <2>3, PickedOfFile
<1>3. \A i \in I : dep(i) \in V /\ hpa(i) \in V
  <2>1. \A i \in I : /\ buildDeployment(d, d.groups[i]) \in Everything(d)
                     /\ buildAutoscaler(d, d.groups[i]) \in Everything(d)
        BY DEF Everything, AllCore, CoreOf
  <2> QED BY <2>1
<1>4. Len(d.groups) \in Nat /\ I = 1 .. Len(d.groups)
      BY GroupsAreSequence
<1> HIDE DEF I, core, dep, hpa, svcs, h
<1>5. /\ [i \in I |-> Picked(h("Deployment"), core(i))] = [i \in I |-> <<dep(i)>>]
      /\ [i \in I |-> Picked(h("HorizontalPodAutoscaler"), core(i))] = [i \in I |-> <<hpa(i)>>]
      /\ [i \in I |-> Picked(h("Service"), core(i))] = [i \in I |-> svcs(i)]
      BY <1>1
<1>6. [i \in I |-> dep(i)] \in Seq(V) /\ [i \in I |-> hpa(i)] \in Seq(V)
      BY <1>3, <1>4
<1>7. FlattenSeq([i \in I |-> <<dep(i)>>]) = [i \in I |-> dep(i)]
  <2> DEFINE w == [i \in I |-> dep(i)]
  <2>1. [k \in DOMAIN w |-> <<w[k]>>] = [i \in I |-> <<dep(i)>>]
        OBVIOUS
  <2>2. FlattenSeq([k \in DOMAIN w |-> <<w[k]>>]) = w
    <3> HIDE DEF w
    <3>1. w \in Seq(V)
          BY <1>6 DEF w
    <3> QED BY <3>1, PickedSingles
  <2> QED BY <2>1, <2>2
<1>8. FlattenSeq([i \in I |-> <<hpa(i)>>]) = [i \in I |-> hpa(i)]
  <2> DEFINE w == [i \in I |-> hpa(i)]
  <2>1. [k \in DOMAIN w |-> <<w[k]>>] = [i \in I |-> <<hpa(i)>>]
        OBVIOUS
  <2>2. FlattenSeq([k \in DOMAIN w |-> <<w[k]>>]) = w
    <3> HIDE DEF w
    <3>1. w \in Seq(V)
          BY <1>6 DEF w
    <3> QED BY <3>1, PickedSingles
  <2> QED BY <2>1, <2>2
<1>9. /\ Picked(h("Deployment"), generateYAMLs(d)) = [i \in I |-> dep(i)]
      /\ Picked(h("HorizontalPodAutoscaler"), generateYAMLs(d)) = [i \in I |-> hpa(i)]
      /\ Picked(h("Service"), generateYAMLs(d)) = FlattenSeq([i \in I |-> svcs(i)])
      BY <1>2, <1>5, <1>7, <1>8
<1>10. /\ [i \in I |-> dep(i)] = EachDeployment(d, v)
       /\ [i \in I |-> hpa(i)] = EachAutoscaler(d, v)
       /\ [i \in I |-> svcs(i)] = EachService(d, v)
       BY DEF EachDeployment, EachAutoscaler, EachService, I, dep, hpa, svcs
<1> QED BY <1>9, <1>10 DEF h

LEMMA FileIn ==
    ASSUME NEW d, WellFormed(d.groups)
    PROVE  \A k \in DOMAIN generateYAMLs(d) : generateYAMLs(d)[k] \in Everything(d)
<1> DEFINE f == generateYAMLs(d)
           roles == generateRolesAndBindings(d.config.ServiceAccount)
           S == {roles[1], roles[2], generateConfigMap(d)} \cup AllCore(d)
<1>1. f \in Seq(S)
      BY FileParts
<1>2. S = Everything(d)
      BY DEF Everything
<1> HIDE DEF f, S
<1>3. \A k \in DOMAIN f : f[k] \in S
      BY <1>1
<1> QED BY <1>2, <1>3 DEF f

LEMMA EachIsPicked ==
    ASSUME NEW d, WellFormed(d.groups), NEW v, NEW kind
    PROVE  FlattenSeq([k \in DOMAIN generateYAMLs(d) |->
              IF generateYAMLs(d)[k].kind = kind THEN <<v[generateYAMLs(d)[k]]>> ELSE <<>>])
              = Picked(PickKind(d, kind, v), generateYAMLs(d))
<1> DEFINE f == generateYAMLs(d)
           h == PickKind(d, kind, v)
<1>1. \A k \in DOMAIN f : f[k] \in Everything(d)
      BY FileIn
<1>2. \A r \in Everything(d) : h[r] = IF r.kind = kind THEN <<v[r]>> ELSE <<>>
      BY DEF PickKind
<1> HIDE DEF f, h
<1>3. \A k \in DOMAIN f : h[f[k]] = IF f[k].kind = kind THEN <<v[f[k]]>> ELSE <<>>
      BY <1>1, <1>2
<1>4. [k \in DOMAIN f |-> IF f[k].kind = kind THEN <<v[f[k]]>> ELSE <<>>] = PickedEach(h, f)
      BY <1>3 DEF PickedEach
<1> QED BY <1>4 DEF f, h, Picked

\* The header names the components of each Deployment and the listener of each
\* Service, in the order of the file, and a command for all but the roles.
HeaderSays(d, f) ==
    /\ FlattenSeq([k \in DOMAIN f |-> IF f[k].kind = "Deployment"
                                      THEN <<f[k].container.args>> ELSE <<>>]) = header(d).Groups
    /\ FlattenSeq([k \in DOMAIN f |-> IF f[k].kind = "Service"
                                      THEN <<f[k].listener>> ELSE <<>>]) = header(d).Listeners
    /\ FlattenSeq([k \in DOMAIN f |-> IF f[k].kind = "HorizontalPodAutoscaler"
                                      THEN <<f[k].target>> ELSE <<>>])
         = FlattenSeq([k \in DOMAIN f |-> IF f[k].kind = "Deployment"
                                          THEN <<f[k].name>> ELSE <<>>])
    /\ \A r \in Range(f) :
          (r.kind \in Range(header(d).delete.kinds) /\ r.labels.version = header(d).delete.Version)
             <=> r.kind \notin {"Role", "RoleBinding"}

LEMMA HeaderParts ==
    ASSUME NEW d, WellFormed(d.groups), NEW f, f = generateYAMLs(d)
    PROVE  HeaderSays(d, f)
<1> DEFINE X == Everything(d)
           args == [r \in X |-> r.container.args]
           listener == [r \in X |-> r.listener]
           target == [r \in X |-> r.target]
           name == [r \in X |-> r.name]
           g(i) == d.groups[i]
<1>1. \A k \in DOMAIN f : f[k] \in X
      BY FileIn
<1>2. \A i \in DOMAIN d.groups :
         /\ buildDeployment(d, g(i)) \in X /\ buildAutoscaler(d, g(i)) \in X
         /\ \A l \in Range(g(i).listeners) : buildListenerService(d, g(i), l) \in X
      BY DEF Everything, AllCore, CoreOf
<1> HIDE DEF X
<1>3. FlattenSeq([k \in DOMAIN f |-> IF f[k].kind = "Deployment" THEN <<f[k].container.args>> ELSE <<>>])
         = header(d).Groups
  <2> DEFINE V == {r.container.args : r \in X}
  <2>1. args \in [X -> V]
        OBVIOUS
  <2>2. [k \in DOMAIN f |-> IF f[k].kind = "Deployment" THEN <<f[k].container.args>> ELSE <<>>]
           = [k \in DOMAIN f |-> IF f[k].kind = "Deployment" THEN <<args[f[k]]>> ELSE <<>>]
        BY <1>1
  <2>3. \A i \in DOMAIN d.groups : args[buildDeployment(d, g(i))] = g(i).Components
        BY <1>2 DEF buildDeployment, buildContainer
  <2>4. header(d).Groups = [i \in DOMAIN d.groups |-> g(i).Components]
        BY DEF header
  <2> HIDE DEF args, V
  <2>5. FlattenSeq([k \in DOMAIN f |-> IF f[k].kind = "Deployment" THEN <<args[f[k]]>> ELSE <<>>])
           = Picked(PickKind(d, "Deployment", args), f)
        BY EachIsPicked
  <2>6. Picked(PickKind(d, "Deployment", args), f) = EachDeployment(d, args)
        BY <2>1, PickKindOfFile DEF X
  <2>7. EachDeployment(d, args) = header(d).Groups
        BY <2>3, <2>4 DEF EachDeployment
  <2> QED BY <2>2, <2>5, <2>6, <2>7
<1>4. FlattenSeq([k \in DOMAIN f |-> IF f[k].kind = "Service" THEN <<f[k].listener>> ELSE <<>>])
         = header(d).Listeners
  <2> DEFINE ls(i) == g(i).listeners
             V == {r.listener : r \in X}
  <2>1. listener \in [X -> V]
        OBVIOUS
  <2>2. [k \in DOMAIN f |-> IF f[k].kind = "Service" THEN <<f[k].listener>> ELSE <<>>]
           = [k \in DOMAIN f |-> IF f[k].kind = "Service" THEN <<listener[f[k]]>> ELSE <<>>]
        BY <1>1
  <2>3. \A i \in DOMAIN d.groups : \A j \in DOMAIN ls(i) :
           listener[buildListenerService(d, g(i), ls(i)[j])] = ls(i)[j].name
        BY <1>2 DEF buildListenerService, Range
  <2>4. header(d).Listeners = FlattenSeq([i \in DOMAIN d.groups |-> [j \in DOMAIN ls(i) |-> ls(i)[j].name]])
        BY DEF header
  <2>5. FlattenSeq([k \in DOMAIN f |-> IF f[k].kind = "Service" THEN <<listener[f[k]]>> ELSE <<>>])
           = Picked(PickKind(d, "Service", listener), f)
    <3> HIDE DEF listener
    <3> QED BY EachIsPicked
  <2>6. Picked(PickKind(d, "Service", listener), f) = FlattenSeq(EachService(d, listener))
    <3> HIDE DEF listener, V
    <3> QED BY <2>1, PickKindOfFile DEF X
  <2>8. EachService(d, listener) =
           [i \in DOMAIN d.groups |->
              [j \in DOMAIN ls(i) |-> listener[buildListenerService(d, g(i), ls(i)[j])]]]
    <3> HIDE DEF listener
    <3> QED BY DEF EachService
  <2> HIDE DEF listener, ls, g, V
  <2>7. [i \in DOMAIN d.groups |-> [j \in DOMAIN ls(i) |-> listener[buildListenerService(d, g(i), ls(i)[j])]]]
           = [i \in DOMAIN d.groups |-> [j \in DOMAIN ls(i) |-> ls(i)[j].name]]
    <3>1. \A i \in DOMAIN d.groups :
             [j \in DOMAIN ls(i) |-> listener[buildListenerService(d, g(i), ls(i)[j])]]
                = [j \in DOMAIN ls(i) |-> ls(i)[j].name]
          BY <2>3
    <3> QED BY <3>1
  <2> QED BY <2>2, <2>4, <2>5, <2>6, <2>7, <2>8
<1>5. FlattenSeq([k \in DOMAIN f |-> IF f[k].kind = "HorizontalPodAutoscaler" THEN <<f[k].target>> ELSE <<>>])
         = FlattenSeq([k \in DOMAIN f |-> IF f[k].kind = "Deployment" THEN <<f[k].name>> ELSE <<>>])
  <2> DEFINE V == {r.target : r \in X}
             W == {r.name : r \in X}
  <2>1. target \in [X -> V] /\ name \in [X -> W]
        OBVIOUS
  <2>2. [k \in DOMAIN f |-> IF f[k].kind = "HorizontalPodAutoscaler" THEN <<f[k].target>> ELSE <<>>]
           = [k \in DOMAIN f |-> IF f[k].kind = "HorizontalPodAutoscaler" THEN <<target[f[k]]>> ELSE <<>>]
        BY <1>1
  <2>3. [k \in DOMAIN f |-> IF f[k].kind = "Deployment" THEN <<f[k].name>> ELSE <<>>]
           = [k \in DOMAIN f |-> IF f[k].kind = "Deployment" THEN <<name[f[k]]>> ELSE <<>>]
        BY <1>1
  <2>4. \A i \in DOMAIN d.groups : target[buildAutoscaler(d, g(i))] = name[buildDeployment(d, g(i))]
    <3>1. \A i \in DOMAIN d.groups : /\ target[buildAutoscaler(d, g(i))] = buildAutoscaler(d, g(i)).target
                                     /\ name[buildDeployment(d, g(i))] = buildDeployment(d, g(i)).name
          BY <1>2
    <3>2. \A i \in DOMAIN d.groups : buildAutoscaler(d, g(i)).target = buildDeployment(d, g(i)).name
          BY DEF buildAutoscaler, buildDeployment
    <3> QED BY <3>1, <3>2
  <2> HIDE DEF target, name, V, W
  <2>5. FlattenSeq([k \in DOMAIN f |-> IF f[k].kind = "HorizontalPodAutoscaler" THEN <<target[f[k]]>> ELSE <<>>])
           = Picked(PickKind(d, "HorizontalPodAutoscaler", target), f)
        BY EachIsPicked
  <2>6. FlattenSeq([k \in DOMAIN f |-> IF f[k].kind = "Deployment" THEN <<name[f[k]]>> ELSE <<>>])
           = Picked(PickKind(d, "Deployment", name), f)
        BY EachIsPicked
  <2>7. Picked(PickKind(d, "HorizontalPodAutoscaler", target), f) = EachAutoscaler(d, target)
        BY <2>1, PickKindOfFile DEF X
  <2>8. Picked(PickKind(d, "Deployment", name), f) = EachDeployment(d, name)
        BY <2>1, PickKindOfFile DEF X
  <2>9. EachAutoscaler(d, target) = EachDeployment(d, name)
        BY <2>4 DEF EachAutoscaler, EachDeployment
  <2> QED BY <2>2, <2>3, <2>5, <2>6, <2>7, <2>8, <2>9
<1>6. ASSUME NEW r \in Range(f), r.kind \notin {"Role", "RoleBinding"}
      PROVE  r.labels.version = header(d).delete.Version
  <2>1. r = generateConfigMap(d)
        \/ \E i \in DOMAIN d.groups :
              \/ r = buildDeployment(d, d.groups[i]) \/ r = buildAutoscaler(d, d.groups[i])
              \/ \E l \in Range(d.groups[i].listeners) : r = buildListenerService(d, d.groups[i], l)
        BY <1>6, FileKinds
  <2>2. r.labels = Labels(d)
    <3>1. /\ generateConfigMap(d).labels = Labels(d)
          /\ \A h : buildDeployment(d, h).labels = Labels(d) /\ buildAutoscaler(d, h).labels = Labels(d)
          BY DEF generateConfigMap, buildDeployment, buildAutoscaler
    <3>2. \A h, l : buildListenerService(d, h, l).labels = Labels(d)
          BY DEF buildListenerService
    <3> QED BY <2>1, <3>1, <3>2
  <2>3. Labels(d).version = d.deploymentId /\ header(d).delete.Version = d.deploymentId
        BY DEF Labels, header
  <2> QED BY <2>2, <2>3
<1>7. \A r \in Range(f) :
         r.kind \in Range(header(d).delete.kinds) <=> r.kind \notin {"Role", "RoleBinding"}
  <2>1. header(d).delete.kinds = selectedKinds
        BY DEF header
  <2>2. Range(selectedKinds) = {"Pod", "Service", "Deployment", "HorizontalPodAutoscaler", "ConfigMap"}
        BY DEF selectedKinds, allKinds, Range
  <2>3. \A r \in Range(f) :
           r.kind \in {"Role", "RoleBinding", "ConfigMap", "Service", "Deployment", "HorizontalPodAutoscaler"}
        BY FileKinds
  <2> QED BY <2>1, <2>2, <2>3
<1> QED BY <1>3, <1>4, <1>5, <1>6, <1>7 DEF HeaderSays
-------------------------------------------------------------------------------
(* No two resources of the file have one kind and name, but shared Services. *)

\* After the third element of f come the elements of the sequences ss, each in
\* one place.
Apart(f, ss) ==
    \A k, p \in 4 .. Len(f) :
       \E i, x \in 1 .. Len(ss) : \E j \in 1 .. Len(ss[i]), y \in 1 .. Len(ss[x]) :
          /\ f[k] = ss[i][j] /\ f[p] = ss[x][y]
          /\ i = x /\ j = y => k = p

LEMMA ThreeThenApart ==
    ASSUME NEW S, NEW ss \in Seq(Seq(S)), NEW a, NEW b, NEW m
    PROVE  Apart(<<a, b>> \o <<m>> \o FlattenSeq(ss), ss)
<1> DEFINE t == FlattenSeq(ss)
           f == <<a, b>> \o <<m>> \o t
<1>1. t \in Seq(S)
      BY FlattenOffsets
<1>2. PICK off : Offsets(off, ss) /\ Flattened(t, ss, off)
      BY FlattenOffsets
<1>3. \A x \in 1 .. off[Len(ss)] : \E i \in 1 .. Len(ss) : \E j \in 1 .. Len(ss[i]) : x = off[i - 1] + j
      BY <1>2, OffsetsCover
<1> HIDE DEF t
<1>4. Len(t) \in Nat /\ Len(f) = Len(t) + 3 /\ \A x \in 1 .. Len(t) : f[x + 3] = t[x]
      BY <1>1, ThreeThen
<1> HIDE DEF f
<1>5. ASSUME NEW k \in 4 .. Len(f)
      PROVE  \E i \in 1 .. Len(ss) : \E j \in 1 .. Len(ss[i]) :
                f[k] = ss[i][j] /\ k - 3 = off[i - 1] + j
  <2>1. k - 3 \in 1 .. Len(t) /\ k = (k - 3) + 3 /\ Len(t) = off[Len(ss)]
        BY <1>2, <1>4 DEF Flattened
  <2>2. PICK i \in 1 .. Len(ss) : \E j \in 1 .. Len(ss[i]) : k - 3 = off[i - 1] + j
        BY <1>3, <2>1
  <2>3. PICK j : j \in 1 .. Len(ss[i]) /\ k - 3 = off[i - 1] + j
        BY <2>2
  <2>4. t[off[i - 1] + j] = ss[i][j]
        BY <1>2, <2>3 DEF Flattened
  <2>5. f[k] = t[k - 3]
        BY <1>4, <2>1
  <2> QED BY <2>3, <2>4, <2>5
<1>6. ASSUME NEW k \in 4 .. Len(f), NEW p \in 4 .. Len(f)
      PROVE  \E i, x \in 1 .. Len(ss) : \E j \in 1 .. Len(ss[i]), y \in 1 .. Len(ss[x]) :
                /\ f[k] = ss[i][j] /\ f[p] = ss[x][y]
                /\ i = x /\ j = y => k = p
  <2>1. PICK i : /\ i \in 1 .. Len(ss)
                 /\ \E j \in 1 .. Len(ss[i]) : f[k] = ss[i][j] /\ k - 3 = off[i - 1] + j
        BY <1>5
  <2>2. PICK j : j \in 1 .. Len(ss[i]) /\ f[k] = ss[i][j] /\ k - 3 = off[i - 1] + j
        BY <2>1
  <2>3. PICK x : /\ x \in 1 .. Len(ss)
                 /\ \E y \in 1 .. Len(ss[x]) : f[p] = ss[x][y] /\ p - 3 = off[x - 1] + y
        BY <1>5
  <2>4. PICK y : y \in 1 .. Len(ss[x]) /\ f[p] = ss[x][y] /\ p - 3 = off[x - 1] + y
        BY <2>3
  <2>5. ASSUME i = x, j = y
        PROVE  k = p
    <3>1. k - 3 = p - 3
          BY <2>2, <2>4, <2>5
    <3> QED BY <1>4, <3>1
  <2>6. i \in 1 .. Len(ss) /\ x \in 1 .. Len(ss) /\ j \in 1 .. Len(ss[i]) /\ y \in 1 .. Len(ss[x])
        BY <2>1, <2>2, <2>3, <2>4
  <2>7. f[k] = ss[i][j] /\ f[p] = ss[x][y] /\ (i = x /\ j = y => k = p)
        BY <2>2, <2>4, <2>5
  <2> QED BY <2>6, <2>7, Zenon
<1> QED BY <1>6 DEF f, t, Apart

\* Where the resources of a group are, and which kinds they have.
LEMMA CorePlaces ==
    ASSUME NEW d, WellFormed(d.groups), NEW i \in DOMAIN d.groups
    PROVE  LET g == d.groups[i]
               n == Len(g.listeners)
               s == EachCore(d)[i]
           IN  /\ n \in Nat /\ DOMAIN g.listeners = 1 .. n
               /\ \A j \in 1 .. Len(s) :
                     \/ j \in 1 .. n /\ s[j] = buildListenerService(d, g, g.listeners[j])
                     \/ j = n + 1 /\ s[j] = buildDeployment(d, g)
                     \/ j = n + 2 /\ s[j] = buildAutoscaler(d, g)
<1> DEFINE g == d.groups[i]
           n == Len(g.listeners)
           s == EachCore(d)[i]
<1>1. s = generateCoreYAMLs(d, g) /\ g.listeners \in Seq(Listener)
      BY CoreIsSequence, GroupsAreSequence
<1>2. /\ n \in Nat /\ DOMAIN g.listeners = 1 .. n /\ Len(s) = n + 2
      /\ \A x \in 1 .. n : s[x] = buildListenerService(d, g, g.listeners[x])
      /\ s[n + 1] = buildDeployment(d, g)
      /\ s[n + 2] = buildAutoscaler(d, g)
  <2> HIDE DEF g, s
  <2> QED BY <1>1, CoreParts
<1> HIDE DEF g, n, s
<1>3. \A j \in 1 .. Len(s) : j \in 1 .. n \/ j = n + 1 \/ j = n + 2
      BY <1>2
<1>4. \A j \in 1 .. Len(s) :
         \/ j \in 1 .. n /\ s[j] = buildListenerService(d, g, g.listeners[j])
         \/ j = n + 1 /\ s[j] = buildDeployment(d, g)
         \/ j = n + 2 /\ s[j] = buildAutoscaler(d, g)
      BY <1>2, <1>3
<1> QED BY <1>2, <1>4 DEF g, n, s

LEMMA OnePlaceEach ==
    ASSUME NEW d, WellFormed(d.groups), NEW shared, OwnNames(d.groups, shared),
           NEW i \in DOMAIN d.groups, NEW x \in DOMAIN d.groups,
           NEW j \in 1 .. Len(EachCore(d)[i]), NEW y \in 1 .. Len(EachCore(d)[x]),
           EachCore(d)[i][j].kind = EachCore(d)[x][y].kind,
           EachCore(d)[i][j].name = EachCore(d)[x][y].name
    PROVE  \/ i = x /\ j = y
           \/ Sharing(EachCore(d)[i][j], EachCore(d)[x][y], shared)
<1> DEFINE g == d.groups[i]
           h == d.groups[x]
           n == Len(g.listeners)
           u == Len(h.listeners)
           r == EachCore(d)[i][j]
           s == EachCore(d)[x][y]
<1>1. /\ \/ j \in 1 .. n /\ r = buildListenerService(d, g, g.listeners[j])
         \/ j = n + 1 /\ r = buildDeployment(d, g)
         \/ j = n + 2 /\ r = buildAutoscaler(d, g)
      /\ \/ y \in 1 .. u /\ s = buildListenerService(d, h, h.listeners[y])
         \/ y = u + 1 /\ s = buildDeployment(d, h)
         \/ y = u + 2 /\ s = buildAutoscaler(d, h)
      BY CorePlaces
<1>2. DOMAIN g.listeners = 1 .. n /\ DOMAIN h.listeners = 1 .. u
      BY CorePlaces
<1>3. \A a : /\ buildDeployment(d, a).kind = "Deployment"
             /\ buildDeployment(d, a).name = deploymentName(d.app, a.Name, d.deploymentId)
             /\ buildAutoscaler(d, a).kind = "HorizontalPodAutoscaler"
             /\ buildAutoscaler(d, a).name = deploymentName(d.app, a.Name, d.deploymentId)
      BY DEF buildDeployment, buildAutoscaler
<1>4. \A a, l : /\ buildListenerService(d, a, l).kind = "Service"
                /\ buildListenerService(d, a, l).name = l.serviceName
                /\ buildListenerService(d, a, l).listener = l.name
      BY DEF buildListenerService
<1>5. g.Name = h.Name => i = x
      BY DEF WellFormed
<1>6. deploymentName(d.app, g.Name, d.deploymentId) = deploymentName(d.app, h.Name, d.deploymentId)
         => g.Name = h.Name
      BY DEF deploymentName
<1>7. r.kind = s.kind /\ r.name = s.name
      OBVIOUS
<1>8. CASE r.kind = "Deployment"
  <2> HIDE DEF g, h, n, u, r, s
  <2>1. j = n + 1 /\ r = buildDeployment(d, g) /\ y = u + 1 /\ s = buildDeployment(d, h)
        BY <1>1, <1>3, <1>4, <1>7, <1>8, ZenonT(60)
  <2>2. i = x
        BY <1>3, <1>5, <1>6, <1>7, <2>1
  <2>3. j = y
        BY <2>1, <2>2 DEF n, u, g, h
  <2> QED BY <2>2, <2>3
<1>9. CASE r.kind = "HorizontalPodAutoscaler"
  <2> HIDE DEF g, h, n, u, r, s
  <2>1. j = n + 2 /\ r = buildAutoscaler(d, g) /\ y = u + 2 /\ s = buildAutoscaler(d, h)
        BY <1>1, <1>3, <1>4, <1>7, <1>9, ZenonT(60)
  <2>2. i = x
        BY <1>3, <1>5, <1>6, <1>7, <2>1
  <2>3. j = y
        BY <2>1, <2>2 DEF n, u, g, h
  <2> QED BY <2>2, <2>3
<1>10. CASE r.kind = "Service"
  <2> DEFINE l == g.listeners[j]
             m == h.listeners[y]
  <2>0. /\ \A p \in Range(g.listeners), q \in Range(h.listeners) :
              /\ p.serviceName = q.serviceName => p.name = q.name \/ <<p.name, q.name>> \in shared
              /\ p.name = q.name => i = x /\ p = q
        /\ IsInjective(g.listeners)
        BY DEF WellFormed, OwnNames
  <2>1. /\ j \in 1 .. n /\ r = buildListenerService(d, g, l)
        /\ y \in 1 .. u /\ s = buildListenerService(d, h, m)
    <3> HIDE DEF g, h, n, u, r, s
    <3> QED BY <1>1, <1>3, <1>4, <1>7, <1>10
  <2> HIDE DEF n, u, r, s
  <2>2. l \in Range(g.listeners) /\ m \in Range(h.listeners)
        BY <1>2, <2>1 DEF Range
  <2>3. l.serviceName = m.serviceName
        BY <1>4, <1>7, <2>1
  <2>4. CASE <<l.name, m.name>> \in shared
    <3>1. r.listener = l.name /\ s.listener = m.name
          BY <1>4, <2>1
    <3> HIDE DEF l, m
    <3>2. Sharing(r, s, shared)
          BY <1>7, <1>10, <2>4, <3>1 DEF Sharing
    <3> QED BY <3>2 DEF r, s
  <2>5. CASE l.name = m.name
    <3>1. i = x /\ l = m
          BY <2>0, <2>2, <2>5
    <3>2. g = h
          BY <3>1
    <3>3. j \in DOMAIN g.listeners /\ y \in DOMAIN g.listeners /\ g.listeners[j] = g.listeners[y]
          BY <1>2, <2>1, <3>1, <3>2
    <3> HIDE DEF g, h
    <3>4. j = y
          BY <2>0, <3>3 DEF IsInjective
    <3> QED BY <3>1, <3>4
  <2>6. l.name = m.name \/ <<l.name, m.name>> \in shared
        BY <2>0, <2>2, <2>3
  <2> QED BY <2>4, <2>5, <2>6
<1>11. r.kind \in {"Service", "Deployment", "HorizontalPodAutoscaler"}
  <2> HIDE DEF g, h, n, u, r, s
  <2>1. CASE r = buildListenerService(d, g, g.listeners[j])
    <3>1. buildListenerService(d, g, g.listeners[j]).kind = "Service"
          BY <1>4
    <3> QED BY <2>1, <3>1
  <2>2. CASE r = buildDeployment(d, g)
    <3>1. buildDeployment(d, g).kind = "Deployment"
          BY <1>3
    <3> QED BY <2>2, <3>1
  <2>3. CASE r = buildAutoscaler(d, g)
    <3>1. buildAutoscaler(d, g).kind = "HorizontalPodAutoscaler"
          BY <1>3
    <3> QED BY <2>3, <3>1
  <2> QED BY <1>1, <2>1, <2>2, <2>3
<1> QED BY <1>8, <1>9, <1>10, <1>11

LEMMA OneOfEachName ==
    ASSUME NEW d, WellFormed(d.groups), NEW shared, OwnNames(d.groups, shared)
    PROVE  \A k, p \in DOMAIN generateYAMLs(d) :
              /\ generateYAMLs(d)[k].kind = generateYAMLs(d)[p].kind
              /\ generateYAMLs(d)[k].name = generateYAMLs(d)[p].name
              => k = p \/ Sharing(generateYAMLs(d)[k], generateYAMLs(d)[p], shared)
<1>0. \A i, x \in DOMAIN d.groups :
         \A j \in 1 .. Len(EachCore(d)[i]), y \in 1 .. Len(EachCore(d)[x]) :
            /\ EachCore(d)[i][j].kind = EachCore(d)[x][y].kind
            /\ EachCore(d)[i][j].name = EachCore(d)[x][y].name
            => (i = x /\ j = y) \/ Sharing(EachCore(d)[i][j], EachCore(d)[x][y], shared)
      BY OnePlaceEach
<1> DEFINE f == generateYAMLs(d)
           roles == generateRolesAndBindings(d.config.ServiceAccount)
           a == roles[1]
           b == roles[2]
           m == generateConfigMap(d)
           ss == EachCore(d)
           First == {"Role", "RoleBinding", "ConfigMap"}
<1>1. f = <<a, b>> \o <<m>> \o FlattenSeq(ss)
  <2>1. roles = <<a, b>>
        BY DEF generateRolesAndBindings
  <2>2. f = roles \o <<m>> \o FlattenSeq(ss)
        BY DEF generateYAMLs, EachCore
  <2> HIDE DEF roles, a, b, m, ss, f
  <2> QED BY <2>1, <2>2
<1>2. /\ ss \in Seq(Seq(AllCore(d))) /\ DOMAIN d.groups = 1 .. Len(ss)
      /\ \A i \in 1 .. Len(ss) : \A j \in 1 .. Len(ss[i]) : ss[i][j] \in CoreOf(d, d.groups[i])
  <2>1. ss \in Seq(Seq(AllCore(d))) /\ Len(ss) = Len(d.groups) /\ DOMAIN d.groups = 1 .. Len(d.groups)
        BY CoreIsSequence, GroupsAreSequence
  <2>2. ASSUME NEW i \in DOMAIN d.groups
        PROVE  ss[i] \in Seq(CoreOf(d, d.groups[i]))
    <3> DEFINE g == d.groups[i]
    <3>1. ss[i] = generateCoreYAMLs(d, g) /\ g.listeners \in Seq(Listener)
          BY CoreIsSequence, GroupsAreSequence
    <3> HIDE DEF ss, g
    <3>2. generateCoreYAMLs(d, g) \in Seq(CoreOf(d, g))
          BY <3>1, CoreParts
    <3>3. ss[i] \in Seq(CoreOf(d, g))
          BY <3>1, <3>2
    <3> QED BY <3>3 DEF g
  <2> HIDE DEF ss
  <2> QED BY <2>1, <2>2
<1>3. /\ Len(f) \in Nat /\ DOMAIN f = 1 .. Len(f)
      /\ f[1].kind = "Role" /\ f[2].kind = "RoleBinding" /\ f[3].kind = "ConfigMap"
      BY FileParts, FirstKinds
<1>8. \A i, x \in 1 .. Len(ss) : \A j \in 1 .. Len(ss[i]), y \in 1 .. Len(ss[x]) :
         ss[i][j].kind = ss[x][y].kind /\ ss[i][j].name = ss[x][y].name
            => (i = x /\ j = y) \/ Sharing(ss[i][j], ss[x][y], shared)
      BY <1>0, <1>2
<1> HIDE DEF a, b, m, ss, f
<1>4. Apart(f, ss)
      BY <1>1, <1>2, ThreeThenApart
<1>5. ASSUME NEW k \in 4 .. Len(f)
      PROVE  f[k].kind \notin First
  <2>1. PICK i \in 1 .. Len(ss) : \E j \in 1 .. Len(ss[i]) : f[k] = ss[i][j]
        BY <1>4 DEF Apart
  <2>2. f[k] \in CoreOf(d, d.groups[i])
        BY <1>2, <2>1
  <2> QED BY <2>2, CoreKinds
<1>6. ASSUME NEW k \in 4 .. Len(f), NEW p \in 4 .. Len(f), f[k].kind = f[p].kind, f[k].name = f[p].name
      PROVE  k = p \/ Sharing(f[k], f[p], shared)
  <2>1. PICK i, x \in 1 .. Len(ss) : \E j \in 1 .. Len(ss[i]), y \in 1 .. Len(ss[x]) :
           /\ f[k] = ss[i][j] /\ f[p] = ss[x][y]
           /\ i = x /\ j = y => k = p
        BY <1>4 DEF Apart
  <2>2. PICK j, y : /\ j \in 1 .. Len(ss[i]) /\ y \in 1 .. Len(ss[x])
                    /\ f[k] = ss[i][j] /\ f[p] = ss[x][y]
                    /\ i = x /\ j = y => k = p
        BY <2>1
  <2>3. (i = x /\ j = y) \/ Sharing(ss[i][j], ss[x][y], shared)
    <3>1. ss[i][j].kind = ss[x][y].kind /\ ss[i][j].name = ss[x][y].name
          BY <1>6, <2>2
    <3>2. i \in 1 .. Len(ss) /\ x \in 1 .. Len(ss) /\ j \in 1 .. Len(ss[i]) /\ y \in 1 .. Len(ss[x])
          BY <2>2
    <3>3. \A t \in 1 .. Len(ss[i]), z \in 1 .. Len(ss[x]) :
             ss[i][t].kind = ss[x][z].kind /\ ss[i][t].name = ss[x][z].name
                => (i = x /\ t = z) \/ Sharing(ss[i][t], ss[x][z], shared)
          BY <1>8, Zenon
    <3> QED BY <3>1, <3>2, <3>3, Zenon
  <2> QED BY <2>2, <2>3
<1>7. ASSUME NEW k \in 1 .. Len(f), NEW p \in 1 .. Len(f), f[k].kind = f[p].kind, f[k].name = f[p].name
      PROVE  k = p \/ Sharing(f[k], f[p], shared)
  <2>1. /\ k = 1 \/ k = 2 \/ k = 3 \/ k \in 4 .. Len(f)
        /\ p = 1 \/ p = 2 \/ p = 3 \/ p \in 4 .. Len(f)
        BY <1>3
  <2>2. CASE k \in 4 .. Len(f) /\ p \in 4 .. Len(f)
        BY <1>6, <1>7, <2>2
  <2>3. CASE k \in 4 .. Len(f) /\ p \notin 4 .. Len(f)
    <3>1. f[p].kind \in First
          BY <1>3, <2>1, <2>3
    <3> QED BY <1>5, <1>7, <2>3, <3>1
  <2>4. CASE k \notin 4 .. Len(f) /\ p \in 4 .. Len(f)
    <3>1. f[k].kind \in First
          BY <1>3, <2>1, <2>4
    <3> QED BY <1>5, <1>7, <2>4, <3>1
  <2>5. CASE k \notin 4 .. Len(f) /\ p \notin 4 .. Len(f)
        BY <1>3, <1>7, <2>1, <2>5
  <2> QED BY <2>2, <2>3, <2>4, <2>5
<1> QED BY <1>3, <1>7 DEF f
===============================================================================
