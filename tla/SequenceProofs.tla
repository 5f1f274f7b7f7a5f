----------------------------- MODULE SequenceProofs -----------------------------
(***************************************************************************)
(* Facts about numbers and sequences that the proofs about several         *)
(* components need: of Max, of FlattenSeq and of the positions in a        *)
(* sequence.  The library's induction theorem for numbers has an operator  *)
(* as its parameter; Induction is the same with a set.                     *)
(***************************************************************************)
EXTENDS Naturals, SequencesExt, FiniteSetsExt, WellFoundedInduction, TLAPS

\* A set that has 0, and n + 1 if it has n, has all numbers.
LEMMA Induction ==
    ASSUME NEW T, 0 \in T, \A n \in Nat : n \in T => n + 1 \in T
    PROVE  \A n \in Nat : n \in T
<1> DEFINE Bad  == {n \in Nat : n \notin T}
           Less == {p \in Nat \X Nat : p[1] < p[2]}
<1> SUFFICES ASSUME Bad # {} PROVE FALSE
    OBVIOUS
<1>1. IsWellFoundedOn(Less, Nat)
      BY NatLessThanWellFounded DEF OpToRel
<1>2. Bad \subseteq Nat
      OBVIOUS
<1>3. PICK n \in Bad : \A m \in Bad : ~ (<<m, n>> \in Less)
  <2> HIDE DEF Bad, Less
  <2> QED BY <1>1, <1>2, WFMin
<1>4. n \in Nat /\ n # 0 /\ n - 1 \in Nat
      OBVIOUS
<1>5. n - 1 \notin Bad
  <2>1. <<n - 1, n>> \in Less
        BY <1>4
  <2> HIDE DEF Bad, Less
  <2> QED BY <1>3, <2>1
<1>6. (n - 1) + 1 \in T
      BY <1>4, <1>5
<1> QED BY <1>4, <1>6

\* A non-empty set of numbers up to n has a greatest one.
LEMMA MaxOfSet ==
    ASSUME NEW n \in Nat, NEW S \in SUBSET (1 .. n), S # {}
    PROVE  Max(S) \in S /\ \A i \in S : i <= Max(S)
<1> DEFINE T == {k \in Nat : \A U \in SUBSET (1 .. k) :
                    U # {} => \E m \in U : \A i \in U : i <= m}
<1>1. 0 \in T
  <2>1. \A U \in SUBSET (1 .. 0) : U = {}
        OBVIOUS
  <2> QED BY <2>1
<1>2. ASSUME NEW k \in Nat, k \in T
      PROVE  k + 1 \in T
  <2> SUFFICES ASSUME NEW U \in SUBSET (1 .. k + 1), U # {}
               PROVE  \E m \in U : \A i \in U : i <= m
      OBVIOUS
  <2>1. CASE k + 1 \in U
        BY <2>1
  <2>2. CASE k + 1 \notin U
    <3>1. U \in SUBSET (1 .. k)
          BY <2>2
    <3> QED BY <1>2, <3>1
  <2> QED BY <2>1, <2>2
<1>3. n \in T
  <2> HIDE DEF T
  <2> QED BY <1>1, <1>2, Induction
<1> QED BY <1>3 DEF Max

LEMMA MinOfSet ==
    ASSUME NEW S \in SUBSET Nat, S # {}
    PROVE  Min(S) \in S /\ \A i \in S : Min(S) <= i
<1> DEFINE Less == {p \in Nat \X Nat : p[1] < p[2]}
<1>1. IsWellFoundedOn(Less, Nat)
      BY NatLessThanWellFounded DEF OpToRel
<1>2. PICK n \in S : \A m \in S : ~ (<<m, n>> \in Less)
  <2> HIDE DEF Less
  <2> QED BY <1>1, WFMin
<1>3. ASSUME NEW m \in S
      PROVE  n <= m
  <2>1. n \in Nat /\ m \in Nat
        OBVIOUS
  <2>2. m < n => <<m, n>> \in Less
        BY <2>1
  <2> HIDE DEF Less
  <2> QED BY <1>2, <2>1, <2>2
<1>4. \E k \in S : \A m \in S : k <= m
      BY <1>3
<1> QED BY <1>4, Zenon DEF Min

LEMMA Within ==
    ASSUME NEW l \in Nat, NEW m \in Nat
    PROVE  /\ \A k \in 1 .. l : k \in 1 .. l + m
           /\ \A k \in 1 .. m : l + k \in 1 .. l + m
OBVIOUS
-------------------------------------------------------------------------------
(* Sequences one after the other. *)

Cat(s, t) == s \o t

LEMMA ConcatParts ==
    ASSUME NEW S, NEW s \in Seq(S), NEW t \in Seq(S)
    PROVE  /\ Cat(s, t) \in Seq(S) /\ Len(Cat(s, t)) = Len(s) + Len(t)
           /\ Len(s) \in Nat /\ Len(t) \in Nat
           /\ \A k \in 1 .. Len(s) : Cat(s, t)[k] = s[k]
           /\ \A k \in 1 .. Len(t) : Cat(s, t)[Len(s) + k] = t[k]
BY DEF Cat
-------------------------------------------------------------------------------
(* FlattenSeq. *)

\* What the local definition in FlattenSeq says.
Flattens(f, ss, n) ==
    f = [i \in 1 .. n |-> IF i = 1 THEN ss[i] ELSE Cat(f[i - 1], ss[i])]

LEMMA FlattensExists ==
    ASSUME NEW ss, NEW n \in Nat
    PROVE  \E f : Flattens(f, ss, n)
<1> DEFINE T == {k \in Nat : \E f : Flattens(f, ss, k)}
<1>1. 0 \in T
  <2>1. Flattens(<<>>, ss, 0)
        BY DEF Flattens
  <2> QED BY <2>1
<1>2. ASSUME NEW k \in Nat, k \in T
      PROVE  k + 1 \in T
  <2>1. PICK f : Flattens(f, ss, k)
        BY <1>2
  <2> DEFINE g == [i \in 1 .. k + 1 |->
                     IF i = k + 1 THEN IF i = 1 THEN ss[i] ELSE Cat(f[k], ss[i]) ELSE f[i]]
  <2>2. \A i \in 1 .. k : f[i] = IF i = 1 THEN ss[i] ELSE Cat(f[i - 1], ss[i])
        BY <2>1 DEF Flattens
  <2>3. \A i \in 1 .. k + 1 : g[i] = IF i = 1 THEN ss[i] ELSE Cat(g[i - 1], ss[i])
    <3> SUFFICES ASSUME NEW i \in 1 .. k + 1, i # 1
                 PROVE  g[i] = Cat(g[i - 1], ss[i])
      <4>1. g[1] = ss[1]
            BY <2>2
      <4> QED BY <4>1
    <3>1. i - 1 \in 1 .. k + 1 /\ g[i - 1] = f[i - 1]
          OBVIOUS
    <3>2. CASE i = k + 1
          BY <3>1, <3>2
    <3>3. CASE i # k + 1
          BY <2>2, <3>1, <3>3
    <3> QED BY <3>2, <3>3
  <2>4. DOMAIN g = 1 .. k + 1 /\ g = [i \in 1 .. k + 1 |-> g[i]]
        OBVIOUS
  <2> HIDE DEF g
  <2>5. Flattens(g, ss, k + 1)
        BY <2>3, <2>4 DEF Flattens
  <2> QED BY <2>5
<1>3. n \in T
  <2> HIDE DEF T
  <2> QED BY <1>1, <1>2, Induction
<1> QED BY <1>3

LEMMA FlattenSeqIs ==
    ASSUME NEW ss, Len(ss) \in Nat, Len(ss) # 0
    PROVE  \E f : Flattens(f, ss, Len(ss)) /\ FlattenSeq(ss) = f[Len(ss)]
<1> DEFINE f == CHOOSE f : Flattens(f, ss, Len(ss))
<1>1. Flattens(f, ss, Len(ss))
      BY FlattensExists
<1>2. FlattenSeq(ss) = f[Len(ss)]
      BY Zenon DEF FlattenSeq, Flattens, Cat
<1> HIDE DEF f
<1> QED BY <1>1, <1>2

LEMMA FlattensAt ==
    ASSUME NEW f, NEW ss, NEW n, Flattens(f, ss, n)
    PROVE  \A i \in 1 .. n : f[i] = IF i = 1 THEN ss[i] ELSE Cat(f[i - 1], ss[i])
BY Zenon DEF Flattens

\* Where the elements of ss start and end in FlattenSeq(ss).
Offsets(off, ss) ==
    /\ off \in [0 .. Len(ss) -> Nat]
    /\ off[0] = 0
    /\ \A i \in 1 .. Len(ss) : off[i] = off[i - 1] + Len(ss[i])

\* The sequence s has them there, and nothing else.
Flattened(s, ss, off) ==
    /\ Len(s) = off[Len(ss)]
    /\ \A i \in 1 .. Len(ss) : \A j \in 1 .. Len(ss[i]) :
          /\ off[i - 1] + j \in 1 .. Len(s)
          /\ s[off[i - 1] + j] = ss[i][j]

LEMMA FlattenOffsets ==
    ASSUME NEW S, NEW ss \in Seq(Seq(S))
    PROVE  /\ FlattenSeq(ss) \in Seq(S)
           /\ \E off : Offsets(off, ss) /\ Flattened(FlattenSeq(ss), ss, off)
<1>1. Len(ss) \in Nat /\ \A i \in 1 .. Len(ss) : ss[i] \in Seq(S) /\ Len(ss[i]) \in Nat
      OBVIOUS
<1>2. CASE Len(ss) = 0
  <2>1. FlattenSeq(ss) = ss /\ ss = <<>>
        BY <1>2 DEF FlattenSeq
  <2>2. Offsets([i \in 0 .. 0 |-> 0], ss)
        BY <1>2 DEF Offsets
  <2>3. Flattened(<<>>, ss, [i \in 0 .. 0 |-> 0])
        BY <1>2 DEF Flattened
  <2> QED BY <2>1, <2>2, <2>3
<1>3. CASE Len(ss) # 0
  <2>1. PICK f : Flattens(f, ss, Len(ss)) /\ FlattenSeq(ss) = f[Len(ss)]
        BY <1>1, <1>3, FlattenSeqIs
  <2>2. f[1] = ss[1] /\ \A i \in 1 .. Len(ss) : i # 1 => f[i] = Cat(f[i - 1], ss[i])
    <3>1. \A i \in 1 .. Len(ss) : f[i] = IF i = 1 THEN ss[i] ELSE Cat(f[i - 1], ss[i])
          BY <2>1, FlattensAt
    <3>2. 1 \in 1 .. Len(ss)
          BY <1>1, <1>3
    <3> QED BY <3>1, <3>2
  <2> DEFINE off == [i \in 0 .. Len(ss) |-> IF i = 0 THEN 0 ELSE Len(f[i])]
             T == {n \in Nat : n + 1 <= Len(ss) =>
                     /\ f[n + 1] \in Seq(S)
                     /\ off[n + 1] = off[n] + Len(ss[n + 1])
                     /\ \A i \in 1 .. n + 1 : \A j \in 1 .. Len(ss[i]) :
                           /\ off[i - 1] + j \in 1 .. Len(f[n + 1])
                           /\ f[n + 1][off[i - 1] + j] = ss[i][j]}
  <2>3. 0 \in T
    <3>1. off[0] = 0 /\ off[1] = Len(ss[1]) /\ f[1] \in Seq(S) /\ Len(f[1]) = Len(ss[1])
          BY <1>1, <1>3, <2>2
    <3> QED BY <1>1, <1>3, <2>2, <3>1
  <2>4. ASSUME NEW n \in Nat, n \in T
        PROVE  n + 1 \in T
    <3> SUFFICES ASSUME n + 2 <= Len(ss)
                 PROVE  /\ f[n + 2] \in Seq(S)
                        /\ off[n + 2] = off[n + 1] + Len(ss[n + 2])
                        /\ \A i \in 1 .. n + 2 : \A j \in 1 .. Len(ss[i]) :
                              /\ off[i - 1] + j \in 1 .. Len(f[n + 2])
                              /\ f[n + 2][off[i - 1] + j] = ss[i][j]
        BY (n + 1) + 1 = n + 2
    <3>1. /\ f[n + 1] \in Seq(S)
          /\ \A i \in 1 .. n + 1 : \A j \in 1 .. Len(ss[i]) :
                /\ off[i - 1] + j \in 1 .. Len(f[n + 1])
                /\ f[n + 1][off[i - 1] + j] = ss[i][j]
          BY <1>1, <2>4, SMTT(30)
    <3>2. n + 2 \in 1 .. Len(ss) /\ n + 2 # 1 /\ (n + 2) - 1 = n + 1 /\ ss[n + 2] \in Seq(S)
          BY <1>1
    <3>3. f[n + 2] = Cat(f[n + 1], ss[n + 2])
          BY <2>2, <3>2
    <3>4. /\ off[n + 1] = Len(f[n + 1]) /\ off[n + 2] = Len(f[n + 2])
          /\ \A i \in 1 .. n + 2 : i - 1 \in 0 .. Len(ss)
          BY <3>2
    <3> HIDE DEF off, T
    <3>5. /\ f[n + 2] \in Seq(S) /\ Len(f[n + 2]) = Len(f[n + 1]) + Len(ss[n + 2])
          /\ Len(f[n + 1]) \in Nat /\ Len(ss[n + 2]) \in Nat
          /\ \A k \in 1 .. Len(f[n + 1]) : f[n + 2][k] = f[n + 1][k]
          /\ \A k \in 1 .. Len(ss[n + 2]) : f[n + 2][Len(f[n + 1]) + k] = ss[n + 2][k]
      <4> DEFINE s == f[n + 1]
                 t == ss[n + 2]
                 u == f[n + 2]
      <4>1. s \in Seq(S) /\ t \in Seq(S)
            BY <3>1, <3>2
      <4>2. u = Cat(s, t)
            BY <3>3
      <4> HIDE DEF s, t, u
      <4>3. /\ u \in Seq(S) /\ Len(u) = Len(s) + Len(t)
            /\ Len(s) \in Nat /\ Len(t) \in Nat
            /\ \A k \in 1 .. Len(s) : u[k] = s[k]
            /\ \A k \in 1 .. Len(t) : u[Len(s) + k] = t[k]
        <5>1. Cat(s, t) \in Seq(S) /\ Len(Cat(s, t)) = Len(s) + Len(t)
              BY <4>1, ConcatParts
        <5>2. Len(s) \in Nat /\ Len(t) \in Nat
              BY <4>1
        <5>3. \A k \in 1 .. Len(s) : Cat(s, t)[k] = s[k]
              BY <4>1, ConcatParts
        <5>4. \A k \in 1 .. Len(t) : Cat(s, t)[Len(s) + k] = t[k]
              BY <4>1, ConcatParts
        <5> QED BY <4>2, <5>1, <5>2, <5>3, <5>4
      <4> QED BY <4>3 DEF s, t, u
    <3>6. ASSUME NEW i \in 1 .. n + 2, NEW j \in 1 .. Len(ss[i])
          PROVE  off[i - 1] + j \in 1 .. Len(f[n + 2]) /\ f[n + 2][off[i - 1] + j] = ss[i][j]
      <4>1. CASE i \in 1 .. n + 1
        <5>1. off[i - 1] + j \in 1 .. Len(f[n + 1]) /\ f[n + 1][off[i - 1] + j] = ss[i][j]
              BY <3>1, <4>1
        <5>2. \A k \in 1 .. Len(f[n + 1]) : k \in 1 .. Len(f[n + 2])
              BY <3>5, Within
        <5> QED BY <3>5, <5>1, <5>2
      <4>2. CASE i = n + 2
        <5>1. off[i - 1] = Len(f[n + 1])
              BY <3>2, <3>4, <4>2
        <5>2. \A k \in 1 .. Len(ss[n + 2]) : Len(f[n + 1]) + k \in 1 .. Len(f[n + 2])
              BY <3>5, Within
        <5> QED BY <3>5, <4>2, <5>1, <5>2
      <4> QED BY <4>1, <4>2
    <3> QED BY <3>4, <3>5, <3>6
  <2>5. \A n \in Nat : n \in T
    <3> HIDE DEF T
    <3> QED BY <2>3, <2>4, Induction
  <2>6. ASSUME NEW i \in 1 .. Len(ss)
        PROVE  /\ f[i] \in Seq(S) /\ off[i] = off[i - 1] + Len(ss[i])
               /\ \A k \in 1 .. i : \A j \in 1 .. Len(ss[k]) :
                     off[k - 1] + j \in 1 .. Len(f[i]) /\ f[i][off[k - 1] + j] = ss[k][j]
    <3>1. i - 1 \in Nat /\ (i - 1) + 1 = i
          OBVIOUS
    <3>2. i - 1 \in T
          BY <2>5, <3>1
    <3> HIDE DEF off
    <3> QED BY <1>1, <3>1, <3>2
  <2>7. off \in [0 .. Len(ss) -> Nat] /\ off[0] = 0 /\ off[Len(ss)] = Len(f[Len(ss)])
    <3>1. \A i \in 0 .. Len(ss) : i # 0 => Len(f[i]) \in Nat
          BY <2>6
    <3> QED BY <1>1, <1>3, <3>1
  <2>8. Len(ss) \in 1 .. Len(ss)
        BY <1>1, <1>3
  <2> HIDE DEF off, T
  <2>9. Offsets(off, ss)
        BY <2>6, <2>7 DEF Offsets
  <2>10. Flattened(FlattenSeq(ss), ss, off)
         BY <2>1, <2>6, <2>7, <2>8 DEF Flattened
  <2>11. FlattenSeq(ss) \in Seq(S)
         BY <2>1, <2>6, <2>8
  <2> QED BY <2>9, <2>10, <2>11
<1> QED BY <1>2, <1>3

LEMMA OffsetsCover ==
    ASSUME NEW S, NEW ss \in Seq(Seq(S)), NEW off, Offsets(off, ss)
    PROVE  \A k \in 1 .. off[Len(ss)] :
              \E i \in 1 .. Len(ss) : \E j \in 1 .. Len(ss[i]) : k = off[i - 1] + j
<1>1. Len(ss) \in Nat /\ \A i \in 1 .. Len(ss) : Len(ss[i]) \in Nat
      OBVIOUS
<1>2. \A i \in 0 .. Len(ss) : off[i] \in Nat
      BY DEF Offsets
<1> DEFINE L(i) == Len(ss[i])
           T == {n \in Nat : n <= Len(ss) =>
                   \A k \in 1 .. off[n] : \E i \in 1 .. n : \E j \in 1 .. L(i) : k = off[i - 1] + j}
<1>3. 0 \in T
      BY DEF Offsets
<1>4. ASSUME NEW n \in Nat, n \in T
      PROVE  n + 1 \in T
  <2> SUFFICES ASSUME n + 1 <= Len(ss), NEW k \in 1 .. off[n + 1]
               PROVE  \E i \in 1 .. n + 1 : \E j \in 1 .. L(i) : k = off[i - 1] + j
      OBVIOUS
  <2>1. /\ n + 1 \in 1 .. Len(ss) /\ (n + 1) - 1 = n
        /\ off[n] \in Nat /\ off[n + 1] \in Nat /\ L(n + 1) \in Nat
        BY <1>1, <1>2
  <2>2. off[n + 1] = off[n] + L(n + 1)
        BY <2>1 DEF Offsets
  <2> HIDE DEF L
  <2>3. CASE k <= off[n]
    <3>1. k \in 1 .. off[n]
          BY <2>1, <2>3
    <3>2. PICK i \in 1 .. n : \E j \in 1 .. L(i) : k = off[i - 1] + j
          BY <1>4, <2>1, <3>1
    <3>3. i \in 1 .. n + 1
          OBVIOUS
    <3> QED BY <3>2, <3>3
  <2>4. CASE k > off[n]
    <3>1. k - off[n] \in 1 .. L(n + 1) /\ k = off[n] + (k - off[n])
          BY <2>1, <2>2, <2>4
    <3>2. n + 1 \in 1 .. n + 1
          OBVIOUS
    <3> QED BY <2>1, <3>1, <3>2
  <2> QED BY <2>1, <2>3, <2>4
<1>5. \A n \in Nat : n \in T
  <2> HIDE DEF T
  <2> QED BY <1>3, <1>4, Induction
<1>6. ASSUME NEW n \in Nat, n = Len(ss)
      PROVE  \A k \in 1 .. off[n] : \E i \in 1 .. n : \E j \in 1 .. L(i) : k = off[i - 1] + j
      BY <1>5, <1>6, SMTT(30)
<1> HIDE DEF T
<1> QED BY <1>1, <1>6

\* FlattenSeq has just what the sequences have.
LEMMA FlattenRange ==
    ASSUME NEW S, NEW ss \in Seq(Seq(S))
    PROVE  /\ FlattenSeq(ss) \in Seq(S)
           /\ \A x : x \in Range(FlattenSeq(ss)) <=> \E i \in DOMAIN ss : x \in Range(ss[i])
<1>0. PICK off : Offsets(off, ss) /\ Flattened(FlattenSeq(ss), ss, off)
      BY FlattenOffsets
<1>1. /\ FlattenSeq(ss) \in Seq(S)
      /\ Len(FlattenSeq(ss)) = off[Len(ss)]
      /\ \A i \in 1 .. Len(ss) : \A j \in 1 .. Len(ss[i]) :
            /\ off[i - 1] + j \in 1 .. Len(FlattenSeq(ss))
            /\ FlattenSeq(ss)[off[i - 1] + j] = ss[i][j]
      BY <1>0, FlattenOffsets DEF Flattened
<1>2. /\ DOMAIN ss = 1 .. Len(ss) /\ DOMAIN FlattenSeq(ss) = 1 .. Len(FlattenSeq(ss))
      /\ \A i \in 1 .. Len(ss) : DOMAIN ss[i] = 1 .. Len(ss[i])
  <2>1. DOMAIN FlattenSeq(ss) = 1 .. Len(FlattenSeq(ss))
        BY <1>1
  <2>2. \A i \in 1 .. Len(ss) : ss[i] \in Seq(S)
        OBVIOUS
  <2> QED BY <2>1, <2>2
<1>3. ASSUME NEW x \in Range(FlattenSeq(ss))
      PROVE  \E i \in DOMAIN ss : x \in Range(ss[i])
  <2>1. PICK k \in DOMAIN FlattenSeq(ss) : x = FlattenSeq(ss)[k]
        BY DEF Range
  <2>2. PICK i \in 1 .. Len(ss) : \E j \in 1 .. Len(ss[i]) : k = off[i - 1] + j
    <3>1. \A m \in 1 .. off[Len(ss)] :
             \E i \in 1 .. Len(ss) : \E j \in 1 .. Len(ss[i]) : m = off[i - 1] + j
          BY <1>0, OffsetsCover
    <3>2. k \in 1 .. off[Len(ss)]
          BY <1>1, <1>2
    <3> QED BY <3>1, <3>2
  <2>3. \E j \in 1 .. Len(ss[i]) : x = ss[i][j]
        BY <1>1, <2>1, <2>2
  <2> QED BY <1>2, <2>3 DEF Range
<1>4. ASSUME NEW i \in DOMAIN ss, NEW x \in Range(ss[i])
      PROVE  x \in Range(FlattenSeq(ss))
  <2>1. PICK j \in 1 .. Len(ss[i]) : x = ss[i][j]
        BY <1>2 DEF Range
  <2>2. /\ off[i - 1] + j \in DOMAIN FlattenSeq(ss)
        /\ FlattenSeq(ss)[off[i - 1] + j] = x
        BY <1>1, <1>2, <2>1
  <2> QED BY <2>2 DEF Range
<1> QED BY <1>1, <1>3, <1>4
-------------------------------------------------------------------------------
(* Sorting. *)

\* f lists elements by their rank.
Increasing(f, n, R) == \A i, j \in 1 .. n : i < j => R[f[i]] < R[f[j]]

\* If f and g list one set and agree up to the kth, the next of g is no later in
\* the order than the next of f; and no earlier, if it is another one.
LEMMA NextInOrder ==
    ASSUME NEW S, NEW R, \A x \in S : R[x] \in Nat, NEW n \in Nat,
           NEW f \in [1 .. n -> S], NEW g \in [1 .. n -> S], S \subseteq {g[j] : j \in 1 .. n},
           Increasing(f, n, R), Increasing(g, n, R),
           NEW k \in 1 .. n, \A i \in 1 .. k - 1 : f[i] = g[i]
    PROVE  g[k] = f[k] \/ R[g[k]] < R[f[k]]
<1>1. PICK j \in 1 .. n : g[j] = f[k]
      OBVIOUS
<1>2. CASE j < k
  <2>1. f[j] = g[j] /\ R[f[j]] < R[f[k]] /\ f[j] \in S
        BY <1>2 DEF Increasing
  <2> QED BY <1>1, <2>1
<1>3. CASE j > k
      BY <1>1, <1>3 DEF Increasing
<1> QED BY <1>1, <1>2, <1>3

LEMMA UpToNext ==
    \A i, k \in Nat : i <= k + 1 => i = k + 1 \/ i <= k
OBVIOUS

\* There is one way to list a set by rank.
HasAll(f, n, S) == f \in [1 .. n -> S] /\ S \subseteq {f[j] : j \in 1 .. n}

LEMMA OneOrder ==
    ASSUME NEW S, NEW R, \A x \in S : R[x] \in Nat, NEW n \in Nat, NEW f, NEW g,
           HasAll(f, n, S), HasAll(g, n, S), Increasing(f, n, R), Increasing(g, n, R)
    PROVE  f = g
<1>0. /\ f \in [1 .. n -> S] /\ g \in [1 .. n -> S]
      /\ S \subseteq {f[j] : j \in 1 .. n} /\ S \subseteq {g[j] : j \in 1 .. n}
      BY DEF HasAll
<1> DEFINE T == {k \in Nat : \A i \in 1 .. n : i <= k => f[i] = g[i]}
<1>1. 0 \in T
      OBVIOUS
<1>2. ASSUME NEW k \in Nat, k \in T
      PROVE  k + 1 \in T
  <2>0. \A i \in 1 .. n : i <= k => f[i] = g[i]
        BY <1>2
  <2> SUFFICES ASSUME NEW i \in 1 .. n, i <= k + 1
               PROVE  f[i] = g[i]
      OBVIOUS
  <2>1. CASE i = k + 1
    <3>0. k + 1 \in 1 .. n
          BY <2>1
    <3>1. \A j \in 1 .. (k + 1) - 1 : f[j] = g[j]
          BY <2>0, <3>0
    <3>2. g[k + 1] = f[k + 1] \/ R[g[k + 1]] < R[f[k + 1]]
          BY <1>0, <3>0, <3>1, NextInOrder
    <3>3. f[k + 1] = g[k + 1] \/ R[f[k + 1]] < R[g[k + 1]]
      <4>1. \A j \in 1 .. (k + 1) - 1 : g[j] = f[j]
            BY <3>1
      <4> QED BY <1>0, <3>0, <4>1, NextInOrder
    <3> DEFINE x == R[f[k + 1]]
               y == R[g[k + 1]]
    <3>4. x \in Nat /\ y \in Nat
      <4>1. f[k + 1] \in S /\ g[k + 1] \in S
            BY <1>0, <3>0
      <4> QED BY <4>1
    <3>5. ~ (x < y /\ y < x)
      <4> HIDE DEF x, y
      <4> QED BY <3>4
    <3> QED BY <2>1, <3>2, <3>3, <3>5
  <2>2. CASE i <= k
        BY <2>0, <2>2
  <2>3. i = k + 1 \/ i <= k
    <3>1. i \in Nat
          OBVIOUS
    <3> QED BY <3>1, UpToNext
  <2> QED BY <2>1, <2>2, <2>3, Zenon
<1>3. n \in T
  <2> HIDE DEF T
  <2> QED BY <1>1, <1>2, Induction
<1>4. \A i \in 1 .. n : f[i] = g[i]
      BY <1>3
<1> QED BY <1>0, <1>4
-------------------------------------------------------------------------------
(* Induction over sequences, again with a set. *)

LEMMA LastOff ==
    ASSUME NEW S, NEW k \in Nat
    PROVE  \A s \in Seq(S) : Len(s) = k + 1 =>
              \E p \in Seq(S) : \E x \in S : Len(p) = k /\ s = Append(p, x)
<1> SUFFICES ASSUME NEW s \in Seq(S), Len(s) = k + 1
             PROVE  \E p \in Seq(S) : \E x \in S : Len(p) = k /\ s = Append(p, x)
    OBVIOUS
<1> DEFINE p == [i \in 1 .. k |-> s[i]]
<1>1. p \in Seq(S) /\ Len(p) = k /\ s[k + 1] \in S
      OBVIOUS
<1>2. s = Append(p, s[k + 1])
      OBVIOUS
<1> HIDE DEF p
<1> QED BY <1>1, <1>2

LEMMA SequenceInduction ==
    ASSUME NEW S, NEW T, <<>> \in T, \A s \in Seq(S) : \A x \in S : s \in T => Append(s, x) \in T
    PROVE  \A s \in Seq(S) : s \in T
<1> DEFINE U == {k \in Nat : \A s \in Seq(S) : Len(s) = k => s \in T}
<1>1. 0 \in U
  <2>1. \A s \in Seq(S) : Len(s) = 0 => s = <<>>
        OBVIOUS
  <2> QED BY <2>1
<1>2. ASSUME NEW k \in Nat, k \in U
      PROVE  k + 1 \in U
  <2>0. \A s \in Seq(S) : Len(s) = k + 1 =>
              \E p \in Seq(S) : \E x \in S : Len(p) = k /\ s = Append(p, x)
        BY LastOff, SMTT(30)
  <2> SUFFICES ASSUME NEW s \in Seq(S), Len(s) = k + 1
               PROVE  s \in T
      OBVIOUS
  <2>1. PICK p \in Seq(S) : \E x \in S : Len(p) = k /\ s = Append(p, x)
        BY <2>0
  <2>2. p \in T
        BY <1>2, <2>1
  <2> QED BY <2>1, <2>2
<1>3. \A k \in Nat : k \in U
  <2> HIDE DEF U
  <2> QED BY <1>1, <1>2, Induction
<1>4. \A s \in Seq(S) : Len(s) \in Nat
      OBVIOUS
<1> QED BY <1>3, <1>4

LEMMA CatLaws ==
    ASSUME NEW S, NEW s \in Seq(S), NEW t \in Seq(S), NEW u \in Seq(S), NEW x \in S
    PROVE  /\ Cat(s, t) \in Seq(S) /\ Cat(s, <<>>) = s /\ Cat(<<>>, s) = s
           /\ Cat(s, <<x>>) = Append(s, x)
           /\ Cat(s, Append(t, x)) = Append(Cat(s, t), x)
           /\ Cat(Cat(s, t), u) = Cat(s, Cat(t, u))
<1>1. Cat(s, t) \in Seq(S) /\ Cat(s, <<>>) = s /\ Cat(<<>>, s) = s
      BY DEF Cat
<1>2. Cat(s, <<x>>) = Append(s, x)
      BY DEF Cat
<1>3. Cat(s, Append(t, x)) = Append(Cat(s, t), x)
      BY DEF Cat
<1>4. Cat(Cat(s, t), u) = Cat(s, Cat(t, u))
      BY DEF Cat
<1> QED BY <1>1, <1>2, <1>3, <1>4
-------------------------------------------------------------------------------
(* FlattenSeq, element by element. *)

LEMMA FlattenEmpty == FlattenSeq(<<>>) = <<>>
BY DEF FlattenSeq

LEMMA FlattenAppend ==
    ASSUME NEW S, NEW ss \in Seq(Seq(S)), NEW s \in Seq(S)
    PROVE  /\ FlattenSeq(ss) \in Seq(S)
           /\ FlattenSeq(Append(ss, s)) = Cat(FlattenSeq(ss), s)
<1> DEFINE n == Len(ss)
           uu == Append(ss, s)
<1>1. /\ n \in Nat /\ Len(uu) = n + 1 /\ uu[n + 1] = s
      /\ \A i \in 1 .. n : uu[i] = ss[i]
      OBVIOUS
<1>2. FlattenSeq(ss) \in Seq(S)
      BY FlattenOffsets
<1> HIDE DEF uu, n
<1>3. PICK f : Flattens(f, uu, n + 1) /\ FlattenSeq(uu) = f[n + 1]
  <2>1. Len(uu) \in Nat /\ Len(uu) # 0
        BY <1>1
  <2> QED BY <1>1, <2>1, FlattenSeqIs
<1>4. \A i \in 1 .. n + 1 : f[i] = IF i = 1 THEN uu[i] ELSE Cat(f[i - 1], uu[i])
      BY <1>3, FlattensAt
<1>5. CASE n = 0
  <2>1. ss = <<>>
        BY <1>5 DEF n
  <2>2. f[1] = s
        BY <1>1, <1>4, <1>5
  <2>3. Cat(<<>>, s) = s
        BY DEF Cat
  <2> QED BY <1>2, <1>3, <1>5, <2>1, <2>2, <2>3, FlattenEmpty DEF uu
<1>6. CASE n # 0
  <2>1. PICK g : Flattens(g, ss, n) /\ FlattenSeq(ss) = g[n]
    <3>1. Len(ss) \in Nat /\ Len(ss) # 0
          BY <1>1, <1>6 DEF n
    <3> QED BY <3>1, FlattenSeqIs DEF n
  <2>2. \A i \in 1 .. n : g[i] = IF i = 1 THEN ss[i] ELSE Cat(g[i - 1], ss[i])
        BY <2>1, FlattensAt
  <2> DEFINE T == {k \in Nat : k + 1 <= n => f[k + 1] = g[k + 1]}
  <2>3. 0 \in T
        BY <1>1, <1>4, <1>6, <2>2
  <2>4. ASSUME NEW k \in Nat, k \in T
        PROVE  k + 1 \in T
    <3> SUFFICES ASSUME (k + 1) + 1 <= n
                 PROVE  f[(k + 1) + 1] = g[(k + 1) + 1]
        OBVIOUS
    <3> DEFINE i == (k + 1) + 1
    <3>1. i \in 1 .. n /\ i \in 1 .. n + 1 /\ i # 1 /\ i - 1 = k + 1
          BY <1>1
    <3>2. f[k + 1] = g[k + 1]
          BY <1>1, <2>4
    <3> HIDE DEF i
    <3>3. f[i] = Cat(f[k + 1], uu[i]) /\ g[i] = Cat(g[k + 1], ss[i])
          BY <1>4, <2>2, <3>1
    <3>4. uu[i] = ss[i]
          BY <1>1, <3>1
    <3> QED BY <3>2, <3>3, <3>4 DEF i
  <2>5. f[n] = g[n]
    <3>1. n - 1 \in Nat /\ (n - 1) + 1 = n
          BY <1>1, <1>6
    <3>2. n - 1 \in T
      <4> HIDE DEF T
      <4> QED BY <2>3, <2>4, <3>1, Induction
    <3> QED BY <1>1, <3>1, <3>2
  <2>6. f[n + 1] = Cat(f[n], s)
    <3>1. n + 1 \in 1 .. n + 1 /\ n + 1 # 1 /\ (n + 1) - 1 = n
          BY <1>1, <1>6
    <3> QED BY <1>1, <1>4, <3>1
  <2> QED BY <1>2, <1>3, <2>1, <2>5, <2>6 DEF uu
<1> QED BY <1>5, <1>6
-------------------------------------------------------------------------------
(* What a function picks of a sequence: h[x] of each element x, one after the *)
(* other.                                                                     *)

PickedEach(h, s) == [k \in DOMAIN s |-> h[s[k]]]

Picked(h, s) == FlattenSeq(PickedEach(h, s))

LEMMA PickedEmpty ==
    ASSUME NEW h
    PROVE  Picked(h, <<>>) = <<>>
<1>1. PickedEach(h, <<>>) = <<>>
      BY DEF PickedEach
<1> QED BY <1>1, FlattenEmpty DEF Picked

LEMMA PickedAppend ==
    ASSUME NEW X, NEW V, NEW h \in [X -> Seq(V)], NEW s \in Seq(X)
    PROVE  /\ Picked(h, s) \in Seq(V)
           /\ \A x \in X : Picked(h, Append(s, x)) = Cat(Picked(h, s), h[x])
<1>1. PickedEach(h, s) \in Seq(Seq(V))
  <2>1. Len(s) \in Nat /\ DOMAIN s = 1 .. Len(s) /\ \A k \in 1 .. Len(s) : h[s[k]] \in Seq(V)
        OBVIOUS
  <2> DEFINE n == Len(s)
             W == Seq(V)
             e(k) == h[s[k]]
  <2>2. n \in Nat /\ \A k \in 1 .. n : e(k) \in W
        BY <2>1
  <2>3. PickedEach(h, s) = [k \in 1 .. n |-> e(k)]
        BY <2>1 DEF PickedEach
  <2> HIDE DEF n, W, e
  <2>4. [k \in 1 .. n |-> e(k)] \in Seq(W)
        BY <2>2
  <2> QED BY <2>3, <2>4 DEF W
<1>2. ASSUME NEW x \in X
      PROVE  PickedEach(h, Append(s, x)) = Append(PickedEach(h, s), h[x])
  <2> DEFINE n == Len(s)
             u == Append(s, x)
             e == PickedEach(h, s)
  <2>1. /\ n \in Nat /\ DOMAIN u = 1 .. n + 1 /\ u[n + 1] = x
        /\ \A k \in 1 .. n : u[k] = s[k]
        OBVIOUS
  <2>2. Len(e) = n /\ \A k \in 1 .. n : e[k] = h[s[k]]
        BY DEF PickedEach
  <2>3. /\ DOMAIN Append(e, h[x]) = 1 .. n + 1 /\ Append(e, h[x])[n + 1] = h[x]
        /\ \A k \in 1 .. n : Append(e, h[x])[k] = e[k]
        /\ Append(e, h[x]) = [k \in 1 .. n + 1 |-> Append(e, h[x])[k]]
    <3> HIDE DEF n, e
    <3> QED BY <1>1, <2>1, <2>2 DEF e
  <2> HIDE DEF n, u, e
  <2>4. \A k \in 1 .. n + 1 : h[u[k]] = Append(e, h[x])[k]
    <3> TAKE k \in 1 .. n + 1
    <3>1. k = n + 1 \/ k \in 1 .. n
          BY <2>1
    <3> QED BY <2>1, <2>2, <2>3, <3>1
  <2>5. PickedEach(h, u) = [k \in 1 .. n + 1 |-> h[u[k]]]
        BY <2>1 DEF PickedEach
  <2> QED BY <2>3, <2>4, <2>5 DEF u, e
<1>3. \A t \in Seq(V) : /\ FlattenSeq(PickedEach(h, s)) \in Seq(V)
                        /\ FlattenSeq(Append(PickedEach(h, s), t)) = Cat(FlattenSeq(PickedEach(h, s)), t)
      BY <1>1, FlattenAppend
<1>4. <<>> \in Seq(V) /\ \A x \in X : h[x] \in Seq(V)
      OBVIOUS
<1>5. Picked(h, s) \in Seq(V)
      BY <1>3, <1>4 DEF Picked
<1>6. ASSUME NEW x \in X
      PROVE  Picked(h, Append(s, x)) = Cat(Picked(h, s), h[x])
      BY <1>2, <1>3, <1>4 DEF Picked
<1> QED BY <1>5, <1>6

LEMMA PickedCat ==
    ASSUME NEW X, NEW V, NEW h \in [X -> Seq(V)], NEW s \in Seq(X)
    PROVE  \A t \in Seq(X) : Picked(h, Cat(s, t)) = Cat(Picked(h, s), Picked(h, t))
<1> DEFINE T == {t \in Seq(X) : Picked(h, Cat(s, t)) = Cat(Picked(h, s), Picked(h, t))}
<1>1. \A t \in Seq(X) : /\ Picked(h, t) \in Seq(V)
                         /\ \A x \in X : Picked(h, Append(t, x)) = Cat(Picked(h, t), h[x])
  <2> HIDE DEF T
  <2> QED BY PickedAppend
<1>2. <<>> \in T
  <2>1. Cat(s, <<>>) = s /\ Cat(Picked(h, s), <<>>) = Picked(h, s)
        BY <1>1 DEF Cat
  <2> QED BY <2>1, PickedEmpty
<1>3. ASSUME NEW t \in Seq(X), NEW x \in X, t \in T
      PROVE  Append(t, x) \in T
  <2> DEFINE p == Picked(h, s)
             q == Picked(h, t)
  <2>1. Cat(s, Append(t, x)) = Append(Cat(s, t), x) /\ Cat(s, t) \in Seq(X)
        BY DEF Cat
  <2>2. Picked(h, Append(Cat(s, t), x)) = Cat(Picked(h, Cat(s, t)), h[x])
        BY <1>1, <2>1
  <2>3. Picked(h, Cat(s, t)) = Cat(p, q)
        BY <1>3
  <2>4. Cat(Cat(p, q), h[x]) = Cat(p, Cat(q, h[x]))
    <3>1. p \in Seq(V) /\ q \in Seq(V) /\ h[x] \in Seq(V)
          BY <1>1
    <3> HIDE DEF p, q
    <3> QED BY <3>1 DEF Cat
  <2>5. Picked(h, Append(t, x)) = Cat(q, h[x])
        BY <1>1
  <2>6. Append(t, x) \in Seq(X)
        OBVIOUS
  <2> HIDE DEF p, q
  <2>7. Picked(h, Cat(s, Append(t, x))) = Cat(p, Picked(h, Append(t, x)))
        BY <2>1, <2>2, <2>3, <2>4, <2>5
  <2> QED BY <2>6, <2>7 DEF p
<1>4. \A t \in Seq(X) : t \in T
  <2> HIDE DEF T
  <2> QED BY <1>2, <1>3, SequenceInduction
<1> QED BY <1>4

\* Of sequences one after the other, it picks what it picks of each.
EachPicked(h, X) == [s \in Seq(X) |-> Picked(h, s)]

LEMMA PickedFlat ==
    ASSUME NEW X, NEW V, NEW h \in [X -> Seq(V)]
    PROVE  \A ss \in Seq(Seq(X)) :
              /\ FlattenSeq(ss) \in Seq(X)
              /\ Picked(h, FlattenSeq(ss)) = Picked(EachPicked(h, X), ss)
<1> DEFINE H == EachPicked(h, X)
           Y == Seq(X)
           T == {ss \in Seq(Y) : /\ FlattenSeq(ss) \in Seq(X)
                                 /\ Picked(h, FlattenSeq(ss)) = Picked(H, ss)}
<1>1. H \in [Y -> Seq(V)] /\ \A s \in Y : H[s] = Picked(h, s)
      BY PickedAppend DEF EachPicked
<1> HIDE DEF H
<1>2. <<>> \in T
  <2>1. FlattenSeq(<<>>) = <<>> /\ Picked(h, <<>>) = <<>> /\ Picked(H, <<>>) = <<>>
        BY FlattenEmpty, PickedEmpty
  <2>2. <<>> \in Seq(X) /\ <<>> \in Seq(Y)
        OBVIOUS
  <2> HIDE DEF Y
  <2> QED BY <2>1, <2>2
<1>5. \A ss \in Seq(Y) : \A s \in Y : Picked(H, Append(ss, s)) = Cat(Picked(H, ss), H[s])
  <2> HIDE DEF T, Y
  <2> QED BY <1>1, PickedAppend
<1>6. \A s, t \in Seq(X) : Picked(h, Cat(s, t)) = Cat(Picked(h, s), Picked(h, t))
  <2> HIDE DEF T
  <2> QED BY PickedCat
<1>3. ASSUME NEW ss \in Seq(Y), NEW s \in Y, ss \in T
      PROVE  Append(ss, s) \in T
  <2>1. FlattenSeq(ss) \in Seq(X) /\ FlattenSeq(Append(ss, s)) = Cat(FlattenSeq(ss), s)
        BY FlattenAppend
  <2>2. Picked(h, Cat(FlattenSeq(ss), s)) = Cat(Picked(h, FlattenSeq(ss)), Picked(h, s))
        BY <1>6, <2>1
  <2>3. Picked(H, Append(ss, s)) = Cat(Picked(H, ss), H[s])
        BY <1>5
  <2>4. Cat(FlattenSeq(ss), s) \in Seq(X)
        BY <2>1 DEF Cat
  <2>5. Append(ss, s) \in Seq(Y)
    <3> HIDE DEF Y
    <3> QED OBVIOUS
  <2> QED BY <1>1, <1>3, <2>1, <2>2, <2>3, <2>4, <2>5
<1>4. \A ss \in Seq(Y) : ss \in T
  <2> HIDE DEF T, Y
  <2> QED BY <1>2, <1>3, SequenceInduction
<1> QED BY <1>4 DEF H

\* If it picks one thing of each element, these are the values of a sequence.
LEMMA PickedSingles ==
    ASSUME NEW V
    PROVE  \A v \in Seq(V) : FlattenSeq([k \in DOMAIN v |-> <<v[k]>>]) = v
<1> DEFINE h == [x \in V |-> <<x>>]
           T == {v \in Seq(V) : Picked(h, v) = v}
<1>1. h \in [V -> Seq(V)] /\ \A x \in V : h[x] = <<x>>
      OBVIOUS
<1> HIDE DEF h
<1>2. <<>> \in T
      BY PickedEmpty
<1>3. ASSUME NEW v \in Seq(V), NEW x \in V, v \in T
      PROVE  Append(v, x) \in T
  <2>1. Picked(h, Append(v, x)) = Cat(Picked(h, v), h[x])
        BY <1>1, PickedAppend
  <2>2. Cat(v, <<x>>) = Append(v, x)
        BY DEF Cat
  <2>3. Append(v, x) \in Seq(V)
        OBVIOUS
  <2> QED BY <1>1, <1>3, <2>1, <2>2, <2>3
<1>4. \A v \in Seq(V) : v \in T
  <2> HIDE DEF T
  <2> QED BY <1>2, <1>3, SequenceInduction
<1>5. ASSUME NEW v \in Seq(V)
      PROVE  PickedEach(h, v) = [k \in DOMAIN v |-> <<v[k]>>]
  <2>1. \A k \in DOMAIN v : h[v[k]] = <<v[k]>>
        BY <1>1
  <2> QED BY <2>1 DEF PickedEach
<1> QED BY <1>4, <1>5 DEF Picked

LEMMA PickedNothing ==
    ASSUME NEW Y, NEW h, \A y \in Y : h[y] = <<>>
    PROVE  \A s \in Seq(Y) : Picked(h, s) = <<>>
<1> DEFINE e == [y \in Y |-> <<>>]
           T == {s \in Seq(Y) : Picked(e, s) = <<>>}
<1>1. e \in [Y -> Seq({})] /\ \A y \in Y : e[y] = <<>>
      OBVIOUS
<1> HIDE DEF e
<1>2. <<>> \in T
      BY PickedEmpty
<1>3. ASSUME NEW s \in Seq(Y), NEW y \in Y, s \in T
      PROVE  Append(s, y) \in T
  <2>1. Picked(e, Append(s, y)) = Cat(Picked(e, s), e[y])
        BY <1>1, PickedAppend
  <2>2. Cat(<<>>, <<>>) = <<>>
        BY DEF Cat
  <2>3. Append(s, y) \in Seq(Y)
        OBVIOUS
  <2> QED BY <1>1, <1>3, <2>1, <2>2, <2>3
<1>4. \A s \in Seq(Y) : s \in T
  <2> HIDE DEF T
  <2> QED BY <1>2, <1>3, SequenceInduction
<1>5. ASSUME NEW s \in Seq(Y)
      PROVE  PickedEach(h, s) = PickedEach(e, s)
  <2>1. \A k \in DOMAIN s : h[s[k]] = e[s[k]]
        BY <1>1
  <2> QED BY <2>1 DEF PickedEach
<1> QED BY <1>4, <1>5 DEF Picked
===============================================================================
