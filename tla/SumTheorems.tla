------------------------------ MODULE SumTheorems ------------------------------
(***************************************************************************)
(* Sums of a function over a finite set, as SumFunction of the community   *)
(* modules defines them.  The fold is a function on the subsets of its     *)
(* set, defined by recursion; that it exists, and that the order in which  *)
(* it takes the elements makes no difference, is proved by induction over  *)
(* subsets, whose strict inclusion is well-founded.  The properties to be  *)
(* proved are sets of subsets, so no operator is passed to a theorem.      *)
(***************************************************************************)
EXTENDS Integers, FiniteSets, Functions, TLAPS, FiniteSetTheorems, WellFoundedInduction

\* Induction over the subsets of a finite set, first-order: G is the set of those
\* with the property, and a subset is in it whenever its own subsets are.
LEMMA SetInduction ==
  ASSUME NEW D, IsFiniteSet(D), NEW G,
         \A s \in SUBSET D : (\A u \in SUBSET s : u # s => u \in G) => s \in G
  PROVE  \A s \in SUBSET D : s \in G
<1> SUFFICES ASSUME NEW b \in SUBSET D, b \notin G
             PROVE  FALSE
  OBVIOUS
<1> DEFINE R == StrictSubsetOrdering(D)
           Bad == {s \in SUBSET D : s \notin G}
           S == FiniteSubsetsOf(D)
<1>1. S = SUBSET D
  BY FS_FiniteSubsetsOfFinite
<1>2. IsWellFoundedOn(R, S)
  BY FS_StrictSubsetOrderingWellFounded
<1>3. Bad \subseteq S /\ Bad # {}
  BY <1>1
<1>4. ASSUME NEW s \in SUBSET D, NEW u \in SUBSET s, u # s
      PROVE  <<u, s>> \in R
  <2>1. u \in SUBSET D
    OBVIOUS
  <2> QED BY <1>4, <2>1, Zenon DEF StrictSubsetOrdering
<1>5. \E s \in Bad : \A u \in Bad : ~ (<<u, s>> \in R)
  <2> HIDE DEF R, S, Bad
  <2> QED BY <1>2, <1>3, WFMin
<1>6. PICK s \in Bad : \A u \in Bad : ~ (<<u, s>> \in R)
  BY <1>5
<1>7. \A u \in SUBSET s : u # s => u \in G
  <2> SUFFICES ASSUME NEW u \in SUBSET s, u # s, u \notin G
               PROVE  FALSE
    OBVIOUS
  <2>1. u \in Bad /\ s \in SUBSET D
    OBVIOUS
  <2> HIDE DEF R, Bad
  <2>2. <<u, s>> \in R
    BY <1>4, <2>1
  <2> QED BY <1>6, <2>1, <2>2
<1> QED BY <1>6, <1>7

\* ... and one element at a time.
LEMMA RemoveInduction ==
  ASSUME NEW D, IsFiniteSet(D), NEW G, {} \in G,
         \A s \in SUBSET D : \A x \in s : s \ {x} \in G => s \in G
  PROVE  \A s \in SUBSET D : s \in G
<1>1. ASSUME NEW s \in SUBSET D, \A u \in SUBSET s : u # s => u \in G
      PROVE  s \in G
  <2>1. CASE s = {}
    BY <2>1
  <2>2. CASE s # {}
    <3>1. PICK x : x \in s
      BY <2>2
    <3>2. s \ {x} \in SUBSET s /\ s \ {x} # s
      BY <3>1
    <3> QED BY <1>1, <3>1, <3>2
  <2> QED BY <2>1, <2>2
<1> QED BY <1>1, SetInduction

\* The element that the fold takes next.
Chosen(s) == CHOOSE x \in s : TRUE

\* g holds the sum of f over every subset of s.
IsTable(g, s, f) ==
  g = [u \in SUBSET s |-> IF u = {} THEN 0 ELSE f[Chosen(u)] + g[u \ {Chosen(u)}]]

\* The table that the fold builds to sum f over s.
Table(s, f) == CHOOSE g : IsTable(g, s, f)

\* The chosen element of a set that has one is in it.
LEMMA ChosenIn ==
  ASSUME NEW s, s # {}
  PROVE  Chosen(s) \in s
BY DEF Chosen

\* What a table of sums says of the empty set and of any other.
LEMMA TableValue ==
  ASSUME NEW g, NEW s, NEW f, IsTable(g, s, f)
  PROVE  /\ g[{}] = 0
         /\ \A u \in SUBSET s : u # {} => g[u] = f[Chosen(u)] + g[u \ {Chosen(u)}]
BY DEF IsTable

\* Two tables agree where both are defined.
LEMMA TablesAgree ==
  ASSUME NEW D, IsFiniteSet(D), NEW f, NEW s \in SUBSET D, NEW t \in SUBSET D,
         NEW g, NEW h, IsTable(g, s, f), IsTable(h, t, f)
  PROVE  \A u \in SUBSET D : u \subseteq s /\ u \subseteq t => g[u] = h[u]
<1> DEFINE G == {u \in SUBSET D : u \subseteq s /\ u \subseteq t => g[u] = h[u]}
<1>1. ASSUME NEW u \in SUBSET D, \A v \in SUBSET u : v # u => v \in G
      PROVE  u \in G
  <2> SUFFICES ASSUME u \subseteq s, u \subseteq t
               PROVE  g[u] = h[u]
    OBVIOUS
  <2>1. CASE u = {}
    BY <2>1, TableValue
  <2>2. CASE u # {}
    <3> DEFINE v == u \ {Chosen(u)}
    <3>1. v \in SUBSET u /\ v # u
      BY <2>2, ChosenIn
    <3>2. g[v] = h[v]
      BY <1>1, <3>1
    <3>3. g[u] = f[Chosen(u)] + g[v] /\ h[u] = f[Chosen(u)] + h[v]
      <4> HIDE DEF v
      <4>1. u \in SUBSET s /\ u \in SUBSET t
        OBVIOUS
      <4> QED BY <2>2, <4>1, TableValue DEF v
    <3> QED BY <3>2, <3>3
  <2> QED BY <2>1, <2>2
<1>2. \A u \in SUBSET D : u \in G
  <2> HIDE DEF G
  <2> QED BY <1>1, SetInduction
<1> QED BY <1>2

\* Every subset of a finite set has a table.
LEMMA TableExists ==
  ASSUME NEW D, IsFiniteSet(D), NEW f
  PROVE  \A s \in SUBSET D : \E g : IsTable(g, s, f)
<1> DEFINE G == {s \in SUBSET D : \E g : IsTable(g, s, f)}
<1>1. ASSUME NEW s \in SUBSET D, \A u \in SUBSET s : u # s => u \in G
      PROVE  s \in G
  <2> DEFINE h == [u \in SUBSET s |->
                     IF u = {} THEN 0
                     ELSE f[Chosen(u)] + Table(u \ {Chosen(u)}, f)[u \ {Chosen(u)}]]
  <2>1. ASSUME NEW u \in SUBSET s, u # s
        PROVE  IsTable(Table(u, f), u, f)
    BY <1>1, <2>1 DEF Table
  <2>2. ASSUME NEW u \in SUBSET s, u # {}
        PROVE  h[u \ {Chosen(u)}] = Table(u \ {Chosen(u)}, f)[u \ {Chosen(u)}]
    <3> DEFINE v == u \ {Chosen(u)}
               w == v \ {Chosen(v)}
    <3>1. v \in SUBSET s /\ v # s
      BY <2>2, ChosenIn
    <3>2. IsTable(Table(v, f), v, f)
      BY <2>1, <3>1
    <3>3. CASE v = {}
      <4>1. h[v] = 0
        BY <3>1, <3>3
      <4>2. Table(v, f)[v] = 0
        BY <3>2, <3>3, TableValue
      <4> QED BY <4>1, <4>2
    <3>4. CASE v # {}
      <4>1. w \in SUBSET s /\ w # s /\ w \in SUBSET v
        BY <3>1
      <4>2. IsTable(Table(w, f), w, f)
        BY <2>1, <4>1
      <4>3. Table(v, f)[w] = Table(w, f)[w]
        <5>1. v \in SUBSET D /\ w \in SUBSET D /\ w \subseteq v
          OBVIOUS
        <5> HIDE DEF v, w
        <5> QED BY <3>2, <4>2, <5>1, TablesAgree
      <4>4. h[v] = f[Chosen(v)] + Table(w, f)[w]
        BY <3>1, <3>4
      <4>5. Table(v, f)[v] = f[Chosen(v)] + Table(v, f)[w]
        <5> HIDE DEF v
        <5> QED BY <3>2, <3>4, TableValue
      <4> QED BY <4>3, <4>4, <4>5
    <3> QED BY <3>3, <3>4
  <2>3. h = [u \in SUBSET s |-> IF u = {} THEN 0 ELSE f[Chosen(u)] + h[u \ {Chosen(u)}]]
    <3>1. \A u \in SUBSET s : h[u] = IF u = {} THEN 0 ELSE f[Chosen(u)] + h[u \ {Chosen(u)}]
      BY <2>2
    <3>2. h = [u \in SUBSET s |-> h[u]]
      OBVIOUS
    <3> HIDE DEF h
    <3> QED BY <3>1, <3>2
  <2>4. IsTable(h, s, f)
    <3> HIDE DEF h
    <3> QED BY <2>3 DEF IsTable
  <2> HIDE DEF h
  <2> QED BY <2>4
<1>2. \A s \in SUBSET D : s \in G
  <2> HIDE DEF G
  <2> QED BY <1>1, SetInduction
<1> QED BY <1>2

\* The fold of the Functions module reads its result off the table of its set.
LEMMA SumIsTable ==
  ASSUME NEW D, NEW f
  PROVE  SumFunctionOnSet(f, D) = Table(D, f)[D]
BY DEF SumFunctionOnSet, FoldFunctionOnSet, MapThenFoldSet, Table, IsTable, Chosen

\* A sum is the chosen element and the sum of the rest.
LEMMA SumStep ==
  ASSUME NEW D, IsFiniteSet(D), NEW f
  PROVE  /\ SumFunctionOnSet(f, {}) = 0
         /\ D # {} => SumFunctionOnSet(f, D)
                         = f[Chosen(D)] + SumFunctionOnSet(f, D \ {Chosen(D)})
<1>1. ASSUME NEW s \in SUBSET D
      PROVE  IsTable(Table(s, f), s, f)
  BY TableExists DEF Table
<1>2. Table({}, f)[{}] = 0
  BY <1>1, TableValue
<1>3. ASSUME D # {}
      PROVE  SumFunctionOnSet(f, D) = f[Chosen(D)] + SumFunctionOnSet(f, D \ {Chosen(D)})
  <2> DEFINE s == D \ {Chosen(D)}
  <2>1. IsTable(Table(D, f), D, f) /\ IsTable(Table(s, f), s, f)
    BY <1>1
  <2>2. Table(D, f)[s] = Table(s, f)[s]
    <3>1. s \in SUBSET D /\ D \in SUBSET D /\ s \subseteq D /\ s \subseteq s
      OBVIOUS
    <3> HIDE DEF s
    <3> QED BY <2>1, <3>1, TablesAgree
  <2>3. Table(D, f)[D] = f[Chosen(D)] + Table(D, f)[s]
    BY <1>3, <2>1, TableValue
  <2> HIDE DEF s
  <2> QED BY <2>2, <2>3, SumIsTable DEF s
<1> QED BY <1>2, <1>3, SumIsTable

\* A sum of integers is an integer, and any element can be taken out of it.
LEMMA SumRemove ==
  ASSUME NEW D, IsFiniteSet(D), NEW f \in [D -> Int]
  PROVE  \A s \in SUBSET D :
           /\ SumFunctionOnSet(f, s) \in Int
           /\ \A x \in s : SumFunctionOnSet(f, s) = f[x] + SumFunctionOnSet(f, s \ {x})
<1> DEFINE Sum(s) == SumFunctionOnSet(f, s)
           G == {s \in SUBSET D : /\ Sum(s) \in Int
                                  /\ \A x \in s : Sum(s) = f[x] + Sum(s \ {x})}
<1>1. \A s \in SUBSET D : s # {} => Sum(s) = f[Chosen(s)] + Sum(s \ {Chosen(s)})
  BY SumStep, FS_Subset
<1>2. Sum({}) = 0
  BY SumStep
<1> HIDE DEF Sum
<1>3. ASSUME NEW s \in SUBSET D, \A u \in SUBSET s : u # s => u \in G
      PROVE  s \in G
  <2>1. CASE s = {}
    BY <1>2, <2>1
  <2>2. CASE s # {}
    <3> DEFINE y == Chosen(s)
    <3>1. y \in s
      BY <2>2, ChosenIn
    <3>2. Sum(s) = f[y] + Sum(s \ {y})
      BY <1>1, <2>2
    <3> HIDE DEF y
    <3>3. ASSUME NEW z \in s
          PROVE  /\ Sum(s \ {z}) \in Int
                 /\ \A x \in s \ {z} : Sum(s \ {z}) = f[x] + Sum((s \ {z}) \ {x})
      <4>1. s \ {z} \in SUBSET s /\ s \ {z} # s
        OBVIOUS
      <4> QED BY <1>3, <4>1
    <3>4. ASSUME NEW z \in s, NEW x \in s, x # z
          PROVE  Sum((s \ {z}) \ {x}) \in Int
      <4>1. (s \ {z}) \ {x} \in SUBSET s /\ (s \ {z}) \ {x} # s
        OBVIOUS
      <4> QED BY <1>3, <4>1
    <3>5. Sum(s) \in Int
      <4>1. f[y] \in Int
        BY <3>1
      <4> QED BY <3>1, <3>2, <3>3, <4>1
    <3>6. ASSUME NEW x \in s
          PROVE  Sum(s) = f[x] + Sum(s \ {x})
      <4>1. CASE x = y
        BY <3>2, <4>1
      <4>2. CASE x # y
        <5>1. Sum(s \ {y}) = f[x] + Sum((s \ {y}) \ {x})
          BY <3>1, <3>3, <4>2
        <5>2. Sum(s \ {x}) = f[y] + Sum((s \ {x}) \ {y})
          BY <3>1, <3>3, <4>2
        <5>3. Sum((s \ {y}) \ {x}) = Sum((s \ {x}) \ {y})
          <6>1. (s \ {y}) \ {x} = (s \ {x}) \ {y}
            OBVIOUS
          <6> QED BY <6>1, Zenon
        <5>4. f[x] \in Int /\ f[y] \in Int
          BY <3>1
        <5>5. Sum((s \ {y}) \ {x}) \in Int
          BY <3>1, <3>4, <4>2
        <5> QED BY <3>2, <5>1, <5>2, <5>3, <5>4, <5>5
      <4> QED BY <4>1, <4>2
    <3> QED BY <3>5, <3>6
  <2> QED BY <2>1, <2>2
<1>4. \A s \in SUBSET D : s \in G
  <2> HIDE DEF G
  <2> QED BY <1>3, SetInduction
<1> QED BY <1>4 DEF Sum

\* A sum of integers is an integer.
LEMMA SumType ==
  ASSUME NEW D, IsFiniteSet(D), NEW f \in [D -> Int]
  PROVE  SumFunction(f) \in Int
<1>1. D \in SUBSET D /\ DOMAIN f = D
  OBVIOUS
<1> QED BY <1>1, SumRemove DEF SumFunction

\* Sums of functions that are related at each argument by h = f + k * g.
LEMMA SumLinear ==
  ASSUME NEW D, IsFiniteSet(D), NEW f \in [D -> Int], NEW g \in [D -> Int],
         NEW h \in [D -> Int], NEW k \in Int, \A x \in D : h[x] = f[x] + k * g[x]
  PROVE  SumFunction(h) = SumFunction(f) + k * SumFunction(g)
<1> DEFINE F(s) == SumFunctionOnSet(f, s)
           E(s) == SumFunctionOnSet(g, s)
           H(s) == SumFunctionOnSet(h, s)
           G == {s \in SUBSET D : H(s) = F(s) + k * E(s)}
<1>1. /\ \A s \in SUBSET D : F(s) \in Int /\ E(s) \in Int /\ H(s) \in Int
      /\ \A s \in SUBSET D : \A x \in s : /\ F(s) = f[x] + F(s \ {x})
                                         /\ E(s) = g[x] + E(s \ {x})
                                         /\ H(s) = h[x] + H(s \ {x})
  BY SumRemove
<1>2. F({}) = 0 /\ E({}) = 0 /\ H({}) = 0
  BY SumStep
<1> HIDE DEF F, E, H
<1>3. {} \in G
  BY <1>2
<1>4. ASSUME NEW s \in SUBSET D, NEW x \in s, s \ {x} \in G
      PROVE  s \in G
  <2> DEFINE r == s \ {x}
  <2>1. r \in SUBSET D
    OBVIOUS
  <2>2. F(r) \in Int /\ E(r) \in Int /\ H(r) \in Int
    BY <1>1, <2>1
  <2>3. F(s) = f[x] + F(r) /\ E(s) = g[x] + E(r) /\ H(s) = h[x] + H(r)
    BY <1>1
  <2>4. H(r) = F(r) + k * E(r)
    BY <1>4
  <2>5. f[x] \in Int /\ g[x] \in Int /\ h[x] = f[x] + k * g[x]
    OBVIOUS
  <2> HIDE DEF r
  <2>6. H(s) = F(s) + k * E(s)
    <3>1. \A a, b, p, q \in Int : (a + k * b) + (p + k * q) = (a + p) + k * (b + q)
      OBVIOUS
    <3> QED BY <2>2, <2>3, <2>4, <2>5, <3>1
  <2> QED BY <2>6
<1>5. \A s \in SUBSET D : s \in G
  <2> HIDE DEF G
  <2> QED BY <1>3, <1>4, RemoveInduction
<1>6. D \in SUBSET D /\ DOMAIN f = D /\ DOMAIN g = D /\ DOMAIN h = D
  OBVIOUS
<1> QED BY <1>5, <1>6 DEF SumFunction, F, E, H

\* A sum grows with its terms.
LEMMA SumMonotone ==
  ASSUME NEW D, IsFiniteSet(D), NEW f \in [D -> Int], NEW g \in [D -> Int],
         \A x \in D : f[x] <= g[x]
  PROVE  SumFunction(f) <= SumFunction(g)
<1> DEFINE F(s) == SumFunctionOnSet(f, s)
           E(s) == SumFunctionOnSet(g, s)
           G == {s \in SUBSET D : F(s) <= E(s)}
<1>1. /\ \A s \in SUBSET D : F(s) \in Int /\ E(s) \in Int
      /\ \A s \in SUBSET D : \A x \in s : F(s) = f[x] + F(s \ {x}) /\ E(s) = g[x] + E(s \ {x})
  BY SumRemove
<1>2. F({}) = 0 /\ E({}) = 0
  BY SumStep
<1> HIDE DEF F, E
<1>3. {} \in G
  BY <1>2
<1>4. ASSUME NEW s \in SUBSET D, NEW x \in s, s \ {x} \in G
      PROVE  s \in G
  <2> DEFINE r == s \ {x}
  <2>1. r \in SUBSET D
    OBVIOUS
  <2>2. F(r) \in Int /\ E(r) \in Int /\ F(r) <= E(r)
    BY <1>1, <1>4, <2>1
  <2>3. F(s) = f[x] + F(r) /\ E(s) = g[x] + E(r)
    BY <1>1
  <2>4. f[x] \in Int /\ g[x] \in Int /\ f[x] <= g[x]
    OBVIOUS
  <2> HIDE DEF r
  <2>5. F(s) <= E(s)
    BY <2>2, <2>3, <2>4
  <2> QED BY <2>5
<1>5. \A s \in SUBSET D : s \in G
  <2> HIDE DEF G
  <2> QED BY <1>3, <1>4, RemoveInduction
<1>6. D \in SUBSET D /\ DOMAIN f = D /\ DOMAIN g = D
  OBVIOUS
<1> QED BY <1>5, <1>6 DEF SumFunction, F, E

\* Equal terms add up to a multiple.
LEMMA SumConstant ==
  ASSUME NEW D, IsFiniteSet(D), NEW c \in Int, NEW f \in [D -> Int], \A x \in D : f[x] = c
  PROVE  SumFunction(f) = c * Cardinality(D)
<1> DEFINE F(s) == SumFunctionOnSet(f, s)
           G == {s \in SUBSET D : F(s) = c * Cardinality(s)}
<1>1. /\ \A s \in SUBSET D : F(s) \in Int
      /\ \A s \in SUBSET D : \A x \in s : F(s) = f[x] + F(s \ {x})
  BY SumRemove
<1>2. F({}) = 0 /\ Cardinality({}) = 0
  BY SumStep, FS_EmptySet
<1> HIDE DEF F
<1>3. {} \in G
  BY <1>2
<1>4. ASSUME NEW s \in SUBSET D, NEW x \in s, s \ {x} \in G
      PROVE  s \in G
  <2> DEFINE r == s \ {x}
  <2>1. IsFiniteSet(s)
    BY FS_Subset
  <2>2. Cardinality(s) \in Nat /\ Cardinality(r) = Cardinality(s) - 1
    BY <2>1, FS_CardinalityType, FS_RemoveElement
  <2>3. F(s) = c + F(r) /\ F(r) = c * Cardinality(r)
    BY <1>1, <1>4
  <2> HIDE DEF r
  <2>4. \A n \in Nat : c + c * (n - 1) = c * n
    OBVIOUS
  <2>5. F(s) = c * Cardinality(s)
    BY <2>2, <2>3, <2>4
  <2> QED BY <2>5
<1>5. \A s \in SUBSET D : s \in G
  <2> HIDE DEF G
  <2> QED BY <1>3, <1>4, RemoveInduction
<1>6. D \in SUBSET D /\ DOMAIN f = D
  OBVIOUS
<1> QED BY <1>5, <1>6 DEF SumFunction, F

\* Two functions that agree but at one argument.
LEMMA SumChangeAt ==
  ASSUME NEW D, IsFiniteSet(D), NEW f \in [D -> Int], NEW g \in [D -> Int], NEW x \in D,
         \A y \in D \ {x} : g[y] = f[y]
  PROVE  SumFunction(g) = SumFunction(f) - f[x] + g[x]
<1> DEFINE F(s) == SumFunctionOnSet(f, s)
           E(s) == SumFunctionOnSet(g, s)
           G == {s \in SUBSET D : x \in s \/ F(s) = E(s)}
<1>1. /\ \A s \in SUBSET D : F(s) \in Int /\ E(s) \in Int
      /\ \A s \in SUBSET D : \A y \in s : F(s) = f[y] + F(s \ {y}) /\ E(s) = g[y] + E(s \ {y})
  BY SumRemove
<1>2. F({}) = 0 /\ E({}) = 0
  BY SumStep
<1> HIDE DEF F, E
<1>3. {} \in G
  BY <1>2
<1>4. ASSUME NEW s \in SUBSET D, NEW y \in s, s \ {y} \in G
      PROVE  s \in G
  <2>1. CASE x \in s
    BY <2>1
  <2>2. CASE x \notin s
    <3>1. F(s \ {y}) = E(s \ {y})
      BY <1>4, <2>2
    <3>2. f[y] = g[y]
      BY <2>2
    <3> QED BY <1>1, <3>1, <3>2
  <2> QED BY <2>1, <2>2
<1>5. \A s \in SUBSET D : s \in G
  <2> HIDE DEF G
  <2> QED BY <1>3, <1>4, RemoveInduction
<1>6. F(D \ {x}) = E(D \ {x}) /\ F(D \ {x}) \in Int
  <2>1. D \ {x} \in SUBSET D
    OBVIOUS
  <2> QED BY <1>1, <1>5, <2>1
<1>7. F(D) = f[x] + F(D \ {x}) /\ E(D) = g[x] + E(D \ {x})
  BY <1>1
<1>8. f[x] \in Int /\ g[x] \in Int
  OBVIOUS
<1>9. E(D) = F(D) - f[x] + g[x]
  BY <1>6, <1>7, <1>8
<1>10. DOMAIN f = D /\ DOMAIN g = D
  OBVIOUS
<1> QED BY <1>9, <1>10 DEF SumFunction, F, E
================================================================================
