-------------------------------- MODULE Sums --------------------------------
(***************************************************************************)
(* What sums over finite sets are worth, for the ledgers that add up       *)
(* amounts: SumFunctionOnSet and SumFunction of the community module       *)
(* Functions are defined by recursion over a set, and each fact below is   *)
(* proved of a least subset for which it fails.                            *)
(***************************************************************************)
EXTENDS Integers, Functions, FiniteSets, FiniteSetTheorems, WellFoundedInduction, TLAPS

\* A set of subsets of a finite set has a least member.
LEMMA LeastSubset ==
    ASSUME NEW S, IsFiniteSet(S), NEW T \in SUBSET (SUBSET S), T # {}
    PROVE  \E s \in T : \A u \in T : u \subseteq s => u = s
  <1>1. FiniteSubsetsOf(S) = SUBSET S
    BY FS_FiniteSubsetsOfFinite
  <1>2. IsWellFoundedOn(StrictSubsetOrdering(S), SUBSET S)
    BY <1>1, FS_StrictSubsetOrderingWellFounded
  <1>3. PICK R : R = StrictSubsetOrdering(S)
    OBVIOUS
  <1>4. \E s \in T : \A u \in T : ~(<<u, s>> \in R)
    BY <1>2, <1>3, WFMin
  <1>5. PICK s \in T : \A u \in T : ~(<<u, s>> \in R)
    BY <1>4
  <1>6. ASSUME NEW u \in T, u \subseteq s, u # s PROVE FALSE
    <2>1. <<u, s>> \in StrictSubsetOrdering(S)
      BY <1>6 DEF StrictSubsetOrdering
    <2> QED
      BY <1>3, <1>5, <2>1
  <1> QED
    BY <1>5, <1>6

\* The table of the sums of f over the subsets of S.
SumTable(f, S, g) ==
    g = [s \in SUBSET S |-> IF s = {} THEN 0
                            ELSE LET x == CHOOSE x \in s : TRUE IN f[x] + g[s \ {x}]]

Some(s) == CHOOSE x \in s : TRUE

\* A table for the subsets of s.
Partial(f, s, g) ==
    /\ g \in [SUBSET s -> Int]
    /\ \A u \in SUBSET s : g[u] = IF u = {} THEN 0 ELSE f[Some(u)] + g[u \ {Some(u)}]

LEMMA PartialUnique ==
    ASSUME NEW f, NEW S, IsFiniteSet(S), NEW s \in SUBSET S, NEW t \in SUBSET S, NEW g, NEW h,
           Partial(f, s, g), Partial(f, t, h), NEW u \in SUBSET s, u \in SUBSET t
    PROVE  g[u] = h[u]
  <1> DEFINE T == {v \in SUBSET S : v \subseteq s /\ v \subseteq t /\ g[v] # h[v]}
  <1>1. T = {}
    <2> SUFFICES ASSUME T # {} PROVE FALSE
      OBVIOUS
    <2>1. PICK v \in T : \A w \in T : w \subseteq v => w = v
      <3>0. T \in SUBSET (SUBSET S) /\ T # {}
        OBVIOUS
      <3> HIDE DEF T
      <3>1. PICK Z \in SUBSET (SUBSET S) : Z = T /\ Z # {}
        BY <3>0, Zenon
      <3>2. \E w \in Z : \A e \in Z : e \subseteq w => e = w
        BY <3>1, LeastSubset
      <3> QED
        BY <3>1, <3>2, Zenon
    <2>2. v # {}
      BY DEF Partial
    <2>3. PICK x : x = Some(v)
      OBVIOUS
    <2>4. x \in v
      BY <2>2, <2>3 DEF Some
    <2>5. v \ {x} \notin T
      BY <2>1, <2>4
    <2>6. g[v \ {x}] = h[v \ {x}]
      BY <2>5
    <2> QED
      BY <2>2, <2>3, <2>6 DEF Partial
  <1> QED
    BY <1>1

\* Every subset has a table.
LEMMA PartialExists ==
    ASSUME NEW S, IsFiniteSet(S), NEW f, \A x \in S : f[x] \in Int
    PROVE  \A s \in SUBSET S : \E g : Partial(f, s, g)
  <1> DEFINE T == {s \in SUBSET S : ~\E g : Partial(f, s, g)}
             Table(s) == CHOOSE g : Partial(f, s, g)
  <1> SUFFICES ASSUME T # {} PROVE FALSE
    OBVIOUS
  <1>1. PICK s \in T : \A w \in T : w \subseteq s => w = s
    <2>0. T \in SUBSET (SUBSET S) /\ T # {}
      OBVIOUS
    <2> HIDE DEF T
    <2>1. PICK Z \in SUBSET (SUBSET S) : Z = T /\ Z # {}
      BY <2>0, Zenon
    <2>2. \E w \in Z : \A e \in Z : e \subseteq w => e = w
      BY <2>1, LeastSubset
    <2> QED
      BY <2>1, <2>2, Zenon
  <1>2. ASSUME NEW v \in SUBSET s, v # s
        PROVE  Partial(f, v, Table(v))
    <2>1. \E g : Partial(f, v, g)
      BY <1>1, <1>2
    <2> QED
      BY <2>1
  <1> DEFINE h == [u \in SUBSET s |-> IF u = {} THEN 0
                                      ELSE f[Some(u)] + Table(u \ {Some(u)})[u \ {Some(u)}]]
  <1> HIDE DEF Table
  <1>3. ASSUME NEW u \in SUBSET s, u # {}
        PROVE  Some(u) \in u
    BY <1>3 DEF Some
  <1>4. ASSUME NEW u \in SUBSET s
        PROVE  h[u] \in Int
    <2>1. CASE u = {}
      BY <2>1
    <2>2. CASE u # {}
      <3>1. PICK x \in u : x = Some(u)
        BY <1>3, <2>2
      <3>2. Partial(f, u \ {x}, Table(u \ {x}))
        BY <1>2, <3>1
      <3>3. Table(u \ {x})[u \ {x}] \in Int
        BY <3>2 DEF Partial
      <3> QED
        BY <2>2, <3>1, <3>3
    <2> QED
      BY <2>1, <2>2
  <1>5. ASSUME NEW v \in SUBSET s, v # s
        PROVE  h[v] = Table(v)[v]
    <2>1. Partial(f, v, Table(v))
      BY <1>2, <1>5
    <2>2. CASE v = {}
      BY <2>1, <2>2 DEF Partial
    <2>3. CASE v # {}
      <3>1. PICK x \in v : x = Some(v)
        BY <1>3, <2>3
      <3>2. Partial(f, v \ {x}, Table(v \ {x}))
        BY <1>2, <3>1
      <3>3. Table(v)[v \ {x}] = Table(v \ {x})[v \ {x}]
        <4>1. PICK u, a, b : u = v \ {x} /\ a = Table(v) /\ b = Table(v \ {x})
          OBVIOUS
        <4>2. Partial(f, v, a) /\ Partial(f, u, b)
          BY <2>1, <3>2, <4>1
        <4>3. v \in SUBSET S /\ u \in SUBSET S /\ u \in SUBSET v /\ u \in SUBSET u
          BY <4>1
        <4>4. a[u] = b[u]
          <5> HIDE DEF h, T
          <5> QED
            BY <4>2, <4>3, PartialUnique
        <4> QED
          BY <4>1, <4>4
      <3>4. Table(v)[v] = f[x] + Table(v)[v \ {x}]
        BY <2>1, <2>3, <3>1 DEF Partial
      <3> QED
        BY <2>3, <3>1, <3>3, <3>4
    <2> QED
      BY <2>2, <2>3
  <1>6. ASSUME NEW u \in SUBSET s, u # {}
        PROVE  h[u] = f[Some(u)] + h[u \ {Some(u)}]
    <2>1. PICK x \in u : x = Some(u)
      BY <1>3, <1>6
    <2>2. h[u \ {x}] = Table(u \ {x})[u \ {x}]
      BY <1>5, <2>1
    <2> QED
      BY <1>6, <2>1, <2>2
  <1>7. Partial(f, s, h)
    <2>1. h[{}] = 0 /\ h \in [SUBSET s -> Int]
      BY <1>4
    <2> HIDE DEF h
    <2> QED
      BY <1>6, <2>1 DEF Partial
  <1> QED
    BY <1>1, <1>7

LEMMA SumIs ==
    ASSUME NEW f, NEW S
    PROVE  SumFunctionOnSet(f, S) = (CHOOSE g : SumTable(f, S, g))[S]
  BY DEF SumFunctionOnSet, FoldFunctionOnSet, MapThenFoldSet, SumTable

\* The sum over a subset is its entry in any table.
LEMMA SumInTable ==
    ASSUME NEW S, IsFiniteSet(S), NEW f, \A x \in S : f[x] \in Int, NEW g, Partial(f, S, g)
    PROVE  \A v \in SUBSET S : SumFunctionOnSet(f, v) = g[v]
  <1> TAKE v \in SUBSET S
  <1> DEFINE c == CHOOSE k : SumTable(f, v, k)
  <1>0. IsFiniteSet(v)
    BY FS_Subset
  <1>1. PICK h : Partial(f, v, h)
    BY PartialExists
  <1>2. SumTable(f, v, h)
    BY <1>1 DEF Partial, SumTable, Some
  <1>3. SumTable(f, v, c)
    BY <1>2
  <1> HIDE DEF c
  <1>4. c \in [SUBSET v -> Int]
    <2> DEFINE T == {u \in SUBSET v : c[u] \notin Int}
    <2> SUFFICES ASSUME T # {} PROVE FALSE
      BY <1>3 DEF SumTable
    <2>1. PICK u \in T : \A w \in T : w \subseteq u => w = u
      <3>0. T \in SUBSET (SUBSET v) /\ T # {}
        OBVIOUS
      <3> HIDE DEF T
      <3>1. PICK Z \in SUBSET (SUBSET v) : Z = T /\ Z # {}
        BY <3>0, Zenon
      <3>2. \E w \in Z : \A e \in Z : e \subseteq w => e = w
        BY <1>0, <3>1, LeastSubset
      <3> QED
        BY <3>1, <3>2, Zenon
    <2>2. u # {}
      BY <1>3 DEF SumTable
    <2>3. PICK x : x = Some(u)
      OBVIOUS
    <2>4. x \in u
      BY <2>2, <2>3 DEF Some
    <2>5. c[u \ {x}] \in Int
      BY <2>1, <2>4
    <2>6. c[u] = f[x] + c[u \ {x}]
      BY <1>3, <2>2, <2>3 DEF SumTable, Some
    <2> QED
      BY <2>4, <2>5, <2>6
  <1>5. Partial(f, v, c)
    BY <1>3, <1>4 DEF Partial, SumTable, Some
  <1>6. c[v] = g[v]
    BY <1>5, PartialUnique
  <1> QED
    BY <1>6, SumIs DEF c

LEMMA SumStep ==
    ASSUME NEW S, IsFiniteSet(S), NEW f, \A x \in S : f[x] \in Int
    PROVE  /\ SumFunctionOnSet(f, {}) = 0
           /\ \A v \in SUBSET S : SumFunctionOnSet(f, v) \in Int
           /\ \A v \in SUBSET S : v # {} =>
                 SumFunctionOnSet(f, v) = f[Some(v)] + SumFunctionOnSet(f, v \ {Some(v)})
  <1>1. PICK g : Partial(f, S, g)
    BY PartialExists
  <1>2. \A v \in SUBSET S : SumFunctionOnSet(f, v) = g[v]
    BY <1>1, SumInTable
  <1> QED
    BY <1>1, <1>2 DEF Partial

\* A sum is what one element adds to the sum of the others.
LEMMA SumRemove ==
    ASSUME NEW S, IsFiniteSet(S), NEW f, \A x \in S : f[x] \in Int, NEW y \in S
    PROVE  SumFunctionOnSet(f, S) = f[y] + SumFunctionOnSet(f, S \ {y})
  <1> DEFINE G(v) == SumFunctionOnSet(f, v)
             T == {v \in SUBSET S : \E x \in v : G(v) # f[x] + G(v \ {x})}
  <1>0. /\ \A v \in SUBSET S : G(v) \in Int
        /\ \A v \in SUBSET S : v # {} => G(v) = f[Some(v)] + G(v \ {Some(v)})
    BY SumStep
  <1> HIDE DEF G
  <1>1. T = {}
    <2> SUFFICES ASSUME T # {} PROVE FALSE
      OBVIOUS
    <2>1. PICK v \in T : \A w \in T : w \subseteq v => w = v
      <3>0. T \in SUBSET (SUBSET S) /\ T # {}
        OBVIOUS
      <3> HIDE DEF T
      <3>1. PICK Z \in SUBSET (SUBSET S) : Z = T /\ Z # {}
        BY <3>0, Zenon
      <3>2. \E w \in Z : \A e \in Z : e \subseteq w => e = w
        BY <3>1, LeastSubset
      <3> QED
        BY <3>1, <3>2, Zenon
    <2>2. PICK x \in v : G(v) # f[x] + G(v \ {x})
      OBVIOUS
    <2>3. PICK p : p = Some(v)
      OBVIOUS
    <2>4. p \in v /\ G(v) = f[p] + G(v \ {p})
      BY <1>0, <2>2, <2>3 DEF Some
    <2>5. p # x
      BY <2>2, <2>4
    <2>6. G(v \ {p}) = f[x] + G((v \ {p}) \ {x})
      <3>1. v \ {p} \notin T /\ x \in v \ {p}
        BY <2>1, <2>4, <2>5
      <3> QED
        BY <3>1
    <2>7. G(v \ {x}) = f[p] + G((v \ {x}) \ {p})
      <3>1. v \ {x} \notin T /\ p \in v \ {x}
        BY <2>1, <2>4, <2>5
      <3> QED
        BY <3>1
    <2>8. (v \ {p}) \ {x} = (v \ {x}) \ {p}
      OBVIOUS
    <2>9. PICK k, a, b, c \in Int : k = G((v \ {x}) \ {p}) /\ a = G(v) /\ b = G(v \ {p}) /\ c = G(v \ {x})
      BY <1>0
    <2>10. PICK m, n \in Int : m = f[p] /\ n = f[x]
      BY <2>4
    <2>11. a = m + b /\ b = n + k /\ c = m + k
      BY <2>4, <2>6, <2>7, <2>8, <2>9, <2>10
    <2>12. a = n + c
      BY <2>11
    <2> QED
      BY <2>2, <2>9, <2>10, <2>12
  <1> QED
    BY <1>1 DEF G

LEMMA SumType ==
    ASSUME NEW S, IsFiniteSet(S), NEW f, \A x \in S : f[x] \in Int
    PROVE  SumFunctionOnSet(f, S) \in Int /\ SumFunctionOnSet(f, {}) = 0
  BY SumStep

\* A sum depends on nothing but the values it adds.
LEMMA SumAgree ==
    ASSUME NEW S, IsFiniteSet(S), NEW f, \A x \in S : f[x] \in Int, NEW h, \A x \in S : h[x] = f[x]
    PROVE  SumFunctionOnSet(h, S) = SumFunctionOnSet(f, S)
  <1>0. \A x \in S : h[x] \in Int
    OBVIOUS
  <1>1. PICK g : Partial(f, S, g)
    BY PartialExists
  <1>2. Partial(h, S, g)
    <2>1. \A u \in SUBSET S : u # {} => Some(u) \in u
      BY DEF Some
    <2>2. \A u \in SUBSET S : u # {} => h[Some(u)] = f[Some(u)]
      BY <2>1
    <2> QED
      BY <1>1, <2>2 DEF Partial
  <1>3. SumFunctionOnSet(f, S) = g[S]
    BY <1>1, SumInTable
  <1>4. SumFunctionOnSet(h, S) = g[S]
    BY <1>0, <1>2, SumInTable
  <1> QED
    BY <1>3, <1>4

\* One value changes.
LEMMA SumUpdate ==
    ASSUME NEW S, IsFiniteSet(S), NEW f, \A x \in S : f[x] \in Int, NEW h, NEW y \in S, h[y] \in Int,
           \A x \in S \ {y} : h[x] = f[x]
    PROVE  SumFunctionOnSet(h, S) = SumFunctionOnSet(f, S) + (h[y] - f[y])
  <1>1. SumFunctionOnSet(f, S) = f[y] + SumFunctionOnSet(f, S \ {y})
    BY SumRemove
  <1>2. SumFunctionOnSet(h, S) = h[y] + SumFunctionOnSet(h, S \ {y})
    <2>1. \A x \in S : h[x] \in Int
      OBVIOUS
    <2> QED
      BY <2>1, SumRemove
  <1>3. IsFiniteSet(S \ {y})
    BY FS_RemoveElement
  <1>4. SumFunctionOnSet(h, S \ {y}) = SumFunctionOnSet(f, S \ {y}) /\ SumFunctionOnSet(f, S \ {y}) \in Int
    BY <1>3, SumAgree, SumType
  <1> QED
    BY <1>1, <1>2, <1>4

\* Naturals add up to a natural, and zeros to zero.
LEMMA SumNatural ==
    ASSUME NEW S, IsFiniteSet(S), NEW f, \A x \in S : f[x] \in Nat
    PROVE  SumFunctionOnSet(f, S) \in Nat /\ ((\A x \in S : f[x] = 0) => SumFunctionOnSet(f, S) = 0)
  <1> DEFINE G(v) == SumFunctionOnSet(f, v)
             Fine(v) == G(v) \in Nat /\ ((\A x \in S : f[x] = 0) => G(v) = 0)
             T == {v \in SUBSET S : ~Fine(v)}
  <1>0. /\ G({}) = 0
        /\ \A v \in SUBSET S : v # {} => G(v) = f[Some(v)] + G(v \ {Some(v)})
    BY SumStep
  <1> HIDE DEF G
  <1>1. T = {}
    <2> SUFFICES ASSUME T # {} PROVE FALSE
      OBVIOUS
    <2>1. PICK v \in T : \A w \in T : w \subseteq v => w = v
      <3>0. T \in SUBSET (SUBSET S) /\ T # {}
        OBVIOUS
      <3> HIDE DEF T
      <3>1. PICK Z \in SUBSET (SUBSET S) : Z = T /\ Z # {}
        BY <3>0, Zenon
      <3>2. \E w \in Z : \A e \in Z : e \subseteq w => e = w
        BY <3>1, LeastSubset
      <3> QED
        BY <3>1, <3>2, Zenon
    <2>2. v # {}
      <3>1. Fine({})
        BY <1>0
      <3>2. ~Fine(v)
        BY <2>1
      <3> HIDE DEF Fine
      <3> QED
        BY <3>1, <3>2
    <2>3. PICK p : p = Some(v)
      OBVIOUS
    <2>4. p \in v /\ G(v) = f[p] + G(v \ {p})
      BY <1>0, <2>2, <2>3 DEF Some
    <2>5. Fine(v \ {p})
      BY <2>1, <2>4
    <2>6. f[p] \in Nat /\ p \in S
      BY <2>4
    <2>7. Fine(v)
      BY <2>4, <2>5, <2>6
    <2> QED
      BY <2>7
  <1>2. Fine(S)
    BY <1>1
  <1> QED
    BY <1>2 DEF G

\* A sum takes in one element more, or does not see a value that changes.
LEMMA SumGrow ==
    ASSUME NEW S, IsFiniteSet(S), NEW f, \A x \in S : f[x] \in Int, NEW y, y \notin S, NEW h, h[y] \in Int,
           \A x \in S : h[x] = f[x]
    PROVE  /\ SumFunctionOnSet(h, S) = SumFunctionOnSet(f, S)
           /\ SumFunctionOnSet(h, S \cup {y}) = SumFunctionOnSet(f, S) + h[y]
  <1>1. IsFiniteSet(S \cup {y})
    BY FS_AddElement
  <1>2. PICK U : U = S \cup {y}
    OBVIOUS
  <1>3. SumFunctionOnSet(h, U) = h[y] + SumFunctionOnSet(h, U \ {y})
    BY <1>1, <1>2, SumRemove
  <1>4. U \ {y} = S
    BY <1>2
  <1>5. SumFunctionOnSet(h, S) = SumFunctionOnSet(f, S) /\ SumFunctionOnSet(f, S) \in Int
    BY SumAgree, SumType
  <1>6. PICK a, b \in Int : a = h[y] /\ b = SumFunctionOnSet(f, S)
    BY <1>5
  <1>7. SumFunctionOnSet(h, U) = a + b
    BY <1>3, <1>4, <1>5, <1>6
  <1>8. SumFunctionOnSet(f, S) + h[y] = b + a
    BY <1>6
  <1> QED
    BY <1>2, <1>5, <1>6, <1>7, <1>8

\* The sum over two sets that share nothing.
LEMMA SumDisjoint ==
    ASSUME NEW S, IsFiniteSet(S), NEW f, \A x \in S : f[x] \in Int, NEW A \in SUBSET S, NEW B \in SUBSET S,
           A \cap B = {}
    PROVE  SumFunctionOnSet(f, A \cup B) = SumFunctionOnSet(f, A) + SumFunctionOnSet(f, B)
  <1> DEFINE G(v) == SumFunctionOnSet(f, v)
             T == {v \in SUBSET B : G(A \cup v) # G(A) + G(v)}
  <1>0. /\ G({}) = 0
        /\ \A v \in SUBSET S : G(v) \in Int
    BY SumStep
  <1>1. ASSUME NEW v \in SUBSET S, NEW y \in v
        PROVE  G(v) = f[y] + G(v \ {y})
    <2>1. IsFiniteSet(v)
      BY FS_Subset
    <2> QED
      BY <2>1, SumRemove
  <1> HIDE DEF G
  <1>2. T = {}
    <2> SUFFICES ASSUME T # {} PROVE FALSE
      OBVIOUS
    <2>1. PICK v \in T : \A w \in T : w \subseteq v => w = v
      <3>0. T \in SUBSET (SUBSET S) /\ T # {}
        OBVIOUS
      <3> HIDE DEF T
      <3>1. PICK Z \in SUBSET (SUBSET S) : Z = T /\ Z # {}
        BY <3>0, Zenon
      <3>2. \E w \in Z : \A e \in Z : e \subseteq w => e = w
        BY <3>1, LeastSubset
      <3> QED
        BY <3>1, <3>2, Zenon
    <2>2. v # {}
      <3> SUFFICES ASSUME v = {} PROVE FALSE
        OBVIOUS
      <3>1. PICK a \in Int : a = G(A)
        BY <1>0
      <3>2. A \cup v = A /\ G(v) = 0
        BY <1>0
      <3>3. G(A \cup v) = a /\ G(A) + G(v) = a + 0
        BY <3>1, <3>2
      <3>4. a + 0 = a
        BY <3>1
      <3> QED
        BY <2>1, <3>3, <3>4
    <2>3. PICK y \in v : TRUE
      BY <2>2
    <2>4. v \ {y} \notin T /\ v \ {y} \in SUBSET B
      BY <2>1, <2>3
    <2>5. G(A \cup (v \ {y})) = G(A) + G(v \ {y})
      BY <2>4
    <2>6. G(v) = f[y] + G(v \ {y})
      BY <1>1, <2>3
    <2>7. G(A \cup v) = f[y] + G((A \cup v) \ {y})
      BY <1>1, <2>3
    <2>8. (A \cup v) \ {y} = A \cup (v \ {y})
      BY <2>3
    <2>9. PICK a, b, c, d, e \in Int : a = G(A) /\ b = G(v \ {y}) /\ c = f[y] /\ d = G(A \cup v) /\ e = G(v)
      <3>1. v \in SUBSET S /\ v \ {y} \in SUBSET S /\ A \cup v \in SUBSET S /\ y \in S
        BY <2>3
      <3> QED
        BY <1>0, <3>1
    <2>10. d = c + (a + b) /\ e = c + b
      BY <2>5, <2>6, <2>7, <2>8, <2>9
    <2>11. d = a + e
      BY <2>10
    <2> QED
      BY <2>1, <2>9, <2>11
  <1>3. B \notin T
    BY <1>2
  <1> QED
    BY <1>3 DEF G

-----------------------------------------------------------------------------
(* The same for SumFunction. *)

LEMMA TotalIs ==
    ASSUME NEW S, IsFiniteSet(S), NEW f \in [S -> Int]
    PROVE  /\ SumFunction(f) = SumFunctionOnSet(f, S)
           /\ SumFunction(f) \in Int
           /\ f \in [S -> Nat] => SumFunction(f) \in Nat
           /\ (\A x \in S : f[x] = 0) => SumFunction(f) = 0
  <1>1. SumFunction(f) = SumFunctionOnSet(f, S)
    BY DEF SumFunction
  <1>2. SumFunctionOnSet(f, S) \in Int
    BY SumType
  <1>3. f \in [S -> Nat] => SumFunctionOnSet(f, S) \in Nat
    BY SumNatural
  <1>4. (\A x \in S : f[x] = 0) => SumFunctionOnSet(f, S) = 0
    BY SumNatural
  <1> QED
    BY <1>1, <1>2, <1>3, <1>4

\* One value changes.
LEMMA TotalUpdate ==
    ASSUME NEW S, IsFiniteSet(S), NEW f \in [S -> Int], NEW h \in [S -> Int], NEW y \in S,
           \A x \in S \ {y} : h[x] = f[x]
    PROVE  SumFunction(h) = SumFunction(f) + (h[y] - f[y])
  <1>1. SumFunctionOnSet(h, S) = SumFunctionOnSet(f, S) + (h[y] - f[y])
    BY SumUpdate
  <1> QED
    BY <1>1, TotalIs

\* One element is added.
LEMMA TotalAdd ==
    ASSUME NEW S, IsFiniteSet(S), NEW f \in [S -> Int], NEW y, y \notin S, NEW h \in [S \cup {y} -> Int],
           \A x \in S : h[x] = f[x]
    PROVE  SumFunction(h) = SumFunction(f) + h[y]
  <1>1. IsFiniteSet(S \cup {y})
    BY FS_AddElement
  <1>2. PICK U : U = S \cup {y}
    OBVIOUS
  <1>3. SumFunctionOnSet(h, U) = h[y] + SumFunctionOnSet(h, U \ {y})
    BY <1>1, <1>2, SumRemove
  <1>4. U \ {y} = S
    BY <1>2
  <1>5. SumFunctionOnSet(h, S) = SumFunctionOnSet(f, S) /\ SumFunctionOnSet(f, S) \in Int
    BY SumAgree, SumType
  <1>6. SumFunction(h) = SumFunctionOnSet(h, U) /\ SumFunction(f) = SumFunctionOnSet(f, S)
    BY <1>2 DEF SumFunction
  <1>7. PICK a, b \in Int : a = h[y] /\ b = SumFunctionOnSet(f, S)
    BY <1>5
  <1>8. SumFunction(h) = a + b
    BY <1>3, <1>4, <1>5, <1>6, <1>7
  <1>9. SumFunction(f) + h[y] = b + a
    BY <1>6, <1>7
  <1> QED
    BY <1>7, <1>8, <1>9

\* A balance that is covered by what the summands allow stays so when one
\* summand grows by as much as the balance falls, or the balance is not below 0.
LEMMA FloorStep ==
    ASSUME NEW S, IsFiniteSet(S), NEW f \in [S -> Nat], NEW h \in [S -> Nat], NEW y \in S,
           \A x \in S \ {y} : h[x] = f[x], NEW a \in Int, NEW b \in Int, a + SumFunction(f) >= 0,
           b >= 0 \/ b + h[y] >= a + f[y]
    PROVE  b + SumFunction(h) >= 0
  <1>0. f \in [S -> Int] /\ h \in [S -> Int]
    OBVIOUS
  <1>1. SumFunction(h) = SumFunction(f) + (h[y] - f[y])
    BY <1>0, TotalUpdate
  <1>2. SumFunction(f) \in Nat /\ SumFunction(h) \in Nat
    BY <1>0, TotalIs
  <1>3. f[y] \in Nat /\ h[y] \in Nat
    OBVIOUS
  <1> QED
    BY <1>1, <1>2, <1>3
=============================================================================
