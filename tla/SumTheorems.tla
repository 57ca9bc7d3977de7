---------------------------- MODULE SumTheorems ----------------------------
(***************************************************************************)
(* What the proofs need to know of sums over finite sets and of recursive  *)
(* functions. MapThenSumSet defines a sum by recursion over a chosen       *)
(* order, and there is no induction over finite sets to reason about it    *)
(* with: a smallest set without the property takes its place, as a least   *)
(* number does where one would reason by induction over numbers.           *)
(***************************************************************************)
EXTENDS FiniteSetsExt, FiniteSetTheorems, WellFoundedInduction, NaturalsInduction, TLAPS

-----------------------------------------------------------------------------
(* Least numbers and smallest sets *)

(* A set of numbers has a least one: what stands for induction here.        *)
LEMMA LeastNumber ==
    ASSUME NEW T, T \subseteq Nat, T # {}
    PROVE  \E n \in T : \A m \in T : n <= m
  <1>1. IsWellFoundedOn(OpToRel(<, Nat), Nat)
    BY NatLessThanWellFounded
  <1>2. PICK n \in T : \A m \in T : ~ (<<m, n>> \in OpToRel(<, Nat))
    BY <1>1, WFMin
  <1>3. \A m \in T : ~ (m < n)
    BY <1>2 DEF OpToRel
  <1> QED BY <1>3

(* In a set of finite sets there is one with the fewest members.            *)
LEMMA SmallestSet ==
    ASSUME NEW S, IsFiniteSet(S), NEW F, F \subseteq SUBSET S, F # {}
    PROVE  \E s \in F : \A r \in F : Cardinality(s) <= Cardinality(r)
  <1> DEFINE T == {Cardinality(s) : s \in F}
  <1>1. \A s \in F : Cardinality(s) \in Nat
    BY FS_Subset, FS_CardinalityType
  <1>2. T \subseteq Nat /\ T # {}
    BY <1>1
  <1>3. PICK n \in T : \A m \in T : n <= m
    BY <1>2, LeastNumber
  <1> QED BY <1>3

(* The largest member of numbers up to a bound.                             *)
LEMMA LargestNumber ==
    ASSUME NEW l \in Nat, NEW S, S \subseteq 0..l, S # {}
    PROVE  Max(S) \in S /\ \A x \in S : x <= Max(S)
  <1> DEFINE T == {l - x : x \in S}
  <1>1. T \subseteq Nat /\ T # {}
    <2>1. \A x \in S : x \in 0..l /\ l - x \in Nat
      OBVIOUS
    <2> QED BY <2>1
  <1>2. PICK y \in T : \A z \in T : y <= z
    <2> HIDE DEF T
    <2> QED BY <1>1, LeastNumber
  <1>3. PICK x \in S : y = l - x
    OBVIOUS
  <1>4. \A z \in S : l - x <= l - z
    BY <1>2, <1>3
  <1>5. \A z \in S : x >= z
    <2> TAKE z \in S
    <2>1. z \in 0..l /\ x \in 0..l /\ l - x <= l - z
      BY <1>4
    <2> QED BY <2>1
  <1>6. Max(S) \in S /\ \A z \in S : Max(S) >= z
    BY <1>5, Zenon DEF Max
  <1>7. \A z \in S : z \in Int
    OBVIOUS
  <1> QED BY <1>6, <1>7

-----------------------------------------------------------------------------
(* Recursion *)

(* A recursion that goes from each argument to one that measures less,      *)
(* until it reaches one of B.                                               *)
Descends(D, V, B, p, m, start, G) ==
    /\ p \in [D -> D] /\ m \in [D -> Nat] /\ start \in [D -> V] /\ G \in [D -> [V -> V]]
    /\ \A d \in D : d \notin B => m[p[d]] < m[d]

(* It defines a function.                                                   *)
LEMMA Recursion ==
    ASSUME NEW D, NEW V, NEW B, NEW p, NEW m, NEW start, NEW G, Descends(D, V, B, p, m, start, G)
    PROVE  \E f \in [D -> V] : \A d \in D : f[d] = IF d \in B THEN start[d] ELSE G[d][f[p[d]]]
  <1> /\ p \in [D -> D] /\ m \in [D -> Nat] /\ start \in [D -> V] /\ G \in [D -> [V -> V]]
      /\ \A d \in D : d \notin B => m[p[d]] < m[d]
    BY DEF Descends
  <1> DEFINE Right(f, d) == f[d] = IF d \in B THEN start[d] ELSE G[d][f[p[d]]]
             UpTo(f, n) == f \in [D -> V] /\ \A d \in D : m[d] <= n => Right(f, d)
             Bad == {n \in Nat : ~ \E f : UpTo(f, n)}
  <1>1. \A n \in Nat : \E f : UpTo(f, n)
    <2> SUFFICES ASSUME Bad # {} PROVE FALSE
      OBVIOUS
    <2>1. PICK n \in Bad : \A k \in Bad : n <= k
      <3>1. Bad \subseteq Nat
        OBVIOUS
      <3> HIDE DEF Bad
      <3> QED BY <3>1, LeastNumber
    <2>2. n \in Nat /\ ~ \E f : UpTo(f, n)
      OBVIOUS
    <2>3. PICK h \in [D -> V] : \A d \in D : m[d] < n => Right(h, d)
      <3>1. CASE n = 0
        BY <3>1
      <3>2. CASE n # 0
        <4>1. n - 1 \in Nat /\ ~ (n <= n - 1)
          BY <2>2, <3>2
        <4>2. PICK f : UpTo(f, n - 1)
          BY <2>1, <4>1
        <4>3. \A d \in D : m[d] < n => m[d] <= n - 1
          BY <2>2
        <4> QED BY <4>2, <4>3
      <3> QED BY <3>1, <3>2
    <2> DEFINE g == [d \in D |-> IF d \in B THEN start[d]
                                 ELSE IF m[d] <= n THEN G[d][h[p[d]]] ELSE h[d]]
    <2>4. g \in [D -> V]
      OBVIOUS
    <2>5. \A d \in D : m[d] < n => g[d] = h[d]
      BY <2>2, <2>3
    <2>6. \A d \in D : m[d] <= n /\ d \notin B => m[p[d]] < n
      BY <2>2
    <2>7. \A d \in D : m[d] <= n => Right(g, d)
      BY <2>5, <2>6
    <2> QED BY <2>2, <2>4, <2>7
  <1> PICK F \in [Nat -> [D -> V]] : \A n \in Nat : UpTo(F[n], n)
    <2> DEFINE F == [n \in Nat |-> CHOOSE f : UpTo(f, n)]
    <2>1. \A n \in Nat : UpTo(F[n], n)
      <3> HIDE DEF UpTo
      <3> QED BY <1>1
    <2>2. \A n \in Nat : F[n] \in [D -> V]
      BY <2>1
    <2>3. F \in [Nat -> [D -> V]]
      <3> HIDE DEF UpTo
      <3>1. F = [n \in Nat |-> F[n]]
        OBVIOUS
      <3> HIDE DEF F
      <3> QED BY <2>2, <3>1
    <2> HIDE DEF F
    <2> QED BY <2>1, <2>3
  <1> DEFINE f == [d \in D |-> F[m[d]][d]]
  <1>2. \A k \in Nat, n \in Nat, d \in D : m[d] <= k /\ m[d] <= n => F[k][d] = F[n][d]
    <2> SUFFICES ASSUME NEW k \in Nat, NEW n \in Nat
                 PROVE  \A d \in D : m[d] <= k /\ m[d] <= n => F[k][d] = F[n][d]
      OBVIOUS
    <2> DEFINE T == {m[d] : d \in {e \in D : m[e] <= k /\ m[e] <= n /\ F[k][e] # F[n][e]}}
    <2> SUFFICES ASSUME T # {} PROVE FALSE
      <3>1. (T = {}) => \A d \in D : m[d] <= k /\ m[d] <= n => F[k][d] = F[n][d]
        <4> SUFFICES ASSUME NEW d \in D, m[d] <= k /\ m[d] <= n, F[k][d] # F[n][d] PROVE T # {}
          OBVIOUS
        <4>1. m[d] \in T
          OBVIOUS
        <4> HIDE DEF T
        <4> QED BY <4>1
      <3> HIDE DEF T
      <3> QED BY <3>1
    <2>1. T \subseteq Nat
      <3>1. \A e \in D : m[e] \in Nat
        OBVIOUS
      <3> QED BY <3>1
    <2>2. PICK l \in T : \A j \in T : l <= j
      <3> HIDE DEF T
      <3> QED BY <2>1, LeastNumber
    <2>3. PICK d \in D : m[d] = l /\ m[d] <= k /\ m[d] <= n /\ F[k][d] # F[n][d]
      OBVIOUS
    <2>4. Right(F[k], d) /\ Right(F[n], d)
      BY <2>3
    <2>5. d \notin B
      BY <2>3, <2>4
    <2>6. m[p[d]] < m[d] /\ p[d] \in D /\ m[p[d]] \in Nat /\ m[d] \in Nat
      BY <2>5
    <2>7. F[k][p[d]] = F[n][p[d]]
      <3>1. m[p[d]] <= k /\ m[p[d]] <= n /\ ~ (m[d] <= m[p[d]])
        BY <2>3, <2>6
      <3>2. m[p[d]] \notin T
        BY <2>2, <2>3, <3>1
      <3> QED BY <2>6, <3>1, <3>2
    <2> QED BY <2>3, <2>4, <2>5, <2>7
  <1>3. \A d \in D : Right(f, d)
    <2> TAKE d \in D
    <2>1. Right(F[m[d]], d)
      <3>1. m[d] \in Nat /\ m[d] <= m[d]
        OBVIOUS
      <3> QED BY <3>1
    <2>2. d \notin B => F[m[d]][p[d]] = f[p[d]]
      <3>1. ASSUME d \notin B PROVE F[m[d]][p[d]] = F[m[p[d]]][p[d]]
        <4>1. m[p[d]] < m[d] /\ p[d] \in D /\ m[p[d]] \in Nat /\ m[d] \in Nat
          BY <3>1
        <4>2. m[p[d]] <= m[d] /\ m[p[d]] <= m[p[d]]
          BY <4>1
        <4> QED BY <1>2, <4>1, <4>2
      <3> QED BY <3>1
    <2>3. f[d] = F[m[d]][d]
      OBVIOUS
    <2> HIDE DEF f
    <2> QED BY <2>1, <2>2, <2>3
  <1>4. f \in [D -> V]
    OBVIOUS
  <1> QED BY <1>3, <1>4

-----------------------------------------------------------------------------
(* Sums *)

SumOf(m, S) == MapThenSumSet(LAMBDA p : m[p], S)

One(s) == CHOOSE x \in s : TRUE
Adds(h, m, s) == IF s = {} THEN 0 ELSE m[One(s)] + h[s \ {One(s)}]
Sums(h, m, S) == h = [s \in SUBSET S |-> Adds(h, m, s)]

(* The recursion of the sum defines a function on the subsets of S.         *)
LEMMA SumsExist ==
    ASSUME NEW m, NEW S, IsFiniteSet(S)
    PROVE  \E h : Sums(h, m, S)
  <1> DEFINE Part(n) == {s \in SUBSET S : Cardinality(s) <= n}
             UpTo(h, n) == h = [s \in Part(n) |-> Adds(h, m, s)]
  <1>1. \A s \in SUBSET S : Cardinality(s) \in Nat /\ IsFiniteSet(s) /\ (Cardinality(s) = 0 <=> s = {})
    BY FS_Subset, FS_CardinalityType, FS_EmptySet
  <1>2. \A s \in SUBSET S : s # {} => /\ One(s) \in s /\ s \ {One(s)} \in SUBSET S
                                      /\ Cardinality(s \ {One(s)}) = Cardinality(s) - 1
    BY <1>1, FS_RemoveElement DEF One
  <1>3. \A n \in Nat : \E h : UpTo(h, n)
    <2> SUFFICES ASSUME {n \in Nat : ~ \E h : UpTo(h, n)} # {} PROVE FALSE
      OBVIOUS
    <2>1. PICK n \in Nat : /\ ~ \E h : UpTo(h, n)
                           /\ \A k \in Nat : (~ \E h : UpTo(h, k)) => n <= k
      <3> DEFINE T == {n \in Nat : ~ \E h : UpTo(h, n)}
      <3>1. T \subseteq Nat /\ T # {}
        OBVIOUS
      <3> HIDE DEF T
      <3>2. PICK n \in T : \A k \in T : n <= k
        BY <3>1, LeastNumber
      <3> QED BY <3>2 DEF T
    <2>2. CASE n = 0
      <3> DEFINE f == [s \in Part(0) |-> 0]
      <3>1. \A s \in Part(0) : s = {}
        BY <1>1
      <3>2. UpTo(f, 0)
        BY <3>1 DEF Adds
      <3> QED BY <2>1, <2>2, <3>2
    <2>3. CASE n # 0
      <3>1. n - 1 \in Nat /\ ~ (n <= n - 1)
        BY <2>3
      <3>2. PICK h : UpTo(h, n - 1)
        BY <2>1, <3>1
      <3> DEFINE g == [s \in Part(n) |-> Adds(h, m, s)]
      <3>3. \A s \in Part(n - 1) : s \in Part(n) /\ h[s] = Adds(h, m, s)
        BY <1>1, <3>1, <3>2
      <3>4. \A s \in Part(n) : s # {} => s \ {One(s)} \in Part(n - 1)
        BY <1>1, <1>2, <3>1
      <3> HIDE DEF Part
      <3>5. \A s \in Part(n) : Adds(g, m, s) = Adds(h, m, s)
        <4>1. \A s \in Part(n - 1) : g[s] = h[s]
          BY <3>3
        <4> HIDE DEF g
        <4> QED BY <3>4, <4>1 DEF Adds
      <3>6. UpTo(g, n)
        BY <3>5
      <3> QED BY <2>1, <3>6
    <2> QED BY <2>2, <2>3
  <1>4. PICK h : UpTo(h, Cardinality(S))
    BY <1>1, <1>3
  <1>5. Part(Cardinality(S)) = SUBSET S
    BY FS_Subset
  <1> QED BY <1>4, <1>5 DEF Sums

(* Two such functions agree on the sets that both are defined on.           *)
LEMMA SumsAgree ==
    ASSUME NEW m, NEW k, NEW S, IsFiniteSet(S), NEW T \in SUBSET S, NEW h, NEW g,
           Sums(h, m, S), Sums(g, k, T), \A p \in T : m[p] = k[p]
    PROVE  \A s \in SUBSET T : h[s] = g[s]
  <1> DEFINE F == {s \in SUBSET T : h[s] # g[s]}
  <1> SUFFICES ASSUME F # {} PROVE FALSE
    OBVIOUS
  <1>1. F \subseteq SUBSET S
    OBVIOUS
  <1>2. PICK s \in F : \A r \in F : Cardinality(s) <= Cardinality(r)
    BY <1>1, SmallestSet
  <1>3. h[s] = Adds(h, m, s) /\ g[s] = Adds(g, k, s)
    BY <1>1 DEF Sums
  <1>4. s # {}
    BY <1>3 DEF Adds
  <1>5. One(s) \in s
    BY <1>4 DEF One
  <1>6. IsFiniteSet(s) /\ Cardinality(s) \in Nat
    BY <1>1, FS_Subset, FS_CardinalityType
  <1>7. ~ (Cardinality(s) <= Cardinality(s \ {One(s)}))
    <2>1. Cardinality(s \ {One(s)}) = Cardinality(s) - 1
      BY <1>5, <1>6, FS_RemoveElement
    <2> QED BY <1>6, <2>1
  <1>8. h[s \ {One(s)}] = g[s \ {One(s)}]
    BY <1>2, <1>7
  <1> QED BY <1>3, <1>4, <1>5, <1>8 DEF Adds

(* SumOf is the function that the recursion of the sum defines.          *)
LEMMA SumOfIsSums ==
    ASSUME NEW m, NEW S, IsFiniteSet(S)
    PROVE  SumOf(m, S) = (CHOOSE h : Sums(h, m, S))[S]
  <1> QED BY DEF SumOf, MapThenSumSet, MapThenFoldSet, Sums, Adds, One

(* Any function that satisfies the recursion gives the sum over each        *)
(* subset.                                                                  *)
LEMMA SumOfBySums ==
    ASSUME NEW m, NEW S, IsFiniteSet(S), NEW h, Sums(h, m, S), NEW T \in SUBSET S
    PROVE  SumOf(m, T) = h[T]
  <1>1. IsFiniteSet(T)
    BY FS_Subset
  <1>2. PICK g : Sums(g, m, T) /\ SumOf(m, T) = g[T]
    <2>1. Sums(CHOOSE g : Sums(g, m, T), m, T)
      BY <1>1, SumsExist
    <2> QED BY <1>1, <2>1, SumOfIsSums
  <1>3. T \in SUBSET T
    OBVIOUS
  <1>4. \A s \in SUBSET T : h[s] = g[s]
    <2>1. Sums(g, m, T) /\ \A p \in T : m[p] = m[p]
      BY <1>2
    <2> QED BY <2>1, SumsAgree
  <1> QED BY <1>2, <1>3, <1>4

(* The sum of nothing.                                                      *)
LEMMA SumOfNone == \A m : SumOf(m, {}) = 0
  <1> TAKE m
  <1>1. IsFiniteSet({})
    BY FS_EmptySet
  <1>2. PICK h : Sums(h, m, {})
    BY <1>1, SumsExist
  <1>3. SumOf(m, {}) = h[{}]
    BY <1>1, <1>2, SumOfBySums
  <1> QED BY <1>2, <1>3 DEF Sums, Adds

(* The sum over a set is the number of any one member and the sum over the  *)
(* rest.                                                                    *)
LEMMA SumApart ==
    ASSUME NEW m, NEW S, IsFiniteSet(S), \A p \in S : m[p] \in Nat
    PROVE  /\ SumOf(m, S) \in Nat
           /\ \A x \in S : SumOf(m, S) = m[x] + SumOf(m, S \ {x})
  <1> PICK h : Sums(h, m, S)
    BY SumsExist
  <1> DEFINE Right(s) == h[s] \in Nat /\ \A x \in s : h[s] = m[x] + h[s \ {x}]
             F == {s \in SUBSET S : ~ Right(s)}
  <1>1. \A s \in SUBSET S : SumOf(m, s) = h[s]
    BY SumOfBySums
  <1>2. \A s \in SUBSET S : /\ h[s] = Adds(h, m, s)
                            /\ IsFiniteSet(s) /\ Cardinality(s) \in Nat
                            /\ \A x \in s : ~ (Cardinality(s) <= Cardinality(s \ {x}))
    BY FS_Subset, FS_CardinalityType, FS_RemoveElement DEF Sums
  <1>3. F = {}
    <2> SUFFICES ASSUME F # {} PROVE FALSE
      OBVIOUS
    <2>1. PICK s \in F : \A r \in F : Cardinality(s) <= Cardinality(r)
      <3>1. F \subseteq SUBSET S
        OBVIOUS
      <3> QED BY <2>1, <3>1, SmallestSet
    <2>2. s # {}
      <3>1. h[{}] = 0
        BY <1>2 DEF Adds
      <3>2. Right({})
        BY <3>1
      <3> HIDE DEF Right
      <3>3. s \in F => ~ Right(s)
        OBVIOUS
      <3> QED BY <3>2, <3>3
    <2> DEFINE y == One(s)
    <2>3. y \in s
      BY <2>2 DEF One
    <2>4. h[s] = m[y] + h[s \ {y}]
      BY <1>2, <2>2 DEF Adds
    <2> HIDE DEF y
    <2>5. \A x \in s : Right(s \ {x})
      BY <1>2, <2>1
    <2>6. \A x \in s : h[s] = m[x] + h[s \ {x}]
      <3> TAKE x \in s
      <3>1. CASE x = y
        BY <2>4, <3>1
      <3>2. CASE x # y
        <4>1. h[s \ {y}] = m[x] + h[(s \ {y}) \ {x}]
          BY <2>3, <2>5, <3>2
        <4>2. h[s \ {x}] = m[y] + h[(s \ {x}) \ {y}]
          BY <2>3, <2>5, <3>2
        <4>3. (s \ {y}) \ {x} = (s \ {x}) \ {y} /\ x \in S /\ y \in S
          BY <2>3
        <4>4. h[(s \ {x}) \ {y}] \in Nat
          <5> DEFINE r == s \ {x}
          <5>1. r \in SUBSET S /\ y \in r /\ r \ {y} \in SUBSET S
            BY <2>3, <3>2
          <5>2. /\ ~ (Cardinality(s) <= Cardinality(r)) /\ ~ (Cardinality(r) <= Cardinality(r \ {y}))
                /\ Cardinality(s) \in Nat /\ Cardinality(r) \in Nat /\ Cardinality(r \ {y}) \in Nat
            BY <1>2, <5>1
          <5>3. ~ (Cardinality(s) <= Cardinality(r \ {y}))
            BY <5>2
          <5> QED BY <2>1, <5>1, <5>3
        <4>5. m[x] \in Nat /\ m[y] \in Nat
          BY <4>3
        <4> DEFINE rest == h[(s \ {x}) \ {y}]
        <4>6. /\ h[s] = m[y] + h[s \ {y}] /\ h[s \ {y}] = m[x] + rest
              /\ h[s \ {x}] = m[y] + rest /\ rest \in Nat
          BY <2>4, <4>1, <4>2, <4>3, <4>4
        <4> HIDE DEF rest
        <4> QED BY <4>5, <4>6
      <3> QED BY <3>1, <3>2
    <2>7. h[s] \in Nat
      <3>1. y \in S /\ h[s \ {y}] \in Nat
        BY <2>3, <2>5
      <3> QED BY <2>4, <3>1
    <2> QED BY <2>6, <2>7
  <1>4. Right(S)
    BY <1>3
  <1> QED BY <1>1, <1>4

(* The same numbers have the same sum.                                      *)
LEMMA SumAlike ==
    ASSUME NEW m, NEW k, NEW S, IsFiniteSet(S), \A p \in S : m[p] = k[p]
    PROVE  SumOf(m, S) = SumOf(k, S)
  <1>1. PICK h : Sums(h, m, S)
    BY SumsExist
  <1>2. PICK g : Sums(g, k, S)
    BY SumsExist
  <1>3. S \in SUBSET S
    OBVIOUS
  <1>4. SumOf(m, S) = h[S] /\ SumOf(k, S) = g[S]
    BY <1>1, <1>2, <1>3, SumOfBySums
  <1>5. \A s \in SUBSET S : h[s] = g[s]
    BY <1>1, <1>2, <1>3, SumsAgree
  <1> QED BY <1>3, <1>4, <1>5

(* A sum of zeros is zero.                                                  *)
LEMMA SumOfZeros ==
    ASSUME NEW m, NEW S, IsFiniteSet(S), \A p \in S : m[p] = 0
    PROVE  SumOf(m, S) = 0
  <1> DEFINE F == {s \in SUBSET S : SumOf(m, s) # 0}
  <1> SUFFICES ASSUME F # {} PROVE FALSE
    OBVIOUS
  <1>1. PICK s \in F : \A r \in F : Cardinality(s) <= Cardinality(r)
    <2>1. F \subseteq SUBSET S
      OBVIOUS
    <2> QED BY <2>1, SmallestSet
  <1>2. PICK x : x \in s
    BY SumOfNone
  <1>3. IsFiniteSet(s) /\ Cardinality(s) \in Nat /\ \A p \in s : m[p] = 0
    BY FS_Subset, FS_CardinalityType
  <1>4. ~ (Cardinality(s) <= Cardinality(s \ {x}))
    <2>1. Cardinality(s \ {x}) = Cardinality(s) - 1
      BY <1>2, <1>3, FS_RemoveElement
    <2> QED BY <1>3, <2>1
  <1>5. SumOf(m, s \ {x}) = 0
    BY <1>1, <1>4
  <1>6. SumOf(m, s) = m[x] + SumOf(m, s \ {x})
    BY <1>2, <1>3, SumApart
  <1> QED BY <1>2, <1>3, <1>5, <1>6

(* A sum over more members is no smaller.                                   *)
LEMMA SumGrows ==
    ASSUME NEW m, NEW T, IsFiniteSet(T), \A p \in T : m[p] \in Nat, NEW S \in SUBSET T
    PROVE  SumOf(m, S) \in Nat /\ SumOf(m, S) <= SumOf(m, T)
  <1>1. \A s \in SUBSET T : /\ IsFiniteSet(s) /\ Cardinality(s) \in Nat /\ SumOf(m, s) \in Nat
                           /\ \A x \in s : SumOf(m, s) = m[x] + SumOf(m, s \ {x})
    <2> TAKE s \in SUBSET T
    <2>1. IsFiniteSet(s) /\ Cardinality(s) \in Nat /\ \A p \in s : m[p] \in Nat
      BY FS_Subset, FS_CardinalityType
    <2> QED BY <2>1, SumApart
  <1> DEFINE F == {s \in SUBSET T : S \subseteq s /\ ~ (SumOf(m, S) <= SumOf(m, s))}
  <1>2. F = {}
    <2> SUFFICES ASSUME F # {} PROVE FALSE
      OBVIOUS
    <2>1. PICK s \in F : \A r \in F : Cardinality(s) <= Cardinality(r)
      <3>1. F \subseteq SUBSET T
        OBVIOUS
      <3> QED BY <3>1, SmallestSet
    <2>2. s # S
      BY <1>1, <2>1
    <2>3. PICK x \in s : x \notin S
      BY <2>1, <2>2
    <2>4. ~ (Cardinality(s) <= Cardinality(s \ {x}))
      <3>1. Cardinality(s \ {x}) = Cardinality(s) - 1
        BY <1>1, <2>1, <2>3, FS_RemoveElement
      <3> QED BY <1>1, <2>1, <3>1
    <2>5. s \ {x} \in SUBSET T /\ S \subseteq s \ {x}
      BY <2>1, <2>3
    <2>6. SumOf(m, S) <= SumOf(m, s \ {x})
      BY <2>1, <2>4, <2>5
    <2>7. /\ SumOf(m, s) = m[x] + SumOf(m, s \ {x}) /\ m[x] \in Nat
          /\ SumOf(m, s \ {x}) \in Nat /\ SumOf(m, S) \in Nat /\ SumOf(m, s) \in Nat
      BY <1>1, <2>1, <2>3, <2>5
    <2>8. SumOf(m, S) <= SumOf(m, s)
      BY <2>6, <2>7
    <2> QED BY <2>1, <2>8
  <1> QED BY <1>1, <1>2
=============================================================================
