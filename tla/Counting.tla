------------------------------ MODULE Counting ------------------------------
(* Facts about numbers, finite sets and sums that the theorems need.  What  *)
(* induction would show is shown from a least number that is a counterexample. *)
EXTENDS Integers, FiniteSets, FiniteSetsExt, Functions,
        FiniteSetTheorems, FunctionTheorems, WellFoundedInduction, TLAPS

-----------------------------------------------------------------------------
(* Numbers and sets.                                                       *)

\* A set of naturals that is not empty has a least member.
LEMMA LeastMember ==
    ASSUME NEW T \in SUBSET Nat, T # {}
    PROVE  \E m \in T : \A y \in T : m <= y
<1>1. PICK m \in T : \A y \in T : ~ (<<y, m>> \in OpToRel(<, Nat))
  BY NatLessThanWellFounded, WFMin
<1>2. \A y \in T : ~ (y < m)
  BY <1>1 DEF OpToRel
<1> QED BY <1>2

\* A bounded one has a greatest.
LEMMA GreatestBelow ==
    ASSUME NEW B \in Nat, NEW T \in SUBSET (0..B), T # {}
    PROVE  \E m \in T : \A y \in T : y <= m
<1> DEFINE D == {B - y : y \in T}
<1>1. D \in SUBSET Nat /\ D # {}
  <2>1. \A y \in T : B - y \in Nat
    OBVIOUS
  <2>2. D \in SUBSET Nat
    BY <2>1
  <2> QED BY <2>2
<1> HIDE DEF D
<1>2. PICK d \in D : \A x \in D : d <= x
  BY <1>1, LeastMember
<1> USE DEF D
<1>3. PICK m \in T : d = B - m
  OBVIOUS
<1>4. ASSUME NEW y \in T PROVE y <= m
  <2>1. B - m <= B - y
    BY <1>2, <1>3
  <2> QED BY <2>1
<1> QED BY <1>4

\* The greater of two numbers.
LEMMA Greater ==
    ASSUME NEW a \in Int, NEW b \in Int
    PROVE  Max({a, b}) = IF a >= b THEN a ELSE b
<1> DEFINE m == IF a >= b THEN a ELSE b
<1>1. m \in {a, b} /\ \A y \in {a, b} : m >= y
  OBVIOUS
<1>2. \A x \in {a, b} : (\A y \in {a, b} : x >= y) => x = m
  OBVIOUS
<1> HIDE DEF m
<1>3. Max({a, b}) = m
  BY <1>1, <1>2 DEF Max
<1> QED
  BY <1>3 DEF m

\* The smaller of two numbers.
LEMMA Smaller ==
    ASSUME NEW a \in Int, NEW b \in Int
    PROVE  Min({a, b}) = IF a <= b THEN a ELSE b
<1> DEFINE m == IF a <= b THEN a ELSE b
<1>1. m \in {a, b} /\ \A y \in {a, b} : m <= y
  OBVIOUS
<1>2. \A x \in {a, b} : (\A y \in {a, b} : x <= y) => x = m
  OBVIOUS
<1> HIDE DEF m
<1>3. Min({a, b}) = m
  BY <1>1, <1>2 DEF Min
<1> QED
  BY <1>3 DEF m

\* The greatest number of a bounded set is one of them.
LEMMA GreatestIsOne ==
    ASSUME NEW B \in Nat, NEW T \in SUBSET (0..B), T # {}
    PROVE  Max(T) \in 0..B
<1>1. \E m \in T : \A y \in T : y <= m
  BY GreatestBelow
<1>2. \E m \in T : \A y \in T : m >= y
  BY <1>1
<1> QED
  BY <1>2 DEF Max

\* How many the first n are.
LEMMA UpTo ==
    ASSUME NEW n \in Nat
    PROVE  IsFiniteSet(1..n) /\ Cardinality(1..n) = n
<1>1. IsFiniteSet(1..n) /\ Cardinality(1..n) = IF 1 > n THEN 0 ELSE n - 1 + 1
  BY FS_Interval
<1>2. (IF 1 > n THEN 0 ELSE n - 1 + 1) = n
  OBVIOUS
<1> QED BY <1>1, <1>2

\* Sets with a one-to-one correspondence are equally large.
LEMMA SameSize ==
    ASSUME NEW S, NEW T, IsFiniteSet(S), NEW f \in [S -> T],
           \A x, y \in S : f[x] = f[y] => x = y, \A z \in T : \E x \in S : f[x] = z
    PROVE  Cardinality(T) = Cardinality(S) /\ Cardinality(S) \in Nat
<1>1. f \in Bijection(S, T)
  BY Fun_IsBij
<1>2. ExistsBijection(S, T)
  BY <1>1, Fun_ExistsBij
<1> QED BY <1>2, FS_Bijection, FS_CardinalityType

\* What maps a finite set into itself and takes no value twice takes every one.
LEMMA OneToOne ==
    ASSUME NEW S, IsFiniteSet(S), NEW f \in [S -> S], \A x, y \in S : f[x] = f[y] => x = y
    PROVE  \A z \in S : \E x \in S : f[x] = z
<1>1. f \in Injection(S, S)
  BY Fun_IsInj
<1>2. f \in Surjection(S, S)
  BY <1>1, FS_Injection
<1> QED BY <1>2, Fun_SurjectionProperties

\* What a bijection is, for any two sets.
LEMMA EveryBijection ==
  ASSUME NEW D, NEW R, NEW g \in Bijection(D, R)
  PROVE  /\ g \in [D -> R]
         /\ \A n, m \in D : g[n] = g[m] => n = m
         /\ \A i \in R : \E n \in D : g[n] = i
  BY Fun_BijectionProperties

\* Some of a finite set, if no more than k, are among some k of it.
LEMMA AmongSome ==
    ASSUME NEW E, IsFiniteSet(E), NEW A \in SUBSET E, NEW k \in Nat,
           Cardinality(A) <= k, k <= Cardinality(E)
    PROVE  \E s \in kSubset(k, E) : A \subseteq s
<1> DEFINE T == {Cardinality(s) : s \in {r \in SUBSET E : A \subseteq r /\ Cardinality(r) <= k}}
<1>1. \A s \in SUBSET E : IsFiniteSet(s) /\ Cardinality(s) \in Nat
  BY FS_Subset, FS_CardinalityType
<1>2. T \in SUBSET (0..k) /\ T # {}
  <2>1. T \in SUBSET (0..k)
    BY <1>1
  <2>2. Cardinality(A) \in T
    OBVIOUS
  <2> QED
    BY <2>1, <2>2
<1>3. PICK m \in T : \A y \in T : y <= m
  <2> HIDE DEF T
  <2> QED
    BY <1>2, GreatestBelow
<1>4. PICK s \in SUBSET E : A \subseteq s /\ Cardinality(s) <= k /\ Cardinality(s) = m
  BY <1>3
<1>5. ASSUME m # k PROVE FALSE
  <2>1. Cardinality(s) < k /\ IsFiniteSet(s) /\ Cardinality(s) \in Nat
    BY <1>1, <1>4, <1>5
  <2>2. s # E
    <3>1. Cardinality(E) \in Nat
      BY FS_CardinalityType
    <3> QED
      BY <2>1, <3>1
  <2>3. PICK x \in E : x \notin s
    BY <2>2
  <2>4. Cardinality(s \cup {x}) = m + 1
    BY <1>4, <2>1, <2>3, FS_AddElement
  <2>5. m + 1 \in T
    <3>1. s \cup {x} \in SUBSET E /\ A \subseteq s \cup {x} /\ m + 1 <= k
      BY <1>4, <2>1
    <3> QED
      BY <2>4, <3>1
  <2>6. m \in Nat
    BY <1>4, <2>1
  <2> HIDE DEF T
  <2> QED
    BY <1>3, <2>5, <2>6
<1> QED
  BY <1>4, <1>5 DEF kSubset

-----------------------------------------------------------------------------
(* Sums.                                                                   *)

\* The units of the terms of f at S, each of them apart.
Units(f, S) == {p \in S \X Nat : 1 <= p[2] /\ p[2] <= f[p[1]]}

\* One more term.
LEMMA OneTerm ==
    ASSUME NEW f, NEW S, NEW x \in S, f[x] \in Nat,
           IsFiniteSet(Units(f, S \ {x}))
    PROVE  /\ IsFiniteSet(Units(f, S))
           /\ Cardinality(Units(f, S)) = f[x] + Cardinality(Units(f, S \ {x}))
<1> DEFINE A == Units(f, S \ {x})
           B == {x} \X (1..f[x])
<1>1. Units(f, S) = A \cup B
  <2>1. ASSUME NEW p \in Units(f, S) PROVE p \in A \cup B
    <3>1. PICK y \in S, i \in Nat : p = <<y, i>> /\ 1 <= i /\ i <= f[y]
      BY DEF Units
    <3>2. CASE y = x
      BY <3>1, <3>2
    <3>3. CASE y # x
      BY <3>1, <3>3 DEF Units
    <3> QED BY <3>2, <3>3
  <2>2. ASSUME NEW p \in A PROVE p \in Units(f, S)
    BY DEF Units
  <2>3. ASSUME NEW p \in B PROVE p \in Units(f, S)
    <3>1. PICK i \in 1..f[x] : p = <<x, i>>
      OBVIOUS
    <3> QED BY <3>1 DEF Units
  <2> QED BY <2>1, <2>2, <2>3
<1>2. A \cap B = {}
  BY DEF Units
<1>3. IsFiniteSet(B) /\ Cardinality(B) = f[x]
  <2>1. IsFiniteSet(1..f[x]) /\ Cardinality(1..f[x]) = f[x]
    BY FS_Interval
  <2>2. IsFiniteSet({x}) /\ Cardinality({x}) = 1
    BY FS_Singleton
  <2>3. IsFiniteSet(B) /\ Cardinality(B) = Cardinality({x}) * Cardinality(1..f[x])
    BY <2>1, <2>2, FS_Product
  <2> QED BY <2>1, <2>2, <2>3
<1> HIDE DEF A, B
<1>4. IsFiniteSet(A) /\ Cardinality(A) \in Nat
  BY FS_CardinalityType DEF A
<1>5. IsFiniteSet(A \cup B) /\ Cardinality(A \cup B) = Cardinality(A) + Cardinality(B) - Cardinality(A \cap B)
  BY <1>3, <1>4, FS_Union
<1>6. Cardinality(A \cap B) = 0
  BY <1>2, FS_EmptySet
<1> QED BY <1>1, <1>3, <1>4, <1>5, <1>6 DEF A

\* Nothing sums to nothing.
LEMMA NoUnits == ASSUME NEW f PROVE Units(f, {}) = {}
BY DEF Units

\* Finitely many terms have finitely many units: else take a smallest set with more.
LEMMA UnitsFinite ==
    ASSUME NEW f, NEW S, IsFiniteSet(S), \A x \in S : f[x] \in Nat
    PROVE  IsFiniteSet(Units(f, S)) /\ Cardinality(Units(f, S)) \in Nat
<1> DEFINE Bad == {n \in Nat : \E s \in SUBSET S : Cardinality(s) = n /\ ~IsFiniteSet(Units(f, s))}
<1>1. ASSUME Bad # {} PROVE FALSE
  <2>1. PICK n \in Bad : \A m \in Bad : n <= m
    <3>1. Bad \in SUBSET Nat
      OBVIOUS
    <3> HIDE DEF Bad
    <3> QED BY <1>1, <3>1, LeastMember
  <2>2. PICK s \in SUBSET S : Cardinality(s) = n /\ ~IsFiniteSet(Units(f, s))
    BY <2>1
  <2>3. s # {}
    BY <2>2, NoUnits, FS_EmptySet
  <2>4. PICK x \in s : TRUE
    BY <2>3
  <2>5. IsFiniteSet(s)
    BY <2>2, FS_Subset
  <2>6. Cardinality(s \ {x}) = n - 1 /\ n \in Nat /\ Cardinality(s \ {x}) \in Nat
    BY <2>1, <2>2, <2>4, <2>5, FS_RemoveElement, FS_CardinalityType
  <2>7. n - 1 \notin Bad
    <3>1. n \in Nat /\ n - 1 < n
      BY <2>6
    <3> HIDE DEF Bad
    <3> QED BY <2>1, <2>6, <3>1
  <2>8. IsFiniteSet(Units(f, s \ {x}))
    BY <2>2, <2>6, <2>7
  <2> QED BY <2>2, <2>4, <2>8, OneTerm
<1>2. IsFiniteSet(Units(f, S))
  BY <1>1, FS_CardinalityType
<1> QED BY <1>2, FS_CardinalityType

\* A sum of naturals is how many units its terms have together.
LEMMA SumIsUnits ==
    ASSUME NEW f, IsFiniteSet(DOMAIN f), \A x \in DOMAIN f : f[x] \in Nat
    PROVE  SumFunction(f) = Cardinality(Units(f, DOMAIN f))
<1> DEFINE D == DOMAIN f
           One(s) == CHOOSE y \in s : TRUE
           Sums(g) == g = [s \in SUBSET D |->
                              IF s = {} THEN 0 ELSE f[One(s)] + g[s \ {One(s)}]]
           iter == CHOOSE g : Sums(g)
           count == [s \in SUBSET D |-> Cardinality(Units(f, s))]
<1>1. SumFunction(f) = iter[D]
  BY Zenon DEF SumFunction, SumFunctionOnSet, FoldFunctionOnSet, MapThenFoldSet
<1>2. \A s \in SUBSET D : s # {} => One(s) \in s /\ s \ {One(s)} \in SUBSET D
  OBVIOUS
<1>3. \A s \in SUBSET D : IsFiniteSet(s) /\ IsFiniteSet(Units(f, s)) /\ Cardinality(s) \in Nat
  BY FS_Subset, FS_CardinalityType, UnitsFinite
<1> HIDE DEF One
<1>4. \A s \in SUBSET D :
          count[s] = IF s = {} THEN 0 ELSE f[One(s)] + count[s \ {One(s)}]
  <2> SUFFICES ASSUME NEW s \in SUBSET D
               PROVE  count[s] = IF s = {} THEN 0 ELSE f[One(s)] + count[s \ {One(s)}]
    OBVIOUS
  <2>1. CASE s = {}
    BY <2>1, NoUnits, FS_EmptySet
  <2>2. CASE s # {}
    <3>1. One(s) \in s /\ s \ {One(s)} \in SUBSET D
      BY <1>2, <2>2
    <3>2. Cardinality(Units(f, s)) = f[One(s)] + Cardinality(Units(f, s \ {One(s)}))
      BY <1>3, <3>1, OneTerm
    <3> QED BY <2>2, <3>1, <3>2
  <2> QED BY <2>1, <2>2
<1>5. Sums(count)
  <2>1. count = [s \in SUBSET D |-> count[s]]
    OBVIOUS
  <2> HIDE DEF count
  <2> QED BY <1>4, <2>1, Zenon
<1>6. Sums(iter)
  <2> HIDE DEF count
  <2> QED BY <1>5, Zenon
<1>7. \A s \in SUBSET D :
          iter[s] = IF s = {} THEN 0 ELSE f[One(s)] + iter[s \ {One(s)}]
  <2> HIDE DEF iter
  <2> QED BY <1>6, Zenon
<1> HIDE DEF iter, count
<1> DEFINE Bad == {n \in Nat : \E s \in SUBSET D : Cardinality(s) = n /\ iter[s] # count[s]}
<1>8. ASSUME Bad # {} PROVE FALSE
  <2>1. PICK n \in Bad : \A m \in Bad : n <= m
    <3>1. Bad \in SUBSET Nat
      OBVIOUS
    <3> HIDE DEF Bad
    <3> QED BY <1>8, <3>1, LeastMember
  <2>2. PICK s \in SUBSET D : Cardinality(s) = n /\ iter[s] # count[s]
    BY <2>1
  <2>3. s # {}
    BY <1>4, <1>7, <2>2
  <2> DEFINE x == One(s)
             r == s \ {x}
  <2>4. x \in s /\ r \in SUBSET D
    BY <1>2, <2>2, <2>3
  <2>5. iter[s] = f[x] + iter[r] /\ count[s] = f[x] + count[r]
    BY <1>4, <1>7, <2>2, <2>3
  <2>6. Cardinality(r) = n - 1 /\ n \in Nat /\ Cardinality(r) \in Nat
    BY <1>3, <2>2, <2>4, FS_RemoveElement
  <2>7. n - 1 \notin Bad
    <3>1. n \in Nat /\ n - 1 < n
      BY <2>6
    <3> HIDE DEF Bad
    <3> QED BY <2>1, <2>6, <3>1
  <2> HIDE DEF r
  <2>8. iter[r] = count[r]
    BY <2>4, <2>6, <2>7
  <2> QED BY <2>2, <2>5, <2>8
<1>9. iter[D] = count[D]
  BY <1>3, <1>8
<1> QED BY <1>1, <1>9 DEF count

\* A term is replaced.
LEMMA SumChange ==
    ASSUME NEW f, IsFiniteSet(DOMAIN f), \A x \in DOMAIN f : f[x] \in Nat,
           NEW y \in DOMAIN f, NEW v \in Nat
    PROVE  /\ SumFunction([f EXCEPT ![y] = v]) = SumFunction(f) - f[y] + v
           /\ SumFunction(f) \in Nat
<1> DEFINE D == DOMAIN f
           g == [f EXCEPT ![y] = v]
<1>1. DOMAIN g = D /\ g[y] = v /\ \A x \in D : x # y => g[x] = f[x]
  OBVIOUS
<1>2. \A x \in D : g[x] \in Nat
  BY <1>1
<1> HIDE DEF g
<1>3. Units(g, D \ {y}) = Units(f, D \ {y})
  BY <1>1 DEF Units
<1>4. /\ SumFunction(f) = Cardinality(Units(f, D)) /\ SumFunction(g) = Cardinality(Units(g, D))
      /\ SumFunction(f) \in Nat
  BY <1>1, <1>2, SumIsUnits, UnitsFinite
<1>5. IsFiniteSet(Units(f, D \ {y})) /\ Cardinality(Units(f, D \ {y})) \in Nat
  <2>1. IsFiniteSet(D \ {y})
    BY FS_Subset
  <2> QED
    BY <2>1, UnitsFinite
<1>6. Cardinality(Units(f, D)) = f[y] + Cardinality(Units(f, D \ {y}))
  BY <1>5, OneTerm
<1>7. Cardinality(Units(g, D)) = v + Cardinality(Units(f, D \ {y}))
  <2>1. Cardinality(Units(g, D)) = g[y] + Cardinality(Units(g, D \ {y}))
    BY <1>1, <1>3, <1>5, OneTerm
  <2> QED
    BY <1>1, <1>3, <2>1
<1> QED
  BY <1>4, <1>5, <1>6, <1>7 DEF g

\* All terms are the same.
LEMMA SumSame ==
    ASSUME NEW f, NEW n \in Nat, DOMAIN f = 1..n, NEW c \in Nat, \A i \in 1..n : f[i] = c
    PROVE  SumFunction(f) = n * c
<1>1. IsFiniteSet(1..n) /\ Cardinality(1..n) = n /\ IsFiniteSet(1..c) /\ Cardinality(1..c) = c
  BY UpTo
<1>2. Units(f, 1..n) = (1..n) \X (1..c)
  BY DEF Units
<1>3. Cardinality((1..n) \X (1..c)) = Cardinality(1..n) * Cardinality(1..c)
  BY <1>1, FS_Product
<1>4. SumFunction(f) = Cardinality(Units(f, 1..n))
  BY <1>1, SumIsUnits
<1> QED
  BY <1>1, <1>2, <1>3, <1>4

\* Greater terms have no smaller a sum.
LEMMA SumGrows ==
    ASSUME NEW f, NEW g, IsFiniteSet(DOMAIN f), DOMAIN g = DOMAIN f,
           \A x \in DOMAIN f : f[x] \in Nat /\ g[x] \in Nat /\ f[x] <= g[x]
    PROVE  /\ SumFunction(f) \in Nat /\ SumFunction(g) \in Nat
           /\ SumFunction(f) <= SumFunction(g)
<1> DEFINE D == DOMAIN f
<1>1. /\ SumFunction(f) = Cardinality(Units(f, D)) /\ SumFunction(g) = Cardinality(Units(g, D))
      /\ IsFiniteSet(Units(g, D)) /\ Cardinality(Units(f, D)) \in Nat
      /\ Cardinality(Units(g, D)) \in Nat
  BY SumIsUnits, UnitsFinite
<1>2. Units(f, D) \subseteq Units(g, D)
  <2>1. ASSUME NEW p \in Units(f, D) PROVE p \in Units(g, D)
    <3>1. PICK x \in D, i \in Nat : p = <<x, i>> /\ 1 <= i /\ i <= f[x]
      BY DEF Units
    <3>2. i <= g[x]
      BY <3>1
    <3> QED
      BY <3>1, <3>2 DEF Units
  <2> QED
    BY <2>1
<1>3. Cardinality(Units(f, D)) <= Cardinality(Units(g, D))
  BY <1>1, <1>2, FS_Subset
<1> QED
  BY <1>1, <1>3

\* Sums add up.
LEMMA SumPlus ==
    ASSUME NEW f, NEW g, NEW h, IsFiniteSet(DOMAIN f), DOMAIN g = DOMAIN f, DOMAIN h = DOMAIN f,
           \A x \in DOMAIN f : f[x] \in Nat /\ g[x] \in Nat /\ h[x] = f[x] + g[x]
    PROVE  /\ SumFunction(f) \in Nat /\ SumFunction(g) \in Nat
           /\ SumFunction(h) = SumFunction(f) + SumFunction(g)
<1> DEFINE D == DOMAIN f
           A == Units(f, D)
           B == {p \in D \X Nat : f[p[1]] < p[2] /\ p[2] <= h[p[1]]}
           up == [p \in Units(g, D) |-> <<p[1], f[p[1]] + p[2]>>]
<1>1. \A x \in D : h[x] \in Nat
  OBVIOUS
<1>2. /\ SumFunction(f) = Cardinality(A) /\ SumFunction(g) = Cardinality(Units(g, D))
      /\ SumFunction(h) = Cardinality(Units(h, D))
      /\ IsFiniteSet(A) /\ IsFiniteSet(Units(g, D)) /\ IsFiniteSet(Units(h, D))
      /\ Cardinality(A) \in Nat /\ Cardinality(Units(g, D)) \in Nat
  BY <1>1, SumIsUnits, UnitsFinite
<1>3. Units(h, D) = A \cup B /\ A \cap B = {}
  <2>1. ASSUME NEW x \in D, NEW i \in Nat
        PROVE  /\ <<x, i>> \in Units(h, D) <=> (<<x, i>> \in A \/ <<x, i>> \in B)
               /\ ~(<<x, i>> \in A /\ <<x, i>> \in B)
    <3>1. f[x] \in Nat /\ g[x] \in Nat /\ h[x] = f[x] + g[x]
      OBVIOUS
    <3> QED
      BY <3>1 DEF Units
  <2>2. Units(h, D) \subseteq D \X Nat /\ A \subseteq D \X Nat /\ B \subseteq D \X Nat
    BY DEF Units
  <2> HIDE DEF A, B, D
  <2>3. \A p \in D \X Nat : \E x \in D, i \in Nat : p = <<x, i>>
    OBVIOUS
  <2> QED
    BY <2>1, <2>2, <2>3
<1>4. up \in [Units(g, D) -> B]
  <2>1. ASSUME NEW p \in Units(g, D) PROVE up[p] \in B
    <3>1. PICK x \in D, i \in Nat : p = <<x, i>> /\ 1 <= i /\ i <= g[x]
      BY DEF Units
    <3>2. f[x] \in Nat /\ f[x] + i \in Nat /\ f[x] < f[x] + i /\ f[x] + i <= h[x]
      BY <3>1
    <3>3. up[p] = <<x, f[x] + i>>
      BY <3>1
    <3> QED
      BY <3>2, <3>3
  <2> QED
    BY <2>1
<1>5. \A p, q \in Units(g, D) : up[p] = up[q] => p = q
  <2> SUFFICES ASSUME NEW p \in Units(g, D), NEW q \in Units(g, D), up[p] = up[q] PROVE p = q
    OBVIOUS
  <2>1. PICK x \in D, i \in Nat : p = <<x, i>>
    BY DEF Units
  <2>2. PICK y \in D, j \in Nat : q = <<y, j>>
    BY DEF Units
  <2>3. x = y /\ f[x] + i = f[y] + j /\ f[x] \in Nat
    BY <2>1, <2>2
  <2>4. i = j
    BY <2>3
  <2> QED
    BY <2>1, <2>2, <2>3, <2>4
<1>6. \A z \in B : \E p \in Units(g, D) : up[p] = z
  <2> SUFFICES ASSUME NEW z \in B PROVE \E p \in Units(g, D) : up[p] = z
    OBVIOUS
  <2>1. PICK x \in D, i \in Nat : z = <<x, i>> /\ f[x] < i /\ i <= h[x]
    OBVIOUS
  <2>2. i - f[x] \in Nat /\ 1 <= i - f[x] /\ i - f[x] <= g[x] /\ f[x] + (i - f[x]) = i
    BY <2>1
  <2>3. <<x, i - f[x]>> \in Units(g, D)
    BY <2>2 DEF Units
  <2>4. up[<<x, i - f[x]>>] = <<x, i>>
    BY <2>2, <2>3
  <2> QED
    BY <2>1, <2>3, <2>4
<1> HIDE DEF A, B, up, D
<1>7. Cardinality(B) = Cardinality(Units(g, D)) /\ IsFiniteSet(B)
  <2>1. Cardinality(B) = Cardinality(Units(g, D))
    BY <1>2, <1>4, <1>5, <1>6, SameSize
  <2>2. B \subseteq Units(h, D)
    BY <1>3
  <2> QED
    BY <1>2, <2>1, <2>2, FS_Subset
<1>8. Cardinality(A \cup B) = Cardinality(A) + Cardinality(B) - Cardinality(A \cap B)
  BY <1>2, <1>7, FS_Union
<1>9. Cardinality(A \cap B) = 0
  BY <1>3, FS_EmptySet
<1> QED
  BY <1>2, <1>3, <1>7, <1>8, <1>9

\* The sum of multiples is the multiple of the sum.
LEMMA SumTimes ==
    ASSUME NEW f, IsFiniteSet(DOMAIN f), \A x \in DOMAIN f : f[x] \in Nat, NEW k \in Nat
    PROVE  SumFunction([x \in DOMAIN f |-> k * f[x]]) = k * SumFunction(f)
<1> DEFINE D == DOMAIN f
           F(m) == [x \in D |-> m * f[x]]
           Wrong == {m \in Nat : SumFunction(F(m)) # m * SumFunction(f)}
<1>1. \A m \in Nat : DOMAIN F(m) = D /\ \A x \in D : F(m)[x] \in Nat
  OBVIOUS
<1>2. SumFunction(f) \in Nat
  BY SumIsUnits, UnitsFinite
<1> SUFFICES ASSUME Wrong # {} PROVE FALSE
  OBVIOUS
<1>3. PICK m \in Wrong : \A y \in Wrong : m <= y
  <2>1. Wrong \in SUBSET Nat
    OBVIOUS
  <2> HIDE DEF Wrong
  <2> QED
    BY <2>1, LeastMember
<1>4. m \in Nat
  BY <1>3
<1>5. CASE m = 0
  <2>1. Units(F(0), D) = {}
    BY <1>1 DEF Units
  <2>2. Cardinality(Units(F(0), D)) = 0
    BY <2>1, FS_EmptySet
  <2>3. SumFunction(F(0)) = Cardinality(Units(F(0), D))
    <3>1. 0 \in Nat /\ IsFiniteSet(DOMAIN F(0))
      BY <1>1
    <3> HIDE DEF F
    <3> QED
      BY <1>1, <3>1, SumIsUnits
  <2>4. SumFunction(F(0)) = 0 /\ 0 * SumFunction(f) = 0
    BY <1>2, <2>2, <2>3
  <2> HIDE DEF F
  <2> QED
    BY <1>3, <1>5, <2>4
<1>6. CASE m # 0
  <2>1. m - 1 \in Nat
    BY <1>4, <1>6
  <2>2. m - 1 \notin Wrong
    <3>1. ~(m <= m - 1)
      BY <1>4
    <3> HIDE DEF Wrong
    <3> QED
      BY <1>3, <3>1
  <2>3. SumFunction(F(m - 1)) = (m - 1) * SumFunction(f)
    BY <2>1, <2>2
  <2>4. \A x \in D : F(m)[x] = F(m - 1)[x] + f[x]
    BY <1>4
  <2>5. SumFunction(F(m)) = SumFunction(F(m - 1)) + SumFunction(f)
    <3>1. DOMAIN F(m) = D /\ DOMAIN F(m - 1) = D /\ \A x \in D : F(m - 1)[x] \in Nat
      BY <1>1, <1>4, <2>1
    <3> HIDE DEF F
    <3> QED
      BY <2>4, <3>1, SumPlus
  <2> DEFINE u == SumFunction(f)
  <2>6. (m - 1) * u + u = m * u
    <3>1. u \in Int /\ m \in Int
      BY <1>2, <1>4
    <3> HIDE DEF u
    <3> QED
      BY <3>1
  <2> HIDE DEF F
  <2> QED
    BY <1>3, <2>3, <2>5, <2>6
<1> QED
  BY <1>5, <1>6
=============================================================================
