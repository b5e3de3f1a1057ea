--------------------------- MODULE AnalysisProofs ---------------------------
(* Theorems about Analysis, for any results, tools and columns.  What is    *)
(* needed of order statistics comes first, then what a report's grid holds  *)
(* of each system, and then the properties of the overview and the gate.    *)
EXTENDS Analysis, Counting, SequenceTheorems

-----------------------------------------------------------------------------
(* Order statistics.                                                       *)

\* A finite family of naturals.
Family(s) == IsFiniteSet(DOMAIN s) /\ \A i \in DOMAIN s : s[i] \in Nat

\* A finite family has a bound.
LEMMA Bounded ==
    ASSUME NEW s, Family(s)
    PROVE  \E B \in Nat : \A i \in DOMAIN s : s[i] <= B
<1> DEFINE P(D) == D \subseteq DOMAIN s => \E B \in Nat : \A i \in D : s[i] <= B
<1> DEFINE C == {n \in Nat : \E D \in SUBSET DOMAIN s : Cardinality(D) = n /\ ~P(D)}
<1>1. ASSUME C # {} PROVE FALSE
  <2>1. PICK n \in C : \A m \in C : n <= m
    <3>1. C \in SUBSET Nat
      OBVIOUS
    <3> HIDE DEF C
    <3> QED BY <1>1, <3>1, LeastMember
  <2>2. PICK D \in SUBSET DOMAIN s : Cardinality(D) = n /\ ~P(D)
    BY <2>1
  <2>3. IsFiniteSet(D)
    BY FS_Subset DEF Family
  <2>4. PICK i \in D : TRUE
    BY <2>2
  <2>5. Cardinality(D \ {i}) = n - 1 /\ n - 1 \in Nat
    <3>1. n \in Nat /\ n # 0
      BY <2>2, <2>3, <2>4, FS_EmptySet
    <3>2. Cardinality(D \ {i}) = Cardinality(D) - 1
      <4> HIDE DEF C, P
      <4> QED BY <2>3, <2>4, FS_RemoveElement
    <3> QED BY <2>2, <3>1, <3>2
  <2>6. P(D \ {i})
    <3>1. n - 1 \notin C
      BY <2>1, <2>5
    <3> HIDE DEF P
    <3> QED BY <2>5, <3>1
  <2>7. PICK B \in Nat : \A j \in D \ {i} : s[j] <= B
    BY <2>6
  <2>8. s[i] \in Nat /\ \A j \in D : s[j] \in Nat
    BY <2>4 DEF Family
  <2>9. \A j \in D : s[j] <= B + s[i]
    BY <2>7, <2>8
  <2> QED BY <2>2, <2>7, <2>8, <2>9
<1>2. P(DOMAIN s)
  <2>1. Cardinality(DOMAIN s) \in Nat
    BY FS_CardinalityType DEF Family
  <2> HIDE DEF P
  <2> QED BY <1>1, <2>1
<1> QED BY <1>2

\* A larger set of entries has as many members at least.
LEMMA CountsGrow ==
    ASSUME NEW s, NEW t, Family(s), Family(t), NEW A, NEW B, A \subseteq B,
           B \subseteq DOMAIN s
    PROVE  Cardinality(A) \in Nat /\ Cardinality(B) \in Nat /\ Cardinality(A) <= Cardinality(B)
BY FS_Subset, FS_CardinalityType DEF Family

\* The k-th smallest entry is one, and its place is the k-th.
LEMMA KthIsPlaced ==
    ASSUME NEW s, Family(s), NEW k \in 1..Size(s)
    PROVE  /\ \E i \in DOMAIN s : Kth(s, k) = s[i]
           /\ Kth(s, k) \in Nat
           /\ Cardinality(LessThan(s, Kth(s, k))) < k
           /\ k <= Cardinality(AtMost(s, Kth(s, k)))
<1> DEFINE R == {s[i] : i \in DOMAIN s}
           V == {x \in R : k <= Cardinality(AtMost(s, x))}
<1>1. R \in SUBSET Nat
  BY DEF Family
<1>2. V # {}
  <2>1. PICK B \in Nat : \A i \in DOMAIN s : s[i] <= B
    BY Bounded
  <2>2. R # {} /\ R \in SUBSET (0..B)
    <3>1. DOMAIN s # {}
      BY FS_EmptySet DEF Size
    <3> QED BY <3>1, <2>1 DEF Family
  <2>3. PICK x \in R : \A y \in R : y <= x
    <3> HIDE DEF R
    <3> QED BY <2>1, <2>2, GreatestBelow
  <2>4. AtMost(s, x) = DOMAIN s
    BY <2>3 DEF AtMost
  <2> QED BY <2>3, <2>4, FS_CardinalityType DEF Size, Family
<1>3. PICK x \in V : \A y \in V : x <= y
  <2>1. V \in SUBSET Nat
    BY <1>1
  <2> HIDE DEF V
  <2> QED BY <1>2, <2>1, LeastMember
<1>4. Cardinality(LessThan(s, x)) < k
  <2> DEFINE L == LessThan(s, x)
  <2>1. SUFFICES ASSUME k <= Cardinality(L) PROVE FALSE
    BY <1>1, FS_Subset, FS_CardinalityType DEF LessThan, Family, Size
  <2>2. L # {}
    BY <2>1, FS_EmptySet
  <2>3. {s[i] : i \in L} \in SUBSET (0..x) /\ {s[i] : i \in L} # {} /\ x \in Nat
    BY <1>1, <2>2 DEF LessThan, Family
  <2>4. PICK y \in {s[i] : i \in L} : \A z \in {s[i] : i \in L} : z <= y
    BY <2>3, GreatestBelow
  <2>5. y \in R /\ y < x
    BY <2>4 DEF LessThan
  <2>6. L \subseteq AtMost(s, y)
    BY <2>4 DEF LessThan, AtMost
  <2>7. Cardinality(L) <= Cardinality(AtMost(s, y)) /\ Cardinality(L) \in Nat
        /\ Cardinality(AtMost(s, y)) \in Nat
    BY <2>6, CountsGrow DEF AtMost
  <2>8. y \in V
    BY <2>1, <2>5, <2>7
  <2> QED BY <1>1, <1>3, <2>5, <2>8
<1>5. Cardinality(LessThan(s, Kth(s, k))) < k /\ k <= Cardinality(AtMost(s, Kth(s, k))) /\ Kth(s, k) \in R
  BY <1>3, <1>4 DEF Kth
<1> QED BY <1>1, <1>5

\* Families of which the first has at least as many entries up to each bound.
LEMMA KthCompared ==
    ASSUME NEW s, NEW t, Family(s), Family(t), NEW j \in 1..Size(s), NEW k \in 1..Size(t), j <= k,
           \A x \in Nat : Cardinality(AtMost(t, x)) <= Cardinality(AtMost(s, x))
    PROVE  Kth(s, j) <= Kth(t, k)
<1> DEFINE a == Kth(s, j)
           b == Kth(t, k)
<1>1. /\ a \in Nat /\ b \in Nat
      /\ Cardinality(LessThan(s, a)) < j /\ k <= Cardinality(AtMost(t, b))
  BY KthIsPlaced
<1> HIDE DEF a, b
<1>2. SUFFICES ASSUME b < a PROVE FALSE
  BY <1>1 DEF a, b
<1>3. AtMost(s, b) \subseteq LessThan(s, a) /\ LessThan(s, a) \subseteq DOMAIN s
  BY <1>1, <1>2 DEF AtMost, LessThan, Family
<1>4. /\ Cardinality(AtMost(s, b)) <= Cardinality(LessThan(s, a))
      /\ Cardinality(AtMost(s, b)) \in Nat /\ Cardinality(LessThan(s, a)) \in Nat
  BY <1>3, CountsGrow
<1>5. Cardinality(AtMost(t, b)) \in Nat
  BY FS_Subset, FS_CardinalityType DEF AtMost, Family
<1>6. j \in Nat /\ k \in Nat /\ Cardinality(AtMost(t, b)) <= Cardinality(AtMost(s, b))
  BY <1>1
<1> QED BY <1>1, <1>4, <1>5, <1>6

\* Later entries are not smaller.
LEMMA KthGrows ==
    ASSUME NEW s, Family(s), NEW j \in 1..Size(s), NEW k \in 1..Size(s), j <= k
    PROVE  Kth(s, j) <= Kth(s, k)
<1>1. \A x \in Nat : Cardinality(AtMost(s, x)) \in Nat
  BY FS_Subset, FS_CardinalityType DEF AtMost, Family
<1> QED BY <1>1, KthCompared

\* Nor do order statistics fall when no entry falls.
LEMMA KthFollows ==
    ASSUME NEW s, NEW t, Family(s), Family(t), DOMAIN s = DOMAIN t,
           \A i \in DOMAIN s : s[i] <= t[i], NEW k \in 1..Size(s)
    PROVE  Kth(s, k) <= Kth(t, k)
<1>1. ASSUME NEW x \in Nat PROVE Cardinality(AtMost(t, x)) <= Cardinality(AtMost(s, x))
  <2>1. AtMost(t, x) \subseteq AtMost(s, x) /\ AtMost(s, x) \subseteq DOMAIN s
    BY DEF AtMost, Family
  <2> QED BY <2>1, CountsGrow
<1>2. Size(t) = Size(s)
  BY DEF Size
<1> QED BY <1>1, <1>2, KthCompared

-----------------------------------------------------------------------------
(* Cases.                                                                  *)

\* The wall times of a case are positive.
LEMMA WallsAreFamily ==
    ASSUME NEW reps \in Seq(Repeats)
    PROVE  /\ Family(Walls(reps)) /\ DOMAIN Walls(reps) = Good(reps)
           /\ Size(Walls(reps)) \in Nat
           /\ (Size(Walls(reps)) = 0 <=> Good(reps) = {})
           /\ \A i \in Good(reps) : Walls(reps)[i] = reps[i].wall /\ Walls(reps)[i] > 0
<1>1. Good(reps) \subseteq 1..Len(reps) /\ Len(reps) \in Nat
  BY DEF Good
<1>2. IsFiniteSet(Good(reps))
  <2>1. IsFiniteSet(1..Len(reps))
    BY <1>1, FS_Interval
  <2> QED BY <1>1, <2>1, FS_Subset
<1>3. \A i \in Good(reps) : reps[i].wall \in Nat /\ reps[i].wall > 0
  <2>1. \A i \in Good(reps) : reps[i] \in Repeats
    BY <1>1
  <2>2. \A i \in Good(reps) : reps[i].ok
    BY DEF Good
  <2> QED BY <2>1, <2>2 DEF Repeats
<1> QED BY <1>2, <1>3, FS_CardinalityType, FS_EmptySet DEF Family, Walls, Size

\* What a summary says of its case.
LEMMA SummaryFacts ==
    ASSUME NEW reps \in Seq(Repeats)
    PROVE  LET s == Summary(reps) IN
           /\ s.n = Size(Walls(reps)) /\ s.n \in Nat
           /\ s.median2 \in Nat /\ s.shortest \in Nat /\ s.longest \in Nat
           /\ (Measured(s) <=> Good(reps) # {})
           /\ Measured(s) => (
                 /\ s.shortest = Shortest(Walls(reps)) /\ s.longest = Longest(Walls(reps))
                 /\ s.median2 = TwiceMedian(Walls(reps))
                 /\ s.shortest > 0 /\ 2 * s.shortest <= s.median2 /\ s.median2 <= 2 * s.longest )
<1> DEFINE s == Summary(reps)
           walls == Walls(reps)
           N == Size(walls)
<1>1. s.n = N /\ N \in Nat
  BY WallsAreFamily DEF Summary
<1>2. Measured(s) <=> Good(reps) # {}
  BY <1>1, WallsAreFamily DEF Measured
<1>3. CASE Good(reps) = {}
  <2>1. s.median2 = 0 /\ s.shortest = 0 /\ s.longest = 0
    BY <1>3 DEF Summary
  <2> QED BY <1>1, <1>2, <1>3, <2>1
<1>4. CASE Good(reps) # {}
  <2>1. s.shortest = Shortest(walls) /\ s.longest = Longest(walls) /\ s.median2 = TwiceMedian(walls)
    BY <1>4 DEF Summary
  <2>2. Family(walls) /\ N # 0
    BY <1>4, WallsAreFamily
  <2> HIDE DEF s
  <2>3. PICK l \in Nat, u \in Nat : l = (N + 1) \div 2 /\ u = N \div 2 + 1 /\ 1 <= l /\ l <= N /\ 1 <= u /\ u <= N
    BY <1>1, <2>2
  <2>4. /\ 1 \in 1..N /\ l \in 1..N /\ u \in 1..N /\ N \in 1..N
    BY <1>1, <2>2, <2>3
  <2>5. /\ Kth(walls, 1) \in Nat /\ Kth(walls, l) \in Nat /\ Kth(walls, u) \in Nat
        /\ Kth(walls, N) \in Nat
    BY <2>2, <2>4, KthIsPlaced
  <2>6. /\ Kth(walls, 1) <= Kth(walls, l) /\ Kth(walls, 1) <= Kth(walls, u)
        /\ Kth(walls, l) <= Kth(walls, N) /\ Kth(walls, u) <= Kth(walls, N)
    BY <2>2, <2>3, <2>4, KthGrows
  <2>7. Kth(walls, 1) > 0
    <3>1. PICK i \in DOMAIN walls : Kth(walls, 1) = walls[i]
      BY <2>2, <2>4, KthIsPlaced
    <3> QED BY <3>1, WallsAreFamily
  <2>8. s.median2 = Kth(walls, l) + Kth(walls, u) /\ s.shortest = Kth(walls, 1) /\ s.longest = Kth(walls, N)
    BY <2>1, <2>3 DEF TwiceMedian, Shortest, Longest
  <2> QED BY <1>1, <1>2, <1>4, <2>1, <2>5, <2>6, <2>7, <2>8 DEF s
<1> QED BY <1>3, <1>4

\* What verifiedAll says.
LEMMA VerifiedAll ==
    ASSUME NEW reps \in Seq(Repeats)
    PROVE  Summary(reps).verifiedAll <=>
               (reps # <<>> /\ \A i \in DOMAIN reps : reps[i].ok /\ reps[i].verified = "yes")
BY DEF Summary

-----------------------------------------------------------------------------
(* The gate.                                                               *)

\* A case that is nowhere better than one that regressed has regressed.
LEMMA WorseRegresses ==
    ASSUME NEW p \in Seq(Repeats), NEW q \in Seq(Repeats), NEW r \in Seq(Repeats),
           Len(q) = Len(r),
           \A i \in DOMAIN r : r[i].wall >= q[i].wall,
           \A i \in DOMAIN r : r[i].ok => q[i].ok,
           \A i \in DOMAIN r : r[i].verified = "yes" => q[i].verified = "yes",
           Regressed(Summary(p), Summary(q))
    PROVE  Regressed(Summary(p), Summary(r))
<1> DEFINE a == Summary(p)
           b == Summary(q)
           c == Summary(r)
<1>1. Measured(a)
  BY DEF Regressed
<1>2. SUFFICES ASSUME Measured(c), c.verifiedAll PROVE Verdict(a, c) = "slower"
  BY <1>1 DEF Regressed
<1>3. \A i \in DOMAIN r : r[i].ok /\ r[i].verified = "yes"
  BY <1>2, VerifiedAll, Zenon
<1>4. DOMAIN q = DOMAIN r /\ r # <<>> /\ q # <<>>
  BY <1>2, VerifiedAll
<1>5. \A i \in DOMAIN q : q[i].ok /\ q[i].verified = "yes"
  BY <1>3, <1>4, Zenon
<1>6. b.verifiedAll /\ Good(q) = DOMAIN q /\ Good(r) = DOMAIN q
  BY <1>3, <1>4, <1>5, VerifiedAll DEF Good
<1>7. Measured(b)
  <2>1. DOMAIN q # {}
    BY <1>4
  <2> QED BY <2>1, <1>6, SummaryFacts
<1>8. Verdict(a, b) = "slower"
  BY <1>6, <1>7 DEF Regressed
<1> DEFINE x == Walls(q)
           y == Walls(r)
<1>9. /\ Family(x) /\ Family(y) /\ DOMAIN x = DOMAIN y /\ Size(x) = Size(y) /\ Size(x) \in Nat
      /\ Size(x) # 0 /\ \A i \in DOMAIN x : x[i] <= y[i]
  <2>1. Good(q) # {}
    BY <1>7, SummaryFacts
  <2>2. \A i \in Good(q) : x[i] <= y[i]
    <3>1. \A i \in Good(q) : x[i] = q[i].wall /\ y[i] = r[i].wall /\ x[i] \in Nat /\ y[i] \in Nat
      BY <1>6, WallsAreFamily DEF Family
    <3> QED BY <1>4, <1>6, <3>1
  <2> QED BY <1>6, <2>1, <2>2, WallsAreFamily DEF Size
<1> HIDE DEF a, b, c, x, y
<1>10. /\ b.n = c.n
       /\ b.shortest <= c.shortest /\ b.median2 <= c.median2
  <2> DEFINE N == Size(x)
  <2>1. PICK l \in 1..N, u \in 1..N : l = (N + 1) \div 2 /\ u = N \div 2 + 1
    <3>1. (N + 1) \div 2 \in 1..N /\ N \div 2 + 1 \in 1..N
      BY <1>9
    <3> QED BY <3>1
  <2>2. 1 \in 1..N
    BY <1>9
  <2>3. /\ Kth(x, 1) <= Kth(y, 1) /\ Kth(x, l) <= Kth(y, l) /\ Kth(x, u) <= Kth(y, u)
    BY <1>9, <2>1, <2>2, KthFollows
  <2>4. /\ Kth(x, l) \in Nat /\ Kth(y, l) \in Nat /\ Kth(x, u) \in Nat /\ Kth(y, u) \in Nat
    BY <1>9, <2>1, KthIsPlaced
  <2>5. /\ b.n = Size(x) /\ c.n = Size(y)
        /\ b.shortest = Kth(x, 1) /\ c.shortest = Kth(y, 1)
        /\ b.median2 = TwiceMedian(x) /\ c.median2 = TwiceMedian(y)
    BY <1>2, <1>7, SummaryFacts DEF b, c, x, y, Shortest
  <2>6. TwiceMedian(x) = Kth(x, l) + Kth(x, u) /\ TwiceMedian(y) = Kth(y, l) + Kth(y, u)
    BY <1>9, <2>1 DEF TwiceMedian
  <2> QED BY <1>9, <2>3, <2>4, <2>5, <2>6
<1>11. /\ a.n \in Nat /\ a.shortest \in Nat /\ a.longest \in Nat /\ a.median2 \in Nat
       /\ 2 * a.shortest <= a.median2 /\ a.median2 <= 2 * a.longest
       /\ b.n \in Nat /\ b.shortest \in Nat /\ b.longest \in Nat /\ b.median2 \in Nat
       /\ 2 * b.shortest <= b.median2 /\ b.median2 <= 2 * b.longest
       /\ c.n \in Nat /\ c.shortest \in Nat /\ c.longest \in Nat /\ c.median2 \in Nat
       /\ 2 * c.shortest <= c.median2 /\ c.median2 <= 2 * c.longest
  BY <1>1, <1>2, <1>7, SummaryFacts DEF a, b, c
<1>12. /\ ~ (/\ 20 * b.median2 < 21 * a.median2
              /\ 19 * a.median2 < 20 * b.median2)
       /\ b.median2 > a.median2
       /\ a.n > 1 /\ b.n > 1 => a.shortest > b.longest \/ a.longest < b.shortest
  BY <1>8, <1>11 DEF Verdict, NoiseParts, Overlap
<1>13. PICK a1 \in Nat, a2 \in Nat, a3 \in Nat, b1 \in Nat, b2 \in Nat, b3 \in Nat, c1 \in Nat, c2 \in Nat :
          /\ a1 = a.shortest /\ a2 = a.median2 /\ a3 = a.longest
          /\ b1 = b.shortest /\ b2 = b.median2 /\ b3 = b.longest
          /\ c1 = c.shortest /\ c2 = c.median2
  BY <1>11
<1>14. /\ 2 * a1 <= a2 /\ b2 <= 2 * b3 /\ b1 <= c1 /\ b2 <= c2 /\ a2 < b2
       /\ ~ (20 * b2 < 21 * a2 /\ 19 * a2 < 20 * b2)
       /\ a.n > 1 /\ b.n > 1 => a1 > b3 \/ a3 < b1
  BY <1>10, <1>11, <1>12, <1>13
<1>16. a2 < c2 /\ ~ (20 * c2 < 21 * a2)
  <2>1. a2 < b2 /\ b2 <= c2
    BY <1>14
  <2>2. 19 * a2 < 20 * b2
    BY <2>1
  <2>3. ~ (20 * b2 < 21 * a2)
    BY <1>14, <2>2
  <2> QED BY <2>1, <2>3
<1>17. a.n > 1 /\ c.n > 1 => a3 < c1
  BY <1>10, <1>14
<1>15. Verdict(a, c) = "slower"
  BY <1>13, <1>16, <1>17 DEF Verdict, NoiseParts, Overlap
<1> QED BY <1>15 DEF a, c

\* The cases of a result are typed.
LEMMA CasesTyped ==
    ASSUME NEW i \in DOMAIN Results, NEW k \in DOMAIN Results[i].cases
    PROVE  /\ k = <<k[1], k[2]>> /\ k[1] \in Workloads /\ k[2] \in Tools
           /\ Results[i].cases[k] \in Seq(Repeats)
<1>1. k \in Workloads \X Tools
  BY ConstantsOK
<1>2. Results[i].cases[k] \in Seq(Repeats)
  BY ConstantsOK
<1> QED BY <1>1, <1>2

\* A key stands for a case.
LEMMA KeyOf ==
    ASSUME NEW i \in DOMAIN Results, NEW key \in Keys(i)
    PROVE  <<key.workload, key.tool>> \in DOMAIN Results[i].cases /\ key.series = Results[i].series
<1>1. PICK k \in DOMAIN Results[i].cases :
          key = [series |-> Results[i].series, workload |-> k[1], tool |-> k[2]]
  BY DEF Keys
<1>2. k = <<k[1], k[2]>>
  BY CasesTyped
<1>3. key.workload = k[1] /\ key.tool = k[2] /\ key.series = Results[i].series
  BY <1>1
<1> QED BY <1>2, <1>3

\* What is nowhere better has no further key.
LEMMA FewerKeys ==
    ASSUME NEW j \in DOMAIN Results, NEW i \in DOMAIN Results, NowhereBetter(j, i)
    PROVE  Keys(j) \subseteq Keys(i)
BY DEF Keys, NowhereBetter

\* What is nowhere better than a refused result is refused.
LEMMA GateFollows ==
    ASSUME NEW n \in DOMAIN Results, NEW m \in DOMAIN Results, NEW o \in DOMAIN Results,
           NowhereBetter(o, m), Gate(n, m) # {}
    PROVE  Gate(n, o) # {}
<1>1. \/ \E key \in Keys(n) \cap Keys(m) : Regressed(OfKey(n, key), OfKey(m, key))
      \/ \E key \in Keys(n) \ Keys(m) : Measured(OfKey(n, key))
      \/ Results[m].aborted
  BY DEF Gate
<1>2. ASSUME NEW key \in Keys(n) \ Keys(o), Measured(OfKey(n, key)) PROVE Gate(n, o) # {}
  <2>1. <<"missing", key>> \in Gate(n, o)
    BY <1>2 DEF Gate
  <2> QED BY <2>1
<1>3. ASSUME NEW key \in Keys(n) \cap Keys(m), Regressed(OfKey(n, key), OfKey(m, key)), key \in Keys(o)
      PROVE  Gate(n, o) # {}
  <2> DEFINE k == <<key.workload, key.tool>>
             p == Results[n].cases[k]
             q == Results[m].cases[k]
             r == Results[o].cases[k]
  <2>1. /\ k \in DOMAIN Results[n].cases /\ k \in DOMAIN Results[m].cases
        /\ k \in DOMAIN Results[o].cases
    BY <1>3, KeyOf
  <2>2. p \in Seq(Repeats) /\ q \in Seq(Repeats) /\ r \in Seq(Repeats)
    BY <2>1, CasesTyped
  <2>3. /\ Len(q) = Len(r)
        /\ \A i \in DOMAIN r : r[i].wall >= q[i].wall
        /\ \A i \in DOMAIN r : r[i].ok => q[i].ok
        /\ \A i \in DOMAIN r : r[i].verified = "yes" => q[i].verified = "yes"
    BY <2>1, Zenon DEF NowhereBetter
  <2>4. Regressed(Summary(p), Summary(q))
    BY <1>3 DEF OfKey, CaseOf
  <2>5. Regressed(Summary(p), Summary(r))
    <3> HIDE DEF p, q, r, k
    <3> QED BY <2>2, <2>3, <2>4, WorseRegresses
  <2>6. <<"regressed", key>> \in Gate(n, o)
    BY <1>3, <2>5 DEF Gate, OfKey, CaseOf
  <2> QED BY <2>6
<1>4. ASSUME Results[m].aborted PROVE Gate(n, o) # {}
  <2>1. Results[o].aborted
    BY <1>4 DEF NowhereBetter
  <2>2. <<"aborted">> \in Gate(n, o)
    BY <2>1 DEF Gate
  <2> QED BY <2>2
<1>5. ASSUME NEW key \in Keys(n), Regressed(OfKey(n, key), OfKey(m, key)) PROVE Measured(OfKey(n, key))
  BY <1>5 DEF Regressed
<1> QED BY <1>1, <1>2, <1>3, <1>4, <1>5, FewerKeys

\* The files of a report are results.
Named == files \in Seq(DOMAIN Results)

\* They stay so.
LEMMA NamedAlways == Spec => []Named
<1>1. Init => Named
  BY DEF Init, Named
<1>2. Named /\ [Next]_files => Named'
  BY DEF Named, Next, Name
<1> QED BY <1>1, <1>2, PTL DEF Spec

\* The gate refuses whatever is nowhere better than a result it refuses: failing
\* or slowing repeats and dropping cases never helps (gate, regressed).
THEOREM WorseIsRefused == Spec => []WorseNeverPasses
<1>1. Named => WorseNeverPasses
  BY GateFollows DEF Named, WorseNeverPasses
<1> QED BY <1>1, NamedAlways, PTL

-----------------------------------------------------------------------------
(* The grid holds the history of each system.                              *)

\* After is what its recursion says.
LEMMA AfterDefined ==
    ASSUME NEW order, Len(order) \in Nat
    PROVE  After(order) =
               [n \in 0..Len(order) |->
                   IF n = 0 THEN <<>> ELSE Updated(After(order)[n - 1], order[n], n)]
<1> DEFINE Up(g, N) == g = [n \in 0..N |-> IF n = 0 THEN <<>> ELSE Updated(g[n - 1], order[n], n)]
           Missing == {N \in Nat : \A g : ~Up(g, N)}
<1>1. ASSUME Missing # {} PROVE FALSE
  <2>1. PICK N \in Missing : \A M \in Missing : N <= M
    <3>1. Missing \in SUBSET Nat
      OBVIOUS
    <3> HIDE DEF Missing
    <3> QED BY <1>1, <3>1, LeastMember
  <2>2. CASE N = 0
    <3> DEFINE g == [n \in 0..0 |-> <<>>]
    <3>1. \A n \in 0..0 : n = 0
      OBVIOUS
    <3>2. g = [n \in 0..0 |-> IF n = 0 THEN <<>> ELSE Updated(g[n - 1], order[n], n)]
      BY <3>1
    <3> QED BY <2>1, <2>2, <3>2
  <2>3. CASE N # 0
    <3>1. N \in Nat /\ N - 1 \in Nat /\ N - 1 \notin Missing
      <4>1. N \in Nat
        BY <2>1
      <4> HIDE DEF Missing
      <4> QED BY <2>1, <2>3, <4>1
    <3>2. PICK g : Up(g, N - 1)
      BY <3>1
    <3> DEFINE h == [n \in 0..N |-> IF n < N THEN g[n] ELSE Updated(g[N - 1], order[N], N)]
    <3>3. \A n \in 0..(N - 1) : h[n] = g[n] /\ n \in 0..N
      BY <3>1
    <3>4. \A n \in 0..(N - 1) : g[n] = IF n = 0 THEN <<>> ELSE Updated(g[n - 1], order[n], n)
      BY <3>2
    <3>5. ASSUME NEW n \in 0..N
          PROVE  h[n] = IF n = 0 THEN <<>> ELSE Updated(h[n - 1], order[n], n)
      <4>1. CASE n = N
        <5>1. N - 1 \in 0..(N - 1) /\ h[n] = Updated(g[N - 1], order[N], N)
          BY <3>1, <4>1
        <5> QED BY <2>3, <3>3, <4>1, <5>1
      <4>2. CASE n # N
        <5>1. n \in 0..(N - 1) /\ (n # 0 => n - 1 \in 0..(N - 1))
          BY <3>1, <4>2
        <5> QED BY <3>3, <3>4, <5>1
      <4> QED BY <4>1, <4>2
    <3>6. Up(h, N)
      <4> DEFINE rhs == [n \in 0..N |-> IF n = 0 THEN <<>> ELSE Updated(h[n - 1], order[n], n)]
      <4>1. DOMAIN h = 0..N /\ h = [n \in 0..N |-> h[n]]
        OBVIOUS
      <4> HIDE DEF h
      <4>2. [n \in 0..N |-> h[n]] = rhs
        BY <3>5
      <4> QED BY <4>1, <4>2
    <3> QED BY <2>1, <3>6
  <2> QED BY <2>2, <2>3
<1>2. \E g : Up(g, Len(order))
  BY <1>1
<1>3. After(order) = CHOOSE g : Up(g, Len(order))
  BY DEF After
<1>4. Up(After(order), Len(order))
  <2> HIDE DEF Up
  <2> QED BY <1>2, <1>3
<1> QED BY <1>4

\* The m-th run of the order has a case in cell x of the grid.
Enters(order, x, m) ==
    \E k \in DOMAIN Results[order[m]].cases :
        x = <<Benchmark(order[m], k), System(order[m], k, m)>>

\* The runs up to the n-th that have.
Entered(order, x, n) == {m \in 1..n : Enters(order, x, m)}

\* Each entry is about the runs that have entered it: the newest, the oldest, and
\* how many.
History(order, rows, n) ==
    /\ \A x : x \in DOMAIN rows <=> Entered(order, x, n) # {}
    /\ \A x \in DOMAIN rows :
          LET entered == Entered(order, x, n) IN
          /\ rows[x].ordinal \in entered /\ \A m \in entered : m <= rows[x].ordinal
          /\ rows[x].first \in entered /\ \A m \in entered : rows[x].first <= m
          /\ rows[x].seen = Cardinality(entered)
          /\ rows[x].run = order[rows[x].ordinal]

\* Finitely many runs have entered a cell.
LEMMA EnteredFinite ==
    ASSUME NEW order, NEW x, NEW n \in Nat
    PROVE  /\ IsFiniteSet(Entered(order, x, n)) /\ Cardinality(Entered(order, x, n)) \in Nat
           /\ Entered(order, x, n) \in SUBSET (1..n)
<1>1. IsFiniteSet(1..n)
  BY FS_Interval
<1> QED BY <1>1, FS_Subset, FS_CardinalityType DEF Entered

\* One more run makes one more entry of the history.
LEMMA HistoryNext ==
    ASSUME NEW order, NEW n \in Nat \ {0}, NEW rows, History(order, rows, n - 1)
    PROVE  History(order, Updated(rows, order[n], n), n)
<1> DEFINE new == Updated(rows, order[n], n)
           Old(x) == Entered(order, x, n - 1)
           Now(x) == Entered(order, x, n)
           cell == {<<Benchmark(order[n], k), System(order[n], k, n)>> : k \in DOMAIN Results[order[n]].cases}
<1>1. \A x : x \in cell <=> Enters(order, x, n)
  BY DEF Enters
<1>2. ASSUME NEW x PROVE Now(x) = IF x \in cell THEN Old(x) \cup {n} ELSE Old(x)
  BY <1>1 DEF Entered
<1>3. ASSUME NEW x
      PROVE  /\ n - 1 \in Nat /\ IsFiniteSet(Old(x)) /\ Cardinality(Old(x)) \in Nat
             /\ Old(x) \in SUBSET (1..(n - 1)) /\ n \notin Old(x)
             /\ Cardinality(Old(x) \cup {n}) = Cardinality(Old(x)) + 1
  <2>1. n - 1 \in Nat
    OBVIOUS
  <2>2. IsFiniteSet(Old(x)) /\ Cardinality(Old(x)) \in Nat /\ Old(x) \in SUBSET (1..(n - 1))
    BY <2>1, EnteredFinite
  <2>3. n \notin Old(x)
    BY <2>2
  <2> HIDE DEF Old
  <2> QED BY <2>1, <2>2, <2>3, FS_AddElement
<1>4. /\ DOMAIN new = DOMAIN rows \cup cell
      /\ \A x \in DOMAIN rows \ cell : new[x] = rows[x]
      /\ \A x \in cell : /\ new[x].run = order[n] /\ new[x].ordinal = n
                         /\ new[x].first = IF x \in DOMAIN rows THEN rows[x].first ELSE n
                         /\ new[x].seen = IF x \in DOMAIN rows THEN rows[x].seen + 1 ELSE 0 + 1
  BY DEF Updated
<1> HIDE DEF new, cell, Old, Now
<1>5. /\ \A x : x \in DOMAIN rows <=> Old(x) # {}
      /\ \A x \in DOMAIN rows :
            /\ rows[x].ordinal \in Old(x) /\ \A m \in Old(x) : m <= rows[x].ordinal
            /\ rows[x].first \in Old(x) /\ \A m \in Old(x) : rows[x].first <= m
            /\ rows[x].seen = Cardinality(Old(x))
            /\ rows[x].run = order[rows[x].ordinal]
  BY DEF History, Old
<1>6. \A x : x \in DOMAIN new <=> Now(x) # {}
  BY <1>2, <1>4, <1>5
<1>7. ASSUME NEW x \in DOMAIN new
      PROVE  /\ new[x].ordinal \in Now(x) /\ \A m \in Now(x) : m <= new[x].ordinal
             /\ new[x].first \in Now(x) /\ \A m \in Now(x) : new[x].first <= m
             /\ new[x].seen = Cardinality(Now(x))
             /\ new[x].run = order[new[x].ordinal]
  <2>1. CASE x \notin cell
    <3>1. x \in DOMAIN rows /\ new[x] = rows[x] /\ Now(x) = Old(x)
      BY <1>2, <1>4, <2>1
    <3> QED BY <1>5, <3>1
  <2>2. CASE x \in cell /\ x \in DOMAIN rows
    <3>1. /\ new[x].run = order[n] /\ new[x].ordinal = n /\ new[x].first = rows[x].first
          /\ new[x].seen = rows[x].seen + 1 /\ Now(x) = Old(x) \cup {n}
      BY <1>2, <1>4, <2>2
    <3>2. \A m \in Old(x) : m <= n
      <4>1. Old(x) \in SUBSET (1..(n - 1))
        BY <1>3, Zenon
      <4>2. \A m \in 1..(n - 1) : m <= n
        OBVIOUS
      <4> QED BY <4>1, <4>2
    <3>3. /\ rows[x].first \in Old(x) /\ \A m \in Old(x) : rows[x].first <= m
          /\ rows[x].seen = Cardinality(Old(x))
      BY <1>5, <2>2
    <3>4. rows[x].first <= n
      BY <3>2, <3>3
    <3>5. Cardinality(Now(x)) = Cardinality(Old(x)) + 1
      BY <1>3, <3>1
    <3> QED BY <3>1, <3>2, <3>3, <3>4, <3>5
  <2>3. CASE x \in cell /\ x \notin DOMAIN rows
    <3>1. /\ new[x].run = order[n] /\ new[x].ordinal = n /\ new[x].first = n
          /\ new[x].seen = 0 + 1 /\ Old(x) = {} /\ Now(x) = Old(x) \cup {n}
      BY <1>2, <1>4, <1>5, <2>3
    <3>2. Cardinality(Now(x)) = Cardinality(Old(x)) + 1 /\ Cardinality(Old(x)) = 0
      BY <1>3, <3>1, FS_EmptySet
    <3> QED BY <3>1, <3>2
  <2> QED BY <2>1, <2>2, <2>3
<1>8. History(order, new, n)
  BY <1>6, <1>7 DEF History, Now
<1> QED BY <1>8 DEF new

\* So the history is true of any number of runs.
LEMMA HistoryAfter ==
    ASSUME NEW order, Len(order) \in Nat
    PROVE  History(order, After(order)[Len(order)], Len(order))
<1> DEFINE Wrong == {n \in 0..Len(order) : ~ History(order, After(order)[n], n)}
<1>1. ASSUME Wrong # {} PROVE FALSE
  <2>1. PICK n \in Wrong : \A m \in Wrong : n <= m
    <3>1. Wrong \in SUBSET Nat
      OBVIOUS
    <3> HIDE DEF Wrong
    <3> QED BY <1>1, <3>1, LeastMember
  <2>2. n \in 0..Len(order) /\ ~ History(order, After(order)[n], n)
    BY <2>1
  <2>3. CASE n = 0
    <3>1. After(order)[0] = <<>>
      <4>1. 0 \in 0..Len(order)
        OBVIOUS
      <4> QED BY <4>1, AfterDefined
    <3>2. \A x : Entered(order, x, 0) = {}
      BY DEF Entered
    <3>3. DOMAIN After(order)[0] = {}
      BY <3>1
    <3> QED BY <2>2, <2>3, <3>2, <3>3 DEF History
  <2>4. CASE n # 0
    <3>1. n \in Nat \ {0} /\ n - 1 \in 0..Len(order)
      BY <2>2, <2>4
    <3>2. History(order, After(order)[n - 1], n - 1)
      <4>1. n - 1 \notin Wrong
        <5> HIDE DEF Wrong
        <5> QED BY <2>1, <3>1
      <4> QED BY <3>1, <4>1
    <3>3. After(order)[n] = Updated(After(order)[n - 1], order[n], n)
      BY <2>2, <3>1, AfterDefined
    <3> QED BY <2>2, <3>1, <3>2, <3>3, HistoryNext
  <2> QED BY <2>3, <2>4
<1>2. Len(order) \in 0..Len(order)
  OBVIOUS
<1> QED BY <1>1, <1>2

-----------------------------------------------------------------------------
(* The order of the files.                                                 *)

\* Results are named in the order of their start.
LEMMA ResultsTyped ==
    /\ DOMAIN Results \in SUBSET Nat
    /\ \A i \in DOMAIN Results : Results[i].started \in Nat
    /\ \A i, j \in DOMAIN Results : i <= j => Results[i].started <= Results[j].started
<1>1. DOMAIN Results \in SUBSET Nat
  BY ConstantsOK
<1>2. \A i \in DOMAIN Results : Results[i].started \in Nat
  BY ConstantsOK
<1>3. \A i, j \in DOMAIN Results : i < j => Results[i].started <= Results[j].started
  BY ConstantsOK
<1> QED BY <1>1, <1>2, <1>3

\* The files of a report are a finite family.
LEMMA FilesFamily ==
    ASSUME NEW fs \in Seq(DOMAIN Results)
    PROVE  /\ Family(fs) /\ DOMAIN fs = 1..Len(fs) /\ Len(fs) \in Nat /\ Size(fs) = Len(fs)
           /\ \A n \in 1..Len(fs) : fs[n] \in DOMAIN Results
<1>1. DOMAIN fs = 1..Len(fs) /\ Len(fs) \in Nat /\ \A n \in 1..Len(fs) : fs[n] \in DOMAIN Results
  OBVIOUS
<1>2. IsFiniteSet(1..Len(fs)) /\ Cardinality(1..Len(fs)) = Len(fs)
  BY <1>1, UpTo
<1> QED BY <1>1, <1>2, ResultsTyped DEF Family, Size

\* What the ordered files are.
LEMMA OrderedFiles ==
    ASSUME NEW fs \in Seq(DOMAIN Results)
    PROVE  LET order == Ordered(fs) IN
           /\ Len(order) = Len(fs) /\ Len(fs) \in Nat /\ DOMAIN order = 1..Len(fs)
           /\ \A n \in 1..Len(fs) : order[n] \in DOMAIN Results
           /\ \A n, m \in 1..Len(fs) :
                  n <= m => Results[order[n]].started <= Results[order[m]].started
<1> DEFINE order == Ordered(fs)
           N == Len(fs)
<1>1. N \in Nat /\ DOMAIN order = 1..N /\ \A n \in 1..N : order[n] = Kth(fs, n)
  BY FilesFamily DEF Ordered
<1>2. \A n \in 1..N : order[n] \in DOMAIN Results
  <2> SUFFICES ASSUME NEW n \in 1..N PROVE order[n] \in DOMAIN Results
    OBVIOUS
  <2>1. PICK i \in DOMAIN fs : Kth(fs, n) = fs[i]
    BY FilesFamily, KthIsPlaced
  <2> QED BY <1>1, <2>1, FilesFamily
<1>3. \A n, m \in 1..N : n <= m => order[n] <= order[m]
  BY <1>1, FilesFamily, KthGrows
<1>4. Len(order) = N
  <2>1. order \in [1..N -> DOMAIN Results]
    <3>1. order = [n \in 1..N |-> Kth(fs, n)]
      BY FilesFamily DEF Ordered
    <3> HIDE DEF order
    <3>2. \A n \in 1..N : Kth(fs, n) \in DOMAIN Results
      BY <1>1, <1>2
    <3> QED BY <3>1, <3>2
  <2> HIDE DEF order
  <2> QED BY <1>1, <2>1, LenProperties
<1> QED BY <1>1, <1>2, <1>3, <1>4, ResultsTyped

\* A permutation of the files is ordered in the same way.
LEMMA OrderedMoved ==
    ASSUME NEW fs \in Seq(DOMAIN Results), NEW p \in [DOMAIN fs -> DOMAIN fs],
           \A m, n \in DOMAIN fs : p[m] = p[n] => m = n
    PROVE  LET moved == [n \in DOMAIN fs |-> fs[p[n]]] IN
           Ordered(moved) = Ordered(fs) /\ Len(moved) = Len(fs)
<1> DEFINE N == Len(fs)
           moved == [n \in DOMAIN fs |-> fs[p[n]]]
<1>1. Family(fs) /\ DOMAIN fs = 1..N /\ N \in Nat /\ Size(fs) = N
  BY FilesFamily
<1>2. moved \in [1..N -> DOMAIN Results]
  BY <1>1, FilesFamily
<1>3. /\ Family(moved) /\ DOMAIN moved = 1..N /\ Size(moved) = N /\ Len(moved) = N
      /\ \A n \in 1..N : p[n] \in 1..N /\ moved[n] = fs[p[n]]
  <2>1. DOMAIN moved = 1..N /\ \A n \in 1..N : p[n] \in 1..N /\ moved[n] = fs[p[n]]
    BY <1>1
  <2>2. moved \in Seq(DOMAIN Results) /\ Len(moved) = N
    <3> HIDE DEF moved
    <3> QED BY <1>1, <1>2
  <2> HIDE DEF moved
  <2> QED BY <2>1, <2>2, FilesFamily
<1> HIDE DEF moved
<1>p. \A n \in 1..N : \E m \in 1..N : p[m] = n
  <2> DEFINE D == 1..N
  <2>1. IsFiniteSet(D) /\ p \in [D -> D] /\ \A m, n \in D : p[m] = p[n] => m = n
    BY <1>1, UpTo
  <2> HIDE DEF D
  <2>2. \A n \in D : \E m \in D : p[m] = n
    BY <2>1, OneToOne
  <2> QED BY <2>2 DEF D
<1>4. ASSUME NEW x \in Nat
      PROVE  /\ Cardinality(AtMost(moved, x)) = Cardinality(AtMost(fs, x))
             /\ Cardinality(AtMost(fs, x)) \in Nat
  <2> DEFINE A == AtMost(moved, x)
             B == AtMost(fs, x)
             f == [n \in A |-> p[n]]
  <2>1. A \in SUBSET (1..N) /\ B \in SUBSET (1..N) /\ \A n \in A : p[n] \in B
    BY <1>1, <1>3 DEF AtMost
  <2>2. \A n \in B : \E m \in A : p[m] = n
    BY <1>1, <1>3, <1>p, <2>1 DEF AtMost
  <2>3. IsFiniteSet(A) /\ IsFiniteSet(B)
    <3>1. IsFiniteSet(1..N)
      BY <1>1, UpTo
    <3> HIDE DEF A, B
    <3> QED BY <2>1, <3>1, FS_Subset
  <2>4. Cardinality(A) = Cardinality(B) /\ Cardinality(B) \in Nat
    <3>1. f \in [A -> B]
      BY <2>1
    <3>2. \A n, m \in A : f[n] = f[m] => n = m
      BY <1>1, <2>1
    <3>3. \A n \in B : \E m \in A : f[m] = n
      BY <2>2
    <3> HIDE DEF f, A, B
    <3> QED BY <2>3, <3>1, <3>2, <3>3, SameSize
  <2> QED BY <2>4
<1>5. ASSUME NEW k \in 1..N PROVE Kth(moved, k) = Kth(fs, k)
  <2>1. Kth(moved, k) <= Kth(fs, k) /\ Kth(fs, k) <= Kth(moved, k)
    <3>1. /\ \A x \in Nat : Cardinality(AtMost(moved, x)) <= Cardinality(AtMost(fs, x))
          /\ \A x \in Nat : Cardinality(AtMost(fs, x)) <= Cardinality(AtMost(moved, x))
      <4>1. ASSUME NEW x \in Nat
            PROVE  /\ Cardinality(AtMost(moved, x)) <= Cardinality(AtMost(fs, x))
                   /\ Cardinality(AtMost(fs, x)) <= Cardinality(AtMost(moved, x))
        <5>1. Cardinality(AtMost(moved, x)) = Cardinality(AtMost(fs, x))
          BY <1>4
        <5>2. Cardinality(AtMost(fs, x)) \in Nat
          BY <1>4
        <5> QED BY <5>1, <5>2
      <4> QED BY <4>1
    <3>2. k \in 1..Size(fs) /\ k \in 1..Size(moved) /\ k <= k
      BY <1>1, <1>3
    <3> QED BY <1>1, <1>3, <3>1, <3>2, KthCompared
  <2>2. Kth(moved, k) \in Nat /\ Kth(fs, k) \in Nat
    BY <1>1, <1>3, KthIsPlaced
  <2> QED BY <2>1, <2>2
<1>6. Ordered(moved) = Ordered(fs)
  BY <1>1, <1>3, <1>5 DEF Ordered
<1> QED BY <1>3, <1>6 DEF moved

\* A report says the same whatever the order and the names of its files
\* (comparison_rows).
THEOREM MovedFilesCount == Spec => []MovedFilesChangeNothing
<1>1. Named => MovedFilesChangeNothing
  <2> SUFFICES ASSUME Named PROVE MovedFilesChangeNothing
    OBVIOUS
  <2> SUFFICES ASSUME NEW p \in [DOMAIN files -> DOMAIN files],
                      \A m, n \in DOMAIN files : p[m] = p[n] => m = n
               PROVE  Rows([n \in DOMAIN files |-> files[p[n]]]) = Rows(files)
    BY DEF MovedFilesChangeNothing
  <2> QED BY OrderedMoved, Zenon DEF Named, Rows
<1> QED BY <1>1, NamedAlways, PTL

-----------------------------------------------------------------------------
(* The overview.                                                           *)

\* The rows of a report, as its files tell them.
LEMMA RowsHistory ==
    ASSUME NEW fs \in Seq(DOMAIN Results)
    PROVE  History(Ordered(fs), Rows(fs), Len(fs))
<1>1. Len(Ordered(fs)) = Len(fs) /\ Len(fs) \in Nat
  BY OrderedFiles
<1> QED BY <1>1, HistoryAfter DEF Rows

\* Who enters a cell, and which cell a case enters.
LEMMA EnteredBy ==
    ASSUME NEW order, NEW m, order[m] \in DOMAIN Results, NEW x, Enters(order, x, m)
    PROVE  /\ <<x[1][2], x[2].tool>> \in DOMAIN Results[order[m]].cases
           /\ x = <<Benchmark(order[m], <<x[1][2], x[2].tool>>),
                    System(order[m], <<x[1][2], x[2].tool>>, m)>>
           /\ x[2].tool \in Tools /\ x[1] = <<Results[order[m]].series, x[1][2]>>
<1>1. PICK k \in DOMAIN Results[order[m]].cases :
          x = <<Benchmark(order[m], k), System(order[m], k, m)>>
  BY DEF Enters
<1>2. k = <<k[1], k[2]>> /\ k[2] \in Tools
  BY CasesTyped
<1>3. x[2].tool = k[2]
  BY <1>1 DEF System
<1>4. x[1] = <<Results[order[m]].series, k[1]>>
  BY <1>1 DEF Benchmark
<1>5. <<x[1][2], x[2].tool>> = k
  BY <1>2, <1>3, <1>4
<1> QED BY <1>1, <1>2, <1>3, <1>4, <1>5

\* A run has one system of a tool on a benchmark.
LEMMA OneSystem ==
    ASSUME NEW order, NEW m, order[m] \in DOMAIN Results, NEW x, NEW y,
           Enters(order, x, m), Enters(order, y, m), x[1] = y[1], x[2].tool = y[2].tool
    PROVE  x = y
<1> DEFINE k == <<x[1][2], x[2].tool>>
<1>1. x = <<Benchmark(order[m], k), System(order[m], k, m)>>
  BY EnteredBy
<1>2. y = <<Benchmark(order[m], k), System(order[m], k, m)>>
  BY EnteredBy
<1> QED BY <1>1, <1>2

\* The systems of tool t on benchmark b.
OfTool(rows, b, t) == {x \in DOMAIN rows : x[1] = b /\ x[2].tool = t}

\* One of them replaces all others.
LEMMA ShownReplaces ==
    ASSUME NEW fs \in Seq(DOMAIN Results), NEW b, NEW t, OfTool(Rows(fs), b, t) # {}
    PROVE  LET rows == Rows(fs) IN
           /\ Shown(rows, b, t) \in OfTool(rows, b, t)
           /\ \A y \in OfTool(rows, b, t) \ {Shown(rows, b, t)} :
                 Replaces(rows[Shown(rows, b, t)], rows[y])
<1> DEFINE rows == Rows(fs)
           order == Ordered(fs)
           N == Len(fs)
           S == OfTool(rows, b, t)
<1>1. /\ N \in Nat /\ \A n \in 1..N : order[n] \in DOMAIN Results
      /\ \A n, m \in 1..N : n <= m => Results[order[n]].started <= Results[order[m]].started
  BY OrderedFiles
<1>2. \A x \in S : x \in DOMAIN rows /\ x[1] = b /\ x[2].tool = t
  BY DEF OfTool
<1>3. \A x \in S : /\ rows[x].ordinal \in 1..N /\ rows[x].first \in 1..N
                   /\ Enters(order, x, rows[x].first)
                   /\ Started(rows[x]) = Results[order[rows[x].ordinal]].started
                   /\ Started(rows[x]) \in Nat
  <2> SUFFICES ASSUME NEW x \in S
               PROVE  /\ rows[x].ordinal \in 1..N /\ rows[x].first \in 1..N
                      /\ Enters(order, x, rows[x].first)
                      /\ Started(rows[x]) = Results[order[rows[x].ordinal]].started
                      /\ Started(rows[x]) \in Nat
    OBVIOUS
  <2>1. History(order, rows, N)
    BY RowsHistory
  <2> HIDE DEF rows, order, N, S
  <2>2. /\ rows[x].ordinal \in Entered(order, x, N) /\ rows[x].first \in Entered(order, x, N)
        /\ rows[x].run = order[rows[x].ordinal]
    BY <1>2, <2>1 DEF History
  <2>3. /\ rows[x].ordinal \in 1..N /\ rows[x].first \in 1..N /\ Enters(order, x, rows[x].first)
    BY <2>2 DEF Entered
  <2> QED BY <1>1, <2>2, <2>3, ResultsTyped DEF Started
<1>4. \A x, y \in S : rows[x].first = rows[y].first => x = y
  <2> HIDE DEF rows, order, N, S
  <2> QED BY <1>1, <1>2, <1>3, OneSystem
<1> HIDE DEF rows, order, N
<1>5. PICK newest \in S : \A y \in S : Started(rows[y]) <= Started(rows[newest])
  <2> DEFINE T == {rows[y].ordinal : y \in S}
  <2>1. T \in SUBSET (0..N) /\ T # {}
    <3>1. \A y \in S : rows[y].ordinal \in 0..N
      BY <1>1, <1>3
    <3>2. S # {}
      BY DEF rows
    <3> HIDE DEF S
    <3> QED BY <3>1, <3>2
  <2> HIDE DEF T
  <2>2. PICK n \in T : \A m \in T : m <= n
    BY <1>1, <2>1, GreatestBelow
  <2>3. PICK x \in S : n = rows[x].ordinal
    BY <2>2 DEF T
  <2>4. \A y \in S : rows[y].ordinal <= rows[x].ordinal
    BY <2>2, <2>3 DEF T
  <2> HIDE DEF S
  <2> QED BY <1>1, <1>3, <2>3, <2>4
<1>6. PICK shown \in S : /\ Started(rows[shown]) = Started(rows[newest])
                        /\ \A y \in S : Started(rows[y]) = Started(rows[newest])
                                       => rows[shown].first <= rows[y].first
  <2> DEFINE U == {y \in S : Started(rows[y]) = Started(rows[newest])}
             T == {rows[y].first : y \in U}
  <2>1. T \in SUBSET Nat /\ T # {}
    <3>1. \A y \in S : rows[y].first \in Nat
      BY <1>1, <1>3
    <3>2. newest \in U
      OBVIOUS
    <3> HIDE DEF S
    <3> QED BY <3>1, <3>2
  <2> HIDE DEF T
  <2>2. PICK n \in T : \A m \in T : n <= m
    BY <2>1, LeastMember
  <2>3. PICK x \in U : n = rows[x].first
    BY <2>2 DEF T
  <2>4. \A y \in U : rows[x].first <= rows[y].first
    BY <2>2, <2>3 DEF T
  <2> HIDE DEF S
  <2> QED BY <2>3, <2>4
<1>7. \A y \in S \ {shown} : Replaces(rows[shown], rows[y])
  <2> SUFFICES ASSUME NEW y \in S \ {shown} PROVE Replaces(rows[shown], rows[y])
    OBVIOUS
  <2> HIDE DEF S
  <2>1. /\ Started(rows[y]) \in Nat /\ Started(rows[shown]) \in Nat
        /\ Started(rows[y]) <= Started(rows[shown])
    BY <1>3, <1>5, <1>6
  <2>2. Started(rows[y]) = Started(rows[shown]) => rows[shown].first < rows[y].first
    <3>1. rows[y].first \in Nat /\ rows[shown].first \in Nat
      BY <1>1, <1>3
    <3>2. rows[y].first # rows[shown].first
      BY <1>4
    <3> QED BY <1>6, <3>1, <3>2
  <2> QED BY <2>1, <2>2 DEF Replaces
<1>8. Shown(rows, b, t) = CHOOSE x \in S : \A y \in S \ {x} : Replaces(rows[x], rows[y])
  BY DEF Shown, OfTool
<1> HIDE DEF S
<1>9. Shown(rows, b, t) \in S /\ \A y \in S \ {Shown(rows, b, t)} : Replaces(rows[Shown(rows, b, t)], rows[y])
  BY <1>7, <1>8
<1> QED BY <1>9 DEF S, rows

\* What the overview shows for a tool is as new as any of its runs, whichever of
\* its builds was measured first, last or again (current_rows).
THEOREM OverviewShowsNewest == Spec => []OverviewIsNewest
<1>1. ASSUME Named PROVE OverviewIsNewest
  <2> DEFINE rows == Rows(files)
             order == Ordered(files)
             N == Len(files)
  <2> SUFFICES ASSUME NEW x \in DOMAIN rows, NEW n \in Having(order, x[1], x[2].tool)
               PROVE  Started(rows[Shown(rows, x[1], x[2].tool)]) >= Results[order[n]].started
    BY DEF OverviewIsNewest
  <2> DEFINE b == x[1]
             t == x[2].tool
             shown == Shown(rows, b, t)
  <2>1. /\ N \in Nat /\ DOMAIN order = 1..N /\ \A m \in 1..N : order[m] \in DOMAIN Results
        /\ \A l, m \in 1..N : l <= m => Results[order[l]].started <= Results[order[m]].started
    BY <1>1, OrderedFiles DEF Named
  <2>2. History(order, rows, N)
    BY <1>1, RowsHistory DEF Named
  <2>3. PICK k \in DOMAIN Results[order[n]].cases : k[2] = t /\ Benchmark(order[n], k) = b
    BY DEF Having
  <2>4. n \in 1..N
    BY <2>1 DEF Having
  <2> DEFINE y == <<b, System(order[n], k, n)>>
  <2>5. Enters(order, y, n) /\ y[1] = b /\ y[2].tool = t
    BY <2>3 DEF Enters, System
  <2> HIDE DEF y, order, rows, N
  <2>6. n \in Entered(order, y, N)
    BY <2>4, <2>5 DEF Entered
  <2>7. /\ y \in DOMAIN rows /\ n <= rows[y].ordinal /\ rows[y].ordinal \in 1..N
        /\ rows[y].run = order[rows[y].ordinal]
    BY <2>2, <2>6 DEF History, Entered
  <2>8. Results[order[n]].started <= Started(rows[y])
    BY <2>1, <2>4, <2>7 DEF Started
  <2>9. x \in OfTool(rows, b, t) /\ y \in OfTool(rows, b, t)
    BY <2>5, <2>7 DEF OfTool
  <2>10. shown \in OfTool(rows, b, t)
         /\ \A z \in OfTool(rows, b, t) \ {shown} : Replaces(rows[shown], rows[z])
    BY <1>1, <2>9, ShownReplaces DEF Named, rows
  <2>11. rows[shown].run \in DOMAIN Results /\ rows[y].run \in DOMAIN Results
    BY <2>1, <2>2, <2>9, <2>10 DEF History, Entered, OfTool
  <2>12. Started(rows[shown]) >= Started(rows[y])
    <3> HIDE DEF shown
    <3>1. Started(rows[shown]) \in Nat /\ Started(rows[y]) \in Nat
      BY <2>11, ResultsTyped DEF Started
    <3>2. CASE y = shown
      BY <3>1, <3>2
    <3>3. CASE y # shown
      BY <2>9, <2>10, <3>1, <3>3 DEF Replaces
    <3> QED BY <3>2, <3>3
  <2>13. Started(rows[shown]) \in Nat /\ Started(rows[y]) \in Nat /\ Results[order[n]].started \in Nat
    BY <2>1, <2>4, <2>11, ResultsTyped DEF Started
  <2> QED BY <2>8, <2>12, <2>13
<1> QED BY <1>1, NamedAlways, PTL

-----------------------------------------------------------------------------
(* The grid.                                                               *)

\* The entries of a tool were measured as often, together, as the tool was.
LEMMA TotalSeen ==
    ASSUME NEW fs \in Seq(DOMAIN Results), NEW b, NEW t
    PROVE  Cardinality(UNION {{<<x, m>> : m \in 1..Rows(fs)[x].seen} : x \in OfTool(Rows(fs), b, t)})
             = Cardinality(Having(Ordered(fs), b, t))
<1> DEFINE rows == Rows(fs)
           order == Ordered(fs)
           N == Len(fs)
           S == OfTool(rows, b, t)
           H == Having(order, b, t)
           Of(x) == Entered(order, x, N)
           U == UNION {{<<x, m>> : m \in 1..rows[x].seen} : x \in S}
<1>1. /\ N \in Nat /\ DOMAIN order = 1..N /\ \A n \in 1..N : order[n] \in DOMAIN Results
  BY OrderedFiles
<1>2. History(order, rows, N)
  BY RowsHistory
<1>3. \A x \in S : x \in DOMAIN rows /\ x[1] = b /\ x[2].tool = t
  BY DEF OfTool
<1>4. H \in SUBSET (1..N)
  BY <1>1 DEF Having
<1>5. IsFiniteSet(H)
  <2> HIDE DEF H
  <2>1. IsFiniteSet(1..N)
    BY <1>1, UpTo
  <2> QED BY <1>4, <2>1, FS_Subset
<1>6. \A n \in H : \E x \in S : n \in Of(x)
  <2> SUFFICES ASSUME NEW n \in H PROVE \E x \in S : n \in Of(x)
    OBVIOUS
  <2>1. n \in 1..N
    BY <1>4
  <2>2. PICK k \in DOMAIN Results[order[n]].cases : k[2] = t /\ Benchmark(order[n], k) = b
    BY DEF Having
  <2> DEFINE x == <<b, System(order[n], k, n)>>
  <2>3. Enters(order, x, n) /\ x[1] = b /\ x[2].tool = t
    BY <2>2 DEF Enters, System
  <2> HIDE DEF x, rows, order, N
  <2>4. n \in Of(x)
    BY <2>1, <2>3 DEF Entered
  <2>5. x \in S
    BY <1>2, <2>3, <2>4 DEF History, OfTool
  <2> QED BY <2>4, <2>5
<1>7. \A x \in S : Of(x) \in SUBSET H
  <2> SUFFICES ASSUME NEW x \in S, NEW n \in Of(x) PROVE n \in H
    OBVIOUS
  <2> HIDE DEF rows, order, N, S
  <2>1. n \in 1..N /\ Enters(order, x, n)
    BY DEF Entered
  <2>2. PICK k \in DOMAIN Results[order[n]].cases : x = <<Benchmark(order[n], k), System(order[n], k, n)>>
    BY <2>1 DEF Enters
  <2>3. k[2] = t /\ Benchmark(order[n], k) = b
    BY <1>3, <2>2 DEF System
  <2> QED BY <1>1, <2>1, <2>3 DEF Having
<1>8. \A x, y \in S : \A n \in 1..N : n \in Of(x) /\ n \in Of(y) => x = y
  <2> SUFFICES ASSUME NEW x \in S, NEW y \in S, NEW n \in 1..N, n \in Of(x), n \in Of(y) PROVE x = y
    OBVIOUS
  <2> HIDE DEF rows, order, N, S
  <2>1. Enters(order, x, n) /\ Enters(order, y, n)
    BY DEF Entered
  <2> QED BY <1>1, <1>3, <2>1, OneSystem
<1>9. \A x \in S : ExistsBijection(Of(x), 1..rows[x].seen)
  <2> SUFFICES ASSUME NEW x \in S PROVE ExistsBijection(Of(x), 1..rows[x].seen)
    OBVIOUS
  <2>1. IsFiniteSet(Of(x)) /\ Cardinality(Of(x)) \in Nat
    BY <1>1, EnteredFinite
  <2> HIDE DEF rows, order, N, S
  <2>2. rows[x].seen = Cardinality(Of(x))
    BY <1>2, <1>3 DEF History
  <2>3. IsFiniteSet(1..rows[x].seen) /\ Cardinality(1..rows[x].seen) = Cardinality(Of(x))
    BY <2>1, <2>2, UpTo
  <2> HIDE DEF Of
  <2> QED BY <2>1, <2>3, FS_SameCardinalityBij
<1> HIDE DEF rows, order, N, S, H, Of
<1> DEFINE G == [x \in S |-> CHOOSE g : g \in Bijection(Of(x), 1..rows[x].seen)]
           Cell(n) == CHOOSE x \in S : n \in Of(x)
           f == [n \in H |-> <<Cell(n), G[Cell(n)][n]>>]
<1>10. ASSUME NEW x \in S
       PROVE  /\ G[x] \in [Of(x) -> 1..rows[x].seen]
              /\ \A n, m \in Of(x) : G[x][n] = G[x][m] => n = m
              /\ \A i \in 1..rows[x].seen : \E n \in Of(x) : G[x][n] = i
  <2>1. \E g : g \in Bijection(Of(x), 1..rows[x].seen)
    BY <1>9, Fun_ExistsBij
  <2>2. G[x] \in Bijection(Of(x), 1..rows[x].seen)
    BY <2>1
  <2> DEFINE D == Of(x)
             R == 1..rows[x].seen
             g == G[x]
  <2> HIDE DEF G, Of
  <2>3. g \in Bijection(D, R)
    BY <2>2
  <2> HIDE DEF D, R, g
  <2>4. g \in [D -> R]
    BY <2>3, EveryBijection
  <2>5. \A n, m \in D : g[n] = g[m] => n = m
    BY <2>3, EveryBijection
  <2>6. \A i \in R : \E n \in D : g[n] = i
    BY <2>3, EveryBijection
  <2>7. g \in [D -> R] /\ (\A n, m \in D : g[n] = g[m] => n = m) /\ (\A i \in R : \E n \in D : g[n] = i)
    BY <2>4, <2>5, <2>6
  <2> QED BY <2>7 DEF D, R, g
<1>11. \A n \in H : Cell(n) \in S /\ n \in Of(Cell(n))
  BY <1>6
<1>12. \A x \in S : \A n \in Of(x) : n \in H /\ Cell(n) = x
  <2> HIDE DEF Cell
  <2> QED BY <1>4, <1>7, <1>8, <1>11
<1> HIDE DEF G, Cell
<1>13. f \in [H -> U]
  <2>1. \A n \in H : Cell(n) \in S /\ G[Cell(n)][n] \in 1..rows[Cell(n)].seen
    BY <1>10, <1>11
  <2>2. \A n \in H : <<Cell(n), G[Cell(n)][n]>> \in U
    BY <2>1
  <2> HIDE DEF U
  <2> QED BY <2>2
<1>14. ASSUME NEW n \in H, NEW m \in H, f[n] = f[m] PROVE n = m
  <2>1. Cell(n) = Cell(m) /\ G[Cell(n)][n] = G[Cell(m)][m]
    BY <1>14
  <2>2. n \in Of(Cell(n)) /\ m \in Of(Cell(n)) /\ Cell(n) \in S
    BY <1>11, <2>1
  <2> QED BY <1>10, <2>1, <2>2
<1>15. ASSUME NEW z \in U PROVE \E n \in H : f[n] = z
  <2>1. PICK x \in S : \E i \in 1..rows[x].seen : z = <<x, i>>
    OBVIOUS
  <2>2. PICK i \in 1..rows[x].seen : z = <<x, i>>
    BY <2>1
  <2>3. PICK n \in Of(x) : G[x][n] = i
    BY <1>10
  <2>4. n \in H /\ Cell(n) = x
    BY <1>12
  <2> QED BY <2>2, <2>3, <2>4
<1>16. Cardinality(U) = Cardinality(H)
  <2> HIDE DEF f, U
  <2> QED BY <1>5, <1>13, <1>14, <1>15, SameSize
<1> QED BY <1>16 DEF H, S, rows, order

\* Every case of every file counts once: the grid's entries of a tool are together
\* as many as its runs, each shows the newest of its system's own runs, and runs
\* that may have used different remote builds are never taken together
\* (comparison_rows, system).
THEOREM GridKeepsHistory == Spec => []GridIsHistory
<1>1. ASSUME Named PROVE GridIsHistory
  <2> DEFINE rows == Rows(files)
             order == Ordered(files)
             N == Len(files)
  <2>1. /\ N \in Nat /\ DOMAIN order = 1..N /\ \A n \in 1..N : order[n] \in DOMAIN Results
    BY <1>1, OrderedFiles DEF Named
  <2>2. History(order, rows, N)
    BY <1>1, RowsHistory DEF Named
  <2>3. ASSUME NEW b, NEW t
        PROVE  Cardinality(UNION {{<<x, m>> : m \in 1..rows[x].seen} :
                                  x \in {y \in DOMAIN rows : y[1] = b /\ y[2].tool = t}})
                 = Cardinality(Having(order, b, t))
    BY <1>1, TotalSeen DEF Named, OfTool
  <2>4. ASSUME NEW x \in DOMAIN rows, NEW n \in Having(order, x[1], x[2].tool), n > rows[x].ordinal
        PROVE  System(order[n], <<x[1][2], x[2].tool>>, n) # x[2]
    <3> DEFINE b == x[1]
               t == x[2].tool
    <3>1. n \in 1..N
      BY <2>1 DEF Having
    <3>2. PICK k \in DOMAIN Results[order[n]].cases : k[2] = t /\ Benchmark(order[n], k) = b
      BY DEF Having
    <3>3. k = <<b[2], t>>
      <4>1. k = <<k[1], k[2]>>
        BY <2>1, <3>1, CasesTyped
      <4>2. b[2] = k[1]
        BY <3>2 DEF Benchmark
      <4> QED BY <3>2, <4>1, <4>2
    <3> SUFFICES ASSUME System(order[n], <<b[2], t>>, n) = x[2] PROVE FALSE
      OBVIOUS
    <3> HIDE DEF rows, order, N
    <3>4. rows[x].ordinal \in 1..N /\ Enters(order, x, rows[x].ordinal)
      BY <2>2 DEF History, Entered
    <3>5. x = <<x[1], x[2]>>
      BY <3>4 DEF Enters
    <3>6. Enters(order, x, n)
      BY <3>2, <3>3, <3>5 DEF Enters
    <3>7. n <= rows[x].ordinal
      BY <2>2, <3>1, <3>6 DEF History, Entered
    <3> QED BY <2>4, <3>1, <3>4, <3>7
  <2>5. ASSUME NEW n \in DOMAIN order, NEW k \in DOMAIN Results[order[n]].cases,
               Results[order[n]].remote, Results[order[n]].tools[k[2]].other = "unknown"
        PROVE  \E x \in DOMAIN rows : /\ rows[x].first = n /\ rows[x].seen = 1
                                     /\ x[1] = Benchmark(order[n], k) /\ x[2].tool = k[2]
    <3> DEFINE x == <<Benchmark(order[n], k), System(order[n], k, n)>>
    <3>1. n \in 1..N /\ Enters(order, x, n)
      BY <2>1 DEF Enters
    <3>2. x[1] = Benchmark(order[n], k) /\ x[2].tool = k[2] /\ x[2].other = <<"unknown", n>>
      BY <2>5 DEF System
    <3>3. ASSUME NEW m \in 1..N, Enters(order, x, m) PROVE m = n
      <4>1. PICK l \in DOMAIN Results[order[m]].cases :
                x = <<Benchmark(order[m], l), System(order[m], l, m)>>
        BY <3>3 DEF Enters
      <4>2. System(order[m], l, m).other = <<"unknown", n>>
        BY <3>2, <4>1
      <4>3. System(order[m], l, m).other \in
                {<<>>, <<"unknown", m>>, <<Results[order[m]].tools[l[2]].other>>}
        BY DEF System
      <4>4. <<"unknown", n>> # <<>> /\ \A o : <<"unknown", n>> # <<o>>
        OBVIOUS
      <4>5. <<"unknown", n>> = <<"unknown", m>>
        BY <4>2, <4>3, <4>4
      <4> QED BY <4>5
    <3> HIDE DEF x, rows, order, N
    <3>4. Entered(order, x, N) = {n}
      BY <3>1, <3>3 DEF Entered
    <3>5. Cardinality({n}) = 1
      BY FS_Singleton
    <3>6. x \in DOMAIN rows /\ rows[x].first = n /\ rows[x].seen = 1
      BY <2>2, <3>4, <3>5 DEF History
    <3> QED BY <3>2, <3>6
  <2> HIDE DEF rows, order, N
  <2> QED BY <2>3, <2>4, <2>5 DEF GridIsHistory, rows, order
<1> QED BY <1>1, NamedAlways, PTL

-----------------------------------------------------------------------------
(* The standings.                                                          *)

\* A row is one of summaries, in columns.
RowOfCases(row) ==
    /\ DOMAIN row \in SUBSET Nat
    /\ \A c \in DOMAIN row : \E reps \in Seq(Repeats) : row[c] = Summary(reps)

\* A row is of summaries of cases.
LEMMA RowTyped ==
    ASSUME NEW fs \in Seq(DOMAIN Results), NEW b
    PROVE  RowOfCases(RowOf(Rows(fs), b))
<1> DEFINE rows == Rows(fs)
           order == Ordered(fs)
           N == Len(fs)
<1>1. DOMAIN RowOf(rows, b) = Present(rows, b) /\ Present(rows, b) \in SUBSET Nat
  <2>1. DOMAIN Columns \in SUBSET Nat
    BY ConstantsOK
  <2> QED BY <2>1 DEF RowOf, Present
<1>2. ASSUME NEW c \in Present(rows, b)
      PROVE  \E reps \in Seq(Repeats) : RowOf(rows, b)[c] = Summary(reps)
  <2> DEFINE t == Columns[c]
             x == Shown(rows, b, t)
  <2>1. OfTool(rows, b, t) # {}
    BY DEF Present, OfTool
  <2>2. x \in DOMAIN rows /\ x[1] = b /\ x[2].tool = t
    BY <2>1, ShownReplaces DEF OfTool
  <2>3. History(order, rows, N) /\ \A n \in 1..N : order[n] \in DOMAIN Results
    BY RowsHistory, OrderedFiles
  <2> DEFINE m == rows[x].ordinal
             k == <<b[2], t>>
  <2>4. RowOf(rows, b)[c] = CaseOf(rows[x].run, k)
    BY DEF RowOf
  <2> HIDE DEF rows, order, N, x, t
  <2>5. m \in 1..N /\ Enters(order, x, m) /\ rows[x].run = order[m] /\ order[m] \in DOMAIN Results
    BY <2>2, <2>3 DEF History, Entered
  <2>6. k \in DOMAIN Results[order[m]].cases
    BY <2>2, <2>5, EnteredBy
  <2>7. Results[order[m]].cases[k] \in Seq(Repeats)
    BY <2>5, <2>6, CasesTyped
  <2> QED BY <2>4, <2>5, <2>7 DEF CaseOf
<1> QED BY <1>1, <1>2 DEF RowOfCases

\* What the proofs below need of a summary that can be ranked.
LEMMA RankableFacts ==
    ASSUME NEW row, RowOfCases(row), NEW c \in Eligible(row)
    PROVE  /\ c \in DOMAIN row /\ c \in Nat
           /\ row[c].median2 \in Nat /\ row[c].median2 > 0
<1>1. c \in DOMAIN row /\ Measured(row[c])
  BY DEF Eligible, Unrankable
<1>2. PICK reps \in Seq(Repeats) : row[c] = Summary(reps)
  BY <1>1 DEF RowOfCases
<1>3. c \in Nat
  BY <1>1 DEF RowOfCases
<1>4. /\ row[c].median2 \in Nat /\ row[c].shortest \in Nat
      /\ row[c].shortest > 0 /\ 2 * row[c].shortest <= row[c].median2
  BY <1>1, <1>2, SummaryFacts
<1> QED BY <1>1, <1>3, <1>4

\* The fastest is one of those that can be ranked, and none of them is faster.
LEMMA FastestLeast ==
    ASSUME NEW row, RowOfCases(row), Eligible(row) # {}
    PROVE  /\ Fastest(row) \in Eligible(row)
           /\ \A c \in Eligible(row) : row[Fastest(row)].median2 <= row[c].median2
<1> DEFINE E == Eligible(row)
           M == {row[c].median2 : c \in E}
<1>1. \A c \in E : c \in Nat /\ row[c].median2 \in Nat
  BY RankableFacts
<1> HIDE DEF E
<1>2. PICK least \in M : \A y \in M : least <= y
  <2>1. M \in SUBSET Nat /\ M # {}
    BY <1>1 DEF E
  <2> HIDE DEF M
  <2> QED BY <2>1, LeastMember
<1> DEFINE F == {c \in E : row[c].median2 = least}
<1>3. PICK first \in F : \A d \in F : first <= d
  <2>1. F \in SUBSET Nat /\ F # {}
    BY <1>1, <1>2
  <2> HIDE DEF F
  <2> QED BY <2>1, LeastMember
<1>4. \A d \in E \ {first} :
          \/ row[first].median2 < row[d].median2
          \/ row[first].median2 = row[d].median2 /\ first < d
  <2> SUFFICES ASSUME NEW d \in E \ {first}
               PROVE  \/ row[first].median2 < row[d].median2
                      \/ row[first].median2 = row[d].median2 /\ first < d
    OBVIOUS
  <2>1. /\ first \in E /\ row[first].median2 = least /\ least <= row[d].median2
        /\ first \in Nat /\ d \in Nat /\ least \in Nat /\ row[d].median2 \in Nat
    BY <1>1, <1>2, <1>3
  <2>2. row[d].median2 = least => first <= d
    BY <1>3
  <2> QED BY <2>1, <2>2
<1>5. Fastest(row) = CHOOSE c \in E : \A d \in E \ {c} :
                         \/ row[c].median2 < row[d].median2
                         \/ row[c].median2 = row[d].median2 /\ c < d
  BY DEF Fastest, E
<1>6. /\ Fastest(row) \in E
      /\ \A d \in E \ {Fastest(row)} :
            \/ row[Fastest(row)].median2 < row[d].median2
            \/ row[Fastest(row)].median2 = row[d].median2 /\ Fastest(row) < d
  BY <1>3, <1>4, <1>5
<1>7. \A c \in E : row[Fastest(row)].median2 <= row[c].median2
  BY <1>1, <1>6
<1> QED BY <1>6, <1>7 DEF E

\* A case and one with no smaller median, as the standings and the gate see them.
LEMMA SameJudgment ==
    ASSUME NEW a, NEW b, a.median2 \in Nat, b.median2 \in Nat, a.median2 > 0,
           a.median2 <= b.median2
    PROVE  /\ Leads(a, a)
           /\ Verdict(a, b) # "faster"
           /\ Leads(b, a) <=> Verdict(a, b) = "noise"
<1>1. PICK x \in Nat, y \in Nat : x = a.median2 /\ y = b.median2 /\ x > 0 /\ x <= y
  OBVIOUS
<1>2. 20 * x < 21 * x /\ 19 * x < 20 * y
  BY <1>1
<1>3. WithinNoise(a, a)
  BY <1>1, <1>2 DEF WithinNoise, NoiseParts
<1>4. WithinNoise(b, a) <=> 20 * y < 21 * x
  BY <1>1 DEF WithinNoise, NoiseParts
<1>5. Overlap(b, a) <=> Overlap(a, b)
  BY DEF Overlap
<1>6. Verdict(a, b) = IF 20 * y < 21 * x \/ Overlap(a, b) THEN "noise"
                      ELSE IF y > x THEN "slower" ELSE "faster"
  BY <1>1, <1>2 DEF Verdict, NoiseParts
<1>7. CASE 20 * y < 21 * x
  BY <1>3, <1>4, <1>6, <1>7 DEF Leads
<1>8. CASE Overlap(a, b)
  BY <1>3, <1>5, <1>6, <1>8 DEF Leads
<1>9. CASE ~ (20 * y < 21 * x) /\ ~ Overlap(a, b)
  <2>1. y > x
    BY <1>1, <1>2, <1>9
  <2>2. Verdict(a, b) = "slower"
    BY <1>6, <1>9, <2>1
  <2>3. ~ Leads(b, a)
    BY <1>4, <1>5, <1>9 DEF Leads
  <2> QED BY <1>3, <2>2, <2>3 DEF Leads
<1> QED BY <1>7, <1>8, <1>9

\* Who stands where.
LEMMA StandingsRanked ==
    ASSUME NEW row, NEW c \in DOMAIN row
    PROVE  /\ Standings(row)[c].fastest => c = Fastest(row) /\ c \in Eligible(row)
           /\ Standings(row)[c].fastest =>
                 \A d \in Eligible(row) :
                    Standings(row)[d].leader <=> Leads(row[d], row[Fastest(row)])
           /\ Standings(row)[c].verdict # "n/a" => c \in Eligible(row)
<1> DEFINE E == Eligible(row)
           first == Fastest(row)
           ranked == \E e \in E : ~row[e].tooShort
           none == [verdict |-> "n/a", leader |-> FALSE, fastest |-> FALSE]
           Rank(d) == [leader |-> Leads(row[d], row[first]),
                       fastest |-> d = first,
                       verdict |-> IF Leads(row[d], row[first]) THEN "comparable"
                                   ELSE IF row[d].median2 >= 2 * row[first].median2
                                        THEN "much-slower" ELSE "slower"]
<1>1. \A d \in DOMAIN row : d \notin E \/ ~ranked => Standings(row)[d] = none
  BY DEF Standings
<1>2. \A d \in DOMAIN row : d \in E /\ ranked => Standings(row)[d] = Rank(d)
  BY DEF Standings
<1>3. E \in SUBSET DOMAIN row
  BY DEF Eligible
<1>4. none.verdict = "n/a" /\ ~ none.fastest
  OBVIOUS
<1>5. \A d : /\ Rank(d).leader <=> Leads(row[d], row[first])
             /\ Rank(d).fastest <=> d = first
  OBVIOUS
<1> HIDE DEF E, ranked, none, Rank, first
<1>6. CASE c \notin E \/ ~ranked
  <2>1. Standings(row)[c] = none
    BY <1>1, <1>6
  <2> QED BY <1>4, <2>1
<1>7. CASE c \in E /\ ranked
  <2>1. Standings(row)[c] = Rank(c) /\ \A d \in E : Standings(row)[d] = Rank(d)
    BY <1>2, <1>3, <1>7
  <2>2. Standings(row)[c].fastest <=> c = first
    BY <1>5, <2>1
  <2>3. \A d \in E : Standings(row)[d].leader <=> Leads(row[d], row[first])
    BY <1>5, <2>1
  <2> QED BY <1>7, <2>2, <2>3 DEF E, first
<1> QED BY <1>6, <1>7

\* In a ranked row a result leads exactly if the gate sees noise between the
\* fastest one and it; the fastest leads and no rankable result is faster
\* (standings, verdict).
THEOREM ReportAgreesWithGate == Spec => []RankingAgreesWithGate
<1>1. ASSUME Named PROVE RankingAgreesWithGate
  <2> DEFINE Agree(row) == \A f \in DOMAIN row : Standings(row)[f].fastest =>
                /\ Standings(row)[f].leader
                /\ \A c \in DOMAIN row : Standings(row)[c].verdict # "n/a" =>
                      /\ Verdict(row[f], row[c]) # "faster"
                      /\ Standings(row)[c].leader <=> Verdict(row[f], row[c]) = "noise"
  <2>1. ASSUME NEW row, RowOfCases(row) PROVE Agree(row)
    <3> SUFFICES ASSUME NEW f \in DOMAIN row, Standings(row)[f].fastest
                 PROVE  /\ Standings(row)[f].leader
                        /\ \A c \in DOMAIN row : Standings(row)[c].verdict # "n/a" =>
                              /\ Verdict(row[f], row[c]) # "faster"
                              /\ Standings(row)[c].leader <=> Verdict(row[f], row[c]) = "noise"
      OBVIOUS
    <3>1. f = Fastest(row) /\ f \in Eligible(row)
      BY StandingsRanked
    <3>2. \A d \in Eligible(row) : Standings(row)[d].leader <=> Leads(row[d], row[f])
      BY <3>1, StandingsRanked
    <3>3. ASSUME NEW c \in Eligible(row)
          PROVE  /\ Leads(row[f], row[f])
                 /\ Verdict(row[f], row[c]) # "faster"
                 /\ Leads(row[c], row[f]) <=> Verdict(row[f], row[c]) = "noise"
      <4>1. /\ row[f].median2 \in Nat /\ row[c].median2 \in Nat /\ row[f].median2 > 0
        BY <2>1, <3>1, RankableFacts
      <4>2. row[f].median2 <= row[c].median2
        BY <2>1, <3>1, FastestLeast
      <4> QED BY <4>1, <4>2, SameJudgment
    <3>4. Standings(row)[f].leader
      BY <3>1, <3>2, <3>3
    <3>5. \A c \in DOMAIN row : Standings(row)[c].verdict # "n/a" => c \in Eligible(row)
      BY StandingsRanked
    <3> QED BY <3>2, <3>3, <3>4, <3>5
  <2>2. \A b : Agree(RowOf(Rows(files), b))
    <3> HIDE DEF Agree
    <3> QED BY <1>1, <2>1, RowTyped DEF Named
  <2> QED BY <2>2, Zenon DEF RankingAgreesWithGate
<1> QED BY <1>1, NamedAlways, PTL
=============================================================================
