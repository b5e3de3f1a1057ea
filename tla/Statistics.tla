----------------------------- MODULE Statistics -----------------------------
(* Order statistics of non-empty finite families of naturals: sequences, or *)
(* functions on any other finite set.                                       *)
EXTENDS Naturals, Sequences, FiniteSets

Size(s) == Cardinality(DOMAIN s)

\* Where the entries are less than x, and where they are not greater.
LessThan(s, x) == {i \in DOMAIN s : s[i] < x}
AtMost(s, x) == {i \in DOMAIN s : s[i] <= x}

\* The k-th smallest entry.
Kth(s, k) ==
    CHOOSE x \in {s[i] : i \in DOMAIN s} :
        Cardinality(LessThan(s, x)) < k /\ k <= Cardinality(AtMost(s, x))

Shortest(s) == Kth(s, 1)
Longest(s) == Kth(s, Size(s))

\* Twice the median, which keeps it a natural.
TwiceMedian(s) == Kth(s, (Size(s) + 1) \div 2) + Kth(s, Size(s) \div 2 + 1)
=============================================================================
