------------------------------ MODULE MCNetlab ------------------------------
(* Terminals for TLC: two in one checkout, or two in the first of two checkouts. *)
EXTENDS Netlab, TLC

CONSTANTS c1, c2, t1, t2, t3

TwoInOne == (t1 :> c1) @@ (t2 :> c1)
ThreeInTwo == (t1 :> c1) @@ (t2 :> c1) @@ (t3 :> c2)

\* The two terminals of the first checkout are interchangeable.
Interchangeable == Permutations({t1, t2})
=============================================================================
