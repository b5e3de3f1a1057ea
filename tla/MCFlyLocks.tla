----------------------------- MODULE MCFlyLocks -----------------------------
(* Three campaigns whose resources form a ring, so that any two compete.     *)
EXTENDS FlyLocks, TLC

CONSTANTS k1, k2, k3

Ring == (k1 :> {1, 2}) @@ (k2 :> {2, 3}) @@ (k3 :> {1, 3})
OneDir == [c \in Campaigns |-> "runtime"]
=============================================================================
