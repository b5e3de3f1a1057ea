------------------------------ MODULE MCPlacement ------------------------------
(* Campaign files for TLC: regions h (primary) and r, s. *)
EXTENDS Placement, TLC

CONSTANTS stay, near, far

Campaign(parallel, budget, volumes, regions, execution) ==
    [max_parallel |-> parallel, budget |-> budget, volumes |-> volumes, primary |-> "h",
     region |-> regions, execution |-> execution]

Pairing(a, b) == [g \in Groups |-> IF g = "source" THEN a ELSE b]

\* One experiment moves a group, the other both; or none moves, on volumes.
Moving == stay :> Pairing("h", "h") @@ near :> Pairing("h", "r") @@ far :> Pairing("r", "s")
Staying == [e \in {stay, near, far} |-> Pairing("h", "h")]
Executed(a, b) == stay :> "local" @@ near :> a @@ far :> b

Files == {Campaign(2, 1, FALSE, Moving, Executed("remote", "remote")),
          Campaign(1, 2, FALSE, Moving, Executed("remote", "remote")),
          Campaign(2, 2, TRUE, Staying, Executed("local", "remote")),
          Campaign(2, 2, TRUE, Moving, Executed("remote", "remote")),
          Campaign(2, 2, FALSE, Moving, Executed("local", "local"))}
=============================================================================
