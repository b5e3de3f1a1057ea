---------------------------- MODULE AppOwnership ----------------------------
(***************************************************************************)
(* What the Fly lifecycle promises about one campaign's apps, with the     *)
(* processes, their copies of the state files and the requests left out:   *)
(* an app exists only under a file that names it, gets Machines only once  *)
(* its ID is recorded, is removed only if its ID was recorded, and a file  *)
(* is closed for good, only when its app is gone for good.                 *)
(***************************************************************************)
CONSTANT Experiments

VARIABLES
    record,     \* what the state file of each experiment says
    holding     \* what the campaign owns under its app name

vars == <<record, holding>>

TypeOK ==
    /\ record \in [Experiments -> {"none", "planned", "recorded", "closed"}]
    /\ holding \in [Experiments -> {"none", "bare", "running"}]

Init ==
    /\ record = [e \in Experiments |-> "none"]
    /\ holding = [e \in Experiments |-> "none"]

Plan(e) ==
    /\ record[e] = "none"
    /\ record' = [record EXCEPT ![e] = "planned"]
    /\ UNCHANGED holding

\* The plan is withdrawn as a whole, before any app exists.
Withdraw ==
    /\ \A e \in Experiments : record[e] \in {"none", "planned"} /\ holding[e] = "none"
    /\ record' = [e \in Experiments |-> "none"]
    /\ UNCHANGED holding

Create(e) ==
    /\ record[e] = "planned"
    /\ holding[e] = "none"
    /\ holding' = [holding EXCEPT ![e] = "bare"]
    /\ UNCHANGED record

Record(e) ==
    /\ record[e] = "planned"
    /\ holding[e] = "bare"
    /\ record' = [record EXCEPT ![e] = "recorded"]
    /\ UNCHANGED holding

AddMachines(e) ==
    /\ record[e] = "recorded"
    /\ holding[e] = "bare"
    /\ holding' = [holding EXCEPT ![e] = "running"]
    /\ UNCHANGED record

Remove(e) ==
    /\ record[e] = "recorded"
    /\ holding[e] # "none"
    /\ holding' = [holding EXCEPT ![e] = "none"]
    /\ UNCHANGED record

Close(e) ==
    /\ record[e] \in {"planned", "recorded"}
    /\ holding[e] = "none"
    /\ record' = [record EXCEPT ![e] = "closed"]
    /\ UNCHANGED holding

Next ==
    \/ Withdraw
    \/ \E e \in Experiments :
          \/ Plan(e) \/ Create(e) \/ Record(e) \/ AddMachines(e)
          \/ Remove(e) \/ Close(e)

Spec == Init /\ [][Next]_vars

=============================================================================
