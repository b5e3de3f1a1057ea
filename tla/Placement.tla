------------------------------ MODULE Placement ------------------------------
(***************************************************************************)
(* What a Fly campaign asks Fly for (src/syq_bench/fly.py): the plan with  *)
(* its peak of Machines, and the workers' way from `fly apps create` to a  *)
(* pair of Machines in the planned regions, each step under what is left   *)
(* of one time budget.  Time is counted per worker, in the steps' own      *)
(* durations.  flyctl may report success when Fly did a part of it only.   *)
(***************************************************************************)
EXTENDS Naturals, FiniteSets, FiniteSetsExt, Functions

CONSTANTS
    Experiments,    \* names of the experiments
    Regions,        \* Fly regions
    Campaigns,      \* campaign files as read
    CreateCap, FindCap, SecretsCap, ScaleCap, PollCap, SshCap   \* time limits of steps

Groups == {"source", "destination"}
Executions == {"local", "remote"}

ASSUME ConstantsOK ==
    /\ IsFiniteSet(Experiments)
    /\ \A c \in Campaigns :
          /\ c.max_parallel \in Nat /\ c.budget \in Nat /\ c.volumes \in BOOLEAN
          /\ c.primary \in Regions
          /\ c.execution \in [Experiments -> Executions]
          /\ c.region \in [Experiments -> [Groups -> Regions]]
    /\ {CreateCap, FindCap, SecretsCap, ScaleCap, PollCap, SshCap} \subseteq Nat

\* load_campaign and _load_fly_config: what is refused before anything is
\* created.  A volume cannot follow its Machine to another region.
Loads(c) ==
    /\ c.max_parallel > 0 /\ c.budget > 0
    /\ \A e \in Experiments :
          /\ c.execution[e] = "local" => c.region[e]["source"] = c.region[e]["destination"]
          /\ c.volumes => \A g \in Groups : c.region[e][g] = c.primary

VARIABLES
    campaign,   \* the campaign under way
    worker,     \* each experiment's worker process
    step,       \* the step of provision() it is in
    spent,      \* the time it has used
    app,        \* whether Fly has its app
    machines,   \* the Machines in that app: their groups and regions
    stranded    \* experiments whose worker ended without destroying its app (history)

vars == <<campaign, worker, step, spent, app, machines, stranded>>

Budget == campaign.budget
Primary == campaign.primary
Pair(e) == {<<g, campaign.region[e][g]>> : g \in Groups}
Deployed == {<<g, Primary>> : g \in Groups}
Moved(e) == {g \in Groups : campaign.region[e][g] # Primary}

\* Mutant: the replacements of moved groups are not counted.
peak_while_measuring(e) == Cardinality(Groups)

provision_peak_machines(e) == Cardinality(Groups) + Cardinality(Moved(e))

\* The plan's "peak Machines": the largest peaks that may coincide.
PlannedPeak ==
    LET all == Cardinality(Experiments)
        active == IF campaign.max_parallel < all THEN campaign.max_parallel ELSE all
        Peak(es) == SumFunction([e \in es |-> provision_peak_machines(e)])
    IN  Max({Peak(es) : es \in kSubset(active, Experiments)})

Init ==
    /\ campaign \in {c \in Campaigns : Loads(c)}
    /\ worker = [e \in Experiments |-> "pending"]
    /\ step = [e \in Experiments |-> "create"]
    /\ spent = [e \in Experiments |-> 0]
    /\ app = [e \in Experiments |-> FALSE]
    /\ machines = [e \in Experiments |-> {}]
    /\ stranded = {}

-----------------------------------------------------------------------------
(* The steps.                                                              *)

Moves == {"add source", "drop source", "add destination", "drop destination"}
Steps == {"create", "find", "secrets", "deploy", "scale", "pair", "ssh", "run"} \cup Moves

\* Steps after which the rest of the budget is looked at.
Checked == {"secrets", "deploy", "scale", "pair"} \cup Moves

AfterSource(e) == IF "destination" \in Moved(e) THEN "add destination" ELSE "pair"

After(e) ==
    CASE step[e] = "create" -> "find"
      [] step[e] = "find" -> "secrets"
      [] step[e] = "secrets" -> "deploy"
      [] step[e] = "deploy" -> "scale"
      [] step[e] = "scale" -> IF "source" \in Moved(e) THEN "add source" ELSE AfterSource(e)
      [] step[e] = "add source" -> "drop source"
      [] step[e] = "drop source" -> AfterSource(e)
      [] step[e] = "add destination" -> "drop destination"
      [] step[e] = "drop destination" -> "pair"
      [] step[e] = "pair" /\ campaign.execution[e] = "remote" -> "ssh"
      [] OTHER -> "run"

Least(a, b) == IF a < b THEN a ELSE b

\* Mutant: the wait for SSH has its own limit only.
FixedLimit(e) ==
    CASE step[e] = "create" -> Least(Budget, CreateCap)
      [] step[e] = "find" -> FindCap
      [] step[e] = "secrets" -> SecretsCap
      [] step[e] = "deploy" -> Budget - spent[e]
      [] step[e] \in {"scale", "pair"} \cup Moves -> Least(Budget - spent[e], ScaleCap)
      [] step[e] = "ssh" -> SshCap
      [] OTHER -> 0

\* The time limit of the step; that of the run itself is its own.
Limit(e) ==
    CASE step[e] = "create" -> Least(Budget, CreateCap)
      [] step[e] = "find" -> FindCap
      [] step[e] = "secrets" -> SecretsCap
      [] step[e] = "deploy" -> Budget - spent[e]
      [] step[e] \in {"scale", "pair"} \cup Moves -> Least(Budget - spent[e], ScaleCap)
      [] step[e] = "ssh" -> Least(Budget - spent[e], SshCap)
      [] OTHER -> 0

\* The last poll for the pair may begin at the limit.
Durations(e) == 0..(Limit(e) + IF step[e] = "pair" THEN PollCap ELSE 0)

\* Mutant: both replacements are created where the destination belongs.
WantedThere(e) ==
    LET there == campaign.region[e]["destination"] IN
    CASE step[e] \in {"deploy", "scale"} -> machines[e] \cup Deployed
      [] step[e] = "add source" -> machines[e] \cup {<<"source", there>>}
      [] step[e] = "drop source" -> machines[e] \ {<<"source", Primary>>}
      [] step[e] = "add destination" -> machines[e] \cup {<<"destination", there>>}
      [] step[e] = "drop destination" -> machines[e] \ {<<"destination", Primary>>}
      [] OTHER -> machines[e]

\* What flyctl asks for in this step.
Wanted(e) ==
    CASE step[e] \in {"deploy", "scale"} -> machines[e] \cup Deployed
      [] step[e] = "add source" -> machines[e] \cup {<<"source", campaign.region[e]["source"]>>}
      [] step[e] = "drop source" -> machines[e] \ {<<"source", Primary>>}
      [] step[e] = "add destination" ->
            machines[e] \cup {<<"destination", campaign.region[e]["destination"]>>}
      [] step[e] = "drop destination" -> machines[e] \ {<<"destination", Primary>>}
      [] OTHER -> machines[e]

-----------------------------------------------------------------------------
(* A worker.                                                               *)

Up(e) == worker[e] \in {"up", "cleanup"}

\* ReFrame starts the next worker: at most max_parallel at once.
Start(e) ==
    /\ worker[e] = "pending"
    /\ Cardinality({x \in Experiments : Up(x)}) < campaign.max_parallel
    /\ worker' = [worker EXCEPT ![e] = "up"]
    /\ UNCHANGED <<campaign, step, spent, app, machines, stranded>>

\* Fly does what the step's flyctl asks for, one Machine at a time.
Serve(e) ==
    /\ worker[e] = "up"
    /\ \/ /\ step[e] = "create" /\ ~app[e]
          /\ app' = [app EXCEPT ![e] = TRUE]
          /\ UNCHANGED machines
       \/ /\ app[e]
          /\ \/ \E m \in Wanted(e) \ machines[e] :
                    machines' = [machines EXCEPT ![e] = @ \cup {m}]
             \/ \E m \in machines[e] \ Wanted(e) :
                    machines' = [machines EXCEPT ![e] = @ \ {m}]
          /\ UNCHANGED app
    /\ UNCHANGED <<campaign, worker, step, spent, stranded>>

\* Mutant: _wait_for_machine_pair does not count the Machines.
PairAmong(e) ==
    CASE step[e] \in {"find", "secrets"} -> app[e]
      [] step[e] \in {"pair", "ssh"} -> Pair(e) \subseteq machines[e]
      [] OTHER -> TRUE

\* What must hold for the step to succeed, whatever flyctl said before.
Succeeds(e) ==
    CASE step[e] \in {"find", "secrets"} -> app[e]
      [] step[e] = "pair" -> machines[e] = Pair(e)
      [] step[e] = "ssh" -> Pair(e) \subseteq machines[e]
      [] OTHER -> TRUE

\* The step succeeds: the next one, unless the budget is used up.
Return(e) ==
    /\ worker[e] = "up" /\ Succeeds(e)
    /\ \E d \in Durations(e) :
          /\ spent' = [spent EXCEPT ![e] = @ + d]
          /\ IF step[e] = "run" \/ (step[e] \in Checked /\ spent[e] + d >= Budget)
             THEN worker' = [worker EXCEPT ![e] = "cleanup"] /\ UNCHANGED step
             ELSE step' = [step EXCEPT ![e] = After(e)] /\ UNCHANGED worker
    /\ UNCHANGED <<campaign, app, machines, stranded>>

\* It fails or its time limit is over; a live flyctl is stopped.
Fail(e) ==
    /\ worker[e] = "up"
    /\ \E d \in Durations(e) : spent' = [spent EXCEPT ![e] = @ + d]
    /\ worker' = [worker EXCEPT ![e] = "cleanup"]
    /\ UNCHANGED <<campaign, step, app, machines, stranded>>

\* The worker's `finally` destroys the app with its Machines, or cannot;
\* then the process and its variables are gone.
Clean(e) ==
    /\ worker[e] = "cleanup"
    /\ worker' = [worker EXCEPT ![e] = "done"]
    /\ step' = [step EXCEPT ![e] = "create"] /\ spent' = [spent EXCEPT ![e] = 0]
    /\ \/ /\ app' = [app EXCEPT ![e] = FALSE]
          /\ machines' = [machines EXCEPT ![e] = {}]
          /\ UNCHANGED stranded
       \/ /\ stranded' = stranded \cup {e}
          /\ UNCHANGED <<app, machines>>
    /\ UNCHANGED campaign

Work(e) == Serve(e) \/ Return(e) \/ Fail(e) \/ Clean(e)

Ended == (\A e \in Experiments : worker[e] = "done") /\ UNCHANGED vars

Next == (\E e \in Experiments : Start(e) \/ Work(e)) \/ Ended

Spec == Init /\ [][Next]_vars

-----------------------------------------------------------------------------
(* Properties.                                                             *)

\* Every variable keeps its type; every Machine is in the primary region or
\* where its group is to be measured.
TypeOK ==
    /\ campaign \in Campaigns
    /\ worker \in [Experiments -> {"pending", "up", "cleanup", "done"}]
    /\ step \in [Experiments -> Steps]
    /\ spent \in [Experiments -> Nat]
    /\ app \in [Experiments -> BOOLEAN]
    /\ DOMAIN machines = Experiments
    /\ \A e \in Experiments : machines[e] \subseteq Deployed \cup Pair(e)
    /\ stranded \subseteq Experiments

\* The largest overrun, the stopping of a late flyctl aside: `fly apps list` and
\* the SSH key are not under the budget, and the last poll for the pair may begin
\* just before it ends.
Overrun == IF FindCap + SecretsCap > PollCap THEN FindCap + SecretsCap ELSE PollCap

\* A worker that may measure got its Machines within the campaign's budget, and
\* one that may not stops asking for them soon after it.
WithinBudget ==
    \A e \in Experiments :
        /\ spent[e] <= Budget + Overrun
        /\ step[e] = "run" => spent[e] <= Budget

Machines(es) == SumFunction([e \in es |-> Cardinality(machines[e])])

\* Except for apps whose destruction failed, there are never more Machines than
\* the plan the user accepted shows, in the middle of any move.
PeakAsPlanned == Machines(Experiments \ stranded) <= PlannedPeak

\* Whatever flyctl reported, a worker goes on to measure only when its app has
\* exactly one Machine per group, in the planned region.
MeasuredAsPlanned ==
    [][\A e \in Experiments :
          step[e] # "run" /\ step'[e] = "run" => machines'[e] = Pair(e)]_vars

=============================================================================
