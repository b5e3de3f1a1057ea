--------------------------- MODULE PlacementProofs ---------------------------
(* For any campaigns, regions and time limits: a worker measures on the       *)
(* Machines that were planned, within the time that was budgeted, and never   *)
(* has more Machines than the plan counts for it.                             *)
EXTENDS Placement, Counting

Caps == {CreateCap, FindCap, SecretsCap, ScaleCap, PollCap, SshCap}

LEMMA InitTyped == Init => TypeOK
BY ConstantsOK DEF Init, TypeOK, Steps

\* A step's time is a number, at most its limit and for "pair" one poll more.
LEMMA Timing ==
    ASSUME TypeOK, NEW e \in Experiments, NEW d \in Durations(e)
    PROVE  /\ d \in Nat /\ Limit(e) \in Int
           /\ d <= Limit(e) + IF step[e] = "pair" THEN PollCap ELSE 0
<1>1. Budget \in Nat /\ spent[e] \in Nat /\ Caps \subseteq Nat
  BY ConstantsOK DEF TypeOK, Budget, Caps
<1>2. Limit(e) \in Int
  BY <1>1 DEF Limit, Least, Caps
<1> QED
  BY <1>1, <1>2 DEF Durations, Caps

LEMMA WantedKnown ==
    ASSUME TypeOK, NEW e \in Experiments
    PROVE  Wanted(e) \subseteq Deployed \cup Pair(e)
<1>1. machines[e] \subseteq Deployed \cup Pair(e)
  BY DEF TypeOK
<1>2. \A g \in Groups : <<g, campaign.region[e][g]>> \in Pair(e)
  BY DEF Pair
<1>3. "source" \in Groups /\ "destination" \in Groups
  BY DEF Groups
<1> QED
  BY <1>1, <1>2, <1>3 DEF Wanted

LEMMA NextTyped == TypeOK /\ [Next]_vars => TypeOK'
<1> SUFFICES ASSUME TypeOK, [Next]_vars PROVE TypeOK'
  OBVIOUS
<1>1. ASSUME NEW e \in Experiments, Start(e) PROVE TypeOK'
  BY <1>1 DEF Start, TypeOK, Deployed, Pair, Primary
<1>2. ASSUME NEW e \in Experiments, Serve(e) PROVE TypeOK'
  <2>1. Wanted(e) \subseteq Deployed \cup Pair(e)
    BY WantedKnown
  <2>2. machines'[e] \subseteq machines[e] \cup Wanted(e) /\ DOMAIN machines' = Experiments
    BY <1>2 DEF Serve, TypeOK
  <2>3. \A x \in Experiments \ {e} : machines'[x] = machines[x]
    BY <1>2 DEF Serve, TypeOK
  <2>4. \A x \in Experiments : machines'[x] \subseteq Deployed \cup Pair(x)
    BY <2>1, <2>2, <2>3 DEF TypeOK
  <2>5. app' \in [Experiments -> BOOLEAN]
    BY <1>2 DEF Serve, TypeOK
  <2>6. UNCHANGED <<campaign, worker, step, spent, stranded>>
    BY <1>2 DEF Serve
  <2> QED
    BY <2>2, <2>4, <2>5, <2>6 DEF TypeOK, Deployed, Pair, Primary
<1>3. ASSUME NEW e \in Experiments, Return(e) PROVE TypeOK'
  <2>1. PICK d \in Durations(e) : spent' = [spent EXCEPT ![e] = @ + d]
    BY <1>3 DEF Return
  <2>2. spent' \in [Experiments -> Nat]
    BY <2>1, Timing DEF TypeOK
  <2>3. After(e) \in Steps
    BY DEF After, AfterSource, Steps, Moves
  <2>4. step' \in [Experiments -> Steps]
        /\ worker' \in [Experiments -> {"pending", "up", "cleanup", "done"}]
    BY <1>3, <2>3 DEF Return, TypeOK
  <2>5. UNCHANGED <<campaign, app, machines, stranded>>
    BY <1>3 DEF Return
  <2> QED
    BY <2>2, <2>4, <2>5 DEF TypeOK, Deployed, Pair, Primary
<1>4. ASSUME NEW e \in Experiments, Fail(e) PROVE TypeOK'
  <2>1. PICK d \in Durations(e) : spent' = [spent EXCEPT ![e] = @ + d]
    BY <1>4 DEF Fail
  <2>2. spent' \in [Experiments -> Nat]
    BY <2>1, Timing DEF TypeOK
  <2> QED
    BY <1>4, <2>2 DEF Fail, TypeOK, Deployed, Pair, Primary
<1>5. ASSUME NEW e \in Experiments, Clean(e) PROVE TypeOK'
  <2>1. step' \in [Experiments -> Steps] /\ spent' \in [Experiments -> Nat]
    BY <1>5 DEF Clean, TypeOK, Steps
  <2>2. DOMAIN machines' = Experiments
        /\ \A x \in Experiments : machines'[x] \subseteq Deployed \cup Pair(x)
    BY <1>5 DEF Clean, TypeOK
  <2>3. campaign' = campaign /\ worker' \in [Experiments -> {"pending", "up", "cleanup", "done"}]
        /\ app' \in [Experiments -> BOOLEAN] /\ stranded' \subseteq Experiments
    BY <1>5 DEF Clean, TypeOK
  <2> QED
    BY <2>1, <2>2, <2>3 DEF TypeOK, Deployed, Pair, Primary
<1>6. CASE UNCHANGED vars
  BY <1>6 DEF vars, TypeOK, Deployed, Pair, Primary
<1> QED
  BY <1>1, <1>2, <1>3, <1>4, <1>5, <1>6 DEF Next, Work, Ended

\* TypeOK holds: in particular every Machine is in the primary region or where
\* its group is to be measured.
THEOREM TypeCorrect == Spec => []TypeOK
BY InitTyped, NextTyped, PTL DEF Spec

-----------------------------------------------------------------------------
(* The budget.  Each step but the first two starts only with something left.  *)

Allowed(e) ==
    /\ step[e] = "create" => spent[e] = 0
    /\ step[e] \in {"find", "run"} => spent[e] <= Budget
    /\ step[e] = "secrets" => spent[e] <= Budget + FindCap
    /\ step[e] \notin {"create", "find", "secrets", "run"} => spent[e] < Budget

Frugal(e) ==
    /\ worker[e] # "cleanup" => Allowed(e)
    /\ worker[e] \in {"pending", "done"} => step[e] = "create"
    /\ worker[e] = "cleanup" =>
          spent[e] <= Budget + Overrun /\ (step[e] = "run" => spent[e] <= Budget)
    /\ worker[e] = "up" /\ step[e] = "ssh" => machines[e] = Pair(e)

BudgetInv == TypeOK /\ \A e \in Experiments : Frugal(e)

\* What the step takes leaves the worker within the budget, or soon after it.
LEMMA SpentAfter ==
    ASSUME BudgetInv, NEW e \in Experiments, worker[e] = "up", NEW d \in Durations(e)
    PROVE  /\ spent[e] + d \in Nat
           /\ spent[e] + d <= Budget + Overrun
           /\ step[e] \in {"create", "run", "ssh"} => spent[e] + d <= Budget
           /\ step[e] = "find" => spent[e] + d <= Budget + FindCap
<1>1. Budget \in Nat /\ spent[e] \in Nat /\ Caps \subseteq Nat /\ step[e] \in Steps
  BY ConstantsOK DEF BudgetInv, TypeOK, Budget, Caps
<1>2. d \in Nat /\ Limit(e) \in Int /\ d <= Limit(e) + IF step[e] = "pair" THEN PollCap ELSE 0
  BY Timing DEF BudgetInv
<1>3. Overrun \in Nat /\ FindCap + SecretsCap <= Overrun /\ PollCap <= Overrun
  BY <1>1 DEF Overrun, Caps
<1>4. Allowed(e)
  BY DEF BudgetInv, Frugal
<1>5. /\ step[e] = "create" => Limit(e) <= Budget
      /\ step[e] = "find" => Limit(e) = FindCap
      /\ step[e] = "secrets" => Limit(e) = SecretsCap
      /\ step[e] = "run" => Limit(e) = 0
  <2>1. step[e] = "create" => Limit(e) <= Budget
    BY <1>1 DEF Limit, Least, Caps
  <2>2. step[e] = "find" => Limit(e) = FindCap
    BY DEF Limit, Moves
  <2>3. step[e] = "secrets" => Limit(e) = SecretsCap
    BY DEF Limit, Moves
  <2>4. step[e] = "run" => Limit(e) = 0
    BY DEF Limit, Moves
  <2> QED
    BY <2>1, <2>2, <2>3, <2>4
<1>6. step[e] \notin {"create", "find", "secrets", "run"} => Limit(e) <= Budget - spent[e]
  <2>1. \A x, y \in Int : Least(x, y) <= x
    BY DEF Least
  <2>2. Budget - spent[e] \in Int /\ ScaleCap \in Int /\ SshCap \in Int
    BY <1>1 DEF Caps
  <2>3. step[e] \notin {"create", "find", "secrets", "run"} =>
           Limit(e) \in {Budget - spent[e], Least(Budget - spent[e], ScaleCap),
                         Least(Budget - spent[e], SshCap)}
    BY <1>1 DEF Limit, Moves, Steps
  <2> QED
    BY <2>1, <2>2, <2>3
<1>7. FindCap \in Nat /\ SecretsCap \in Nat /\ PollCap \in Nat
  BY <1>1 DEF Caps
<1> QED
  BY <1>1, <1>2, <1>3, <1>4, <1>5, <1>6, <1>7 DEF Allowed

\* A step of worker e leaves the others alone.
LEMMA OthersFrugal ==
    ASSUME BudgetInv, NEW e \in Experiments, Start(e) \/ Work(e),
           NEW x \in Experiments, x # e
    PROVE  Frugal(x)'
<1>1. /\ campaign' = campaign /\ worker'[x] = worker[x] /\ step'[x] = step[x]
      /\ spent'[x] = spent[x] /\ machines'[x] = machines[x]
  BY DEF BudgetInv, TypeOK, Start, Work, Serve, Return, Fail, Clean
<1>2. Frugal(x)
  BY DEF BudgetInv
<1> QED
  BY <1>1, <1>2 DEF Frugal, Allowed, Pair, Budget

LEMMA AfterSteps ==
    ASSUME NEW e \in Experiments, step[e] \in Steps
    PROVE  /\ step[e] = "create" => After(e) = "find"
           /\ step[e] = "find" => After(e) = "secrets"
           /\ step[e] = "ssh" => After(e) = "run"
           /\ step[e] \in Checked => After(e) \notin {"create", "find", "secrets"}
           /\ After(e) = "ssh" => step[e] = "pair"
           /\ After(e) = "run" => step[e] \in {"pair", "ssh", "run"}
<1>1. AfterSource(e) \in {"add destination", "pair"}
  BY DEF AfterSource
<1>2. CASE step[e] \in {"create", "find", "secrets", "deploy"}
  BY <1>2 DEF After, Checked, Moves
<1>3. CASE step[e] \in {"scale", "pair"}
  BY <1>1, <1>3 DEF After, Checked, Moves
<1>4. CASE step[e] \in Moves
  BY <1>1, <1>4 DEF After, Checked, Moves
<1>5. CASE step[e] \in {"ssh", "run"}
  BY <1>5 DEF After, Checked, Moves
<1> QED
  BY <1>2, <1>3, <1>4, <1>5 DEF Steps

LEMMA ReturnFrugal ==
    ASSUME BudgetInv, NEW e \in Experiments, Return(e)
    PROVE  Frugal(e)'
<1>1. worker[e] = "up" /\ campaign' = campaign /\ machines' = machines
      /\ Budget \in Nat /\ step[e] \in Steps
  BY ConstantsOK DEF Return, BudgetInv, TypeOK, Budget
<1>2. PICK d \in Durations(e) :
         /\ spent' = [spent EXCEPT ![e] = @ + d]
         /\ IF step[e] = "run" \/ (step[e] \in Checked /\ spent[e] + d >= Budget)
            THEN worker' = [worker EXCEPT ![e] = "cleanup"] /\ UNCHANGED step
            ELSE step' = [step EXCEPT ![e] = After(e)] /\ UNCHANGED worker
  BY DEF Return
<1>3. spent'[e] = spent[e] + d /\ spent'[e] \in Nat
  BY <1>1, <1>2, SpentAfter DEF BudgetInv, TypeOK
<1>4. CASE step[e] = "run" \/ (step[e] \in Checked /\ spent[e] + d >= Budget)
  <2>1. worker'[e] = "cleanup" /\ step'[e] = step[e]
    BY <1>2, <1>4 DEF BudgetInv, TypeOK
  <2>2. step[e] = "run" => spent'[e] <= Budget
    BY <1>1, <1>3, SpentAfter
  <2> QED
    BY <1>1, <1>3, <2>1, <2>2, SpentAfter DEF Frugal, Budget
<1>5. CASE ~(step[e] = "run" \/ (step[e] \in Checked /\ spent[e] + d >= Budget))
  <2>1. worker'[e] = "up" /\ step'[e] = After(e)
    BY <1>1, <1>2, <1>5 DEF BudgetInv, TypeOK
  <2>2. step[e] \in Checked => spent'[e] < Budget
    BY <1>1, <1>3, <1>5
  <2>3. Allowed(e)'
    <3>0. /\ step[e] = "create" => After(e) = "find"
          /\ step[e] = "find" => After(e) = "secrets"
          /\ step[e] = "ssh" => After(e) = "run"
          /\ step[e] \in Checked => After(e) \notin {"create", "find", "secrets"}
      BY <1>1, AfterSteps
    <3>1. CASE step[e] \in {"create", "find"}
      BY <1>1, <1>3, <2>1, <3>0, <3>1, SpentAfter DEF Allowed, Budget
    <3>2. CASE step[e] \in Checked
      BY <1>1, <1>3, <2>1, <2>2, <3>0, <3>2 DEF Allowed, Budget
    <3>3. CASE step[e] = "ssh"
      BY <1>1, <1>3, <2>1, <3>0, <3>3, SpentAfter DEF Allowed, Budget
    <3> QED
      BY <1>1, <1>5, <3>1, <3>2, <3>3 DEF Steps, Checked
  <2>4. step'[e] = "ssh" => machines'[e] = Pair(e)'
    <3>1. After(e) = "ssh" => step[e] = "pair"
      BY <1>1, AfterSteps
    <3>2. step[e] = "pair" => machines[e] = Pair(e)
      BY DEF Return, Succeeds
    <3> QED
      BY <1>1, <2>1, <3>1, <3>2 DEF Pair
  <2> QED
    BY <2>1, <2>3, <2>4 DEF Frugal
<1> QED
  BY <1>4, <1>5

LEMMA NextFrugal == BudgetInv /\ [Next]_vars => BudgetInv'
<1> SUFFICES ASSUME BudgetInv, [Next]_vars PROVE BudgetInv'
  OBVIOUS
<1>1. TypeOK'
  BY NextTyped DEF BudgetInv
<1>2. ASSUME NEW e \in Experiments, Start(e) \/ Work(e) PROVE Frugal(e)'
  <2>1. Frugal(e) /\ TypeOK
    BY DEF BudgetInv
  <2>2. CASE Start(e)
    BY <2>1, <2>2 DEF Start, Frugal, Allowed, TypeOK, Budget, Pair
  <2>3. CASE Serve(e)
    <3>1. /\ UNCHANGED <<campaign, worker, step, spent>> /\ worker[e] = "up"
      BY <2>3 DEF Serve
    <3>2. step[e] = "ssh" => machines'[e] = machines[e]
      BY <2>1, <2>3 DEF Serve, Wanted, TypeOK
    <3> QED
      BY <2>1, <3>1, <3>2 DEF Frugal, Allowed, Budget, Pair
  <2>4. CASE Return(e)
    BY <2>4, ReturnFrugal
  <2>5. CASE Fail(e)
    <3>1. PICK d \in Durations(e) : spent' = [spent EXCEPT ![e] = @ + d]
      BY <2>5 DEF Fail
    <3>2. /\ worker[e] = "up" /\ worker'[e] = "cleanup" /\ step' = step /\ campaign' = campaign
          /\ spent'[e] = spent[e] + d
      BY <2>1, <2>5, <3>1 DEF Fail, TypeOK
    <3> QED
      BY <3>2, SpentAfter DEF Frugal, Budget
  <2>6. CASE Clean(e)
    <3>1. worker'[e] = "done" /\ step'[e] = "create" /\ spent'[e] = 0
      BY <2>1, <2>6 DEF Clean, TypeOK
    <3> QED
      BY <3>1 DEF Frugal, Allowed
  <2> QED
    BY <1>2, <2>2, <2>3, <2>4, <2>5, <2>6 DEF Work
<1>3. ASSUME NEW e \in Experiments, Start(e) \/ Work(e) PROVE BudgetInv'
  BY <1>1, <1>2, <1>3, OthersFrugal DEF BudgetInv
<1>4. CASE UNCHANGED vars
  <2>1. \A e \in Experiments : Frugal(e)'
    BY <1>4 DEF vars, BudgetInv, Frugal, Allowed, Budget, Pair
  <2> QED
    BY <1>1, <2>1 DEF BudgetInv
<1> QED
  BY <1>3, <1>4 DEF Next, Ended

LEMMA InitFrugal == Init => BudgetInv
BY InitTyped DEF Init, BudgetInv, Frugal, Allowed

\* A worker that may measure is within the campaign's budget, and one that is
\* not stops asking for Machines at most Overrun after it.
THEOREM BudgetIsKept == Spec => []WithinBudget
<1>1. ASSUME BudgetInv, NEW e \in Experiments
      PROVE  spent[e] <= Budget + Overrun /\ (step[e] = "run" => spent[e] <= Budget)
  <2>1. Budget \in Nat /\ spent[e] \in Nat /\ Caps \subseteq Nat
        /\ worker[e] \in {"pending", "up", "cleanup", "done"} /\ Frugal(e)
    BY <1>1, ConstantsOK DEF BudgetInv, TypeOK, Budget, Caps
  <2>2. Overrun \in Nat /\ FindCap <= Overrun
    BY <2>1 DEF Overrun, Caps
  <2> QED
    BY <2>1, <2>2 DEF Frugal, Allowed, Caps
<1>2. BudgetInv => WithinBudget
  BY <1>1 DEF WithinBudget
<1> QED
  BY InitFrugal, NextFrugal, <1>2, PTL DEF Spec

\* A worker goes on to measure only with exactly one Machine per group, each in
\* the planned region, whatever flyctl reported.
THEOREM MeasuresAsPlanned == Spec => MeasuredAsPlanned
<1>1. ASSUME BudgetInv, Next, NEW e \in Experiments, step[e] # "run", step'[e] = "run"
      PROVE  machines'[e] = Pair(e)
  <2>1. PICK x \in Experiments : Return(x)
    BY <1>1 DEF Next, Ended, Start, Work, Serve, Fail, Clean, vars, BudgetInv, TypeOK
  <2>2. x = e /\ worker[e] = "up" /\ machines' = machines /\ Succeeds(e) /\ After(e) = "run"
    BY <1>1, <2>1 DEF Return, BudgetInv, TypeOK
  <2>3. step[e] \in {"pair", "ssh"}
    BY <1>1, <2>2, AfterSteps DEF BudgetInv, TypeOK
  <2>4. CASE step[e] = "pair"
    BY <2>2, <2>4 DEF Succeeds
  <2>5. CASE step[e] = "ssh"
    BY <1>1, <2>2, <2>5 DEF BudgetInv, Frugal
  <2> QED
    BY <2>3, <2>4, <2>5
<1>2. BudgetInv /\ [Next]_vars =>
        [\A e \in Experiments :
            step[e] # "run" /\ step'[e] = "run" => machines'[e] = Pair(e)]_vars
  BY <1>1
<1> QED
  BY InitFrugal, NextFrugal, <1>2, PTL DEF Spec, MeasuredAsPlanned

-----------------------------------------------------------------------------
(* The share of one worker in the plan's peak.                                *)

LEMMA CountPair ==
    ASSUME NEW x, NEW y, x # y
    PROVE  IsFiniteSet({x, y}) /\ Cardinality({x, y}) = 2
<1>1. IsFiniteSet({x}) /\ Cardinality({x}) = 1
  BY FS_Singleton
<1>2. {x, y} = {x} \cup {y} /\ y \notin {x}
  OBVIOUS
<1> QED
  BY <1>1, <1>2, FS_AddElement

LEMMA CountRegions ==
    ASSUME campaign \in Campaigns, NEW e \in Experiments
    PROVE  /\ IsFiniteSet(Deployed \cup Pair(e))
           /\ Cardinality(Deployed \cup Pair(e)) = provision_peak_machines(e)
<1> DEFINE s == campaign.region[e]["source"]
           d == campaign.region[e]["destination"]
<1>1. Deployed = {<<"source", Primary>>, <<"destination", Primary>>}
  BY DEF Deployed, Groups
<1>2. Pair(e) = {<<"source", s>>, <<"destination", d>>}
  BY DEF Pair, Groups
<1>3. Cardinality(Groups) = 2
  BY CountPair DEF Groups
<1>4. IsFiniteSet(Deployed) /\ Cardinality(Deployed) = 2
  BY <1>1, CountPair
<1> DEFINE S == Deployed \cup {<<"source", s>>}
<1>5. IsFiniteSet(S) /\ Cardinality(S) = IF s = Primary THEN 2 ELSE 3
  <2>1. <<"source", s>> \in Deployed <=> s = Primary
    BY <1>1
  <2>2. /\ IsFiniteSet(S)
        /\ Cardinality(S) = IF <<"source", s>> \in Deployed THEN Cardinality(Deployed)
                             ELSE Cardinality(Deployed) + 1
    BY <1>4, FS_AddElement
  <2> QED
    BY <1>4, <2>1, <2>2
<1>6. Deployed \cup Pair(e) = S \cup {<<"destination", d>>}
  BY <1>2
<1>7. <<"destination", d>> \in S <=> d = Primary
  BY <1>1
<1>8. /\ IsFiniteSet(S \cup {<<"destination", d>>})
      /\ Cardinality(S \cup {<<"destination", d>>}) =
            (IF s = Primary THEN 2 ELSE 3) + (IF d = Primary THEN 0 ELSE 1)
  <2> HIDE DEF S
  <2>1. /\ IsFiniteSet(S \cup {<<"destination", d>>})
        /\ Cardinality(S \cup {<<"destination", d>>}) =
              IF <<"destination", d>> \in S THEN Cardinality(S) ELSE Cardinality(S) + 1
    BY <1>5, FS_AddElement
  <2> QED
    BY <1>5, <1>7, <2>1
<1>9. Moved(e) = {g \in Groups : campaign.region[e][g] # Primary}
  BY DEF Moved
<1>10. Cardinality(Moved(e)) = (IF s = Primary THEN 0 ELSE 1) + (IF d = Primary THEN 0 ELSE 1)
  <2>1. CASE s = Primary /\ d = Primary
    <3>1. Moved(e) = {}
      BY <1>9, <2>1 DEF Groups
    <3> QED
      BY <2>1, <3>1, FS_EmptySet
  <2>2. CASE s = Primary /\ d # Primary
    <3>1. Moved(e) = {"destination"}
      BY <1>9, <2>2 DEF Groups
    <3>2. Cardinality({"destination"}) = 1
      BY FS_Singleton
    <3> QED
      BY <2>2, <3>1, <3>2
  <2>3. CASE s # Primary /\ d = Primary
    <3>1. Moved(e) = {"source"}
      BY <1>9, <2>3 DEF Groups
    <3> QED
      BY <2>3, <3>1, FS_Singleton
  <2>4. CASE s # Primary /\ d # Primary
    <3>1. Moved(e) = Groups
      BY <1>9, <2>4 DEF Groups
    <3> QED
      BY <1>3, <2>4, <3>1
  <2> QED
    BY <2>1, <2>2, <2>3, <2>4
<1> QED
  BY <1>3, <1>6, <1>8, <1>10 DEF provision_peak_machines

\* A worker's Machines are no more than the plan counts for it.
LEMMA OnePeak ==
    ASSUME TypeOK, NEW e \in Experiments
    PROVE  /\ Cardinality(machines[e]) \in Nat /\ provision_peak_machines(e) \in Nat
           /\ IsFiniteSet(machines[e])
           /\ Cardinality(machines[e]) <= provision_peak_machines(e)
<1>1. campaign \in Campaigns /\ machines[e] \in SUBSET (Deployed \cup Pair(e))
  BY DEF TypeOK
<1>2. /\ IsFiniteSet(Deployed \cup Pair(e))
      /\ Cardinality(Deployed \cup Pair(e)) = provision_peak_machines(e)
  BY <1>1, CountRegions
<1>3. Cardinality(machines[e]) <= Cardinality(Deployed \cup Pair(e)) /\ IsFiniteSet(machines[e])
  BY <1>1, <1>2, FS_Subset
<1> QED
  BY <1>2, <1>3, FS_CardinalityType

\* No worker ever has more Machines than the plan counts for it, not even in the
\* middle of a move.
THEOREM PeakOfOne ==
    Spec => [](\A e \in Experiments : Cardinality(machines[e]) <= provision_peak_machines(e))
<1>1. TypeOK => \A e \in Experiments : Cardinality(machines[e]) <= provision_peak_machines(e)
  BY OnePeak
<1> QED
  BY <1>1, TypeCorrect, PTL

-----------------------------------------------------------------------------
(* The peak of the campaign.                                               *)

Crowd == {e \in Experiments : Up(e)}

\* No more workers are up than may be, and only they have Machines, but for the
\* apps that could not be destroyed.
PeakInv ==
    /\ TypeOK
    /\ Cardinality(Crowd) <= campaign.max_parallel
    /\ \A e \in Experiments \ stranded : machines[e] # {} => Up(e)

\* Where nobody comes up, there is room for those who are.
LEMMA CrowdShrinks ==
    ASSUME PeakInv, campaign' = campaign, Crowd' \subseteq Crowd
    PROVE  (Cardinality(Crowd) <= campaign.max_parallel)'
<1>1. IsFiniteSet(Crowd)
  BY ConstantsOK, FS_Subset DEF Crowd
<1>2. Cardinality(Crowd') <= Cardinality(Crowd) /\ IsFiniteSet(Crowd')
  BY <1>1, FS_Subset
<1>3. Cardinality(Crowd) \in Nat /\ Cardinality(Crowd') \in Nat /\ campaign.max_parallel \in Nat
  BY <1>1, <1>2, ConstantsOK, FS_CardinalityType DEF PeakInv, TypeOK
<1> QED
  BY <1>2, <1>3 DEF PeakInv

LEMMA InitPeak == Init => PeakInv
<1> SUFFICES ASSUME Init PROVE PeakInv
  OBVIOUS
<1>1. Crowd = {}
  BY DEF Init, Crowd, Up
<1>2. TypeOK /\ campaign.max_parallel \in Nat
  BY InitTyped, ConstantsOK DEF TypeOK
<1> QED
  BY <1>1, <1>2, FS_EmptySet DEF Init, PeakInv

LEMMA NextPeak == PeakInv /\ [Next]_vars => PeakInv'
<1> SUFFICES ASSUME PeakInv, [Next]_vars PROVE PeakInv'
  OBVIOUS
<1>1. TypeOK'
  BY NextTyped DEF PeakInv
<1>2. /\ worker \in [Experiments -> {"pending", "up", "cleanup", "done"}]
      /\ DOMAIN machines = Experiments
  BY DEF PeakInv, TypeOK
<1>3. ASSUME NEW e \in Experiments, Start(e) PROVE PeakInv'
  <2>1. Crowd' = Crowd \cup {e}
    BY <1>2, <1>3 DEF Start, Crowd, Up
  <2>2. Crowd = {x \in Experiments : Up(x)} /\ IsFiniteSet(Crowd)
    BY ConstantsOK, FS_Subset DEF Crowd
  <2>3. Cardinality(Crowd) < campaign.max_parallel /\ campaign' = campaign
    BY <1>3, <2>2 DEF Start
  <2>4. Cardinality(Crowd') <= Cardinality(Crowd) + 1
    <3>1. Cardinality(Crowd) \in Nat
      BY <2>2, FS_CardinalityType
    <3> QED
      BY <2>1, <2>2, <3>1, FS_AddElement
  <2>5. Cardinality(Crowd) \in Nat /\ Cardinality(Crowd') \in Nat /\ campaign.max_parallel \in Nat
    <3>1. IsFiniteSet(Crowd')
      BY <2>1, <2>2, FS_AddElement
    <3> QED
      BY <2>2, <3>1, ConstantsOK, FS_CardinalityType DEF PeakInv, TypeOK
  <2>6. (Cardinality(Crowd) <= campaign.max_parallel)'
    BY <2>3, <2>4, <2>5
  <2>7. (\A x \in Experiments \ stranded : machines[x] # {} => Up(x))'
    BY <1>2, <1>3 DEF Start, PeakInv, Up
  <2> QED
    BY <1>1, <2>6, <2>7 DEF PeakInv
<1>4. ASSUME NEW e \in Experiments, Serve(e) PROVE PeakInv'
  <2>1. worker' = worker /\ stranded' = stranded /\ campaign' = campaign /\ worker[e] = "up"
    BY <1>4 DEF Serve
  <2>2. \A x \in Experiments : x # e => machines'[x] = machines[x]
    BY <1>2, <1>4 DEF Serve
  <2>3. (\A x \in Experiments \ stranded : machines[x] # {} => Up(x))'
    BY <2>1, <2>2 DEF PeakInv, Up
  <2>4. Crowd' \subseteq Crowd
    BY <2>1 DEF Crowd, Up
  <2> QED
    BY <1>1, <2>1, <2>3, <2>4, CrowdShrinks DEF PeakInv
<1>5. ASSUME NEW e \in Experiments, Return(e) \/ Fail(e) PROVE PeakInv'
  <2>1. /\ stranded' = stranded /\ campaign' = campaign /\ machines' = machines
        /\ worker[e] = "up" /\ worker' \in {worker, [worker EXCEPT ![e] = "cleanup"]}
    BY <1>5 DEF Return, Fail
  <2>2. \A x \in Experiments : Up(x)' <=> Up(x)
    BY <1>2, <2>1 DEF Up
  <2>3. Crowd' \subseteq Crowd
    BY <2>2 DEF Crowd
  <2>4. (\A x \in Experiments \ stranded : machines[x] # {} => Up(x))'
    BY <2>1, <2>2 DEF PeakInv
  <2> QED
    BY <1>1, <2>1, <2>3, <2>4, CrowdShrinks DEF PeakInv
<1>6. ASSUME NEW e \in Experiments, Clean(e) PROVE PeakInv'
  <2>1. campaign' = campaign /\ worker' = [worker EXCEPT ![e] = "done"]
    BY <1>6 DEF Clean
  <2>2. \A x \in Experiments : x # e => machines'[x] = machines[x] /\ (Up(x)' <=> Up(x))
    BY <1>2, <1>6, <2>1 DEF Clean, Up
  <2>3. Crowd' \subseteq Crowd
    BY <1>2, <2>1 DEF Crowd, Up
  <2>4. /\ stranded \subseteq stranded'
        /\ e \notin stranded' => machines'[e] = {}
    BY <1>2, <1>6 DEF Clean
  <2>5. (\A x \in Experiments \ stranded : machines[x] # {} => Up(x))'
    BY <2>2, <2>4 DEF PeakInv
  <2> QED
    BY <1>1, <2>1, <2>3, <2>5, CrowdShrinks DEF PeakInv
<1>7. ASSUME UNCHANGED vars PROVE PeakInv'
  BY <1>1, <1>7 DEF PeakInv, vars, Crowd, Up
<1> QED
  BY <1>3, <1>4, <1>5, <1>6, <1>7 DEF Next, Work, Ended

\* The plan's peak is the peak of any set of experiments that may be up at once,
\* at least.
LEMMA PlanCovers ==
    ASSUME TypeOK, NEW A \in SUBSET Experiments, Cardinality(A) <= campaign.max_parallel
    PROVE  /\ Cardinality(Units([e \in A |-> provision_peak_machines(e)], A)) <= PlannedPeak
           /\ PlannedPeak \in Nat
<1> DEFINE all == Cardinality(Experiments)
           active == IF campaign.max_parallel < all THEN campaign.max_parallel ELSE all
           plan(es) == [e \in es |-> provision_peak_machines(e)]
           Peak(es) == SumFunction(plan(es))
           bound == Cardinality(Units(plan(Experiments), Experiments))
           T == {Peak(es) : es \in kSubset(active, Experiments)}
<1>1. /\ campaign.max_parallel \in Nat /\ IsFiniteSet(Experiments) /\ all \in Nat
      /\ active \in Nat /\ active <= all
  BY ConstantsOK, FS_CardinalityType DEF TypeOK
<1>2. Cardinality(A) <= active
  <2>1. Cardinality(A) <= all
    BY <1>1, FS_Subset
  <2> QED
    BY <1>1, <2>1
<1>3. ASSUME NEW es \in SUBSET Experiments
      PROVE  /\ Peak(es) = Cardinality(Units(plan(es), es))
             /\ IsFiniteSet(Units(plan(es), es)) /\ Cardinality(Units(plan(es), es)) \in Nat
  <2> DEFINE f == plan(es)
  <2>1. IsFiniteSet(es)
    BY <1>1, FS_Subset
  <2>2. DOMAIN f = es /\ \A x \in es : f[x] \in Nat
    BY OnePeak
  <2> HIDE DEF f
  <2>3. SumFunction(f) = Cardinality(Units(f, es)) /\ IsFiniteSet(Units(f, es))
        /\ Cardinality(Units(f, es)) \in Nat
    BY <2>1, <2>2, SumIsUnits, UnitsFinite
  <2> QED
    BY <2>3 DEF f
<1>4. ASSUME NEW es \in SUBSET Experiments, NEW some \in SUBSET es
      PROVE  Cardinality(Units(plan(some), some)) <= Cardinality(Units(plan(es), es))
  <2>1. \A e \in some : plan(some)[e] = plan(es)[e]
    OBVIOUS
  <2> HIDE DEF plan
  <2>2. Units(plan(some), some) \subseteq Units(plan(es), es)
    BY <2>1 DEF Units
  <2>3. IsFiniteSet(Units(plan(es), es))
    BY <1>3
  <2> QED
    BY <2>2, <2>3, FS_Subset
<1>5. T \in SUBSET (0..bound) /\ bound \in Nat
  <2>1. ASSUME NEW es \in kSubset(active, Experiments) PROVE Peak(es) \in 0..bound
    <3>1. es \in SUBSET Experiments
      BY DEF kSubset
    <3> HIDE DEF plan
    <3> QED
      BY <1>3, <1>4, <3>1
  <2> HIDE DEF Peak
  <2>2. bound \in Nat
    BY <1>3
  <2> QED
    BY <2>1, <2>2
<1>6. PICK es \in kSubset(active, Experiments) : A \subseteq es
  <2> HIDE DEF active
  <2> QED
    BY <1>1, <1>2, AmongSome
<1>7. Peak(es) \in T /\ es \in SUBSET Experiments
  BY DEF kSubset
<1>8. PlannedPeak = Max(T)
  BY DEF PlannedPeak
<1>9. Max(T) \in T /\ \A y \in T : Max(T) >= y
  <2> HIDE DEF T, bound
  <2>1. PICK m \in T : \A y \in T : y <= m
    BY <1>5, <1>7, GreatestBelow
  <2>2. \A y \in T : m >= y
    BY <1>5, <2>1
  <2> QED
    BY <2>2 DEF Max
<1> HIDE DEF T, bound, Peak
<1>10. Peak(es) <= Max(T) /\ Max(T) \in Nat /\ Peak(es) \in Nat
  <2>1. \A y \in T : y \in Nat
    BY <1>5
  <2>2. Max(T) \in Nat /\ Peak(es) \in Nat
    BY <1>7, <1>9, <2>1
  <2>3. Max(T) >= Peak(es)
    BY <1>7, <1>9
  <2> QED
    BY <2>2, <2>3
<1>11. Cardinality(Units(plan(A), A)) <= Peak(es)
  <2>1. Cardinality(Units(plan(A), A)) <= Cardinality(Units(plan(es), es))
    BY <1>4, <1>6, <1>7
  <2> HIDE DEF plan
  <2> QED
    BY <1>3, <1>7, <2>1
<1>12. Cardinality(Units(plan(A), A)) \in Nat
  BY <1>3
<1> HIDE DEF plan
<1>13. Cardinality(Units(plan(A), A)) <= PlannedPeak /\ PlannedPeak \in Nat
  BY <1>8, <1>10, <1>11, <1>12
<1> QED
  BY <1>13 DEF plan

LEMMA PeakFollows == PeakInv => PeakAsPlanned
<1> SUFFICES ASSUME PeakInv PROVE PeakAsPlanned
  OBVIOUS
<1> DEFINE E == Experiments \ stranded
           A == {e \in E : machines[e] # {}}
           m == [e \in E |-> Cardinality(machines[e])]
           plan == [e \in A |-> provision_peak_machines(e)]
<1>1. TypeOK /\ A \in SUBSET Experiments /\ IsFiniteSet(Experiments) /\ E \in SUBSET Experiments
  BY ConstantsOK DEF PeakInv
<1>2. A \subseteq Crowd
  BY DEF PeakInv, Crowd
<1>3. Cardinality(A) <= campaign.max_parallel
  <2>1. IsFiniteSet(Crowd)
    BY <1>1, FS_Subset DEF Crowd
  <2>2. Cardinality(A) <= Cardinality(Crowd) /\ IsFiniteSet(A)
    BY <1>2, <2>1, FS_Subset
  <2>3. Cardinality(A) \in Nat /\ Cardinality(Crowd) \in Nat /\ campaign.max_parallel \in Nat
    BY <1>1, <2>1, <2>2, ConstantsOK, FS_CardinalityType DEF TypeOK
  <2> QED
    BY <2>2, <2>3 DEF PeakInv
<1>4. \A e \in E : /\ m[e] \in Nat /\ provision_peak_machines(e) \in Nat
                   /\ m[e] <= provision_peak_machines(e)
                   /\ m[e] >= 1 => e \in A
  <2> SUFFICES ASSUME NEW e \in E
               PROVE  /\ m[e] \in Nat /\ provision_peak_machines(e) \in Nat
                      /\ m[e] <= provision_peak_machines(e)
                      /\ m[e] >= 1 => e \in A
    OBVIOUS
  <2>1. m[e] \in Nat /\ provision_peak_machines(e) \in Nat /\ m[e] <= provision_peak_machines(e)
    BY <1>1, OnePeak
  <2>2. machines[e] = {} => m[e] = 0
    BY FS_EmptySet
  <2> QED
    BY <2>1, <2>2
<1>5. Units(m, E) \subseteq Units(plan, A)
  <2> SUFFICES ASSUME NEW e \in E, NEW i \in Nat, 1 <= i, i <= m[e]
               PROVE  e \in A /\ i <= plan[e]
    <3> HIDE DEF m, plan, A, E
    <3> QED
      BY DEF Units
  <2>1. m[e] >= 1 /\ m[e] \in Nat
    <3> HIDE DEF m
    <3> QED
      BY <1>4
  <2>2. e \in A
    BY <1>4, <2>1
  <2>3. plan[e] = provision_peak_machines(e)
    BY <2>2
  <2> HIDE DEF m, plan
  <2> QED
    BY <1>4, <2>2, <2>3
<1>6. IsFiniteSet(Units(plan, A)) /\ Cardinality(Units(plan, A)) \in Nat
  <2>1. IsFiniteSet(A) /\ \A e \in A : plan[e] \in Nat
    BY <1>1, <1>4, FS_Subset
  <2> HIDE DEF plan, A
  <2> QED
    BY <2>1, UnitsFinite
<1>7. Cardinality(Units(plan, A)) <= PlannedPeak /\ PlannedPeak \in Nat
  BY <1>1, <1>3, PlanCovers
<1>8. Machines(E) = Cardinality(Units(m, E))
  <2>1. IsFiniteSet(E) /\ DOMAIN m = E /\ \A e \in E : m[e] \in Nat
    BY <1>1, <1>4, FS_Subset
  <2>2. Machines(E) = SumFunction(m)
    BY DEF Machines
  <2> HIDE DEF m, E
  <2> QED
    BY <2>1, <2>2, SumIsUnits
<1>9. Cardinality(Units(m, E)) <= Cardinality(Units(plan, A)) /\ Cardinality(Units(m, E)) \in Nat
  <2> HIDE DEF m, plan, A, E
  <2> QED
    BY <1>5, <1>6, FS_Subset, FS_CardinalityType
<1>10. Machines(E) <= PlannedPeak
  BY <1>6, <1>7, <1>8, <1>9
<1> QED
  BY <1>10 DEF PeakAsPlanned

\* However many workers are in the middle of their moves, the Machines of all apps
\* that were not stranded are never more than the peak the plan showed
\* (plan_text, provision_peak_machines).
THEOREM PeakIsPlanned == Spec => []PeakAsPlanned
<1> QED
  BY InitPeak, NextPeak, PeakFollows, PTL DEF Spec
=============================================================================
