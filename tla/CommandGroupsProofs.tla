------------------------- MODULE CommandGroupsProofs -------------------------
(* For any number of descendants and of signals: what measure and _timed     *)
(* record and return is right, and what they leave running was killed.       *)
EXTENDS CommandGroups, SequenceTheorems, TLAPS

-----------------------------------------------------------------------------
(* Types.                                                                    *)

LEMMA TypeInit == Init => TypeOK
BY ConstantsOK DEF Init, TypeOK, NewRecord, Steps, Timers

LEMMA KernelTyped == TypeOK /\ Kernel => TypeOK'
<1> SUFFICES ASSUME TypeOK, Kernel PROVE TypeOK'
  OBVIOUS
<1> USE DEF TypeOK, Group, own, kernel, Timers
<1>1. CASE \E k \in Kids : Fork(k)
  BY <1>1 DEF Fork
<1>2. CASE \E k \in Kids : Collect(k)
  BY <1>2 DEF Collect
<1>3. CASE \E p \in Group : Die(p)
  BY <1>3 DEF Die, Endings, Running
<1>4. CASE \E t \in Timers : Expire(t)
  BY <1>4 DEF Expire
<1> QED
  BY <1>1, <1>2, <1>3, <1>4 DEF Kernel

LEMMA SendTyped ==
    ASSUME TypeOK, NEW sig \in {"term", "kill"}, Send(sig)
    PROVE  told' \in [Group -> {"none", "term", "kill"}]
BY DEF TypeOK, Send

LEMMA MeasureTyped == TypeOK /\ MeasureStep => TypeOK'
<1> SUFFICES ASSUME TypeOK, MeasureStep PROVE TypeOK'
  OBVIOUS
<1> USE DEF TypeOK, own, kernel, Timers, Steps, Handled
<1>1. CASE Start \/ StartFails
  BY <1>1, ConstantsOK DEF Start, StartFails, Spawn, SpawnFails, Group
<1>2. CASE Started \/ Handlers \/ Drain
  BY <1>2 DEF Started, Handlers, Drain
<1>3. CASE Poll
  BY <1>3 DEF Poll, Group
<1>4. CASE Probe
  <2>1. PICK b \in BOOLEAN : rec' = [rec EXCEPT !.survivors = b]
    BY <1>4, Zenon DEF Probe, Exists
  <2>2. pc' \in {"sweep", "drain"} /\ timer' \in [Timers -> {"off", "on", "out"}]
    BY <1>4 DEF Probe
  <2>3. UNCHANGED <<program, st, deaf, told, code, stopped, killing, exit, hits>>
    BY <1>4 DEF Probe
  <2> QED
    BY <2>1, <2>2, <2>3
<1>5. CASE Verified \/ Conclude \/ Mark
  <2>1. CASE Verified
    <3>1. PICK b \in BOOLEAN : rec' = [rec EXCEPT !.verified = b]
      BY <2>1, Zenon DEF Verified
    <3> QED
      BY <2>1, <3>1 DEF Verified
  <2>2. CASE Conclude
    <3>1. PICK b \in BOOLEAN :
             rec' = [rec EXCEPT !.status = "finished", !.complete = b]
      BY <2>2, Zenon DEF Conclude
    <3>2. pc' = "mark" /\ UNCHANGED <<program, st, deaf, told, code, timer,
                                      stopped, killing, exit, hits>>
      BY <2>2 DEF Conclude
    <3>3. rec' \in [status : {"starting", "running", "finished"}, timed_out : BOOLEAN,
                    survivors : BOOLEAN, verified : BOOLEAN, complete : BOOLEAN,
                    signal : {"none", "int", "term"}]
      BY <3>1
    <3> QED
      BY <3>2, <3>3
  <2>3. CASE Mark
    BY <2>3 DEF Mark
  <2> QED
    BY <1>5, <2>1, <2>2, <2>3
<1>6. CASE TimeOut
  BY <1>6, SendTyped DEF TimeOut, Stop
<1>7. CASE GraceOver \/ Sweep
  BY <1>7, SendTyped DEF GraceOver, Sweep
<1>8. CASE SweepRaises
  BY <1>8 DEF SweepRaises
<1>9. CASE Return
  BY <1>9 DEF Return, Result
<1> QED
  BY <1>1, <1>2, <1>3, <1>4, <1>5, <1>6, <1>7, <1>8, <1>9 DEF MeasureStep

LEMMA TimedTyped == TypeOK /\ TimedStep => TypeOK'
<1> SUFFICES ASSUME TypeOK, TimedStep PROVE TypeOK'
  OBVIOUS
<1> USE DEF TypeOK, own, kernel, Timers, Steps, InKill
<1>1. CASE Popen \/ PopenFails
  BY <1>1, ConstantsOK DEF Popen, PopenFails, Spawn, SpawnFails, Group
<1>2. CASE Thread \/ Wait
  BY <1>2 DEF Thread, Wait, Group
<1>6. CASE BudgetOver
  BY <1>6 DEF BudgetOver
<1>7. CASE Check
  <2>1. pc' \in {"k_signal", "join"}
    BY <1>7 DEF Check
  <2>3. killing' \in [hard : BOOLEAN, from : {"none", "budget", "except", "check"}]
    <3>1. killing' = killing \/ killing' = [hard |-> FALSE, from |-> "check"]
      BY <1>7, Zenon DEF Check
    <3>2. [hard |-> FALSE, from |-> "check"] \in
             [hard : BOOLEAN, from : {"none", "budget", "except", "check"}]
      OBVIOUS
    <3> QED
      BY <3>1, <3>2, Zenon
  <2>2. UNCHANGED <<program, st, deaf, told, code, timer, stopped, rec, exit, hits>>
    BY <1>7 DEF Check
  <2> QED
    BY <2>1, <2>2, <2>3
<1>8. CASE Join
  BY <1>8 DEF Join
<1>3. CASE KillSignal \/ KillRest
  BY <1>3, SendTyped DEF KillSignal, KillRest
<1>4. CASE KillWait \/ KillGroup
  BY <1>4 DEF KillWait, KillGroup, Group
<1>5. CASE KillReap
  <2>1. pc' \in Steps /\ st' \in [Group -> {"none", "run", "zombie", "gone"}]
    BY <1>5 DEF KillReap, Group
  <2>2. exit' \in {exit, "raised"}
    BY <1>5 DEF KillReap
  <2> QED
    BY <1>5, <2>1, <2>2 DEF KillReap
<1> QED
  BY <1>1, <1>2, <1>3, <1>4, <1>5, <1>6, <1>7, <1>8 DEF TimedStep

LEMMA SignalTyped ==
    ASSUME TypeOK, NEW sig \in {"int", "term"}, MeasureSignal(sig) \/ TimedSignal(sig)
    PROVE  TypeOK'
<1> USE DEF TypeOK, own, kernel, Timers, Steps, InKill
<1>1. CASE MeasureSignal(sig)
  BY <1>1, SendTyped DEF MeasureSignal, Stop
<1>2. CASE TimedSignal(sig)
  <2>1. hits' \in Seq(Steps)
    BY <1>2 DEF TimedSignal
  <2>2. pc' \in Steps /\ exit' \in {exit, "raised", "killed"}
    BY <1>2 DEF TimedSignal
  <2>3. UNCHANGED <<program, st, deaf, told, code, timer, stopped, rec>>
    BY <1>2 DEF TimedSignal
  <2>4. killing' \in [hard : BOOLEAN, from : {"none", "budget", "except", "check"}]
    <3>1. killing' = killing \/ killing' = [hard |-> FALSE, from |-> "except"]
      BY <1>2, Zenon DEF TimedSignal
    <3>2. [hard |-> FALSE, from |-> "except"] \in
             [hard : BOOLEAN, from : {"none", "budget", "except", "check"}]
      OBVIOUS
    <3> QED
      BY <3>1, <3>2, Zenon
  <2> QED
    BY <2>1, <2>2, <2>3, <2>4
<1> QED
  BY <1>1, <1>2

LEMMA NextTyped == TypeOK /\ [Next]_vars => TypeOK'
<1>1. TypeOK /\ UNCHANGED vars => TypeOK'
  BY DEF TypeOK, vars, kernel, own
<1> QED
  BY <1>1, KernelTyped, MeasureTyped, TimedTyped, SignalTyped DEF Next

\* Every variable keeps its type.
THEOREM TypeCorrect == Spec => []TypeOK
BY TypeInit, NextTyped, PTL DEF Spec

-----------------------------------------------------------------------------
(* The invariant: what the steps of the two programs rest on.                *)

\* What still runs was sent SIGKILL, so it starts nothing; or nothing is left.
AllKilled == \A p \in Running : told[p] = "kill"
AllGone == \A p \in Group : st[p] \in {"none", "gone"}
Untouched == \A p \in Group : told[p] = "none"

\* Steps of measure after wait4, and after nothing of the group can grow.
Waited == {"probe", "sweep", "drain", "verify", "conclude", "mark", "return"}
Swept == {"drain", "verify", "conclude", "mark", "return"}

\* Each program is at a step of its own, and ends once.
Control ==
    /\ exit # "none" => pc = "ended"
    /\ pc = "spawn" => hits = <<>> /\ \A p \in Group : st[p] = "none"
    /\ program = "measure" =>
          /\ pc \in {"spawn", "started", "handlers", "ended"} \cup Handled
          /\ exit \notin {"ok", "term", "kill"}
          /\ hits # <<"try">>
    /\ program = "timed" =>
          /\ pc \in {"spawn", "thread", "wait", "check", "join", "ended"} \cup InKill
          /\ exit # "zero" /\ exit # "one"

\* The code is that of a leader that ended, for a reason of its own or a signal.
Ended ==
    /\ code # "none" <=> st[Leader] \in {"zombie", "gone"}
    /\ code \in {"term", "kill"} => told[Leader] # "none"

MeasureInv ==
    program = "measure" =>
        /\ timer["grace"] # "off" => stopped # "none"
        /\ pc \in Waited => st[Leader] = "gone"
        /\ pc \in {"spawn", "started", "handlers", "poll", "probe"} => ~rec.survivors
        /\ pc = "sweep" => rec.survivors
        /\ stopped = "none" => told[Leader] = "none"
        /\ stopped = "none" /\ ~rec.survivors => Untouched
        /\ pc \in Swept => AllKilled
        /\ pc \in Swept /\ ~rec.survivors => AllGone
        /\ pc = "spawn" => ~rec.verified
        /\ rec.verified => Running = {}
        /\ rec.complete => code = "ok" /\ Untouched /\ AllGone
        /\ pc \in {"mark", "return"} =>
              /\ rec.status = "finished"
              /\ stopped = "none" =>
                    rec.complete = (code = "ok" /\ ~rec.survivors /\ rec.verified)
        /\ rec.signal # "none" => stopped # "none"

TimedInv ==
    program = "timed" =>
        /\ ~rec.complete
        /\ pc \in {"spawn", "thread", "wait"} => killing.from = "none"
        /\ pc \in InKill => killing.from # "none"
        /\ pc \in {"check", "join"} => st[Leader] = "gone" /\ killing.from # "except"
        /\ pc \in InKill /\ killing.from = "check" => st[Leader] = "gone"
        /\ killing.from = "budget" => rec.timed_out
        /\ ~rec.timed_out /\ killing.from # "except" => told[Leader] = "none"
        /\ pc \in {"k_reap", "join"} => AllKilled

Inv ==
    /\ Control /\ Ended /\ MeasureInv /\ TimedInv
    /\ NothingOutlives /\ CompleteIsUndisturbed /\ ZeroIsComplete /\ OwnResult

LEMMA InvInit == Init => Inv
BY ConstantsOK
   DEF Init, Inv, Control, Ended, MeasureInv, TimedInv, AllKilled, AllGone, Untouched,
       Running, NothingOutlives, CompleteIsUndisturbed, ZeroIsComplete, OwnResult,
       NewRecord, Timers, Waited, Swept, Handled, InKill, Results, Group, AllPrograms

\* A step of the kernel leaves what is killed killed and what is gone gone.
LEMMA KernelStable ==
    ASSUME TypeOK, Kernel
    PROVE  /\ UNCHANGED <<program, pc, told, stopped, killing, rec, exit, hits>>
           /\ AllKilled => AllKilled'
           /\ Running = {} => Running' = {}
           /\ AllGone => AllGone'
           /\ (\A p \in Group : st[p] = "none") => st' = st
           /\ Ended => Ended' /\ (code # "none" => code' = code)
           /\ st[Leader] = "gone" => st'[Leader] = "gone" /\ code' = code
           /\ timer["grace"] = "off" => timer'["grace"] = "off"
<1> USE DEF TypeOK, Group, own, kernel, Timers, AllKilled, AllGone, Running, Ended
<1>1. CASE \E k \in Kids : Fork(k)
  BY <1>1, ConstantsOK DEF Fork
<1>2. CASE \E k \in Kids : Collect(k)
  BY <1>2, ConstantsOK DEF Collect
<1>3. CASE \E p \in Group : Die(p)
  BY <1>3 DEF Die, Endings
<1>4. CASE \E t \in Timers : Expire(t)
  BY <1>4 DEF Expire
<1> QED
  BY <1>1, <1>2, <1>3, <1>4 DEF Kernel

LEMMA CompleteFollowsNext ==
    ASSUME TypeOK', MeasureInv', TimedInv' PROVE CompleteIsUndisturbed'
BY DEF TypeOK, AllPrograms, MeasureInv, TimedInv, CompleteIsUndisturbed, AllGone, Untouched

LEMMA KernelKeeps == TypeOK /\ Inv /\ Kernel => Inv'
<1> SUFFICES ASSUME TypeOK, Inv, Kernel PROVE Inv'
  OBVIOUS
<1> USE KernelStable DEF Inv
<1>1. Control' /\ Ended'
  BY DEF Control
<1>2. MeasureInv'
  <2> SUFFICES ASSUME program = "measure" PROVE MeasureInv'
    BY DEF MeasureInv
  <2>1. /\ Untouched => Untouched'
        /\ timer'["grace"] # "off" => stopped' # "none"
    BY DEF MeasureInv, Untouched
  <2>2. pc' \in Waited => st'[Leader] = "gone"
    BY DEF MeasureInv
  <2>3. rec.complete => code' = "ok" /\ Untouched' /\ AllGone'
    BY DEF MeasureInv, Ended, Untouched
  <2>4. pc \in {"mark", "return"} => code' = code
    BY DEF MeasureInv, Waited
  <2> QED
    BY <2>1, <2>2, <2>3, <2>4 DEF MeasureInv
<1>3. TimedInv'
  BY DEF TimedInv
<1>4. NothingOutlives' /\ ZeroIsComplete'
  BY DEF NothingOutlives, ZeroIsComplete, AllKilled
<1>5. OwnResult'
  BY DEF OwnResult
<1>6. CompleteIsUndisturbed'
  BY <1>2, <1>3, CompleteFollowsNext, KernelTyped
<1> QED
  BY <1>1, <1>2, <1>3, <1>4, <1>5, <1>6

\* A signal to the group reaches what runs, and never weakens one.
LEMMA SendFacts ==
    ASSUME TypeOK, NEW sig \in {"term", "kill"}, Send(sig)
    PROVE  /\ AllKilled /\ UNCHANGED st => AllKilled'
           /\ sig = "kill" /\ UNCHANGED st => AllKilled'
           /\ \A p \in Group : told[p] # "none" => told'[p] # "none"
           /\ \A p \in Group : st[p] # "run" => told'[p] = told[p]
           /\ Untouched /\ AllGone => Untouched'
BY DEF TypeOK, Send, AllKilled, AllGone, Untouched, Running

LEMMA MeasureKeeps == TypeOK /\ Inv /\ MeasureStep => Inv'
<1> SUFFICES ASSUME TypeOK, Inv, MeasureStep PROVE Inv'
  OBVIOUS
<1> USE DEF Handled, Waited, Swept
<1>0. program = "measure" /\ program' = "measure" /\ TypeOK' /\ exit = "none" /\ pc # "ended"
  <2>1. program = "measure" /\ pc # "ended"
    <3>1. \/ program = "measure" /\ pc = "spawn"
          \/ pc \in {"started", "handlers"} \cup Handled
      BY DEF MeasureStep, Start, StartFails, Started, Handlers, Poll, TimeOut, GraceOver,
             Probe, Sweep, SweepRaises, Drain, Verified, Conclude, Mark, Return,
             Spawn, SpawnFails
    <3> QED
      BY <3>1 DEF Inv, Control, TypeOK, AllPrograms, InKill
  <2>2. program' = program
    BY DEF MeasureStep, Start, StartFails, Started, Handlers, Poll, TimeOut, GraceOver,
           Probe, Sweep, SweepRaises, Drain, Verified, Conclude, Mark, Return,
           Spawn, SpawnFails
  <2> QED
    BY <2>1, <2>2, MeasureTyped DEF Inv, Control
\* Before its end, and at an end without a result, a step has this left to show.
<1>a. ASSUME Control', Ended', MeasureInv', exit' \in {"none", "raised"}
      PROVE  Inv'
  <2>1. TimedInv'
    BY <1>0 DEF TimedInv
  <2>2. NothingOutlives' /\ ZeroIsComplete' /\ OwnResult'
    BY <1>0, <1>a DEF Control, NothingOutlives, ZeroIsComplete, OwnResult, Results
  <2> QED
    BY <1>0, <1>a, <2>1, <2>2, CompleteFollowsNext DEF Inv
<1>1. CASE Start
  <2> USE <1>1 DEF Start, Spawn, own
  <2>1. Control'
    BY <1>0 DEF Inv, Control
  <2>2. Ended'
    BY DEF Inv, Control, Ended, TypeOK, Group
  <2>3. /\ rec' = rec /\ told' = told /\ stopped' = stopped /\ pc' = "started"
        /\ timer'["grace"] = timer["grace"]
    BY DEF TypeOK, Timers
  <2>4. ~rec.verified /\ ~rec.complete
    BY <1>0, ConstantsOK DEF Inv, Control, Ended, MeasureInv, Group
  <2>5. MeasureInv'
    BY <1>0, <2>3, <2>4 DEF Inv, MeasureInv, Untouched
  <2> QED
    BY <1>0, <1>a, <2>1, <2>2, <2>3, <2>5
<1>2. CASE StartFails
  <2> USE <1>2 DEF StartFails, SpawnFails, kernel
  <2> QED
    BY <1>0, <1>a DEF Inv, Control, Ended, MeasureInv, Untouched, AllGone, AllKilled, Running
<1>3. CASE Started
  <2> USE <1>3 DEF Started, kernel
  <2> QED
    BY <1>0, <1>a DEF Inv, Control, Ended, MeasureInv, Untouched, AllGone, AllKilled, Running, TypeOK
<1>4. CASE Handlers
  <2> USE <1>4 DEF Handlers, kernel, own
  <2> QED
    BY <1>0, <1>a DEF Inv, Control, Ended, MeasureInv, Untouched, AllGone, AllKilled, Running
<1>5. CASE Poll
  <2> USE <1>5 DEF Poll, own
  <2>1. Control' /\ Ended'
    BY <1>0 DEF Inv, Control, Ended, TypeOK, Group
  <2>2. MeasureInv'
    BY <1>0 DEF Inv, MeasureInv, Untouched, AllGone, Running, TypeOK, Group
  <2> QED
    BY <1>0, <1>a, <2>1, <2>2
<1>6. CASE TimeOut
  <2> USE <1>6 DEF TimeOut, Stop
  <2>1. Control' /\ Ended'
    BY <1>0, SendFacts DEF Inv, Control, Ended, Group
  <2>2. MeasureInv'
    <3>1. AllGone' = AllGone /\ Running' = Running
      BY DEF AllGone, Running
    <3> QED
      BY <1>0, <3>1, SendFacts DEF Inv, MeasureInv, TypeOK, Timers, Group
  <2> QED
    BY <1>0, <1>a, <2>1, <2>2
<1>7. CASE GraceOver
  <2> USE <1>7 DEF GraceOver, own
  <2>1. Control' /\ Ended'
    BY <1>0, SendFacts DEF Inv, Control, Ended, Group
  <2>2. MeasureInv'
    <3>1. AllGone' = AllGone /\ Running' = Running
      BY DEF AllGone, Running
    <3> QED
      BY <1>0, <3>1, SendFacts DEF Inv, MeasureInv, TypeOK, Timers, Group
  <2> QED
    BY <1>0, <1>a, <2>1, <2>2
<1>8. CASE Probe
  <2> USE <1>8 DEF Probe, kernel
  <2>1. Control' /\ Ended'
    BY <1>0 DEF Inv, Control, Ended
  <2>2. MeasureInv'
    BY <1>0 DEF Inv, MeasureInv, Exists, Running, AllGone, AllKilled, Untouched, TypeOK, Timers
  <2> QED
    BY <1>0, <1>a, <2>1, <2>2
<1>9. CASE Sweep
  <2> USE <1>9 DEF Sweep, own
  <2>1. Control' /\ Ended'
    BY <1>0, SendFacts DEF Inv, Control, Ended, Group
  <2>2. MeasureInv'
    <3>1. AllGone' = AllGone /\ Running' = Running
      BY DEF AllGone, Running
    <3> QED
      BY <1>0, <3>1, SendFacts DEF Inv, MeasureInv, TypeOK, Timers, Group
  <2> QED
    BY <1>0, <1>a, <2>1, <2>2
<1>10. CASE SweepRaises
  <2> USE <1>10 DEF SweepRaises, kernel
  <2> QED
    BY <1>0, <1>a DEF Inv, Control, Ended, MeasureInv, Untouched, AllGone, AllKilled, Running
<1>11. CASE Drain
  <2> USE <1>11 DEF Drain, kernel, own
  <2> QED
    BY <1>0, <1>a DEF Inv, Control, Ended, MeasureInv, Untouched, AllGone, AllKilled, Running
<1>12. CASE Verified
  <2> USE <1>12 DEF Verified, kernel
  <2>1. Control' /\ Ended'
    BY <1>0 DEF Inv, Control, Ended
  <2>2. MeasureInv'
    BY <1>0 DEF Inv, MeasureInv, Running, AllGone, AllKilled, Untouched, TypeOK
  <2> QED
    BY <1>0, <1>a, <2>1, <2>2
<1>13. CASE Conclude
  <2> USE <1>13 DEF Conclude, kernel
  <2>1. Control' /\ Ended'
    BY <1>0 DEF Inv, Control, Ended
  <2>2. MeasureInv'
    BY <1>0 DEF Inv, MeasureInv, Running, AllGone, AllKilled, Untouched, TypeOK
  <2> QED
    BY <1>0, <1>a, <2>1, <2>2
<1>14. CASE Mark
  <2> USE <1>14 DEF Mark, kernel
  <2>1. Control' /\ Ended'
    BY <1>0 DEF Inv, Control, Ended
  <2>2. MeasureInv'
    BY <1>0 DEF Inv, MeasureInv, Running, AllGone, AllKilled, Untouched, TypeOK
  <2> QED
    BY <1>0, <1>a, <2>1, <2>2
<1>15. CASE Return
  <2> USE <1>15 DEF Return, kernel
  <2>1. Ended' /\ MeasureInv' /\ TimedInv'
    BY <1>0 DEF Inv, Ended, MeasureInv, TimedInv, Running, AllGone, AllKilled, Untouched
  <2>2. Control'
    BY <1>0 DEF Inv, Control, Result
  <2>3. NothingOutlives'
    <3>1. AllKilled' /\ (rec.verified => Running' = {})
      BY <1>0 DEF Inv, MeasureInv, AllKilled, Running
    <3>2. exit' # "one" => rec.verified
      BY DEF Result
    <3> QED
      BY <1>0, <3>1, <3>2 DEF NothingOutlives, AllKilled
  <2>4. ZeroIsComplete'
    BY <1>0 DEF Inv, MeasureInv, ZeroIsComplete, Result, TypeOK
  <2>5. OwnResult'
    BY <1>0 DEF Inv, MeasureInv, Ended, OwnResult, Result, TypeOK
  <2> QED
    BY <1>0, CompleteFollowsNext, <2>1, <2>2, <2>3, <2>4, <2>5 DEF Inv
<1> QED
  BY <1>1, <1>2, <1>3, <1>4, <1>5, <1>6, <1>7, <1>8, <1>9, <1>10, <1>11, <1>12, <1>13,
     <1>14, <1>15 DEF MeasureStep

LEMMA TimedKeeps == TypeOK /\ Inv /\ TimedStep => Inv'
<1> SUFFICES ASSUME TypeOK, Inv, TimedStep PROVE Inv'
  OBVIOUS
<1> USE DEF InKill
<1>0. program = "timed" /\ program' = "timed" /\ TypeOK' /\ exit = "none" /\ pc # "ended"
  <2>1. program = "timed" /\ pc # "ended"
    <3>1. \/ program = "timed" /\ pc = "spawn"
          \/ pc \in {"thread", "wait", "check", "join"} \cup InKill
      BY DEF TimedStep, Popen, PopenFails, Thread, Wait, BudgetOver, Check, Join,
             KillSignal, KillWait, KillGroup, KillRest, KillReap, Spawn, SpawnFails
    <3> QED
      BY <3>1 DEF Inv, Control, TypeOK, AllPrograms, Handled
  <2>2. program' = program
    BY DEF TimedStep, Popen, PopenFails, Thread, Wait, BudgetOver, Check, Join,
           KillSignal, KillWait, KillGroup, KillRest, KillReap, Spawn, SpawnFails
  <2> QED
    BY <2>1, <2>2, TimedTyped DEF Inv, Control
\* Before its end a step has this left to show.
<1>a. ASSUME Control', Ended', TimedInv', exit' = "none"
      PROVE  Inv'
  <2>1. MeasureInv'
    BY <1>0 DEF MeasureInv
  <2>2. NothingOutlives' /\ ZeroIsComplete' /\ OwnResult'
    BY <1>0, <1>a DEF NothingOutlives, ZeroIsComplete, OwnResult, Results
  <2> QED
    BY <1>0, <1>a, <2>1, <2>2, CompleteFollowsNext DEF Inv
<1>1. CASE Popen
  <2> USE <1>1 DEF Popen, Spawn, own
  <2> QED
    BY <1>0, <1>a DEF Inv, Control, Ended, TimedInv, TypeOK, Group, Running, AllKilled
<1>2. CASE PopenFails
  <2> USE <1>2 DEF PopenFails, SpawnFails, kernel
  <2>1. Control' /\ Ended' /\ TimedInv' /\ MeasureInv'
    BY <1>0 DEF Inv, Control, Ended, TimedInv, MeasureInv
  <2>2. NothingOutlives' /\ ZeroIsComplete' /\ OwnResult'
    BY <1>0 DEF Inv, Control, NothingOutlives, ZeroIsComplete, OwnResult, Results
  <2> QED
    BY <1>0, <2>1, <2>2, CompleteFollowsNext DEF Inv
<1>3. CASE Thread
  <2> USE <1>3 DEF Thread, kernel, own
  <2> QED
    BY <1>0, <1>a DEF Inv, Control, Ended, TimedInv
<1>4. CASE Wait
  <2> USE <1>4 DEF Wait, own
  <2> QED
    BY <1>0, <1>a DEF Inv, Control, Ended, TimedInv, TypeOK, Group
<1>5. CASE BudgetOver
  <2> USE <1>5 DEF BudgetOver, kernel
  <2>1. Control' /\ Ended'
    BY <1>0 DEF Inv, Control, Ended
  <2>2. TimedInv'
    BY <1>0 DEF Inv, TimedInv, TypeOK
  <2> QED
    BY <1>0, <1>a, <2>1, <2>2
<1>6. CASE Check
  <2> USE <1>6 DEF Check, kernel
  <2>1. Control' /\ Ended'
    BY <1>0 DEF Inv, Control, Ended
  <2>2. TimedInv'
    BY <1>0 DEF Inv, TimedInv, TypeOK, Exists, AllKilled, Running
  <2> QED
    BY <1>0, <1>a, <2>1, <2>2
<1>7. CASE Join
  <2> USE <1>7 DEF Join, kernel
  <2>1. Control' /\ Ended' /\ TimedInv' /\ MeasureInv'
    BY <1>0 DEF Inv, Control, Ended, TimedInv, MeasureInv, TypeOK
  <2>2. NothingOutlives' /\ ZeroIsComplete'
    BY <1>0 DEF Inv, TimedInv, NothingOutlives, ZeroIsComplete, AllKilled, Running, TypeOK
  <2>3. OwnResult'
    BY <1>0 DEF Inv, TimedInv, Ended, OwnResult, TypeOK
  <2> QED
    BY <1>0, <2>1, <2>2, <2>3, CompleteFollowsNext DEF Inv
<1>8. CASE KillSignal
  <2> USE <1>8 DEF KillSignal, own
  <2>1. Control' /\ Ended'
    BY <1>0, SendFacts DEF Inv, Control, Ended, Group
  <2>2. TimedInv'
    BY <1>0, SendFacts DEF Inv, TimedInv, TypeOK, Group
  <2> QED
    BY <1>0, <1>a, <2>1, <2>2
<1>9. CASE KillWait
  <2> USE <1>9 DEF KillWait, own
  <2>1. Control' /\ Ended'
    BY <1>0 DEF Inv, Control, Ended, TypeOK, Group
  <2>2. TimedInv'
    BY <1>0 DEF Inv, TimedInv, TypeOK, Group
  <2> QED
    BY <1>0, <1>a, <2>1, <2>2
<1>10. CASE KillGroup
  <2> USE <1>10 DEF KillGroup, kernel, own
  <2> QED
    BY <1>0, <1>a DEF Inv, Control, Ended, TimedInv
<1>11. CASE KillRest
  <2> USE <1>11 DEF KillRest, own
  <2>1. Control' /\ Ended'
    BY <1>0, SendFacts DEF Inv, Control, Ended, Group
  <2>2. TimedInv'
    BY <1>0, SendFacts DEF Inv, TimedInv, TypeOK, Group
  <2> QED
    BY <1>0, <1>a, <2>1, <2>2
<1>12. CASE KillReap
  <2> USE <1>12 DEF KillReap
  <2>1. Control' /\ Ended'
    BY <1>0 DEF Inv, Control, Ended, TypeOK, Group
  <2>2. AllKilled'
    BY <1>0 DEF Inv, TimedInv, AllKilled, Running, TypeOK, Group
  <2>3. TimedInv'
    BY <1>0, <2>2 DEF Inv, TimedInv, TypeOK, Group
  <2>4. MeasureInv' /\ NothingOutlives' /\ ZeroIsComplete' /\ OwnResult'
    BY <1>0, <2>2 DEF Inv, MeasureInv, NothingOutlives, ZeroIsComplete, OwnResult,
                      Results, AllKilled
  <2> QED
    BY <1>0, <2>1, <2>3, <2>4, CompleteFollowsNext DEF Inv
<1> QED
  BY <1>1, <1>2, <1>3, <1>4, <1>5, <1>6, <1>7, <1>8, <1>9, <1>10, <1>11, <1>12
     DEF TimedStep

LEMMA LastHit ==
    ASSUME TypeOK, NEW x \in Steps, Append(hits, x) = <<"try">>
    PROVE  x = "try"
<1> DEFINE h == Append(hits, x)
<1>0. hits \in Seq(Steps)
  BY DEF TypeOK
<1>1. Len(h) = Len(hits) + 1 /\ h[Len(hits) + 1] = x
  BY <1>0, AppendProperties
<1>2. Len(h) = 1 /\ h[1] = "try"
  OBVIOUS
<1>3. Len(hits) \in Nat
  BY <1>0
<1> HIDE DEF h
<1> QED
  BY <1>1, <1>2, <1>3

LEMMA SignalKeeps ==
    ASSUME TypeOK, Inv, NEW sig \in {"int", "term"}, MeasureSignal(sig) \/ TimedSignal(sig)
    PROVE  Inv'
<1>0. TypeOK'
  BY SignalTyped
<1>1. CASE MeasureSignal(sig)
  <2> USE <1>1 DEF MeasureSignal
  <2>1. Control' /\ Ended'
    <3>1. hits' # <<"try">>
      BY LastHit DEF Inv, Control, Handled, Steps, AllPrograms
    <3>2. CASE pc \in Handled
      BY <3>1, <3>2, SendFacts DEF Stop, Inv, Control, Ended, Group, Handled
    <3>3. CASE pc \notin Handled
      BY <3>1, <3>3 DEF Inv, Control, Ended
    <3> QED
      BY <3>2, <3>3
  <2>2. MeasureInv'
    <3>1. AllGone' = AllGone /\ Running' = Running
      BY DEF AllGone, Running
    <3>2. CASE pc \in Handled
      BY <3>1, <3>2, SendFacts
         DEF Inv, Stop, MeasureInv, TypeOK, Timers, Group, Handled, Waited, Swept
    <3>3. CASE pc \notin Handled
      BY <3>3 DEF Inv, MeasureInv, Waited, Swept, Handled, Untouched, AllGone, Running
    <3> QED
      BY <3>2, <3>3
  <2>3. TimedInv'
    BY DEF TimedInv
  <2>4. NothingOutlives' /\ ZeroIsComplete' /\ OwnResult'
    BY <2>1 DEF Inv, Control, Stop, NothingOutlives, ZeroIsComplete, OwnResult, Results
  <2> QED
    BY <1>0, <2>1, <2>2, <2>3, <2>4, CompleteFollowsNext DEF Inv
<1>2. CASE TimedSignal(sig)
  <2> USE <1>2 DEF TimedSignal, kernel
  <2>1. Control' /\ Ended'
    BY DEF Inv, Control, Ended, InKill, Guarded
  <2>2. TimedInv'
    BY DEF Inv, TimedInv, InKill, Guarded, AllKilled, Running
  <2>3. MeasureInv'
    BY DEF MeasureInv
  <2>4. exit' = "raised" => hits' # <<"try">>
    BY LastHit DEF Inv, Control, Steps, InKill
  <2>5. NothingOutlives' /\ ZeroIsComplete' /\ OwnResult'
    BY <2>4 DEF Inv, Control, NothingOutlives, ZeroIsComplete, OwnResult, Results
  <2> QED
    BY <1>0, <2>1, <2>2, <2>3, <2>5, CompleteFollowsNext DEF Inv
<1> QED
  BY <1>1, <1>2

LEMMA NextKeeps == TypeOK /\ Inv /\ [Next]_vars => Inv'
<1>1. TypeOK /\ Inv /\ UNCHANGED vars => Inv'
  BY DEF Inv, vars, kernel, own, Control, Ended, MeasureInv, TimedInv, AllKilled, AllGone,
         Untouched, Running, NothingOutlives, CompleteIsUndisturbed, ZeroIsComplete, OwnResult
<1> QED
  BY <1>1, KernelKeeps, MeasureKeeps, TimedKeeps, SignalKeeps DEF Next

LEMMA InvHolds == Spec => []Inv
BY TypeInit, InvInit, NextTyped, NextKeeps, PTL DEF Spec

\* When measure or _timed ends with a result, or one Ctrl-C finds _timed in its
\* `try`, what still runs of the group was sent SIGKILL, and measure reports it.
THEOREM NothingOutlivesHolds == Spec => []NothingOutlives
BY InvHolds, PTL DEF Inv

\* A record that measure calls complete is about a command that ended by itself
\* with 0 and whose group nobody signalled and nothing of which is left.
THEOREM CompleteIsUndisturbedHolds == Spec => []CompleteIsUndisturbed
BY InvHolds, PTL DEF Inv

\* measure returns 0 only with a record that is complete and names no signal.
THEOREM ZeroIsCompleteHolds == Spec => []ZeroIsComplete
BY InvHolds, PTL DEF Inv

\* The code of a tool that measure or _timed signalled is never its result.
THEOREM OwnResultHolds == Spec => []OwnResult
BY InvHolds, PTL DEF Inv
=============================================================================
