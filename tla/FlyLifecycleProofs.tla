------------------------- MODULE FlyLifecycleProofs -------------------------
(* Theorems about FlyLifecycle, for every set of experiments, every degree *)
(* of parallelism and every set of faults.                                 *)
EXTENDS FlyLifecycle, TLAPS

-----------------------------------------------------------------------------
(* Types.                                                                  *)

\* A request is outstanding only at the three calls, and a process that is not
\* at rest works for an experiment: a worker for its own.
Aim ==
    \A a \in Actors :
        /\ call[a] # "none" => pc[a] \in Calls
        /\ pc[a] \notin Resting => work[a] \in Experiments
        /\ a \in Experiments => work[a] = a
        /\ pc[a] \in Benching \cup {"waiting"} => a \in Experiments

TypeInv == TypeOK /\ Aim

\* The part of TypeInv about the processes.
JobInv ==
    /\ pc \in [Actors -> Benching \cup Destroying \cup Resting]
    /\ work \in [Actors -> Actors]
    /\ copy \in [Actors -> State]
    /\ call \in [Actors -> {"none", "sent", "ok", "failed"}]
    /\ bad \in [Actors -> BOOLEAN]
    /\ Aim

\* What the processes' records have to keep for TypeInv to be kept.
LEMMA TypeSplit ==
    ASSUME TypeInv, JobInv',
           file' \in [Experiments -> State], app' \in [Experiments -> App],
           late' \subseteq Request, todo' \subseteq Experiments, snap' \subseteq Experiments,
           lpc' \in {"planning", "confirm", "running", "stopping", "cleaning", "over", "killed"},
           reframe' \in {"none", "up", "exited"}, rc' \in {0, 1, 130},
           printed' \subseteq Experiments, result' \subseteq Experiments
    PROVE  TypeInv'
  BY DEF TypeInv, TypeOK, JobInv

LEMMA EffectType ==
    ASSUME NEW kind \in Calls, NEW old \in App
    PROVE  Effect(kind, old) \in App
  BY DEF Calls, App, Ids, Effect, Accepted, NoApp

LEMMA OrphanedType ==
    ASSUME TypeInv, NEW a \in Actors
    PROVE  Orphaned(a) \subseteq Request
  BY DEF TypeInv, TypeOK, Aim, Orphaned, Request, Calls, Resting

LEMMA GotoType ==
    ASSUME TypeInv, NEW a \in Actors, NEW at \in Benching \cup Destroying,
           NEW request \in {"none", "sent"}, request = "sent" => at \in Calls,
           at \in Benching => a \in Experiments,
           pc[a] \notin Resting \/ a \in Experiments, Goto(a, at, request)
    PROVE  JobInv'
  BY DEF Goto, JobInv, TypeInv, TypeOK, Aim, Resting, Benching, Destroying, Calls

LEMMA LoadType ==
    ASSUME TypeInv, NEW a \in Actors, NEW at \in {"find", "start", "record", "mark"},
           NEW state \in State, pc[a] \notin Resting \cup Calls,
           at = "find" \/ a \in Experiments, Load(a, at, state)
    PROVE  JobInv'
  BY DEF Load, JobInv, TypeInv, TypeOK, Aim, Resting, Benching, Destroying, Calls

LEMMA EnterType ==
    ASSUME TypeInv, NEW a \in Actors, NEW e \in Experiments, NEW failed \in BOOLEAN,
           a \in Experiments => e = a, Enter(a, e, failed)
    PROVE  JobInv'
  BY DEF Enter, JobInv, TypeInv, TypeOK, Aim, Resting, Benching, Destroying, Calls, Actors

LEMMA RestType ==
    ASSUME TypeInv, NEW a \in Actors, NEW at \in Resting \ {"waiting"}, NEW failed \in BOOLEAN,
           Rest(a, at, failed)
    PROVE  JobInv'
  BY DEF Rest, JobInv, TypeInv, TypeOK, Aim, Resting, Benching, Destroying, Calls, Blank,
         State, Phases, Ids

LEMMA LeaveType ==
    ASSUME TypeInv, NEW a \in Actors, NEW failed \in BOOLEAN,
           pc[a] \in Destroying, Leave(a, failed)
    PROVE  /\ JobInv' /\ todo' \subseteq Experiments /\ printed' \subseteq Experiments
           /\ UNCHANGED <<lpc, snap, reframe, rc, result>>
  <1>1. work[a] \in Experiments
    BY DEF TypeInv, TypeOK, Aim, Destroying, Resting
  <1>2. bad[a] \in BOOLEAN
    BY DEF TypeInv, TypeOK
  <1>3. JobInv'
    BY <1>2, RestType DEF Leave, Exit, Resting
  <1>4. todo' \subseteq Experiments
    BY DEF Leave, Remaining, TypeInv, TypeOK
  <1>5. printed' \subseteq Experiments
    BY <1>1 DEF Leave, TypeInv, TypeOK
  <1>6. QED
    BY <1>3, <1>4, <1>5 DEF Leave

LEMMA TypeInit == Init => TypeInv
  <1> SUFFICES ASSUME Init PROVE TypeInv
    OBVIOUS
  <1>1. Blank \in State /\ NoApp \in App
    BY DEF Blank, NoApp, State, App, Phases, Ids
  <1>2. Aim
    BY DEF Init, Aim, Actors, Resting, Benching, Calls
  <1>3. QED
    BY <1>1, <1>2 DEF Init, TypeInv, TypeOK, Resting

LEMMA TypeNext == TypeInv /\ [Next]_vars => TypeInv'
  <1> SUFFICES ASSUME TypeInv, [Next]_vars PROVE TypeInv'
    OBVIOUS
  <1> USE DEF cloud, launch, job
  <1>t. TypeOK /\ Aim
    BY DEF TypeInv
  <1>1. ASSUME NEW a \in Actors, Serve(a) PROVE TypeInv'
    <2>1. work[a] \in Experiments /\ pc[a] \in Calls
      BY <1>1, <1>t DEF Serve, Aim, Calls, Resting
    <2>2. app' \in [Experiments -> App]
      BY <1>1, <1>t, <2>1, EffectType DEF Serve, TypeOK
    <2>3. JobInv'
      BY <1>1, <1>t, <2>1 DEF Serve, JobInv, TypeOK, Aim
    <2>4. QED
      BY <1>1, <1>t, <2>2, <2>3, TypeSplit DEF Serve, TypeOK
  <1>2. ASSUME NEW a \in Actors, DestroyLook(a) PROVE TypeInv'
    <2>1. pc[a] \in Destroying /\ pc[a] \notin Resting \cup Calls /\ file[work[a]] \in State
      BY <1>2, <1>t DEF DestroyLook, Aim, TypeOK, Destroying, Resting, Calls
    <2>2. CASE Leave(a, FALSE)
      <3>1. /\ JobInv' /\ todo' \subseteq Experiments /\ printed' \subseteq Experiments
            /\ UNCHANGED <<lpc, snap, reframe, rc, result>>
        BY <2>1, <2>2, LeaveType
      <3>2. QED
        BY <1>2, <1>t, <3>1, TypeSplit DEF DestroyLook, TypeOK
    <2>3. CASE Load(a, "find", file[work[a]]) /\ UNCHANGED <<launch, printed, result>>
      <3>1. JobInv'
        BY <2>1, <2>3, LoadType
      <3>2. QED
        BY <1>2, <1>t, <2>3, <3>1, TypeSplit DEF DestroyLook, TypeOK
    <2>4. QED
      BY <1>2, <2>2, <2>3 DEF DestroyLook
  <1>3. ASSUME NEW a \in Actors, DestroyFind(a) \/ DestroyAnswered(a) \/ DestroyVerify(a) PROVE TypeInv'
    <2>1. JobInv'
      BY <1>3, GotoType DEF DestroyFind, DestroyAnswered, DestroyVerify, Destroying, Benching, Calls, Resting
    <2>2. QED
      BY <1>3, <1>t, <2>1, TypeSplit DEF DestroyFind, DestroyAnswered, DestroyVerify, TypeOK
  <1>4. ASSUME NEW a \in Actors, DestroyClose(a) PROVE TypeInv'
    <2>1. pc[a] \in Destroying
      BY <1>4 DEF DestroyClose, Destroying
    <2>2. [copy[a] EXCEPT !.phase = "destroyed"] \in State
      BY <1>t DEF TypeOK, State, Phases
    <2>3. file' \in [Experiments -> State]
      BY <1>4, <1>t, <2>2 DEF DestroyClose, TypeOK
    <2>4. /\ JobInv' /\ todo' \subseteq Experiments /\ printed' \subseteq Experiments
          /\ UNCHANGED <<lpc, snap, reframe, rc, result>>
      BY <1>4, <2>1, LeaveType DEF DestroyClose
    <2>5. QED
      BY <1>4, <1>t, <2>3, <2>4, TypeSplit DEF DestroyClose, TypeOK
  <1>5. ASSUME NEW a \in Actors, DestroyRaises(a) PROVE TypeInv'
    <2>1. /\ JobInv' /\ todo' \subseteq Experiments /\ printed' \subseteq Experiments
          /\ UNCHANGED <<lpc, snap, reframe, rc, result>>
      BY <1>5, LeaveType DEF DestroyRaises
    <2>2. late' \subseteq Request
      BY <1>5, <1>t, OrphanedType DEF DestroyRaises, TypeOK
    <2>3. QED
      BY <1>5, <1>t, <2>1, <2>2, TypeSplit DEF DestroyRaises, TypeOK
  <1>6. ASSUME NEW r \in late, ServeLate(r) PROVE TypeInv'
    <2>1. r.kind \in Calls /\ r.exp \in Experiments
      BY <1>t DEF TypeOK, Request
    <2>2. app' \in [Experiments -> App]
      BY <1>6, <1>t, <2>1, EffectType DEF ServeLate, TypeOK
    <2>3. JobInv'
      BY <1>6, <1>t DEF ServeLate, JobInv, TypeOK, Aim
    <2>4. QED
      BY <1>6, <1>t, <2>2, <2>3, TypeSplit DEF ServeLate, TypeOK
  <1>7. ASSUME NEW e \in Experiments, ForeignCreate(e) PROVE TypeInv'
    <2>1. app' \in [Experiments -> App]
      BY <1>7, <1>t DEF ForeignCreate, TypeOK, App, Ids
    <2>2. JobInv'
      BY <1>7, <1>t DEF ForeignCreate, JobInv, TypeOK, Aim
    <2>3. QED
      BY <1>7, <1>t, <2>1, <2>2, TypeSplit DEF ForeignCreate, TypeOK
  <1>8. ASSUME NEW e \in Experiments, WorkerStep(e) PROVE TypeInv'
    <2>0. e \in Actors /\ work[e] = e /\ file[e] \in State /\ copy[e] \in State /\ app[e].id \in Ids
      BY <1>t DEF Actors, Aim, TypeOK, App
    <2>1. CASE ReadPlanned(e) \/ Identify(e) \/ Reread(e)
      <3>1. [phase |-> "created", id |-> app[e].id] \in State
        BY <2>0 DEF State, Phases
      <3>2. JobInv'
        BY <2>0, <2>1, <3>1, LoadType DEF ReadPlanned, Identify, Reread, Resting, Calls
      <3>3. QED
        BY <1>t, <2>1, <3>2, TypeSplit DEF ReadPlanned, Identify, Reread, TypeOK
    <2>2. CASE StartCreate(e) \/ Record(e) \/ MarkReady(e)
      <3>1. [copy[e] EXCEPT !.phase = "ready"] \in State
        BY <2>0 DEF State, Phases
      <3>2. file' \in [Experiments -> State]
        BY <1>t, <2>0, <2>2, <3>1 DEF StartCreate, Record, MarkReady, TypeOK
      <3>3. JobInv'
        BY <2>0, <2>2, GotoType DEF StartCreate, Record, MarkReady, Benching, Calls, Resting
      <3>4. QED
        BY <1>t, <2>2, <3>2, <3>3, TypeSplit DEF StartCreate, Record, MarkReady, TypeOK
    <2>3. CASE Created(e) \/ Deployed(e) \/ Measure(e)
      <3>1. JobInv'
        BY <2>0, <2>3, GotoType DEF Created, Deployed, Measure, Benching, Calls, Resting
      <3>2. QED
        BY <1>t, <2>3, <3>1, TypeSplit DEF Created, Deployed, Measure, TypeOK
    <2>4. CASE Fetch(e)
      <3>1. JobInv'
        BY <2>0, <2>4, EnterType DEF Fetch
      <3>2. result' \subseteq Experiments
        BY <1>t, <2>4 DEF Fetch, TypeOK
      <3>3. QED
        BY <1>t, <2>4, <3>1, <3>2, TypeSplit DEF Fetch, TypeOK
    <2>5. QED
      BY <1>8, <2>1, <2>2, <2>3, <2>4 DEF WorkerStep
  <1>9. ASSUME NEW e \in Experiments, WorkerRaises(e) PROVE TypeInv'
    <2>0. e \in Actors
      BY DEF Actors
    <2>1. JobInv' /\ late' \subseteq Request
      BY <1>9, <1>t, <2>0, EnterType, OrphanedType DEF WorkerRaises, TypeOK
    <2>2. QED
      BY <1>9, <1>t, <2>1, TypeSplit DEF WorkerRaises, TypeOK
  <1>10. ASSUME NEW e \in Experiments, KillWorker(e) PROVE TypeInv'
    <2>0. e \in Actors
      BY DEF Actors
    <2>1. JobInv' /\ late' \subseteq Request
      BY <1>10, <1>t, <2>0, RestType, OrphanedType DEF KillWorker, TypeOK, Resting
    <2>2. QED
      BY <1>10, <1>t, <2>1, TypeSplit DEF KillWorker, TypeOK
  <1>11. ASSUME NEW e \in Experiments, CreateState(e) PROVE TypeInv'
    <2>1. [phase |-> "planned", id |-> "none"] \in State
      BY DEF State, Phases, Ids
    <2>2. JobInv'
      BY <1>11, <1>t DEF CreateState, JobInv, TypeOK, Aim
    <2>3. QED
      BY <1>11, <1>t, <2>1, <2>2, TypeSplit DEF CreateState, TypeOK
  <1>12. ASSUME NEW e \in Experiments, SpawnWorker(e) PROVE TypeInv'
    <2>1. JobInv'
      BY <1>12, GotoType DEF SpawnWorker, Actors, Benching
    <2>2. QED
      BY <1>12, <1>t, <2>1, TypeSplit DEF SpawnWorker, TypeOK
  <1>13. ASSUME NEW e \in Experiments, CleanNext(e) \/ Recover(e) PROVE TypeInv'
    <2>0. Launcher \in Actors \ Experiments /\ Operator \in Actors \ Experiments
      BY ConstantsOK DEF Actors
    <2>1. bad[Launcher] \in BOOLEAN /\ bad[Operator] \in BOOLEAN
      BY <2>0, <1>t DEF TypeOK
    <2>2. JobInv'
      BY <1>13, <2>0, <2>1, EnterType DEF CleanNext, Recover
    <2>3. QED
      BY <1>13, <1>t, <2>2, TypeSplit DEF CleanNext, Recover, TypeOK
  <1>14. ASSUME \/ Withdraw \/ WalkAway \/ Confirm \/ ReframeExits \/ ReframeDies
                \/ RelayFails \/ BeginStop \/ SecondInterrupt \/ Finish
         PROVE TypeInv'
    <2>1. JobInv'
      BY <1>14, <1>t DEF Withdraw, WalkAway, Confirm, ReframeExits, ReframeDies, RelayFails,
         BeginStop, SecondInterrupt, Finish,
            JobInv, TypeOK, Aim
    <2>2. Blank \in State /\ LiveWorkers \subseteq Experiments
      BY DEF Blank, State, Phases, Ids, LiveWorkers
    <2>3. QED
      BY <1>14, <1>t, <2>1, <2>2, TypeSplit DEF Withdraw, WalkAway, Confirm, ReframeExits,
         ReframeDies, RelayFails, BeginStop,
            SecondInterrupt, Finish, TypeOK
  <1>15. ASSUME StopGroups PROVE TypeInv'
    <2>1. Blank \in State
      BY DEF Blank, State, Phases, Ids
    <2> DEFINE dead == snap \cap LiveWorkers
    <2>d. /\ pc' = [a \in Actors |-> IF a \in dead THEN "killed" ELSE pc[a]]
          /\ copy' = [a \in Actors |-> IF a \in dead THEN Blank ELSE copy[a]]
          /\ call' = [a \in Actors |-> IF a \in dead THEN "none" ELSE call[a]]
          /\ bad' = [a \in Actors |-> IF a \in dead THEN TRUE ELSE bad[a]]
          /\ work' = work
      BY <1>15 DEF StopGroups
    <2> HIDE DEF dead
    <2>p. pc' \in [Actors -> Benching \cup Destroying \cup Resting]
      BY <1>t, <2>d DEF TypeOK, Resting
    <2>c. copy' \in [Actors -> State] /\ call' \in [Actors -> {"none", "sent", "ok", "failed"}]
      BY <1>t, <2>1, <2>d DEF TypeOK
    <2>b. bad' \in [Actors -> BOOLEAN]
      <3>1. \A a \in Actors : bad[a] \in BOOLEAN
        BY <1>t DEF TypeOK
      <3>2. \A a \in Actors : (IF a \in dead THEN TRUE ELSE bad[a]) \in BOOLEAN
        BY <3>1, Zenon
      <3>3. QED
        BY <2>d, <3>2, Zenon
    <2>a. Aim'
      BY <1>t, <2>d DEF TypeOK, Aim, Resting, Benching, Calls
    <2>2. JobInv'
      BY <1>t, <2>d, <2>p, <2>c, <2>b, <2>a DEF JobInv, TypeOK
    <2>3. \A e \in snap : Orphaned(e) \subseteq Request
      BY <1>t, OrphanedType DEF TypeOK, Actors
    <2>4. late' \subseteq Request
      BY <1>15, <1>t, <2>3 DEF StopGroups, TypeOK
    <2>5. QED
      BY <1>15, <1>t, <2>2, <2>4, TypeSplit DEF StopGroups, TypeOK
  <1>16. ASSUME KillLauncher PROVE TypeInv'
    <2>0. Launcher \in Actors
      BY DEF Actors
    <2>1. JobInv' /\ late' \subseteq Request
      BY <1>16, <1>t, <2>0, RestType, OrphanedType DEF KillLauncher, TypeOK, Resting
    <2>2. QED
      BY <1>16, <1>t, <2>1, TypeSplit DEF KillLauncher, TypeOK
  <1>17. CASE UNCHANGED vars
    BY <1>17, <1>t DEF vars, TypeInv, TypeOK, Aim
  <1>18. QED
    BY <1>1, <1>2, <1>3, <1>4, <1>5, <1>6, <1>7, <1>8, <1>9, <1>10, <1>11, <1>12, <1>13, <1>14,
       <1>15, <1>16, <1>17 DEF Next, DestroyStep

LEMMA TypeAlways == Spec => []TypeInv
  BY TypeInit, TypeNext, PTL DEF Spec

\* Every state is well typed, whatever the faults.
THEOREM TypeCorrect == Spec => []TypeOK
  <1>1. TypeInv => TypeOK
    BY DEF TypeInv
  <1>2. QED
    BY <1>1, TypeAlways, PTL

-----------------------------------------------------------------------------
(* Safety.  Some of the theorems below hold whatever the environment does: *)
(* processes killed at any point, requests that Fly applies after their    *)
(* client was stopped, workers a stop has missed, reused names and         *)
(* recovery commands typed too early.  The others name the faults they     *)
(* exclude; each excluded fault alone breaks the property.                 *)

-----------------------------------------------------------------------------
(* A file that says destroyed and holds the ID is right.                   *)

\* Where a process holds a copy it may still write back.
Loaded == {"start", "find", "destroy", "verify", "close"}

\* The app of e was not created yet, and may still be.
Early(e) == pc[e] \in {"waiting", "read", "start"} \/ CreatePending(e)

\* A create request without a client is one the worker has given up.
CreateGivenUp ==
    \A e \in Experiments :
        [kind |-> "create", exp |-> e] \in late => pc[e] \notin Benching \cup {"waiting"}

\* Until its app is created, nobody has recorded or read an ID.
NoIdEarly ==
    \A e \in Experiments : Early(e) =>
        /\ file[e].id # "owned"
        /\ \A a \in Actors :
              work[a] = e /\ pc[a] \in Loaded => copy[a].id # "owned"

\* About to write destroyed with an ID, a process has seen the app gone, and no
\* create is outstanding that could bring it back.
CloseRight ==
    \A a \in Actors :
        pc[a] = "close" /\ copy[a].id = "owned" => app[work[a]].id # "owned"

\* What a worker is about to write carries the phase it has reached.
WorkerCopies ==
    \A e \in Experiments :
        /\ pc[e] = "start" => copy[e].phase = "planned"
        /\ pc[e] = "record" => copy[e].phase = "created"

GoneInv == TypeInv /\ CreateGivenUp /\ NoIdEarly /\ CloseRight /\ WorkerCopies
           /\ RecordedDestroyedMeansGone

LEMMA GoneInit == Init => GoneInv
  <1> SUFFICES ASSUME Init PROVE GoneInv
    OBVIOUS
  <1>1. CreateGivenUp /\ NoIdEarly /\ CloseRight /\ WorkerCopies /\ RecordedDestroyedMeansGone
    BY DEF Init, CreateGivenUp, NoIdEarly, CloseRight, WorkerCopies,
           RecordedDestroyedMeansGone, Blank, NoApp, Loaded, Actors
  <1>2. QED
    BY <1>1, TypeInit DEF GoneInv

\* Only a worker leaves a create request behind.
LEMMA OrphanedCreate ==
    ASSUME TypeInv, NEW a \in Actors, NEW e \in Experiments,
           [kind |-> "create", exp |-> e] \in Orphaned(a)
    PROVE  a = e /\ pc[e] = "create" /\ call[e] = "sent"
  <1>1. pc[a] = "create" /\ work[a] = e /\ call[a] = "sent"
    BY DEF Orphaned
  <1>2. a \in Experiments /\ work[a] = a
    BY <1>1 DEF TypeInv, Aim, Benching
  <1>3. QED
    BY <1>1, <1>2

\* Only a create request brings an owned app about.
LEMMA EffectOwned ==
    ASSUME NEW kind \in Calls, NEW old \in App, Effect(kind, old).id = "owned"
    PROVE  old.id = "owned" \/ kind = "create"
  BY DEF Effect, Accepted, NoApp, Calls, App

\* What Fly does to the apps when it serves a client, and when it serves a
\* request that nobody waits for.
LEMMA ServeOwned ==
    ASSUME TypeInv, NEW a \in Actors, Serve(a), NEW e \in Experiments, app'[e].id = "owned"
    PROVE  app[e].id = "owned" \/ CreatePending(e)
  <1>1. /\ work[a] \in Experiments /\ pc[a] \in Calls /\ app[work[a]] \in App
        /\ pc[a] = "create" => work[a] = a
    BY DEF Serve, TypeInv, TypeOK, Aim, Calls, Resting, Benching
  <1>2. /\ app'[work[a]] = Effect(pc[a], app[work[a]])
        /\ e # work[a] => app'[e] = app[e]
        /\ call[a] = "sent"
    BY <1>1 DEF Serve, TypeInv, TypeOK
  <1>3. CASE e = work[a]
    BY <1>1, <1>2, <1>3, EffectOwned DEF CreatePending
  <1>4. CASE e # work[a]
    BY <1>2, <1>4
  <1>5. QED
    BY <1>3, <1>4

LEMMA LateOwned ==
    ASSUME TypeInv, NEW r \in late, ServeLate(r), NEW e \in Experiments, app'[e].id = "owned"
    PROVE  app[e].id = "owned" \/ CreatePending(e)
  <1>1. r.kind \in Calls /\ r.exp \in Experiments /\ app[r.exp] \in App
        /\ r = [kind |-> r.kind, exp |-> r.exp]
    BY DEF TypeInv, TypeOK, Request
  <1>2. QED
    BY <1>1, EffectOwned DEF ServeLate, TypeInv, TypeOK, CreatePending

\* Fly applying a create request brings no app back that a file or a process
\* about to write it takes for destroyed.
LEMMA NoReturn ==
    ASSUME GoneInv, UNCHANGED <<file, pc, work, copy>>,
           \A e \in Experiments : app'[e].id = "owned" => app[e].id = "owned" \/ CreatePending(e)
    PROVE  CloseRight' /\ RecordedDestroyedMeansGone'
  <1>g. NoIdEarly /\ CloseRight /\ RecordedDestroyedMeansGone
    BY DEF GoneInv
  <1>1. ASSUME NEW a \in Actors, pc[a] = "close", copy[a].id = "owned" PROVE app'[work[a]].id # "owned"
    <2>1. work[a] \in Experiments
      BY <1>1 DEF GoneInv, TypeInv, Aim, Resting
    <2>2. ~CreatePending(work[a])
      BY <1>g, <1>1, <2>1 DEF NoIdEarly, Early, Loaded
    <2>3. QED
      BY <1>g, <1>1, <2>1, <2>2 DEF CloseRight
  <1>2. ASSUME NEW e \in Experiments, file[e] = [phase |-> "destroyed", id |-> "owned"]
        PROVE  app'[e].id # "owned"
    <2>1. ~CreatePending(e)
      BY <1>g, <1>2 DEF NoIdEarly, Early
    <2>2. QED
      BY <1>g, <1>2, <2>1 DEF RecordedDestroyedMeansGone
  <1>3. QED
    BY <1>1, <1>2 DEF CloseRight, RecordedDestroyedMeansGone

LEMMA GoneNext == GoneInv /\ [Next]_vars => GoneInv'
  <1> DEFINE Gone == CreateGivenUp /\ NoIdEarly /\ CloseRight /\ WorkerCopies /\ RecordedDestroyedMeansGone
  <1> SUFFICES ASSUME GoneInv, [Next]_vars PROVE Gone'
    BY TypeNext DEF GoneInv
  <1> USE DEF cloud, launch, job, CreateGivenUp, NoIdEarly, CloseRight, WorkerCopies,
              RecordedDestroyedMeansGone, Early, CreatePending, Loaded, Aim, Resting, Benching, Destroying, Calls, Actors
  <1>t. TypeOK /\ Aim /\ TypeInv
    BY DEF GoneInv, TypeInv
  <1>g. Gone
    BY DEF GoneInv
  <1>1. ASSUME NEW a \in Actors, Serve(a) PROVE Gone'
    <2>2. \A e \in Experiments : app'[e].id = "owned" => app[e].id = "owned" \/ CreatePending(e)
      BY <1>1, <1>t, ServeOwned
    <2>3. /\ file' = file /\ pc' = pc /\ work' = work /\ copy' = copy /\ late' = late
          /\ \A e \in Actors : call'[e] = "sent" => call[e] = "sent"
      BY <1>1, <1>t DEF Serve, TypeOK
    <2>4. CreateGivenUp' /\ NoIdEarly' /\ WorkerCopies'
      BY <1>g, <2>3
    <2>5. CloseRight' /\ RecordedDestroyedMeansGone'
      BY <2>2, <2>3, NoReturn
    <2>6. QED
      BY <2>4, <2>5
  <1>2. ASSUME NEW a \in Actors, DestroyLook(a) PROVE Gone'
    <2>1. work[a] \in Experiments
      BY <1>2, <1>t DEF DestroyLook
    <2>2. CASE Leave(a, FALSE)
      BY <1>2, <1>t, <1>g, <2>1, <2>2 DEF DestroyLook, Leave, Rest, Exit, TypeOK
    <2>3. CASE Load(a, "find", file[work[a]])
      BY <1>2, <1>t, <1>g, <2>1, <2>3 DEF DestroyLook, Load, TypeOK
    <2>4. QED
      BY <1>2, <2>2, <2>3 DEF DestroyLook
  <1>3. ASSUME NEW a \in Actors, DestroyFind(a) \/ DestroyAnswered(a) \/ DestroyVerify(a) PROVE Gone'
    BY <1>3, <1>t, <1>g DEF DestroyFind, DestroyAnswered, DestroyVerify, Goto, TypeOK
  <1>4. ASSUME NEW a \in Actors, DestroyClose(a) PROVE Gone'
    BY <1>4, <1>t, <1>g DEF DestroyClose, Leave, Rest, Exit, TypeOK, State
  <1>5. ASSUME NEW a \in Actors, DestroyRaises(a) PROVE Gone'
    BY <1>5, <1>t, <1>g, OrphanedCreate DEF DestroyRaises, Leave, Rest, Exit, TypeOK
  <1>6. ASSUME NEW r \in late, ServeLate(r) PROVE Gone'
    <2>2. \A e \in Experiments : app'[e].id = "owned" => app[e].id = "owned" \/ CreatePending(e)
      BY <1>6, <1>t, LateOwned
    <2>3. /\ file' = file /\ pc' = pc /\ work' = work /\ copy' = copy /\ call' = call
          /\ late' \subseteq late
      BY <1>6 DEF ServeLate
    <2>4. CreateGivenUp' /\ NoIdEarly' /\ WorkerCopies'
      BY <1>g, <2>3
    <2>5. CloseRight' /\ RecordedDestroyedMeansGone'
      BY <2>2, <2>3, NoReturn
    <2>6. QED
      BY <2>4, <2>5
  <1>7. ASSUME NEW e \in Experiments, ForeignCreate(e) PROVE Gone'
    BY <1>7, <1>t, <1>g DEF ForeignCreate, TypeOK, App
  <1>8. ASSUME NEW e \in Experiments, WorkerStep(e) PROVE Gone'
    <2>0. work[e] = e /\ e \in Actors
      BY <1>t
    <2>1. CASE ReadPlanned(e) \/ Identify(e) \/ Reread(e)
      BY <1>t, <1>g, <2>1 DEF ReadPlanned, Identify, Reread, Load, TypeOK
    <2>2. CASE StartCreate(e)
      <3>1. copy[e].id # "owned" /\ [kind |-> "create", exp |-> e] \notin late
        BY <1>g, <2>0, <2>2 DEF StartCreate
      <3>2. file' = [file EXCEPT ![e] = copy[e]] /\ file'[e].id # "owned"
        BY <1>t, <2>2, <3>1 DEF StartCreate, TypeOK
      <3>3. QED
        BY <1>t, <1>g, <2>0, <2>2, <3>1, <3>2 DEF StartCreate, Goto, TypeOK
    <2>3. CASE Record(e)
      <3>1. ~Early(e) /\ pc' = [pc EXCEPT ![e] = "deploy"] /\ call' = [call EXCEPT ![e] = "sent"]
        BY <1>g, <2>3 DEF Record, Goto
      <3>2. copy[e].phase # "destroyed"
        BY <1>g, <2>3 DEF Record
      <3>3. QED
        BY <1>t, <1>g, <2>0, <2>3, <3>1, <3>2 DEF Record, Goto, TypeOK
    <2>4. CASE MarkReady(e)
      BY <1>t, <1>g, <2>4 DEF MarkReady, Goto, TypeOK, State
    <2>5. CASE Created(e) \/ Deployed(e) \/ Measure(e) \/ Fetch(e)
      BY <1>t, <1>g, <2>5 DEF Created, Deployed, Measure, Fetch, Goto, Enter, TypeOK
    <2>6. QED
      BY <1>8, <2>1, <2>2, <2>3, <2>4, <2>5 DEF WorkerStep
  <1>9. ASSUME NEW e \in Experiments, WorkerRaises(e) \/ KillWorker(e) PROVE Gone'
    BY <1>9, <1>t, <1>g, OrphanedCreate DEF WorkerRaises, KillWorker, Enter, Rest, Live, TypeOK
  <1>10. ASSUME NEW e \in Experiments, CreateState(e) \/ SpawnWorker(e) PROVE Gone'
    BY <1>10, <1>t, <1>g DEF CreateState, SpawnWorker, Goto, TypeOK
  <1>11. ASSUME NEW e \in Experiments, CleanNext(e) \/ Recover(e) PROVE Gone'
    BY <1>11, <1>t, <1>g, ConstantsOK DEF CleanNext, Recover, Enter, TypeOK
  <1>12. ASSUME \/ Withdraw \/ WalkAway \/ Confirm \/ ReframeExits \/ ReframeDies
                \/ RelayFails \/ BeginStop \/ SecondInterrupt \/ Finish
         PROVE Gone'
    BY <1>12, <1>t, <1>g DEF Withdraw, WalkAway, Confirm, ReframeExits, ReframeDies, RelayFails,
       BeginStop, SecondInterrupt,
       Finish, Blank
  <1>13. ASSUME StopGroups PROVE Gone'
    <2> DEFINE dead == snap \cap LiveWorkers
    <2>1. /\ pc' = [a \in Actors |-> IF a \in dead THEN "killed" ELSE pc[a]]
          /\ copy' = [a \in Actors |-> IF a \in dead THEN Blank ELSE copy[a]]
          /\ call' = [a \in Actors |-> IF a \in dead THEN "none" ELSE call[a]]
          /\ work' = work /\ file' = file /\ app' = app
      BY <1>13 DEF StopGroups
    <2>2. \A e \in Experiments : [kind |-> "create", exp |-> e] \in late' =>
             [kind |-> "create", exp |-> e] \in late
             \/ (e \in dead /\ pc[e] = "create" /\ call[e] = "sent")
      <3>1. late' = late \cup UNION {Orphaned(e) : e \in snap} /\ snap \subseteq Experiments
        BY <1>13, <1>t DEF StopGroups, TypeOK
      <3>2. \A e, f \in Experiments : [kind |-> "create", exp |-> e] \in Orphaned(f) =>
               f = e /\ pc[e] = "create" /\ call[e] = "sent"
        BY <1>t, OrphanedCreate
      <3>3. ASSUME NEW e \in Experiments, [kind |-> "create", exp |-> e] \in late',
                   [kind |-> "create", exp |-> e] \notin late
            PROVE  e \in dead /\ pc[e] = "create" /\ call[e] = "sent"
        <4>1. PICK f \in snap : [kind |-> "create", exp |-> e] \in Orphaned(f)
          BY <3>1, <3>3
        <4>2. QED
          BY <3>1, <3>2, <4>1 DEF LiveWorkers, Live
      <3>4. QED
        BY <3>3
    <2> HIDE DEF dead
    <2>3. QED
      BY <1>t, <1>g, <2>1, <2>2 DEF Blank
  <1>14. ASSUME KillLauncher PROVE Gone'
    BY <1>14, <1>t, <1>g, OrphanedCreate, ConstantsOK DEF KillLauncher, Rest, TypeOK
  <1>15. CASE UNCHANGED vars
    BY <1>15, <1>g DEF vars
  <1>16. QED
    BY <1>1, <1>2, <1>3, <1>4, <1>5, <1>6, <1>7, <1>8, <1>9, <1>10, <1>11, <1>12, <1>13, <1>14,
       <1>15 DEF Next, DestroyStep

\* A state file that says destroyed and holds the ID of its app is right, even
\* though everyone who writes the file writes a copy read earlier, and Fly may
\* apply a create request long after its worker was stopped.
THEOREM DestroyedFilesAreRight == Spec => []RecordedDestroyedMeansGone
  <1>1. GoneInv => RecordedDestroyedMeansGone
    BY DEF GoneInv
  <1>2. QED
    BY <1>1, GoneInit, GoneNext, PTL DEF Spec

-----------------------------------------------------------------------------
(* No app without a state file.                                            *)

\* Before ReFrame is started nothing has happened outside the state files.
NothingYet ==
    reframe = "none" =>
        /\ pc[Launcher] = "idle"
        /\ \A e \in Experiments :
              pc[e] = "waiting" /\ app[e].id # "owned" /\ ~CreatePending(e)

\* Once it is started every experiment has its file, and keeps it.
AllFiles == reframe # "none" => \A e \in Experiments : file[e].phase # "absent"

\* The launcher starts ReFrame when every file of the plan is written.
PlanFirst ==
    /\ lpc \in {"planning", "confirm"} => reframe = "none"
    /\ lpc \in {"running", "stopping", "cleaning"} => reframe # "none"
    /\ lpc = "planning" => \A e \in Experiments \ todo : file[e].phase # "absent"
    /\ lpc = "confirm" => \A e \in Experiments : file[e].phase # "absent"

FilesInv == GoneInv /\ NothingYet /\ AllFiles /\ PlanFirst

LEMMA FilesInit == Init => FilesInv
  <1> SUFFICES ASSUME Init PROVE FilesInv
    OBVIOUS
  <1>1. NothingYet /\ AllFiles /\ PlanFirst
    BY ConstantsOK DEF Init, NothingYet, AllFiles, PlanFirst, CreatePending, Actors, NoApp
  <1>2. QED
    BY <1>1, GoneInit DEF FilesInv

LEMMA FilesNext == FilesInv /\ [Next]_vars => FilesInv'
  <1> DEFINE Files == NothingYet /\ AllFiles /\ PlanFirst
  <1> SUFFICES ASSUME FilesInv, [Next]_vars PROVE Files'
    BY GoneNext DEF FilesInv
  <1> USE DEF cloud, launch, job, NothingYet, AllFiles, PlanFirst, CreatePending, Aim, Resting,
              Benching, Destroying, Calls, Actors, WorkerCopies
  <1>t. TypeOK /\ Aim /\ TypeInv /\ WorkerCopies
    BY DEF FilesInv, GoneInv, TypeInv
  <1>f. Files
    BY DEF FilesInv
  <1>l. Launcher \in Actors \ Experiments
    BY ConstantsOK
  <1>1. ASSUME NEW a \in Actors, Serve(a) PROVE Files'
    <2>1. \A e \in Experiments : CreatePending(e)' => CreatePending(e)
      BY <1>1, <1>t DEF Serve, TypeOK
    <2>2. QED
      BY <1>1, <1>t, <1>f, <2>1, ServeOwned DEF Serve
  <1>2. ASSUME NEW a \in Actors, DestroyLook(a) PROVE Files'
    <2>1. CASE Leave(a, FALSE)
      BY <1>2, <1>t, <1>f, <1>l, <2>1 DEF DestroyLook, Leave, Rest, Remaining, TypeOK
    <2>2. CASE Load(a, "find", file[work[a]]) /\ UNCHANGED <<launch, printed, result>>
      BY <1>2, <1>t, <1>f, <1>l, <2>2 DEF DestroyLook, Load, TypeOK
    <2>3. QED
      BY <1>2, <2>1, <2>2 DEF DestroyLook
  <1>3. ASSUME NEW a \in Actors, DestroyFind(a) \/ DestroyAnswered(a) \/ DestroyVerify(a) PROVE Files'
    BY <1>3, <1>t, <1>f, <1>l DEF DestroyFind, DestroyAnswered, DestroyVerify, Goto, TypeOK
  <1>4. ASSUME NEW a \in Actors, DestroyClose(a) PROVE Files'
    <2>1. work[a] \in Experiments /\ pc[a] \notin Resting /\ copy[a] \in State
      BY <1>4, <1>t DEF DestroyClose, TypeOK
    <2>2. \A e \in Experiments : file[e].phase # "absent" => file'[e].phase # "absent"
      BY <1>4, <1>t, <2>1 DEF DestroyClose, TypeOK, State
    <2>3. reframe = "none" => a # Launcher /\ a \notin Experiments
      BY <1>f, <2>1
    <2>4. QED
      BY <1>4, <1>t, <1>f, <1>l, <2>2, <2>3 DEF DestroyClose, Leave, Rest, Remaining, TypeOK
  <1>5. ASSUME NEW a \in Actors, DestroyRaises(a) PROVE Files'
    <2>1. reframe = "none" => a # Launcher /\ a \notin Experiments
      BY <1>5, <1>f DEF DestroyRaises
    <2>2. pc[a] \notin {"waiting", "create"}
      BY <1>5 DEF DestroyRaises
    <2>3. \A e \in Experiments : CreatePending(e)' => CreatePending(e)
      BY <1>5, <1>t, <2>2, OrphanedCreate DEF DestroyRaises, Leave, Rest, TypeOK
    <2>4. /\ \A b \in Actors \ {a} : pc'[b] = pc[b]
          /\ reframe = "none" => todo' = todo
          /\ UNCHANGED <<file, app, lpc, reframe>>
      BY <1>5, <1>t, <2>1 DEF DestroyRaises, Leave, Rest, Remaining, TypeOK
    <2>5. NothingYet'
      BY <1>f, <1>l, <2>1, <2>3, <2>4
    <2>6. AllFiles' /\ PlanFirst'
      BY <1>f, <2>4
    <2>7. QED
      BY <2>5, <2>6
  <1>6. ASSUME NEW r \in late, ServeLate(r) PROVE Files'
    BY <1>6, <1>t, <1>f, LateOwned DEF ServeLate
  <1>7. ASSUME NEW e \in Experiments, ForeignCreate(e) PROVE Files'
    BY <1>7, <1>t, <1>f DEF ForeignCreate, TypeOK, App
  <1>8. ASSUME NEW e \in Experiments, WorkerStep(e) PROVE Files'
    <2>1. pc[e] \in Benching
      BY <1>8 DEF WorkerStep, ReadPlanned, StartCreate, Created, Identify, Record, Deployed,
         Reread, MarkReady, Measure, Fetch
    <2>2. reframe # "none" /\ lpc \notin {"planning", "confirm"}
      BY <1>f, <2>1
    <2>3. CASE StartCreate(e) \/ Record(e) \/ MarkReady(e)
      <3>1. file'[e].phase # "absent" /\ \A f \in Experiments \ {e} : file'[f] = file[f]
        BY <1>t, <2>3 DEF StartCreate, Record, MarkReady, TypeOK, State
      <3>2. QED
        BY <1>f, <2>2, <2>3, <3>1 DEF StartCreate, Record, MarkReady
    <2>4. CASE UNCHANGED <<file, launch>>
      BY <1>f, <2>2, <2>4
    <2>5. QED
      BY <1>8, <2>3, <2>4 DEF WorkerStep, ReadPlanned, Created, Identify, Deployed, Reread,
         Measure, Fetch
  <1>9. ASSUME NEW e \in Experiments, WorkerRaises(e) \/ KillWorker(e) PROVE Files'
    BY <1>9, <1>t, <1>f DEF WorkerRaises, KillWorker, Live
  <1>10. ASSUME NEW e \in Experiments, CreateState(e) PROVE Files'
    BY <1>10, <1>t, <1>f DEF CreateState, TypeOK
  <1>11. ASSUME NEW e \in Experiments, SpawnWorker(e) \/ CleanNext(e) PROVE Files'
    BY <1>11, <1>t, <1>f DEF SpawnWorker, CleanNext
  <1>12. ASSUME NEW e \in Experiments, Recover(e) PROVE Files'
    BY <1>12, <1>t, <1>f, ConstantsOK DEF Recover, Enter, TypeOK
  <1>13. ASSUME \/ Withdraw \/ WalkAway \/ Confirm \/ ReframeExits \/ ReframeDies
                \/ RelayFails \/ BeginStop \/ SecondInterrupt \/ Finish
         PROVE Files'
    BY <1>13, <1>t, <1>f DEF Withdraw, WalkAway, Confirm, ReframeExits, ReframeDies, RelayFails,
       BeginStop, SecondInterrupt, Finish
  <1>14. ASSUME StopGroups PROVE Files'
    BY <1>14, <1>t, <1>f DEF StopGroups
  <1>15. ASSUME KillLauncher PROVE Files'
    BY <1>15, <1>t, <1>f, <1>l, OrphanedCreate DEF KillLauncher, Rest, TypeOK
  <1>16. CASE UNCHANGED vars
    BY <1>16, <1>f DEF vars
  <1>17. QED
    BY <1>1, <1>2, <1>3, <1>4, <1>5, <1>6, <1>7, <1>8, <1>9, <1>10, <1>11, <1>12, <1>13, <1>14,
       <1>15, <1>16 DEF Next, DestroyStep

\* No owned app, and no request that could still create one, is without its
\* state file: whatever fails, its recovery command has a file to read.
THEOREM NoAppGoesAstray == Spec => []NoStrayApp
  <1>1. FilesInv => NoStrayApp
    BY DEF FilesInv, NothingYet, AllFiles, NoStrayApp
  <1>2. QED
    BY <1>1, FilesInit, FilesNext, PTL DEF Spec

-----------------------------------------------------------------------------
(* One writer at a time.  The stop, the cleanup loop and the recovery      *)
(* command each come after the processes before them are gone, unless one  *)
(* of six faults lets them overlap.                                        *)

StopFaults == {"late_spawn", "ps_fails", "second_interrupt", "reframe_dies", "relay_fails"}
Overlapping == StopFaults \cup {"eager_operator"}

\* While the launcher only runs its workers none of the six has come about yet,
\* and recovery is early only if the launcher was killed.
Alone ==
    \/ lpc \in {"planning", "confirm", "running"}
    \/ Faults \cap StopFaults = {} /\ ("eager_operator" \in Faults => lpc # "killed")

Turns ==
    /\ pc[Launcher] \notin Resting => lpc = "cleaning" /\ work[Launcher] \in todo
    /\ lpc = "stopping" => \A e \in Experiments : Live(e) => e \in snap
    /\ lpc \in {"cleaning", "over"} => reframe # "up" /\ \A e \in Experiments : ~Live(e)
    /\ pc[Operator] \notin Resting =>
          /\ lpc \in {"over", "killed"}
          /\ ~Live(work[Operator])
          /\ reframe = "up" => pc[work[Operator]] # "waiting"

\* The worker of e has not come to destroy, and runs or may still be started.
Fresh(e) ==
    \/ pc[e] \in Benching
    \/ pc[e] = "waiting" /\ (reframe = "up" \/ lpc \in {"planning", "confirm"})

PlannedFile == [phase |-> "planned", id |-> "none"]
CreatedFile == [phase |-> "created", id |-> "owned"]
ReadyFile == [phase |-> "ready", id |-> "owned"]

\* Until it comes to destroy, a worker is alone with its file and its app.
Track(e) ==
    /\ \A r \in late : r.exp # e
    /\ pc[e] \in {"waiting", "read", "start", "create"} =>
          /\ file[e] = PlannedFile \/ (file[e] = Blank /\ pc[e] \in {"waiting", "read"})
          /\ call[e] = "ok" \/ app[e].id # "owned"
    /\ pc[e] = "start" => copy[e] = PlannedFile
    /\ pc[e] = "create" /\ call[e] = "ok" => app[e] = [id |-> "owned", machines |-> FALSE]
    /\ pc[e] \in {"identify", "record"} =>
          file[e] = PlannedFile /\ app[e] = [id |-> "owned", machines |-> FALSE]
    /\ pc[e] \in {"record", "mark"} => copy[e] = CreatedFile
    /\ pc[e] \in {"deploy", "reread", "mark"} => file[e] = CreatedFile
    /\ pc[e] = "deploy" /\ call[e] = "sent" => ~app[e].machines
    /\ pc[e] \in {"measure", "fetch", "salvage"} => file[e] = ReadyFile
    /\ pc[e] \in {"deploy", "reread", "mark", "measure", "fetch", "salvage"} =>
          app[e].id = "owned"

Tracks == \A e \in Experiments : Fresh(e) => Track(e)

\* In destroy a process holds the file as it is.
Copies ==
    \A a \in Actors :
        pc[a] \in Destroying \ {"look"} =>
            copy[a] = file[work[a]] /\ copy[a].phase \notin {"absent", "destroyed"}

\* No ID but the campaign's own is ever recorded, and none before a worker runs.
OwnIds ==
    /\ \A e \in Experiments : file[e].id # "foreign"
    /\ lpc \in {"planning", "confirm"} =>
          \A e \in Experiments :
              file[e] \in {Blank, PlannedFile} /\ (e \in todo => file[e] = Blank)

\* Machines belong to an owned app, and are added to a recorded one only.
MachinesRecorded ==
    /\ \A e \in Experiments : app[e].machines => app[e].id = "owned"
    /\ RecordedBeforeMachines
    /\ \A e \in Experiments : [kind |-> "deploy", exp |-> e] \in late => file[e].id = "owned"

\* A worker that has not failed brings its result and its recorded ID to destroy.
Succeeding ==
    \A e \in Experiments :
        /\ pc[e] \in Destroying /\ ~bad[e] => e \in result /\ file[e].id = "owned"
        /\ pc[e] = "ok" => e \in result /\ file[e] = [phase |-> "destroyed", id |-> "owned"]

\* The cleanup loop leaves nothing behind unreported.
Accounted ==
    /\ lpc = "cleaning" =>
          \A e \in Experiments \ todo : file[e].phase = "destroyed" \/ e \in printed
    /\ FailureIsReported

Kept == Turns /\ Tracks /\ Copies /\ OwnIds /\ MachinesRecorded /\ Succeeding /\ Accounted

KeptInv == FilesInv /\ (Alone => Kept)

LEMMA AloneBefore == [Next]_vars /\ Alone' => Alone
  <1> SUFFICES ASSUME [Next]_vars
               PROVE  /\ lpc' \in {"planning", "confirm", "running"} =>
                            lpc \in {"planning", "confirm", "running"}
                      /\ lpc' # "killed" => lpc # "killed"
    BY DEF Alone
  <1> USE DEF cloud, launch, job
  <1>1. ASSUME NEW a \in Actors, Serve(a) \/ DestroyStep(a) \/ DestroyRaises(a)
        PROVE  lpc' = lpc
    BY <1>1 DEF Serve, DestroyStep, DestroyLook, DestroyFind, DestroyAnswered, DestroyVerify,
       DestroyClose, DestroyRaises, Leave
  <1>2. ASSUME NEW e \in Experiments,
               ForeignCreate(e) \/ WorkerStep(e) \/ WorkerRaises(e) \/ KillWorker(e)
               \/ SpawnWorker(e) \/ CleanNext(e) \/ Recover(e)
        PROVE  lpc' = lpc
    BY <1>2 DEF ForeignCreate, WorkerStep, ReadPlanned, StartCreate, Created, Identify, Record,
       Deployed, Reread, MarkReady, Measure, Fetch, WorkerRaises, KillWorker, SpawnWorker,
       CleanNext, Recover
  <1>3. QED
    BY <1>1, <1>2 DEF Next, ServeLate, CreateState, Withdraw, WalkAway, Confirm, ReframeExits,
       ReframeDies, RelayFails,
       BeginStop, StopGroups, SecondInterrupt, Finish, KillLauncher, vars

\* Two processes that work never work for the same experiment ...
LEMMA OneWriter ==
    ASSUME TypeInv, Turns, NEW a \in Actors, NEW b \in Actors,
           pc[a] \notin Resting, pc[b] \notin Resting, work[a] = work[b]
    PROVE  a = b
  BY DEF TypeInv, TypeOK, Aim, Turns, Actors, Live, Resting

\* ... and nobody but its own worker works for one whose worker is not done.
LEMMA FreshAlone ==
    ASSUME TypeInv, Turns, NEW a \in Actors, pc[a] \notin Resting, Fresh(work[a])
    PROVE  a \in Experiments /\ work[a] = a
  BY DEF TypeInv, TypeOK, Aim, Turns, Actors, Live, Resting, Fresh

LEMMA TurnsKept == FilesInv /\ Alone' /\ Turns /\ [Next]_vars => Turns'
  <1> SUFFICES ASSUME FilesInv, Alone', Turns, [Next]_vars PROVE Turns'
    OBVIOUS
  <1> USE DEF cloud, launch, job, Turns, Live, Aim, Resting, Benching, Destroying, Calls, Actors
  <1>t. TypeOK /\ Aim /\ NothingYet /\ PlanFirst
    BY DEF FilesInv, GoneInv, TypeInv
  <1>l. /\ Launcher \in Actors \ Experiments /\ Operator \in Actors \ Experiments
        /\ Launcher # Operator
    BY ConstantsOK
  <1>1. ASSUME NEW a \in Actors,
               Serve(a) \/ DestroyFind(a) \/ DestroyAnswered(a) \/ DestroyVerify(a)
        PROVE  Turns'
    BY <1>1, <1>t, <1>l DEF Serve, DestroyFind, DestroyAnswered, DestroyVerify, Goto, TypeOK
  <1>2. ASSUME NEW a \in Actors, NEW failed \in BOOLEAN, pc[a] \in Destroying, Leave(a, failed)
        PROVE  Turns'
    BY <1>2, <1>t, <1>l DEF Leave, Rest, Exit, Remaining, TypeOK
  <1>3. ASSUME NEW a \in Actors, DestroyLook(a) PROVE Turns'
    <2>1. CASE Leave(a, FALSE)
      BY <1>2, <1>3, <2>1 DEF DestroyLook
    <2>2. CASE Load(a, "find", file[work[a]]) /\ UNCHANGED <<launch, printed, result>>
      BY <1>3, <1>t, <1>l, <2>2 DEF DestroyLook, Load, TypeOK
    <2>3. QED
      BY <1>3, <2>1, <2>2 DEF DestroyLook
  <1>4. ASSUME NEW a \in Actors, DestroyClose(a) \/ DestroyRaises(a) PROVE Turns'
    BY <1>2, <1>4 DEF DestroyClose, DestroyRaises
  <1>5. ASSUME \/ \E r \in late : ServeLate(r)
               \/ \E e \in Experiments : ForeignCreate(e) \/ CreateState(e)
               \/ Withdraw \/ WalkAway
        PROVE  Turns'
    BY <1>5, <1>t, <1>l DEF NothingYet, PlanFirst, ServeLate, ForeignCreate, CreateState, Withdraw, WalkAway, TypeOK
  <1>6. ASSUME NEW e \in Experiments, WorkerStep(e) \/ WorkerRaises(e) PROVE Turns'
    <2>1. /\ Live(e) /\ UNCHANGED launch
          /\ \A a \in Actors \ {e} : pc'[a] = pc[a] /\ work'[a] = work[a]
      BY <1>6, <1>t DEF WorkerStep, ReadPlanned, StartCreate, Created, Identify, Record, Deployed,
         Reread, MarkReady, Measure, Fetch, WorkerRaises, Goto, Load, Enter, TypeOK
    <2>2. QED
      BY <1>t, <1>l, <2>1
  <1>7. ASSUME NEW e \in Experiments, KillWorker(e) PROVE Turns'
    BY <1>7, <1>t, <1>l DEF KillWorker, Rest, TypeOK
  <1>8. ASSUME NEW e \in Experiments, SpawnWorker(e) PROVE Turns'
    BY <1>8, <1>t, <1>l DEF SpawnWorker, Goto, TypeOK, Alone, StopFaults
  <1>9. ASSUME NEW e \in Experiments, CleanNext(e) PROVE Turns'
    BY <1>9, <1>t, <1>l DEF CleanNext, Enter, TypeOK
  <1>10. ASSUME NEW e \in Experiments, Recover(e) PROVE Turns'
    BY <1>10, <1>t, <1>l DEF Recover, Enter, TypeOK, Alone, StopFaults
  <1>11. ASSUME Confirm \/ ReframeExits PROVE Turns'
    BY <1>11, <1>t, <1>l DEF Confirm, ReframeExits, NothingYet, PlanFirst, TypeOK
  <1>12. ASSUME BeginStop PROVE Turns'
    BY <1>12, <1>t, <1>l DEF BeginStop, TypeOK, LiveWorkers, Alone, StopFaults
  <1>13. ASSUME StopGroups PROVE Turns'
    BY <1>13, <1>t, <1>l DEF StopGroups, TypeOK, LiveWorkers
  <1>14. ASSUME SecondInterrupt \/ ReframeDies \/ RelayFails PROVE Turns'
    BY <1>14 DEF SecondInterrupt, ReframeDies, RelayFails, Alone, StopFaults
  <1>15. ASSUME Finish \/ KillLauncher PROVE Turns'
    BY <1>15, <1>t, <1>l DEF Finish, KillLauncher, Rest, TypeOK
  <1>16. CASE UNCHANGED vars
    BY <1>16 DEF vars
  <1>17. QED
    BY <1>1, <1>3, <1>4, <1>5, <1>6, <1>7, <1>8, <1>9, <1>10, <1>11, <1>12, <1>13, <1>14, <1>15,
       <1>16 DEF Next, DestroyStep

LEMMA TrackSame ==
    ASSUME NEW e \in Experiments, Fresh(e) /\ Track(e), \A r \in late' : r.exp # e,
           pc'[e] = pc[e] /\ call'[e] = call[e] /\ copy'[e] = copy[e],
           file'[e] = file[e] /\ app'[e] = app[e]
    PROVE  Track(e)'
  BY DEF Track

LEMMA RestFrame ==
    ASSUME TypeInv, NEW a \in Actors, NEW at, NEW failed, Rest(a, at, failed),
           NEW b \in Actors, b # a
    PROVE  /\ pc'[b] = pc[b] /\ work'[b] = work[b] /\ copy'[b] = copy[b]
           /\ call'[b] = call[b] /\ bad'[b] = bad[b]
  BY DEF Rest, TypeInv, TypeOK

\* What a step of process a may change: its own record, and the file of the
\* experiment it works for.
LEMMA DestroyFrame ==
    ASSUME TypeInv, NEW a \in Actors, DestroyStep(a) \/ DestroyRaises(a)
    PROVE  /\ pc[a] \in Destroying
           /\ pc'[a] \in Destroying \cup {"idle", "ok", "failed"}
           /\ \A b \in Actors \ {a} :
                 /\ pc'[b] = pc[b] /\ work'[b] = work[b] /\ copy'[b] = copy[b]
                 /\ call'[b] = call[b] /\ bad'[b] = bad[b]
           /\ \A e \in Experiments \ {work[a]} : file'[e] = file[e]
           /\ \A r \in late' : r \in late \/ r \in Orphaned(a)
           /\ UNCHANGED <<app, lpc, snap, reframe, rc, result>>
  <1> USE DEF Destroying, cloud, launch, job
  <1>t. TypeOK
    BY DEF TypeInv
  <1>1. CASE DestroyLook(a)
    <2>1. CASE Leave(a, FALSE)
      BY <1>t, <1>1, <2>1 DEF DestroyLook, Leave, Rest, Exit, TypeOK
    <2>2. CASE Load(a, "find", file[work[a]]) /\ UNCHANGED <<launch, printed, result>>
      BY <1>t, <1>1, <2>2 DEF DestroyLook, Load, TypeOK
    <2>3. QED
      BY <1>1, <2>1, <2>2 DEF DestroyLook
  <1>2. CASE DestroyFind(a) \/ DestroyAnswered(a) \/ DestroyVerify(a)
    BY <1>t, <1>2 DEF DestroyFind, DestroyAnswered, DestroyVerify, Goto, TypeOK
  <1>3. CASE DestroyClose(a)
    BY <1>t, <1>3 DEF DestroyClose, Leave, Rest, Exit, TypeOK
  <1>4. CASE DestroyRaises(a)
    BY <1>t, <1>4 DEF DestroyRaises, Leave, Rest, Exit, TypeOK
  <1>5. QED
    BY <1>1, <1>2, <1>3, <1>4 DEF DestroyStep

LEMMA WorkerFrame ==
    ASSUME TypeInv, NEW e \in Experiments, WorkerStep(e) \/ WorkerRaises(e) \/ KillWorker(e)
    PROVE  /\ pc[e] \in Benching \cup Destroying
           /\ \/ pc[e] \in Benching /\ pc'[e] \in Benching \cup {"look"}
              \/ pc'[e] = "killed"
           /\ \A b \in Actors \ {e} :
                 /\ pc'[b] = pc[b] /\ work'[b] = work[b] /\ copy'[b] = copy[b]
                 /\ call'[b] = call[b] /\ bad'[b] = bad[b]
           /\ \A f \in Experiments \ {e} : file'[f] = file[f]
           /\ \A r \in late' : r \in late \/ r \in Orphaned(e)
           /\ UNCHANGED <<app, lpc, todo, snap, reframe, rc, printed>>
  <1> USE DEF Benching, cloud, launch, job, Actors
  <1>t. TypeOK
    BY DEF TypeInv
  <1>1. CASE WorkerStep(e)
    <2>1. CASE ReadPlanned(e) \/ Identify(e) \/ Reread(e)
      BY <1>t, <2>1 DEF ReadPlanned, Identify, Reread, Load, TypeOK
    <2>2. CASE StartCreate(e) \/ Record(e) \/ MarkReady(e)
      BY <1>t, <2>2 DEF StartCreate, Record, MarkReady, Goto, TypeOK
    <2>3. CASE Created(e) \/ Deployed(e) \/ Measure(e) \/ Fetch(e)
      BY <1>t, <2>3 DEF Created, Deployed, Measure, Fetch, Goto, Enter, TypeOK
    <2>4. QED
      BY <1>1, <2>1, <2>2, <2>3 DEF WorkerStep
  <1>2. CASE WorkerRaises(e)
    BY <1>t, <1>2 DEF WorkerRaises, Enter, TypeOK
  <1>3. CASE KillWorker(e)
    BY <1>t, <1>3 DEF KillWorker, Live, Rest, TypeOK
  <1>4. QED
    BY <1>1, <1>2, <1>3

\* No worker becomes fresh again.
LEMMA FreshBefore ==
    ASSUME TypeInv, PlanFirst, NothingYet, [Next]_vars, NEW e \in Experiments, Fresh(e)'
    PROVE  Fresh(e)
  <1> USE DEF cloud, launch, job, Fresh, Benching, Destroying, Actors
  <1>t. TypeOK /\ Launcher \notin Experiments /\ Operator \notin Experiments
    BY ConstantsOK DEF TypeInv
  <1>1. ASSUME NEW a \in Actors, DestroyStep(a) \/ DestroyRaises(a) PROVE Fresh(e)
    BY <1>1, DestroyFrame
  <1>2. ASSUME NEW f \in Experiments, WorkerStep(f) \/ WorkerRaises(f) \/ KillWorker(f)
        PROVE  Fresh(e)
    BY <1>2, WorkerFrame
  <1>3. ASSUME \/ \E a \in Actors : Serve(a)
               \/ \E r \in late : ServeLate(r)
               \/ \E f \in Experiments : ForeignCreate(f) \/ CreateState(f) \/ SpawnWorker(f)
               \/ Withdraw \/ WalkAway \/ Confirm \/ ReframeExits \/ ReframeDies \/ RelayFails
        PROVE  Fresh(e)
    BY <1>3, <1>t DEF Serve, ServeLate, ForeignCreate, CreateState, SpawnWorker, Goto, Withdraw,
       WalkAway, Confirm, ReframeExits, ReframeDies, RelayFails, TypeOK
  <1>4. ASSUME NEW f \in Experiments, CleanNext(f) \/ Recover(f) PROVE Fresh(e)
    BY <1>4, <1>t DEF CleanNext, Recover, Enter, TypeOK
  <1>5. ASSUME BeginStop \/ StopGroups \/ SecondInterrupt \/ Finish \/ KillLauncher PROVE Fresh(e)
    <2>1. CASE StopGroups
      BY <2>1, <1>t DEF StopGroups
    <2>2. QED
      BY <1>5, <2>1, <1>t DEF BeginStop, SecondInterrupt, Finish, KillLauncher, Rest, TypeOK
  <1>6. CASE UNCHANGED vars
    BY <1>6 DEF vars
  <1>7. QED
    BY <1>1, <1>2, <1>3, <1>4, <1>5, <1>6 DEF Next

\* Nobody's destroy touches an experiment whose worker is not done.
LEMMA FreshLeftAlone ==
    ASSUME TypeInv, Turns, NEW e \in Experiments, Fresh(e),
           NEW a \in Actors, DestroyStep(a) \/ DestroyRaises(a)
    PROVE  /\ pc'[e] = pc[e] /\ call'[e] = call[e] /\ copy'[e] = copy[e]
           /\ file'[e] = file[e] /\ app'[e] = app[e]
           /\ (\A r \in late : r.exp # e) => (\A r \in late' : r.exp # e)
  <1>1. a # e /\ work[a] # e
    BY DestroyFrame, FreshAlone DEF Fresh, Benching, Destroying, Resting
  <1>2. QED
    BY <1>1, DestroyFrame DEF Orphaned, Actors

LEMMA TracksKept ==
    FilesInv /\ Alone' /\ Turns /\ Tracks /\ OwnIds /\ [Next]_vars => Tracks'
  <1> SUFFICES ASSUME FilesInv, Alone', Turns, Tracks, OwnIds, [Next]_vars,
                      NEW e \in Experiments, Fresh(e)'
               PROVE  Track(e)'
    BY DEF Tracks
  <1> USE DEF cloud, launch, job, Aim, Resting, Benching, Destroying, Calls, Actors
  <1>t. TypeOK /\ Aim /\ TypeInv /\ NothingYet /\ PlanFirst
    BY DEF FilesInv, GoneInv, TypeInv
  <1>l. /\ Launcher \in Actors \ Experiments /\ Operator \in Actors \ Experiments
        /\ e \in Actors /\ work[e] = e
    BY <1>t, ConstantsOK
  <1>k. Fresh(e) /\ Track(e) /\ \A r \in late : r.exp # e
    BY <1>t, FreshBefore DEF Tracks, Track
  <1>1. ASSUME NEW a \in Actors, Serve(a) PROVE Track(e)'
    <2>1. CASE a # e
      <3>1. work[a] # e
        BY <1>1, <1>t, <1>k, <2>1, FreshAlone DEF Serve
      <3>2. QED
        BY <1>1, <1>t, <1>k, <2>1, <3>1, TrackSame DEF Serve, TypeOK
    <2>2. CASE a = e
      <3>1. pc[e] \in {"create", "deploy"}
        BY <1>1, <1>t, <1>k, <2>2 DEF Serve, Fresh
      <3>2. /\ app'[e] = Effect(pc[e], app[e]) /\ call[e] = "sent"
            /\ call'[e] = IF Accepted(pc[e], app[e]) THEN "ok" ELSE "failed"
            /\ UNCHANGED <<file, pc, copy, late>>
        BY <1>1, <1>t, <1>l, <2>2 DEF Serve, TypeOK
      <3>3. CASE pc[e] = "create"
        BY <1>k, <1>t, <3>2, <3>3 DEF Track, Effect, Accepted
      <3>4. CASE pc[e] = "deploy"
        BY <1>k, <1>t, <3>2, <3>4 DEF Track, Effect, Accepted
      <3>5. QED
        BY <3>1, <3>3, <3>4
    <2>3. QED
      BY <2>1, <2>2
  <1>2. ASSUME NEW a \in Actors, DestroyStep(a) \/ DestroyRaises(a) PROVE Track(e)'
    BY <1>2, <1>t, <1>k, FreshLeftAlone, TrackSame
  <1>3. ASSUME NEW r \in late, ServeLate(r) PROVE Track(e)'
    BY <1>3, <1>t, <1>k, TrackSame DEF ServeLate, TypeOK, Request
  <1>4. ASSUME NEW f \in Experiments, ForeignCreate(f) PROVE Track(e)'
    <2>1. CASE f = e
      <3>1. app[e].id = "none" /\ app'[e].id = "foreign" /\ app'[e].machines = app[e].machines
        BY <1>4, <1>t, <2>1 DEF ForeignCreate, TypeOK, App
      <3>2. UNCHANGED <<file, pc, copy, call, late>>
        BY <1>4 DEF ForeignCreate
      <3>3. pc[e] \notin {"identify", "record"} /\ ~(pc[e] = "create" /\ call[e] = "ok")
        BY <1>k, <3>1 DEF Track
      <3>4. QED
        BY <1>k, <3>1, <3>2, <3>3 DEF Track
    <2>2. CASE f # e
      BY <1>4, <1>t, <1>k, <2>2, TrackSame DEF ForeignCreate, TypeOK
    <2>3. QED
      BY <2>1, <2>2
  <1>5. ASSUME NEW f \in Experiments \ {e}, WorkerStep(f) \/ WorkerRaises(f) \/ KillWorker(f)
        PROVE  Track(e)'
    BY <1>5, <1>t, <1>k, WorkerFrame, TrackSame DEF Orphaned
  <1>6. ASSUME WorkerRaises(e) \/ KillWorker(e) PROVE Track(e)'
    BY <1>6, <1>t, <1>l DEF WorkerRaises, KillWorker, Enter, Rest, Fresh, TypeOK
  <1>7. CASE WorkerStep(e)
    <2>l. \A r \in late' : r.exp # e
      BY <1>7, <1>k DEF WorkerStep, ReadPlanned, StartCreate, Created, Identify, Record,
         Deployed, Reread, MarkReady, Measure, Fetch
    <2>1. CASE ReadPlanned(e)
      BY <1>t, <1>l, <1>k, <2>l, <2>1 DEF ReadPlanned, Load, TypeOK, Track, PlannedFile
    <2>2. CASE StartCreate(e)
      BY <1>t, <1>l, <1>k, <2>l, <2>2 DEF StartCreate, Goto, TypeOK, Track
    <2>3. CASE Created(e)
      BY <1>t, <1>l, <1>k, <2>l, <2>3 DEF Created, Goto, TypeOK, Track, PlannedFile, Blank
    <2>4. CASE Identify(e)
      BY <1>t, <1>l, <1>k, <2>l, <2>4 DEF Identify, Load, TypeOK, Track, CreatedFile
    <2>5. CASE Record(e)
      BY <1>t, <1>l, <1>k, <2>l, <2>5 DEF Record, Goto, TypeOK, Track
    <2>6. CASE Deployed(e)
      BY <1>t, <1>l, <1>k, <2>l, <2>6 DEF Deployed, Goto, TypeOK, Track
    <2>7. CASE Reread(e)
      BY <1>t, <1>l, <1>k, <2>l, <2>7 DEF Reread, Load, TypeOK, Track
    <2>8. CASE MarkReady(e)
      BY <1>t, <1>l, <1>k, <2>l, <2>8 DEF MarkReady, Goto, TypeOK, Track, CreatedFile, ReadyFile
    <2>9. CASE Measure(e)
      BY <1>t, <1>l, <1>k, <2>l, <2>9 DEF Measure, Goto, TypeOK, Track
    <2>10. CASE Fetch(e)
      BY <1>t, <1>l, <2>10 DEF Fetch, Enter, Fresh, TypeOK
    <2>11. QED
      BY <1>7, <2>1, <2>2, <2>3, <2>4, <2>5, <2>6, <2>7, <2>8, <2>9, <2>10 DEF WorkerStep
  <1>8. ASSUME NEW f \in Experiments, CreateState(f) PROVE Track(e)'
    <2>1. pc[e] = "waiting" /\ app[e].id # "owned"
      BY <1>8, <1>t DEF CreateState, NothingYet, PlanFirst
    <2>2. QED
      BY <1>8, <1>t, <1>k, <2>1 DEF CreateState, TypeOK, Track, PlannedFile
  <1>9. ASSUME NEW f \in Experiments, SpawnWorker(f) PROVE Track(e)'
    BY <1>9, <1>t, <1>l, <1>k, TrackSame DEF SpawnWorker, Goto, TypeOK, Track
  <1>10. ASSUME NEW f \in Experiments, CleanNext(f) \/ Recover(f) PROVE Track(e)'
    BY <1>10, <1>t, <1>l, <1>k, TrackSame DEF CleanNext, Recover, Enter, TypeOK
  <1>11. ASSUME Withdraw \/ WalkAway PROVE Track(e)'
    BY <1>11, <1>t DEF Withdraw, WalkAway, Fresh, NothingYet, PlanFirst
  <1>12. ASSUME \/ Confirm \/ ReframeExits \/ ReframeDies \/ RelayFails
                \/ BeginStop \/ SecondInterrupt \/ Finish
         PROVE Track(e)'
    BY <1>12, <1>k, TrackSame DEF Confirm, ReframeExits, ReframeDies, RelayFails, BeginStop,
       SecondInterrupt, Finish
  <1>13. ASSUME StopGroups PROVE Track(e)'
    <2>1. pc'[e] = IF e \in snap \cap LiveWorkers THEN "killed" ELSE pc[e]
      BY <1>13, <1>l DEF StopGroups
    <2>2. QED
      BY <1>13, <2>1 DEF StopGroups, Fresh, Turns, LiveWorkers, Live
  <1>14. ASSUME KillLauncher PROVE Track(e)'
    <2>1. \A r \in Orphaned(Launcher) : r.exp # e
      BY <1>t, <1>l, <1>k, FreshAlone DEF Orphaned
    <2>2. QED
      BY <1>14, <1>t, <1>l, <1>k, <2>1, TrackSame DEF KillLauncher, Rest, TypeOK
  <1>15. CASE UNCHANGED vars
    BY <1>15, <1>k, TrackSame DEF vars
  <1>16. QED
    BY <1>1, <1>2, <1>3, <1>4, <1>5, <1>6, <1>7, <1>8, <1>9, <1>10, <1>11, <1>12, <1>13, <1>14,
       <1>15 DEF Next

LEMMA CopiesKept == FilesInv /\ Turns /\ Copies /\ [Next]_vars => Copies'
  <1> SUFFICES ASSUME FilesInv, Turns, Copies, [Next]_vars,
                      NEW a \in Actors, pc'[a] \in Destroying \ {"look"}
               PROVE  copy'[a] = file'[work'[a]] /\ copy'[a].phase \notin {"absent", "destroyed"}
    BY DEF Copies
  <1> DEFINE Held == copy'[a] = file'[work'[a]] /\ copy'[a].phase \notin {"absent", "destroyed"}
  <1> USE DEF cloud, launch, job, Aim, Resting, Benching, Destroying, Calls, Actors
  <1>t. TypeOK /\ Aim /\ TypeInv /\ NothingYet /\ PlanFirst
    BY DEF FilesInv, GoneInv, TypeInv
  <1>l. /\ Launcher \in Actors \ Experiments /\ Operator \in Actors \ Experiments
        /\ Launcher # Operator
    BY ConstantsOK
  <1>s. ASSUME pc'[a] = pc[a], work'[a] = work[a], copy'[a] = copy[a],
               file'[work[a]] = file[work[a]]
        PROVE  Held
    BY <1>s DEF Copies
  <1>1. ASSUME NEW b \in Actors, DestroyStep(b) \/ DestroyRaises(b) PROVE Held
    <2>1. CASE a # b
      <3>1. pc[a] \notin Resting /\ work[a] \in Experiments \ {work[b]}
        BY <1>1, <1>t, <2>1, DestroyFrame, OneWriter
      <3>2. QED
        BY <1>1, <1>t, <1>s, <2>1, <3>1, DestroyFrame
    <2>2. CASE a = b
      <3>0. ~\E failed \in BOOLEAN : Leave(a, failed)
        BY <1>t DEF Leave, Rest, Exit, TypeOK
      <3>1. CASE DestroyLook(a)
        <4>1. /\ copy' = [copy EXCEPT ![a] = file[work[a]]] /\ file' = file /\ work' = work
              /\ file[work[a]].phase \notin {"absent", "destroyed"}
          BY <3>0, <3>1 DEF DestroyLook, Load
        <4>2. QED
          BY <1>t, <4>1 DEF TypeOK
      <3>2. CASE DestroyFind(a) \/ DestroyAnswered(a) \/ DestroyVerify(a)
        BY <1>t, <3>2 DEF DestroyFind, DestroyAnswered, DestroyVerify, Goto, TypeOK, Copies
      <3>3. CASE DestroyClose(a) \/ DestroyRaises(a)
        BY <3>0, <3>3 DEF DestroyClose, DestroyRaises
      <3>4. QED
        BY <1>1, <2>2, <3>1, <3>2, <3>3 DEF DestroyStep
    <2>3. QED
      BY <2>1, <2>2
  <1>2. ASSUME NEW f \in Experiments, WorkerStep(f) \/ WorkerRaises(f) \/ KillWorker(f)
        PROVE  Held
    <2>1. a # f /\ pc'[a] = pc[a] /\ work'[a] = work[a] /\ copy'[a] = copy[a]
      BY <1>2, <1>t, WorkerFrame
    <2>2. pc[a] \notin Resting /\ work[a] \in Experiments \ {f}
      BY <1>2, <1>t, <2>1, WorkerFrame, OneWriter
    <2>3. QED
      BY <1>2, <1>t, <1>s, <2>1, <2>2, WorkerFrame
  <1>3. ASSUME \/ \E f \in Experiments : CreateState(f)
               \/ Withdraw
        PROVE  Held
    <2>1. pc[a] \in Resting
      BY <1>3, <1>t DEF CreateState, Withdraw, NothingYet, PlanFirst, Turns
    <2>2. QED
      BY <1>3, <2>1 DEF CreateState, Withdraw
  <1>4. ASSUME NEW f \in Experiments, CleanNext(f) \/ Recover(f) \/ SpawnWorker(f) PROVE Held
    BY <1>4, <1>t, <1>l, <1>s DEF CleanNext, Recover, SpawnWorker, Goto, Enter, TypeOK
  <1>5. ASSUME StopGroups \/ KillLauncher PROVE Held
    <2>1. CASE StopGroups
      <3> DEFINE dead == snap \cap LiveWorkers
      <3>1. pc' = [b \in Actors |-> IF b \in dead THEN "killed" ELSE pc[b]]
            /\ copy' = [b \in Actors |-> IF b \in dead THEN Blank ELSE copy[b]]
            /\ UNCHANGED <<work, file>>
        BY <2>1 DEF StopGroups
      <3> HIDE DEF dead
      <3>2. QED
        BY <1>s, <3>1
    <2>2. CASE KillLauncher
      BY <1>t, <1>l, <1>s, <2>2 DEF KillLauncher, Rest, TypeOK
    <2>3. QED
      BY <1>5, <2>1, <2>2
  <1>6. ASSUME UNCHANGED <<file, pc, work, copy>> PROVE Held
    BY <1>6, <1>s
  <1>7. QED
    BY <1>1, <1>2, <1>3, <1>4, <1>5, <1>6
       DEF Next, Serve, ServeLate, ForeignCreate, WalkAway, Confirm, ReframeExits, ReframeDies,
          RelayFails,
           BeginStop, SecondInterrupt, Finish, vars

\* What may become of a state file once ReFrame was started.
Moves(old, new) ==
    \/ new = old
    \/ old = PlannedFile /\ new = CreatedFile
    \/ old = CreatedFile /\ new = ReadyFile
    \/ old.phase \notin {"absent", "destroyed"} /\ new = [phase |-> "destroyed", id |-> old.id]

\* The plan is written and withdrawn by the launcher alone.
PlanMoves(e) == lpc \in {"planning", "confirm"} /\ reframe' = "none"
                /\ file'[e] \in {Blank, PlannedFile}

LEMMA FileMoves ==
    ASSUME FilesInv, Turns, Tracks, Copies, OwnIds, [Next]_vars, NEW e \in Experiments
    PROVE  PlanMoves(e) \/ Moves(file[e], file'[e])
  <1> DEFINE Goal == PlanMoves(e) \/ Moves(file[e], file'[e])
  <1>s. ASSUME file'[e] = file[e] PROVE Goal
    BY <1>s DEF Moves
  <1> HIDE DEF Goal
  <1> USE DEF cloud, launch, job, Actors
  <1>t. TypeOK /\ Aim /\ TypeInv /\ NothingYet /\ PlanFirst
    BY DEF FilesInv, GoneInv, TypeInv
  <1>k. Fresh(e) => Track(e)
    BY DEF Tracks
  <1>1. ASSUME NEW a \in Actors, DestroyClose(a) PROVE Goal
    <2>1. file' = [file EXCEPT ![work[a]] = [copy[a] EXCEPT !.phase = "destroyed"]]
      BY <1>1 DEF DestroyClose
    <2>2. copy[a] = file[work[a]] /\ copy[a].phase \notin {"absent", "destroyed"} /\ copy[a] \in State
      BY <1>1, <1>t DEF DestroyClose, Copies, Destroying, TypeOK
    <2>3. [copy[a] EXCEPT !.phase = "destroyed"] = [phase |-> "destroyed", id |-> copy[a].id]
      BY <2>2 DEF State
    <2>4. CASE work[a] = e
      BY <1>t, <2>1, <2>2, <2>3, <2>4 DEF TypeOK, Goal, Moves
    <2>5. CASE work[a] # e
      BY <1>t, <1>s, <2>1, <2>5 DEF TypeOK
    <2>6. QED
      BY <2>4, <2>5
  <1>2. ASSUME StartCreate(e) \/ Record(e) \/ MarkReady(e) PROVE Goal
    <2> USE DEF Fresh, Benching
    <2>1. CASE StartCreate(e)
      <3>1. file'[e] = copy[e] /\ copy[e] = PlannedFile /\ file[e] = PlannedFile
        BY <1>t, <1>k, <2>1 DEF StartCreate, Track, TypeOK
      <3>2. QED
        BY <1>s, <3>1
    <2>2. CASE Record(e)
      <3>1. file'[e] = copy[e] /\ copy[e] = CreatedFile /\ file[e] = PlannedFile
        BY <1>t, <1>k, <2>2 DEF Record, Track, TypeOK
      <3>2. QED
        BY <3>1 DEF Goal, Moves
    <2>3. CASE MarkReady(e)
      <3>1. file'[e] = [copy[e] EXCEPT !.phase = "ready"]
            /\ copy[e] = CreatedFile /\ file[e] = CreatedFile
        BY <1>t, <1>k, <2>3 DEF MarkReady, Track, TypeOK
      <3>2. file'[e] = ReadyFile
        BY <3>1 DEF CreatedFile, ReadyFile
      <3>3. QED
        BY <3>1, <3>2 DEF Goal, Moves
    <2>4. QED
      BY <1>2, <2>1, <2>2, <2>3
  <1>3. ASSUME NEW f \in Experiments \ {e}, StartCreate(f) \/ Record(f) \/ MarkReady(f) PROVE Goal
    BY <1>3, <1>t, <1>s DEF StartCreate, Record, MarkReady, TypeOK
  <1>4. ASSUME NEW f \in Experiments, CreateState(f) PROVE Goal
    <2>1. PlanMoves(e)
      BY <1>4, <1>t DEF CreateState, PlanFirst, TypeOK, PlannedFile, OwnIds, PlanMoves
    <2>2. QED
      BY <2>1 DEF Goal
  <1>5. ASSUME Withdraw PROVE Goal
    <2>1. PlanMoves(e)
      BY <1>5, <1>t DEF Withdraw, PlanFirst, PlanMoves
    <2>2. QED
      BY <2>1 DEF Goal
  <1>6. ASSUME file' = file PROVE Goal
    BY <1>6, <1>s
  <1>7. QED
    <2>1. Goal
      BY <1>1, <1>2, <1>3, <1>4, <1>5, <1>6
         DEF Next, DestroyStep, DestroyLook, DestroyFind, DestroyAnswered, DestroyVerify,
             DestroyRaises, WorkerStep, ReadPlanned, Created, Identify, Deployed, Reread, Measure,
             Fetch, WorkerRaises, KillWorker, Serve, ServeLate, ForeignCreate, SpawnWorker,
             CleanNext, Recover, WalkAway, Confirm, ReframeExits, ReframeDies, RelayFails,
             BeginStop, StopGroups,
             SecondInterrupt, Finish, KillLauncher, vars
    <2>2. QED
      BY <2>1 DEF Goal

\* A recorded ID stays, and so does a destroyed file.
LEMMA RecordStays ==
    ASSUME FilesInv, Turns, Tracks, Copies, OwnIds, [Next]_vars, NEW e \in Experiments
    PROVE  /\ file[e].id # "none" => file'[e].id = file[e].id
           /\ file[e].phase = "destroyed" => file'[e] = file[e]
           /\ file'[e].id # "foreign"
  <1>1. CASE PlanMoves(e)
    BY <1>1 DEF PlanMoves, OwnIds, Blank, PlannedFile
  <1>2. CASE Moves(file[e], file'[e])
    BY <1>2 DEF Moves, PlannedFile, CreatedFile, ReadyFile, OwnIds
  <1>3. QED
    BY <1>1, <1>2, FileMoves

LEMMA OwnIdsKept ==
    FilesInv /\ Turns /\ Tracks /\ Copies /\ OwnIds /\ [Next]_vars => OwnIds'
  <1> SUFFICES ASSUME FilesInv, Turns, Tracks, Copies, OwnIds, [Next]_vars PROVE OwnIds'
    OBVIOUS
  <1> USE DEF cloud, launch, job, Actors, Resting, Destroying, Benching
  <1>t. TypeOK /\ Aim /\ TypeInv /\ NothingYet /\ PlanFirst
    BY DEF FilesInv, GoneInv, TypeInv
  <1>1. \A e \in Experiments : file'[e].id # "foreign"
    BY RecordStays
  <1>2. ASSUME lpc' \in {"planning", "confirm"}, NEW e \in Experiments
        PROVE  file'[e] \in {Blank, PlannedFile} /\ (e \in todo' => file'[e] = Blank)
    <2> DEFINE Goal == file'[e] \in {Blank, PlannedFile} /\ (e \in todo' => file'[e] = Blank)
    <2>1. lpc \in {"planning", "confirm"} => \A a \in Actors : pc[a] \in Resting
      BY <1>t DEF NothingYet, PlanFirst, Turns
    <2>2. ASSUME NEW a \in Actors, DestroyStep(a) \/ DestroyRaises(a) PROVE FALSE
      BY <1>2, <1>t, <2>1, <2>2, DestroyFrame
    <2>3. ASSUME NEW f \in Experiments, WorkerStep(f) \/ WorkerRaises(f) \/ KillWorker(f)
          PROVE  FALSE
      BY <1>2, <1>t, <2>1, <2>3, WorkerFrame
    <2>4. ASSUME NEW f \in Experiments, CreateState(f) PROVE Goal
      BY <1>t, <2>4 DEF CreateState, TypeOK, PlannedFile, OwnIds
    <2>5. ASSUME UNCHANGED <<file, todo, lpc>> PROVE Goal
      BY <1>2, <2>5 DEF OwnIds
    <2>6. QED
      BY <1>2, <2>2, <2>3, <2>4, <2>5
         DEF Next, Serve, ServeLate, ForeignCreate, SpawnWorker, CleanNext, Recover, Withdraw,
             WalkAway, Confirm, ReframeExits, ReframeDies, RelayFails, BeginStop, StopGroups,
             SecondInterrupt, Finish,
             KillLauncher, vars
  <1>3. QED
    BY <1>1, <1>2 DEF OwnIds

\* Only a worker that was about to add Machines leaves such a request behind.
LEMMA LateDeploy ==
    ASSUME TypeInv, [Next]_vars, NEW e \in Experiments,
           [kind |-> "deploy", exp |-> e] \in late', [kind |-> "deploy", exp |-> e] \notin late
    PROVE  pc[e] = "deploy"
  <1> USE DEF cloud, launch, job
  <1>1. ASSUME NEW a \in Actors, [kind |-> "deploy", exp |-> e] \in Orphaned(a)
        PROVE  pc[e] = "deploy"
    <2>1. pc[a] = "deploy" /\ work[a] = e
      BY <1>1 DEF Orphaned
    <2>2. a = e
      BY <2>1 DEF TypeInv, Aim, Benching
    <2>3. QED
      BY <2>1, <2>2
  <1>2. ASSUME NEW a \in Actors, DestroyStep(a) \/ DestroyRaises(a) PROVE pc[e] = "deploy"
    BY <1>1, <1>2, DestroyFrame
  <1>3. ASSUME NEW f \in Experiments, WorkerStep(f) \/ WorkerRaises(f) \/ KillWorker(f)
        PROVE  pc[e] = "deploy"
    BY <1>1, <1>3, WorkerFrame DEF Actors
  <1>4. ASSUME StopGroups PROVE pc[e] = "deploy"
    <2>1. late' = late \cup UNION {Orphaned(f) : f \in snap} /\ snap \subseteq Actors
      BY <1>4 DEF StopGroups, TypeInv, TypeOK, Actors
    <2>2. PICK f \in snap : [kind |-> "deploy", exp |-> e] \in Orphaned(f)
      BY <2>1
    <2>3. QED
      BY <1>1, <2>1, <2>2
  <1>5. ASSUME KillLauncher PROVE pc[e] = "deploy"
    BY <1>1, <1>5 DEF KillLauncher, Actors
  <1>6. \/ late' \subseteq late
        \/ \E a \in Actors : DestroyStep(a) \/ DestroyRaises(a)
        \/ \E f \in Experiments : WorkerStep(f) \/ WorkerRaises(f) \/ KillWorker(f)
        \/ StopGroups \/ KillLauncher
    BY DEF Next, Serve, ServeLate, ForeignCreate, CreateState, SpawnWorker, CleanNext, Recover,
       Withdraw, WalkAway, Confirm, ReframeExits, ReframeDies, RelayFails, BeginStop,
       SecondInterrupt, Finish, vars
  <1>7. QED
    BY <1>2, <1>3, <1>4, <1>5, <1>6

\* Machines are added by a worker that recorded its app, or by a request of it.
LEMMA MachinesAdded ==
    ASSUME FilesInv, Tracks, MachinesRecorded, [Next]_vars,
           NEW e \in Experiments, app'[e].machines
    PROVE  app'[e].id = "owned" /\ file[e].id = "owned"
  <1> DEFINE Goal == app'[e].id = "owned" /\ file[e].id = "owned"
  <1> USE DEF cloud, launch, job, Actors
  <1>t. TypeOK /\ Aim /\ TypeInv
    BY DEF FilesInv, GoneInv, TypeInv
  <1>s. ASSUME app'[e] = app[e] PROVE Goal
    BY <1>s DEF MachinesRecorded, RecordedBeforeMachines
  <1>1. ASSUME NEW kind \in Calls, app'[e] = Effect(kind, app[e]),
               kind = "deploy" => file[e].id = "owned"
        PROVE  Goal
    <2>1. CASE app'[e] = app[e]
      BY <1>s, <2>1
    <2>2. CASE kind = "deploy" /\ Accepted(kind, app[e])
      BY <1>1, <2>2 DEF Effect
    <2>3. CASE kind = "destroy" /\ Accepted(kind, app[e])
      BY <1>1, <2>3 DEF Effect, NoApp
    <2>4. CASE kind = "create" /\ Accepted(kind, app[e])
      <3>1. app'[e] = [id |-> "owned", machines |-> kind = "deploy"]
        BY <1>1, <2>4, Zenon DEF Effect
      <3>2. (kind = "deploy") = FALSE
        BY <2>4
      <3>3. app'[e] = [id |-> "owned", machines |-> FALSE]
        BY <3>1, <3>2, Zenon
      <3>4. QED
        BY <1>s, <3>3
    <2>5. QED
      BY <1>1, <2>1, <2>2, <2>3, <2>4 DEF Effect, Calls
  <1>2. ASSUME NEW a \in Actors, Serve(a) PROVE Goal
    <2>1. CASE work[a] = e
      <3>1. pc[a] \in Calls /\ app'[e] = Effect(pc[a], app[e])
        BY <1>2, <1>t, <2>1 DEF Serve, Aim, TypeOK
      <3>2. pc[a] = "deploy" => a = e
        BY <1>t, <2>1 DEF Aim, Benching
      <3>3. pc[a] = "deploy" => file[e].id = "owned"
        BY <3>2 DEF Tracks, Track, Fresh, Benching, CreatedFile
      <3>4. QED
        BY <1>1, <3>1, <3>3
    <2>2. CASE work[a] # e
      BY <1>2, <1>t, <1>s, <2>2 DEF Serve, TypeOK
    <2>3. QED
      BY <2>1, <2>2
  <1>3. ASSUME NEW r \in late, ServeLate(r) PROVE Goal
    <2>0. r.kind \in Calls /\ r.exp \in Experiments /\ r = [kind |-> r.kind, exp |-> r.exp]
      BY <1>t DEF TypeOK, Request
    <2>1. CASE app' = app
      BY <1>s, <2>1
    <2>2. CASE app' = [app EXCEPT ![r.exp] = Effect(r.kind, @)]
      <3>1. CASE r.exp = e
        <4>1. app'[e] = Effect(r.kind, app[e])
          BY <1>t, <2>2, <3>1 DEF TypeOK
        <4>2. r.kind = "deploy" => file[e].id = "owned"
          BY <2>0, <3>1 DEF MachinesRecorded
        <4>3. QED
          BY <1>1, <2>0, <4>1, <4>2
      <3>2. CASE r.exp # e
        BY <1>t, <1>s, <2>2, <3>2 DEF TypeOK
      <3>3. QED
        BY <3>1, <3>2
    <2>3. QED
      BY <1>3, <2>1, <2>2 DEF ServeLate
  <1>4. ASSUME NEW f \in Experiments, ForeignCreate(f) PROVE Goal
    <2>1. CASE f = e
      BY <1>4, <1>t, <2>1 DEF ForeignCreate, TypeOK, App, MachinesRecorded
    <2>2. CASE f # e
      BY <1>4, <1>t, <1>s, <2>2 DEF ForeignCreate, TypeOK
    <2>3. QED
      BY <2>1, <2>2
  <1>5. ASSUME NEW a \in Actors, DestroyStep(a) \/ DestroyRaises(a) PROVE Goal
    BY <1>5, <1>t, <1>s, DestroyFrame
  <1>6. ASSUME NEW f \in Experiments, WorkerStep(f) \/ WorkerRaises(f) \/ KillWorker(f) PROVE Goal
    BY <1>6, <1>t, <1>s, WorkerFrame
  <1>7. ASSUME app' = app PROVE Goal
    BY <1>7, <1>s
  <1>8. QED
    BY <1>2, <1>3, <1>4, <1>5, <1>6, <1>7
       DEF Next, CreateState, SpawnWorker, CleanNext, Recover, Withdraw, WalkAway, Confirm,
           ReframeExits, ReframeDies, RelayFails, BeginStop, StopGroups, SecondInterrupt, Finish,
           KillLauncher, vars

LEMMA MachinesKept ==
    FilesInv /\ Turns /\ Tracks /\ Copies /\ OwnIds /\ MachinesRecorded /\ [Next]_vars
        => MachinesRecorded'
  <1> SUFFICES ASSUME FilesInv, Turns, Tracks, Copies, OwnIds, MachinesRecorded, [Next]_vars,
                      NEW e \in Experiments
               PROVE  /\ app'[e].machines => app'[e].id = "owned" /\ file'[e].id = "owned"
                      /\ [kind |-> "deploy", exp |-> e] \in late' => file'[e].id = "owned"
    BY DEF MachinesRecorded, RecordedBeforeMachines
  <1>1. file[e].id = "owned" => file'[e].id = "owned"
    BY RecordStays
  <1>2. pc[e] = "deploy" => file[e].id = "owned"
    BY DEF Tracks, Track, Fresh, Benching, CreatedFile
  <1>3. QED
    BY <1>1, <1>2, MachinesAdded, LateDeploy DEF MachinesRecorded, FilesInv, GoneInv

LEMMA SucceedingKept ==
    FilesInv /\ Turns /\ Tracks /\ Copies /\ OwnIds /\ Succeeding /\ [Next]_vars => Succeeding'
  <1> SUFFICES ASSUME FilesInv, Turns, Tracks, Copies, OwnIds, Succeeding, [Next]_vars,
                      NEW e \in Experiments
               PROVE  /\ pc'[e] \in Destroying /\ ~bad'[e] => e \in result' /\ file'[e].id = "owned"
                      /\ pc'[e] = "ok" =>
                            e \in result' /\ file'[e] = [phase |-> "destroyed", id |-> "owned"]
    BY DEF Succeeding
  <1> DEFINE Goal == /\ pc'[e] \in Destroying /\ ~bad'[e] => e \in result' /\ file'[e].id = "owned"
                     /\ pc'[e] = "ok" =>
                            e \in result' /\ file'[e] = [phase |-> "destroyed", id |-> "owned"]
  <1> USE DEF cloud, launch, job, Actors
  <1>t. TypeOK /\ Aim /\ TypeInv /\ Launcher \notin Experiments /\ Operator \notin Experiments
    BY ConstantsOK DEF FilesInv, GoneInv, TypeInv
  <1>r. /\ file[e].id = "owned" => file'[e].id = "owned"
        /\ file[e].phase = "destroyed" => file'[e] = file[e]
    BY RecordStays
  <1>s. ASSUME pc'[e] = pc[e] \/ pc'[e] \notin Destroying \cup {"ok"},
               bad'[e] = bad[e] \/ pc'[e] \notin Destroying,
               e \in result => e \in result'
        PROVE  Goal
    BY <1>r, <1>s DEF Succeeding
  <1>1. ASSUME NEW a \in Actors, a # e, DestroyStep(a) \/ DestroyRaises(a) PROVE Goal
    BY <1>1, <1>t, <1>s, DestroyFrame
  <1>2. ASSUME DestroyStep(e) \/ DestroyRaises(e) PROVE Goal
    <2> USE DEF Destroying
    <2>0. work[e] = e /\ pc[e] \in Destroying /\ bad[e] \in BOOLEAN /\ file[e] \in State
      BY <1>2, <1>t, DestroyFrame DEF Aim, TypeOK
    <2>1. ASSUME NEW failed \in BOOLEAN, Leave(e, failed), e \in result => e \in result',
                 ~failed => file'[e].phase = "destroyed" /\ file'[e] \in State
          PROVE  Goal
      <3>1. pc'[e] = IF failed \/ bad[e] THEN "failed" ELSE "ok"
        BY <1>t, <2>1 DEF Leave, Rest, Exit, TypeOK
      <3>2. CASE failed \/ bad[e]
        BY <3>1, <3>2
      <3>3. CASE ~failed /\ ~bad[e]
        BY <1>r, <2>0, <2>1, <3>1, <3>3 DEF Succeeding, State
      <3>4. QED
        BY <2>0, <3>2, <3>3
    <2>2. CASE DestroyLook(e)
      <3>1. CASE Load(e, "find", file[e]) /\ result' = result
        BY <1>r, <1>t, <2>0, <3>1 DEF Load, TypeOK, Succeeding
      <3>2. CASE Leave(e, FALSE) /\ file[e].phase = "destroyed" /\ file' = file /\ result' = result
        BY <2>0, <2>1, <3>2
      <3>3. QED
        BY <2>0, <2>2, <3>1, <3>2 DEF DestroyLook, Leave
    <2>3. CASE DestroyFind(e) \/ DestroyAnswered(e) \/ DestroyVerify(e)
      BY <1>r, <1>t, <2>0, <2>3
         DEF DestroyFind, DestroyAnswered, DestroyVerify, Goto, TypeOK, Succeeding
    <2>4. CASE DestroyClose(e)
      <3>1. copy[e] \in State /\ file' = [file EXCEPT ![e] = [copy[e] EXCEPT !.phase = "destroyed"]]
        BY <1>t, <2>0, <2>4 DEF DestroyClose, TypeOK
      <3>2. file'[e].phase = "destroyed" /\ file'[e] \in State
        BY <1>t, <3>1 DEF TypeOK, State, Phases
      <3>3. QED
        BY <2>1, <2>4, <3>2 DEF DestroyClose, Leave
    <2>5. CASE DestroyRaises(e)
      BY <2>1, <2>5 DEF DestroyRaises, Leave
    <2>6. QED
      BY <1>2, <2>2, <2>3, <2>4, <2>5 DEF DestroyStep
  <1>3. ASSUME NEW f \in Experiments, f # e, WorkerStep(f) \/ WorkerRaises(f) \/ KillWorker(f)
        PROVE  Goal
    <2>1. e \in result => e \in result'
      BY <1>3 DEF WorkerStep, ReadPlanned, StartCreate, Created, Identify, Record, Deployed, Reread,
         MarkReady, Measure, Fetch, WorkerRaises, KillWorker
    <2>2. QED
      BY <1>3, <1>t, <1>s, <2>1, WorkerFrame
  <1>4. CASE WorkerStep(e)
    <2>1. CASE Fetch(e)
      <3>1. file[e].id = "owned"
        BY <2>1 DEF Fetch, Tracks, Track, Fresh, Benching, ReadyFile
      <3>2. pc'[e] = "look" /\ result' = result \cup {e}
        BY <1>t, <2>1 DEF Fetch, Enter, TypeOK
      <3>3. QED
        BY <1>r, <3>1, <3>2
    <2>2. pc'[e] \in Benching \/ Fetch(e)
      BY <1>4, <1>t DEF WorkerStep, ReadPlanned, StartCreate, Created, Identify, Record, Deployed,
         Reread, MarkReady, Measure, Goto, Load, TypeOK, Benching
    <2>3. QED
      BY <2>1, <2>2 DEF Benching, Destroying
  <1>5. CASE WorkerRaises(e) \/ KillWorker(e)
    BY <1>5, <1>t DEF WorkerRaises, KillWorker, Enter, Rest, TypeOK, Destroying
  <1>6. ASSUME NEW f \in Experiments, SpawnWorker(f) \/ CleanNext(f) \/ Recover(f) PROVE Goal
    BY <1>6, <1>t, <1>s DEF SpawnWorker, CleanNext, Recover, Goto, Enter, TypeOK, Destroying
  <1>7. ASSUME StopGroups PROVE Goal
    BY <1>7, <1>s DEF StopGroups, Destroying
  <1>8. ASSUME KillLauncher PROVE Goal
    <2>0. Rest(Launcher, "idle", FALSE) /\ result' = result
      BY <1>8 DEF KillLauncher
    <2>1. pc'[e] = pc[e] /\ bad'[e] = bad[e]
      BY <1>t, <2>0, RestFrame
    <2>2. QED
      BY <1>s, <2>0, <2>1
  <1>9. ASSUME UNCHANGED <<pc, bad, result>> PROVE Goal
    BY <1>9, <1>s
  <1>10. QED
    BY <1>1, <1>2, <1>3, <1>4, <1>5, <1>6, <1>7, <1>8, <1>9
       DEF Next, Serve, ServeLate, ForeignCreate, CreateState, Withdraw, WalkAway, Confirm,
           ReframeExits, ReframeDies, RelayFails, BeginStop, SecondInterrupt, Finish, vars

LEMMA AccountedKept ==
    FilesInv /\ Turns /\ Tracks /\ Copies /\ OwnIds /\ Accounted /\ [Next]_vars => Accounted'
  <1> SUFFICES ASSUME FilesInv, Turns, Tracks, Copies, OwnIds, Accounted, [Next]_vars,
                      NEW e \in Experiments,
                      \/ lpc' = "cleaning" /\ e \notin todo'
                      \/ lpc' = "over" /\ reframe' # "none"
               PROVE  file'[e].phase = "destroyed" \/ e \in printed'
    BY DEF Accounted, FailureIsReported
  <1> DEFINE Goal == file'[e].phase = "destroyed" \/ e \in printed'
  <1> USE DEF cloud, launch, job, Actors
  <1>t. TypeOK /\ Aim /\ TypeInv /\ PlanFirst /\ Launcher \in Actors \ Experiments
    BY ConstantsOK DEF FilesInv, GoneInv, TypeInv
  <1>r. file[e].phase = "destroyed" => file'[e] = file[e]
    BY RecordStays
  <1>s. ASSUME lpc' = lpc, reframe' = reframe, todo' = todo, printed \subseteq printed'
        PROVE  Goal
    BY <1>r, <1>s DEF Accounted, FailureIsReported
  <1>1. ASSUME NEW a \in Actors, DestroyStep(a) \/ DestroyRaises(a) PROVE Goal
    <2>1. lpc' = lpc /\ reframe' = reframe
      BY <1>1, <1>t, DestroyFrame
    <2>2. ASSUME NEW failed \in BOOLEAN, Leave(a, failed),
                 ~failed => file'[work[a]].phase = "destroyed"
          PROVE  Goal
      <3>1. /\ todo' = IF a = Launcher THEN todo \ {work[a]} ELSE todo
            /\ printed' = IF failed /\ a # Operator THEN printed \cup {work[a]} ELSE printed
        BY <2>2 DEF Leave, Remaining
      <3>2. CASE a = Launcher /\ e = work[a]
        BY <2>2, <3>1, <3>2, ConstantsOK
      <3>3. CASE ~(a = Launcher /\ e = work[a])
        BY <1>r, <2>1, <3>1, <3>3 DEF Accounted, FailureIsReported
      <3>4. QED
        BY <3>2, <3>3
    <2>3. CASE DestroyLook(a)
      BY <1>s, <2>1, <2>2, <2>3 DEF DestroyLook
    <2>4. CASE DestroyFind(a) \/ DestroyAnswered(a) \/ DestroyVerify(a)
      BY <1>s, <2>4 DEF DestroyFind, DestroyAnswered, DestroyVerify
    <2>5. CASE DestroyClose(a)
      <3>1. file' = [file EXCEPT ![work[a]] = [copy[a] EXCEPT !.phase = "destroyed"]]
            /\ copy[a] \in State /\ work[a] \in Experiments
        BY <1>t, <2>5 DEF DestroyClose, TypeOK, Aim, Resting
      <3>2. file'[work[a]].phase = "destroyed"
        BY <1>t, <3>1 DEF TypeOK, State
      <3>3. QED
        BY <2>2, <2>5, <3>2 DEF DestroyClose
    <2>6. CASE DestroyRaises(a)
      BY <2>2, <2>6 DEF DestroyRaises
    <2>7. QED
      BY <1>1, <2>3, <2>4, <2>5, <2>6 DEF DestroyStep
  <1>2. ASSUME NEW f \in Experiments, WorkerStep(f) \/ WorkerRaises(f) \/ KillWorker(f) PROVE Goal
    BY <1>2, <1>t, <1>s, WorkerFrame
  <1>3. ASSUME UNCHANGED <<launch, printed>> PROVE Goal
    BY <1>3, <1>s
  <1>4. ASSUME NEW f \in Experiments, CreateState(f) PROVE Goal
    BY <1>4 DEF CreateState
  <1>5. ASSUME Withdraw \/ WalkAway PROVE Goal
    BY <1>5, <1>t DEF Withdraw, WalkAway, PlanFirst
  <1>6. ASSUME \/ Confirm \/ BeginStop \/ StopGroups \/ SecondInterrupt \/ KillLauncher
               \/ ReframeDies \/ RelayFails
        PROVE  Goal
    BY <1>6, <1>s DEF Confirm, BeginStop, StopGroups, SecondInterrupt, KillLauncher, ReframeDies,
       RelayFails, Accounted, FailureIsReported
  <1>7. ASSUME ReframeExits PROVE Goal
    BY <1>7, <1>s, <1>r DEF ReframeExits, Accounted, FailureIsReported
  <1>8. ASSUME Finish PROVE Goal
    BY <1>8, <1>r DEF Finish, Accounted
  <1>9. QED
    BY <1>1, <1>2, <1>3, <1>4, <1>5, <1>6, <1>7, <1>8
       DEF Next, Serve, ServeLate, ForeignCreate, SpawnWorker, CleanNext, Recover, vars

LEMMA KeptInit == Init => KeptInv
  <1> SUFFICES ASSUME Init PROVE KeptInv
    OBVIOUS
  <1>1. Turns /\ Copies /\ OwnIds /\ MachinesRecorded /\ Succeeding /\ Accounted
    BY ConstantsOK DEF Init, Turns, Copies, OwnIds, MachinesRecorded, RecordedBeforeMachines,
       Succeeding, Accounted, FailureIsReported, Resting, Destroying, Actors, Blank, NoApp
  <1>2. Tracks
    BY DEF Init, Tracks, Track, Actors, Blank, NoApp
  <1>3. QED
    BY <1>1, <1>2, FilesInit DEF KeptInv, Kept

LEMMA KeptNext == KeptInv /\ [Next]_vars => KeptInv'
  <1> SUFFICES ASSUME KeptInv, [Next]_vars, Alone' PROVE Kept'
    BY FilesNext DEF KeptInv
  <1>1. FilesInv /\ Kept
    BY AloneBefore DEF KeptInv
  <1>2. QED
    BY <1>1, TurnsKept, TracksKept, CopiesKept, OwnIdsKept, MachinesKept, SucceedingKept,
       AccountedKept DEF Kept

LEMMA KeptAlways == Spec => []KeptInv
  BY KeptInit, KeptNext, PTL DEF Spec

\* Unless a stop is cut short or incomplete, or recovery is typed too early:
\* Machines are added to an app only after its ID has reached the state file.
THEOREM RecordComesFirst ==
    ASSUME Faults \cap Overlapping = {}
    PROVE  Spec => []RecordedBeforeMachines
  <1>1. KeptInv => RecordedBeforeMachines
    BY DEF KeptInv, Alone, Overlapping, Kept, MachinesRecorded
  <1>2. QED
    BY <1>1, KeptAlways, PTL

\* Unless a stop is cut short or incomplete, or the cleanup begins without one
\* while workers live, every app is accounted for when the launcher ends: its
\* file says destroyed, or its recovery line was printed.
THEOREM FailuresAreReported ==
    ASSUME Faults \cap StopFaults = {}
    PROVE  Spec => []FailureIsReported
  <1>1. KeptInv => FailureIsReported
    BY DEF KeptInv, Alone, Kept, Accounted, FailureIsReported
  <1>2. QED
    BY <1>1, KeptAlways, PTL

\* Under the hypothesis of RecordComesFirst no writer overwrites a recorded ID or a destroyed
\* file, although each writes a copy it read earlier.
THEOREM RecordsStay ==
    ASSUME Faults \cap Overlapping = {}
    PROVE  Spec => RecordIsNeverLost
  <1> DEFINE Stays == \A e \in Experiments :
                 /\ file[e].id # "none" => file'[e].id = file[e].id
                 /\ file[e].phase = "destroyed" => file'[e] = file[e]
  <1>1. KeptInv /\ [Next]_vars => [Stays]_vars
    BY RecordStays DEF KeptInv, Alone, Overlapping, Kept
  <1>2. QED
    BY <1>1, KeptAlways, PTL DEF Spec, RecordIsNeverLost

-----------------------------------------------------------------------------
(* The return code.                                                        *)

\* Code 0 is given when every worker has ended well, and from then on nobody
\* gets past the first look at a state file.
RcInv ==
    rc = 0 =>
        /\ lpc \in {"cleaning", "over", "killed"}
        /\ reframe = "exited"
        /\ \A e \in Experiments :
              /\ pc[e] = "ok" /\ e \in result
              /\ file[e] = [phase |-> "destroyed", id |-> "owned"]
        /\ \A a \in Actors : pc[a] \in Resting \cup {"look"}

LEMMA RcNext == KeptInv /\ RcInv /\ [Next]_vars => RcInv'
  <1> SUFFICES ASSUME KeptInv, RcInv, [Next]_vars, rc' = 0 PROVE RcInv'
    BY DEF RcInv
  <1> USE DEF cloud, launch, job, Actors, Resting, Benching, Destroying
  <1>t. TypeOK /\ Aim /\ TypeInv /\ PlanFirst
    BY DEF KeptInv, FilesInv, GoneInv, TypeInv
  <1>l. /\ Launcher \in Actors \ Experiments /\ Operator \in Actors \ Experiments
        /\ Launcher # Operator
    BY ConstantsOK
  <1>1. CASE rc # 0
    <2>1. ASSUME ReframeExits, lpc = "running" PROVE RcInv'
      <3>1. Kept
        BY <2>1 DEF KeptInv, Alone
      <3>2. \A e \in Experiments : pc[e] = "ok"
        BY <1>1, <2>1 DEF ReframeExits
      <3>3. \A a \in Actors : pc[a] \in Resting
        BY <2>1, <3>1, <3>2 DEF Kept, Turns
      <3>4. QED
        BY <2>1, <3>1, <3>2, <3>3 DEF ReframeExits, Kept, Succeeding, RcInv
    <2>2. ASSUME ReframeExits, lpc # "running" PROVE FALSE
      BY <1>1, <2>2 DEF ReframeExits
    <2>3. ASSUME NEW a \in Actors, DestroyStep(a) \/ DestroyRaises(a) PROVE FALSE
      BY <1>1, <1>t, <2>3, DestroyFrame
    <2>4. ASSUME NEW e \in Experiments, WorkerStep(e) \/ WorkerRaises(e) \/ KillWorker(e) PROVE FALSE
      BY <1>1, <1>t, <2>4, WorkerFrame
    <2>5. CASE ReframeExits
      BY <2>1, <2>2, <2>5
    <2>6. CASE \/ \E a \in Actors : Serve(a) \/ DestroyStep(a) \/ DestroyRaises(a)
               \/ \E r \in late : ServeLate(r)
               \/ UNCHANGED vars
      BY <1>1, <2>3, <2>6 DEF Serve, ServeLate, vars
    <2>7. CASE \E e \in Experiments :
                  \/ ForeignCreate(e) \/ WorkerStep(e) \/ WorkerRaises(e) \/ KillWorker(e)
                  \/ CreateState(e) \/ SpawnWorker(e) \/ CleanNext(e) \/ Recover(e)
      BY <1>1, <2>4, <2>7 DEF ForeignCreate, CreateState, SpawnWorker, CleanNext, Recover
    <2>8. CASE \/ Withdraw \/ WalkAway \/ Confirm \/ BeginStop \/ StopGroups
               \/ SecondInterrupt \/ Finish \/ KillLauncher \/ ReframeDies \/ RelayFails
      <3>1. CASE BeginStop \/ ReframeDies \/ RelayFails
        BY <1>1, <3>1 DEF BeginStop, ReframeDies, RelayFails
      <3>2. CASE Finish
        BY <1>1, <3>2 DEF Finish
      <3>3. CASE StopGroups \/ KillLauncher
        <4>1. rc' = rc
          BY <3>3 DEF StopGroups, KillLauncher
        <4>2. QED
          BY <1>1, <4>1
      <3>4. CASE Withdraw \/ WalkAway \/ Confirm \/ SecondInterrupt
        BY <1>1, <3>4 DEF Withdraw, WalkAway, Confirm, SecondInterrupt
      <3>5. QED
        BY <2>8, <3>1, <3>2, <3>3, <3>4
    <2>9. QED
      BY <2>5, <2>6, <2>7, <2>8 DEF Next
  <1>2. CASE rc = 0
    <2>0. /\ lpc \in {"cleaning", "over", "killed"} /\ reframe = "exited"
          /\ \A e \in Experiments :
                /\ pc[e] = "ok" /\ e \in result
                /\ file[e] = [phase |-> "destroyed", id |-> "owned"]
          /\ \A a \in Actors : pc[a] \in Resting \cup {"look"}
      BY <1>2 DEF RcInv
    <2>1. ASSUME NEW a \in Actors, DestroyStep(a) \/ DestroyRaises(a) PROVE RcInv'
      <3>1. a \notin Experiments /\ work[a] \in Experiments
        BY <1>t, <2>0, <2>1, DestroyFrame DEF Aim
      <3>2. file' = file /\ pc'[a] \in Resting
        <4>1. CASE DestroyLook(a)
          <5>0. file[work[a]].phase = "destroyed"
            BY <2>0, <3>1
          <5>1. Leave(a, FALSE) /\ file' = file
            BY <4>1, <5>0, Zenon DEF DestroyLook
          <5>2. pc' = [pc EXCEPT ![a] = "idle"]
            BY <3>1, <5>1 DEF Leave, Rest
          <5>3. QED
            BY <1>t, <2>1, <5>1, <5>2 DEF TypeOK
        <4>2. CASE DestroyRaises(a)
          BY <1>t, <3>1, <4>2 DEF DestroyRaises, Leave, Rest, TypeOK
        <4>3. QED
          BY <2>0, <2>1, <4>1, <4>2 DEF DestroyStep, DestroyFind, DestroyAnswered, DestroyVerify,
             DestroyClose
      <3>3. QED
        BY <1>t, <2>0, <2>1, <3>1, <3>2, DestroyFrame DEF RcInv
    <2>2. ASSUME NEW e \in Experiments, WorkerStep(e) \/ WorkerRaises(e) \/ KillWorker(e) PROVE FALSE
      BY <1>t, <2>0, <2>2, WorkerFrame
    <2>3. ASSUME NEW e \in Experiments, CreateState(e) \/ SpawnWorker(e) \/ Recover(e) PROVE FALSE
      BY <2>0, <2>3 DEF CreateState, SpawnWorker, Recover
    <2>4. ASSUME NEW e \in Experiments, CleanNext(e) PROVE RcInv'
      BY <1>t, <1>l, <2>0, <2>4 DEF CleanNext, Enter, TypeOK, RcInv
    <2>5. ASSUME \/ Withdraw \/ WalkAway \/ Confirm \/ ReframeExits \/ ReframeDies
                 \/ RelayFails \/ BeginStop \/ StopGroups
                 \/ SecondInterrupt
          PROVE  FALSE
      BY <1>2, <2>0, <2>5 DEF Withdraw, WalkAway, Confirm, ReframeExits, ReframeDies, RelayFails,
         BeginStop, StopGroups,
         SecondInterrupt
    <2>6. ASSUME KillLauncher PROVE RcInv'
      <3>1. pc'[Launcher] = "idle" /\ \A a \in Actors \ {Launcher} : pc'[a] = pc[a]
        BY <1>t, <1>l, <2>6 DEF KillLauncher, Rest, TypeOK
      <3>2. QED
        BY <1>l, <2>0, <2>6, <3>1 DEF KillLauncher, RcInv
    <2>7. QED
      BY <2>0, <2>1, <2>2, <2>3, <2>4, <2>5, <2>6
         DEF Next, Serve, ServeLate, ForeignCreate, Finish, vars, RcInv
  <1>3. QED
    BY <1>1, <1>2

\* Whatever fails or overlaps, a campaign reports success only if every
\* experiment has its result, a destroyed file and no app of its own.
THEOREM SuccessIsTrue == Spec => []SuccessIsComplete
  <1>1. Init => RcInv
    BY DEF Init, RcInv
  <1>2. KeptInv /\ RcInv => SuccessIsComplete
    BY DEF RcInv, KeptInv, FilesInv, GoneInv, RecordedDestroyedMeansGone, SuccessIsComplete
  <1>3. QED
    BY <1>1, <1>2, KeptAlways, RcNext, PTL DEF Spec

-----------------------------------------------------------------------------
(* Whose app a name is.  Every request names the app by its name; it does  *)
(* what the sender means only while the name is still the campaign's.      *)

\* No fault lets two processes work on one app, or a request outlive its client.
InTurn == Faults \cap (Overlapping \cup {"late_call"}) = {}

\* A destroy request that Fly has not served yet will meet the campaign's own
\* app, and nobody closes a file whose app is there.
Names ==
    /\ late = {}
    /\ \A a \in Actors :
          /\ pc[a] = "destroy" => copy[a].id = "owned"
          /\ pc[a] = "destroy" /\ call[a] = "sent" => app[work[a]].id = "owned"
          /\ pc[a] = "close" => app[work[a]].id # "owned"

NamesInv == FilesInv /\ Kept /\ Names

LEMMA NobodyLate == ASSUME InTurn, late = {}, [Next]_vars PROVE late' = {}
  <1> USE DEF cloud, launch, job
  <1>1. \A a : Orphaned(a) = {}
    BY DEF Orphaned, InTurn
  <1>2. ASSUME NEW a \in Actors, Serve(a) \/ DestroyStep(a) \/ DestroyRaises(a) PROVE late' = {}
    BY <1>1, <1>2 DEF Serve, DestroyStep, DestroyLook, DestroyFind, DestroyAnswered, DestroyVerify,
       DestroyClose, DestroyRaises
  <1>3. ASSUME NEW e \in Experiments, WorkerStep(e) \/ WorkerRaises(e) \/ KillWorker(e)
        PROVE  late' = {}
    BY <1>1, <1>3 DEF WorkerStep, ReadPlanned, StartCreate, Created, Identify, Record,
       Deployed, Reread, MarkReady, Measure, Fetch, WorkerRaises, KillWorker
  <1>4. ASSUME StopGroups PROVE late' = {}
    BY <1>1, <1>4 DEF StopGroups
  <1>5. QED
    BY <1>1, <1>2, <1>3, <1>4 DEF Next, ServeLate, ForeignCreate, CreateState, SpawnWorker,
       CleanNext, Recover, Withdraw, WalkAway, Confirm, ReframeExits, ReframeDies, RelayFails,
       BeginStop, SecondInterrupt,
       Finish, KillLauncher, vars

\* What a request does when Fly serves it.
Built(e) == /\ app[e].id = "none" /\ file[e] = PlannedFile
            /\ app'[e] = [id |-> "owned", machines |-> FALSE]
Equipped(e) == /\ app[e] = [id |-> "owned", machines |-> FALSE] /\ file[e] = CreatedFile
               /\ app'[e] = [id |-> "owned", machines |-> TRUE]
Deleted(e) == /\ app[e].id = "owned" /\ file[e].id = "owned"
              /\ file[e].phase \notin {"absent", "destroyed"}
              /\ app'[e] = NoApp

LEMMA Served ==
    ASSUME NamesInv, NEW a \in Actors, Serve(a)
    PROVE  /\ work[a] \in Experiments /\ pc[a] \in Calls /\ call'[a] # "sent"
           /\ \A b \in Actors \ {a} : call'[b] = call[b]
           /\ \A e \in Experiments \ {work[a]} : app'[e] = app[e]
           /\ \/ app'[work[a]] = app[work[a]]
              \/ Built(work[a]) \/ Equipped(work[a]) \/ Deleted(work[a])
  <1> USE DEF Actors
  <1>t. TypeOK /\ Aim /\ Tracks /\ Copies
    BY DEF NamesInv, FilesInv, GoneInv, TypeInv, Kept
  <1> DEFINE e == work[a]
  <1>1. e \in Experiments /\ pc[a] \in Calls /\ call[a] = "sent" /\ app[e] \in App
    BY <1>t DEF Serve, Aim, TypeOK, Calls, Resting
  <1>2. /\ app'[e] = Effect(pc[a], app[e]) /\ call'[a] # "sent"
        /\ \A f \in Experiments \ {e} : app'[f] = app[f]
        /\ \A b \in Actors \ {a} : call'[b] = call[b]
    BY <1>t, <1>1 DEF Serve, TypeOK
  <1>3. CASE ~Accepted(pc[a], app[e])
    BY <1>1, <1>2, <1>3 DEF Effect
  <1>4. CASE pc[a] \in {"create", "deploy"} /\ Accepted(pc[a], app[e])
    <2>1. a = e /\ Track(e)
      BY <1>t, <1>4 DEF Aim, Benching, Tracks, Fresh
    <2>2. app'[e] = [id |-> "owned", machines |-> pc[a] = "deploy"]
      BY <1>2, <1>4, Zenon DEF Effect
    <2>3. CASE pc[a] = "create"
      <3>1. (pc[a] = "deploy") = FALSE
        BY <2>3
      <3>2. app'[e] = [id |-> "owned", machines |-> FALSE]
        BY <2>2, <3>1, Zenon
      <3>3. app[e].id = "none" /\ file[e] = PlannedFile
        BY <1>1, <1>4, <2>1, <2>3 DEF Accepted, Track
      <3>4. QED
        BY <1>1, <1>2, <3>2, <3>3 DEF Built
    <2>4. CASE pc[a] = "deploy"
      <3>1. (pc[a] = "deploy") = TRUE
        BY <2>4
      <3>2. app'[e] = [id |-> "owned", machines |-> TRUE]
        BY <2>2, <3>1, Zenon
      <3>3. app[e].id = "owned" /\ ~app[e].machines /\ file[e] = CreatedFile
        BY <1>1, <2>1, <2>4 DEF Track
      <3>4. app[e] = [id |-> "owned", machines |-> FALSE]
        BY <1>1, <3>3 DEF App
      <3>5. QED
        BY <1>1, <1>2, <3>2, <3>3, <3>4 DEF Equipped
    <2>5. QED
      BY <1>4, <2>3, <2>4
  <1>5. CASE pc[a] = "destroy" /\ Accepted(pc[a], app[e])
    <2>1. app[e].id = "owned" /\ copy[a].id = "owned"
      BY <1>1, <1>5 DEF NamesInv, Names
    <2>2. copy[a] = file[e] /\ copy[a].phase \notin {"absent", "destroyed"}
      BY <1>t, <1>5 DEF Copies, Destroying
    <2>3. app'[e] = NoApp
      BY <1>2, <1>5 DEF Effect
    <2>4. QED
      BY <1>1, <1>2, <2>1, <2>2, <2>3 DEF Deleted
  <1>6. QED
    BY <1>1, <1>3, <1>4, <1>5 DEF Calls

LEMMA NamesKept == ASSUME InTurn, NamesInv, [Next]_vars PROVE Names'
  <1> SUFFICES ASSUME NEW a \in Actors
               PROVE  /\ pc'[a] = "destroy" => copy'[a].id = "owned"
                      /\ pc'[a] = "destroy" /\ call'[a] = "sent" => app'[work'[a]].id = "owned"
                      /\ pc'[a] = "close" => app'[work'[a]].id # "owned"
    BY NobodyLate DEF NamesInv, Names
  <1> DEFINE Goal == /\ pc'[a] = "destroy" => copy'[a].id = "owned"
                     /\ pc'[a] = "destroy" /\ call'[a] = "sent" => app'[work'[a]].id = "owned"
                     /\ pc'[a] = "close" => app'[work'[a]].id # "owned"
  <1> USE DEF cloud, launch, job, Actors
  <1>t. TypeOK /\ Aim /\ TypeInv /\ Turns /\ Copies /\ OwnIds
    BY DEF NamesInv, FilesInv, GoneInv, TypeInv, Kept
  <1>l. /\ Launcher \in Actors \ Experiments /\ Operator \in Actors \ Experiments
        /\ Launcher # Operator
    BY ConstantsOK
  <1>n. /\ pc[a] = "destroy" => copy[a].id = "owned"
        /\ pc[a] = "destroy" /\ call[a] = "sent" => app[work[a]].id = "owned"
        /\ pc[a] = "close" => app[work[a]].id # "owned"
    BY DEF NamesInv, Names
  <1>s. ASSUME pc'[a] = pc[a] \/ pc'[a] \notin {"destroy", "close"}, copy'[a] = copy[a] \/ pc'[a] # pc[a],
               work'[a] = work[a] \/ pc'[a] # pc[a], call'[a] = call[a] \/ pc'[a] # pc[a],
               app'[work[a]] = app[work[a]]
        PROVE  Goal
    BY <1>n, <1>s
  <1> HIDE DEF Goal
  <1>1. ASSUME NEW b \in Actors, Serve(b) PROVE Goal
    <2>0. UNCHANGED <<pc, work, copy>>
      BY <1>1 DEF Serve
    <2>1. CASE a = b
      BY <1>1, <1>n, <2>0, <2>1, Served DEF Calls, Goal
    <2>2. CASE a # b /\ pc[a] \in {"destroy", "close"}
      <3>1. work[a] \in Experiments \ {work[b]}
        BY <1>1, <1>t, <2>2, Served, OneWriter DEF Calls, Aim, Resting
      <3>2. QED
        BY <1>1, <1>s, <2>0, <2>2, <3>1, Served
    <2>3. CASE pc[a] \notin {"destroy", "close"}
      BY <2>0, <2>3 DEF Goal
    <2>4. QED
      BY <2>1, <2>2, <2>3
  <1>2. ASSUME NEW e \in Experiments, ForeignCreate(e) PROVE Goal
    BY <1>2, <1>t, <1>n DEF ForeignCreate, TypeOK, App, Goal
  <1>3. ASSUME NEW b \in Actors, b # a, DestroyStep(b) \/ DestroyRaises(b) PROVE Goal
    BY <1>3, <1>t, <1>s, DestroyFrame
  <1>4. ASSUME DestroyStep(a) \/ DestroyRaises(a) PROVE Goal
    <2>0. app' = app /\ work[a] \in Experiments
      BY <1>4, <1>t, DestroyFrame DEF Aim, Destroying, Resting
    <2>1. ASSUME NEW failed \in BOOLEAN, Leave(a, failed) PROVE Goal
      BY <1>t, <2>1 DEF Leave, Rest, Exit, TypeOK, Goal
    <2>2. CASE DestroyLook(a)
      <3>1. CASE Load(a, "find", file[work[a]])
        BY <1>t, <3>1 DEF Load, TypeOK, Goal
      <3>2. QED
        BY <2>1, <2>2, <3>1 DEF DestroyLook
    <2>3. CASE DestroyFind(a)
      <3>1. copy[a] = file[work[a]] /\ file[work[a]].id # "foreign" /\ copy[a].id \in Ids
        BY <1>t, <2>0, <2>3 DEF DestroyFind, Copies, OwnIds, Destroying, TypeOK, State
      <3>2. CASE app[work[a]].id = "none" /\ Goto(a, "close", "none")
        BY <1>t, <2>0, <3>2 DEF Goto, TypeOK, Goal
      <3>3. CASE /\ app[work[a]].id # "none" /\ app[work[a]].id = copy[a].id
                 /\ Goto(a, "destroy", "sent")
        <4>1. copy[a].id = "owned" /\ app[work[a]].id = "owned"
          BY <3>1, <3>3 DEF Ids
        <4>2. QED
          BY <1>t, <2>0, <3>3, <4>1 DEF Goto, TypeOK, Goal
      <3>4. QED
        BY <2>3, <3>2, <3>3 DEF DestroyFind
    <2>4. CASE DestroyAnswered(a) \/ DestroyVerify(a)
      BY <1>t, <2>0, <2>4 DEF DestroyAnswered, DestroyVerify, Goto, TypeOK, Goal
    <2>5. CASE DestroyClose(a) \/ DestroyRaises(a)
      BY <2>1, <2>5 DEF DestroyClose, DestroyRaises
    <2>6. QED
      BY <1>4, <2>2, <2>3, <2>4, <2>5 DEF DestroyStep
  <1>5. ASSUME NEW e \in Experiments, WorkerStep(e) \/ WorkerRaises(e) \/ KillWorker(e) PROVE Goal
    <2>1. CASE a = e
      BY <1>5, <1>t, <2>1, WorkerFrame DEF Benching, Goal
    <2>2. CASE a # e
      BY <1>5, <1>t, <1>s, <2>2, WorkerFrame
    <2>3. QED
      BY <2>1, <2>2
  <1>6. ASSUME NEW e \in Experiments, SpawnWorker(e) \/ CleanNext(e) \/ Recover(e) PROVE Goal
    BY <1>6, <1>t, <1>l, <1>s DEF SpawnWorker, CleanNext, Recover, Goto, Enter, TypeOK
  <1>7. ASSUME StopGroups PROVE Goal
    <2> DEFINE dead == snap \cap LiveWorkers
    <2>1. /\ pc' = [b \in Actors |-> IF b \in dead THEN "killed" ELSE pc[b]]
          /\ copy' = [b \in Actors |-> IF b \in dead THEN Blank ELSE copy[b]]
          /\ call' = [b \in Actors |-> IF b \in dead THEN "none" ELSE call[b]]
          /\ work' = work /\ app' = app
      BY <1>7 DEF StopGroups
    <2> HIDE DEF dead
    <2>2. QED
      BY <1>n, <2>1 DEF Goal
  <1>8. ASSUME KillLauncher PROVE Goal
    <2>1. Rest(Launcher, "idle", FALSE) /\ app' = app
      BY <1>8 DEF KillLauncher
    <2>2. CASE a = Launcher
      BY <1>t, <2>1, <2>2 DEF Rest, TypeOK, Goal
    <2>3. CASE a # Launcher
      BY <1>t, <1>l, <1>s, <2>1, <2>3, RestFrame
    <2>4. QED
      BY <2>2, <2>3
  <1>9. ASSUME UNCHANGED <<app, pc, work, copy, call>> PROVE Goal
    BY <1>9, <1>s
  <1>10. late = {}
    BY DEF NamesInv, Names
  <1>11. QED
    <2>1. Goal
      BY <1>1, <1>2, <1>3, <1>4, <1>5, <1>6, <1>7, <1>8, <1>9, <1>10
         DEF Next, CreateState, Withdraw, WalkAway, Confirm, ReframeExits, ReframeDies, RelayFails,
            BeginStop,
             SecondInterrupt, Finish, vars
    <2>2. QED
      BY <2>1 DEF Goal

LEMMA NamesAlways == ASSUME InTurn PROVE Spec => []NamesInv
  <1>1. KeptInv => FilesInv /\ Kept
    BY DEF KeptInv, Alone, InTurn, Overlapping
  <1>2. Init => NamesInv
    BY <1>1, KeptInit DEF Init, NamesInv, Names, Actors
  <1>3. NamesInv /\ [Next]_vars => NamesInv'
    <2>1. KeptInv /\ KeptInv' => FilesInv' /\ Kept'
      BY DEF KeptInv, Alone, InTurn, Overlapping
    <2>2. NamesInv => KeptInv
      BY DEF NamesInv, KeptInv
    <2>3. QED
      BY <2>1, <2>2, KeptNext, NamesKept DEF NamesInv
  <1>4. QED
    BY <1>2, <1>3, PTL DEF Spec

\* While no fault lets two processes work on one app or a request outlive its
\* client, a destroy request never deletes an app that took the name over,
\* although it carries nothing but the name.
THEOREM ForeignAppsAreSafe == ASSUME InTurn PROVE Spec => ForeignAppsSurvive
  <1> DEFINE Survive == \A e \in Experiments : app[e].id = "foreign" => app[e].id' = "foreign"
  <1> USE DEF cloud, launch, job
  <1>1. ASSUME NamesInv, [Next]_vars PROVE [Survive]_vars
    <2>t. TypeOK /\ TypeInv /\ late = {}
      BY <1>1 DEF NamesInv, FilesInv, GoneInv, TypeInv, Names
    <2>1. ASSUME NEW a \in Actors, Serve(a) PROVE Survive
      BY <1>1, <2>1, Served DEF Built, Equipped, Deleted
    <2>2. ASSUME NEW e \in Experiments, ForeignCreate(e) PROVE Survive
      BY <2>2, <2>t DEF ForeignCreate, TypeOK, App
    <2>3. ASSUME NEW a \in Actors, DestroyStep(a) \/ DestroyRaises(a) PROVE app' = app
      BY <2>3, <2>t, DestroyFrame
    <2>4. ASSUME NEW e \in Experiments, WorkerStep(e) \/ WorkerRaises(e) \/ KillWorker(e)
          PROVE  app' = app
      BY <2>4, <2>t, WorkerFrame
    <2>5. QED
      BY <1>1, <2>t, <2>1, <2>2, <2>3, <2>4
         DEF Next, CreateState, SpawnWorker, CleanNext, Recover, Withdraw, WalkAway, Confirm,
             ReframeExits, ReframeDies, RelayFails, BeginStop, StopGroups, SecondInterrupt, Finish,
             KillLauncher
  <1>2. QED
    BY <1>1, NamesAlways, PTL DEF Spec, ForeignAppsSurvive

-----------------------------------------------------------------------------
(* The refinement.                                                         *)

\* The two conversions, as tests on one file and one app.
RecordOf(state) ==
    IF state.phase = "absent" THEN "none"
    ELSE IF state.phase = "destroyed" THEN "closed"
    ELSE IF state.id = "owned" THEN "recorded" ELSE "planned"

HoldingOf(owner) ==
    IF owner.id # "owned" THEN "none" ELSE IF owner.machines THEN "running" ELSE "bare"

LEMMA Conversions ==
    ASSUME TypeOK, NEW e \in Experiments
    PROVE  Recorded(e) = RecordOf(file[e]) /\ Holding(e) = HoldingOf(app[e])
  <1>1. file[e].phase \in Phases /\ app[e].machines \in BOOLEAN
    BY DEF TypeOK, State, App
  <1>2. Recorded(e) = RecordOf(file[e])
    BY <1>1 DEF Recorded, RecordOf, Phases
  <1>3. Holding(e) = HoldingOf(app[e])
    BY <1>1 DEF Holding, HoldingOf
  <1>4. QED
    BY <1>2, <1>3

LEMMA ConversionsNext ==
    ASSUME TypeOK', NEW e \in Experiments
    PROVE  Recorded(e)' = RecordOf(file'[e]) /\ Holding(e)' = HoldingOf(app'[e])
  <1>1. file'[e].phase \in Phases /\ app'[e].machines \in BOOLEAN
    BY DEF TypeOK, State, App
  <1>2. Recorded(e)' = RecordOf(file'[e])
    BY <1>1 DEF Recorded, RecordOf, Phases
  <1>3. Holding(e)' = HoldingOf(app'[e])
    BY <1>1 DEF Holding, HoldingOf
  <1>4. QED
    BY <1>2, <1>3

\* A step on one file, or on one app, shows as a step on one record or holding.
LEMMA OneRecord ==
    ASSUME TypeOK, TypeOK', NEW e \in Experiments, app' = app,
           \A f \in Experiments \ {e} : file'[f] = file[f]
    PROVE  /\ [f \in Experiments |-> Recorded(f)]' =
                [[f \in Experiments |-> Recorded(f)] EXCEPT ![e] = RecordOf(file'[e])]
           /\ [f \in Experiments |-> Holding(f)]' = [f \in Experiments |-> Holding(f)]
  BY Conversions, ConversionsNext

LEMMA OneHolding ==
    ASSUME TypeOK, TypeOK', NEW e \in Experiments, file' = file,
           \A f \in Experiments \ {e} : app'[f] = app[f]
    PROVE  /\ [f \in Experiments |-> Holding(f)]' =
                [[f \in Experiments |-> Holding(f)] EXCEPT ![e] = HoldingOf(app'[e])]
           /\ [f \in Experiments |-> Recorded(f)]' = [f \in Experiments |-> Recorded(f)]
  BY Conversions, ConversionsNext

\* Every step of the lifecycle is a step of AppOwnership or shows nothing.
LEMMA OwnershipStep ==
    ASSUME NamesInv, NamesInv', [Next]_vars
    PROVE  [Ownership!Next]_(Ownership!vars)
  <1> DEFINE R == [f \in Experiments |-> Recorded(f)]
             H == [f \in Experiments |-> Holding(f)]
             Goal == [Ownership!Next]_(Ownership!vars)
  <1> USE DEF cloud, launch, job
  <1>t. TypeOK /\ Aim /\ TypeInv /\ NothingYet /\ PlanFirst /\ Turns /\ Tracks /\ Copies /\ OwnIds
    BY DEF NamesInv, FilesInv, GoneInv, TypeInv, Kept
  <1>u. TypeOK' /\ late = {}
    BY DEF NamesInv, FilesInv, GoneInv, TypeInv, Names
  <1>s. ASSUME file' = file, app' = app PROVE Goal
    <2>1. R' = R /\ H' = H
      BY <1>s, <1>t, <1>u, Conversions, ConversionsNext
    <2>2. QED
      BY <2>1 DEF Ownership!vars
  <1>1. ASSUME NEW a \in Actors, Serve(a) PROVE Goal
    <2> DEFINE e == work[a]
    <2>1. /\ e \in Experiments /\ file' = file
          /\ \A f \in Experiments \ {e} : app'[f] = app[f]
      BY <1>1, Served DEF Serve
    <2>2. R' = R /\ H' = [H EXCEPT ![e] = HoldingOf(app'[e])]
      BY <1>t, <1>u, <2>1, OneHolding
    <2>3. R[e] = RecordOf(file[e]) /\ H[e] = HoldingOf(app[e])
      BY <1>t, <2>1, Conversions
    <2>4. CASE app'[e] = app[e]
      <3>1. H' = H
        BY <2>1, <2>2, <2>3, <2>4
      <3>2. QED
        BY <2>2, <3>1 DEF Ownership!vars
    <2>5. CASE Built(e)
      <3>1. R[e] = "planned" /\ H[e] = "none" /\ HoldingOf(app'[e]) = "bare"
        BY <2>3, <2>5 DEF Built, PlannedFile, RecordOf, HoldingOf
      <3>2. Ownership!Create(e)
        BY <2>2, <3>1 DEF Ownership!Create
      <3>3. QED
        BY <2>1, <3>2 DEF Ownership!Next
    <2>6. CASE Equipped(e)
      <3>1. R[e] = "recorded" /\ H[e] = "bare" /\ HoldingOf(app'[e]) = "running"
        BY <2>3, <2>6 DEF Equipped, CreatedFile, RecordOf, HoldingOf
      <3>2. Ownership!AddMachines(e)
        BY <2>2, <3>1 DEF Ownership!AddMachines
      <3>3. QED
        BY <2>1, <3>2 DEF Ownership!Next
    <2>7. CASE Deleted(e)
      <3>1. R[e] = "recorded" /\ H[e] # "none" /\ HoldingOf(app'[e]) = "none"
        BY <2>3, <2>7 DEF Deleted, NoApp, RecordOf, HoldingOf
      <3>2. Ownership!Remove(e)
        BY <2>2, <3>1 DEF Ownership!Remove
      <3>3. QED
        BY <2>1, <3>2 DEF Ownership!Next
    <2>8. QED
      BY <1>1, <2>4, <2>5, <2>6, <2>7, Served
  <1>2. ASSUME NEW e \in Experiments, ForeignCreate(e) PROVE Goal
    <2>1. file' = file /\ \A f \in Experiments \ {e} : app'[f] = app[f]
      BY <1>2, <1>t DEF ForeignCreate, TypeOK
    <2>2. app[e].id = "none" /\ app'[e].id = "foreign"
      BY <1>2, <1>t DEF ForeignCreate, TypeOK, App
    <2>3. R' = R /\ H' = [H EXCEPT ![e] = HoldingOf(app'[e])] /\ H[e] = HoldingOf(app[e])
      BY <1>t, <1>u, <2>1, OneHolding, Conversions
    <2>4. HoldingOf(app'[e]) = HoldingOf(app[e])
      BY <2>2 DEF HoldingOf
    <2>5. H' = H
      BY <2>3, <2>4
    <2>6. QED
      BY <2>3, <2>5 DEF Ownership!vars
  <1>3. ASSUME NEW a \in Actors, DestroyClose(a) PROVE Goal
    <2> DEFINE e == work[a]
    <2>0. e \in Experiments /\ pc[a] = "close"
      BY <1>3, <1>t DEF DestroyClose, Aim, Resting
    <2>1. /\ file' = [file EXCEPT ![e] = [copy[a] EXCEPT !.phase = "destroyed"]] /\ app' = app
          /\ copy[a] = file[e] /\ file[e].phase \notin {"absent", "destroyed"}
          /\ copy[a] \in State /\ app[e].id # "owned"
      BY <1>3, <1>t, <2>0 DEF DestroyClose, Copies, Destroying, NamesInv, Names, TypeOK
    <2>2. file'[e].phase = "destroyed" /\ \A f \in Experiments \ {e} : file'[f] = file[f]
      BY <1>t, <2>0, <2>1 DEF TypeOK, State
    <2>3. /\ R' = [R EXCEPT ![e] = RecordOf(file'[e])] /\ H' = H
          /\ R[e] = RecordOf(file[e]) /\ H[e] = HoldingOf(app[e])
      BY <1>t, <1>u, <2>0, <2>1, <2>2, OneRecord, Conversions
    <2>4. R[e] \in {"planned", "recorded"} /\ H[e] = "none" /\ RecordOf(file'[e]) = "closed"
      BY <2>1, <2>2, <2>3 DEF RecordOf, HoldingOf
    <2>5. Ownership!Close(e)
      BY <2>3, <2>4 DEF Ownership!Close
    <2>6. QED
      BY <2>0, <2>5 DEF Ownership!Next
  <1>4. ASSUME NEW e \in Experiments, StartCreate(e) \/ Record(e) \/ MarkReady(e) PROVE Goal
    <2>0. Track(e) /\ app' = app
      BY <1>4 DEF StartCreate, Record, MarkReady, Fresh, Benching, NamesInv, Kept, Tracks
    <2>1. \A f \in Experiments \ {e} : file'[f] = file[f]
      BY <1>4, <1>t DEF StartCreate, Record, MarkReady, TypeOK
    <2>2. /\ R' = [R EXCEPT ![e] = RecordOf(file'[e])] /\ H' = H
          /\ R[e] = RecordOf(file[e]) /\ H[e] = HoldingOf(app[e])
      BY <1>t, <1>u, <2>0, <2>1, OneRecord, Conversions
    <2>3. ASSUME RecordOf(file'[e]) = RecordOf(file[e]) PROVE Goal
      <3>1. R' = R
        BY <2>2, <2>3
      <3>2. QED
        BY <2>2, <3>1 DEF Ownership!vars
    <2>4. CASE StartCreate(e)
      <3>1. file'[e] = file[e]
        BY <1>t, <2>0, <2>4 DEF StartCreate, Track, TypeOK
      <3>2. QED
        BY <2>3, <3>1
    <2>5. CASE Record(e)
      <3>1. file'[e] = CreatedFile /\ file[e] = PlannedFile
            /\ app[e] = [id |-> "owned", machines |-> FALSE]
        BY <1>t, <2>0, <2>5 DEF Record, Track, TypeOK
      <3>2. R[e] = "planned" /\ H[e] = "bare" /\ RecordOf(file'[e]) = "recorded"
        BY <2>2, <3>1 DEF CreatedFile, PlannedFile, RecordOf, HoldingOf
      <3>3. Ownership!Record(e)
        BY <2>2, <3>2 DEF Ownership!Record
      <3>4. QED
        BY <3>3 DEF Ownership!Next
    <2>6. CASE MarkReady(e)
      <3>1. file'[e] = [copy[e] EXCEPT !.phase = "ready"]
            /\ copy[e] = CreatedFile /\ file[e] = CreatedFile
        BY <1>t, <2>0, <2>6 DEF MarkReady, Track, TypeOK
      <3>2. file'[e] = ReadyFile
        BY <3>1 DEF CreatedFile, ReadyFile
      <3>3. QED
        BY <2>3, <3>1, <3>2 DEF CreatedFile, ReadyFile, RecordOf
    <2>7. QED
      BY <1>4, <2>4, <2>5, <2>6
  <1>5. ASSUME NEW e \in Experiments, CreateState(e) PROVE Goal
    <2>1. /\ file[e] = Blank /\ file'[e] = PlannedFile /\ app' = app
          /\ \A f \in Experiments \ {e} : file'[f] = file[f]
      BY <1>5, <1>t DEF CreateState, OwnIds, TypeOK, PlannedFile
    <2>2. /\ R' = [R EXCEPT ![e] = RecordOf(file'[e])] /\ H' = H /\ R[e] = RecordOf(file[e])
      BY <1>t, <1>u, <2>1, OneRecord, Conversions
    <2>3. R[e] = "none" /\ RecordOf(file'[e]) = "planned"
      BY <2>1, <2>2 DEF Blank, PlannedFile, RecordOf
    <2>4. Ownership!Plan(e)
      BY <2>2, <2>3 DEF Ownership!Plan
    <2>5. QED
      BY <2>4 DEF Ownership!Next
  <1>6. ASSUME Withdraw PROVE Goal
    <2>1. \A f \in Experiments : file[f] \in {Blank, PlannedFile} /\ app[f].id # "owned"
      BY <1>6, <1>t DEF Withdraw, OwnIds, NothingYet, PlanFirst
    <2>2. \A f \in Experiments : file'[f] = Blank /\ app'[f] = app[f]
      BY <1>6 DEF Withdraw
    <2>3. \A f \in Experiments : R[f] \in {"none", "planned"} /\ H[f] = "none"
      BY <1>t, <2>1, Conversions DEF Blank, PlannedFile, RecordOf, HoldingOf
    <2>4. R' = [f \in Experiments |-> "none"] /\ H' = H
      BY <1>t, <1>u, <2>2, Conversions, ConversionsNext DEF Blank, RecordOf
    <2>5. Ownership!Withdraw
      BY <2>3, <2>4 DEF Ownership!Withdraw
    <2>6. QED
      BY <2>5 DEF Ownership!Next
  <1> HIDE DEF Goal
  <1>7. ASSUME NEW a \in Actors, DestroyStep(a) \/ DestroyRaises(a) PROVE Goal
    <2>1. DestroyClose(a) \/ file' = file
      BY <1>7 DEF DestroyStep, DestroyLook, DestroyFind, DestroyAnswered, DestroyVerify,
         DestroyRaises
    <2>2. QED
      BY <1>7, <1>t, <1>s, <1>3, <2>1, DestroyFrame
  <1>8. ASSUME NEW e \in Experiments, WorkerStep(e) \/ WorkerRaises(e) \/ KillWorker(e) PROVE Goal
    <2>1. StartCreate(e) \/ Record(e) \/ MarkReady(e) \/ file' = file
      BY <1>8 DEF WorkerStep, ReadPlanned, Created, Identify, Deployed, Reread, Measure, Fetch,
         WorkerRaises, KillWorker
    <2>2. QED
      BY <1>8, <1>t, <1>s, <1>4, <2>1, WorkerFrame
  <1>9. QED
    <2>1. Goal
      BY <1>1, <1>2, <1>5, <1>6, <1>7, <1>8, <1>s, <1>u
         DEF Next, SpawnWorker, CleanNext, Recover, WalkAway, Confirm, ReframeExits, ReframeDies,
            RelayFails, BeginStop,
             StopGroups, SecondInterrupt, Finish, KillLauncher, vars
    <2>2. QED
      BY <2>1 DEF Goal

\* While no fault lets two processes work on one app or a request outlive its
\* client, launcher, workers and operator together keep the promise of
\* AppOwnership, whatever is killed and whoever takes a free name.
THEOREM OwnershipIsKept == ASSUME InTurn PROVE Spec => KeepsOwnership
  <1>1. Init => Ownership!Init
    BY DEF Init, Ownership!Init, Recorded, Holding, Blank, NoApp
  <1>2. NamesInv /\ NamesInv' /\ [Next]_vars => [Ownership!Next]_(Ownership!vars)
    BY OwnershipStep
  <1>3. QED
    BY <1>1, <1>2, NamesAlways, PTL DEF Spec, KeepsOwnership, Ownership!Spec

=============================================================================
