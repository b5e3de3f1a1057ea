---------------------------- MODULE FlyLifecycle ----------------------------
(***************************************************************************)
(* The life of a Fly campaign (src/syq_bench/fly.py): the launcher plans   *)
(* one recovery state file per experiment, ReFrame runs one worker process *)
(* per experiment, the worker creates a billable Fly app, records its      *)
(* identity, adds Machines, measures and destroys the app; the launcher    *)
(* then destroys every app again, and an operator may run the printed      *)
(* recovery command.  All of them share the state files and name the app   *)
(* by its NAME in every call, although they own it by its ID.              *)
(***************************************************************************)
EXTENDS Naturals, FiniteSets

CONSTANTS
    Experiments,    \* experiments of the campaign; a worker is named by its experiment
    Launcher,       \* the `run` process
    Operator,       \* whoever types the printed `destroy` command
    MaxParallel,    \* campaign.max_parallel: workers ReFrame runs at once
    Faults          \* what the environment may do, a subset of AllFaults

\* killed           a process dies without running its handlers (SIGKILL, OOM)
\* late_call        Fly still applies a request after its client was stopped
\* late_spawn       ReFrame starts a worker after the stop's `ps` snapshot
\* ps_fails         that snapshot cannot be taken
\* second_interrupt Ctrl-C again while the first one is stopping the workers
\* reframe_dies     ReFrame itself is killed or crashes; its workers go on
\* relay_fails      the launcher's loop or its stop raises something unforeseen
\* name_reuse       someone of the organisation takes a free app name
\* eager_operator   recovery is typed while workers may still be alive
AllFaults == {"killed", "late_call", "late_spawn", "ps_fails", "second_interrupt",
              "reframe_dies", "relay_fails", "name_reuse", "eager_operator"}

ASSUME ConstantsOK ==
    /\ IsFiniteSet(Experiments)
    /\ MaxParallel \in Nat \ {0}
    /\ Faults \subseteq AllFaults
    /\ Launcher # Operator
    /\ {Launcher, Operator} \cap Experiments = {}

Actors == Experiments \cup {Launcher, Operator}

VARIABLES
    file,       \* the state file of each experiment: its phase and recorded app ID
    app,        \* what Fly holds under each experiment's app name
    pc,         \* where each process is
    work,       \* the experiment it works for; itself while it is at rest
    copy,       \* its copy of the state file
    call,       \* its flyctl request: none, sent, or answered
    bad,        \* it already failed
    late,       \* requests whose client is gone but that Fly may still apply
    lpc,        \* where the launcher is
    todo,       \* experiments left in the launcher's current loop
    snap,       \* workers the stop's `ps` snapshot saw
    reframe,    \* the ReFrame process
    rc,         \* the launcher's return code
    printed,    \* experiments whose cleanup failure printed a recovery line
    result      \* experiments whose result file was downloaded

job == <<pc, work, copy, call, bad>>
cloud == <<app, late>>
launch == <<lpc, todo, snap, reframe, rc>>
vars == <<file, app, pc, work, copy, call, bad, late,
          lpc, todo, snap, reframe, rc, printed, result>>

Ids == {"none", "owned", "foreign"}
Phases == {"absent", "planned", "created", "ready", "destroyed"}
State == [phase : Phases, id : Ids]
App == [id : Ids, machines : BOOLEAN]

Blank == [phase |-> "absent", id |-> "none"]
NoApp == [id |-> "none", machines |-> FALSE]

\* Where provision and run_experiment can be, where destroy can be, and rest.
Benching == {"read", "start", "create", "identify", "record", "deploy",
             "reread", "mark", "measure", "fetch", "salvage"}
Destroying == {"look", "find", "destroy", "verify", "close"}
Resting == {"idle", "waiting", "ok", "failed", "killed"}
Calls == {"create", "deploy", "destroy"}
Request == [kind : Calls, exp : Experiments]
Live(e) == pc[e] \in Benching \cup Destroying
LiveWorkers == {e \in Experiments : Live(e)}

Init ==
    /\ file = [e \in Experiments |-> Blank]
    /\ app = [e \in Experiments |-> NoApp]
    /\ pc = [a \in Actors |-> IF a \in Experiments THEN "waiting" ELSE "idle"]
    /\ work = [a \in Actors |-> a]
    /\ copy = [a \in Actors |-> Blank]
    /\ call = [a \in Actors |-> "none"]
    /\ bad = [a \in Actors |-> FALSE]
    /\ late = {}
    /\ lpc = "planning"
    /\ todo = Experiments
    /\ snap = {}
    /\ reframe = "none"
    /\ rc = 1
    /\ printed = {}
    /\ result = {}

-----------------------------------------------------------------------------
(* Fly: a request names the app by its name, whatever its identity.        *)

\* A name can be taken once; a deployment needs the campaign's own app.
Accepted(kind, old) ==
    \/ kind = "create" /\ old.id = "none"
    \/ kind = "deploy" /\ old.id = "owned"
    \/ kind = "destroy" /\ old.id # "none"

\* What one request does to the app that holds the name.
Effect(kind, old) ==
    IF ~Accepted(kind, old) THEN old
    ELSE IF kind = "destroy" THEN NoApp
    ELSE [id |-> "owned", machines |-> kind = "deploy"]

\* Fly applies the request that a living client waits for, and answers it.
Serve(a) ==
    LET e == work[a] IN
    /\ call[a] = "sent"
    /\ app' = [app EXCEPT ![e] = Effect(pc[a], @)]
    /\ call' = [call EXCEPT ![a] = IF Accepted(pc[a], app[e]) THEN "ok" ELSE "failed"]
    /\ UNCHANGED <<file, pc, work, copy, bad, late, launch, printed, result>>

\* Fly applies, or drops, a request whose client was stopped.
ServeLate(r) ==
    /\ r \in late
    /\ late' = late \ {r}
    /\ \/ app' = [app EXCEPT ![r.exp] = Effect(r.kind, @)]
       \/ app' = app
    /\ UNCHANGED <<file, job, launch, printed, result>>

\* Another user of the organisation creates an app under a free name.
ForeignCreate(e) ==
    /\ "name_reuse" \in Faults
    /\ app[e].id = "none"
    /\ app' = [app EXCEPT ![e].id = "foreign"]
    /\ UNCHANGED <<file, job, late, launch, printed, result>>

\* Mutant: the request is filed under the process instead of its experiment.
OrphanedUnderProcess(a) ==
    IF call[a] = "sent" /\ "late_call" \in Faults
    THEN {[kind |-> pc[a], exp |-> a]}
    ELSE {}

\* The requests left behind when the client of process a is stopped.
Orphaned(a) ==
    IF call[a] = "sent" /\ "late_call" \in Faults
    THEN {[kind |-> pc[a], exp |-> work[a]]}
    ELSE {}

-----------------------------------------------------------------------------
(* destroy(state_path), run by a worker, the launcher or the operator.     *)

\* Process a goes on with no request outstanding, or with one just sent.
Goto(a, at, request) ==
    /\ pc' = [pc EXCEPT ![a] = at]
    /\ call' = [call EXCEPT ![a] = request]
    /\ UNCHANGED <<work, copy, bad>>

\* Process a goes on with a copy of what it read.
Load(a, at, state) ==
    /\ pc' = [pc EXCEPT ![a] = at]
    /\ copy' = [copy EXCEPT ![a] = state]
    /\ UNCHANGED <<work, call, bad>>

\* Process a calls destroy for experiment e.
Enter(a, e, failed) ==
    /\ pc' = [pc EXCEPT ![a] = "look"]
    /\ work' = [work EXCEPT ![a] = e]
    /\ call' = [call EXCEPT ![a] = "none"]
    /\ bad' = [bad EXCEPT ![a] = failed]
    /\ UNCHANGED copy

\* Process a has nothing more to do for its experiment.
Rest(a, at, failed) ==
    /\ pc' = [pc EXCEPT ![a] = at]
    /\ work' = [work EXCEPT ![a] = a]
    /\ copy' = [copy EXCEPT ![a] = Blank]
    /\ call' = [call EXCEPT ![a] = "none"]
    /\ bad' = [bad EXCEPT ![a] = failed]

\* Mutant: a clean destroy hides the failure of the run.
ExitOfCleanup(a, failed) == IF failed THEN "failed" ELSE "ok"

\* How a worker exits: cleanup_failure first, then its own failure.
Exit(a, failed) == IF failed \/ bad[a] THEN "failed" ELSE "ok"

\* Mutant: the launcher retries a failed cleanup instead of going on.
RemainingRetries(a, failed) ==
    IF a = Launcher /\ ~failed THEN todo \ {work[a]} ELSE todo

\* The launcher's loop goes on to the next file, whatever happened to this one.
Remaining(a, failed) == IF a = Launcher THEN todo \ {work[a]} ELSE todo

\* Process a leaves destroy; the launcher remembers a cleanup error until its end.
Leave(a, failed) ==
    /\ Rest(a, IF a \in Experiments THEN Exit(a, failed) ELSE "idle",
            a = Launcher /\ (failed \/ bad[a]))
    /\ todo' = Remaining(a, failed)
    /\ printed' = IF failed /\ a # Operator THEN printed \cup {work[a]} ELSE printed
    /\ UNCHANGED <<lpc, snap, reframe, rc, result>>

\* An exception inside destroy: a refusal, a failed or timed-out flyctl, Ctrl-C.
DestroyRaises(a) ==
    /\ pc[a] \in Destroying
    /\ late' = late \cup Orphaned(a)
    /\ Leave(a, TRUE)
    /\ UNCHANGED <<file, app>>

\* Mutant: only an app that became ready is destroyed.
DestroyLookReady(a) ==
    LET e == work[a] IN
    /\ pc[a] = "look"
    /\ \/ /\ file[e].phase # "ready"
          /\ Leave(a, FALSE)
       \/ /\ file[e].phase = "ready"
          /\ Load(a, "find", file[e])
          /\ UNCHANGED <<launch, printed, result>>
    /\ UNCHANGED <<file, cloud>>

\* The state file is read; a destroyed one ends the call at once.
DestroyLook(a) ==
    LET e == work[a] IN
    /\ pc[a] = "look"
    /\ file[e].phase # "absent"
    /\ \/ /\ file[e].phase = "destroyed"
          /\ Leave(a, FALSE)
       \/ /\ file[e].phase # "destroyed"
          /\ Load(a, "find", file[e])
          /\ UNCHANGED <<launch, printed, result>>
    /\ UNCHANGED <<file, cloud>>

\* Mutant: whatever app holds the name is destroyed.
DestroyFindByName(a) ==
    LET e == work[a] IN
    /\ pc[a] = "find"
    /\ IF app[e].id = "none"
       THEN Goto(a, "close", "none")
       ELSE Goto(a, "destroy", "sent")
    /\ UNCHANGED <<file, cloud, launch, printed, result>>

\* Mutant: a file without an ID is taken to have no app.
DestroyFindRecorded(a) ==
    LET e == work[a] IN
    /\ pc[a] = "find"
    /\ \/ /\ app[e].id = "none" \/ copy[a].id = "none"
          /\ Goto(a, "close", "none")
       \/ /\ app[e].id # "none"
          /\ app[e].id = copy[a].id
          /\ Goto(a, "destroy", "sent")
    /\ UNCHANGED <<file, cloud, launch, printed, result>>

\* The app is looked up by name.  No app: only the file is left to write.  The
\* recorded ID: the destroy request is sent, by name.  Anything else is refused.
DestroyFind(a) ==
    LET e == work[a] IN
    /\ pc[a] = "find"
    /\ \/ /\ app[e].id = "none"
          /\ Goto(a, "close", "none")
       \/ /\ app[e].id # "none"
          /\ app[e].id = copy[a].id
          /\ Goto(a, "destroy", "sent")
    /\ UNCHANGED <<file, cloud, launch, printed, result>>

\* Mutant: the request is neither waited for nor verified.
DestroyUnanswered(a) ==
    /\ pc[a] = "destroy"
    /\ Goto(a, "close", "none")
    /\ UNCHANGED <<file, cloud, launch, printed, result>>

\* flyctl has answered that the app is destroyed.
DestroyAnswered(a) ==
    /\ pc[a] = "destroy"
    /\ call[a] = "ok"
    /\ Goto(a, "verify", "none")
    /\ UNCHANGED <<file, cloud, launch, printed, result>>

\* The name is looked up again; an app that is still there is an error.
DestroyVerify(a) ==
    /\ pc[a] = "verify"
    /\ app[work[a]].id = "none"
    /\ Goto(a, "close", "none")
    /\ UNCHANGED <<file, cloud, launch, printed, result>>

\* Mutant: a fresh record is written, without the ID.
DestroyCloseFresh(a) ==
    /\ pc[a] = "close"
    /\ file' = [file EXCEPT ![work[a]] = [Blank EXCEPT !.phase = "destroyed"]]
    /\ Leave(a, FALSE)
    /\ UNCHANGED cloud

\* The copy read at the start is written back with phase destroyed.
DestroyClose(a) ==
    /\ pc[a] = "close"
    /\ file' = [file EXCEPT ![work[a]] = [copy[a] EXCEPT !.phase = "destroyed"]]
    /\ Leave(a, FALSE)
    /\ UNCHANGED cloud

DestroyStep(a) ==
    \/ DestroyLook(a)
    \/ DestroyFind(a)
    \/ DestroyAnswered(a)
    \/ DestroyVerify(a)
    \/ DestroyClose(a)

-----------------------------------------------------------------------------
(* The worker: provision, run_experiment, and destroy in its finally.      *)

\* An exception in provision or run_experiment: the worker goes on to destroy.
WorkerRaises(e) ==
    /\ pc[e] \in Benching
    /\ late' = late \cup Orphaned(e)
    /\ Enter(e, e, TRUE)
    /\ UNCHANGED <<file, app, launch, printed, result>>

\* provision reads the state file and accepts only a fresh planned one.
ReadPlanned(e) ==
    /\ pc[e] = "read"
    /\ file[e] = [phase |-> "planned", id |-> "none"]
    /\ Load(e, "start", file[e])
    /\ UNCHANGED <<file, cloud, launch, printed, result>>

\* started_at is written with the copy read before, then `fly apps create` starts.
StartCreate(e) ==
    /\ pc[e] = "start"
    /\ file' = [file EXCEPT ![e] = copy[e]]
    /\ Goto(e, "create", "sent")
    /\ UNCHANGED <<cloud, launch, printed, result>>

Created(e) ==
    /\ pc[e] = "create"
    /\ call[e] = "ok"
    /\ Goto(e, "identify", "none")
    /\ UNCHANGED <<file, cloud, launch, printed, result>>

\* The ID is looked up by name; none found is an OwnershipError (WorkerRaises).
Identify(e) ==
    /\ pc[e] = "identify"
    /\ app[e].id # "none"
    /\ Load(e, "record", [phase |-> "created", id |-> app[e].id])
    /\ UNCHANGED <<file, cloud, launch, printed, result>>

\* Mutant: the ID stays in memory while the deployment runs.
RecordLater(e) ==
    /\ pc[e] = "record"
    /\ Goto(e, "deploy", "sent")
    /\ UNCHANGED <<file, cloud, launch, printed, result>>

\* The ID reaches the disk before the deployment starts.
Record(e) ==
    /\ pc[e] = "record"
    /\ file' = [file EXCEPT ![e] = copy[e]]
    /\ Goto(e, "deploy", "sent")
    /\ UNCHANGED <<cloud, launch, printed, result>>

Deployed(e) ==
    /\ pc[e] = "deploy"
    /\ call[e] = "ok"
    /\ Goto(e, "reread", "none")
    /\ UNCHANGED <<file, cloud, launch, printed, result>>

\* The state is read again before the Machines are written to it.
Reread(e) ==
    /\ pc[e] = "reread"
    /\ file[e].phase # "absent"
    /\ Load(e, "mark", file[e])
    /\ UNCHANGED <<file, cloud, launch, printed, result>>

MarkReady(e) ==
    /\ pc[e] = "mark"
    /\ file' = [file EXCEPT ![e] = [copy[e] EXCEPT !.phase = "ready"]]
    /\ Goto(e, "measure", "none")
    /\ UNCHANGED <<cloud, launch, printed, result>>

\* run_experiment needs phase ready; a failed run still fetches its result.
Measure(e) ==
    /\ pc[e] = "measure"
    /\ file[e].phase = "ready"
    /\ \E at \in {"fetch", "salvage"} : Goto(e, at, "none")
    /\ UNCHANGED <<file, cloud, launch, printed, result>>

\* Mutant: a result that could not be fetched is not an error.
FetchLenient(e) ==
    /\ pc[e] \in {"fetch", "salvage"}
    /\ \/ result' = result \cup {e}
       \/ result' = result
    /\ Enter(e, e, pc[e] = "salvage")
    /\ UNCHANGED <<file, cloud, launch, printed>>

\* The result is fetched into a new local file; the run's own error comes last.
Fetch(e) ==
    /\ pc[e] \in {"fetch", "salvage"}
    /\ app[e].machines
    /\ e \notin result
    /\ result' = result \cup {e}
    /\ Enter(e, e, pc[e] = "salvage")
    /\ UNCHANGED <<file, cloud, launch, printed>>

WorkerStep(e) ==
    \/ ReadPlanned(e) \/ StartCreate(e) \/ Created(e) \/ Identify(e) \/ Record(e)
    \/ Deployed(e) \/ Reread(e) \/ MarkReady(e) \/ Measure(e) \/ Fetch(e)

KillWorker(e) ==
    /\ "killed" \in Faults
    /\ Live(e)
    /\ late' = late \cup Orphaned(e)
    /\ Rest(e, "killed", TRUE)
    /\ UNCHANGED <<file, app, launch, printed, result>>

-----------------------------------------------------------------------------
(* The launcher: create_states, confirmation, ReFrame, stop, cleanup loop. *)

CreateState(e) ==
    /\ lpc = "planning"
    /\ e \in todo
    /\ file' = [file EXCEPT ![e] = [phase |-> "planned", id |-> "none"]]
    /\ todo' = todo \ {e}
    /\ lpc' = IF todo' = {} THEN "confirm" ELSE lpc
    /\ UNCHANGED <<cloud, job, snap, reframe, rc, printed, result>>

\* A failure of create_states, or a declined plan, unlinks every file it made.
Withdraw ==
    /\ lpc \in {"planning", "confirm"}
    /\ file' = [e \in Experiments |-> Blank]
    /\ lpc' = "over"
    /\ UNCHANGED <<cloud, job, todo, snap, reframe, rc, printed, result>>

\* Ctrl-C at the prompt, or a missing ReFrame, leaves the planned files behind.
WalkAway ==
    /\ lpc = "confirm"
    /\ lpc' = "over"
    /\ rc' = 130
    /\ UNCHANGED <<file, cloud, job, todo, snap, reframe, printed, result>>

\* ReFrame is started; if it cannot be, the finally block runs all the same.
Confirm ==
    /\ lpc = "confirm"
    /\ \/ /\ lpc' = "running"
          /\ reframe' = "up"
          /\ UNCHANGED todo
       \/ /\ lpc' = "cleaning"
          /\ reframe' = "exited"
          /\ todo' = Experiments
    /\ UNCHANGED <<file, cloud, job, snap, rc, printed, result>>

\* ReFrame starts a pending worker when a slot is free.  It runs in its own
\* session: it goes on when the launcher is killed.
SpawnWorker(e) ==
    /\ reframe = "up"
    /\ pc[e] = "waiting"
    /\ Cardinality(LiveWorkers) < MaxParallel
    /\ lpc = "stopping" => "late_spawn" \in Faults
    /\ Goto(e, "read", "none")
    /\ UNCHANGED <<file, cloud, launch, printed, result>>

\* ReFrame exits when every worker has; its code is 0 when all of theirs are.
ReframeExits ==
    /\ reframe = "up"
    /\ \A e \in Experiments : pc[e] \in {"ok", "failed", "killed"}
    /\ reframe' = "exited"
    /\ IF lpc = "running"
       THEN /\ lpc' = "cleaning"
            /\ todo' = Experiments
            /\ rc' = IF \A e \in Experiments : pc[e] = "ok" THEN 0 ELSE 1
       ELSE UNCHANGED <<lpc, todo, rc>>
    /\ UNCHANGED <<file, cloud, job, snap, printed, result>>

\* ReFrame ends under its workers, which have sessions of their own.  To the
\* launcher's next poll, and to a stop, it has just ended.
ReframeDies ==
    /\ "reframe_dies" \in Faults
    /\ reframe = "up"
    /\ reframe' = "exited"
    /\ IF lpc = "running"
       THEN lpc' = "cleaning" /\ todo' = Experiments /\ rc' \in {1, 130}
       ELSE UNCHANGED <<lpc, todo, rc>>
    /\ UNCHANGED <<file, cloud, job, snap, printed, result>>

\* An exception that is neither FlyError nor Ctrl-C: the finally block runs, and
\* nothing was stopped.
RelayFails ==
    /\ "relay_fails" \in Faults
    /\ lpc \in {"running", "stopping"}
    /\ lpc' = "cleaning"
    /\ todo' = Experiments
    /\ rc' = 1
    /\ UNCHANGED <<file, cloud, job, snap, reframe, printed, result>>

\* The lifetime cap or Ctrl-C, which may also cut a stop at the cap short: one
\* `ps` snapshot of what is to be stopped, which is empty if `ps` fails.
BeginStop ==
    /\ \/ lpc = "running" /\ rc' \in {1, 130}
       \/ lpc = "stopping" /\ rc = 1 /\ rc' = 130
    /\ lpc' = "stopping"
    /\ snap' = LiveWorkers \/ ("ps_fails" \in Faults /\ snap' = {})
    /\ UNCHANGED <<file, cloud, job, todo, reframe, printed, result>>

\* The groups of the snapshot and ReFrame itself are terminated, then killed.
StopGroups ==
    /\ lpc = "stopping"
    /\ late' = late \cup UNION {Orphaned(e) : e \in snap}
    /\ LET dead == snap \cap LiveWorkers IN
       /\ pc' = [a \in Actors |-> IF a \in dead THEN "killed" ELSE pc[a]]
       /\ copy' = [a \in Actors |-> IF a \in dead THEN Blank ELSE copy[a]]
       /\ call' = [a \in Actors |-> IF a \in dead THEN "none" ELSE call[a]]
       /\ bad' = [a \in Actors |-> IF a \in dead THEN TRUE ELSE bad[a]]
       /\ UNCHANGED work
    /\ reframe' = "exited"
    /\ lpc' = "cleaning"
    /\ todo' = Experiments
    /\ UNCHANGED <<file, app, snap, rc, printed, result>>

\* Ctrl-C inside the KeyboardInterrupt handler: straight to the finally block.
SecondInterrupt ==
    /\ "second_interrupt" \in Faults
    /\ lpc = "stopping"
    /\ rc = 130
    /\ lpc' = "cleaning"
    /\ todo' = Experiments
    /\ UNCHANGED <<file, cloud, job, snap, reframe, rc, printed, result>>

\* The finally block calls destroy for every state file.
CleanNext(e) ==
    /\ lpc = "cleaning"
    /\ e \in todo
    /\ pc[Launcher] = "idle"
    /\ Enter(Launcher, e, bad[Launcher])
    /\ UNCHANGED <<file, cloud, launch, printed, result>>

\* Mutant: the cleanup loop ends at its first error.
FinishAtError ==
    /\ lpc = "cleaning"
    /\ todo = {} \/ bad[Launcher]
    /\ lpc' = "over"
    /\ rc' = IF bad[Launcher] THEN 1 ELSE rc
    /\ UNCHANGED <<file, cloud, job, todo, snap, reframe, printed, result>>

\* Mutant: the state files are removed when the cleanup is over.
FinishUnlinks ==
    /\ lpc = "cleaning"
    /\ todo = {}
    /\ lpc' = "over"
    /\ rc' = IF bad[Launcher] THEN 1 ELSE rc
    /\ file' = [e \in Experiments |-> Blank]
    /\ UNCHANGED <<cloud, job, todo, snap, reframe, printed, result>>

\* Any cleanup error makes the campaign fail, after every file was tried.
Finish ==
    /\ lpc = "cleaning"
    /\ todo = {}
    /\ lpc' = "over"
    /\ rc' = IF bad[Launcher] THEN 1 ELSE rc
    /\ UNCHANGED <<file, cloud, job, todo, snap, reframe, printed, result>>

KillLauncher ==
    /\ "killed" \in Faults
    /\ lpc # "over" /\ lpc # "killed"
    /\ lpc' = "killed"
    /\ late' = late \cup Orphaned(Launcher)
    /\ Rest(Launcher, "idle", FALSE)
    /\ UNCHANGED <<file, app, todo, snap, reframe, rc, printed, result>>

LauncherStep ==
    \/ \E e \in Experiments : CreateState(e) \/ CleanNext(e)
    \/ StopGroups \/ Finish

\* The operator runs a printed recovery command once the launcher is gone, and,
\* unless eager, once nothing can still work on the app.
Recover(e) ==
    /\ pc[Operator] = "idle"
    /\ lpc \in {"over", "killed"}
    /\ file[e].phase \notin {"absent", "destroyed"}
    /\ \/ "eager_operator" \in Faults
       \/ ~Live(e) /\ (reframe = "up" => pc[e] # "waiting")
    /\ Enter(Operator, e, bad[Operator])
    /\ UNCHANGED <<file, cloud, launch, printed, result>>

-----------------------------------------------------------------------------
Next ==
    \/ \E a \in Actors : Serve(a) \/ DestroyStep(a) \/ DestroyRaises(a)
    \/ \E r \in late : ServeLate(r)
    \/ \E e \in Experiments :
          \/ ForeignCreate(e) \/ WorkerStep(e) \/ WorkerRaises(e) \/ KillWorker(e)
          \/ CreateState(e) \/ SpawnWorker(e) \/ CleanNext(e) \/ Recover(e)
    \/ Withdraw \/ WalkAway \/ Confirm \/ ReframeExits \/ ReframeDies \/ RelayFails
    \/ BeginStop \/ StopGroups \/ SecondInterrupt \/ Finish \/ KillLauncher

Spec == Init /\ [][Next]_vars

-----------------------------------------------------------------------------
(* Properties.                                                             *)

\* Every variable stays in its range; a process works for an experiment
\* exactly while it is not at rest.
TypeOK ==
    /\ file \in [Experiments -> State]
    /\ app \in [Experiments -> App]
    /\ pc \in [Actors -> Benching \cup Destroying \cup Resting]
    /\ work \in [Actors -> Actors]
    /\ copy \in [Actors -> State]
    /\ call \in [Actors -> {"none", "sent", "ok", "failed"}]
    /\ bad \in [Actors -> BOOLEAN]
    /\ late \subseteq Request
    /\ lpc \in {"planning", "confirm", "running", "stopping", "cleaning", "over", "killed"}
    /\ todo \subseteq Experiments
    /\ snap \subseteq Experiments
    /\ reframe \in {"none", "up", "exited"}
    /\ rc \in {0, 1, 130}
    /\ printed \subseteq Experiments
    /\ result \subseteq Experiments

\* The abstract promise, read off the state files and the apps the campaign owns.
Recorded(e) ==
    CASE file[e].phase = "absent"    -> "none"
      [] file[e].phase = "destroyed" -> "closed"
      [] file[e].phase \in {"planned", "created", "ready"} ->
            IF file[e].id = "owned" THEN "recorded" ELSE "planned"

Holding(e) ==
    CASE app[e].id # "owned"                     -> "none"
      [] app[e].id = "owned" /\ ~app[e].machines -> "bare"
      [] app[e].id = "owned" /\ app[e].machines  -> "running"

Ownership == INSTANCE AppOwnership WITH
    record <- [e \in Experiments |-> Recorded(e)],
    holding <- [e \in Experiments |-> Holding(e)]

\* The lifecycle keeps the promise of AppOwnership: no interleaving of launcher,
\* workers and operator shows a transition it does not have.
KeepsOwnership == Ownership!Spec

\* A request that may still create the app of e.
CreatePending(e) ==
    \/ pc[e] = "create" /\ call[e] = "sent"
    \/ [kind |-> "create", exp |-> e] \in late

\* An owned app, or a request that may still create one, has its state file on
\* disk: create_states precedes everything, and no unlink follows it.
NoStrayApp ==
    \A e \in Experiments :
        app[e].id = "owned" \/ CreatePending(e) => file[e].phase # "absent"

\* While an app has Machines its immutable ID is in the state file, so that the
\* recovery command can prove ownership and delete it.
RecordedBeforeMachines ==
    \A e \in Experiments : app[e].machines => file[e].id = "owned"

\* Where the ID was recorded, destroyed files are right even if Fly applies
\* requests after their client was stopped.
RecordedDestroyedMeansGone ==
    \A e \in Experiments :
        file[e] = [phase |-> "destroyed", id |-> "owned"] => app[e].id # "owned"

\* The launcher reports success only if every experiment has its result, a
\* destroyed file and no app left.
SuccessIsComplete ==
    lpc = "over" /\ rc = 0 =>
        \A e \in Experiments :
            e \in result /\ file[e].phase = "destroyed" /\ app[e].id # "owned"

\* When the launcher ends by itself, every app is accounted for: its file says
\* destroyed or its recovery line was printed.
FailureIsReported ==
    lpc = "over" /\ reframe # "none" =>
        \A e \in Experiments : file[e].phase = "destroyed" \/ e \in printed

\* When nothing works on an app any more, its recovery command can delete it.
AppsRecoverable ==
    \A e \in Experiments :
        app[e].id = "owned" /\ ~Live(e) => file[e].id = "owned"

\* An app that took the name over is never deleted.
ForeignAppsSurvive ==
    [][\A e \in Experiments : app[e].id = "foreign" => app[e].id' = "foreign"]_vars

\* A recorded ID is never lost and a destroyed file never changes again,
\* although every writer writes a copy it read earlier.
RecordIsNeverLost ==
    [][\A e \in Experiments :
          /\ file[e].id # "none" => file'[e].id = file[e].id
          /\ file[e].phase = "destroyed" => file'[e] = file[e]]_vars

-----------------------------------------------------------------------------
(* Liveness: every process that is alive keeps running, Fly answers, and a *)
(* stop request or the workers' own end always comes.                      *)

Fairness ==
    /\ \A e \in Experiments :
          /\ WF_vars(WorkerStep(e) \/ WorkerRaises(e))
          /\ WF_vars(SpawnWorker(e))
    /\ \A a \in Actors :
          /\ WF_vars(Serve(a))
          /\ WF_vars(DestroyStep(a) \/ DestroyRaises(a))
    /\ WF_vars(LauncherStep)
    /\ WF_vars(ReframeExits)

FairSpec == Spec /\ Fairness

\* The operator repeats the recovery command until one attempt gets through.
Persistence ==
    /\ \A e \in Experiments : SF_vars(Recover(e))
    /\ SF_vars(Serve(Operator))
    /\ SF_vars(DestroyLook(Operator))
    /\ SF_vars(DestroyFind(Operator))
    /\ SF_vars(DestroyAnswered(Operator))
    /\ SF_vars(DestroyVerify(Operator))
    /\ SF_vars(DestroyClose(Operator))

RecoverySpec == FairSpec /\ Persistence

\* A confirmed campaign ends, whatever fails: no process waits for another
\* one forever.
CampaignEnds == lpc = "running" ~> lpc \in {"over", "killed"}

\* Once the launcher is gone, an app whose ID was recorded goes away too: by its
\* worker, or by the recovery command, however the campaign was killed.
RecordedAppsGoAway ==
    \A e \in Experiments :
        (lpc \in {"over", "killed"} /\ app[e].id = "owned" /\ file[e].id = "owned")
            ~> app[e].id # "owned"

=============================================================================
