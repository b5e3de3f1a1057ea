------------------------------- MODULE Measure -------------------------------
(***************************************************************************)
(* measure of src/syq_bench/resources.py: one command is run, timed and    *)
(* recorded; SIGINT and SIGTERM are passed on to its group, and so is the  *)
(* end of its time; what is left of the group afterwards is killed.        *)
(* A step ends where a signal handler may run and matter.                  *)
(***************************************************************************)
EXTENDS ProcessGroup

\* The record is created and saved before the command is started ...
Start == program = "measure" /\ Spawn("started")

StartFails == program = "measure" /\ SpawnFails

\* ... and names it after.
Started ==
    /\ pc = "started"
    /\ rec' = [rec EXCEPT !.status = "running"]
    /\ pc' = "handlers"
    /\ UNCHANGED <<program, kernel, timer, stopped, killing, exit, hits>>

Handlers ==
    /\ pc = "handlers"
    /\ pc' = "poll"
    /\ UNCHANGED <<program, kernel, timer, own>>

Handled == {"poll", "probe", "sweep", "drain", "verify", "conclude", "mark", "return"}

\* Mutant: a process that does not end on SIGTERM is waited for.
StopOnce(sig) ==
    /\ stopped' = IF stopped = "none" THEN sig ELSE stopped
    /\ UNCHANGED timer
    /\ Send("term")

\* stop: the first signal starts the grace period.
Stop(sig) ==
    /\ stopped' = IF stopped = "none" THEN sig ELSE stopped
    /\ timer' = IF stopped = "none" THEN [timer EXCEPT !["grace"] = "on"] ELSE timer
    /\ Send("term")

\* A signal from outside, before and after stop is its handler.
MeasureSignal(sig) ==
    /\ program = "measure" /\ pc # "ended"
    /\ Len(hits) < MaxSignals
    /\ hits' = Append(hits, pc)
    /\ IF pc \in Handled
       THEN Stop(sig) /\ UNCHANGED <<pc, exit>>
       ELSE /\ pc' = "ended"
            /\ exit' = IF sig = "int" THEN "raised" ELSE "killed"
            /\ UNCHANGED <<stopped, timer, told>>
    /\ UNCHANGED <<program, st, deaf, code, killing, rec>>

\* wait4
Poll ==
    /\ pc = "poll"
    /\ st[Leader] = "zombie"
    /\ st' = [st EXCEPT ![Leader] = "gone"]
    /\ pc' = "probe"
    /\ UNCHANGED <<program, deaf, told, code, timer, own>>

\* Mutant: the end of the time is a signal of its own.
TimeOutSignal ==
    /\ pc = "poll"
    /\ timer["limit"] = "out" /\ stopped = "none"
    /\ rec' = [rec EXCEPT !.timed_out = TRUE]
    /\ Stop("limit")
    /\ UNCHANGED <<program, pc, st, deaf, code, killing, exit, hits>>

\* The command was still running when it was polled; it may have ended since.
TimeOut ==
    /\ pc = "poll"
    /\ timer["limit"] = "out" /\ stopped = "none"
    /\ rec' = [rec EXCEPT !.timed_out = TRUE]
    /\ Stop("term")
    /\ UNCHANGED <<program, pc, st, deaf, code, killing, exit, hits>>

GraceOver ==
    /\ pc = "poll"
    /\ timer["grace"] = "out"
    /\ Send("kill")
    /\ UNCHANGED <<program, pc, st, deaf, code, timer, own>>

\* Does anything of the group survive its leader?
Probe ==
    /\ pc = "probe"
    /\ rec' = [rec EXCEPT !.survivors = Exists]
    /\ pc' = IF Exists THEN "sweep" ELSE "drain"
    /\ timer' = [timer EXCEPT !["clear"] = IF Exists THEN @ ELSE "on"]
    /\ UNCHANGED <<program, kernel, stopped, killing, exit, hits>>

Sweep ==
    /\ pc = "sweep" /\ Exists
    /\ Send("kill")
    /\ pc' = "drain"
    /\ timer' = [timer EXCEPT !["clear"] = "on"]
    /\ UNCHANGED <<program, st, deaf, code, own>>

\* The last survivor is gone by now: ProcessLookupError.
SweepRaises ==
    /\ pc = "sweep" /\ ~Exists
    /\ pc' = "ended" /\ exit' = "raised"
    /\ UNCHANGED <<program, kernel, timer, stopped, killing, rec, hits>>

\* group_running takes no zombie for a member.
Drain ==
    /\ pc = "drain"
    /\ Running = {} \/ timer["clear"] = "out"
    /\ pc' = "verify"
    /\ UNCHANGED <<program, kernel, timer, own>>

Verified ==
    /\ pc = "verify"
    /\ rec' = [rec EXCEPT !.verified = (Running = {})]
    /\ pc' = "conclude"
    /\ UNCHANGED <<program, kernel, timer, stopped, killing, exit, hits>>

\* Mutant: a command that ends with 0 although it was stopped is complete.
ConcludeByCode ==
    /\ pc = "conclude"
    /\ rec' = [rec EXCEPT !.status = "finished",
                          !.complete = (code = "ok" /\ ~rec.survivors /\ rec.verified)]
    /\ pc' = "mark"
    /\ UNCHANGED <<program, kernel, timer, stopped, killing, exit, hits>>

Conclude ==
    /\ pc = "conclude"
    /\ rec' = [rec EXCEPT !.status = "finished",
                          !.complete = (code = "ok" /\ stopped = "none" /\
                                        ~rec.survivors /\ rec.verified)]
    /\ pc' = "mark"
    /\ UNCHANGED <<program, kernel, timer, stopped, killing, exit, hits>>

\* A signal that came since is in the record, too; then it is saved.
Mark ==
    /\ pc = "mark"
    /\ rec' = [rec EXCEPT !.signal = stopped]
    /\ pc' = "return"
    /\ UNCHANGED <<program, kernel, timer, stopped, killing, exit, hits>>

\* Mutant: survivors are recorded only.
ResultIgnoringSurvivors ==
    IF ~rec.verified THEN "one"
    ELSE IF rec.timed_out THEN "limit"
    ELSE IF stopped # "none" THEN "signal"
    ELSE IF code = "ok" THEN "zero" ELSE "bad"

\* Mutant: a command that ends with 0 has succeeded.
ResultByCode ==
    IF ~rec.verified THEN "one"
    ELSE IF code = "ok" THEN "zero"
    ELSE IF rec.timed_out THEN "limit"
    ELSE IF stopped # "none" THEN "signal" ELSE "bad"

Result ==
    IF ~rec.verified \/ (rec.survivors /\ code = "ok" /\ stopped = "none") THEN "one"
    ELSE IF rec.timed_out THEN "limit"
    ELSE IF stopped # "none" THEN "signal"
    ELSE IF code = "ok" THEN "zero" ELSE "bad"

Return ==
    /\ pc = "return"
    /\ exit' = Result
    /\ pc' = "ended"
    /\ UNCHANGED <<program, kernel, timer, stopped, killing, rec, hits>>

MeasureStep ==
    \/ Start \/ StartFails \/ Started \/ Handlers
    \/ Poll \/ TimeOut \/ GraceOver
    \/ Probe \/ Sweep \/ SweepRaises \/ Drain \/ Verified
    \/ Conclude \/ Mark \/ Return

=============================================================================
