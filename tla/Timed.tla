-------------------------------- MODULE Timed --------------------------------
(***************************************************************************)
(* _timed and kill_group of src/syq_bench/runner.py: a tool is run in a    *)
(* session of its own until it ends, its budget is used up or Ctrl-C       *)
(* arrives, and whatever it started is killed before anything else runs.   *)
(***************************************************************************)
EXTENDS ProcessGroup

Popen == program = "timed" /\ Spawn("thread")

PopenFails == program = "timed" /\ SpawnFails

\* The thread that drains stderr is started; then the `try` begins.
Thread ==
    /\ pc = "thread"
    /\ pc' = "wait"
    /\ UNCHANGED <<program, kernel, timer, own>>

Wait ==
    /\ pc = "wait"
    /\ st[Leader] = "zombie"
    /\ st' = [st EXCEPT ![Leader] = "gone"]
    /\ pc' = "check"
    /\ UNCHANGED <<program, deaf, told, code, timer, own>>

\* TimeoutExpired, although the tool may have ended in the meantime.
BudgetOver ==
    /\ pc = "wait"
    /\ timer["limit"] = "out"
    /\ rec' = [rec EXCEPT !.timed_out = TRUE]
    /\ killing' = [hard |-> TRUE, from |-> "budget"]
    /\ pc' = "k_signal"
    /\ UNCHANGED <<program, kernel, timer, stopped, exit, hits>>

\* The leader has ended; descendants of its group may have survived it.
Check ==
    /\ pc = "check"
    /\ IF Exists
       THEN killing' = [hard |-> FALSE, from |-> "check"] /\ pc' = "k_signal"
       ELSE pc' = "join" /\ UNCHANGED killing
    /\ UNCHANGED <<program, kernel, timer, stopped, rec, exit, hits>>

\* The result, once the thread has ended or ten seconds are over.
Join ==
    /\ pc = "join"
    /\ exit' = IF rec.timed_out THEN "limit" ELSE code
    /\ pc' = "ended"
    /\ UNCHANGED <<program, kernel, timer, stopped, killing, rec, hits>>

-----------------------------------------------------------------------------
(* kill_group.                                                             *)

KillSignal ==
    /\ pc = "k_signal"
    /\ Send(IF killing.hard THEN "kill" ELSE "term")
    /\ timer' = [timer EXCEPT !["grace"] = "on"]
    /\ pc' = "k_wait"
    /\ UNCHANGED <<program, st, deaf, code, own>>

\* proc.wait(timeout=5)
KillWait ==
    /\ pc = "k_wait"
    /\ \/ st[Leader] \in {"zombie", "gone"}
       \/ timer["grace"] = "out"
    /\ st' = [st EXCEPT ![Leader] = IF @ = "zombie" THEN "gone" ELSE @]
    /\ timer' = [timer EXCEPT !["clear"] = "on"]
    /\ pc' = "k_group"
    /\ UNCHANGED <<program, deaf, told, code, own>>

KillGroup ==
    /\ pc = "k_group"
    /\ ~Exists \/ timer["clear"] = "out"
    /\ pc' = "k_kill"
    /\ UNCHANGED <<program, kernel, timer, own>>

\* Mutant: only a leader that did not end is killed.
KillLeader ==
    /\ pc = "k_kill"
    /\ IF st[Leader] = "gone" THEN UNCHANGED told ELSE Send("kill")
    /\ pc' = "k_reap"
    /\ UNCHANGED <<program, st, deaf, code, timer, own>>

KillRest ==
    /\ pc = "k_kill"
    /\ Send("kill")
    /\ pc' = "k_reap"
    /\ UNCHANGED <<program, st, deaf, code, timer, own>>

\* proc.wait(), and back to where kill_group was called.
KillReap ==
    /\ pc = "k_reap"
    /\ st[Leader] \in {"zombie", "gone"}
    /\ st' = [st EXCEPT ![Leader] = "gone"]
    /\ pc' = CASE killing.from = "budget" -> "check"
               [] killing.from = "check" -> "join"
               [] OTHER -> "ended"
    /\ exit' = IF killing.from = "except" THEN "raised" ELSE exit
    /\ UNCHANGED <<program, deaf, told, code, timer, stopped, killing, rec, hits>>

InKill == {"k_signal", "k_wait", "k_group", "k_kill", "k_reap"}

\* In the `try`; its `except BaseException` kills the group, then raises on.
Guarded == pc = "wait" \/ (pc \in InKill /\ killing.from = "budget")

\* SIGINT is a KeyboardInterrupt; SIGTERM ends the program where it is.
TimedSignal(sig) ==
    /\ program = "timed" /\ pc # "ended"
    /\ Len(hits) < MaxSignals
    /\ hits' = Append(hits, IF Guarded THEN "try" ELSE pc)
    /\ IF sig = "int" /\ Guarded
       THEN /\ killing' = [hard |-> FALSE, from |-> "except"]
            /\ pc' = "k_signal"
            /\ UNCHANGED exit
       ELSE /\ pc' = "ended"
            /\ exit' = IF sig = "int" THEN "raised" ELSE "killed"
            /\ UNCHANGED killing
    /\ UNCHANGED <<program, kernel, timer, stopped, rec>>

TimedStep ==
    \/ Popen \/ PopenFails \/ Thread \/ Wait \/ BudgetOver \/ Check \/ Join
    \/ KillSignal \/ KillWait \/ KillGroup \/ KillRest \/ KillReap

=============================================================================
