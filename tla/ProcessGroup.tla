---------------------------- MODULE ProcessGroup ----------------------------
(***************************************************************************)
(* What the kernel does with a command that a program runs in a process    *)
(* group of its own: forks, exits, zombies, signals and time, as on Linux  *)
(* and from how resources.py and runner.py use them; and the state of the  *)
(* program that runs it, Measure or Timed.                                 *)
(***************************************************************************)
EXTENDS Naturals, Sequences, FiniteSets

CONSTANTS
    Programs,   \* which program it is: a subset of AllPrograms
    Leader,     \* the process of the command itself
    Kids,       \* processes it and its descendants may start in the group
    MaxSignals  \* bound: how many signals reach the program

AllPrograms == {"measure", "timed"}

ASSUME ConstantsOK ==
    /\ Programs \subseteq AllPrograms
    /\ Leader \notin Kids
    /\ MaxSignals \in Nat

Group == {Leader} \cup Kids

\* limit   the command's time limit, if it has one
\* grace   measure: 5 s from the first signal to SIGKILL; kill_group: 5 s for the leader
\* clear   5 s for the rest of the group
Timers == {"limit", "grace", "clear"}

VARIABLES
    program,    \* the program
    pc,         \* its next step
    st,         \* each process: none, run, zombie or gone (waited for)
    deaf,       \* whether it ignores SIGINT and SIGTERM
    told,       \* the strongest signal it was sent: none, term or kill
    code,       \* how the leader ended: none, ok, bad, term or kill
    timer,      \* off, on or out
    stopped,    \* measure: the first signal passed on
    killing,    \* _timed: how kill_group was called, and from where
    rec,        \* measure: the record; _timed: its timed_out
    exit,       \* how the program ended
    hits        \* the steps in which a signal reached the program (history)

kernel == <<st, deaf, told, code>>
own == <<stopped, killing, rec, exit, hits>>
vars == <<program, pc, kernel, timer, own>>

\* The record of measure; _timed has timed_out alone.
NewRecord == [status |-> "starting", timed_out |-> FALSE, survivors |-> FALSE,
              verified |-> FALSE, complete |-> FALSE, signal |-> "none"]

Init ==
    /\ program \in Programs
    /\ pc = "spawn"
    /\ st = [p \in Group |-> "none"]
    /\ deaf = [p \in Group |-> FALSE]
    /\ told = [p \in Group |-> "none"]
    /\ code = "none"
    /\ timer = [t \in Timers |-> "off"]
    /\ stopped = "none"
    /\ killing = [hard |-> FALSE, from |-> "none"]
    /\ rec = NewRecord
    /\ exit = "none" /\ hits = <<>>

Running == {p \in Group : st[p] = "run"}

\* kill(-pgid, 0) succeeds while the group has a member, a zombie included.
Exists == \E p \in Group : st[p] \in {"run", "zombie"}

\* kill(-pgid, sig), where it is no error if there is no such group.
Send(sig) ==
    told' = [p \in Group |-> IF p \in Running /\ told[p] # "kill" THEN sig ELSE told[p]]

\* Popen or posix_spawnp makes the command the leader of a new group.
Spawn(next) ==
    /\ pc = "spawn"
    /\ st' = [st EXCEPT ![Leader] = "run"]
    /\ \E d \in BOOLEAN : deaf' = [deaf EXCEPT ![Leader] = d]
    /\ \E limit \in {"off", "on"} : timer' = [timer EXCEPT !["limit"] = limit]
    /\ pc' = next
    /\ UNCHANGED <<program, told, code, own>>

\* The command cannot be started.
SpawnFails ==
    /\ pc = "spawn"
    /\ pc' = "ended" /\ exit' = "raised"
    /\ UNCHANGED <<program, kernel, timer, stopped, killing, rec, hits>>

\* A process that SIGKILL has not reached may start another one.
Fork(k) ==
    /\ st[k] = "none"
    /\ \E p \in Running : told[p] # "kill"
    /\ st' = [st EXCEPT ![k] = "run"]
    /\ \E d \in BOOLEAN : deaf' = [deaf EXCEPT ![k] = d]
    /\ UNCHANGED <<program, pc, told, code, timer, own>>

Endings(p) ==
    CASE told[p] = "kill" -> {"kill"}
      [] told[p] = "term" /\ ~deaf[p] -> {"ok", "bad", "term"}
      [] OTHER -> {"ok", "bad"}

Die(p) ==
    /\ p \in Running
    /\ st' = [st EXCEPT ![p] = "zombie"]
    /\ IF p = Leader THEN code' \in Endings(p) ELSE UNCHANGED code
    /\ UNCHANGED <<program, pc, deaf, told, timer, own>>

\* A descendant is waited for by its parent, or by init.
Collect(k) ==
    /\ st[k] = "zombie"
    /\ st' = [st EXCEPT ![k] = "gone"]
    /\ UNCHANGED <<program, pc, deaf, told, code, timer, own>>

Expire(t) ==
    /\ timer[t] = "on"
    /\ timer' = [timer EXCEPT ![t] = "out"]
    /\ UNCHANGED <<program, pc, kernel, own>>

Kernel ==
    \/ \E k \in Kids : Fork(k) \/ Collect(k)
    \/ \E p \in Group : Die(p)
    \/ \E t \in Timers : Expire(t)

\* A process that has to die does, and time passes.
KernelFairness ==
    /\ \A p \in Group :
          WF_vars(Die(p) /\ (told[p] = "kill" \/ (told[p] = "term" /\ ~deaf[p])))
    /\ \A t \in Timers : WF_vars(Expire(t))

=============================================================================
