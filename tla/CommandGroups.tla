---------------------------- MODULE CommandGroups ----------------------------
(***************************************************************************)
(* Measure and Timed with the kernel under them, and what both promise     *)
(* about the command, its time and its process group.                      *)
(***************************************************************************)
EXTENDS Measure, Timed

Next ==
    \/ Kernel
    \/ MeasureStep
    \/ TimedStep
    \/ \E sig \in {"int", "term"} : MeasureSignal(sig) \/ TimedSignal(sig)
    \/ pc = "ended" /\ UNCHANGED vars

\* The program runs on, processes that have to die do, and time passes.
Spec ==
    /\ Init /\ [][Next]_vars
    /\ WF_vars(MeasureStep) /\ WF_vars(TimedStep)
    /\ KernelFairness

-----------------------------------------------------------------------------
(* Properties.                                                             *)

Steps == {"spawn", "started", "handlers", "thread", "wait", "try", "check", "join", "ended"}
            \cup Handled \cup InKill

\* Every variable keeps its type.
TypeOK ==
    /\ program \in AllPrograms
    /\ pc \in Steps
    /\ st \in [Group -> {"none", "run", "zombie", "gone"}]
    /\ deaf \in [Group -> BOOLEAN]
    /\ told \in [Group -> {"none", "term", "kill"}]
    /\ code \in {"none", "ok", "bad", "term", "kill"}
    /\ timer \in [Timers -> {"off", "on", "out"}]
    /\ stopped \in {"none", "int", "term"}
    /\ killing \in [hard : BOOLEAN, from : {"none", "budget", "except", "check"}]
    /\ rec \in [status : {"starting", "running", "finished"}, timed_out : BOOLEAN,
                survivors : BOOLEAN, verified : BOOLEAN, complete : BOOLEAN,
                signal : {"none", "int", "term"}]
    /\ exit \in {"none", "zero", "one", "limit", "signal", "ok", "bad", "term", "kill",
                 "raised", "killed"}
    /\ hits \in Seq(Steps)

\* How a program ends that no signal cut short.
Results == {"zero", "one", "limit", "signal", "ok", "bad", "term", "kill"}

\* When measure or _timed ends with a result, or one Ctrl-C finds _timed in
\* its `try`, no process of the group goes on: what still runs was sent
\* SIGKILL, and measure says "one" (exit code 1) if it saw such a process.
NothingOutlives ==
    exit \in Results \/ (exit = "raised" /\ hits = <<"try">>) =>
        /\ \A p \in Running : told[p] = "kill"
        /\ program = "measure" /\ exit # "one" => Running = {}

\* A record that calls the accounting complete is about a command that ended by
\* itself with 0, in a group of which no member was signalled or is left.
CompleteIsUndisturbed ==
    rec.complete =>
        /\ code = "ok"
        /\ \A p \in Group : told[p] = "none" /\ st[p] # "run"

\* measure returns 0 only with a record that is complete and names no signal.
ZeroIsComplete ==
    exit = "zero" => rec.status = "finished" /\ rec.complete /\ rec.signal = "none"

\* A result that is the command's own exit code was not caused by a signal that
\* measure or _timed sent: the code of a tool they stopped is never taken for
\* the tool's result.
OwnResult ==
    exit \in {"zero", "ok", "bad", "term", "kill"} =>
        code \in {"ok", "bad"} /\ told[Leader] = "none"

\* A program whose command has a time limit, or that began to stop it, ends,
\* whether or not processes ignore SIGTERM.
StoppedEnds ==
    timer["limit"] # "off" \/ stopped # "none" \/ killing.from # "none" ~> pc = "ended"

=============================================================================
