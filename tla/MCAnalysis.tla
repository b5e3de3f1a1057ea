----------------------------- MODULE MCAnalysis -----------------------------
(* Result files for TLC: one workload, two tools, walls in tenths of a       *)
(* second around the limits of 2 s, of 5 % and of twice as slow.             *)
EXTENDS Analysis

Rep(w) == [wall |-> w, ok |-> TRUE, verified |-> "yes", cache |-> "evict"]
Reps(walls) == [r \in DOMAIN walls |-> Rep(walls[r])]
Failed == [Rep(99) EXCEPT !.ok = FALSE, !.verified = "none"]
Damaged == [Rep(99) EXCEPT !.verified = "no"]
Unverified == [Rep(20) EXCEPT !.verified = "none"]
Warm == [Rep(20) EXCEPT !.cache = "evict-failed"]

Local(build) == [build |-> build, config |-> "plain", other |-> "none"]

\* A local result: tool a with the given repeats, tool b with one of 40.
Timing(second, repeats) ==
    [started |-> second, series |-> "local", remote |-> FALSE, aborted |-> FALSE,
     tools |-> [t \in Tools |-> Local("one")],
     cases |-> [k \in Workloads \X Tools |-> IF k[2] = "a" THEN repeats ELSE Reps(<<40, 50>>)]]

\* The same without tool a, and one that was aborted.
Lacking(second) ==
    [Timing(second, <<>>) EXCEPT !.cases = [k \in Workloads \X {"b"} |-> Reps(<<40, 50>>)]]
Aborted(second) == [Timing(second, Reps(<<20, 20>>)) EXCEPT !.aborted = TRUE]

\* A result of tool a's build against a remote end.
Remote(second, build, other) ==
    [started |-> second, series |-> "remote", remote |-> TRUE, aborted |-> FALSE,
     tools |-> [t \in Tools |-> [build |-> build, config |-> "plain", other |-> other]],
     cases |-> [k \in Workloads \X {"a"} |-> Reps(<<40, 50>>)]]

ByTime == <<
    Timing(1, Reps(<<20, 20>>)), Timing(1, Reps(<<20, 21>>)), Timing(1, Reps(<<21>>)),
    Timing(1, Reps(<<19>>)), Timing(1, Reps(<<38, 41>>)), Timing(1, Reps(<<42>>)),
    Timing(1, Reps(<<44, 60>>)), Timing(1, Reps(<<20, 84>>)), Timing(1, Reps(<<90, 84>>)),
    Timing(1, <<>>), Timing(1, <<Failed, Rep(20)>>), Timing(1, <<Failed, Failed>>),
    Timing(1, <<Rep(20), Damaged>>), Timing(1, <<Unverified, Unverified>>),
    Timing(1, <<Warm, Rep(20)>>), Lacking(1), Aborted(1),
    Timing(1, Reps(<<20, 20, 50>>)), Timing(1, Reps(<<23, 20, 50>>)),
    Remote(1, "one", "x"), Remote(1, "two", "unknown"),
    Remote(2, "two", "x"), Remote(2, "one", "unknown"), Remote(2, "two", "unknown"),
    Remote(3, "one", "x"), Remote(3, "two", "y"), Timing(3, Reps(<<20, 20>>))>>

ABColumns == <<"a", "b">>
=============================================================================
