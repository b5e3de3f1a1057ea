------------------------------- MODULE Runner -------------------------------
(***************************************************************************)
(* One benchmark run (src/syq_bench/runner.py, and the end of cmd_run):    *)
(* the workloads in turn, for each one rounds in which every tool copies   *)
(* the same tree once.  Any harness step may fail and Ctrl-C may arrive in *)
(* any of them; exceptions run through the `finally` blocks, whose steps   *)
(* may fail as well.  Trees are abstracted to versions of their contents,  *)
(* the page cache to the set of trees with pages in it.                    *)
(***************************************************************************)
EXTENDS Naturals, Sequences, FiniteSets, SequencesExt, Statistics

CONSTANTS
    Tools,      \* names of the tools
    Order,      \* the tools of each round, in their order
    Setups,     \* the specifications that may be run
    Outcomes,   \* what a tool may do: a subset of AllOutcomes
    Walls,      \* how long a copy may take
    Cutoff,     \* protocol.slow_cutoff, 0 to disable it
    TooShort,   \* TOO_SHORT_S
    Faults,     \* exceptions that may be raised: a subset of AllFaults
    MaxFaults,  \* bound: how many are raised in a run
    Absent, Empty, Damaged  \* no tree, an empty one, one with other contents

\* fresh: an empty destination; resync and update: a pre-populated one, and a
\* source that is unchanged, or changed in every round.
Modes == {"fresh", "resync", "update"}

\* right     exit 0, and the destination equals the source
\* nothing   exit 0, and the destination is as before
\* fail      another exit code
\* late      killed at protocol.tool_timeout
AllOutcomes == {"right", "nothing", "fail", "late"}

\* step        CalledProcessError, TimeoutExpired or OSError of a harness step
\* interrupt   KeyboardInterrupt
AllFaults == {"step", "interrupt"}

\* The rules of a protocol: a row of tools for every round, none of them twice,
\* and every tool in some row.
ProtocolOK ==
    /\ Cutoff = 0 \/ Cutoff > 1
    /\ \A r \in DOMAIN Order : Order[r] # <<>> /\ IsInjective(Order[r])
    /\ UNION {ToSet(Order[r]) : r \in DOMAIN Order} = Tools

ASSUME ConstantsOK ==
    /\ Order \in Seq(Seq(Tools)) /\ Len(Order) > 0
    /\ ProtocolOK
    /\ \A s \in Setups :
          /\ s.plan \in Seq(Modes) /\ Len(s.plan) > 0
          /\ s.copyOnly \subseteq Tools
          /\ s.verify \in BOOLEAN
          /\ s.cache \in {"evict", "drop", "warm"}
          /\ s.remote \in BOOLEAN
          /\ \A v \in s.given : s.plan[v] = "fresh"
    /\ Outcomes \subseteq AllOutcomes
    /\ Walls \subseteq Nat /\ Cutoff \in Nat /\ TooShort \in Nat
    /\ Faults \subseteq AllFaults /\ MaxFaults \in Nat
    /\ Cardinality({Absent, Empty, Damaged} \cup {0}) = 4

Rounds == Len(Order)

\* 0 is the generated contents, n the contents as changed in round n.
Versions == 0..Rounds
Contents == Versions \cup {Absent, Empty, Damaged}
Trees == {"src", "before", "dst"}

VARIABLES
    setup,      \* the specification under way
    pc,         \* the harness step to come
    exc,        \* the exception on its way, or "none"
    w, round,   \* current workload and round
    rest,       \* tools left in the round, the current one first
    tree,       \* contents of the source, its snapshot and the destination
    hot,        \* trees with pages in the page cache
    wl,         \* the workload's checksum, and whether it was born cold
    rep,        \* the repeat under way
    cases,      \* the cases of each workload
    abort,      \* Runner.abort, and its note in run.uncontrolled
    aborted,    \* run.aborted
    code,       \* exit code of the harness, once it has one
    hit         \* steps in which a fault hit (history)

vars == <<setup, pc, exc, w, round, rest, tree, hot, wl, rep, cases, abort, aborted, code, hit>>

Plan == setup.plan          \* the workloads' modes, in their order
CopyOnly == setup.copyOnly  \* tools without change detection
Verify == setup.verify      \* protocol.verify
Cache == setup.cache        \* protocol.cache
Given == w \in setup.given   \* the source is a tree of the user's
RemoteDestination == setup.remote   \* dst.is_remote; the source never is

Mode == Plan[w]
Incremental == Mode # "fresh"
Skipped(v, t) == Plan[v] # "fresh" /\ t \in CopyOnly

\* What a repeat records; right and hot (the trees that may have had pages in the
\* cache when the tool started) are history.
NewRep == [code |-> "none", verified |-> "none", cache |-> "not-run", wall |-> 0,
           evicted |-> TRUE, right |-> FALSE, hot |-> {}]
NewCase == [made |-> FALSE, reps |-> <<>>, error |-> FALSE, curtailed |-> FALSE]

Init ==
    /\ setup \in Setups
    /\ pc = "prepare" /\ exc = "none"
    /\ w = 1 /\ round = 0 /\ rest = <<>>
    /\ tree = [n \in Trees |-> Absent] /\ hot = {}
    /\ wl = [sum |-> Absent, born |-> FALSE]
    /\ rep = NewRep
    /\ cases = [v \in DOMAIN Plan |-> [t \in Tools |-> NewCase]]
    /\ abort = FALSE /\ aborted = FALSE /\ code = 0 /\ hit = <<>>

-----------------------------------------------------------------------------
(* Exceptions.                                                             *)

\* The current step raises e.
Raise(e) ==
    /\ e \in Faults
    /\ Len(hit) < MaxFaults
    /\ hit' = Append(hit, pc)

\* It raises e and control goes to the `finally` (or `except`) at `to`; the
\* tree it worked on is left damaged.
RaiseTo(e, n, to) ==
    /\ Raise(e)
    /\ exc' = e
    /\ tree' = [tree EXCEPT ![n] = Damaged]
    /\ pc' = to
    /\ UNCHANGED <<w, round, rest, hot, wl, rep, cases, abort, aborted, code>>

\* A removal that fails or is interrupted.
RemovalRaises(n, to) == \E e \in Faults : RaiseTo(e, n, to)

Removed(n, to) ==
    /\ tree' = [tree EXCEPT ![n] = Absent]
    /\ pc' = to
    /\ UNCHANGED <<exc, w, round, rest, hot, wl, rep, cases, abort, aborted, code, hit>>

-----------------------------------------------------------------------------
(* A workload.                                                             *)

\* Generation: the pages bypass the page cache if O_DIRECT works.  A tree of the
\* user's is only looked at.
Generate ==
    /\ pc = "prepare"
    /\ tree' = [tree EXCEPT !["src"] = 0]
    /\ \E cold \in BOOLEAN :
          /\ Given => ~cold
          /\ wl' = [sum |-> Absent, born |-> cold]
          /\ hot' = IF cold THEN {} ELSE {"src"}
    /\ pc' = "checksum"
    /\ UNCHANGED <<exc, w, round, rest, rep, cases, abort, aborted, code, hit>>

\* prepare() is outside the `try` that releases the workload.
GenerateRaises ==
    /\ pc = "prepare"
    /\ \E e \in Faults : Raise(e) /\ exc' = e
    /\ tree' = [tree EXCEPT !["src"] = IF Given THEN 0 ELSE Damaged]
    /\ pc' = "end"
    /\ UNCHANGED <<w, round, rest, hot, wl, rep, cases, abort, aborted, code>>

\* The reference checksum reads the whole source; then the cases exist.
Checksum ==
    /\ pc = "checksum"
    /\ IF Verify
       THEN wl' = [wl EXCEPT !.sum = tree["src"]] /\ hot' = hot \cup {"src"}
       ELSE UNCHANGED <<wl, hot>>
    /\ cases' = [cases EXCEPT ![w] = [t \in Tools |-> [NewCase EXCEPT !.made = TRUE]]]
    /\ round' = 0
    /\ pc' = "round"
    /\ UNCHANGED <<exc, w, rest, tree, rep, abort, aborted, code, hit>>

ChecksumRaises ==
    /\ pc = "checksum"
    /\ \E e \in Faults : Raise(e) /\ exc' = e
    /\ pc' = "release"
    /\ UNCHANGED <<w, round, rest, tree, hot, wl, rep, cases, abort, aborted, code>>

NextRound ==
    /\ pc = "round"
    /\ IF round < Rounds
       THEN /\ round' = round + 1
            /\ rest' = Order[round + 1]
            /\ pc' = IF Incremental THEN "snapshot" ELSE "pick"
       ELSE /\ pc' = "release"
            /\ UNCHANGED <<round, rest>>
    /\ UNCHANGED <<exc, w, tree, hot, wl, rep, cases, abort, aborted, code, hit>>

\* The source is copied aside.
Snapshot ==
    /\ pc = "snapshot"
    /\ tree' = [tree EXCEPT !["before"] = tree["src"]]
    /\ hot' = hot \cup {"src"}
    /\ pc' = "change"
    /\ UNCHANGED <<exc, w, round, rest, wl, rep, cases, abort, aborted, code, hit>>

SnapshotRaises == pc = "snapshot" /\ \E e \in Faults : RaiseTo(e, "before", "unsnap")

\* Mutant: the reference checksum stays that of the generated tree.
ChangeKeepsSum ==
    /\ pc = "change"
    /\ IF Mode = "update"
       THEN tree' = [tree EXCEPT !["src"] = IF @ = 0 THEN round ELSE Damaged]
       ELSE UNCHANGED tree
    /\ pc' = "pick"
    /\ UNCHANGED <<exc, w, round, rest, hot, wl, rep, cases, abort, aborted, code, hit>>

\* The source gets this round's change (its seed names the round), and the new
\* reference checksum is taken.
Change ==
    /\ pc = "change"
    /\ IF Mode = "update"
       THEN LET new == IF tree["src"] = 0 THEN round ELSE Damaged IN
            /\ tree' = [tree EXCEPT !["src"] = new]
            /\ wl' = [wl EXCEPT !.sum = IF Verify THEN new ELSE @]
       ELSE UNCHANGED <<tree, wl>>
    /\ pc' = "pick"
    /\ UNCHANGED <<exc, w, round, rest, hot, rep, cases, abort, aborted, code, hit>>

ChangeRaises ==
    /\ pc = "change" /\ Mode = "update"
    /\ \E e \in Faults : RaiseTo(e, "src", "unsnap")

\* A partial snapshot is removed before the exception goes on.
Unsnap ==
    /\ pc = "unsnap"
    /\ Removed("before", "release") \/ RemovalRaises("before", "release")

-----------------------------------------------------------------------------
(* A round.                                                                *)

Open(t) ==
    LET c == cases[w][t] IN ~c.error /\ ~c.curtailed /\ ~Skipped(w, t)

\* Mutant: a changed source is used again.
LeaveChanged(e) == IF e = "none" THEN "round" ELSE "release"

\* What follows a round that ends with exception e: an incremental one restores
\* the source first.
Leave(e) == IF Incremental THEN "restore" ELSE IF e = "none" THEN "round" ELSE "release"

\* The next tool whose case is still open.
Pick ==
    /\ pc = "pick"
    /\ \E n \in 0..Len(rest) :
          /\ \A k \in 1..n : ~Open(rest[k])
          /\ n < Len(rest) => Open(rest[n + 1])
          /\ rest' = SubSeq(rest, n + 1, Len(rest))
          /\ pc' = IF n = Len(rest) THEN Leave(exc) ELSE "mkdir"
    /\ rep' = NewRep
    /\ UNCHANGED <<exc, w, round, tree, hot, wl, cases, abort, aborted, code, hit>>

\* A failing step is an error of the case; Ctrl-C goes on.  Either way the
\* destination is removed.
RepeatRaises ==
    /\ pc \in {"mkdir", "fill", "cache", "copy", "verify"}
    /\ \/ /\ Raise("step")
          /\ pc = "cache" => Cache = "drop"
          /\ cases' = [cases EXCEPT ![w][Head(rest)].error = TRUE]
          /\ rep' = [rep EXCEPT !.verified = IF rep.code = "ok" THEN "no" ELSE "none"]
          /\ UNCHANGED exc
       \/ /\ Raise("interrupt")
          /\ exc' = "interrupt"
          /\ UNCHANGED <<cases, rep>>
    /\ \/ UNCHANGED tree
       \/ pc # "verify" /\ tree' = [tree EXCEPT !["dst"] = Damaged]
    /\ pc' = "remove"
    /\ UNCHANGED <<w, round, rest, hot, wl, abort, aborted, code>>

\* The destination is created, and an rclone endpoint checked.
MakeDestination ==
    /\ pc = "mkdir"
    /\ tree' = [tree EXCEPT !["dst"] = Empty]
    /\ hot' = hot \ {"dst"}
    /\ pc' = IF Incremental THEN "fill" ELSE "cache"
    /\ UNCHANGED <<exc, w, round, rest, wl, rep, cases, abort, aborted, code, hit>>

\* _prepopulate: the snapshot is copied into the destination, which is evicted
\* unless caches are to be warm.  A local destination is flushed first.  A remote
\* one is not: what is still dirty stays cached, and that is a success as well.
Prepopulate ==
    /\ pc = "fill"
    /\ tree' = [tree EXCEPT !["dst"] = tree["before"]]
    /\ \E ok \in BOOLEAN :
          /\ Cache = "warm" => ok
          /\ rep' = [rep EXCEPT !.evicted = ok]
          /\ \/ Cache # "warm" /\ ok /\ hot' = hot \ {"dst"}
             \/ (Cache = "warm" \/ ~ok \/ RemoteDestination) /\ hot' = hot \cup {"dst"}
    /\ pc' = "cache"
    /\ UNCHANGED <<exc, w, round, rest, wl, cases, abort, aborted, code, hit>>

\* Mutant: nothing is evicted in the first round.
FirstRound == round = 1 /\ ~Incremental /\ ~Verify

\* Nothing has read the source since it was generated.
FirstRead == round = 1 /\ Head(rest) = Head(Order[1]) /\ ~Incremental /\ ~Verify

Recorded(ok, evicted) == IF ok /\ evicted THEN "evict" ELSE "evict-failed"

\* _prepare_cache.
PrepareCache ==
    /\ pc = "cache"
    /\ \/ /\ Cache = "warm"
          /\ rep' = [rep EXCEPT !.cache = "warm"]
          /\ UNCHANGED hot
       \/ /\ Cache = "drop"
          /\ \/ rep' = [rep EXCEPT !.cache = "drop"] /\ hot' = {}
             \/ rep' = [rep EXCEPT !.cache = "evict-failed"] /\ UNCHANGED hot
       \/ /\ Cache = "evict" /\ FirstRead /\ wl.born
          /\ rep' = [rep EXCEPT !.cache = Recorded(TRUE, rep.evicted)]
          /\ UNCHANGED hot
       \/ /\ Cache = "evict" /\ ~(FirstRead /\ wl.born)
          /\ \E ok \in BOOLEAN :
                /\ rep' = [rep EXCEPT !.cache = Recorded(ok, rep.evicted)]
                /\ hot' = IF ok THEN hot \ {"src"} ELSE hot
    /\ pc' = "copy"
    /\ UNCHANGED <<exc, w, round, rest, tree, wl, cases, abort, aborted, code, hit>>

\* _timed: the tool runs; flushing what it wrote only adds a duration.
Copy ==
    /\ pc = "copy"
    /\ \E o \in Outcomes, s \in Walls :
          /\ tree' = [tree EXCEPT !["dst"] = CASE o = "right" -> tree["src"]
                                               [] o = "nothing" -> @
                                               [] OTHER -> Damaged]
          /\ LET exit == IF o \in {"right", "nothing"} THEN "ok" ELSE o IN
             /\ rep' = [rep EXCEPT !.code = exit, !.wall = s, !.hot = hot,
                                   !.right = (tree'["dst"] = tree["src"])]
             /\ pc' = IF Verify /\ exit = "ok" THEN "verify" ELSE "remove"
    /\ hot' = hot \cup {"src", "dst"}
    /\ UNCHANGED <<exc, w, round, rest, wl, cases, abort, aborted, code, hit>>

VerifyCopy ==
    /\ pc = "verify"
    /\ rep' = [rep EXCEPT !.verified = IF tree["dst"] = wl.sum THEN "yes" ELSE "no"]
    /\ pc' = "remove"
    /\ UNCHANGED <<exc, w, round, rest, tree, hot, wl, cases, abort, aborted, code, hit>>

\* The destination is removed on every path.
RemoveDestination ==
    /\ pc = "remove"
    /\ Removed("dst", IF exc = "none" THEN "record" ELSE Leave(exc))

\* If that fails, the run is to end once this repeat is recorded.
RemoveDestinationFails ==
    /\ pc = "remove"
    /\ Raise("step")
    /\ tree' = [tree EXCEPT !["dst"] = Damaged]
    /\ abort' = TRUE
    /\ pc' = IF exc = "none" THEN "record" ELSE Leave(exc)
    /\ UNCHANGED <<exc, w, round, rest, hot, wl, rep, cases, aborted, code>>

RemoveDestinationInterrupted ==
    /\ pc = "remove"
    /\ RaiseTo("interrupt", "dst", Leave("interrupt"))

-----------------------------------------------------------------------------
(* Recording a repeat.                                                     *)

\* The good repeats of a case, and their times.
Good(c) == {i \in DOMAIN c.reps : c.reps[i].code = "ok" /\ c.reps[i].verified # "no"}

GoodWalls(c) == [i \in Good(c) |-> c.reps[i].wall]

Planned(t) == Cardinality({r \in DOMAIN Order : \E k \in DOMAIN Order[r] : Order[r][k] = t})

\* Mutant: a case without a good repeat is hopeless, too.
HopelessUnmeasured(cs, t) ==
    /\ Cutoff > 0 /\ ~cs[t].error /\ ~cs[t].curtailed
    /\ \E u \in Tools \ {t} : Good(cs[u]) # {}
    /\ Len(cs[t].reps) < Planned(t)
    /\ Good(cs[t]) # {} =>
          \E u \in Tools \ {t} :
             Good(cs[u]) # {}
             /\ TwiceMedian(GoodWalls(cs[t])) >= Cutoff * TwiceMedian(GoodWalls(cs[u]))

\* _skip_if_hopeless.
Hopeless(cs, t) ==
    /\ Cutoff > 0 /\ ~cs[t].error /\ ~cs[t].curtailed
    /\ Good(cs[t]) # {}
    /\ TwiceMedian(GoodWalls(cs[t])) >= 2 * TooShort
    /\ Len(cs[t].reps) < Planned(t)
    /\ \E u \in Tools \ {t} :
          /\ Good(cs[u]) # {}
          /\ TwiceMedian(GoodWalls(cs[t])) >= Cutoff * TwiceMedian(GoodWalls(cs[u]))

\* The cases once tool t's repeat is recorded: a time-out is an error before the
\* slow cases are sorted out, another exit code after.
Judged(t) ==
    LET timed == [cases[w] EXCEPT ![t].reps = Append(@, rep),
                                  ![t].error = @ \/ rep.code = "late"]
        slow == [u \in Tools |-> [timed[u] EXCEPT !.curtailed = @ \/ Hopeless(timed, u)]]
    IN  [slow EXCEPT ![t].error = @ \/ rep.code # "ok"]

Record ==
    /\ pc = "record"
    /\ rest' = Tail(rest)
    /\ IF abort
       THEN /\ cases' = [cases EXCEPT ![w][Head(rest)].reps = Append(@, rep)]
            /\ exc' = "cleanup"
            /\ pc' = Leave("cleanup")
       ELSE /\ cases' = [cases EXCEPT ![w] = Judged(Head(rest))]
            /\ pc' = "pick"
            /\ UNCHANGED exc
    /\ UNCHANGED <<w, round, tree, hot, wl, rep, abort, aborted, code, hit>>

-----------------------------------------------------------------------------
(* Leaving a round, a workload and the run.                                *)

\* _restore_source: the changed source is removed ...
Restore ==
    /\ pc = "restore"
    /\ Removed("src", "rename") \/ RemovalRaises("src", "release")

\* Mutant: the snapshot is copied back and stays.
RenameKeeps ==
    /\ pc = "rename"
    /\ tree' = [tree EXCEPT !["src"] = tree["before"]]
    /\ pc' = IF exc = "none" THEN "round" ELSE "release"
    /\ hot' = hot \cup {"src"}
    /\ UNCHANGED <<exc, w, round, rest, wl, rep, cases, abort, aborted, code, hit>>

\* ... and the snapshot takes its place.
Rename ==
    /\ pc = "rename"
    /\ tree' = [tree EXCEPT !["src"] = tree["before"], !["before"] = Absent]
    /\ pc' = IF exc = "none" THEN "round" ELSE "release"
    /\ hot' = hot \cup {"src"}
    /\ UNCHANGED <<exc, w, round, rest, wl, rep, cases, abort, aborted, code, hit>>

RenameRaises ==
    /\ pc = "rename"
    /\ \E e \in Faults : Raise(e) /\ exc' = e
    /\ pc' = "release"
    /\ UNCHANGED <<w, round, rest, tree, hot, wl, rep, cases, abort, aborted, code>>

\* The fixture is removed, and the next workload begins.
Release ==
    /\ pc = "release"
    /\ tree' = IF Given THEN tree ELSE [tree EXCEPT !["src"] = Absent]
    /\ IF exc = "none" /\ w < Len(Plan)
       THEN w' = w + 1 /\ pc' = "prepare"
       ELSE pc' = "end" /\ UNCHANGED w
    /\ UNCHANGED <<exc, round, rest, hot, wl, rep, cases, abort, aborted, code, hit>>

ReleaseRaises == pc = "release" /\ ~Given /\ RemovalRaises("src", "end")

\* Mutant: an aborted run is judged by its cases only.
FailedCases ==
    \E v \in DOMAIN Plan, t \in Tools :
       \/ cases[v][t].error
       \/ \E i \in DOMAIN cases[v][t].reps : cases[v][t].reps[i].verified = "no"

Failed == aborted' \/ FailedCases

\* execute() catches CleanupFailed alone; cmd_run writes the result whatever
\* happened, and reports failure if anything failed.
End ==
    /\ pc = "end"
    /\ aborted' = (exc = "cleanup")
    /\ code' = IF exc \in {"none", "cleanup"} /\ ~Failed THEN 0 ELSE 1
    /\ pc' = "done"
    /\ UNCHANGED <<exc, w, round, rest, tree, hot, wl, rep, cases, abort, hit>>

Ended == pc = "done" /\ UNCHANGED <<pc, exc, w, round, rest, tree, hot, wl, rep, cases, abort,
                                    aborted, code, hit>>

Step ==
    \/ Generate \/ GenerateRaises \/ Checksum \/ ChecksumRaises \/ NextRound
    \/ Snapshot \/ SnapshotRaises \/ Change \/ ChangeRaises \/ Unsnap
    \/ Pick \/ RepeatRaises \/ MakeDestination \/ Prepopulate \/ PrepareCache
    \/ Copy \/ VerifyCopy
    \/ RemoveDestination \/ RemoveDestinationFails \/ RemoveDestinationInterrupted
    \/ Record \/ Restore \/ Rename \/ RenameRaises
    \/ Release \/ ReleaseRaises \/ End \/ Ended

Next == Step /\ UNCHANGED setup

Spec == Init /\ [][Next]_vars

-----------------------------------------------------------------------------
(* Properties.                                                             *)

Steps == {"prepare", "checksum", "round", "snapshot", "change", "unsnap", "pick", "mkdir",
          "fill", "cache", "copy", "verify", "remove", "record", "restore", "rename",
          "release", "end", "done"}

Reps == [code : {"none", "ok", "fail", "late"}, verified : {"none", "yes", "no"},
         cache : {"not-run", "warm", "drop", "evict", "evict-failed"}, wall : Walls \cup {0},
         evicted : BOOLEAN, right : BOOLEAN, hot : SUBSET Trees]

\* Every variable keeps its type; no case gets more repeats than it has rounds.
\* In no run of its own: what could go wrong in it shows in the others.
TypeOK ==
    /\ setup \in Setups
    /\ pc \in Steps
    /\ exc \in AllFaults \cup {"none", "cleanup"}
    /\ w \in DOMAIN Plan /\ round \in 0..Rounds
    /\ rest \in Seq(Tools)
    /\ tree \in [Trees -> Contents] /\ hot \subseteq Trees
    /\ wl \in [sum : Contents, born : BOOLEAN]
    /\ rep \in Reps
    /\ \A v \in DOMAIN Plan, t \in Tools :
          LET c == cases[v][t] IN
          /\ c.made \in BOOLEAN /\ c.error \in BOOLEAN /\ c.curtailed \in BOOLEAN
          /\ c.reps \in Seq(Reps) /\ Len(c.reps) <= Planned(t)
    /\ abort \in BOOLEAN /\ aborted \in BOOLEAN /\ code \in {0, 1}
    /\ hit \in Seq(Steps) /\ Len(hit) <= MaxFaults

\* Every tool of a round starts from the same trees: the round's own version of
\* the source and, at the destination, nothing or the generated contents.
FairComparison ==
    pc = "copy" =>
        /\ tree["src"] = IF Mode = "update" THEN round ELSE 0
        /\ tree["dst"] = IF Incremental THEN 0 ELSE Empty

AllReps == UNION {{cases[v][t].reps[i] : i \in DOMAIN cases[v][t].reps} :
                     v \in DOMAIN Plan, t \in Tools}

\* A verified repeat is a copy of the source as it was in its round, and a copy
\* that is one is never called wrong unless a harness step failed.
VerdictIsRight ==
    /\ \A r \in AllReps : r.verified = "yes" => r.right
    /\ hit = <<>> => \A r \in AllReps : r.verified = "no" => ~r.right

\* Whatever is left in the scratch directories is there because its own removal
\* (or the generation, which nothing cleans up after) failed or was interrupted.
LeftoversExplained ==
    pc = "done" =>
        /\ tree["dst"] # Absent => \E i \in DOMAIN hit : hit[i] = "remove"
        /\ tree["before"] # Absent => \E i \in DOMAIN hit : hit[i] \in {"unsnap", "restore", "rename"}
        /\ tree["src"] # Absent => Given \/ \E i \in DOMAIN hit : hit[i] \in {"prepare", "release"}

\* Exit code 0: every case was measured as often as planned, or was slow and
\* measured once, each repeat is a right copy, and nothing is left behind.
SuccessIsComplete ==
    pc = "done" /\ code = 0 =>
        /\ \A n \in Trees : tree[n] = IF n = "src" /\ Given THEN 0 ELSE Absent
        /\ \A v \in DOMAIN Plan, t \in Tools :
              Skipped(v, t) \/
              LET c == cases[v][t] IN
              /\ c.made
              /\ Len(c.reps) = Planned(t) \/ (c.curtailed /\ Len(c.reps) > 0)
              /\ \A i \in DOMAIN c.reps : c.reps[i].code = "ok" /\ (Verify => c.reps[i].right)

\* What a successful eviction may leave cached: the dirty pages of a remote
\* destination that was just filled.
Unsynced(v) == IF RemoteDestination /\ Plan[v] # "fresh" THEN {"dst"} ELSE {}

\* A repeat recorded with dropped caches read no tree from them, and one with
\* evicted caches not the source, nor the destination unless it is remote and was
\* filled for an update: there "evict" says that the pages were advised away.
ColdIsCold ==
    \A v \in DOMAIN Plan, t \in Tools : \A i \in DOMAIN cases[v][t].reps :
       LET r == cases[v][t].reps[i] IN
       r.code # "none" =>
           /\ r.cache = "drop" => r.hot = {}
           /\ r.cache = "evict" => r.hot \subseteq Unsynced(v)

\* A case is given up as slow only with a good repeat to show how slow, while
\* another tool's good repeats show what is possible.
CurtailedWasMeasured ==
    \A v \in DOMAIN Plan, t \in Tools :
        cases[v][t].curtailed =>
            /\ Good(cases[v][t]) # {}
            /\ \E u \in Tools \ {t} : Good(cases[v][u]) # {}

\* A run that stopped because a destination could not be removed says so.
AbortIsRecorded == pc = "done" /\ abort => aborted

=============================================================================
