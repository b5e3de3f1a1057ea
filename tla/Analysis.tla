------------------------------ MODULE Analysis ------------------------------
(***************************************************************************)
(* Cross-run analysis (src/syq_bench/analysis.py): the comparison grid of   *)
(* a report over any collection of result files, its overview by tool name, *)
(* the standings within a row, and the regression gate between two results. *)
(* A result file is named by the place of its contents in the order of      *)
(* comparison_rows: by `started`, then by the contents themselves.          *)
(***************************************************************************)
EXTENDS Naturals, Sequences, FiniteSets, Statistics

CONSTANTS
    Results,    \* the contents of result files, in the order above
    Workloads,
    Tools,
    Columns,    \* the tools in the order of a report's columns
    Cache,      \* the cache mode every result requests
    TooShort,   \* TOO_SHORT_S, in the unit of wall times
    MaxFiles    \* bound: how many files a report is given

\* NOISE is one part in NoiseParts.
NoiseParts == 20

\* A command that ended well took some time.
Repeats ==
    {r \in [wall : Nat, ok : BOOLEAN, verified : {"yes", "no", "none"}, cache : STRING] :
        r.ok => r.wall > 0}

\* A result: `series` stands for the scenario, the hosts, the file systems, the
\* modes and the sizes; `remote` says that an endpoint is; `tools` gives each
\* tool's build, the build of its remote end and its configuration.
ASSUME ConstantsOK ==
    /\ DOMAIN Results = 1..Len(Results)
    /\ \A i \in DOMAIN Results :
          /\ Results[i].started \in Nat
          /\ Results[i].remote \in BOOLEAN /\ Results[i].aborted \in BOOLEAN
          /\ DOMAIN Results[i].cases \subseteq Workloads \X Tools
          /\ \A k \in DOMAIN Results[i].cases : Results[i].cases[k] \in Seq(Repeats)
          /\ DOMAIN Results[i].tools = Tools
    /\ \A i, j \in DOMAIN Results : i < j => Results[i].started <= Results[j].started
    /\ DOMAIN Columns = 1..Cardinality(Tools) /\ {Columns[c] : c \in DOMAIN Columns} = Tools
    /\ TooShort \in Nat /\ MaxFiles \in Nat

VARIABLE files  \* the result files of a report, in the order they are named

-----------------------------------------------------------------------------
(* One case of one result.                                                 *)

\* The repeats that did not fail, and their wall times.
Good(reps) == {i \in DOMAIN reps : reps[i].ok /\ reps[i].verified # "no"}
Walls(reps) == [i \in Good(reps) |-> reps[i].wall]

\* summaries.
Summary(reps) ==
    LET good == Good(reps)
        walls == Walls(reps)
        measured == good # {}
    IN  [n |-> Size(walls),
         median2 |-> IF measured THEN TwiceMedian(walls) ELSE 0,
         shortest |-> IF measured THEN Shortest(walls) ELSE 0,
         longest |-> IF measured THEN Longest(walls) ELSE 0,
         tooShort |-> measured /\ TwiceMedian(walls) < 2 * TooShort,
         caches |-> {reps[i].cache : i \in good},
         verifiedAll |-> reps # <<>> /\ \A i \in DOMAIN reps : reps[i].ok /\ reps[i].verified = "yes"]

CaseOf(i, k) == Summary(Results[i].cases[k])

Measured(s) == s.n > 0

\* The ranges of two measured cases overlap, and are ranges at all.
Overlap(s, t) ==
    /\ s.n > 1 /\ t.n > 1
    /\ ~(s.shortest > t.longest \/ s.longest < t.shortest)

-----------------------------------------------------------------------------
(* The grid: the newest measurement of every system on every benchmark.    *)

Benchmark(i, k) == <<Results[i].series, k[1]>>

\* Mutant: the same local build is taken for the same system, whatever the
\* remote end was.
SystemLocally(i, k, n) ==
    LET tool == Results[i].tools[k[2]]
    IN  [tool |-> k[2], build |-> tool.build, config |-> tool.config,
         other |-> IF ~Results[i].remote THEN <<>> ELSE <<tool.other>>]

\* What a column stands for; n is the run's ordinal in the report.  A remote end
\* whose build was not recorded is like that of no other run.
System(i, k, n) ==
    LET tool == Results[i].tools[k[2]]
    IN  [tool |-> k[2], build |-> tool.build, config |-> tool.config,
         other |-> IF ~Results[i].remote THEN <<>>
                   ELSE IF tool.other = "unknown" THEN <<"unknown", n>>
                   ELSE <<tool.other>>]

\* Mutant: same-second results stay in the order of their files.
OrderedAsLoaded(fs) ==
    LET place == [p \in DOMAIN fs |-> (Len(fs) + 1) * Results[fs[p]].started + p]
    IN  [n \in DOMAIN fs |-> fs[Kth(place, n) % (Len(fs) + 1)]]

\* The files, sorted.
Ordered(fs) == [n \in DOMAIN fs |-> Kth(fs, n)]

\* The rows once the n-th run, result i, is entered.  An entry keeps the key,
\* hence the run_id, of its first run.
Updated(rows, i, n) ==
    LET cell == {<<Benchmark(i, k), System(i, k, n)>> : k \in DOMAIN Results[i].cases}
        old(x) == IF x \in DOMAIN rows THEN rows[x] ELSE [first |-> n, seen |-> 0]
    IN  [x \in DOMAIN rows \cup cell |->
            IF x \in cell
            THEN [run |-> i, ordinal |-> n, first |-> old(x).first, seen |-> old(x).seen + 1]
            ELSE rows[x]]

\* The rows after each of the runs in order.
After(order) ==
    LET after[n \in 0..Len(order)] == IF n = 0 THEN <<>> ELSE Updated(after[n - 1], order[n], n)
    IN  after

\* comparison_rows.
Rows(fs) == After(Ordered(fs))[Len(fs)]

-----------------------------------------------------------------------------
(* The overview: one entry for each tool.                                  *)

Started(m) == Results[m.run].started

\* Mutant: the system seen last for the first time, rather than measured last.
ReplacesNewcomer(m, old) == m.first > old.first

\* Going through the systems of a row in the order they were entered, a later
\* one replaces an earlier one if it is newer.
Replaces(m, old) ==
    \/ Started(m) > Started(old)
    \/ Started(m) = Started(old) /\ m.first < old.first

\* current_rows: the system shown for tool t on benchmark b.
Shown(rows, b, t) ==
    LET ofTool == {x \in DOMAIN rows : x[1] = b /\ x[2].tool = t}
    IN  CHOOSE x \in ofTool : \A y \in ofTool \ {x} : Replaces(rows[x], rows[y])

\* The columns of the tools with an entry.
Present(rows, b) == {c \in DOMAIN Columns : \E x \in DOMAIN rows : x[1] = b /\ x[2].tool = Columns[c]}

RowOf(rows, b) ==
    [c \in Present(rows, b) |-> CaseOf(rows[Shown(rows, b, Columns[c])].run, <<b[2], Columns[c]>>)]

-----------------------------------------------------------------------------
(* Standings within a row.                                                 *)

Unrankable(s) == ~Measured(s) \/ ~s.verifiedAll \/ s.caches # {Cache}

WithinNoise(s, fastest) == NoiseParts * s.median2 < (NoiseParts + 1) * fastest.median2

\* Mutant: a single measurement counts as a range.
LeadsAlone(s, fastest) ==
    \/ WithinNoise(s, fastest)
    \/ ~(s.shortest > fastest.longest \/ s.longest < fastest.shortest)

Leads(s, fastest) == WithinNoise(s, fastest) \/ Overlap(s, fastest)

Eligible(row) == {c \in DOMAIN row : ~Unrankable(row[c])}

\* The first of those with the least median.
Fastest(row) ==
    CHOOSE c \in Eligible(row) : \A d \in Eligible(row) \ {c} :
        \/ row[c].median2 < row[d].median2
        \/ row[c].median2 = row[d].median2 /\ c < d

\* standings: a row in which every result is too short has no ranking.
Standings(row) ==
    LET eligible == Eligible(row)
        first == Fastest(row)
        ranked == \E c \in eligible : ~row[c].tooShort
    IN  [c \in DOMAIN row |->
            IF c \notin eligible \/ ~ranked
            THEN [verdict |-> "n/a", leader |-> FALSE, fastest |-> FALSE]
            ELSE [leader |-> Leads(row[c], row[first]),
                  fastest |-> c = first,
                  verdict |-> IF Leads(row[c], row[first]) THEN "comparable"
                              ELSE IF row[c].median2 >= 2 * row[first].median2
                                   THEN "much-slower" ELSE "slower"]]

-----------------------------------------------------------------------------
(* The gate between two results.                                           *)

\* verdict, of two measured cases.
Verdict(a, b) ==
    IF \/ /\ NoiseParts * b.median2 < (NoiseParts + 1) * a.median2
          /\ (NoiseParts - 1) * a.median2 < NoiseParts * b.median2
       \/ Overlap(a, b)
    THEN "noise"
    ELSE IF b.median2 > a.median2 THEN "slower" ELSE "faster"

\* Mutant: only cases with a measurement on both sides can regress.
RegressedMeasured(a, b) == Measured(a) /\ Measured(b) /\ Verdict(a, b) = "slower"

\* regressed, of one case.
Regressed(a, b) ==
    Measured(a) /\ (~Measured(b) \/ ~b.verifiedAll \/ Verdict(a, b) = "slower")

Keys(i) == {[series |-> Results[i].series, workload |-> k[1], tool |-> k[2]] : k \in DOMAIN Results[i].cases}

OfKey(i, key) == CaseOf(i, <<key.workload, key.tool>>)

\* gate: the reasons why result j fails a comparison with result i, before it.
Gate(i, j) ==
    {<<"regressed", key>> : key \in {x \in Keys(i) \cap Keys(j) : Regressed(OfKey(i, x), OfKey(j, x))}}
    \cup {<<"missing", key>> : key \in {x \in Keys(i) \ Keys(j) : Measured(OfKey(i, x))}}
    \cup {<<"aborted">> : x \in {j} \cap {y \in DOMAIN Results : Results[y].aborted}}

-----------------------------------------------------------------------------
Init == files = <<>>

\* Another result file is named.
Name(i) == Len(files) < MaxFiles /\ files' = Append(files, i)

Next == \E i \in DOMAIN Results : Name(i)

Spec == Init /\ [][Next]_files

-----------------------------------------------------------------------------
(* Properties.                                                             *)

\* The runs, of those in order, with a case of tool t on benchmark b.
Having(order, b, t) ==
    {n \in DOMAIN order : \E k \in DOMAIN Results[order[n]].cases : k[2] = t /\ Benchmark(order[n], k) = b}

\* Every case of every file counts once: the grid's entries of a tool are together
\* as many as its runs, each shows the newest of its system's own runs, and runs
\* that may have used different remote builds are never taken together, so the
\* run an unknown one is attributed to is its own (comparison_rows, system).
GridIsHistory ==
    LET rows == Rows(files)
        order == Ordered(files)
        total(S) == Cardinality(UNION {{<<x, m>> : m \in 1..rows[x].seen} : x \in S})
    IN  /\ \A x \in DOMAIN rows :
             LET b == x[1] t == x[2].tool IN
             /\ total({y \in DOMAIN rows : y[1] = b /\ y[2].tool = t}) = Cardinality(Having(order, b, t))
             /\ \A n \in Having(order, b, t) :
                    n > rows[x].ordinal => System(order[n], <<b[2], t>>, n) # x[2]
        /\ \A n \in DOMAIN order : \A k \in DOMAIN Results[order[n]].cases :
             Results[order[n]].remote /\ Results[order[n]].tools[k[2]].other = "unknown"
             => \E x \in DOMAIN rows : /\ rows[x].first = n /\ rows[x].seen = 1
                                        /\ x[1] = Benchmark(order[n], k) /\ x[2].tool = k[2]

\* What the overview shows for a tool is as new as any of its runs, whichever of
\* its builds was measured first, last or again (current_rows).
OverviewIsNewest ==
    LET rows == Rows(files)
        order == Ordered(files)
    IN  \A x \in DOMAIN rows :
           LET shown == rows[Shown(rows, x[1], x[2].tool)] IN
           \A n \in Having(order, x[1], x[2].tool) : Started(shown) >= Results[order[n]].started

\* A report says the same whatever the order and the names of its files
\* (comparison_rows: "never from the private input path").
MovedFilesChangeNothing ==
    \A p \in [DOMAIN files -> DOMAIN files] :
        (\A m, n \in DOMAIN files : p[m] = p[n] => m = n)
        => Rows([n \in DOMAIN files |-> files[p[n]]]) = Rows(files)

\* The report and the gate judge alike: in a ranked row a result leads exactly if
\* the gate sees noise between the fastest one and it, and is slower exactly if
\* the gate says so; the fastest leads and no rankable result is faster
\* (standings, verdict).
RankingAgreesWithGate ==
    LET rows == Rows(files) IN
    \A b \in {x[1] : x \in DOMAIN rows} :
        LET row == RowOf(rows, b)
            standing == Standings(row)
        IN  \A f \in DOMAIN row : standing[f].fastest =>
                /\ standing[f].leader
                /\ \A c \in DOMAIN row : standing[c].verdict # "n/a" =>
                      /\ Verdict(row[f], row[c]) # "faster"
                      /\ standing[c].leader <=> Verdict(row[f], row[c]) = "noise"

\* Result j is nowhere better than result i: it has no further case, and each of
\* its repeats is as slow at least, and as bad.
NowhereBetter(j, i) ==
    LET a == Results[i] b == Results[j] IN
    /\ a.series = b.series
    /\ a.aborted => b.aborted
    /\ DOMAIN b.cases \subseteq DOMAIN a.cases
    /\ \A k \in DOMAIN b.cases :
          /\ Len(a.cases[k]) = Len(b.cases[k])
          /\ \A r \in DOMAIN b.cases[k] :
                /\ b.cases[k][r].wall >= a.cases[k][r].wall
                /\ b.cases[k][r].ok => a.cases[k][r].ok
                /\ b.cases[k][r].verified = "yes" => a.cases[k][r].verified = "yes"

\* A result that is nowhere better than one the gate refuses is refused as well:
\* failing or slowing repeats and dropping cases never helps (gate, regressed).
\* Both have as many repeats of a case; leaving repeats out may well help.
WorseNeverPasses ==
    \A m, o \in DOMAIN files :
        files[o] # files[m] /\ NowhereBetter(files[o], files[m]) =>
            \A n \in DOMAIN files : Gate(files[n], files[m]) # {} => Gate(files[n], files[o]) # {}
=============================================================================
