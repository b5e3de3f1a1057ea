---------------------------- MODULE RunnerProofs ----------------------------
(* For any tools, round order, plan, protocol and faults: every copy of a    *)
(* round starts from the same trees, what a run leaves behind is explained   *)
(* by a fault, what it records of a copy is true, and exit code 0 means that *)
(* everything was measured.  For any accepted specifications, the user's own *)
(* trees are neither changed nor removed, nothing is made in or around them, *)
(* generated trees have the sizes that were asked for, and what a run makes  *)
(* fits on its disks.                                                        *)
EXTENDS RunSpace, Counting

\* The source the tools of a round read.
Target == IF Mode = "update" THEN round ELSE 0

InRepeat == {"mkdir", "fill", "cache", "copy", "verify"}
InRound == InRepeat \cup {"pick", "remove", "record", "restore"}

\* Where the run is in its plan.
Place ==
    /\ setup \in Setups
    /\ w \in DOMAIN Plan /\ round \in 0..Rounds
    /\ pc \in {"snapshot", "change", "fill", "restore", "rename"} => Incremental
    /\ pc \in {"prepare", "checksum", "round", "snapshot", "change", "pick", "record"} \cup InRepeat
          => exc = "none"

\* The source: as generated between rounds, the round's own version in one.
Source ==
    /\ pc \in {"checksum", "round", "snapshot", "change"} => tree["src"] = 0
    /\ pc \in InRound => tree["src"] = Target

\* Its snapshot, from which the destination is filled and the source restored.
Basis ==
    pc \in InRound \cup {"change", "rename"} /\ Incremental => tree["before"] = 0

\* The destination.
Start ==
    /\ pc = "fill" => tree["dst"] = Empty
    /\ pc \in {"cache", "copy"} => tree["dst"] = IF Incremental THEN 0 ELSE Empty

Fair ==
    /\ DOMAIN tree = Trees /\ tree = [n \in Trees |-> tree[n]]
    /\ Place /\ Source /\ Basis /\ Start

LEMMA FairInit == Init => Fair
BY ConstantsOK DEF Init, Fair, Place, Source, Basis, Start, Trees, InRound, InRepeat, Rounds, Plan

\* Steps up to the first copy of a round.
LEMMA FairSetUp ==
    ASSUME Fair, setup' = setup,
           Generate \/ GenerateRaises \/ Checksum \/ ChecksumRaises \/ NextRound
           \/ Snapshot \/ SnapshotRaises \/ Change \/ ChangeRaises \/ Unsnap
    PROVE  Fair'
<1> USE DEF Fair, Place, Source, Basis, Start, Trees, InRound, InRepeat, Target,
            Mode, Plan, Incremental, RaiseTo, Raise, Removed, RemovalRaises, Rounds, AllFaults
<1>1. CASE Generate  BY <1>1 DEF Generate
<1>2. CASE GenerateRaises  BY <1>2, ConstantsOK DEF GenerateRaises
<1>3. CASE Checksum  BY <1>3, ConstantsOK DEF Checksum
<1>4. CASE ChecksumRaises  BY <1>4 DEF ChecksumRaises
<1>5. CASE NextRound
  <2>1. Rounds \in Nat
    BY ConstantsOK
  <2> QED BY <1>5, <2>1 DEF NextRound
<1>6. CASE Snapshot  BY <1>6 DEF Snapshot
<1>7. CASE SnapshotRaises  BY <1>7 DEF SnapshotRaises
<1>8. CASE Change  BY <1>8 DEF Change
<1>9. CASE ChangeRaises  BY <1>9 DEF ChangeRaises
<1>10. CASE Unsnap  BY <1>10 DEF Unsnap
<1> QED BY <1>1, <1>2, <1>3, <1>4, <1>5, <1>6, <1>7, <1>8, <1>9, <1>10

\* Steps of a repeat.
LEMMA FairRepeat ==
    ASSUME Fair, setup' = setup,
           Pick \/ RepeatRaises \/ MakeDestination \/ Prepopulate \/ PrepareCache
           \/ Copy \/ VerifyCopy
           \/ RemoveDestination \/ RemoveDestinationFails
           \/ RemoveDestinationInterrupted \/ Record
    PROVE  Fair'
<1> USE DEF Fair, Place, Source, Basis, Start, Trees, InRound, InRepeat, Target,
            Mode, Plan, Incremental, RaiseTo, Raise, Removed, Leave, Rounds
<1>1. CASE Pick  BY <1>1 DEF Pick
<1>2. CASE RepeatRaises  BY <1>2 DEF RepeatRaises
<1>3. CASE MakeDestination  BY <1>3 DEF MakeDestination
<1>4. CASE Prepopulate  BY <1>4 DEF Prepopulate
<1>5. CASE PrepareCache
  <2>1. /\ pc = "cache" /\ pc' = "copy"
        /\ UNCHANGED <<exc, w, round, tree>>
    BY <1>5 DEF PrepareCache
  <2> QED BY <2>1
<1>6. CASE Copy
  <2>1. /\ pc = "copy" /\ pc' \in {"verify", "remove"}
        /\ \E x : tree' = [tree EXCEPT !["dst"] = x]
        /\ UNCHANGED <<exc, w, round>>
    BY <1>6 DEF Copy
  <2> QED BY <2>1
<1>7. CASE VerifyCopy  BY <1>7 DEF VerifyCopy
<1>8. CASE RemoveDestination  BY <1>8 DEF RemoveDestination
<1>9. CASE RemoveDestinationFails  BY <1>9 DEF RemoveDestinationFails
<1>10. CASE RemoveDestinationInterrupted
  BY <1>10 DEF RemoveDestinationInterrupted
<1>11. CASE Record
  <2>1. /\ pc = "record" /\ UNCHANGED <<w, round, tree>>
        /\ \/ pc' = Leave("cleanup") /\ exc' = "cleanup"
           \/ pc' = "pick" /\ UNCHANGED exc
    BY <1>11 DEF Record
  <2> QED BY <2>1
<1> QED BY <1>1, <1>2, <1>3, <1>4, <1>5, <1>6, <1>7, <1>8, <1>9, <1>10, <1>11

\* Steps that leave a round, a workload or the run.
LEMMA FairLeave ==
    ASSUME Fair, setup' = setup,
           Restore \/ Rename \/ RenameRaises \/ Release \/ ReleaseRaises \/ End \/ Ended
    PROVE  Fair'
<1> USE DEF Fair, Place, Source, Basis, Start, Trees, InRound, InRepeat, Target,
            Mode, Plan, Incremental, RaiseTo, Raise, Removed, RemovalRaises, Rounds
<1>1. CASE Restore  BY <1>1 DEF Restore
<1>2. CASE Rename  BY <1>2 DEF Rename
<1>3. CASE RenameRaises  BY <1>3 DEF RenameRaises
<1>4. CASE Release
  <2>1. /\ pc = "release" /\ UNCHANGED <<exc, round>>
        /\ tree' = tree \/ tree' = [tree EXCEPT !["src"] = Absent]
        /\ \/ exc = "none" /\ w < Len(Plan) /\ w' = w + 1 /\ pc' = "prepare"
           \/ pc' = "end" /\ UNCHANGED w
    BY <1>4 DEF Release
  <2>2. w' \in DOMAIN Plan
    <3>1. Plan \in Seq(Modes)
      BY ConstantsOK DEF Fair, Place, Plan
    <3>2. DOMAIN Plan = 1..Len(Plan) /\ Len(Plan) \in Nat
      BY <3>1
    <3> QED BY <2>1, <3>2
  <2> QED BY <2>1, <2>2
<1>5. CASE ReleaseRaises  BY <1>5 DEF ReleaseRaises
<1>6. CASE End  BY <1>6 DEF End
<1>7. CASE Ended  BY <1>7 DEF Ended
<1> QED BY <1>1, <1>2, <1>3, <1>4, <1>5, <1>6, <1>7

LEMMA FairStutter == Fair /\ UNCHANGED vars => Fair'
BY DEF Fair, Place, Source, Basis, Start, Trees, Target, Mode, Plan, Incremental, vars

\* Every tool of a round copies the round's own version of the source, into an
\* empty destination or one with the generated contents, whatever failed before
\* (_repeat, _snapshot_and_change and _restore_source).
THEOREM RoundsAreFair == Spec => []FairComparison
<1>1. Fair /\ [Next]_vars => Fair'
  BY FairSetUp, FairRepeat, FairLeave, FairStutter DEF Next, Step
<1>2. Fair => FairComparison
  BY DEF Fair, FairComparison, Place, Source, Start, InRound, InRepeat, Target
<1> QED BY FairInit, <1>1, <1>2, PTL DEF Spec

-----------------------------------------------------------------------------
(* What is left behind.                                                    *)

\* A fault hit one of the steps S.
Hit(S) == \E i \in DOMAIN hit : hit[i] \in S

DstExplained ==
    tree["dst"] # Absent =>
        pc \in {"fill", "cache", "copy", "verify", "remove"} \/ Hit({"remove"})

BeforeExplained ==
    tree["before"] # Absent =>
        \/ pc \in InRound \cup {"change", "unsnap", "rename"} /\ Incremental
        \/ Hit({"unsnap", "restore", "rename"})

SrcExplained ==
    tree["src"] # Absent =>
        pc \notin {"end", "done"} \/ Given \/ Hit({"prepare", "release"})

Explained ==
    /\ pc \in Steps /\ hit \in Seq(Steps)
    /\ pc = "unsnap" => Incremental
    /\ DstExplained /\ BeforeExplained /\ SrcExplained

\* The history of faults only grows, by the step that raises.
LEMMA HitsStay ==
    ASSUME hit \in Seq(Steps), pc \in Steps,
           hit' = hit \/ hit' = Append(hit, pc)
    PROVE  /\ hit' \in Seq(Steps)
           /\ \A S : Hit(S) => Hit(S)'
           /\ hit' = Append(hit, pc) => \A S : pc \in S => Hit(S)'
<1>1. CASE hit' = hit
  <2>1. hit' # Append(hit, pc)
    BY <1>1
  <2> QED BY <1>1, <2>1 DEF Hit
<1>2. CASE hit' = Append(hit, pc)
  <2>1. /\ hit' \in Seq(Steps)
        /\ DOMAIN hit' = 1..(Len(hit) + 1) /\ DOMAIN hit = 1..Len(hit)
        /\ Len(hit) \in Nat
        /\ \A i \in DOMAIN hit : hit'[i] = hit[i]
        /\ hit'[Len(hit) + 1] = pc
    BY <1>2
  <2> QED BY <2>1 DEF Hit
<1> QED BY <1>1, <1>2

LEMMA ExplainedInit == Init => Explained
BY DEF Init, Explained, DstExplained, BeforeExplained, SrcExplained, Hit, Trees, Steps

LEMMA ExplainedSetUp ==
    ASSUME Fair, Explained, setup' = setup,
           Generate \/ GenerateRaises \/ Checksum \/ ChecksumRaises \/ NextRound
           \/ Snapshot \/ SnapshotRaises \/ Change \/ ChangeRaises \/ Unsnap
    PROVE  Explained'
<1> USE DEF Explained, DstExplained, BeforeExplained, SrcExplained, Fair, Place, Trees,
            InRound, InRepeat, Steps, Mode, Plan, Incremental, Given, RaiseTo, Raise, Removed, RemovalRaises
<1>0. hit' = hit \/ hit' = Append(hit, pc)
  BY DEF Generate, GenerateRaises, Checksum, ChecksumRaises, NextRound,
         Snapshot, SnapshotRaises, Change, ChangeRaises, Unsnap
<1>1. CASE Generate  BY <1>1, <1>0, HitsStay DEF Generate
<1>2. CASE GenerateRaises  BY <1>2, <1>0, HitsStay DEF GenerateRaises
<1>3. CASE Checksum  BY <1>3, <1>0, HitsStay DEF Checksum
<1>4. CASE ChecksumRaises  BY <1>4, <1>0, HitsStay DEF ChecksumRaises
<1>5. CASE NextRound  BY <1>5, <1>0, HitsStay DEF NextRound
<1>6. CASE Snapshot  BY <1>6, <1>0, HitsStay DEF Snapshot
<1>7. CASE SnapshotRaises  BY <1>7, <1>0, HitsStay DEF SnapshotRaises
<1>8. CASE Change  BY <1>8, <1>0, HitsStay DEF Change
<1>9. CASE ChangeRaises  BY <1>9, <1>0, HitsStay DEF ChangeRaises
<1>10. CASE Unsnap  BY <1>10, <1>0, HitsStay DEF Unsnap
<1> QED BY <1>1, <1>2, <1>3, <1>4, <1>5, <1>6, <1>7, <1>8, <1>9, <1>10

LEMMA ExplainedRepeat ==
    ASSUME Fair, Explained, setup' = setup,
           Pick \/ RepeatRaises \/ MakeDestination \/ Prepopulate \/ PrepareCache
           \/ Copy \/ VerifyCopy
           \/ RemoveDestination \/ RemoveDestinationFails
           \/ RemoveDestinationInterrupted \/ Record
    PROVE  Explained'
<1> USE DEF Explained, DstExplained, BeforeExplained, SrcExplained, Fair, Place, Trees,
            InRound, InRepeat, Steps, Mode, Plan, Incremental, Given, RaiseTo, Raise, Removed, Leave
<1>0. hit' = hit \/ hit' = Append(hit, pc)
  BY DEF Pick, RepeatRaises, MakeDestination, Prepopulate, PrepareCache,
         Copy, VerifyCopy, RemoveDestination, RemoveDestinationFails,
         RemoveDestinationInterrupted, Record
<1>1. CASE Pick  BY <1>1, <1>0, HitsStay DEF Pick
<1>2. CASE RepeatRaises  BY <1>2, <1>0, HitsStay DEF RepeatRaises
<1>3. CASE MakeDestination  BY <1>3, <1>0, HitsStay DEF MakeDestination
<1>4. CASE Prepopulate  BY <1>4, <1>0, HitsStay DEF Prepopulate
<1>5. CASE PrepareCache
  <2>1. /\ pc = "cache" /\ pc' = "copy"
        /\ UNCHANGED <<exc, w, round, tree>>
    BY <1>5 DEF PrepareCache
  <2> QED BY <2>1, <1>0, HitsStay
<1>6. CASE Copy
  <2>1. /\ pc = "copy" /\ pc' \in {"verify", "remove"}
        /\ \E x : tree' = [tree EXCEPT !["dst"] = x]
        /\ UNCHANGED <<exc, w, round>>
    BY <1>6 DEF Copy
  <2> QED BY <2>1, <1>0, HitsStay
<1>7. CASE VerifyCopy  BY <1>7, <1>0, HitsStay DEF VerifyCopy
<1>8. CASE RemoveDestination  BY <1>8, <1>0, HitsStay DEF RemoveDestination
<1>9. CASE RemoveDestinationFails  BY <1>9, <1>0, HitsStay DEF RemoveDestinationFails
<1>10. CASE RemoveDestinationInterrupted
  BY <1>10, <1>0, HitsStay DEF RemoveDestinationInterrupted
<1>11. CASE Record
  <2>1. /\ pc = "record" /\ UNCHANGED <<w, round, tree>>
        /\ \/ pc' = Leave("cleanup") /\ exc' = "cleanup"
           \/ pc' = "pick" /\ UNCHANGED exc
    BY <1>11 DEF Record
  <2> QED BY <2>1, <1>0, HitsStay
<1> QED BY <1>1, <1>2, <1>3, <1>4, <1>5, <1>6, <1>7, <1>8, <1>9, <1>10, <1>11

LEMMA ExplainedLeave ==
    ASSUME Fair, Explained, setup' = setup,
           Restore \/ Rename \/ RenameRaises \/ Release \/ ReleaseRaises \/ End \/ Ended
    PROVE  Explained'
<1> USE DEF Explained, DstExplained, BeforeExplained, SrcExplained, Fair, Place, Trees,
            InRound, InRepeat, Steps, Mode, Plan, Incremental, Given, RaiseTo, Raise, Removed, RemovalRaises
<1>0. hit' = hit \/ hit' = Append(hit, pc)
  BY DEF Restore, Rename, RenameRaises, Release, ReleaseRaises, End, Ended
<1>1. CASE Restore  BY <1>1, <1>0, HitsStay DEF Restore
<1>2. CASE Rename  BY <1>2, <1>0, HitsStay DEF Rename
<1>3. CASE RenameRaises  BY <1>3, <1>0, HitsStay DEF RenameRaises
<1>4. CASE Release  BY <1>4, <1>0, HitsStay DEF Release
<1>5. CASE ReleaseRaises  BY <1>5, <1>0, HitsStay DEF ReleaseRaises
<1>6. CASE End  BY <1>6, <1>0, HitsStay DEF End
<1>7. CASE Ended  BY <1>7, <1>0, HitsStay DEF Ended
<1> QED BY <1>1, <1>2, <1>3, <1>4, <1>5, <1>6, <1>7

LEMMA ExplainedStutter == Explained /\ UNCHANGED vars => Explained'
BY DEF Explained, DstExplained, BeforeExplained, SrcExplained, Hit, Mode, Plan, Incremental, Given, vars

\* However a run ends, a destination, a snapshot or a fixture is left only if
\* its own removal failed or was interrupted, or its generation did.
THEOREM LeftoversAreExplained == Spec => []LeftoversExplained
<1>1. Init => Fair /\ Explained
  BY FairInit, ExplainedInit
<1>2. Fair /\ Explained /\ [Next]_vars => (Fair /\ Explained)'
  BY FairSetUp, FairRepeat, FairLeave, FairStutter,
     ExplainedSetUp, ExplainedRepeat, ExplainedLeave, ExplainedStutter DEF Next, Step
<1>3. Explained => LeftoversExplained
  BY DEF Explained, DstExplained, BeforeExplained, SrcExplained, Hit, LeftoversExplained,
         InRound, InRepeat
<1> QED BY <1>1, <1>2, <1>3, PTL DEF Spec

-----------------------------------------------------------------------------
(* What is recorded.                                                       *)

\* What is kept of a tool in a workload.
Case == [made : BOOLEAN, reps : Seq(Reps), error : BOOLEAN, curtailed : BOOLEAN]

\* The part of the types that the proofs below need.
Types ==
    /\ exc \in AllFaults \cup {"none", "cleanup"}
    /\ hot \subseteq {"src", "dst"} /\ wl.born \in BOOLEAN
    /\ wl = [sum |-> wl.sum, born |-> wl.born]
    /\ rep \in Reps
    /\ cases \in [DOMAIN Plan -> [Tools -> Case]]
    /\ abort \in BOOLEAN

\* The tools of the round that are not left.
Past == Len(Order[round]) - Len(rest)

\* The steps of a round.
InRow == InRepeat \cup {"snapshot", "change", "pick", "remove", "record"}

\* The rest of the row is the tail of this round's order; it is used up when
\* the round ends without an exception.
Row ==
    /\ rest \in Seq(Tools)
    /\ pc \in InRow \cup {"restore", "rename"} =>
          /\ round > 0 /\ Len(rest) <= Len(Order[round])
          /\ \A j \in 1..Len(rest) : rest[j] = Order[round][Past + j]
    /\ pc \in InRepeat \cup {"remove", "record"} => rest # <<>>
    /\ pc \in {"snapshot", "change"} => Past = 0
    /\ pc \in {"restore", "rename"} /\ exc = "none" => rest = <<>>
    /\ pc = "round" /\ round > 0 => rest = <<>>

\* While tools copy, the reference checksum is that of the source they read.
Sum ==
    Verify =>
        /\ pc \in InRound => wl.sum = Target
        /\ pc \in {"round", "snapshot", "change", "rename"} /\ Mode # "update" => wl.sum = 0

\* The verdict of a repeat says what the copy was.
RightRep(r) ==
    /\ r.verified = "yes" => r.right
    /\ hit = <<>> /\ r.verified = "no" => ~r.right

\* What is known of the caches if they are recorded as prepared.
Prepared(v, cache, pages) ==
    /\ cache = "drop" => pages = {}
    /\ cache = "evict" => pages \subseteq Unsynced(v)

\* A repeat of workload v recorded as cold was.
ColdRep(v, r) == r.code # "none" => Prepared(v, r.cache, r.hot)

\* The repeat under way: no verdict before the copy, and then one about the
\* destination as it still is.
Current ==
    /\ pc \in {"mkdir", "fill", "cache", "copy"} => rep.verified = "none" /\ rep.code = "none"
    /\ pc = "verify" => Verify /\ rep.code = "ok" /\ (rep.right <=> tree["dst"] = tree["src"])
    /\ pc \in {"remove", "record"} /\ exc = "none" /\ Verify /\ rep.code = "ok" => rep.verified # "none"
    /\ pc \in {"verify", "remove", "record"} => ColdRep(w, rep)
    /\ RightRep(rep)

\* Nothing has read the generated source yet.
Unread ==
    /\ wl.born /\ ~Verify /\ ~Incremental
    /\ \/ pc = "checksum"
       \/ pc = "round" /\ round = 0
       \/ pc \in {"pick", "mkdir", "cache"} /\ round = 1 /\ Past = 0

\* What is known of the page cache when the caches are prepared and when the
\* tool starts.
Cached ==
    /\ pc = "cache" /\ rep.evicted /\ Cache # "warm" => "dst" \notin hot \/ "dst" \in Unsynced(w)
    /\ pc = "copy" => Prepared(w, rep.cache, hot)
    /\ Unread => "src" \notin hot

\* The repeats recorded so far.
Shown ==
    \A v \in DOMAIN Plan, t \in Tools : \A i \in DOMAIN cases[v][t].reps :
        RightRep(cases[v][t].reps[i]) /\ ColdRep(v, cases[v][t].reps[i])

\* Without an exception, no tree outlives its step.
Tidy ==
    /\ Given /\ pc # "prepare" => tree["src"] = 0
    /\ pc = "unsnap" => exc # "none"
    /\ exc = "none" =>
        /\ abort => pc = "record"
        /\ tree["dst"] # Absent => pc \in {"fill", "cache", "copy", "verify", "remove"} \/ abort
        /\ tree["before"] # Absent => pc \in InRound \cup {"change", "rename"} /\ Incremental
        /\ tree["src"] # Absent => pc \notin {"end", "done"} \/ Given

\* The rounds in which tool t has had its turn.
Seen(t) ==
    {r \in 1..round : \E j \in DOMAIN Order[r] : Order[r][j] = t /\ (r = round => j <= Past)}

\* Nothing more is to be measured of tool t in workload v.
Closed(v, t) == cases[v][t].error \/ cases[v][t].curtailed \/ Skipped(v, t)

\* A case that is over, and one up to date with its workload under way.
Complete(v, t) == cases[v][t].made /\ (Closed(v, t) \/ Len(cases[v][t].reps) = Planned(t))

UpToDate(t) == cases[w][t].made /\ (Closed(w, t) \/ Len(cases[w][t].reps) = Cardinality(Seen(t)))

\* Every case has a repeat for every turn of its tool, or is closed.
Counted ==
    exc = "none" =>
        /\ \A v \in 1..(w - 1), t \in Tools : Complete(v, t)
        /\ pc \in {"release", "end", "done"} => \A t \in Tools : Complete(w, t)
        /\ pc \in InRow \cup {"round", "restore", "rename"} => \A t \in Tools : UpToDate(t)
        /\ pc \in {"end", "done"} => w = Len(Plan)

\* A repeat that is no good shows in its case.
Audited ==
    exc = "none" =>
        \A v \in DOMAIN Plan, t \in Tools : \A i \in DOMAIN cases[v][t].reps :
            /\ cases[v][t].reps[i].code # "ok" => cases[v][t].error
            /\ Verify /\ cases[v][t].reps[i].code = "ok" => cases[v][t].reps[i].verified # "none"

\* Exit code 0 is for runs without an exception or a failed case.
Passed == pc = "done" /\ code = 0 => exc = "none" /\ ~FailedCases

\* Tool u has a good repeat among cs, and another tool has.
Compared(cs, u) == Good(cs[u]) # {} /\ \E x \in Tools \ {u} : Good(cs[x]) # {}

-----------------------------------------------------------------------------
(* What the steps do to it.                                                *)

\* What recording tool t's repeat does to tool u's case (_skip_if_hopeless).
LEMMA JudgedIs ==
    ASSUME cases[w] \in [Tools -> Case], rep \in Reps, NEW t \in Tools, NEW u \in Tools
    PROVE  /\ Judged(t) \in [Tools -> Case]
           /\ Judged(t)[u].made = cases[w][u].made
           /\ Judged(t)[u].reps = IF u = t THEN Append(cases[w][u].reps, rep) ELSE cases[w][u].reps
           /\ Judged(t)[u].error <=> cases[w][u].error \/ (u = t /\ rep.code # "ok")
           /\ cases[w][u].curtailed => Judged(t)[u].curtailed
           /\ Judged(t)[u].curtailed => cases[w][u].curtailed \/ Compared(Judged(t), u)
<1> DEFINE timed == [cases[w] EXCEPT ![t].reps = Append(@, rep),
                                     ![t].error = @ \/ rep.code = "late"]
           slow == [x \in Tools |-> [timed[x] EXCEPT !.curtailed = @ \/ Hopeless(timed, x)]]
           late == rep.code = "late"
           bad == rep.code # "ok"
<1>1. timed \in [Tools -> Case]
  <2>1. Append(cases[w][t].reps, rep) \in Seq(Reps)
    BY DEF Case
  <2>2. (cases[w][t].error \/ late) \in BOOLEAN
    OBVIOUS
  <2> QED BY <2>1, <2>2 DEF Case
<1>2. \A x \in Tools : /\ timed[x].made = cases[w][x].made
                       /\ timed[x].curtailed = cases[w][x].curtailed
                       /\ timed[x].reps = IF x = t THEN Append(cases[w][x].reps, rep)
                                          ELSE cases[w][x].reps
                       /\ x # t => timed[x].error = cases[w][x].error
  BY DEF Case
<1>3. timed[t].error = (cases[w][t].error \/ late)
  BY Zenon DEF Case
<1> HIDE DEF timed
<1>4. slow \in [Tools -> Case]
  <2>1. ASSUME NEW x \in Tools PROVE [timed[x] EXCEPT !.curtailed = @ \/ Hopeless(timed, x)] \in Case
    <3> DEFINE now == timed[x].curtailed \/ Hopeless(timed, x)
    <3>1. now \in BOOLEAN
      OBVIOUS
    <3> HIDE DEF now
    <3>2. [timed[x] EXCEPT !.curtailed = now] \in Case
      BY <1>1, <3>1 DEF Case
    <3> QED BY <3>2 DEF now
  <2> QED BY <2>1
<1>5. \A x \in Tools : /\ slow[x].made = timed[x].made /\ slow[x].reps = timed[x].reps
                       /\ slow[x].error = timed[x].error
  BY <1>1 DEF Case
<1>6. \A x \in Tools : slow[x].curtailed = (timed[x].curtailed \/ Hopeless(timed, x))
  BY <1>1, Zenon DEF Case
<1> HIDE DEF slow
<1>7. Judged(t) = [slow EXCEPT ![t].error = @ \/ rep.code # "ok"]
  BY Zenon DEF Judged, slow, timed
<1>8. Judged(t) \in [Tools -> Case]
  <2>1. (slow[t].error \/ bad) \in BOOLEAN
    OBVIOUS
  <2> QED BY <1>4, <1>7, <2>1 DEF Case
<1>9. \A x \in Tools : /\ Judged(t)[x].made = slow[x].made /\ Judged(t)[x].reps = slow[x].reps
                       /\ Judged(t)[x].curtailed = slow[x].curtailed
                       /\ x # t => Judged(t)[x].error = slow[x].error
  BY <1>4, <1>7 DEF Case
<1>10. Judged(t)[t].error = (slow[t].error \/ rep.code # "ok")
  BY <1>4, <1>7, Zenon DEF Case
<1>11. \A x \in Tools : Good(Judged(t)[x]) = Good(timed[x])
  BY <1>5, <1>9 DEF Good
<1>12. Hopeless(timed, u) => Compared(timed, u)
  BY Zenon DEF Hopeless, Compared
<1>13. Judged(t)[u].error <=> cases[w][u].error \/ (u = t /\ rep.code # "ok")
  <2>1. CASE u = t
    <3>1. Judged(t)[t].error <=> (cases[w][t].error \/ rep.code = "late") \/ rep.code # "ok"
      BY <1>3, <1>5, <1>10, Zenon
    <3>2. rep.code = "late" => rep.code # "ok"
      OBVIOUS
    <3> QED BY <2>1, <3>1, <3>2, Zenon
  <2>2. CASE u # t
    BY <1>2, <1>5, <1>9, <2>2, Zenon
  <2> QED BY <2>1, <2>2
<1>14. Judged(t)[u].curtailed <=> cases[w][u].curtailed \/ Hopeless(timed, u)
  BY <1>2, <1>6, <1>9, Zenon
<1>15. /\ Judged(t)[u].made = cases[w][u].made
       /\ Judged(t)[u].reps = IF u = t THEN Append(cases[w][u].reps, rep) ELSE cases[w][u].reps
  BY <1>2, <1>5, <1>9
<1>16. Hopeless(timed, u) => Compared(Judged(t), u)
  BY <1>11, <1>12 DEF Compared
<1> QED BY <1>8, <1>13, <1>14, <1>15, <1>16, Zenon
\* Which steps change what.
LEMMA Frames ==
    ASSUME Step
    PROVE  /\ cases' = cases \/ Checksum \/ RepeatRaises \/ Record
           /\ rep' = rep \/ Pick \/ RepeatRaises \/ Prepopulate \/ PrepareCache \/ Copy \/ VerifyCopy
           /\ rest' = rest \/ NextRound \/ Pick \/ Record
           /\ wl' = wl \/ Generate \/ Checksum \/ Change
           /\ hot' = hot \/ Generate \/ Checksum \/ Snapshot \/ MakeDestination \/ Prepopulate
                         \/ PrepareCache \/ Copy \/ Rename
           /\ round' = round \/ Checksum \/ NextRound
           /\ w' = w \/ Release
           /\ exc' = exc \/ exc' \in {"step", "interrupt", "cleanup"}
           /\ hit' = hit \/ hit' = Append(hit, pc)
           /\ abort' = abort \/ RemoveDestinationFails
           /\ code' = code \/ End
<1> USE DEF Raise, RaiseTo, RemovalRaises, Removed
<1>f. Faults \subseteq {"step", "interrupt"}
  BY ConstantsOK DEF AllFaults
<1>1. CASE Generate \/ GenerateRaises \/ Checksum \/ ChecksumRaises \/ NextRound
  BY <1>f, <1>1 DEF Generate, GenerateRaises, Checksum, ChecksumRaises, NextRound
<1>2. CASE Snapshot \/ SnapshotRaises \/ Change \/ ChangeRaises \/ Unsnap
  BY <1>f, <1>2 DEF Snapshot, SnapshotRaises, Change, ChangeRaises, Unsnap
<1>3. CASE Pick \/ RepeatRaises \/ MakeDestination \/ Prepopulate \/ PrepareCache \/ Copy \/ VerifyCopy
  BY <1>f, <1>3 DEF Pick, RepeatRaises, MakeDestination, Prepopulate, PrepareCache, Copy, VerifyCopy
<1>4. CASE RemoveDestination \/ RemoveDestinationFails \/ RemoveDestinationInterrupted \/ Record
  BY <1>f, <1>4 DEF RemoveDestination, RemoveDestinationFails, RemoveDestinationInterrupted, Record
<1>5. CASE Restore \/ Rename \/ RenameRaises \/ Release \/ ReleaseRaises \/ End \/ Ended
  BY <1>f, <1>5 DEF Restore, Rename, RenameRaises, Release, ReleaseRaises, End, Ended
<1> QED BY <1>1, <1>2, <1>3, <1>4, <1>5 DEF Step

\* The current tool is one.
LEMMA HeadIsTool ==
    ASSUME Row, rest # <<>>
    PROVE  Head(rest) \in Tools /\ Tail(rest) \in Seq(Tools)
BY DEF Row

\* Types holds at the start, and every step keeps it.
LEMMA TypesInit == Init => Types
<1> SUFFICES ASSUME Init PROVE Types
  OBVIOUS
<1>1. NewRep \in Reps /\ NewCase \in Case
  BY DEF NewRep, NewCase, Reps, Case
<1> QED BY <1>1 DEF Init, Types

LEMMA TypesNext ==
    ASSUME Fair, Types, Row, Step, setup' = setup
    PROVE  Types'
<1> USE DEF Plan
<1>w. w \in DOMAIN Plan
  BY DEF Fair, Place
<1>1. exc' \in AllFaults \cup {"none", "cleanup"} /\ abort' \in BOOLEAN
  BY Frames DEF Types, AllFaults, RemoveDestinationFails
<1>2. hot' \subseteq {"src", "dst"}
  BY Frames DEF Types, Generate, Checksum, Snapshot, MakeDestination, Prepopulate, PrepareCache,
                Copy, Rename
<1>3. wl'.born \in BOOLEAN /\ wl' = [sum |-> wl'.sum, born |-> wl'.born]
  <2>1. CASE Generate
    BY <2>1 DEF Generate
  <2>2. CASE Checksum
    BY <2>2 DEF Checksum, Types
  <2>3. CASE Change
    BY <2>3 DEF Change, Types
  <2> QED BY <2>1, <2>2, <2>3, Frames DEF Types
<1>4. rep' \in Reps
  <2>1. CASE Pick
    BY <2>1 DEF Pick, NewRep, Reps
  <2>2. CASE RepeatRaises
    BY <2>2 DEF RepeatRaises, Types, Reps
  <2>3. CASE Prepopulate
    BY <2>3 DEF Prepopulate, Types, Reps
  <2>4. CASE PrepareCache
    BY <2>4 DEF PrepareCache, Types, Reps, Recorded
  <2>5. CASE Copy
    <3>1. PICK o \in Outcomes, s \in Walls :
             LET exit == IF o \in {"right", "nothing"} THEN "ok" ELSE o IN
             rep' = [rep EXCEPT !.code = exit, !.wall = s, !.hot = hot,
                                !.right = (tree'["dst"] = tree["src"])]
      BY <2>5, Zenon DEF Copy
    <3> DEFINE exit == IF o \in {"right", "nothing"} THEN "ok" ELSE o
               right == tree'["dst"] = tree["src"]
    <3>2. exit \in {"ok", "fail", "late"} /\ right \in BOOLEAN
      BY ConstantsOK DEF AllOutcomes
    <3>3. rep' = [rep EXCEPT !.code = exit, !.wall = s, !.hot = hot, !.right = right]
      BY <3>1, Zenon
    <3> HIDE DEF exit, right
    <3> QED BY <3>2, <3>3 DEF Types, Reps, Trees
  <2>6. CASE VerifyCopy
    BY <2>6 DEF VerifyCopy, Types, Reps
  <2> QED BY <2>1, <2>2, <2>3, <2>4, <2>5, <2>6, Frames DEF Types
<1>5. cases' \in [DOMAIN Plan -> [Tools -> Case]]
  <2>0. cases[w] \in [Tools -> Case] /\ rep \in Reps
    BY <1>w DEF Types
  <2>1. CASE Checksum
    <3>1. [NewCase EXCEPT !.made = TRUE] \in Case
      <4>1. NewCase \in Case
        BY DEF NewCase, Case
      <4> QED BY <4>1 DEF Case
    <3> QED BY <1>w, <2>1, <3>1 DEF Checksum, Types
  <2>2. CASE RepeatRaises
    <3>1. Head(rest) \in Tools
      BY <2>2, HeadIsTool DEF RepeatRaises, Row, InRepeat
    <3>2. [cases[w][Head(rest)] EXCEPT !.error = TRUE] \in Case
      BY <2>0, <3>1 DEF Case
    <3> DEFINE broken == [cases[w][Head(rest)] EXCEPT !.error = TRUE]
               row == [cases[w] EXCEPT ![Head(rest)] = broken]
    <3>3. cases' = cases \/ cases' = [cases EXCEPT ![w] = row]
      BY <2>2 DEF RepeatRaises
    <3>4. row \in [Tools -> Case]
      <4>1. broken \in Case
        BY <3>2
      <4> HIDE DEF broken
      <4> QED BY <2>0, <3>1, <4>1
    <3> HIDE DEF row
    <3> QED BY <1>w, <3>3, <3>4 DEF Types
  <2>3. CASE Record
    <3>1. Head(rest) \in Tools
      BY <2>3, HeadIsTool DEF Record, Row, InRepeat
    <3>2. Judged(Head(rest)) \in [Tools -> Case]
      BY <2>0, <3>1, JudgedIs
    <3>3. [cases[w][Head(rest)] EXCEPT !.reps = Append(@, rep)] \in Case
      <4>1. Append(cases[w][Head(rest)].reps, rep) \in Seq(Reps)
        BY <2>0, <3>1 DEF Case
      <4> QED BY <2>0, <3>1, <4>1 DEF Case
    <3>4. \/ cases' = [cases EXCEPT ![w][Head(rest)].reps = Append(@, rep)]
          \/ cases' = [cases EXCEPT ![w] = Judged(Head(rest))]
      BY <2>3 DEF Record
    <3>5. CASE cases' = [cases EXCEPT ![w] = Judged(Head(rest))]
      BY <1>w, <3>2, <3>5 DEF Types
    <3>6. CASE cases' = [cases EXCEPT ![w][Head(rest)].reps = Append(@, rep)]
      BY <1>w, <2>0, <3>1, <3>3, <3>6 DEF Types
    <3> QED BY <3>4, <3>5, <3>6
  <2> QED BY <2>1, <2>2, <2>3, Frames DEF Types
<1> QED BY <1>1, <1>2, <1>3, <1>4, <1>5 DEF Types

\* The same of Row ...
LEMMA RowInit == Init => Row
BY DEF Init, Row, InRow, InRepeat

LEMMA RowNext ==
    ASSUME Fair, Row, Step, setup' = setup
    PROVE  Row'
<1> USE DEF InRow, InRepeat, Past, Raise, RaiseTo, RemovalRaises, Removed, Leave, Mode, Plan, Incremental
<1>o. /\ Rounds \in Nat /\ \A r \in 1..Rounds : Order[r] \in Seq(Tools) /\ Len(Order[r]) \in Nat
      /\ round \in 0..Rounds
  BY ConstantsOK DEF Rounds, Fair, Place
<1>r. rest \in Seq(Tools) /\ Len(rest) \in Nat
  BY DEF Row
<1>1. ASSUME rest' = rest, round' = round,
             pc' \in InRow \cup {"restore", "rename"} => pc \in InRow \cup {"restore", "rename"},
             pc' \in InRepeat \cup {"remove", "record"} => pc \in InRepeat \cup {"remove", "record"},
             pc' = "change" => pc = "snapshot", pc' # "snapshot",
             pc' \in {"restore", "rename"} /\ exc' = "none" => pc \in {"restore", "rename"} /\ exc = "none",
             pc' = "round" => pc = "rename" /\ exc = "none"
      PROVE  Row'
  BY <1>1 DEF Row
<1>2. CASE NextRound
  <2>1. CASE round < Rounds
    BY <1>o, <1>2, <2>1 DEF NextRound, Row
  <2>2. CASE ~(round < Rounds)
    BY <1>o, <1>2, <2>2 DEF NextRound, Row
  <2> QED BY <2>1, <2>2
<1>3. CASE Pick
  <2>1. PICK n \in 0..Len(rest) :
           /\ n < Len(rest) => Open(rest[n + 1])
           /\ rest' = SubSeq(rest, n + 1, Len(rest))
           /\ pc' = IF n = Len(rest) THEN Leave(exc) ELSE "mkdir"
    BY <1>3 DEF Pick
  <2>2. /\ rest' \in Seq(Tools) /\ Len(rest') = Len(rest) - n
        /\ \A j \in 1..Len(rest') : rest'[j] = rest[n + j]
    BY <1>r, <2>1
  <2>3. exc = "none" /\ exc' = exc /\ round' = round /\ pc = "pick"
    BY <1>3 DEF Pick, Fair, Place
  <2>4. /\ round > 0 /\ Len(rest) <= Len(Order[round])
        /\ \A j \in 1..Len(rest) : rest[j] = Order[round][Len(Order[round]) - Len(rest) + j]
    BY <2>3 DEF Row
  <2>5. /\ Len(rest') <= Len(Order[round])
        /\ \A j \in 1..Len(rest') : rest'[j] = Order[round][Len(Order[round]) - Len(rest') + j]
    <3>1. /\ Len(Order[round]) \in Nat /\ n \in Nat /\ n <= Len(rest)
          /\ Len(rest') = Len(rest) - n /\ Len(rest) <= Len(Order[round])
      BY <1>o, <1>r, <2>1, <2>2, <2>4
    <3>2. ASSUME NEW j \in 1..Len(rest')
          PROVE  rest'[j] = Order[round][Len(Order[round]) - Len(rest') + j]
      <4>1. n + j \in 1..Len(rest)
        BY <1>r, <3>1
      <4>2. rest'[j] = Order[round][Len(Order[round]) - Len(rest) + (n + j)]
        BY <2>2, <2>4, <4>1
      <4>3. Len(Order[round]) - Len(rest) + (n + j) = Len(Order[round]) - Len(rest') + j
        <5>1. PICK a, b, c \in Int : a = Len(Order[round]) /\ b = Len(rest) /\ c = Len(rest')
          BY <1>r, <3>1
        <5>2. c = b - n /\ n \in Int /\ j \in Int
          BY <3>1, <5>1
        <5>3. a - b + (n + j) = a - c + j
          BY <5>2
        <5> QED BY <5>1, <5>3, Zenon
      <4> QED BY <4>2, <4>3
    <3>3. Len(rest') <= Len(Order[round])
      BY <1>r, <3>1
    <3> QED BY <3>2, <3>3
  <2>6. n < Len(rest) => rest' # <<>>
    BY <1>r, <2>2
  <2>7. n = Len(rest) => rest' = <<>>
    BY <1>r, <2>2
  <2>8. CASE n = Len(rest)
    <3>1. pc' \in {"restore", "round"}
      BY <2>1, <2>3, <2>8
    <3> QED BY <2>2, <2>3, <2>4, <2>5, <2>7, <2>8, <3>1 DEF Row
  <2>9. CASE n < Len(rest)
    <3>1. pc' = "mkdir"
      BY <1>r, <2>1, <2>9
    <3> QED BY <2>2, <2>3, <2>4, <2>5, <2>6, <2>9, <3>1 DEF Row
  <2> QED BY <1>r, <2>1, <2>8, <2>9
<1>4. CASE Record
  <2>1. /\ pc = "record" /\ rest' = Tail(rest) /\ round' = round
        /\ \/ pc' = Leave("cleanup") /\ exc' = "cleanup"
           \/ pc' = "pick"
    BY <1>4 DEF Record
  <2>2. /\ rest' \in Seq(Tools) /\ Len(rest') = Len(rest) - 1
        /\ \A j \in 1..Len(rest') : rest'[j] = rest[j + 1]
    BY <1>r, <2>1 DEF Row
  <2>3. /\ round > 0 /\ Len(rest) <= Len(Order[round])
        /\ \A j \in 1..Len(rest) : rest[j] = Order[round][Len(Order[round]) - Len(rest) + j]
    BY <2>1 DEF Row
  <2>4. /\ Len(rest') <= Len(Order[round])
        /\ \A j \in 1..Len(rest') : rest'[j] = Order[round][Len(Order[round]) - Len(rest') + j]
    BY <1>o, <1>r, <2>2, <2>3
  <2> QED BY <2>1, <2>2, <2>3, <2>4 DEF Row
<1>5. CASE Generate \/ GenerateRaises \/ Checksum \/ ChecksumRaises
  \* No round is under way.
  BY <1>r, <1>5 DEF Generate, GenerateRaises, Checksum, ChecksumRaises, Row
<1>6. CASE Snapshot \/ SnapshotRaises \/ Change \/ ChangeRaises \/ Unsnap
  BY <1>1, <1>6 DEF Snapshot, SnapshotRaises, Change, ChangeRaises, Unsnap
<1>7. CASE RepeatRaises
  BY <1>1, <1>7 DEF RepeatRaises
<1>8. CASE MakeDestination
  BY <1>1, <1>8 DEF MakeDestination
<1>9. CASE Prepopulate \/ VerifyCopy
  BY <1>1, <1>9 DEF Prepopulate, VerifyCopy
<1>10. CASE PrepareCache
  BY <1>1, <1>10 DEF PrepareCache
<1>11. CASE Copy
  <2>1. pc = "copy" /\ pc' \in {"verify", "remove"} /\ UNCHANGED <<rest, round, exc>>
    BY <1>11 DEF Copy
  <2> QED BY <1>1, <2>1
<1>12. CASE RemoveDestination \/ RemoveDestinationFails
  BY <1>1, <1>12 DEF RemoveDestination, RemoveDestinationFails
<1>13. CASE RemoveDestinationInterrupted
  BY <1>1, <1>13 DEF RemoveDestinationInterrupted
<1>14. CASE Restore
  BY <1>1, <1>14, ConstantsOK DEF Restore, AllFaults
<1>15. CASE Rename \/ RenameRaises \/ Release \/ ReleaseRaises \/ End \/ Ended
  BY <1>1, <1>15 DEF Rename, RenameRaises, Release, ReleaseRaises, End, Ended
<1> QED BY <1>2, <1>3, <1>4, <1>5, <1>6, <1>7, <1>8, <1>9, <1>10, <1>11, <1>12, <1>13, <1>14, <1>15
        DEF Step

\* ... of Sum ...
LEMMA SumNext ==
    ASSUME Fair, Types, Sum, Step, setup' = setup
    PROVE  Sum'
<1> USE DEF InRound, InRepeat, Target, Mode, Plan, Incremental, Verify, Sum
<1>1. CASE Generate \/ GenerateRaises
  BY <1>1 DEF Generate, GenerateRaises, Raise
<1>2. CASE Checksum
  <2>1. tree["src"] = 0 /\ pc' = "round"
    BY <1>2 DEF Checksum, Fair, Source
  <2>2. Verify => wl'.sum = tree["src"]
    BY <1>2 DEF Checksum, Types
  <2> QED BY <2>1, <2>2
<1>3. CASE NextRound
  BY <1>3 DEF NextRound
<1>4. CASE Change
  <2>1. tree["src"] = 0 /\ pc = "change" /\ pc' = "pick" /\ UNCHANGED <<w, round>>
    BY <1>4 DEF Change, Fair, Source
  <2>2. CASE Mode = "update"
    <3>1. wl' = [wl EXCEPT !.sum = IF Verify THEN round ELSE @]
      BY <1>4, <2>1, <2>2 DEF Change
    <3>2. Verify => wl'.sum = round
      BY <3>1 DEF Types
    <3> QED BY <2>1, <2>2, <3>2
  <2>3. CASE Mode # "update"
    <3>1. wl' = wl
      BY <1>4, <2>3 DEF Change
    <3> QED BY <2>1, <2>3, <3>1
  <2> QED BY <2>2, <2>3
<1>5. ASSUME UNCHANGED <<wl, round, w>>, pc' \in InRound => pc \in InRound,
             pc' \in {"round", "snapshot", "change", "rename"} =>
                pc \in InRound \cup {"round", "snapshot", "change", "rename"}
      PROVE  Sum'
  BY <1>5
<1> USE DEF Raise, RaiseTo, RemovalRaises, Removed, Leave
<1>6. CASE Snapshot \/ SnapshotRaises \/ ChangeRaises \/ Unsnap \/ ChecksumRaises
  BY <1>5, <1>6 DEF Snapshot, SnapshotRaises, ChangeRaises, Unsnap, ChecksumRaises
<1>7. CASE Pick \/ RepeatRaises \/ MakeDestination \/ Prepopulate
  BY <1>5, <1>7 DEF Pick, RepeatRaises, MakeDestination, Prepopulate
<1>8. CASE PrepareCache \/ Copy \/ VerifyCopy
  <2>1. pc \in InRound /\ pc' \in InRound /\ UNCHANGED <<wl, round, w>>
    BY <1>8 DEF PrepareCache, Copy, VerifyCopy
  <2> QED BY <1>5, <2>1
<1>9. CASE RemoveDestination \/ RemoveDestinationFails \/ RemoveDestinationInterrupted
  BY <1>5, <1>9 DEF RemoveDestination, RemoveDestinationFails, RemoveDestinationInterrupted
<1>10. CASE Record
  <2>1. pc \in InRound /\ pc' \in InRound \cup {"round", "release"} /\ UNCHANGED <<wl, round, w>>
    BY <1>10 DEF Record
  <2> QED BY <1>5, <2>1
<1>11. CASE Restore \/ Rename \/ RenameRaises \/ End \/ Ended
  BY <1>5, <1>11 DEF Restore, Rename, RenameRaises, End, Ended
<1>12. CASE Release \/ ReleaseRaises
  BY <1>12 DEF Release, ReleaseRaises
<1> QED BY <1>1, <1>2, <1>3, <1>4, <1>6, <1>7, <1>8, <1>9, <1>10, <1>11, <1>12 DEF Step

\* ... of Current ...
LEMMA CurrentNext ==
    ASSUME Fair, Types, Sum, Cached, Current, Step, setup' = setup, hit \in Seq(Steps)
    PROVE  Current'
<1> USE DEF InRepeat, Leave, Raise, RaiseTo, RemovalRaises, Removed, Verify, Cache
<1>h. hit' = <<>> => hit = <<>>
  <2>1. hit' = Append(hit, pc) => hit' # <<>>
    OBVIOUS
  <2> QED BY <2>1, Frames
<1>1. ASSUME rep' = rep, UNCHANGED exc, pc' = "record" => pc = "remove" /\ UNCHANGED w,
             pc' \notin {"mkdir", "fill", "cache", "copy", "verify", "remove"}
      PROVE  Current'
  BY <1>1, <1>h DEF Current, RightRep, ColdRep, Prepared, Unsynced, Plan, RemoteDestination
<1>2. ASSUME rep' = rep, exc' # "none" \/ pc' \notin {"remove", "record"},
             pc' \in {"remove", "record"} => pc \in InRepeat \cup {"remove"} /\ UNCHANGED w,
             pc' \notin {"mkdir", "fill", "cache", "copy", "verify"}
      PROVE  Current'
  <2>1. pc' \in {"verify", "remove", "record"} => ColdRep(w, rep)'
    BY <1>2 DEF Current, ColdRep, Prepared, Unsynced, Plan, RemoteDestination
  <2> QED BY <1>2, <1>h, <2>1 DEF Current, RightRep
<1>3. CASE Pick
  <2>1. /\ rep'.code = "none" /\ rep'.verified = "none"
        /\ rep'.cache = "not-run"
    BY <1>3 DEF Pick, NewRep
  <2>2. pc' \in {"round", "release", "restore", "mkdir"}
    BY <1>3 DEF Pick
  <2> QED BY <2>1, <2>2 DEF Current, RightRep, ColdRep
<1>4. CASE RepeatRaises
  <2>1. pc' = "remove" /\ hit' # <<>> /\ pc \in InRepeat /\ UNCHANGED w
    BY <1>4 DEF RepeatRaises
  <2>2. CASE rep' = rep /\ exc' = "interrupt"
    BY <1>2, <2>1, <2>2
  <2>3. CASE /\ exc' = exc
             /\ rep' = [rep EXCEPT !.verified = IF rep.code = "ok" THEN "no" ELSE "none"]
    <3>1. /\ rep'.verified = IF rep.code = "ok" THEN "no" ELSE "none"
          /\ rep'.code = rep.code /\ rep'.cache = rep.cache /\ rep'.hot = rep.hot
      BY <2>3 DEF Types, Reps
    <3>2. ColdRep(w, rep)'
      BY <2>1, <3>1 DEF Current, ColdRep, Prepared, Unsynced, Plan, RemoteDestination
    <3> QED BY <2>1, <3>1, <3>2 DEF Current, RightRep
  <2> QED BY <1>4, <2>2, <2>3 DEF RepeatRaises
<1>5. CASE MakeDestination
  BY <1>5, <1>h DEF MakeDestination, Current, RightRep, ColdRep
<1>6. CASE Prepopulate
  <2>1. PICK ok \in BOOLEAN : rep' = [rep EXCEPT !.evicted = ok]
    BY <1>6 DEF Prepopulate
  <2>2. rep'.code = rep.code /\ rep'.verified = rep.verified
    BY <2>1 DEF Types, Reps
  <2> QED BY <1>6, <2>2 DEF Prepopulate, Current, RightRep, ColdRep
<1>7. CASE PrepareCache
  <2>1. \E c : rep' = [rep EXCEPT !.cache = c]
    BY <1>7 DEF PrepareCache
  <2>2. rep'.code = rep.code /\ rep'.verified = rep.verified
    BY <2>1 DEF Types, Reps
  <2>3. pc = "cache" /\ pc' = "copy"
    BY <1>7 DEF PrepareCache
  <2> QED BY <2>2, <2>3 DEF Current, RightRep, ColdRep
<1>8. CASE Copy
  <2>1. PICK o \in Outcomes, s \in Walls :
           LET exit == IF o \in {"right", "nothing"} THEN "ok" ELSE o IN
           /\ rep' = [rep EXCEPT !.code = exit, !.wall = s, !.hot = hot,
                                 !.right = (tree'["dst"] = tree["src"])]
           /\ pc' = IF Verify /\ exit = "ok" THEN "verify" ELSE "remove"
    BY <1>8, Zenon DEF Copy
  <2> DEFINE exit == IF o \in {"right", "nothing"} THEN "ok" ELSE o
             right == tree'["dst"] = tree["src"]
  <2>2. rep' = [rep EXCEPT !.code = exit, !.wall = s, !.hot = hot, !.right = right]
    BY <2>1, Zenon
  <2>3. pc' = IF Verify /\ exit = "ok" THEN "verify" ELSE "remove"
    BY <2>1, Zenon
  <2>4. tree'["src"] = tree["src"] /\ pc = "copy" /\ UNCHANGED w
    BY <1>8 DEF Copy, Fair, Trees
  <2>5. right \in BOOLEAN
    OBVIOUS
  <2>6. Prepared(w, rep.cache, hot)
    BY <2>4 DEF Cached
  <2>7. right <=> tree'["dst"] = tree'["src"]
    BY <2>4
  <2> HIDE DEF exit, right
  <2>8. /\ rep'.code = exit /\ rep'.hot = hot /\ rep'.right = right
        /\ rep'.verified = rep.verified /\ rep'.cache = rep.cache
    BY <2>2, <2>5 DEF Types, Reps
  <2>9. rep'.verified = "none"
    BY <2>4, <2>8 DEF Current
  <2>10. RightRep(rep)' /\ ColdRep(w, rep)'
    BY <2>4, <2>6, <2>8, <2>9 DEF RightRep, ColdRep, Prepared, Unsynced, Plan, RemoteDestination
  <2>11. pc' = "verify" => Verify /\ rep'.code = "ok"
    BY <2>3, <2>8
  <2>12. rep'.right <=> tree'["dst"] = tree'["src"]
    BY <2>7, <2>8
  <2>13. pc' \in {"verify", "remove"} /\ (pc' = "remove" => ~(Verify /\ rep'.code = "ok"))
    BY <2>3, <2>8
  <2> QED BY <2>10, <2>11, <2>12, <2>13 DEF Current
<1>9. CASE VerifyCopy
  <2>1. tree["src"] = wl.sum /\ Verify /\ (rep.right <=> tree["dst"] = tree["src"])
    BY <1>9 DEF VerifyCopy, Current, Sum, Fair, Source, InRound
  <2>2. /\ rep'.verified = IF tree["dst"] = wl.sum THEN "yes" ELSE "no"
        /\ rep'.code = rep.code /\ rep'.cache = rep.cache /\ rep'.hot = rep.hot
        /\ rep'.right = rep.right /\ pc = "verify" /\ UNCHANGED w
    BY <1>9 DEF VerifyCopy, Types, Reps
  <2>3. rep'.verified = "yes" <=> rep'.right
    BY <2>1, <2>2
  <2>4. RightRep(rep)' /\ ColdRep(w, rep)'
    BY <2>2, <2>3 DEF Current, RightRep, ColdRep, Prepared, Unsynced, Plan, RemoteDestination
  <2> QED BY <1>9, <2>2, <2>4 DEF VerifyCopy, Current
<1>10. CASE RemoveDestination \/ RemoveDestinationFails
  BY <1>1, <1>2, <1>10 DEF RemoveDestination, RemoveDestinationFails
<1>11. CASE RemoveDestinationInterrupted
  BY <1>2, <1>11 DEF RemoveDestinationInterrupted
<1>12. CASE Record
  <2>1. rep' = rep /\ pc' \in {"round", "release", "restore", "pick"}
    BY <1>12 DEF Record
  <2> QED BY <1>2, <2>1
<1>13. CASE Generate \/ GenerateRaises \/ Checksum \/ ChecksumRaises \/ NextRound
  BY <1>2, <1>13 DEF Generate, GenerateRaises, Checksum, ChecksumRaises, NextRound
<1>14. CASE Snapshot \/ SnapshotRaises \/ Change \/ ChangeRaises \/ Unsnap
  BY <1>2, <1>14 DEF Snapshot, SnapshotRaises, Change, ChangeRaises, Unsnap
<1>15. CASE Restore \/ Rename \/ RenameRaises \/ Release \/ ReleaseRaises \/ End
  BY <1>2, <1>15 DEF Restore, Rename, RenameRaises, Release, ReleaseRaises, End
<1>16. CASE Ended
  BY <1>1, <1>16 DEF Ended
<1> QED BY <1>3, <1>4, <1>5, <1>6, <1>7, <1>8, <1>9, <1>10, <1>11, <1>12, <1>13, <1>14, <1>15, <1>16
        DEF Step

\* A round's first copy is the one of its first tool.
LEMMA FirstIsFirst ==
    ASSUME Fair, Row, pc = "cache", FirstRead
    PROVE  round = 1 /\ Past = 0
<1>1. /\ round = 1 /\ Head(rest) = Head(Order[1]) /\ rest # <<>> /\ rest \in Seq(Tools)
      /\ Len(rest) <= Len(Order[1])
      /\ \A j \in 1..Len(rest) : rest[j] = Order[1][Past + j]
  BY DEF FirstRead, Row, InRow, InRepeat
<1>2. IsInjective(Order[1]) /\ Order[1] \in Seq(Tools) /\ Len(Order[1]) \in Nat /\ Len(rest) \in Nat
  <2>1. Order \in Seq(Seq(Tools)) /\ Len(Order) > 0
    BY ConstantsOK
  <2>2. 1 \in DOMAIN Order /\ Order[1] \in Seq(Tools)
    BY <2>1
  <2>3. IsInjective(Order[1])
    BY <2>2, ConstantsOK DEF ProtocolOK
  <2> QED BY <1>1, <2>2, <2>3
<1>3. Len(rest) > 0 /\ Head(rest) = rest[1]
  BY <1>1
<1>4. Past \in 0..(Len(Order[1]) - 1)
  BY <1>1, <1>2, <1>3 DEF Past
<1>5. Order[1][Past + 1] = Order[1][1]
  <2>1. rest[1] = Order[1][Past + 1]
    BY <1>1, <1>2, <1>3
  <2>2. Head(Order[1]) = Order[1][1]
    BY <1>1, <1>2, <1>3
  <2> QED BY <1>1, <1>3, <2>1, <2>2
<1>6. Past + 1 \in DOMAIN Order[1] /\ 1 \in DOMAIN Order[1]
  BY <1>2, <1>4
<1>7. Past + 1 = 1
  BY <1>2, <1>5, <1>6 DEF IsInjective
<1> QED BY <1>1, <1>4, <1>7

\* ... and of Cached.
LEMMA CachedNext ==
    ASSUME Fair, Types, Row, Cached, Step, setup' = setup
    PROVE  Cached'
<1> USE DEF InRow, InRepeat, Leave, Raise, RaiseTo, RemovalRaises, Removed, Verify, Cache, Mode, Plan, Incremental,
            RemoteDestination, Unsynced
<1>o. /\ Rounds \in Nat /\ \A r \in 1..Rounds : Order[r] \in Seq(Tools) /\ Len(Order[r]) \in Nat
      /\ round \in 0..Rounds /\ rest \in Seq(Tools) /\ Len(rest) \in Nat
  <2>1. Order \in Seq(Seq(Tools))
    BY ConstantsOK
  <2> QED BY <2>1 DEF Rounds, Fair, Place, Row
<1>1. ASSUME pc' \notin {"checksum", "round", "pick", "mkdir", "cache", "copy"}
      PROVE  Cached'
  BY <1>1 DEF Cached, Unread
<1>2. CASE Generate
  <2>1. pc' = "checksum" /\ (wl'.born => hot' = {})
    BY <1>2 DEF Generate
  <2> QED BY <2>1 DEF Cached, Unread
<1>3. CASE Checksum
  <2>1. /\ pc = "checksum" /\ pc' = "round" /\ w' = w
        /\ ~Verify => UNCHANGED <<wl, hot>>
    BY <1>3 DEF Checksum
  <2> QED BY <2>1 DEF Cached, Unread
<1>4. CASE NextRound
  <2>1. /\ pc = "round" /\ UNCHANGED <<w, wl, hot>>
        /\ \/ pc' \in {"snapshot", "release"}
           \/ pc' = "pick" /\ round' = round + 1 /\ round \in Nat
    BY <1>4, <1>o DEF NextRound
  <2>2. CASE pc' \in {"snapshot", "release"}
    BY <1>1, <2>2
  <2>3. CASE pc' = "pick"
    BY <2>1, <2>3 DEF Cached, Unread
  <2> QED BY <2>1, <2>2, <2>3
<1>5. CASE Pick
  <2>1. PICK n \in 0..Len(rest) :
           /\ rest' = SubSeq(rest, n + 1, Len(rest))
           /\ pc' = IF n = Len(rest) THEN Leave(exc) ELSE "mkdir"
    BY <1>5 DEF Pick
  <2>2. pc = "pick" /\ round' = round /\ UNCHANGED <<w, wl, hot>> /\ round > 0
    BY <1>5 DEF Pick, Row
  <2>3. Len(rest') = Len(rest) - n
    BY <1>o, <2>1
  <2>4. Past' = Past + n /\ Past \in Nat
    <3>1. PICK a, b, c \in Nat : a = Len(Order[round]) /\ b = Len(rest) /\ c = Len(rest') /\ b <= a
      BY <1>o, <2>2, <2>3 DEF Row
    <3>2. c = b - n
      BY <2>3, <3>1
    <3>3. Past = a - b /\ Past' = a - c
      BY <2>2, <3>1 DEF Past
    <3> QED BY <3>1, <3>2, <3>3
  <2>5. Past' = 0 => Past = 0
    BY <2>1, <2>4
  <2>6. pc' \in {"mkdir", "round", "restore", "release"} /\ (pc' = "round" => round' # 0)
    BY <2>1, <2>2, <1>o
  <2> QED BY <2>2, <2>5, <2>6 DEF Cached, Unread
<1>6. CASE MakeDestination
  <2>1. /\ pc = "mkdir" /\ hot' = hot \ {"dst"} /\ pc' \in {"fill", "cache"}
        /\ UNCHANGED <<w, round, rest, wl>>
    BY <1>6 DEF MakeDestination
  <2>2. Past' = Past
    BY <2>1 DEF Past
  <2> QED BY <2>1, <2>2 DEF Cached, Unread
<1>7. CASE Prepopulate
  <2>1. PICK ok \in BOOLEAN :
           /\ rep' = [rep EXCEPT !.evicted = ok]
           /\ \/ Cache # "warm" /\ ok /\ hot' = hot \ {"dst"}
              \/ (Cache = "warm" \/ ~ok \/ RemoteDestination) /\ hot' = hot \cup {"dst"}
    BY <1>7 DEF Prepopulate
  <2>2. rep'.evicted = ok
    BY <2>1 DEF Types, Reps
  <2>3. pc = "fill" /\ pc' = "cache" /\ w' = w /\ Incremental
    BY <1>7 DEF Prepopulate, Fair, Place
  <2> QED BY <2>1, <2>2, <2>3 DEF Cached, Unread, Fair, Place
<1>8. CASE PrepareCache
  <2>0. pc = "cache" /\ pc' = "copy" /\ UNCHANGED <<w, round, rest, wl>>
    BY <1>8 DEF PrepareCache
  <2>1. ASSUME Prepared(w, rep'.cache, hot')
        PROVE  Cached'
    BY <2>0, <2>1 DEF Cached, Prepared, Unread
  <2>2. CASE Cache = "warm"
    <3>1. rep'.cache = "warm"
      BY <1>8, <2>2 DEF PrepareCache, Types, Reps
    <3> QED BY <2>1, <3>1 DEF Prepared
  <2>3. CASE Cache = "drop"
    <3>1. (rep'.cache = "drop" /\ hot' = {}) \/ rep'.cache = "evict-failed"
      BY <1>8, <2>3 DEF PrepareCache, Types, Reps
    <3> QED BY <2>1, <3>1 DEF Prepared
  <2>4. CASE Cache = "evict" /\ FirstRead /\ wl.born
    <3>1. rep' = [rep EXCEPT !.cache = Recorded(TRUE, rep.evicted)] /\ hot' = hot
      BY <1>8, <2>4 DEF PrepareCache
    <3>2. rep'.cache = "evict" => rep.evicted
      BY <3>1 DEF Recorded, Types, Reps
    <3>3. Unread
      BY <2>0, <2>4, FirstIsFirst DEF Unread, FirstRead
    <3>4. rep.evicted => hot \subseteq Unsynced(w)
      <4>1. hot \subseteq {"src", "dst"}
        BY DEF Types
      <4> QED BY <2>0, <2>4, <3>3, <4>1 DEF Cached
    <3>5. rep'.cache # "drop"
      BY <3>1 DEF Recorded, Types, Reps
    <3> QED BY <2>1, <3>1, <3>2, <3>4, <3>5 DEF Prepared
  <2>5. CASE Cache = "evict" /\ ~(FirstRead /\ wl.born)
    <3>1. PICK ok \in BOOLEAN :
             /\ rep' = [rep EXCEPT !.cache = Recorded(ok, rep.evicted)]
             /\ hot' = IF ok THEN hot \ {"src"} ELSE hot
      BY <1>8, <2>5 DEF PrepareCache
    <3>2. rep'.cache # "drop" /\ (rep'.cache = "evict" => ok /\ rep.evicted)
      BY <3>1 DEF Recorded, Types, Reps
    <3>3. rep.evicted => "dst" \notin hot \/ "dst" \in Unsynced(w)
      BY <2>0, <2>5 DEF Cached
    <3> QED BY <2>1, <3>1, <3>2, <3>3 DEF Types, Prepared
  <2>6. Cache \in {"warm", "drop", "evict"}
    BY ConstantsOK DEF Fair, Place
  <2> QED BY <2>2, <2>3, <2>4, <2>5, <2>6
<1>9. CASE Record
  <2>1. CASE pc' # "pick"
    <3>1. pc' \in {"release", "restore"}
      BY <1>9, <2>1 DEF Record
    <3> QED BY <1>1, <3>1
  <2>2. CASE pc' = "pick"
    <3>1. pc = "record" /\ rest' = Tail(rest) /\ round' = round /\ rest # <<>>
      BY <1>9 DEF Record, Row
    <3>2. PICK a, b, c \in Nat : a = Len(Order[round]) /\ b = Len(rest) /\ c = Len(rest') /\ b <= a /\ c = b - 1
      BY <1>o, <3>1 DEF Row
    <3>3. Past' # 0
      BY <3>1, <3>2 DEF Past
    <3> QED BY <2>2, <3>3 DEF Cached, Unread
  <2> QED BY <2>1, <2>2
<1>10. CASE Rename
  <2>1. pc = "rename" /\ pc' \in {"round", "release"} /\ w' = w
    BY <1>10 DEF Rename
  <2> QED BY <2>1 DEF Cached, Unread, Fair, Place
<1>11. CASE GenerateRaises \/ ChecksumRaises \/ Snapshot \/ SnapshotRaises \/ ChangeRaises \/ Unsnap
  BY <1>1, <1>11 DEF GenerateRaises, ChecksumRaises, Snapshot, SnapshotRaises, ChangeRaises, Unsnap
<1>12. CASE Change
  <2>1. pc = "change" /\ pc' = "pick" /\ w' = w
    BY <1>12 DEF Change
  <2> QED BY <2>1 DEF Cached, Unread, Fair, Place
<1>13. CASE RepeatRaises \/ Copy \/ VerifyCopy
  <2>1. pc' \in {"remove", "verify"}
    BY <1>13 DEF RepeatRaises, Copy, VerifyCopy
  <2> QED BY <1>1, <2>1
<1>14. CASE RemoveDestination \/ RemoveDestinationFails \/ RemoveDestinationInterrupted
  <2>1. pc' \in {"record", "restore", "release"}
    BY <1>14 DEF RemoveDestination, RemoveDestinationFails, RemoveDestinationInterrupted
  <2> QED BY <1>1, <2>1
<1>15. CASE Restore \/ RenameRaises \/ Release \/ ReleaseRaises \/ End \/ Ended
  BY <1>1, <1>15 DEF Restore, RenameRaises, Release, ReleaseRaises, End, Ended
<1> QED BY <1>2, <1>3, <1>4, <1>5, <1>6, <1>7, <1>8, <1>9, <1>10, <1>11, <1>12, <1>13, <1>14, <1>15
        DEF Step
\* What a step does to a case.
LEMMA CasesNext ==
    ASSUME Fair, Types, Row, Step, setup' = setup, NEW v \in DOMAIN Plan, NEW t \in Tools
    PROVE  LET c == cases[v][t]
               d == cases'[v][t]
           IN  \/ d = c /\ ~(Checksum /\ v = w) /\ (Record => v # w \/ t # Head(rest))
               \/ Checksum /\ v = w /\ d.made /\ d.reps = <<>> /\ ~d.error /\ ~d.curtailed
               \/ RepeatRaises /\ v = w /\ t = Head(rest) /\ exc' = exc
                  /\ d.made = c.made /\ d.reps = c.reps /\ d.error /\ d.curtailed = c.curtailed
               \/ Record /\ abort /\ v = w /\ t = Head(rest)
                  /\ d.made = c.made /\ d.reps = Append(c.reps, rep) /\ d.error = c.error
                  /\ d.curtailed = c.curtailed
               \/ Record /\ ~abort /\ v = w /\ d = Judged(Head(rest))[t]
<1> USE DEF InRow, InRepeat, Plan
<1>0. /\ w \in DOMAIN Plan /\ cases \in [DOMAIN Plan -> [Tools -> Case]] /\ rep \in Reps
      /\ cases[v] \in [Tools -> Case] /\ cases[v][t] \in Case
  BY DEF Fair, Place, Types
<1>1. CASE Checksum
  <2>1. cases' = [cases EXCEPT ![w] = [x \in Tools |-> [NewCase EXCEPT !.made = TRUE]]]
    BY <1>1 DEF Checksum
  <2>2. CASE v = w
    <3>1. cases'[v][t] = [NewCase EXCEPT !.made = TRUE]
      BY <1>0, <2>1, <2>2
    <3>2. /\ cases'[v][t].made = TRUE /\ cases'[v][t].reps = <<>>
          /\ cases'[v][t].error = FALSE /\ cases'[v][t].curtailed = FALSE
      BY <3>1 DEF NewCase
    <3> QED BY <1>1, <2>2, <3>2
  <2>3. CASE v # w
    <3>1. cases'[v][t] = cases[v][t] /\ ~Record
      BY <1>0, <2>1, <2>3, <1>1 DEF Checksum, Record
    <3> QED BY <2>3, <3>1
  <2> QED BY <2>2, <2>3
<1>2. CASE RepeatRaises
  <2>0. pc \in InRepeat /\ Head(rest) \in Tools
    BY <1>2, HeadIsTool DEF RepeatRaises, Row
  <2>1. CASE cases' = cases
    BY <2>0, <2>1 DEF Checksum, Record
  <2>2. CASE cases' = [cases EXCEPT ![w][Head(rest)].error = TRUE] /\ exc' = exc
    <3>1. CASE v = w /\ t = Head(rest)
      <4>1. cases'[v][t] = [cases[v][t] EXCEPT !.error = TRUE]
        BY <1>0, <2>2, <3>1
      <4>2. /\ cases'[v][t].made = cases[v][t].made /\ cases'[v][t].reps = cases[v][t].reps
            /\ cases'[v][t].error = TRUE /\ cases'[v][t].curtailed = cases[v][t].curtailed
        BY <1>0, <4>1 DEF Case
      <4> QED BY <1>2, <2>2, <3>1, <4>2
    <3>2. CASE ~(v = w /\ t = Head(rest))
      <4>1. cases'[v][t] = cases[v][t]
        BY <1>0, <2>0, <2>2, <3>2
      <4> QED BY <2>0, <4>1 DEF Checksum, Record
    <3> QED BY <3>1, <3>2
  <2> QED BY <1>2, <2>1, <2>2 DEF RepeatRaises
<1>3. CASE Record /\ abort
  <2>0. Head(rest) \in Tools /\ pc = "record"
    BY <1>3, HeadIsTool DEF Record, Row
  <2>1. cases' = [cases EXCEPT ![w][Head(rest)].reps = Append(@, rep)]
    BY <1>3 DEF Record
  <2>2. CASE v = w /\ t = Head(rest)
    <3>1. cases'[v][t] = [cases[v][t] EXCEPT !.reps = Append(@, rep)]
      BY <1>0, <2>1, <2>2
    <3>2. /\ cases'[v][t].made = cases[v][t].made /\ cases'[v][t].reps = Append(cases[v][t].reps, rep)
          /\ cases'[v][t].error = cases[v][t].error /\ cases'[v][t].curtailed = cases[v][t].curtailed
      BY <1>0, <3>1 DEF Case
    <3> QED BY <1>3, <2>2, <3>2
  <2>3. CASE ~(v = w /\ t = Head(rest))
    <3>1. cases'[v][t] = cases[v][t]
      BY <1>0, <2>0, <2>1, <2>3
    <3> QED BY <2>0, <2>3, <3>1 DEF Checksum
  <2> QED BY <2>2, <2>3
<1>4. CASE Record /\ ~abort
  <2>1. cases' = [cases EXCEPT ![w] = Judged(Head(rest))] /\ pc = "record"
    BY <1>4 DEF Record
  <2>2. CASE v = w
    <3>1. cases'[v][t] = Judged(Head(rest))[t]
      BY <1>0, <2>1, <2>2
    <3> QED BY <1>4, <2>2, <3>1
  <2>3. CASE v # w
    <3>1. cases'[v][t] = cases[v][t]
      BY <1>0, <2>1, <2>3
    <3> QED BY <2>1, <2>3, <3>1 DEF Checksum
  <2> QED BY <2>2, <2>3
<1>5. CASE cases' = cases /\ ~Checksum /\ ~Record
  BY <1>5
<1> QED BY <1>1, <1>2, <1>3, <1>4, <1>5, Frames

\* Repeats are only added, the current one by its recording.
LEMMA RepeatsNext ==
    ASSUME Fair, Types, Row, Step, setup' = setup, NEW v \in DOMAIN Plan, NEW t \in Tools
    PROVE  LET c == cases[v][t]
               d == cases'[v][t]
           IN  \/ d.reps = c.reps
               \/ Checksum /\ v = w /\ d.reps = <<>>
               \/ Record /\ v = w /\ t = Head(rest) /\ d.reps = Append(c.reps, rep)
<1>1. CASE Record /\ ~abort /\ v = w /\ cases'[v][t] = Judged(Head(rest))[t]
  <2>1. Head(rest) \in Tools
    BY <1>1, HeadIsTool DEF Record, Row, InRow
  <2>2. cases[w] \in [Tools -> Case] /\ rep \in Reps
    BY DEF Fair, Place, Types
  <2>3. Judged(Head(rest))[t].reps =
           IF t = Head(rest) THEN Append(cases[w][t].reps, rep) ELSE cases[w][t].reps
    BY <2>1, <2>2, JudgedIs
  <2> QED BY <1>1, <2>3
<1> QED BY <1>1, CasesNext

\* What is recorded was right when it was recorded, and stays.
LEMMA ShownNext ==
    ASSUME Fair, Types, Row, Current, Shown, Step, setup' = setup, hit \in Seq(Steps)
    PROVE  Shown'
<1>h. hit' = <<>> => hit = <<>>
  <2>1. hit' = Append(hit, pc) => hit' # <<>>
    OBVIOUS
  <2> QED BY <2>1, Frames
<1>1. SUFFICES ASSUME NEW v \in DOMAIN Plan, NEW t \in Tools, NEW i \in DOMAIN cases'[v][t].reps
               PROVE  LET r == cases'[v][t].reps[i] IN
                      /\ r.verified = "yes" => r.right
                      /\ hit' = <<>> /\ r.verified = "no" => ~r.right
                      /\ ColdRep(v, r)
  BY DEF Shown, Plan, RightRep, ColdRep, Prepared, Unsynced, RemoteDestination
<1> DEFINE r == cases'[v][t].reps[i]
<1>3. RightRep(r) /\ ColdRep(v, r)
  <2>0. cases[v][t].reps \in Seq(Reps)
    BY DEF Types, Case, Fair, Place
  <2>1. CASE cases'[v][t].reps = cases[v][t].reps
    BY <2>1 DEF Shown
  <2>2. CASE cases'[v][t].reps = <<>>
    BY <2>2
  <2>3. CASE Record /\ v = w /\ cases'[v][t].reps = Append(cases[v][t].reps, rep)
    <3>1. (i \in DOMAIN cases[v][t].reps /\ r = cases[v][t].reps[i]) \/ r = rep
      BY <2>0, <2>3
    <3>2. pc = "record"
      BY <2>3 DEF Record
    <3> QED BY <2>3, <3>1, <3>2 DEF Shown, Current
  <2> QED BY <2>1, <2>2, <2>3, RepeatsNext
<1> HIDE DEF r
<1>4. /\ r.verified = "yes" => r.right
      /\ hit' = <<>> /\ r.verified = "no" => ~r.right
      /\ ColdRep(v, r)
  BY <1>h, <1>3, Zenon DEF RightRep
<1> QED BY <1>4, Zenon DEF r

\* Good repeats stay good when another is added.
LEMMA GoodGrows ==
    ASSUME NEW c \in Case, NEW d \in Case, NEW r \in Reps,
           d.reps = c.reps \/ d.reps = Append(c.reps, r)
    PROVE  Good(c) \subseteq Good(d)
<1>1. c.reps \in Seq(Reps)
  BY DEF Case
<1>2. DOMAIN c.reps \subseteq DOMAIN d.reps /\ \A i \in DOMAIN c.reps : d.reps[i] = c.reps[i]
  BY <1>1
<1> QED BY <1>2 DEF Good

\* A case is given up by a step that has the evidence, which stays.
LEMMA CurtailedNext ==
    ASSUME Fair, Types, Row, CurtailedWasMeasured, Step, setup' = setup
    PROVE  CurtailedWasMeasured'
<1>t. Types'
  BY TypesNext
<1>1. SUFFICES ASSUME NEW v \in DOMAIN Plan, NEW t \in Tools, cases'[v][t].curtailed
               PROVE  /\ Good(cases'[v][t]) # {}
                      /\ \E u \in Tools \ {t} : Good(cases'[v][u]) # {}
  BY DEF CurtailedWasMeasured, Plan, Good
<1>2. /\ cases[v] \in [Tools -> Case] /\ cases'[v] \in [Tools -> Case] /\ rep \in Reps
      /\ w \in DOMAIN Plan
  BY <1>t DEF Types, Fair, Place, Plan
<1>3. CASE Checksum /\ v = w
  <2>1. ~Record /\ ~RepeatRaises
    BY <1>3 DEF Checksum, Record, RepeatRaises
  <2>2. ~cases'[v][t].curtailed
    BY <1>3, <2>1, CasesNext
  <2> QED BY <1>1, <2>2
<1>4. CASE ~(Checksum /\ v = w)
  <2>1. \A u \in Tools : Good(cases[v][u]) \subseteq Good(cases'[v][u])
    <3>1. SUFFICES ASSUME NEW u \in Tools PROVE Good(cases[v][u]) \subseteq Good(cases'[v][u])
      OBVIOUS
    <3>2. \/ cases'[v][u].reps = cases[v][u].reps
          \/ cases'[v][u].reps = Append(cases[v][u].reps, rep)
      BY <1>4, RepeatsNext
    <3> QED BY <1>2, <3>2, GoodGrows
  <2>2. CASE cases[v][t].curtailed
    <3>1. Good(cases[v][t]) # {} /\ \E u \in Tools \ {t} : Good(cases[v][u]) # {}
      BY <2>2, Zenon DEF CurtailedWasMeasured
    <3>2. PICK u \in Tools \ {t} : Good(cases[v][u]) # {}
      BY <3>1
    <3>3. Good(cases'[v][t]) # {} /\ Good(cases'[v][u]) # {}
      BY <2>1, <3>1, <3>2
    <3> QED BY <3>3
  <2>3. CASE ~cases[v][t].curtailed
    <3>1. Record /\ ~abort /\ v = w /\ cases'[v][t] = Judged(Head(rest))[t]
      BY <1>1, <1>4, <2>3, CasesNext
    <3>2. Head(rest) \in Tools
      BY <3>1, HeadIsTool DEF Record, Row, InRow
    <3>3. cases'[v] = Judged(Head(rest))
      BY <3>1, <1>2 DEF Record, Types
    <3>4. cases[w] \in [Tools -> Case] /\ ~cases[w][t].curtailed /\ Judged(Head(rest))[t].curtailed
      BY <1>1, <1>2, <2>3, <3>1
    <3>5. Compared(Judged(Head(rest)), t)
      BY <1>2, <3>2, <3>4, JudgedIs
    <3> QED BY <3>3, <3>5 DEF Compared
  <2> QED BY <2>2, <2>3
<1> QED BY <1>3, <1>4

\* Before the first step there is no tree at all.
LEMMA TidyInit == Init => Tidy
BY DEF Init, Tidy, Trees

\* No step leaves a tree behind unless it raises.
LEMMA TidyNext ==
    ASSUME Fair, Tidy, Step, setup' = setup
    PROVE  Tidy'
<1> USE DEF Tidy, Fair, Place, Trees, InRound, InRepeat, Mode, Plan, Incremental, Given,
            RaiseTo, Raise, Removed, RemovalRaises, Leave
<1>g. Given => ~Incremental
  BY ConstantsOK
<1>f. Faults \subseteq {"step", "interrupt"}
  BY ConstantsOK DEF AllFaults
<1>1. CASE Generate  BY <1>1 DEF Generate
<1>2. CASE GenerateRaises  BY <1>2, <1>f DEF GenerateRaises
<1>3. CASE Checksum  BY <1>3 DEF Checksum
<1>4. CASE ChecksumRaises  BY <1>4, <1>f DEF ChecksumRaises
<1>5. CASE NextRound  BY <1>5 DEF NextRound
<1>6. CASE Snapshot  BY <1>6, <1>g DEF Snapshot
<1>7. CASE SnapshotRaises  BY <1>7, <1>f, <1>g DEF SnapshotRaises
<1>8. CASE Change  BY <1>8, <1>g DEF Change
<1>9. CASE ChangeRaises  BY <1>9, <1>f, <1>g DEF ChangeRaises
<1>10. CASE Unsnap  BY <1>10, <1>f DEF Unsnap
<1>11. CASE Pick  BY <1>11 DEF Pick
<1>12. CASE RepeatRaises
  <2>1. /\ pc \in InRepeat /\ pc' = "remove" /\ UNCHANGED <<w, abort>>
        /\ tree' = tree \/ tree' = [tree EXCEPT !["dst"] = Damaged]
        /\ exc' = exc \/ exc' # "none"
    BY <1>12 DEF RepeatRaises
  <2> QED BY <2>1
<1>13. CASE MakeDestination  BY <1>13 DEF MakeDestination
<1>14. CASE Prepopulate  BY <1>14 DEF Prepopulate
<1>15. CASE PrepareCache
  <2>1. /\ pc = "cache" /\ pc' = "copy" /\ UNCHANGED <<exc, w, tree, abort>>
    BY <1>15 DEF PrepareCache
  <2> QED BY <2>1
<1>16. CASE Copy
  <2>1. /\ pc = "copy" /\ pc' \in {"verify", "remove"}
        /\ \E x : tree' = [tree EXCEPT !["dst"] = x]
        /\ UNCHANGED <<exc, w, abort>>
    BY <1>16 DEF Copy
  <2> QED BY <2>1
<1>17. CASE VerifyCopy  BY <1>17 DEF VerifyCopy
<1>18. CASE RemoveDestination  BY <1>18 DEF RemoveDestination
<1>19. CASE RemoveDestinationFails  BY <1>19 DEF RemoveDestinationFails
<1>20. CASE RemoveDestinationInterrupted  BY <1>20 DEF RemoveDestinationInterrupted
<1>21. CASE Record
  <2>1. /\ pc = "record" /\ UNCHANGED <<w, tree, abort>>
        /\ \/ exc' = "cleanup" /\ pc' \in {"restore", "release"}
           \/ ~abort /\ pc' = "pick" /\ UNCHANGED exc
    BY <1>21 DEF Record
  <2> QED BY <2>1
<1>22. CASE Restore  BY <1>22, <1>f, <1>g DEF Restore
<1>23. CASE Rename  BY <1>23, <1>g DEF Rename
<1>24. CASE RenameRaises  BY <1>24, <1>f DEF RenameRaises
<1>25. CASE Release
  <2>1. CASE Given
    BY <1>25, <2>1 DEF Release
  <2>2. CASE ~Given
    BY <1>25, <2>2 DEF Release
  <2> QED BY <2>1, <2>2
<1>26. CASE ReleaseRaises  BY <1>26, <1>f DEF ReleaseRaises
<1>27. CASE End  BY <1>27 DEF End
<1>28. CASE Ended  BY <1>28 DEF Ended
<1>a. CASE Generate \/ GenerateRaises \/ Checksum \/ ChecksumRaises \/ NextRound
           \/ Snapshot \/ SnapshotRaises \/ Change \/ ChangeRaises \/ Unsnap
  BY <1>1, <1>2, <1>3, <1>4, <1>5, <1>6, <1>7, <1>8, <1>9, <1>10, <1>a, Zenon
<1>b. CASE Pick \/ RepeatRaises \/ MakeDestination \/ Prepopulate \/ PrepareCache
           \/ Copy \/ VerifyCopy \/ RemoveDestination \/ RemoveDestinationFails
           \/ RemoveDestinationInterrupted \/ Record
  BY <1>11, <1>12, <1>13, <1>14, <1>15, <1>16, <1>17, <1>18, <1>19, <1>20, <1>21, <1>b, Zenon
<1>c. CASE Restore \/ Rename \/ RenameRaises \/ Release \/ ReleaseRaises \/ End \/ Ended
  BY <1>22, <1>23, <1>24, <1>25, <1>26, <1>27, <1>28, <1>c, Zenon
<1> QED BY <1>a, <1>b, <1>c, Zenon DEF Step
-----------------------------------------------------------------------------
(* How often a case is measured.                                           *)

\* The orders of the rounds, as ConstantsOK has them.
LEMMA OrderIs ==
    ASSUME Fair, Row
    PROVE  /\ Rounds \in Nat /\ Rounds > 0 /\ round \in 0..Rounds
           /\ \A r \in 1..Rounds :
                 /\ Order[r] \in Seq(Tools) /\ Len(Order[r]) \in Nat
                 /\ DOMAIN Order[r] = 1..Len(Order[r]) /\ IsInjective(Order[r])
           /\ rest \in Seq(Tools) /\ Len(rest) \in Nat
<1>1. Order \in Seq(Seq(Tools)) /\ Len(Order) > 0 /\ DOMAIN Order = 1..Rounds
  BY ConstantsOK DEF Rounds
<1>2. \A r \in 1..Rounds : IsInjective(Order[r])
  BY <1>1, ConstantsOK DEF ProtocolOK
<1>3. Rounds \in Nat /\ Rounds > 0
  BY <1>1 DEF Rounds
<1>4. \A r \in 1..Rounds : Order[r] \in Seq(Tools)
  BY <1>1 DEF Rounds
<1>5. ASSUME NEW r \in 1..Rounds
      PROVE  Len(Order[r]) \in Nat /\ DOMAIN Order[r] = 1..Len(Order[r])
  BY <1>4
<1> QED BY <1>2, <1>3, <1>4, <1>5 DEF Fair, Place, Row

\* The turns of a tool can be counted.
LEMMA SeenFinite == \A t : Fair /\ Row => IsFiniteSet(Seen(t)) /\ Cardinality(Seen(t)) \in Nat
<1>1. SUFFICES ASSUME NEW t, Fair, Row PROVE IsFiniteSet(Seen(t)) /\ Cardinality(Seen(t)) \in Nat
  OBVIOUS
<1>2. round \in Int /\ Seen(t) \in SUBSET (1..round)
  <2>1. round \in Int
    BY <1>1, OrderIs
  <2> QED BY <2>1 DEF Seen
<1>3. IsFiniteSet(1..round)
  BY <1>2, FS_Interval
<1> QED BY <1>2, <1>3, FS_Subset, FS_CardinalityType

\* At the start of a round, no tool has had its turn in it.
LEMMA SeenInNextRound ==
    ASSUME Fair, Row, NextRound, round < Rounds, NEW t
    PROVE  Seen(t)' = Seen(t)
<1>1. /\ round' = round + 1 /\ rest' = Order[round + 1] /\ pc = "round"
      /\ round \in Nat /\ round + 1 \in 1..Rounds
  BY OrderIs DEF NextRound
<1>2. Past' = 0
  BY <1>1, OrderIs DEF Past
<1>3. ASSUME NEW r \in 1..round, NEW j \in DOMAIN Order[r], r = round
      PROVE  j <= Past
  <2>1. rest = <<>>
    BY <1>1, <1>3 DEF Row
  <2>2. Past = Len(Order[round])
    BY <1>1, <1>3, <2>1, OrderIs DEF Past
  <2> QED BY <1>1, <1>3, <2>2, OrderIs
<1>4. Seen(t)' = {r \in 1..(round + 1) : \E j \in DOMAIN Order[r] :
                     Order[r][j] = t /\ (r = round + 1 => j <= 0)}
  BY <1>1, <1>2 DEF Seen
<1>5. ASSUME NEW j \in DOMAIN Order[round + 1] PROVE ~(j <= 0)
  BY <1>1, <1>5, OrderIs
<1>6. Seen(t)' = {r \in 1..round : \E j \in DOMAIN Order[r] : Order[r][j] = t}
  <2>1. \A r \in 1..(round + 1) : r # round + 1 <=> r \in 1..round
    BY <1>1
  <2>2. 1..round \subseteq 1..(round + 1)
    BY <1>1
  <2> QED BY <1>1, <1>4, <1>5, <2>1, <2>2
<1> QED BY <1>3, <1>6 DEF Seen

\* The turn of rest's first n tools.
LEMMA TurnsTaken ==
    ASSUME Fair, Row, pc \in {"pick", "record"}, NEW n \in 0..Len(rest),
           round' = round, Len(rest') = Len(rest) - n
    PROVE  /\ Past \in Nat /\ Past' = Past + n
           /\ round \in 1..Rounds
           /\ \A k \in 1..n : Past + k \in DOMAIN Order[round] /\ Order[round][Past + k] = rest[k]
<1>1. /\ round > 0 /\ Len(rest) <= Len(Order[round])
      /\ \A j \in 1..Len(rest) : rest[j] = Order[round][Past + j]
  BY DEF Row, InRow
<1>2. round \in 1..Rounds
  BY <1>1, OrderIs
<1>3. PICK a, b, c \in Nat : a = Len(Order[round]) /\ b = Len(rest) /\ c = Len(rest') /\ b <= a /\ c = b - n
  BY <1>1, <1>2, OrderIs
<1>4. Past = a - b /\ Past' = a - c
  BY <1>3 DEF Past
<1>5. Past \in Nat /\ Past' = Past + n
  BY <1>3, <1>4
<1>6. DOMAIN Order[round] = 1..a
  BY <1>2, <1>3, OrderIs
<1>7. ASSUME NEW k \in 1..n
      PROVE  Past + k \in DOMAIN Order[round] /\ Order[round][Past + k] = rest[k]
  <2>1. k \in 1..Len(rest)
    BY <1>3
  <2>2. a - b + k \in 1..a
    BY <1>3
  <2> QED BY <1>1, <1>4, <1>6, <2>1, <2>2
<1> QED BY <1>2, <1>5, <1>7

\* Passing over tools counts for none of the others.
LEMMA SeenAfterTurns ==
    ASSUME Fair, Row, pc \in {"pick", "record"}, NEW n \in 0..Len(rest),
           round' = round, Len(rest') = Len(rest) - n,
           NEW t, \A k \in 1..n : rest[k] # t
    PROVE  Seen(t)' = Seen(t)
<1>1. /\ Past \in Nat /\ Past' = Past + n /\ round \in 1..Rounds
      /\ \A k \in 1..n : Past + k \in DOMAIN Order[round] /\ Order[round][Past + k] = rest[k]
  BY TurnsTaken
<1>2. ASSUME NEW j \in DOMAIN Order[round], Order[round][j] = t
      PROVE  j <= Past + n <=> j <= Past
  <2>0. j \in Nat
    BY <1>1, OrderIs
  <2>1. CASE j > Past /\ j <= Past + n
    <3>1. j - Past \in 1..n /\ Past + (j - Past) = j
      BY <1>1, <2>0, <2>1
    <3>2. Order[round][j] = rest[j - Past]
      BY <1>1, <3>1
    <3> QED BY <1>2, <3>1, <3>2
  <2> QED BY <1>1, <2>0, <2>1
<1>3. Seen(t)' = {r \in 1..round : \E j \in DOMAIN Order[r] :
                     Order[r][j] = t /\ (r = round => j <= Past + n)}
  BY <1>1 DEF Seen
<1> QED BY <1>2, <1>3 DEF Seen

\* Recording a repeat counts one more for its tool.
LEMMA SeenAfterRecord ==
    ASSUME Fair, Row, Record, NEW t, t = Head(rest)
    PROVE  /\ t \in Tools
           /\ Cardinality(Seen(t)') = Cardinality(Seen(t)) + 1
           /\ \A u : u # t => Seen(u)' = Seen(u)
<1>1. pc = "record" /\ round' = round /\ rest' = Tail(rest) /\ rest # <<>>
  BY DEF Record, Row
<1>2. /\ t \in Tools /\ rest[1] = t /\ 1 \in 0..Len(rest) /\ Len(rest') = Len(rest) - 1
  BY <1>1, OrderIs
<1>3. /\ Past \in Nat /\ Past' = Past + 1 /\ round \in 1..Rounds
      /\ Past + 1 \in DOMAIN Order[round] /\ Order[round][Past + 1] = t
  BY <1>1, <1>2, TurnsTaken
<1>4. ASSUME NEW u, u # t PROVE Seen(u)' = Seen(u)
  <2>1. \A k \in 1..1 : rest[k] # u
    BY <1>2, <1>4
  <2> QED BY <1>1, <1>2, <2>1, SeenAfterTurns
<1>5. ASSUME NEW j \in DOMAIN Order[round], Order[round][j] = t PROVE j = Past + 1
  BY <1>3, <1>5, OrderIs DEF IsInjective
<1>6. Seen(t)' = {r \in 1..round : \E j \in DOMAIN Order[r] :
                     Order[r][j] = t /\ (r = round => j <= Past + 1)}
  BY <1>1, <1>3 DEF Seen
<1>7. round \notin Seen(t)
  BY <1>3, <1>5 DEF Seen
<1>8. Seen(t)' = Seen(t) \cup {round}
  <2>1. round \in Seen(t)'
    BY <1>3, <1>6
  <2>2. \A r \in 1..round : r # round => (r \in Seen(t)' <=> r \in Seen(t))
    BY <1>6 DEF Seen
  <2>3. Seen(t)' \subseteq 1..round /\ Seen(t) \subseteq 1..round
    BY <1>6 DEF Seen
  <2> QED BY <1>7, <2>1, <2>2, <2>3
<1>9. IsFiniteSet(Seen(t))
  BY SeenFinite
<1>10. Cardinality(Seen(t)') = Cardinality(Seen(t)) + 1
  BY <1>7, <1>8, <1>9, FS_AddElement
<1> QED BY <1>2, <1>4, <1>10

\* After the last round, every tool has had all its turns.
LEMMA SeenAll ==
    ASSUME Fair, Row, pc = "round", ~(round < Rounds), NEW t
    PROVE  Cardinality(Seen(t)) = Planned(t)
<1>1. round = Rounds /\ round > 0 /\ round \in 1..Rounds
  BY OrderIs
<1>2. rest = <<>> /\ Past = Len(Order[round])
  BY <1>1, OrderIs DEF Row, Past
<1>3. DOMAIN Order = 1..round
  BY <1>1, ConstantsOK DEF Rounds
<1>4. \A j \in DOMAIN Order[round] : j <= Past
  BY <1>1, <1>2, OrderIs
<1>5. Seen(t) = {r \in DOMAIN Order : \E k \in DOMAIN Order[r] : Order[r][k] = t}
  BY <1>3, <1>4 DEF Seen
<1> QED BY <1>5 DEF Planned

\* At the start there is nothing to count.
LEMMA CountedInit == Init => Counted /\ Audited /\ Passed
<1> SUFFICES ASSUME Init PROVE Counted /\ Audited /\ Passed
  OBVIOUS
<1>1. \A v \in 1..(w - 1) : FALSE
  BY DEF Init
<1>2. Counted
  BY <1>1 DEF Init, Counted, InRow, InRepeat
<1>3. Audited
  BY DEF Init, Audited, NewCase
<1>4. Passed
  BY DEF Init, Passed
<1> QED BY <1>2, <1>3, <1>4

\* A closed case stays closed, unless its workload starts.
LEMMA ClosedStays ==
    ASSUME Fair, Types, Row, Step, setup' = setup, NEW v \in DOMAIN Plan, NEW t \in Tools,
           ~(Checksum /\ v = w)
    PROVE  /\ Closed(v, t) => Closed(v, t)'
           /\ cases[v][t].made => cases'[v][t].made
<1>0. cases[w] \in [Tools -> Case] /\ rep \in Reps
  BY DEF Types, Fair, Place
<1>1. Skipped(v, t)' <=> Skipped(v, t)
  BY DEF Skipped, Plan, CopyOnly
<1>2. CASE Record /\ ~abort /\ v = w /\ cases'[v][t] = Judged(Head(rest))[t]
  <2>1. Head(rest) \in Tools
    BY <1>2, HeadIsTool DEF Record, Row, InRow
  <2>2. /\ Judged(Head(rest))[t].made = cases[w][t].made
        /\ cases[w][t].error => Judged(Head(rest))[t].error
        /\ cases[w][t].curtailed => Judged(Head(rest))[t].curtailed
    <3>1. Judged(Head(rest))[t].made = cases[w][t].made
      BY <1>0, <2>1, JudgedIs
    <3>2. Judged(Head(rest))[t].error <=> cases[w][t].error \/ (t = Head(rest) /\ rep.code # "ok")
      BY <1>0, <2>1, JudgedIs
    <3>3. cases[w][t].curtailed => Judged(Head(rest))[t].curtailed
      BY <1>0, <2>1, JudgedIs
    <3> QED BY <3>1, <3>2, <3>3, Zenon
  <2> QED BY <1>1, <1>2, <2>2, Zenon DEF Closed
<1>3. CASE cases'[v][t] = cases[v][t]
  BY <1>1, <1>3, Zenon DEF Closed
<1>4. CASE RepeatRaises /\ cases'[v][t].made = cases[v][t].made /\ cases'[v][t].error
  BY <1>4, Zenon DEF Closed
<1>5. CASE /\ cases'[v][t].made = cases[v][t].made /\ cases'[v][t].error = cases[v][t].error
           /\ cases'[v][t].curtailed = cases[v][t].curtailed
  BY <1>1, <1>5, Zenon DEF Closed
<1> QED BY <1>2, <1>3, <1>4, <1>5, CasesNext, Zenon

\* Where no repeat is recorded, a case stays as far as it is.
LEMMA CompleteStays ==
    ASSUME Fair, Types, Row, Step, setup' = setup, NEW v \in DOMAIN Plan, NEW t \in Tools,
           Complete(v, t), ~(Checksum /\ v = w), ~(Record /\ v = w)
    PROVE  Complete(v, t)'
<1>1. cases'[v][t].reps = cases[v][t].reps
  BY RepeatsNext
<1>2. cases[v][t].made => cases'[v][t].made
  BY ClosedStays
<1>3. Closed(v, t) => Closed(v, t)'
  BY ClosedStays
<1> QED BY <1>1, <1>2, <1>3, Zenon DEF Complete

LEMMA UpToDateStays ==
    ASSUME Fair, Types, Row, Step, setup' = setup, w' = w, NEW t \in Tools,
           UpToDate(t), ~Checksum, ~Record, Seen(t)' = Seen(t)
    PROVE  UpToDate(t)'
<1>0. w \in DOMAIN Plan
  BY DEF Fair, Place
<1>1. cases'[w][t].reps = cases[w][t].reps
  BY <1>0, RepeatsNext
<1>2. cases[w][t].made => cases'[w][t].made
  BY <1>0, ClosedStays
<1>3. Closed(w, t) => Closed(w, t)'
  BY <1>0, ClosedStays
<1>4. Cardinality(Seen(t))' = Cardinality(Seen(t))
  OBVIOUS
<1> QED BY <1>1, <1>2, <1>3, <1>4, Zenon DEF UpToDate

\* A recorded repeat is one more turn.
LEMMA UpToDateRecord ==
    ASSUME Fair, Types, Row, Step, setup' = setup, Record, ~abort, NEW t \in Tools, UpToDate(t)
    PROVE  UpToDate(t)'
<1>0. w \in DOMAIN Plan /\ w' = w /\ ~Checksum
  BY DEF Fair, Place, Record, Checksum
<1>c. cases[w] \in [Tools -> Case] /\ rep \in Reps /\ cases[w][t].reps \in Seq(Reps)
  BY <1>0 DEF Types, Case
<1>2. cases[w][t].made => cases'[w][t].made
  BY <1>0, ClosedStays
<1>3. Closed(w, t) => Closed(w, t)'
  BY <1>0, ClosedStays
<1>5. CASE t = Head(rest)
  <2>1. cases'[w][t].reps = Append(cases[w][t].reps, rep)
    <3>1. cases'[w][t] = Judged(Head(rest))[t]
      BY <1>0 DEF Record, Types
    <3>2. Judged(Head(rest))[t].reps = Append(cases[w][t].reps, rep)
      BY <1>5, <1>c, JudgedIs
    <3> QED BY <3>1, <3>2
  <2>2. Len(cases'[w][t].reps) = Len(cases[w][t].reps) + 1
    BY <1>c, <2>1
  <2>3. Cardinality(Seen(t)') = Cardinality(Seen(t)) + 1
    BY <1>5, SeenAfterRecord
  <2>4. Len(cases[w][t].reps) = Cardinality(Seen(t)) => Len(cases'[w][t].reps) = Cardinality(Seen(t))'
    BY <2>2, <2>3
  <2> QED BY <1>0, <1>2, <1>3, <2>4, Zenon DEF UpToDate
<1>6. CASE t # Head(rest)
  <2>1. cases'[w][t].reps = cases[w][t].reps
    BY <1>0, <1>6, RepeatsNext
  <2>2. Seen(t)' = Seen(t)
    BY <1>6, SeenAfterRecord
  <2>3. Cardinality(Seen(t))' = Cardinality(Seen(t))
    BY <2>2
  <2> QED BY <1>0, <1>2, <1>3, <2>1, <2>3, Zenon DEF UpToDate
<1> QED BY <1>5, <1>6

\* Where every case is up to date with the rounds, and where it is complete.
InRounds == InRow \cup {"round", "restore", "rename"}
Over == {"release", "end", "done"}

\* Steps inside a repeat, and those that leave a workload, count nothing.
LEMMA CountedFrame ==
    ASSUME Fair, Types, Row, Counted, Step, setup' = setup,
           UNCHANGED <<w, rest, round>>, ~Checksum, ~Record,
           exc' = "none" => /\ exc = "none"
                            /\ pc' \in InRounds => pc \in InRounds
                            /\ pc' \in Over => pc \in Over
                            /\ pc' \in {"end", "done"} => pc \in {"end", "done"}
    PROVE  Counted'
<1> SUFFICES ASSUME exc' = "none" PROVE Counted'
  BY DEF Counted
<1>1. exc = "none"
  OBVIOUS
<1>2. w \in DOMAIN Plan /\ \A v \in 1..(w - 1) : v \in DOMAIN Plan
  <2>1. Plan \in Seq(Modes) /\ w \in DOMAIN Plan
    BY ConstantsOK DEF Fair, Place, Plan
  <2> QED BY <2>1
<1>3. ASSUME NEW v \in 1..(w - 1), NEW t \in Tools PROVE Complete(v, t)'
  BY <1>1, <1>2, CompleteStays DEF Counted
<1>4. ASSUME pc' \in Over, NEW t \in Tools PROVE Complete(w, t)'
  <2>1. Complete(w, t)
    BY <1>1, <1>4 DEF Counted, Over
  <2> QED BY <1>2, <2>1, CompleteStays DEF Complete, Closed, Skipped
<1>5. ASSUME pc' \in InRounds, NEW t \in Tools PROVE UpToDate(t)'
  <2>1. UpToDate(t)
    BY <1>1, <1>5 DEF Counted, InRounds
  <2>2. Seen(t)' = Seen(t)
    BY DEF Seen, Past
  <2> QED BY <2>1, <2>2, UpToDateStays
<1>6. pc' \in {"end", "done"} => w' = Len(Plan')
  BY <1>1 DEF Counted, Plan
<1> QED BY <1>3, <1>4, <1>5, <1>6 DEF Counted, InRounds, Over

\* Every step keeps the count.
LEMMA CountedNext ==
    ASSUME Fair, Types, Row, Tidy, Counted, Step, setup' = setup
    PROVE  Counted'
<1> USE DEF InRow, InRepeat, InRounds, Over, Leave, Raise, RaiseTo, RemovalRaises, Removed,
            Mode, Incremental
<1>f. Faults \subseteq {"step", "interrupt"}
  BY ConstantsOK DEF AllFaults
<1>0. ASSUME exc' # "none" PROVE Counted'
  BY <1>0 DEF Counted
<1>w. w \in DOMAIN Plan /\ Plan \in Seq(Modes) /\ \A v \in 1..(w - 1) : v \in DOMAIN Plan
  <2>1. Plan \in Seq(Modes) /\ w \in DOMAIN Plan
    BY ConstantsOK DEF Fair, Place, Plan
  <2> QED BY <2>1
<1>e. exc' = "none" => exc = "none"
  BY Frames, <1>f
<1>p. ASSUME w' = w, exc' = "none", NEW v \in 1..(w - 1), NEW t \in Tools PROVE Complete(v, t)'
  <2>1. Complete(v, t) /\ v \in DOMAIN Plan /\ v # w
    BY <1>e, <1>p, <1>w DEF Counted
  <2> QED BY <2>1, CompleteStays
<1>1. CASE Generate \/ GenerateRaises \/ ChecksumRaises
  BY <1>0, <1>1, <1>f, CountedFrame DEF Generate, GenerateRaises, ChecksumRaises, Checksum, Record
<1>2. CASE Checksum
  <2>1. pc' = "round" /\ round' = 0 /\ w' = w
    BY <1>2 DEF Checksum
  <2>2. ASSUME NEW t \in Tools PROVE UpToDate(t)'
    <3>1. cases'[w][t].made /\ cases'[w][t].reps = <<>>
      BY <1>2, <1>w, CasesNext DEF Checksum, Record, RepeatRaises
    <3>2. Seen(t)' = {}
      BY <2>1 DEF Seen
    <3>3. Len(cases'[w][t].reps) = Cardinality(Seen(t)')
      BY <3>1, <3>2, FS_EmptySet
    <3> QED BY <2>1, <3>1, <3>3 DEF UpToDate
  <2> QED BY <1>0, <1>p, <2>1, <2>2 DEF Counted
<1>3. CASE NextRound
  <2>0. ~Checksum /\ ~Record /\ w' = w /\ pc = "round" /\ cases' = cases
    BY <1>3 DEF NextRound, Checksum, Record
  <2>u. exc' = "none" => \A t \in Tools : UpToDate(t)
    BY <1>e, <2>0 DEF Counted
  <2>1. CASE round < Rounds
    <3>1. pc' \in {"snapshot", "pick"}
      BY <1>3, <2>1 DEF NextRound
    <3>2. ASSUME NEW t \in Tools, exc' = "none" PROVE UpToDate(t)'
      <4>1. Seen(t)' = Seen(t)
        BY <1>3, <2>1, SeenInNextRound
      <4> QED BY <2>0, <2>u, <3>2, <4>1, UpToDateStays
    <3> QED BY <1>0, <1>p, <2>0, <3>1, <3>2 DEF Counted
  <2>2. CASE ~(round < Rounds)
    <3>1. pc' = "release"
      BY <1>3, <2>2 DEF NextRound
    <3>2. ASSUME NEW t \in Tools, exc' = "none" PROVE Complete(w, t)
      <4>1. Cardinality(Seen(t)) = Planned(t)
        BY <2>0, <2>2, SeenAll
      <4>2. UpToDate(t)
        BY <2>u, <3>2
      <4> QED BY <4>1, <4>2 DEF UpToDate, Complete
    <3>3. ASSUME NEW t \in Tools, exc' = "none" PROVE Complete(w, t)'
      BY <2>0, <3>2, <3>3 DEF Complete, Closed, Skipped, Plan, CopyOnly
    <3> QED BY <1>0, <1>p, <2>0, <3>1, <3>3 DEF Counted
  <2> QED BY <2>1, <2>2
<1>4. CASE Pick
  <2>1. PICK n \in 0..Len(rest) :
           /\ \A k \in 1..n : ~Open(rest[k])
           /\ rest' = SubSeq(rest, n + 1, Len(rest))
           /\ pc' = IF n = Len(rest) THEN Leave(exc) ELSE "mkdir"
    BY <1>4, Zenon DEF Pick
  <2>2. pc = "pick" /\ round' = round /\ w' = w /\ ~Checksum /\ ~Record /\ exc = "none" /\ exc' = exc
    BY <1>4 DEF Pick, Checksum, Record, Fair, Place
  <2>3. Len(rest') = Len(rest) - n /\ rest \in Seq(Tools)
    BY <2>1, OrderIs
  <2>4. pc' \in {"mkdir", "restore", "round"}
    BY <2>1, <2>2
  <2>5. ASSUME NEW t \in Tools PROVE UpToDate(t)'
    <3>1. UpToDate(t)
      BY <2>2 DEF Counted
    <3>2. CASE \A k \in 1..n : rest[k] # t
      <4>1. Seen(t)' = Seen(t)
        BY <2>1, <2>2, <2>3, <3>2, SeenAfterTurns
      <4> QED BY <2>2, <3>1, <4>1, UpToDateStays
    <3>3. CASE ~(\A k \in 1..n : rest[k] # t)
      <4>1. ~Open(t)
        BY <2>1, <3>3
      <4>2. Closed(w, t)
        BY <4>1, Zenon DEF Open, Closed
      <4>3. Closed(w, t)' /\ cases'[w][t].made
        BY <1>w, <2>2, <3>1, <4>2, ClosedStays DEF UpToDate, Closed, Skipped
      <4> QED BY <2>2, <4>3 DEF UpToDate
    <3> QED BY <3>2, <3>3
  <2> QED BY <1>p, <2>2, <2>4, <2>5 DEF Counted
<1>5. CASE Record
  <2>0. w' = w /\ pc = "record" /\ exc = "none"
    BY <1>5 DEF Record, Fair, Place
  <2>1. CASE abort
    BY <1>0, <1>5, <2>1 DEF Record
  <2>2. CASE ~abort
    <3>1. pc' = "pick"
      BY <1>5, <2>2 DEF Record
    <3>2. ASSUME NEW t \in Tools PROVE UpToDate(t)'
      BY <1>5, <2>0, <2>2, UpToDateRecord DEF Counted
    <3> QED BY <1>0, <1>p, <2>0, <3>1, <3>2 DEF Counted
  <2> QED BY <2>1, <2>2
<1>6. CASE Snapshot \/ Change
  BY <1>6, CountedFrame DEF Snapshot, Change, Checksum, Record
<1>7. CASE SnapshotRaises \/ ChangeRaises
  BY <1>0, <1>7, <1>f DEF SnapshotRaises, ChangeRaises
<1>8. CASE RepeatRaises
  <2>1. /\ pc \in InRepeat /\ pc' = "remove" /\ UNCHANGED <<w, rest, round>>
    BY <1>8 DEF RepeatRaises
  <2> QED BY <1>e, <2>1, CountedFrame DEF Checksum, Record
<1>9. CASE MakeDestination \/ Prepopulate \/ VerifyCopy
  BY <1>9, CountedFrame DEF MakeDestination, Prepopulate, VerifyCopy, Checksum, Record
<1>10. CASE PrepareCache \/ Copy
  <2>1. /\ pc \in InRepeat /\ pc' \in {"copy", "verify", "remove"} /\ UNCHANGED <<w, rest, round, exc>>
    BY <1>10 DEF PrepareCache, Copy
  <2> QED BY <2>1, CountedFrame DEF Checksum, Record
<1>11. CASE RemoveDestination \/ RemoveDestinationFails
  BY <1>11, CountedFrame DEF RemoveDestination, RemoveDestinationFails, Checksum, Record
<1>12. CASE RemoveDestinationInterrupted
  BY <1>0, <1>12 DEF RemoveDestinationInterrupted
<1>13. CASE Restore
  <2>1. CASE Removed("src", "rename")
    BY <1>13, <2>1, CountedFrame DEF Restore, Checksum, Record
  <2>2. CASE RemovalRaises("src", "release")
    BY <1>0, <2>2, <1>f
  <2> QED BY <1>13, <2>1, <2>2 DEF Restore
<1>14. CASE Rename
  BY <1>14, CountedFrame DEF Rename, Checksum, Record
<1>15. CASE RenameRaises \/ ReleaseRaises
  BY <1>0, <1>15, <1>f DEF RenameRaises, ReleaseRaises
<1>16. CASE Release
  <2>0. pc = "release" /\ ~Checksum /\ ~Record /\ cases' = cases /\ exc' = exc
    BY <1>16 DEF Release, Checksum, Record
  <2>1. CASE exc = "none" /\ w < Len(Plan)
    <3>1. w' = w + 1 /\ pc' = "prepare" /\ w \in Nat
      BY <1>16, <1>w, <2>1 DEF Release
    <3>2. ASSUME NEW v \in 1..(w' - 1), NEW t \in Tools PROVE Complete(v, t)'
      <4>1. v \in 1..(w - 1) \/ v = w
        BY <3>1
      <4>2. Complete(v, t)
        BY <2>0, <2>1, <4>1 DEF Counted
      <4> QED BY <1>w, <2>0, <4>1, <4>2, CompleteStays
    <3> QED BY <3>1, <3>2 DEF Counted
  <2>2. CASE exc = "none" /\ ~(w < Len(Plan))
    <3>1. w' = w /\ pc' = "end" /\ w = Len(Plan)
      BY <1>16, <1>w, <2>2 DEF Release
    <3>2. ASSUME NEW t \in Tools PROVE Complete(w, t)
      BY <2>0, <2>2 DEF Counted
    <3>3. ASSUME NEW t \in Tools PROVE Complete(w, t)'
      BY <2>0, <3>1, <3>2 DEF Complete, Closed, Skipped, Plan, CopyOnly
    <3>4. w' = Len(Plan)'
      BY <3>1 DEF Plan
    <3> QED BY <1>0, <1>p, <3>1, <3>3, <3>4 DEF Counted
  <2>3. CASE exc # "none"
    BY <1>0, <2>0, <2>3
  <2> QED BY <2>1, <2>2, <2>3
<1>17. CASE End \/ Ended
  BY <1>17, CountedFrame DEF End, Ended, Checksum, Record
<1>18. CASE Unsnap
  <2>1. exc # "none"
    BY <1>18 DEF Unsnap, Tidy
  <2> QED BY <1>e, <1>0, <2>1
<1>a. CASE Generate \/ GenerateRaises \/ Checksum \/ ChecksumRaises \/ NextRound
           \/ Snapshot \/ SnapshotRaises \/ Change \/ ChangeRaises \/ Unsnap
  BY <1>1, <1>2, <1>3, <1>6, <1>7, <1>18, <1>a, Zenon
<1>b. CASE Pick \/ RepeatRaises \/ MakeDestination \/ Prepopulate \/ PrepareCache
           \/ Copy \/ VerifyCopy \/ RemoveDestination \/ RemoveDestinationFails
           \/ RemoveDestinationInterrupted \/ Record
  BY <1>4, <1>5, <1>8, <1>9, <1>10, <1>11, <1>12, <1>b, Zenon
<1>c. CASE Restore \/ Rename \/ RenameRaises \/ Release \/ ReleaseRaises \/ End \/ Ended
  BY <1>13, <1>14, <1>15, <1>16, <1>17, <1>c, Zenon
<1> QED BY <1>a, <1>b, <1>c, Zenon DEF Step

\* A repeat is recorded with the error it means.
LEMMA AuditedNext ==
    ASSUME Fair, Types, Row, Current, Audited, Step, setup' = setup
    PROVE  Audited'
<1>f. Faults \subseteq {"step", "interrupt"}
  BY ConstantsOK DEF AllFaults
<1>e. exc' = "none" => exc = "none"
  BY Frames
<1>1. SUFFICES ASSUME exc' = "none",
                      NEW v \in DOMAIN Plan, NEW t \in Tools, NEW i \in DOMAIN cases'[v][t].reps
               PROVE  LET r == cases'[v][t].reps[i] IN
                      /\ r.code # "ok" => cases'[v][t].error
                      /\ Verify /\ r.code = "ok" => r.verified # "none"
  BY DEF Audited, Plan, Verify
<1>2. /\ cases[v] \in [Tools -> Case] /\ cases[w] \in [Tools -> Case] /\ rep \in Reps
      /\ cases[v][t].reps \in Seq(Reps)
  BY DEF Types, Case, Fair, Place
<1>3. \A k \in DOMAIN cases[v][t].reps :
         /\ cases[v][t].reps[k].code # "ok" => cases[v][t].error
         /\ Verify /\ cases[v][t].reps[k].code = "ok" => cases[v][t].reps[k].verified # "none"
  BY <1>1, <1>e DEF Audited
<1>4. CASE ~(Checksum /\ v = w)
  <2>1. cases[v][t].error => cases'[v][t].error
    <3>1. CASE Record /\ ~abort /\ v = w /\ cases'[v][t] = Judged(Head(rest))[t]
      <4>1. Head(rest) \in Tools
        BY <3>1, HeadIsTool DEF Record, Row, InRow
      <4>2. Judged(Head(rest))[t].error <=> cases[w][t].error \/ (t = Head(rest) /\ rep.code # "ok")
        BY <1>2, <4>1, JudgedIs
      <4> QED BY <3>1, <4>2, Zenon
    <3>2. CASE ~(Record /\ ~abort /\ v = w /\ cases'[v][t] = Judged(Head(rest))[t])
      BY <1>4, <3>2, CasesNext, Zenon
    <3> QED BY <3>1, <3>2
  <2>2. CASE cases'[v][t].reps = cases[v][t].reps
    BY <1>3, <2>1, <2>2
  <2>3. CASE Record /\ v = w /\ t = Head(rest) /\ cases'[v][t].reps = Append(cases[v][t].reps, rep)
    <3>1. ~abort /\ pc = "record" /\ cases' = [cases EXCEPT ![w] = Judged(Head(rest))]
      BY <1>1, <2>3 DEF Record
    <3>2. cases'[v][t] = Judged(Head(rest))[t] /\ t \in Tools
      BY <2>3, <3>1 DEF Types
    <3>3. Judged(Head(rest))[t].error <=> cases[w][t].error \/ (t = Head(rest) /\ rep.code # "ok")
      BY <1>2, <2>3, JudgedIs
    <3>4. rep.code # "ok" => cases'[v][t].error
      BY <2>3, <3>2, <3>3, Zenon
    <3>5. Verify /\ rep.code = "ok" => rep.verified # "none"
      BY <1>1, <1>e, <3>1 DEF Current
    <3>6. \/ i \in DOMAIN cases[v][t].reps /\ cases'[v][t].reps[i] = cases[v][t].reps[i]
          \/ cases'[v][t].reps[i] = rep
      BY <1>2, <2>3
    <3> QED BY <1>3, <2>1, <3>4, <3>5, <3>6
  <2> QED BY <1>4, <2>2, <2>3, RepeatsNext
<1>5. CASE Checksum /\ v = w
  <2>1. cases'[v][t].reps = <<>>
    BY <1>5, CasesNext DEF Checksum, Record, RepeatRaises
  <2> QED BY <2>1
<1> QED BY <1>4, <1>5

\* Exit code 0 is given by End alone.
LEMMA PassedNext ==
    ASSUME Fair, Types, Passed, Step, setup' = setup
    PROVE  Passed'
<1> USE DEF Raise, RaiseTo, RemovalRaises, Removed, Leave
<1>1. CASE End
  <2>1. /\ pc = "end" /\ exc' = exc /\ cases' = cases /\ aborted' = (exc = "cleanup")
        /\ code' = IF exc \in {"none", "cleanup"} /\ ~Failed THEN 0 ELSE 1
    BY <1>1 DEF End
  <2>2. code' = 0 => exc \in {"none", "cleanup"} /\ ~Failed
    BY <2>1
  <2>3. ~Failed => exc # "cleanup" /\ ~FailedCases
    BY <2>1 DEF Failed
  <2>4. FailedCases' <=> FailedCases
    BY <2>1 DEF FailedCases, Plan
  <2> QED BY <2>1, <2>2, <2>3, <2>4 DEF Passed
<1>2. CASE Ended
  BY <1>2 DEF Ended, Passed, FailedCases, Plan
<1>3. CASE Generate \/ GenerateRaises \/ Checksum \/ ChecksumRaises \/ NextRound
  BY <1>3 DEF Generate, GenerateRaises, Checksum, ChecksumRaises, NextRound, Passed
<1>4. CASE Snapshot \/ SnapshotRaises \/ Change \/ ChangeRaises \/ Unsnap
  BY <1>4 DEF Snapshot, SnapshotRaises, Change, ChangeRaises, Unsnap, Passed
<1>5. CASE Pick \/ RepeatRaises \/ MakeDestination \/ Prepopulate \/ PrepareCache \/ Copy \/ VerifyCopy
  <2>1. pc' # "done"
    BY <1>5 DEF Pick, RepeatRaises, MakeDestination, Prepopulate, PrepareCache, Copy, VerifyCopy
  <2> QED BY <2>1 DEF Passed
<1>6. CASE RemoveDestination \/ RemoveDestinationFails \/ RemoveDestinationInterrupted \/ Record
  <2>1. pc' # "done"
    BY <1>6 DEF RemoveDestination, RemoveDestinationFails, RemoveDestinationInterrupted, Record
  <2> QED BY <2>1 DEF Passed
<1>7. CASE Restore \/ Rename \/ RenameRaises \/ Release \/ ReleaseRaises
  <2>1. pc' # "done"
    BY <1>7 DEF Restore, Rename, RenameRaises, Release, ReleaseRaises
  <2> QED BY <2>1 DEF Passed
<1> QED BY <1>1, <1>2, <1>3, <1>4, <1>5, <1>6, <1>7 DEF Step

-----------------------------------------------------------------------------
(* The theorems.                                                           *)

\* The inductive invariant of this section.
Records ==
    /\ Fair /\ Explained /\ Types /\ Row /\ Sum /\ Current /\ Cached /\ Shown /\ CurtailedWasMeasured
    /\ Tidy /\ Counted /\ Audited /\ Passed

LEMMA RecordsInit == Init => Records
<1> SUFFICES ASSUME Init PROVE Records
  OBVIOUS
<1>1. Sum /\ Cached
  BY DEF Init, Sum, Cached, Unread, InRound, InRepeat
<1>2. Current
  BY DEF Init, Current, RightRep, ColdRep, NewRep
<1>3. \A v \in DOMAIN Plan, t \in Tools : cases[v][t] = NewCase
  BY DEF Init
<1>4. Shown
  BY <1>3 DEF Shown, NewCase
<1>5. CurtailedWasMeasured
  BY <1>3 DEF CurtailedWasMeasured, NewCase
<1> QED BY <1>1, <1>2, <1>4, <1>5, FairInit, ExplainedInit, TypesInit, RowInit, TidyInit, CountedInit
        DEF Records

LEMMA RecordsStutter == Records /\ UNCHANGED vars => Records'
<1> SUFFICES ASSUME Records, UNCHANGED vars PROVE Records'
  OBVIOUS
<1>1. Fair' /\ Explained'
  BY FairStutter, ExplainedStutter DEF Records
<1>2. Types' /\ Row' /\ Sum'
  BY DEF Records, Types, Row, Sum, Past, Target, Mode, Plan, Incremental, Verify, vars
<1>3. Current' /\ Cached' /\ Shown'
  BY DEF Records, Current, Cached, Shown, Unread, Past, RightRep, ColdRep, Prepared, Unsynced,
         RemoteDestination, Mode, Plan, Incremental, Verify, Cache, vars
<1>4. CurtailedWasMeasured' /\ Tidy' /\ Audited' /\ Passed'
  BY DEF Records, CurtailedWasMeasured, Good, Tidy, Audited, Passed, FailedCases, Given, Mode, Plan,
         Incremental, Verify, vars
<1>5. Counted'
  BY DEF Records, Counted, Complete, UpToDate, Closed, Skipped, Seen, Past, Plan, CopyOnly, vars
<1> QED BY <1>1, <1>2, <1>3, <1>4, <1>5 DEF Records

LEMMA RecordsNext == Records /\ [Next]_vars => Records'
<1>1. ASSUME Records, Step, setup' = setup PROVE Records'
  <2> USE <1>1 DEF Records
  <2>1. Fair' /\ Explained'
    BY FairSetUp, FairRepeat, FairLeave, ExplainedSetUp, ExplainedRepeat, ExplainedLeave DEF Step
  <2>2. Types' /\ Row' /\ Sum'
    BY TypesNext, RowNext, SumNext
  <2>3. Current' /\ Cached' /\ Shown'
    BY CurrentNext, CachedNext, ShownNext DEF Explained
  <2>4. CurtailedWasMeasured' /\ Tidy' /\ Counted'
    BY CurtailedNext, TidyNext, CountedNext
  <2>5. Audited' /\ Passed'
    BY AuditedNext, PassedNext
  <2> QED BY <2>1, <2>2, <2>3, <2>4, <2>5
<1> QED BY <1>1, RecordsStutter DEF Next

\* Records holds throughout every run.
LEMMA RecordsHold == Spec => []Records
BY RecordsInit, RecordsNext, PTL DEF Spec

\* A repeat recorded as verified is a copy of the source as it was in its round,
\* and unless a harness step failed a right copy is never called wrong, however
\* the source changed and whatever failed before (_repeat, _snapshot_and_change).
THEOREM VerdictsAreRight == Spec => []VerdictIsRight
<1>1. Records => VerdictIsRight
  BY DEF Records, Shown, RightRep, VerdictIsRight, AllReps
<1> QED BY <1>1, RecordsHold, PTL

\* Where "drop" is recorded, no page of either tree was cached when the tool
\* started; where "evict" is, none but a remote destination's that was filled for
\* the repeat and not flushed.  The one read that is not evicted for is the first
\* after a generation that bypassed the page cache (_prepare_cache, _prepopulate).
THEOREM ColdCopiesAreCold == Spec => []ColdIsCold
<1>1. Records => ColdIsCold
  BY DEF Records, Shown, ColdRep, Prepared, ColdIsCold
<1> QED BY <1>1, RecordsHold, PTL

\* A tool is given up as slow only with a good repeat of its own and another
\* tool's to compare it with (_skip_if_hopeless).
THEOREM CurtailedCasesMeasured == Spec => []CurtailedWasMeasured
<1>1. Records => CurtailedWasMeasured
  BY DEF Records
<1> QED BY <1>1, RecordsHold, PTL

\* Exit code 0 means that every case was measured as often as the round order
\* has its tool, or was slow and measured, that each repeat is a right copy, and
\* that nothing is left in the scratch directories (execute, cmd_run).
THEOREM SuccessMeansComplete == Spec => []SuccessIsComplete
<1>1. ASSUME Records, pc = "done", code = 0
      PROVE  /\ \A n \in Trees : tree[n] = IF n = "src" /\ Given THEN 0 ELSE Absent
             /\ \A v \in DOMAIN Plan, t \in Tools :
                   Skipped(v, t) \/
                   LET c == cases[v][t] IN
                   /\ c.made
                   /\ Len(c.reps) = Planned(t) \/ (c.curtailed /\ Len(c.reps) > 0)
                   /\ \A i \in DOMAIN c.reps : c.reps[i].code = "ok" /\ (Verify => c.reps[i].right)
  <2>1. exc = "none" /\ ~FailedCases
    BY <1>1 DEF Records, Passed
  <2>2. \A n \in Trees : tree[n] = IF n = "src" /\ Given THEN 0 ELSE Absent
    BY <1>1, <2>1 DEF Records, Tidy, Trees, InRound, InRepeat
  <2>3. ASSUME NEW v \in DOMAIN Plan, NEW t \in Tools, ~Skipped(v, t)
        PROVE  /\ cases[v][t].made
               /\ Len(cases[v][t].reps) = Planned(t) \/ (cases[v][t].curtailed /\ Len(cases[v][t].reps) > 0)
               /\ \A i \in DOMAIN cases[v][t].reps :
                     cases[v][t].reps[i].code = "ok" /\ (Verify => cases[v][t].reps[i].right)
    <3>1. Plan \in Seq(Modes) /\ w = Len(Plan)
      BY <1>1, <2>1, ConstantsOK DEF Records, Fair, Place, Plan, Counted
    <3>2. v \in 1..(w - 1) \/ v = w
      BY <3>1
    <3>3. Complete(v, t)
      BY <1>1, <2>1, <3>2 DEF Records, Counted
    <3>4. ~cases[v][t].error
      BY <2>1, Zenon DEF FailedCases
    <3>5. cases[v][t].reps \in Seq(Reps)
      BY <1>1 DEF Records, Types, Case
    <3>6. cases[v][t].curtailed => Len(cases[v][t].reps) > 0
      <4>1. cases[v][t].curtailed => DOMAIN cases[v][t].reps # {}
        BY <1>1 DEF Records, CurtailedWasMeasured, Good
      <4> QED BY <3>5, <4>1
    <3>7. ASSUME NEW i \in DOMAIN cases[v][t].reps
          PROVE  cases[v][t].reps[i].code = "ok" /\ (Verify => cases[v][t].reps[i].right)
      <4>1. cases[v][t].reps[i].code = "ok"
        BY <1>1, <2>1, <3>4, Zenon DEF Records, Audited
      <4>2. cases[v][t].reps[i].verified \in {"none", "yes", "no"}
        <5>1. cases[v][t].reps[i] \in Reps
          BY <3>5
        <5> QED BY <5>1 DEF Reps
      <4>3. cases[v][t].reps[i].verified # "no"
        BY <2>1, Zenon DEF FailedCases
      <4>4. Verify => cases[v][t].reps[i].verified # "none"
        BY <1>1, <2>1, <4>1, Zenon DEF Records, Audited
      <4>5. cases[v][t].reps[i].verified = "yes" => cases[v][t].reps[i].right
        BY <1>1, Zenon DEF Records, Shown, RightRep
      <4> QED BY <4>1, <4>2, <4>3, <4>4, <4>5
    <3>8. cases[v][t].made /\ (cases[v][t].curtailed \/ Len(cases[v][t].reps) = Planned(t))
      BY <2>3, <3>3, <3>4, Zenon DEF Complete, Closed
    <3> QED BY <3>6, <3>7, <3>8
  <2> QED BY <2>2, <2>3
<1>2. Records => SuccessIsComplete
  BY <1>1 DEF SuccessIsComplete
<1> QED BY <1>2, RecordsHold, PTL

-----------------------------------------------------------------------------
(* The user's trees.                                                       *)

\* Nothing is snapshot in a run that generates nothing.
Kept ==
    /\ Given /\ pc # "prepare" => tree["src"] = 0
    /\ pc = "unsnap" => Incremental
    /\ setup.given = DOMAIN Plan => tree["before"] = Absent

LEMMA GivenIsFresh == ASSUME Fair, Given PROVE ~Incremental
BY ConstantsOK DEF Fair, Place, Given, Incremental, Mode, Plan

LEMMA AllGiven == ASSUME Fair, setup.given = DOMAIN Plan PROVE ~Incremental
BY GivenIsFresh DEF Fair, Place, Given

LEMMA KeptInit == Init => Kept
BY DEF Init, Kept, Trees

LEMMA KeptSetUp ==
    ASSUME Fair, Kept, setup' = setup,
           Generate \/ GenerateRaises \/ Checksum \/ ChecksumRaises \/ NextRound
           \/ Snapshot \/ SnapshotRaises \/ Change \/ ChangeRaises \/ Unsnap
    PROVE  Kept'
<1> USE GivenIsFresh, AllGiven DEF Fair, Place, Kept, Trees, Mode, Plan, Given, Incremental,
            RaiseTo, Raise, Removed, RemovalRaises
<1>1. CASE Generate  BY <1>1 DEF Generate
<1>2. CASE GenerateRaises  BY <1>2 DEF GenerateRaises
<1>3. CASE Checksum  BY <1>3 DEF Checksum
<1>4. CASE ChecksumRaises  BY <1>4 DEF ChecksumRaises
<1>5. CASE NextRound  BY <1>5 DEF NextRound
<1>6. CASE Snapshot  BY <1>6 DEF Snapshot
<1>7. CASE SnapshotRaises  BY <1>7 DEF SnapshotRaises
<1>8. CASE Change  BY <1>8 DEF Change
<1>9. CASE ChangeRaises  BY <1>9 DEF ChangeRaises
<1>10. CASE Unsnap  BY <1>10 DEF Unsnap
<1> QED  BY <1>1, <1>2, <1>3, <1>4, <1>5, <1>6, <1>7, <1>8, <1>9, <1>10

LEMMA KeptRepeat ==
    ASSUME Fair, Kept, setup' = setup,
           Pick \/ RepeatRaises \/ MakeDestination \/ Prepopulate \/ PrepareCache
           \/ Copy \/ VerifyCopy
           \/ RemoveDestination \/ RemoveDestinationFails
           \/ RemoveDestinationInterrupted \/ Record
    PROVE  Kept'
<1> USE DEF Fair, Place, Kept, Trees, Mode, Plan, Given, Incremental, RaiseTo, Removed, Leave
<1>1. CASE Pick  BY <1>1 DEF Pick
<1>2. CASE RepeatRaises  BY <1>2 DEF RepeatRaises
<1>3. CASE MakeDestination  BY <1>3 DEF MakeDestination
<1>4. CASE Prepopulate  BY <1>4 DEF Prepopulate
<1>5. CASE PrepareCache  BY <1>5 DEF PrepareCache
<1>6. CASE Copy  BY <1>6 DEF Copy
<1>7. CASE VerifyCopy  BY <1>7 DEF VerifyCopy
<1>8. CASE RemoveDestination  BY <1>8 DEF RemoveDestination
<1>9. CASE RemoveDestinationFails  BY <1>9 DEF RemoveDestinationFails
<1>10. CASE RemoveDestinationInterrupted  BY <1>10 DEF RemoveDestinationInterrupted
<1>11. CASE Record  BY <1>11 DEF Record
<1> QED  BY <1>1, <1>2, <1>3, <1>4, <1>5, <1>6, <1>7, <1>8, <1>9, <1>10, <1>11

LEMMA KeptLeave ==
    ASSUME Fair, Kept, setup' = setup,
           Restore \/ Rename \/ RenameRaises \/ Release \/ ReleaseRaises \/ End \/ Ended
    PROVE  Kept'
<1> USE GivenIsFresh, AllGiven DEF Fair, Place, Kept, Trees, Mode, Plan, Given, Incremental,
            RaiseTo, Removed, RemovalRaises
<1>1. CASE Restore  BY <1>1 DEF Restore
<1>2. CASE Rename  BY <1>2 DEF Rename
<1>3. CASE RenameRaises  BY <1>3 DEF RenameRaises
<1>4. CASE Release  BY <1>4 DEF Release
<1>5. CASE ReleaseRaises  BY <1>5 DEF ReleaseRaises
<1>6. CASE End  BY <1>6 DEF End
<1>7. CASE Ended  BY <1>7 DEF Ended
<1> QED  BY <1>1, <1>2, <1>3, <1>4, <1>5, <1>6, <1>7

LEMMA KeptStutter == Kept /\ UNCHANGED vars => Kept'
BY DEF Kept, Mode, Plan, Incremental, Given, vars

-----------------------------------------------------------------------------
(* Where the trees are.                                                      *)

\* What is below a directory that does not overlap another one is apart from it.
LEMMA BelowIsApart ==
    ASSUME NEW r \in Locations, NEW x \in Locations, NEW n, ~Overlaps(x, r)
    PROVE  Apart([r EXCEPT !.path = Append(@, n)], x)
<1> DEFINE b == [r EXCEPT !.path = Append(@, n)]
<1>1. r.path \in Seq(STRING) /\ x.path \in Seq(STRING)
  BY DEF Locations
<1>2. b.host = r.host /\ b.path = Append(r.path, n)
  BY DEF Locations
<1>3. CASE x.host # r.host
  BY <1>2, <1>3 DEF Apart
<1>4. CASE x.host = r.host
  <2>1. ~IsPrefix(x.path, r.path) /\ ~IsPrefix(r.path, x.path)
    BY <1>4 DEF Overlaps
  <2>2. \E i \in DOMAIN r.path \cap DOMAIN x.path : r.path[i] # x.path[i]
    <3> SUFFICES ASSUME \A i \in DOMAIN r.path \cap DOMAIN x.path : r.path[i] = x.path[i]
                 PROVE  FALSE
      OBVIOUS
    <3>1. CASE Len(x.path) <= Len(r.path)
      <4>1. SubSeq(x.path, 1, Len(x.path)) = SubSeq(r.path, 1, Len(x.path))
        BY <1>1, <3>1
      <4> QED
        BY <2>1, <3>1, <4>1 DEF IsPrefix
    <3>2. CASE Len(r.path) <= Len(x.path)
      <4>1. SubSeq(r.path, 1, Len(r.path)) = SubSeq(x.path, 1, Len(r.path))
        BY <1>1, <3>2
      <4> QED
        BY <2>1, <3>2, <4>1 DEF IsPrefix
    <3> QED
      BY <1>1, <3>1, <3>2
  <2>3. \A i \in DOMAIN r.path : i \in DOMAIN b.path /\ b.path[i] = r.path[i]
    <3>1. r.path \in Seq(STRING \cup {n})
      BY <1>1
    <3> QED
      BY <1>2, <3>1
  <2> QED
    BY <2>2, <2>3 DEF Apart
<1> QED
  BY <1>3, <1>4

\* The user's trees are as they were, and all the run makes is apart from them.
THEOREM UserDataIsSafe == Spec => []UserDataUntouched
<1>1. Init => Fair /\ Kept
  BY FairInit, KeptInit
<1>2. Fair /\ Kept /\ [Next]_vars => (Fair /\ Kept)'
  BY FairSetUp, FairRepeat, FairLeave, FairStutter,
     KeptSetUp, KeptRepeat, KeptLeave, KeptStutter DEF Next, Step
<1>3. ASSUME Fair, Kept, NEW v \in setup.given, NEW n \in Trees,
             tree[n] # Absent, ~(n = "src" /\ Given)
      PROVE  Apart(LocationOf(n), Work(v).at)
  <2>1. /\ setup \in Setups /\ w \in DOMAIN Plan
        /\ DOMAIN Plan = DOMAIN setup.work
        /\ setup.given = DOMAIN setup.work \ Generated(setup)
        /\ setup.src \in Locations /\ setup.dst \in Locations /\ Work(v).at \in Locations
        /\ Accepts(setup)
    BY <1>3, SetupsAccepted DEF Fair, Place, Plan, Work
  <2>2. /\ ~Overlaps(Work(v).at, setup.dst)
        /\ Generated(setup) # {} => ~Overlaps(Work(v).at, setup.src)
    BY <2>1 DEF Accepts, Work
  <2>3. CASE n = "dst"
    <3>1. LocationOf("dst") = [setup.dst EXCEPT !.path = Append(@, "copy")]
      BY DEF LocationOf
    <3>2. Apart([setup.dst EXCEPT !.path = Append(@, "copy")], Work(v).at)
      BY <2>1, <2>2, BelowIsApart
    <3> QED
      BY <2>3, <3>1, <3>2
  <2>4. CASE n # "dst"
    <3>1. Generated(setup) # {}
      <4>1. CASE n = "src"
        BY <1>3, <2>1, <4>1 DEF Given
      <4>2. CASE n = "before"
        BY <1>3, <2>1, <4>2 DEF Kept
      <4> QED
        BY <1>3, <2>4, <4>1, <4>2 DEF Trees
    <3>2. LocationOf(n) = [setup.src EXCEPT !.path = Append(@, n)]
      BY <1>3, <2>4 DEF LocationOf
    <3> QED
      BY <2>1, <2>2, <3>1, <3>2, BelowIsApart
  <2> QED
    BY <2>3, <2>4
<1>4. Fair /\ Kept => UserDataUntouched
  BY <1>3 DEF UserDataUntouched, Kept
<1> QED
  BY <1>1, <1>2, <1>4, PTL DEF Spec

-----------------------------------------------------------------------------
(* The sizes of a generated tree's files.                                  *)

\* The sizes of n files.
AreSizes(z, n) == z \in [1..n -> Nat]

\* In the order of the corrections file i is not after file j.
Before(z, i, j) == z[i] > z[j] \/ (z[i] = z[j] /\ i <= j)

\* The files can be sorted: each goes to the place that as many are before.
LEMMA LargestIs ==
    ASSUME NEW n \in Nat, NEW z, AreSizes(z, n)
    PROVE  /\ Largest(z) \in [1..n -> 1..n]
           /\ \A k \in 1..n : \E i \in 1..n : Largest(z)[i] = k
<1> DEFINE D == 1..n
           Ahead(i) == {j \in D : Before(z, j, i)}
           rank == [i \in D |-> Cardinality(Ahead(i))]
           Sorted(s) == \A i, j \in D : i < j =>
                            \/ z[s[i]] > z[s[j]]
                            \/ z[s[i]] = z[s[j]] /\ s[i] < s[j]
<1>1. /\ IsFiniteSet(D) /\ Cardinality(D) = n /\ DOMAIN z = D
      /\ \A i \in D : z[i] \in Nat /\ i \in Nat
  BY UpTo DEF AreSizes
<1>2. \A i \in D : IsFiniteSet(Ahead(i)) /\ Cardinality(Ahead(i)) \in D
  <2> SUFFICES ASSUME NEW i \in D PROVE IsFiniteSet(Ahead(i)) /\ Cardinality(Ahead(i)) \in D
    OBVIOUS
  <2>1. Ahead(i) \in SUBSET D /\ i \in Ahead(i)
    BY <1>1 DEF Before
  <2> HIDE DEF Ahead
  <2>2. IsFiniteSet(Ahead(i)) /\ Cardinality(Ahead(i)) <= n /\ Cardinality(Ahead(i)) \in Nat
    BY <1>1, <2>1, FS_Subset, FS_CardinalityType
  <2>3. Cardinality(Ahead(i)) # 0
    BY <2>1, <2>2, FS_EmptySet
  <2> QED
    BY <2>2, <2>3
<1>3. \A i, j \in D : i # j /\ Before(z, i, j) => rank[i] < rank[j]
  <2> SUFFICES ASSUME NEW i \in D, NEW j \in D, i # j, Before(z, i, j) PROVE rank[i] < rank[j]
    OBVIOUS
  <2>1. Ahead(i) \subseteq Ahead(j) /\ j \in Ahead(j) /\ j \notin Ahead(i)
    BY <1>1 DEF Before
  <2> HIDE DEF Ahead
  <2>2. Ahead(i) \subseteq Ahead(j) \ {j} /\ IsFiniteSet(Ahead(j) \ {j})
        /\ Cardinality(Ahead(j) \ {j}) = Cardinality(Ahead(j)) - 1
    BY <1>2, <2>1, FS_RemoveElement
  <2>3. Cardinality(Ahead(i)) <= Cardinality(Ahead(j) \ {j})
    BY <2>2, FS_Subset
  <2>4. Cardinality(Ahead(i)) \in Nat /\ Cardinality(Ahead(j)) \in Nat
    BY <1>2
  <2> QED
    BY <2>2, <2>3, <2>4
<1> HIDE DEF Ahead
<1>4. \A k \in D : \E i \in D : rank[i] = k
  <2>1. rank \in [D -> D]
    BY <1>2
  <2>2. \A i, j \in D : rank[i] = rank[j] => i = j
    <3>1. \A i, j \in D : Before(z, i, j) \/ Before(z, j, i)
      BY <1>1 DEF Before
    <3>2. \A i \in D : rank[i] \in Nat
      BY <1>2
    <3> HIDE DEF rank
    <3> QED
      BY <1>3, <3>1, <3>2
  <2> HIDE DEF rank, D
  <2> QED
    BY <1>1, <2>1, <2>2, OneToOne
<1> DEFINE order == [k \in D |-> CHOOSE i \in D : rank[i] = k]
<1>5. order \in [D -> D] /\ \A k \in D : rank[order[k]] = k
  <2> HIDE DEF rank
  <2> QED
    BY <1>4
<1>6. Sorted(order)
  <2> SUFFICES ASSUME NEW i \in D, NEW j \in D, i < j
               PROVE  \/ z[order[i]] > z[order[j]]
                      \/ z[order[i]] = z[order[j]] /\ order[i] < order[j]
    OBVIOUS
  <2> HIDE DEF order, rank
  <2>1. order[i] \in D /\ order[j] \in D /\ rank[order[i]] = i /\ rank[order[j]] = j
    BY <1>5
  <2>2. order[i] # order[j]
    BY <2>1
  <2>3. ~Before(z, order[j], order[i])
    <3>1. ~(rank[order[j]] < rank[order[i]])
      BY <2>1
    <3> QED
      BY <1>3, <2>1, <2>2, <3>1
  <2> QED
    BY <1>1, <2>1, <2>2, <2>3 DEF Before
<1> HIDE DEF order, rank
<1>7. Largest(z) \in [D -> D] /\ Sorted(Largest(z))
  <2>1. \E s \in [D -> D] : Sorted(s)
    BY <1>5, <1>6
  <2>2. Largest(z) = CHOOSE s \in [D -> D] : Sorted(s)
    BY <1>1, Zenon DEF Largest
  <2> HIDE DEF Sorted
  <2> QED
    BY <2>1, <2>2
<1>8. \A i, j \in D : Largest(z)[i] = Largest(z)[j] => i = j
  <2>1. ASSUME NEW i \in D, NEW j \in D, i < j PROVE Largest(z)[i] # Largest(z)[j]
    <3> DEFINE x == Largest(z)[i]
               y == Largest(z)[j]
    <3>1. x \in D /\ y \in D
      BY <1>7
    <3>2. z[x] > z[y] \/ (z[x] = z[y] /\ x < y)
      BY <1>7, <2>1
    <3>3. z[x] \in Nat /\ z[y] \in Nat /\ x \in Nat /\ y \in Nat
      BY <1>1, <3>1
    <3> HIDE DEF x, y
    <3>4. x # y
      BY <3>2, <3>3
    <3> QED
      BY <3>4 DEF x, y
  <2> QED
    BY <1>1, <2>1
<1>9. \A k \in D : \E i \in D : Largest(z)[i] = k
  <2> HIDE DEF D, Sorted
  <2> QED
    BY <1>1, <1>7, <1>8, OneToOne
<1> QED
  BY <1>7, <1>9

\* Corrected is what its recursion says.
LEMMA CorrectedDefined ==
    ASSUME NEW z, NEW total, NEW floor, Len(z) \in Nat
    PROVE  LET after == Corrected(z, total, floor) IN
           /\ after[0] = z
           /\ \A k \in 1..Len(z) :
                  after[k] = Absorbed(after[k - 1], Largest(z)[k], total, floor)
<1> DEFINE Turn(y, k) == Absorbed(y, Largest(z)[k], total, floor)
           Up(g, N) == g = [k \in 0..N |-> IF k = 0 THEN z ELSE Turn(g[k - 1], k)]
           Missing == {N \in Nat : \A g : ~Up(g, N)}
<1>1. ASSUME Missing # {} PROVE FALSE
  <2> HIDE DEF Turn
  <2>1. PICK N \in Missing : \A M \in Missing : N <= M
    <3>1. Missing \in SUBSET Nat
      OBVIOUS
    <3> HIDE DEF Missing
    <3> QED
      BY <1>1, <3>1, LeastMember
  <2>2. CASE N = 0
    <3> DEFINE g == [k \in 0..0 |-> z]
    <3>1. \A k \in 0..0 : k = 0
      OBVIOUS
    <3>2. Up(g, 0)
      BY <3>1
    <3> QED
      BY <2>1, <2>2, <3>2
  <2>3. CASE N # 0
    <3>1. N \in Nat /\ N - 1 \in Nat /\ N - 1 \notin Missing
      <4>1. N \in Nat
        BY <2>1
      <4> HIDE DEF Missing
      <4> QED
        BY <2>1, <2>3, <4>1
    <3>2. PICK g : Up(g, N - 1)
      BY <3>1
    <3> DEFINE h == [k \in 0..N |-> IF k < N THEN g[k] ELSE Turn(g[N - 1], N)]
    <3>3. \A k \in 0..(N - 1) : h[k] = g[k] /\ k \in 0..N
      BY <3>1
    <3>4. \A k \in 0..(N - 1) : g[k] = IF k = 0 THEN z ELSE Turn(g[k - 1], k)
      BY <3>2
    <3>5. ASSUME NEW k \in 0..N
          PROVE  h[k] = IF k = 0 THEN z ELSE Turn(h[k - 1], k)
      <4>1. CASE k = N
        <5>1. N - 1 \in 0..(N - 1) /\ h[k] = Turn(g[N - 1], N)
          BY <3>1, <4>1
        <5> QED
          BY <2>3, <3>3, <4>1, <5>1
      <4>2. CASE k # N
        <5>1. k \in 0..(N - 1) /\ (k # 0 => k - 1 \in 0..(N - 1))
          BY <3>1, <4>2
        <5> QED
          BY <3>3, <3>4, <5>1
      <4> QED
        BY <4>1, <4>2
    <3>6. Up(h, N)
      <4> DEFINE rhs == [k \in 0..N |-> IF k = 0 THEN z ELSE Turn(h[k - 1], k)]
      <4>1. DOMAIN h = 0..N /\ h = [k \in 0..N |-> h[k]]
        OBVIOUS
      <4> HIDE DEF h
      <4>2. rhs = [k \in 0..N |-> h[k]]
        BY <3>5
      <4> QED
        BY <4>1, <4>2
    <3> QED
      BY <2>1, <3>6
  <2> QED
    BY <2>2, <2>3
<1> DEFINE N == Len(z)
           after == Corrected(z, total, floor)
<1>2. \E g : Up(g, N)
  BY <1>1
<1>3. after = CHOOSE g : Up(g, N)
  BY Zenon DEF Corrected
<1> HIDE DEF after
<1>4. Up(after, N)
  <2> HIDE DEF Up
  <2> QED
    BY <1>2, <1>3
<1>5. \A k \in 0..N : after[k] = IF k = 0 THEN z ELSE Turn(after[k - 1], k)
  <2> HIDE DEF Turn
  <2> QED
    BY <1>4, Zenon
<1>6. after[0] = z
  <2>1. 0 \in 0..N
    OBVIOUS
  <2> QED
    BY <1>5, <2>1
<1>7. \A k \in 1..N : after[k] = Turn(after[k - 1], k)
  <2>1. \A k \in 1..N : k \in 0..N /\ k # 0
    OBVIOUS
  <2> HIDE DEF Turn
  <2> QED
    BY <1>5, <2>1
<1> QED
  BY <1>6, <1>7 DEF after

\* What one correction does: it makes the sum right, or takes what is above the
\* floor and the sum is still too large.
LEMMA AbsorbedIs ==
    ASSUME NEW n \in Nat, NEW z, AreSizes(z, n), NEW k \in 1..n, NEW total \in Nat,
           NEW floor \in Nat, \A i \in 1..n : z[i] >= floor
    PROVE  LET y == Absorbed(z, k, total, floor) IN
           /\ AreSizes(y, n) /\ \A i \in 1..n : y[i] >= floor
           /\ \A i \in 1..n : i # k => y[i] = z[i]
           /\ SumFunction(z) \in Nat
           /\ SumFunction(z) = total => y = z
           /\ SumFunction(z) < total => SumFunction(y) = total
           /\ SumFunction(z) > total =>
                  SumFunction(y) = total \/ (SumFunction(y) > total /\ y[k] = floor)
<1> DEFINE diff == total - SumFunction(z)
           v == z[k] + IF diff < 0 THEN Max({diff, floor - z[k]}) ELSE diff
           y == [z EXCEPT ![k] = v]
<1>1. z \in [1..n -> Nat] /\ DOMAIN z = 1..n /\ z[k] \in Nat /\ z[k] >= floor /\ IsFiniteSet(1..n)
      /\ \A i \in 1..n : z[i] \in Nat
  BY UpTo DEF AreSizes
<1>2. SumFunction(z) \in Nat
  BY <1>1, SumIsUnits, UnitsFinite
<1>3. diff \in Int /\ floor - z[k] \in Int
  BY <1>1, <1>2
<1>4. v = IF diff >= 0 \/ diff >= floor - z[k] THEN z[k] + diff ELSE floor
  <2>1. Max({diff, floor - z[k]}) = IF diff >= floor - z[k] THEN diff ELSE floor - z[k]
    BY <1>3, Greater
  <2> QED
    BY <1>1, <1>3, <2>1
<1>5. v \in Nat /\ v >= floor
  BY <1>1, <1>3, <1>4
<1>6. SumFunction(y) = SumFunction(z) - z[k] + v
  <2> HIDE DEF v
  <2> QED
    BY <1>1, <1>5, SumChange
<1>7. Absorbed(z, k, total, floor) = y
  BY DEF Absorbed
<1>8. DOMAIN y = 1..n /\ y[k] = v /\ \A i \in 1..n : i # k => y[i] = z[i]
  <2> HIDE DEF v
  <2> QED
    BY <1>1
<1>9. AreSizes(y, n) /\ \A i \in 1..n : y[i] >= floor
  <2> HIDE DEF v
  <2>1. AreSizes(y, n)
    BY <1>1, <1>5 DEF AreSizes
  <2> HIDE DEF y
  <2> QED
    BY <1>1, <1>5, <1>8, <2>1
<1>10. ASSUME SumFunction(z) = total PROVE y = z
  <2>1. diff = 0
    BY <1>2, <1>10
  <2>2. v = z[k]
    BY <1>1, <1>4, <2>1
  <2> HIDE DEF v
  <2> QED
    BY <1>1, <2>2
<1>11. SumFunction(z) < total => SumFunction(y) = total
  <2> HIDE DEF y, v
  <2> QED
    BY <1>1, <1>2, <1>4, <1>6
<1>12. SumFunction(z) > total => SumFunction(y) = total \/ (SumFunction(y) > total /\ y[k] = floor)
  <2> HIDE DEF y, v
  <2> QED
    BY <1>1, <1>2, <1>4, <1>6, <1>8
<1> HIDE DEF y
<1> QED
  BY <1>2, <1>7, <1>8, <1>9, <1>10, <1>11, <1>12

\* What is meant by div.
LEMMA Quotient ==
    ASSUME NEW b \in Nat, NEW n \in Nat, n > 0, b >= n
    PROVE  /\ b \div n \in Nat /\ b \div n >= 1
           /\ n * (b \div n) <= b /\ b < n * (b \div n) + n
<1> DEFINE q == b \div n
           r == b % n
<1>1. q \in Int /\ r \in Int /\ b = n * q + r /\ 0 <= r /\ r < n
  BY Z3
<1> HIDE DEF q, r
<1>2. q >= 1
  <2> SUFFICES ASSUME q <= 0 PROVE FALSE
    BY <1>1
  <2>1. n * q <= 0
    BY <1>1
  <2> QED
    BY <1>1, <2>1
<1>3. n * q \in Int
  BY <1>1
<1> QED
  BY <1>1, <1>2, <1>3 DEF q

\* The drawn sizes as they are scaled.
LEMMA ScaledIs ==
    ASSUME NEW n \in Nat \ {0}, NEW raw \in [1..n -> Draws], NEW total \in Nat, NEW floor \in Nat
    PROVE  LET z == Scaled(raw, total, floor) IN
           AreSizes(z, n) /\ Len(z) = n /\ \A i \in 1..n : z[i] >= floor
<1> DEFINE sum == SumFunction(raw)
           part(i) == (raw[i] * total) \div sum
           z == Scaled(raw, total, floor)
<1>1. \A i \in 1..n : raw[i] \in Nat /\ raw[i] >= 1
  BY SpaceConstants
<1>2. DOMAIN raw = 1..n /\ IsFiniteSet(1..n)
  BY UpTo
<1>3. sum \in Nat /\ sum > 0
  <2>1. sum = Cardinality(Units(raw, 1..n)) /\ IsFiniteSet(Units(raw, 1..n)) /\ sum \in Nat
    BY <1>1, <1>2, SumIsUnits, UnitsFinite
  <2>2. <<1, 1>> \in Units(raw, 1..n)
    BY <1>1 DEF Units
  <2>3. sum # 0
    BY <2>1, <2>2, FS_EmptySet
  <2> QED
    BY <2>1, <2>3
<1>4. \A i \in 1..n : part(i) \in Int
  <2> HIDE DEF sum
  <2>1. ASSUME NEW i \in 1..n PROVE part(i) \in Int
    <3> DEFINE p == raw[i] * total
    <3>1. p \in Int
      BY <1>1
    <3> HIDE DEF p
    <3>2. p \div sum \in Int
      BY <1>3, <3>1
    <3> QED
      BY <3>2 DEF p
  <2> QED
    BY <2>1
<1> HIDE DEF part
<1>5. z = [i \in 1..n |-> Max({part(i), floor})]
  BY <1>2 DEF Scaled, part
<1>6. \A i \in 1..n : Max({part(i), floor}) \in Nat /\ Max({part(i), floor}) >= floor
  <2>1. ASSUME NEW i \in 1..n PROVE Max({part(i), floor}) \in Nat /\ Max({part(i), floor}) >= floor
    <3>1. part(i) \in Int /\ floor \in Int
      BY <1>4
    <3>2. Max({part(i), floor}) = IF part(i) >= floor THEN part(i) ELSE floor
      BY <3>1, Greater
    <3> QED
      BY <3>1, <3>2
  <2> QED
    BY <2>1
<1> HIDE DEF z
<1>7. z \in [1..n -> Nat] /\ \A i \in 1..n : z[i] >= floor
  BY <1>5, <1>6
<1>8. Len(z) = n
  BY <1>5
<1> QED
  BY <1>7, <1>8 DEF AreSizes, z

\* The sizes of a mixed tree add up to what was asked for, and each is as large as
\* the smallest allowed: else all would end at the floor, and take more.
LEMMA FitSizesFit ==
    ASSUME NEW n \in Nat \ {0}, NEW raw \in [1..n -> Draws], NEW total \in Nat, NEW floor \in Nat,
           total >= n * floor
    PROVE  LET y == FitSizes(raw, total, floor) IN
           AreSizes(y, n) /\ SumFunction(y) = total /\ \A i \in 1..n : y[i] >= floor
<1> DEFINE z == Scaled(raw, total, floor)
           after == Corrected(z, total, floor)
           L == Largest(z)
           Right(k) == /\ AreSizes(after[k], n) /\ \A i \in 1..n : after[k][i] >= floor
                       /\ k > 0 => \/ SumFunction(after[k]) = total
                                   \/ /\ SumFunction(after[k]) > total
                                      /\ \A i \in 1..k : after[k][L[i]] = floor
           Wrong == {k \in 0..n : ~Right(k)}
<1>1. AreSizes(z, n) /\ Len(z) = n /\ \A i \in 1..n : z[i] >= floor
  BY ScaledIs
<1>2. L \in [1..n -> 1..n] /\ \A k \in 1..n : \E i \in 1..n : L[i] = k
  BY <1>1, LargestIs
<1> HIDE DEF z
<1>3. /\ after[0] = z
      /\ \A k \in 1..n : after[k] = Absorbed(after[k - 1], L[k], total, floor)
  BY <1>1, CorrectedDefined
<1> HIDE DEF after, L
<1>4. Right(0)
  BY <1>1, <1>3
<1>5. ASSUME NEW k \in 1..n, Right(k - 1) PROVE Right(k)
  <2> DEFINE x == after[k - 1]
             y == after[k]
             c == L[k]
  <2>1. AreSizes(x, n) /\ (\A i \in 1..n : x[i] >= floor) /\ c \in 1..n /\ y = Absorbed(x, c, total, floor)
    BY <1>2, <1>3, <1>5
  <2>2. k > 1 => SumFunction(x) = total \/ (SumFunction(x) > total /\ \A i \in 1..(k - 1) : x[L[i]] = floor)
    BY <1>5
  <2> HIDE DEF x, y, c, Right
  <2>3. /\ AreSizes(y, n) /\ \A i \in 1..n : y[i] >= floor
        /\ \A i \in 1..n : i # c => y[i] = x[i]
        /\ SumFunction(x) \in Nat
        /\ SumFunction(x) = total => y = x
        /\ SumFunction(x) < total => SumFunction(y) = total
        /\ SumFunction(x) > total => SumFunction(y) = total \/ (SumFunction(y) > total /\ y[c] = floor)
    <3> DEFINE s == Absorbed(x, c, total, floor)
    <3>1. /\ AreSizes(s, n) /\ \A i \in 1..n : s[i] >= floor
          /\ \A i \in 1..n : i # c => s[i] = x[i]
          /\ SumFunction(x) \in Nat
          /\ SumFunction(x) = total => s = x
          /\ SumFunction(x) < total => SumFunction(s) = total
          /\ SumFunction(x) > total =>
                 SumFunction(s) = total \/ (SumFunction(s) > total /\ s[c] = floor)
      BY <2>1, AbsorbedIs
    <3> QED
      BY <2>1, <3>1
  <2>4. SumFunction(y) = total \/ (SumFunction(y) > total /\ \A i \in 1..k : y[L[i]] = floor)
    <3>1. CASE SumFunction(x) = total
      BY <2>3, <3>1
    <3>2. CASE SumFunction(x) < total
      BY <2>3, <3>2
    <3>3. CASE SumFunction(x) > total
      <4>1. CASE SumFunction(y) = total
        BY <4>1
      <4>2. CASE SumFunction(y) > total /\ y[c] = floor
        <5>1. ASSUME NEW i \in 1..k PROVE y[L[i]] = floor
          <6>1. CASE L[i] = c
            BY <4>2, <6>1
          <6>2. CASE L[i] # c
            <7>1. i # k /\ i \in 1..(k - 1) /\ k > 1 /\ L[i] \in 1..n
              <8>1. i # k
                BY <6>2 DEF c
              <8>2. i \in 1..(k - 1) /\ k > 1 /\ i \in 1..n
                BY <8>1
              <8> QED
                BY <1>2, <8>1, <8>2
            <7>2. x[L[i]] = floor
              BY <2>2, <3>3, <7>1
            <7> QED
              BY <2>3, <6>2, <7>1, <7>2
          <6> QED
            BY <6>1, <6>2
        <5> QED
          BY <4>2, <5>1
      <4> QED
        BY <2>3, <3>3, <4>1, <4>2
    <3> QED
      BY <2>3, <3>1, <3>2, <3>3
  <2> QED
    BY <2>3, <2>4 DEF Right, y
<1>6. Right(n)
  <2> SUFFICES ASSUME Wrong # {} PROVE FALSE
    <3>1. n \in 0..n
      OBVIOUS
    <3> QED
      BY <3>1
  <2>1. Wrong \in SUBSET Nat
    OBVIOUS
  <2>2. PICK k \in Wrong : \A m \in Wrong : k <= m
    <3> HIDE DEF Wrong
    <3> QED
      BY <2>1, LeastMember
  <2> HIDE DEF Right
  <2>3. k # 0 /\ k \in 1..n /\ k - 1 \in 0..n /\ k - 1 < k
    BY <1>4, <2>2
  <2>4. k - 1 \notin Wrong
    <3>1. ~(k <= k - 1)
      BY <2>3
    <3> HIDE DEF Wrong
    <3> QED
      BY <2>2, <3>1
  <2>5. Right(k - 1)
    BY <2>3, <2>4
  <2> QED
    BY <1>5, <2>2, <2>3, <2>5
<1> DEFINE y == after[n]
<1>7. AreSizes(y, n) /\ (\A i \in 1..n : y[i] >= floor)
      /\ (SumFunction(y) = total \/ (SumFunction(y) > total /\ \A i \in 1..n : y[L[i]] = floor))
  BY <1>6
<1>8. ~(SumFunction(y) > total /\ \A i \in 1..n : y[L[i]] = floor)
  <2> SUFFICES ASSUME SumFunction(y) > total, \A i \in 1..n : y[L[i]] = floor PROVE FALSE
    OBVIOUS
  <2> HIDE DEF y
  <2>1. \A i \in 1..n : y[i] = floor
    BY <1>2
  <2>2. DOMAIN y = 1..n
    BY <1>7 DEF AreSizes
  <2>3. SumFunction(y) = n * floor
    BY <2>1, <2>2, SumSame
  <2>4. n * floor \in Nat
    OBVIOUS
  <2> QED
    BY <2>3, <2>4
<1>9. Len(raw) = n
  OBVIOUS
<1>10. FitSizes(raw, total, floor) = y
  BY <1>9 DEF FitSizes, after, z
<1> QED
  BY <1>7, <1>8, <1>10

\* The sizes of any generated tree.
LEMMA SizesAre ==
    ASSUME NEW x, WorkloadOK(x), x.kind # "path", x.bytes \in Nat, x.files \in Nat,
           NEW sizes \in Sizes(x)
    PROVE  /\ AreSizes(sizes, x.files) /\ Len(sizes) = x.files
           /\ SumFunction(sizes) <= x.bytes /\ x.bytes - SumFunction(sizes) < x.files
           /\ x.kind = "mixed-tree" =>
                 SumFunction(sizes) = x.bytes /\ \A i \in DOMAIN sizes : sizes[i] >= MinFile
<1>1. x.files > 0 /\ x.bytes > 0 /\ x.kind \in {"large-file", "small-files", "mixed-tree"}
      /\ MinFile \in Nat
  BY SpaceConstants DEF WorkloadOK, Kinds
<1>2. CASE x.kind = "large-file"
  <2>1. sizes = <<x.bytes>> /\ x.files = 1
    BY <1>2 DEF Sizes, WorkloadOK
  <2>2. Len(sizes) = 1 /\ DOMAIN sizes = 1..1 /\ \A i \in 1..1 : sizes[i] = x.bytes
    BY <2>1
  <2>3. SumFunction(sizes) = 1 * x.bytes
    BY <2>2, SumSame
  <2>4. AreSizes(sizes, 1)
    BY <2>1 DEF AreSizes
  <2> QED
    BY <1>2, <2>1, <2>2, <2>3, <2>4
<1>3. CASE x.kind = "small-files"
  <2> DEFINE n == x.files
             each == Max({x.bytes \div n, 1})
             q == x.bytes \div n
  <2>1. n \in Nat /\ n > 0 /\ x.bytes >= n
    BY <1>1, <1>3 DEF WorkloadOK
  <2>2. sizes = [i \in 1..n |-> each]
    BY <1>3 DEF Sizes
  <2> HIDE DEF n
  <2>3. q \in Nat /\ q >= 1 /\ n * q <= x.bytes /\ x.bytes < n * q + n
    BY <2>1, Quotient
  <2>4. each = q
    <3>1. q \in Int /\ 1 \in Int
      BY <2>3
    <3> HIDE DEF q
    <3>2. Max({q, 1}) = q
      BY <2>3, <3>1, Greater
    <3> QED
      BY <3>2 DEF q
  <2> HIDE DEF q, each
  <2>5. Len(sizes) = n /\ DOMAIN sizes = 1..n /\ \A i \in 1..n : sizes[i] = q
    BY <2>1, <2>2, <2>4
  <2>6. SumFunction(sizes) = n * q
    BY <2>1, <2>3, <2>5, SumSame
  <2>7. n * q \in Nat
    BY <2>1, <2>3
  <2>8. n * q <= x.bytes /\ x.bytes - n * q < n
    BY <2>1, <2>3, <2>7
  <2>9. AreSizes(sizes, n)
    BY <2>2, <2>3, <2>4 DEF AreSizes
  <2> QED
    BY <1>3, <2>5, <2>6, <2>8, <2>9 DEF n
<1>4. CASE x.kind = "mixed-tree"
  <2> DEFINE n == x.files
  <2>1. n \in Nat \ {0} /\ x.bytes >= n * MinFile
    BY <1>1, <1>4 DEF WorkloadOK
  <2>2. PICK raw \in [1..n -> Draws] : sizes = FitSizes(raw, x.bytes, MinFile)
    BY <1>4 DEF Sizes
  <2> HIDE DEF n
  <2>3. AreSizes(sizes, n) /\ SumFunction(sizes) = x.bytes /\ \A i \in 1..n : sizes[i] >= MinFile
    BY <1>1, <2>1, <2>2, FitSizesFit
  <2>4. Len(sizes) = n /\ DOMAIN sizes = 1..n
    BY <2>1, <2>3 DEF AreSizes
  <2> QED
    BY <1>1, <2>1, <2>3, <2>4 DEF n
<1> QED
  BY <1>1, <1>2, <1>3, <1>4

\* Every generated tree has the sizes that were asked for: _fit_sizes of
\* fixtures.py never ends above the total, since then all files would be at the
\* floor, which spec.py has refused.
THEOREM SizesAreRight == Spec => []SizesFit
<1>1. Init => Fair
  BY FairInit
<1>2. Fair /\ [Next]_vars => Fair'
  BY FairSetUp, FairRepeat, FairLeave, FairStutter DEF Next, Step
<1>3. Fair => SizesFit
  <2> SUFFICES ASSUME Fair, pc = "checksum", ~Given, NEW sizes \in Sizes(Work(w))
               PROVE  LET total == SumFunction(sizes) IN
                      /\ Len(sizes) = Work(w).files
                      /\ total <= Work(w).bytes /\ Work(w).bytes - total < Work(w).files
                      /\ Work(w).kind = "mixed-tree" =>
                            total = Work(w).bytes /\ \A i \in DOMAIN sizes : sizes[i] >= MinFile
    BY DEF SizesFit
  <2>1. setup \in Setups /\ w \in DOMAIN Plan
    BY DEF Fair, Place
  <2>2. /\ DOMAIN Plan = DOMAIN setup.work /\ setup.given = DOMAIN setup.work \ Generated(setup)
        /\ Accepts(setup)
        /\ \A v \in DOMAIN setup.work :
              {setup.work[v].bytes, setup.work[v].files, setup.work[v].dirs} \subseteq Nat
    BY <2>1, SetupsAccepted DEF Plan
  <2>3. Work(w).kind # "path"
    BY <2>1, <2>2 DEF Given, Generated, Work
  <2>4. WorkloadOK(Work(w)) /\ Work(w).bytes \in Nat /\ Work(w).files \in Nat
    BY <2>1, <2>2 DEF Accepts, Work
  <2> QED
    BY <2>3, <2>4, SizesAre
<1> QED
  BY <1>1, <1>2, <1>3, PTL DEF Spec

-----------------------------------------------------------------------------
(* What a tree takes.                                                      *)

\* A tenth more than needed leaves no less than needed.
LEMMA LessFits ==
    ASSUME NEW free \in Nat \cup {None}, NEW n \in Nat, NEW m \in Nat, Fits(free, n), m <= n
    PROVE  free = None \/ m <= free
<1>1. CASE free \in Nat
  BY <1>1 DEF Fits
<1>2. CASE free = None
  BY <1>2
<1> QED
  BY <1>1, <1>2

\* If anything is needed, then one more fits as well.
LEMMA OneMoreFits ==
    ASSUME NEW free \in Nat \cup {None}, NEW n \in Nat \ {0}, Fits(free, n)
    PROVE  free = None \/ n + 1 <= free
<1>1. CASE free \in Nat
  BY <1>1 DEF Fits
<1>2. CASE free = None
  BY <1>2
<1> QED
  BY <1>1, <1>2

\* More of the same take more.
LEMMA MoreTimes ==
    ASSUME NEW a \in Nat, NEW b \in Nat, NEW c \in Nat, a <= b
    PROVE  a * c \in Nat /\ b * c \in Nat /\ a * c <= b * c
<1>1. (b - a) \in Nat /\ b = a + (b - a)
  OBVIOUS
<1>2. (b - a) * c \in Nat /\ a * c \in Nat
  BY <1>1
<1>3. b * c = a * c + (b - a) * c
  BY <1>1
<1> QED
  BY <1>2, <1>3

\* A file takes less than a block more than its size.
LEMMA BlocksAre ==
    ASSUME NEW size \in Nat
    PROVE  Blocks(size) \in Nat /\ Blocks(size) <= size + Block
<1>1. Block \in Nat /\ Block > 0
  BY SpaceConstants
<1> DEFINE p == size + Block - 1
           q == p \div Block
           r == p % Block
<1>2. p \in Nat
  BY <1>1
<1> HIDE DEF p
<1>3. q \in Int /\ r \in Int /\ p = Block * q + r /\ 0 <= r /\ r < Block
  BY <1>1, <1>2, Z3
<1> HIDE DEF q, r
<1>4. q >= 0
  <2> SUFFICES ASSUME q <= 0 - 1 PROVE FALSE
    BY <1>3
  <2>1. Block * q <= Block * (0 - 1)
    BY <1>1, <1>3
  <2> QED
    BY <1>1, <1>2, <1>3, <2>1
<1>5. q * Block = Block * q /\ q * Block \in Nat
  BY <1>1, <1>3, <1>4
<1>6. Blocks(size) = q * Block
  BY DEF Blocks, p, q
<1>7. q * Block <= p
  BY <1>1, <1>2, <1>3, <1>5
<1> QED
  BY <1>1, <1>5, <1>6, <1>7 DEF p

\* A hundredth of the terms is no more than a hundredth of the sum.
LEMMA HundredthIs ==
    ASSUME NEW size \in Nat
    PROVE  size \div 100 \in Nat /\ 100 * (size \div 100) <= size /\ size < 100 * (size \div 100) + 100
OBVIOUS

\* The reckoned directories are no fewer than a tree has.
LEMMA DirectoriesFit ==
    ASSUME NEW x, x.files \in Nat, x.kind \in {"large-file", "small-files", "mixed-tree"}
    PROVE  /\ Directories(x) \in Nat /\ disk_inodes(x) \in Nat
           /\ x.files + Directories(x) <= disk_inodes(x)
<1> DEFINE f == x.files
<1>1. /\ Min({256, f}) = IF 256 <= f THEN 256 ELSE f
      /\ Min({8, f}) = IF 8 <= f THEN 8 ELSE f
      /\ Min({64, f}) = IF 64 <= f THEN 64 ELSE f
      /\ Min({512, f}) = IF 512 <= f THEN 512 ELSE f
      /\ Min({4096, f}) = IF 4096 <= f THEN 4096 ELSE f
  BY Smaller
<1>2. 4 * f \in Int /\ 8 + 64 + 512 + 4096 \in Int
  OBVIOUS
<1>3. Min({4 * f, 8 + 64 + 512 + 4096}) = IF 4 * f <= 4680 THEN 4 * f ELSE 4680
  <2>1. 8 + 64 + 512 + 4096 = 4680
    OBVIOUS
  <2> QED
    BY <1>2, <2>1, Smaller
<1>4. CASE x.kind = "large-file"
  BY <1>4 DEF Directories, disk_inodes
<1>5. CASE x.kind = "small-files"
  <2>1. Directories(x) = 1 + Min({256, f}) /\ disk_inodes(x) = f + 1 + Min({256, f})
    BY <1>5 DEF Directories, disk_inodes
  <2> QED
    BY <1>1, <2>1
<1>6. CASE x.kind = "mixed-tree"
  <2>1. /\ Directories(x) = 1 + (Min({8, f}) + Min({64, f}) + Min({512, f}) + Min({4096, f}))
        /\ disk_inodes(x) = f + 1 + Min({4 * f, 8 + 64 + 512 + 4096})
    BY <1>6 DEF Directories, disk_inodes
  <2> QED
    BY <1>1, <1>3, <2>1
<1> QED
  BY <1>4, <1>5, <1>6

\* The blocks of n files, and of the directories they are in.
LEMMA OccupiedIs ==
    ASSUME NEW x, Directories(x) \in Nat, NEW n \in Nat, NEW y, AreSizes(y, n)
    PROVE  /\ Occupied(x, y) \in Nat /\ SumFunction(y) \in Nat
           /\ Occupied(x, y) <= Directories(x) * Block + SumFunction(y) + n * Block
<1> DEFINE same == [i \in 1..n |-> Block]
           most == [i \in 1..n |-> y[i] + Block]
           taken == [i \in 1..n |-> Blocks(y[i])]
<1>1. Block \in Nat /\ DOMAIN y = 1..n /\ IsFiniteSet(1..n) /\ \A i \in 1..n : y[i] \in Nat
  BY SpaceConstants, UpTo DEF AreSizes
<1>2. SumFunction(same) = n * Block
  BY <1>1, SumSame
<1>3. SumFunction(y) \in Nat /\ SumFunction(most) = SumFunction(y) + SumFunction(same)
  BY <1>1, SumPlus
<1>4. SumFunction(taken) \in Nat /\ SumFunction(taken) <= SumFunction(most)
  <2>1. \A i \in 1..n : taken[i] \in Nat /\ most[i] \in Nat /\ taken[i] <= most[i]
    <3> SUFFICES ASSUME NEW i \in 1..n
                 PROVE  taken[i] \in Nat /\ most[i] \in Nat /\ taken[i] <= most[i]
      OBVIOUS
    <3>1. y[i] \in Nat /\ taken[i] = Blocks(y[i]) /\ most[i] = y[i] + Block
      BY <1>1
    <3>2. Blocks(y[i]) \in Nat /\ Blocks(y[i]) <= y[i] + Block
      BY <3>1, BlocksAre
    <3> HIDE DEF taken, most
    <3> QED
      BY <1>1, <3>1, <3>2
  <2>2. DOMAIN taken = 1..n /\ DOMAIN most = 1..n
    OBVIOUS
  <2> HIDE DEF taken, most
  <2> QED
    BY <1>1, <2>1, <2>2, SumGrows
<1>5. Occupied(x, y) = Directories(x) * Block + SumFunction(taken)
  BY <1>1 DEF Occupied
<1>6. Directories(x) * Block \in Nat /\ n * Block \in Nat
  BY <1>1
<1> HIDE DEF taken, most, same
<1> QED
  BY <1>2, <1>3, <1>4, <1>5, <1>6

\* What appending to some of n files adds to them.
LEMMA AppendedIs ==
    ASSUME NEW n \in Nat, NEW z, AreSizes(z, n), NEW c
    PROVE  LET y == [i \in DOMAIN z |-> z[i] + IF i \in c THEN Max({z[i] \div 100, Block}) ELSE 0] IN
           /\ AreSizes(y, n) /\ SumFunction(y) \in Nat /\ SumFunction(z) \in Nat
           /\ SumFunction(y) <= SumFunction(z) + SumFunction(z) \div 100 + n * Block
<1> DEFINE y == [i \in DOMAIN z |-> z[i] + IF i \in c THEN Max({z[i] \div 100, Block}) ELSE 0]
           part == [i \in 1..n |-> z[i] \div 100]
           whole == [i \in 1..n |-> 100 * part[i]]
           same == [i \in 1..n |-> Block]
           added == [i \in 1..n |-> part[i] + same[i]]
           most == [i \in 1..n |-> z[i] + added[i]]
<1>1. Block \in Nat /\ DOMAIN z = 1..n /\ IsFiniteSet(1..n) /\ \A i \in 1..n : z[i] \in Nat
  BY SpaceConstants, UpTo DEF AreSizes
<1>2. \A i \in 1..n : /\ part[i] \in Nat /\ 100 * part[i] <= z[i] /\ whole[i] \in Nat
                      /\ same[i] = Block /\ added[i] = part[i] + Block
                      /\ most[i] = z[i] + (part[i] + Block)
                      /\ whole[i] = 100 * part[i] /\ part[i] = z[i] \div 100
  BY <1>1, HundredthIs
<1>3. \A i \in 1..n : y[i] = z[i] + IF i \in c THEN Max({z[i] \div 100, Block}) ELSE 0
  BY <1>1
<1>4. /\ DOMAIN y = 1..n /\ DOMAIN part = 1..n /\ DOMAIN whole = 1..n /\ DOMAIN same = 1..n
      /\ DOMAIN added = 1..n /\ DOMAIN most = 1..n /\ y = [i \in 1..n |-> y[i]]
      /\ whole = [i \in DOMAIN part |-> 100 * part[i]]
  BY <1>1
<1> HIDE DEF y, part, whole, same, added, most
<1>5. \A i \in 1..n : y[i] \in Nat /\ y[i] <= most[i] /\ most[i] \in Nat
  <2> SUFFICES ASSUME NEW i \in 1..n PROVE y[i] \in Nat /\ y[i] <= most[i] /\ most[i] \in Nat
    OBVIOUS
  <2>1. Max({part[i], Block}) = IF part[i] >= Block THEN part[i] ELSE Block
    <3>1. part[i] \in Int /\ Block \in Int
      BY <1>1, <1>2
    <3> QED
      BY <3>1, Greater
  <2>2. y[i] = z[i] + IF i \in c THEN Max({part[i], Block}) ELSE 0
    <3>1. part[i] = z[i] \div 100
      BY <1>2
    <3> QED
      BY <1>3, <3>1
  <2>3. z[i] \in Nat /\ part[i] \in Nat /\ Block \in Nat /\ most[i] = z[i] + (part[i] + Block)
    BY <1>1, <1>2
  <2> QED
    BY <2>1, <2>2, <2>3
<1>6. AreSizes(y, n)
  BY <1>4, <1>5 DEF AreSizes
<1>7. /\ SumFunction(part) \in Nat /\ SumFunction(same) = n * Block
      /\ SumFunction(added) = SumFunction(part) + SumFunction(same)
  <2>1. SumFunction(same) = n * Block
    BY <1>1, <1>2, <1>4, SumSame
  <2>2. /\ SumFunction(part) \in Nat
        /\ SumFunction(added) = SumFunction(part) + SumFunction(same)
    <3>1. \A i \in 1..n : part[i] \in Nat /\ same[i] \in Nat /\ added[i] = part[i] + same[i]
      <4> SUFFICES ASSUME NEW i \in 1..n
                   PROVE  part[i] \in Nat /\ same[i] \in Nat /\ added[i] = part[i] + same[i]
        OBVIOUS
      <4> QED
        BY <1>1, <1>2
    <3> QED
      BY <1>1, <1>4, <3>1, SumPlus
  <2> QED
    BY <2>1, <2>2
<1>8. SumFunction(z) \in Nat /\ SumFunction(most) = SumFunction(z) + SumFunction(added)
  <2>1. \A i \in 1..n : z[i] \in Nat /\ added[i] \in Nat /\ most[i] = z[i] + added[i]
    <3> SUFFICES ASSUME NEW i \in 1..n
                 PROVE  z[i] \in Nat /\ added[i] \in Nat /\ most[i] = z[i] + added[i]
      OBVIOUS
    <3>1. part[i] \in Nat /\ added[i] = part[i] + Block /\ most[i] = z[i] + (part[i] + Block)
      BY <1>2
    <3> QED
      BY <1>1, <3>1
  <2> QED
    BY <1>1, <1>4, <2>1, SumPlus
<1>9. SumFunction(y) \in Nat /\ SumFunction(y) <= SumFunction(most)
  BY <1>1, <1>4, <1>5, SumGrows
<1>10. SumFunction(part) <= SumFunction(z) \div 100
  <2>1. SumFunction(whole) = 100 * SumFunction(part)
    BY <1>1, <1>2, <1>4, SumTimes
  <2>2. SumFunction(whole) <= SumFunction(z)
    BY <1>1, <1>2, <1>4, SumGrows
  <2> HIDE DEF part
  <2>3. 100 * SumFunction(part) <= SumFunction(z)
    BY <2>1, <2>2
  <2> QED
    BY <1>7, <1>8, <2>3
<1>11. n * Block \in Nat /\ SumFunction(z) \div 100 \in Nat
  BY <1>1, <1>8
<1>12. SumFunction(y) <= SumFunction(z) + SumFunction(z) \div 100 + n * Block
  BY <1>7, <1>8, <1>9, <1>10, <1>11
<1> QED
  BY <1>6, <1>8, <1>9, <1>12 DEF y

\* Some sizes can be drawn.
LEMMA SizesExist ==
    ASSUME NEW x, x.files \in Nat, x.kind \in {"large-file", "small-files", "mixed-tree"}
    PROVE  Sizes(x) # {}
<1>1. CASE x.kind = "large-file"
  BY <1>1 DEF Sizes
<1>2. CASE x.kind = "small-files"
  BY <1>2 DEF Sizes
<1>3. CASE x.kind = "mixed-tree"
  <2>1. PICK d \in Draws : TRUE
    BY SpaceConstants
  <2>2. [i \in 1..x.files |-> d] \in [1..x.files -> Draws]
    BY <2>1
  <2>3. Sizes(x) = {FitSizes(raw, x.bytes, MinFile) : raw \in [1..x.files -> Draws]}
    BY <1>3 DEF Sizes
  <2> QED
    BY <2>2, <2>3
<1> QED
  BY <1>1, <1>2, <1>3

\* No more files can be changed than there are, so that some can.
LEMMA GrownExist ==
    ASSUME NEW x, WorkloadOK(x), x.files \in Nat \ {0}, NEW z, AreSizes(z, x.files)
    PROVE  Grown(x, z) # {}
<1> DEFINE n == x.files
           k == Chosen(x)
<1>1. CASE ModeOf(x) # "update" \/ x.mutate # "append"
  BY <1>1 DEF Grown
<1>2. CASE ModeOf(x) = "update" /\ x.mutate = "append"
  <2>1. x.changed \in 0..100
    BY <1>2 DEF ModeOf, WorkloadOK
  <2> DEFINE p == n * x.changed
             q == (2 * n * x.changed + 100) \div 200
  <2>2. p \in Nat /\ p <= n * 100
    <3>1. x.changed \in Nat /\ 100 \in Nat /\ x.changed <= 100 /\ n \in Nat
      BY <2>1
    <3>2. x.changed * n \in Nat /\ x.changed * n <= 100 * n
      BY <3>1, MoreTimes
    <3> QED
      BY <3>1, <3>2
  <2>3. 2 * n * x.changed = 2 * p
    BY <2>1
  <2> HIDE DEF p
  <2>4. q \in Nat /\ q <= n
    <3> DEFINE a == 2 * p + 100
    <3>1. a \in Nat /\ a < 200 * n + 200
      BY <2>2
    <3>2. q = a \div 200
      BY <2>3
    <3> HIDE DEF a
    <3>3. a \div 200 \in Nat /\ 200 * (a \div 200) <= a
      BY <3>1
    <3> HIDE DEF q
    <3> QED
      BY <3>1, <3>2, <3>3
  <2>5. k = IF 1 >= q THEN 1 ELSE q
    <3>1. q \in Int /\ 1 \in Int
      BY <2>4
    <3> HIDE DEF q
    <3>2. Max({1, q}) = IF 1 >= q THEN 1 ELSE q
      BY <3>1, Greater
    <3> QED
      BY <3>2 DEF Chosen, q
  <2> HIDE DEF q, k
  <2>6. k \in Nat /\ k <= n
    BY <2>4, <2>5
  <2>7. DOMAIN z = 1..n /\ IsFiniteSet(1..n) /\ Cardinality(1..n) = n
    BY UpTo DEF AreSizes
  <2>8. \E c \in kSubset(k, 1..n) : {} \subseteq c
    <3>1. Cardinality({}) = 0
      BY FS_EmptySet
    <3>2. {} \in SUBSET (1..n)
      OBVIOUS
    <3> QED
      BY <2>6, <2>7, <3>1, <3>2, AmongSome
  <2>9. kSubset(Chosen(x), DOMAIN z) # {}
    BY <2>7, <2>8 DEF k
  <2> DEFINE G(c) == [i \in DOMAIN z |-> z[i] + IF i \in c THEN Max({z[i] \div 100, Block}) ELSE 0]
             K == kSubset(Chosen(x), DOMAIN z)
  <2>10. Grown(x, z) = {G(c) : c \in K}
    BY <1>2 DEF Grown
  <2> HIDE DEF G, K
  <2>11. PICK c \in K : TRUE
    BY <2>9 DEF K
  <2> QED
    BY <2>10, <2>11
<1> QED
  BY <1>1, <1>2

\* The room that is reckoned for a generated tree, in bytes or inodes.
Reckoned(x, unit) == IF unit = "bytes" THEN disk_bytes(x) ELSE disk_inodes(x)

\* A generated tree never takes more, before and after it is changed.
LEMMA RoomIs ==
    ASSUME NEW x, WorkloadOK(x), x.kind # "path", x.bytes \in Nat, x.files \in Nat,
           NEW unit \in {"bytes", "inodes"}
    PROVE  /\ Reckoned(x, unit) \in Nat \ {0}
           /\ Room(x).base[unit] \in 0..Reckoned(x, unit)
           /\ Room(x).grown[unit] \in 0..Reckoned(x, unit)
<1> DEFINE n == x.files
           dirs == Directories(x)
           more == IF ModeOf(x) = "update" /\ x.mutate = "append" THEN x.bytes \div 100 + n * Block ELSE 0
           All == UNION {Grown(x, y) : y \in Sizes(x)}
<1>1. /\ x.kind \in {"large-file", "small-files", "mixed-tree"} /\ x.bytes > 0 /\ n > 0
      /\ Block \in Nat
  BY SpaceConstants DEF WorkloadOK, Kinds
<1>2. dirs \in Nat /\ disk_inodes(x) \in Nat /\ n + dirs <= disk_inodes(x)
  BY <1>1, DirectoriesFit
<1>3. /\ disk_inodes(x) * Block \in Nat /\ dirs * Block \in Nat /\ n * Block \in Nat
      /\ n * Block + dirs * Block <= disk_inodes(x) * Block
  <2>1. (n + dirs) * Block <= disk_inodes(x) * Block /\ disk_inodes(x) * Block \in Nat
    BY <1>1, <1>2, MoreTimes
  <2>2. n * Block \in Nat /\ dirs * Block \in Nat
    BY <1>1, <1>2
  <2>3. (n + dirs) * Block = n * Block + dirs * Block
    BY <1>1, <1>2
  <2> QED
    BY <2>1, <2>2, <2>3
<1>4. more \in Nat /\ disk_bytes(x) = x.bytes + disk_inodes(x) * Block + more
  BY <1>3, HundredthIs DEF disk_bytes
<1> HIDE DEF more
<1>5. disk_bytes(x) \in Nat /\ disk_bytes(x) > 0
  BY <1>1, <1>3, <1>4
<1>6. \A z \in Sizes(x) : AreSizes(z, n) /\ SumFunction(z) \in Nat /\ SumFunction(z) <= x.bytes
  <2> SUFFICES ASSUME NEW z \in Sizes(x)
               PROVE  AreSizes(z, n) /\ SumFunction(z) \in Nat /\ SumFunction(z) <= x.bytes
    OBVIOUS
  <2>1. AreSizes(z, n) /\ SumFunction(z) <= x.bytes
    BY SizesAre
  <2>2. SumFunction(z) \in Nat
    BY <1>2, <2>1, OccupiedIs
  <2> QED
    BY <2>1, <2>2
<1>7. ASSUME NEW y, AreSizes(y, n), SumFunction(y) <= x.bytes + more
      PROVE  Occupied(x, y) \in 0..disk_bytes(x)
  <2>1. /\ Occupied(x, y) \in Nat /\ SumFunction(y) \in Nat
        /\ Occupied(x, y) <= dirs * Block + SumFunction(y) + n * Block
    BY <1>2, <1>7, OccupiedIs
  <2> QED
    BY <1>3, <1>4, <1>5, <1>7, <2>1
<1>8. ASSUME NEW y \in All PROVE AreSizes(y, n) /\ SumFunction(y) <= x.bytes + more
  <2>1. PICK z \in Sizes(x) : y \in Grown(x, z)
    OBVIOUS
  <2>2. AreSizes(z, n) /\ SumFunction(z) \in Nat /\ SumFunction(z) <= x.bytes
    BY <1>6
  <2>3. CASE ModeOf(x) # "update" \/ x.mutate # "append"
    <3>1. y = z
      BY <2>1, <2>3 DEF Grown
    <3> QED
      BY <1>4, <2>2, <3>1
  <2>4. CASE ModeOf(x) = "update" /\ x.mutate = "append"
    <3>1. PICK c : y = [i \in DOMAIN z |-> z[i] + IF i \in c THEN Max({z[i] \div 100, Block}) ELSE 0]
      BY <2>1, <2>4 DEF Grown
    <3>2. /\ AreSizes(y, n) /\ SumFunction(y) \in Nat
          /\ SumFunction(y) <= SumFunction(z) + SumFunction(z) \div 100 + n * Block
      BY <2>2, <3>1, AppendedIs
    <3>3. SumFunction(z) \div 100 \in Nat /\ SumFunction(z) \div 100 <= x.bytes \div 100
          /\ x.bytes \div 100 \in Nat
      <4>1. /\ SumFunction(z) \div 100 \in Nat /\ 100 * (SumFunction(z) \div 100) <= SumFunction(z)
            /\ x.bytes \div 100 \in Nat /\ x.bytes < 100 * (x.bytes \div 100) + 100
        BY <2>2, HundredthIs
      <4> DEFINE a == SumFunction(z) \div 100
                 b == x.bytes \div 100
      <4>2. a \in Nat /\ b \in Nat /\ 100 * a < 100 * b + 100
        BY <2>2, <4>1
      <4> HIDE DEF a, b
      <4>3. a <= b
        BY <4>2
      <4> QED
        BY <4>1, <4>3 DEF a, b
    <3>4. more = x.bytes \div 100 + n * Block
      BY <2>4 DEF more
    <3> QED
      BY <1>3, <2>2, <3>2, <3>3, <3>4
  <2> QED
    BY <2>3, <2>4
<1>9. Sizes(x) # {} /\ All # {}
  <2>1. PICK z \in Sizes(x) : TRUE
    BY <1>1, SizesExist
  <2>2. Grown(x, z) # {}
    BY <1>1, <1>6, GrownExist
  <2> QED
    BY <2>1, <2>2
<1>10. ASSUME NEW S, S # {}, \A y \in S : AreSizes(y, n) /\ SumFunction(y) <= x.bytes + more
       PROVE  Max({Occupied(x, y) : y \in S}) \in 0..disk_bytes(x)
  <2> DEFINE T == {Occupied(x, y) : y \in S}
  <2>1. T \in SUBSET (0..disk_bytes(x)) /\ T # {}
    BY <1>7, <1>10
  <2> HIDE DEF T
  <2>2. Max(T) \in 0..disk_bytes(x)
    BY <1>5, <2>1, GreatestIsOne
  <2> QED
    BY <2>2 DEF T
<1>11. /\ Max({Occupied(x, y) : y \in Sizes(x)}) \in 0..disk_bytes(x)
       /\ Max({Occupied(x, y) : y \in All}) \in 0..disk_bytes(x)
  <2>1. \A z \in Sizes(x) : AreSizes(z, n) /\ SumFunction(z) <= x.bytes + more
    BY <1>4, <1>6
  <2> HIDE DEF All
  <2> QED
    BY <1>8, <1>9, <1>10, <2>1
<1>12. /\ Room(x).base = [bytes |-> Max({Occupied(x, y) : y \in Sizes(x)}), inodes |-> n + dirs]
       /\ Room(x).grown = [bytes |-> Max({Occupied(x, y) : y \in All}), inodes |-> n + dirs]
  BY DEF Room
<1>13. CASE unit = "bytes"
  <2>1. Room(x).base[unit] = Max({Occupied(x, y) : y \in Sizes(x)})
        /\ Room(x).grown[unit] = Max({Occupied(x, y) : y \in All})
    BY <1>12, <1>13
  <2> QED
    BY <1>5, <1>11, <1>13, <2>1 DEF Reckoned
<1>14. CASE unit = "inodes"
  <2>1. Room(x).base[unit] = n + dirs /\ Room(x).grown[unit] = n + dirs
    BY <1>12, <1>14
  <2> QED
    BY <1>1, <1>2, <1>14, <2>1 DEF Reckoned
<1> QED
  BY <1>13, <1>14

-----------------------------------------------------------------------------
(* How many trees there are.                                               *)

\* The removals of destinations that failed.
Removals == {i \in DOMAIN hit : hit[i] = "remove"}

\* From where no destination is made any more.
Leaving == {"record", "restore", "rename", "release", "end", "done"}

\* There is a snapshot only if the workload has one, and the run ends with the
\* first destination that cannot be removed.
Once ==
    /\ tree["before"] # Absent => Incremental
    /\ \A i, j \in Removals : i = j
    /\ Removals # {} => pc \in Leaving /\ (exc = "none" => pc = "record" /\ abort)

LEMMA OnceInit == Init => Once
BY DEF Init, Once, Removals, Trees

\* A workload's snapshot is gone before the next one.
LEMMA AsideNext ==
    ASSUME Fair, Explained, Tidy, tree["before"] # Absent => Incremental, Step, setup' = setup
    PROVE  (tree["before"] # Absent => Incremental)'
<1> USE DEF Fair, Place, Trees, Mode, Plan, Incremental, RaiseTo, Raise, Removed, RemovalRaises
<1>1. CASE Generate \/ GenerateRaises \/ Checksum \/ ChecksumRaises \/ NextRound
  BY <1>1 DEF Generate, GenerateRaises, Checksum, ChecksumRaises, NextRound
<1>2. CASE Snapshot \/ SnapshotRaises \/ Change \/ ChangeRaises \/ Unsnap
  BY <1>2 DEF Snapshot, SnapshotRaises, Change, ChangeRaises, Unsnap, Explained
<1>3. CASE Pick \/ RepeatRaises \/ MakeDestination \/ Prepopulate \/ PrepareCache \/ VerifyCopy
  BY <1>3 DEF Pick, RepeatRaises, MakeDestination, Prepopulate, PrepareCache, VerifyCopy
<1>4. CASE Copy
  <2>1. (\E x : tree' = [tree EXCEPT !["dst"] = x]) /\ UNCHANGED w
    BY <1>4 DEF Copy
  <2> QED
    BY <2>1
<1>5. CASE RemoveDestination \/ RemoveDestinationFails \/ RemoveDestinationInterrupted \/ Record
  BY <1>5 DEF RemoveDestination, RemoveDestinationFails, RemoveDestinationInterrupted, Record
<1>6. CASE Restore \/ Rename \/ RenameRaises \/ ReleaseRaises \/ End \/ Ended
  BY <1>6 DEF Restore, Rename, RenameRaises, ReleaseRaises, End, Ended
<1>7. CASE Release
  <2>1. /\ pc = "release" /\ tree'["before"] = tree["before"]
        /\ w' = w \/ exc = "none"
    BY <1>7 DEF Release
  <2>2. exc = "none" => tree["before"] = Absent
    BY <2>1 DEF Tidy, InRound, InRepeat
  <2> QED
    BY <2>1, <2>2
<1> QED
  BY <1>1, <1>2, <1>3, <1>4, <1>5, <1>6, <1>7, Zenon DEF Step

LEMMA OnceNext ==
    ASSUME Fair, Explained, Tidy, Once, Step, setup' = setup
    PROVE  Once'
<1>1. (tree["before"] # Absent => Incremental)'
  BY AsideNext DEF Once
<1>2. /\ hit \in Seq(Steps) /\ pc \in Steps
      /\ hit' = hit \/ hit' = Append(hit, pc)
  BY Frames DEF Explained
<1>3. /\ pc # "remove" => Removals' = Removals
      /\ hit' = hit => Removals' = Removals
      /\ Removals' \subseteq Removals \cup {Len(hit) + 1}
  BY <1>2 DEF Removals
<1>4. pc = "record" => exc = "none"
  BY DEF Fair, Place
<1>5. CASE pc \notin Leaving \cup {"remove"}
  <2>1. Removals = {} /\ Removals' = {}
    BY <1>3, <1>5 DEF Once
  <2> QED
    BY <1>1, <2>1 DEF Once
<1>6. CASE pc = "remove"
  <2>1. Removals = {}
    BY <1>6 DEF Once, Leaving
  <2>2. \A i, j \in Removals' : i = j
    BY <1>3, <2>1
  <2>3. RemoveDestination \/ RemoveDestinationFails \/ RemoveDestinationInterrupted
    BY <1>6 DEF Step, Generate, GenerateRaises, Checksum, ChecksumRaises, NextRound,
         Snapshot, SnapshotRaises, Change, ChangeRaises, Unsnap, Pick, RepeatRaises, MakeDestination,
         Prepopulate, PrepareCache, Copy, VerifyCopy, Record, Restore, Rename, RenameRaises,
         Release, ReleaseRaises, End, Ended
  <2>4. CASE RemoveDestination
    <3>1. Removals' = {}
      BY <1>3, <2>1, <2>4 DEF RemoveDestination, Removed
    <3> QED
      BY <1>1, <3>1 DEF Once
  <2>5. CASE RemoveDestinationFails
    <3>1. pc' \in Leaving /\ (exc' = "none" => pc' = "record" /\ abort')
      BY <2>5 DEF RemoveDestinationFails, Leave, Leaving
    <3> QED
      BY <1>1, <2>2, <3>1 DEF Once
  <2>6. CASE RemoveDestinationInterrupted
    <3>1. pc' \in Leaving /\ exc' # "none"
      BY <2>6 DEF RemoveDestinationInterrupted, RaiseTo, Leave, Leaving
    <3> QED
      BY <1>1, <2>2, <3>1 DEF Once
  <2> QED
    BY <2>3, <2>4, <2>5, <2>6
<1>7. CASE pc \in Leaving
  <2>1. Removals' = Removals
    BY <1>3, <1>7 DEF Leaving
  <2>2. ASSUME Removals # {}
        PROVE  pc' \in Leaving /\ (exc' = "none" => pc' = "record" /\ abort')
    <3>1. exc = "none" => pc = "record" /\ abort
      BY <2>2 DEF Once
    <3>f. Faults \subseteq {"step", "interrupt"}
      BY ConstantsOK DEF AllFaults
    <3>2. Record \/ Restore \/ Rename \/ RenameRaises \/ Release \/ ReleaseRaises \/ End \/ Ended
      BY <1>7 DEF Leaving, Step, Generate, GenerateRaises, Checksum, ChecksumRaises, NextRound,
         Snapshot, SnapshotRaises, Change, ChangeRaises, Unsnap, Pick, RepeatRaises, MakeDestination,
         Prepopulate, PrepareCache, Copy, VerifyCopy, RemoveDestination, RemoveDestinationFails,
         RemoveDestinationInterrupted
    <3> USE DEF Leaving, Leave, RaiseTo, Raise, Removed, RemovalRaises
    <3>3. CASE Record
      BY <1>4, <3>1, <3>3 DEF Record
    <3>4. CASE Restore
      BY <3>1, <3>4, <3>f DEF Restore
    <3>5. CASE Rename \/ RenameRaises
      BY <3>1, <3>5, <3>f DEF Rename, RenameRaises
    <3>6. CASE Release \/ ReleaseRaises
      BY <3>1, <3>6, <3>f DEF Release, ReleaseRaises
    <3>7. CASE End \/ Ended
      BY <3>1, <3>7 DEF End, Ended
    <3> QED
      BY <3>2, <3>3, <3>4, <3>5, <3>6, <3>7
  <2> QED
    BY <1>1, <2>1, <2>2 DEF Once
<1> QED
  BY <1>5, <1>6, <1>7

LEMMA OnceStutter == Once /\ UNCHANGED vars => Once'
BY DEF Once, Removals, Incremental, Mode, Plan, vars

\* The workload under way is one that was accepted.
LEMMA WorkIs ==
    ASSUME Fair
    PROVE  /\ setup \in Setups /\ w \in DOMAIN setup.work /\ Accepts(setup)
           /\ WorkloadOK(Work(w)) /\ {Work(w).bytes, Work(w).files, Work(w).dirs} \subseteq Nat
           /\ Given <=> Work(w).kind = "path"
           /\ Incremental <=> Work(w).changed # None
           /\ Footprint[setup][w] = Room(Work(w))
           /\ setup.given = DOMAIN setup.work \ Generated(setup)
<1>1. setup \in Setups /\ w \in DOMAIN Plan
  BY DEF Fair, Place
<1>2. /\ Plan = [v \in DOMAIN setup.work |-> ModeOf(setup.work[v])]
      /\ setup.given = DOMAIN setup.work \ Generated(setup)
      /\ Accepts(setup)
      /\ \A v \in DOMAIN setup.work :
            {setup.work[v].bytes, setup.work[v].files, setup.work[v].dirs} \subseteq Nat
  BY <1>1, SetupsAccepted DEF Plan
<1>3. w \in DOMAIN setup.work
  BY <1>1, <1>2
<1>4. WorkloadOK(Work(w)) /\ {Work(w).bytes, Work(w).files, Work(w).dirs} \subseteq Nat
  BY <1>2, <1>3 DEF Accepts, Work
<1>5. Given <=> Work(w).kind = "path"
  BY <1>2, <1>3 DEF Given, Generated, Work
<1>6. Incremental <=> Work(w).changed # None
  BY <1>2, <1>3, SpaceConstants DEF Incremental, Mode, ModeOf, Work
<1>7. Footprint[setup][w] = Room(Work(w))
  BY <1>1, <1>3 DEF Footprint, Work
<1> QED
  BY <1>1, <1>2, <1>3, <1>4, <1>5, <1>6, <1>7

\* At most one destination, or one left behind.
LEMMA DestinationsAre == ASSUME Explained, Once PROVE Destinations \in {0, 1}
<1> DEFINE making == pc \in {"fill", "cache", "copy", "verify", "remove"}
<1>1. Destinations = Cardinality(Removals) + IF making THEN 1 ELSE 0
  BY DEF Destinations, Removals
<1>2. CASE Removals = {}
  <2>1. Cardinality(Removals) = 0
    BY <1>2, FS_EmptySet
  <2> QED
    BY <1>1, <2>1
<1>3. CASE Removals # {}
  <2>1. PICK i \in Removals : TRUE
    BY <1>3
  <2>2. Removals = {i}
    BY <2>1 DEF Once
  <2>3. Cardinality(Removals) = 1
    BY <2>2, FS_Singleton
  <2>4. ~making
    BY <1>3 DEF Once, Leaving
  <2> QED
    BY <1>1, <2>3, <2>4
<1> QED
  BY <1>2, <1>3

\* What the trees take, against what was reckoned.
LEMMA TakenIs ==
    ASSUME Fair, Explained, Once, NEW unit \in {"bytes", "inodes"}
    PROVE  /\ ~Given => /\ Taken("src", unit) \in 0..(Reckoned(Work(w), unit) * scratch_factor(Work(w)))
                        /\ Taken("dst", unit) \in 0..(Reckoned(Work(w), unit) * dest_factor(Work(w)))
           /\ Given => /\ Taken("src", unit) = 0
                       /\ Taken("dst", unit) \in 0..Room(Work(w)).base[unit]
<1> DEFINE base == Room(Work(w)).base[unit]
           grown == Room(Work(w)).grown[unit]
           most == Reckoned(Work(w), unit)
<1>1. /\ WorkloadOK(Work(w)) /\ {Work(w).bytes, Work(w).files, Work(w).dirs} \subseteq Nat
      /\ Given <=> Work(w).kind = "path"
      /\ Incremental <=> Work(w).changed # None
      /\ Footprint[setup][w] = Room(Work(w))
  BY WorkIs
<1>2. Destinations \in {0, 1} /\ (tree["before"] # Absent => Incremental)
  BY DestinationsAre DEF Once
<1>3. /\ Taken("dst", unit) = Destinations * (base + IF Incremental THEN grown ELSE 0)
      /\ Taken("src", unit) =
            (IF Given \/ tree["src"] = Absent THEN 0 ELSE IF tree["src"] = 0 THEN base ELSE grown)
            + (IF tree["before"] = Absent THEN 0 ELSE base)
  BY <1>1 DEF Taken
<1>4. CASE ~Given
  <2>1. base \in 0..most /\ grown \in 0..most /\ most \in Nat
    BY <1>1, <1>4, RoomIs
  <2>2. /\ scratch_factor(Work(w)) = IF Incremental THEN 2 ELSE 1
        /\ dest_factor(Work(w)) = IF Incremental THEN 2 ELSE 1
    BY <1>1 DEF scratch_factor, dest_factor
  <2> HIDE DEF base, grown, most
  <2>3. /\ Taken("src", unit) \in 0..(most * IF Incremental THEN 2 ELSE 1)
        /\ Taken("dst", unit) \in 0..(most * IF Incremental THEN 2 ELSE 1)
    <3>1. CASE Incremental
      BY <1>2, <1>3, <2>1, <3>1
    <3>2. CASE ~Incremental
      BY <1>2, <1>3, <2>1, <3>2
    <3> QED
      BY <3>1, <3>2
  <2> QED
    BY <1>4, <2>2, <2>3 DEF most
<1>5. CASE Given
  <2>1. ~Incremental /\ tree["before"] = Absent
    BY <1>2, <1>5, GivenIsFresh
  <2>2. base \in Nat
    <3>1. Room(Work(w)).base = [bytes |-> Work(w).bytes + (Work(w).files + Work(w).dirs + 1) * Block,
                                inodes |-> Work(w).files + Work(w).dirs + 1]
      BY <1>1, <1>5 DEF Room
    <3>2. Block \in Nat
      BY SpaceConstants
    <3>3. (Work(w).files + Work(w).dirs + 1) * Block \in Nat
      BY <1>1, <3>2
    <3> QED
      BY <1>1, <3>1, <3>3
  <2> HIDE DEF base, grown
  <2>3. Taken("src", unit) = 0 /\ Taken("dst", unit) \in 0..base
    BY <1>2, <1>3, <1>5, <2>1, <2>2
  <2> QED
    BY <1>5, <2>3 DEF base
<1> QED
  BY <1>4, <1>5

-----------------------------------------------------------------------------
(* The disks.                                                              *)

\* The trees fit.
LEMMA TreesFit ==
    ASSUME Fair, Explained, Once, DisksKnown, NEW unit \in {"bytes", "inodes"}
    PROVE  LET Has(root, n) ==
                   LET free == setup[unit][setup[root].disk] IN free = None \/ n <= free
           IN  IF setup.src.disk = setup.dst.disk
               THEN Has("dst", Taken("src", unit) + Taken("dst", unit))
               ELSE Has("src", Taken("src", unit)) /\ Has("dst", Taken("dst", unit))
<1> DEFINE x == Work(w)
           Free(root) == setup[unit][setup[root].disk]
           need == Need(x)
           onSrc == IF unit = "bytes" THEN need.src ELSE need.srcInodes
           onDst == IF unit = "bytes" THEN need.dst ELSE need.dstInodes
           src == Taken("src", unit)
           dst == Taken("dst", unit)
<1>1. /\ setup \in Setups /\ w \in DOMAIN setup.work /\ Accepts(setup)
      /\ WorkloadOK(x) /\ {x.bytes, x.files, x.dirs} \subseteq Nat
      /\ Given <=> x.kind = "path"
      /\ setup.given = DOMAIN setup.work \ Generated(setup)
  BY WorkIs
<1>2. Free("src") \in Nat \cup {None} /\ Free("dst") \in Nat \cup {None}
  <2>1. \A d \in {setup.src.disk, setup.dst.disk} :
           setup.bytes[d] \in Nat \cup {None} /\ setup.inodes[d] \in Nat \cup {None}
    BY <1>1, SetupsAccepted
  <2> QED
    BY <2>1
<1>3. RoomFor(setup, need)
  <2>1. need \in Needs(setup)
    BY <1>1 DEF Needs, Work
  <2> QED
    BY <1>1, <2>1 DEF Accepts
<1>4. Block \in Nat
  BY SpaceConstants
<1>5. CASE ~Given
  <2>1. x.kind # "path" /\ Generated(setup) # {}
    BY <1>1, <1>5 DEF Generated, Work
  <2>2. /\ Reckoned(x, unit) \in Nat \ {0}
        /\ Reckoned(x, "bytes") \in Nat \ {0}
    BY <1>1, <2>1, RoomIs
  <2>3. scratch_factor(x) \in {1, 2} /\ dest_factor(x) \in {1, 2}
    BY DEF scratch_factor, dest_factor
  <2>4. /\ need.src = disk_bytes(x) * scratch_factor(x)
        /\ need.srcInodes = disk_inodes(x) * scratch_factor(x)
        /\ need.dst = disk_bytes(x) * dest_factor(x)
        /\ need.dstInodes = disk_inodes(x) * dest_factor(x)
    BY <2>1 DEF Need
  <2>5. /\ onSrc = Reckoned(x, unit) * scratch_factor(x)
        /\ onDst = Reckoned(x, unit) * dest_factor(x)
        /\ need.src = Reckoned(x, "bytes") * scratch_factor(x)
    BY <2>4 DEF Reckoned
  <2>6. src \in 0..onSrc /\ dst \in 0..onDst
    BY <1>5, <2>5, TakenIs
  <2> HIDE DEF src, dst, onSrc, onDst
  <2>7. onSrc \in Nat /\ onDst \in Nat /\ need.src > 0
    BY <2>2, <2>3, <2>5
  <2>8. CASE setup.src.disk = setup.dst.disk
    <3>1. Shared(setup)
      BY <1>1, <2>1, <2>8 DEF Shared, DisksKnown
    <3>2. Fits(Free("dst"), onSrc + onDst)
      BY <1>3, <3>1 DEF RoomFor, onSrc, onDst
    <3>3. src + dst \in Nat /\ onSrc + onDst \in Nat /\ src + dst <= onSrc + onDst
      BY <2>6, <2>7
    <3>4. Free("dst") = None \/ src + dst <= Free("dst")
      <4> HIDE DEF Free
      <4> QED
        BY <1>2, <3>2, <3>3, LessFits
    <3> QED
      BY <2>8, <3>4 DEF src, dst
  <2>9. CASE setup.src.disk # setup.dst.disk
    <3>1. ~Shared(setup)
      BY <2>9 DEF Shared
    <3>2. Fits(Free("src"), onSrc) /\ Fits(Free("dst"), onDst)
      BY <1>3, <2>7, <3>1 DEF RoomFor, onSrc, onDst
    <3>3. /\ Free("src") = None \/ src <= Free("src")
          /\ Free("dst") = None \/ dst <= Free("dst")
      <4>1. src \in Nat /\ dst \in Nat /\ src <= onSrc /\ dst <= onDst
        BY <2>6, <2>7
      <4> HIDE DEF Free
      <4> QED
        BY <1>2, <2>7, <3>2, <4>1, LessFits
    <3> QED
      BY <2>9, <3>3 DEF src, dst
  <2> QED
    BY <2>8, <2>9
<1>6. CASE Given
  <2> DEFINE n == x.files + x.dirs
             base == Room(x).base[unit]
  <2>1. x.kind = "path" /\ w \in setup.given
    BY <1>1, <1>6 DEF Given
  <2>2. /\ need.src = 0 /\ need.srcInodes = 0
        /\ need.dst = x.bytes + n * Block /\ need.dstInodes = n
    BY <2>1 DEF Need
  <2>3. n \in Nat /\ n > 0 /\ x.bytes + n * Block >= 10 * Block /\ n * Block \in Nat
    <3>1. n \in Nat /\ n > 0 /\ x.bytes + n * Block >= 10 * Block
      BY <1>1, <2>1 DEF DisksKnown, Work
    <3> QED
      BY <1>4, <3>1
  <2>4. (n + 1) * Block = n * Block + Block
    BY <1>4, <2>3
  <2>5. Room(x).base = [bytes |-> x.bytes + (n + 1) * Block, inodes |-> n + 1]
    BY <1>1, <2>1 DEF Room
  <2>6. src = 0 /\ dst \in 0..base
    BY <1>6, TakenIs
  <2>7. Fits(Free("dst"), onDst)
    <3>1. CASE Shared(setup)
      <4>1. Fits(setup.bytes[setup.dst.disk], need.src + need.dst)
            /\ Fits(setup.inodes[setup.dst.disk], need.srcInodes + need.dstInodes)
        BY <1>3, <3>1 DEF RoomFor
      <4>2. need.src + need.dst = need.dst /\ need.srcInodes + need.dstInodes = need.dstInodes
        <5> HIDE DEF n
        <5> QED
          BY <1>1, <2>2, <2>3
      <4> QED
        BY <4>1, <4>2
    <3>2. CASE ~Shared(setup)
      BY <1>3, <3>2 DEF RoomFor
    <3> QED
      BY <3>1, <3>2
  <2> HIDE DEF src, dst, n
  <2>8. Free("dst") = None \/ dst <= Free("dst")
    <3>1. CASE unit = "bytes"
      <4>1. onDst = x.bytes + n * Block /\ base = x.bytes + n * Block + Block
        BY <1>1, <1>4, <2>2, <2>3, <2>4, <2>5, <3>1
      <4>2. ASSUME Free("dst") \in Nat PROVE dst <= Free("dst")
        <5>1. 10 * Free("dst") >= 11 * onDst \/ Free("dst") = None
          BY <2>7 DEF Fits
        <5>2. Free("dst") # None
          BY <4>2, SpaceConstants
        <5> HIDE DEF Free, onDst, base
        <5> QED
          BY <1>1, <1>4, <2>3, <2>6, <4>1, <4>2, <5>1, <5>2
      <4> QED
        BY <1>2, <4>2
    <3>2. CASE unit = "inodes"
      <4>1. onDst = n /\ base = n + 1
        BY <2>2, <2>5, <3>2
      <4>2. Free("dst") = None \/ n + 1 <= Free("dst")
        <5> HIDE DEF Free
        <5> QED
          BY <1>2, <2>3, <2>7, <4>1, OneMoreFits
      <4>3. dst \in Nat /\ dst <= n + 1
        BY <2>3, <2>6, <4>1
      <4> HIDE DEF Free
      <4> QED
        BY <1>2, <2>3, <4>2, <4>3
    <3> QED
      BY <3>1, <3>2
  <2>9. Free("src") = None \/ src <= Free("src")
    <3> HIDE DEF Free
    <3> QED
      BY <1>2, <2>6
  <2>10. src + dst = dst
    <3>1. dst \in Int
      BY <2>6
    <3> QED
      BY <2>6, <3>1
  <2> QED
    BY <2>8, <2>9, <2>10 DEF src, dst
<1> QED
  BY <1>5, <1>6

\* What the storage probes write fits.
LEMMA ProbesFit ==
    ASSUME Fair, DisksKnown, setup.probes, NEW unit \in {"bytes", "inodes"}, NEW root \in Probed(setup)
    PROVE  LET free == setup[unit][setup[root].disk] IN free = None \/ ProbeRoom[unit] <= free
<1> DEFINE free == setup[unit][setup[root].disk]
           need == ProbeNeed(setup)
<1>1. setup \in Setups /\ Accepts(setup)
  BY WorkIs
<1>2. /\ root \in {"src", "dst"} /\ Local(setup[root])
      /\ root = "src" => Generated(setup) # {}
  BY DEF Probed
<1>3. free \in Nat \cup {None}
  <2>1. \A d \in {setup.src.disk, setup.dst.disk} :
           setup.bytes[d] \in Nat \cup {None} /\ setup.inodes[d] \in Nat \cup {None}
    BY <1>1, SetupsAccepted
  <2> QED
    BY <1>2, <2>1
<1>4. RoomFor(setup, need)
  <2>1. need \in Needs(setup)
    BY DEF Needs
  <2> QED
    BY <1>1, <2>1 DEF Accepts
<1>5. ProbeBytes \in Nat \ {0} /\ ProbeInodes \in Nat \ {0} /\ Block \in Nat
  BY SpaceConstants
<1>6. Fits(setup.bytes[setup[root].disk], ProbeBytes) /\ Fits(setup.inodes[setup[root].disk], ProbeInodes)
  <2>1. CASE Shared(setup)
    <3>1. setup.src.disk = setup.dst.disk /\ Local(setup.dst)
      BY <1>2, <2>1 DEF Shared, Local
    <3>2. /\ need.src = 0 /\ need.srcInodes = 0
          /\ need.dst = ProbeBytes /\ need.dstInodes = ProbeInodes
      BY <2>1, <3>1 DEF ProbeNeed
    <3>3. need.src + need.dst = ProbeBytes /\ need.srcInodes + need.dstInodes = ProbeInodes
      BY <1>5, <3>2
    <3>4. setup[root].disk = setup.dst.disk
      BY <1>2, <3>1
    <3> QED
      BY <1>4, <2>1, <3>3, <3>4 DEF RoomFor
  <2>2. CASE ~Shared(setup)
    <3>1. CASE root = "dst"
      <4>1. need.dst = ProbeBytes /\ need.dstInodes = ProbeInodes
        BY <1>2, <3>1 DEF ProbeNeed
      <4> QED
        BY <1>4, <2>2, <3>1, <4>1 DEF RoomFor
    <3>2. CASE root = "src"
      <4>1. need.src = ProbeBytes /\ need.srcInodes = ProbeInodes
        BY <1>2, <2>2, <3>2 DEF ProbeNeed
      <4> QED
        BY <1>4, <1>5, <2>2, <3>2, <4>1 DEF RoomFor
    <3> QED
      BY <1>2, <3>1, <3>2
  <2> QED
    BY <2>1, <2>2
<1>7. Fits(free, IF unit = "bytes" THEN ProbeBytes ELSE ProbeInodes)
  BY <1>6
<1> HIDE DEF free
<1>8. CASE unit = "bytes"
  <2>1. (ProbeInodes + 1) * Block \in Nat
    BY <1>5
  <2>2. ProbeRoom[unit] = ProbeBytes
    <3>1. (ProbeInodes + 1) * Block \in Int /\ ProbeBytes \in Int
      BY <1>5, <2>1
    <3>2. Max({ProbeBytes, (ProbeInodes + 1) * Block}) = ProbeBytes
      BY <3>1, ProbesOK, Greater
    <3> QED
      BY <1>8, <3>2 DEF ProbeRoom
  <2>3. free = None \/ ProbeBytes <= free
    BY <1>3, <1>5, <1>7, <1>8, LessFits
  <2> QED
    BY <2>2, <2>3 DEF free
<1>9. CASE unit = "inodes"
  <2>1. ProbeRoom[unit] = ProbeInodes + 1
    BY <1>9 DEF ProbeRoom
  <2>2. free = None \/ ProbeInodes + 1 <= free
    BY <1>3, <1>5, <1>7, <1>9, OneMoreFits
  <2> QED
    BY <2>1, <2>2 DEF free
<1> QED
  BY <1>8, <1>9

\* The one check of cmd_run (cli.py), made before anything is written, is enough:
\* whatever fails later, the trees of a run and its probes fit on its disks at
\* every step, if these are told apart by their hosts and no user's directory is
\* smaller than ten blocks.
THEOREM DisksAreNeverFull == DisksKnown => (Spec => []DiskNeverFull)
<1>1. Init => Records /\ Once
  BY RecordsInit, OnceInit
<1>2. Records /\ Once /\ [Next]_vars => (Records /\ Once)'
  BY RecordsNext, OnceNext, OnceStutter DEF Records, Next
<1>3. ASSUME DisksKnown PROVE Records /\ Once => DiskNeverFull
  <2> SUFFICES ASSUME Fair, Explained, Once, NEW unit \in {"bytes", "inodes"}
               PROVE  LET Has(root, n) ==
                              LET free == setup[unit][setup[root].disk] IN free = None \/ n <= free
                      IN  /\ IF setup.src.disk = setup.dst.disk
                             THEN Has("dst", Taken("src", unit) + Taken("dst", unit))
                             ELSE Has("src", Taken("src", unit)) /\ Has("dst", Taken("dst", unit))
                          /\ setup.probes /\ pc = "prepare" /\ w = 1 =>
                                \A root \in Probed(setup) : Has(root, ProbeRoom[unit])
    BY DEF Records, DiskNeverFull
  <2> QED
    BY <1>3, TreesFit, ProbesFit
<1> SUFFICES ASSUME DisksKnown PROVE Spec => []DiskNeverFull
  OBVIOUS
<1> QED
  BY <1>1, <1>2, <1>3, PTL DEF Spec
=============================================================================
