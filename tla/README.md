# Verification of syq-bench

TLA+ models of syq-bench, the TLC runs that check them on small instances, and
theorems about them that TLAPS checks for every value of the constants.

## 1. Inventory

syq-bench measures file-copy tools. The parts that carry state, and what makes
each of them right:

| Part | Source | State | Operations | Hard behaviour | Correct when |
|---|---|---|---|---|---|
| Fly campaign | `src/syq_bench/fly.py`, `providers/fly/reframe_checks.py` | one recovery state file per experiment, one Fly app per experiment, worker processes, launcher | plan, provision, measure, destroy, stop, recover | three kinds of process share the files without a lock; Fly is reached by requests that may time out and still apply; any process may be killed | no app is lost, only owned apps are deleted, a `destroyed` file is right, success means everything is there and gone |
| Placement and budget | `fly.py` 129-356, 441-454, 985-1102 | the Machines of an app, a time budget | refuse a campaign, plan, deploy, move a group, wait for the pair | a move passes through a third Machine, flyctl reports a part as done, each step takes from one budget | never more Machines than the plan shows, measured only as planned and within the budget |
| Campaign locks | `fly.py` 512-586 | one lock file per exclusive resource | acquire in order, refuse, release | several launchers; kernel releases at death | no overlapping measurements, no mutual refusal |
| Runner | `runner.py` | source tree, `.before` snapshot, destinations, cases | snapshot, change, prepopulate, copy, verify, restore, curtail, abort | every step may fail; clean-up in nested `finally` blocks | every tool of a round sees the same trees, nothing is left behind unreported, a failed case is never reported good |
| Process measurement | `runner.py` 199-285, `resources.py` | a process group, a time budget | wait, time out, kill, collect | signals race with exits | nothing of the tool survives, the code recorded is the right one |
| Network lab | `netlab/netlab.sh` | two containers, a network, a lock container, a state directory per checkout | up, down, impair, run | several checkouts and terminals; interruption at every step | only the checkout's own lab is touched, no lab becomes ownerless |
| Fixtures | `fixtures.py` | generated trees | generate, fit sizes, modify a fraction | arithmetic at the limits | exact totals, room as reckoned, deterministic change |
| Endpoints | `remote.py` | a local or ssh path | guarded removal, checksum, fsync | removal of the wrong tree | only paths inside the harness's root are removed |
| Spec and start of a run | `spec.py`, `cli.py` 119-191 | none | validate, override, check directories and free space | many cross-field rules; checked once, before anything exists | an accepted run fills no disk and touches no tree of the user's |
| Analysis | `analysis.py` | none | medians, standings, gate | ties, lower bounds, missing cases | a gate passes only on evidence |
| Publication | `publication.py`, `public.py`, `rclone_public.py`, `releases.py` | none | allowlist, join | fields that must not pass | only allowlisted fields are published |
| Reports, site, CLI | `report.py`, `html.py`, `scripts/build_site.py`, `cli.py` | files written once | render | none | formatting |

The parts call each other in one direction: `cli.py` loads a spec, builds a
`Runner` on two endpoints and writes the result; `fly.py` runs that same command
on a rented machine and downloads its result; analysis, publication and reports
read results. Processes and machines are shared only by the Fly campaign, the
campaign locks and the network lab, which is why these come first.

## 2. Modules

| Module | What it is | Code |
|---|---|---|
| `FlyLifecycle` | launcher, workers, operator, Fly and the state files | `fly.py` 504-1508, `reframe_checks.py` |
| `AppOwnership` | the abstract promise of that life cycle, two variables | `fly.py` 608-1342 |
| `FlyLocks` | the host locks that keep campaigns apart | `fly.py` 512-586 |
| `Netlab` | the network lab and its checkouts | `netlab/netlab.sh` |
| `Placement` | the way of a worker to its pair of Machines, under its budget | `fly.py` 129-356, 441-454, 866-1102 |
| `Runner` | one benchmark run | `runner.py` 350-658, the end of `cmd_run` |
| `Space` | what a specification may ask for, the room it is reckoned to need and the room its trees take | `spec.py` 57-226, `cli.py` 49-191, `fixtures.py` |
| `RunSpace` | composes `Runner` and `Space`: the runs of accepted specifications, on disks | |
| `CommandGroups` | composes the three modules below: a command, its time limit, and everything that may signal it or its runner | |
| `ProcessGroup` | the kernel: processes, their groups, signals (external) | how `resources.py`, `runner.py` use it |
| `Measure` | `measure`, which runs and records one command | `resources.py` |
| `Timed` | `_timed` and `kill_group`, in which the runner waits for a tool | `runner.py` |
| `Analysis`, `Statistics` | report grid, overview, standings, gate | `analysis.py` |
| `MCFlyLifecycle`, `MCFlyLocks`, `MCNetlab`, `MCPlacement`, `MCRunner`, `MCAnalysis` | values for TLC | |
| `FlyLifecycleProofs`, `FlyLocksProofs`, `NetlabProofs`, `PlacementProofs`, `RunnerProofs` (with `RunSpace`), `CommandGroupsProofs`, `AnalysisProofs` | theorems | |
| `Counting` | lemmas about numbers, finite sets and sums that several of them need | |

Definitions whose comment begins with "Mutant" are wrong on purpose: each is a
plausible bug, to be put in place of the definition below it, and breaks the
property it is listed with in `PROJECT.json`. They are in no specification.

### FlyLifecycle

A worker is named by its experiment. `file` is the recovery state on disk,
abstracted to its phase and recorded ID; `app` is what Fly holds under the
experiment's app *name* (nothing, the campaign's own app, or one of somebody
else, with or without Machines). Every process - each worker, the launcher and
the operator - has a program counter `pc`, the experiment it works for, its
private `copy` of the state file and its outstanding flyctl request `call`.
Reading a file, sending a request, Fly applying it, and writing the copy back are
different steps, so processes interleave between any two of them.

* `provision` and `run_experiment` are `ReadPlanned` to `Fetch`; every exception
  in them is `WorkerRaises`, which leads to the `destroy` of the `finally`.
* `destroy` is `DestroyLook` to `DestroyClose`, the same for the three kinds of
  process; `DestroyRaises` is any exception in it, a refusal included: a guard of
  `DestroyFind` or `DestroyVerify` that does not hold is an exception.
* The launcher is `CreateState`, `Withdraw` / `WalkAway`, `Confirm`, `BeginStop`,
  `StopGroups`, `CleanNext`, `Finish`, and `RelayFails` for an unforeseen exception,
  which leads to the `finally` without a stop; ReFrame is `SpawnWorker`, `ReframeExits`
  and `ReframeDies`: the launcher's loop ends as soon as ReFrame has, and what lives
  of its workers is not stopped.
* `Faults` chooses what the environment does: kill processes, apply a request
  whose client was stopped, start a worker after the stop's `ps` snapshot, let
  that `ps` fail, a second Ctrl-C, ReFrame dying under its workers, an unforeseen
  exception in the launcher, name reuse by others, and a recovery typed
  while workers live.
* Without the fault `late_call` the request of a killed process is gone with it. Its
  flyctl has a session of its own (`fly.py:715`) and may live on: that is `late_call`,
  which `fly_recovery` has and `fly_killed` has not.

`AppOwnership` keeps only what the state file says and what the campaign owns.
`KeepsOwnership` is its specification under the mapping `Recorded`, `Holding`.

### Placement

What `provision` is one step each of in `FlyLifecycle`. A campaign file, accepted
by `Loads`, says which region each group of Machines (source, destination) is to be
measured in; both are first deployed in the primary one. A worker is at a `step` of
`provision`, has `spent` some of its budget, and has `machines`. `Serve` is Fly
doing what the step's flyctl asks for, one Machine at a time; it may do none or a
part of it and the step still `Return` with success, or do all and the step `Fail`.
`Limit` is the time limit the code gives the step, and after the steps in `Checked`
the rest of the budget is looked at. `PlannedPeak` is the number of Machines in the
plan that the user accepts. Time is counted per worker: no worker waits for another.

### FlyLocks

One flock per file. `Dir` gives the lock directory each campaign's environment
leads to, `Needs` its resources. `Lock` and `Refuse` are one iteration of the
loop, `Unlock` one of the release; `Kill` is the kernel closing a dead launcher's
descriptors while its workers, which run in sessions of their own, go on.

### Netlab

A token is a pair of the checkout that minted it and a serial. `dir` is each
checkout's state directory (absent, without its sentinel, or holding a token),
`label` the token on whatever holds one of the three names. A terminal runs one
command after another; `old` is the token it read first, before the lock. `Look`
inspects one label and `Remove` is the docker command that follows it. A refusal,
Ctrl-C and a failing command that is not an inspect are all `Exit` (or `GiveUp`
without the lock), which is possible at each step.

A failing `docker inspect` does not end the script: `exists` and `net_exists` then
say that the object is absent, `label_of` and `netlabel_of` that its label is empty
(`netlab.sh` 67-70). The fault `unseen` is this. `Overlook` passes over an object that
is there, in the check of `up` or before a removal; `Misread` is an `up` without a
token, which takes the empty label for its own (lines 115 and 120 do not ask for a
non-empty one); elsewhere an empty label is a refusal, `Exit`. The state directory
is removed all the same. `missed` and `lost` are history variables: what a terminal
did not see, and what an `up` or `down` has left of its own checkout's lab when it
removed the state. A lock container that survives a failing clean-up, or a `docker
create` that fails having created it, is a lock nobody holds, as after a kill.

### Runner

The trees are versions of their contents: 0 as generated, n as changed in round
n, or `Damaged`. `hot` is the set of trees with pages in the page cache. Each
harness step is an action, and has a companion `...Raises`; an exception `exc`
travels through the `finally` blocks `unsnap`, `remove`, `restore`/`rename` and
`release`, whose steps may raise in turn and replace it. `setup`, chosen at the
start, is the specification: the modes of the workloads, which of them are trees
of the user's (`given`, nothing is generated or released), the tools that only
copy, verification, the cache mode, and whether the destination is `remote`. The
history variables are `hit`, the steps a fault hit, and the fields `right` and `hot` of
a repeat, the latter what was cached when its tool started. A local eviction flushes
and then advises, and is taken to be effective when it succeeds. On a remote
destination `evict_tree` only advises (`remote.py` 119-125), so `Prepopulate` may report
success and leave the pages of the copy just made; a global drop follows a `sync`.

### Space and RunSpace

`Space` has no state. `Accepts` is what `load` and `cmd_run` demand before anything
is written: `WorkloadOK`, directories that are empty and do not overlap (`Overlaps`),
and free space, by the formulas of `disk_bytes` and `disk_inodes` and a tenth more.
`Sizes`, `Grown` and `Directories` are what `fixtures.py` then writes, for all
random numbers in `Draws`; `Room` is what that takes on a disk, in blocks and inodes.

`RunSpace` adds to `Runner` that its setups are accepted ones (`SetupsAccepted`),
where each tree of the run is (`LocationOf`), and how much of each disk is taken at a
step of the run (`Taken`): fixture, snapshot, destinations that a failed removal has
left, and, during an update, a second destination tree that the tool may build
beside the first.

### CommandGroups

Two programs run a command in a process group of its own and wait for it:
`measure` (`Measure`), which records what it used, and `_timed` (`Timed`), in which
the runner waits for a tool. `program` says which one it is; nothing else is
shared. `ProcessGroup` is the kernel under both: the state of the leader and of
what it starts, whether each ignores SIGTERM, the strongest signal it was sent,
and the timers. A step of a program ends where a signal makes a difference. Only
Linux is modelled, where processes of a group are found through `/proc`.
`SweepRaises` is the process that exits between being listed and being signalled
(`resources.py:107`). A signal leaves the group running if it arrives between the
start of the command and the installation of `measure`'s handlers, or before or
after the `try` of `_timed`; so does a SIGTERM to the runner or a second Ctrl-C.
`NothingOutlives` is about all other ways to end.

### Analysis

`files` is the list of result files a report is given; `Name` adds one. A file is
a place in `Results`, whose order is that of `comparison_rows`: by `started`, then
by contents. `Rows` is the fold over the runs in that order, `Shown` the choice of
`current_rows`, `Standings`, `Verdict` and `Gate` are the functions of the same
names, on a row that is a family of summaries by column. Sorting, medians, minima and
maxima are all the order statistic `Kth`. Walls are naturals, 5 % is one part in twenty
and medians are doubled, so that all comparisons are exact; a command that ended well
took more than no time on the clock of `_timed`, since the code divides by medians. Scenario, hosts, file systems, shape and mode of a
benchmark are one value, `series`.

## 3. Runs

All runs are instances of the modules above; no definition is replaced.

| Run | Instance | Shows |
|---|---|---|
| `fly_killed` | 2 experiments, 1 worker at a time, kills, name reuse | `KeepsOwnership`: every behaviour is one of `AppOwnership`, in which a file becomes destroyed only when nothing is owned under it. Exit code 0 means all results are there and all apps gone, no foreign app is deleted, Machines exist only under a recorded ID, no recorded ID or destroyed phase is overwritten by a stale copy, a launcher that ends has destroyed or reported each app. The cleanup does not overlap the workers here (see `Overlapping` in section 4) |
| `fly_recovery` | 1 experiment, all faults (late requests, a failing `ps` and ReFrame dying under its worker too) but a too early recovery | safety under all of these, the campaign ends, recorded apps go away |
| `fly_unrecorded` | 1 experiment, no fault | **violated**: see findings |
| `fly_eager_recovery` | 1 experiment, kills and a recovery typed too early | **violated** |
| `netlab_terminals` | 2 checkouts, 3 terminals (two in one checkout), 3 tokens each, kills, torn directories, failing inspects; the two terminals of one checkout are interchangeable | only a lab's own checkout removes it, unless an `up` without a token failed to inspect it twice; a finished `up` leaves a usable lab; a checkout with one terminal always holds the token of what it started, except what it passed over because an inspect failed |
| `netlab_stale_down` | 1 used checkout, 2 terminals, no fault | **violated** |
| `runner_faults` | of `Candidates`, the specifications that are accepted: an update workload with verification, a fresh and a resync one without, evicting or dropping caches that may fail to be, and a directory of the user's; one disk or two, the second a local or a remote one, with hardly enough room; 2 tools, rounds `<<a, b>>` and `<<b>>`, two faults anywhere, two speeds, all outcomes | fair comparisons, right verdicts, explained leftovers, measured curtailment, complete success, a repeat recorded as cold was cold, but for what a remote destination had not flushed; no disk ever full, the user's trees untouched, generated sizes as asked for |
| `runner_abort` | a fresh workload, two failing steps | **violated** |
| `locks_killed` | 3 campaigns, each two of three resources, kills | no two run at once, not all of them are turned away |
| `command_groups` | a command with 1 descendant, 2 signals from outside, both time limits | nothing of the command outlives its measurement outside the named windows, a complete record means an undisturbed command, exit code 0 a complete record, a result that is the command's own was not caused by a signal sent to stop it, and whatever is limited or stopped ends |
| `analysis` | each list of up to 3 of 27 result files, with walls on both sides of 2 s, 5 % and twice as slow | the grid counts every case once and keeps unidentified remote ends apart, the overview is newest, file order is irrelevant, report and gate judge alike, and the gate refuses what fails or slows repeats, or drops cases, of something it refuses |
| `placement` | 3 experiments, of which one moves a group and one both, or none with volumes; 1 or 2 workers, budgets of 1 and 2 steps | Machines never exceed the plan, a worker measures with exactly its pair, within its budget, and asks for nothing long after it |

Why the bounds are enough. Experiments of one campaign meet only in the launcher's
loops and in ReFrame's slots: two of them with one slot make the second wait and
give the launcher one that succeeded and one that failed. The third actor on a
state file is the operator. Three terminals give one checkout a rival in itself
and one outside; three tokens are one more than a checkout can have in use beside
the one being minted, and a terminal for which none is fresh cannot stage. In
`Runner` an error path is at most two faults deep for what the properties
distinguish (a step and its own clean-up); uneven rounds make the number of
planned repeats differ between tools, and two rounds make one follow another.
`MaxFaults` bounds the faults of a run; the theorems have no such bound. Each kind of
specification is tried with hardly enough room, to a block or two, and with too
little, which `Accepts` refuses: a formula that forgets one tree accepts what then
does not fit. The user's directory lies beside the destination, or holds it, which is refused;
probes are scaled down so that they matter as much as the trees. `Draws` are far
enough apart to need corrections from several files. Three
experiments are one more than run at once, and move none, one and both of their
groups; the steps' limits of one unit make every step of `Placement` the one that
uses a budget up. The ring of locks is the smallest in which each pair competes and all three can hold one.
A second descendant of a command could do nothing the first does not, and a second
signal is what interrupts the handling of the first. Three results are what a
build that is measured again after another one takes, and what the gate's
monotony compares; the properties of `Analysis` are about at most three.

Deadlock is checked except for `FlyLifecycle`, which really stops: when the
campaign is over and nothing is left for an operator to do.

Fairness. Workers, the launcher's own steps and ReFrame are weakly fair: they are
running processes, and every call they wait in has a time limit (`_run`,
`_run_live` and the lifetime cap in `_wait_for_reframe`). Fly is weakly fair
because a request that is never answered is ended by that limit
(`WorkerRaises`, `DestroyRaises`). Nobody has to kill, interrupt or take names.
`CommandGroups` has weak fairness of the two programs' steps, of the kernel ending
a process it has killed, and of timers: `StoppedEnds` needs no command to end by
itself.
`RecoverySpec` adds strong fairness of the operator's steps: the operator repeats
the printed command until one attempt gets through, which the message asks for.

## 4. Proofs

All theorems hold for every value of the constants that satisfies the named
assumption `ConstantsOK` of the module, which TLC evaluates in the runs.

* `FlyLifecycleProofs!TypeCorrect`: `TypeOK`. Not inductive alone: that a process
  works for an experiment, and a worker for its own, is the conjunct `Aim`.
* `FlyLifecycleProofs!DestroyedFilesAreRight`: under every fault a destroyed file
  that holds an ID is right. `GoneInv` says why: an ID exists only after the
  create request was answered (`NoIdEarly`), an orphaned create request belongs to
  a worker that has given up (`CreateGivenUp`), so where there is an ID no request
  can bring the app back, and `close` is reached only with the app seen gone.
* `FlyLifecycleProofs!NoAppGoesAstray`: no app, and no request that may create one,
  is without a state file. `FilesInv`: nothing exists before ReFrame is started
  (`NothingYet`), then all files do (`AllFiles`), and no file is unlinked after.
* `FlyLifecycleProofs!RecordComesFirst` and `RecordsStay`: `RecordedBeforeMachines` and
  `RecordIsNeverLost`, if none of the faults `Overlapping` occurs. TLC finds each of the six
  to break both alone (an early recovery together with kills), so none can be left out; kills, late requests and taken names are
  allowed. `Kept` says why: processes take turns at a state file
  (`Turns`: the cleanup loop and the operator begin when the workers are gone), until it
  comes to `destroy` a worker is alone with its app (`Tracks`), and in `destroy` every
  process holds the file as it is (`Copies`). It is inductive while `Alone`, as long as
  none of the six faults can have come about, which once lost never returns.
* `FlyLifecycleProofs!FailuresAreReported`: `FailureIsReported` unless a stop is cut short or
  incomplete, or the cleanup begins without one while workers live (`StopFaults`), from `Accounted`: what the cleanup loop has been through
  is destroyed or printed. A recovery typed too early cannot break it, since then the
  launcher, which would report, was killed.
* `FlyLifecycleProofs!SuccessIsTrue`: `SuccessIsComplete` under every fault. `RcInv`: code 0
  is given while the launcher is still `Alone`, and after it nobody gets past the first look
  at a state file.
* `FlyLifecycleProofs!ForeignAppsAreSafe` and `OwnershipIsKept`, the refinement of
  `AppOwnership`. `Names`: a destroy request not served yet meets the campaign's own
  app. The hypothesis `InTurn` adds to the above that no request outlives its client: an
  orphaned destroy request may meet an app that took the name. Of the refinement, each
  step is shown to be one of the abstract module or a stutter: `Serve` is what creates
  and removes, and `CreateState`, `Withdraw`, `Record` and `DestroyClose` are what the file tells of it.
* `FlyLocksProofs!TypeCorrect` and `CampaignsApart`: with one lock directory,
  campaigns that need a common resource never run together. `Owns`: what a
  launcher has taken it holds until it stops running.
* `FlyLocksProofs!SomeoneGetsIn`: competing campaigns never all give up. `Ordered`
  says resources are taken in order and that a refused campaign wants a resource
  somebody took; if all were refused, the taker of the largest such resource was
  refused a larger one. The largest exists because naturals are well founded.
* `NetlabProofs!LabsAreSafe`: with kills, torn directories, failing inspects and any number
  of checkouts and terminals, a lab is removed only by its own checkout, or by an `up`
  without a token that missed the object before. `LockInv`:
  one terminal holds the lock, and the label it has seen cannot change meanwhile;
  `Checked`, that what an `up` without a token has checked and not missed is not there.
* `NetlabProofs!LabsKeepState`: a checkout with one terminal always holds the token
  of what it started and has not passed over for a failing inspect (`lost`). `StateInv` adds that the token read before the lock is still
  the current one, which is exactly what fails with two terminals.
* `NetlabProofs!FinishedLabsAreUsable`: an `up` that gets to its end leaves the token in
  the checkout on every object, with any number of terminals. `LoopDone` says at "start" that
  what was started already carries the new token; the lock keeps it.
* `RunnerProofs!RoundsAreFair`: at every copy the source is the round's own version
  and the destination its starting contents. `Fair` ties the three trees to the
  step the run is in.
* `RunnerProofs!LeftoversAreExplained`: a tree is left behind only if its removal or
  generation was hit. `Explained` says so for every step after the one that should
  have removed it.
* `RunnerProofs!VerdictsAreRight`: `VerdictIsRight`. `Sum` says that the reference checksum
  is of the source which the round's tools read, `Current` and `Shown` that this decides
  the verdict of the repeat under way and of those recorded.
* `RunnerProofs!ColdCopiesAreCold`: `ColdIsCold`; "dropped" means that nothing was cached,
  "evicted" that nothing but a remote destination filled for an update was. `Cached` says what is in the page cache
  when the tool starts; `Unread`, that the first repeat of a run may leave the source
  alone because nothing has read it since it was written past the cache.
* `RunnerProofs!CurtailedCasesMeasured`: `CurtailedWasMeasured`, which is inductive since
  repeats are never taken back.
* `RunnerProofs!SuccessMeansComplete`: `SuccessIsComplete`. `Counted` counts the repeats of
  an open case against `Seen`, the rounds in which its tool has had its turn, so at the
  end they are as many as planned; `Audited` says that a repeat that is no good shows in its
  case, `Tidy` that without an exception no tree outlives its step. It rests on the
  assumption `ProtocolOK` that no round has a tool twice, as `run` builds them. The
  four theorems are conclusions of one inductive invariant, `Records`, of which these are parts.
* `RunnerProofs!UserDataIsSafe`: for any accepted specifications and faults, no tree
  of the user's is changed or removed, nor anything made in or around it. `Kept` says
  that the source of a path workload is as found, and that a run that generates
  nothing has no snapshot; `BelowIsApart`, that what is below a directory which does
  not overlap another one is apart from it. It rests on `SetupsAccepted`, the checks
  before the run.
* `RunnerProofs!SizesAreRight`: `SizesFit`, for any numbers of files and bytes and whatever
  is drawn. `FitSizesFit` follows `_fit_sizes` file by file: after each correction the sum is
  right, or it is still too large and every file corrected so far is at the floor; at the
  end the latter would put all files at the floor, whose sum `WorkloadOK` has refused. That
  the corrections reach every file is `LargestIs`: the files can be sorted, since each may go to
  the place that as many are before. `CorrectedDefined` unfolds the loop, which is a recursive
  function. Sizes are naturals by `SetupsAccepted`. The code scales by a float, the model
  by an integer quotient: the argument needs of the scaled sizes only that none is below the floor.
* `RunnerProofs!DisksAreNeverFull`: `DiskNeverFull`, for trees of any size and number of files.
  `RoomIs` says that a generated tree takes no more than is reckoned for it: n files fill
  their size and at most n blocks (`BlocksAre`, `SumPlus`), the directories are no more than
  the inodes reckoned (`DirectoriesFit`), and the hundredths appended to the files are no more than a
  hundredth of the sum and n blocks (`AppendedIs`, `SumTimes`). `Once` says how many trees there are: a
  snapshot only for an incremental workload, and only one destination that could not be
  removed, since the run ends with it. Together they bound what is under each root (`TakenIs`) by
  what the check asked for, on one disk or on two (`TreesFit`, `ProbesFit`). The theorem has a hypothesis
  that the code does not check, `DisksKnown`: no disk is reached under two host names, and a
  user's directory has something in it and takes ten blocks, so that the tenth of margin makes up for
  the root directory left out of its need. TLC finds `DiskNeverFull` violated for a directory of
  five blocks; `MCRunner` has it check `DisksKnown` for the specifications of its runs. Further assumptions
  are `SetupsAccepted` and `ProbesOK`, which says that the large file of the probes takes more
  room than the small ones (256 MiB against 2000 files, `probes.py`).
* `PlacementProofs!TypeCorrect` and `PeakOfOne`: a worker's Machines are among those
  deployed and those planned, which are as many as the plan counts for it.
* `PlacementProofs!PeakIsPlanned`: all Machines, of apps not stranded, are at most the peak
  of the plan. `PeakInv`: only workers that are up have any, and no more are up than
  `max_parallel`. A sum of naturals is the number of its terms' units (`SumIsUnits`), so it
  grows with its terms; and those who are up are among as many experiments as the plan
  takes the largest peaks of (`AmongSome`; both in `Counting`).
* `PlacementProofs!BudgetIsKept` and `MeasuresAsPlanned`, from `BudgetInv`: at each step
  what was spent is `Allowed`, less than the budget for every step that takes from the
  rest of it, so a worker overruns only by `Overrun`; and at "ssh" it has its pair.
* `CommandGroupsProofs!TypeCorrect`, `NothingOutlivesHolds`, `CompleteIsUndisturbedHolds`,
  `ZeroIsCompleteHolds` and `OwnResultHolds`: the five invariants of `command_groups`, for
  any number of descendants and of signals. `MeasureInv` and `TimedInv` say at each step of
  a program what it knows of the group: from `Swept` on all that runs was sent SIGKILL, so
  it starts nothing more (`AllKilled`), and nothing is left where no survivor was found
  (`AllGone`); as long as nobody was to be stopped and no survivor was found,
  nobody in the group was signalled (`Untouched`). `Control` and `Ended` tie the exit
  and the code to the step and to the leader.
* `AnalysisProofs!MovedFilesCount`: a report is the same for any permutation of its files,
  because order statistics depend only on how many entries are below each bound
  (`KthCompared`), which is what a permutation keeps.
* `AnalysisProofs!GridKeepsHistory` and `OverviewShowsNewest`, for reports of any length.
  `History` says of the rows after n runs that each entry shows the newest, the first and the
  number of the runs that entered it; it is proved along the recursion of `After` from a least
  run for which it would be wrong (`HistoryAfter`). The entries of a tool count its runs
  since a run has one system of a tool on a benchmark (`OneSystem`): `TotalSeen` gives the
  one-to-one correspondence.
* `AnalysisProofs!ReportAgreesWithGate`: `SameJudgment` compares the two ways in which
  `standings` and `verdict` judge a case against one with a smaller median; `FastestLeast` says that
  the fastest has such a one.
* `AnalysisProofs!WorseIsRefused`: a case that is nowhere better has no more good repeats and
  each of them slower, so no smaller a median (`KthFollows`, `KthGrows`): if the other one had
  regressed, so has it (`WorseRegresses`).

The inductive invariants were checked by TLC on the instances of the runs before they were proved.

Every invariant and action property of the passing runs is stated by a theorem. Only
model-checked: the liveness
properties `CampaignEnds`, `RecordedAppsGoAway` and `StoppedEnds`: liveness under
fairness and `ENABLED` are out of reach of TLAPS, as are recursive operators. Theorems by induction
that take an operator cannot be used either; where a recursive function needs one,
`WFMin`, the least member of a set of naturals, is used instead.

## 5. Findings

* An app that was created but not recorded cannot be destroyed by any cleanup or
  recovery command (`fly_unrecorded`).
* A recovery typed while the worker of a killed launcher lives loses the recorded
  ID and Machines follow (`fly_eager_recovery`).
* `down` and `up` remove a state directory they did not read (`netlab_stale_down`).
* A failing clean-up hides that the run was aborted (`runner_abort`).

Also seen, without a run of their own: the locks of a killed launcher are free while
its workers go on (`WorkNeverOverlaps` fails); campaigns started with and without
`XDG_RUNTIME_DIR` use different lock files (set `Dir` accordingly:
`ResourcesExclusive` fails); with the faults `eager_operator` and `name_reuse`
together `ForeignAppsSurvive` fails, because the identity is checked before a
deletion by name; when ReFrame dies under its workers, or the launcher meets an
unforeseen exception, the cleanup runs beside live workers, and `RecordedBeforeMachines`,
`FailureIsReported`, `KeepsOwnership` and `RecordIsNeverLost` all fail (`fly.py:1409`, 1498); a worker ReFrame starts after the stop's snapshot survives it;
`impair`, `clear`, `status` and `run` of the lab use containers by name after one
check; a `down` or `up` whose inspects fail removes the state directory nevertheless and
leaves objects with a token nobody holds (`netlab.sh:123`, 182), whereas `netlab.sh:24`
says that after a failure `up` is to be run again; an `up` without a token whose inspect of a
container fails in the check and again in the re-check removes another checkout's
container (`netlab.sh:95`, 115), which `netlab.sh:17` says is never touched; a remote
destination that was filled for an update is recorded as evicted although its pages were
not flushed, whereas `runner.py:387` promises False if it "should have been evicted and
was not" (`BENCHMARKING.md:54` does say that advisory eviction proves nothing); `cmd_run` accepts a generated workload on a remote source, for which
`prepare` then raises `NotImplementedError` (`runner.py:359`); a case that was
never verified fails the gate against itself; hosts are compared as strings, so that an
ssh destination on the same machine is not seen to overlap a local tree, or to share
its disk; the need of a path workload leaves out its root directory, for which the
tenth of margin makes up as soon as the tree has ten blocks (`DisksKnown` has both as the
hypothesis of `DisksAreNeverFull`).

## 6. Not modelled

* In `FlyLifecycle`: what a measurement does inside, the process groups of a campaign's stop (one step, with the snapshot as
  its own), the contents of result files, and failures of the local disk.
* In `Placement`: the measurement itself, which has a time limit of its own
  (`fly.py:1267`); that stopping a late flyctl takes up to twenty more seconds; two
  Machines of one group in one region; and that a hanging ssh attempt raises, whereas
  the model has it fail like any other.
* In `Netlab`: images, ssh and `tc`; failures of the local disk, a failing `cat` of the
  sentinel among them; removal of a stale lock by hand is possible
  only while no terminal is in the critical section, as its message asks.
* In `Runner`: what probes measure (`RunSpace` has what they write); Ctrl-C between
  two steps (it arrives inside one); caches of file servers, and whether an eviction that
  succeeds is effective. What `_timed` does is `CommandGroups`.
* In `Space`: overrides, the rules of tools, the syntax of the file. In `RunSpace`:
  other users of the disks, and a remote receiver that writes on after the local tool
  was killed.
* In `CommandGroups`: systems other than Linux, reuse of process IDs, and
  descendants that leave the group, which neither program looks for.
* In `Analysis`: trends, spec differences, the text of pages, and a tool without
  an identity of its own, which `cmd_run` refuses to run.
* The remaining parts of the inventory; `PROJECT.json` gives the reason for each.

## 7. Plan

1. Done: `FlyLifecycle` with `AppOwnership`, `Netlab`, `FlyLocks`, `Runner`,
   `CommandGroups`, `Analysis`, `Placement`, `Space` with `RunSpace`, and theorems
   about all of them.
2. `StopGroups`: the stop of a campaign (`fly.py` 709-826), which finds the workers'
   sessions by a `ps` snapshot, signals them and waits; to be composed with
   `ProcessGroup`. Then the relay of worker logs (`fly.py` 1372-1403).
3. The publication allowlist (`publication.py`), against the fields a result has.
4. Proofs: that `CommandGroups` leaves the runner the outcomes `Runner` assumes.
