-------------------------------- MODULE Space --------------------------------
(***************************************************************************)
(* What a benchmark specification may ask for, and the room it takes: the  *)
(* rules of spec.py, the checks cmd_run makes before a run (cli.py), and   *)
(* the trees that fixtures.py writes.  Everything is a function of the     *)
(* specification and of what the random numbers may be.  Sizes are bytes,  *)
(* the changed part of a workload is a percentage.                         *)
(***************************************************************************)
EXTENDS Integers, Sequences, SequencesExt, FiniteSetsExt

CONSTANTS
    Block,          \* BLOCK: a file or directory occupies a multiple of it
    MinFile,        \* MIN_FILE, the smallest file of a mixed tree
    ProbeBytes,     \* SEQ_BYTES and META_FILES, what the storage probes write
    ProbeInodes,
    Draws,          \* the random numbers sizes are drawn from
    None            \* no value

ASSUME SpaceConstants ==
    /\ {Block, MinFile, ProbeBytes, ProbeInodes} \cup Draws \subseteq Nat \ {0}
    /\ Draws # {} /\ None \notin Nat

\* The large file of the storage probes takes more room than the small ones.
ASSUME ProbesOK == ProbeBytes >= (ProbeInodes + 1) * Block

-----------------------------------------------------------------------------
(* Workloads.                                                              *)

\* FIXTURE_KINDS; "path" is a directory of the user's, the others are generated.
Kinds == {"large-file", "small-files", "mixed-tree", "path"}

\* _workload: the rules a workload has to satisfy.
WorkloadOK(x) ==
    /\ x.kind \in Kinds /\ x.changed \in 0..100 \cup {None}
    /\ x.mutate \in {"rewrite", "blocks", "append"}
    /\ x.kind = "path" => x.changed = None
    /\ x.kind # "path" => x.bytes > 0 /\ x.files > 0
    /\ x.kind = "large-file" => x.files = 1
    /\ x.kind = "mixed-tree" => x.bytes >= MinFile * x.files
    /\ x.kind = "small-files" => x.bytes >= x.files

\* How the runner treats it.
ModeOf(x) == CASE x.changed = None -> "fresh" [] x.changed = 0 -> "resync" [] OTHER -> "update"

\* The directories of a tree, at most: 4 per file, and no more than 8 names in
\* each of 4 levels.
disk_inodes(x) ==
    x.files + 1 + CASE x.kind = "small-files" -> Min({256, x.files})
                    [] x.kind = "mixed-tree" -> Min({4 * x.files, 8 + 64 + 512 + 4096})
                    [] OTHER -> 0

disk_bytes(x) ==
    x.bytes + disk_inodes(x) * Block
    + IF ModeOf(x) = "update" /\ x.mutate = "append" THEN x.bytes \div 100 + x.files * Block ELSE 0

dest_factor(x) == IF x.changed = None THEN 1 ELSE 2

\* Mutant: the snapshot of the source is forgotten.
scratch_once(x) == 1

scratch_factor(x) == IF x.changed = None THEN 1 ELSE 2

\* What cmd_run reckons a workload needs at the source and at the destination;
\* a user's directory has been looked at by tree_bytes.
Need(x) ==
    IF x.kind = "path"
    THEN [src |-> 0, srcInodes |-> 0,
          dst |-> x.bytes + (x.files + x.dirs) * Block, dstInodes |-> x.files + x.dirs]
    ELSE [src |-> disk_bytes(x) * scratch_factor(x), srcInodes |-> disk_inodes(x) * scratch_factor(x),
          dst |-> disk_bytes(x) * dest_factor(x), dstInodes |-> disk_inodes(x) * dest_factor(x)]

-----------------------------------------------------------------------------
(* Specifications: their workloads and endpoints, what is at the endpoints *)
(* and how much their disks have free.  A disk without an inode count is   *)
(* one without a limit.                                                    *)

Locations == [host : STRING \cup {None}, path : Seq(STRING), disk : STRING, empty : BOOLEAN]

Generated(s) == {v \in DOMAIN s.work : s.work[v].kind # "path"}

\* Mutant: only a tree below the other one overlaps it.
Below(a, b) == a.host = b.host /\ IsPrefix(b.path, a.path)

\* _overlaps: one contains the other.  Paths are resolved.
Overlaps(a, b) == a.host = b.host /\ (IsPrefix(a.path, b.path) \/ IsPrefix(b.path, a.path))

Local(a) == a.host = None

\* Only generated trees are written to the source scratch, so only then is it
\* measured, probed, or part of the question whether there is one disk or two.
Shared(s) == Generated(s) # {} /\ s.src.host = s.dst.host /\ s.src.disk = s.dst.disk

ProbeNeed(s) ==
    LET here == Generated(s) # {} /\ Local(s.src) /\ ~Shared(s)
        there == Local(s.dst)
    IN  [src |-> IF here THEN ProbeBytes ELSE 0, srcInodes |-> IF here THEN ProbeInodes ELSE 0,
         dst |-> IF there THEN ProbeBytes ELSE 0, dstInodes |-> IF there THEN ProbeInodes ELSE 0]

Needs(s) == {Need(s.work[v]) : v \in DOMAIN s.work} \cup (IF s.probes THEN {ProbeNeed(s)} ELSE {})

\* A tenth more than needed is free.
Fits(free, n) == free = None \/ 10 * free >= 11 * n

RoomFor(s, n) ==
    IF Shared(s)
    THEN Fits(s.bytes[s.dst.disk], n.src + n.dst) /\ Fits(s.inodes[s.dst.disk], n.srcInodes + n.dstInodes)
    ELSE /\ Fits(s.bytes[s.dst.disk], n.dst) /\ Fits(s.inodes[s.dst.disk], n.dstInodes)
         /\ n.src > 0 => Fits(s.bytes[s.src.disk], n.src) /\ Fits(s.inodes[s.src.disk], n.srcInodes)

\* What is refused by `load` or by cmd_run before anything is written.
Accepts(s) ==
    /\ Len(s.work) > 0
    /\ \A v \in DOMAIN s.work : WorkloadOK(s.work[v])
    /\ s.dst.empty /\ (Generated(s) # {} => s.src.empty)
    /\ ~Overlaps(s.src, s.dst)
    /\ \A v \in DOMAIN s.work \ Generated(s) :
          /\ Local(s.work[v].at)
          /\ ~Overlaps(s.work[v].at, s.dst)
          /\ Generated(s) # {} => ~Overlaps(s.work[v].at, s.src)
    /\ \A n \in Needs(s) : RoomFor(s, n)

-----------------------------------------------------------------------------
(* Trees.                                                                  *)

\* The drawn sizes are scaled and raised to the floor, ...
Scaled(raw, total, floor) ==
    [i \in DOMAIN raw |-> Max({(raw[i] * total) \div SumFunction(raw), floor})]

\* ... and the files are sorted by size, the largest first, ...
Largest(sizes) ==
    CHOOSE order \in [DOMAIN sizes -> DOMAIN sizes] :
        \A i, j \in DOMAIN sizes : i < j =>
            \/ sizes[order[i]] > sizes[order[j]]
            \/ sizes[order[i]] = sizes[order[j]] /\ order[i] < order[j]

\* Mutant: the corrections do not look at the floor.
AbsorbedLoosely(sizes, k, total, floor) ==
    [sizes EXCEPT ![k] = @ + total - SumFunction(sizes)]

\* ... to absorb, one after another, what their sum is off.
Absorbed(sizes, k, total, floor) ==
    LET diff == total - SumFunction(sizes) IN
    [sizes EXCEPT ![k] = @ + IF diff < 0 THEN Max({diff, floor - sizes[k]}) ELSE diff]

\* The sizes after each of the files in that order.
Corrected(scaled, total, floor) ==
    LET after[k \in 0..Len(scaled)] ==
            IF k = 0 THEN scaled ELSE Absorbed(after[k - 1], Largest(scaled)[k], total, floor)
    IN  after

\* _fit_sizes.
FitSizes(raw, total, floor) ==
    Corrected(Scaled(raw, total, floor), total, floor)[Len(raw)]

\* The sizes of a generated tree's files, whatever is drawn.
Sizes(x) ==
    CASE x.kind = "large-file" -> {<<x.bytes>>}
      [] x.kind = "small-files" -> {[i \in 1..x.files |-> Max({x.bytes \div x.files, 1})]}
      [] x.kind = "mixed-tree" ->
            {FitSizes(raw, x.bytes, MinFile) : raw \in [1..x.files -> Draws]}

\* modify_fraction: how many files change, and their sizes afterwards.
Chosen(x) == Max({1, (2 * x.files * x.changed + 100) \div 200})

Grown(x, sizes) ==
    IF ModeOf(x) # "update" \/ x.mutate # "append" THEN {sizes}
    ELSE {[i \in DOMAIN sizes |-> sizes[i] + IF i \in c THEN Max({sizes[i] \div 100, Block}) ELSE 0] :
             c \in kSubset(Chosen(x), DOMAIN sizes)}

\* The most directories that n files end up in.
Directories(x) ==
    1 + CASE x.kind = "small-files" -> Min({256, x.files})
          [] x.kind = "mixed-tree" ->
                Min({8, x.files}) + Min({64, x.files}) + Min({512, x.files}) + Min({4096, x.files})
          [] OTHER -> 0

Blocks(size) == ((size + Block - 1) \div Block) * Block

Occupied(x, sizes) == Directories(x) * Block + SumFunction([i \in DOMAIN sizes |-> Blocks(sizes[i])])

\* The room a workload's tree takes as generated and once changed, at most.
Room(x) ==
    LET Most(S) == [bytes |-> Max({Occupied(x, z) : z \in S}), inodes |-> x.files + Directories(x)]
        all == [bytes |-> x.bytes + (x.files + x.dirs + 1) * Block, inodes |-> x.files + x.dirs + 1]
    IN  IF x.kind = "path" THEN [base |-> all, grown |-> all]
        ELSE [base |-> Most(Sizes(x)), grown |-> Most(UNION {Grown(x, y) : y \in Sizes(x)})]

\* probe() looks at the storage of the harness's own local directories, ...
Probed(s) == {r \in {"src", "dst"} : Local(s[r]) /\ (r = "src" => Generated(s) # {})}

\* ... with one large file, and then with a directory of small ones.
ProbeRoom == [bytes |-> Max({ProbeBytes, (ProbeInodes + 1) * Block}), inodes |-> ProbeInodes + 1]
=============================================================================
