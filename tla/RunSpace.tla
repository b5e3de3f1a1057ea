------------------------------ MODULE RunSpace ------------------------------
(***************************************************************************)
(* A benchmark run on real disks: Runner's runs of the specifications that *)
(* Space accepts.  The checks of cmd_run are made once, before anything is *)
(* written, from formulas; here they meet what the run then keeps on each  *)
(* disk, at every step and whatever fails.                                 *)
(***************************************************************************)
EXTENDS Runner, Space

ASSUME SetupsAccepted ==
    \A s \in Setups :
        /\ {s.src, s.dst} \subseteq Locations
        /\ \A v \in s.given : s.work[v].at \in Locations
        /\ Accepts(s)
        /\ \A v \in DOMAIN s.work : {s.work[v].bytes, s.work[v].files, s.work[v].dirs} \subseteq Nat
        /\ \A d \in {s.src.disk, s.dst.disk} : {s.bytes[d], s.inodes[d]} \subseteq Nat \cup {None}
        /\ s.plan = [v \in DOMAIN s.work |-> ModeOf(s.work[v])]
        /\ s.given = DOMAIN s.work \ Generated(s)
        /\ s.remote = ~Local(s.dst)

-----------------------------------------------------------------------------
(* Where the trees are, and what they take.                                *)

Footprint == [s \in Setups |-> [v \in DOMAIN s.work |-> Room(s.work[v])]]

\* A removal that failed leaves its destination behind; the next has another name.
Destinations ==
    Cardinality({i \in DOMAIN hit : hit[i] = "remove"})
    + IF pc \in {"fill", "cache", "copy", "verify", "remove"} THEN 1 ELSE 0

\* Bytes or inodes under each of the two roots: an update of a destination may
\* build the new tree beside the old one.
Taken(root, unit) ==
    LET base == Footprint[setup][w].base[unit]
        grown == Footprint[setup][w].grown[unit]
    IN  IF root = "dst" THEN Destinations * (base + IF Incremental THEN grown ELSE 0)
        ELSE (IF Given \/ tree["src"] = Absent THEN 0 ELSE IF tree["src"] = 0 THEN base ELSE grown)
             + (IF tree["before"] = Absent THEN 0 ELSE base)

Work(v) == setup.work[v]

\* The directory of a tree; those in scratch are named after the workload.
LocationOf(n) ==
    CASE n = "src" /\ Given -> Work(w).at
      [] n = "dst" -> [setup.dst EXCEPT !.path = Append(@, "copy")]
      [] OTHER -> [setup.src EXCEPT !.path = Append(@, n)]

-----------------------------------------------------------------------------
(* Properties.                                                             *)

\* What the checks do not know: that no disk is reached as two hosts', and that
\* the tenth which is asked for on top of a user's directory is no less than the
\* block of its root.
DisksKnown ==
    \A s \in Setups :
        /\ Generated(s) # {} /\ s.src.disk = s.dst.disk => s.src.host = s.dst.host
        /\ \A v \in s.given :
              LET n == s.work[v].files + s.work[v].dirs IN
              n > 0 /\ s.work[v].bytes + n * Block >= 10 * Block

\* The check made before the run is enough: at no step, whatever failed before
\* it, do the trees and the probes take more of a disk than it then had free.
DiskNeverFull ==
    \A unit \in {"bytes", "inodes"} :
       LET Has(root, n) ==
               LET free == setup[unit][setup[root].disk] IN free = None \/ n <= free
       IN  /\ IF setup.src.disk = setup.dst.disk
              THEN Has("dst", Taken("src", unit) + Taken("dst", unit))
              ELSE Has("src", Taken("src", unit)) /\ Has("dst", Taken("dst", unit))
           /\ setup.probes /\ pc = "prepare" /\ w = 1 =>
                 \A root \in Probed(setup) : Has(root, ProbeRoom[unit])

Apart(x, y) ==
    x.host = y.host => \E i \in DOMAIN x.path \cap DOMAIN y.path : x.path[i] # y.path[i]

\* A tree of the user's is never changed or removed, and nothing the run makes
\* or removes is in it, or has it inside.
UserDataUntouched ==
    /\ Given /\ pc # "prepare" => tree["src"] = 0
    /\ \A v \in setup.given, n \in Trees :
          tree[n] # Absent /\ ~(n = "src" /\ Given) => Apart(LocationOf(n), Work(v).at)

\* A generated tree holds the bytes that were asked for, as nearly as its kind
\* allows, and no file of a mixed tree is smaller than the smallest allowed.
SizesFit ==
    pc = "checksum" /\ ~Given =>
        \A sizes \in Sizes(Work(w)) :
           LET total == SumFunction(sizes) IN
           /\ Len(sizes) = Work(w).files
           /\ total <= Work(w).bytes /\ Work(w).bytes - total < Work(w).files
           /\ Work(w).kind = "mixed-tree" =>
                 total = Work(w).bytes /\ \A i \in DOMAIN sizes : sizes[i] >= MinFile
=============================================================================
