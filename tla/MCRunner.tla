------------------------------ MODULE MCRunner ------------------------------
(* Round orders and specifications for TLC. *)
EXTENDS RunSpace

CONSTANTS a, b

Uneven == <<<<a, b>>, <<b>>>>
Twice == <<<<a, b>>, <<a, b>>>>

Workload(kind, blocks, files, changed, mutate) ==
    [kind |-> kind, bytes |-> blocks * Block, files |-> files, dirs |-> 0,
     changed |-> changed, mutate |-> mutate, at |-> None]

Root(path, disk) == [host |-> None, path |-> path, disk |-> disk, empty |-> TRUE]

Large(changed) == Workload("large-file", 64, 1, changed, "rewrite")
Small == Workload("small-files", 4, 20, None, "rewrite")
Mixed == [Workload("mixed-tree", 1, 3, 50, "append") EXCEPT !.bytes = 3500]
Own(path) == [Workload("path", 40, 9, None, "rewrite") EXCEPT
                 !.dirs = 3, !.at = [Root(path, "A") EXCEPT !.empty = FALSE]]

Setup(work, dst, free, copyOnly, verify, cache) ==
    [work |-> work, src |-> Root(<<"scratch">>, "A"), dst |-> dst,
     bytes |-> [d \in {"A", "B"} |-> free[d] * Block],
     inodes |-> [d \in {"A", "B"} |-> IF d = "A" THEN 200 ELSE None],
     probes |-> TRUE,
     plan |-> [v \in DOMAIN work |-> ModeOf(work[v])],
     given |-> {v \in DOMAIN work : work[v].kind = "path"},
     remote |-> ~Local(dst), copyOnly |-> copyOnly, verify |-> verify, cache |-> cache]

OneDisk == Root(<<"data", "out">>, "A")
TwoDisks == Root(<<"data", "out">>, "B")
TwoHosts == [TwoDisks EXCEPT !.host = "far"]

\* An update is verified; a fresh copy and what follows it are to be cold, the
\* resync on a remote destination too; a resync drops all caches; a directory of
\* the user's is copied as it is.  Each
\* with hardly enough room (in blocks) and with too little.
Candidates ==
    {Setup(<<Mixed>>, OneDisk, [A |-> n, B |-> 0], {}, TRUE, "warm") : n \in {87, 88}}
    \cup {Setup(<<Small, Large(0)>>, TwoDisks, room, {a, b}, FALSE, "evict") :
             room \in {[A |-> 100, B |-> 146], [A |-> 146, B |-> 146], [A |-> 146, B |-> 100]}}
    \cup {Setup(<<Large(0)>>, TwoDisks, [A |-> n, B |-> 146], {}, FALSE, "evict") : n \in {100, 146}}
    \cup {Setup(<<Large(0)>>, TwoHosts, [A |-> n, B |-> 146], {}, FALSE, "evict") : n \in {100, 146}}
    \cup {Setup(<<Large(0)>>, OneDisk, [A |-> n, B |-> 0], {}, FALSE, "drop") : n \in {146, 291}}
    \cup {Setup(<<Own(path)>>, OneDisk, [A |-> 71, B |-> 0], {}, TRUE, "evict") :
             path \in {<<"data">>, <<"data", "mine">>}}

Various == {s \in Candidates : Accepts(s)}

Fresh == {Setup(<<Small>>, OneDisk, [A |-> 100, B |-> 0], {}, TRUE, "warm")}

\* The hypothesis of the theorem about disks holds of these.
ASSUME SetupsKnown == DisksKnown
=============================================================================
