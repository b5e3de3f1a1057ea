------------------------------- MODULE Netlab -------------------------------
(***************************************************************************)
(* The network lab (netlab/netlab.sh): two containers and a network with   *)
(* fixed names, which any checkout of the repository may start, replace,   *)
(* use or remove.  Every `up` mints a token, keeps it in its checkout's    *)
(* state directory and labels the lab with it; `up` and `down` hold a lock *)
(* container.  Invocations in one checkout share its state directory.      *)
(***************************************************************************)
EXTENDS FiniteSets

CONSTANTS
    Checkouts,  \* working copies of the repository on one Docker host
    Procs,      \* terminals; each runs one netlab.sh after another
    Home,       \* the checkout a terminal is in
    Serials,    \* tells apart the tokens one checkout mints
    None,       \* no token, no object
    Torn,       \* a state directory whose sentinel is gone
    Faults      \* what else may happen, a subset of AllFaults

\* killed  netlab.sh dies without running its EXIT trap
\* torn    `rm -rf` of the state directory is cut short
\* unseen  a `docker inspect` fails: exists and net_exists take the object for
\*         absent, label_of and netlabel_of give an empty label, and the
\*         script goes on
AllFaults == {"killed", "torn", "unseen"}

Tokens == [by : Checkouts, n : Serials]
Containers == {"a", "b"}
Objects == Containers \cup {"net"}

ASSUME ConstantsOK ==
    /\ Home \in [Procs -> Checkouts]
    /\ Faults \subseteq AllFaults
    /\ None # Torn
    /\ {None, Torn} \cap (Tokens \cup Objects) = {}

VARIABLES
    dir,        \* the state directory of each checkout: absent, torn, or its token
    label,      \* the token on the object that holds each name
    locked,     \* the lock container exists
    pc,         \* where each terminal is
    old,        \* the token it read from its sentinel at the start
    new,        \* the token it minted
    todo,       \* what is left of its current loop
    seen,       \* the object whose label it has just verified
    \* What the failing inspects have done, for the properties only:
    missed,     \* the objects each terminal has taken for absent before it removes the state
    lost        \* the objects their own checkout's up or down has passed over for good

lab == <<dir, label>>
own == <<old, new>>
unseen == <<missed, lost>>
vars == <<dir, label, locked, pc, old, new, todo, seen, missed, lost>>

Critical == {"check", "retire", "commit", "start", "drop"}

Init ==
    /\ dir = [c \in Checkouts |-> None]
    /\ label = [o \in Objects |-> None]
    /\ locked = FALSE
    /\ pc = [p \in Procs |-> "idle"]
    /\ old = [p \in Procs |-> None]
    /\ new = [p \in Procs |-> None]
    /\ todo = [p \in Procs |-> {}]
    /\ seen = [p \in Procs |-> None]
    /\ missed = [p \in Procs |-> {}]
    /\ lost = {}

\* What `cat $sentinel` finds.
Sentinel(c) == IF dir[c] = Torn THEN None ELSE dir[c]

\* A random token: none that is in use anywhere.
Fresh(c) ==
    {t \in Tokens :
        /\ t.by = c
        /\ \A d \in Checkouts : dir[d] # t
        /\ \A o \in Objects : label[o] # t
        /\ \A p \in Procs : old[p] # t /\ new[p] # t}

-----------------------------------------------------------------------------
(* Ending: a refusal, a failing command other than an inspect (set -e), Ctrl-C, *)
(* or the last line.                                                       *)

\* The terminal is free again.
Over(p) ==
    /\ pc' = [pc EXCEPT ![p] = "idle"]
    /\ old' = [old EXCEPT ![p] = None]
    /\ new' = [new EXCEPT ![p] = None]
    /\ todo' = [todo EXCEPT ![p] = {}]
    /\ seen' = [seen EXCEPT ![p] = None]
    /\ missed' = [missed EXCEPT ![p] = {}]

\* Without the lock there is nothing to clean up.
GiveUp(p) ==
    /\ pc[p] \in {"build", "await", "use"}
    /\ Over(p)
    /\ UNCHANGED <<lab, locked, lost>>

\* The EXIT trap removes the lock, wherever the script ends.
Exit(p) ==
    /\ pc[p] \in Critical
    /\ Over(p)
    /\ locked' = FALSE
    /\ UNCHANGED <<lab, lost>>

Kill(p) ==
    /\ "killed" \in Faults
    /\ pc[p] # "idle"
    /\ Over(p)
    /\ UNCHANGED <<lab, locked, lost>>

\* `docker rm` of a stale lock, by hand, as the message of lock() advises.
RemoveLock ==
    /\ locked
    /\ \A p \in Procs : pc[p] \notin Critical
    /\ locked' = FALSE
    /\ UNCHANGED <<lab, pc, own, todo, seen, unseen>>

-----------------------------------------------------------------------------
(* up and down.                                                            *)

\* Both read the token first; the image is built before the lock is taken.
Begin(p, at) ==
    /\ pc[p] = "idle"
    /\ pc' = [pc EXCEPT ![p] = at]
    /\ old' = [old EXCEPT ![p] = Sentinel(Home[p])]
    /\ UNCHANGED <<lab, locked, new, todo, seen, unseen>>

BeginUp(p) == Begin(p, "build")

BeginDown(p) == Sentinel(Home[p]) # None /\ Begin(p, "await")

\* Mutant: an existing lock container is not an error.
TakeLockAnyway(p) ==
    /\ pc[p] \in {"build", "await"}
    /\ locked' = TRUE
    /\ pc' = [pc EXCEPT ![p] = IF pc[p] = "build" THEN "check" ELSE "drop"]
    /\ todo' = [todo EXCEPT ![p] = Objects]
    /\ UNCHANGED <<lab, own, seen, unseen>>

\* Creating the lock container succeeds only if there is none.
TakeLock(p) ==
    /\ pc[p] \in {"build", "await"}
    /\ ~locked
    /\ locked' = TRUE
    /\ pc' = [pc EXCEPT ![p] = IF pc[p] = "build" THEN "check" ELSE "drop"]
    /\ todo' = [todo EXCEPT ![p] = Objects]
    /\ UNCHANGED <<lab, own, seen, unseen>>

\* Whatever holds one of the names must carry the token; otherwise Exit, for a
\* failing inspect of the label too.
CheckName(p, o) ==
    /\ pc[p] = "check"
    /\ o \in todo[p]
    /\ label[o] = None \/ (old[p] # None /\ label[o] = old[p])
    /\ todo' = [todo EXCEPT ![p] = @ \ {o}]
    /\ UNCHANGED <<lab, locked, pc, own, seen, unseen>>

\* A state directory without its sentinel is refused; then a token is minted
\* and the new state is staged aside.
Stage(p) ==
    /\ pc[p] = "check"
    /\ todo[p] = {}
    /\ dir[Home[p]] # Torn
    /\ \E t \in Fresh(Home[p]) : new' = [new EXCEPT ![p] = t]
    /\ pc' = [pc EXCEPT ![p] = "retire"]
    /\ todo' = [todo EXCEPT ![p] = Objects]
    /\ UNCHANGED <<lab, locked, old, seen, unseen>>

\* Mutant: anything that holds the name is removed.
LookAway(p, o) ==
    /\ pc[p] \in {"retire", "drop"}
    /\ seen[p] = None
    /\ o \in todo[p]
    /\ o = "net" => todo[p] = {"net"}
    /\ IF label[o] # None
       THEN seen' = [seen EXCEPT ![p] = o] /\ UNCHANGED todo
       ELSE todo' = [todo EXCEPT ![p] = @ \ {o}] /\ UNCHANGED seen
    /\ UNCHANGED <<lab, locked, pc, own, unseen>>

\* The label is inspected: an object with the token is to be removed, an absent
\* one is passed over, a foreign one too by down, while up refuses (Exit).
Look(p, o) ==
    /\ pc[p] \in {"retire", "drop"}
    /\ seen[p] = None
    /\ o \in todo[p]
    /\ o = "net" => todo[p] = {"net"}
    /\ \/ /\ label[o] # None /\ label[o] = old[p]
          /\ seen' = [seen EXCEPT ![p] = o]
          /\ UNCHANGED todo
       \/ /\ label[o] = None \/ (pc[p] = "drop" /\ label[o] # old[p])
          /\ todo' = [todo EXCEPT ![p] = @ \ {o}]
          /\ UNCHANGED seen
    /\ UNCHANGED <<lab, locked, pc, own, unseen>>

\* An object that is there is passed over: the inspect of exists or net_exists
\* fails, or down finds an empty label.
Overlook(p, o) ==
    /\ "unseen" \in Faults
    /\ pc[p] \in {"check", "retire", "drop"}
    /\ seen[p] = None
    /\ o \in todo[p]
    /\ pc[p] # "check" /\ o = "net" => todo[p] = {"net"}
    /\ label[o] # None
    /\ todo' = [todo EXCEPT ![p] = @ \ {o}]
    /\ missed' = [missed EXCEPT ![p] = @ \cup {o}]
    /\ UNCHANGED <<lab, locked, pc, own, seen, lost>>

\* The inspect of label_of or netlabel_of fails in an up that read no token:
\* the empty label is its token, and the object is to be removed.
Misread(p, o) ==
    /\ "unseen" \in Faults
    /\ pc[p] = "retire"
    /\ old[p] = None
    /\ seen[p] = None
    /\ o \in todo[p]
    /\ o = "net" => todo[p] = {"net"}
    /\ label[o] # None
    /\ seen' = [seen EXCEPT ![p] = o]
    /\ UNCHANGED <<lab, locked, pc, own, todo, unseen>>

\* What the invocation leaves behind of its own checkout's lab, unseen.
PassedOver(p) ==
    {o \in missed[p] : label[o] # None /\ label[o].by = Home[p]}

\* `docker rm -f NAME`, or `docker network rm NAME`, which needs it unused.
Remove(p) ==
    LET o == seen[p] IN
    /\ o # None
    /\ o = "net" => \A c \in Containers : label[c] = None
    /\ label' = [label EXCEPT ![o] = None]
    /\ todo' = [todo EXCEPT ![p] = @ \ {o}]
    /\ seen' = [seen EXCEPT ![p] = None]
    /\ lost' = lost \ {o}
    /\ UNCHANGED <<dir, locked, pc, own, missed>>

\* The old state directory is removed: up goes on, down is done.
Wipe(p) ==
    /\ pc[p] \in {"retire", "drop"}
    /\ todo[p] = {}
    /\ dir' = [dir EXCEPT ![Home[p]] = None]
    /\ lost' = lost \cup PassedOver(p)
    /\ \/ /\ pc[p] = "retire"
          /\ pc' = [pc EXCEPT ![p] = "commit"]
          /\ missed' = [missed EXCEPT ![p] = {}]
          /\ UNCHANGED <<locked, own, todo, seen>>
       \/ /\ pc[p] = "drop"
          /\ Over(p)
          /\ locked' = FALSE
    /\ UNCHANGED label

\* Ctrl-C reaches the `rm -rf` as well.
Tear(p) ==
    /\ "torn" \in Faults
    /\ pc[p] \in {"retire", "drop"}
    /\ todo[p] = {}
    /\ dir[Home[p]] # None
    /\ dir' = [dir EXCEPT ![Home[p]] = Torn]
    /\ lost' = lost \cup PassedOver(p)
    /\ Over(p)
    /\ locked' = FALSE
    /\ UNCHANGED label

\* Mutant: the new state is committed once the lab is started.
CommitLater(p) ==
    /\ pc[p] = "commit"
    /\ pc' = [pc EXCEPT ![p] = "start"]
    /\ todo' = [todo EXCEPT ![p] = Objects]
    /\ UNCHANGED <<lab, locked, own, seen, unseen>>

\* `mv $staged $state`.
Commit(p) ==
    /\ pc[p] = "commit"
    /\ dir' = [dir EXCEPT ![Home[p]] = new[p]]
    /\ pc' = [pc EXCEPT ![p] = "start"]
    /\ todo' = [todo EXCEPT ![p] = Objects]
    /\ UNCHANGED <<label, locked, own, seen, unseen>>

\* The network, then the containers on it; a name that is taken is an error.
Start(p, o) ==
    /\ pc[p] = "start"
    /\ o \in todo[p]
    /\ o \in Containers => "net" \notin todo[p]
    /\ label[o] = None
    /\ label' = [label EXCEPT ![o] = new[p]]
    /\ todo' = [todo EXCEPT ![p] = @ \ {o}]
    /\ UNCHANGED <<dir, locked, pc, own, seen, unseen>>

-----------------------------------------------------------------------------
(* impair, clear, status and run.                                          *)

\* require_owned: the token is on both containers.  Then they are used by name,
\* without the lock, until the terminal is free again (GiveUp).
Use(p) ==
    LET t == Sentinel(Home[p]) IN
    /\ pc[p] = "idle"
    /\ t # None
    /\ \A c \in Containers : label[c] = t
    /\ pc' = [pc EXCEPT ![p] = "use"]
    /\ UNCHANGED <<lab, locked, own, todo, seen, unseen>>

Next ==
    \/ RemoveLock
    \/ \E p \in Procs :
          \/ GiveUp(p) \/ Exit(p) \/ Kill(p)
          \/ BeginUp(p) \/ BeginDown(p) \/ TakeLock(p) \/ Stage(p)
          \/ Remove(p) \/ Wipe(p) \/ Tear(p) \/ Commit(p) \/ Use(p)
          \/ \E o \in Objects :
                CheckName(p, o) \/ Look(p, o) \/ Overlook(p, o) \/ Misread(p, o) \/ Start(p, o)

Spec == Init /\ [][Next]_vars

-----------------------------------------------------------------------------
(* Properties.                                                             *)

\* Every variable keeps its type.
TypeOK ==
    /\ dir \in [Checkouts -> Tokens \cup {None, Torn}]
    /\ label \in [Objects -> Tokens \cup {None}]
    /\ locked \in BOOLEAN
    /\ pc \in [Procs -> Critical \cup {"idle", "build", "await", "use"}]
    /\ old \in [Procs -> Tokens \cup {None}]
    /\ new \in [Procs -> Tokens \cup {None}]
    /\ todo \in [Procs -> SUBSET Objects]
    /\ seen \in [Procs -> Objects \cup {None}]
    /\ missed \in [Procs -> SUBSET Objects]
    /\ lost \subseteq Objects

Usable(c) ==
    /\ dir[c] \in Tokens
    /\ \A o \in Objects : label[o] = dir[c]

\* A container or network is removed or replaced only by an up or down of the
\* checkout that started it; except by an up without a token that took it for
\* absent before (and misreads its label when it sees it again).
OthersLabUntouched ==
    [][\A o \in Objects :
          label[o] # None /\ label'[o] # label[o] =>
              \E p \in Procs :
                  /\ seen[p] = o /\ seen'[p] # o
                  /\ Home[p] = label[o].by \/ (old[p] = None /\ o \in missed[p])]_vars

\* One terminal at most works in checkout c.
Alone(c) == \A p, q \in Procs : Home[p] = c /\ Home[q] = c => p = q

\* Whatever a checkout with one terminal started can be used, replaced and
\* removed from it, whatever the others do: its token is in the state directory.
\* Only what an up or down of its own has passed over for a failing inspect,
\* before it removed the state directory, is lost.
ObjectsHaveState ==
    \A o \in Objects \ lost :
        label[o] # None /\ Alone(label[o].by) => dir[label[o].by] = label[o]

\* An up that reports success leaves a lab its checkout can use.
FinishedLabIsUsable ==
    \A p \in Procs : pc[p] = "start" /\ todo[p] = {} => Usable(Home[p])

\* The state directory, a container or the network is removed only by an
\* invocation that read the very token it carries: "every removal re-checks the
\* token".
RemovalsRecheckToken ==
    [][/\ \A c \in Checkouts :
             dir[c] \in Tokens /\ dir'[c] # dir[c] =>
                 \E p \in Procs : Home[p] = c /\ old[p] = dir[c]
       /\ \A o \in Objects :
             label[o] # None /\ label'[o] # label[o] =>
                 \E p \in Procs : old[p] = label[o]]_vars

=============================================================================
