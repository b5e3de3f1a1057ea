---------------------------- MODULE NetlabProofs ----------------------------
(* Theorems about Netlab, for any number of checkouts, terminals, tokens   *)
(* and faults.                                                             *)
EXTENDS Netlab, TLAPS

-----------------------------------------------------------------------------
(* The lock, and what its holder may rely on.                              *)

\* The lock container has one holder at most.
OneHolder ==
    \A p \in Procs : pc[p] \in Critical =>
        locked /\ \A q \in Procs : pc[q] \in Critical => q = p

\* A checkout's tokens are the ones it minted.
OwnTokens ==
    /\ \A c \in Checkouts : dir[c] \in Tokens => dir[c].by = c
    /\ \A p \in Procs : old[p] # None => old[p].by = Home[p]
    /\ \A p \in Procs : new[p] # None => new[p].by = Home[p]

\* The object about to be removed still carries the token it was inspected for,
\* or the up has no token and took the object for absent before.
SeenIsOwn ==
    \A p \in Procs : seen[p] # None =>
        /\ pc[p] \in {"retire", "drop"} /\ seen[p] \in todo[p]
        /\ label[seen[p]] # None
        /\ label[seen[p]] = old[p] \/ (old[p] = None /\ seen[p] \in missed[p])

\* What an up has checked is absent, its own, or was taken for absent.
Checked ==
    \A p \in Procs, o \in Objects :
        (pc[p] = "check" /\ o \notin todo[p]) \/ pc[p] = "retire" =>
            label[o] = None \/ label[o] = old[p] \/ o \in missed[p]

\* A terminal has minted its token when it retires the old lab.
Minted == \A p \in Procs : pc[p] \in {"retire", "commit", "start"} => new[p] # None

LockInv == TypeOK /\ OneHolder /\ OwnTokens /\ SeenIsOwn /\ Checked /\ Minted

\* Emptying a state directory leaves the others with their own tokens.
LEMMA WipeType ==
    ASSUME TypeOK, OwnTokens, NEW p \in Procs, NEW d \in {None, Torn},
           dir' = [dir EXCEPT ![Home[p]] = d]
    PROVE  /\ dir' \in [Checkouts -> Tokens \cup {None, Torn}]
           /\ \A c \in Checkouts : dir'[c] \in Tokens => dir'[c].by = c
  <1>1. d \notin Tokens /\ Home[p] \in Checkouts
    BY ConstantsOK
  <1>2. dir' \in [Checkouts -> Tokens \cup {None, Torn}]
    BY <1>1 DEF TypeOK
  <1>3. \A c \in Checkouts : dir'[c] = dir[c] \/ dir'[c] = d
    BY <1>1 DEF TypeOK
  <1>4. QED
    BY <1>1, <1>2, <1>3 DEF OwnTokens

LEMMA LockInit == Init => LockInv
  BY ConstantsOK DEF Init, LockInv, TypeOK, OneHolder, OwnTokens, SeenIsOwn, Checked, Minted, Critical, Tokens

\* A terminal that ends disturbs nobody; the lock goes with its holder.
LEMMA OverKeeps ==
    ASSUME LockInv, NEW p \in Procs, Over(p), label' = label,
           dir' = dir \/ (\E d \in {None, Torn} : dir' = [dir EXCEPT ![Home[p]] = d]),
           locked' = locked \/ (locked' = FALSE /\ pc[p] \in Critical),
           lost' \subseteq Objects
    PROVE  LockInv'
  <1> USE ConstantsOK DEF Over, LockInv, TypeOK, OneHolder, OwnTokens, SeenIsOwn, Checked, Minted, Critical
  <1>1. dir' \in [Checkouts -> Tokens \cup {None, Torn}] /\ locked' \in BOOLEAN
        /\ \A c \in Checkouts : dir'[c] \in Tokens => dir'[c].by = c
    BY WipeType
  <1>2. TypeOK'
    BY <1>1
  <1>3. OneHolder'
    OBVIOUS
  <1>4. OwnTokens'
    BY <1>1
  <1>5. SeenIsOwn' /\ Checked' /\ Minted'
    OBVIOUS
  <1>6. QED
    BY <1>2, <1>3, <1>4, <1>5

LEMMA LockNext == LockInv /\ [Next]_vars => LockInv'
  <1> SUFFICES ASSUME LockInv, [Next]_vars PROVE LockInv'
    OBVIOUS
  <1> USE ConstantsOK DEF lab, own, unseen, LockInv, TypeOK, OneHolder, OwnTokens, SeenIsOwn, Checked,
              Minted, Critical
  <1>1. ASSUME RemoveLock PROVE LockInv'
    BY <1>1 DEF RemoveLock
  <1>2. ASSUME NEW p \in Procs, GiveUp(p) \/ Exit(p) \/ Kill(p) \/ Tear(p) PROVE LockInv'
    BY <1>2, OverKeeps DEF GiveUp, Exit, Kill, Tear, PassedOver
  <1>3. ASSUME NEW p \in Procs, BeginUp(p) \/ BeginDown(p) PROVE LockInv'
    BY <1>3 DEF BeginUp, BeginDown, Begin, Sentinel
  <1>4. ASSUME NEW p \in Procs, TakeLock(p) PROVE LockInv'
    BY <1>4 DEF TakeLock
  <1>5. ASSUME NEW p \in Procs, Stage(p) PROVE LockInv'
    BY <1>5 DEF Stage, Fresh
  <1>6. ASSUME NEW p \in Procs, Remove(p) PROVE LockInv'
    BY <1>6 DEF Remove
  <1>7. ASSUME NEW p \in Procs, Wipe(p) PROVE LockInv'
    <2>1. CASE pc[p] = "retire"
      <3>1. /\ dir' \in [Checkouts -> Tokens \cup {None, Torn}]
            /\ \A c \in Checkouts : dir'[c] \in Tokens => dir'[c].by = c
        BY <1>7, WipeType DEF Wipe
      <3>2. /\ pc' = [pc EXCEPT ![p] = "commit"] /\ UNCHANGED <<label, locked, own, todo, seen>>
            /\ missed' = [missed EXCEPT ![p] = {}] /\ lost' \subseteq Objects
        BY <1>7, <2>1 DEF Wipe, PassedOver
      <3>3. TypeOK'
        BY <3>1, <3>2
      <3>4. OneHolder' /\ Minted'
        BY <2>1, <3>2
      <3>5. SeenIsOwn' /\ Checked'
        BY <1>7, <2>1, <3>2 DEF Wipe
      <3>6. QED
        BY <3>1, <3>2, <3>3, <3>4, <3>5
    <2>2. CASE pc[p] = "drop"
      BY <1>7, <2>2, OverKeeps DEF Wipe, PassedOver
    <2>3. QED
      BY <1>7, <2>1, <2>2 DEF Wipe
  <1>8. ASSUME NEW p \in Procs, Commit(p) \/ Use(p) PROVE LockInv'
    BY <1>8 DEF Commit, Use
  <1>9. ASSUME NEW p \in Procs, NEW o \in Objects, CheckName(p, o) \/ Look(p, o) \/ Overlook(p, o)
               \/ Misread(p, o) PROVE LockInv'
    <2>1. CASE CheckName(p, o)
      BY <2>1 DEF CheckName
    <2>2. CASE Look(p, o)
      BY <2>2 DEF Look
    <2>3. CASE Overlook(p, o)
      BY <2>3 DEF Overlook
    <2>4. CASE Misread(p, o)
      BY <2>4 DEF Misread
    <2>5. QED
      BY <1>9, <2>1, <2>2, <2>3, <2>4
  <1>10. ASSUME NEW p \in Procs, NEW o \in Objects, Start(p, o) PROVE LockInv'
    BY <1>10 DEF Start
  <1>11. CASE UNCHANGED vars
    BY <1>11 DEF vars
  <1>12. QED
    BY <1>1, <1>2, <1>3, <1>4, <1>5, <1>6, <1>7, <1>8, <1>9, <1>10, <1>11 DEF Next

LEMMA LockAlways == Spec => []LockInv
  BY LockInit, LockNext, PTL DEF Spec

\* No step but a removal by the lab's own checkout touches an existing object.
LEMMA UntouchedStep ==
    ASSUME LockInv, [Next]_vars, NEW o \in Objects, label[o] # None, label'[o] # label[o]
    PROVE  \E p \in Procs :
              /\ seen[p] = o /\ seen'[p] # o
              /\ Home[p] = label[o].by \/ (old[p] = None /\ o \in missed[p])
  <1> USE ConstantsOK DEF lab, own, unseen, LockInv, TypeOK
  <1>1. CASE \E p \in Procs : Remove(p)
    <2>1. PICK p \in Procs : Remove(p)
      BY <1>1
    <2>2. seen[p] = o /\ seen'[p] # o
      BY <2>1 DEF Remove
    <2>3. Home[p] = label[o].by \/ (old[p] = None /\ o \in missed[p])
      BY <2>2 DEF SeenIsOwn, OwnTokens
    <2>4. QED
      BY <2>2, <2>3
  <1>2. CASE \E p \in Procs, x \in Objects : Start(p, x)
    BY <1>2 DEF Start
  <1>3. CASE label' = label
    BY <1>3
  <1>4. QED
    BY <1>1, <1>2, <1>3 DEF Next, vars, RemoveLock, GiveUp, Exit, Kill, BeginUp, BeginDown, Begin,
       TakeLock, Stage, Wipe, Tear, Commit, Use, CheckName, Look, Overlook, Misread

\* Whatever runs at once in however many checkouts, an up or down removes or
\* replaces only what its own checkout started: each removal is preceded by a
\* look at the label, and the lock keeps the name from changing hands between.
\* Failing inspects alone do not undo that: it takes three on one object, and an
\* up that read no token, to remove what another checkout started.
THEOREM LabsAreSafe == Spec => OthersLabUntouched
  <1>1. LockInv /\ [Next]_vars =>
          [\A o \in Objects :
              label[o] # None /\ label'[o] # label[o] =>
                  \E p \in Procs :
                      /\ seen[p] = o /\ seen'[p] # o
                      /\ Home[p] = label[o].by \/ (old[p] = None /\ o \in missed[p])]_vars
    BY UntouchedStep
  <1>2. QED
    BY <1>1, LockAlways, PTL DEF Spec, OthersLabUntouched

-----------------------------------------------------------------------------
(* What the steps of an up leave, and a checkout with one terminal: its    *)
(* lab never loses its state.                                              *)

\* The token read before the lock was taken is still the checkout's token.
OldIsCurrent ==
    \A p \in Procs :
        Alone(Home[p]) /\ pc[p] \in {"build", "await", "check", "retire", "drop"} =>
            old[p] = Sentinel(Home[p])

\* What the loop of up or down has been through is gone, was taken for absent,
\* or is not its own.
LoopDone ==
    \A p \in Procs :
        /\ pc[p] = "retire" => \A o \in Objects \ todo[p] : label[o] = None \/ o \in missed[p]
        /\ pc[p] = "commit" =>
              \A o \in Objects \ lost : label[o] # None => label[o].by # Home[p]
        /\ pc[p] = "start" =>
              dir[Home[p]] = new[p] /\ \A o \in Objects \ todo[p] : label[o] = new[p]
        /\ Alone(Home[p]) /\ pc[p] = "drop" =>
              \A o \in Objects \ (todo[p] \cup missed[p] \cup lost) :
                  label[o] # None => label[o].by # Home[p]

StateInv == LockInv /\ OldIsCurrent /\ LoopDone /\ ObjectsHaveState

LEMMA StateInit == Init => StateInv
  BY LockInit DEF Init, StateInv, OldIsCurrent, LoopDone, ObjectsHaveState

LEMMA StateNext == StateInv /\ [Next]_vars => StateInv'
  <1> DEFINE Kept == OldIsCurrent /\ LoopDone /\ ObjectsHaveState
  <1> SUFFICES ASSUME StateInv, [Next]_vars PROVE Kept'
    BY LockNext DEF StateInv
  <1> USE ConstantsOK DEF lab, own, unseen, StateInv, LockInv, TypeOK, OneHolder, OwnTokens, SeenIsOwn,
              Minted, Critical, Alone, OldIsCurrent, LoopDone, ObjectsHaveState, Sentinel
  <1>1. ASSUME RemoveLock PROVE Kept'
    BY <1>1 DEF RemoveLock
  <1>2. ASSUME NEW p \in Procs, GiveUp(p) \/ Exit(p) \/ Kill(p) PROVE Kept'
    BY <1>2 DEF GiveUp, Exit, Kill, Over
  <1>3. ASSUME NEW p \in Procs, Tear(p) PROVE Kept'
    BY <1>3 DEF Tear, Over, PassedOver
  <1>4. ASSUME NEW p \in Procs, BeginUp(p) \/ BeginDown(p) PROVE Kept'
    BY <1>4 DEF BeginUp, BeginDown, Begin
  <1>5. ASSUME NEW p \in Procs, TakeLock(p) PROVE Kept'
    BY <1>5 DEF TakeLock
  <1>6. ASSUME NEW p \in Procs, Stage(p) PROVE Kept'
    BY <1>6 DEF Stage
  <1>7. ASSUME NEW p \in Procs, Remove(p) PROVE Kept'
    BY <1>7 DEF Remove
  <1>8. ASSUME NEW p \in Procs, Wipe(p) PROVE Kept'
    BY <1>8 DEF Wipe, Over, PassedOver
  <1>9. ASSUME NEW p \in Procs, Commit(p) \/ Use(p) PROVE Kept'
    <2>1. CASE Commit(p)
      <3>1. ObjectsHaveState'
        BY <2>1 DEF Commit
      <3>2. OldIsCurrent' /\ LoopDone'
        BY <2>1 DEF Commit
      <3>3. QED
        BY <3>1, <3>2
    <2>2. CASE Use(p)
      BY <2>2 DEF Use
    <2>3. QED
      BY <1>9, <2>1, <2>2
  <1>10. ASSUME NEW p \in Procs, NEW o \in Objects, CheckName(p, o) PROVE Kept'
    BY <1>10 DEF CheckName
  <1>11. ASSUME NEW p \in Procs, NEW o \in Objects, Look(p, o) \/ Overlook(p, o) \/ Misread(p, o)
         PROVE  Kept'
    <2>1. CASE Look(p, o)
      BY <2>1 DEF Look
    <2>2. CASE Overlook(p, o)
      BY <2>2 DEF Overlook
    <2>3. CASE Misread(p, o)
      BY <2>3 DEF Misread
    <2>4. QED
      BY <1>11, <2>1, <2>2, <2>3
  <1>12. ASSUME NEW p \in Procs, NEW o \in Objects, Start(p, o) PROVE Kept'
    BY <1>12 DEF Start
  <1>13. CASE UNCHANGED vars
    BY <1>13 DEF vars
  <1>14. QED
    BY <1>1, <1>2, <1>3, <1>4, <1>5, <1>6, <1>7, <1>8, <1>9, <1>10, <1>11, <1>12, <1>13 DEF Next

\* Where nobody runs two commands in one checkout at a time, every container and
\* network it started can be dealt with from it, even after a kill at any step;
\* what failing inspects made an up or down of its own pass over is not.
THEOREM LabsKeepState == Spec => []ObjectsHaveState
  <1>1. StateInv => ObjectsHaveState
    BY DEF StateInv
  <1>2. QED
    BY <1>1, StateInit, StateNext, PTL DEF Spec

\* An up that gets to its end leaves the checkout the token that all the lab's
\* objects carry, however many terminals raced for the names and the lock.
THEOREM FinishedLabsAreUsable == Spec => []FinishedLabIsUsable
  <1>1. ASSUME StateInv, NEW p \in Procs, pc[p] = "start", todo[p] = {}
        PROVE  Usable(Home[p])
    <2>1. dir[Home[p]] = new[p] /\ \A o \in Objects : label[o] = new[p]
      BY <1>1 DEF StateInv, LoopDone
    <2>2. new[p] \in Tokens
      BY <1>1 DEF StateInv, LockInv, TypeOK, Minted
    <2>3. QED
      BY <2>1, <2>2 DEF Usable
  <1>2. StateInv => FinishedLabIsUsable
    BY <1>1 DEF FinishedLabIsUsable
  <1>3. QED
    BY <1>2, StateInit, StateNext, PTL DEF Spec

=============================================================================
