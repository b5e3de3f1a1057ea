--------------------------- MODULE FlyLocksProofs ---------------------------
(* The locks keep campaigns apart, and do not turn everyone away, for any    *)
(* number of campaigns and resources.                                        *)
EXTENDS FlyLocks, WellFoundedInduction, TLAPS

\* Every variable keeps its type, whatever is killed.
THEOREM TypeCorrect == Spec => []TypeOK
<1>1. Init => TypeOK
  BY ConstantsOK DEF Init, TypeOK, Resources
<1>2. TypeOK /\ [Next]_vars => TypeOK'
  <2> SUFFICES ASSUME TypeOK, [Next]_vars PROVE TypeOK'
    OBVIOUS
  <2> USE DEF TypeOK
  <2>1. ASSUME NEW c \in Campaigns,
               Start(c) \/ Enter(c) \/ Leave(c) \/ End(c) \/ WorkersEnd(c)
        PROVE  TypeOK'
    BY <2>1 DEF Start, Enter, Leave, End, WorkersEnd
  <2>2. ASSUME NEW c \in Campaigns, Kill(c) PROVE TypeOK'
    BY <2>2 DEF Kill
  <2>3. ASSUME NEW c \in Campaigns, NEW r \in Resources,
               Lock(c, r) \/ Refuse(c, r) \/ Unlock(c, r)
        PROVE  TypeOK'
    BY <2>3 DEF Lock, Refuse, Unlock
  <2>4. CASE Ended \/ UNCHANGED vars
    BY <2>4 DEF Ended, vars
  <2> QED BY <2>1, <2>2, <2>3, <2>4 DEF Next
<1> QED BY <1>1, <1>2, PTL DEF Spec

-----------------------------------------------------------------------------
(* Exclusion.                                                              *)

\* What a launcher that is still locking, or runs, has taken is its own.
Owns ==
    \A c \in Campaigns :
        /\ pc[c] = "run" => left[c] = {}
        /\ pc[c] \in {"lock", "run"} =>
              \A r \in Needs[c] \ left[c] : holder[File(c, r)] = c
        /\ pc[c] = "off" => left[c] = Needs[c]

\* A resource has its own file in every directory.
LEMMA FilesApart ==
    \A c, d \in Campaigns : \A r, s \in Resources :
        File(c, r) \in Files /\ (File(c, r) = File(d, s) => r = s)
BY DEF File, Files

\* Campaigns that use one lock directory and need a common resource never run at
\* the same time, whichever of them are killed (_exclusive_campaign_resources).
THEOREM CampaignsApart ==
    ASSUME \A c, d \in Campaigns : Dir[c] = Dir[d]
    PROVE  Spec => []ResourcesExclusive
<1>1. Init => Owns
  BY DEF Init, Owns
<1>2. TypeOK /\ Owns /\ [Next]_vars => Owns'
  <2> SUFFICES ASSUME TypeOK, Owns, [Next]_vars PROVE Owns'
    OBVIOUS
  <2> USE DEF TypeOK, Owns, File, Files
  <2>1. ASSUME NEW c \in Campaigns, Start(c) \/ Enter(c) \/ Leave(c) \/ End(c) \/ WorkersEnd(c)
        PROVE  Owns'
    BY <2>1 DEF Start, Enter, Leave, End, WorkersEnd
  <2>2. ASSUME NEW c \in Campaigns, Kill(c) PROVE Owns'
    <3> HIDE DEF File, Files
    <3>1. /\ pc' = [pc EXCEPT ![c] = "killed"]
          /\ holder' = [f \in Files |-> IF holder[f] = c THEN None ELSE holder[f]]
          /\ UNCHANGED left
      BY <2>2 DEF Kill
    <3>2. ASSUME NEW d \in Campaigns, pc'[d] \in {"lock", "run"},
                 NEW r \in Needs[d] \ left[d]
          PROVE  holder'[File(d, r)] = d
      <4>1. d # c /\ pc[d] \in {"lock", "run"}
        BY <3>1, <3>2
      <4>2. r \in Resources
        BY <3>2, ConstantsOK DEF Resources
      <4>3. holder[File(d, r)] = d /\ File(d, r) \in Files
        BY <3>2, <4>1, <4>2, FilesApart
      <4> QED BY <3>1, <4>1, <4>3
    <3> QED BY <3>1, <3>2
  <2>3. ASSUME NEW c \in Campaigns, NEW r \in Resources, Lock(c, r)
        PROVE  Owns'
    <3>1. /\ pc[c] = "lock" /\ r \in left[c]
          /\ holder[File(c, r)] = None /\ File(c, r) \in Files
          /\ holder' = [holder EXCEPT ![File(c, r)] = c]
          /\ left' = [left EXCEPT ![c] = @ \ {r}]
          /\ UNCHANGED pc
      BY <2>3 DEF Lock, IsNext
    <3>2. ASSUME NEW d \in Campaigns, pc[d] \in {"lock", "run"},
                 NEW s \in Needs[d] \ left'[d]
          PROVE  holder'[File(d, s)] = d
      <4>1. CASE d = c /\ s = r
        BY <3>1, <4>1
      <4>2. CASE ~(d = c /\ s = r)
        <5>1. s \in Needs[d] \ left[d]
          BY <3>1, <3>2, <4>2
        <5>2. holder[File(d, s)] = d
          BY <5>1, <3>2
        <5>3. d # None
          BY ConstantsOK
        <5>4. holder[File(d, s)] # holder[File(c, r)]
          BY <5>2, <5>3, <3>1
        <5>5. File(d, s) # File(c, r)
          BY <5>4
        <5> QED BY <5>2, <5>5, <3>1
      <4> QED BY <4>1, <4>2
    <3>3. \A d \in Campaigns :
             /\ pc'[d] = "run" => left'[d] = {}
             /\ pc'[d] = "off" => left'[d] = Needs[d]
      BY <3>1
    <3> QED BY <3>1, <3>2, <3>3
  <2>4. ASSUME NEW c \in Campaigns, NEW r \in Resources, Refuse(c, r)
        PROVE  Owns'
    BY <2>4 DEF Refuse
  <2>5. ASSUME NEW c \in Campaigns, NEW r \in Resources, Unlock(c, r)
        PROVE  Owns'
    <3>1. /\ pc[c] = "unlock" /\ holder[File(c, r)] = c
          /\ holder' = [holder EXCEPT ![File(c, r)] = None]
          /\ UNCHANGED <<pc, left>>
      BY <2>5 DEF Unlock, Held
    <3>2. ASSUME NEW d \in Campaigns, pc[d] \in {"lock", "run"},
                 NEW s \in Needs[d] \ left[d]
          PROVE  holder'[File(d, s)] = d
      <4>1. holder[File(d, s)] = d /\ d # c
        BY <3>1, <3>2
      <4>2. File(d, s) # File(c, r)
        BY <4>1, <3>1
      <4> QED BY <4>1, <4>2, <3>1
    <3> QED BY <3>1, <3>2
  <2>6. CASE Ended \/ UNCHANGED vars
    BY <2>6 DEF Ended, vars
  <2> QED BY <2>1, <2>2, <2>3, <2>4, <2>5, <2>6 DEF Next
<1>3. Owns => ResourcesExclusive
  <2> SUFFICES ASSUME Owns,
                      NEW c \in Campaigns, NEW d \in Campaigns,
                      c # d, pc[c] = "run", pc[d] = "run",
                      NEW r \in Needs[c], r \in Needs[d]
               PROVE  FALSE
    BY DEF ResourcesExclusive
  <2>1. holder[File(c, r)] = c /\ holder[File(d, r)] = d
    BY DEF Owns
  <2>2. File(c, r) = File(d, r)
    BY DEF File
  <2> QED BY <2>1, <2>2
<1> QED BY TypeCorrect, <1>1, <1>2, <1>3, PTL DEF Spec

-----------------------------------------------------------------------------
(* Progress.                                                               *)

\* Campaign c took r.
Took(c, r) == r \in Needs[c] /\ r \notin left[c]

\* r is the resource a refused campaign did not get.
Wants(c, r) == r \in left[c] /\ \A s \in left[c] : r <= s

\* Resources are taken in their order; what is held was taken; a refused
\* campaign takes nothing more, and somebody took what it was refused.
Ordered ==
    /\ \A c \in Campaigns : \A r, s \in Resources : Took(c, r) /\ s \in left[c] => r < s
    /\ \A c \in Campaigns, r \in Resources :
          holder[File(c, r)] # None => Took(holder[File(c, r)], r)
    /\ \A c \in Campaigns : refused[c] =>
          /\ pc[c] \in {"unlock", "end", "killed"}
          /\ \E r \in Resources : Wants(c, r) /\ \E d \in Campaigns : Took(d, r)

LEMMA OrderedInit == Init => Ordered
BY DEF Init, Ordered, Took, File, Files

LEMMA OrderedNext == TypeOK /\ Ordered /\ [Next]_vars => Ordered'
<1> SUFFICES ASSUME TypeOK, Ordered, [Next]_vars PROVE Ordered'
  OBVIOUS
<1> USE FilesApart DEF TypeOK, Ordered, Took, Wants
<1>1. ASSUME NEW c \in Campaigns,
             Start(c) \/ Enter(c) \/ Leave(c) \/ End(c) \/ WorkersEnd(c)
      PROVE  Ordered'
  BY <1>1 DEF Start, Enter, Leave, End, WorkersEnd
<1>2. ASSUME NEW c \in Campaigns, Kill(c) PROVE Ordered'
  <2>1. /\ pc' = [pc EXCEPT ![c] = "killed"]
        /\ holder' = [f \in Files |-> IF holder[f] = c THEN None ELSE holder[f]]
        /\ UNCHANGED <<left, refused>>
    BY <1>2 DEF Kill
  <2> QED BY <2>1
<1>3. ASSUME NEW c \in Campaigns, NEW r \in Resources, Lock(c, r)
      PROVE  Ordered'
  <2>1. /\ pc[c] = "lock" /\ Wants(c, r)
        /\ File(c, r) \in Files
        /\ holder' = [holder EXCEPT ![File(c, r)] = c]
        /\ left' = [left EXCEPT ![c] = @ \ {r}]
        /\ UNCHANGED <<pc, refused>>
    BY <1>3 DEF Lock, IsNext
  <2>2. r \in Needs[c]
    BY <2>1
  <2>3. \A d \in Campaigns, s \in Resources :
           /\ Took(d, s) => Took(d, s)'
           /\ Took(d, s)' => Took(d, s) \/ (d = c /\ s = r)
           /\ s \in left'[d] => s \in left[d] /\ ~(d = c /\ s = r)
    BY <2>1
  <2>4. ASSUME NEW d \in Campaigns, NEW s \in Resources, NEW u \in Resources,
               Took(d, s)', u \in left'[d]
        PROVE  s < u
    <3>1. CASE Took(d, s)
      BY <2>3, <2>4, <3>1
    <3>2. CASE d = c /\ s = r
      <4>1. u \in left[c] /\ u # r /\ r <= u
        BY <2>1, <2>3, <2>4, <3>2
      <4> QED BY <4>1, <3>2 DEF Resources
    <3> QED BY <2>3, <2>4, <3>1, <3>2
  <2>5. ASSUME NEW d \in Campaigns, NEW s \in Resources, holder'[File(d, s)] # None
        PROVE  Took(holder[File(d, s)], s)'
    <3>1. CASE File(d, s) = File(c, r)
      <4>1. s = r /\ holder'[File(d, s)] = c
        BY <2>1, <3>1
      <4> QED BY <4>1, <2>1, <2>2
    <3>2. CASE File(d, s) # File(c, r)
      <4>1. File(d, s) \in Files
        OBVIOUS
      <4>2. holder'[File(d, s)] = holder[File(d, s)]
        BY <2>1, <3>2, <4>1
      <4>3. holder[File(d, s)] \in Campaigns /\ Took(holder[File(d, s)], s)
        BY <2>5, <4>1, <4>2
      <4> QED BY <4>2, <4>3, <2>3
    <3> QED BY <3>1, <3>2
  <2>6. ASSUME NEW d \in Campaigns, refused'[d]
        PROVE  /\ pc'[d] \in {"unlock", "end", "killed"}
               /\ \E s \in Resources : Wants(d, s)' /\ \E e \in Campaigns : Took(e, s)'
    <3>1. d # c
      BY <2>1, <2>6
    <3>2. PICK s \in Resources : Wants(d, s) /\ \E e \in Campaigns : Took(e, s)
      BY <2>1, <2>6
    <3>3. Wants(d, s)'
      BY <2>1, <3>1, <3>2
    <3>4. pc'[d] \in {"unlock", "end", "killed"}
      BY <2>1, <2>6
    <3>5. \E e \in Campaigns : Took(e, s)'
      BY <2>3, <3>2
    <3> QED BY <3>3, <3>4, <3>5
  <2> QED BY <2>4, <2>5, <2>6
<1>4. ASSUME NEW c \in Campaigns, NEW r \in Resources, Refuse(c, r)
      PROVE  Ordered'
  <2>1. /\ pc' = [pc EXCEPT ![c] = "unlock"]
        /\ refused' = [refused EXCEPT ![c] = TRUE]
        /\ UNCHANGED <<left, holder>>
        /\ Wants(c, r) /\ holder[File(c, r)] # None
    BY <1>4 DEF Refuse, IsNext
  <2>2. holder[File(c, r)] \in Campaigns /\ Took(holder[File(c, r)], r)
    BY <2>1
  <2> QED BY <2>1, <2>2
<1>5. ASSUME NEW c \in Campaigns, NEW r \in Resources, Unlock(c, r)
      PROVE  Ordered'
  <2>1. /\ \A f \in Files : holder'[f] = None \/ holder'[f] = holder[f]
        /\ UNCHANGED <<pc, left, refused>>
    BY <1>5 DEF Unlock
  <2> QED BY <2>1
<1>6. CASE Ended \/ UNCHANGED vars
  BY <1>6 DEF Ended, vars
<1> QED BY <1>1, <1>2, <1>3, <1>4, <1>5, <1>6 DEF Next

\* The natural numbers are well founded: a set of resources has a largest one.
LEMMA Largest ==
    ASSUME NEW S \in SUBSET Resources, S # {}
    PROVE  \E r \in S : \A s \in S : s <= r
<1> DEFINE D == {Names - r : r \in S}
<1>1. Names \in Nat
  BY ConstantsOK
<1>2. D \subseteq Nat /\ D # {}
  <2>1. \A r \in S : r \in 1..Names
    BY DEF Resources
  <2>2. \A r \in S : Names - r \in Nat
    BY <1>1, <2>1
  <2> QED BY <2>2
<1>3. PICK x \in D : \A y \in D : ~ (<<y, x>> \in OpToRel(<, Nat))
  <2> HIDE DEF D
  <2> QED BY <1>2, NatLessThanWellFounded, WFMin
<1>4. \A y \in D : ~ (y < x)
  BY <1>2, <1>3 DEF OpToRel
<1>5. PICK r \in S : x = Names - r
  OBVIOUS
<1>6. ASSUME NEW s \in S PROVE s <= r
  <2>1. Names - s \in D
    OBVIOUS
  <2>2. ~ (Names - s < Names - r)
    BY <2>1, <1>4, <1>5
  <2> QED BY <2>2, <1>1 DEF Resources
<1> QED BY <1>6

\* Because resources are taken in one order, campaigns that compete never all
\* give up, whatever they need and whatever is killed.
THEOREM SomeoneGetsIn == Spec => []SomeCampaignRuns
<1>1. TypeOK /\ Ordered => SomeCampaignRuns
  <2> SUFFICES ASSUME TypeOK, Ordered, \A c \in Campaigns : refused[c]
               PROVE  FALSE
    BY DEF SomeCampaignRuns
  <2> DEFINE Wanted == {r \in Resources :
                          /\ \E c \in Campaigns : Wants(c, r)
                          /\ \E d \in Campaigns : Took(d, r)}
  <2>1. Wanted # {}
    BY ConstantsOK DEF Ordered
  <2>2. PICK r \in Wanted : \A s \in Wanted : s <= r
    <3> HIDE DEF Wanted
    <3>1. Wanted \in SUBSET Resources
      BY DEF Wanted
    <3> QED BY <2>1, <3>1, Largest
  <2>3. PICK d \in Campaigns : Took(d, r)
    BY <2>2
  <2>4. PICK s \in Resources : Wants(d, s) /\ \E e \in Campaigns : Took(e, s)
    BY DEF Ordered
  <2>5. r < s
    BY <2>2, <2>3, <2>4 DEF Ordered, Wants
  <2>6. s <= r
    BY <2>2, <2>4
  <2> QED BY <2>2, <2>4, <2>5, <2>6 DEF Resources
<1> QED BY TypeCorrect, OrderedInit, OrderedNext, <1>1, PTL DEF Spec
=============================================================================
