------------------------------ MODULE FlyLocks ------------------------------
(***************************************************************************)
(* The host locks that keep Fly campaigns apart (fly.py,                   *)
(* _exclusive_campaign_resources): before anything is created a campaign   *)
(* takes one flock per resource it declares, in the order of their names   *)
(* and without waiting; the first that is taken ends the campaign.         *)
(***************************************************************************)
EXTENDS Naturals, FiniteSets

CONSTANTS
    Campaigns,  \* campaigns started by one user on one host
    Names,      \* how many resources have names; 1..Names in the names' order
    Needs,      \* the resources each campaign declares
    Dir,        \* the lock directory each one's environment leads to
    None,       \* nobody
    Faults      \* a subset of {"killed"}

ASSUME ConstantsOK ==
    /\ Campaigns # {} /\ Names \in Nat
    /\ Needs \in [Campaigns -> SUBSET (1..Names)]
    /\ DOMAIN Dir = Campaigns
    /\ None \notin Campaigns
    /\ Faults \subseteq {"killed"}

Resources == 1..Names
Files == {<<Dir[c], r>> : c \in Campaigns, r \in Resources}

VARIABLES
    pc,         \* where each launcher is
    left,       \* the resources it has not locked yet
    refused,    \* it found one of them taken
    working,    \* its workers provision, measure or clean up
    holder      \* the launcher whose descriptor holds the flock of each file

vars == <<pc, left, refused, working, holder>>

Init ==
    /\ pc = [c \in Campaigns |-> "off"]
    /\ left = Needs
    /\ refused = [c \in Campaigns |-> FALSE]
    /\ working = [c \in Campaigns |-> FALSE]
    /\ holder = [f \in Files |-> None]

File(c, r) == <<Dir[c], r>>
Held(c) == {r \in Resources : holder[File(c, r)] = c}

\* Mutant: the resources are taken as the campaign file lists them.
AnyNext(c, r) == r \in left[c]

\* sorted(campaign.exclusive_resources)
IsNext(c, r) == r \in left[c] /\ \A s \in left[c] : r <= s

Start(c) ==
    /\ pc[c] = "off"
    /\ pc' = [pc EXCEPT ![c] = "lock"]
    /\ UNCHANGED <<left, refused, working, holder>>

\* flock(LOCK_EX | LOCK_NB)
Lock(c, r) ==
    /\ pc[c] = "lock"
    /\ IsNext(c, r)
    /\ holder[File(c, r)] = None
    /\ holder' = [holder EXCEPT ![File(c, r)] = c]
    /\ left' = [left EXCEPT ![c] = @ \ {r}]
    /\ UNCHANGED <<pc, refused, working>>

\* Mutant: a campaign that is refused a resource goes on without it.
RefuseAndGoOn(c, r) ==
    /\ pc[c] = "lock"
    /\ IsNext(c, r)
    /\ holder[File(c, r)] # None
    /\ left' = [left EXCEPT ![c] = @ \ {r}]
    /\ UNCHANGED <<pc, refused, working, holder>>

\* BlockingIOError: FlyError, and the locks taken so far are released.
Refuse(c, r) ==
    /\ pc[c] = "lock"
    /\ IsNext(c, r)
    /\ holder[File(c, r)] # None
    /\ pc' = [pc EXCEPT ![c] = "unlock"]
    /\ refused' = [refused EXCEPT ![c] = TRUE]
    /\ UNCHANGED <<left, working, holder>>

\* The campaign runs.
Enter(c) ==
    /\ pc[c] = "lock"
    /\ left[c] = {}
    /\ pc' = [pc EXCEPT ![c] = "run"]
    /\ working' = [working EXCEPT ![c] = TRUE]
    /\ UNCHANGED <<left, refused, holder>>

\* Its last worker is done, and the launcher has cleaned up.
Leave(c) ==
    /\ pc[c] = "run"
    /\ working' = [working EXCEPT ![c] = FALSE]
    /\ pc' = [pc EXCEPT ![c] = "unlock"]
    /\ UNCHANGED <<left, refused, holder>>

\* The locks are released in the reverse order.
Unlock(c, r) ==
    /\ pc[c] = "unlock"
    /\ r \in Held(c) /\ \A s \in Held(c) : s <= r
    /\ holder' = [holder EXCEPT ![File(c, r)] = None]
    /\ UNCHANGED <<pc, left, refused, working>>

\* Mutant: an error ends the campaign where it is.
EndAnyway(c) ==
    /\ pc[c] = "unlock"
    /\ pc' = [pc EXCEPT ![c] = "end"]
    /\ UNCHANGED <<left, refused, working, holder>>

End(c) ==
    /\ pc[c] = "unlock"
    /\ Held(c) = {}
    /\ pc' = [pc EXCEPT ![c] = "end"]
    /\ UNCHANGED <<left, refused, working, holder>>

\* A killed launcher's descriptors are closed; its detached workers live on.
Kill(c) ==
    /\ "killed" \in Faults
    /\ pc[c] \in {"lock", "run", "unlock"}
    /\ pc' = [pc EXCEPT ![c] = "killed"]
    /\ holder' = [f \in Files |-> IF holder[f] = c THEN None ELSE holder[f]]
    /\ UNCHANGED <<left, refused, working>>

WorkersEnd(c) ==
    /\ pc[c] = "killed"
    /\ working[c]
    /\ working' = [working EXCEPT ![c] = FALSE]
    /\ UNCHANGED <<pc, left, refused, holder>>

Ended ==
    /\ \A c \in Campaigns : pc[c] \in {"end", "killed"} /\ ~working[c]
    /\ UNCHANGED vars

Next ==
    \/ \E c \in Campaigns :
          \/ Start(c) \/ Enter(c) \/ Leave(c) \/ End(c) \/ Kill(c) \/ WorkersEnd(c)
          \/ \E r \in Resources : Lock(c, r) \/ Refuse(c, r) \/ Unlock(c, r)
    \/ Ended

Spec == Init /\ [][Next]_vars

-----------------------------------------------------------------------------
(* Properties.                                                             *)

TypeOK ==
    /\ pc \in [Campaigns -> {"off", "lock", "run", "unlock", "end", "killed"}]
    /\ left \in [Campaigns -> SUBSET Resources]
    /\ refused \in [Campaigns -> BOOLEAN]
    /\ working \in [Campaigns -> BOOLEAN]
    /\ holder \in [Files -> Campaigns \cup {None}]
    /\ \A c \in Campaigns : left[c] \subseteq Needs[c]

\* Two campaigns that declare a resource never run at the same time, as long as
\* their launchers live.
ResourcesExclusive ==
    \A c, d \in Campaigns :
        c # d /\ pc[c] = "run" /\ pc[d] = "run" => Needs[c] \cap Needs[d] = {}

\* The same of their workers.  In no run: it holds only while no launcher is
\* killed, since the locks of a killed one are free and its workers go on.
WorkNeverOverlaps ==
    \A c, d \in Campaigns :
        c # d /\ working[c] /\ working[d] => Needs[c] \cap Needs[d] = {}

\* Campaigns that compete never all give up because of each other.
SomeCampaignRuns ==
    ~ \A c \in Campaigns : pc[c] = "end" /\ refused[c]
=============================================================================
