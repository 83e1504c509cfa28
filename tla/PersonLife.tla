----------------------------- MODULE PersonLife -----------------------------
(***************************************************************************)
(* What the erasure of a person promises (headers of db/schema/026 and     *)
(* 028): it is asked for, may be retracted, and is then carried out in one *)
(* step and for good.  What identifies the person, and the account, go in  *)
(* that very step; nothing of it is written again.                         *)
(***************************************************************************)
CONSTANTS
    Persons,   \* all persons
    Things     \* what identifies a person or lets them act

VARIABLES
    life,      \* present, leaving or gone
    keeps      \* what is kept of each person

vars == <<life, keeps>>

Init ==
    /\ life \in [Persons -> {"present", "leaving"}]
    /\ keeps \in [Persons -> SUBSET Things]

\* Whoever is not gone may gain or lose things; the others lie still.
Change(p) ==
    /\ life[p] # "gone"
    /\ \E kept \in SUBSET Things : keeps' = [keeps EXCEPT ![p] = kept]
    /\ UNCHANGED life

Ask(p) == life[p] = "present" /\ life' = [life EXCEPT ![p] = "leaving"] /\ UNCHANGED keeps
Retract(p) == life[p] = "leaving" /\ life' = [life EXCEPT ![p] = "present"] /\ UNCHANGED keeps

Leave(p) ==
    /\ life[p] = "leaving"
    /\ life' = [life EXCEPT ![p] = "gone"]
    /\ keeps' = [keeps EXCEPT ![p] = {}]

Next == \E p \in Persons : Change(p) \/ Ask(p) \/ Retract(p) \/ Leave(p)

Spec == Init /\ [][Next]_vars
=============================================================================
