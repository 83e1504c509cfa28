--------------------------- MODULE EventDelivery ---------------------------
(***************************************************************************)
(* What the outbox promises of an event written with a business            *)
(* transaction (class comment of src/src/outbox/publisher.ts, 009): it     *)
(* reaches its person at least once before it counts as told, or is given  *)
(* up, for good, after a fixed number of refusals.  A message that was     *)
(* already on its way may still arrive later.                              *)
(***************************************************************************)
EXTENDS Naturals

CONSTANTS Events, MaxAttempts

VARIABLES
    fate,     \* of each event: owed, told or given up
    refusals, \* how many attempts have failed
    reached   \* events that have reached their person

deliveryVars == <<fate, refusals, reached>>

Init ==
    /\ fate = [e \in Events |-> "owed"]
    /\ refusals = [e \in Events |-> 0]
    /\ reached = {}

Reach(e) == reached' = reached \cup {e} /\ UNCHANGED <<fate, refusals>>

Tell(e) ==
    /\ fate[e] = "owed"
    /\ fate' = [fate EXCEPT ![e] = "told"]
    /\ reached' = reached \cup {e}
    /\ UNCHANGED refusals

Refuse(e) ==
    /\ fate[e] = "owed"
    /\ refusals' = [refusals EXCEPT ![e] = @ + 1]
    /\ fate' = IF refusals'[e] = MaxAttempts THEN [fate EXCEPT ![e] = "given up"] ELSE fate
    /\ UNCHANGED reached

Next == \E e \in Events : Reach(e) \/ Tell(e) \/ Refuse(e)

Spec == Init /\ [][Next]_deliveryVars
=============================================================================
