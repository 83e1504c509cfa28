---------------------------- MODULE ProgramDoor ----------------------------
(***************************************************************************)
(* What the door of the programs promises (class comment of                *)
(* src/src/programs/program-auth.service.ts, db/schema/010, 013): an       *)
(* identity has one verifying key at a time and none once it is revoked;   *)
(* an assertion is accepted at most once, from an identity that is still   *)
(* ACTIVE, and is worth at most one token.                                 *)
(***************************************************************************)
EXTENDS Naturals

CONSTANTS Clients, Kids, Jtis

VARIABLES
    standing,  \* of each identity: unknown, ACTIVE or REVOKED
    verifying, \* the keys that verify for it
    accepted,  \* how often each assertion was accepted
    granted    \* how many tokens it gave

doorVars == <<standing, verifying, accepted, granted>>

Init ==
    /\ standing = [c \in Clients |-> "unknown"]
    /\ verifying = [c \in Clients |-> {}]
    /\ accepted = [x \in Clients \X Jtis |-> 0]
    /\ granted = [x \in Clients \X Jtis |-> 0]

Enrol(c) ==
    /\ standing[c] = "unknown"
    /\ standing' = [standing EXCEPT ![c] = "ACTIVE"]
    /\ \E k \in Kids : verifying' = [verifying EXCEPT ![c] = {k}]
    /\ UNCHANGED <<accepted, granted>>

Rotate(c) ==
    /\ standing[c] = "ACTIVE"
    /\ \E k \in Kids \ verifying[c] : verifying' = [verifying EXCEPT ![c] = {k}]
    /\ UNCHANGED <<standing, accepted, granted>>

Revoke(c) ==
    /\ standing[c] = "ACTIVE"
    /\ standing' = [standing EXCEPT ![c] = "REVOKED"]
    /\ verifying' = [verifying EXCEPT ![c] = {}]
    /\ UNCHANGED <<accepted, granted>>

Accept(c, j) ==
    /\ standing[c] = "ACTIVE" /\ accepted[c, j] = 0
    /\ accepted' = [accepted EXCEPT ![<<c, j>>] = 1]
    /\ UNCHANGED <<standing, verifying, granted>>

Grant(c, j) ==
    /\ granted[c, j] < accepted[c, j]
    /\ granted' = [granted EXCEPT ![<<c, j>>] = @ + 1]
    /\ UNCHANGED <<standing, verifying, accepted>>

Next ==
    \E c \in Clients :
        \/ Enrol(c) \/ Rotate(c) \/ Revoke(c)
        \/ \E j \in Jtis : Accept(c, j) \/ Grant(c, j)

Spec == Init /\ [][Next]_doorVars
=============================================================================
