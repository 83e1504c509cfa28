--------------------------- MODULE SessionLedger ---------------------------
(***************************************************************************)
(* What the session tables promise, without transactions, locks or time:   *)
(* an open session has one usable credential, the next one takes its place *)
(* for good, and closing is final.  Closing an account closes all of its   *)
(* sessions in the same instant.  The contract is the one the header of    *)
(* db/schema/004_sessions.sql and the class comment of session.service.ts  *)
(* state.                                                                  *)
(***************************************************************************)
EXTENDS Naturals

CONSTANTS Accounts, Sessions, Owner

VARIABLES
    state,   \* of each session: unborn, open or closed
    usable,  \* the credentials of each session that are worth something
    closed   \* accounts that are closed

ledgerVars == <<state, usable, closed>>

Init ==
    /\ state = [s \in Sessions |-> "unborn"]
    /\ usable = [s \in Sessions |-> {}]
    /\ closed = {}

Open(s) ==
    /\ state[s] = "unborn"
    /\ Owner[s] \notin closed
    /\ state' = [state EXCEPT ![s] = "open"]
    /\ usable' = [usable EXCEPT ![s] = {1}]
    /\ UNCHANGED closed

\* The new credential was never usable before, and the old one never is again.
Replace(s) ==
    /\ state[s] = "open"
    /\ \E n \in usable[s] : usable' = [usable EXCEPT ![s] = {n + 1}]
    /\ UNCHANGED <<state, closed>>

Shut(S) ==
    /\ \A s \in S : state[s] = "open"
    /\ state' = [s \in Sessions |-> IF s \in S THEN "closed" ELSE state[s]]
    /\ usable' = [s \in Sessions |-> IF s \in S THEN {} ELSE usable[s]]

Close(S) == Shut(S) /\ UNCHANGED closed

CloseAccount(a) ==
    /\ a \notin closed
    /\ Shut({s \in Sessions : Owner[s] = a /\ state[s] = "open"})
    /\ closed' = closed \cup {a}

Next ==
    \/ \E s \in Sessions : Open(s) \/ Replace(s)
    \/ \E S \in SUBSET Sessions : Close(S)
    \/ \E a \in Accounts : CloseAccount(a)

Spec == Init /\ [][Next]_ledgerVars
=============================================================================
