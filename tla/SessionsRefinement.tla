------------------------- MODULE SessionsRefinement -------------------------
(***************************************************************************)
(* Sessions implements SessionLedger: every transaction that commits opens *)
(* a session, replaces its credential, or closes sessions, in one step of  *)
(* the ledger; and a grace refresh issues from the end of the chain only.  *)
(***************************************************************************)
EXTENDS SessionsProofs

-----------------------------------------------------------------------------
\* A revoking transaction works on sessions of the account it names.
RevokesOwn ==
    \A w \in Workers : tx[w].step = "revoke" =>
        \A s \in tx[w].todo \cup tx[w].held : Owner[s] = tx[w].acct

LEMMA RevokesOwnStep == TypeOK /\ RevokesOwn /\ [Next]_vars => RevokesOwn'
<1> SUFFICES ASSUME TypeOK, RevokesOwn, [Next]_vars, NEW v \in Workers, tx'[v].step = "revoke"
             PROVE  \A s \in tx'[v].todo \cup tx'[v].held : Owner[s] = tx'[v].acct
  BY DEF RevokesOwn
<1>1. CASE tx'[v] = tx[v]
  BY <1>1 DEF RevokesOwn
<1>3. ASSUME RevokeLock(v) PROVE \A s \in tx'[v].todo \cup tx'[v].held : Owner[s] = tx'[v].acct
  <2>0. TypeOK /\ tx[v] \in Transaction
    BY RowTypes
  <2>1. PICK s \in tx[v].todo :
            tx' = [tx EXCEPT ![v].todo = @ \ {s},
                             ![v].held = IF session[s].status = "ACTIVE" THEN @ \cup {s} ELSE @]
    BY <1>3 DEF RevokeLock
  <2>2. /\ tx'[v].todo = tx[v].todo \ {s} /\ tx'[v].acct = tx[v].acct
        /\ tx'[v].held = IF session[s].status = "ACTIVE" THEN tx[v].held \cup {s} ELSE tx[v].held
    BY <2>0, <1>3, <2>1 DEF RevokeLock, TypeOK, Transaction
  <2>3. ASSUME NEW u \in tx'[v].todo \cup tx'[v].held PROVE u \in tx[v].todo \cup tx[v].held
    <3>1. s \in tx[v].todo
      OBVIOUS
    <3>2. CASE u \in tx'[v].todo
      BY <2>2, <3>2
    <3>3. CASE u \in tx'[v].held
      BY <2>2, <3>1, <3>3, Zenon
    <3> QED BY <3>2, <3>3
  <2>4. \A u \in tx[v].todo \cup tx[v].held : Owner[u] = tx[v].acct
    BY <1>3 DEF RevokesOwn, RevokeLock
  <2> QED BY <2>2, <2>3, <2>4
<1>4. ASSUME NEW w \in Workers, Request(w), tx'[v] # tx[v]
      PROVE  \A s \in tx'[v].todo \cup tx'[v].held : Owner[s] = tx'[v].acct
  <2>1. ASSUME NEW s \in Sessions, OpenBegin(w, s) PROVE FALSE
    <3>1. [IdleTx EXCEPT !.step = "open.lock", !.now = clock, !.sid = s].step = "open.lock"
      BY IdleTxType DEF Transaction
    <3> QED BY <1>4, <2>1, <3>1 DEF OpenBegin, TypeOK
  <2>2. ASSUME NEW s \in Sessions, NEW n \in Gens, RefreshBegin(w, s, n) PROVE FALSE
    <3>1. [IdleTx EXCEPT !.step = "refresh.lock", !.now = clock, !.sid = s, !.gen = n].step
             = "refresh.lock"
      BY IdleTxType DEF Transaction
    <3> QED BY <1>4, <2>2, <3>1 DEF RefreshBegin, TypeOK
  <2>3. ASSUME NEW s \in Sessions, LogoutBegin(w, s)
        PROVE  \A u \in tx'[v].todo \cup tx'[v].held : Owner[u] = tx'[v].acct
    <3>1. v = w
      BY <1>4, <2>3 DEF LogoutBegin, RevokeBegin, TypeOK
    <3>2. tx'[w].acct = Owner[s] /\ tx'[w].todo = {s} /\ tx'[w].held = {}
      <4> DEFINE r == [IdleTx EXCEPT !.step = "revoke", !.acct = Owner[s], !.reason = "LOGOUT",
                                     !.todo = {s}]
      <4>1. r.todo = {s} /\ r.acct = Owner[s] /\ r.held = {}
        BY DEF IdleTx
      <4>2. tx' = [tx EXCEPT ![w] = r]
        BY <2>3 DEF LogoutBegin, RevokeBegin
      <4> HIDE DEF r
      <4> QED BY <4>1, <4>2, OneWorker
    <3> QED BY <3>1, <3>2
  <2>4. ASSUME NEW s \in Sessions, RevokeAllBegin(w, s)
        PROVE  \A u \in tx'[v].todo \cup tx'[v].held : Owner[u] = tx'[v].acct
    <3>1. v = w
      BY <1>4, <2>4 DEF RevokeAllBegin, RevokeBegin, TypeOK
    <3>2. tx'[w].acct = Owner[s] /\ tx'[w].todo = ActiveOf(Owner[s]) /\ tx'[w].held = {}
      <4> DEFINE r == [IdleTx EXCEPT !.step = "revoke", !.acct = Owner[s], !.reason = "LOGOUT_ALL",
                                     !.todo = ActiveOf(Owner[s])]
      <4>1. r.todo = ActiveOf(Owner[s]) /\ r.acct = Owner[s] /\ r.held = {}
        BY DEF IdleTx
      <4>2. tx' = [tx EXCEPT ![w] = r]
        BY <2>4 DEF RevokeAllBegin, RevokeBegin
      <4> HIDE DEF r
      <4> QED BY <4>1, <4>2, OneWorker
    <3> QED BY <3>1, <3>2 DEF ActiveOf
  <2>5. ASSUME NEW a \in Accounts, DeactivateBegin(w, a)
        PROVE  \A u \in tx'[v].todo \cup tx'[v].held : Owner[u] = tx'[v].acct
    <3>1. v = w
      BY <1>4, <2>5 DEF DeactivateBegin, RevokeBegin, TypeOK
    <3>2. tx'[w].acct = a /\ tx'[w].todo = ActiveOf(a) /\ tx'[w].held = {}
      <4> DEFINE r == [IdleTx EXCEPT !.step = "revoke", !.acct = a, !.reason = "ADMIN",
                                     !.todo = ActiveOf(a)]
      <4>1. r.todo = ActiveOf(a) /\ r.acct = a /\ r.held = {}
        BY DEF IdleTx
      <4>2. tx' = [tx EXCEPT ![w] = r]
        BY <2>5 DEF DeactivateBegin, RevokeBegin
      <4> HIDE DEF r
      <4> QED BY <4>1, <4>2, OneWorker
    <3> QED BY <3>1, <3>2 DEF ActiveOf
  <2> QED BY <1>4, <2>1, <2>2, <2>3, <2>4, <2>5 DEF Request
<1>5. ASSUME NEW w \in Workers, Finish(w) PROVE tx'[v] = tx[v]
  BY <1>5, IdleTxType DEF Finish, TypeOK
<1>6. ASSUME NEW w \in Workers, Progress(w), ~RevokeLock(w) PROVE tx'[v] = tx[v]
  <2>1. CASE \E s \in {"open.insert", "open.issue", "refresh.lookup"} : tx' = [tx EXCEPT ![w].step = s]
    BY <2>1, RowTypes DEF TypeOK, Transaction
  <2>2. CASE RefreshLookup(w)
    BY <2>2, RowTypes DEF RefreshLookup, TypeOK, Transaction
  <2> QED
    BY <1>5, <1>6, <2>1, <2>2 DEF Progress, OpenLock, OpenCommit, OpenIssue, RefreshLock,
       RefreshRotate, RefreshReplay, RefreshRefuse, RevokeCommit
<1>7. ASSUME NEW w \in Workers, RevokeLock(w), v # w PROVE tx'[v] = tx[v]
  BY <1>7 DEF RevokeLock, TypeOK
<1> QED
  BY <1>1, <1>3, <1>4, <1>5, <1>6, <1>7 DEF Next, vars, Tick, Rollback

LEMMA RevokesOwnHolds == Spec => []RevokesOwn
<1>1. Init => RevokesOwn
  BY IdleTxType DEF Init, RevokesOwn
<1> QED
  BY <1>1, RevokesOwnStep, TypeCorrect, PTL DEF Spec

-----------------------------------------------------------------------------
\* The row of session s in the ledger: the credential of a live session is its
\* last token, and no other session has one.
LedgerRow(s) ==
    /\ session[s].status \in {"ABSENT", "ACTIVE", "REVOKED"}
    /\ issued[s] \in Nat
    /\ LedgerState(s) = CASE session[s].status = "ABSENT" -> "unborn"
                          [] session[s].status = "ACTIVE" -> "open"
                          [] session[s].status = "REVOKED" -> "closed"
    /\ UsableTokens(s) = IF session[s].status = "ACTIVE" THEN {issued[s]} ELSE {}

EveryRow == \A s \in Sessions : LedgerRow(s)

LEMMA LedgerRows == Inductive => EveryRow
<1> SUFFICES ASSUME Inductive, NEW s \in Sessions PROVE LedgerRow(s)
  BY DEF EveryRow
<1>1. session[s].status \in {"ABSENT", "ACTIVE", "REVOKED"} /\ issued[s] \in 0..MaxTokens
  BY RowTypes DEF Inductive, TypeOK, SessionRow
<1>2. CASE session[s].status = "ACTIVE"
  <2>1. issued[s] \in Gens
    BY <1>1, <1>2, Parameters DEF Inductive, OneChain, Gens
  <2>2. \A n \in Gens : token[s][n].status = "ACTIVE" <=> n = issued[s]
    <3> SUFFICES ASSUME NEW n \in Gens PROVE token[s][n].status = "ACTIVE" <=> n = issued[s]
      OBVIOUS
    <3>1. /\ n < issued[s] => token[s][n].status = "ROTATED"
          /\ n = issued[s] => token[s][n].status = "ACTIVE"
          /\ n > issued[s] => token[s][n].status = "ABSENT"
      BY <1>2, ChainOf DEF Inductive
    <3> QED BY <1>1, <3>1, Parameters DEF Gens
  <2> QED BY <1>1, <1>2, <2>1, <2>2, Parameters DEF LedgerState, UsableTokens, LedgerRow
<1>3. CASE session[s].status = "REVOKED"
  BY <1>1, <1>3, Parameters DEF Inductive, RevocationIsTotal, LedgerState, UsableTokens, LedgerRow
<1>4. CASE session[s].status = "ABSENT"
  <2>1. \A n \in Gens : token[s][n].status = "ABSENT"
    BY <1>4 DEF Inductive, RowsInOrder, Gens, NoToken
  <2> QED BY <1>1, <1>4, <2>1, Parameters DEF LedgerState, UsableTokens, LedgerRow
<1> QED
  BY <1>1, <1>2, <1>3, <1>4

LEMMA LedgerRowsAfter == Inductive' => EveryRow'
  BY LedgerRows, PTL

LEMMA LedgerInit == Init => Ledger!Init
<1> SUFFICES ASSUME Init PROVE Ledger!Init
  OBVIOUS
<1>1. \A s \in Sessions : session[s].status = "ABSENT"
  BY DEF Init, NoSession
<1>2. \A s \in Sessions, n \in Gens : token[s][n].status = "ABSENT"
  BY DEF Init, NoToken
<1>3. \A a \in Accounts : account[a] = "ACTIVE"
  BY DEF Init
<1> QED
  BY <1>1, <1>2, <1>3 DEF Ledger!Init, StateOf, UsableOf, LedgerState, UsableTokens,
     ClosedAccounts

LEMMA LedgerStutters ==
  ASSUME UNCHANGED <<account, session, token>>
  PROVE  UNCHANGED Ledger!ledgerVars
  BY DEF Ledger!ledgerVars, StateOf, UsableOf, LedgerState, UsableTokens, ClosedAccounts

\* Opening a session.
LEMMA OpensLedger ==
  ASSUME Inductive, Inductive', NEW w \in Workers, OpenCommit(w), NEW s \in Sessions, s = tx[w].sid
  PROVE  Ledger!Open(s)
<1>0. tx[w].step = "open.insert" /\ InOrder(w) /\ TypeOK
  BY DEF Inductive, OpenCommit
<1>1. session[s].status = "ABSENT" /\ account[Owner[s]] = "ACTIVE" /\ UNCHANGED account
  BY <1>0 DEF InOrder, OpenCommit
<1>2. /\ session'[s].status = "ACTIVE" /\ issued'[s] = 1
      /\ \A u \in Sessions \ {s} : session'[u] = session[u] /\ issued'[u] = issued[u]
  BY <1>0 DEF OpenCommit, TypeOK
<1>3. \A u \in Sessions : /\ LedgerRow(u) /\ LedgerRow(u)'
                          /\ LedgerState(u)' = IF u = s THEN "open" ELSE LedgerState(u)
                          /\ UsableTokens(u)' = IF u = s THEN {1} ELSE UsableTokens(u)
  <2> SUFFICES ASSUME NEW u \in Sessions
               PROVE  /\ LedgerRow(u) /\ LedgerRow(u)'
                      /\ LedgerState(u)' = IF u = s THEN "open" ELSE LedgerState(u)
                      /\ UsableTokens(u)' = IF u = s THEN {1} ELSE UsableTokens(u)
    OBVIOUS
  <2>1. LedgerRow(u) /\ LedgerRow(u)'
    BY LedgerRows, LedgerRowsAfter DEF EveryRow
  <2>2. CASE u = s
    BY <1>2, <2>1, <2>2 DEF LedgerRow
  <2>3. CASE u # s
    BY <1>2, <2>1, <2>3 DEF LedgerRow
  <2> QED BY <2>1, <2>2, <2>3
<1>4. StateOf' = [StateOf EXCEPT ![s] = "open"] /\ UsableOf' = [UsableOf EXCEPT ![s] = {1}]
  BY <1>3 DEF StateOf, UsableOf
<1>5. StateOf[s] = "unborn"
  BY <1>1, <1>3 DEF LedgerRow, StateOf
<1>6. Owner[s] \notin ClosedAccounts /\ ClosedAccounts' = ClosedAccounts
  BY <1>1 DEF ClosedAccounts
<1> QED
  BY <1>4, <1>5, <1>6 DEF Ledger!Open

\* A rotation: the credential of the session gives way to one never usable before.
LEMMA ReplacesLedger ==
  ASSUME Inductive, Inductive', NEW w \in Workers, RefreshRotate(w),
         NEW s \in Sessions, s = tx[w].sid
  PROVE  Ledger!Replace(s)
<1>0. TypeOK /\ session[s].status = "ACTIVE" /\ UNCHANGED <<account, session>>
  BY DEF Inductive, RefreshRotate, Rotate, RotationAccepted
<1>1. /\ issued'[s] = issued[s] + 1
      /\ \A u \in Sessions : u # s => issued'[u] = issued[u]
  BY <1>0 DEF RefreshRotate, Rotate, TypeOK
<1>2. \A u \in Sessions : LedgerRow(u) /\ LedgerRow(u)'
  BY LedgerRows, LedgerRowsAfter DEF EveryRow
<1>3. LedgerState(s) = "open" /\ UsableTokens(s) = {issued[s]}
  BY <1>0, <1>2 DEF LedgerRow
<1>4. \A u \in Sessions : UsableTokens(u)' = IF u = s THEN {issued[s] + 1} ELSE UsableTokens(u)
  <2> SUFFICES ASSUME NEW u \in Sessions
               PROVE  UsableTokens(u)' = IF u = s THEN {issued[s] + 1} ELSE UsableTokens(u)
    OBVIOUS
  <2>1. CASE u = s
    BY <1>0, <1>1, <1>2, <2>1 DEF LedgerRow
  <2>2. CASE u # s
    BY <1>0, <1>1, <1>2, <2>2 DEF LedgerRow
  <2> QED BY <2>1, <2>2
<1>5. PICK n \in Nat : n = issued[s]
  BY <1>2 DEF LedgerRow
<1>6. n \in UsableOf[s] /\ UsableOf' = [UsableOf EXCEPT ![s] = {n + 1}]
  BY <1>3, <1>4, <1>5 DEF UsableOf
<1>7. StateOf[s] = "open"
  BY <1>3 DEF StateOf
<1>8. UNCHANGED <<StateOf, ClosedAccounts>>
  BY <1>0 DEF StateOf, LedgerState, ClosedAccounts
<1> QED
  BY <1>6, <1>7, <1>8 DEF Ledger!Replace

\* A revocation closes the live sessions it works on, and leaves the others alone.
LEMMA ShutsLedger ==
  ASSUME Inductive, Inductive', NEW S \in SUBSET Sessions, NEW reason, Revoke(S, reason),
         \A s \in S : session[s].status = "ACTIVE"
  PROVE  Ledger!Shut(S)
<1>1. \A s \in Sessions : LedgerRow(s) /\ LedgerRow(s)'
  BY LedgerRows, LedgerRowsAfter DEF EveryRow
<1>2. \A s \in S : session'[s].status = "REVOKED"
  BY RowTypes DEF Inductive, Revoke, SessionRow
<1>3. \A s \in Sessions : s \notin S => session'[s] = session[s] /\ token'[s] = token[s]
  BY DEF Revoke
<1>4. \A s \in S : LedgerState(s) = "open" /\ LedgerState(s)' = "closed" /\ UsableTokens(s)' = {}
  BY <1>1, <1>2 DEF LedgerRow
<1>5. \A s \in Sessions : s \notin S => /\ LedgerState(s)' = LedgerState(s)
                                        /\ UsableTokens(s)' = UsableTokens(s)
  BY <1>3 DEF LedgerState, UsableTokens
<1>6. \A s \in S : StateOf[s] = "open"
  BY <1>4 DEF StateOf
<1>7. StateOf' = [s \in Sessions |-> IF s \in S THEN "closed" ELSE StateOf[s]]
  BY <1>4, <1>5 DEF StateOf
<1>8. UsableOf' = [s \in Sessions |-> IF s \in S THEN {} ELSE UsableOf[s]]
  BY <1>4, <1>5 DEF UsableOf
<1> QED
  BY <1>6, <1>7, <1>8 DEF Ledger!Shut

LEMMA ReplayLedger ==
  ASSUME Inductive, Inductive', NEW w \in Workers, RefreshReplay(w)
  PROVE  \E S \in SUBSET Sessions : Ledger!Close(S)
<1>1. tx[w].sid \in Sessions
  BY RowTypes DEF Inductive, Transaction
<1>2. PICK S \in SUBSET Sessions : S = {s \in {tx[w].sid} : session[s].status = "ACTIVE"}
  BY <1>1
<1>3. Revoke(S, "REPLAY_DETECTED") /\ UNCHANGED account
  BY <1>2 DEF RefreshReplay
<1>4. Ledger!Shut(S)
  BY <1>2, <1>3, ShutsLedger
<1>5. UNCHANGED ClosedAccounts
  BY <1>3 DEF ClosedAccounts
<1> QED
  BY <1>4, <1>5 DEF Ledger!Close

\* Without ADMIN the sessions it holds close; with it the account closes too,
\* and those it holds are exactly the live sessions of the account.
LEMMA RevokeLedger ==
  ASSUME Inductive, Inductive', RevokesOwn, NEW w \in Workers, RevokeCommit(w)
  PROVE  \/ \E S \in SUBSET Sessions : Ledger!Close(S)
         \/ \E a \in Accounts : Ledger!CloseAccount(a)
<1>0. TypeOK /\ tx[w] \in Transaction /\ InOrder(w) /\ tx[w].step = "revoke" /\ tx[w].todo = {}
  BY RowTypes DEF Inductive, RevokeCommit
<1>1. PICK S \in SUBSET Sessions : S = tx[w].held
  BY <1>0 DEF Transaction
<1>2. PICK reason \in Reasons : reason = tx[w].reason
  BY <1>0 DEF Transaction
<1>3. Revoke(S, reason) /\ \A s \in S : session[s].status = "ACTIVE"
  BY <1>0, <1>1, <1>2 DEF RevokeCommit, InOrder
<1>4. Ledger!Shut(S)
  BY <1>3, ShutsLedger
<1>5. CASE reason # "ADMIN"
  <2>1. UNCHANGED ClosedAccounts
    BY <1>2, <1>5 DEF RevokeCommit, ClosedAccounts
  <2> QED BY <1>4, <2>1 DEF Ledger!Close
<1>6. CASE reason = "ADMIN"
  <2>1. PICK a \in Accounts : a = tx[w].acct
    BY <1>0 DEF Transaction
  <2>2. account[a] = "ACTIVE" /\ account' = [account EXCEPT ![a] = "DEACTIVATED"]
    BY <1>0, <1>2, <1>6, <2>1 DEF InOrder, RevokeCommit
  <2>3. a \notin ClosedAccounts /\ ClosedAccounts' = ClosedAccounts \cup {a}
    BY <1>0, <2>2 DEF ClosedAccounts, TypeOK
  <2>4. S = ActiveOf(a)
    <3>1. ActiveOf(a) \subseteq S
      BY <1>0, <1>1, <1>2, <1>6, <2>1 DEF InOrder
    <3>2. \A s \in S : Owner[s] = a
      BY <1>0, <1>1, <2>1 DEF RevokesOwn
    <3> QED BY <1>3, <3>1, <3>2 DEF ActiveOf
  <2>5. S = {s \in Sessions : Owner[s] = a /\ StateOf[s] = "open"}
    <3>1. \A s \in Sessions : session[s].status = "ACTIVE" <=> StateOf[s] = "open"
      BY LedgerRows DEF EveryRow, LedgerRow, StateOf
    <3> QED BY <2>4, <3>1 DEF ActiveOf
  <2> QED BY <1>4, <2>3, <2>5 DEF Ledger!CloseAccount
<1> QED
  BY <1>5, <1>6

LEMMA LedgerStep ==
  Inductive /\ Inductive' /\ RevokesOwn /\ [Next]_vars => [Ledger!Next]_(Ledger!ledgerVars)
<1> SUFFICES ASSUME Inductive, Inductive', RevokesOwn, [Next]_vars
             PROVE  [Ledger!Next]_(Ledger!ledgerVars)
  OBVIOUS
<1>1. CASE UNCHANGED <<account, session, token>>
  BY <1>1, LedgerStutters
<1>2. ASSUME NEW w \in Workers, OpenCommit(w) PROVE Ledger!Next
  <2>1. PICK s \in Sessions : s = tx[w].sid
    BY RowTypes DEF Inductive, Transaction
  <2>2. Ledger!Open(s)
    BY <1>2, <2>1, OpensLedger
  <2> QED BY <2>2 DEF Ledger!Next
<1>3. ASSUME NEW w \in Workers, RefreshRotate(w) PROVE Ledger!Next
  <2>1. PICK s \in Sessions : s = tx[w].sid
    BY RowTypes DEF Inductive, Transaction
  <2>2. Ledger!Replace(s)
    BY <1>3, <2>1, ReplacesLedger
  <2> QED BY <2>2 DEF Ledger!Next
<1>4. ASSUME NEW w \in Workers, RefreshReplay(w) PROVE Ledger!Next
  BY <1>4, ReplayLedger DEF Ledger!Next
<1>5. ASSUME NEW w \in Workers, RevokeCommit(w) PROVE Ledger!Next
  BY <1>5, RevokeLedger DEF Ledger!Next
<1>6. ASSUME NEW w \in Workers, Request(w) PROVE UNCHANGED <<account, session, token>>
  BY <1>6 DEF Request, OpenBegin, RefreshBegin, LogoutBegin, RevokeAllBegin, DeactivateBegin,
     RevokeBegin
<1>7. ASSUME NEW w \in Workers, Progress(w)
      PROVE  \/ OpenCommit(w) \/ RefreshRotate(w) \/ RefreshReplay(w) \/ RevokeCommit(w)
             \/ UNCHANGED <<account, session, token>>
  BY <1>7 DEF Progress, OpenLock, OpenIssue, RefreshLock, RefreshLookup, RefreshRefuse, RevokeLock
<1> QED
  BY <1>1, <1>2, <1>3, <1>4, <1>5, <1>6, <1>7 DEF Next, vars, Tick, Rollback

\* Whatever the transactions interleave, the tables are a ledger: one usable
\* credential per open session, and an account closed with all its sessions in
\* one step.
THEOREM LedgerImplemented == Spec => ImplementsLedger
<1> QED
  BY LedgerInit, LedgerStep, InductiveHolds, RevokesOwnHolds, PTL DEF Spec, ImplementsLedger, Ledger!Spec

-----------------------------------------------------------------------------
\* What a rotation starts from: USABLE is the last token of the chain, GRACE
\* the one before it.
LEMMA RotationFromTheEnd ==
  ASSUME Inductive, NEW w \in Workers, tx[w].step = "refresh.apply",
         tx[w].verdict \in {"USABLE", "GRACE"}
  PROVE  tx[w].gen >= issued[tx[w].sid] - 1
<1> DEFINE s == tx[w].sid
           n == tx[w].gen
<1>1. /\ tx[w] \in Transaction /\ tx[w].verdict = Lookup(s, n, tx[w].now) /\ InOrder(w)
      /\ s \in Sessions /\ n \in Gens
  BY RowTypes DEF Inductive, VerdictStillTrue, VerdictTrue, Transaction
<1>2. n <= issued[s] /\ issued[s] \in Nat
  BY <1>1, Parameters DEF InOrder, Inductive, TypeOK
<1> HIDE DEF s, n
<1>3. session[s].status = "ACTIVE"
  BY <1>1 DEF Lookup, Alive
<1>4. \A m \in Gens : m < issued[s] => token[s][m].status = "ROTATED" /\ token[s][m].succ = m + 1
  BY <1>1, <1>3 DEF Inductive, OneChain
<1>5. n >= issued[s] - 1
  <2>1. CASE tx[w].verdict = "USABLE"
    <3>1. token[s][n].status = "ACTIVE"
      BY <1>1, <2>1 DEF Lookup
    <3>2. ~(n < issued[s])
      BY <1>1, <1>4, <3>1
    <3> QED BY <1>1, <1>2, <3>2 DEF Gens
  <2>2. CASE tx[w].verdict = "GRACE"
    <3>1. PICK m \in Gens : m = token[s][n].succ /\ token[s][m].status = "ACTIVE"
      BY <1>1, <2>2 DEF Lookup, SuccessorActive
    <3>2. ~(m < issued[s])
      BY <1>4, <3>1
    <3>3. n < issued[s] => m = n + 1
      BY <1>1, <1>4, <3>1
    <3> QED BY <1>1, <1>2, <3>2, <3>3 DEF Gens
  <2> QED BY <2>1, <2>2
<1> QED
  BY <1>5 DEF s, n

\* Whoever presents a token, however often and however many at once, gets a
\* successor only from the end of the chain.
THEOREM GraceIsBounded == Spec => GraceIsNoFactory
<1> DEFINE A == \A s \in Sessions : issued'[s] # issued[s] /\ issued[s] > 0 =>
                  \E w \in Workers : tx[w].sid = s /\ tx[w].gen >= issued[s] - 1
                                      /\ tx[w].step = "refresh.apply"
<1>1. Inductive /\ [Next]_vars => [A]_vars
  <2> SUFFICES ASSUME Inductive, Next, NEW s \in Sessions, issued'[s] # issued[s], issued[s] > 0
               PROVE  \E w \in Workers : tx[w].sid = s /\ tx[w].gen >= issued[s] - 1
                                          /\ tx[w].step = "refresh.apply"
    OBVIOUS
  <2>1. PICK w \in Workers : OpenCommit(w) \/ RefreshRotate(w)
    <3>1. ASSUME NEW w \in Workers, Request(w) PROVE UNCHANGED issued
      BY <3>1 DEF Request, OpenBegin, RefreshBegin, LogoutBegin, RevokeAllBegin,
         DeactivateBegin, RevokeBegin
    <3>2. ASSUME NEW w \in Workers, Progress(w)
          PROVE  OpenCommit(w) \/ RefreshRotate(w) \/ UNCHANGED issued
      BY <3>2 DEF Progress, OpenLock, OpenIssue, RefreshLock, RefreshLookup, RefreshReplay,
         RefreshRefuse, RevokeLock, RevokeCommit
    <3> QED BY <3>1, <3>2 DEF Next, Tick, Rollback
  <2>2. TypeOK /\ InOrder(w) /\ tx[w] \in Transaction /\ tx[w].sid \in Sessions
    BY RowTypes DEF Inductive, Transaction
  <2>3. s = tx[w].sid
    BY <2>1, <2>2 DEF OpenCommit, RefreshRotate, Rotate, TypeOK
  <2>4. ~OpenCommit(w)
    <3> SUFFICES ASSUME OpenCommit(w) PROVE FALSE
      OBVIOUS
    <3>1. session[s].status = "ABSENT"
      BY <2>2, <2>3 DEF OpenCommit, InOrder
    <3>2. issued[s] = 0
      BY <3>1 DEF Inductive, RowsInOrder
    <3> QED BY <3>2
  <2>5. tx[w].step = "refresh.apply" /\ tx[w].verdict \in {"USABLE", "GRACE"}
    BY <2>1, <2>4 DEF RefreshRotate
  <2> QED BY <2>3, <2>5, RotationFromTheEnd
<1> QED
  BY <1>1, InductiveHolds, PTL DEF Spec, GraceIsNoFactory
=============================================================================
