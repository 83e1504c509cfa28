--------------------------- MODULE SessionsProofs ---------------------------
(***************************************************************************)
(* Proofs about Sessions: for any number of accounts, sessions, tokens and *)
(* connections, and any values of the time parameters.                     *)
(***************************************************************************)
EXTENDS Sessions, TLAPS

USE SessionsAssumption DEF SessionsAssumption

-----------------------------------------------------------------------------
\* A worker that starts or ends a transaction carries a well-typed record.
LEMMA IdleTxType == IdleTx \in Transaction /\ IdleTx.step = "idle" /\ IdleTx.held = {}
<1>1. (CHOOSE s \in Sessions : TRUE) \in Sessions
  OBVIOUS
<1>2. Owner[CHOOSE s \in Sessions : TRUE] \in Accounts
  BY <1>1
<1> QED
  BY <1>1, <1>2 DEF IdleTx, Transaction, Steps, Verdicts, Reasons, Gens

\* Updating one field of a record keeps its type.
LEMMA TransactionUpdate ==
  ASSUME NEW r \in Transaction
  PROVE  /\ \A x \in Steps : [r EXCEPT !.step = x] \in Transaction
         /\ \A x \in Verdicts : [r EXCEPT !.verdict = x] \in Transaction
         /\ \A x \in Nat : [r EXCEPT !.now = x] \in Transaction
         /\ \A x \in Sessions : [r EXCEPT !.sid = x] \in Transaction
         /\ \A x \in Gens : [r EXCEPT !.gen = x] \in Transaction
         /\ \A x \in Reasons : [r EXCEPT !.reason = x] \in Transaction
         /\ \A x \in Accounts : [r EXCEPT !.acct = x] \in Transaction
         /\ \A x \in SUBSET Sessions : [r EXCEPT !.todo = x] \in Transaction
         /\ \A x \in SUBSET Sessions : [r EXCEPT !.held = x] \in Transaction
  BY DEF Transaction

\* Reading one row keeps its type.
LEMMA RowTypes ==
  ASSUME TypeOK
  PROVE  /\ \A w \in Workers : tx[w] \in Transaction
         /\ \A s \in Sessions : session[s] \in SessionRow
         /\ \A s \in Sessions : token[s] \in [Gens -> TokenRow]
         /\ \A s \in Sessions, n \in Gens : token[s][n] \in TokenRow
  BY DEF TypeOK

LEMMA Parameters ==
  /\ GraceWindow \in Nat /\ RefreshTtl \in Nat /\ SessionTtl \in Nat /\ AccessTtl \in Nat
  /\ MaxTokens \in Nat /\ 1 \in Gens
  BY DEF Gens

LEMMA SessionUpdate ==
  ASSUME NEW r \in SessionRow, NEW x \in Reasons
  PROVE  [r EXCEPT !.status = "REVOKED", !.reason = x] \in SessionRow
  BY DEF SessionRow

LEMMA TokenUpdate ==
  ASSUME NEW r \in TokenRow
  PROVE  /\ [r EXCEPT !.status = "REVOKED"] \in TokenRow
         /\ \A g \in Nat, n \in Nat :
              [r EXCEPT !.status = "ROTATED", !.grace = g, !.succ = n] \in TokenRow
  BY DEF TokenRow

\* One token of one live chain.
LEMMA ChainOf ==
  ASSUME OneChain, NEW s \in Sessions, session[s].status = "ACTIVE", NEW n \in Gens
  PROVE  /\ n < issued[s] => token[s][n].status = "ROTATED" /\ token[s][n].succ = n + 1
         /\ n = issued[s] => token[s][n].status = "ACTIVE" /\ token[s][n].succ = 0
         /\ n > issued[s] => token[s][n].status = "ABSENT"
  BY DEF OneChain

LEMMA LookupType ==
  ASSUME NEW s, NEW n, NEW now
  PROVE  Lookup(s, n, now) \in Verdicts
  BY DEF Lookup, Verdicts

\* The minimum of two times is a time, and is no later than either.
LEMMA SmallerOfType ==
  ASSUME NEW a \in Nat, NEW b \in Nat
  PROVE  SmallerOf(a, b) \in Nat /\ SmallerOf(a, b) <= a /\ SmallerOf(a, b) <= b
  BY DEF SmallerOf

\* Revoking sessions keeps both tables well typed.
LEMMA RevokeType ==
  ASSUME TypeOK, NEW S, NEW reason \in Reasons, Revoke(S, reason)
  PROVE  /\ session' \in [Sessions -> SessionRow]
         /\ token' \in [Sessions -> [Gens -> TokenRow]]
<1>1. \A s \in Sessions : [session[s] EXCEPT !.status = "REVOKED", !.reason = reason] \in SessionRow
  BY RowTypes, SessionUpdate
<1>2. \A s \in Sessions, n \in Gens : [token[s][n] EXCEPT !.status = "REVOKED"] \in TokenRow
  BY RowTypes, TokenUpdate
<1> QED
  BY <1>1, <1>2 DEF Revoke, TypeOK

LEMMA NewExpiryType ==
  ASSUME NEW a \in Nat, NEW b \in Nat
  PROVE  NewExpiry(a, b) \in Nat /\ NewExpiry(a, b) <= b
<1>1. a + RefreshTtl \in Nat
  BY Parameters
<1> QED
  BY <1>1, SmallerOfType DEF NewExpiry

\* Type correctness (TypeOK) is preserved by every step.
LEMMA TypeOKStep == TypeOK /\ [Next]_vars => TypeOK'
<1> SUFFICES ASSUME TypeOK, [Next]_vars PROVE TypeOK'
  OBVIOUS
<1> USE DEF TypeOK
<1>0. ASSUME NEW w \in Workers, Finish(w) PROVE tx' \in [Workers -> Transaction]
  BY <1>0, IdleTxType DEF Finish
<1>1. CASE Tick
  BY <1>1 DEF Tick
<1>2. ASSUME NEW w \in Workers, NEW s \in Sessions, OpenBegin(w, s) PROVE TypeOK'
  <2>1. [IdleTx EXCEPT !.step = "open.lock", !.now = clock, !.sid = s] \in Transaction
    BY IdleTxType DEF Transaction, Steps
  <2> QED BY <1>2, <2>1 DEF OpenBegin
<1>3. ASSUME NEW w \in Workers, NEW s \in Sessions, NEW n \in Gens, RefreshBegin(w, s, n)
      PROVE TypeOK'
  <2>1. [IdleTx EXCEPT !.step = "refresh.lock", !.now = clock, !.sid = s, !.gen = n] \in Transaction
    BY IdleTxType DEF Transaction, Steps
  <2> QED BY <1>3, <2>1 DEF RefreshBegin
<1>4. ASSUME NEW w \in Workers, NEW a \in Accounts, NEW S \in SUBSET Sessions,
             NEW reason \in Reasons, RevokeBegin(w, a, S, reason)
      PROVE TypeOK'
  <2>1. [IdleTx EXCEPT !.step = "revoke", !.acct = a, !.reason = reason, !.todo = S] \in Transaction
    BY IdleTxType DEF Transaction, Steps
  <2> QED BY <1>4, <2>1 DEF RevokeBegin
<1>5. ASSUME NEW w \in Workers, NEW s \in Sessions, LogoutBegin(w, s) PROVE TypeOK'
  BY <1>5, <1>4 DEF LogoutBegin, Reasons
<1>6. ASSUME NEW w \in Workers, NEW s \in Sessions, RevokeAllBegin(w, s) PROVE TypeOK'
  BY <1>6, <1>4 DEF RevokeAllBegin, Reasons, ActiveOf
<1>7. ASSUME NEW w \in Workers, NEW a \in Accounts, DeactivateBegin(w, a) PROVE TypeOK'
  BY <1>7, <1>4 DEF DeactivateBegin, Reasons, ActiveOf
<1>8. ASSUME NEW w \in Workers, OpenLock(w) PROVE TypeOK'
  <2>1. [tx[w] EXCEPT !.step = "open.insert"] \in Transaction
    BY RowTypes, TransactionUpdate DEF Steps
  <2> QED BY <1>8, <1>0, <2>1 DEF OpenLock
<1>9. ASSUME NEW w \in Workers, OpenCommit(w) PROVE TypeOK'
  <2>1. [tx[w] EXCEPT !.step = "open.issue"] \in Transaction
    BY RowTypes, TransactionUpdate DEF Steps
  <2>2. tx[w].now \in Nat /\ tx[w].sid \in Sessions /\ tx[w].now + SessionTtl \in Nat
    BY Parameters DEF Transaction
  <2>3. NewExpiry(tx[w].now, tx[w].now + SessionTtl) \in Nat
    BY <2>2, NewExpiryType
  <2>4. 1 \in Gens /\ 1 \in 0..MaxTokens
    BY DEF Gens
  <2> QED BY <1>9, <2>1, <2>2, <2>3, <2>4 DEF OpenCommit, SessionRow, TokenRow
<1>10. ASSUME NEW w \in Workers, OpenIssue(w) PROVE TypeOK'
  <2>1. clock + AccessTtl \in Nat
    BY Parameters
  <2> QED BY <1>10, <1>0, <2>1 DEF OpenIssue
<1>11. ASSUME NEW w \in Workers, RefreshLock(w) PROVE TypeOK'
  <2>1. [tx[w] EXCEPT !.step = "refresh.lookup"] \in Transaction
    BY RowTypes, TransactionUpdate DEF Steps
  <2> QED BY <1>11, <2>1 DEF RefreshLock
<1>12. ASSUME NEW w \in Workers, RefreshLookup(w) PROVE TypeOK'
  <2>1. [tx[w] EXCEPT !.step = "refresh.apply",
                      !.verdict = Lookup(tx[w].sid, tx[w].gen, tx[w].now)] \in Transaction
    <3> DEFINE verdict == Lookup(tx[w].sid, tx[w].gen, tx[w].now)
    <3>1. verdict \in Verdicts
      BY LookupType
    <3>2. tx[w] \in Transaction
      BY RowTypes
    <3> HIDE DEF verdict
    <3>3. [tx[w] EXCEPT !.step = "refresh.apply", !.verdict = verdict] \in Transaction
      BY <3>1, <3>2 DEF Transaction, Steps
    <3> QED BY <3>3 DEF verdict
  <2> QED BY <1>12, <2>1 DEF RefreshLookup
<1>13. ASSUME NEW w \in Workers, RefreshRotate(w) PROVE TypeOK'
  <2> DEFINE s == tx[w].sid
             old == Rotated(w)
             new == issued[s] + 1
             row == [status |-> "ACTIVE",
                     expires |-> NewExpiry(tx[w].now, session[s].expires),
                     grace |-> 0, succ |-> 0]
  <2>1. s \in Sessions /\ tx[w].now \in Nat /\ session[s].expires \in Nat
    BY DEF Transaction, SessionRow
  <2>a. tx[w].now + GraceWindow \in Nat /\ clock + AccessTtl \in Nat
    BY <2>1, Parameters
  <2>2. row \in TokenRow
    BY <2>1, NewExpiryType DEF TokenRow
  <2>3. old \in Gens /\ new \in Gens /\ new \in Nat /\ new \in 0..MaxTokens
    <3>1. RotationAccepted(s, old, tx[w].now) /\ new \in Gens
      BY <1>13 DEF RefreshRotate, Rotate
    <3>2. old \in Gens
      BY <3>1 DEF RotationAccepted
    <3> HIDE DEF new, old
    <3> QED BY <3>1, <3>2 DEF Gens
  <2>4. [token[s][old] EXCEPT !.status = "ROTATED", !.grace = tx[w].now + GraceWindow, !.succ = new]
           \in TokenRow
    BY <2>1, <2>a, <2>3, RowTypes, TokenUpdate
  <2>5. [token[s] EXCEPT ![old].status = "ROTATED", ![old].grace = tx[w].now + GraceWindow,
                         ![old].succ = new, ![new] = row] \in [Gens -> TokenRow]
    BY <2>1, <2>2, <2>3, <2>4, RowTypes
  <2>6. token' \in [Sessions -> [Gens -> TokenRow]]
    BY <1>13, <2>1, <2>5 DEF RefreshRotate, Rotate
  <2> QED BY <1>13, <1>0, <2>1, <2>a, <2>3, <2>6 DEF RefreshRotate, Rotate
<1>14. ASSUME NEW w \in Workers, RefreshReplay(w) PROVE TypeOK'
  BY <1>14, <1>0, RevokeType DEF RefreshReplay, Reasons
<1>15. ASSUME NEW w \in Workers, RefreshRefuse(w) PROVE TypeOK'
  BY <1>15, <1>0 DEF RefreshRefuse
<1>16. ASSUME NEW w \in Workers, RevokeLock(w) PROVE TypeOK'
  <2>1. PICK s \in tx[w].todo :
          tx' = [tx EXCEPT ![w].todo = @ \ {s},
                           ![w].held = IF session[s].status = "ACTIVE" THEN @ \cup {s} ELSE @]
    BY <1>16 DEF RevokeLock
  <2>2. \A H \in SUBSET Sessions :
          [tx[w] EXCEPT !.todo = @ \ {s}, !.held = H] \in Transaction
    BY DEF Transaction
  <2>3. (IF session[s].status = "ACTIVE" THEN tx[w].held \cup {s} ELSE tx[w].held)
          \in SUBSET Sessions
    BY DEF Transaction
  <2> QED BY <1>16, <2>1, <2>2, <2>3 DEF RevokeLock
<1>17. ASSUME NEW w \in Workers, RevokeCommit(w) PROVE TypeOK'
  <2>1. tx[w].reason \in Reasons /\ tx[w].acct \in Accounts
    BY DEF Transaction
  <2> QED BY <1>17, <1>0, <2>1, RevokeType DEF RevokeCommit, AccountStatuses
<1>18. ASSUME NEW w \in Workers, Rollback(w) PROVE TypeOK'
  BY <1>18, <1>0 DEF Rollback
<1>19. CASE UNCHANGED vars
  BY <1>19 DEF vars
<1> QED
  BY <1>1, <1>2, <1>3, <1>5, <1>6, <1>7, <1>8, <1>9, <1>10, <1>11, <1>12, <1>13, <1>14,
     <1>15, <1>16, <1>17, <1>18, <1>19 DEF Next, Request, Progress

\* Type correctness of the whole component, the invariant TypeOK of the runs.
THEOREM TypeCorrect == Spec => []TypeOK
<1>1. Init => TypeOK
  BY IdleTxType DEF Init, TypeOK, AccountStatuses, SessionRow, NoSession, TokenRow, NoToken
<1> QED
  BY <1>1, TypeOKStep, PTL DEF Spec

-----------------------------------------------------------------------------
\* A statement of w that changes no table: a BEGIN, a lock, a lookup, an end.
\* It is enough that w takes only what is free and that w itself is in order.
LEMMA QuietStep ==
  ASSUME Inductive, TypeOK', NEW w \in Workers,
         UNCHANGED <<account, session, token, issued>>,
         \A v \in Workers : v # w => tx'[v] = tx[v],
         \A s \in Sessions : HoldsSession(w, s)' => HoldsSession(w, s) \/ SessionFree(s),
         \A a \in Accounts : WritesAccount(w, a)' => WritesAccount(w, a) \/ AccountFree(a),
         \A a \in Accounts : SharesAccount(w, a)' => SharesAccount(w, a) \/ AccountShareable(a),
         tx'[w].step \in {"open.lock", "open.insert"} =>
            \/ tx[w].step \in {"open.lock", "open.insert"} /\ tx'[w].sid = tx[w].sid
            \/ ~Opening(tx'[w].sid),
         InOrder(w)', VerdictTrue(w)'
  PROVE  Inductive'
<1>1. OneChain' /\ RevocationIsTotal' /\ TokenWithinSession' /\ RowsInOrder'
  BY DEF Inductive, OneChain, RevocationIsTotal, TokenWithinSession, RowsInOrder, ActiveOf
<1>2. \A v \in Workers : v # w =>
         /\ \A s \in Sessions : HoldsSession(v, s)' <=> HoldsSession(v, s)
         /\ \A a \in Accounts : WritesAccount(v, a)' <=> WritesAccount(v, a)
         /\ \A a \in Accounts : SharesAccount(v, a)' <=> SharesAccount(v, a)
  BY DEF HoldsSession, WritesAccount, SharesAccount
<1>3. LocksExclude'
  BY <1>2 DEF Inductive, LocksExclude, SessionFree, AccountFree, AccountShareable
<1>4. OpensApart'
  BY DEF Inductive, OpensApart, Opening
<1>5. \A v \in Workers : InOrder(v)'
  <2> SUFFICES ASSUME NEW v \in Workers, v # w PROVE InOrder(v)'
    OBVIOUS
  <2> QED BY DEF Inductive, InOrder, ActiveOf
<1>6. VerdictStillTrue'
  <2> SUFFICES ASSUME NEW v \in Workers, v # w PROVE VerdictTrue(v)'
    BY DEF VerdictStillTrue
  <2>1. VerdictTrue(v) /\ tx'[v] = tx[v]
    BY DEF Inductive, VerdictStillTrue
  <2>2. \A s, n, now : Lookup(s, n, now)' = Lookup(s, n, now)
    BY DEF Lookup, Alive, InGrace, SuccessorActive
  <2> QED BY <2>1, <2>2 DEF VerdictTrue
<1> QED
  BY <1>1, <1>3, <1>4, <1>5, <1>6 DEF Inductive

\* The end of a transaction, whatever ended it, as long as it changed no table.
LEMMA QuietFinish ==
  ASSUME Inductive, TypeOK', NEW w \in Workers, Finish(w),
         UNCHANGED <<account, session, token, issued>>
  PROVE  Inductive'
<1>1. tx'[w] = IdleTx /\ \A v \in Workers : v # w => tx'[v] = tx[v]
  BY DEF Finish, Inductive, TypeOK
<1>2. tx'[w].step = "idle"
  BY <1>1, IdleTxType
<1>3. InOrder(w)' /\ VerdictTrue(w)'
  BY <1>2 DEF InOrder, VerdictTrue
<1>4. /\ \A s \in Sessions : ~HoldsSession(w, s)'
      /\ \A a \in Accounts : ~WritesAccount(w, a)' /\ ~SharesAccount(w, a)'
  BY <1>2 DEF HoldsSession, WritesAccount, SharesAccount
<1> QED
  BY <1>1, <1>2, <1>3, <1>4, QuietStep

\* What replacing the record of one worker does to the others: nothing.
LEMMA OneWorker ==
  ASSUME TypeOK, NEW w \in Workers, NEW r, tx' = [tx EXCEPT ![w] = r]
  PROVE  tx'[w] = r /\ \A v \in Workers : v # w => tx'[v] = tx[v]
  BY DEF TypeOK

\* The BEGIN of each kind of transaction.
LEMMA BeginStep ==
  ASSUME Inductive, TypeOK', NEW w \in Workers, Request(w)
  PROVE  Inductive'
<1> USE DEF Inductive
<1>0. tx[w].step = "idle" /\ w \in DOMAIN tx /\ UNCHANGED <<account, session, token, issued>>
  BY DEF Request, OpenBegin, RefreshBegin, LogoutBegin, RevokeAllBegin, DeactivateBegin,
         RevokeBegin, TypeOK
<1>1. ASSUME NEW s \in Sessions, OpenBegin(w, s) PROVE Inductive'
  <2>1. /\ tx'[w].step = "open.lock" /\ tx'[w].sid = s
        /\ \A v \in Workers : v # w => tx'[v] = tx[v]
    <3> DEFINE r == [IdleTx EXCEPT !.step = "open.lock", !.now = clock, !.sid = s]
    <3>1. r.step = "open.lock" /\ r.sid = s
      BY DEF IdleTx
    <3>2. tx' = [tx EXCEPT ![w] = r]
      BY <1>1 DEF OpenBegin
    <3> HIDE DEF r
    <3> QED BY <3>1, <3>2, OneWorker
  <2>2. InOrder(w)' /\ VerdictTrue(w)'
    BY <2>1, <1>1 DEF InOrder, VerdictTrue, OpenBegin
  <2>3. /\ \A u \in Sessions : ~HoldsSession(w, u)'
        /\ \A a \in Accounts : ~WritesAccount(w, a)' /\ ~SharesAccount(w, a)'
    BY <2>1 DEF HoldsSession, WritesAccount, SharesAccount
  <2> QED BY <1>0, <1>1, <2>1, <2>2, <2>3, QuietStep DEF OpenBegin
<1>2. ASSUME NEW s \in Sessions, NEW n \in Gens, RefreshBegin(w, s, n) PROVE Inductive'
  <2>1. /\ tx'[w].step = "refresh.lock" /\ tx'[w].sid = s /\ tx'[w].gen = n
        /\ \A v \in Workers : v # w => tx'[v] = tx[v]
    <3> DEFINE r == [IdleTx EXCEPT !.step = "refresh.lock", !.now = clock, !.sid = s, !.gen = n]
    <3>1. r.step = "refresh.lock" /\ r.sid = s /\ r.gen = n
      BY DEF IdleTx
    <3>2. tx' = [tx EXCEPT ![w] = r]
      BY <1>2 DEF RefreshBegin
    <3> HIDE DEF r
    <3> QED BY <3>1, <3>2, OneWorker
  <2>2. InOrder(w)' /\ VerdictTrue(w)'
    BY <2>1, <1>2 DEF InOrder, VerdictTrue, RefreshBegin
  <2>3. /\ \A u \in Sessions : ~HoldsSession(w, u)'
        /\ \A a \in Accounts : ~WritesAccount(w, a)' /\ ~SharesAccount(w, a)'
    BY <2>1 DEF HoldsSession, WritesAccount, SharesAccount
  <2> QED BY <1>0, <2>1, <2>2, <2>3, QuietStep
<1>3. ASSUME NEW a \in Accounts, NEW S \in SUBSET Sessions, NEW reason \in Reasons,
             RevokeBegin(w, a, S, reason),
             reason = "ADMIN" => account[a] = "ACTIVE" /\ AccountFree(a) /\ ActiveOf(a) \subseteq S
      PROVE  Inductive'
  <2>1. /\ tx'[w].step = "revoke" /\ tx'[w].acct = a /\ tx'[w].reason = reason
        /\ tx'[w].todo = S /\ tx'[w].held = {}
        /\ \A v \in Workers : v # w => tx'[v] = tx[v]
    <3> DEFINE r == [IdleTx EXCEPT !.step = "revoke", !.acct = a, !.reason = reason, !.todo = S]
    <3>1. r.step = "revoke" /\ r.acct = a /\ r.reason = reason /\ r.todo = S /\ r.held = {}
      BY DEF IdleTx
    <3>2. tx' = [tx EXCEPT ![w] = r]
      BY <1>3 DEF RevokeBegin
    <3> HIDE DEF r
    <3> QED BY <3>1, <3>2, OneWorker
  <2>2. InOrder(w)' /\ VerdictTrue(w)'
    BY <2>1, <1>0, <1>3 DEF InOrder, VerdictTrue, ActiveOf
  <2>3. /\ \A u \in Sessions : ~HoldsSession(w, u)'
        /\ \A b \in Accounts : ~SharesAccount(w, b)'
        /\ \A b \in Accounts : WritesAccount(w, b)' => AccountFree(b)
    BY <2>1, <1>3 DEF HoldsSession, WritesAccount, SharesAccount
  <2> QED BY <1>0, <2>1, <2>2, <2>3, QuietStep
<1>4. ASSUME NEW s \in Sessions, LogoutBegin(w, s) PROVE Inductive'
  BY <1>4, <1>3 DEF LogoutBegin, Reasons
<1>5. ASSUME NEW s \in Sessions, RevokeAllBegin(w, s) PROVE Inductive'
  BY <1>5, <1>3 DEF RevokeAllBegin, Reasons, ActiveOf
<1>6. ASSUME NEW a \in Accounts, DeactivateBegin(w, a) PROVE Inductive'
  BY <1>6, <1>3 DEF DeactivateBegin, Reasons, ActiveOf
<1> QED
  BY <1>1, <1>2, <1>4, <1>5, <1>6 DEF Request

\* The statements that only lock or look up.
LEMMA LockStep ==
  ASSUME Inductive, TypeOK', NEW w \in Workers,
         OpenLock(w) \/ OpenIssue(w) \/ RefreshLock(w) \/ RefreshLookup(w)
           \/ RefreshRefuse(w) \/ RevokeLock(w) \/ Rollback(w)
  PROVE  Inductive'
<1>0. TypeOK /\ tx[w] \in Transaction /\ InOrder(w)
  BY RowTypes DEF Inductive
<1>1. CASE OpenLock(w)
  <2>1. CASE account[Owner[tx[w].sid]] = "ACTIVE"
    <3>1. /\ tx'[w] = [tx[w] EXCEPT !.step = "open.insert"]
          /\ \A v \in Workers : v # w => tx'[v] = tx[v]
      BY <1>0, <1>1, <2>1 DEF OpenLock, TypeOK
    <3>2. tx'[w].step = "open.insert" /\ tx'[w].sid = tx[w].sid
      BY <1>0, <3>1 DEF Transaction
    <3>3. InOrder(w)' /\ VerdictTrue(w)'
      BY <1>0, <1>1, <2>1, <3>2 DEF InOrder, VerdictTrue, OpenLock
    <3>4. /\ \A u \in Sessions : ~HoldsSession(w, u)'
          /\ \A b \in Accounts : ~WritesAccount(w, b)'
          /\ \A b \in Accounts : SharesAccount(w, b)' => AccountShareable(b)
      BY <1>1, <3>2 DEF HoldsSession, WritesAccount, SharesAccount, OpenLock
    <3> QED BY <1>1, <3>1, <3>2, <3>3, <3>4, QuietStep DEF OpenLock
  <2>2. CASE account[Owner[tx[w].sid]] # "ACTIVE"
    BY <1>1, <2>2, QuietFinish DEF OpenLock
  <2> QED BY <2>1, <2>2
<1>2. CASE OpenIssue(w)
  BY <1>2, QuietFinish DEF OpenIssue
<1>3. CASE RefreshLock(w)
  <2>1. /\ tx'[w] = [tx[w] EXCEPT !.step = "refresh.lookup"]
        /\ \A v \in Workers : v # w => tx'[v] = tx[v]
    BY <1>0, <1>3 DEF RefreshLock, TypeOK
  <2>2. tx'[w].step = "refresh.lookup" /\ tx'[w].sid = tx[w].sid /\ tx'[w].gen = tx[w].gen
    BY <1>0, <2>1 DEF Transaction
  <2>3. InOrder(w)' /\ VerdictTrue(w)'
    BY <1>0, <1>3, <2>2 DEF InOrder, VerdictTrue, RefreshLock
  <2>4. /\ \A u \in Sessions : HoldsSession(w, u)' => SessionFree(u)
        /\ \A b \in Accounts : ~WritesAccount(w, b)' /\ ~SharesAccount(w, b)'
    BY <1>3, <2>2 DEF HoldsSession, WritesAccount, SharesAccount, RefreshLock
  <2> QED BY <1>3, <2>1, <2>2, <2>3, <2>4, QuietStep DEF RefreshLock
<1>4. CASE RefreshLookup(w)
  <2> DEFINE v0 == Lookup(tx[w].sid, tx[w].gen, tx[w].now)
  <2>0. UNCHANGED <<account, session, token, issued>>
    BY <1>4 DEF RefreshLookup
  <2>1. /\ tx'[w] = [tx[w] EXCEPT !.step = "refresh.apply", !.verdict = v0]
        /\ \A v \in Workers : v # w => tx'[v] = tx[v]
    BY <1>0, <1>4 DEF RefreshLookup, TypeOK
  <2>2. /\ tx'[w].step = "refresh.apply" /\ tx'[w].sid = tx[w].sid /\ tx'[w].gen = tx[w].gen
        /\ tx'[w].now = tx[w].now /\ tx'[w].verdict = v0
    <3> HIDE DEF v0
    <3> QED BY <1>0, <2>1 DEF Transaction
  <2>3. \A s, n, now : Lookup(s, n, now)' = Lookup(s, n, now)
    BY <2>0 DEF Lookup, Alive, InGrace, SuccessorActive
  <2>4. InOrder(w)'
    BY <1>0, <1>4, <2>2 DEF InOrder, RefreshLookup
  <2>5. VerdictTrue(w)'
    BY <2>2, <2>3 DEF VerdictTrue
  <2>6. /\ \A u \in Sessions : HoldsSession(w, u)' => HoldsSession(w, u)
        /\ \A b \in Accounts : ~WritesAccount(w, b)' /\ ~SharesAccount(w, b)'
    BY <1>4, <2>2 DEF HoldsSession, WritesAccount, SharesAccount, RefreshLookup
  <2> QED BY <2>0, <2>1, <2>2, <2>4, <2>5, <2>6, QuietStep
<1>5. CASE RefreshRefuse(w)
  BY <1>5, QuietFinish DEF RefreshRefuse
<1>6. CASE RevokeLock(w)
  <2>1. PICK s \in tx[w].todo :
          /\ SessionFree(s)
          /\ tx' = [tx EXCEPT ![w].todo = @ \ {s},
                              ![w].held = IF session[s].status = "ACTIVE" THEN @ \cup {s} ELSE @]
    BY <1>6 DEF RevokeLock
  <2>2. s \in Sessions
    BY <1>0 DEF Transaction
  <2>3. /\ tx'[w].step = "revoke" /\ tx'[w].acct = tx[w].acct /\ tx'[w].reason = tx[w].reason
        /\ tx'[w].todo = tx[w].todo \ {s}
        /\ tx'[w].held = IF session[s].status = "ACTIVE" THEN tx[w].held \cup {s} ELSE tx[w].held
        /\ \A v \in Workers : v # w => tx'[v] = tx[v]
    BY <1>0, <1>6, <2>1 DEF RevokeLock, TypeOK, Transaction
  <2>4. tx[w].step = "revoke" /\ UNCHANGED <<account, session, token, issued>>
    BY <1>6 DEF RevokeLock
  <2>5. \A u \in tx'[w].held : u \in tx[w].held \/ (u = s /\ session[u].status = "ACTIVE")
    BY <2>3
  <2>6. tx[w].reason = "ADMIN" => ActiveOf(tx[w].acct) \subseteq tx'[w].todo \cup tx'[w].held
    BY <1>0, <2>3, <2>4 DEF InOrder, ActiveOf
  <2>7. InOrder(w)'
    <3>1. \A u \in tx'[w].held : session'[u].status = "ACTIVE"
      BY <1>0, <2>4, <2>5 DEF InOrder
    <3>2. ActiveOf(tx[w].acct)' = ActiveOf(tx'[w].acct)
      BY <2>3, <2>4 DEF ActiveOf
    <3> QED BY <1>0, <2>3, <2>4, <2>6, <3>1, <3>2 DEF InOrder, ActiveOf
  <2>8. VerdictTrue(w)'
    BY <2>3, <2>4 DEF VerdictTrue
  <2>9. \A u \in Sessions : HoldsSession(w, u)' => HoldsSession(w, u) \/ SessionFree(u)
    <3> SUFFICES ASSUME NEW u \in Sessions, HoldsSession(w, u)'
                 PROVE  HoldsSession(w, u) \/ SessionFree(u)
      OBVIOUS
    <3>1. u \in tx'[w].held
      BY <2>3, <2>4 DEF HoldsSession
    <3>2. CASE u \in tx[w].held
      BY <2>4, <3>2 DEF HoldsSession
    <3>3. CASE u = s
      BY <2>1, <3>3
    <3> QED BY <2>5, <3>1, <3>2, <3>3
  <2>10. /\ \A b \in Accounts : ~SharesAccount(w, b)'
         /\ \A b \in Accounts : WritesAccount(w, b)' => WritesAccount(w, b)
    BY <2>3, <2>4 DEF WritesAccount, SharesAccount
  <2>11. ~(tx'[w].step \in {"open.lock", "open.insert"})
    BY <2>3, <2>4
  <2> QED BY <2>3, <2>4, <2>7, <2>8, <2>9, <2>10, <2>11, QuietStep
<1>7. CASE Rollback(w)
  BY <1>7, QuietFinish DEF Rollback
<1> QED
  BY <1>1, <1>2, <1>3, <1>4, <1>5, <1>6, <1>7

-----------------------------------------------------------------------------
\* When w lets go of its locks or keeps none, the locks still exclude each
\* other and no two workers insert the same session.
LEMMA LocksRelease ==
  ASSUME LocksExclude, OpensApart, NEW w \in Workers,
         tx'[w].step \in {"idle", "open.issue"},
         \A v \in Workers : v # w => tx'[v] = tx[v]
  PROVE  LocksExclude' /\ OpensApart'
<1>1. /\ \A s \in Sessions : ~HoldsSession(w, s)'
      /\ \A a \in Accounts : ~WritesAccount(w, a)' /\ ~SharesAccount(w, a)'
  BY DEF HoldsSession, WritesAccount, SharesAccount
<1>2. \A v \in Workers : v # w =>
         /\ \A s \in Sessions : HoldsSession(v, s)' <=> HoldsSession(v, s)
         /\ \A a \in Accounts : WritesAccount(v, a)' <=> WritesAccount(v, a)
         /\ \A a \in Accounts : SharesAccount(v, a)' <=> SharesAccount(v, a)
  BY DEF HoldsSession, WritesAccount, SharesAccount
<1>3. LocksExclude'
  BY <1>1, <1>2 DEF LocksExclude
<1>4. OpensApart'
  BY DEF OpensApart
<1> QED
  BY <1>3, <1>4

\* A verdict depends only on the account, the session and its tokens.
LEMMA LookupFrame ==
  ASSUME NEW s, NEW n, NEW now,
         account'[Owner[s]] = account[Owner[s]], session'[s] = session[s], token'[s] = token[s]
  PROVE  Lookup(s, n, now)' = Lookup(s, n, now)
  BY DEF Lookup, Alive, InGrace, SuccessorActive

\* Opening a session: its row and its first token.
LEMMA OpenCommitStep ==
  ASSUME Inductive, TypeOK', NEW w \in Workers, OpenCommit(w)
  PROVE  Inductive'
<1> DEFINE s == tx[w].sid
           expires == tx[w].now + SessionTtl
           srow == [status |-> "ACTIVE", reason |-> "-", expires |-> expires]
           trow == [status |-> "ACTIVE", expires |-> NewExpiry(tx[w].now, expires),
                    grace |-> 0, succ |-> 0]
<1>0. /\ TypeOK /\ tx[w] \in Transaction /\ InOrder(w) /\ s \in Sessions
      /\ tx[w].step = "open.insert" /\ UNCHANGED account
  BY RowTypes DEF Inductive, OpenCommit, Transaction
<1>1. /\ session' = [session EXCEPT ![s] = srow]
      /\ issued' = [issued EXCEPT ![s] = 1]
      /\ token' = [token EXCEPT ![s][1] = trow]
      /\ tx' = [tx EXCEPT ![w].step = "open.issue"]
  BY DEF OpenCommit
<1>2. /\ tx'[w].step = "open.issue"
      /\ \A v \in Workers : v # w => tx'[v] = tx[v]
  BY <1>0, <1>1 DEF TypeOK, Transaction
<1>3. session[s].status = "ABSENT" /\ account[Owner[s]] = "ACTIVE" /\ issued[s] = 0
  BY <1>0 DEF InOrder, Inductive, RowsInOrder
<1>4. tx[w].now \in Nat /\ expires \in Nat
  BY <1>0, Parameters DEF Transaction
<1>5. trow.expires <= srow.expires
  BY <1>4, NewExpiryType
<1>6. /\ session'[s] = srow /\ issued'[s] = 1 /\ token'[s][1] = trow
      /\ \A n \in Gens : n # 1 => token'[s][n] = NoToken
      /\ \A u \in Sessions : u # s =>
           session'[u] = session[u] /\ issued'[u] = issued[u] /\ token'[u] = token[u]
  <2>1. \A n \in Gens : n > 0 => token[s][n] = NoToken
    BY <1>0, <1>3 DEF Inductive, RowsInOrder
  <2>2. session'[s] = srow /\ issued'[s] = 1
    BY <1>0, <1>1 DEF TypeOK
  <2>3. token'[s] = [token[s] EXCEPT ![1] = trow]
    BY <1>0, <1>1 DEF TypeOK
  <2>4. token[s] \in [Gens -> TokenRow] /\ 1 \in Gens
    BY <1>0, RowTypes, Parameters
  <2>5. token'[s][1] = trow /\ \A n \in Gens : n # 1 => token'[s][n] = token[s][n]
    BY <2>3, <2>4
  <2>6. \A n \in Gens : n # 1 => token'[s][n] = NoToken
    BY <2>1, <2>5 DEF Gens
  <2>7. \A u \in Sessions : u # s =>
           session'[u] = session[u] /\ issued'[u] = issued[u] /\ token'[u] = token[u]
    BY <1>0, <1>1 DEF TypeOK
  <2> QED BY <2>2, <2>5, <2>6, <2>7
<1>7. srow.status = "ACTIVE" /\ trow.status = "ACTIVE" /\ trow.succ = 0 /\ NoToken.status = "ABSENT"
  BY DEF NoToken
<1> HIDE DEF srow, trow
<1>8. OneChain'
  <2> SUFFICES ASSUME NEW u \in Sessions, session'[u].status = "ACTIVE", u = s
               PROVE  /\ issued'[u] > 0
                      /\ \A n \in Gens :
                         /\ n < issued'[u] => token'[u][n].status = "ROTATED" /\ token'[u][n].succ = n + 1
                         /\ n = issued'[u] => token'[u][n].status = "ACTIVE" /\ token'[u][n].succ = 0
                         /\ n > issued'[u] => token'[u][n].status = "ABSENT"
    BY <1>6 DEF Inductive, OneChain
  <2> QED BY <1>6, <1>7 DEF Gens
<1>9. RevocationIsTotal'
  <2>1. \A u \in Sessions : session'[u].status = "REVOKED" =>
           u # s /\ session'[u] = session[u] /\ token'[u] = token[u]
    BY <1>6, <1>7
  <2>2. \A a \in Accounts : account[a] = "DEACTIVATED" => ActiveOf(a)' = {}
    <3> SUFFICES ASSUME NEW a \in Accounts, account[a] = "DEACTIVATED", NEW u \in Sessions,
                        Owner[u] = a, session'[u].status = "ACTIVE"
                 PROVE  FALSE
      BY DEF ActiveOf
    <3>1. u # s
      BY <1>3
    <3> QED BY <3>1, <1>6 DEF Inductive, RevocationIsTotal, ActiveOf
  <2> QED BY <1>0, <2>1, <2>2 DEF Inductive, RevocationIsTotal
<1>10. TokenWithinSession'
  <2> SUFFICES ASSUME NEW u \in Sessions, NEW n \in Gens, n <= issued'[u]
               PROVE  token'[u][n].expires <= session'[u].expires
    BY DEF TokenWithinSession
  <2>1. CASE u = s
    BY <2>1, <1>5, <1>6 DEF Gens
  <2>2. CASE u # s
    BY <2>2, <1>6 DEF Inductive, TokenWithinSession
  <2> QED BY <2>1, <2>2
<1>11. RowsInOrder'
  <2> SUFFICES ASSUME NEW u \in Sessions
               PROVE  /\ session'[u].status = "ABSENT" <=> issued'[u] = 0
                      /\ \A n \in Gens : n > issued'[u] => token'[u][n] = NoToken
    BY DEF RowsInOrder
  <2>1. CASE u = s
    BY <2>1, <1>6, <1>7 DEF Gens
  <2>2. CASE u # s
    <3>1. session'[u] = session[u] /\ issued'[u] = issued[u] /\ token'[u] = token[u]
      BY <2>2, <1>6
    <3>2. RowsInOrder
      BY DEF Inductive
    <3> QED BY <3>1, <3>2 DEF RowsInOrder
  <2> QED BY <2>1, <2>2
<1>12. \A v \in Workers : InOrder(v)' /\ VerdictTrue(v)'
  <2> SUFFICES ASSUME NEW v \in Workers PROVE InOrder(v)' /\ VerdictTrue(v)'
    OBVIOUS
  <2>1. CASE v = w
    BY <2>1, <1>2 DEF InOrder, VerdictTrue
  <2>2. CASE v # w
    <3>1. tx'[v] = tx[v] /\ InOrder(v) /\ VerdictTrue(v) /\ tx[v] \in Transaction
      BY <2>2, <1>0, <1>2, RowTypes DEF Inductive, VerdictStillTrue
    <3>2. tx[v].step \in {"open.lock", "open.insert"} => tx[v].sid # s
      BY <2>2, <1>0 DEF Inductive, OpensApart
    <3>3. tx[v].step \in {"refresh.lock", "refresh.lookup", "refresh.apply"} =>
             tx[v].sid # s /\ tx[v].sid \in Sessions
      BY <1>3, <3>1 DEF InOrder, Transaction, Gens
    <3>4. tx[v].step = "revoke" => \A u \in tx[v].held : u # s /\ u \in Sessions
      BY <1>3, <3>1 DEF InOrder, Transaction
    <3>5. tx[v].step = "revoke" /\ tx[v].reason = "ADMIN" => tx[v].acct # Owner[s]
      BY <2>2, <1>0, <3>1 DEF Inductive, LocksExclude, WritesAccount, SharesAccount, Transaction
    <3>6. tx[v].step = "revoke" /\ tx[v].reason = "ADMIN" =>
             \A u \in Sessions : Owner[u] = tx[v].acct /\ session'[u].status = "ACTIVE" =>
                u \in tx[v].todo \cup tx[v].held
      <4> SUFFICES ASSUME tx[v].step = "revoke", tx[v].reason = "ADMIN", NEW u \in Sessions,
                          Owner[u] = tx[v].acct, session'[u].status = "ACTIVE"
                   PROVE  u \in tx[v].todo \cup tx[v].held
        OBVIOUS
      <4>1. session'[u] = session[u]
        BY <1>6, <3>5
      <4> QED BY <4>1, <3>1 DEF InOrder, ActiveOf
    <3>7. InOrder(v)'
      <4>1. tx[v].step \in {"open.lock", "open.insert"} => session'[tx[v].sid] = session[tx[v].sid]
        BY <1>6, <3>1, <3>2 DEF Transaction
      <4>2. tx[v].step \in {"refresh.lock", "refresh.lookup", "refresh.apply"} =>
               issued'[tx[v].sid] = issued[tx[v].sid]
        BY <1>6, <3>3
      <4>3. tx[v].step = "revoke" => \A u \in tx[v].held : session'[u] = session[u]
        BY <1>6, <3>4
      <4> QED BY <1>0, <3>1, <3>6, <4>1, <4>2, <4>3 DEF InOrder, ActiveOf
    <3>8. VerdictTrue(v)'
      <4>1. \A u \in Sessions : u # s =>
               \A n, now : Lookup(u, n, now)' = Lookup(u, n, now)
        BY <1>0, <1>6, LookupFrame
      <4> QED BY <3>1, <3>3, <4>1 DEF VerdictTrue
    <3> QED BY <3>7, <3>8
  <2> QED BY <2>1, <2>2
<1>13. LocksExclude' /\ OpensApart'
  BY <1>2, LocksRelease DEF Inductive
<1> QED
  BY <1>8, <1>9, <1>10, <1>11, <1>12, <1>13 DEF Inductive, VerdictStillTrue

\* The worker that holds a session is the only one to look at it or to have
\* listed it among those it revokes.
LEMMA HolderAlone ==
  ASSUME Inductive, NEW w \in Workers, NEW s \in Sessions, HoldsSession(w, s),
         NEW v \in Workers, v # w
  PROVE  /\ tx[v].step = "refresh.apply" => tx[v].sid # s
         /\ tx[v].step = "revoke" => s \notin tx[v].held
  BY DEF Inductive, LocksExclude, HoldsSession

\* A rotation: the last token of the chain gives way to a new one.
LEMMA RotateStep ==
  ASSUME Inductive, TypeOK', NEW w \in Workers, RefreshRotate(w)
  PROVE  Inductive'
<1> DEFINE s == tx[w].sid
           old == Rotated(w)
           new == issued[s] + 1
           g == tx[w].now + GraceWindow
           row == [status |-> "ACTIVE",
                   expires |-> NewExpiry(tx[w].now, session[s].expires),
                   grace |-> 0, succ |-> 0]
<1>0. /\ TypeOK /\ tx[w] \in Transaction /\ s \in Sessions /\ tx[w].step = "refresh.apply"
      /\ UNCHANGED <<account, session>> /\ old \in Gens /\ new \in Gens
      /\ token[s][old].status = "ACTIVE" /\ session[s].status = "ACTIVE"
      /\ issued[s] \in Nat
  <2>1. TypeOK /\ tx[w] \in Transaction
    BY RowTypes DEF Inductive
  <2>2. s \in Sessions /\ issued[s] \in Nat
    <3>1. s \in Sessions
      BY <2>1 DEF Transaction
    <3>2. issued \in [Sessions -> 0..MaxTokens]
      BY <2>1 DEF TypeOK
    <3>3. issued[s] \in 0..MaxTokens
      BY <3>1, <3>2
    <3> HIDE DEF s
    <3> QED BY <3>1, <3>3, Parameters
  <2>3. tx[w].step = "refresh.apply" /\ UNCHANGED <<account, session>> /\ new \in Gens
    BY DEF RefreshRotate, Rotate
  <2>4. RotationAccepted(s, old, tx[w].now)
    BY DEF RefreshRotate, Rotate
  <2>5. old \in Gens /\ token[s][old].status = "ACTIVE" /\ session[s].status = "ACTIVE"
    BY <2>4 DEF RotationAccepted
  <2> QED BY <2>1, <2>2, <2>3, <2>5
<1>1. old = issued[s] /\ issued[s] > 0 /\ new # old
  <2> HIDE DEF old
  <2>1. /\ old < issued[s] => token[s][old].status = "ROTATED"
        /\ old > issued[s] => token[s][old].status = "ABSENT"
        /\ issued[s] > 0
    BY <1>0 DEF Inductive, OneChain
  <2>2. old \in Nat
    BY <1>0 DEF Gens
  <2>3. ~(old < issued[s]) /\ ~(old > issued[s])
    BY <1>0, <2>1
  <2> QED BY <1>0, <2>1, <2>2, <2>3
<1>2. /\ tx'[w].step = "idle"
      /\ \A v \in Workers : v # w => tx'[v] = tx[v]
  BY <1>0, OneWorker, IdleTxType DEF RefreshRotate, Rotate, Finish
<1>3. /\ issued'[s] = new
      /\ \A u \in Sessions : u # s => issued'[u] = issued[u] /\ token'[u] = token[u]
  BY <1>0 DEF RefreshRotate, Rotate, TypeOK
<1>4. /\ token'[s][new] = row
      /\ token'[s][old] = [token[s][old] EXCEPT !.status = "ROTATED", !.grace = g, !.succ = new]
      /\ \A n \in Gens : n # old /\ n # new => token'[s][n] = token[s][n]
  <2>1. token'[s] = [token[s] EXCEPT ![old].status = "ROTATED", ![old].grace = g,
                                     ![old].succ = new, ![new] = row]
    BY <1>0 DEF RefreshRotate, Rotate, TypeOK
  <2>2. token[s] \in [Gens -> TokenRow]
    BY <1>0, RowTypes
  <2> QED BY <1>0, <1>1, <2>1, <2>2
<1>5. token[s][old] \in TokenRow /\ session[s].expires \in Nat /\ tx[w].now \in Nat
  BY <1>0, RowTypes DEF SessionRow, Transaction
<1>6. /\ token'[s][old].status = "ROTATED" /\ token'[s][old].succ = new
      /\ token'[s][old].expires = token[s][old].expires
  BY <1>4, <1>5 DEF TokenRow
<1>7. /\ token'[s][new].status = "ACTIVE" /\ token'[s][new].succ = 0
      /\ token'[s][new].expires <= session[s].expires
  BY <1>4, <1>5, NewExpiryType
<1> HIDE DEF row, old, g
<1>8. OneChain'
  <2> SUFFICES ASSUME NEW u \in Sessions, session[u].status = "ACTIVE"
               PROVE  /\ issued'[u] > 0
                      /\ \A n \in Gens :
                         /\ n < issued'[u] => token'[u][n].status = "ROTATED" /\ token'[u][n].succ = n + 1
                         /\ n = issued'[u] => token'[u][n].status = "ACTIVE" /\ token'[u][n].succ = 0
                         /\ n > issued'[u] => token'[u][n].status = "ABSENT"
    BY <1>0 DEF OneChain
  <2>0. OneChain
    BY DEF Inductive
  <2>1. CASE u = s
    <3> SUFFICES ASSUME NEW n \in Gens
                 PROVE  /\ n < new => token'[s][n].status = "ROTATED" /\ token'[s][n].succ = n + 1
                        /\ n = new => token'[s][n].status = "ACTIVE" /\ token'[s][n].succ = 0
                        /\ n > new => token'[s][n].status = "ABSENT"
      BY <2>1, <1>0, <1>3
    <3>0. n \in Nat
      BY DEF Gens
    <3>1. CASE n = new
      BY <3>0, <3>1, <1>0, <1>7
    <3>2. CASE n = old
      BY <3>0, <3>2, <1>0, <1>1, <1>6
    <3>3. CASE n # new /\ n # old
      <4>1. token'[s][n] = token[s][n]
        BY <3>3, <1>4
      <4>2. /\ n < issued[s] => token[s][n].status = "ROTATED" /\ token[s][n].succ = n + 1
            /\ n > issued[s] => token[s][n].status = "ABSENT"
        BY <1>0, <2>0, ChainOf
      <4>3. n < new => n < issued[s]
        BY <3>0, <3>3, <1>0, <1>1
      <4>4. n > new => n > issued[s]
        BY <3>0, <1>0
      <4> QED BY <4>1, <4>2, <4>3, <4>4, <3>3
    <3> QED BY <3>1, <3>2, <3>3
  <2>2. CASE u # s
    BY <2>0, <2>2, <1>3 DEF OneChain
  <2> QED BY <2>1, <2>2
<1>9. RevocationIsTotal'
  <2>1. \A u \in Sessions : session[u].status = "REVOKED" => token'[u] = token[u]
    BY <1>0, <1>3
  <2>2. RevocationIsTotal
    BY DEF Inductive
  <2>3. account' = account /\ session' = session
    BY <1>0
  <2>4. \A u \in Sessions : session'[u].status = "REVOKED" =>
           \A n \in Gens : token'[u][n].status \in {"ABSENT", "REVOKED"}
    BY <2>1, <2>2, <2>3 DEF RevocationIsTotal
  <2>5. \A a \in Accounts : account'[a] = "DEACTIVATED" => ActiveOf(a)' = {}
    BY <2>2, <2>3 DEF RevocationIsTotal, ActiveOf
  <2> QED BY <2>4, <2>5 DEF RevocationIsTotal
<1>10. TokenWithinSession'
  <2> SUFFICES ASSUME NEW u \in Sessions, NEW n \in Gens, n <= issued'[u]
               PROVE  token'[u][n].expires <= session[u].expires
    BY <1>0 DEF TokenWithinSession
  <2>0. TokenWithinSession /\ n \in Nat
    BY DEF Inductive, Gens
  <2>1. CASE u # s
    BY <2>0, <2>1, <1>3 DEF TokenWithinSession
  <2>2. CASE u = s /\ n = new
    BY <2>2, <1>7
  <2>3. CASE u = s /\ n # new
    <3>1. n <= issued[s]
      BY <2>0, <2>3, <1>0, <1>3
    <3>2. token'[s][n].expires = token[s][n].expires
      BY <2>3, <1>4, <1>6
    <3> QED BY <2>0, <2>3, <3>1, <3>2 DEF TokenWithinSession
  <2> QED BY <2>1, <2>2, <2>3
<1>11. RowsInOrder'
  <2> SUFFICES ASSUME NEW u \in Sessions
               PROVE  /\ session[u].status = "ABSENT" <=> issued'[u] = 0
                      /\ \A n \in Gens : n > issued'[u] => token'[u][n] = NoToken
    BY <1>0 DEF RowsInOrder
  <2>0. RowsInOrder
    BY DEF Inductive
  <2>1. CASE u = s
    <3>1. \A n \in Gens : n > new => n # old /\ n # new /\ n > issued[s]
      BY <1>0, <1>1 DEF Gens
    <3> QED BY <2>0, <2>1, <3>1, <1>0, <1>3, <1>4 DEF RowsInOrder
  <2>2. CASE u # s
    BY <2>0, <2>2, <1>3 DEF RowsInOrder
  <2> QED BY <2>1, <2>2
<1>12. HoldsSession(w, s)
  BY <1>0 DEF HoldsSession
<1>13. \A v \in Workers : InOrder(v)' /\ VerdictTrue(v)'
  <2> SUFFICES ASSUME NEW v \in Workers PROVE InOrder(v)' /\ VerdictTrue(v)'
    OBVIOUS
  <2>1. CASE v = w
    BY <2>1, <1>2 DEF InOrder, VerdictTrue
  <2>2. CASE v # w
    <3>1. tx'[v] = tx[v] /\ InOrder(v) /\ VerdictTrue(v) /\ tx[v] \in Transaction
      BY <2>2, <1>0, <1>2, RowTypes DEF Inductive, VerdictStillTrue
    <3>2. \A u \in Sessions, n \in Gens : n <= issued[u] => n <= issued'[u]
      BY <1>0, <1>3 DEF Gens
    <3>3. InOrder(v)'
      BY <1>0, <3>1, <3>2 DEF InOrder, ActiveOf, Transaction
    <3>4. VerdictTrue(v)'
      <4>1. \A u \in Sessions : u # s =>
               \A n, now : Lookup(u, n, now)' = Lookup(u, n, now)
        BY <1>0, <1>3, LookupFrame
      <4>2. tx[v].step = "refresh.apply" => tx[v].sid # s /\ tx[v].sid \in Sessions
        BY <2>2, <1>0, <1>12, <3>1, HolderAlone DEF Transaction
      <4> QED BY <3>1, <4>1, <4>2 DEF VerdictTrue
    <3> QED BY <3>3, <3>4
  <2> QED BY <2>1, <2>2
<1>14. LocksExclude' /\ OpensApart'
  BY <1>2, LocksRelease DEF Inductive
<1> QED
  BY <1>8, <1>9, <1>10, <1>11, <1>13, <1>14 DEF Inductive, VerdictStillTrue

\* Revoking the sessions S that w holds, with the account of w or without.
LEMMA RevokeTables ==
  ASSUME Inductive, TypeOK', NEW w \in Workers, NEW S \in SUBSET Sessions,
         NEW reason \in Reasons, Revoke(S, reason), Finish(w), UNCHANGED issued,
         \A s \in S : HoldsSession(w, s) /\ session[s].status = "ACTIVE",
         \A a \in Accounts : account'[a] # account[a] =>
            account'[a] = "DEACTIVATED" /\ WritesAccount(w, a) /\ ActiveOf(a) \subseteq S
  PROVE  Inductive'
<1>0. TypeOK
  BY DEF Inductive
<1>1. /\ tx'[w].step = "idle"
      /\ \A v \in Workers : v # w => tx'[v] = tx[v]
  BY <1>0, OneWorker, IdleTxType DEF Finish
<1>2. \A s \in Sessions : s \notin S => session'[s] = session[s] /\ token'[s] = token[s]
  BY DEF Revoke
<1>3. \A s \in S : /\ session'[s].status = "REVOKED" /\ session'[s].expires = session[s].expires
                   /\ \A n \in Gens :
                        /\ token'[s][n].expires = token[s][n].expires
                        /\ n > issued[s] => token'[s][n] = NoToken
                        /\ token'[s][n].status \in {"ABSENT", "REVOKED"}
  <2> SUFFICES ASSUME NEW s \in S
               PROVE  /\ session'[s].status = "REVOKED" /\ session'[s].expires = session[s].expires
                      /\ \A n \in Gens :
                           /\ token'[s][n].expires = token[s][n].expires
                           /\ n > issued[s] => token'[s][n] = NoToken
                           /\ token'[s][n].status \in {"ABSENT", "REVOKED"}
    OBVIOUS
  <2>1. session'[s] = [session[s] EXCEPT !.status = "REVOKED", !.reason = reason]
    BY DEF Revoke
  <2>2. session[s] \in SessionRow
    BY <1>0, RowTypes
  <2>3. session'[s].status = "REVOKED" /\ session'[s].expires = session[s].expires
    BY <2>1, <2>2 DEF SessionRow
  <2>4. ASSUME NEW n \in Gens
        PROVE  /\ token'[s][n].expires = token[s][n].expires
               /\ n > issued[s] => token'[s][n] = NoToken
               /\ token'[s][n].status \in {"ABSENT", "REVOKED"}
    <3>1. token'[s][n] = IF token[s][n].status = "ABSENT" THEN token[s][n]
                         ELSE [token[s][n] EXCEPT !.status = "REVOKED"]
      BY DEF Revoke
    <3>2. token[s][n] \in TokenRow
      BY <1>0, RowTypes
    <3>3. n > issued[s] => token[s][n] = NoToken /\ NoToken.status = "ABSENT"
      BY DEF Inductive, RowsInOrder, NoToken
    <3> QED BY <3>1, <3>2, <3>3 DEF TokenRow
  <2> QED BY <2>3, <2>4
<1>4. OneChain'
  <2>1. OneChain
    BY DEF Inductive
  <2>2. \A s \in Sessions : session'[s].status = "ACTIVE" =>
           session'[s] = session[s] /\ token'[s] = token[s]
    BY <1>2, <1>3
  <2> QED BY <2>1, <2>2 DEF OneChain
<1>5. RevocationIsTotal'
  <2>0. RevocationIsTotal
    BY DEF Inductive
  <2>1. ASSUME NEW s \in Sessions, session'[s].status = "REVOKED", NEW n \in Gens
        PROVE  token'[s][n].status \in {"ABSENT", "REVOKED"}
    <3>1. CASE s \in S
      BY <1>3, <3>1
    <3>2. CASE s \notin S
      BY <1>2, <2>0, <2>1, <3>2 DEF RevocationIsTotal
    <3> QED BY <3>1, <3>2
  <2>2. ASSUME NEW a \in Accounts, account'[a] = "DEACTIVATED", NEW s \in Sessions,
               Owner[s] = a, session'[s].status = "ACTIVE"
        PROVE  FALSE
    <3>1. s \notin S /\ session[s].status = "ACTIVE"
      BY <2>2, <1>2, <1>3
    <3>2. s \in ActiveOf(a)
      BY <2>2, <3>1 DEF ActiveOf
    <3>3. account[a] = "DEACTIVATED"
      BY <2>2, <3>1, <3>2
    <3> QED BY <2>0, <3>2, <3>3 DEF RevocationIsTotal
  <2> QED BY <2>1, <2>2 DEF RevocationIsTotal, ActiveOf
<1>6. TokenWithinSession'
  <2>0. TokenWithinSession
    BY DEF Inductive
  <2> QED BY <1>2, <1>3, <2>0 DEF TokenWithinSession
<1>7. RowsInOrder'
  <2>0. RowsInOrder
    BY DEF Inductive
  <2> SUFFICES ASSUME NEW s \in Sessions
               PROVE  /\ session'[s].status = "ABSENT" <=> issued[s] = 0
                      /\ \A n \in Gens : n > issued[s] => token'[s][n] = NoToken
    BY DEF RowsInOrder
  <2>1. CASE s \in S
    <3>1. issued[s] # 0
      BY <2>0, <2>1 DEF RowsInOrder
    <3> QED BY <1>3, <2>1, <3>1
  <2>2. CASE s \notin S
    BY <1>2, <2>0, <2>2 DEF RowsInOrder
  <2> QED BY <2>1, <2>2
<1>8. \A v \in Workers : InOrder(v)' /\ VerdictTrue(v)'
  <2> SUFFICES ASSUME NEW v \in Workers PROVE InOrder(v)' /\ VerdictTrue(v)'
    OBVIOUS
  <2>1. CASE v = w
    BY <2>1, <1>1 DEF InOrder, VerdictTrue
  <2>2. CASE v # w
    <3>1. tx'[v] = tx[v] /\ InOrder(v) /\ VerdictTrue(v) /\ tx[v] \in Transaction
      BY <2>2, <1>0, <1>1, RowTypes DEF Inductive, VerdictStillTrue
    <3>2. \A s \in S : (tx[v].step = "refresh.apply" => tx[v].sid # s)
                       /\ (tx[v].step = "revoke" => s \notin tx[v].held)
      BY <2>2, HolderAlone
    <3>3. \A a \in Accounts : account'[a] # account[a] =>
             /\ tx[v].step = "open.insert" => Owner[tx[v].sid] # a
             /\ tx[v].step = "revoke" /\ tx[v].reason = "ADMIN" => tx[v].acct # a
      BY <2>2 DEF Inductive, LocksExclude, WritesAccount, SharesAccount
    <3>4. InOrder(v)'
      <4>1. tx[v].step \in {"open.lock", "open.insert"} => session'[tx[v].sid].status = "ABSENT"
        BY <1>2, <3>1 DEF InOrder, Transaction
      <4>2. tx[v].step = "open.insert" => account'[Owner[tx[v].sid]] = "ACTIVE"
        BY <3>1, <3>3 DEF InOrder, Transaction
      <4>3. tx[v].step = "revoke" => \A s \in tx[v].held : session'[s].status = "ACTIVE"
        BY <1>2, <3>1, <3>2 DEF InOrder, Transaction
      <4>4. tx[v].step = "revoke" /\ tx[v].reason = "ADMIN" =>
               /\ account'[tx[v].acct] = "ACTIVE"
               /\ \A s \in Sessions : Owner[s] = tx[v].acct /\ session'[s].status = "ACTIVE" =>
                    s \in tx[v].todo \cup tx[v].held
        <5> SUFFICES ASSUME tx[v].step = "revoke", tx[v].reason = "ADMIN"
                     PROVE  /\ account'[tx[v].acct] = "ACTIVE"
                            /\ \A s \in Sessions :
                                 Owner[s] = tx[v].acct /\ session'[s].status = "ACTIVE" =>
                                    s \in tx[v].todo \cup tx[v].held
          OBVIOUS
        <5>1. account'[tx[v].acct] = "ACTIVE"
          BY <3>1, <3>3 DEF InOrder, Transaction
        <5>2. \A s \in Sessions : session'[s].status = "ACTIVE" => session[s].status = "ACTIVE"
          BY <1>2, <1>3
        <5> QED BY <3>1, <5>1, <5>2 DEF InOrder, ActiveOf
      <4>5. tx[v].step \in {"refresh.lock", "refresh.lookup", "refresh.apply"} =>
               tx[v].gen <= issued[tx[v].sid]
        BY <3>1 DEF InOrder
      <4> QED BY <3>1, <4>1, <4>2, <4>3, <4>4, <4>5 DEF InOrder, ActiveOf
    <3>5. VerdictTrue(v)'
      <4> SUFFICES ASSUME tx[v].step = "refresh.apply" PROVE VerdictTrue(v)'
        BY <3>1 DEF VerdictTrue
      <4> DEFINE u == tx[v].sid
      <4>1. u \in Sessions /\ u \notin S /\ Owner[u] \in Accounts
        BY <3>1, <3>2 DEF Transaction
      <4>2. session'[u] = session[u] /\ token'[u] = token[u]
        BY <1>2, <4>1
      <4>3. CASE account'[Owner[u]] = account[Owner[u]]
        <5>1. \A s \in Sessions : /\ session'[s] = session[s] /\ token'[s] = token[s]
                                 /\ account'[Owner[s]] = account[Owner[s]] =>
                 \A n, now : Lookup(s, n, now)' = Lookup(s, n, now)
          BY LookupFrame
        <5> QED BY <3>1, <4>1, <4>2, <4>3, <5>1 DEF VerdictTrue
      <4>4. CASE account'[Owner[u]] # account[Owner[u]]
        <5>1. session[u].status # "ACTIVE"
          BY <4>1, <4>4 DEF ActiveOf
        <5>2. \A s \in Sessions : session[s].status # "ACTIVE" =>
                 \A n, now : Lookup(s, n, now) = "DEAD"
          BY DEF Lookup, Alive
        <5>3. \A s \in Sessions : session'[s].status # "ACTIVE" =>
                 \A n, now : Lookup(s, n, now)' = "DEAD"
          BY DEF Lookup, Alive
        <5>4. tx[v].verdict = "DEAD"
          <6>1. Lookup(tx[v].sid, tx[v].gen, tx[v].now) = "DEAD"
            BY <4>1, <5>1, <5>2
          <6>2. tx[v].verdict = Lookup(tx[v].sid, tx[v].gen, tx[v].now)
            BY <3>1 DEF VerdictTrue
          <6> QED BY <6>1, <6>2
        <5>5. session'[u].status # "ACTIVE"
          BY <4>2, <5>1
        <5>6. Lookup(u, tx[v].gen, tx[v].now)' = "DEAD"
          <6>1. tx'[v] = tx[v]
            BY <3>1
          <6> QED BY <4>1, <5>3, <5>5, <6>1
        <5> QED BY <3>1, <5>4, <5>6 DEF VerdictTrue
      <4> QED BY <4>3, <4>4
    <3> QED BY <3>4, <3>5
  <2> QED BY <2>1, <2>2
<1>9. LocksExclude' /\ OpensApart'
  BY <1>1, LocksRelease DEF Inductive
<1> QED
  BY <1>4, <1>5, <1>6, <1>7, <1>8, <1>9 DEF Inductive, VerdictStillTrue

\* The two commits that revoke sessions.
LEMMA RevokeStep ==
  ASSUME Inductive, TypeOK', NEW w \in Workers, RefreshReplay(w) \/ RevokeCommit(w)
  PROVE  Inductive'
<1>0. TypeOK /\ tx[w] \in Transaction /\ InOrder(w)
  BY RowTypes DEF Inductive
<1>1. CASE RefreshReplay(w)
  <2> DEFINE S == {s \in {tx[w].sid} : session[s].status = "ACTIVE"}
  <2>1. S \in SUBSET Sessions
    BY <1>0 DEF Transaction
  <2>2. \A s \in S : HoldsSession(w, s) /\ session[s].status = "ACTIVE"
    BY <1>1 DEF HoldsSession, RefreshReplay
  <2>3. Revoke(S, "REPLAY_DETECTED") /\ Finish(w) /\ UNCHANGED <<account, issued>>
    BY <1>1 DEF RefreshReplay
  <2> HIDE DEF S
  <2> QED BY <2>1, <2>2, <2>3, RevokeTables DEF Reasons
<1>2. CASE RevokeCommit(w)
  <2> DEFINE S == tx[w].held
  <2>1. S \in SUBSET Sessions /\ tx[w].reason \in Reasons /\ tx[w].acct \in Accounts
    BY <1>0 DEF Transaction
  <2>2. tx[w].step = "revoke" /\ tx[w].todo = {}
    BY <1>2 DEF RevokeCommit
  <2>3. \A s \in S : HoldsSession(w, s) /\ session[s].status = "ACTIVE"
    BY <1>0, <2>2 DEF HoldsSession, InOrder
  <2>4. Revoke(S, tx[w].reason) /\ Finish(w) /\ UNCHANGED issued
    BY <1>2 DEF RevokeCommit
  <2>5. ASSUME NEW a \in Accounts, account'[a] # account[a]
        PROVE  account'[a] = "DEACTIVATED" /\ WritesAccount(w, a) /\ ActiveOf(a) \subseteq S
    <3>1. tx[w].reason = "ADMIN" /\ a = tx[w].acct /\ account'[a] = "DEACTIVATED"
      BY <1>0, <1>2, <2>1, <2>5 DEF RevokeCommit, TypeOK
    <3>2. ActiveOf(a) \subseteq S
      BY <1>0, <2>2, <3>1 DEF InOrder
    <3> QED BY <2>2, <3>1, <3>2 DEF WritesAccount
  <2> HIDE DEF S
  <2> QED BY <2>1, <2>3, <2>4, <2>5, RevokeTables
<1> QED
  BY <1>1, <1>2

\* The strengthened invariant is inductive.
LEMMA InductiveStep == Inductive /\ [Next]_vars => Inductive'
<1> SUFFICES ASSUME Inductive, [Next]_vars PROVE Inductive'
  OBVIOUS
<1>0. TypeOK'
  BY TypeOKStep DEF Inductive
<1>1. CASE Tick \/ UNCHANGED vars
  <2>1. UNCHANGED <<account, session, token, issued, tx>>
    BY <1>1 DEF Tick, vars
  <2>2. OneChain' /\ RevocationIsTotal' /\ TokenWithinSession' /\ RowsInOrder'
    BY <2>1 DEF Inductive, OneChain, RevocationIsTotal, TokenWithinSession, RowsInOrder, ActiveOf
  <2>3. LocksExclude' /\ OpensApart'
    BY <2>1 DEF Inductive, LocksExclude, OpensApart, HoldsSession, WritesAccount, SharesAccount
  <2>4. \A w \in Workers : InOrder(w)'
    BY <2>1 DEF Inductive, InOrder, ActiveOf
  <2>5. \A s, n, now : Lookup(s, n, now)' = Lookup(s, n, now)
    BY <2>1 DEF Lookup, Alive, InGrace, SuccessorActive
  <2>6. VerdictStillTrue'
    BY <2>1, <2>5 DEF Inductive, VerdictStillTrue, VerdictTrue
  <2> QED BY <1>0, <2>2, <2>3, <2>4, <2>6 DEF Inductive
<1>3. ASSUME NEW w \in Workers, Request(w) \/ Progress(w) \/ Rollback(w) PROVE Inductive'
  BY <1>0, <1>3, BeginStep, LockStep, OpenCommitStep, RotateStep, RevokeStep DEF Progress
<1> QED
  BY <1>1, <1>3 DEF Next

LEMMA InductiveInit == Init => Inductive
<1> SUFFICES ASSUME Init PROVE Inductive
  OBVIOUS
<1>1. TypeOK
  BY IdleTxType DEF Init, TypeOK, AccountStatuses, SessionRow, NoSession, TokenRow, NoToken
<1>2. \A w \in Workers : tx[w].step = "idle"
  BY IdleTxType DEF Init
<1>3. LocksExclude /\ OpensApart /\ VerdictStillTrue /\ \A w \in Workers : InOrder(w)
  BY <1>2 DEF LocksExclude, OpensApart, VerdictStillTrue, VerdictTrue, InOrder,
     HoldsSession, WritesAccount, SharesAccount
<1>4. OneChain /\ RevocationIsTotal /\ TokenWithinSession /\ RowsInOrder
  BY DEF Init, OneChain, RevocationIsTotal, TokenWithinSession, RowsInOrder, ActiveOf,
     NoSession, NoToken, Gens
<1> QED
  BY <1>1, <1>3, <1>4 DEF Inductive

\* The strengthened invariant holds in every reachable state.
THEOREM InductiveHolds == Spec => []Inductive
  BY InductiveInit, InductiveStep, PTL DEF Spec

-----------------------------------------------------------------------------
\* The second lookup decides under the row lock, so the verdict a refresh acts
\* on is still the verdict of the base when it acts (C16).
THEOREM VerdictStaysTrue == Spec => []VerdictStillTrue
<1>1. Inductive => VerdictStillTrue
  BY DEF Inductive
<1> QED
  BY <1>1, InductiveHolds, PTL

\* A live session always has exactly one ACTIVE token, at the end of one
\* unbroken chain of replacements.
THEOREM ChainHolds == Spec => []OneChain
<1>1. Inductive => OneChain
  BY DEF Inductive
<1> QED
  BY <1>1, InductiveHolds, PTL

\* Nothing of a revoked session or of a deactivated account stays usable,
\* whatever was being opened or refreshed meanwhile (C1, C13).
THEOREM RevocationHolds == Spec => []RevocationIsTotal
<1>1. Inductive => RevocationIsTotal
  BY DEF Inductive
<1> QED
  BY <1>1, InductiveHolds, PTL

\* No refresh ends in a trigger's exception: a rotation decided on USABLE or
\* on GRACE is one the guards of the two tables accept.
LEMMA RotationAcceptedLemma == Inductive => RotationNeverRefused
<1> SUFFICES ASSUME Inductive, NEW w \in Workers, tx[w].step = "refresh.apply",
                    tx[w].verdict \in {"USABLE", "GRACE"}
             PROVE  RotationAccepted(tx[w].sid, Rotated(w), tx[w].now)
  BY DEF RotationNeverRefused
<1> DEFINE s == tx[w].sid
           n == tx[w].gen
           now == tx[w].now
<1>1. tx[w] \in Transaction /\ tx[w].verdict = Lookup(s, n, now)
  BY RowTypes DEF Inductive, VerdictStillTrue, VerdictTrue
<1>2. s \in Sessions /\ n \in Gens /\ now \in Nat
  BY <1>1 DEF Transaction
<1> HIDE DEF s, n, now
<1>3. session[s].status = "ACTIVE" /\ session[s].expires > now
  BY <1>1 DEF Lookup, Alive
<1>4. session[s].expires \in Nat /\ NewExpiry(now, session[s].expires) <= session[s].expires
  BY <1>2, RowTypes, NewExpiryType DEF Inductive, SessionRow
<1>5. \E m \in Gens : m = Rotated(w) /\ token[s][m].status = "ACTIVE"
  <2>1. CASE tx[w].verdict = "USABLE"
    <3>1. token[s][n].status = "ACTIVE"
      BY <1>1, <2>1 DEF Lookup
    <3> QED BY <1>2, <2>1, <3>1 DEF Rotated, n
  <2>2. CASE tx[w].verdict = "GRACE"
    <3>1. SuccessorActive(s, n)
      BY <1>1, <2>2 DEF Lookup
    <3> QED BY <2>2, <3>1 DEF Rotated, SuccessorActive, s, n
  <2> QED BY <2>1, <2>2
<1>6. \A m \in Gens : token[s][m].status = "ACTIVE" => m = issued[s]
  <2> SUFFICES ASSUME NEW m \in Gens, token[s][m].status = "ACTIVE" PROVE m = issued[s]
    OBVIOUS
  <2>1. ~(m < issued[s]) /\ ~(m > issued[s])
    BY <1>2, <1>3 DEF Inductive, OneChain
  <2>2. issued \in [Sessions -> 0..MaxTokens]
    BY DEF Inductive, TypeOK
  <2>3. issued[s] \in 0..MaxTokens
    BY <1>2, <2>2
  <2> QED BY <2>1, <2>3, Parameters DEF Gens
<1> QED
  BY <1>3, <1>4, <1>5, <1>6 DEF RotationAccepted, s, now

\* No refresh is refused by the base once it has its verdict (C16).
THEOREM RotationHolds == Spec => []RotationNeverRefused
  BY RotationAcceptedLemma, InductiveHolds, PTL
=============================================================================
