--------------------------- MODULE PhoneTheorems ---------------------------
(***************************************************************************)
(* Proofs about PhoneProofs: for any number of persons, lines, claims and  *)
(* workers, any limits, and any number of rotations of the key.            *)
(***************************************************************************)
EXTENDS PhoneProofs, FiniteSetTheorems, TLAPS

USE PhoneAssumption DEF PhoneAssumption

-----------------------------------------------------------------------------
\* The kinds of steps.

tables == <<fingerprints, clock, account, claim, proof, opened, accepted, billed, outbox>>

\* A request that begins.
Begins(w) == \E c \in Claims : DeclareBegin(w, c) \/ OpenBegin(w, c) \/ VerifyBegin(w, c)

\* A transaction that ends and leaves nothing.
Ends(w) == Finish(w) /\ UNCHANGED tables

\* A step inside a transaction.
Moves(w) ==
    \/ DeclareLock(w)
    \/ DeclareReplace(w)
    \/ OpenCheck(w)
    \/ DeliverFailed(w)
    \/ VerifyRight(w)
    \/ VerifySupersede(w)
    \/ VerifyNotice(w)

\* A COMMIT that changes a proof, or the provider's answer.
Settles(w) ==
    \/ OpenCommit(w)
    \/ DeliverAccepted(w)
    \/ Record(w)
    \/ Abandon(w)
    \/ VerifyExpired(w)
    \/ VerifyWrong(w)

\* Every step is of one kind.
LEMMA Kinds ==
  ASSUME [Next]_vars
  PROVE  \/ UNCHANGED vars
         \/ Tick
         \/ Rotate
         \/ \E p \in Persons : Deactivate(p)
         \/ \E w \in Workers : \/ Begins(w) \/ Ends(w) \/ Moves(w) \/ Settles(w)
                               \/ DeclareCommit(w) \/ VerifyCommit(w)
<1>1. ASSUME NEW w \in Workers, Request(w) PROVE Begins(w)
  BY <1>1 DEF Request, Begins
<1>2. ASSUME NEW w \in Workers, DeadlockAbort(w) \/ Abort(w) PROVE Ends(w)
  BY <1>2 DEF DeadlockAbort, Abort, Ends, tables
<1>3. ASSUME NEW w \in Workers, Progress(w)
      PROVE  Ends(w) \/ Moves(w) \/ Settles(w) \/ DeclareCommit(w) \/ VerifyCommit(w)
  <2>1. CASE DeclareRefused(w) \/ OpenRefuse(w) \/ RecordRefused(w) \/ VerifySettled(w)
             \/ VerifyRaises(w)
    BY <2>1 DEF DeclareRefused, OpenRefuse, RecordRefused, VerifySettled, VerifyRaises, Ends, tables
  <2> QED
    BY <1>3, <2>1 DEF Progress, Moves, Settles
<1> QED
  BY <1>1, <1>2, <1>3 DEF Next

-----------------------------------------------------------------------------
\* Types.

\* A worker without a request carries a well-typed record.
LEMMA IdleTxType == IdleTx \in Transaction /\ IdleTx.step = "idle" /\ IdleTx.target = {}
<1>1. (CHOOSE c \in Claims : TRUE) \in Claims
  OBVIOUS
<1>2. 1 \in Nums
  BY DEF Nums
<1> QED
  BY <1>1, <1>2 DEF IdleTx, Transaction, Steps

\* Updating the fields of a record keeps its type.
LEMMA TransactionUpdate ==
  ASSUME NEW r \in Transaction, NEW s \in Steps
  PROVE  /\ [r EXCEPT !.step = s] \in Transaction
         /\ \A T \in SUBSET Claims : [r EXCEPT !.step = s, !.target = T] \in Transaction
         /\ \A n \in Nums : [r EXCEPT !.step = s, !.num = n, !.now = 0] \in Transaction
         /\ \A n \in Nums, T \in SUBSET Claims :
              [r EXCEPT !.num = n, !.now = 0, !.target = T, !.step = s] \in Transaction
         /\ \A c \in Claims, t \in Nat : [r EXCEPT !.step = s, !.now = t, !.claim = c] \in Transaction
  BY DEF Transaction

\* Reading one row keeps its type.
LEMMA RowTypes ==
  ASSUME TypeOK
  PROVE  /\ \A w \in Workers : /\ tx[w] \in Transaction
                               /\ tx[w].step \in Steps
                               /\ tx[w].now \in Nat
                               /\ tx[w].claim \in Claims
                               /\ tx[w].num \in Nums
                               /\ tx[w].target \subseteq Claims
         /\ \A c \in Claims : claim[c] \in ClaimRow
         /\ \A c \in Claims, n \in Nums : proof[c][n] \in ProofRow
  BY DEF TypeOK, Transaction

\* A worker that ends its transaction is idle, and nobody else moves.
LEMMA FinishTx ==
  ASSUME TypeOK, NEW w \in Workers, Finish(w)
  PROVE  /\ tx' \in [Workers -> Transaction]
         /\ tx'[w].step = "idle"
         /\ tx'[w].target = {}
         /\ \A v \in Workers \ {w} : tx'[v] = tx[v]
  BY IdleTxType DEF Finish, TypeOK

\* Changing one proof keeps the type of the table.
LEMMA ProofUpdate ==
  ASSUME TypeOK, NEW c \in Claims, NEW n \in Nums, NEW r \in ProofRow
  PROVE  [proof EXCEPT ![c][n] = r] \in [Claims -> [Nums -> ProofRow]]
  BY DEF TypeOK

\* Updating the fields of a proof keeps its type.
LEMMA ProofFields ==
  ASSUME NEW r \in ProofRow
  PROVE  /\ [r EXCEPT !.ref = TRUE] \in ProofRow
         /\ \A s \in {"PENDING", "SUCCEEDED", "FAILED", "EXPIRED"} :
              [r EXCEPT !.attempts = r.attempts + 1, !.status = s] \in ProofRow
<1>1. [r EXCEPT !.ref = TRUE] \in ProofRow
  BY Zenon DEF ProofRow
<1>2. ASSUME NEW s \in {"PENDING", "SUCCEEDED", "FAILED", "EXPIRED"}, NEW k \in Nat
      PROVE  [r EXCEPT !.attempts = k, !.status = s] \in ProofRow
  BY DEF ProofRow
<1>3. r.attempts + 1 \in Nat
  BY DEF ProofRow
<1> QED
  BY <1>1, <1>2, <1>3

\* Type correctness (TypeOK) is preserved by every step.
LEMMA TypeOKStep == TypeOK /\ ReadsStillTrue /\ [Next]_vars => TypeOK'
<1> SUFFICES ASSUME TypeOK, ReadsStillTrue, [Next]_vars PROVE TypeOK'
  OBVIOUS
<1>1. CASE UNCHANGED vars
  BY <1>1 DEF TypeOK, vars
<1>2. CASE Tick
  BY <1>2 DEF TypeOK, Tick, fingerprints
<1>3. CASE Rotate
  BY <1>3 DEF TypeOK, Rotate
<1>4. ASSUME NEW p \in Persons, Deactivate(p) PROVE TypeOK'
  BY <1>4 DEF TypeOK, Deactivate, fingerprints
<1>5. ASSUME NEW w \in Workers, Begins(w) PROVE TypeOK'
  <2>1. PICK c \in Claims, s \in {"declare.person", "open.lock", "verify.lock"}, t \in Nat :
            tx' = [tx EXCEPT ![w] = [IdleTx EXCEPT !.step = s, !.now = t, !.claim = c]]
    BY <1>5 DEF Begins, DeclareBegin, OpenBegin, VerifyBegin, Begin, TypeOK
  <2>2. [IdleTx EXCEPT !.step = s, !.now = t, !.claim = c] \in Transaction
    BY <2>1, IdleTxType, TransactionUpdate DEF Steps
  <2>3. UNCHANGED tables
    BY <1>5 DEF Begins, DeclareBegin, OpenBegin, VerifyBegin, tables
  <2> QED
    BY <2>1, <2>2, <2>3 DEF TypeOK, tables, fingerprints
<1>6. ASSUME NEW w \in Workers, Ends(w) PROVE TypeOK'
  BY <1>6, FinishTx DEF TypeOK, Ends, tables, fingerprints
<1>7. ASSUME NEW w \in Workers, Moves(w) PROVE TypeOK'
  <2>1. UNCHANGED tables
    BY <1>7 DEF Moves, DeclareLock, DeclareReplace, OpenCheck, DeliverFailed, VerifyRight,
                VerifySupersede, VerifyNotice, tables
  <2>2. tx' \in [Workers -> Transaction]
    <3>1. CASE DeclareLock(w) \/ OpenCheck(w) \/ DeliverFailed(w) \/ VerifySupersede(w)
               \/ VerifyNotice(w)
      <4>1. PICK s \in Steps : tx' = [tx EXCEPT ![w].step = s]
        BY <3>1 DEF DeclareLock, OpenCheck, DeliverFailed, VerifySupersede, VerifyNotice, Steps
      <4> QED BY <4>1, RowTypes, TransactionUpdate DEF TypeOK
    <3>2. CASE DeclareReplace(w)
      <4>1. ClaimsOf(Person[tx[w].claim]) \cap WithStatus("PENDING") \in SUBSET Claims
        BY DEF ClaimsOf
      <4>2. "declare.insert" \in Steps
        BY DEF Steps
      <4>3. [tx[w] EXCEPT !.step = "declare.insert",
                !.target = ClaimsOf(Person[tx[w].claim]) \cap WithStatus("PENDING")] \in Transaction
        BY <4>1, <4>2, RowTypes, TransactionUpdate
      <4> QED BY <3>2, <4>3 DEF DeclareReplace, TypeOK
    <3>3. CASE VerifyRight(w)
      <4> DEFINE c == tx[w].claim
                 s == IF Rivals(c) = {} THEN "verify.activate" ELSE "verify.supersede"
      <4>1. PICK n \in PendingOf(c) :
                tx' = [tx EXCEPT ![w].num = n, ![w].now = 0, ![w].target = Rivals(c), ![w].step = s]
        BY <3>3 DEF VerifyRight
      <4>2. n \in Nums /\ Rivals(c) \in SUBSET Claims /\ s \in Steps
        BY DEF PendingOf, Rivals, WithStatus, Steps
      <4>3. [tx[w] EXCEPT !.num = n, !.now = 0, !.target = Rivals(c), !.step = s] \in Transaction
        <5> HIDE DEF s, c
        <5> QED BY <4>2, RowTypes, TransactionUpdate
      <4> QED BY <4>1, <4>3 DEF TypeOK
    <3> QED BY <1>7, <3>1, <3>2, <3>3 DEF Moves
  <2> QED
    BY <2>1, <2>2 DEF TypeOK, tables, fingerprints
<1>8. ASSUME NEW w \in Workers, OpenCommit(w) PROVE TypeOK'
  <2> DEFINE c == tx[w].claim
             n == opened[c] + 1
  <2>1. c \in Claims /\ n \in Nums /\ n \in 0..MaxProofs
    <3>1. tx[w].step = "open.insert"
      BY <1>8 DEF OpenCommit, Ready
    <3>2. opened[c] < MaxProofs /\ c \in Claims
      BY <3>1, RowTypes DEF ReadsStillTrue, StillTrue
    <3>3. opened[c] \in 0..MaxProofs
      BY <3>2 DEF TypeOK
    <3> QED BY <3>2, <3>3 DEF Nums
  <2>2. [status |-> "PENDING", attempts |-> 0, created |-> tx[w].now,
         expires |-> tx[w].now + CodeTtl, ref |-> FALSE] \in ProofRow
    BY RowTypes DEF ProofRow
  <2>3. [tx[w] EXCEPT !.step = "deliver", !.num = n, !.now = 0] \in Transaction
    <3>1. "deliver" \in Steps
      BY DEF Steps
    <3> HIDE DEF n
    <3> QED BY <2>1, <3>1, RowTypes, TransactionUpdate
  <2>4. tx' = [tx EXCEPT ![w] = [tx[w] EXCEPT !.step = "deliver", !.num = n, !.now = 0]]
    BY <1>8 DEF OpenCommit
  <2>5. tx' \in [Workers -> Transaction]
    BY <2>3, <2>4 DEF TypeOK
  <2>6. proof' \in [Claims -> [Nums -> ProofRow]]
    BY <1>8, <2>1, <2>2, ProofUpdate DEF OpenCommit
  <2>7. opened' \in [Claims -> 0..MaxProofs]
    BY <1>8, <2>1 DEF OpenCommit, TypeOK
  <2> QED
    BY <1>8, <2>5, <2>6, <2>7 DEF TypeOK, OpenCommit, fingerprints
<1>9. ASSUME NEW w \in Workers, DeliverAccepted(w) PROVE TypeOK'
  <2>1. [tx[w] EXCEPT !.step = "record"] \in Transaction
    BY RowTypes, TransactionUpdate DEF Steps
  <2>2. <<tx[w].claim, tx[w].num>> \in Claims \X Nums
    BY RowTypes
  <2> QED BY <1>9, <2>1, <2>2 DEF DeliverAccepted, TypeOK, fingerprints
<1>10. ASSUME NEW w \in Workers, Record(w) PROVE TypeOK'
  <2> DEFINE c == tx[w].claim
             n == tx[w].num
  <2>1. c \in Claims /\ n \in Nums /\ <<c, n>> \in accepted
    BY <1>10, RowTypes DEF Record, Ready, ReadsStillTrue, StillTrue
  <2>2. [proof[c][n] EXCEPT !.ref = TRUE] \in ProofRow
    BY <2>1, RowTypes, ProofFields
  <2>3. proof' \in [Claims -> [Nums -> ProofRow]]
    BY <1>10, <2>1, <2>2, ProofUpdate DEF Record
  <2> QED BY <1>10, <2>1, <2>3, FinishTx DEF Record, TypeOK, fingerprints
<1>11. ASSUME NEW w \in Workers, Abandon(w) PROVE TypeOK'
  <2> DEFINE c == tx[w].claim
             n == tx[w].num
             s == IF proof[c][n].status = "PENDING" THEN "FAILED" ELSE proof[c][n].status
  <2>1. c \in Claims /\ n \in Nums
    BY RowTypes
  <2>2. [proof[c][n] EXCEPT !.status = s] \in ProofRow
    BY <2>1, RowTypes DEF ProofRow
  <2>3. proof' = [proof EXCEPT ![c][n] = [proof[c][n] EXCEPT !.status = s]]
    BY <1>11 DEF Abandon
  <2>4. proof' \in [Claims -> [Nums -> ProofRow]]
    BY <2>1, <2>2, <2>3, ProofUpdate
  <2> QED BY <1>11, <2>4, FinishTx DEF Abandon, TypeOK, fingerprints
<1>12. ASSUME NEW w \in Workers, VerifyExpired(w) PROVE TypeOK'
  <2> DEFINE c == tx[w].claim
  <2>1. PICK n \in PendingOf(c) : proof' = [proof EXCEPT ![c][n].status = "EXPIRED"]
    BY <1>12 DEF VerifyExpired
  <2>2. c \in Claims /\ n \in Nums
    BY RowTypes DEF PendingOf
  <2>3. [proof[c][n] EXCEPT !.status = "EXPIRED"] \in ProofRow
    BY <2>2, RowTypes DEF ProofRow
  <2>4. proof' \in [Claims -> [Nums -> ProofRow]]
    BY <2>1, <2>2, <2>3, ProofUpdate
  <2> QED BY <1>12, <2>4, FinishTx DEF VerifyExpired, TypeOK, fingerprints
<1>13. ASSUME NEW w \in Workers, VerifyWrong(w) PROVE TypeOK'
  <2> DEFINE c == tx[w].claim
  <2>1. PICK n \in PendingOf(c) :
          proof' = [proof EXCEPT ![c][n].attempts = @ + 1,
                                 ![c][n].status = IF Exhausted(c, n) THEN "FAILED" ELSE "PENDING"]
    BY <1>13 DEF VerifyWrong
  <2> DEFINE s == IF Exhausted(c, n) THEN "FAILED" ELSE "PENDING"
             row == [proof[c][n] EXCEPT !.attempts = proof[c][n].attempts + 1, !.status = s]
  <2>2. c \in Claims /\ n \in Nums /\ s \in {"FAILED", "PENDING"}
    BY RowTypes DEF PendingOf
  <2>3. proof' = [proof EXCEPT ![c][n] = row]
    BY <2>1
  <2>4. row \in ProofRow
    <3> HIDE DEF s
    <3> QED BY <2>2, RowTypes, ProofFields
  <2>5. proof' \in [Claims -> [Nums -> ProofRow]]
    BY <2>2, <2>3, <2>4, ProofUpdate
  <2> QED BY <1>13, <2>5, FinishTx DEF VerifyWrong, TypeOK, fingerprints
<1>14. ASSUME NEW w \in Workers, DeclareCommit(w) PROVE TypeOK'
  <2>1. claim' \in [Claims -> ClaimRow]
    BY <1>14, RowTypes DEF DeclareCommit, ClaimRow, Revoked
  <2>2. key' \in [Claims -> 0..reference']
    BY <1>14, RowTypes DEF DeclareCommit, TypeOK, ActiveKey
  <2> QED BY <1>14, <2>1, <2>2, FinishTx DEF DeclareCommit, TypeOK
<1>15. ASSUME NEW w \in Workers, VerifyCommit(w) PROVE TypeOK'
  <2> DEFINE c == tx[w].claim
             n == tx[w].num
             row == [proof[c][n] EXCEPT !.attempts = proof[c][n].attempts + 1,
                                        !.status = "SUCCEEDED"]
  <2>1. c \in Claims /\ n \in Nums /\ tx[w].target \subseteq Claims
    BY RowTypes
  <2>2. proof' = [proof EXCEPT ![c][n] = row]
    BY <1>15 DEF VerifyCommit
  <2>3. row \in ProofRow
    BY <2>1, RowTypes, ProofFields
  <2>4. proof' \in [Claims -> [Nums -> ProofRow]]
    BY <2>1, <2>2, <2>3, ProofUpdate
  <2>5. claim' \in [Claims -> ClaimRow]
    BY <1>15, RowTypes DEF VerifyCommit, ClaimRow, Revoked
  <2> QED
    BY <1>15, <2>1, <2>4, <2>5, FinishTx DEF VerifyCommit, Notified, TypeOK, fingerprints
<1> QED
  BY <1>1, <1>2, <1>3, <1>4, <1>5, <1>6, <1>7, <1>8, <1>9, <1>10, <1>11, <1>12, <1>13, <1>14,
     <1>15, Kinds DEF Settles

-----------------------------------------------------------------------------
\* Locks.

\* What a worker carries after each of its steps.
LEMMA BeginTx ==
  ASSUME TypeOK, NEW w \in Workers, NEW s \in Steps, NEW c \in Claims, NEW t \in Nat,
         Begin(w, s, c, t)
  PROVE  /\ tx[w].step = "idle"
         /\ tx'[w].step = s /\ tx'[w].claim = c /\ tx'[w].target = {}
         /\ \A v \in Workers \ {w} : tx'[v] = tx[v]
<1>1. tx'[w] = [IdleTx EXCEPT !.step = s, !.now = t, !.claim = c]
  BY DEF Begin, TypeOK
<1>2. [IdleTx EXCEPT !.step = s, !.now = t, !.claim = c].step = s
  BY IdleTxType DEF Transaction
<1>3. [IdleTx EXCEPT !.step = s, !.now = t, !.claim = c].claim = c
  BY IdleTxType DEF Transaction
<1>4. [IdleTx EXCEPT !.step = s, !.now = t, !.claim = c].target = {}
  BY IdleTxType DEF Transaction
<1> QED
  BY <1>1, <1>2, <1>3, <1>4 DEF Begin, TypeOK

LEMMA MoveTx ==
  ASSUME TypeOK, NEW w \in Workers
  PROVE  /\ DeclareLock(w) => /\ tx[w].step = "declare.person" /\ tx'[w].step = "declare.pending"
                              /\ tx'[w].claim = tx[w].claim
         /\ DeclareReplace(w) =>
              /\ tx[w].step = "declare.pending" /\ tx'[w].step = "declare.insert"
              /\ tx'[w].claim = tx[w].claim
              /\ tx'[w].target = ClaimsOf(Person[tx[w].claim]) \cap WithStatus("PENDING")
         /\ OpenCheck(w) =>
              /\ tx[w].step = "open.lock" /\ tx'[w].claim = tx[w].claim
              /\ \/ tx'[w].step = "open.refuse"
                 \/ /\ tx'[w].step = "open.insert"
                    /\ MayRing(tx[w].claim, tx[w].now) /\ opened[tx[w].claim] < MaxProofs
         /\ DeliverFailed(w) => tx'[w].step = "abandon"
         /\ DeliverAccepted(w) =>
              /\ tx[w].step = "deliver" /\ tx'[w].step = "record"
              /\ tx'[w].claim = tx[w].claim /\ tx'[w].num = tx[w].num
         /\ OpenCommit(w) => tx[w].step = "open.insert" /\ tx'[w].step = "deliver"
         /\ VerifyRight(w) =>
              /\ tx[w].step = "verify.lock" /\ tx'[w].claim = tx[w].claim
              /\ tx'[w].num \in PendingOf(tx[w].claim)
              /\ tx'[w].target = Rivals(tx[w].claim)
              /\ \/ tx'[w].step = "verify.supersede"
                 \/ tx'[w].step = "verify.activate" /\ tx'[w].target = {}
         /\ VerifySupersede(w) => /\ tx[w].step = "verify.supersede"
                                  /\ tx[w].target \subseteq WithStatus("ACTIVE")
                                  /\ tx'[w].step = "verify.notice"
                                  /\ tx'[w].claim = tx[w].claim /\ tx'[w].num = tx[w].num
                                  /\ tx'[w].target = tx[w].target
         /\ VerifyNotice(w) => /\ tx[w].step = "verify.notice"
                               /\ tx'[w].step = "verify.activate"
                               /\ tx'[w].claim = tx[w].claim /\ tx'[w].num = tx[w].num
                               /\ tx'[w].target = tx[w].target
<1> tx[w] \in Transaction /\ tx \in [Workers -> Transaction]
  BY DEF TypeOK
<1>1. DeclareLock(w) => /\ tx[w].step = "declare.person" /\ tx'[w].step = "declare.pending"
                        /\ tx'[w].claim = tx[w].claim
  BY DEF DeclareLock, Ready, Transaction
<1>2. DeclareReplace(w) =>
        /\ tx[w].step = "declare.pending" /\ tx'[w].step = "declare.insert"
        /\ tx'[w].claim = tx[w].claim
        /\ tx'[w].target = ClaimsOf(Person[tx[w].claim]) \cap WithStatus("PENDING")
  BY DEF DeclareReplace, Ready, Transaction
<1>3. OpenCheck(w) =>
        /\ tx[w].step = "open.lock" /\ tx'[w].claim = tx[w].claim
        /\ \/ tx'[w].step = "open.refuse"
           \/ /\ tx'[w].step = "open.insert"
              /\ MayRing(tx[w].claim, tx[w].now) /\ opened[tx[w].claim] < MaxProofs
  BY DEF OpenCheck, Ready, Transaction
<1>4. DeliverFailed(w) => tx'[w].step = "abandon"
  BY DEF DeliverFailed, Ready, Transaction
<1>5. DeliverAccepted(w) =>
        /\ tx[w].step = "deliver" /\ tx'[w].step = "record"
        /\ tx'[w].claim = tx[w].claim /\ tx'[w].num = tx[w].num
  BY DEF DeliverAccepted, Ready, Transaction
<1>6. OpenCommit(w) => tx[w].step = "open.insert" /\ tx'[w].step = "deliver"
  <2> SUFFICES ASSUME OpenCommit(w) PROVE tx[w].step = "open.insert" /\ tx'[w].step = "deliver"
    OBVIOUS
  <2>1. tx'[w] = [tx[w] EXCEPT !.step = "deliver", !.num = opened[tx[w].claim] + 1, !.now = 0]
    BY DEF OpenCommit
  <2> QED BY <2>1 DEF OpenCommit, Ready, Transaction
<1>7. VerifyRight(w) =>
        /\ tx[w].step = "verify.lock" /\ tx'[w].claim = tx[w].claim
        /\ tx'[w].num \in PendingOf(tx[w].claim)
        /\ tx'[w].target = Rivals(tx[w].claim)
        /\ \/ tx'[w].step = "verify.supersede"
           \/ tx'[w].step = "verify.activate" /\ tx'[w].target = {}
  <2> HAVE VerifyRight(w)
  <2> DEFINE c == tx[w].claim
             s == IF Rivals(c) = {} THEN "verify.activate" ELSE "verify.supersede"
  <2>1. PICK n \in PendingOf(c) :
            tx' = [tx EXCEPT ![w].num = n, ![w].now = 0, ![w].target = Rivals(c), ![w].step = s]
    BY DEF VerifyRight
  <2>2. tx'[w] = [tx[w] EXCEPT !.num = n, !.now = 0, !.target = Rivals(c), !.step = s]
    BY <2>1
  <2>3. tx'[w].num = n /\ tx'[w].target = Rivals(c) /\ tx'[w].step = s /\ tx'[w].claim = c
    BY <2>2 DEF Transaction
  <2> QED BY <2>3 DEF VerifyRight, Ready
<1>8. VerifySupersede(w) => /\ tx[w].step = "verify.supersede"
                            /\ tx[w].target \subseteq WithStatus("ACTIVE")
                            /\ tx'[w].step = "verify.notice"
                            /\ tx'[w].claim = tx[w].claim /\ tx'[w].num = tx[w].num
                            /\ tx'[w].target = tx[w].target
  BY DEF VerifySupersede, Ready, Transaction
<1>9. VerifyNotice(w) => /\ tx[w].step = "verify.notice"
                         /\ tx'[w].step = "verify.activate"
                         /\ tx'[w].claim = tx[w].claim /\ tx'[w].num = tx[w].num
                         /\ tx'[w].target = tx[w].target
  BY DEF VerifyNotice, Ready, Transaction
<1> QED
  BY <1>1, <1>2, <1>3, <1>4, <1>5, <1>6, <1>7, <1>8, <1>9

\* Only worker w changes hands in a step of worker w.
LEMMA OnlyOneMoves ==
  ASSUME TypeOK, NEW w \in Workers,
         Begins(w) \/ Ends(w) \/ Moves(w) \/ Settles(w) \/ DeclareCommit(w) \/ VerifyCommit(w)
  PROVE  \A v \in Workers \ {w} : tx'[v] = tx[v]
<1>1. CASE Begins(w)
  BY <1>1 DEF Begins, DeclareBegin, OpenBegin, VerifyBegin, Begin, TypeOK
<1>2. CASE Ends(w) \/ DeclareCommit(w) \/ VerifyCommit(w)
  BY <1>2, FinishTx DEF Ends, DeclareCommit, VerifyCommit
<1>3. CASE Moves(w)
  BY <1>3 DEF Moves, DeclareLock, DeclareReplace, OpenCheck, DeliverFailed, VerifyRight,
              VerifySupersede, VerifyNotice, TypeOK
<1>4. CASE Settles(w)
  <2>1. CASE OpenCommit(w) \/ DeliverAccepted(w)
    BY <2>1 DEF OpenCommit, DeliverAccepted, TypeOK
  <2> QED
    BY <1>4, <2>1, FinishTx DEF Settles, Record, Abandon, VerifyExpired, VerifyWrong
<1> QED
  BY <1>1, <1>2, <1>3, <1>4

\* A worker goes on only when nobody holds the claims it is about to lock.
LEMMA ReadyHasTheRows ==
  ASSUME NEW w \in Workers, NEW v \in Workers \ {w}
  PROVE  /\ Ready(w, "declare.pending") =>
              \A d \in ClaimsOf(Person[tx[w].claim]) \cap WithStatus("PENDING") : ~HoldsClaim(v, d)
         /\ Ready(w, "open.lock") \/ Ready(w, "verify.lock") => ~HoldsClaim(v, tx[w].claim)
         /\ Ready(w, "record") \/ Ready(w, "abandon") => ~HoldsProof(v, tx[w].claim)
         /\ Ready(w, "verify.supersede") => \A d \in tx[w].target : ~HoldsClaim(v, d)
<1>1. ASSUME NEW s, Ready(w, s) PROVE v \notin WaitsFor(w) /\ tx[w].step = s
  BY <1>1 DEF Ready
<1>2. CASE Ready(w, "declare.pending")
  BY <1>1, <1>2 DEF WaitsFor
<1>3. CASE Ready(w, "open.lock") \/ Ready(w, "verify.lock")
  BY <1>1, <1>3 DEF WaitsFor
<1>4. CASE Ready(w, "record") \/ Ready(w, "abandon")
  BY <1>1, <1>4 DEF WaitsFor
<1>5. CASE Ready(w, "verify.supersede")
  BY <1>1, <1>5 DEF WaitsFor
<1> QED
  BY <1>2, <1>3, <1>4, <1>5

\* A step of worker w locks no claim another transaction has locked.
LEMMA NewLocksAreFree ==
  ASSUME TypeOK, NEW w \in Workers,
         Begins(w) \/ Ends(w) \/ Moves(w) \/ Settles(w) \/ DeclareCommit(w) \/ VerifyCommit(w),
         NEW c \in Claims, HoldsClaim(w, c)'
  PROVE  HoldsClaim(w, c) \/ \A v \in Workers \ {w} : ~HoldsClaim(v, c)
<1> USE DEF HoldsClaim, VerifyHolds
<1>1. CASE Begins(w)
  <2>1. PICK d \in Claims, s \in {"declare.person", "open.lock", "verify.lock"}, t \in Nat :
            Begin(w, s, d, t)
    BY <1>1 DEF Begins, DeclareBegin, OpenBegin, VerifyBegin, TypeOK
  <2> QED BY <2>1, BeginTx DEF Steps
<1>2. CASE Finish(w)
  BY <1>2, FinishTx
<1>3. CASE OpenCommit(w) \/ DeliverAccepted(w) \/ DeliverFailed(w) \/ DeclareLock(w)
  <2>1. tx'[w].step \in {"deliver", "record", "abandon", "declare.pending"}
    BY <1>3, MoveTx
  <2> QED BY <2>1
<1>4. CASE DeclareReplace(w)
  BY <1>4, MoveTx, ReadyHasTheRows DEF DeclareReplace
<1>5. CASE OpenCheck(w)
  BY <1>5, MoveTx, ReadyHasTheRows DEF OpenCheck
<1>6. CASE VerifyRight(w)
  <2>1. \A v \in Workers \ {w} : ~HoldsClaim(v, tx[w].claim)
    BY <1>6, ReadyHasTheRows DEF VerifyRight
  <2>2. \/ tx'[w].step = "verify.supersede" /\ tx'[w].claim = tx[w].claim
        \/ tx'[w].step = "verify.activate" /\ tx'[w].claim = tx[w].claim /\ tx'[w].target = {}
    BY <1>6, MoveTx
  <2>3. c = tx[w].claim
    BY <2>2
  <2> QED BY <2>1, <2>3
<1>7. CASE VerifySupersede(w)
  BY <1>7, MoveTx, ReadyHasTheRows DEF VerifySupersede
<1>8. CASE VerifyNotice(w)
  BY <1>8, MoveTx
<1> QED
  BY <1>1, <1>2, <1>3, <1>4, <1>5, <1>6, <1>7, <1>8
     DEF Ends, Moves, Settles, DeclareCommit, VerifyCommit, Record, Abandon, VerifyExpired, VerifyWrong

\* A claim stays locked by one transaction at a time (LocksExclude).
LEMMA LocksExcludeStep == TypeOK /\ LocksExclude /\ [Next]_vars => LocksExclude'
<1> SUFFICES ASSUME TypeOK, LocksExclude, [Next]_vars PROVE LocksExclude'
  OBVIOUS
<1>1. CASE UNCHANGED tx
  BY <1>1 DEF LocksExclude, HoldsClaim
<1>2. ASSUME NEW w \in Workers,
             Begins(w) \/ Ends(w) \/ Moves(w) \/ Settles(w) \/ DeclareCommit(w) \/ VerifyCommit(w)
      PROVE  LocksExclude'
  <2> SUFFICES ASSUME NEW u \in Workers, NEW v \in Workers, NEW c \in Claims,
                      HoldsClaim(u, c)', HoldsClaim(v, c)', u # v
               PROVE  FALSE
    BY DEF LocksExclude
  <2>1. \A x \in Workers \ {w} : HoldsClaim(x, c)' <=> HoldsClaim(x, c)
    BY <1>2, OnlyOneMoves DEF HoldsClaim
  <2>2. HoldsClaim(w, c)' => HoldsClaim(w, c) \/ \A x \in Workers \ {w} : ~HoldsClaim(x, c)
    BY <1>2, NewLocksAreFree
  <2> QED BY <2>1, <2>2 DEF LocksExclude
<1> QED
  BY <1>1, <1>2, Kinds DEF vars, Tick, Rotate, Deactivate

\* A step of worker w starts the declaration of a claim only when nobody else declares it.
LEMMA NewDeclarationIsAlone ==
  ASSUME TypeOK, NEW w \in Workers,
         Begins(w) \/ Ends(w) \/ Moves(w) \/ Settles(w) \/ DeclareCommit(w) \/ VerifyCommit(w),
         tx'[w].step \in Declares
  PROVE  \/ tx[w].step \in Declares /\ tx'[w].claim = tx[w].claim
         \/ ~Declaring(tx'[w].claim)
<1> USE DEF Declares
<1>1. CASE Begins(w)
  <2>1. ASSUME NEW c \in Claims, OpenBegin(w, c) \/ VerifyBegin(w, c) PROVE FALSE
    <3>1. clock \in Nat /\ {"open.lock", "verify.lock"} \subseteq Steps
      BY DEF TypeOK, Steps
    <3> QED BY <2>1, <3>1, BeginTx DEF OpenBegin, VerifyBegin
  <2>2. ASSUME NEW c \in Claims, DeclareBegin(w, c) PROVE ~Declaring(tx'[w].claim)
    BY <2>2, BeginTx DEF DeclareBegin, Steps
  <2> QED BY <1>1, <2>1, <2>2 DEF Begins
<1>2. CASE Finish(w)
  BY <1>2, FinishTx
<1>3. CASE OpenCommit(w) \/ DeliverAccepted(w) \/ DeliverFailed(w) \/ OpenCheck(w)
           \/ VerifyRight(w) \/ VerifySupersede(w) \/ VerifyNotice(w)
  BY <1>3, MoveTx
<1>4. CASE DeclareLock(w) \/ DeclareReplace(w)
  BY <1>4, MoveTx
<1> QED
  BY <1>1, <1>2, <1>3, <1>4
     DEF Ends, Moves, Settles, DeclareCommit, VerifyCommit, Record, Abandon, VerifyExpired, VerifyWrong

\* A claim stays declared by one call at a time (DeclaresApart).
LEMMA DeclaresApartStep == TypeOK /\ DeclaresApart /\ [Next]_vars => DeclaresApart'
<1> SUFFICES ASSUME TypeOK, DeclaresApart, [Next]_vars PROVE DeclaresApart'
  OBVIOUS
<1>1. CASE UNCHANGED tx
  BY <1>1 DEF DeclaresApart
<1>2. ASSUME NEW w \in Workers,
             Begins(w) \/ Ends(w) \/ Moves(w) \/ Settles(w) \/ DeclareCommit(w) \/ VerifyCommit(w)
      PROVE  DeclaresApart'
  BY <1>2, OnlyOneMoves, NewDeclarationIsAlone DEF DeclaresApart, Declaring, Declares
<1> QED
  BY <1>1, <1>2, Kinds DEF vars, Tick, Rotate, Deactivate

-----------------------------------------------------------------------------
\* What each kind of step leaves alone.

LEMMA ClaimsChangeAtCommits ==
  ASSUME NEW w \in Workers, Begins(w) \/ Ends(w) \/ Moves(w) \/ Settles(w)
  PROVE  UNCHANGED <<claim, key, reference, outbox, account>>
<1>1. CASE Begins(w)
  BY <1>1 DEF Begins, DeclareBegin, OpenBegin, VerifyBegin, fingerprints
<1>2. CASE Ends(w)
  BY <1>2 DEF Ends, tables, fingerprints
<1>3. CASE Moves(w)
  BY <1>3 DEF Moves, DeclareLock, DeclareReplace, OpenCheck, DeliverFailed, VerifyRight,
              VerifySupersede, VerifyNotice, fingerprints
<1>4. CASE Settles(w)
  BY <1>4 DEF Settles, OpenCommit, DeliverAccepted, Record, Abandon, VerifyExpired, VerifyWrong,
              fingerprints
<1> QED
  BY <1>1, <1>2, <1>3, <1>4

LEMMA ProofsChangeAtSettlements ==
  ASSUME NEW w \in Workers, Begins(w) \/ Ends(w) \/ Moves(w) \/ DeclareCommit(w)
  PROVE  UNCHANGED <<proof, opened, accepted, account>>
<1>1. CASE Begins(w)
  BY <1>1 DEF Begins, DeclareBegin, OpenBegin, VerifyBegin
<1>2. CASE Ends(w)
  BY <1>2 DEF Ends, tables
<1>3. CASE Moves(w)
  BY <1>3 DEF Moves, DeclareLock, DeclareReplace, OpenCheck, DeliverFailed, VerifyRight,
              VerifySupersede, VerifyNotice
<1>4. CASE DeclareCommit(w)
  BY <1>4 DEF DeclareCommit
<1> QED
  BY <1>1, <1>2, <1>3, <1>4

-----------------------------------------------------------------------------
\* Holders.

\* A line keeps one holder, and the holders stay under the reference.
LEMMA HolderStep ==
  TypeOK /\ ActiveUnderReference /\ OneHolder /\ [Next]_vars => (ActiveUnderReference /\ OneHolder)'
<1> SUFFICES ASSUME TypeOK, ActiveUnderReference, OneHolder, [Next]_vars
             PROVE  (ActiveUnderReference /\ OneHolder)'
  OBVIOUS
<1> USE DEF ActiveUnderReference, OneHolder, WithStatus
<1>1. CASE UNCHANGED <<claim, key, reference>>
  BY <1>1
<1>2. CASE Rotate
  BY <1>2 DEF Rotate, Rehashed
<1>3. ASSUME NEW w \in Workers, DeclareCommit(w) PROVE (ActiveUnderReference /\ OneHolder)'
  <2>1. \A d \in Claims : claim'[d].status = "ACTIVE" =>
           d # tx[w].claim /\ claim[d].status = "ACTIVE" /\ key'[d] = key[d]
    BY <1>3 DEF DeclareCommit, Revoked, TypeOK
  <2>2. reference' = reference
    BY <1>3 DEF DeclareCommit
  <2> QED BY <2>1, <2>2
<1>4. ASSUME NEW w \in Workers, VerifyCommit(w) PROVE (ActiveUnderReference /\ OneHolder)'
  <2> DEFINE c == tx[w].claim
             T == tx[w].target
  <2>1. key[c] = reference /\ Rivals(c) \subseteq T
    BY <1>4 DEF VerifyCommit, ActivationAccepted
  <2>2. \A d \in Claims : claim'[d].status = "ACTIVE" =>
           d = c \/ (claim[d].status = "ACTIVE" /\ d \notin T)
    BY <1>4 DEF VerifyCommit, Revoked
  <2>3. key' = key /\ reference' = reference
    BY <1>4 DEF VerifyCommit, fingerprints
  <2>4. \A d \in Claims \ {c} : claim'[d].status = "ACTIVE" => Line[d] # Line[c]
    BY <2>1, <2>2 DEF Rivals, SameFingerprint, OnLine
  <2> QED BY <2>1, <2>2, <2>3, <2>4
<1> QED
  BY <1>1, <1>2, <1>3, <1>4, Kinds, ClaimsChangeAtCommits
     DEF vars, Tick, Deactivate, fingerprints

-----------------------------------------------------------------------------
\* Proofs.

\* What a settlement of claim c does to the proofs: nothing to those of the other claims; a
\* request closes a proof of c or counts an attempt, or opens one.
OthersKept(c) == \A d \in Claims \ {c}, m \in Nums : proof'[d][m] = proof[d][m]

Closes(c) ==
    \A m \in Nums :
        /\ proof'[c][m].status = "PENDING" =>
              /\ proof[c][m].status = "PENDING"
              /\ \/ proof'[c][m].attempts = proof[c][m].attempts
                 \/ proof'[c][m].attempts < MaxAttempts
        /\ \/ proof'[c][m].attempts = proof[c][m].attempts
           \/ /\ proof'[c][m].attempts = proof[c][m].attempts + 1
              /\ proof[c][m].status = "PENDING"
        /\ proof'[c][m].status = "SUCCEEDED" <=> proof[c][m].status = "SUCCEEDED"

Opens(c) ==
    \E n \in Nums :
        /\ \A m \in Nums \ {n} : proof'[c][m] = proof[c][m]
        /\ proof'[c][n].status = "PENDING" /\ proof'[c][n].attempts = 0

LEMMA SettledRows ==
  ASSUME TypeOK, ReadsStillTrue, NEW w \in Workers, Settles(w)
  PROVE  /\ OthersKept(tx[w].claim)
         /\ OpenCommit(w) => Opens(tx[w].claim)
         /\ ~OpenCommit(w) => Closes(tx[w].claim)
<1> DEFINE c == tx[w].claim
<1>0. c \in Claims /\ tx[w].num \in Nums /\ proof \in [Claims -> [Nums -> ProofRow]]
  BY RowTypes DEF TypeOK
<1> HIDE DEF c
<1>1. ASSUME NEW n \in Nums, NEW r \in ProofRow, proof' = [proof EXCEPT ![c][n] = r]
      PROVE  /\ proof'[c][n] = r
             /\ \A m \in Nums \ {n} : proof'[c][m] = proof[c][m]
             /\ \A d \in Claims \ {c}, m \in Nums : proof'[d][m] = proof[d][m]
  BY <1>0, <1>1
<1>2. CASE OpenCommit(w)
  <2> DEFINE n == opened[c] + 1
             r == [status |-> "PENDING", attempts |-> 0, created |-> tx[w].now,
                   expires |-> tx[w].now + CodeTtl, ref |-> FALSE]
  <2>1. n \in Nums
    <3>1. opened[c] < MaxProofs /\ opened[c] \in 0..MaxProofs
      BY <1>0, <1>2 DEF OpenCommit, Ready, ReadsStillTrue, StillTrue, TypeOK, c
    <3> QED BY <3>1 DEF Nums
  <2>2. r \in ProofRow
    BY RowTypes DEF ProofRow
  <2>3. proof' = [proof EXCEPT ![c][n] = r]
    BY <1>2 DEF OpenCommit, c
  <2>4. r.status = "PENDING" /\ r.attempts = 0
    OBVIOUS
  <2> HIDE DEF n, r
  <2>5. /\ proof'[c][n] = r
        /\ \A m \in Nums \ {n} : proof'[c][m] = proof[c][m]
        /\ \A d \in Claims \ {c}, m \in Nums : proof'[d][m] = proof[d][m]
    BY <1>1, <2>1, <2>2, <2>3
  <2> QED BY <1>2, <2>1, <2>4, <2>5 DEF c, OthersKept, Opens
<1>3. CASE DeliverAccepted(w)
  BY <1>3 DEF DeliverAccepted, OpenCommit, Ready, OthersKept, Closes
<1>4. ASSUME NEW n \in Nums, NEW r \in ProofRow, proof' = [proof EXCEPT ![c][n] = r],
             ~OpenCommit(w),
             r.status = "PENDING" => /\ proof[c][n].status = "PENDING"
                                     /\ \/ r.attempts = proof[c][n].attempts
                                        \/ r.attempts < MaxAttempts,
             \/ r.attempts = proof[c][n].attempts
             \/ r.attempts = proof[c][n].attempts + 1 /\ proof[c][n].status = "PENDING",
             r.status = "SUCCEEDED" <=> proof[c][n].status = "SUCCEEDED"
      PROVE  OthersKept(c) /\ Closes(c)
  BY <1>1, <1>4 DEF OthersKept, Closes
<1>5. CASE Record(w)
  <2> DEFINE n == tx[w].num
             r == [proof[c][n] EXCEPT !.ref = TRUE]
  <2>1. proof[c][n] \in ProofRow /\ n \in Nums
    BY <1>0, RowTypes
  <2>2. r \in ProofRow /\ r.status = proof[c][n].status /\ r.attempts = proof[c][n].attempts
    BY <2>1, ProofFields DEF ProofRow
  <2>3. proof' = [proof EXCEPT ![c][n] = r] /\ ~OpenCommit(w)
    BY <1>5 DEF Record, OpenCommit, Ready, c
  <2> HIDE DEF n, r
  <2> QED BY <1>4, <2>1, <2>2, <2>3 DEF c
<1>6. CASE Abandon(w)
  <2> DEFINE n == tx[w].num
             s == IF proof[c][n].status = "PENDING" THEN "FAILED" ELSE proof[c][n].status
             r == [proof[c][n] EXCEPT !.status = s]
  <2>1. proof[c][n] \in ProofRow /\ n \in Nums
    BY <1>0, RowTypes
  <2>2. r \in ProofRow /\ r.status = s /\ r.attempts = proof[c][n].attempts
    BY <2>1 DEF ProofRow
  <2>3. proof' = [proof EXCEPT ![c][n] = r] /\ ~OpenCommit(w)
    BY <1>6 DEF Abandon, OpenCommit, Ready, c
  <2>4. s # "PENDING" /\ (s = "SUCCEEDED" <=> proof[c][n].status = "SUCCEEDED")
    OBVIOUS
  <2> HIDE DEF n, r, s
  <2> QED BY <1>4, <2>1, <2>2, <2>3, <2>4 DEF c
<1>7. CASE VerifyExpired(w)
  <2>1. PICK n \in PendingOf(c) : proof' = [proof EXCEPT ![c][n].status = "EXPIRED"]
    BY <1>7 DEF VerifyExpired, c
  <2> DEFINE r == [proof[c][n] EXCEPT !.status = "EXPIRED"]
  <2>2. proof[c][n] \in ProofRow /\ n \in Nums /\ proof[c][n].status = "PENDING"
    BY <1>0, RowTypes DEF PendingOf
  <2>3. r \in ProofRow /\ r.status = "EXPIRED" /\ r.attempts = proof[c][n].attempts
    BY <2>2 DEF ProofRow
  <2>4. proof' = [proof EXCEPT ![c][n] = r] /\ ~OpenCommit(w)
    BY <1>7, <2>1 DEF VerifyExpired, OpenCommit, Ready
  <2> HIDE DEF r
  <2> QED BY <1>4, <2>2, <2>3, <2>4 DEF c
<1>8. CASE VerifyWrong(w)
  <2>1. PICK n \in PendingOf(c) :
          proof' = [proof EXCEPT ![c][n].attempts = @ + 1,
                                 ![c][n].status = IF Exhausted(c, n) THEN "FAILED" ELSE "PENDING"]
    BY <1>8 DEF VerifyWrong, c
  <2> DEFINE s == IF Exhausted(c, n) THEN "FAILED" ELSE "PENDING"
             r == [proof[c][n] EXCEPT !.attempts = proof[c][n].attempts + 1, !.status = s]
  <2>2. proof[c][n] \in ProofRow /\ n \in Nums /\ proof[c][n].status = "PENDING"
    BY <1>0, RowTypes DEF PendingOf
  <2>3. proof[c][n].attempts \in Nat
    BY <2>2 DEF ProofRow
  <2>4. s \in {"FAILED", "PENDING"} /\ (s = "PENDING" => proof[c][n].attempts + 1 < MaxAttempts)
    BY <2>3 DEF Exhausted
  <2>5. proof' = [proof EXCEPT ![c][n] = r]
    BY <2>1
  <2>7. ~OpenCommit(w)
    BY <1>8 DEF VerifyWrong, OpenCommit, Ready
  <2> HIDE DEF s
  <2>6. r \in ProofRow /\ r.status = s /\ r.attempts = proof[c][n].attempts + 1
    <3>1. r \in ProofRow
      BY <2>2, <2>4, ProofFields
    <3> QED BY <2>2, <3>1 DEF ProofRow
  <2> HIDE DEF r
  <2> QED BY <1>4, <2>2, <2>4, <2>5, <2>6, <2>7 DEF c
<1> QED
  BY <1>2, <1>3, <1>5, <1>6, <1>7, <1>8 DEF Settles

\* What the COMMIT of a proven claim finds and leaves.
LEMMA ProvenRows ==
  ASSUME TypeOK, ReadsStillTrue, ProofInProgress, NEW w \in Workers, VerifyCommit(w)
  PROVE  LET c == tx[w].claim
             n == tx[w].num
             T == tx[w].target
         IN  /\ c \in Claims /\ n \in PendingOf(c)
             /\ claim[c].status = "PENDING"
             /\ T \subseteq WithStatus("ACTIVE") /\ T \subseteq OnLine(Line[c]) \ {c}
             /\ OthersKept(c)
             /\ \A m \in Nums \ {n} : proof'[c][m] = proof[c][m]
             /\ proof'[c][n].status = "SUCCEEDED"
             /\ proof'[c][n].attempts = proof[c][n].attempts + 1
             /\ claim'[c] = [status |-> "ACTIVE", reason |-> "-"]
             /\ \A d \in T : claim'[d] = Revoked("SUPERSEDED")
             /\ \A d \in Claims \ ({c} \cup T) : claim'[d] = claim[d]
             /\ outbox' = outbox \cup T
<1> DEFINE c == tx[w].claim
           n == tx[w].num
           T == tx[w].target
           r == [proof[c][n] EXCEPT !.attempts = proof[c][n].attempts + 1, !.status = "SUCCEEDED"]
<1>1. tx[w].step = "verify.activate"
  BY DEF VerifyCommit, Ready
<1>2. /\ c \in Claims /\ n \in PendingOf(c)
      /\ T \subseteq WithStatus("ACTIVE") /\ T \subseteq OnLine(Line[c]) \ {c}
  BY <1>1, RowTypes DEF ReadsStillTrue, StillTrue, VerifyHolds
<1>3. claim[c].status = "PENDING"
  BY <1>2 DEF ProofInProgress, InProgress, VerifyCommit, ActivationAccepted
<1>4. proof' = [proof EXCEPT ![c][n] = r]
  BY DEF VerifyCommit
<1>5. proof[c][n] \in ProofRow /\ n \in Nums
  BY <1>2, RowTypes DEF PendingOf
<1>6. r.status = "SUCCEEDED" /\ r.attempts = proof[c][n].attempts + 1
  BY <1>5 DEF ProofRow
<1>7. /\ OthersKept(c)
      /\ \A m \in Nums \ {n} : proof'[c][m] = proof[c][m]
      /\ proof'[c][n] = r
  <2> HIDE DEF r, n, c
  <2> QED BY <1>2, <1>4, <1>5 DEF TypeOK, OthersKept
<1>8. /\ claim'[c] = [status |-> "ACTIVE", reason |-> "-"]
      /\ \A d \in T : claim'[d] = Revoked("SUPERSEDED")
      /\ \A d \in Claims \ ({c} \cup T) : claim'[d] = claim[d]
      /\ outbox' = outbox \cup T
  BY <1>2 DEF VerifyCommit, Notified, OnLine
<1> QED
  BY <1>2, <1>3, <1>6, <1>7, <1>8

\* What the COMMIT of a declaration finds and leaves.
LEMMA DeclaredRows ==
  ASSUME TypeOK, ReadsStillTrue, NEW w \in Workers, DeclareCommit(w)
  PROVE  LET c == tx[w].claim
             T == tx[w].target
         IN  /\ c \in Claims /\ tx[w].step = "declare.insert"
             /\ claim[c].status = "ABSENT" /\ account[Person[c]] = "ACTIVE"
             /\ T \subseteq WithStatus("PENDING")
             /\ claim'[c] = [status |-> "PENDING", reason |-> "-"]
             /\ \A d \in T : claim'[d] = Revoked("REPLACED")
             /\ \A d \in Claims \ ({c} \cup T) : claim'[d] = claim[d]
             /\ outbox' = outbox
<1>1. tx[w].step = "declare.insert" /\ tx[w].claim \in Claims
  BY RowTypes DEF DeclareCommit, Ready
<1>2. /\ claim[tx[w].claim].status = "ABSENT" /\ account[Person[tx[w].claim]] = "ACTIVE"
      /\ tx[w].target \subseteq WithStatus("PENDING")
  BY <1>1 DEF ReadsStillTrue, StillTrue, Declares
<1> QED
  BY <1>1, <1>2 DEF DeclareCommit, WithStatus

\* One proof in progress per claim, with an attempt left (ProofInProgress).
LEMMA ProofInProgressStep ==
  TypeOK /\ ReadsStillTrue /\ ProofInProgress /\ [Next]_vars => ProofInProgress'
<1> SUFFICES ASSUME TypeOK, ReadsStillTrue, ProofInProgress, [Next]_vars, NEW d \in Claims
             PROVE  InProgress(d)'
  BY DEF ProofInProgress
<1>0. /\ InProgress(d) /\ claim[d] \in ClaimRow
      /\ \A m \in Nums : proof[d][m].attempts \in Nat
  BY RowTypes DEF ProofInProgress, ProofRow
<1> USE DEF InProgress, PendingOf
<1>1. ASSUME UNCHANGED <<proof, claim>> PROVE InProgress(d)'
  BY <1>0, <1>1
<1>2. ASSUME NEW w \in Workers, Settles(w) PROVE InProgress(d)'
  <2> DEFINE c == tx[w].claim
  <2>1. claim' = claim /\ OthersKept(c)
    BY <1>2, ClaimsChangeAtCommits, SettledRows
  <2>2. CASE d # c
    BY <1>0, <2>1, <2>2 DEF OthersKept
  <2>3. CASE d = c /\ ~OpenCommit(w)
    <3>1. Closes(d)
      BY <1>2, <2>3, SettledRows
    <3>2. PendingOf(d)' \subseteq PendingOf(d)
      BY <3>1 DEF Closes
    <3>3. \A m \in Nums : proof'[d][m].attempts <= MaxAttempts
      BY <1>0, <3>1 DEF Closes
    <3>4. \A m \in PendingOf(d)' : proof'[d][m].attempts < MaxAttempts
      BY <1>0, <3>1 DEF Closes
    <3> QED BY <1>0, <2>1, <3>2, <3>3, <3>4
  <2>4. CASE d = c /\ OpenCommit(w)
    <3>1. claim[d].status = "PENDING" /\ PendingOf(d) = {}
      BY <2>4 DEF OpenCommit, Ready, ReadsStillTrue, StillTrue
    <3>2. Opens(d)
      BY <1>2, <2>4, SettledRows
    <3> QED BY <1>0, <2>1, <3>1, <3>2 DEF Opens
  <2> QED BY <2>2, <2>3, <2>4
<1>3. ASSUME NEW w \in Workers, DeclareCommit(w) PROVE InProgress(d)'
  <2>1. proof' = proof
    BY <1>3 DEF DeclareCommit
  <2>2. claim'[d].status \in {claim[d].status, "PENDING", "REVOKED"}
    BY <1>3, DeclaredRows DEF Revoked
  <2> QED BY <1>0, <2>1, <2>2
<1>4. ASSUME NEW w \in Workers, VerifyCommit(w) PROVE InProgress(d)'
  <2> DEFINE c == tx[w].claim
             n == tx[w].num
  <2>1. CASE d = c
    <3>1. /\ n \in PendingOf(d)
          /\ \A m \in Nums \ {n} : proof'[d][m] = proof[d][m]
          /\ proof'[d][n].status = "SUCCEEDED"
          /\ proof'[d][n].attempts = proof[d][n].attempts + 1
      BY <1>4, <2>1, ProvenRows
    <3>2. PendingOf(d)' = {}
      BY <1>0, <3>1
    <3>3. \A m \in Nums : proof'[d][m].attempts <= MaxAttempts
      BY <1>0, <3>1
    <3> QED BY <3>2, <3>3
  <2>2. CASE d # c
    <3>1. OthersKept(c) /\ claim'[d].status \in {claim[d].status, "REVOKED"}
      BY <1>4, <2>2, ProvenRows DEF Revoked
    <3> QED BY <1>0, <2>2, <3>1 DEF OthersKept
  <2> QED BY <2>1, <2>2
<1> QED
  BY <1>1, <1>2, <1>3, <1>4, Kinds, ClaimsChangeAtCommits, ProofsChangeAtSettlements
     DEF vars, Tick, Rotate, Deactivate

\* Claims, proofs and events go on telling one story (Story).
LEMMA StoryStep ==
  TypeOK /\ ReadsStillTrue /\ ProofInProgress /\ Story /\ [Next]_vars => Story'
<1> SUFFICES ASSUME TypeOK, ReadsStillTrue, ProofInProgress, Story, [Next]_vars PROVE Story'
  OBVIOUS
<1> USE DEF Story, StoryOf, Successes
<1>1. ASSUME UNCHANGED <<proof, claim, outbox>> PROVE Story'
  BY <1>1
<1>2. ASSUME NEW w \in Workers, Settles(w) PROVE Story'
  <2> DEFINE c == tx[w].claim
  <2>1. claim' = claim /\ outbox' = outbox /\ OthersKept(c) /\ c \in Claims
    BY <1>2, ClaimsChangeAtCommits, SettledRows, RowTypes
  <2>2. CASE ~OpenCommit(w)
    <3>1. Closes(c)
      BY <1>2, <2>2, SettledRows
    <3>2. \A d \in Claims : Successes(d)' = Successes(d)
      BY <2>1, <3>1 DEF OthersKept, Closes
    <3> QED BY <2>1, <3>2
  <2>3. CASE OpenCommit(w)
    <3>1. claim[c].status = "PENDING"
      BY <2>3 DEF OpenCommit, Ready, ReadsStillTrue, StillTrue
    <3>2. Successes(c) = {}
      BY <2>1, <3>1
    <3>3. Opens(c)
      BY <1>2, <2>3, SettledRows
    <3>4. \A d \in Claims : Successes(d)' = Successes(d)
      BY <2>1, <3>2, <3>3 DEF OthersKept, Opens
    <3> QED BY <2>1, <3>4
  <2> QED BY <2>2, <2>3
<1>3. ASSUME NEW w \in Workers, DeclareCommit(w) PROVE Story'
  <2> DEFINE c == tx[w].claim
             T == tx[w].target
  <2>1. proof' = proof /\ outbox' = outbox
    BY <1>3 DEF DeclareCommit
  <2>2. ASSUME NEW d \in Claims PROVE StoryOf(d)' /\ (d \in outbox <=> claim'[d].reason = "SUPERSEDED")
    <3>1. CASE d = c \/ d \in T
      <4>1. claim[d].status \in {"ABSENT", "PENDING"}
        BY <1>3, <3>1, DeclaredRows DEF WithStatus
      <4>2. Successes(d) = {} /\ d \notin outbox
        BY <4>1
      <4>3. claim'[d].status # "ACTIVE" /\ claim'[d].reason # "SUPERSEDED"
        BY <1>3, <3>1, DeclaredRows DEF Revoked
      <4> QED BY <2>1, <4>2, <4>3
    <3>2. CASE d # c /\ d \notin T
      BY <1>3, <2>1, <3>2, DeclaredRows
    <3> QED BY <3>1, <3>2
  <2> QED BY <2>1, <2>2
<1>4. ASSUME NEW w \in Workers, VerifyCommit(w) PROVE Story'
  <2> DEFINE c == tx[w].claim
             n == tx[w].num
             T == tx[w].target
  <2>0. OthersKept(c) /\ T \subseteq OnLine(Line[c]) \ {c} /\ outbox' = outbox \cup T
    BY <1>4, ProvenRows
  <2>2. ASSUME NEW d \in Claims
        PROVE  StoryOf(d)' /\ (d \in outbox' <=> claim'[d].reason = "SUPERSEDED")
    <3>1. CASE d = c
      <4>1. /\ claim[d].status = "PENDING" /\ n \in Nums /\ d \notin T
            /\ \A m \in Nums \ {n} : proof'[d][m] = proof[d][m]
            /\ proof'[d][n].status = "SUCCEEDED"
            /\ claim'[d] = [status |-> "ACTIVE", reason |-> "-"]
        BY <1>4, <3>1, <2>0, ProvenRows DEF PendingOf
      <4>2. Successes(d) = {} /\ d \notin outbox
        BY <4>1
      <4>3. Successes(d)' = {n}
        BY <4>1, <4>2
      <4> QED BY <2>0, <4>1, <4>2, <4>3
    <3>2. CASE d \in T
      <4>1. claim[d].status = "ACTIVE" /\ claim'[d] = Revoked("SUPERSEDED") /\ d # c
        BY <1>4, <3>2, <2>0, ProvenRows DEF WithStatus
      <4>2. Successes(d)' = Successes(d) /\ Successes(d) # {}
        BY <2>0, <4>1 DEF OthersKept
      <4> QED BY <2>0, <3>2, <4>1, <4>2 DEF Revoked
    <3>3. CASE d # c /\ d \notin T
      <4>1. claim'[d] = claim[d] /\ Successes(d)' = Successes(d)
        BY <1>4, <2>0, <3>3, ProvenRows DEF OthersKept
      <4> QED BY <2>0, <3>3, <4>1
    <3> QED BY <3>1, <3>2, <3>3
  <2>3. outbox' \subseteq Claims
    BY <2>0 DEF OnLine
  <2> QED BY <2>2, <2>3
<1> QED
  BY <1>1, <1>2, <1>3, <1>4, Kinds, ClaimsChangeAtCommits, ProofsChangeAtSettlements
     DEF vars, Tick, Rotate, Deactivate

-----------------------------------------------------------------------------
\* What the transactions have read.

\* A worker that moves keeps or starts with reads that are true.
LEMMA OwnReads ==
  ASSUME TypeOK, ReadsStillTrue, NEW w \in Workers,
         Begins(w) \/ Ends(w) \/ Moves(w) \/ Settles(w) \/ DeclareCommit(w) \/ VerifyCommit(w)
  PROVE  StillTrue(w)'
<1> USE DEF StillTrue, VerifyHolds, Declares
<1>0. StillTrue(w)
  BY DEF ReadsStillTrue
<1>1. CASE Begins(w)
  <2>1. ASSUME NEW c \in Claims, OpenBegin(w, c) \/ VerifyBegin(w, c) PROVE StillTrue(w)'
    <3>1. clock \in Nat /\ {"open.lock", "verify.lock"} \subseteq Steps
      BY DEF TypeOK, Steps
    <3> QED BY <2>1, <3>1, BeginTx DEF OpenBegin, VerifyBegin
  <2>2. ASSUME NEW c \in Claims, DeclareBegin(w, c) PROVE StillTrue(w)'
    <3>1. tx'[w].step = "declare.person" /\ tx'[w].claim = c
      BY <2>2, BeginTx DEF DeclareBegin, Steps
    <3>2. claim'[c].status = "ABSENT" /\ account'[Person[c]] = "ACTIVE"
      BY <2>2 DEF DeclareBegin
    <3> QED BY <3>1, <3>2
  <2> QED BY <1>1, <2>1, <2>2 DEF Begins
<1>2. CASE Finish(w)
  BY <1>2, FinishTx
<1>3. CASE Moves(w)
  <2>1. UNCHANGED <<account, claim, proof, opened, accepted>>
    BY <1>3, ClaimsChangeAtCommits, ProofsChangeAtSettlements
  <2>2. CASE DeclareLock(w)
    BY <1>0, <2>1, <2>2, MoveTx
  <2>3. CASE DeclareReplace(w)
    BY <1>0, <2>1, <2>3, MoveTx DEF WithStatus
  <2>4. CASE OpenCheck(w)
    BY <2>1, <2>4, MoveTx DEF MayRing, PendingOf
  <2>5. CASE DeliverFailed(w)
    BY <2>5, MoveTx
  <2>6. CASE VerifyRight(w)
    <3>1. Rivals(tx[w].claim) \subseteq OnLine(Line[tx[w].claim]) \ {tx[w].claim}
      BY DEF Rivals, SameFingerprint
    <3> QED BY <2>1, <2>6, <3>1, MoveTx DEF PendingOf
  <2>7. CASE VerifySupersede(w)
    BY <1>0, <2>1, <2>7, MoveTx DEF PendingOf, WithStatus
  <2>8. CASE VerifyNotice(w)
    BY <1>0, <2>1, <2>8, MoveTx DEF PendingOf, WithStatus
  <2> QED BY <1>3, <2>2, <2>3, <2>4, <2>5, <2>6, <2>7, <2>8 DEF Moves
<1>4. CASE OpenCommit(w)
  BY <1>4, MoveTx
<1>5. CASE DeliverAccepted(w)
  <2>1. accepted' = accepted \cup {<<tx[w].claim, tx[w].num>>}
    BY <1>5 DEF DeliverAccepted
  <2> QED BY <1>5, <2>1, MoveTx
<1> QED
  BY <1>1, <1>2, <1>3, <1>4, <1>5
     DEF Ends, Settles, DeclareCommit, VerifyCommit, Record, Abandon, VerifyExpired, VerifyWrong

\* A settlement reaches no proof another transaction verifies.
LEMMA SettlesApart ==
  ASSUME TypeOK, LocksExclude, NEW w \in Workers, Settles(w), NEW v \in Workers \ {w}
  PROVE  /\ tx[v].step \in VerifyHolds => proof' = proof \/ tx[v].claim # tx[w].claim
         /\ tx[v].step = "open.insert" /\ tx[v].claim = tx[w].claim => ~OpenCommit(w)
<1> USE DEF HoldsClaim
<1>0. tx[v].claim \in Claims
  BY RowTypes
<1>1. CASE OpenCommit(w)
  BY <1>0, <1>1 DEF OpenCommit, Ready, LocksExclude, VerifyHolds
<1>2. CASE DeliverAccepted(w)
  BY <1>2 DEF DeliverAccepted, OpenCommit, Ready
<1>3. CASE Record(w) \/ Abandon(w)
  BY <1>3, ReadyHasTheRows DEF Record, Abandon, HoldsProof, OpenCommit, Ready
<1>4. CASE VerifyExpired(w) \/ VerifyWrong(w)
  BY <1>4, ReadyHasTheRows DEF VerifyExpired, VerifyWrong, OpenCommit, Ready
<1> QED
  BY <1>1, <1>2, <1>3, <1>4 DEF Settles

\* A step of another worker leaves true what a worker has read.
LEMMA OthersReads ==
  ASSUME TypeOK, LocksExclude, DeclaresApart, ReadsStillTrue, ProofInProgress,
         NEW w \in Workers,
         Begins(w) \/ Ends(w) \/ Moves(w) \/ Settles(w) \/ DeclareCommit(w) \/ VerifyCommit(w),
         NEW v \in Workers \ {w}
  PROVE  StillTrue(v)'
<1> DEFINE c == tx[v].claim
<1>0. StillTrue(v) /\ tx'[v] = tx[v] /\ c \in Claims /\ tx[v].num \in Nums /\ tx[v].target \subseteq Claims
  BY OnlyOneMoves, RowTypes DEF ReadsStillTrue
<1>1. CASE Begins(w) \/ Ends(w) \/ Moves(w)
  <2>1. UNCHANGED <<account, claim, proof, opened, accepted>>
    BY <1>1, ClaimsChangeAtCommits, ProofsChangeAtSettlements
  <2> QED BY <1>0, <2>1 DEF StillTrue, PendingOf, WithStatus
<1>2. CASE Settles(w)
  <2>1. claim' = claim /\ account' = account /\ accepted \subseteq accepted'
    BY <1>2, ClaimsChangeAtCommits DEF Settles, OpenCommit, DeliverAccepted, Record, Abandon,
       VerifyExpired, VerifyWrong
  <2>2. ASSUME tx[v].step = "open.insert" PROVE PendingOf(c)' = {} /\ opened'[c] < MaxProofs
    <3>1. PendingOf(c) = {} /\ opened[c] < MaxProofs
      BY <1>0, <2>2 DEF StillTrue
    <3>2. CASE c = tx[w].claim
      <4>1. ~OpenCommit(w)
        BY <1>2, <2>2, <3>2, SettlesApart
      <4>2. Closes(c)
        BY <1>2, <3>2, <4>1, SettledRows
      <4>3. opened' = opened
        BY <1>2, <4>1 DEF Settles, DeliverAccepted, Record, Abandon, VerifyExpired, VerifyWrong
      <4> QED BY <1>0, <3>1, <4>2, <4>3 DEF Closes, PendingOf
    <3>3. CASE c # tx[w].claim
      <4>1. OthersKept(tx[w].claim)
        BY <1>2, SettledRows
      <4>2. opened'[c] = opened[c]
        BY <1>0, <1>2, <3>3 DEF Settles, OpenCommit, DeliverAccepted, Record, Abandon,
           VerifyExpired, VerifyWrong, TypeOK
      <4> QED BY <1>0, <3>1, <3>3, <4>1, <4>2 DEF OthersKept, PendingOf
    <3> QED BY <3>2, <3>3
  <2>3. ASSUME tx[v].step \in VerifyHolds PROVE tx[v].num \in PendingOf(c)'
    <3>1. tx[v].num \in PendingOf(c)
      BY <1>0, <2>3 DEF StillTrue
    <3>2. proof' = proof \/ (OthersKept(tx[w].claim) /\ c # tx[w].claim)
      BY <1>2, <2>3, SettlesApart, SettledRows
    <3> QED BY <1>0, <3>1, <3>2 DEF OthersKept, PendingOf
  <2> QED BY <1>0, <2>1, <2>2, <2>3 DEF StillTrue, WithStatus
<1>3. CASE DeclareCommit(w)
  <2> DEFINE e == tx[w].claim
             T == tx[w].target
  <2>1. UNCHANGED <<account, proof, opened, accepted>>
    BY <1>3 DEF DeclareCommit
  <2>2. /\ e \in Claims /\ tx[w].step = "declare.insert" /\ claim[e].status = "ABSENT"
        /\ T \subseteq WithStatus("PENDING")
        /\ \A d \in Claims \ ({e} \cup T) : claim'[d] = claim[d]
    BY <1>3, DeclaredRows
  <2>3. tx[v].step \in Declares => claim'[c].status = "ABSENT"
    <3> SUFFICES ASSUME tx[v].step \in Declares PROVE claim'[c].status = "ABSENT"
      OBVIOUS
    <3>1. c # e
      BY <2>2 DEF DeclaresApart, Declares
    <3>2. claim[c].status = "ABSENT"
      BY <1>0 DEF StillTrue
    <3>3. c \notin T
      BY <2>2, <3>2 DEF WithStatus
    <3> QED BY <1>0, <2>2, <3>1, <3>2, <3>3
  <2>4. ASSUME NEW d \in Claims, HoldsClaim(v, d), claim[d].status # "ABSENT"
        PROVE  claim'[d] = claim[d]
    BY <2>2, <2>4 DEF LocksExclude, HoldsClaim
  <2>5. tx[v].step = "declare.insert" => tx[v].target \subseteq WithStatus("PENDING")'
    BY <1>0, <2>4 DEF StillTrue, WithStatus, HoldsClaim
  <2>6. tx[v].step = "open.insert" => claim'[c].status = "PENDING"
    BY <1>0, <2>4 DEF StillTrue, HoldsClaim
  <2>7. tx[v].step \in {"verify.notice", "verify.activate"} =>
           tx[v].target \subseteq WithStatus("ACTIVE")'
    BY <1>0, <2>4 DEF StillTrue, WithStatus, HoldsClaim
  <2> QED BY <1>0, <2>1, <2>3, <2>5, <2>6, <2>7 DEF StillTrue, PendingOf
<1>4. CASE VerifyCommit(w)
  <2> DEFINE e == tx[w].claim
             T == tx[w].target
  <2>1. UNCHANGED <<account, opened, accepted>>
    BY <1>4 DEF VerifyCommit
  <2>2. /\ e \in Claims /\ tx[w].step = "verify.activate" /\ claim[e].status = "PENDING"
        /\ T \subseteq WithStatus("ACTIVE") /\ OthersKept(e)
        /\ \A d \in Claims \ ({e} \cup T) : claim'[d] = claim[d]
    BY <1>4, ProvenRows DEF VerifyCommit, Ready
  <2>3. ASSUME NEW d \in Claims, claim[d].status = "ABSENT" PROVE claim'[d] = claim[d]
    BY <2>2, <2>3 DEF WithStatus
  <2>4. ASSUME NEW d \in Claims, HoldsClaim(v, d) PROVE claim'[d] = claim[d] /\ d # e
    BY <2>2, <2>4 DEF LocksExclude, HoldsClaim, VerifyHolds
  <2>5. tx[v].step \in Declares => claim'[c].status = "ABSENT"
    BY <1>0, <2>3 DEF StillTrue
  <2>6. tx[v].step = "declare.insert" => tx[v].target \subseteq WithStatus("PENDING")'
    BY <1>0, <2>4 DEF StillTrue, WithStatus, HoldsClaim
  <2>7. tx[v].step = "open.insert" => claim'[c].status = "PENDING" /\ PendingOf(c)' = {}
    BY <1>0, <2>2, <2>4 DEF StillTrue, HoldsClaim, OthersKept, PendingOf
  <2>8. tx[v].step \in VerifyHolds => tx[v].num \in PendingOf(c)'
    BY <1>0, <2>2, <2>4 DEF StillTrue, HoldsClaim, OthersKept, PendingOf
  <2>9. tx[v].step \in {"verify.notice", "verify.activate"} =>
           tx[v].target \subseteq WithStatus("ACTIVE")'
    BY <1>0, <2>4 DEF StillTrue, WithStatus, HoldsClaim
  <2> QED BY <1>0, <2>1, <2>5, <2>6, <2>7, <2>8, <2>9 DEF StillTrue
<1> QED
  BY <1>1, <1>2, <1>3, <1>4

\* What every transaction has read stays true (ReadsStillTrue).
LEMMA ReadsStep ==
  TypeOK /\ LocksExclude /\ DeclaresApart /\ ReadsStillTrue /\ ProofInProgress /\ [Next]_vars
    => ReadsStillTrue'
<1> SUFFICES ASSUME TypeOK, LocksExclude, DeclaresApart, ReadsStillTrue, ProofInProgress,
                    [Next]_vars, NEW v \in Workers
             PROVE  StillTrue(v)'
  BY DEF ReadsStillTrue
<1>0. StillTrue(v)
  BY DEF ReadsStillTrue
<1>1. CASE UNCHANGED vars \/ Tick
  BY <1>0, <1>1 DEF vars, Tick, StillTrue, PendingOf, WithStatus
<1>2. CASE Rotate
  BY <1>2 DEF Rotate, StillTrue, Declares, VerifyHolds
<1>3. ASSUME NEW p \in Persons, Deactivate(p) PROVE StillTrue(v)'
  <2>1. UNCHANGED <<claim, proof, opened, accepted, tx>>
    BY <1>3 DEF Deactivate
  <2>2. tx[v].step \in Declares => Person[tx[v].claim] # p
    BY <1>3 DEF Deactivate, SharesAccount, Declares
  <2>3. \A q \in Persons \ {p} : account'[q] = account[q]
    BY <1>3 DEF Deactivate, TypeOK
  <2>4. Person[tx[v].claim] \in Persons
    BY RowTypes
  <2> QED BY <1>0, <2>1, <2>2, <2>3, <2>4 DEF StillTrue, PendingOf, WithStatus
<1> QED
  BY <1>1, <1>2, <1>3, Kinds, OwnReads, OthersReads

-----------------------------------------------------------------------------
\* The theorems.

LEMMA InductiveInit == Init => Inductive
<1> SUFFICES ASSUME Init PROVE Inductive
  OBVIOUS
<1>1. TypeOK
  BY IdleTxType DEF Init, TypeOK, NoClaim, ClaimRow, NoProof, ProofRow
<1>2. \A c \in Claims : claim[c].status = "ABSENT" /\ claim[c].reason = "-"
  BY DEF Init, NoClaim
<1>3. \A c \in Claims, n \in Nums : proof[c][n].status = "ABSENT" /\ proof[c][n].attempts = 0
  BY DEF Init, NoProof
<1>4. \A w \in Workers : tx[w].step = "idle"
  BY IdleTxType DEF Init
<1>5. ActiveUnderReference /\ OneHolder
  BY <1>2 DEF ActiveUnderReference, OneHolder, WithStatus
<1>6. LocksExclude /\ DeclaresApart /\ ReadsStillTrue
  BY <1>4 DEF LocksExclude, HoldsClaim, VerifyHolds, DeclaresApart, Declares, ReadsStillTrue, StillTrue
<1>7. ProofInProgress
  BY <1>3 DEF ProofInProgress, InProgress, PendingOf
<1>8. Story
  BY <1>2, <1>3 DEF Story, StoryOf, Successes, Init
<1> QED
  BY <1>1, <1>5, <1>6, <1>7, <1>8 DEF Inductive

LEMMA InductiveStep == Inductive /\ [Next]_vars => Inductive'
  BY TypeOKStep, HolderStep, LocksExcludeStep, DeclaresApartStep, ReadsStep, ProofInProgressStep,
     StoryStep DEF Inductive

\* The inductive invariant of the phone service: locks exclude, what a transaction has read
\* stays true until its COMMIT, holders are alone on their line and under the reference.
THEOREM PhoneInductive == Spec => []Inductive
  BY InductiveInit, InductiveStep, PTL DEF Spec

\* Every variable of the phone service keeps its type.
THEOREM TypesHold == Spec => []TypeOK
<1>1. Inductive => TypeOK
  BY DEF Inductive
<1> QED
  BY <1>1, PhoneInductive, PTL

\* A line has at most one holder, through any number of rotations of the key
\* (uq_phone_claims_active_line, P0109, rotate-phone-hmac).
THEOREM HolderIsAlone == Spec => []OneHolder
<1>1. Inductive => OneHolder
  BY DEF Inductive
<1> QED
  BY <1>1, PhoneInductive, PTL

\* Two elements of a set being equal, it has one at most.
LEMMA AtMostOne ==
  ASSUME NEW S, \A m, n \in S : m = n
  PROVE  Cardinality(S) <= 1
<1>1. CASE S = {}
  BY <1>1, FS_EmptySet
<1>2. ASSUME NEW n \in S PROVE Cardinality(S) <= 1
  <2>1. S = {n}
    OBVIOUS
  <2>2. Cardinality({n}) = 1
    BY FS_Singleton
  <2> QED BY <2>1, <2>2
<1> QED
  BY <1>1, <1>2

\* A claim has one proof in progress, which has an attempt left
\* (uq_proofs_pending_per_claim, chk_proofs_attempts_bounded).
THEOREM ProofIsAlone == Spec => []OneProofAtATime
<1>1. Inductive => OneProofAtATime
  <2> SUFFICES ASSUME Inductive, NEW c \in Claims
               PROVE  /\ Cardinality(PendingOf(c)) <= 1
                      /\ \A n \in Nums : proof[c][n].attempts <= MaxAttempts
                      /\ \A n \in PendingOf(c) : proof[c][n].attempts < MaxAttempts
    BY DEF OneProofAtATime
  <2>1. InProgress(c)
    BY DEF Inductive, ProofInProgress
  <2> QED BY <2>1, AtMostOne DEF InProgress
<1> QED
  BY <1>1, PhoneInductive, PTL

\* A claim has held its line exactly if one of its proofs succeeded, and the outbox tells of
\* exactly the lines that were lost (verify_possession_code).
THEOREM StoryIsOne == Spec => []OneStory
<1>1. Inductive => OneStory
  <2> SUFFICES ASSUME Inductive PROVE OneStory
    OBVIOUS
  <2>1. Story
    BY DEF Inductive
  <2>2. ASSUME NEW c \in Claims
        PROVE  /\ Cardinality(Successes(c)) <= 1
               /\ Successes(c) # {} <=> claim[c].status = "ACTIVE" \/ claim[c].reason = "SUPERSEDED"
    BY <2>1, AtMostOne DEF Story, StoryOf
  <2> QED BY <2>1, <2>2 DEF OneStory, Story, Successes
<1> QED
  BY <1>1, PhoneInductive, PTL

\* A line changes hands in one step: to a claim being proven, and the loser is told
\* (the loop and the COMMIT of verify_possession_code).
THEOREM TakeoverInOneStep == Spec => TakeoverIsAtomic
<1> DEFINE Takeover ==
             \A c \in WithStatus("ACTIVE") : claim'[c] # claim[c] =>
               /\ claim'[c] = Revoked("SUPERSEDED")
               /\ c \in outbox'
               /\ \E d \in OnLine(Line[c]) \ {c} :
                     claim[d].status = "PENDING" /\ claim'[d].status = "ACTIVE"
<1>1. Inductive /\ [Next]_vars => Takeover
  <2> SUFFICES ASSUME Inductive, [Next]_vars, NEW c \in WithStatus("ACTIVE"), claim'[c] # claim[c]
               PROVE  /\ claim'[c] = Revoked("SUPERSEDED")
                      /\ c \in outbox'
                      /\ \E d \in OnLine(Line[c]) \ {c} :
                            claim[d].status = "PENDING" /\ claim'[d].status = "ACTIVE"
    OBVIOUS
  <2>0. c \in Claims /\ claim[c].status = "ACTIVE" /\ TypeOK /\ ReadsStillTrue /\ ProofInProgress
    BY DEF WithStatus, Inductive
  <2>1. ASSUME NEW w \in Workers, DeclareCommit(w) PROVE FALSE
    BY <2>0, <2>1, DeclaredRows DEF WithStatus
  <2>2. ASSUME NEW w \in Workers, VerifyCommit(w)
        PROVE  /\ claim'[c] = Revoked("SUPERSEDED")
               /\ c \in outbox'
               /\ \E d \in OnLine(Line[c]) \ {c} :
                     claim[d].status = "PENDING" /\ claim'[d].status = "ACTIVE"
    <3> DEFINE d == tx[w].claim
    <3>1. c \in tx[w].target
      BY <2>0, <2>2, ProvenRows
    <3>2. d \in OnLine(Line[c]) \ {c}
      BY <2>0, <2>2, <3>1, ProvenRows DEF OnLine
    <3> QED BY <2>0, <2>2, <3>1, <3>2, ProvenRows
  <2> QED
    BY <2>1, <2>2, Kinds, ClaimsChangeAtCommits DEF vars, Tick, Rotate, Deactivate
<1>2. Inductive /\ [Next]_vars => [Takeover]_vars
  BY <1>1
<1> QED
  BY <1>2, PhoneInductive, PTL DEF Spec, TakeoverIsAtomic

\* A deactivated account declares nothing (FOR SHARE on the account in declare_phone_self).
THEOREM DeactivatedDeclaresNothing == Spec => DeactivatedIsMute
<1> DEFINE Mute == \A c \in WithStatus("ABSENT") :
                      claim'[c].status # "ABSENT" => account[Person[c]] = "ACTIVE"
<1>1. Inductive /\ [Next]_vars => Mute
  <2> SUFFICES ASSUME Inductive, [Next]_vars, NEW c \in WithStatus("ABSENT"),
                      claim'[c].status # "ABSENT"
               PROVE  account[Person[c]] = "ACTIVE"
    OBVIOUS
  <2>0. c \in Claims /\ claim[c].status = "ABSENT" /\ TypeOK /\ ReadsStillTrue /\ ProofInProgress
    BY DEF WithStatus, Inductive
  <2>1. ASSUME NEW w \in Workers, DeclareCommit(w) PROVE account[Person[c]] = "ACTIVE"
    BY <2>0, <2>1, DeclaredRows DEF WithStatus
  <2>2. ASSUME NEW w \in Workers, VerifyCommit(w) PROVE FALSE
    BY <2>0, <2>2, ProvenRows DEF WithStatus
  <2> QED
    BY <2>0, <2>1, <2>2, Kinds, ClaimsChangeAtCommits DEF vars, Tick, Rotate, Deactivate
<1>2. Inductive /\ [Next]_vars => [Mute]_vars
  BY <1>1
<1> QED
  BY <1>2, PhoneInductive, PTL DEF Spec, DeactivatedIsMute

-----------------------------------------------------------------------------
\* The cap of a line.

\* What is counted is finite: some of the proofs opened, some of the workers.
LEMMA CountsAreFinite ==
  ASSUME IsFiniteSet(Rings), NEW l, NEW k, NEW t
  PROVE  /\ IsFiniteSet(LineRungs(l, k, t)) /\ Cardinality(LineRungs(l, k, t)) \in Nat
         /\ IsFiniteSet(AboutToRing(l, k, t)) /\ Cardinality(AboutToRing(l, k, t)) \in Nat
         /\ Cardinality(AboutToRing(l, k, t)) <= Cardinality(Workers)
         /\ Cardinality(Workers) \in Nat
<1>1. LineRungs(l, k, t) \in SUBSET Rings
  BY DEF LineRungs, Rings, OnLine
<1>2. AboutToRing(l, k, t) \in SUBSET Workers
  BY DEF AboutToRing
<1> QED
  BY <1>1, <1>2, PoolAssumption, FS_Subset, FS_CardinalityType

\* The bound of RingsCounted, for one line, one key and one time.
Capped(l, k, t) ==
    Cardinality(LineRungs(l, k, t)) + Cardinality(AboutToRing(l, k, t))
        <= LineCap + Cardinality(Workers) - 1

\* A step after which fewer proofs and fewer workers are counted keeps the bound.
LEMMA FewerCounted ==
  ASSUME IsFiniteSet(Rings), NEW l, NEW k, NEW t, Capped(l, k, t),
         NEW R \in SUBSET LineRungs(l, k, t), NEW A \in SUBSET AboutToRing(l, k, t)
  PROVE  Cardinality(R) + Cardinality(A) <= LineCap + Cardinality(Workers) - 1
<1>1. /\ Cardinality(R) <= Cardinality(LineRungs(l, k, t)) /\ Cardinality(R) \in Nat
      /\ Cardinality(A) <= Cardinality(AboutToRing(l, k, t)) /\ Cardinality(A) \in Nat
  BY CountsAreFinite, FS_Subset, FS_CardinalityType
<1> QED
  BY <1>1, CountsAreFinite DEF Capped

\* Nothing that is counted moves.
LEMMA StillCapped ==
  ASSUME IsFiniteSet(Rings), NEW l, NEW k, NEW t, Capped(l, k, t),
         UNCHANGED <<key, opened>>,
         \A c \in Claims, n \in Nums : proof'[c][n].created = proof[c][n].created,
         \A w \in Workers : tx'[w].step = "open.insert" => tx'[w] = tx[w]
  PROVE  Capped(l, k, t)'
<1>1. LineRungs(l, k, t)' \in SUBSET LineRungs(l, k, t)
  BY DEF LineRungs, OnLine
<1>2. AboutToRing(l, k, t)' \in SUBSET AboutToRing(l, k, t)
  BY DEF AboutToRing
<1> HIDE DEF LineRungs, AboutToRing
<1> QED
  BY <1>1, <1>2, FewerCounted DEF Capped

LEMMA ProvenProof ==
  ASSUME NEW w \in Workers, VerifyCommit(w)
  PROVE  LET c == tx[w].claim
             n == tx[w].num
         IN  proof' = [proof EXCEPT ![c][n] =
                         [proof[c][n] EXCEPT !.attempts = proof[c][n].attempts + 1,
                                             !.status = "SUCCEEDED"]]
BY DEF VerifyCommit

\* A step that updates one proof leaves the time it was opened.
LEMMA CreatedStays ==
  ASSUME TypeOK, NEW w \in Workers,
         Record(w) \/ Abandon(w) \/ VerifyExpired(w) \/ VerifyWrong(w) \/ VerifyCommit(w)
  PROVE  \A d \in Claims, m \in Nums : proof'[d][m].created = proof[d][m].created
<1> DEFINE c == tx[w].claim
<1>0. c \in Claims /\ tx[w].num \in Nums /\ proof \in [Claims -> [Nums -> ProofRow]]
  BY RowTypes DEF TypeOK
<1> HIDE DEF c
<1>1. ASSUME NEW n \in Nums, NEW r, proof' = [proof EXCEPT ![c][n] = r],
             r.created = proof[c][n].created
      PROVE  \A d \in Claims, m \in Nums : proof'[d][m].created = proof[d][m].created
  BY <1>0, <1>1
<1>2. ASSUME NEW n \in Nums
      PROVE  /\ [proof[c][n] EXCEPT !.ref = TRUE].created = proof[c][n].created
             /\ \A s : [proof[c][n] EXCEPT !.status = s].created = proof[c][n].created
             /\ \A s, k : [proof[c][n] EXCEPT !.attempts = k, !.status = s].created
                              = proof[c][n].created
  <2>1. proof[c][n] \in ProofRow
    BY <1>0, RowTypes
  <2> QED
    BY <2>1 DEF ProofRow
<1>3. CASE Record(w)
  <2> DEFINE n == tx[w].num
             r == [proof[c][n] EXCEPT !.ref = TRUE]
  <2>1. proof' = [proof EXCEPT ![c][n] = r]
    BY <1>3 DEF Record, c
  <2>2. r.created = proof[c][n].created
    BY <1>0, <1>2
  <2> HIDE DEF r
  <2> QED BY <1>0, <1>1, <2>1, <2>2
<1>4. CASE Abandon(w)
  <2> DEFINE n == tx[w].num
             s == IF proof[c][n].status = "PENDING" THEN "FAILED" ELSE proof[c][n].status
             r == [proof[c][n] EXCEPT !.status = s]
  <2>1. proof' = [proof EXCEPT ![c][n] = r]
    BY <1>4 DEF Abandon, c
  <2>2. r.created = proof[c][n].created
    BY <1>0, <1>2
  <2> HIDE DEF r, s
  <2> QED BY <1>0, <1>1, <2>1, <2>2
<1>5. CASE VerifyExpired(w)
  <2>1. PICK n \in PendingOf(c) : proof' = [proof EXCEPT ![c][n].status = "EXPIRED"]
    BY <1>5 DEF VerifyExpired, c
  <2> DEFINE r == [proof[c][n] EXCEPT !.status = "EXPIRED"]
  <2>2. n \in Nums
    BY DEF PendingOf
  <2>3. proof' = [proof EXCEPT ![c][n] = r]
    BY <2>1
  <2>4. r.created = proof[c][n].created
    BY <1>2, <2>2
  <2> HIDE DEF r
  <2> QED BY <1>1, <2>2, <2>3, <2>4
<1>6. CASE VerifyWrong(w)
  <2>1. PICK n \in PendingOf(c) :
          proof' = [proof EXCEPT ![c][n].attempts = @ + 1,
                                 ![c][n].status = IF Exhausted(c, n) THEN "FAILED" ELSE "PENDING"]
    BY <1>6 DEF VerifyWrong, c
  <2> DEFINE s == IF Exhausted(c, n) THEN "FAILED" ELSE "PENDING"
             r == [proof[c][n] EXCEPT !.attempts = proof[c][n].attempts + 1, !.status = s]
  <2>2. n \in Nums
    BY DEF PendingOf
  <2>3. proof' = [proof EXCEPT ![c][n] = r]
    BY <2>1
  <2> HIDE DEF s
  <2>4. r.created = proof[c][n].created
    BY <1>2, <2>2
  <2> HIDE DEF r
  <2> QED BY <1>1, <2>2, <2>3, <2>4
<1>7. CASE VerifyCommit(w)
  <2> DEFINE n == tx[w].num
             r == [proof[c][n] EXCEPT !.attempts = proof[c][n].attempts + 1,
                                      !.status = "SUCCEEDED"]
  <2>1. proof' = [proof EXCEPT ![c][n] = r]
    <3>1. proof' = [proof EXCEPT ![tx[w].claim][tx[w].num] =
                      [proof[tx[w].claim][tx[w].num] EXCEPT
                         !.attempts = proof[tx[w].claim][tx[w].num].attempts + 1,
                         !.status = "SUCCEEDED"]]
      BY <1>7, ProvenProof
    <3> QED
      BY <3>1 DEF c
  <2>2. r.created = proof[c][n].created
    BY <1>0, <1>2
  <2> HIDE DEF r
  <2> QED BY <1>0, <1>1, <2>1, <2>2
<1> QED
  BY <1>3, <1>4, <1>5, <1>6, <1>7

\* The steps that neither open a proof nor decide to.
LEMMA OtherSteps ==
  ASSUME TypeOK, ReadsStillTrue, ProofInProgress, NEW w \in Workers,
         \/ Begins(w) \/ Ends(w) \/ VerifyCommit(w)
         \/ Moves(w) /\ ~OpenCheck(w)
         \/ Settles(w) /\ ~OpenCommit(w)
  PROVE  /\ UNCHANGED <<key, reference, opened>>
         /\ \A c \in Claims, n \in Nums : proof'[c][n].created = proof[c][n].created
         /\ \A v \in Workers : tx'[v].step = "open.insert" => tx'[v] = tx[v]
<1>1. \A v \in Workers \ {w} : tx'[v] = tx[v]
  BY OnlyOneMoves
<1>2. tx[w] \in Transaction /\ tx[w].claim \in Claims /\ tx[w].num \in Nums
      /\ proof \in [Claims -> [Nums -> ProofRow]]
  BY RowTypes DEF TypeOK
<1>3. CASE Begins(w)
  <2>1. tx'[w].step # "open.insert"
    BY <1>3, BeginTx DEF Begins, DeclareBegin, OpenBegin, VerifyBegin, Steps, TypeOK
  <2> QED
    BY <1>1, <1>3, <2>1, ProofsChangeAtSettlements, ClaimsChangeAtCommits
<1>4. CASE Ends(w)
  <2>1. tx'[w].step # "open.insert"
    BY <1>4, FinishTx DEF Ends
  <2> QED
    BY <1>1, <1>4, <2>1, ProofsChangeAtSettlements, ClaimsChangeAtCommits
<1>5. CASE Moves(w) /\ ~OpenCheck(w)
  <2>1. tx'[w].step # "open.insert"
    BY <1>5, MoveTx DEF Moves
  <2> QED
    BY <1>1, <1>5, <2>1, ProofsChangeAtSettlements, ClaimsChangeAtCommits
<1>6. CASE DeliverAccepted(w)
  <2>1. tx'[w].step # "open.insert"
    BY <1>6, MoveTx
  <2> QED
    BY <1>1, <1>6, <2>1 DEF DeliverAccepted, fingerprints
<1>7. CASE Record(w) \/ Abandon(w) \/ VerifyExpired(w) \/ VerifyWrong(w) \/ VerifyCommit(w)
  <2>1. tx'[w].step # "open.insert"
    BY <1>7, FinishTx DEF Record, Abandon, VerifyExpired, VerifyWrong, VerifyCommit
  <2>2. UNCHANGED <<key, reference, opened>>
    BY <1>7 DEF Record, Abandon, VerifyExpired, VerifyWrong, VerifyCommit, fingerprints
  <2>4. \A c \in Claims, n \in Nums : proof'[c][n].created = proof[c][n].created
    BY <1>2, <1>7, CreatedStays
  <2> QED
    BY <1>1, <2>1, <2>2, <2>4
<1> QED
  BY <1>3, <1>4, <1>5, <1>6, <1>7 DEF Settles

\* A request that counts: what it saw includes all that rings at the times it will ring.
LEMMA OpenCheckCapped ==
  ASSUME TypeOK, RingsCounted, NEW w \in Workers, OpenCheck(w),
         NEW l \in Lines, NEW k \in 0..reference, NEW t \in 0..MaxTime
  PROVE  Capped(l, k, t)'
<1> DEFINE c == tx[w].claim
           R == LineRungs(l, k, t)
           A == AboutToRing(l, k, t)
<1>1. /\ IsFiniteSet(Rings) /\ Capped(l, k, t) /\ t \in Nat
      /\ c \in Claims /\ tx[w].now \in Nat
  <2>1. IsFiniteSet(Rings) /\ Capped(l, k, t)
    BY DEF RingsCounted, Capped
  <2> QED
    BY <2>1, RowTypes
<1>2. UNCHANGED <<key, reference, proof, opened>>
  BY DEF OpenCheck, fingerprints
<1>3. /\ \A v \in Workers \ {w} : tx'[v] = tx[v]
      /\ tx'[w].claim = tx[w].claim /\ tx'[w].now = tx[w].now
      /\ \/ tx'[w].step = "open.refuse"
         \/ tx'[w].step = "open.insert" /\ MayRing(c, tx[w].now)
      /\ tx[w].step = "open.lock"
  <2>1. tx[w] \in Transaction
    BY RowTypes
  <2>2. tx'[w].now = tx[w].now
    BY <2>1 DEF OpenCheck, TypeOK, Transaction
  <2> QED
    BY <2>2, MoveTx, OnlyOneMoves DEF Moves
<1>4. R' = R
  BY <1>2 DEF LineRungs, OnLine
<1>5. CASE A' \subseteq A
  <2> HIDE DEF R, A
  <2>1. R' \in SUBSET R /\ A' \in SUBSET A
    BY <1>4, <1>5
  <2> QED
    BY <1>1, <2>1, FewerCounted DEF Capped, R, A
<1>6. CASE ~(A' \subseteq A)
  <2>1. PICK v \in A' : v \notin A
    BY <1>6
  <2>2. v = w
    BY <1>2, <1>3, <2>1 DEF AboutToRing
  <2>3. /\ MayRing(c, tx[w].now) /\ Line[c] = l /\ key[c] = k
        /\ tx[w].now <= t /\ tx[w].now + CapWindow > t
    BY <1>2, <1>3, <2>1, <2>2 DEF AboutToRing
  <2>4. R \in SUBSET SentSince(c, tx[w].now)
    <3> SUFFICES ASSUME NEW p \in R PROVE p \in SentSince(c, tx[w].now)
      OBVIOUS
    <3>1. /\ p \in {d \in OnLine(l) : key[d] = k} \X Nums /\ p[2] <= opened[p[1]]
          /\ proof[p[1]][p[2]].created + CapWindow > t
      BY DEF LineRungs
    <3>2. p[1] \in Claims /\ p[2] \in Nums
      BY <3>1 DEF OnLine
    <3>3. proof[p[1]][p[2]].created \in Nat
      BY <3>2, RowTypes DEF ProofRow
    <3>4. proof[p[1]][p[2]].created + CapWindow > tx[w].now
      BY <1>1, <2>3, <3>1, <3>3
    <3> QED
      BY <2>3, <3>1, <3>4 DEF SentSince, SameFingerprint
  <2>5. SentSince(c, tx[w].now) \in SUBSET Rings
    BY DEF SentSince, SameFingerprint, OnLine, Rings
  <2>6. /\ Cardinality(R) <= Cardinality(SentSince(c, tx[w].now))
        /\ Cardinality(SentSince(c, tx[w].now)) \in Nat
        /\ Cardinality(SentSince(c, tx[w].now)) < LineCap
    <3> HIDE DEF R
    <3> QED
      BY <1>1, <2>3, <2>4, <2>5, FS_Subset, FS_CardinalityType DEF MayRing
  <2>7. Cardinality(A') <= Cardinality(Workers) /\ Cardinality(A') \in Nat
    <3>1. A' \in SUBSET Workers
      BY DEF AboutToRing
    <3> HIDE DEF A
    <3> QED
      BY <3>1, PoolAssumption, FS_Subset, FS_CardinalityType
  <2>8. Cardinality(R) \in Nat /\ Cardinality(Workers) \in Nat
    BY <1>1, CountsAreFinite
  <2>9. Cardinality(R') = Cardinality(R)
    BY <1>4
  <2> HIDE DEF R, A
  <2>10. Cardinality(R') + Cardinality(A') <= LineCap + Cardinality(Workers) - 1
    BY <2>6, <2>7, <2>8, <2>9
  <2> QED
    BY <2>10 DEF Capped, R, A
<1> QED
  BY <1>5, <1>6

\* A proof that is opened: its request gives up its place.
LEMMA OpenCommitRows ==
  ASSUME TypeOK, ReadsStillTrue, NEW w \in Workers, OpenCommit(w)
  PROVE  LET c == tx[w].claim
             n == opened[c] + 1
         IN  /\ c \in Claims /\ n \in Nums /\ opened[c] \in Nat
             /\ tx[w].step = "open.insert" /\ claim[c].status = "PENDING"
             /\ opened' = [opened EXCEPT ![c] = n]
             /\ proof'[c][n].created = tx[w].now
             /\ \A d \in Claims, m \in Nums : <<d, m>> # <<c, n>> =>
                   proof'[d][m].created = proof[d][m].created
             /\ UNCHANGED <<key, reference, claim>>
             /\ tx'[w].step = "deliver"
             /\ \A v \in Workers \ {w} : tx'[v] = tx[v]
<1> DEFINE c == tx[w].claim
           n == opened[c] + 1
           r == [status |-> "PENDING", attempts |-> 0, created |-> tx[w].now,
                 expires |-> tx[w].now + CodeTtl, ref |-> FALSE]
<1>1. /\ c \in Claims /\ tx[w].step = "open.insert" /\ tx'[w].step = "deliver"
      /\ \A v \in Workers \ {w} : tx'[v] = tx[v]
      /\ opened[c] \in 0..MaxProofs
  <2>1. c \in Claims
    BY RowTypes
  <2> QED
    BY <2>1, MoveTx, OnlyOneMoves DEF Settles, TypeOK
<1>2. claim[c].status = "PENDING" /\ opened[c] < MaxProofs
  BY <1>1 DEF ReadsStillTrue, StillTrue
<1>3. n \in Nums
  BY <1>1, <1>2 DEF Nums
<1>4. /\ opened' = [opened EXCEPT ![c] = n]
      /\ proof' = [proof EXCEPT ![c][n] = r]
      /\ UNCHANGED <<key, reference, claim>>
  BY DEF OpenCommit, fingerprints
<1>5. r.created = tx[w].now
  OBVIOUS
<1> HIDE DEF c, n, r
<1>6. /\ proof'[c][n].created = tx[w].now
      /\ \A d \in Claims, m \in Nums : <<d, m>> # <<c, n>> =>
            proof'[d][m].created = proof[d][m].created
  <2>1. proof \in [Claims -> [Nums -> ProofRow]]
    BY DEF TypeOK
  <2>2. proof'[c][n] = r
    BY <1>1, <1>3, <1>4, <2>1
  <2>3. \A d \in Claims, m \in Nums : d # c \/ m # n => proof'[d][m] = proof[d][m]
    BY <1>1, <1>3, <1>4, <2>1
  <2> QED
    BY <1>5, <2>2, <2>3
<1>7. opened[c] \in Nat
  BY <1>1
<1> QED
  BY <1>1, <1>2, <1>3, <1>4, <1>6, <1>7 DEF c, n

\* The new proof is the only new one, and nothing that was opened goes.
LEMMA OpenCommitRings ==
  ASSUME TypeOK, ReadsStillTrue, NEW w \in Workers, OpenCommit(w)
  PROVE  /\ <<tx[w].claim, opened[tx[w].claim] + 1>> \notin Rings
         /\ Rings' = Rings \cup {<<tx[w].claim, opened[tx[w].claim] + 1>>}
<1> DEFINE c == tx[w].claim
           n == opened[c] + 1
<1>1. /\ c \in Claims /\ n \in Nums /\ opened[c] \in Nat
      /\ opened' = [opened EXCEPT ![c] = n]
  BY OpenCommitRows
<1>2. opened \in [Claims -> 0..MaxProofs]
  BY DEF TypeOK
<1> HIDE DEF c
<1>3. <<c, n>> \notin Rings
  BY <1>1 DEF Rings
<1>4. \A d \in Claims, m \in Nums : m <= opened'[d] <=> m <= opened[d] \/ <<d, m>> = <<c, n>>
  <2> TAKE d \in Claims, m \in Nums
  <2>1. opened'[d] = IF d = c THEN n ELSE opened[d]
    BY <1>1, <1>2
  <2>2. m \in Nat /\ opened[d] \in Nat
    BY <1>2 DEF Nums
  <2>3. CASE d = c
    BY <1>1, <2>1, <2>2, <2>3
  <2>4. CASE d # c
    BY <2>1, <2>4
  <2> QED
    BY <2>3, <2>4
<1>5. Rings' = Rings \cup {<<c, n>>}
  <2>1. \A p \in Claims \X Nums : p \in Rings' <=> p \in Rings \/ p = <<c, n>>
    BY <1>4 DEF Rings
  <2>2. Rings \subseteq Claims \X Nums /\ Rings' \subseteq Claims \X Nums
        /\ <<c, n>> \in Claims \X Nums
    BY <1>1 DEF Rings
  <2> QED
    BY <2>1, <2>2
<1> QED
  BY <1>3, <1>5 DEF c

LEMMA OpenCommitCapped ==
  ASSUME TypeOK, ReadsStillTrue, RingsCounted, NEW w \in Workers, OpenCommit(w),
         NEW l \in Lines, NEW k \in 0..reference, NEW t \in 0..MaxTime
  PROVE  Capped(l, k, t)'
<1> DEFINE c == tx[w].claim
           n == opened[c] + 1
           R == LineRungs(l, k, t)
           A == AboutToRing(l, k, t)
           rings == /\ Line[c] = l /\ key[c] = k
                    /\ tx[w].now <= t /\ tx[w].now + CapWindow > t
<1>1. IsFiniteSet(Rings) /\ Capped(l, k, t)
  BY DEF RingsCounted, Capped
<1>2. /\ c \in Claims /\ n \in Nums /\ opened[c] \in Nat
      /\ tx[w].step = "open.insert" /\ tx'[w].step = "deliver"
      /\ proof'[c][n].created = tx[w].now
      /\ \A d \in Claims, m \in Nums : <<d, m>> # <<c, n>> =>
            proof'[d][m].created = proof[d][m].created
      /\ key' = key
      /\ \A v \in Workers \ {w} : tx'[v] = tx[v]
  BY OpenCommitRows
<1>3. <<c, n>> \notin Rings /\ Rings' = Rings \cup {<<c, n>>}
  BY OpenCommitRings
<1>4. R = {p \in Rings : /\ Line[p[1]] = l /\ key[p[1]] = k
                         /\ proof[p[1]][p[2]].created <= t
                         /\ proof[p[1]][p[2]].created + CapWindow > t}
  BY DEF LineRungs, Rings, OnLine
<1>5. R' = {p \in Rings' : /\ Line[p[1]] = l /\ key[p[1]] = k
                           /\ proof'[p[1]][p[2]].created <= t
                           /\ proof'[p[1]][p[2]].created + CapWindow > t}
  BY <1>2 DEF LineRungs, Rings, OnLine
<1>6. \A p \in Rings : p # <<c, n>> /\ p[1] \in Claims /\ p[2] \in Nums /\ p = <<p[1], p[2]>>
  BY <1>3 DEF Rings
<1> HIDE DEF c, n
<1>7. \A p \in Rings : p \in R' <=> p \in R
  BY <1>2, <1>3, <1>4, <1>5, <1>6
<1>8. <<c, n>> \in R' <=> rings
  BY <1>2, <1>3, <1>5
<1>9. A' = A \ {w} /\ (w \in A <=> rings)
  <2>1. w \in A <=> rings
    BY <1>2 DEF AboutToRing, c
  <2>2. \A v \in Workers : v \in A' <=> v \in A /\ v # w
    BY <1>2 DEF AboutToRing
  <2> QED
    BY <2>1, <2>2 DEF AboutToRing
<1>10. R \subseteq Rings /\ R' \subseteq Rings \cup {<<c, n>>}
  BY <1>3, <1>4, <1>5
<1>11. /\ IsFiniteSet(R) /\ Cardinality(R) \in Nat /\ <<c, n>> \notin R
       /\ IsFiniteSet(A) /\ Cardinality(A) \in Nat
       /\ Cardinality(R) + Cardinality(A) <= LineCap + Cardinality(Workers) - 1
       /\ Cardinality(Workers) \in Nat
  BY <1>1, <1>3, <1>10, CountsAreFinite DEF Capped
<1>12. Cardinality(R') + Cardinality(A') <= LineCap + Cardinality(Workers) - 1
  <2> HIDE DEF R, A, rings
  <2>1. CASE rings
    <3>1. R' = R \cup {<<c, n>>} /\ w \in A
      BY <1>7, <1>8, <1>9, <1>10, <2>1
    <3>2. Cardinality(R') = Cardinality(R) + 1
      BY <1>11, <3>1, FS_AddElement
    <3>3. Cardinality(A') = Cardinality(A) - 1
      BY <1>9, <1>11, <3>1, FS_RemoveElement
    <3> QED
      BY <1>11, <3>2, <3>3
  <2>2. CASE ~rings
    <3>1. R' = R /\ A' = A
      BY <1>7, <1>8, <1>9, <1>10, <2>2
    <3> QED
      BY <1>11, <3>1
  <2> QED
    BY <2>1, <2>2
<1> QED
  BY <1>12 DEF Capped, R, A

\* A rotation, the service being stopped: what is rung under the new key was rung under the
\* old reference, by the claims that are hashed again.
LEMMA RotateCapped ==
  ASSUME TypeOK, ActiveUnderReference, RingsCounted, Rotate,
         NEW l \in Lines, NEW k \in 0..reference', NEW t \in 0..MaxTime
  PROVE  Capped(l, k, t)'
<1>1. /\ reference' = reference + 1 /\ reference \in Nat /\ proof' = proof /\ opened' = opened
      /\ key' = [c \in Claims |-> IF c \in WithStatus("ACTIVE") THEN reference' ELSE key[c]]
      /\ \A c \in Claims : key[c] \in 0..reference
      /\ \A w \in Workers : tx'[w].step = "idle"
  BY DEF Rotate, Rehashed, TypeOK
<1> DEFINE j == IF k = reference + 1 THEN reference ELSE k
<1>2. j \in 0..reference
  BY <1>1
<1>3. \A c \in Claims : key'[c] = k => key[c] = j
  <2> TAKE c \in Claims
  <2>1. CASE c \in WithStatus("ACTIVE")
    BY <1>1, <2>1 DEF ActiveUnderReference
  <2>2. CASE c \notin WithStatus("ACTIVE")
    BY <1>1, <2>2
  <2> QED
    BY <2>1, <2>2
<1> HIDE DEF j
<1>4. LineRungs(l, k, t)' \in SUBSET LineRungs(l, j, t)
  BY <1>1, <1>3 DEF LineRungs, OnLine
<1>5. AboutToRing(l, k, t)' = {}
  BY <1>1 DEF AboutToRing
<1>6. IsFiniteSet(Rings) /\ Capped(l, j, t)
  BY <1>2 DEF RingsCounted, Capped
<1> HIDE DEF LineRungs, AboutToRing
<1>7. AboutToRing(l, k, t)' \in SUBSET AboutToRing(l, j, t)
  BY <1>5
<1> QED
  BY <1>4, <1>6, <1>7, FewerCounted DEF Capped

\* A claim that is declared has no proof, and no request rings it.
LEMMA DeclareCapped ==
  ASSUME TypeOK, ReadsStillTrue, RingsCounted, NEW w \in Workers, DeclareCommit(w),
         NEW l \in Lines, NEW k \in 0..reference, NEW t \in 0..MaxTime
  PROVE  Capped(l, k, t)'
<1> DEFINE c == tx[w].claim
<1>1. c \in Claims /\ claim[c].status = "ABSENT"
  BY DeclaredRows
<1>2. opened[c] = 0
  BY <1>1 DEF RingsCounted, WithStatus
<1>3. /\ proof' = proof /\ opened' = opened
      /\ \A d \in Claims : d # c => key'[d] = key[d]
      /\ tx'[w].step = "idle" /\ \A v \in Workers \ {w} : tx'[v] = tx[v]
  BY FinishTx DEF DeclareCommit, TypeOK
<1>4. LineRungs(l, k, t)' \in SUBSET LineRungs(l, k, t)
  <2> SUFFICES ASSUME NEW p \in LineRungs(l, k, t)' PROVE p \in LineRungs(l, k, t)
    OBVIOUS
  <2>1. p[1] # c
    BY <1>2, <1>3 DEF LineRungs, Nums
  <2> QED
    BY <1>3, <2>1 DEF LineRungs, OnLine
<1>5. AboutToRing(l, k, t)' \in SUBSET AboutToRing(l, k, t)
  <2> SUFFICES ASSUME NEW v \in AboutToRing(l, k, t)' PROVE v \in AboutToRing(l, k, t)
    OBVIOUS
  <2>1. v \in Workers /\ v # w /\ tx'[v] = tx[v] /\ tx[v].step = "open.insert"
    BY <1>3 DEF AboutToRing
  <2>2. tx[v].claim \in Claims /\ claim[tx[v].claim].status = "PENDING"
    BY <2>1, RowTypes DEF ReadsStillTrue, StillTrue
  <2>3. tx[v].claim # c
    BY <1>1, <2>2
  <2> QED
    BY <1>3, <2>1, <2>2, <2>3 DEF AboutToRing
<1>6. IsFiniteSet(Rings) /\ Capped(l, k, t)
  BY DEF RingsCounted, Capped
<1> HIDE DEF LineRungs, AboutToRing
<1> QED
  BY <1>4, <1>5, <1>6, FewerCounted DEF Capped

\* Only the opening of a proof adds to what is counted.
LEMMA CappedStep ==
  ASSUME Inductive, RingsCounted, [Next]_vars,
         NEW l \in Lines, NEW k \in 0..reference', NEW t \in 0..MaxTime
  PROVE  Capped(l, k, t)'
<1>1. TypeOK /\ ReadsStillTrue /\ ProofInProgress /\ ActiveUnderReference
  BY DEF Inductive
<1>2. IsFiniteSet(Rings) /\ \A j \in 0..reference : Capped(l, j, t)
  BY DEF RingsCounted, Capped
<1>3. CASE UNCHANGED vars \/ Tick \/ \E p \in Persons : Deactivate(p)
  <2>1. UNCHANGED <<key, reference, opened, proof, tx>>
    BY <1>3 DEF vars, Tick, Deactivate, fingerprints
  <2> QED
    BY <1>2, <2>1, StillCapped
<1>4. CASE Rotate
  BY <1>1, <1>4, RotateCapped
<1>5. ASSUME NEW w \in Workers, OpenCheck(w) PROVE Capped(l, k, t)'
  <2>1. reference' = reference
    BY <1>5 DEF OpenCheck, fingerprints
  <2> QED
    BY <1>1, <1>5, <2>1, OpenCheckCapped
<1>6. ASSUME NEW w \in Workers, OpenCommit(w) PROVE Capped(l, k, t)'
  <2>1. reference' = reference
    BY <1>6 DEF OpenCommit, fingerprints
  <2> QED
    BY <1>1, <1>6, <2>1, OpenCommitCapped
<1>7. ASSUME NEW w \in Workers, DeclareCommit(w) PROVE Capped(l, k, t)'
  <2>1. reference' = reference
    BY <1>7 DEF DeclareCommit
  <2> QED
    BY <1>1, <1>7, <2>1, DeclareCapped
<1>8. ASSUME NEW w \in Workers,
             \/ Begins(w) \/ Ends(w) \/ VerifyCommit(w)
             \/ Moves(w) /\ ~OpenCheck(w)
             \/ Settles(w) /\ ~OpenCommit(w)
      PROVE  Capped(l, k, t)'
  BY <1>1, <1>2, <1>8, OtherSteps, StillCapped
<1> QED
  BY <1>3, <1>4, <1>5, <1>6, <1>7, <1>8, Kinds

\* What has been opened stays finite, and a claim that is not declared has no proof.
LEMMA OpenedStep ==
  ASSUME Inductive, RingsCounted, [Next]_vars
  PROVE  IsFiniteSet(Rings)' /\ \A c \in WithStatus("ABSENT")' : opened'[c] = 0
<1>1. TypeOK /\ ReadsStillTrue /\ ProofInProgress
  BY DEF Inductive
<1>2. IsFiniteSet(Rings) /\ \A c \in WithStatus("ABSENT") : opened[c] = 0
  BY DEF RingsCounted
<1>3. ASSUME NEW w \in Workers, OpenCommit(w)
      PROVE  IsFiniteSet(Rings)' /\ \A c \in WithStatus("ABSENT")' : opened'[c] = 0
  <2>1. IsFiniteSet(Rings')
    <3>1. Rings' = Rings \cup {<<tx[w].claim, opened[tx[w].claim] + 1>>}
      BY <1>1, <1>3, OpenCommitRings
    <3>2. \A x : IsFiniteSet(Rings \cup {x})
      BY <1>2, FS_AddElement
    <3> QED
      BY <3>1, <3>2
  <2>2. \A c \in WithStatus("ABSENT")' : c \in WithStatus("ABSENT") /\ opened'[c] = opened[c]
    <3>1. /\ opened' = [opened EXCEPT ![tx[w].claim] = opened[tx[w].claim] + 1]
          /\ claim[tx[w].claim].status = "PENDING" /\ claim' = claim
      BY <1>1, <1>3, OpenCommitRows
    <3>2. opened \in [Claims -> 0..MaxProofs]
      BY <1>1 DEF TypeOK
    <3> QED
      BY <3>1, <3>2 DEF WithStatus
  <2> QED
    BY <1>2, <2>1, <2>2
<1>4. ASSUME opened' = opened, WithStatus("ABSENT")' \subseteq WithStatus("ABSENT")
      PROVE  IsFiniteSet(Rings)' /\ \A c \in WithStatus("ABSENT")' : opened'[c] = 0
  <2>1. Rings' = Rings
    BY <1>4 DEF Rings
  <2> QED
    BY <1>2, <1>4, <2>1
<1>5. CASE UNCHANGED vars \/ Tick \/ Rotate \/ \E p \in Persons : Deactivate(p)
  BY <1>4, <1>5 DEF vars, Tick, Rotate, Deactivate, WithStatus
<1>6. ASSUME NEW w \in Workers, DeclareCommit(w) \/ VerifyCommit(w)
      PROVE  IsFiniteSet(Rings)' /\ \A c \in WithStatus("ABSENT")' : opened'[c] = 0
  <2>1. opened' = opened
    BY <1>6 DEF DeclareCommit, VerifyCommit
  <2>2. WithStatus("ABSENT")' \subseteq WithStatus("ABSENT")
    BY <1>1, <1>6, DeclaredRows, ProvenRows DEF WithStatus, Revoked
  <2> QED
    BY <1>4, <2>1, <2>2
<1>7. ASSUME NEW w \in Workers,
             \/ Begins(w) \/ Ends(w) \/ Moves(w)
             \/ Settles(w) /\ ~OpenCommit(w)
      PROVE  IsFiniteSet(Rings)' /\ \A c \in WithStatus("ABSENT")' : opened'[c] = 0
  <2>1. claim' = claim
    BY <1>7, ClaimsChangeAtCommits
  <2>2. opened' = opened
    BY <1>1, <1>7, OtherSteps, ProofsChangeAtSettlements
  <2> QED
    BY <1>4, <2>1, <2>2 DEF WithStatus
<1> QED
  BY <1>3, <1>5, <1>6, <1>7, Kinds

LEMMA RingsCountedInit == Init => RingsCounted
<1> SUFFICES ASSUME Init PROVE RingsCounted
  OBVIOUS
<1>1. \A c \in Claims : opened[c] = 0
  BY DEF Init
<1>2. Rings = {}
  BY <1>1 DEF Rings, Nums
<1>3. IsFiniteSet(Rings)
  BY <1>2, FS_EmptySet
<1>4. ASSUME NEW l, NEW k, NEW t PROVE Capped(l, k, t)
  <2>1. LineRungs(l, k, t) = {}
    BY <1>1 DEF LineRungs, OnLine, Nums
  <2>2. AboutToRing(l, k, t) = {}
    BY IdleTxType DEF AboutToRing, Init
  <2>3. Cardinality(Workers) \in Nat
    BY PoolAssumption, FS_CardinalityType
  <2>4. Cardinality({}) = 0
    BY FS_EmptySet
  <2> QED
    BY <2>1, <2>2, <2>3, <2>4 DEF Capped
<1> QED
  BY <1>1, <1>3, <1>4 DEF RingsCounted, WithStatus, Capped

LEMMA RingsCountedStep == Inductive /\ RingsCounted /\ [Next]_vars => RingsCounted'
<1> SUFFICES ASSUME Inductive, RingsCounted, [Next]_vars PROVE RingsCounted'
  OBVIOUS
<1>1. \A l \in Lines, k \in 0..reference', t \in 0..MaxTime : Capped(l, k, t)'
  BY CappedStep
<1> QED
  BY <1>1, OpenedStep DEF RingsCounted, Capped

\* However many requests count the same line at the same time, without a lock on it: a
\* fingerprint is rung at most LineCap times in a window, and once more for each worker but
\* one (open_possession_proof).
THEOREM LineStaysNearlyCapped == Spec => []LineNearlyCapped
<1>1. Spec => []RingsCounted
  BY PhoneInductive, RingsCountedInit, RingsCountedStep, PTL DEF Spec
<1>2. RingsCounted => LineNearlyCapped
  <2> SUFFICES ASSUME RingsCounted, NEW l \in Lines, NEW k \in 0..reference, NEW t \in 0..MaxTime
               PROVE  Cardinality(LineRungs(l, k, t)) <= LineCap + Cardinality(Workers) - 1
    BY DEF LineNearlyCapped
  <2>1. IsFiniteSet(Rings) /\ Capped(l, k, t)
    BY DEF RingsCounted, Capped
  <2> QED
    BY <2>1, CountsAreFinite DEF Capped
<1> QED
  BY <1>1, <1>2, PTL
=============================================================================
