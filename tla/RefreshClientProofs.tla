------------------------ MODULE RefreshClientProofs ------------------------
(***************************************************************************)
(* Proofs about RefreshClient: with one request at a time and at most one  *)
(* answer lost in a row, an honest client is never taken for a thief.      *)
(*                                                                         *)
(* A step of the client is a step of Sessions, so the tables keep the      *)
(* invariant of SessionsProofs; what is added is the account of the tokens *)
(* between the one the client keeps and the end of the chain.              *)
(***************************************************************************)
EXTENDS RefreshClient, SessionsProofs, FiniteSetTheorems

\* The steps of Refreshing, as a test on one worker.
LEMMA RefreshingSet ==
  ASSUME NEW w \in Workers
  PROVE  w \in Refreshing(Mine) <=>
            /\ tx[w].step \in {"refresh.lock", "refresh.lookup", "refresh.apply"}
            /\ tx[w].sid = Mine
BY DEF Refreshing

\* A set whose members are all equal is empty or a singleton.
LEMMA AtMostOne ==
  ASSUME NEW S, \A x, y \in S : x = y
  PROVE  /\ IsFiniteSet(S) /\ Cardinality(S) \in 0..1
         /\ Cardinality(S) = 0 <=> S = {}
<1>1. CASE S = {}
  BY <1>1, FS_EmptySet
<1>2. CASE S # {}
  <2>1. PICK x \in S : TRUE
    BY <1>2
  <2>2. S = {x}
    BY <2>1
  <2> QED
    <3>1. IsFiniteSet({x}) /\ Cardinality({x}) = 1
      BY FS_Singleton
    <3>2. IsFiniteSet(S) /\ Cardinality(S) = 1
      BY <2>2, <3>1
    <3> QED
      BY <1>2, <3>2
<1> QED
  BY <1>1, <1>2

LEMMA AnswersCount ==
  ASSUME ChainAccounted
  PROVE  /\ answers = {} => Cardinality(answers) = 0
         /\ answers # {} => answers = {issued[Mine]} /\ Cardinality(answers) = 1
BY FS_EmptySet, FS_Singleton DEF ChainAccounted

\* With MaxInFlight = 1 the client asks only when nothing is under way.
LEMMA NothingInFlight ==
  ASSUME OneAtATime, ClientAlone, ChainAccounted, InFlight < MaxInFlight
  PROVE  Refreshing(Mine) = {} /\ answers = {} /\ InFlight = 0
<1>1. /\ Cardinality(Refreshing(Mine)) \in 0..1
      /\ Cardinality(Refreshing(Mine)) = 0 <=> Refreshing(Mine) = {}
  BY AtMostOne DEF ClientAlone
<1> QED
  BY <1>1, AnswersCount DEF InFlight, OneAtATime

\* Something is under way, or nothing is.
LEMMA InFlightCount ==
  ASSUME ClientAlone, ChainAccounted
  PROVE  /\ InFlight \in Nat
         /\ Refreshing(Mine) # {} \/ answers # {} => InFlight > 0
         /\ Refreshing(Mine) = {} /\ answers = {} => InFlight = 0
<1>1. /\ Cardinality(Refreshing(Mine)) \in 0..1
      /\ Cardinality(Refreshing(Mine)) = 0 <=> Refreshing(Mine) = {}
  BY AtMostOne DEF ClientAlone
<1> QED
  BY <1>1, AnswersCount DEF InFlight

-----------------------------------------------------------------------------
\* The token the client keeps is one of the chain; it is the last one, and
\* ACTIVE, or the last but one when exactly one answer is missing.
LEMMA KeptToken ==
  ASSUME Inductive, ClientInOrder, ChainAccounted, kept # 0
  PROVE  /\ Mine \in Sessions /\ kept \in Gens /\ issued[Mine] \in Gens
         /\ kept <= issued[Mine]
         /\ session[Mine].status = "ACTIVE"
         /\ kept = issued[Mine] => token[Mine][kept].status = "ACTIVE"
         /\ kept < issued[Mine] => /\ token[Mine][kept].status = "ROTATED"
                                   /\ token[Mine][kept].succ = kept + 1
<1>1. /\ Mine \in Sessions /\ issued[Mine] \in 0..MaxTokens /\ MaxTokens \in Nat
  BY RefreshClientAssumption, SessionsAssumption DEF Inductive, TypeOK
<1>2. Cardinality(answers) \in Nat /\ lost \in Nat /\ kept \in Nat
  BY AnswersCount, RefreshClientAssumption DEF ChainAccounted
<1>3. kept <= issued[Mine] /\ kept \in Gens /\ issued[Mine] \in Gens
  BY <1>1, <1>2 DEF ChainAccounted, Gens
<1>4. session[Mine].status = "ACTIVE"
  BY DEF ClientInOrder
<1> QED
  BY <1>1, <1>3, <1>4 DEF Inductive, OneChain

\* A request that reaches its verdict is served, unless something has expired.
LEMMA ServedLemma ==
  ASSUME OneAtATime, ClientInductive
  PROVE  ClientIsServed
<1> SUFFICES ASSUME NEW w \in Refreshing(Mine), tx[w].step = "refresh.apply"
             PROVE  \/ tx[w].verdict \in {"USABLE", "GRACE"}
                    \/ /\ tx[w].verdict = "DEAD"
                       /\ \/ session[Mine].expires <= tx[w].now
                          \/ token[Mine][tx[w].gen].expires <= tx[w].now
  BY DEF ClientIsServed
<1>1. w \in Workers /\ tx[w].sid = Mine /\ tx[w].gen = kept /\ answers = {}
  BY DEF Refreshing, ClientInductive, ClientInOrder
<1>2. kept # 0
  BY DEF ClientInductive, ClientInOrder
<1>3. tx[w].verdict = Lookup(Mine, kept, tx[w].now)
  BY <1>1 DEF ClientInductive, Inductive, VerdictStillTrue, VerdictTrue
<1>4. /\ tx[w].now \in Nat /\ clock \in Nat /\ session[Mine].expires \in Nat
      /\ token[Mine][kept].expires \in Nat /\ token[Mine][kept].grace \in Nat
  <2>1. TypeOK /\ Mine \in Sessions /\ kept \in Gens
    BY <1>2, KeptToken DEF ClientInductive, Inductive
  <2> QED
    BY <1>1, <2>1 DEF TypeOK, Transaction, SessionRow, TokenRow
<1>5. CASE ~Alive(Mine, tx[w].now)
  <2>1. session[Mine].expires <= tx[w].now
    BY <1>2, <1>4, <1>5, KeptToken DEF Alive, ClientInductive, ClientAlone
  <2> QED
    BY <1>3, <1>5, <2>1 DEF Lookup
<1>6. CASE Alive(Mine, tx[w].now) /\ kept = issued[Mine]
  <2>1. token[Mine][kept].status = "ACTIVE"
    BY <1>2, <1>6, KeptToken DEF ClientInductive
  <2>2. CASE token[Mine][kept].expires > tx[w].now
    BY <1>3, <1>6, <2>1, <2>2 DEF Lookup, InGrace
  <2>3. CASE ~(token[Mine][kept].expires > tx[w].now)
    BY <1>1, <1>3, <1>4, <1>6, <2>1, <2>3 DEF Lookup, InGrace
  <2> QED
    BY <2>2, <2>3
<1>7. CASE Alive(Mine, tx[w].now) /\ kept # issued[Mine]
  <2>1. /\ kept < issued[Mine]
        /\ token[Mine][kept].status = "ROTATED" /\ token[Mine][kept].succ = kept + 1
        /\ issued[Mine] \in Gens /\ kept \in Gens
    BY <1>2, <1>7, KeptToken DEF ClientInductive, Gens
  <2>2. issued[Mine] = kept + 1
    <3>1. Cardinality(answers) = 0 /\ lost \in 0..1 /\ kept \in Nat
      BY <1>1, AnswersCount, RefreshClientAssumption
         DEF ClientInductive, ChainAccounted, OneAtATime
    <3> QED
      BY <2>1, <3>1, <1>2 DEF ClientInductive, ChainAccounted, Gens
  <2>3. SuccessorActive(Mine, kept)
    <3>1. token[Mine][issued[Mine]].status = "ACTIVE"
      BY <1>2, <2>1, KeptToken, RefreshClientAssumption
         DEF ClientInductive, Inductive, OneChain
    <3> QED
      BY <2>1, <2>2, <3>1 DEF SuccessorActive
  <2>4. InGrace(Mine, kept, tx[w].now)
    <3>1. clock < token[Mine][kept].grace
      <4>1. Waiting
        BY DEF Waiting
      <4> QED
        BY <2>1, <4>1 DEF ClientInductive, ClientInTime
    <3>2. tx[w].now <= clock
      BY DEF ClientInductive, ClientInTime
    <3> QED
      BY <1>4, <2>1, <3>1, <3>2 DEF InGrace
  <2> QED
    BY <1>3, <1>7, <2>1, <2>3, <2>4 DEF Lookup
<1> QED
  BY <1>5, <1>6, <1>7

-----------------------------------------------------------------------------
\* Steps that leave the client alone.  A worker that does not refresh, before
\* and after, and tables that stand still change nothing for the client.
LEMMA ClientInitLemma == ClientInit => ClientInductive
<1> SUFFICES ASSUME ClientInit
             PROVE  ClientInductive
  OBVIOUS
<1>1. Inductive
  BY InductiveInit DEF ClientInit
<1>2. Mine \in Sessions /\ Owner[Mine] \in Accounts /\ MaxLost \in Nat
  BY RefreshClientAssumption, SessionsAssumption
<1>3. \A w \in Workers : tx[w].step = "idle"
  BY IdleTxType DEF ClientInit, Init
<1>4. Refreshing(Mine) = {}
  BY <1>3 DEF Refreshing
<1>5. issued[Mine] = 0 /\ session[Mine] = NoSession /\ account[Owner[Mine]] = "ACTIVE"
  BY <1>2 DEF ClientInit, Init
<1>6. ClientAlone
  BY <1>3, <1>4, <1>5 DEF ClientAlone, NoSession
<1>7. ClientInOrder /\ ChainAccounted
  BY <1>2, <1>3, <1>4, <1>5 DEF ClientInOrder, ChainAccounted, ClientInit
<1>8. ~Waiting
  BY <1>4 DEF Waiting, ClientInit
<1> QED
  BY <1>1, <1>4, <1>6, <1>7, <1>8 DEF ClientInductive, ClientInTime

\* Every step of the client is a step of the server.
LEMMA ClientStepIsStep ==
  ASSUME ClientInductive, [ClientNext]_allVars
  PROVE  [Next]_vars
<1>1. CASE UNCHANGED allVars
  BY <1>1 DEF allVars
<1>2. CASE Receive \/ Lose
  BY <1>2 DEF Receive, Lose
<1>3. CASE Pass
  BY <1>3 DEF Pass, Next
<1>4. ASSUME NEW w \in Workers,
             Login(w) \/ LoginAnswered(w) \/ Ask(w) \/ Serve(w) \/ Answer(w) \/ Fail(w)
      PROVE  Next
  <2>1. CASE Login(w)
    BY <2>1, RefreshClientAssumption DEF Login, Next, Request, Progress
  <2>2. CASE LoginAnswered(w)
    BY <2>2 DEF LoginAnswered, Next, Progress
  <2>3. CASE Ask(w)
    <3>1. kept \in Gens
      BY <2>3, KeptToken DEF Ask, ClientInductive
    <3> QED
      BY <2>3, <3>1, RefreshClientAssumption DEF Ask, Next, Request
  <2>4. CASE Serve(w)
    BY <2>4 DEF Serve, Next, Progress
  <2>5. CASE Answer(w)
    BY <2>5 DEF Answer, Next, Progress
  <2>6. CASE Fail(w)
    BY <2>6 DEF Fail, Next
  <2> QED
    BY <1>4, <2>1, <2>2, <2>3, <2>4, <2>5, <2>6
<1> QED
  BY <1>1, <1>2, <1>3, <1>4 DEF ClientNext

-----------------------------------------------------------------------------
\* A statement that writes no row of the chain and starts no request: a BEGIN
\* of the login, a lock, a lookup, a refusal, a rollback.
LEMMA ClientQuietStep ==
  ASSUME ClientInductive, NEW w \in Workers,
         UNCHANGED <<clock, account, session, token, issued, kept, answers, lost>>,
         \A v \in Workers : v # w => tx'[v] = tx[v],
         tx'[w].step # "idle" => tx'[w].sid = Mine /\ tx'[w].step \notin {"revoke", "open.issue"},
         tx'[w].step \in {"refresh.lock", "refresh.lookup", "refresh.apply"} =>
             w \in Refreshing(Mine) /\ tx'[w].gen = tx[w].gen /\ tx'[w].now = tx[w].now
  PROVE  ClientAlone' /\ ClientInOrder' /\ ChainAccounted' /\ ClientInTime'
<1>1. Refreshing(Mine)' \subseteq Refreshing(Mine)
  BY DEF Refreshing
<1>2. \A v \in Refreshing(Mine)' : tx'[v].gen = tx[v].gen /\ tx'[v].now = tx[v].now
  BY DEF Refreshing
<1>3. \A v \in Workers : tx'[v].step = "open.issue" => tx[v].step = "open.issue"
  OBVIOUS
<1>4. \A v \in Workers : tx'[v].step # "idle" => tx'[v].sid = Mine /\ tx'[v].step # "revoke"
  BY DEF ClientInductive, ClientAlone
<1>5. ClientAlone'
  BY <1>1, <1>3, <1>4 DEF ClientInductive, ClientAlone
<1>6. ClientInOrder'
  BY <1>1, <1>2, <1>3 DEF ClientInductive, ClientInOrder
<1>7. ChainAccounted'
  BY DEF ClientInductive, ChainAccounted
<1>8. ClientInTime'
  <2>1. Waiting' => Waiting
    BY <1>1 DEF Waiting
  <2> QED
    BY <1>1, <1>2, <2>1 DEF ClientInductive, ClientInTime
<1> QED
  BY <1>5, <1>6, <1>7, <1>8

LEMMA LoginStep ==
  ASSUME ClientInductive, NEW w \in Workers, OpenBegin(w, Mine) \/ OpenLock(w),
         UNCHANGED clientVars
  PROVE  ClientAlone' /\ ClientInOrder' /\ ChainAccounted' /\ ClientInTime'
<1>1. TypeOK /\ Mine \in Sessions /\ tx[w] \in Transaction /\ tx[w].sid \in Sessions
  BY RefreshClientAssumption, RowTypes DEF ClientInductive, Inductive, Transaction
<1>2. \E r : tx' = [tx EXCEPT ![w] = r]
  BY DEF OpenBegin, OpenLock, Finish
<1>3. \A v \in Workers : v # w => tx'[v] = tx[v]
  BY <1>1, <1>2, OneWorker
<1>4. CASE OpenBegin(w, Mine)
  <2>1. tx'[w].step = "open.lock" /\ tx'[w].sid = Mine
    <3> DEFINE r == [IdleTx EXCEPT !.step = "open.lock", !.now = clock, !.sid = Mine]
    <3>1. tx' = [tx EXCEPT ![w] = r]
      BY <1>4 DEF OpenBegin
    <3>2. r.step = "open.lock" /\ r.sid = Mine
      BY IdleTxType DEF Transaction
    <3> HIDE DEF r
    <3>3. tx'[w] = r
      BY <1>1, <3>1, OneWorker
    <3> QED
      BY <3>2, <3>3
  <2> QED
    BY <1>3, <1>4, <2>1, ClientQuietStep DEF OpenBegin, clientVars
<1>5. CASE OpenLock(w)
  <2>1. tx'[w].step \in {"open.insert", "idle"} /\ tx'[w].sid \in Sessions
    BY <1>1, <1>5, OneWorker, IdleTxType DEF OpenLock, Transaction, Finish
  <2>2. tx'[w].step = "open.insert" => tx'[w].sid = Mine
    BY <1>1, <1>5, OneWorker, IdleTxType
       DEF OpenLock, Transaction, Finish, ClientInductive, ClientAlone
  <2> QED
    BY <1>3, <1>5, <2>1, <2>2, ClientQuietStep DEF OpenLock, clientVars
<1> QED
  BY <1>4, <1>5

LEMMA ServeStep ==
  ASSUME ClientInductive, NEW w \in Workers,
         RefreshLock(w) \/ RefreshLookup(w) \/ RefreshRefuse(w) \/ Rollback(w),
         UNCHANGED clientVars
  PROVE  ClientAlone' /\ ClientInOrder' /\ ChainAccounted' /\ ClientInTime'
<1>1. TypeOK /\ Mine \in Sessions /\ tx[w] \in Transaction
  BY RefreshClientAssumption, RowTypes DEF ClientInductive, Inductive
<1>2. \A v \in Workers : v # w => tx'[v] = tx[v]
  <2>1. \E r : tx' = [tx EXCEPT ![w] = r]
    BY DEF RefreshLock, RefreshLookup, RefreshRefuse, Rollback, Finish
  <2> QED
    BY <1>1, <2>1, OneWorker
<1>3. UNCHANGED <<clock, account, session, token, issued, kept, answers, lost>>
  BY DEF RefreshLock, RefreshLookup, RefreshRefuse, Rollback, clientVars
<1>4. CASE RefreshLock(w) \/ RefreshLookup(w)
  <2>1. /\ tx'[w].step \in {"refresh.lookup", "refresh.apply"}
        /\ tx'[w].sid = tx[w].sid /\ tx'[w].gen = tx[w].gen /\ tx'[w].now = tx[w].now
    BY <1>1, <1>4 DEF RefreshLock, RefreshLookup, Transaction, TypeOK
  <2>2. tx[w].sid = Mine /\ w \in Refreshing(Mine)
    BY <1>4 DEF RefreshLock, RefreshLookup, ClientInductive, ClientAlone, Refreshing
  <2> QED
    BY <1>2, <1>3, <2>1, <2>2, ClientQuietStep
<1>5. CASE RefreshRefuse(w) \/ Rollback(w)
  <2>1. tx'[w].step = "idle"
    BY <1>1, <1>5, OneWorker, IdleTxType DEF RefreshRefuse, Rollback, Finish
  <2> QED
    BY <1>2, <1>3, <2>1, ClientQuietStep
<1> QED
  BY <1>4, <1>5

-----------------------------------------------------------------------------
\* The session is born with its first token; the client has not heard of it.
LEMMA LoginCommitStep ==
  ASSUME ClientInductive, Inductive', NEW w \in Workers, OpenCommit(w), UNCHANGED clientVars
  PROVE  ClientAlone' /\ ClientInOrder' /\ ChainAccounted' /\ ClientInTime'
<1>1. TypeOK /\ Mine \in Sessions /\ tx[w] \in Transaction
  BY RefreshClientAssumption, RowTypes DEF ClientInductive, Inductive
<1>2. tx[w].step = "open.insert" /\ tx[w].sid = Mine
  BY DEF OpenCommit, ClientInductive, ClientAlone
<1>3. /\ session[Mine].status = "ABSENT" /\ issued[Mine] = 0
  BY <1>1, <1>2 DEF ClientInductive, Inductive, InOrder, RowsInOrder
<1>4. /\ tx'[w].step = "open.issue" /\ tx'[w].sid = Mine
      /\ \A v \in Workers : v # w => tx'[v] = tx[v]
  BY <1>1, <1>2 DEF OpenCommit, TypeOK, Transaction
<1>5. /\ session'[Mine].status = "ACTIVE" /\ session'[Mine].reason = "-"
      /\ issued'[Mine] = 1 /\ account' = account
      /\ kept' = kept /\ answers' = answers /\ lost' = lost
  BY <1>1, <1>2 DEF OpenCommit, TypeOK, clientVars
<1>6. kept = 0 /\ answers = {} /\ lost = 0 /\ Refreshing(Mine) = {}
  BY <1>3 DEF ClientInductive, ClientInOrder
<1>7. Refreshing(Mine)' = {}
  BY <1>4, <1>6 DEF Refreshing
<1>8. \A v \in Workers : tx[v].step # "open.issue"
  BY <1>3 DEF ClientInductive, ClientInOrder
<1>9. \A v \in Workers : tx'[v].step # "idle" => tx'[v].sid = Mine /\ tx'[v].step # "revoke"
  BY <1>4 DEF ClientInductive, ClientAlone
<1>10. ClientAlone'
  BY <1>4, <1>5, <1>7, <1>8, <1>9 DEF ClientInductive, ClientAlone
<1>11. ClientInOrder'
  BY <1>4, <1>5, <1>6, <1>7, <1>8 DEF ClientInOrder
<1>12. ChainAccounted'
  BY <1>5, <1>6 DEF ClientInductive, ChainAccounted
<1>13. ClientInTime'
  BY <1>5, <1>6, <1>7 DEF ClientInTime, Waiting
<1> QED
  BY <1>10, <1>11, <1>12, <1>13

\* The login is answered: the client keeps the first token.
LEMMA LoginAnsweredStep ==
  ASSUME ClientInductive, Inductive', NEW w \in Workers, LoginAnswered(w)
  PROVE  ClientAlone' /\ ClientInOrder' /\ ChainAccounted' /\ ClientInTime'
<1>1. TypeOK /\ Mine \in Sessions /\ tx[w] \in Transaction
  BY RefreshClientAssumption, RowTypes DEF ClientInductive, Inductive
<1>2. tx[w].step = "open.issue" /\ kept = 0 /\ issued[Mine] = 1 /\ kept' = 1
  BY DEF LoginAnswered, OpenIssue, ClientInductive, ClientInOrder
<1>3. answers = {} /\ lost = 0 /\ Refreshing(Mine) = {}
  BY <1>2 DEF ClientInductive, ClientInOrder
<1>4. UNCHANGED <<clock, account, session, token, issued, answers, lost>>
  BY DEF LoginAnswered, OpenIssue
<1>5. tx'[w].step = "idle" /\ \A v \in Workers : v # w => tx'[v] = tx[v]
  BY <1>1, OneWorker, IdleTxType DEF LoginAnswered, OpenIssue, Finish
<1>6. Refreshing(Mine)' = {}
  BY <1>3, <1>5 DEF Refreshing
<1>7. \A v \in Workers : tx'[v].step # "open.issue"
  BY <1>2, <1>5 DEF ClientInductive, ClientAlone
<1>8. session[Mine].status = "ACTIVE"
  <2>1. session[Mine].status # "ABSENT"
    BY <1>1, <1>2 DEF ClientInductive, Inductive, RowsInOrder
  <2> QED
    BY <1>1, <2>1 DEF ClientInductive, ClientAlone, TypeOK, SessionRow
<1>9. ClientAlone'
  <2>1. \A v \in Workers : tx'[v].step # "idle" => tx'[v].sid = Mine /\ tx'[v].step # "revoke"
    BY <1>5 DEF ClientInductive, ClientAlone
  <2> QED
    BY <1>4, <1>6, <1>7, <2>1 DEF ClientInductive, ClientAlone
<1>10. ClientInOrder'
  BY <1>2, <1>4, <1>6, <1>7, <1>8 DEF ClientInOrder
<1>11. ChainAccounted'
  <2>1. Cardinality(answers) = 0 /\ Cardinality(answers)' = 0
    BY <1>3, <1>4, FS_EmptySet
  <2> QED
    BY <1>2, <1>3, <1>4, <2>1 DEF ClientInductive, ChainAccounted
<1>12. ClientInTime'
  BY <1>3, <1>4, <1>6 DEF ClientInTime, Waiting
<1> QED
  BY <1>9, <1>10, <1>11, <1>12

-----------------------------------------------------------------------------
\* A request: nothing was under way, so the token presented is ACTIVE, or the
\* answer that replaced it is missing and its grace window is still open.
LEMMA AskStep ==
  ASSUME OneAtATime, ClientInductive, Inductive', NEW w \in Workers, Ask(w)
  PROVE  ClientAlone' /\ ClientInOrder' /\ ChainAccounted' /\ ClientInTime'
<1>1. TypeOK /\ Mine \in Sessions /\ tx[w] \in Transaction /\ clock \in Nat
      /\ GraceWindow \in Nat \ {0}
  BY RefreshClientAssumption, RowTypes, SessionsAssumption
     DEF ClientInductive, Inductive, TypeOK
<1>2. kept # 0 /\ Refreshing(Mine) = {} /\ answers = {}
  BY NothingInFlight DEF Ask, ClientInductive
<1>3. UNCHANGED <<clock, account, session, token, issued, kept, answers, lost>>
  BY DEF Ask, RefreshBegin, clientVars
<1>4. /\ tx'[w].step = "refresh.lock" /\ tx'[w].sid = Mine
      /\ tx'[w].gen = kept /\ tx'[w].now = clock
      /\ \A v \in Workers : v # w => tx'[v] = tx[v]
  <2> DEFINE r == [IdleTx EXCEPT !.step = "refresh.lock", !.now = clock,
                                 !.sid = Mine, !.gen = kept]
  <2>1. tx' = [tx EXCEPT ![w] = r]
    BY DEF Ask, RefreshBegin
  <2>2. r.step = "refresh.lock" /\ r.sid = Mine /\ r.gen = kept /\ r.now = clock
    BY IdleTxType DEF Transaction
  <2> HIDE DEF r
  <2>3. tx'[w] = r /\ \A v \in Workers : v # w => tx'[v] = tx[v]
    BY <1>1, <2>1, OneWorker
  <2> QED
    BY <2>2, <2>3
<1>5. Refreshing(Mine)' = {w}
  BY <1>2, <1>4 DEF Refreshing
<1>6. ClientAlone'
  <2>1. \A v \in Workers : tx'[v].step # "idle" => tx'[v].sid = Mine /\ tx'[v].step # "revoke"
    BY <1>4 DEF ClientInductive, ClientAlone
  <2>2. \A v \in Workers : tx'[v].step # "open.issue"
    BY <1>2, <1>4 DEF ClientInductive, ClientInOrder
  <2> QED
    BY <1>3, <1>5, <2>1, <2>2 DEF ClientInductive, ClientAlone
<1>7. ClientInOrder'
  <2>1. \A v \in Workers : tx'[v].step # "open.issue"
    BY <1>2, <1>4 DEF ClientInductive, ClientInOrder
  <2> QED
    BY <1>2, <1>3, <1>4, <1>5, <2>1 DEF ClientInductive, ClientInOrder
<1>8. ChainAccounted'
  BY <1>3 DEF ClientInductive, ChainAccounted
<1>9. token[Mine][kept].status = "ROTATED" => clock < token[Mine][kept].grace
  <2> SUFFICES ASSUME token[Mine][kept].status = "ROTATED"
               PROVE  clock < token[Mine][kept].grace
    OBVIOUS
  <2>1. kept < issued[Mine] /\ issued[Mine] \in Nat /\ kept \in Nat
    <3>1. kept <= issued[Mine] /\ issued[Mine] \in Nat /\ kept \in Nat /\ kept # issued[Mine]
      BY <1>2, KeptToken DEF ClientInductive, Gens
    <3> QED
      BY <3>1
  <2>2. lost > 0
    <3>1. Cardinality(answers) = 0 /\ lost \in Nat
      BY <1>2, FS_EmptySet, RefreshClientAssumption DEF ClientInductive, ChainAccounted
    <3> QED
      BY <1>2, <2>1, <3>1 DEF ClientInductive, ChainAccounted
  <2> QED
    BY <2>2 DEF ClientInductive, ClientInTime, Waiting
<1>10. ClientInTime'
  BY <1>1, <1>3, <1>4, <1>5, <1>9 DEF ClientInTime
<1> QED
  BY <1>6, <1>7, <1>8, <1>10

\* A rotation hands out the next token of the chain, by the answer that leaves.
\* It replaces the token the client keeps, whose grace window then opens, or
\* the orphan after it, and then that window was open already.
LEMMA AnswerStep ==
  ASSUME OneAtATime, ClientInductive, Inductive', NEW w \in Workers, Answer(w)
  PROVE  ClientAlone' /\ ClientInOrder' /\ ChainAccounted' /\ ClientInTime'
<1>1. TypeOK /\ Mine \in Sessions /\ tx[w] \in Transaction /\ clock \in Nat
      /\ GraceWindow \in Nat \ {0}
  BY RefreshClientAssumption, RowTypes, SessionsAssumption
     DEF ClientInductive, Inductive, TypeOK
<1>2. /\ w \in Refreshing(Mine) /\ tx[w].step = "refresh.apply" /\ tx[w].sid = Mine
      /\ tx[w].gen = kept /\ answers = {} /\ kept # 0
      /\ Rotate(Mine, Rotated(w), tx[w].now)
  BY DEF Answer, RefreshRotate, Refreshing, ClientInductive, ClientAlone, ClientInOrder
<1>3. UNCHANGED <<clock, account, session, kept, lost>>
  BY DEF Answer, RefreshRotate
<1>4. tx'[w].step = "idle" /\ \A v \in Workers : v # w => tx'[v] = tx[v]
  BY <1>1, OneWorker, IdleTxType DEF Answer, RefreshRotate, Finish
<1>5. Refreshing(Mine)' = {}
  BY <1>2, <1>4 DEF Refreshing, ClientInductive, ClientAlone
<1>6. issued'[Mine] = issued[Mine] + 1 /\ answers' = {issued'[Mine]}
      /\ issued[Mine] \in Nat
  BY <1>1, <1>2 DEF Rotate, TypeOK, Answer
<1>7. ClientAlone'
  <2>1. \A v \in Workers : tx'[v].step # "idle" => tx'[v].sid = Mine /\ tx'[v].step # "revoke"
    BY <1>4 DEF ClientInductive, ClientAlone
  <2>2. \A v \in Workers : tx'[v].step # "open.issue"
    BY <1>2, <1>4 DEF ClientInductive, ClientInOrder
  <2> QED
    BY <1>3, <1>5, <2>1, <2>2 DEF ClientInductive, ClientAlone
<1>8. ClientInOrder'
  <2>1. \A v \in Workers : tx'[v].step # "open.issue"
    BY <1>2, <1>4 DEF ClientInductive, ClientInOrder
  <2> QED
    BY <1>2, <1>3, <1>5, <2>1 DEF ClientInductive, ClientInOrder
<1>9. ChainAccounted'
  <2>1. Cardinality(answers) = 0 /\ lost \in Nat /\ kept \in Nat
    BY <1>2, FS_EmptySet, RefreshClientAssumption DEF ClientInductive, ChainAccounted
  <2>2. Cardinality(answers') = 1
    BY <1>6, FS_Singleton
  <2>3. kept' + lost' + Cardinality(answers') = issued'[Mine]
    BY <1>2, <1>3, <1>6, <2>1, <2>2 DEF ClientInductive, ChainAccounted
  <2> QED
    BY <1>3, <1>6, <2>1, <2>3 DEF ClientInductive, ChainAccounted
<1>10. token'[Mine][kept].status = "ROTATED" => clock < token'[Mine][kept].grace
  <2>1. kept \in Gens /\ kept <= issued[Mine] /\ issued[Mine] \in Gens
    BY <1>2, KeptToken DEF ClientInductive
  <2>2. /\ token[Mine] \in [Gens -> TokenRow] /\ tx[w].now \in Nat
        /\ issued[Mine] + 1 \in Gens
    BY <1>1, <1>2 DEF TypeOK, Transaction, Rotate
  <2>3. kept # issued[Mine] + 1
    BY <2>1 DEF Gens
  <2>4. CASE tx[w].verdict # "GRACE"
    <3>1. Rotated(w) = kept
      BY <1>2, <2>4 DEF Rotated
    <3>2. token'[Mine][kept].grace = tx[w].now + GraceWindow
      BY <1>1, <1>2, <2>1, <2>2, <2>3, <3>1 DEF Rotate, TypeOK, TokenRow
    <3> QED
      BY <1>2, <3>2 DEF ClientInductive, ClientInTime
  <2>5. CASE tx[w].verdict = "GRACE"
    <3>1. tx[w].verdict = Lookup(Mine, kept, tx[w].now)
      BY <1>2 DEF ClientInductive, Inductive, VerdictStillTrue, VerdictTrue
    <3>2. token[Mine][kept].status = "ROTATED" /\ kept # issued[Mine]
      <4>1. token[Mine][kept].status # "ACTIVE"
        BY <2>5, <3>1 DEF Lookup, InGrace
      <4> QED
        BY <1>2, <2>1, <4>1, KeptToken DEF ClientInductive, Gens
    <3>3. Rotated(w) # kept
      BY <1>2, <2>1, <2>5, <3>2, KeptToken DEF Rotated, ClientInductive, Gens
    <3>4. token'[Mine][kept] = token[Mine][kept]
      BY <1>1, <1>2, <2>1, <2>2, <2>3, <3>3 DEF Rotate, TypeOK
    <3>5. Waiting
      BY <1>2 DEF Waiting
    <3> QED
      BY <3>2, <3>4, <3>5 DEF ClientInductive, ClientInTime
  <2> QED
    BY <2>4, <2>5
<1>11. ClientInTime'
  BY <1>3, <1>5, <1>10 DEF ClientInTime
<1> QED
  BY <1>7, <1>8, <1>9, <1>11

-----------------------------------------------------------------------------
\* The answer arrives, the chain and the client agree again.
LEMMA ReceiveStep ==
  ASSUME ClientInductive, Inductive', Receive
  PROVE  ClientAlone' /\ ClientInOrder' /\ ChainAccounted' /\ ClientInTime'
<1>1. PICK n \in answers : kept' = n /\ answers' = answers \ {n} /\ lost' = 0
  BY DEF Receive
<1>2. UNCHANGED vars
  BY DEF Receive
<1>3. kept # 0 /\ Refreshing(Mine) = {} /\ answers # {}
  BY <1>1 DEF ClientInductive, ClientInOrder
<1>4. answers = {issued[Mine]}
  BY <1>3, AnswersCount DEF ClientInductive
<1>5. n = issued[Mine] /\ answers' = {} /\ issued[Mine] \in Gens
  BY <1>1, <1>3, <1>4, KeptToken DEF ClientInductive
<1>6. issued[Mine] \in Nat \ {0} /\ issued'[Mine] = issued[Mine]
  BY <1>2, <1>5 DEF Gens, vars
<1>7. Refreshing(Mine)' = Refreshing(Mine) /\ ClientAlone'
  BY <1>2 DEF ClientInductive, ClientAlone, Refreshing, vars
<1>8. ClientInOrder'
  <2>1. \A w \in Workers : tx'[w].step # "open.issue"
    BY <1>2, <1>3 DEF ClientInductive, ClientInOrder, vars
  <2> QED
    BY <1>1, <1>2, <1>3, <1>5, <1>6, <1>7, <2>1 DEF ClientInductive, ClientInOrder, vars
<1>9. ChainAccounted'
  BY <1>1, <1>5, <1>6, FS_EmptySet, RefreshClientAssumption DEF ChainAccounted
<1>10. ClientInTime'
  BY <1>1, <1>3, <1>5, <1>7 DEF ClientInTime, Waiting
<1> QED
  BY <1>7, <1>8, <1>9, <1>10

\* The answer is lost: the client was still in time, and stays so.
LEMMA LoseStep ==
  ASSUME OneAtATime, ClientInductive, Inductive', Lose
  PROVE  ClientAlone' /\ ClientInOrder' /\ ChainAccounted' /\ ClientInTime'
<1>1. PICK n \in answers : lost < MaxLost /\ answers' = answers \ {n} /\ lost' = lost + 1
  BY DEF Lose
<1>2. UNCHANGED vars /\ kept' = kept
  BY DEF Lose
<1>3. kept # 0 /\ Refreshing(Mine) = {} /\ answers # {}
  BY <1>1 DEF ClientInductive, ClientInOrder
<1>4. answers = {issued[Mine]} /\ Cardinality(answers) = 1
  BY <1>3, AnswersCount DEF ClientInductive
<1>5. answers' = {} /\ Cardinality(answers') = 0
  BY <1>1, <1>4, FS_EmptySet
<1>6. Refreshing(Mine)' = Refreshing(Mine) /\ ClientAlone'
  BY <1>2 DEF ClientInductive, ClientAlone, Refreshing, vars
<1>7. ClientInOrder'
  <2>1. \A w \in Workers : tx'[w].step # "open.issue"
    BY <1>2, <1>3 DEF ClientInductive, ClientInOrder, vars
  <2> QED
    BY <1>2, <1>3, <1>5, <1>6, <2>1 DEF ClientInductive, ClientInOrder, vars
<1>8. ChainAccounted'
  <2>1. lost \in Nat /\ MaxLost \in Nat /\ lost' \in 0..MaxLost /\ kept \in Nat
    BY <1>1, RefreshClientAssumption DEF ClientInductive, ChainAccounted
  <2>2. kept' + lost' + Cardinality(answers') = issued[Mine]
    BY <1>1, <1>2, <1>3, <1>4, <1>5, <2>1 DEF ClientInductive, ChainAccounted
  <2> QED
    BY <1>2, <1>5, <2>1, <2>2 DEF ChainAccounted, vars
<1>9. ClientInTime'
  <2>1. Waiting
    BY <1>3 DEF Waiting
  <2> QED
    BY <1>2, <1>3, <1>6, <2>1 DEF ClientInductive, ClientInTime, vars
<1> QED
  BY <1>6, <1>7, <1>8, <1>9

\* Time passes, but not beyond the client's grace window while it waits.
LEMMA PassStep ==
  ASSUME ClientInductive, Inductive', Pass
  PROVE  ClientAlone' /\ ClientInOrder' /\ ChainAccounted' /\ ClientInTime'
<1>1. UNCHANGED <<account, session, token, issued, tx, kept, answers, lost>> /\ clock' = clock + 1
  BY DEF Pass, Tick, clientVars
<1>2. Refreshing(Mine)' = Refreshing(Mine)
  BY <1>1 DEF Refreshing
<1>3. ClientAlone' /\ ClientInOrder' /\ ChainAccounted'
  BY <1>1, <1>2 DEF ClientInductive, ClientAlone, ClientInOrder, ChainAccounted
<1>4. Waiting' => Waiting
  BY <1>1, <1>2 DEF Waiting
<1>5. CASE kept = 0
  <2>1. ~Waiting /\ Refreshing(Mine)' = {}
    BY <1>2, <1>5 DEF ClientInductive, ClientInOrder, Waiting
  <2>2. ~Waiting'
    BY <1>4, <2>1
  <2> QED
    BY <1>3, <2>1, <2>2 DEF ClientInTime
<1>6. CASE kept # 0
  <2>1. Timely
    BY <1>6 DEF Pass
  <2>2. Waiting => InFlight + lost > 0
    <3>1. lost \in Nat
      BY RefreshClientAssumption DEF ClientInductive, ChainAccounted
    <3> QED
      BY <3>1, InFlightCount DEF Waiting, ClientInductive
  <2>3. clock \in Nat /\ \A w \in Workers : tx[w].now \in Nat
    BY RowTypes DEF ClientInductive, Inductive, TypeOK, Transaction
  <2>4. \A w \in Refreshing(Mine)' : tx'[w].now <= clock' /\ clock' < tx'[w].now + GraceWindow
    BY <1>1, <1>2, <2>1, <2>3 DEF ClientInductive, ClientInTime, Timely, Refreshing
  <2>5. Waiting' /\ token'[Mine][kept'].status = "ROTATED" => clock' < token'[Mine][kept'].grace
    BY <1>1, <1>4, <2>1, <2>2 DEF Timely
  <2> QED
    BY <1>3, <2>4, <2>5 DEF ClientInTime
<1> QED
  BY <1>5, <1>6

-----------------------------------------------------------------------------
\* The account of the client is kept by every step: no REPLAY is ever decided.
LEMMA ClientInductiveStep ==
  ASSUME OneAtATime, ClientInductive, [ClientNext]_allVars
  PROVE  ClientInductive'
<1>1. Inductive'
  BY ClientStepIsStep, InductiveStep DEF ClientInductive
<1>2. ClientAlone' /\ ClientInOrder' /\ ChainAccounted' /\ ClientInTime'
  <2>1. CASE UNCHANGED allVars
    <3>1. Refreshing(Mine)' = Refreshing(Mine)
      BY <2>1 DEF Refreshing, allVars, vars
    <3> QED
      BY <2>1, <3>1 DEF allVars, vars, clientVars, ClientInductive, ClientAlone,
                        ClientInOrder, ChainAccounted, ClientInTime, Waiting
  <2>2. CASE Receive
    BY <1>1, <2>2, ReceiveStep
  <2>3. CASE Lose
    BY <1>1, <2>3, LoseStep
  <2>4. CASE Pass
    BY <1>1, <2>4, PassStep
  <2>5. ASSUME NEW w \in Workers,
               Login(w) \/ LoginAnswered(w) \/ Ask(w) \/ Serve(w) \/ Answer(w) \/ Fail(w)
        PROVE  ClientAlone' /\ ClientInOrder' /\ ChainAccounted' /\ ClientInTime'
    <3>1. CASE Login(w)
      BY <1>1, <3>1, LoginStep, LoginCommitStep DEF Login
    <3>2. CASE LoginAnswered(w)
      BY <1>1, <3>2, LoginAnsweredStep
    <3>3. CASE Ask(w)
      BY <1>1, <3>3, AskStep
    <3>4. CASE Serve(w)
      <4>1. ~RefreshReplay(w)
        <5>1. SUFFICES ASSUME RefreshReplay(w)
                       PROVE  FALSE
          OBVIOUS
        <5>2. w \in Refreshing(Mine) /\ tx[w].step = "refresh.apply" /\ tx[w].verdict = "REPLAY"
          BY <5>1 DEF RefreshReplay, Refreshing, ClientInductive, ClientAlone
        <5> QED
          BY <5>2, ServedLemma DEF ClientIsServed
      <4> QED
        BY <3>4, <4>1, ServeStep DEF Serve
    <3>5. CASE Answer(w)
      BY <1>1, <3>5, AnswerStep
    <3>6. CASE Fail(w)
      BY <3>6, ServeStep DEF Fail
    <3> QED
      BY <2>5, <3>1, <3>2, <3>3, <3>4, <3>5, <3>6
  <2> QED
    BY <2>1, <2>2, <2>3, <2>4, <2>5 DEF ClientNext
<1> QED
  BY <1>1, <1>2 DEF ClientInductive

-----------------------------------------------------------------------------
\* The invariant of the client and the tables together.
THEOREM ClientInductiveHolds == OneAtATime => (ClientSpec => []ClientInductive)
<1> SUFFICES ASSUME OneAtATime
             PROVE  ClientSpec => []ClientInductive
  OBVIOUS
<1>1. ClientInit => ClientInductive
  BY ClientInitLemma
<1>2. ClientInductive /\ [ClientNext]_allVars => ClientInductive'
  BY ClientInductiveStep
<1> QED
  BY <1>1, <1>2, PTL DEF ClientSpec

\* An honest client on a network that loses answers is never taken for a
\* thief: its session is never cut as REPLAY_DETECTED.
THEOREM ClientNeverCut == OneAtATime => (ClientSpec => []NeverCut)
<1> SUFFICES ASSUME OneAtATime
             PROVE  ClientSpec => []NeverCut
  OBVIOUS
<1>1. ClientInductive => NeverCut
  BY DEF ClientInductive, ClientAlone, NeverCut
<1> QED
  BY <1>1, ClientInductiveHolds, PTL

\* Once nothing is under way and nothing is missing, the client keeps the
\* ACTIVE token, the last of the chain.
THEOREM ClientStaysInStep == OneAtATime => (ClientSpec => []ClientInStep)
<1> SUFFICES ASSUME OneAtATime
             PROVE  ClientSpec => []ClientInStep
  OBVIOUS
<1>1. ClientInductive => ClientInStep
  <2> SUFFICES ASSUME ClientInductive, kept # 0, InFlight = 0, lost = 0
               PROVE  kept = issued[Mine]
    BY DEF ClientInStep
  <2>1. answers = {} /\ kept \in Nat
    BY InFlightCount DEF ClientInductive, ChainAccounted
  <2>2. Cardinality(answers) = 0
    BY <2>1, FS_EmptySet
  <2> QED
    BY <2>1, <2>2 DEF ClientInductive, ChainAccounted
<1> QED
  BY <1>1, ClientInductiveHolds, PTL

\* Every request of the client that reaches its verdict is served, unless the
\* session or the token it presents has expired.
THEOREM ClientAlwaysServed == OneAtATime => (ClientSpec => []ClientIsServed)
<1> SUFFICES ASSUME OneAtATime
             PROVE  ClientSpec => []ClientIsServed
  OBVIOUS
<1>1. ClientInductive => ClientIsServed
  BY ServedLemma
<1> QED
  BY <1>1, ClientInductiveHolds, PTL
=============================================================================
