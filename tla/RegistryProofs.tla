--------------------------- MODULE RegistryProofs ---------------------------
(***************************************************************************)
(* Proofs about Registry: for any persons, connections, requests and       *)
(* policy, the cut of emancipation holds, and an erasure is what           *)
(* PersonLife promises.  Both rest on the row lock of the person, which a  *)
(* claim, an emancipation, an erasure and a new link all take.             *)
(***************************************************************************)
EXTENDS Registry, TLAPS

-----------------------------------------------------------------------------
(***************************************************************************)
(* The invariant.                                                          *)
(***************************************************************************)
\* What a transaction keeps for itself: the row of a person, of an erasure, a person who is
\* not born yet; and the person a new link shares.
Keeps(t, p) ==
    \/ t.op = "claim" /\ t.p = p
    \/ t.op = "emancipate" /\ t.step # "begin" /\ t.m = p
    \/ t.op = "erase" /\ t.step \in {"account", "commit"} /\ t.p = p

Shares(t, p) == t.op \in {"add", "end"} /\ t.step = "commit" /\ t.q # Nobody /\ t.m = p
Erases(t, p) == t.op = "erase" /\ t.step # "begin" /\ t.p = p
Attaches(t, p) == t.op = "attach" /\ t.m = p

\* Two transactions that may be under way together.
Apart(t, u) ==
    \A p \in Persons :
        /\ Keeps(t, p) => ~Keeps(u, p) /\ ~Shares(u, p)
        /\ Shares(t, p) => ~Keeps(u, p)
        /\ ~(Erases(t, p) /\ Erases(u, p))
        /\ ~(Attaches(t, p) /\ Attaches(u, p))

\* Whom a transaction is about.
About(t) ==
    /\ t.op = "attach" => t.p \in Adults /\ t.m \in Minors
    /\ t.op \in {"add", "end"} => t.m \in Minors
    /\ t.op \in {"claim", "profile", "grant", "given", "retract", "erase"} => t.p \in Persons
    /\ t.op = "emancipate" => t.m \in Minors
    /\ t.step = "guard" => t.op \in {"add", "end"}

\* What a transaction found is still so when it acts on it.
LinkFound(t) ==
    /\ t.op = "attach" => account[t.m] = "unborn"
    /\ t.op \in {"add", "end"} /\ t.step = "commit" /\ t.q # Nobody => account[t.m] # "ACTIVE"

ErasureFound(t) == t.op = "erase" =>
    /\ t.step # "begin" => erasure[t.p].status = "REQUESTED"
    /\ t.step \in {"account", "commit"} => "identity" \in t.seen
    /\ t.step = "commit" => has[t.p] \cap Claims \subseteq t.seen

EmancipationFound(t) ==
    /\ t.op = "claim" => account[t.p] # "unborn"
    /\ t.op = "emancipate" /\ t.step # "begin" => account[t.m] # "unborn" /\ ~Erased(t.m)
    /\ t.op = "emancipate" /\ t.step = "commit" => LinksOn(t.m) \subseteq t.held

Found(t) == LinkFound(t) /\ ErasureFound(t) /\ EmancipationFound(t)

Transactions ==
    /\ \A w \in Connections : About(tx[w]) /\ Found(tx[w])
    /\ \A w, v \in Connections : w # v => Apart(tx[w], tx[v])

\* Nothing is known of who is not born; whoever was emancipated has an account, or had one.
UnbornInv ==
    \A p \in Persons : account[p] = "unborn" =>
        has[p] \cap Claims = {} /\ erasure[p].status \notin {"REQUESTED", "COMPLETED"}

EmancipatedInv == \A m \in cut : account[m] = "ACTIVE" \/ Erased(m)

RegistryInv ==
    TypeOK /\ Transactions /\ UnbornInv /\ EmancipatedInv /\ CutHolds /\ ErasureBuries

-----------------------------------------------------------------------------
(***************************************************************************)
(* Transactions and their locks.                                           *)
(***************************************************************************)
LEMMA Constants ==
  /\ Adults \subseteq Persons /\ Minors \subseteq Persons
  /\ Nobody \notin Persons /\ OfAge \subseteq Minors /\ Subjects \subseteq Persons
  /\ Window \in Nat /\ Lead \in Nat /\ MaxTime \in Nat /\ MaxRequests \in Nat
  /\ Requests \subseteq Connections /\ Scheduler \in Connections
  BY RegistryAssumption DEF RegistryAssumption, Persons, Connections

\* No transaction: of the right type, about nobody, apart from every other.
LEMMA NoTxIsNothing ==
  /\ NoTx \in Tx /\ NoTx.op = "none" /\ NoTx.step = "idle"
  /\ About(NoTx) /\ Found(NoTx) /\ \A t : Apart(NoTx, t)
<1>1. NoTx \in Tx
  BY Constants DEF NoTx, Tx
<1>2. NoTx.op = "none" /\ NoTx.step = "idle"
  BY DEF NoTx
<1> QED
  BY <1>1, <1>2 DEF About, Found, LinkFound, ErasureFound, EmancipationFound, Apart, Keeps, Shares,
     Erases, Attaches

LEMMA ApartBoth ==
  ASSUME NEW t, NEW u, Apart(t, u)
  PROVE  Apart(u, t)
  BY DEF Apart

\* The row locks that what a transaction keeps stands for.
LEMMA LocksKept ==
  ASSUME NEW v \in Connections, NEW p \in Persons
  PROVE  /\ Keeps(tx[v], p) => X(Row("persons", p)) \in Holds(v)
         /\ Shares(tx[v], p) => S(Row("persons", p)) \in Holds(v)
         /\ Erases(tx[v], p) => X(Row("erasures", p)) \in Holds(v)
         /\ tx[v].op = "erase" /\ tx[v].p = p /\ tx[v].seen \cap Claims # {}
               => X(Row("claims", p)) \in Holds(v)
<1>1. Keeps(tx[v], p) => X(Row("persons", p)) \in Holds(v)
  BY DEF Keeps, Holds
<1>2. Shares(tx[v], p) => S(Row("persons", p)) \in Holds(v)
  BY DEF Shares, Holds
<1>3. Erases(tx[v], p) => X(Row("erasures", p)) \in Holds(v)
  BY DEF Erases, Holds
<1>4. ASSUME tx[v].op = "erase", tx[v].p = p, tx[v].seen \cap Claims # {}
      PROVE  X(Row("claims", p)) \in Holds(v)
  BY <1>4 DEF Holds
<1> QED
  BY <1>1, <1>2, <1>3, <1>4

\* A lock that is granted: nobody else has one that conflicts.
LEMMA LockGranted ==
  ASSUME NEW w, NEW needs, Free(w, needs), NEW v \in Connections \ {w}, NEW row
  PROVE  /\ X(row) \in needs => X(row) \notin Holds(v) /\ S(row) \notin Holds(v)
         /\ S(row) \in needs => X(row) \notin Holds(v)
<1>1. X(row).row = row /\ X(row).mode = "X" /\ S(row).row = row /\ S(row).mode = "S"
  BY DEF X, S
<1>2. \A h \in Holds(v), n \in needs : ~(h.row = n.row /\ "X" \in {h.mode, n.mode})
  BY DEF Free, Holders
<1> HIDE DEF X, S
<1>3. ASSUME X(row) \in needs PROVE X(row) \notin Holds(v) /\ S(row) \notin Holds(v)
  BY <1>1, <1>2, <1>3
<1>4. ASSUME S(row) \in needs PROVE X(row) \notin Holds(v)
  BY <1>1, <1>2, <1>4
<1> QED
  BY <1>3, <1>4

\* Whoever gets the row of a person, or a share of it, finds nobody who keeps it.
LEMMA PersonGranted ==
  ASSUME NEW w \in Connections, NEW needs, Free(w, needs), NEW p \in Persons,
         NEW v \in Connections \ {w}
  PROVE  /\ X(Row("persons", p)) \in needs => ~Keeps(tx[v], p) /\ ~Shares(tx[v], p)
         /\ S(Row("persons", p)) \in needs => ~Keeps(tx[v], p)
         /\ X(Row("erasures", p)) \in needs => ~Erases(tx[v], p)
         /\ X(Row("claims", p)) \in needs
               => ~(tx[v].op = "erase" /\ tx[v].p = p /\ tx[v].seen \cap Claims # {})
  BY LocksKept, LockGranted

-----------------------------------------------------------------------------
(***************************************************************************)
(* Steps that change transactions only.                                    *)
(***************************************************************************)
\* The next transaction of w is in order.
MayBe(w, t) ==
    /\ t \in Tx /\ About(t) /\ Found(t)
    /\ \A v \in Connections \ {w} : Apart(t, tx[v])

LEMMA NoTxMayBe == \A w : MayBe(w, NoTx)
  BY NoTxIsNothing DEF MayBe

LEMMA TransactionsStep ==
  ASSUME TypeOK, Transactions, NEW w \in Connections, NEW t, MayBe(w, t), Step(w, t),
         UNCHANGED State
  PROVE  Transactions' /\ tx' \in [Connections -> Tx]
<1>1. tx' = [tx EXCEPT ![w] = t] /\ tx \in [Connections -> Tx]
  BY DEF Step, TypeOK
<1>2. tx' \in [Connections -> Tx] /\ tx'[w] = t /\ \A v \in Connections \ {w} : tx'[v] = tx[v]
  BY <1>1 DEF MayBe
<1>3. \A v \in Connections : About(tx'[v]) /\ Found(tx'[v])
  BY <1>2 DEF MayBe, Transactions
<1>4. \A v \in Connections : About(tx[v])' /\ Found(tx[v])'
  BY <1>3 DEF About, Found, LinkFound, ErasureFound, EmancipationFound, Erased, LinksOn, State
<1>5. ASSUME NEW u \in Connections, NEW v \in Connections, u # v PROVE Apart(tx[u], tx[v])'
  <2>1. Apart(tx'[u], tx'[v])
    <3>1. CASE u = w
      BY <3>1, <1>2, <1>5 DEF MayBe
    <3>2. CASE v = w
      BY <3>2, <1>2, <1>5, ApartBoth DEF MayBe
    <3>3. CASE u # w /\ v # w
      BY <3>3, <1>2, <1>5 DEF Transactions
    <3> QED BY <3>1, <3>2, <3>3
  <2> QED BY <2>1 DEF Apart, Keeps, Shares, Erases, Attaches
<1> QED
  BY <1>2, <1>4, <1>5 DEF Transactions

\* What is left of the invariant reads no transaction.
LEMMA StateKept ==
  ASSUME RegistryInv, UNCHANGED State, Transactions', TypeOK'
  PROVE  RegistryInv'
  BY DEF RegistryInv, UnbornInv, EmancipatedInv, CutHolds, ErasureBuries, Erased, State

LEMMA TxStep ==
  ASSUME RegistryInv, NEW w \in Connections, NEW t, MayBe(w, t), Step(w, t), UNCHANGED State,
         clock' \in 0..MaxTime, asked' \in 0..MaxRequests,
         tick' \in [step : {"idle", "notices", "due"}, todo : SUBSET Persons, at : 0..MaxTime]
  PROVE  RegistryInv'
<1>1. Transactions' /\ tx' \in [Connections -> Tx]
  BY TransactionsStep DEF RegistryInv
<1>2. TypeOK'
  BY <1>1 DEF RegistryInv, TypeOK, State
<1> QED
  BY <1>1, <1>2, StateKept

-----------------------------------------------------------------------------
(***************************************************************************)
(* What each step makes of its transaction.                                *)
(***************************************************************************)
\* What the next statement asks for, of the rows the invariant is about.
LEMMA NeedsOfPerson ==
  ASSUME NEW w \in Connections
  PROVE  /\ tx[w].step = "minor" /\ tx[w].q # Nobody => Needs(w) = {S(Row("persons", tx[w].m))}
         /\ tx[w].step = "begin" /\ tx[w].op \in {"erase", "retract"}
               => Needs(w) = {X(Row("erasures", tx[w].p))}
         /\ At(w, "emancipate", "begin") => Needs(w) = {X(Row("persons", tx[w].m))}
         /\ tx[w].step = "person" => Needs(w) = {X(Row("persons", tx[w].p))}
  BY DEF Needs, At

\* A request that takes no row of a person is apart from everybody.
LEMMA ApartFromAll ==
  ASSUME NEW t, \A p \in Persons : ~Keeps(t, p) /\ ~Shares(t, p) /\ ~Erases(t, p) /\ ~Attaches(t, p)
  PROVE  \A u : Apart(t, u)
  BY DEF Apart

\* The transaction a request begins with.
LEMMA BeginsMayBe ==
  ASSUME TypeOK, NEW w \in Connections, NEW op, NEW step, NEW p \in Persons \cup {Nobody},
         NEW q \in Adults \cup {Nobody}, NEW m \in Minors \cup {Nobody},
         <<op, step>> \in {<<"add", "guard">>, <<"end", "begin">>, <<"profile", "begin">>,
                           <<"grant", "begin">>, <<"given", "commit">>, <<"retract", "begin">>,
                           <<"emancipate", "begin">>, <<"erase", "begin">>},
         op \in {"add", "end", "emancipate"} => m \in Minors,
         op \in {"profile", "grant", "given", "retract", "erase"} => p \in Persons,
         NEW now \in 0..MaxTime
  PROVE  MayBe(w, [NoTx EXCEPT !.op = op, !.step = step, !.p = p, !.q = q, !.m = m, !.now = now])
<1> DEFINE t == [NoTx EXCEPT !.op = op, !.step = step, !.p = p, !.q = q, !.m = m, !.now = now]
<1>1. NoTx \in Tx
  BY NoTxIsNothing
<1>2. t \in Tx
  BY <1>1 DEF Tx
<1>3. t.op = op /\ t.step = step /\ t.p = p /\ t.q = q /\ t.m = m
  BY <1>1 DEF Tx
<1> HIDE DEF t
<1>4. About(t)
  BY <1>3 DEF About
<1>5. Found(t)
  BY <1>3 DEF Found, LinkFound, ErasureFound, EmancipationFound
<1>6. \A v : Apart(t, v)
  BY <1>3, ApartFromAll DEF Keeps, Shares, Erases, Attaches
<1>7. MayBe(w, t)
  BY <1>2, <1>4, <1>5, <1>6 DEF MayBe
<1> QED
  BY <1>7 DEF t

\* The same request, at another statement, with other links and findings.
Goes(t, u) ==
    /\ u \in Tx /\ u.op = t.op /\ u.p = t.p /\ u.m = t.m
    /\ u.step # "guard" \/ t.op \in {"add", "end"}

LEMMA AboutGoes ==
  ASSUME NEW t, NEW u, About(t), Goes(t, u)
  PROVE  About(u)
  BY DEF About, Goes

\* The next statement of an addition or of an end, before the dependent is locked.
LEMMA LinkGoesOn ==
  ASSUME RegistryInv, NEW w \in Connections, NEW u, Goes(tx[w], u),
         tx[w].op \in {"add", "end"}, u.step # "commit"
  PROVE  MayBe(w, u)
<1>1. About(u) /\ u \in Tx /\ u.op \in {"add", "end"}
  BY AboutGoes DEF RegistryInv, Transactions, Goes
<1>2. Found(u)
  BY <1>1 DEF Found, LinkFound, ErasureFound, EmancipationFound
<1>3. \A v : Apart(u, v)
  BY <1>1, ApartFromAll DEF Keeps, Shares, Erases, Attaches
<1> QED
  BY <1>1, <1>2, <1>3 DEF MayBe

-----------------------------------------------------------------------------
(***************************************************************************)
(* The steps that change transactions only preserve the invariant.         *)
(***************************************************************************)
LEMMA AskStep ==
  ASSUME RegistryInv, NEW w \in Connections, NEW t, Ask(w), MayBe(w, t), Step(w, t),
         UNCHANGED <<State, clock, tick>>
  PROVE  RegistryInv'
<1>1. asked' \in 0..MaxRequests
  BY Constants DEF RegistryInv, TypeOK, Ask
<1>2. clock' \in 0..MaxTime
      /\ tick' \in [step : {"idle", "notices", "due"}, todo : SUBSET Persons, at : 0..MaxTime]
  BY DEF RegistryInv, TypeOK
<1> QED
  BY <1>1, <1>2, TxStep

LEMMA SilentStep ==
  ASSUME RegistryInv, NEW w \in Connections, NEW t, MayBe(w, t), Step(w, t),
         UNCHANGED <<State, clock, tick, asked>>
  PROVE  RegistryInv'
<1>1. clock' \in 0..MaxTime /\ asked' \in 0..MaxRequests
      /\ tick' \in [step : {"idle", "notices", "due"}, todo : SUBSET Persons, at : 0..MaxTime]
  BY DEF RegistryInv, TypeOK
<1> QED
  BY <1>1, TxStep

LEMMA AdvanceStep ==
  ASSUME RegistryInv, NEW w \in Connections, NEW accepted \in BOOLEAN, NEW t,
         accepted /\ WaitsFor(w) = {} => MayBe(w, t), Advance(w, accepted, t)
  PROVE  RegistryInv'
<1>1. WaitsFor(w) = {} /\ UNCHANGED <<State, clock, tick, asked>>
  BY DEF Advance
<1>2. CASE accepted
  BY <1>1, <1>2, SilentStep DEF Advance
<1>3. CASE ~accepted
  BY <1>1, <1>3, SilentStep, NoTxMayBe DEF Advance
<1> QED
  BY <1>2, <1>3

LEMMA BeginStep ==
  ASSUME RegistryInv, NEW w \in Connections, NEW p \in Persons \cup {Nobody},
         NEW q \in Adults \cup {Nobody}, NEW m \in Minors \cup {Nobody}
  PROVE  /\ AskAs(w, p, "add", "guard", q, m) /\ m \in Minors => RegistryInv'
         /\ p \in Persons /\ \/ AskAs(w, p, "profile", "begin", q, m)
                             \/ AskAs(w, p, "grant", "begin", q, m)
                             \/ AskAs(w, p, "retract", "begin", q, m)
               => RegistryInv'
<1>1. TypeOK /\ clock \in 0..MaxTime
  BY DEF RegistryInv, TypeOK
<1>2. ASSUME AskAs(w, p, "add", "guard", q, m), m \in Minors PROVE RegistryInv'
  BY <1>1, <1>2, BeginsMayBe, AskStep DEF AskAs
<1>3. ASSUME p \in Persons, AskAs(w, p, "profile", "begin", q, m) PROVE RegistryInv'
  BY <1>1, <1>3, BeginsMayBe, AskStep DEF AskAs
<1>4. ASSUME p \in Persons, AskAs(w, p, "grant", "begin", q, m) PROVE RegistryInv'
  BY <1>1, <1>4, BeginsMayBe, AskStep DEF AskAs
<1>5. ASSUME p \in Persons, AskAs(w, p, "retract", "begin", q, m) PROVE RegistryInv'
  BY <1>1, <1>5, BeginsMayBe, AskStep DEF AskAs
<1> QED
  BY <1>2, <1>3, <1>4, <1>5

LEMMA RequestSteps ==
  ASSUME RegistryInv, NEW w \in Connections
  PROVE  /\ \A p, q \in Adults, m \in Minors : AddCoResponsible(w, p, q, m) => RegistryInv'
         /\ \A p \in Adults, q \in Adults \cup {Nobody}, m \in Minors :
               EndResponsibility(w, p, q, m) => RegistryInv'
         /\ \A p \in Persons : \/ ReplaceProfile(w, p) \/ GrantSelf(w, p) \/ GrantByOther(w, p)
                               \/ RetractSelf(w, p)
                               => RegistryInv'
<1>1. ASSUME NEW p \in Adults, NEW q \in Adults, NEW m \in Minors, AddCoResponsible(w, p, q, m)
      PROVE  RegistryInv'
  BY <1>1, BeginStep, Constants DEF AddCoResponsible
<1>2. ASSUME NEW p \in Adults, NEW q \in Adults \cup {Nobody}, NEW m \in Minors,
             EndResponsibility(w, p, q, m)
      PROVE  RegistryInv'
  <2> DEFINE t == [NoTx EXCEPT !.op = "end", !.step = "begin", !.p = p, !.q = q, !.m = m]
  <2>1. MayBe(w, t)
    <3>1. NoTx \in Tx
      BY NoTxIsNothing
    <3>2. t \in Tx
      BY <3>1, Constants DEF Tx
    <3>3. t.op = "end" /\ t.step = "begin" /\ t.m = m
      BY <3>1 DEF Tx
    <3> HIDE DEF t
    <3> QED
      BY <3>2, <3>3, ApartFromAll
         DEF MayBe, About, Found, LinkFound, ErasureFound, EmancipationFound, Keeps, Shares, Erases, Attaches
  <2> HIDE DEF t
  <2>2. Ask(w) /\ Step(w, t) /\ UNCHANGED <<State, clock, tick>>
    BY <1>2 DEF EndResponsibility, t
  <2> QED BY <2>1, <2>2, AskStep
<1>3. ASSUME NEW p \in Persons, ReplaceProfile(w, p) \/ GrantSelf(w, p) \/ RetractSelf(w, p)
      PROVE  RegistryInv'
  BY <1>3, BeginStep DEF ReplaceProfile, GrantSelf, RetractSelf
<1>4. ASSUME NEW p \in Persons, GrantByOther(w, p) PROVE RegistryInv'
  <2> DEFINE t == [NoTx EXCEPT !.op = "given", !.step = "commit", !.p = p]
  <2>1. MayBe(w, t)
    <3>1. NoTx \in Tx
      BY NoTxIsNothing
    <3>2. t \in Tx
      BY <3>1, Constants DEF Tx
    <3>3. t.op = "given" /\ t.step = "commit" /\ t.p = p
      BY <3>1 DEF Tx
    <3> HIDE DEF t
    <3> QED
      BY <3>2, <3>3, ApartFromAll
         DEF MayBe, About, Found, LinkFound, ErasureFound, EmancipationFound, Keeps, Shares, Erases, Attaches
  <2> HIDE DEF t
  <2>2. Ask(w) /\ Step(w, t) /\ UNCHANGED <<State, clock, tick>>
    BY <1>4 DEF GrantByOther, t
  <2> QED BY <2>1, <2>2, AskStep
<1> QED
  BY <1>1, <1>2, <1>3, <1>4

LEMMA LinkStatements ==
  ASSUME RegistryInv, NEW w \in Connections
  PROVE  /\ EndLock(w) => RegistryInv'
         /\ GuardInsert(w) => RegistryInv'
<1>1. TypeOK /\ tx[w] \in Tx
  BY DEF RegistryInv, TypeOK
<1>2. ASSUME EndLock(w) PROVE RegistryInv'
  <2> DEFINE u == [tx[w] EXCEPT !.held = {<<tx[w].p, tx[w].m>>},
                                !.step = IF tx[w].q = Nobody THEN "minor" ELSE "guard"]
             accepted == <<tx[w].p, tx[w].m>> \in links
  <2>1. Advance(w, accepted, u) /\ tx[w].op = "end"
    BY <1>2 DEF EndLock, At
  <2>2. ASSUME accepted PROVE MayBe(w, u)
    <3>1. <<tx[w].p, tx[w].m>> \in Adults \X Minors
      BY <2>2, <1>1 DEF TypeOK
    <3> DEFINE links1 == {<<tx[w].p, tx[w].m>>}
               step1 == IF tx[w].q = Nobody THEN "minor" ELSE "guard"
    <3>2. links1 \in SUBSET (Adults \X Minors) /\ step1 \in {"minor", "guard"}
      BY <3>1
    <3> HIDE DEF links1, step1
    <3>3. Goes(tx[w], [tx[w] EXCEPT !.held = links1, !.step = step1])
          /\ [tx[w] EXCEPT !.held = links1, !.step = step1].step # "commit"
      BY <3>2, <1>1, <2>1 DEF Goes, Tx
    <3>4. Goes(tx[w], u) /\ u.step # "commit"
      BY <3>3 DEF links1, step1
    <3> HIDE DEF u, accepted
    <3> QED BY <3>4, <2>1, LinkGoesOn
  <2>3. accepted \in BOOLEAN
    OBVIOUS
  <2> HIDE DEF u, accepted
  <2> QED BY <2>1, <2>2, <2>3, AdvanceStep
<1>3. ASSUME GuardInsert(w) PROVE RegistryInv'
  <2> DEFINE u == [tx[w] EXCEPT !.step = "minor"]
  <2>1. Goes(tx[w], u) /\ u.step # "commit" /\ tx[w].op \in {"add", "end"}
    BY <1>1, <1>3 DEF Goes, Tx, GuardInsert, RegistryInv, Transactions, About
  <2> HIDE DEF u
  <2>2. MayBe(w, u)
    BY <2>1, LinkGoesOn
  <2>3. PICK accepted \in BOOLEAN : Advance(w, accepted, u)
    BY <1>3 DEF GuardInsert, u
  <2> QED BY <2>2, <2>3, AdvanceStep
<1> QED
  BY <1>2, <1>3

\* The dependent is locked: nobody keeps that person, and the cut was not made.
LEMMA LinkWrittenStep ==
  ASSUME RegistryInv, NEW w \in Connections, LinkWritten(w)
  PROVE  RegistryInv'
<1>1. tx[w] \in Tx /\ tx[w].op \in {"add", "end"} /\ tx[w].step = "minor" /\ tx[w].m \in Minors
  BY DEF RegistryInv, TypeOK, Transactions, About, LinkWritten
<1>2. CASE Advance(w, TRUE, EndAlone(w))
  <2>1. Goes(tx[w], EndAlone(w)) /\ EndAlone(w).step # "commit"
    BY <1>1 DEF EndAlone, Goes, Tx
  <2>2. MayBe(w, EndAlone(w))
    BY <1>1, <2>1, LinkGoesOn
  <2> QED BY <1>2, <2>2, AdvanceStep
<1>3. ASSUME ~Advance(w, TRUE, EndAlone(w)) PROVE RegistryInv'
  <2> DEFINE u == [tx[w] EXCEPT !.step = "commit"]
             accepted == /\ New(w) \cap links = {}
                         /\ New(w) # {} => CutKept(tx[w].m)
                         /\ tx[w].op = "end" => NotOrphaned(tx[w].m, tx[w].held, New(w))
  <2>1. Advance(w, accepted, u) /\ accepted \in BOOLEAN
    BY <1>3 DEF LinkWritten
  <2>2. u \in Tx /\ u.op = tx[w].op /\ u.step = "commit" /\ u.q = tx[w].q /\ u.m = tx[w].m
    BY <1>1 DEF Tx
  <2>3. ASSUME accepted, WaitsFor(w) = {} PROVE MayBe(w, u)
    <3>1. tx[w].q # Nobody => account[tx[w].m] # "ACTIVE"
      BY <2>3 DEF New, CutKept
    <3>2. tx[w].q # Nobody => \A v \in Connections \ {w} : ~Keeps(tx[v], tx[w].m)
      BY <1>1, <2>3, NeedsOfPerson, PersonGranted, Constants DEF WaitsFor, Free
    <3> HIDE DEF u, accepted
    <3>3. About(u) /\ Found(u)
      BY <1>1, <2>2, <3>1 DEF About, Found, LinkFound, ErasureFound, EmancipationFound
    <3>4. ASSUME NEW v \in Connections \ {w} PROVE Apart(u, tx[v])
      BY <1>1, <2>2, <3>2 DEF Apart, Keeps, Shares, Erases, Attaches
    <3> QED BY <2>2, <3>3, <3>4 DEF MayBe
  <2> HIDE DEF u, accepted
  <2> QED BY <2>1, <2>3, AdvanceStep
<1> QED
  BY <1>2, <1>3

\* attach: the dependent is not born, and nobody else attaches them.
LEMMA AttachStep ==
  ASSUME RegistryInv, NEW w \in Connections, NEW p \in Adults, NEW m \in Minors, Attach(w, p, m)
  PROVE  RegistryInv'
<1> DEFINE t == [NoTx EXCEPT !.op = "attach", !.step = "commit", !.p = p, !.q = Nobody, !.m = m,
                             !.now = clock]
<1>1. Ask(w) /\ Step(w, t) /\ UNCHANGED <<State, clock, tick>>
  BY DEF Attach, AskAs
<1>2. account[m] = "unborn" /\ \A v \in Connections : tx[v].op = "attach" => tx[v].m # m
  BY DEF Attach
<1>3. NoTx \in Tx /\ clock \in 0..MaxTime
  BY NoTxIsNothing DEF RegistryInv, TypeOK
<1>4. t \in Tx /\ t.op = "attach" /\ t.step = "commit" /\ t.p = p /\ t.m = m
  BY <1>3, Constants DEF Tx
<1> HIDE DEF t
<1>5. About(t) /\ Found(t)
  BY <1>2, <1>4 DEF About, Found, LinkFound, ErasureFound, EmancipationFound
<1>6. ASSUME NEW v \in Connections \ {w} PROVE Apart(t, tx[v])
  BY <1>2, <1>4 DEF Apart, Keeps, Shares, Erases, Attaches
<1>7. MayBe(w, t)
  BY <1>4, <1>5, <1>6 DEF MayBe
<1> QED
  BY <1>1, <1>7, AskStep

\* A declaration, or the start of an emancipation: the person is kept.
LEMMA ClaimBeginStep ==
  ASSUME RegistryInv, NEW w \in Connections, NEW p \in Persons,
         Free(w, {X(Row("persons", p))}), account[p] # "unborn",
         NEW t \in Tx, t.op = "claim", t.step = "begin", t.p = p,
         Ask(w), Step(w, t), UNCHANGED <<State, clock, tick>>
  PROVE  RegistryInv'
<1>1. About(t) /\ Found(t)
  BY DEF About, Found, LinkFound, ErasureFound, EmancipationFound
<1>2. ASSUME NEW v \in Connections \ {w} PROVE Apart(t, tx[v])
  <2>1. ~Keeps(tx[v], p) /\ ~Shares(tx[v], p)
    BY PersonGranted
  <2> QED BY <2>1 DEF Apart, Keeps, Shares, Erases, Attaches
<1>3. MayBe(w, t)
  BY <1>1, <1>2 DEF MayBe
<1> QED
  BY <1>3, AskStep

LEMMA ClaimBegins ==
  ASSUME RegistryInv, NEW w \in Connections
  PROVE  /\ \A p \in Persons : Declare(w, p) => RegistryInv'
         /\ \A m \in Minors : StartEmancipation(w, m) => RegistryInv'
<1>1. clock \in 0..MaxTime /\ NoTx \in Tx
  BY NoTxIsNothing DEF RegistryInv, TypeOK
<1>2. ASSUME NEW p \in Persons, Declare(w, p) PROVE RegistryInv'
  <2> DEFINE t == [NoTx EXCEPT !.op = "claim", !.step = "begin", !.p = p, !.q = Nobody,
                               !.m = Nobody, !.now = clock]
  <2>1. t \in Tx /\ t.op = "claim" /\ t.step = "begin" /\ t.p = p
    BY <1>1, Constants DEF Tx
  <2>2. Ask(w) /\ Step(w, t) /\ UNCHANGED <<State, clock, tick>>
        /\ Free(w, {X(Row("persons", p))}) /\ account[p] # "unborn"
    BY <1>2 DEF Declare, AskAs
  <2> HIDE DEF t
  <2> QED BY <2>1, <2>2, ClaimBeginStep
<1>3. ASSUME NEW m \in Minors, StartEmancipation(w, m) PROVE RegistryInv'
  <2> DEFINE t == [NoTx EXCEPT !.op = "claim", !.step = "begin", !.p = m]
  <2>1. t \in Tx /\ t.op = "claim" /\ t.step = "begin" /\ t.p = m
    BY <1>1, Constants DEF Tx
  <2>2. Ask(w) /\ Step(w, t) /\ UNCHANGED <<State, clock, tick>>
        /\ Free(w, {X(Row("persons", m))}) /\ account[m] # "unborn" /\ m \in Persons
    BY <1>3, Constants DEF StartEmancipation
  <2> HIDE DEF t
  <2> QED BY <2>1, <2>2, ClaimBeginStep
<1> QED
  BY <1>2, <1>3

\* An emancipation past its lock keeps the person, who is neither unborn nor erased; past
\* its links it holds all there are.
LEMMA EmancipateStatements ==
  ASSUME RegistryInv, NEW w \in Connections
  PROVE  /\ EmancipateLock(w) => RegistryInv'
         /\ EmancipateLinks(w) => RegistryInv'
<1>1. tx[w] \in Tx /\ About(tx[w]) /\ Found(tx[w]) /\ links \subseteq Adults \X Minors
  BY DEF RegistryInv, TypeOK, Transactions
<1>2. ASSUME EmancipateLock(w) PROVE RegistryInv'
  <2> DEFINE m == tx[w].m
             u == [tx[w] EXCEPT !.step = "links", !.todo = LinksOn(m)]
             accepted == account[m] # "ACTIVE" /\ "ACTIVE" \in has[m]
  <2>1. Advance(w, accepted, u) /\ accepted \in BOOLEAN /\ At(w, "emancipate", "begin")
    BY <1>2 DEF EmancipateLock
  <2>2. LinksOn(m) \in SUBSET (Adults \X Minors)
    BY <1>1 DEF LinksOn
  <2>3. m \in Minors /\ m \in Persons
    BY <1>1, <2>1, Constants DEF About, At
  <2>4. u \in Tx /\ u.op = "emancipate" /\ u.step = "links" /\ u.m = m
    BY <1>1, <2>1, <2>2 DEF Tx, At
  <2>5. ASSUME accepted, WaitsFor(w) = {} PROVE MayBe(w, u)
    <3>1. account[m] # "unborn" /\ ~Erased(m)
      BY <2>5, <2>3 DEF RegistryInv, UnbornInv, ErasureBuries, Claims
    <3>2. \A v \in Connections \ {w} : ~Keeps(tx[v], m) /\ ~Shares(tx[v], m)
      BY <2>1, <2>3, <2>5, NeedsOfPerson, PersonGranted DEF WaitsFor, Free
    <3> HIDE DEF u, accepted, m
    <3>3. About(u) /\ Found(u)
      BY <2>3, <2>4, <3>1 DEF About, Found, LinkFound, ErasureFound, EmancipationFound
    <3>4. ASSUME NEW v \in Connections \ {w} PROVE Apart(u, tx[v])
      BY <2>4, <3>2 DEF Apart, Keeps, Shares, Erases, Attaches
    <3> QED BY <2>4, <3>3, <3>4 DEF MayBe
  <2> HIDE DEF u, accepted, m
  <2> QED BY <2>1, <2>5, AdvanceStep
<1>3. ASSUME EmancipateLinks(w) PROVE RegistryInv'
  <2> DEFINE m == tx[w].m
             locked == tx[w].todo \cap links
             u == [tx[w] EXCEPT !.step = "commit", !.todo = {}, !.held = locked]
             accepted == LinksOn(m) \subseteq tx[w].todo
  <2>1. Advance(w, accepted, u) /\ accepted \in BOOLEAN /\ At(w, "emancipate", "links")
    BY <1>3 DEF EmancipateLinks
  <2>2. locked \in SUBSET (Adults \X Minors) /\ (accepted => LinksOn(m) \subseteq locked)
    BY <1>1 DEF LinksOn
  <2> HIDE DEF locked
  <2>3. u \in Tx /\ u.op = "emancipate" /\ u.step = "commit" /\ u.m = m /\ u.held = locked
    BY <1>1, <2>1, <2>2 DEF Tx, At
  <2>4. m \in Minors /\ account[m] # "unborn" /\ ~Erased(m)
    BY <1>1, <2>1 DEF About, Found, EmancipationFound, At
  <2> HIDE DEF u
  <2>5. ASSUME accepted PROVE MayBe(w, u)
    <3>1. LinksOn(m) \subseteq u.held
      BY <2>2, <2>3, <2>5
    <3>2. About(u) /\ Found(u)
      BY <2>3, <2>4, <3>1 DEF About, Found, LinkFound, ErasureFound, EmancipationFound
    <3>3. ASSUME NEW v \in Connections \ {w} PROVE Apart(u, tx[v])
      <4>1. Apart(tx[w], tx[v])
        BY DEF RegistryInv, Transactions
      <4> QED BY <2>1, <2>3, <4>1 DEF Apart, Keeps, Shares, Erases, Attaches, At
    <3> QED BY <2>3, <3>2, <3>3 DEF MayBe
  <2> HIDE DEF accepted
  <2> QED BY <2>1, <2>5, AdvanceStep
<1> QED
  BY <1>2, <1>3

\* The next statement of an erasure that keeps what it kept.
LEMMA EraseGoesOn ==
  ASSUME RegistryInv, NEW w \in Connections, NEW u \in Tx, tx[w].op = "erase", tx[w].step # "begin",
         u.op = "erase", u.p = tx[w].p, u.step # "guard",
         Found(u), \A p \in Persons : Keeps(u, p) => Keeps(tx[w], p)
  PROVE  MayBe(w, u)
<1>1. About(tx[w])
  BY DEF RegistryInv, Transactions
<1>2. About(u)
  BY <1>1 DEF About
<1>3. ASSUME NEW v \in Connections \ {w} PROVE Apart(u, tx[v])
  <2>1. Apart(tx[w], tx[v])
    BY DEF RegistryInv, Transactions
  <2>2. \A p \in Persons : /\ Erases(u, p) => Erases(tx[w], p)
                           /\ ~Shares(u, p) /\ ~Attaches(u, p)
    BY DEF Erases, Shares, Attaches
  <2> QED BY <2>1, <2>2 DEF Apart
<1> QED
  BY <1>2, <1>3 DEF MayBe

LEMMA EraseStatements ==
  ASSUME RegistryInv, NEW w \in Connections
  PROVE  /\ EraseBegin(w) => RegistryInv'
         /\ EraseRights(w) => RegistryInv'
         /\ ErasePerson(w) => RegistryInv'
         /\ EraseAccount(w) => RegistryInv'
<1> DEFINE p == tx[w].p
<1>1. tx[w] \in Tx /\ About(tx[w]) /\ Found(tx[w]) /\ links \subseteq Adults \X Minors
      /\ has \in [Persons -> SUBSET Things]
  BY DEF RegistryInv, TypeOK, Transactions
<1>2. tx[w].op = "erase" => p \in Persons
  BY <1>1 DEF About
<1>3. ASSUME EraseBegin(w) PROVE RegistryInv'
  <2> DEFINE u == [tx[w] EXCEPT !.step = "links", !.todo = LinksOf(p)]
             accepted == Due(p)
  <2>1. Advance(w, accepted, u) /\ accepted \in BOOLEAN /\ At(w, "erase", "begin")
    BY <1>3 DEF EraseBegin, Due
  <2>2. LinksOf(p) \in SUBSET (Adults \X Minors)
    BY <1>1 DEF LinksOf
  <2>3. u \in Tx /\ u.op = "erase" /\ u.step = "links" /\ u.p = p
    BY <1>1, <2>1, <2>2 DEF Tx, At
  <2> HIDE DEF u
  <2>4. ASSUME accepted, WaitsFor(w) = {} PROVE MayBe(w, u)
    <3>1. erasure[p].status = "REQUESTED"
      BY <2>4 DEF Due
    <3>2. \A v \in Connections \ {w} : ~Erases(tx[v], p)
      BY <1>2, <2>1, <2>4, NeedsOfPerson, PersonGranted DEF WaitsFor, Free, At
    <3>3. p \in Persons
      BY <1>2, <2>1 DEF At
    <3> HIDE DEF p, accepted
    <3>4. About(u) /\ Found(u)
      BY <2>3, <3>1, <3>3 DEF About, Found, LinkFound, ErasureFound, EmancipationFound
    <3>5. ASSUME NEW v \in Connections \ {w} PROVE Apart(u, tx[v])
      BY <2>3, <3>2 DEF Apart, Keeps, Shares, Erases, Attaches
    <3> QED BY <2>3, <3>4, <3>5 DEF MayBe
  <2> HIDE DEF accepted, p
  <2> QED BY <2>1, <2>4, AdvanceStep
<1>4. ASSUME EraseRights(w) PROVE RegistryInv'
  <2> DEFINE locked == tx[w].todo \cap links
             seen == has[p] \cap ({"grant"} \cup Claims)
             u == [tx[w] EXCEPT !.step = "person", !.todo = {}, !.held = locked, !.seen = seen]
  <2>1. Advance(w, TRUE, u) /\ At(w, "erase", "links")
    BY <1>4 DEF EraseRights
  <2>2. locked \in SUBSET (Adults \X Minors) /\ seen \in SUBSET Things
    BY <1>1, <1>2, <2>1 DEF At
  <2> HIDE DEF locked, seen
  <2>3. u \in Tx /\ u.op = "erase" /\ u.step = "person" /\ u.p = p
    BY <1>1, <2>1, <2>2 DEF Tx, At
  <2> HIDE DEF u
  <2>4. Found(u)
    BY <1>1, <2>1, <2>3 DEF Found, LinkFound, ErasureFound, EmancipationFound, At
  <2>5. MayBe(w, u)
    BY <2>1, <2>3, <2>4, EraseGoesOn DEF Keeps, At
  <2> QED BY <2>1, <2>5, AdvanceStep
<1>5. ASSUME ErasePerson(w) PROVE RegistryInv'
  <2> DEFINE seen == tx[w].seen \cup {"identity"} \cup (has[p] \cap {"profile"})
             u == [tx[w] EXCEPT !.step = "account", !.seen = seen]
  <2>1. Advance(w, TRUE, u) /\ At(w, "erase", "person")
    BY <1>5 DEF ErasePerson
  <2>2. seen \in SUBSET Things /\ "identity" \in seen
    BY <1>1, <1>2, <2>1 DEF At, Tx, Things
  <2> HIDE DEF seen
  <2>3. u \in Tx /\ u.op = "erase" /\ u.step = "account" /\ u.p = p /\ u.seen = seen
    BY <1>1, <2>1, <2>2 DEF Tx, At
  <2> HIDE DEF u
  <2>4. Found(u)
    BY <1>1, <2>1, <2>2, <2>3 DEF Found, LinkFound, ErasureFound, EmancipationFound, At
  <2>5. ASSUME WaitsFor(w) = {} PROVE MayBe(w, u)
    <3>1. \A v \in Connections \ {w} : ~Keeps(tx[v], p) /\ ~Shares(tx[v], p)
      BY <1>2, <2>1, <2>5, NeedsOfPerson, PersonGranted DEF WaitsFor, Free, At
    <3>2. About(u)
      BY <1>2, <2>1, <2>3 DEF About, At
    <3>3. ASSUME NEW v \in Connections \ {w} PROVE Apart(u, tx[v])
      <4>1. Apart(tx[w], tx[v])
        BY DEF RegistryInv, Transactions
      <4>2. \A x \in Persons : /\ Keeps(u, x) => x = p
                               /\ Erases(u, x) => Erases(tx[w], x)
                               /\ ~Shares(u, x) /\ ~Attaches(u, x)
        BY <2>1, <2>3 DEF Keeps, Erases, Shares, Attaches, At
      <4> HIDE DEF p
      <4> QED BY <4>1, <4>2, <3>1 DEF Apart
    <3> QED BY <2>3, <2>4, <3>2, <3>3 DEF MayBe
  <2> QED BY <2>1, <2>5, AdvanceStep
<1>6. ASSUME EraseAccount(w) PROVE RegistryInv'
  <2> DEFINE u == [tx[w] EXCEPT !.step = "commit"]
             accepted == NoLiveClaim(w) /\ \A l \in tx[w].held : NotOrphaned(l[2], tx[w].held, {})
  <2>1. Advance(w, accepted, u) /\ accepted \in BOOLEAN /\ At(w, "erase", "account")
    BY <1>6 DEF EraseAccount
  <2>2. u \in Tx /\ u.op = "erase" /\ u.step = "commit" /\ u.p = p /\ u.seen = tx[w].seen
    BY <1>1, <2>1 DEF Tx, At
  <2> HIDE DEF u
  <2>3. ASSUME accepted PROVE MayBe(w, u)
    <3>1. has[p] \cap Claims \subseteq tx[w].seen
      BY <2>3 DEF NoLiveClaim
    <3>2. Found(u)
      BY <1>1, <2>1, <2>2, <3>1 DEF Found, LinkFound, ErasureFound, EmancipationFound, At
    <3> QED BY <2>1, <2>2, <3>2, EraseGoesOn DEF Keeps, At
  <2> HIDE DEF accepted
  <2> QED BY <2>1, <2>3, AdvanceStep
<1> QED
  BY <1>3, <1>4, <1>5, <1>6

\* Errors, deadlocks, the scheduler's lists and the clock.
LEMMA OutsideSteps ==
  ASSUME RegistryInv
  PROVE  /\ \A w \in Connections : Rollback(w) \/ DeadlockAbort(w) => RegistryInv'
         /\ TickNotices \/ TickDue \/ TickEnd \/ Restart \/ Pass => RegistryInv'
         /\ \A p \in Persons : Execute(p) => RegistryInv'
<1>1. TypeOK /\ Transactions /\ clock \in 0..MaxTime /\ asked \in 0..MaxRequests
      /\ tick \in [step : {"idle", "notices", "due"}, todo : SUBSET Persons, at : 0..MaxTime]
  BY DEF RegistryInv, TypeOK
<1>2. ASSUME NEW w \in Connections, Rollback(w) \/ DeadlockAbort(w) PROVE RegistryInv'
  <2>1. asked' \in 0..MaxRequests
    BY <1>1, <1>2, Constants DEF Rollback, DeadlockAbort
  <2> QED BY <1>1, <1>2, <2>1, NoTxMayBe, TxStep DEF Rollback, DeadlockAbort
<1>3. ASSUME UNCHANGED <<State, tx>>, clock' \in 0..MaxTime, asked' \in 0..MaxRequests,
             tick' \in [step : {"idle", "notices", "due"}, todo : SUBSET Persons, at : 0..MaxTime]
      PROVE  RegistryInv'
  <2>1. TypeOK'
    BY <1>1, <1>3 DEF TypeOK, State
  <2>2. Transactions'
    BY <1>1, <1>3 DEF Transactions, About, Found, LinkFound, ErasureFound, EmancipationFound, Erased,
       LinksOn, State, Apart, Keeps, Shares, Erases, Attaches
  <2> QED BY <1>3, <2>1, <2>2, StateKept
<1>4. ASSUME TickNotices \/ TickDue \/ TickEnd \/ Pass PROVE RegistryInv'
  <2>1. ToNotice \subseteq Persons /\ {p \in Persons : Due(p)} \subseteq Persons /\ 0 \in 0..MaxTime
    BY Constants DEF ToNotice
  <2>2. tick' \in [step : {"idle", "notices", "due"}, todo : SUBSET Persons, at : 0..MaxTime]
    <3>1. CASE TickNotices
      BY <1>1, <2>1, <3>1 DEF TickNotices
    <3>2. CASE TickDue
      <4> DEFINE due == {p \in Persons : Due(p)}
      <4>1. tick' = [tick EXCEPT !.step = "due", !.todo = due]
        BY <3>2 DEF TickDue
      <4>2. due \in SUBSET Persons
        OBVIOUS
      <4> HIDE DEF due
      <4> QED BY <1>1, <4>1, <4>2
    <3>3. CASE TickEnd
      BY <2>1, <3>3 DEF TickEnd, NoTick
    <3>4. CASE Pass
      BY <1>1, <3>4 DEF Pass
    <3> QED BY <1>4, <3>1, <3>2, <3>3, <3>4
  <2>3. clock' \in 0..MaxTime
    BY <1>1, <1>4, Constants DEF TickNotices, TickDue, TickEnd, Pass
  <2> QED BY <1>1, <1>3, <1>4, <2>2, <2>3 DEF TickNotices, TickDue, TickEnd, Pass
<1>5. ASSUME Restart PROVE RegistryInv'
  <2>1. 0 \in 0..MaxTime /\ Scheduler \in Connections
    BY Constants
  <2>2. tick' \in [step : {"idle", "notices", "due"}, todo : SUBSET Persons, at : 0..MaxTime]
    BY <1>5, <2>1 DEF Restart, NoTick
  <2>3. asked' \in 0..MaxRequests
    BY <1>1, <1>5, Constants DEF Restart
  <2> QED BY <1>1, <1>5, <2>1, <2>2, <2>3, NoTxMayBe, TxStep DEF Restart
<1>6. ASSUME NEW p \in Persons, Execute(p) PROVE RegistryInv'
  <2> DEFINE t == [NoTx EXCEPT !.op = "erase", !.step = "begin", !.p = p]
  <2>1. NoTx \in Tx
    BY NoTxIsNothing
  <2>2. t \in Tx /\ t.op = "erase" /\ t.step = "begin" /\ t.p = p
    BY <2>1 DEF Tx
  <2>3. Step(Scheduler, t) /\ UNCHANGED <<State, clock, asked>>
        /\ tick' = [tick EXCEPT !.todo = @ \ {p}]
    BY <1>6 DEF Execute
  <2> HIDE DEF t
  <2>4. tick' \in [step : {"idle", "notices", "due"}, todo : SUBSET Persons, at : 0..MaxTime]
    BY <1>1, <2>3
  <2>5. MayBe(Scheduler, t)
    BY <2>2, ApartFromAll DEF MayBe, About, Found, LinkFound, ErasureFound, EmancipationFound,
       Keeps, Shares, Erases, Attaches
  <2> QED BY <1>1, <2>3, <2>4, <2>5, Constants, TxStep
<1> QED
  BY <1>2, <1>4, <1>5, <1>6

-----------------------------------------------------------------------------
(***************************************************************************)
(* The steps that change the tables preserve the invariant.                *)
(***************************************************************************)
\* A transaction goes on beside a change of the tables: what the others found stands.
LEMMA TransactionsNext ==
  ASSUME TypeOK, Transactions, NEW w \in Connections, NEW t \in Tx, Step(w, t), About(t),
         \A v \in Connections \ {w} : Apart(t, tx[v]),
         Found(tx[w])', \A v \in Connections \ {w} : Found(tx[v])'
  PROVE  Transactions' /\ tx' \in [Connections -> Tx]
<1>1. tx' = [tx EXCEPT ![w] = t] /\ tx \in [Connections -> Tx]
  BY DEF Step, TypeOK
<1>2. tx' \in [Connections -> Tx] /\ tx'[w] = t /\ \A v \in Connections \ {w} : tx'[v] = tx[v]
  BY <1>1
<1>3. \A v \in Connections : About(tx[v])'
  <2>1. \A v \in Connections : About(tx'[v])
    BY <1>2 DEF Transactions
  <2> QED BY <2>1 DEF About
<1>4. ASSUME NEW u \in Connections, NEW v \in Connections, u # v PROVE Apart(tx[u], tx[v])'
  <2>1. Apart(tx'[u], tx'[v])
    <3>1. CASE u = w
      BY <3>1, <1>2, <1>4
    <3>2. CASE v = w
      BY <3>2, <1>2, <1>4, ApartBoth
    <3>3. CASE u # w /\ v # w
      BY <3>3, <1>2, <1>4 DEF Transactions
    <3> QED BY <3>1, <3>2, <3>3
  <2> QED BY <2>1 DEF Apart, Keeps, Shares, Erases, Attaches
<1> QED
  BY <1>2, <1>3, <1>4 DEF Transactions

\* What a COMMIT leaves of the transactions: its own is over.
LEMMA TransactionsEnd ==
  ASSUME TypeOK, Transactions, NEW w \in Connections, Step(w, NoTx),
         \A v \in Connections \ {w} : Found(tx[v])'
  PROVE  Transactions' /\ tx' \in [Connections -> Tx]
<1>1. tx'[w] = NoTx
  BY DEF Step, TypeOK
<1>2. Found(tx[w])'
  BY <1>1, NoTxIsNothing DEF Found, LinkFound, ErasureFound, EmancipationFound
<1> QED
  BY <1>2, NoTxIsNothing, TransactionsNext

\* A request of one statement changes no transaction.
LEMMA TransactionsKept ==
  ASSUME Transactions, UNCHANGED tx, \A v \in Connections : Found(tx[v])'
  PROVE  Transactions'
  BY DEF Transactions, About, Apart, Keeps, Shares, Erases, Attaches

LEMMA OtherTransactions ==
  ASSUME TypeOK, NEW w \in Connections, NEW t, Step(w, t)
  PROVE  \A v \in Connections \ {w} : tx'[v] = tx[v]
  BY DEF TypeOK, Step

\* The birth of a dependent, who is known to nobody yet.
LEMMA AttachCommitStep ==
  ASSUME RegistryInv, NEW w \in Connections, AttachCommit(w)
  PROVE  RegistryInv'
<1> DEFINE m == tx[w].m
           a == tx[w].p
<1>1. TypeOK /\ Transactions /\ UnbornInv /\ EmancipatedInv /\ CutHolds /\ ErasureBuries
  BY DEF RegistryInv
<1>2. tx[w].op = "attach" /\ a \in Adults /\ m \in Minors /\ m \in Persons /\ account[m] = "unborn"
  BY <1>1, Constants DEF AttachCommit, At, Transactions, About, Found, LinkFound
<1>3. /\ account' = [account EXCEPT ![m] = "none"]
      /\ links' = links \cup {<<a, m>>}
      /\ has' = [has EXCEPT ![m] = {"identity"}]
      /\ Step(w, NoTx) /\ UNCHANGED <<cut, erasure, clock, tick, asked>>
  BY DEF AttachCommit
<1>4. has[m] \cap Claims = {} /\ erasure[m].status \notin {"REQUESTED", "COMPLETED"} /\ m \notin cut
  BY <1>1, <1>2 DEF UnbornInv, EmancipatedInv, Erased
<1>5. account \in [Persons -> {"unborn", "none", "ACTIVE", "DEACTIVATED"}]
      /\ has \in [Persons -> SUBSET Things]
  BY <1>1 DEF TypeOK
<1>6. \A v \in Connections \ {w} : tx'[v] = tx[v]
  BY <1>1, <1>3, OtherTransactions
<1> HIDE DEF m, a
<1>7. account'[m] = "none" /\ has'[m] = {"identity"}
      /\ \A p \in Persons \ {m} : account'[p] = account[p] /\ has'[p] = has[p]
  BY <1>2, <1>3, <1>5
<1>8. ASSUME NEW v \in Connections \ {w} PROVE Found(tx[v])'
  <2>1. About(tx[v]) /\ Found(tx[v]) /\ Apart(tx[w], tx[v])
    BY <1>1 DEF Transactions
  <2>2. LinkFound(tx[v])'
    <3>1. tx[v].op = "attach" => tx[v].m # m /\ tx[v].m \in Persons
      BY <1>2, <2>1, Constants DEF Apart, Attaches, About, m
    <3>2. tx[v].op \in {"add", "end"} => tx[v].m \in Persons
      BY <2>1, Constants DEF About
    <3> QED BY <1>6, <1>7, <2>1, <3>1, <3>2 DEF Found, LinkFound
  <2>3. ErasureFound(tx[v])'
    <3>1. tx[v].op = "erase" => tx[v].p \in Persons
      BY <2>1 DEF About
    <3>2. "identity" \notin Claims
      BY DEF Claims
    <3> QED BY <1>3, <1>6, <1>7, <2>1, <3>1, <3>2 DEF Found, ErasureFound
  <2>4. EmancipationFound(tx[v])'
    <3>1. tx[v].op = "claim" => tx[v].p \in Persons
      BY <2>1 DEF About
    <3>2. tx[v].op = "emancipate" => tx[v].m \in Persons
      BY <2>1, Constants DEF About
    <3>3. tx[v].op = "emancipate" /\ tx[v].step # "begin" => tx[v].m # m
      BY <1>2, <2>1 DEF Found, EmancipationFound
    <3>4. \A p \in Persons \ {m} : LinksOn(p)' = LinksOn(p)
      BY <1>3 DEF LinksOn
    <3> QED BY <1>3, <1>6, <1>7, <2>1, <3>1, <3>2, <3>3, <3>4 DEF Found, EmancipationFound, Erased
  <2> QED BY <2>2, <2>3, <2>4 DEF Found
<1>9. Transactions' /\ tx' \in [Connections -> Tx]
  BY <1>1, <1>3, <1>8, TransactionsEnd
<1>10. TypeOK'
  <2>1. account' \in [Persons -> {"unborn", "none", "ACTIVE", "DEACTIVATED"}]
    BY <1>3, <1>5
  <2>2. links' \subseteq Adults \X Minors
    BY <1>1, <1>2, <1>3 DEF TypeOK
  <2>3. has' \in [Persons -> SUBSET Things]
    BY <1>3, <1>5 DEF Things
  <2> QED BY <1>1, <1>3, <1>9, <2>1, <2>2, <2>3 DEF TypeOK
<1>11. UnbornInv'
  BY <1>1, <1>3, <1>7 DEF UnbornInv
<1>12. EmancipatedInv'
  BY <1>1, <1>3, <1>4, <1>7, Constants DEF EmancipatedInv, Erased, TypeOK
<1>13. CutHolds'
  <2> SUFFICES ASSUME NEW l \in links'
               PROVE  account'[l[2]] # "ACTIVE" /\ (l[2] \in cut' => Erased(l[2])')
    BY DEF CutHolds
  <2>1. CASE l[2] = m
    BY <1>3, <1>4, <1>7, <2>1
  <2>2. CASE l[2] # m
    <3>1. l \in links
      BY <1>3, <2>2
    <3>2. l[2] \in Persons
      BY <1>1, <3>1, Constants DEF TypeOK
    <3> QED BY <1>1, <1>3, <1>7, <2>2, <3>1, <3>2 DEF CutHolds, Erased
  <2> QED BY <2>1, <2>2
<1>14. ErasureBuries'
  <2> SUFFICES ASSUME NEW p \in Persons, Erased(p)'
               PROVE  account'[p] # "ACTIVE" /\ has'[p] \cap ({"identity"} \cup Claims) = {}
    BY DEF ErasureBuries
  <2>1. Erased(p) /\ p # m
    BY <1>3, <1>4 DEF Erased
  <2> QED BY <1>1, <1>7, <2>1 DEF ErasureBuries
<1> QED
  BY <1>9, <1>10, <1>11, <1>12, <1>13, <1>14 DEF RegistryInv

\* What becomes of the things of one person.
GetsThings(p, kept) ==
    /\ has' = [has EXCEPT ![p] = kept]
    /\ UNCHANGED <<account, links, cut, erasure>>
    /\ kept \in SUBSET Things
    /\ account[p] = "unborn" => kept \cap Claims = {}
    /\ Erased(p) => kept \cap ({"identity"} \cup Claims) = {}

LEMMA ThingsKept ==
  ASSUME RegistryInv, NEW p \in Persons, NEW kept, GetsThings(p, kept)
  PROVE  /\ UnbornInv' /\ EmancipatedInv' /\ CutHolds' /\ ErasureBuries'
         /\ has' \in [Persons -> SUBSET Things]
         /\ has'[p] = kept /\ \A x \in Persons \ {p} : has'[x] = has[x]
<1>1. has \in [Persons -> SUBSET Things]
  BY DEF RegistryInv, TypeOK
<1>2. has' \in [Persons -> SUBSET Things] /\ has'[p] = kept /\ \A x \in Persons \ {p} : has'[x] = has[x]
  BY <1>1 DEF GetsThings
<1>3. UnbornInv' /\ ErasureBuries'
  BY <1>2 DEF RegistryInv, UnbornInv, ErasureBuries, Erased, GetsThings
<1>4. EmancipatedInv' /\ CutHolds'
  BY DEF RegistryInv, EmancipatedInv, CutHolds, Erased, GetsThings
<1> QED
  BY <1>2, <1>3, <1>4

\* Another transaction found what it found, unless it is erasing that person.
LEMMA ThingsFound ==
  ASSUME RegistryInv, NEW p \in Persons, NEW kept, GetsThings(p, kept),
         NEW v \in Connections, tx'[v] = tx[v],
         tx[v].op = "erase" /\ tx[v].step = "commit" /\ tx[v].p = p
             => kept \cap Claims \subseteq tx[v].seen
  PROVE  Found(tx[v])'
<1>1. About(tx[v]) /\ Found(tx[v])
  BY DEF RegistryInv, Transactions
<1>2. LinkFound(tx[v])' /\ EmancipationFound(tx[v])'
  BY <1>1 DEF Found, LinkFound, EmancipationFound, GetsThings, Erased, LinksOn
<1>3. ErasureFound(tx[v])'
  <2>1. has'[p] = kept /\ \A x \in Persons \ {p} : has'[x] = has[x]
    BY ThingsKept
  <2>2. tx[v].op = "erase" => tx[v].p \in Persons
    BY <1>1 DEF About
  <2> QED BY <1>1, <2>1, <2>2 DEF Found, ErasureFound, GetsThings
<1> QED
  BY <1>2, <1>3 DEF Found

\* An identity, a profile, a grant.
LEMMA ThingSteps ==
  ASSUME RegistryInv, NEW w \in Connections
  PROVE  /\ \A p \in Persons : Provide(w, p) => RegistryInv'
         /\ ThingCommit(w) => RegistryInv'
<1>1. TypeOK /\ Transactions /\ has \in [Persons -> SUBSET Things]
  BY DEF RegistryInv, TypeOK
<1>2. ASSUME NEW p \in Persons, NEW thing \in {"profile", "grant", "identity"},
             thing = "identity" => ~Erased(p)
      PROVE  /\ has[p] \cup {thing} \in SUBSET Things
             /\ (has[p] \cup {thing}) \cap Claims = has[p] \cap Claims
             /\ account[p] = "unborn" => (has[p] \cup {thing}) \cap Claims = {}
             /\ Erased(p) => (has[p] \cup {thing}) \cap ({"identity"} \cup Claims) = {}
  <2>1. thing \notin Claims /\ thing \in Things /\ has[p] \in SUBSET Things
    BY <1>1 DEF Claims, Things
  <2>2. Erased(p) => thing # "identity" /\ has[p] \cap ({"identity"} \cup Claims) = {}
    BY <1>2 DEF RegistryInv, ErasureBuries
  <2>3. account[p] = "unborn" => has[p] \cap Claims = {}
    BY DEF RegistryInv, UnbornInv
  <2> QED BY <2>1, <2>2, <2>3
<1>3. ASSUME NEW p \in Persons, NEW v \in Connections,
             tx[v].op = "erase" /\ tx[v].step = "commit" /\ tx[v].p = p
      PROVE  has[p] \cap Claims \subseteq tx[v].seen
  BY <1>1, <1>3 DEF Transactions, Found, ErasureFound
<1>4. ASSUME NEW p \in Persons, Provide(w, p) PROVE RegistryInv'
  <2>1. GetsThings(p, has[p] \cup {"identity"})
    BY <1>2, <1>4 DEF GetsThings, Provide
  <2>2. UNCHANGED <<clock, tick, tx>> /\ asked' \in 0..MaxRequests
    BY <1>1, <1>4, Constants DEF Provide, Ask, TypeOK
  <2>3. \A v \in Connections : Found(tx[v])'
    BY <1>2, <1>3, <1>4, <2>1, <2>2, ThingsFound DEF Provide
  <2>4. Transactions'
    BY <1>1, <2>2, <2>3, TransactionsKept
  <2>5. TypeOK'
    BY <1>1, <2>1, <2>2, ThingsKept DEF TypeOK, GetsThings
  <2> QED BY <2>1, <2>4, <2>5, ThingsKept DEF RegistryInv
<1>5. ASSUME ThingCommit(w) PROVE RegistryInv'
  <2> DEFINE p == tx[w].p
             thing == IF tx[w].op = "profile" THEN "profile" ELSE "grant"
  <2>1. p \in Persons /\ thing \in {"profile", "grant"}
    BY <1>1, <1>5 DEF Transactions, About, ThingCommit
  <2>2. has' = [has EXCEPT ![p] = has[p] \cup {thing}] /\ Step(w, NoTx)
        /\ UNCHANGED <<account, links, cut, erasure, clock, tick, asked>>
    BY <1>5 DEF ThingCommit
  <2> HIDE DEF p, thing
  <2>3. GetsThings(p, has[p] \cup {thing})
    BY <1>2, <2>1, <2>2 DEF GetsThings
  <2>4. \A v \in Connections \ {w} : Found(tx[v])'
    BY <1>1, <1>2, <1>3, <2>1, <2>2, <2>3, ThingsFound, OtherTransactions
  <2>5. Transactions' /\ tx' \in [Connections -> Tx]
    BY <1>1, <2>2, <2>4, TransactionsEnd
  <2>6. TypeOK'
    BY <1>1, <2>1, <2>2, <2>3, <2>5, ThingsKept DEF TypeOK
  <2> QED BY <2>1, <2>3, <2>5, <2>6, ThingsKept DEF RegistryInv
<1> QED
  BY <1>4, <1>5

\* A claim is declared by whoever keeps the person.
LEMMA ClaimCommitStep ==
  ASSUME RegistryInv, NEW w \in Connections, ClaimCommit(w)
  PROVE  RegistryInv'
<1> DEFINE p == tx[w].p
           silent == Erased(p) \/ "ACTIVE" \in has[p]
           kept == IF silent THEN has[p] ELSE has[p] \cup {"PENDING"}
<1>1. TypeOK /\ Transactions /\ UnbornInv /\ ErasureBuries /\ has \in [Persons -> SUBSET Things]
  BY DEF RegistryInv, TypeOK
<1>2. tx[w].op = "claim" /\ p \in Persons /\ account[p] # "unborn" /\ Keeps(tx[w], p)
  BY <1>1 DEF ClaimCommit, At, Transactions, About, Found, EmancipationFound, Keeps
<1>3. Step(w, NoTx) /\ UNCHANGED <<account, links, cut, erasure, clock, tick, asked>>
  BY DEF ClaimCommit
<1>4. has' = [has EXCEPT ![p] = kept]
  <2>1. CASE silent
    <3>1. has' = has
      BY <2>1 DEF ClaimCommit
    <3> QED BY <1>1, <1>2, <2>1, <3>1
  <2>2. CASE ~silent
    BY <2>2 DEF ClaimCommit
  <2> QED BY <2>1, <2>2
<1>5. kept \in SUBSET Things /\ (Erased(p) => kept = has[p])
  BY <1>1, <1>2 DEF Things
<1> HIDE DEF kept
<1>6. GetsThings(p, kept)
  BY <1>1, <1>2, <1>3, <1>4, <1>5 DEF GetsThings, ErasureBuries
<1>7. ASSUME NEW v \in Connections \ {w} PROVE Found(tx[v])'
  <2>1. Apart(tx[w], tx[v])
    BY <1>1 DEF Transactions
  <2>2. ~Keeps(tx[v], p)
    BY <1>2, <2>1 DEF Apart
  <2>3. ~(tx[v].op = "erase" /\ tx[v].step = "commit" /\ tx[v].p = p)
    BY <2>2 DEF Keeps
  <2> QED BY <1>1, <1>2, <1>3, <1>6, <2>3, ThingsFound, OtherTransactions
<1>8. Transactions' /\ tx' \in [Connections -> Tx]
  BY <1>1, <1>3, <1>7, TransactionsEnd
<1>9. TypeOK'
  BY <1>1, <1>2, <1>3, <1>6, <1>8, ThingsKept DEF TypeOK
<1> QED
  BY <1>2, <1>6, <1>8, <1>9, ThingsKept DEF RegistryInv

\* The row of a PENDING claim is free: no erasure has seen it, nor is about to complete.
LEMMA ActivatedThings ==
  ASSUME RegistryInv, NEW w \in Connections, NEW p \in Persons, "PENDING" \in has[p],
         Free(w, {X(Row("claims", p))}), has' = Activated(p),
         UNCHANGED <<account, links, cut, erasure>>
  PROVE  /\ GetsThings(p, (has[p] \ {"PENDING"}) \cup {"ACTIVE"})
         /\ \A v \in Connections \ {w} : tx'[v] = tx[v] => Found(tx[v])'
<1> DEFINE kept == (has[p] \ {"PENDING"}) \cup {"ACTIVE"}
<1>1. Transactions /\ has \in [Persons -> SUBSET Things]
  BY DEF RegistryInv, TypeOK
<1>2. kept \in SUBSET Things
  BY <1>1 DEF Things
<1>3. account[p] # "unborn" /\ ~Erased(p)
  BY DEF RegistryInv, UnbornInv, ErasureBuries, Claims
<1>4. has' = [has EXCEPT ![p] = kept]
  BY DEF Activated
<1>5. GetsThings(p, kept)
  BY <1>2, <1>3, <1>4 DEF GetsThings
<1>6. ASSUME NEW v \in Connections \ {w}, tx'[v] = tx[v] PROVE Found(tx[v])'
  <2>1. ~(tx[v].op = "erase" /\ tx[v].p = p /\ tx[v].seen \cap Claims # {})
    BY PersonGranted
  <2>2. tx[v].op = "erase" /\ tx[v].step = "commit" /\ tx[v].p = p => "PENDING" \in tx[v].seen \cap Claims
    BY <1>1 DEF Transactions, Found, ErasureFound, Claims
  <2>3. ~(tx[v].op = "erase" /\ tx[v].step = "commit" /\ tx[v].p = p)
    BY <2>1, <2>2
  <2> QED BY <1>5, <1>6, <2>3, ThingsFound
<1> QED
  BY <1>5, <1>6

LEMMA VerifyStep ==
  ASSUME RegistryInv, NEW w \in Connections, NEW p \in Persons, Verify(w, p)
  PROVE  RegistryInv'
<1> DEFINE kept == (has[p] \ {"PENDING"}) \cup {"ACTIVE"}
<1>1. TypeOK /\ Transactions
  BY DEF RegistryInv
<1>2. tx[w].op = "none" /\ UNCHANGED <<account, links, cut, erasure, clock, tick, tx>>
  BY DEF Verify, Ask, Idle
<1>3. GetsThings(p, kept) /\ \A v \in Connections \ {w} : Found(tx[v])'
  BY <1>2, ActivatedThings DEF Verify
<1>4. Found(tx[w])'
  BY <1>2 DEF Found, LinkFound, ErasureFound, EmancipationFound
<1>5. Transactions'
  BY <1>1, <1>2, <1>3, <1>4, TransactionsKept
<1>6. asked' \in 0..MaxRequests
  BY <1>1, Constants DEF Verify, Ask, TypeOK
<1> HIDE DEF kept
<1>7. TypeOK'
  BY <1>1, <1>2, <1>3, <1>6, ThingsKept DEF TypeOK
<1> QED
  BY <1>3, <1>5, <1>7, ThingsKept DEF RegistryInv

LEMMA CompleteEmancipationStep ==
  ASSUME RegistryInv, NEW w \in Connections, NEW m \in Minors, CompleteEmancipation(w, m)
  PROVE  RegistryInv'
<1> DEFINE kept == (has[m] \ {"PENDING"}) \cup {"ACTIVE"}
           t == [NoTx EXCEPT !.op = "emancipate", !.step = "begin", !.m = m]
<1>1. TypeOK /\ Transactions /\ m \in Persons
  BY Constants DEF RegistryInv
<1>2. Step(w, t) /\ UNCHANGED <<account, links, cut, erasure, clock, tick>>
  BY DEF CompleteEmancipation
<1>3. t \in Tx /\ t.op = "emancipate" /\ t.step = "begin" /\ t.m = m
  BY NoTxIsNothing DEF Tx
<1> HIDE DEF t
<1>4. GetsThings(m, kept) /\ \A v \in Connections \ {w} : Found(tx[v])'
  BY <1>1, <1>2, ActivatedThings, OtherTransactions DEF CompleteEmancipation
<1>5. tx'[w] = t
  BY <1>1, <1>2 DEF Step, TypeOK
<1>6. Found(tx[w])'
  BY <1>3, <1>5 DEF Found, LinkFound, ErasureFound, EmancipationFound
<1>7. About(t) /\ \A u : Apart(t, u)
  BY <1>3, ApartFromAll DEF About, Keeps, Shares, Erases, Attaches
<1>8. Transactions' /\ tx' \in [Connections -> Tx]
  BY <1>1, <1>2, <1>3, <1>4, <1>6, <1>7, TransactionsNext
<1>9. asked' \in 0..MaxRequests
  BY <1>1, Constants DEF CompleteEmancipation, Ask, TypeOK
<1> HIDE DEF kept
<1>10. TypeOK'
  BY <1>1, <1>2, <1>4, <1>8, <1>9, ThingsKept DEF TypeOK
<1> QED
  BY <1>1, <1>4, <1>8, <1>10, ThingsKept DEF RegistryInv

\* What becomes of the erasure of one person who is not gone, and does not go.
GetsErasure(p, row) ==
    /\ erasure' = [erasure EXCEPT ![p] = row]
    /\ UNCHANGED <<account, links, cut, has>>
    /\ row \in [status : {"none", "REQUESTED", "RETRACTED", "COMPLETED"},
                mode : {"IMMEDIATE", "DELAYED"}, due : Nat, noticed : BOOLEAN]
    /\ (row.status = "COMPLETED") = (erasure[p].status = "COMPLETED")
    /\ row.status = "REQUESTED" => account[p] # "unborn"

LEMMA ErasureKept ==
  ASSUME RegistryInv, NEW p \in Persons, NEW row, GetsErasure(p, row)
  PROVE  /\ UnbornInv' /\ EmancipatedInv' /\ CutHolds' /\ ErasureBuries'
         /\ erasure' \in [Persons -> [status : {"none", "REQUESTED", "RETRACTED", "COMPLETED"},
                                     mode : {"IMMEDIATE", "DELAYED"}, due : Nat, noticed : BOOLEAN]]
         /\ erasure'[p] = row /\ \A x \in Persons \ {p} : erasure'[x] = erasure[x]
         /\ \A x \in Persons : Erased(x)' = Erased(x)
<1>1. erasure \in [Persons -> [status : {"none", "REQUESTED", "RETRACTED", "COMPLETED"},
                              mode : {"IMMEDIATE", "DELAYED"}, due : Nat, noticed : BOOLEAN]]
  BY DEF RegistryInv, TypeOK
<1>2. erasure' \in [Persons -> [status : {"none", "REQUESTED", "RETRACTED", "COMPLETED"},
                               mode : {"IMMEDIATE", "DELAYED"}, due : Nat, noticed : BOOLEAN]]
      /\ erasure'[p] = row /\ \A x \in Persons \ {p} : erasure'[x] = erasure[x]
  BY <1>1 DEF GetsErasure
<1>3. \A x \in Persons : Erased(x)' = Erased(x)
  BY <1>2 DEF GetsErasure, Erased
<1>4. UnbornInv'
  BY <1>2 DEF RegistryInv, UnbornInv, GetsErasure
<1>5. ErasureBuries'
  BY <1>3 DEF RegistryInv, ErasureBuries, GetsErasure
<1>6. EmancipatedInv'
  BY <1>3, Constants DEF RegistryInv, TypeOK, EmancipatedInv, GetsErasure
<1>7. CutHolds'
  <2>1. \A l \in links : l[2] \in Persons
    BY Constants DEF RegistryInv, TypeOK
  <2> QED BY <1>3, <2>1 DEF RegistryInv, CutHolds, GetsErasure
<1> QED
  BY <1>2, <1>3, <1>4, <1>5, <1>6, <1>7

\* Another transaction found what it found, if a row that it has locked stays requested.
LEMMA ErasureStillFound ==
  ASSUME RegistryInv, NEW p \in Persons, NEW row, GetsErasure(p, row),
         NEW v \in Connections, tx'[v] = tx[v], Erases(tx[v], p) => row.status = "REQUESTED"
  PROVE  Found(tx[v])'
<1>1. About(tx[v]) /\ Found(tx[v])
  BY DEF RegistryInv, Transactions
<1>2. LinkFound(tx[v])'
  BY <1>1 DEF Found, LinkFound, GetsErasure
<1>3. ErasureFound(tx[v])'
  <2>1. tx[v].op = "erase" => tx[v].p \in Persons
    BY <1>1 DEF About
  <2> QED BY <1>1, <2>1, ErasureKept DEF Found, ErasureFound, GetsErasure, Erases
<1>4. EmancipationFound(tx[v])'
  <2>1. tx[v].op = "emancipate" => tx[v].m \in Persons
    BY <1>1, Constants DEF About
  <2>2. tx[v].op = "emancipate" /\ tx[v].step # "begin" => ~Erased(tx[v].m)'
    <3>1. tx[v].op = "emancipate" /\ tx[v].step # "begin" => ~Erased(tx[v].m)
      BY <1>1 DEF Found, EmancipationFound
    <3>2. \A x \in Persons : Erased(x)' = Erased(x)
      BY ErasureKept
    <3> QED BY <2>1, <3>1, <3>2 DEF Erased
  <2> QED BY <1>1, <2>2 DEF Found, EmancipationFound, GetsErasure, LinksOn
<1> QED
  BY <1>2, <1>3, <1>4 DEF Found

\* A request of erasure finds none in flight, so that nobody executes one.
LEMMA RecordStep ==
  ASSUME RegistryInv, NEW w \in Connections, NEW p \in Persons, NEW mode \in {"IMMEDIATE", "DELAYED"},
         account[p] # "unborn", Record(w, p, mode)
  PROVE  RegistryInv'
<1> DEFINE due == IF mode = "IMMEDIATE" THEN clock ELSE clock + Window
           row == [status |-> "REQUESTED", mode |-> mode, noticed |-> FALSE, due |-> due]
           t == IF mode = "IMMEDIATE"
                THEN [NoTx EXCEPT !.op = "erase", !.step = "begin", !.p = p, !.now = clock] ELSE NoTx
<1>1. TypeOK /\ Transactions /\ clock \in 0..MaxTime
  BY DEF RegistryInv, TypeOK
<1>2. Ask(w) /\ Step(w, t) /\ UNCHANGED <<account, links, cut, has, clock, tick>>
      /\ erasure[p].status \notin {"REQUESTED", "COMPLETED"}
  BY DEF Record
<1>3. due \in Nat
  BY <1>1, Constants
<1>4. erasure' = [erasure EXCEPT ![p] = row]
  BY DEF Record
<1> HIDE DEF due
<1>5. row.status = "REQUESTED"
      /\ row \in [status : {"none", "REQUESTED", "RETRACTED", "COMPLETED"},
                  mode : {"IMMEDIATE", "DELAYED"}, due : Nat, noticed : BOOLEAN]
  BY <1>3
<1> HIDE DEF row
<1>6. GetsErasure(p, row)
  BY <1>2, <1>4, <1>5 DEF GetsErasure
<1>7. \A v \in Connections \ {w} : Found(tx[v])'
  BY <1>1, <1>2, <1>5, <1>6, ErasureStillFound, OtherTransactions
<1>8. t \in Tx /\ t.step # "guard"
      /\ \/ t.op = "none"
         \/ t.op = "erase" /\ t.step = "begin" /\ t.p = p
  <2>1. NoTx \in Tx /\ NoTx.op = "none" /\ NoTx.step = "idle"
    BY NoTxIsNothing
  <2>2. CASE mode = "IMMEDIATE"
    BY <1>1, <2>1, <2>2 DEF Tx
  <2>3. CASE mode # "IMMEDIATE"
    BY <2>1, <2>3
  <2> QED BY <2>2, <2>3
<1> HIDE DEF t
<1>9. About(t) /\ \A u : Apart(t, u)
  BY <1>8, ApartFromAll DEF About, Keeps, Shares, Erases, Attaches
<1>10. Found(tx[w])'
  <2>1. tx'[w] = t
    BY <1>1, <1>2 DEF Step, TypeOK
  <2> QED BY <1>8, <2>1 DEF Found, LinkFound, ErasureFound, EmancipationFound
<1>11. Transactions' /\ tx' \in [Connections -> Tx]
  BY <1>1, <1>2, <1>7, <1>8, <1>9, <1>10, TransactionsNext
<1>12. asked' \in 0..MaxRequests
  BY <1>1, <1>2, Constants DEF Ask, TypeOK
<1>13. TypeOK'
  BY <1>1, <1>2, <1>6, <1>11, <1>12, ErasureKept DEF TypeOK
<1> QED
  BY <1>6, <1>11, <1>13, ErasureKept DEF RegistryInv

\* A retraction has locked the row: nobody executes it.
LEMMA RetractCommitStep ==
  ASSUME RegistryInv, NEW w \in Connections, RetractCommit(w)
  PROVE  RegistryInv'
<1> DEFINE p == tx[w].p
           retracts == erasure[p].status = "REQUESTED" /\ tx[w].now < erasure[p].due
           row == IF retracts THEN [erasure[p] EXCEPT !.status = "RETRACTED"] ELSE erasure[p]
<1>1. TypeOK /\ Transactions /\ UnbornInv /\ erasure \in [Persons -> [
             status : {"none", "REQUESTED", "RETRACTED", "COMPLETED"},
             mode : {"IMMEDIATE", "DELAYED"}, due : Nat, noticed : BOOLEAN]]
  BY DEF RegistryInv, TypeOK
<1>2. At(w, "retract", "begin") /\ p \in Persons
  BY <1>1 DEF RetractCommit, At, Transactions, About
<1>3. Step(w, NoTx) /\ UNCHANGED <<account, links, cut, has, clock, tick, asked>> /\ WaitsFor(w) = {}
  BY DEF RetractCommit
<1>4. erasure' = [erasure EXCEPT ![p] = row]
  <2>1. CASE retracts
    BY <2>1 DEF RetractCommit
  <2>2. CASE ~retracts
    <3>1. erasure' = erasure
      BY <2>2 DEF RetractCommit
    <3> QED BY <1>1, <1>2, <2>2, <3>1
  <2> QED BY <2>1, <2>2
<1>5. row \in [status : {"none", "REQUESTED", "RETRACTED", "COMPLETED"},
              mode : {"IMMEDIATE", "DELAYED"}, due : Nat, noticed : BOOLEAN]
      /\ (row.status = "COMPLETED") = (erasure[p].status = "COMPLETED")
      /\ (row.status = "REQUESTED" => erasure[p].status = "REQUESTED")
  BY <1>1, <1>2
<1> HIDE DEF row
<1>6. GetsErasure(p, row)
  BY <1>1, <1>2, <1>3, <1>4, <1>5 DEF GetsErasure, UnbornInv
<1>7. \A v \in Connections \ {w} : ~Erases(tx[v], p)
  BY <1>2, <1>3, NeedsOfPerson, PersonGranted DEF WaitsFor, Free, At
<1>8. \A v \in Connections \ {w} : Found(tx[v])'
  BY <1>1, <1>2, <1>3, <1>6, <1>7, ErasureStillFound, OtherTransactions
<1>9. Transactions' /\ tx' \in [Connections -> Tx]
  BY <1>1, <1>3, <1>8, TransactionsEnd
<1>10. TypeOK'
  BY <1>1, <1>2, <1>3, <1>6, <1>9, ErasureKept DEF TypeOK
<1> QED
  BY <1>2, <1>6, <1>9, <1>10, ErasureKept DEF RegistryInv

LEMMA NoticeStep ==
  ASSUME RegistryInv, NEW p \in Persons, Notice(p)
  PROVE  RegistryInv'
<1> DEFINE row == IF p \in ToNotice THEN [erasure[p] EXCEPT !.noticed = TRUE] ELSE erasure[p]
<1>1. TypeOK /\ Transactions /\ UnbornInv /\ erasure \in [Persons -> [
             status : {"none", "REQUESTED", "RETRACTED", "COMPLETED"},
             mode : {"IMMEDIATE", "DELAYED"}, due : Nat, noticed : BOOLEAN]]
  BY DEF RegistryInv, TypeOK
<1>2. UNCHANGED <<account, links, cut, has, clock, asked, tx>> /\ tick' = [tick EXCEPT !.todo = @ \ {p}]
  BY DEF Notice
<1>3. erasure' = [erasure EXCEPT ![p] = row]
  <2>1. CASE p \in ToNotice
    BY <2>1 DEF Notice
  <2>2. CASE p \notin ToNotice
    <3>1. erasure' = erasure
      BY <2>2 DEF Notice
    <3> QED BY <1>1, <2>2, <3>1
  <2> QED BY <2>1, <2>2
<1>4. row \in [status : {"none", "REQUESTED", "RETRACTED", "COMPLETED"},
              mode : {"IMMEDIATE", "DELAYED"}, due : Nat, noticed : BOOLEAN]
      /\ row.status = erasure[p].status
  BY <1>1
<1> HIDE DEF row
<1>5. GetsErasure(p, row)
  BY <1>1, <1>2, <1>3, <1>4 DEF GetsErasure, UnbornInv
<1>6. ASSUME NEW v \in Connections PROVE Found(tx[v])'
  <2>1. Erases(tx[v], p) => row.status = "REQUESTED"
    BY <1>1, <1>4 DEF Transactions, Found, ErasureFound, Erases
  <2> QED BY <1>2, <1>5, <2>1, ErasureStillFound
<1>7. Transactions'
  BY <1>1, <1>2, <1>6, TransactionsKept
<1>8. tick' \in [step : {"idle", "notices", "due"}, todo : SUBSET Persons, at : 0..MaxTime]
  BY <1>1, <1>2 DEF TypeOK
<1>9. TypeOK'
  BY <1>1, <1>2, <1>5, <1>8, ErasureKept DEF TypeOK
<1> QED
  BY <1>5, <1>7, <1>9, ErasureKept DEF RegistryInv

\* A new link shares the row of the dependent: no emancipation of theirs is past its lock.
LEMMA LinkCommitStep ==
  ASSUME RegistryInv, NEW w \in Connections, LinkCommit(w)
  PROVE  RegistryInv'
<1> DEFINE m == tx[w].m
<1>1. TypeOK /\ Transactions /\ EmancipatedInv /\ CutHolds /\ tx[w] \in Tx
  BY DEF RegistryInv, TypeOK
<1>2. tx[w].op \in {"add", "end"} /\ tx[w].step = "commit" /\ m \in Minors /\ m \in Persons
  BY <1>1, Constants DEF LinkCommit, Transactions, About
<1>3. links' = (links \ tx[w].held) \cup New(w) /\ Step(w, NoTx)
      /\ UNCHANGED <<account, cut, has, erasure, clock, tick, asked>>
  BY DEF LinkCommit
<1>4. New(w) # {} => tx[w].q # Nobody /\ account[m] # "ACTIVE" /\ Shares(tx[w], m)
  BY <1>1, <1>2 DEF New, Transactions, Found, LinkFound, Shares
<1>5. New(w) \subseteq Adults \X Minors /\ \A l \in New(w) : l[2] = m
  BY <1>1, <1>2 DEF New, Tx
<1> HIDE DEF m
<1>6. ASSUME NEW v \in Connections \ {w} PROVE Found(tx[v])'
  <2>1. About(tx[v]) /\ Found(tx[v]) /\ Apart(tx[w], tx[v]) /\ tx'[v] = tx[v]
    BY <1>1, <1>3, OtherTransactions DEF Transactions
  <2>2. LinkFound(tx[v])' /\ ErasureFound(tx[v])'
    BY <1>3, <2>1 DEF Found, LinkFound, ErasureFound
  <2>3. ASSUME tx[v].op = "emancipate", tx[v].step = "commit"
        PROVE  LinksOn(tx[v].m)' \subseteq tx[v].held
    <3>1. LinksOn(tx[v].m) \subseteq tx[v].held /\ Keeps(tx[v], tx[v].m)
      BY <2>1, <2>3 DEF Found, EmancipationFound, Keeps
    <3>2. New(w) # {} => tx[v].m # m
      BY <1>2, <1>4, <2>1, <3>1 DEF Apart
    <3>3. {l \in links' : l[2] = tx[v].m} \subseteq {l \in links : l[2] = tx[v].m}
      BY <1>3, <1>5, <3>2
    <3> QED BY <2>1, <3>1, <3>3 DEF LinksOn
  <2>4. EmancipationFound(tx[v])'
    BY <1>3, <2>1, <2>3 DEF Found, EmancipationFound, Erased
  <2> QED BY <2>2, <2>4 DEF Found
<1>7. Transactions' /\ tx' \in [Connections -> Tx]
  BY <1>1, <1>3, <1>6, TransactionsEnd
<1>8. TypeOK'
  <2>1. links' \subseteq Adults \X Minors
    BY <1>1, <1>3, <1>5 DEF TypeOK
  <2> QED BY <1>1, <1>3, <1>7, <2>1 DEF TypeOK
<1>9. UnbornInv' /\ EmancipatedInv' /\ ErasureBuries'
  BY <1>3 DEF RegistryInv, UnbornInv, EmancipatedInv, ErasureBuries, Erased
<1>10. CutHolds'
  <2> SUFFICES ASSUME NEW l \in links'
               PROVE  account[l[2]] # "ACTIVE" /\ (l[2] \in cut => Erased(l[2]))
    BY <1>3 DEF CutHolds, Erased
  <2>1. CASE l \in links
    BY <1>1, <2>1 DEF CutHolds
  <2>2. CASE l \in New(w)
    BY <1>1, <1>4, <1>5, <2>2 DEF EmancipatedInv
  <2> QED BY <1>3, <2>1, <2>2
<1> QED
  BY <1>7, <1>8, <1>9, <1>10 DEF RegistryInv

\* An emancipation ends all links of the person, and gets an account nobody saw coming.
LEMMA EmancipateCommitStep ==
  ASSUME RegistryInv, NEW w \in Connections, EmancipateCommit(w)
  PROVE  RegistryInv'
<1> DEFINE m == tx[w].m
           held == tx[w].held
<1>1. TypeOK /\ Transactions /\ UnbornInv /\ EmancipatedInv /\ CutHolds /\ ErasureBuries
      /\ account \in [Persons -> {"unborn", "none", "ACTIVE", "DEACTIVATED"}]
  BY DEF RegistryInv, TypeOK
<1>2. tx[w].op = "emancipate" /\ tx[w].step = "commit" /\ m \in Minors /\ m \in Persons
  BY <1>1, Constants DEF EmancipateCommit, At, Transactions, About
<1>3. account[m] # "unborn" /\ ~Erased(m) /\ LinksOn(m) \subseteq held /\ Keeps(tx[w], m)
  BY <1>1, <1>2 DEF Transactions, Found, EmancipationFound, Keeps
<1>4. /\ account' = [account EXCEPT ![m] = "ACTIVE"]
      /\ links' = links \ held
      /\ cut' = IF held = {} THEN cut ELSE cut \cup {m}
      /\ Step(w, NoTx) /\ UNCHANGED <<has, erasure, clock, tick, asked>>
  BY DEF EmancipateCommit
<1> HIDE DEF m, held
<1>5. account'[m] = "ACTIVE" /\ \A p \in Persons \ {m} : account'[p] = account[p]
  BY <1>1, <1>2, <1>4
<1>6. ASSUME NEW v \in Connections \ {w} PROVE Found(tx[v])'
  <2>1. About(tx[v]) /\ Found(tx[v]) /\ Apart(tx[w], tx[v]) /\ tx'[v] = tx[v]
    BY <1>1, <1>4, OtherTransactions DEF Transactions
  <2>2. LinkFound(tx[v])'
    <3>1. tx[v].op = "attach" => tx[v].m \in Persons /\ tx[v].m # m
      BY <1>3, <2>1, Constants DEF About, Found, LinkFound
    <3>2. tx[v].op \in {"add", "end"} /\ tx[v].step = "commit" /\ tx[v].q # Nobody
             => tx[v].m \in Persons /\ tx[v].m # m
      <4>1. ~Shares(tx[v], m)
        BY <1>2, <1>3, <2>1 DEF Apart
      <4> QED BY <2>1, <4>1, Constants DEF About, Shares
    <3> QED BY <1>5, <2>1, <3>1, <3>2 DEF Found, LinkFound
  <2>3. ErasureFound(tx[v])'
    BY <1>4, <2>1 DEF Found, ErasureFound
  <2>4. EmancipationFound(tx[v])'
    <3>1. tx[v].op = "claim" => account'[tx[v].p] # "unborn"
      BY <1>5, <2>1 DEF About, Found, EmancipationFound
    <3>2. tx[v].op = "emancipate" /\ tx[v].step # "begin" => account'[tx[v].m] # "unborn"
      BY <1>5, <2>1, Constants DEF About, Found, EmancipationFound
    <3>3. \A p : LinksOn(p)' \subseteq LinksOn(p)
      BY <1>4 DEF LinksOn
    <3> QED BY <1>4, <2>1, <3>1, <3>2, <3>3 DEF Found, EmancipationFound, Erased, LinksOn
  <2> QED BY <2>2, <2>3, <2>4 DEF Found
<1>7. Transactions' /\ tx' \in [Connections -> Tx]
  BY <1>1, <1>4, <1>6, TransactionsEnd
<1>8. TypeOK'
  <2>1. account' \in [Persons -> {"unborn", "none", "ACTIVE", "DEACTIVATED"}]
    BY <1>1, <1>4
  <2>2. links' \subseteq Adults \X Minors /\ cut' \subseteq Minors
    BY <1>1, <1>2, <1>4 DEF TypeOK
  <2> QED BY <1>1, <1>4, <1>7, <2>1, <2>2 DEF TypeOK
<1>9. UnbornInv' /\ ErasureBuries'
  BY <1>1, <1>3, <1>4, <1>5 DEF UnbornInv, ErasureBuries, Erased
<1>10. EmancipatedInv'
  BY <1>1, <1>4, <1>5, Constants DEF EmancipatedInv, Erased, TypeOK
<1>11. CutHolds'
  <2> SUFFICES ASSUME NEW l \in links'
               PROVE  account'[l[2]] # "ACTIVE" /\ (l[2] \in cut' => Erased(l[2])')
    BY DEF CutHolds
  <2>1. l \in links /\ l[2] # m
    BY <1>3, <1>4 DEF LinksOn
  <2>2. l[2] \in Persons
    BY <1>1, <2>1, Constants DEF TypeOK
  <2>3. l[2] \in cut' => l[2] \in cut
    BY <1>4, <2>1
  <2> QED BY <1>1, <1>4, <1>5, <2>1, <2>2, <2>3 DEF CutHolds, Erased
<1> QED
  BY <1>7, <1>8, <1>9, <1>10, <1>11 DEF RegistryInv

\* The end of an erasure takes what its statements have seen, and that is all that
\* identifies the person.
LEMMA EraseCommitStep ==
  ASSUME RegistryInv, NEW w \in Connections, EraseCommit(w)
  PROVE  /\ RegistryInv'
         /\ tx[w].p \in Persons /\ erasure[tx[w].p].status = "REQUESTED"
         /\ erasure'[tx[w].p].status = "COMPLETED"
         /\ \A x \in Persons \ {tx[w].p} :
               account'[x] = account[x] /\ has'[x] = has[x] /\ erasure'[x] = erasure[x]
<1> DEFINE p == tx[w].p
           seen == tx[w].seen
           after == IF account[p] = "ACTIVE" THEN "DEACTIVATED" ELSE account[p]
<1>1. TypeOK /\ Transactions /\ UnbornInv /\ EmancipatedInv /\ CutHolds /\ ErasureBuries
      /\ account \in [Persons -> {"unborn", "none", "ACTIVE", "DEACTIVATED"}]
      /\ has \in [Persons -> SUBSET Things]
      /\ erasure \in [Persons -> [
             status : {"none", "REQUESTED", "RETRACTED", "COMPLETED"},
             mode : {"IMMEDIATE", "DELAYED"}, due : Nat, noticed : BOOLEAN]]
  BY DEF RegistryInv, TypeOK
<1>2. tx[w].op = "erase" /\ tx[w].step = "commit" /\ p \in Persons
  BY <1>1 DEF EraseCommit, At, Transactions, About
<1>3. erasure[p].status = "REQUESTED" /\ "identity" \in seen /\ has[p] \cap Claims \subseteq seen
      /\ Erases(tx[w], p) /\ Keeps(tx[w], p)
  BY <1>1, <1>2 DEF Transactions, Found, ErasureFound, Keeps, Erases
<1>4. /\ links' = links \ tx[w].held
      /\ has' = [has EXCEPT ![p] = has[p] \ seen]
      /\ account' = [account EXCEPT ![p] = after]
      /\ erasure' = [erasure EXCEPT ![p].status = "COMPLETED"]
      /\ Step(w, NoTx) /\ UNCHANGED <<cut, clock, tick, asked>>
  BY DEF EraseCommit
<1>5. after \in {"unborn", "none", "DEACTIVATED"} /\ after # "unborn" /\ account[p] # "unborn"
  BY <1>1, <1>2, <1>3 DEF UnbornInv
<1> HIDE DEF p, seen, after
<1>6. /\ account'[p] = after /\ has'[p] = has[p] \ seen /\ erasure'[p].status = "COMPLETED"
      /\ \A x \in Persons \ {p} :
            account'[x] = account[x] /\ has'[x] = has[x] /\ erasure'[x] = erasure[x]
  BY <1>1, <1>2, <1>4
<1>7. \A x \in Persons : Erased(x)' <=> Erased(x) \/ x = p
  BY <1>6 DEF Erased
<1>8. ASSUME NEW v \in Connections \ {w} PROVE Found(tx[v])'
  <2>1. About(tx[v]) /\ Found(tx[v]) /\ Apart(tx[w], tx[v]) /\ tx'[v] = tx[v]
    BY <1>1, <1>4, OtherTransactions DEF Transactions
  <2>2. ~Keeps(tx[v], p) /\ ~Erases(tx[v], p)
    BY <1>2, <1>3, <2>1 DEF Apart
  <2>3. LinkFound(tx[v])'
    <3>1. tx[v].op \in {"attach", "add", "end"} => tx[v].m \in Persons
      BY <2>1, Constants DEF About
    <3> QED BY <1>5, <1>6, <2>1, <3>1 DEF Found, LinkFound
  <2>4. ErasureFound(tx[v])'
    <3>1. tx[v].op = "erase" => tx[v].p \in Persons
      BY <2>1 DEF About
    <3>2. tx[v].op = "erase" /\ tx[v].step # "begin" => tx[v].p # p
      BY <2>2 DEF Erases
    <3> QED BY <1>6, <2>1, <3>1, <3>2 DEF Found, ErasureFound
  <2>5. EmancipationFound(tx[v])'
    <3>1. tx[v].op = "claim" => tx[v].p \in Persons /\ tx[v].p # p
      BY <2>1, <2>2 DEF About, Keeps
    <3>2. tx[v].op = "emancipate" => tx[v].m \in Persons
      BY <2>1, Constants DEF About
    <3>3. tx[v].op = "emancipate" /\ tx[v].step # "begin" => tx[v].m # p
      BY <2>2 DEF Keeps
    <3>4. \A x : LinksOn(x)' \subseteq LinksOn(x)
      BY <1>4 DEF LinksOn
    <3> QED BY <1>6, <2>1, <3>1, <3>2, <3>3, <3>4 DEF Found, EmancipationFound, Erased, LinksOn
  <2> QED BY <2>3, <2>4, <2>5 DEF Found
<1>9. Transactions' /\ tx' \in [Connections -> Tx]
  BY <1>1, <1>4, <1>8, TransactionsEnd
<1>10. TypeOK'
  <2>1. account' \in [Persons -> {"unborn", "none", "ACTIVE", "DEACTIVATED"}]
    BY <1>1, <1>4, <1>5
  <2>2. links' \subseteq Adults \X Minors
    BY <1>1, <1>4 DEF TypeOK
  <2>3. has' \in [Persons -> SUBSET Things]
    BY <1>1, <1>2, <1>4
  <2>4. erasure' \in [Persons -> [
             status : {"none", "REQUESTED", "RETRACTED", "COMPLETED"},
             mode : {"IMMEDIATE", "DELAYED"}, due : Nat, noticed : BOOLEAN]]
    BY <1>1, <1>2, <1>4
  <2> QED BY <1>1, <1>4, <1>9, <2>1, <2>2, <2>3, <2>4 DEF TypeOK
<1>11. UnbornInv'
  BY <1>1, <1>5, <1>6 DEF UnbornInv
<1>12. EmancipatedInv'
  BY <1>1, <1>4, <1>6, <1>7, Constants DEF EmancipatedInv, TypeOK
<1>13. CutHolds'
  <2> SUFFICES ASSUME NEW l \in links'
               PROVE  account'[l[2]] # "ACTIVE" /\ (l[2] \in cut' => Erased(l[2])')
    BY DEF CutHolds
  <2>1. l \in links
    BY <1>4
  <2>2. l[2] \in Persons
    BY <1>1, <2>1, Constants DEF TypeOK
  <2> QED BY <1>1, <1>4, <1>5, <1>6, <1>7, <2>1, <2>2 DEF CutHolds
<1>14. ErasureBuries'
  <2> SUFFICES ASSUME NEW x \in Persons, Erased(x)'
               PROVE  account'[x] # "ACTIVE" /\ has'[x] \cap ({"identity"} \cup Claims) = {}
    BY DEF ErasureBuries
  <2>1. CASE x = p
    BY <1>3, <1>5, <1>6, <2>1
  <2>2. CASE x # p
    BY <1>1, <1>6, <1>7, <2>2 DEF ErasureBuries
  <2> QED BY <2>1, <2>2
<1>15. RegistryInv'
  BY <1>9, <1>10, <1>11, <1>12, <1>13, <1>14 DEF RegistryInv
<1> QED
  BY <1>2, <1>3, <1>6, <1>7, <1>15 DEF p

-----------------------------------------------------------------------------
(***************************************************************************)
(* The invariant holds.                                                    *)
(***************************************************************************)
LEMMA RegistryInit == Init => RegistryInv
<1> SUFFICES ASSUME Init PROVE RegistryInv
  OBVIOUS
<1>1. PICK waiting \in SUBSET {m \in OfAge : account[m] = "none"},
           leaving \in SUBSET (Adults \cap Subjects) :
        /\ has = [p \in Persons |-> (IF account[p] = "none" THEN {"identity"} ELSE {})
                                    \cup (IF p \in waiting THEN {"PENDING"} ELSE {})]
        /\ erasure = [p \in Persons |->
                        IF p \in leaving THEN [NoErasure EXCEPT !.status = "REQUESTED", !.due = Window]
                        ELSE NoErasure]
  BY DEF Init
<1>2. links \in SUBSET (Adults \X Minors) /\ cut = {} /\ clock = 0 /\ tick = NoTick /\ asked = 0
      /\ tx = [w \in Connections |-> NoTx]
  BY DEF Init
<1>3. account = [p \in Persons |-> CASE p \in Adults -> "ACTIVE"
                                     [] \E a \in Adults : <<a, p>> \in links -> "none"
                                     [] OTHER -> "unborn"]
  BY DEF Init
<1>4. \A p \in Persons : /\ account[p] \in {"ACTIVE", "none", "unborn"}
                         /\ p \in Adults => account[p] = "ACTIVE"
                         /\ p \notin Adults => account[p] # "ACTIVE"
  <2> SUFFICES ASSUME NEW p \in Persons
               PROVE  /\ account[p] \in {"ACTIVE", "none", "unborn"}
                      /\ p \in Adults => account[p] = "ACTIVE"
                      /\ p \notin Adults => account[p] # "ACTIVE"
    OBVIOUS
  <2> DEFINE attached == \E a \in Adults : <<a, p>> \in links
  <2>1. account[p] = CASE p \in Adults -> "ACTIVE" [] attached -> "none" [] OTHER -> "unborn"
    BY <1>3
  <2>2. p \in Adults => ~attached
    BY <1>2, RegistryAssumption DEF RegistryAssumption
  <2> HIDE DEF attached
  <2> QED BY <2>1, <2>2
<1>5. \A p \in Persons : /\ has[p] \in SUBSET {"identity", "PENDING"}
                         /\ account[p] = "unborn" => has[p] = {}
  BY <1>1
<1>6. \A p \in Persons :
          /\ erasure[p] \in [status : {"none", "REQUESTED"}, mode : {"DELAYED"}, due : Nat,
                             noticed : {FALSE}]
          /\ p \notin Adults => erasure[p].status = "none"
  <2>1. NoErasure \in [status : {"none", "REQUESTED"}, mode : {"DELAYED"}, due : Nat, noticed : {FALSE}]
        /\ NoErasure.status = "none"
    BY DEF NoErasure
  <2>2. [NoErasure EXCEPT !.status = "REQUESTED", !.due = Window]
          \in [status : {"none", "REQUESTED"}, mode : {"DELAYED"}, due : Nat, noticed : {FALSE}]
    BY Constants DEF NoErasure
  <2> QED BY <1>1, <2>1, <2>2
<1>7. TypeOK
  <2>1. account \in [Persons -> {"unborn", "none", "ACTIVE", "DEACTIVATED"}]
    BY <1>3, <1>4
  <2>2. has \in [Persons -> SUBSET Things]
    BY <1>1, <1>5 DEF Things
  <2>3. erasure \in [Persons -> [status : {"none", "REQUESTED", "RETRACTED", "COMPLETED"},
                                mode : {"IMMEDIATE", "DELAYED"}, due : Nat, noticed : BOOLEAN]]
    BY <1>1, <1>6
  <2>4. tick \in [step : {"idle", "notices", "due"}, todo : SUBSET Persons, at : 0..MaxTime]
    BY <1>2, Constants DEF NoTick
  <2>5. tx \in [Connections -> Tx]
    BY <1>2, NoTxIsNothing
  <2> QED BY <1>2, <2>1, <2>2, <2>3, <2>4, <2>5, Constants DEF TypeOK
<1>8. Transactions
  BY <1>2, NoTxIsNothing DEF Transactions
<1>9. UnbornInv
  BY <1>4, <1>5, <1>6 DEF UnbornInv
<1>10. EmancipatedInv
  BY <1>2 DEF EmancipatedInv
<1>11. CutHolds
  <2> SUFFICES ASSUME NEW l \in links PROVE account[l[2]] # "ACTIVE" /\ l[2] \notin cut
    BY DEF CutHolds
  <2>1. l[2] \in Minors /\ l[2] \in Persons
    BY <1>2, Constants
  <2>2. l[2] \notin Adults
    BY <2>1, RegistryAssumption DEF RegistryAssumption
  <2> QED BY <1>2, <1>4, <2>1, <2>2
<1>12. ErasureBuries
  BY <1>6 DEF ErasureBuries, Erased
<1> QED
  BY <1>7, <1>8, <1>9, <1>10, <1>11, <1>12 DEF RegistryInv

LEMMA StatementStep ==
  ASSUME RegistryInv, NEW w \in Connections, Statement(w)
  PROVE  RegistryInv'
  BY AttachCommitStep, LinkStatements, LinkWrittenStep, LinkCommitStep, ThingSteps, ClaimCommitStep,
     RetractCommitStep, EmancipateStatements, EmancipateCommitStep, EraseStatements, EraseCommitStep
  DEF Statement

LEMMA RequestStep ==
  ASSUME RegistryInv, NEW w \in Connections, Request(w)
  PROVE  RegistryInv'
<1>1. CASE ResponsibilityRequest(w)
  BY <1>1, AttachStep, RequestSteps DEF ResponsibilityRequest
<1>2. CASE ErasureRequest(w)
  <2> PICK p \in Subjects : \/ \E mode \in {"IMMEDIATE", "DELAYED"} : RequestSelf(w, p, mode)
                           \/ RetractSelf(w, p) \/ EraseByStaff(w, p)
    BY <1>2 DEF ErasureRequest
  <2>1. p \in Persons
    BY Constants
  <2>2. CASE \E mode \in {"IMMEDIATE", "DELAYED"} : RequestSelf(w, p, mode)
    BY <2>1, <2>2, RecordStep DEF RequestSelf
  <2>3. CASE RetractSelf(w, p)
    BY <2>1, <2>3, RequestSteps
  <2>4. CASE EraseByStaff(w, p)
    BY <2>1, <2>4, RecordStep DEF EraseByStaff
  <2> QED BY <2>2, <2>3, <2>4
<1>3. CASE PersonRequest(w)
  BY <1>3, Constants, ThingSteps, RequestSteps, ClaimBegins, VerifyStep DEF PersonRequest
<1>4. CASE EmancipationRequest(w)
  BY <1>4, ClaimBegins, CompleteEmancipationStep DEF EmancipationRequest
<1> QED
  BY <1>1, <1>2, <1>3, <1>4 DEF Request

LEMMA RegistryStep == RegistryInv /\ [Next]_vars => RegistryInv'
<1> SUFFICES ASSUME RegistryInv, [Next]_vars PROVE RegistryInv'
  OBVIOUS
<1>1. ASSUME NEW w \in Connections, Request(w) \/ Statement(w) \/ DeadlockAbort(w) \/ Rollback(w)
      PROVE  RegistryInv'
  BY <1>1, RequestStep, StatementStep, OutsideSteps
<1>2. CASE Tick \/ Restart \/ Pass
  BY <1>2, OutsideSteps, NoticeStep DEF Tick
<1>3. CASE UNCHANGED vars
  BY <1>3 DEF vars, RegistryInv, TypeOK, Transactions, About, Found, LinkFound, ErasureFound,
     EmancipationFound, Apart, Keeps, Shares, Erases, Attaches, UnbornInv, EmancipatedInv, CutHolds,
     ErasureBuries, Erased, LinksOn, State
<1> QED
  BY <1>1, <1>2, <1>3 DEF Next

LEMMA RegistryInvHolds == Spec => []RegistryInv
  BY RegistryInit, RegistryStep, PTL DEF Spec

-----------------------------------------------------------------------------
(***************************************************************************)
(* The notice before the execution.                                        *)
(***************************************************************************)
\* A delayed erasure that nobody was told of.
Unwarned(p) == erasure[p].status = "REQUESTED" /\ erasure[p].mode = "DELAYED" /\ ~erasure[p].noticed

\* A tick lists at its start whoever falls due before it can end, and tells them before it
\* executes anybody; whoever asks later falls due later.
TickWarns ==
    /\ tick.step # "idle" => tick.at <= clock /\ clock < tick.at + Lead
    /\ tick.step = "notices" =>
          \A p \in Persons : Unwarned(p) /\ erasure[p].due < tick.at + Lead => p \in tick.todo
    /\ tick.step = "due" => \A p \in Persons : Unwarned(p) => erasure[p].due >= tick.at + Lead
    /\ tick.step # "due" => tx[Scheduler].op # "erase"

\* A request that has recorded an IMMEDIATE erasure reaches its execution before any delayed
\* one recorded since falls due.
RequestWarns == \A w \in Requests : At(w, "erase", "begin") =>
    /\ tx[w].now <= clock /\ clock < tx[w].now + Window
    /\ Unwarned(tx[w].p) => erasure[tx[w].p].due >= tx[w].now + Window

\* Who is being erased, and who was, has been told.
ExecutesWarned == \A w \in Connections :
    tx[w].op = "erase" /\ tx[w].step # "begin" => ~Unwarned(tx[w].p)

NoticeInv == TickWarns /\ RequestWarns /\ ExecutesWarned /\ ErasedWasNoticed

\* A step of w that erases nobody, records nothing and leaves the tick alone.
Quiet(w) ==
    /\ UNCHANGED <<erasure, clock, tick>>
    /\ \A v \in Connections \ {w} : tx'[v] = tx[v]
    /\ tx'[w].op # "erase"

LEMMA QuietKeeps ==
  ASSUME NoticeInv, NEW w \in Connections, Quiet(w)
  PROVE  NoticeInv'
<1>1. \A v \in Connections : tx'[v].op = "erase" => tx'[v] = tx[v]
  BY DEF Quiet
<1>2. TickWarns'
  BY <1>1, Constants DEF NoticeInv, TickWarns, Quiet, Unwarned
<1>3. RequestWarns'
  BY <1>1, Constants DEF NoticeInv, RequestWarns, Quiet, Unwarned, At
<1>4. ExecutesWarned'
  BY <1>1 DEF NoticeInv, ExecutesWarned, Quiet, Unwarned
<1>5. ErasedWasNoticed'
  BY DEF NoticeInv, ErasedWasNoticed, Quiet, Erased
<1> QED
  BY <1>2, <1>3, <1>4, <1>5 DEF NoticeInv

LEMMA AskIsQuiet ==
  ASSUME TypeOK, NEW w \in Connections, NEW p, NEW op, NEW step, NEW q, NEW m,
         AskAs(w, p, op, step, q, m), op # "erase"
  PROVE  Quiet(w)
<1>1. [NoTx EXCEPT !.op = op, !.step = step, !.p = p, !.q = q, !.m = m, !.now = clock].op = op
  BY DEF NoTx
<1>2. /\ tx' = [tx EXCEPT ![w] = [NoTx EXCEPT !.op = op, !.step = step, !.p = p, !.q = q, !.m = m,
                                             !.now = clock]]
      /\ UNCHANGED <<State, clock, tick>>
  BY DEF AskAs, Step
<1> QED
  BY <1>1, <1>2 DEF Quiet, State, TypeOK

\* The transaction of w is replaced by one that erases nobody.
LEMMA StepIsQuiet ==
  ASSUME TypeOK, NEW w \in Connections, NEW t, Step(w, t), t.op # "erase",
         UNCHANGED <<erasure, clock, tick>>
  PROVE  Quiet(w)
  BY DEF Step, Quiet, TypeOK

LEMMA AdvanceIsQuiet ==
  ASSUME TypeOK, NEW w \in Connections, NEW accepted, NEW t, Advance(w, accepted, t), t.op # "erase"
  PROVE  Quiet(w)
<1>1. NoTx.op # "erase"
  BY NoTxIsNothing
<1>2. CASE accepted
  BY <1>2, StepIsQuiet DEF Advance, State
<1>3. CASE ~accepted
  BY <1>1, <1>3, StepIsQuiet DEF Advance, State
<1> QED
  BY <1>2, <1>3

LEMMA QuietRequests ==
  ASSUME TypeOK, NEW w \in Connections,
         ResponsibilityRequest(w) \/ PersonRequest(w) \/ EmancipationRequest(w)
         \/ (\E p \in Subjects : RetractSelf(w, p))
  PROVE  Quiet(w)
<1>1. ASSUME Ask(w), UNCHANGED <<erasure, clock, tick, tx>> PROVE Quiet(w)
  BY <1>1 DEF Ask, Idle, Quiet
<1>2. CASE ResponsibilityRequest(w)
  <2>1. ASSUME NEW p \in Adults, NEW m \in Minors, Attach(w, p, m) PROVE Quiet(w)
    BY <2>1, AskIsQuiet DEF Attach
  <2>2. ASSUME NEW p \in Adults, NEW q \in Adults, NEW m \in Minors, AddCoResponsible(w, p, q, m)
        PROVE  Quiet(w)
    BY <2>2, AskIsQuiet DEF AddCoResponsible
  <2>3. ASSUME NEW p \in Adults, NEW q \in Adults \cup {Nobody}, NEW m \in Minors,
               EndResponsibility(w, p, q, m)
        PROVE  Quiet(w)
    <3> DEFINE t == [NoTx EXCEPT !.op = "end", !.step = "begin", !.p = p, !.q = q, !.m = m]
    <3>1. Step(w, t) /\ UNCHANGED <<erasure, clock, tick>>
      BY <2>3 DEF EndResponsibility, State
    <3>2. t.op = "end"
      BY DEF NoTx
    <3> QED BY <3>1, <3>2, StepIsQuiet
  <2> QED BY <1>2, <2>1, <2>2, <2>3 DEF ResponsibilityRequest
<1>3. CASE PersonRequest(w)
  <2> PICK p \in Subjects : \/ Provide(w, p) \/ ReplaceProfile(w, p) \/ GrantSelf(w, p)
                           \/ GrantByOther(w, p) \/ Declare(w, p) \/ Verify(w, p)
    BY <1>3 DEF PersonRequest
  <2>1. CASE Provide(w, p) \/ Verify(w, p)
    BY <1>1, <2>1 DEF Provide, Verify
  <2>2. CASE ReplaceProfile(w, p)
    BY <2>2, AskIsQuiet DEF ReplaceProfile
  <2>3. CASE GrantSelf(w, p)
    BY <2>3, AskIsQuiet DEF GrantSelf
  <2>4. CASE Declare(w, p)
    BY <2>4, AskIsQuiet DEF Declare
  <2>5. CASE GrantByOther(w, p)
    <3>1. Step(w, [NoTx EXCEPT !.op = "given", !.step = "commit", !.p = p])
          /\ UNCHANGED <<erasure, clock, tick>>
      BY <2>5 DEF GrantByOther, State
    <3>2. [NoTx EXCEPT !.op = "given", !.step = "commit", !.p = p].op = "given"
      BY DEF NoTx
    <3> QED BY <3>1, <3>2, StepIsQuiet
  <2> QED BY <2>1, <2>2, <2>3, <2>4, <2>5
<1>4. CASE EmancipationRequest(w)
  <2> PICK m \in Minors : StartEmancipation(w, m) \/ CompleteEmancipation(w, m)
    BY <1>4 DEF EmancipationRequest
  <2>1. CASE StartEmancipation(w, m)
    <3>1. Step(w, [NoTx EXCEPT !.op = "claim", !.step = "begin", !.p = m])
          /\ UNCHANGED <<erasure, clock, tick>>
      BY <2>1 DEF StartEmancipation, State
    <3>2. [NoTx EXCEPT !.op = "claim", !.step = "begin", !.p = m].op = "claim"
      BY DEF NoTx
    <3> QED BY <3>1, <3>2, StepIsQuiet
  <2>2. CASE CompleteEmancipation(w, m)
    <3>1. Step(w, [NoTx EXCEPT !.op = "emancipate", !.step = "begin", !.m = m])
          /\ UNCHANGED <<erasure, clock, tick>>
      BY <2>2 DEF CompleteEmancipation
    <3>2. [NoTx EXCEPT !.op = "emancipate", !.step = "begin", !.m = m].op = "emancipate"
      BY DEF NoTx
    <3> QED BY <3>1, <3>2, StepIsQuiet
  <2> QED BY <2>1, <2>2
<1>5. CASE \E p \in Subjects : RetractSelf(w, p)
  BY <1>5, AskIsQuiet DEF RetractSelf
<1> QED
  BY <1>2, <1>3, <1>4, <1>5

LEMMA QuietStatements ==
  ASSUME TypeOK, NEW w \in Connections,
         \/ AttachCommit(w) \/ EndLock(w) \/ (GuardInsert(w) /\ tx[w].op # "erase")
         \/ LinkWritten(w) \/ LinkCommit(w) \/ ThingCommit(w) \/ ClaimCommit(w)
         \/ EmancipateLock(w) \/ EmancipateLinks(w) \/ EmancipateCommit(w)
         \/ DeadlockAbort(w) \/ Rollback(w)
  PROVE  Quiet(w)
<1>1. NoTx.op # "erase" /\ tx[w] \in Tx
  BY NoTxIsNothing DEF TypeOK
<1>2. CASE AttachCommit(w) \/ LinkCommit(w) \/ ThingCommit(w) \/ ClaimCommit(w)
           \/ EmancipateCommit(w) \/ DeadlockAbort(w) \/ Rollback(w)
  <2>1. Step(w, NoTx) /\ UNCHANGED <<erasure, clock, tick>>
    BY <1>2 DEF AttachCommit, LinkCommit, ThingCommit, ClaimCommit, EmancipateCommit, DeadlockAbort,
       Rollback, State
  <2> QED BY <1>1, <2>1, StepIsQuiet
<1>3. CASE EndLock(w)
  <2> DEFINE t == [tx[w] EXCEPT !.held = {<<tx[w].p, tx[w].m>>},
                                !.step = IF tx[w].q = Nobody THEN "minor" ELSE "guard"]
  <2>1. t.op = tx[w].op /\ tx[w].op = "end"
    BY <1>1, <1>3 DEF Tx, EndLock, At
  <2>2. Advance(w, <<tx[w].p, tx[w].m>> \in links, t)
    BY <1>3 DEF EndLock
  <2> QED BY <2>1, <2>2, AdvanceIsQuiet
<1>4. CASE GuardInsert(w) /\ tx[w].op # "erase"
  <2> DEFINE t == [tx[w] EXCEPT !.step = "minor"]
  <2>1. t.op = tx[w].op
    BY <1>1 DEF Tx
  <2> QED BY <1>4, <2>1, AdvanceIsQuiet DEF GuardInsert
<1>5. CASE LinkWritten(w)
  <2>1. [tx[w] EXCEPT !.step = "commit"].op = tx[w].op /\ EndAlone(w).op = tx[w].op
    BY <1>1 DEF Tx, EndAlone
  <2>2. tx[w].op # "erase"
    BY <1>5 DEF LinkWritten
  <2>3. \/ Advance(w, TRUE, EndAlone(w))
        \/ \E accepted : Advance(w, accepted, [tx[w] EXCEPT !.step = "commit"])
    BY <1>5 DEF LinkWritten
  <2> QED BY <2>1, <2>2, <2>3, AdvanceIsQuiet
<1>6. CASE EmancipateLock(w)
  <2> DEFINE t == [tx[w] EXCEPT !.step = "links", !.todo = LinksOn(tx[w].m)]
  <2>1. t.op = tx[w].op /\ tx[w].op = "emancipate"
    BY <1>1, <1>6 DEF Tx, EmancipateLock, At
  <2> QED BY <1>6, <2>1, AdvanceIsQuiet DEF EmancipateLock
<1>7. CASE EmancipateLinks(w)
  <2> DEFINE t == [tx[w] EXCEPT !.step = "commit", !.todo = {}, !.held = tx[w].todo \cap links]
  <2>1. t.op = tx[w].op /\ tx[w].op = "emancipate"
    BY <1>1, <1>7 DEF Tx, EmancipateLinks, At
  <2> QED BY <1>7, <2>1, AdvanceIsQuiet DEF EmancipateLinks
<1> QED
  BY <1>2, <1>3, <1>4, <1>5, <1>6, <1>7

\* The row of p is replaced; nobody who erases changes, unless w has just asked for it.
Begins(w, p) ==
    /\ w \in Requests /\ At(w, "erase", "begin")' /\ tx'[w].p = p /\ tx'[w].now = clock
    /\ erasure'[p].mode = "IMMEDIATE"

LEMMA RowChanges ==
  ASSUME RegistryInv, NoticeInv, NEW w \in Connections, NEW p \in Persons, NEW row,
         erasure' = [erasure EXCEPT ![p] = row],
         UNCHANGED <<clock, tick>>,
         \A v \in Connections \ {w} : tx'[v] = tx[v], tx'[w].op # "erase" \/ Begins(w, p),
         \/ row.status # "REQUESTED" \/ row.mode # "DELAYED" \/ row.noticed
         \/ Unwarned(p) /\ row.due = erasure[p].due
         \/ erasure[p].status # "REQUESTED" /\ row.due >= clock + Window /\ row.due \in Nat,
         row.status = "COMPLETED" /\ row.mode = "DELAYED" => row.noticed
  PROVE  NoticeInv'
<1>0. TypeOK /\ Transactions /\ clock \in 0..MaxTime /\ Window \in Nat /\ Lead \in 1..Window
      /\ \A x \in Persons : erasure[x].due \in Nat
  BY RegistryAssumption DEF RegistryInv, TypeOK, RegistryAssumption
<1>1. erasure'[p] = row /\ \A x \in Persons \ {p} : erasure'[x] = erasure[x]
  BY <1>0 DEF TypeOK
<1>2. \A x \in Persons \ {p} : Unwarned(x)' <=> Unwarned(x)
  BY <1>1 DEF Unwarned
<1>3. Unwarned(p)' => \/ Unwarned(p) /\ erasure'[p].due = erasure[p].due
                      \/ /\ erasure[p].status # "REQUESTED"
                         /\ erasure'[p].due >= clock + Window /\ erasure'[p].due \in Nat
  BY <1>1 DEF Unwarned
<1>4. \A v \in Connections : tx'[v].op = "erase" => tx'[v] = tx[v] \/ (v = w /\ Begins(w, p))
  OBVIOUS
<1>5. TickWarns'
  <2>1. tick.step # "idle" => tick.at \in Nat /\ tick.at <= clock /\ clock < tick.at + Lead
    BY <1>0 DEF NoticeInv, TickWarns, TypeOK
  <2>2. ASSUME NEW x \in Persons, Unwarned(x)', tick.step # "idle"
        PROVE  \/ Unwarned(x) /\ erasure'[x].due = erasure[x].due
               \/ erasure'[x].due >= tick.at + Lead
    BY <1>0, <1>1, <1>2, <1>3, <2>1, <2>2
  <2>3. tick.step = "notices" =>
          \A x \in Persons : Unwarned(x)' /\ erasure'[x].due < tick.at + Lead => x \in tick.todo
    <3> SUFFICES ASSUME tick.step = "notices", NEW x \in Persons, Unwarned(x)',
                        erasure'[x].due < tick.at + Lead
                 PROVE  x \in tick.todo
      OBVIOUS
    <3>1. erasure'[x].due \in Nat
      BY <1>0, <1>1, <1>2, <1>3
    <3> QED BY <1>0, <2>1, <2>2, <3>1 DEF NoticeInv, TickWarns
  <2>4. tick.step = "due" => \A x \in Persons : Unwarned(x)' => erasure'[x].due >= tick.at + Lead
    BY <2>2 DEF NoticeInv, TickWarns
  <2>5. tick.step # "due" => tx'[Scheduler].op # "erase"
    BY <1>4, Constants, RegistryAssumption DEF NoticeInv, TickWarns, RegistryAssumption, Begins
  <2> QED BY <2>1, <2>3, <2>4, <2>5 DEF TickWarns
<1>6. RequestWarns'
  <2> SUFFICES ASSUME NEW v \in Requests, tx'[v].op = "erase", tx'[v].step = "begin"
               PROVE  /\ tx'[v].now <= clock /\ clock < tx'[v].now + Window
                      /\ Unwarned(tx[v].p)' => erasure'[tx'[v].p].due >= tx'[v].now + Window
    BY DEF RequestWarns, At
  <2>0. CASE v = w /\ Begins(w, p)
    <3>1. tx'[v].p = p /\ tx'[v].now = clock /\ erasure'[p].mode = "IMMEDIATE"
      BY <2>0 DEF Begins
    <3>2. clock < clock + Window
      BY <1>0
    <3> QED BY <1>0, <3>1, <3>2 DEF Unwarned
  <2>1. CASE tx'[v] = tx[v]
    <3>1. At(v, "erase", "begin") /\ tx[v].p \in Persons /\ tx[v].now \in 0..MaxTime
      BY <1>0, <2>1, Constants DEF Transactions, About, At, TypeOK, Tx
    <3>2. tx[v].now <= clock /\ clock < tx[v].now + Window
          /\ (Unwarned(tx[v].p) => erasure[tx[v].p].due >= tx[v].now + Window)
      BY <3>1 DEF NoticeInv, RequestWarns
    <3>3. ASSUME NEW x \in Persons, x = tx[v].p, Unwarned(x)'
          PROVE  erasure'[x].due >= tx[v].now + Window
      BY <1>0, <1>1, <1>2, <1>3, <3>1, <3>2, <3>3
    <3> QED BY <2>1, <3>1, <3>2, <3>3 DEF Unwarned
  <2> QED BY <1>4, <2>0, <2>1, Constants
<1>7. ExecutesWarned'
  <2> SUFFICES ASSUME NEW v \in Connections, tx'[v].op = "erase", tx'[v].step # "begin"
               PROVE  ~Unwarned(tx[v].p)'
    BY DEF ExecutesWarned
  <2>1. tx'[v] = tx[v] /\ tx[v].p \in Persons /\ erasure[tx[v].p].status = "REQUESTED"
        /\ ~Unwarned(tx[v].p)
    BY <1>0, <1>4 DEF Begins, At, Transactions, About, Found, ErasureFound, NoticeInv, ExecutesWarned
  <2>2. ASSUME NEW x \in Persons, x = tx[v].p PROVE ~Unwarned(x)'
    BY <1>2, <1>3, <2>1, <2>2
  <2> QED BY <2>1, <2>2 DEF Unwarned
<1>8. ErasedWasNoticed'
  BY <1>1 DEF NoticeInv, ErasedWasNoticed, Erased
<1> QED
  BY <1>5, <1>6, <1>7, <1>8 DEF NoticeInv

LEMMA RecordWarns ==
  ASSUME RegistryInv, NoticeInv, NEW w \in Connections, NEW p \in Persons,
         NEW mode \in {"IMMEDIATE", "DELAYED"}, Record(w, p, mode)
  PROVE  NoticeInv'
<1> DEFINE due == IF mode = "IMMEDIATE" THEN clock ELSE clock + Window
           row == [status |-> "REQUESTED", mode |-> mode, noticed |-> FALSE, due |-> due]
           t == [NoTx EXCEPT !.op = "erase", !.step = "begin", !.p = p, !.now = clock]
<1>1. TypeOK /\ clock \in Nat /\ Window \in Nat
  BY Constants DEF RegistryInv, TypeOK
<1>2. /\ w \in Requests /\ erasure[p].status # "REQUESTED" /\ UNCHANGED <<clock, tick>>
      /\ tx' = [tx EXCEPT ![w] = IF mode = "IMMEDIATE" THEN t ELSE NoTx]
      /\ erasure' = [erasure EXCEPT ![p] = row]
  BY DEF Record, Ask, Step
<1>3. NoTx.op = "none" /\ t.op = "erase" /\ t.step = "begin" /\ t.p = p /\ t.now = clock
  BY DEF NoTx
<1> HIDE DEF t
<1>4. tx'[w] = (IF mode = "IMMEDIATE" THEN t ELSE NoTx) /\ \A v \in Connections \ {w} : tx'[v] = tx[v]
  BY <1>1, <1>2 DEF TypeOK
<1>5. row.status = "REQUESTED" /\ row.mode = mode /\ row.due = due
      /\ erasure'[p].mode = mode
  BY <1>1, <1>2 DEF TypeOK
<1> HIDE DEF row
<1>6. CASE mode = "IMMEDIATE"
  <2>1. Begins(w, p)
    BY <1>2, <1>3, <1>4, <1>5, <1>6 DEF Begins, At
  <2> QED BY <1>2, <1>4, <1>5, <1>6, <2>1, RowChanges
<1>7. CASE mode = "DELAYED"
  <2>1. row.due >= clock + Window /\ row.due \in Nat
    BY <1>1, <1>5, <1>7
  <2> QED BY <1>2, <1>3, <1>4, <1>5, <1>7, <2>1, RowChanges
<1> QED
  BY <1>6, <1>7

LEMMA RetractWarns ==
  ASSUME RegistryInv, NoticeInv, NEW w \in Connections, RetractCommit(w)
  PROVE  NoticeInv'
<1> DEFINE p == tx[w].p
           row == [erasure[p] EXCEPT !.status = "RETRACTED"]
<1>1. TypeOK /\ p \in Persons /\ NoTx.op # "erase"
  BY NoTxIsNothing DEF RegistryInv, Transactions, About, RetractCommit, At
<1>2. Step(w, NoTx) /\ UNCHANGED <<clock, tick>>
  BY DEF RetractCommit
<1>3. tx'[w] = NoTx /\ \A v \in Connections \ {w} : tx'[v] = tx[v]
  BY <1>1, <1>2 DEF Step, TypeOK
<1>4. CASE erasure' = erasure
  BY <1>1, <1>2, <1>4, StepIsQuiet, QuietKeeps
<1>5. CASE erasure' = [erasure EXCEPT ![p].status = "RETRACTED"]
  <2>1. erasure' = [erasure EXCEPT ![p] = row]
    BY <1>5
  <2>2. row.status = "RETRACTED"
    BY <1>1 DEF TypeOK
  <2> HIDE DEF row
  <2>3. PICK x \in Persons : x = p
    BY <1>1
  <2> HIDE DEF p
  <2> QED BY <1>1, <1>2, <1>3, <2>1, <2>2, <2>3, RowChanges
<1> QED
  BY <1>4, <1>5 DEF RetractCommit

LEMMA EraseCommitWarns ==
  ASSUME RegistryInv, NoticeInv, NEW w \in Connections, EraseCommit(w)
  PROVE  NoticeInv'
<1> DEFINE p == tx[w].p
           row == [erasure[p] EXCEPT !.status = "COMPLETED"]
<1>1. TypeOK /\ p \in Persons /\ NoTx.op # "erase" /\ erasure[p].status = "REQUESTED"
      /\ ~Unwarned(p)
  BY NoTxIsNothing DEF RegistryInv, Transactions, About, Found, ErasureFound, EraseCommit, At,
     NoticeInv, ExecutesWarned
<1>2. Step(w, NoTx) /\ UNCHANGED <<clock, tick>> /\ erasure' = [erasure EXCEPT ![p].status = "COMPLETED"]
  BY DEF EraseCommit
<1>3. tx'[w] = NoTx /\ \A v \in Connections \ {w} : tx'[v] = tx[v]
  BY <1>1, <1>2 DEF Step, TypeOK
<1>4. erasure' = [erasure EXCEPT ![p] = row]
  BY <1>2
<1>5. row.status = "COMPLETED" /\ row.mode = erasure[p].mode /\ row.noticed = erasure[p].noticed
  BY <1>1 DEF TypeOK
<1>6. row.mode = "DELAYED" => row.noticed
  BY <1>1, <1>5 DEF Unwarned
<1> HIDE DEF row
<1>7. PICK x \in Persons : x = p
  BY <1>1
<1> HIDE DEF p
<1>8. /\ erasure' = [erasure EXCEPT ![x] = row] /\ row.status # "REQUESTED"
      /\ UNCHANGED <<clock, tick>> /\ tx'[w].op # "erase"
      /\ row.status = "COMPLETED" /\ row.mode = "DELAYED" => row.noticed
  BY <1>1, <1>2, <1>3, <1>4, <1>5, <1>6, <1>7
<1> QED
  BY <1>3, <1>8, RowChanges

\* The statements of an erasure after the verdict on its row.
LEMMA ErasureGoesOn ==
  ASSUME TypeOK, NoticeInv, NEW w \in Connections, NEW t, tx[w].op = "erase", Step(w, t),
         t.op = "erase", t.step # "begin", ~Unwarned(t.p), UNCHANGED <<erasure, clock, tick>>
  PROVE  NoticeInv'
<1>1. tx'[w] = t /\ \A v \in Connections \ {w} : tx'[v] = tx[v]
  BY DEF Step, TypeOK
<1>2. TickWarns'
  BY <1>1, Constants DEF NoticeInv, TickWarns, Unwarned
<1>3. RequestWarns'
  BY <1>1, Constants DEF NoticeInv, RequestWarns, Unwarned, At
<1>4. ExecutesWarned'
  BY <1>1 DEF NoticeInv, ExecutesWarned, Unwarned
<1>5. ErasedWasNoticed'
  BY DEF NoticeInv, ErasedWasNoticed, Erased
<1> QED
  BY <1>2, <1>3, <1>4, <1>5 DEF NoticeInv

LEMMA ErasureAdvances ==
  ASSUME TypeOK, NoticeInv, NEW w \in Connections, NEW t, NEW accepted, Advance(w, accepted, t),
         tx[w].op = "erase", t.op = "erase", t.step # "begin", accepted => ~Unwarned(t.p)
  PROVE  NoticeInv'
<1>1. UNCHANGED <<erasure, clock, tick>>
  BY DEF Advance, State
<1>2. CASE accepted
  BY <1>1, <1>2, ErasureGoesOn DEF Advance
<1>3. CASE ~accepted
  <2>1. Step(w, NoTx) /\ NoTx.op # "erase"
    BY <1>3, NoTxIsNothing DEF Advance
  <2> QED BY <1>1, <2>1, StepIsQuiet, QuietKeeps
<1> QED
  BY <1>2, <1>3

\* Whose day has come has been told: by the tick if the scheduler executes, and nobody asked
\* for a delay since if a request does.
LEMMA DueIsWarned ==
  ASSUME RegistryInv, NoticeInv, NEW w \in Connections, At(w, "erase", "begin"), Due(tx[w].p)
  PROVE  ~Unwarned(tx[w].p)
<1>1. TypeOK /\ tx[w].p \in Persons /\ tx[w] \in Tx
  BY DEF RegistryInv, TypeOK, Transactions, About, At
<1>2. PICK p \in Persons : p = tx[w].p
  BY <1>1
<1>3. erasure[p].due \in Nat /\ clock \in Nat /\ erasure[p].due <= clock /\ tx[w].now \in Nat
      /\ tick.at \in Nat /\ Lead \in Nat /\ Window \in Nat
  BY <1>1, <1>2, Constants DEF Due, TypeOK, Tx
<1>4. CASE w = Scheduler
  <2>1. tick.step = "due" /\ clock < tick.at + Lead
        /\ (Unwarned(p) => erasure[p].due >= tick.at + Lead)
    BY <1>4 DEF NoticeInv, TickWarns, At
  <2> QED BY <1>2, <1>3, <2>1
<1>5. CASE w \in Requests
  <2>1. clock < tx[w].now + Window /\ (Unwarned(p) => erasure[p].due >= tx[w].now + Window)
    BY <1>2, <1>5 DEF NoticeInv, RequestWarns
  <2> QED BY <1>2, <1>3, <2>1
<1> QED
  BY <1>4, <1>5 DEF Connections

LEMMA EraseStatementsWarn ==
  ASSUME RegistryInv, NoticeInv, NEW w \in Connections,
         EraseBegin(w) \/ EraseRights(w) \/ ErasePerson(w) \/ EraseAccount(w)
  PROVE  NoticeInv'
<1>0. TypeOK /\ tx[w] \in Tx
  BY DEF RegistryInv, TypeOK
<1>1. CASE EraseBegin(w)
  <2> DEFINE t == [tx[w] EXCEPT !.step = "links", !.todo = LinksOf(tx[w].p)]
  <2>1. t.op = tx[w].op /\ t.step = "links" /\ t.p = tx[w].p
    BY <1>0 DEF Tx
  <2>2. Advance(w, Due(tx[w].p), t) /\ At(w, "erase", "begin")
    BY <1>1 DEF EraseBegin
  <2> HIDE DEF t
  <2>3. Due(tx[w].p) => ~Unwarned(t.p)
    BY <2>1, <2>2, DueIsWarned
  <2> QED BY <1>0, <2>1, <2>2, <2>3, ErasureAdvances DEF At
<1>2. ASSUME NEW t, NEW accepted, Advance(w, accepted, t), tx[w].op = "erase", tx[w].step # "begin",
             t.op = tx[w].op, t.step # "begin", t.p = tx[w].p
      PROVE  NoticeInv'
  <2>1. ~Unwarned(t.p)
    BY <1>2 DEF NoticeInv, ExecutesWarned
  <2> QED BY <1>0, <1>2, <2>1, ErasureAdvances
<1>3. CASE EraseRights(w)
  <2> DEFINE t == [tx[w] EXCEPT !.step = "person", !.todo = {}, !.held = tx[w].todo \cap links,
                                !.seen = has[tx[w].p] \cap ({"grant"} \cup Claims)]
  <2>1. t.op = tx[w].op /\ t.step = "person" /\ t.p = tx[w].p
    BY <1>0 DEF Tx
  <2>2. Advance(w, TRUE, t) /\ At(w, "erase", "links")
    BY <1>3 DEF EraseRights
  <2> QED BY <1>2, <2>1, <2>2 DEF At
<1>4. CASE ErasePerson(w)
  <2> DEFINE t == [tx[w] EXCEPT !.step = "account",
                                !.seen = @ \cup {"identity"} \cup (has[tx[w].p] \cap {"profile"})]
  <2>1. t.op = tx[w].op /\ t.step = "account" /\ t.p = tx[w].p
    BY <1>0 DEF Tx
  <2>2. Advance(w, TRUE, t) /\ At(w, "erase", "person")
    BY <1>4 DEF ErasePerson
  <2> QED BY <1>2, <2>1, <2>2 DEF At
<1>5. CASE EraseAccount(w)
  <2> DEFINE t == [tx[w] EXCEPT !.step = "commit"]
  <2>1. t.op = tx[w].op /\ t.step = "commit" /\ t.p = tx[w].p
    BY <1>0 DEF Tx
  <2>2. At(w, "erase", "account") /\ \E accepted : Advance(w, accepted, t)
    BY <1>5 DEF EraseAccount
  <2> QED BY <1>2, <2>1, <2>2 DEF At
<1> QED
  BY <1>1, <1>3, <1>4, <1>5

\* The notice of p, deposited or refused, takes p off the list.
LEMMA NoticeWarns ==
  ASSUME RegistryInv, NoticeInv, NEW p \in Persons, Notice(p)
  PROVE  NoticeInv'
<1>1. TypeOK /\ clock \in Nat /\ Lead \in Nat /\ \A x \in Persons : erasure[x].due \in Nat
      /\ tick.at \in Nat
  BY Constants DEF RegistryInv, TypeOK
<1>2. /\ tick.step = "notices" /\ UNCHANGED <<clock, tx>>
      /\ tick' = [tick EXCEPT !.todo = @ \ {p}]
      /\ erasure' = IF p \in ToNotice THEN [erasure EXCEPT ![p].noticed = TRUE] ELSE erasure
  BY DEF Notice
<1>3. tick'.step = "notices" /\ tick'.at = tick.at /\ tick'.todo = tick.todo \ {p}
  BY <1>1, <1>2 DEF TypeOK
<1>4. \A x \in Persons : /\ erasure'[x].status = erasure[x].status /\ erasure'[x].mode = erasure[x].mode
                         /\ erasure'[x].due = erasure[x].due
                         /\ erasure'[x].noticed = (erasure[x].noticed \/ (x = p /\ p \in ToNotice))
  BY <1>1, <1>2 DEF TypeOK
<1>5. \A x \in Persons : Unwarned(x)' => Unwarned(x) /\ ~(x = p /\ p \in ToNotice)
  BY <1>4 DEF Unwarned
<1>6. Unwarned(p)' => erasure[p].due > clock + Lead
  BY <1>1, <1>5 DEF ToNotice, Unwarned
<1>7. TickWarns'
  <2>1. tick.at <= clock /\ clock < tick.at + Lead
    BY <1>2 DEF NoticeInv, TickWarns
  <2>2. \A x \in Persons : Unwarned(x)' /\ erasure'[x].due < tick.at + Lead => x \in tick.todo \ {p}
    BY <1>1, <1>2, <1>4, <1>5, <1>6, <2>1 DEF NoticeInv, TickWarns
  <2> QED BY <1>2, <1>3, <2>1, <2>2 DEF NoticeInv, TickWarns
<1>8. RequestWarns'
  <2>1. \A w \in Requests : At(w, "erase", "begin") => tx[w].p \in Persons
    BY Constants DEF RegistryInv, Transactions, About, At
  <2>2. \A w \in Requests : At(w, "erase", "begin") /\ Unwarned(tx[w].p)' =>
           Unwarned(tx[w].p) /\ erasure'[tx[w].p].due = erasure[tx[w].p].due
    BY <1>2, <1>4, <2>1 DEF Unwarned
  <2> QED BY <1>2, <2>2 DEF NoticeInv, RequestWarns, At
<1>9. ExecutesWarned'
  <2>1. \A w \in Connections : tx[w].op = "erase" => tx[w].p \in Persons
    BY DEF RegistryInv, Transactions, About
  <2> QED BY <1>2, <1>4, <2>1 DEF NoticeInv, ExecutesWarned, Unwarned
<1>10. ErasedWasNoticed'
  BY <1>4 DEF NoticeInv, ErasedWasNoticed, Erased
<1> QED
  BY <1>7, <1>8, <1>9, <1>10 DEF NoticeInv

\* The list of the notices holds whoever falls due before the tick can end.
LEMMA TickNoticesWarns ==
  ASSUME RegistryInv, NoticeInv, TickNotices
  PROVE  NoticeInv'
<1>1. clock \in Nat /\ Lead \in Nat \ {0} /\ \A x \in Persons : erasure[x].due \in Nat
  BY RegistryAssumption, Constants DEF RegistryInv, TypeOK, RegistryAssumption
<1>2. /\ tick.step = "idle" /\ UNCHANGED <<erasure, clock, tx>>
      /\ tick'.step = "notices" /\ tick'.todo = ToNotice /\ tick'.at = clock
  BY DEF TickNotices, State
<1>3. TickWarns'
  <2>1. \A x \in Persons : Unwarned(x) /\ erasure[x].due < clock + Lead => x \in ToNotice
    BY <1>1 DEF ToNotice, Unwarned
  <2>2. clock <= clock /\ clock < clock + Lead /\ tx[Scheduler].op # "erase"
    BY <1>1, <1>2 DEF NoticeInv, TickWarns
  <2>3. \A x \in Persons : Unwarned(x)' = Unwarned(x)
    BY <1>2 DEF Unwarned
  <2> QED BY <1>2, <2>1, <2>2, <2>3 DEF TickWarns
<1> QED
  BY <1>2, <1>3 DEF NoticeInv, RequestWarns, ExecutesWarned, ErasedWasNoticed, Unwarned, Erased, At

\* No notice of the list is left to deposit when the executions begin.
LEMMA TickDueWarns ==
  ASSUME RegistryInv, NoticeInv, TickDue
  PROVE  NoticeInv'
<1>1. tick.at \in Nat /\ Lead \in Nat /\ \A x \in Persons : erasure[x].due \in Nat
      /\ tick \in [step : {"idle", "notices", "due"}, todo : SUBSET Persons, at : 0..MaxTime]
  BY Constants DEF RegistryInv, TypeOK
<1>2. /\ tick.step = "notices" /\ tick.todo = {} /\ UNCHANGED <<erasure, clock, tx>>
      /\ tick'.step = "due" /\ tick'.at = tick.at
  BY <1>1 DEF TickDue, State
<1>3. TickWarns'
  <2>1. \A x \in Persons : Unwarned(x) => erasure[x].due >= tick.at + Lead
    BY <1>1, <1>2 DEF NoticeInv, TickWarns
  <2>2. \A x \in Persons : Unwarned(x)' = Unwarned(x)
    BY <1>2 DEF Unwarned
  <2> QED BY <1>2, <2>1, <2>2 DEF NoticeInv, TickWarns
<1> QED
  BY <1>2, <1>3 DEF NoticeInv, RequestWarns, ExecutesWarned, ErasedWasNoticed, Unwarned, Erased, At

LEMMA ExecuteWarns ==
  ASSUME RegistryInv, NoticeInv, NEW p \in Persons, Execute(p)
  PROVE  NoticeInv'
<1> DEFINE t == [NoTx EXCEPT !.op = "erase", !.step = "begin", !.p = p]
<1>1. TypeOK /\ Scheduler \in Connections /\ Scheduler \notin Requests
  BY Constants, RegistryAssumption DEF RegistryInv, RegistryAssumption
<1>2. /\ tick.step = "due" /\ UNCHANGED <<erasure, clock>> /\ tx' = [tx EXCEPT ![Scheduler] = t]
      /\ tick'.step = "due" /\ tick'.at = tick.at
  BY <1>1 DEF Execute, Step, State, TypeOK
<1>3. t.op = "erase" /\ t.step = "begin"
  BY DEF NoTx
<1> HIDE DEF t
<1>4. tx'[Scheduler] = t /\ \A v \in Connections \ {Scheduler} : tx'[v] = tx[v]
  BY <1>1, <1>2 DEF TypeOK
<1>5. TickWarns'
  BY <1>2 DEF NoticeInv, TickWarns, Unwarned
<1>6. RequestWarns'
  BY <1>1, <1>2, <1>4, Constants DEF NoticeInv, RequestWarns, Unwarned, At
<1>7. ExecutesWarned'
  BY <1>2, <1>3, <1>4 DEF NoticeInv, ExecutesWarned, Unwarned
<1>8. ErasedWasNoticed'
  BY <1>2 DEF NoticeInv, ErasedWasNoticed, Erased
<1> QED
  BY <1>5, <1>6, <1>7, <1>8 DEF NoticeInv

\* The tick ends or dies with nothing under way.
LEMMA TickStopWarns ==
  ASSUME RegistryInv, NoticeInv, TickEnd \/ Restart
  PROVE  NoticeInv'
<1>1. TypeOK /\ Scheduler \in Connections /\ NoTx.op = "none" /\ NoTick.step = "idle"
  BY Constants, NoTxIsNothing DEF RegistryInv, NoTick
<1>2. UNCHANGED <<erasure, clock>> /\ tick' = NoTick
  BY DEF TickEnd, Restart, State
<1>3. tx'[Scheduler].op = "none" /\ \A v \in Connections \ {Scheduler} : tx'[v] = tx[v]
  BY <1>1 DEF TickEnd, Restart, Step, Idle, TypeOK
<1>4. \A v \in Connections : tx'[v].op = "erase" => tx'[v] = tx[v]
  BY <1>3
<1>5. TickWarns'
  BY <1>1, <1>2, <1>3 DEF TickWarns
<1>6. RequestWarns'
  BY <1>2, <1>4, Constants DEF NoticeInv, RequestWarns, Unwarned, At
<1>7. ExecutesWarned'
  BY <1>2, <1>4 DEF NoticeInv, ExecutesWarned, Unwarned
<1>8. ErasedWasNoticed'
  BY <1>2 DEF NoticeInv, ErasedWasNoticed, Erased
<1> QED
  BY <1>5, <1>6, <1>7, <1>8 DEF NoticeInv

LEMMA PassWarns ==
  ASSUME RegistryInv, NoticeInv, Pass
  PROVE  NoticeInv'
<1>1. clock \in Nat /\ tick.at \in Nat /\ \A w \in Requests : tx[w].now \in Nat
  BY Constants DEF RegistryInv, TypeOK, Tx
<1>2. /\ clock' = clock + 1 /\ UNCHANGED <<erasure, tick, tx>>
      /\ tick.step # "idle" => clock + 1 < tick.at + Lead
      /\ \A w \in Requests : At(w, "erase", "begin") => clock + 1 < tx[w].now + Window
  BY DEF Pass, State
<1>3. TickWarns'
  BY <1>1, <1>2 DEF NoticeInv, TickWarns, Unwarned
<1>4. RequestWarns'
  BY <1>1, <1>2 DEF NoticeInv, RequestWarns, Unwarned, At
<1> QED
  BY <1>2, <1>3, <1>4 DEF NoticeInv, ExecutesWarned, ErasedWasNoticed, Unwarned, Erased

LEMMA NoticeInvInit == Init => NoticeInv
<1> SUFFICES ASSUME Init PROVE NoticeInv
  OBVIOUS
<1>1. tick.step = "idle" /\ \A w \in Connections : tx[w].op = "none"
  BY NoTxIsNothing DEF Init, NoTick
<1>2. \A p \in Persons : ~Erased(p)
  <2> PICK waiting \in SUBSET {m \in OfAge : account[m] = "none"},
           leaving \in SUBSET (Adults \cap Subjects) :
          erasure = [p \in Persons |->
                       IF p \in leaving THEN [NoErasure EXCEPT !.status = "REQUESTED", !.due = Window]
                       ELSE NoErasure]
    BY DEF Init
  <2> QED BY DEF Erased, NoErasure
<1> QED
  BY <1>1, <1>2, Constants DEF NoticeInv, TickWarns, RequestWarns, ExecutesWarned, ErasedWasNoticed, At

LEMMA NoticeInvStep == RegistryInv /\ NoticeInv /\ [Next]_vars => NoticeInv'
<1> SUFFICES ASSUME RegistryInv, NoticeInv, [Next]_vars PROVE NoticeInv'
  OBVIOUS
<1>0. TypeOK
  BY DEF RegistryInv
<1>1. ASSUME NEW w \in Connections, Request(w) PROVE NoticeInv'
  <2>1. CASE ErasureRequest(w)
    <3> PICK p \in Subjects : \/ \E mode \in {"IMMEDIATE", "DELAYED"} : RequestSelf(w, p, mode)
                             \/ RetractSelf(w, p) \/ EraseByStaff(w, p)
      BY <2>1 DEF ErasureRequest
    <3>1. p \in Persons
      BY Constants
    <3>2. CASE \E mode \in {"IMMEDIATE", "DELAYED"} : RequestSelf(w, p, mode)
      BY <3>1, <3>2, RecordWarns DEF RequestSelf
    <3>3. CASE RetractSelf(w, p)
      BY <1>0, <3>3, QuietRequests, QuietKeeps
    <3>4. CASE EraseByStaff(w, p)
      BY <3>1, <3>4, RecordWarns DEF EraseByStaff
    <3> QED BY <3>2, <3>3, <3>4
  <2>2. CASE ResponsibilityRequest(w) \/ PersonRequest(w) \/ EmancipationRequest(w)
    BY <1>0, <2>2, QuietRequests, QuietKeeps
  <2> QED BY <1>1, <2>1, <2>2 DEF Request
<1>2. ASSUME NEW w \in Connections, Statement(w) PROVE NoticeInv'
  <2>1. CASE GuardInsert(w)
    <3>1. tx[w].op # "erase"
      BY <2>1 DEF GuardInsert, RegistryInv, Transactions, About
    <3> QED BY <1>0, <2>1, <3>1, QuietStatements, QuietKeeps
  <2>2. CASE RetractCommit(w) \/ EraseCommit(w)
    BY <2>2, RetractWarns, EraseCommitWarns
  <2>3. CASE EraseBegin(w) \/ EraseRights(w) \/ ErasePerson(w) \/ EraseAccount(w)
    BY <2>3, EraseStatementsWarn
  <2> QED BY <1>0, <1>2, <2>1, <2>2, <2>3, QuietStatements, QuietKeeps DEF Statement
<1>3. ASSUME NEW w \in Connections, DeadlockAbort(w) \/ Rollback(w) PROVE NoticeInv'
  BY <1>0, <1>3, QuietStatements, QuietKeeps
<1>4. CASE Tick \/ Restart \/ Pass
  BY <1>4, TickNoticesWarns, TickDueWarns, TickStopWarns, NoticeWarns, ExecuteWarns, PassWarns DEF Tick
<1>5. CASE UNCHANGED vars
  BY <1>5 DEF vars, State, NoticeInv, TickWarns, RequestWarns, ExecutesWarned, ErasedWasNoticed,
     Unwarned, Erased, At
<1> QED
  BY <1>1, <1>2, <1>3, <1>4, <1>5 DEF Next

\* Whoever left after a delay was told first, as long as no tick takes the length of the notice
\* and no request the days of reflection (erasure-scheduler.ts: the notices of a tick before
\* its executions; erasure.service.ts: an IMMEDIATE erasure is executed in its own call).
THEOREM NobodyLeavesUnwarned == Spec => []ErasedWasNoticed
<1>1. Spec => [](RegistryInv /\ NoticeInv)
  BY RegistryInvHolds, NoticeInvInit, NoticeInvStep, PTL DEF Spec
<1>2. RegistryInv /\ NoticeInv => ErasedWasNoticed
  BY DEF NoticeInv
<1> QED
  BY <1>1, <1>2, PTL

\* Every variable of the registry keeps its type.
THEOREM TypeCorrect == Spec => []TypeOK
<1>1. RegistryInv => TypeOK
  BY DEF RegistryInv
<1> QED
  BY <1>1, RegistryInvHolds, PTL

\* The cut of emancipation, for any number of persons, links and transactions under way
\* (017: guard_responsibility_insert, the deferred triggers; 020: complete_emancipation).
THEOREM CutStands == Spec => []CutHolds
<1>1. RegistryInv => CutHolds
  BY DEF RegistryInv
<1> QED
  BY <1>1, RegistryInvHolds, PTL

\* An erased person keeps no ACTIVE account, identity or live claim, and gets none again
\* (026, 028: the walls against re-identification).
THEOREM BuriedForGood == Spec => []ErasureBuries
<1>1. RegistryInv => ErasureBuries
  BY DEF RegistryInv
<1> QED
  BY <1>1, RegistryInvHolds, PTL

-----------------------------------------------------------------------------
(***************************************************************************)
(* The registry implements PersonLife.                                     *)
(***************************************************************************)
Lives == [p \in Persons |-> CASE erasure[p].status = "REQUESTED" -> "leaving"
                             [] Erased(p) -> "gone"
                             [] OTHER -> "present"]

Kept == [p \in Persons |-> (has[p] \cap ({"identity"} \cup Claims))
                          \cup (IF account[p] = "ACTIVE" THEN {"account"} ELSE {})]

LEMMA LifeOf ==
  ASSUME NEW p \in Persons
  PROVE  /\ Lives[p] = "leaving" <=> erasure[p].status = "REQUESTED"
         /\ Lives[p] = "gone" <=> Erased(p)
         /\ Lives[p] \in {"present", "leaving", "gone"}
         /\ Kept[p] \in SUBSET ({"account", "identity"} \cup Claims)
<1>1. Lives[p] = CASE erasure[p].status = "REQUESTED" -> "leaving"
                   [] Erased(p) -> "gone"
                   [] OTHER -> "present"
  BY DEF Lives
<1>2. Lives[p] = IF erasure[p].status = "REQUESTED" THEN "leaving"
                 ELSE IF Erased(p) THEN "gone" ELSE "present"
  BY <1>1 DEF Erased
<1>3. Kept[p] \in SUBSET ({"account", "identity"} \cup Claims)
  BY DEF Kept
<1> QED
  BY <1>2, <1>3 DEF Erased

\* Nothing that PersonLife sees has changed.
LEMMA LifeStill ==
  ASSUME \A p \in Persons : Lives'[p] = Lives[p] /\ Kept'[p] = Kept[p]
  PROVE  Lives' = Lives /\ Kept' = Kept
<1>1. Lives = [p \in Persons |-> Lives[p]] /\ Lives' = [p \in Persons |-> Lives'[p]]
  BY DEF Lives
<1>2. Kept = [p \in Persons |-> Kept[p]] /\ Kept' = [p \in Persons |-> Kept'[p]]
  BY DEF Kept
<1> HIDE DEF Lives, Kept
<1> QED
  BY <1>1, <1>2

\* One person lives on, leaves or goes; the others do not move.
LEMMA LifeOfOne ==
  ASSUME NEW p \in Persons,
         \A x \in Persons \ {p} : Lives'[x] = Lives[x] /\ Kept'[x] = Kept[x]
  PROVE  /\ Lives' = [Lives EXCEPT ![p] = Lives'[p]] /\ Kept' = [Kept EXCEPT ![p] = Kept'[p]]
         /\ Lives'[p] = Lives[p] => Lives' = Lives
         /\ Kept'[p] = Kept[p] => Kept' = Kept
<1>1. Lives = [x \in Persons |-> Lives[x]] /\ Lives' = [x \in Persons |-> Lives'[x]]
  BY DEF Lives
<1>2. Kept = [x \in Persons |-> Kept[x]] /\ Kept' = [x \in Persons |-> Kept'[x]]
  BY DEF Kept
<1> HIDE DEF Lives, Kept
<1> QED
  BY <1>1, <1>2

\* What moves: at most the things of one person who is not gone.
LEMMA ThingsMove ==
  ASSUME RegistryInv, RegistryInv', UNCHANGED erasure, NEW p \in Persons,
         \A x \in Persons \ {p} : account'[x] = account[x] /\ has'[x] = has[x]
  PROVE  [Life!Next]_(Life!vars)
<1>1. \A x \in Persons : Lives'[x] = Lives[x]
  BY DEF Lives, Erased
<1>2. \A x \in Persons \ {p} : Kept'[x] = Kept[x]
  BY DEF Kept
<1>3. CASE Erased(p)
  <2>1. Kept[p] = {} /\ Kept'[p] = {}
    <3>1. account[p] # "ACTIVE" /\ has[p] \cap ({"identity"} \cup Claims) = {}
      BY <1>3 DEF RegistryInv, ErasureBuries
    <3>2. account'[p] # "ACTIVE" /\ has'[p] \cap ({"identity"} \cup Claims) = {}
      BY <1>3 DEF RegistryInv, ErasureBuries, Erased
    <3> QED BY <3>1, <3>2 DEF Kept
  <2>2. Lives' = Lives /\ Kept' = Kept
    BY <1>1, <1>2, <2>1, LifeStill
  <2> QED BY <2>2 DEF Life!vars, Lives, Kept
<1>4. CASE ~Erased(p)
  <2>1. Lives' = Lives /\ Kept' = [Kept EXCEPT ![p] = Kept'[p]]
    BY <1>1, <1>2, LifeOfOne
  <2>2. Lives[p] # "gone"
    BY <1>4, LifeOf
  <2>3. Kept'[p] \in SUBSET ({"account", "identity"} \cup Claims)
    BY DEF Kept, Claims
  <2>4. Life!Change(p)
    BY <2>1, <2>2, <2>3 DEF Life!Change, Lives, Kept
  <2> QED BY <2>4 DEF Life!Next
<1> QED
  BY <1>3, <1>4

\* What moves: the erasure of one person.
LEMMA ErasureMoves ==
  ASSUME RegistryInv, UNCHANGED <<account, has>>, NEW p \in Persons,
         \A x \in Persons \ {p} : erasure'[x] = erasure[x],
         \/ erasure'[p].status = erasure[p].status
         \/ erasure[p].status \notin {"REQUESTED", "COMPLETED"} /\ erasure'[p].status = "REQUESTED"
         \/ erasure[p].status = "REQUESTED" /\ erasure'[p].status = "RETRACTED"
  PROVE  [Life!Next]_(Life!vars)
<1>1. \A x \in Persons \ {p} : Lives'[x] = Lives[x]
  BY DEF Lives, Erased
<1>2. Kept' = Kept
  BY DEF Kept
<1>3. Lives[p] = IF erasure[p].status = "REQUESTED" THEN "leaving"
                 ELSE IF erasure[p].status = "COMPLETED" THEN "gone" ELSE "present"
  BY LifeOf DEF Erased
<1>4. Lives'[p] = IF erasure'[p].status = "REQUESTED" THEN "leaving"
                  ELSE IF erasure'[p].status = "COMPLETED" THEN "gone" ELSE "present"
  BY DEF Lives, Erased
<1>5. Lives' = [Lives EXCEPT ![p] = Lives'[p]] /\ (Lives'[p] = Lives[p] => Lives' = Lives)
  BY <1>1, <1>2, LifeOfOne
<1>6. CASE erasure'[p].status = erasure[p].status
  <2>1. Lives' = Lives
    BY <1>3, <1>4, <1>5, <1>6
  <2> QED BY <1>2, <2>1 DEF Life!vars, Lives, Kept
<1>7. CASE erasure[p].status \notin {"REQUESTED", "COMPLETED"} /\ erasure'[p].status = "REQUESTED"
  <2>1. Lives[p] = "present" /\ Lives' = [Lives EXCEPT ![p] = "leaving"]
    BY <1>3, <1>4, <1>5, <1>7
  <2>2. Life!Ask(p)
    BY <1>2, <2>1 DEF Life!Ask, Lives, Kept
  <2> QED BY <2>2 DEF Life!Next
<1>8. CASE erasure[p].status = "REQUESTED" /\ erasure'[p].status = "RETRACTED"
  <2>1. Lives[p] = "leaving" /\ Lives' = [Lives EXCEPT ![p] = "present"]
    BY <1>3, <1>4, <1>5, <1>8
  <2>2. Life!Retract(p)
    BY <1>2, <2>1 DEF Life!Retract, Lives, Kept
  <2> QED BY <2>2 DEF Life!Next
<1> QED
  BY <1>6, <1>7, <1>8

\* An erasure takes everything in the step that makes the person gone.
LEMMA LifeLeaves ==
  ASSUME RegistryInv, NEW w \in Connections, EraseCommit(w)
  PROVE  Life!Next
<1> PICK p : p = tx[w].p
  OBVIOUS
<1>1. /\ RegistryInv' /\ p \in Persons /\ erasure[p].status = "REQUESTED"
      /\ erasure'[p].status = "COMPLETED"
      /\ \A x \in Persons \ {p} :
            account'[x] = account[x] /\ has'[x] = has[x] /\ erasure'[x] = erasure[x]
  BY EraseCommitStep
<1>2. \A x \in Persons \ {p} : Lives'[x] = Lives[x] /\ Kept'[x] = Kept[x]
  BY <1>1 DEF Lives, Kept, Erased
<1>3. Lives[p] = "leaving"
  BY <1>1, LifeOf
<1>4. Lives'[p] = "gone"
  BY <1>1 DEF Lives, Erased
<1>5. Kept'[p] = {}
  <2>1. account'[p] # "ACTIVE" /\ has'[p] \cap ({"identity"} \cup Claims) = {}
    BY <1>1 DEF RegistryInv, ErasureBuries, Erased
  <2> QED BY <1>1, <2>1 DEF Kept
<1>6. Lives' = [Lives EXCEPT ![p] = "gone"] /\ Kept' = [Kept EXCEPT ![p] = {}]
  BY <1>1, <1>2, <1>4, <1>5, LifeOfOne
<1>7. Life!Leave(p)
  BY <1>3, <1>6 DEF Life!Leave, Lives, Kept
<1>8. \E x \in Persons : Life!Leave(x)
  BY <1>1, <1>7
<1> QED
  BY <1>8 DEF Life!Next

LEMMA LifeStatement ==
  ASSUME RegistryInv, RegistryInv', NEW w \in Connections, Statement(w)
  PROVE  [Life!Next]_(Life!vars)
<1>1. About(tx[w]) /\ tx[w] \in Tx /\ Persons # {}
  BY Constants, RegistryAssumption DEF RegistryInv, TypeOK, Transactions, Persons
<1>2. ASSUME UNCHANGED <<account, has, erasure>>
      PROVE  [Life!Next]_(Life!vars)
  BY <1>1, <1>2, ThingsMove
<1>3. CASE EndLock(w) \/ GuardInsert(w) \/ LinkWritten(w) \/ EmancipateLock(w) \/ EmancipateLinks(w)
           \/ EraseBegin(w) \/ EraseRights(w) \/ ErasePerson(w) \/ EraseAccount(w)
  <2>1. UNCHANGED <<account, has, erasure>>
    BY <1>3 DEF EndLock, GuardInsert, LinkWritten, EmancipateLock, EmancipateLinks, EraseBegin,
       EraseRights, ErasePerson, EraseAccount, Advance, State
  <2> QED BY <1>2, <2>1
<1>4. CASE LinkCommit(w)
  BY <1>2, <1>4 DEF LinkCommit
<1>5. CASE AttachCommit(w)
  <2>1. tx[w].m \in Persons
    BY <1>1, <1>5, Constants DEF AttachCommit, At, About
  <2>2. /\ UNCHANGED erasure
        /\ \A x \in Persons \ {tx[w].m} : account'[x] = account[x] /\ has'[x] = has[x]
    BY <1>5 DEF AttachCommit, RegistryInv, TypeOK
  <2> QED BY <2>1, <2>2, ThingsMove
<1>6. CASE ThingCommit(w) \/ ClaimCommit(w)
  <2>1. tx[w].p \in Persons
    BY <1>1, <1>6 DEF ThingCommit, ClaimCommit, At, About
  <2>2. /\ UNCHANGED <<account, erasure>>
        /\ \A x \in Persons \ {tx[w].p} : has'[x] = has[x]
    BY <1>6 DEF ThingCommit, ClaimCommit, RegistryInv, TypeOK
  <2> QED BY <2>1, <2>2, ThingsMove
<1>7. CASE EmancipateCommit(w)
  <2>1. tx[w].m \in Persons
    BY <1>1, <1>7, Constants DEF EmancipateCommit, At, About
  <2>2. /\ UNCHANGED <<has, erasure>>
        /\ \A x \in Persons \ {tx[w].m} : account'[x] = account[x]
    BY <1>7 DEF EmancipateCommit, RegistryInv, TypeOK
  <2> QED BY <2>1, <2>2, ThingsMove
<1>8. CASE RetractCommit(w)
  <2>1. tx[w].p \in Persons
    BY <1>1, <1>8 DEF RetractCommit, At, About
  <2> DEFINE p == tx[w].p
             retracted == erasure[p].status = "REQUESTED" /\ tx[w].now < erasure[p].due
  <2>2. /\ UNCHANGED <<account, has>>
        /\ erasure' = IF retracted THEN [erasure EXCEPT ![p].status = "RETRACTED"] ELSE erasure
    BY <1>8 DEF RetractCommit
  <2>3. retracted => erasure[p].status = "REQUESTED"
    OBVIOUS
  <2>4. p \in Persons /\ p \in DOMAIN erasure /\ "status" \in DOMAIN erasure[p]
    BY <2>1 DEF RegistryInv, TypeOK
  <2> HIDE DEF p, retracted
  <2>5. CASE retracted
    BY <2>2, <2>3, <2>4, <2>5, ErasureMoves
  <2>6. CASE ~retracted
    BY <1>2, <2>2, <2>6
  <2> QED BY <2>5, <2>6
<1>9. CASE EraseCommit(w)
  BY <1>9, LifeLeaves
<1> QED
  BY <1>3, <1>4, <1>5, <1>6, <1>7, <1>8, <1>9 DEF Statement

LEMMA LifeRecord ==
  ASSUME RegistryInv, NEW w \in Connections, NEW p \in Persons, NEW mode, Record(w, p, mode)
  PROVE  [Life!Next]_(Life!vars)
<1>1. UNCHANGED <<account, has>>
  BY DEF Record
<1>2. \A x \in Persons \ {p} : erasure'[x] = erasure[x]
  BY DEF Record, RegistryInv, TypeOK
<1>3. erasure[p].status \notin {"REQUESTED", "COMPLETED"} /\ erasure'[p].status = "REQUESTED"
  BY DEF Record, RegistryInv, TypeOK
<1> QED
  BY <1>1, <1>2, <1>3, ErasureMoves

LEMMA LifeRequest ==
  ASSUME RegistryInv, RegistryInv', NEW w \in Connections, Request(w)
  PROVE  [Life!Next]_(Life!vars)
<1>1. ASSUME NEW p \in Persons, UNCHANGED <<account, erasure>>,
             \A x \in Persons \ {p} : has'[x] = has[x]
      PROVE  [Life!Next]_(Life!vars)
  BY <1>1, ThingsMove
<1>2. ASSUME NEW p \in Persons, UNCHANGED <<account, has, erasure>>
      PROVE  [Life!Next]_(Life!vars)
  BY <1>1, <1>2
<1>3. ASSUME NEW p, NEW op, NEW step, NEW q, NEW m, AskAs(w, p, op, step, q, m)
      PROVE  UNCHANGED <<account, has, erasure>>
  BY <1>3 DEF AskAs, State
<1>4. Persons # {}
  BY RegistryAssumption DEF Persons
<1>5. CASE ResponsibilityRequest(w)
  <2>1. CASE \E p \in Adults, m \in Minors : Attach(w, p, m)
    BY <1>2, <1>3, <1>4, <2>1 DEF Attach
  <2>2. CASE \E p, q \in Adults, m \in Minors : AddCoResponsible(w, p, q, m)
    BY <1>2, <1>3, <1>4, <2>2 DEF AddCoResponsible
  <2>3. CASE \E p \in Adults, q \in Adults \cup {Nobody}, m \in Minors : EndResponsibility(w, p, q, m)
    BY <1>2, <1>4, <2>3 DEF EndResponsibility, State
  <2> QED BY <1>5, <2>1, <2>2, <2>3 DEF ResponsibilityRequest
<1>6. CASE ErasureRequest(w)
  <2> PICK p \in Subjects : \/ \E mode \in {"IMMEDIATE", "DELAYED"} : RequestSelf(w, p, mode)
                           \/ RetractSelf(w, p) \/ EraseByStaff(w, p)
    BY <1>6 DEF ErasureRequest
  <2>1. p \in Persons
    BY Constants
  <2>2. CASE \E mode \in {"IMMEDIATE", "DELAYED"} : RequestSelf(w, p, mode)
    BY <2>1, <2>2, LifeRecord DEF RequestSelf
  <2>3. CASE RetractSelf(w, p)
    BY <1>2, <1>3, <2>1, <2>3 DEF RetractSelf
  <2>4. CASE EraseByStaff(w, p)
    BY <2>1, <2>4, LifeRecord DEF EraseByStaff
  <2> QED BY <2>2, <2>3, <2>4
<1>7. CASE PersonRequest(w)
  <2> PICK p \in Subjects : \/ Provide(w, p) \/ ReplaceProfile(w, p) \/ GrantSelf(w, p)
                           \/ GrantByOther(w, p) \/ Declare(w, p) \/ Verify(w, p)
    BY <1>7 DEF PersonRequest
  <2>1. p \in Persons
    BY Constants
  <2>2. CASE Provide(w, p) \/ Verify(w, p)
    BY <1>1, <2>1, <2>2 DEF Provide, Verify, Activated, RegistryInv, TypeOK
  <2>3. CASE ReplaceProfile(w, p) \/ GrantSelf(w, p) \/ Declare(w, p)
    BY <1>2, <1>3, <2>1, <2>3 DEF ReplaceProfile, GrantSelf, Declare
  <2>4. CASE GrantByOther(w, p)
    BY <1>2, <2>1, <2>4 DEF GrantByOther, State
  <2> QED BY <2>2, <2>3, <2>4
<1>8. CASE EmancipationRequest(w)
  <2> PICK m \in Minors : StartEmancipation(w, m) \/ CompleteEmancipation(w, m)
    BY <1>8 DEF EmancipationRequest
  <2>1. m \in Persons
    BY Constants
  <2>2. CASE StartEmancipation(w, m)
    BY <1>2, <2>1, <2>2 DEF StartEmancipation, State
  <2>3. CASE CompleteEmancipation(w, m)
    BY <1>1, <2>1, <2>3 DEF CompleteEmancipation, Activated, RegistryInv, TypeOK
  <2> QED BY <2>2, <2>3
<1> QED
  BY <1>5, <1>6, <1>7, <1>8 DEF Request

LEMMA LifeNotice ==
  ASSUME RegistryInv, NEW p \in Persons, Notice(p)
  PROVE  [Life!Next]_(Life!vars)
<1>1. UNCHANGED <<account, has>>
  BY DEF Notice
<1>2. \A x \in Persons \ {p} : erasure'[x] = erasure[x]
  BY DEF Notice, RegistryInv, TypeOK
<1>3. erasure'[p].status = erasure[p].status
  BY DEF Notice, RegistryInv, TypeOK
<1> QED
  BY <1>1, <1>2, <1>3, ErasureMoves

LEMMA LifeStep ==
  RegistryInv /\ RegistryInv' /\ [Next]_vars => [Life!Next]_(Life!vars)
<1> SUFFICES ASSUME RegistryInv, RegistryInv', [Next]_vars
             PROVE  [Life!Next]_(Life!vars)
  OBVIOUS
<1>1. ASSUME UNCHANGED <<account, has, erasure>>
      PROVE  [Life!Next]_(Life!vars)
  <2>1. Persons # {}
    BY RegistryAssumption DEF Persons
  <2> QED BY <1>1, <2>1, ThingsMove
<1>2. ASSUME NEW w \in Connections, Request(w) \/ Statement(w) \/ DeadlockAbort(w) \/ Rollback(w)
      PROVE  [Life!Next]_(Life!vars)
  <2>1. CASE Request(w)
    BY <2>1, LifeRequest
  <2>2. CASE Statement(w)
    BY <2>2, LifeStatement
  <2>3. CASE DeadlockAbort(w) \/ Rollback(w)
    BY <1>1, <2>3 DEF DeadlockAbort, Rollback, State
  <2> QED BY <1>2, <2>1, <2>2, <2>3
<1>3. CASE Tick
  <2>1. CASE TickNotices \/ TickDue \/ TickEnd
    BY <1>1, <2>1 DEF TickNotices, TickDue, TickEnd, State
  <2>2. ASSUME NEW p \in Persons, Notice(p)
        PROVE  [Life!Next]_(Life!vars)
    BY <2>2, LifeNotice
  <2>3. ASSUME NEW p \in Persons, Execute(p)
        PROVE  [Life!Next]_(Life!vars)
    BY <1>1, <2>3 DEF Execute, State
  <2> QED BY <1>3, <2>1, <2>2, <2>3 DEF Tick
<1>4. CASE Restart \/ Pass \/ UNCHANGED vars
  BY <1>1, <1>4 DEF Restart, Pass, State, vars
<1> QED
  BY <1>2, <1>3, <1>4 DEF Next

LEMMA LifeInit == Init => Life!Init
<1> SUFFICES ASSUME Init PROVE Life!Init
  OBVIOUS
<1>1. \A p \in Persons : ~Erased(p)
  <2> PICK waiting \in SUBSET {m \in OfAge : account[m] = "none"},
           leaving \in SUBSET (Adults \cap Subjects) :
          erasure = [p \in Persons |->
                       IF p \in leaving THEN [NoErasure EXCEPT !.status = "REQUESTED", !.due = Window]
                       ELSE NoErasure]
    BY DEF Init
  <2> QED BY DEF Erased, NoErasure
<1>2. \A p \in Persons : /\ Lives[p] \in {"present", "leaving"}
                         /\ Kept[p] \in SUBSET ({"account", "identity"} \cup Claims)
  BY <1>1, LifeOf
<1>3. Lives = [p \in Persons |-> Lives[p]] /\ Kept = [p \in Persons |-> Kept[p]]
  BY DEF Lives, Kept
<1>4. /\ Lives \in [Persons -> {"present", "leaving"}]
      /\ Kept \in [Persons -> SUBSET ({"account", "identity"} \cup Claims)]
  <2> HIDE DEF Lives, Kept
  <2> QED BY <1>2, <1>3
<1> QED
  BY <1>4 DEF Life!Init, Lives, Kept

\* An erasure is asked for, perhaps retracted, and then final: what identifies the person,
\* and the account, go in the commit that makes it COMPLETED, for any number of persons and
\* transactions (026, 028: erase_person).
THEOREM LifeImplemented == Spec => ImplementsLife
<1>1. Spec => []RegistryInv
  BY RegistryInvHolds
<1>2. Init => Life!Init
  BY LifeInit
<1>3. RegistryInv /\ RegistryInv' /\ [Next]_vars => [Life!Next]_(Life!vars)
  BY LifeStep
<1> QED
  BY <1>1, <1>2, <1>3, PTL DEF ImplementsLife, Life!Spec, Spec
=============================================================================
