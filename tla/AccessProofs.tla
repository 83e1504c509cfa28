---------------------------- MODULE AccessProofs ----------------------------
(***************************************************************************)
(* Proofs about Access, for any callers, identities, requests and budgets: *)
(* the lock of a secret covers every lock that was asked for, the exchange *)
(* of assertions keeps the promise of ProgramDoor, nobody passes a door    *)
(* more often than its throttle says, and every variable keeps its type.   *)
(***************************************************************************)
EXTENDS Access, TLAPS, FiniteSetTheorems, SequenceTheorems

LEMMA Sizes ==
  /\ Window \in Nat \ {0} /\ SweepThreshold \in Nat /\ MaxTime \in Nat /\ MaxRequests \in Nat
  /\ LockThreshold \in Nat \ {0} /\ LockBase \in Nat \ {0} /\ LockCap \in Nat \ {0}
  /\ AssertionTtl \in Nat \ {0} /\ TokenTtl \in Nat \ {0}
  BY AccessAssumption DEF AccessAssumption

USE Sizes

-----------------------------------------------------------------------------
\* The types the arguments rest on.

Exchange(steps) == [op : {"token"}, step : steps, client : Clients, jti : Jtis]

Request ==
    {Idle}
    \cup [op : {"login"}, step : {"find", "verify"}, id : Identifiers]
    \cup [op : {"login"}, step : {"lock"}, id : Identifiers, count : Int]
    \cup [op : {"register"}, step : {"draw"}, draws : Int]
    \cup [op : {"token"}, step : {"candidate"}, client : Clients, kid : Kids, jti : Jtis]
    \cup Exchange({"record", "issue"})

Requests == tx \in [Connections -> Request]

Locks ==
    /\ failures \in [Identifiers -> Int]
    /\ lockedUntil \in [Identifiers -> Nat]
    /\ promised \in [Identifiers -> Nat]
    /\ clock \in Nat

Identities ==
    /\ clients \in [Clients -> {"unknown", "ACTIVE", "REVOKED"}]
    /\ keys \in [Clients -> [Kids -> {"none", "ACTIVE", "REVOKED"}]]
    /\ \A cl \in Clients : clients[cl] # "ACTIVE" => \A k \in Kids : keys[cl][k] # "ACTIVE"

Assertions ==
    /\ assertions \in [Clients \X Jtis -> {0, 1}]
    /\ tokens \in [Clients \X Jtis -> Seq(Nat)]

\* An assertion whose token is still to be issued was accepted, and by one request.
Issuing(c) == At(c, "token", "issue")

Pending ==
    /\ \A c \in Connections : Issuing(c) =>
          /\ assertions[tx[c].client, tx[c].jti] = 1
          /\ tokens[tx[c].client, tx[c].jti] = <<>>
    /\ \A c, d \in Connections :
          Issuing(c) /\ Issuing(d) /\ tx[c].client = tx[d].client /\ tx[c].jti = tx[d].jti => c = d
    /\ \A x \in Clients \X Jtis : assertions[x] = 0 => tokens[x] = <<>>

DoorInv == Requests /\ Locks /\ Identities /\ Assertions /\ Pending

-----------------------------------------------------------------------------
\* What a request becomes.

LEMMA GoRequests ==
  ASSUME Requests, NEW c \in Connections, NEW next \in Request, Go(c, next)
  PROVE  /\ Requests'
         /\ tx'[c] = next
         /\ \A d \in Connections \ {c} : tx'[d] = tx[d]
         /\ UNCHANGED <<gates, clock>>
  BY DEF Requests, Go

LEMMA IdleRequest == Idle \in Request /\ Idle.op = "none"
  BY DEF Request, Idle

LEMMA ArriveRequests ==
  ASSUME Requests, NEW c \in Connections, NEW door, NEW ks, NEW whom, NEW next \in Request,
         Arrive(c, door, ks, whom, next)
  PROVE  /\ Requests'
         /\ tx'[c] \in {tx[c], next}
         /\ \A d \in Connections \ {c} : tx'[d] = tx[d]
         /\ UNCHANGED <<account, program, clock>>
<1>1. UNCHANGED <<account, program, clock>> /\ (tx' = tx \/ tx' = [tx EXCEPT ![c] = next])
  BY DEF Arrive
<1>2. Requests' /\ tx'[c] \in {tx[c], next} /\ \A d \in Connections \ {c} : tx'[d] = tx[d]
  <2>1. tx \in [Connections -> Request]
    BY DEF Requests
  <2>2. CASE tx' = tx
    BY <2>1, <2>2 DEF Requests
  <2>3. CASE tx' = [tx EXCEPT ![c] = next]
    <3>1. tx' \in [Connections -> Request] /\ tx'[c] = next /\ \A d \in Connections \ {c} : tx'[d] = tx[d]
      BY <2>1, <2>3
    <3> QED BY <3>1 DEF Requests
  <2> QED BY <1>1, <2>2, <2>3
<1> QED
  BY <1>1, <1>2

\* The steps that leave the exchange alone: what they put in the place of a request is
\* not one whose token is still to be issued.
LEMMA Unconcerned ==
  ASSUME DoorInv, NEW c \in Connections, Requests', ~Issuing(c)',
         \A d \in Connections \ {c} : tx'[d] = tx[d], UNCHANGED program
  PROVE  Identities' /\ Assertions' /\ Pending'
<1>1. Identities' /\ Assertions'
  BY DEF DoorInv, Identities, Assertions, program
<1>2. \A d \in Connections : Issuing(d)' => Issuing(d) /\ tx'[d] = tx[d]
  BY DEF Issuing, At
<1>3. UNCHANGED <<assertions, tokens>> /\ Pending
  BY DEF DoorInv, program
<1>4. \A d \in Connections : Issuing(d)' =>
         /\ assertions'[tx'[d].client, tx'[d].jti] = 1
         /\ tokens'[tx'[d].client, tx'[d].jti] = <<>>
  <2>1. \A d \in Connections : Issuing(d) =>
           assertions[tx[d].client, tx[d].jti] = 1 /\ tokens[tx[d].client, tx[d].jti] = <<>>
    BY <1>3 DEF Pending
  <2> TAKE d \in Connections
  <2> HAVE Issuing(d)'
  <2>2. Issuing(d) /\ tx'[d] = tx[d] /\ assertions' = assertions /\ tokens' = tokens
    BY <1>2, <1>3
  <2> QED
    BY <2>1, <2>2
<1>5. \A d, e \in Connections :
         Issuing(d)' /\ Issuing(e)' /\ tx'[d].client = tx'[e].client /\ tx'[d].jti = tx'[e].jti => d = e
  BY <1>2, <1>3 DEF Pending
<1>6. \A x \in Clients \X Jtis : assertions'[x] = 0 => tokens'[x] = <<>>
  BY <1>3 DEF Pending
<1>7. Pending'
  BY <1>4, <1>5, <1>6 DEF Pending
<1> QED
  BY <1>1, <1>7

LEMMA Arrives ==
  ASSUME DoorInv, NEW c \in Connections, NEW door, NEW ks, NEW whom, NEW next \in Request,
         Arrive(c, door, ks, whom, next), next.op = "token" => next.step = "candidate"
  PROVE  DoorInv' /\ UNCHANGED <<clients, keys, assertions, tokens, lockedUntil, promised>>
<1>1. Requests' /\ UNCHANGED <<account, program, clock>>
      /\ tx'[c] \in {tx[c], next} /\ \A d \in Connections \ {c} : tx'[d] = tx[d]
  BY ArriveRequests DEF DoorInv
<1>2. Locks'
  BY <1>1 DEF DoorInv, Locks, account
<1>3. ~Issuing(c)'
  <2>1. tx[c] = Idle
    BY DEF Arrive
  <2>2. tx'[c].op = "token" => tx'[c].step = "candidate"
    BY <1>1, <2>1, IdleRequest
  <2> QED
    BY <2>2 DEF Issuing, At
<1>4. Identities' /\ Assertions' /\ Pending'
  BY <1>1, <1>3, Unconcerned
<1> QED
  BY <1>1, <1>2, <1>4 DEF DoorInv, account, program

LEMMA LoginSteps ==
  ASSUME DoorInv, NEW c \in Connections, Find(c) \/ Verified(c) \/ CountFailure(c)
  PROVE  DoorInv' /\ UNCHANGED <<clients, keys, assertions, tokens, lockedUntil, promised>>
<1> DEFINE t == tx[c]
<1>1. t \in Request /\ t.op = "login" /\ t.step \in {"find", "verify"}
  BY DEF DoorInv, Requests, Find, Verified, CountFailure, At
<1>2. t \in [op : {"login"}, step : {"find", "verify"}, id : Identifiers]
  BY <1>1 DEF Request, Exchange, Idle
<1>3. failures \in [Identifiers -> Int] /\ t.id \in Identifiers /\ LockThreshold \in Int
  BY <1>2 DEF DoorInv, Locks
<1>4. PICK next \in Request : Go(c, next) /\ next.op # "token"
  <2>1. CASE Find(c)
    <3>1. [t EXCEPT !.step = "verify"] \in Request /\ [t EXCEPT !.step = "verify"].op = "login"
      BY <1>2 DEF Request
    <3> QED BY <2>1, <3>1, IdleRequest DEF Find, End
  <2>2. CASE Verified(c)
    BY <2>2, IdleRequest DEF Verified, End
  <2>3. CASE CountFailure(c)
    <3> DEFINE n == [op |-> "login", step |-> "lock", id |-> t.id, count |-> failures[t.id] + 1]
    <3>1. n \in Request /\ n.op = "login"
      BY <1>3 DEF Request
    <3> QED BY <2>3, <3>1, IdleRequest DEF CountFailure, End
  <2> QED BY <2>1, <2>2, <2>3
<1>5. UNCHANGED <<lockedUntil, promised, clients, keys, assertions, tokens>>
  BY DEF Find, Verified, CountFailure, account, program
<1>6. failures' \in [Identifiers -> Int]
  BY <1>3 DEF Find, Verified, CountFailure, account
<1>7. Requests' /\ ~Issuing(c)' /\ clock' = clock /\ \A d \in Connections \ {c} : tx'[d] = tx[d]
  BY <1>4, GoRequests DEF DoorInv, Issuing, At
<1>8. Identities' /\ Assertions' /\ Pending'
  BY <1>5, <1>7, Unconcerned DEF program
<1> QED
  BY <1>5, <1>6, <1>7, <1>8 DEF DoorInv, Locks

\* The delay of a lock is at least nothing, whatever the power of two.
LEMMA BackoffType == \A count : Backoff(count) \in Nat
  BY DEF Backoff

LEMMA LockStep ==
  ASSUME DoorInv, NEW c \in Connections, Lock(c)
  PROVE  /\ DoorInv' /\ UNCHANGED <<clients, keys, assertions, tokens>>
         /\ LockCovers => LockCovers'
<1> DEFINE i == tx[c].id
           until == clock + Backoff(tx[c].count)
<1>1. tx[c] \in [op : {"login"}, step : {"lock"}, id : Identifiers, count : Int]
  BY DEF DoorInv, Requests, Request, Exchange, Idle, Lock, At
<1>2. i \in Identifiers /\ until \in Nat /\ until >= clock
  BY <1>1, BackoffType DEF DoorInv, Locks
<1>3. UNCHANGED <<failures, clients, keys, assertions, tokens, clock>> /\ Go(c, Idle)
  BY DEF Lock, End, Go, program
<1> HIDE DEF until
<1>4. /\ lockedUntil' = IF MayLock(i, until) THEN [lockedUntil EXCEPT ![i] = until] ELSE lockedUntil
      /\ promised' = [promised EXCEPT ![i] = IF until > promised[i] THEN until ELSE promised[i]]
  BY DEF Lock, until
<1>5. Locks'
  BY <1>2, <1>3, <1>4 DEF DoorInv, Locks
<1>6. LockCovers => LockCovers'
  <2>1. SUFFICES ASSUME LockCovers, NEW j \in Identifiers
                 PROVE  lockedUntil'[j] >= promised'[j]
    BY DEF LockCovers
  <2>2. lockedUntil[j] \in Nat /\ promised[j] \in Nat /\ lockedUntil[j] >= promised[j] /\ clock \in Nat
    BY <2>1 DEF LockCovers, DoorInv, Locks
  <2>3. CASE j # i
    BY <1>2, <1>4, <2>2, <2>3 DEF DoorInv, Locks
  <2>4. CASE j = i
    <3>1. promised'[i] = IF until > promised[i] THEN until ELSE promised[i]
      BY <1>2, <1>4 DEF DoorInv, Locks
    <3>2. lockedUntil'[i] = IF MayLock(i, until) THEN until ELSE lockedUntil[i]
      BY <1>2, <1>4 DEF DoorInv, Locks
    <3> QED BY <1>2, <2>2, <2>4, <3>1, <3>2 DEF MayLock
  <2> QED BY <2>3, <2>4
<1>7. Requests' /\ ~Issuing(c)' /\ \A d \in Connections \ {c} : tx'[d] = tx[d]
  BY <1>3, IdleRequest, GoRequests DEF DoorInv, Issuing, At
<1>8. Identities' /\ Assertions' /\ Pending'
  BY <1>3, <1>7, Unconcerned DEF program
<1> QED
  BY <1>3, <1>5, <1>6, <1>7, <1>8 DEF DoorInv

LEMMA RegisterSteps ==
  ASSUME DoorInv, NEW c \in Connections, DrawAgain(c) \/ \E i \in Identifiers : Create(c, i)
  PROVE  DoorInv' /\ UNCHANGED <<clients, keys, assertions, tokens, lockedUntil, promised>>
<1> DEFINE t == tx[c]
<1>1. t \in [op : {"register"}, step : {"draw"}, draws : Int]
  BY DEF DoorInv, Requests, Request, Exchange, Idle, DrawAgain, Create, At
<1>2. PICK next \in Request : Go(c, next) /\ next.op # "token"
  <2>1. [t EXCEPT !.draws = t.draws + 1] \in Request /\ [t EXCEPT !.draws = t.draws + 1].op = "register"
    BY <1>1 DEF Request
  <2> QED
    BY <2>1, IdleRequest DEF DrawAgain, Create, End
<1>3. UNCHANGED <<failures, lockedUntil, promised, clients, keys, assertions, tokens>>
  BY DEF DrawAgain, Create, account, program
<1>4. Requests' /\ ~Issuing(c)' /\ clock' = clock /\ \A d \in Connections \ {c} : tx'[d] = tx[d]
  BY <1>2, GoRequests DEF DoorInv, Issuing, At
<1>5. Identities' /\ Assertions' /\ Pending'
  BY <1>3, <1>4, Unconcerned DEF program
<1> QED
  BY <1>3, <1>4, <1>5 DEF DoorInv, Locks

-----------------------------------------------------------------------------
\* The exchange.

Of(c) == <<tx[c].client, tx[c].jti>>

LEMMA IssuingType ==
  ASSUME DoorInv, NEW c \in Connections, Issuing(c)
  PROVE  /\ tx[c] \in Exchange({"record", "issue"}) /\ Of(c) \in Clients \X Jtis
         /\ assertions[Of(c)] = 1 /\ tokens[Of(c)] = <<>>
<1>1. tx[c] \in Exchange({"record", "issue"})
  BY DEF DoorInv, Requests, Request, Idle, Issuing, At
<1>2. Of(c) \in Clients \X Jtis
  BY <1>1 DEF Of, Exchange
<1> QED
  BY <1>1, <1>2 DEF DoorInv, Pending, Of

LEMMA CandidateStep ==
  ASSUME DoorInv, NEW c \in Connections, Candidate(c)
  PROVE  DoorInv' /\ UNCHANGED <<clients, keys, assertions, tokens, lockedUntil, promised>>
<1> DEFINE t == tx[c]
           n == [op |-> "token", step |-> "record", client |-> t.client, jti |-> t.jti]
<1>1. t \in [op : {"token"}, step : {"candidate"}, client : Clients, kid : Kids, jti : Jtis]
  BY DEF DoorInv, Requests, Request, Exchange, Idle, Candidate, At
<1>2. n \in Request /\ n.step # "issue"
  BY <1>1 DEF Request, Exchange
<1>3. PICK next \in Request : Go(c, next) /\ (next.op = "token" => next.step # "issue")
  BY <1>2, IdleRequest DEF Candidate, End
<1>4. UNCHANGED <<failures, lockedUntil, promised, clients, keys, assertions, tokens>>
  BY DEF Candidate, account, program
<1>5. Requests' /\ ~Issuing(c)' /\ clock' = clock /\ \A d \in Connections \ {c} : tx'[d] = tx[d]
  BY <1>3, GoRequests DEF DoorInv, Issuing, At
<1>6. Identities' /\ Assertions' /\ Pending'
  BY <1>4, <1>5, Unconcerned DEF program
<1> QED
  BY <1>4, <1>5, <1>6 DEF DoorInv, Locks

\* An insertion that is accepted is the first of its assertion, from an ACTIVE identity.
LEMMA RecordStep ==
  ASSUME DoorInv, NEW c \in Connections, Record(c)
  PROVE  /\ DoorInv'
         /\ UNCHANGED <<clients, keys, tokens, lockedUntil, promised>>
         /\ \/ UNCHANGED assertions
            \/ \E cl \in Clients, j \in Jtis :
                  /\ clients[cl] = "ACTIVE" /\ assertions[cl, j] = 0
                  /\ assertions' = [assertions EXCEPT ![<<cl, j>>] = 1]
<1> DEFINE t == tx[c]
           n == [t EXCEPT !.step = "issue"]
           x == <<t.client, t.jti>>
<1>1. t \in Exchange({"record", "issue"}) /\ t.op = "token" /\ t.step = "record"
  BY DEF DoorInv, Requests, Request, Exchange, Idle, Record, At
<1>2. /\ n \in Request /\ n.client = t.client /\ n.jti = t.jti /\ n.op = "token" /\ n.step = "issue"
      /\ x \in Clients \X Jtis
  BY <1>1 DEF Request, Exchange
<1>3. UNCHANGED <<failures, lockedUntil, promised, clients, keys, tokens>>
  BY DEF Record, account
<1>4. CASE ~MayRecord(t.client, t.jti)
  <2>1. Go(c, Idle) /\ UNCHANGED assertions
    BY <1>4 DEF Record, End
  <2>2. Requests' /\ ~Issuing(c)' /\ clock' = clock /\ \A d \in Connections \ {c} : tx'[d] = tx[d]
    BY <2>1, IdleRequest, GoRequests DEF DoorInv, Issuing, At
  <2>3. Identities' /\ Assertions' /\ Pending'
    BY <1>3, <2>1, <2>2, Unconcerned DEF program
  <2> QED
    BY <1>3, <2>1, <2>2, <2>3 DEF DoorInv, Locks
<1>5. CASE MayRecord(t.client, t.jti)
  <2>1. clients[t.client] = "ACTIVE" /\ assertions[x] = 0 /\ tokens[x] = <<>>
    BY <1>2, <1>5 DEF MayRecord, DoorInv, Pending
  <2>2. assertions' = [assertions EXCEPT ![x] = 1] /\ Go(c, n)
    BY <1>5, <2>1 DEF Record
  <2>3. Requests' /\ tx'[c] = n /\ clock' = clock /\ \A d \in Connections \ {c} : tx'[d] = tx[d]
    BY <1>2, <2>2, GoRequests DEF DoorInv
  <2>4. assertions'[x] = 1 /\ \A y \in Clients \X Jtis : y # x => assertions'[y] = assertions[y]
    BY <1>2, <2>2 DEF DoorInv, Assertions
  <2>5. ASSUME NEW d \in Connections \ {c}, Issuing(d)'
        PROVE  Issuing(d) /\ tx'[d] = tx[d] /\ Of(d)' = Of(d) /\ Of(d) # x
    <3>1. Issuing(d) /\ tx'[d] = tx[d]
      BY <2>3, <2>5 DEF Issuing, At
    <3> QED
      BY <2>1, <3>1, IssuingType DEF Of
  <2>6. Pending'
    <3>1. \A d \in Connections : Issuing(d)' => assertions'[Of(d)'] = 1 /\ tokens'[Of(d)'] = <<>>
      <4>1. ASSUME NEW d \in Connections \ {c}, Issuing(d)'
            PROVE  assertions'[Of(d)'] = 1 /\ tokens'[Of(d)'] = <<>>
        BY <1>3, <2>4, <2>5, <4>1, IssuingType
      <4>2. Of(c)' = x
        BY <1>2, <2>3 DEF Of
      <4> QED
        BY <1>3, <2>1, <2>4, <4>1, <4>2
    <3>2. \A d, e \in Connections : Issuing(d)' /\ Issuing(e)' /\ Of(d)' = Of(e)' => d = e
      <4>1. Of(c)' = x
        BY <1>2, <2>3 DEF Of
      <4>2. \A d, e \in Connections : Issuing(d) /\ Issuing(e) /\ Of(d) = Of(e) => d = e
        BY DEF DoorInv, Pending, Of
      <4> QED
        BY <2>5, <4>1, <4>2
    <3>3. \A y \in Clients \X Jtis : assertions'[y] = 0 => tokens'[y] = <<>>
      BY <1>3, <2>1, <2>4 DEF DoorInv, Pending
    <3> QED
      BY <3>1, <3>2, <3>3 DEF Pending, Of
  <2>7. Assertions'
    BY <1>2, <1>3, <2>2 DEF DoorInv, Assertions
  <2>8. Identities' /\ Locks'
    BY <1>3, <2>3 DEF DoorInv, Identities, Locks
  <2>9. \E cl \in Clients, j \in Jtis :
           /\ clients[cl] = "ACTIVE" /\ assertions[cl, j] = 0
           /\ assertions' = [assertions EXCEPT ![<<cl, j>>] = 1]
    BY <1>2, <2>1, <2>2
  <2> QED
    BY <1>3, <2>3, <2>6, <2>7, <2>8, <2>9 DEF DoorInv
<1> QED
  BY <1>4, <1>5

\* A token is appended to an assertion that has none, by the only request that holds it.
LEMMA IssueStep ==
  ASSUME DoorInv, NEW c \in Connections, Issue(c)
  PROVE  /\ DoorInv'
         /\ UNCHANGED <<clients, keys, assertions, lockedUntil, promised>>
         /\ Of(c) \in Clients \X Jtis /\ assertions[Of(c)] = 1
         /\ tokens[Of(c)] = <<>> /\ Len(tokens'[Of(c)]) = 1
         /\ \A y \in Clients \X Jtis : y # Of(c) => tokens'[y] = tokens[y]
<1> DEFINE x == Of(c)
<1>1. Issuing(c) /\ Go(c, Idle) /\ UNCHANGED <<failures, lockedUntil, promised, clients, keys, assertions>>
  BY DEF Issue, Issuing, End, account
<1>2. x \in Clients \X Jtis /\ assertions[x] = 1 /\ tokens[x] = <<>>
  BY <1>1, IssuingType
<1>3. PICK expiry \in Nat : tokens' = [tokens EXCEPT ![x] = Append(tokens[x], expiry)]
  <2>1. clock + TokenTtl \in Nat
    BY DEF DoorInv, Locks
  <2> QED
    BY <2>1 DEF Issue, Of
<1>4. /\ tokens'[x] = Append(<<>>, expiry) /\ tokens'[x] \in Seq(Nat) /\ Len(tokens'[x]) = 1
      /\ \A y \in Clients \X Jtis : y # x => tokens'[y] = tokens[y]
  BY <1>2, <1>3 DEF DoorInv, Assertions
<1>5. Assertions'
  BY <1>1, <1>2, <1>3, <1>4 DEF DoorInv, Assertions
<1>6. Requests' /\ ~Issuing(c)' /\ clock' = clock /\ \A d \in Connections \ {c} : tx'[d] = tx[d]
  BY <1>1, IdleRequest, GoRequests DEF DoorInv, Issuing, At
<1>7. ASSUME NEW d \in Connections, Issuing(d)'
      PROVE  Issuing(d) /\ tx'[d] = tx[d] /\ Of(d)' = Of(d) /\ Of(d) # x
  <2>1. d # c /\ tx'[d] = tx[d] /\ Issuing(d)
    BY <1>6, <1>7 DEF Issuing, At
  <2> QED
    BY <1>1, <2>1 DEF DoorInv, Pending, Of
<1>8. Pending'
  <2>1. \A d \in Connections : Issuing(d)' => assertions'[Of(d)'] = 1 /\ tokens'[Of(d)'] = <<>>
    BY <1>1, <1>4, <1>7, IssuingType
  <2>2. \A d, e \in Connections : Issuing(d)' /\ Issuing(e)' /\ Of(d)' = Of(e)' => d = e
    <3>1. \A d, e \in Connections : Issuing(d) /\ Issuing(e) /\ Of(d) = Of(e) => d = e
      BY DEF DoorInv, Pending, Of
    <3> QED
      BY <1>7, <3>1
  <2>3. \A y \in Clients \X Jtis : assertions'[y] = 0 => tokens'[y] = <<>>
    <3>1. \A y \in Clients \X Jtis : assertions[y] = 0 => tokens[y] = <<>>
      BY DEF DoorInv, Pending
    <3>2. assertions[x] # 0 /\ assertions' = assertions
      BY <1>1, <1>2
    <3> HIDE DEF x
    <3> QED
      BY <1>4, <3>1, <3>2
  <2> QED
    BY <2>1, <2>2, <2>3 DEF Pending, Of
<1>9. Identities' /\ Locks'
  BY <1>1, <1>6 DEF DoorInv, Identities, Locks
<1> QED
  BY <1>1, <1>2, <1>4, <1>5, <1>6, <1>8, <1>9 DEF DoorInv

-----------------------------------------------------------------------------
\* The administration, and what happens around.

LEMMA AdminInv ==
  ASSUME DoorInv, UNCHANGED <<account, gates, assertions, tokens, clock, tx>>, Identities'
  PROVE  DoorInv'
<1>1. Requests' /\ Locks' /\ Assertions'
  BY DEF DoorInv, Requests, Locks, Assertions, account
<1>2. Pending'
  BY DEF DoorInv, Pending, Issuing, At
<1> QED
  BY <1>1, <1>2 DEF DoorInv

LEMMA RegisterClientStep ==
  ASSUME DoorInv, NEW cl \in Clients, NEW k \in Kids, RegisterClient(cl, k)
  PROVE  DoorInv' /\ Door!Enrol(cl)
<1>1. /\ clients[cl] = "unknown" /\ clients' = [clients EXCEPT ![cl] = "ACTIVE"]
      /\ keys' = [keys EXCEPT ![cl] = [keys[cl] EXCEPT ![k] = "ACTIVE"]]
      /\ UNCHANGED <<account, gates, assertions, tokens, clock, tx>>
  BY DEF RegisterClient
<1>2. Identities'
  BY <1>1 DEF DoorInv, Identities
<1>3. KeysOf(cl)' = {k} /\ \A d \in Clients \ {cl} : KeysOf(d)' = KeysOf(d)
  BY <1>1 DEF DoorInv, Identities, KeysOf
<1>4. Verifying' = [Verifying EXCEPT ![cl] = {k}]
  BY <1>3 DEF Verifying
<1>5. TokensGiven' = TokensGiven
  BY <1>1 DEF TokensGiven
<1> QED
  BY <1>1, <1>2, <1>4, <1>5, AdminInv DEF Door!Enrol

LEMMA RotateKeyStep ==
  ASSUME DoorInv, NEW cl \in Clients, NEW k \in Kids, RotateKey(cl, k)
  PROVE  DoorInv' /\ Door!Rotate(cl)
<1>1. /\ clients[cl] = "ACTIVE" /\ keys[cl][k] = "none" /\ clients' = clients
      /\ keys' = [keys EXCEPT ![cl] = [Retired(cl) EXCEPT ![k] = "ACTIVE"]]
      /\ UNCHANGED <<account, gates, assertions, tokens, clock, tx>>
  BY DEF RotateKey
<1>2. Retired(cl) \in [Kids -> {"none", "REVOKED"}]
  BY DEF DoorInv, Identities, Retired
<1>3. Identities'
  BY <1>1, <1>2 DEF DoorInv, Identities
<1>4. KeysOf(cl)' = {k} /\ \A d \in Clients \ {cl} : KeysOf(d)' = KeysOf(d)
  BY <1>1, <1>2 DEF DoorInv, Identities, KeysOf
<1>5. Verifying' = [Verifying EXCEPT ![cl] = {k}]
  BY <1>4 DEF Verifying
<1>7. k \in Kids \ Verifying[cl]
  BY <1>1 DEF Verifying, KeysOf
<1>6. TokensGiven' = TokensGiven
  BY <1>1 DEF TokensGiven
<1> QED
  BY <1>1, <1>3, <1>5, <1>6, <1>7, AdminInv DEF Door!Rotate

LEMMA RevokeClientStep ==
  ASSUME DoorInv, NEW cl \in Clients, RevokeClient(cl)
  PROVE  DoorInv' /\ Door!Revoke(cl)
<1>1. /\ clients[cl] = "ACTIVE" /\ clients' = [clients EXCEPT ![cl] = "REVOKED"]
      /\ keys' = [keys EXCEPT ![cl] = Retired(cl)]
      /\ UNCHANGED <<account, gates, assertions, tokens, clock, tx>>
  BY DEF RevokeClient
<1>2. Retired(cl) \in [Kids -> {"none", "REVOKED"}]
  BY DEF DoorInv, Identities, Retired
<1>3. Identities'
  BY <1>1, <1>2 DEF DoorInv, Identities
<1>4. KeysOf(cl)' = {} /\ \A d \in Clients \ {cl} : KeysOf(d)' = KeysOf(d)
  BY <1>1, <1>2 DEF DoorInv, Identities, KeysOf
<1>5. Verifying' = [Verifying EXCEPT ![cl] = {}]
  BY <1>4 DEF Verifying
<1>6. TokensGiven' = TokensGiven
  BY <1>1 DEF TokensGiven
<1> QED
  BY <1>1, <1>3, <1>5, <1>6, AdminInv DEF Door!Revoke

LEMMA RestartStep ==
  ASSUME DoorInv, Restart
  PROVE  DoorInv' /\ UNCHANGED <<clients, keys, assertions, tokens, lockedUntil, promised>>
<1>1. Requests' /\ \A c \in Connections : ~Issuing(c)'
  BY IdleRequest DEF Restart, Requests, Issuing, At
<1>2. UNCHANGED <<clients, keys, assertions, tokens, failures, lockedUntil, promised, clock>>
  BY DEF Restart, account, program
<1>3. Pending'
  BY <1>1, <1>2 DEF DoorInv, Pending
<1> QED
  BY <1>1, <1>2, <1>3 DEF DoorInv, Locks, Identities, Assertions

LEMMA TickStep ==
  ASSUME DoorInv, Tick
  PROVE  DoorInv' /\ UNCHANGED <<clients, keys, assertions, tokens, lockedUntil, promised>>
<1>1. clock' = clock + 1 /\ UNCHANGED <<account, program, tx>>
  BY DEF Tick
<1>2. Requests' /\ Locks' /\ Identities' /\ Assertions'
  BY <1>1 DEF DoorInv, Requests, Locks, Identities, Assertions, account, program
<1>3. Pending'
  BY <1>1 DEF DoorInv, Pending, Issuing, At, program
<1> QED
  BY <1>1, <1>2, <1>3 DEF DoorInv, account, program

-----------------------------------------------------------------------------
\* What every step does to the invariant, the locks and the door.

LEMMA DoorInit ==
  ASSUME Init
  PROVE  DoorInv /\ LockCovers /\ Door!Init
<1>1. Requests
  BY IdleRequest DEF Init, Requests
<1>2. Locks /\ LockCovers
  BY DEF Init, Locks, LockCovers
<1>3. Identities /\ Assertions
  BY DEF Init, Identities, Assertions
<1>4. Pending
  <2>1. \A c \in Connections : ~Issuing(c)
    BY IdleRequest DEF Init, Issuing, At
  <2> QED
    BY <2>1 DEF Init, Pending
<1>5. Verifying = [cl \in Clients |-> {}]
  <2>1. \A cl \in Clients : KeysOf(cl) = {}
    BY DEF Init, KeysOf
  <2> QED
    BY <2>1 DEF Verifying
<1>6. TokensGiven = [x \in Clients \X Jtis |-> 0]
  BY DEF Init, TokensGiven
<1> QED
  BY <1>1, <1>2, <1>3, <1>4, <1>5, <1>6 DEF DoorInv, Door!Init, Init

DoorStill == UNCHANGED <<clients, keys, assertions, tokens>>

LEMMA DoorStutters ==
  ASSUME DoorStill
  PROVE  UNCHANGED Door!doorVars
<1>1. Verifying' = Verifying
  BY DEF DoorStill, Verifying, KeysOf
<1>2. TokensGiven' = TokensGiven
  BY DEF DoorStill, TokensGiven
<1> QED
  BY <1>1, <1>2 DEF Door!doorVars, DoorStill

LEMMA RecordAccepts ==
  ASSUME DoorInv, NEW c \in Connections, Record(c)
  PROVE  Door!Next \/ UNCHANGED Door!doorVars
<1>1. CASE UNCHANGED assertions
  BY <1>1, RecordStep, DoorStutters DEF DoorStill
<1>2. CASE ~UNCHANGED assertions
  <2>1. PICK cl \in Clients, j \in Jtis :
           /\ clients[cl] = "ACTIVE" /\ assertions[cl, j] = 0
           /\ assertions' = [assertions EXCEPT ![<<cl, j>>] = 1]
    BY <1>2, RecordStep
  <2>2. UNCHANGED <<clients, keys, tokens>>
    BY RecordStep
  <2>3. Verifying' = Verifying /\ TokensGiven' = TokensGiven
    BY <2>2 DEF Verifying, KeysOf, TokensGiven
  <2>4. Door!Accept(cl, j)
    BY <2>1, <2>2, <2>3 DEF Door!Accept
  <2> QED
    BY <2>4 DEF Door!Next
<1> QED
  BY <1>1, <1>2

LEMMA IssueGrants ==
  ASSUME DoorInv, NEW c \in Connections, Issue(c)
  PROVE  Door!Next
<1>1. PICK cl \in Clients, j \in Jtis : Of(c) = <<cl, j>>
  BY IssueStep
<1>2. /\ UNCHANGED <<clients, keys, assertions>> /\ assertions[cl, j] = 1
      /\ tokens[cl, j] = <<>> /\ Len(tokens'[<<cl, j>>]) = 1
      /\ \A y \in Clients \X Jtis : y # <<cl, j>> => tokens'[y] = tokens[y]
  <2>1. /\ UNCHANGED <<clients, keys, assertions>> /\ assertions[Of(c)] = 1
        /\ tokens[Of(c)] = <<>> /\ Len(tokens'[Of(c)]) = 1
    BY IssueStep
  <2>2. \A y \in Clients \X Jtis : y # Of(c) => tokens'[y] = tokens[y]
    BY IssueStep
  <2> QED
    BY <1>1, <2>1, <2>2
<1> DEFINE x == <<cl, j>>
<1>3. /\ x \in Clients \X Jtis /\ tokens[x] = <<>> /\ Len(tokens'[x]) = 1
      /\ \A y \in Clients \X Jtis : y # x => tokens'[y] = tokens[y]
  BY <1>2
<1>4. Verifying' = Verifying
  BY <1>2 DEF Verifying, KeysOf
<1> HIDE DEF x
<1>5. /\ TokensGiven \in [Clients \X Jtis -> {Len(tokens[y]) : y \in Clients \X Jtis}]
      /\ TokensGiven[x] = 0
  <2>1. Len(<<>>) = 0
    OBVIOUS
  <2> QED
    BY <1>3, <2>1 DEF TokensGiven
<1>6. TokensGiven' = [TokensGiven EXCEPT ![x] = TokensGiven[x] + 1]
  <2>1. TokensGiven'[x] = 1 /\ \A y \in Clients \X Jtis : y # x => TokensGiven'[y] = TokensGiven[y]
    BY <1>3 DEF TokensGiven
  <2>2. TokensGiven[x] + 1 = 1
    BY <1>5
  <2>3. TokensGiven' \in [Clients \X Jtis -> {Len(tokens'[y]) : y \in Clients \X Jtis}]
    BY DEF TokensGiven
  <2> QED
    BY <1>3, <1>5, <2>1, <2>2, <2>3
<1>7. TokensGiven[<<cl, j>>] < assertions[<<cl, j>>]
  <2>1. TokensGiven[<<cl, j>>] = 0
    BY <1>5 DEF x
  <2>2. assertions[<<cl, j>>] = 1
    BY <1>2
  <2> QED
    BY <2>1, <2>2
<1>8. TokensGiven' = [TokensGiven EXCEPT ![<<cl, j>>] = TokensGiven[<<cl, j>>] + 1]
  BY <1>6 DEF x
<1>9. Door!Grant(cl, j)
  BY <1>2, <1>4, <1>7, <1>8 DEF Door!Grant
<1> QED
  BY <1>9 DEF Door!Next

LEMMA RequestArrives ==
  ASSUME DoorInv, NEW c \in Connections, NEW a \in Addresses,
         \/ \E i \in Identifiers : LoginRequest(c, a, i)
         \/ RegisterRequest(c, a) \/ IllegibleRequest(c, a)
         \/ \E cl \in Clients, k \in Kids, j \in Jtis : TokenRequest(c, a, cl, k, j)
  PROVE  DoorInv' /\ DoorStill /\ UNCHANGED <<lockedUntil, promised>>
<1>1. CASE \E i \in Identifiers : LoginRequest(c, a, i)
  <2>1. PICK i \in Identifiers : LoginRequest(c, a, i)
    BY <1>1
  <2> DEFINE n == [op |-> "login", step |-> "find", id |-> i]
  <2>2. n \in Request /\ n.op # "token"
    BY DEF Request
  <2>3. PICK seen : Arrive(c, "login", <<Ip(seen), Id(i)>>, {a, i}, n)
    BY <2>1 DEF LoginRequest
  <2> QED
    BY <2>2, <2>3, Arrives DEF DoorStill
<1>2. CASE RegisterRequest(c, a)
  <2> DEFINE n == [op |-> "register", step |-> "draw", draws |-> 0]
  <2>1. n \in Request /\ n.op # "token"
    BY DEF Request
  <2> HIDE DEF n
  <2>2. PICK seen \in Seen(a), longEnough \in BOOLEAN :
           Arrive(c, "register", <<Key(seen)>>, {a}, IF longEnough THEN n ELSE Idle)
    BY <1>2 DEF RegisterRequest, n
  <2> DEFINE next == IF longEnough THEN n ELSE Idle
  <2>3. next \in Request /\ next.op # "token"
    BY <2>1, IdleRequest
  <2> QED
    BY <2>2, <2>3, Arrives DEF DoorStill
<1>3. CASE IllegibleRequest(c, a)
  <2>1. PICK seen : Arrive(c, "token", IllegibleKeys(seen), {a}, Idle)
    BY <1>3 DEF IllegibleRequest
  <2> QED
    BY <2>1, IdleRequest, Arrives DEF DoorStill
<1>4. CASE \E cl \in Clients, k \in Kids, j \in Jtis : TokenRequest(c, a, cl, k, j)
  <2>1. PICK cl \in Clients, k \in Kids, j \in Jtis : TokenRequest(c, a, cl, k, j)
    BY <1>4
  <2> DEFINE n == [op |-> "token", step |-> "candidate", client |-> cl, kid |-> k, jti |-> j]
  <2>2. n \in Request /\ n.step = "candidate"
    BY DEF Request
  <2> HIDE DEF n
  <2>3. PICK seen \in Seen(a), exp \in 0..(MaxTime + AssertionTtl + 1) :
           Arrive(c, "token", <<Ip(seen), Id(cl)>>, {a, cl}, IF Timely(exp) THEN n ELSE Idle)
    BY <2>1 DEF TokenRequest, n
  <2> DEFINE next == IF Timely(exp) THEN n ELSE Idle
  <2>4. next \in Request /\ (next.op = "token" => next.step = "candidate")
    BY <2>2, IdleRequest
  <2> QED
    BY <2>3, <2>4, Arrives DEF DoorStill
<1> QED
  BY <1>1, <1>2, <1>3, <1>4

LEMMA CallArrives ==
  ASSUME DoorInv, NEW c \in Connections, NEW cl \in Clients, Call(c, cl)
  PROVE  DoorInv' /\ DoorStill /\ UNCHANGED <<lockedUntil, promised>>
<1>1. Arrive(c, "v1", <<Key(cl)>>, {cl}, Idle)
  BY DEF Call
<1> QED
  BY <1>1, IdleRequest, Arrives DEF DoorStill

LEMMA DoorStep ==
  ASSUME DoorInv, [Next]_vars
  PROVE  /\ DoorInv'
         /\ LockCovers => LockCovers'
         /\ [Door!Next]_(Door!doorVars)
<1> DEFINE Quiet == DoorInv' /\ DoorStill /\ UNCHANGED <<lockedUntil, promised>>
<1>1. Quiet => DoorInv' /\ (LockCovers => LockCovers') /\ UNCHANGED Door!doorVars
  BY DoorStutters DEF LockCovers
<1>2. CASE UNCHANGED vars
  <2>1. UNCHANGED <<clients, keys, assertions, tokens, failures, lockedUntil, promised, clock, tx>>
    BY <1>2 DEF vars, account, program
  <2>2. Requests' /\ Locks' /\ Identities' /\ Assertions' /\ Pending'
    BY <2>1 DEF DoorInv, Requests, Locks, Identities, Assertions, Pending, Issuing, At
  <2> QED
    BY <1>1, <2>1, <2>2 DEF DoorInv, DoorStill
<1>3. CASE \E c \in Connections, a \in Addresses :
             \/ \E i \in Identifiers : LoginRequest(c, a, i)
             \/ RegisterRequest(c, a) \/ IllegibleRequest(c, a)
             \/ \E cl \in Clients, k \in Kids, j \in Jtis : TokenRequest(c, a, cl, k, j)
  BY <1>1, <1>3, RequestArrives
<1>4. ASSUME NEW c \in Connections,
             \/ Find(c) \/ Verified(c) \/ CountFailure(c)
             \/ DrawAgain(c) \/ \E i \in Identifiers : Create(c, i)
             \/ Candidate(c)
             \/ \E cl \in Clients : Call(c, cl)
      PROVE  Quiet
  BY <1>4, LoginSteps, RegisterSteps, CandidateStep, CallArrives DEF DoorStill
<1>5. ASSUME NEW c \in Connections, Lock(c)
      PROVE  DoorInv' /\ (LockCovers => LockCovers') /\ UNCHANGED Door!doorVars
  BY <1>5, LockStep, DoorStutters DEF DoorStill
<1>6. ASSUME NEW c \in Connections, Record(c)
      PROVE  DoorInv' /\ (LockCovers => LockCovers') /\ [Door!Next]_(Door!doorVars)
  BY <1>6, RecordStep, RecordAccepts DEF LockCovers
<1>7. ASSUME NEW c \in Connections, Issue(c)
      PROVE  DoorInv' /\ (LockCovers => LockCovers') /\ Door!Next
  BY <1>7, IssueStep, IssueGrants DEF LockCovers
<1>8. ASSUME NEW cl \in Clients, RevokeClient(cl) \/ \E k \in Kids : RegisterClient(cl, k) \/ RotateKey(cl, k)
      PROVE  DoorInv' /\ (LockCovers => LockCovers') /\ Door!Next
  <2>1. DoorInv' /\ (Door!Revoke(cl) \/ Door!Enrol(cl) \/ Door!Rotate(cl))
    BY <1>8, RevokeClientStep, RegisterClientStep, RotateKeyStep
  <2>2. UNCHANGED <<lockedUntil, promised>>
    BY <1>8 DEF RevokeClient, RegisterClient, RotateKey, account
  <2> QED
    BY <2>1, <2>2 DEF LockCovers, Door!Next
<1>9. CASE Tick \/ Restart
  BY <1>1, <1>9, TickStep, RestartStep DEF DoorStill
<1> QED
  BY <1>1, <1>2, <1>3, <1>4, <1>5, <1>6, <1>7, <1>8, <1>9 DEF Next

-----------------------------------------------------------------------------
\* However the failures of a secret interleave, the lock of an account lasts at least as
\* long as the longest that one of them asked for (registerFailure, C8).
THEOREM LockNeverRecedes == Spec => []LockCovers
<1>1. Init => DoorInv /\ LockCovers
  BY DoorInit
<1>2. DoorInv /\ LockCovers /\ [Next]_vars => (DoorInv /\ LockCovers)'
  BY DoorStep
<1> QED
  BY <1>1, <1>2, PTL DEF Spec

\* The exchange of assertions keeps the promise of ProgramDoor: one acceptance of an
\* assertion, from an identity that is ACTIVE then, and one token for it.
THEOREM DoorKept == Spec => ImplementsDoor
<1>1. Init => DoorInv /\ Door!Init
  BY DoorInit
<1>2. DoorInv /\ [Next]_vars => DoorInv' /\ [Door!Next]_(Door!doorVars)
  BY DoorStep
<1> QED
  BY <1>1, <1>2, PTL DEF Spec, ImplementsDoor, Door!Spec

-----------------------------------------------------------------------------
\* The throttles.

\* A caller's address is theirs, whatever they claim and whichever proxy they go through.
LEMMA LeastOf ==
  ASSUME NEW S \in SUBSET Nat, NEW n \in S, \A m \in S : n <= m
  PROVE  Min(S) = n
<1> DEFINE Least(x) == x \in S /\ \A m \in S : x <= m
<1>1. \A x : Least(x) <=> x = n
  <2>1. \A x : Least(x) => x \in Nat /\ x <= n /\ n <= x
    OBVIOUS
  <2>2. \A x \in Nat : x <= n /\ n <= x => x = n
    OBVIOUS
  <2>3. Least(n)
    OBVIOUS
  <2> HIDE DEF Least
  <2> QED BY <2>1, <2>2, <2>3
<1>2. Min(S) = CHOOSE x : Least(x)
  BY DEF Min
<1>3. Least(CHOOSE x : Least(x))
  <2> HIDE DEF Least
  <2>1. Least(n)
    BY <1>1
  <2> QED BY <2>1, Zenon
<1> QED
  BY <1>1, <1>2, <1>3

LEMMA SeenAsThemselves ==
  ASSUME NEW a \in Addresses
  PROVE  Seen(a) \subseteq {a}
<1> DEFINE Hop == Addresses \cup Proxies \cup {Elsewhere, NotAnAddress}
<1>1. ASSUME NEW f \in Seq(Hop) PROVE ClientOf(a, f) = a
  <2> DEFINE g == Reverse(f)
             hops == <<a>> \o g
  <2>1. Len(f) \in Nat /\ \A i \in 1..Len(f) : f[i] \in Hop
    BY LenProperties, ElementOfSeq
  <2>2. g \in [1..Len(f) -> Hop]
    <3> HIDE DEF Hop
    <3>1. \A i \in 1..Len(f) : Len(f) - i + 1 \in 1..Len(f)
      BY <2>1
    <3> QED BY <2>1, <3>1 DEF Reverse
  <2> HIDE DEF g
  <2>3. g \in Seq(Hop) /\ <<a>> \in Seq(Hop) /\ Len(<<a>>) = 1
    BY <2>1, <2>2, SeqDef
  <2>4. hops \in Seq(Hop) /\ Len(hops) = 1 + Len(g) /\ hops[1] = a /\ Len(g) \in Nat
    BY <2>3, ConcatProperties, LenProperties
  <2> HIDE DEF hops
  <2>5. DOMAIN hops = 1..Len(hops) /\ Len(hops) \in Nat \ {0}
    BY <2>4, LenProperties
  <2> DEFINE outside == {n \in DOMAIN hops : ~Trusted(hops[n])}
  <2>6. 1 \in outside /\ outside \in SUBSET Nat /\ \A m \in outside : 1 <= m
    BY <2>4, <2>5, AccessAssumption DEF Trusted, AccessAssumption
  <2>7. Min(outside) = 1
    BY <2>6, LeastOf
  <2>8. FirstUntrusted(hops) = a
    BY <2>4, <2>6, <2>7 DEF FirstUntrusted
  <2> QED BY <2>8 DEF ClientOf, hops, g
<1>2. ASSUME NEW f \in Seq(Hop), NEW p \in Proxies PROVE ClientOf(p, Append(f, a)) = a
  <2> DEFINE s == Append(f, a)
             g == Reverse(s)
             hops == <<p>> \o g
  <2>1. s \in Seq(Hop) /\ Len(s) = Len(f) + 1 /\ s[Len(s)] = a /\ Len(f) \in Nat
    BY AppendProperties, LenProperties
  <2> HIDE DEF s
  <2>2. \A i \in 1..Len(s) : s[i] \in Hop
    BY <2>1, ElementOfSeq
  <2>3. g \in [1..Len(s) -> Hop] /\ g[1] = a
    <3> HIDE DEF Hop
    <3>1. \A i \in 1..Len(s) : Len(s) - i + 1 \in 1..Len(s)
      BY <2>1
    <3>2. 1 \in 1..Len(s) /\ Len(s) - 1 + 1 = Len(s)
      BY <2>1
    <3> QED BY <2>1, <2>2, <3>1, <3>2 DEF Reverse
  <2> HIDE DEF g
  <2>4. g \in Seq(Hop) /\ <<p>> \in Seq(Hop) /\ Len(<<p>>) = 1 /\ <<p>>[1] = p /\ Len(g) = Len(s)
    <3>1. g \in Seq(Hop) /\ <<p>> \in Seq(Hop) /\ Len(<<p>>) = 1 /\ <<p>>[1] = p
      BY <2>1, <2>3, SeqDef
    <3>2. DOMAIN g = 1..Len(s) /\ DOMAIN g = 1..Len(g) /\ Len(g) \in Nat /\ Len(s) \in Nat
      BY <2>1, <2>3, <3>1, LenProperties
    <3> HIDE DEF Hop
    <3>3. Len(g) = Len(s)
      BY <3>2
    <3> QED BY <3>1, <3>3
  <2>5. hops \in Seq(Hop) /\ Len(hops) = 1 + Len(g) /\ hops[1] = p /\ hops[2] = g[1]
    BY <2>1, <2>4, ConcatProperties, LenProperties
  <2> HIDE DEF hops
  <2>6. DOMAIN hops = 1..Len(hops) /\ Len(hops) \in Nat /\ Len(hops) >= 2
    BY <2>1, <2>4, <2>5, LenProperties
  <2> DEFINE outside == {n \in DOMAIN hops : ~Trusted(hops[n])}
  <2>7. 2 \in outside /\ 1 \notin outside /\ outside \in SUBSET Nat
    BY <2>3, <2>5, <2>6, AccessAssumption DEF Trusted, AccessAssumption
  <2>8. \A m \in outside : 2 <= m
    BY <2>6, <2>7
  <2>9. Min(outside) = 2
    BY <2>7, <2>8, LeastOf
  <2>10. FirstUntrusted(hops) = a
    BY <2>3, <2>5, <2>7, <2>9 DEF FirstUntrusted
  <2> QED BY <2>10, LegibleAssumption DEF ClientOf, hops, g, s, LegibleAssumption
<1>3. Forged \subseteq Seq(Hop)
  <2>1. \A h \in Hop : <<h>> \in Seq(Hop)
    BY SeqDef
  <2>2. <<>> \in Seq(Hop)
    BY EmptySeq
  <2> QED BY <2>1, <2>2 DEF Forged
<1> HIDE DEF Hop
<1>4. \A r \in Routes(a) : ClientOf(r[1], r[2]) = a
  <2>1. \A f \in Forged : ClientOf(a, f) = a /\ \A p \in Proxies : ClientOf(p, Append(f, a)) = a
    BY <1>1, <1>2, <1>3
  <2>2. ASSUME NEW r \in Routes(a)
        PROVE  \/ \E f \in Forged : r = <<a, f>>
               \/ \E p \in Proxies, f \in Forged : r = <<p, Append(f, a)>>
    BY <2>2 DEF Routes
  <2>3. \A x, y : <<x, y>>[1] = x /\ <<x, y>>[2] = y
    OBVIOUS
  <2> SUFFICES ASSUME NEW r \in Routes(a)
               PROVE  ClientOf(r[1], r[2]) = a
    OBVIOUS
  <2>4. CASE \E f \in Forged : r = <<a, f>>
    BY <2>1, <2>4
  <2>5. CASE \E p \in Proxies, f \in Forged : r = <<p, Append(f, a)>>
    <3> PICK p \in Proxies, f \in Forged : r = <<p, Append(f, a)>>
      BY <2>5
    <3>1. r[1] = p /\ r[2] = Append(f, a)
      BY <2>3
    <3> QED BY <2>1, <3>1
  <2> QED BY <2>2, <2>4, <2>5
<1> QED
  BY <1>4 DEF Seen

-----------------------------------------------------------------------------
\* What the throttles let through, against what they counted.

\* The counter that stands for somebody at a door: LoginThrottle's keys.
CounterOf(d, w) ==
    IF w \in Addresses THEN (IF d \in {"login", "token"} THEN Ip(w) ELSE Key(w))
    ELSE (IF d = "v1" THEN Key(w) ELSE Id(w))

RunsIn(now, c, k) == k \in DOMAIN c /\ now - c[k].start < Window

Passages(S, d, w, from, to) == {x \in S : x.door = d /\ x.who = w /\ x.at \in from..to}
Count(S, d, w, from, to) == Cardinality(Passages(S, d, w, from, to))

\* A window that runs since `start' holds no more than it counted, less the first once its
\* first instant is past; what is left of the windows before it is short of one.
Accounts(now, S, d, w, start, count) ==
    /\ Count(S, d, w, start, now) <= count
    /\ Count(S, d, w, start, now) <= MaxAttempts[d]
    /\ Count(S, d, w, start + 1, now) <= count - 1
    /\ Count(S, d, w, start + 1, now) <= MaxAttempts[d] - 1
    /\ Count(S, d, w, start - Window + 1, start - 1) <= MaxAttempts[d] - 1

Within(now, c, S, d, w) ==
    LET k == CounterOf(d, w)
        cap == MaxAttempts[d]
    IN /\ RunsIn(now, c, k) => Accounts(now, S, d, w, c[k].start, c[k].count)
       /\ ~RunsIn(now, c, k) =>
            /\ Count(S, d, w, now, now) = 0
            /\ Count(S, d, w, now - Window + 1, now) <= cap - 1

Subjects == Addresses \cup Identifiers \cup Clients

\* No counter runs ahead of the clock or of the requests, nobody passes in the future.
Fits(now, m, c) == \A k \in DOMAIN c : c[k] \in [start : 0..now, count : 1..m]

Dated(now, S) == IsFiniteSet(S) /\ \A x \in S : x.at \in 0..now

Budgeted(S, d, w) ==
    \A t \in Int :
        /\ Count(S, d, w, t, t) <= MaxAttempts[d]
        /\ Count(S, d, w, t, t + Window - 1) <= 2 * MaxAttempts[d] - 1

ThrottleInv ==
    /\ clock \in Nat /\ asked \in Nat
    /\ DOMAIN counters = Doors
    /\ \A d \in Doors : Fits(clock, asked, counters[d])
    /\ Dated(clock, passed)
    /\ \A d \in Doors, w \in Subjects :
          Within(clock, counters[d], passed, d, w) /\ Budgeted(passed, d, w)

LEMMA CapType ==
  ASSUME NEW d \in Doors
  PROVE  MaxAttempts[d] \in Nat \ {0}
  BY AccessAssumption DEF AccessAssumption

\* Counting a set of passages.

LEMMA CountType ==
  ASSUME NEW now, NEW S, Dated(now, S), NEW d, NEW w, NEW from, NEW to
  PROVE  IsFiniteSet(Passages(S, d, w, from, to)) /\ Count(S, d, w, from, to) \in Nat
<1>1. Passages(S, d, w, from, to) \subseteq S /\ IsFiniteSet(S)
  BY DEF Passages, Dated
<1>2. IsFiniteSet(Passages(S, d, w, from, to))
  BY <1>1, FS_Subset
<1> QED
  BY <1>2, FS_CardinalityType DEF Count

\* A part of an interval holds no more than the whole.
LEMMA CountMono ==
  ASSUME NEW now \in Nat, NEW S, Dated(now, S), NEW d, NEW w,
         NEW a \in Int, NEW b \in Int, NEW from \in Int, NEW to \in Int,
         from <= a \/ from <= 0, b <= to \/ now <= to
  PROVE  Count(S, d, w, a, b) <= Count(S, d, w, from, to)
<1>1. Passages(S, d, w, a, b) \subseteq Passages(S, d, w, from, to)
  <2>1. \A x \in S : x.at \in 0..now
    BY DEF Dated
  <2> SUFFICES ASSUME NEW x \in Passages(S, d, w, a, b)
               PROVE  x \in Passages(S, d, w, from, to)
    OBVIOUS
  <2>2. x \in S /\ x.door = d /\ x.who = w /\ x.at \in a..b
    BY DEF Passages
  <2>3. x.at \in 0..now
    BY <2>1, <2>2
  <2>4. x.at \in from..to
    BY <2>2, <2>3
  <2> QED
    BY <2>2, <2>4 DEF Passages
<1>2. IsFiniteSet(Passages(S, d, w, from, to))
  BY CountType
<1> QED
  BY <1>1, <1>2, FS_Subset DEF Count

\* An interval holds no more than its two parts.
LEMMA CountSplit ==
  ASSUME NEW now \in Nat, NEW S, Dated(now, S), NEW d, NEW w,
         NEW a \in Int, NEW m \in Int, NEW b \in Int
  PROVE  Count(S, d, w, a, b) <= Count(S, d, w, a, m - 1) + Count(S, d, w, m, b)
<1> DEFINE whole == Passages(S, d, w, a, b)
           first == Passages(S, d, w, a, m - 1)
           second == Passages(S, d, w, m, b)
<1>1. whole \subseteq first \cup second
  <2>1. \A x \in S : x.at \in 0..now
    BY DEF Dated
  <2> SUFFICES ASSUME NEW x \in whole
               PROVE  x \in first \/ x \in second
    OBVIOUS
  <2>2. x \in S /\ x.door = d /\ x.who = w /\ x.at \in a..b
    BY DEF Passages
  <2>3. x.at \in Int
    BY <2>1, <2>2
  <2>4. x.at \in a..(m - 1) \/ x.at \in m..b
    BY <2>2, <2>3
  <2> QED
    BY <2>2, <2>4 DEF Passages
<1>2. IsFiniteSet(first) /\ IsFiniteSet(second)
  BY CountType
<1> HIDE DEF whole, first, second
<1>3. /\ IsFiniteSet(first \cup second)
      /\ Cardinality(first \cup second) = Cardinality(first) + Cardinality(second) - Cardinality(first \cap second)
  BY <1>2, FS_Union
<1>4. IsFiniteSet(first \cap second)
  BY <1>2, FS_Subset
<1>5. Cardinality(first \cap second) \in Nat /\ Cardinality(first) \in Nat /\ Cardinality(second) \in Nat
  BY <1>2, <1>4, FS_CardinalityType
<1>6. Cardinality(whole) <= Cardinality(first \cup second)
  BY <1>1, <1>3, FS_Subset
<1>7. IsFiniteSet(whole)
  BY <1>1, <1>3, FS_Subset
<1>8. Cardinality(whole) \in Nat
  BY <1>7, FS_CardinalityType
<1>9. Cardinality(whole) <= Cardinality(first) + Cardinality(second)
  BY <1>3, <1>5, <1>6, <1>8
<1> QED
  BY <1>9 DEF Count, whole, first, second

\* Nobody has passed yet after the present.
LEMMA CountLater ==
  ASSUME NEW now \in Nat, NEW S, Dated(now, S), NEW d, NEW w, NEW a \in Int, NEW b \in Int, a > now
  PROVE  Count(S, d, w, a, b) = 0
<1>1. Passages(S, d, w, a, b) = {}
  <2>1. \A x \in S : x.at \in 0..now
    BY DEF Dated
  <2> SUFFICES ASSUME NEW x \in Passages(S, d, w, a, b)
               PROVE  FALSE
    OBVIOUS
  <2>2. x \in S /\ x.at \in a..b
    BY DEF Passages
  <2> QED
    BY <2>1, <2>2
<1> QED
  BY <1>1, FS_EmptySet DEF Count

PassedBy(door, whom, now, number) ==
    {[door |-> door, who |-> x, at |-> now, number |-> number] : x \in whom}

\* Those who pass now add one for each of them, at that door and in what holds the present.
LEMMA CountPassing ==
  ASSUME NEW now \in Nat, NEW S, Dated(now, S), NEW door, NEW whom, NEW number, IsFiniteSet(whom),
         NEW T, T = S \cup PassedBy(door, whom, now, number)
  PROVE  /\ Dated(now, T)
         /\ \A d, w : \A a, b \in Int :
               /\ Count(T, d, w, a, b) <= Count(S, d, w, a, b) + 1
               /\ d # door \/ w \notin whom \/ now \notin a..b =>
                     Count(T, d, w, a, b) = Count(S, d, w, a, b)
<1> DEFINE pass(x) == [door |-> door, who |-> x, at |-> now, number |-> number]
           new == {pass(x) : x \in whom}
<1>0. T = S \cup new
  BY DEF PassedBy
<1>1. IsFiniteSet(new)
  <2> DEFINE f == [x \in whom |-> pass(x)]
  <2>1. f \in [whom -> new] /\ \A y \in new : \E x \in whom : f[x] = y
    OBVIOUS
  <2>2. f \in Surjection(whom, new)
    BY <2>1 DEF Surjection
  <2> QED
    BY <2>2, FS_Surjection DEF ExistsSurjection
<1>2. Dated(now, T)
  <2>1. IsFiniteSet(T)
    BY <1>0, <1>1, FS_Union DEF Dated
  <2>2. \A x \in new : x.at \in 0..now
    OBVIOUS
  <2>3. \A x \in S : x.at \in 0..now
    BY DEF Dated
  <2> HIDE DEF new
  <2>4. \A x \in T : x.at \in 0..now
    BY <1>0, <2>2, <2>3
  <2> QED
    BY <2>1, <2>4 DEF Dated
<1>3. \A x \in new : x.door = door /\ x.who \in whom /\ x.at = now /\ x = pass(x.who)
  OBVIOUS
<1> SUFFICES ASSUME NEW d, NEW w, NEW a \in Int, NEW b \in Int
             PROVE  /\ Count(T, d, w, a, b) <= Count(S, d, w, a, b) + 1
                    /\ d # door \/ w \notin whom \/ now \notin a..b =>
                          Count(T, d, w, a, b) = Count(S, d, w, a, b)
  BY <1>2
<1>4. Passages(T, d, w, a, b) \subseteq Passages(S, d, w, a, b) \cup {pass(w)}
  <2> HIDE DEF new, pass
  <2> QED
    BY <1>0, <1>3 DEF Passages
<1>5. ASSUME d # door \/ w \notin whom \/ now \notin a..b
      PROVE  Passages(T, d, w, a, b) = Passages(S, d, w, a, b)
  <2> HIDE DEF new, pass
  <2> QED
    BY <1>0, <1>3, <1>5 DEF Passages
<1>6. IsFiniteSet(Passages(S, d, w, a, b)) /\ Count(S, d, w, a, b) \in Nat
      /\ IsFiniteSet(Passages(T, d, w, a, b)) /\ Count(T, d, w, a, b) \in Nat
  BY <1>2, CountType
<1> HIDE DEF new, pass
<1>7. Count(T, d, w, a, b) <= Count(S, d, w, a, b) + 1
  <2> DEFINE A == Passages(S, d, w, a, b)
             p == pass(w)
  <2>1. IsFiniteSet(A) /\ Cardinality(A) \in Nat
    BY <1>6 DEF Count
  <2> HIDE DEF A, p
  <2>2. \A x : /\ IsFiniteSet(A \cup {x})
               /\ Cardinality(A \cup {x}) = IF x \in A THEN Cardinality(A) ELSE Cardinality(A) + 1
    BY <2>1, FS_AddElement
  <2>3. IsFiniteSet(A \cup {p}) /\ (Cardinality(A \cup {p}) = Cardinality(A) \/ Cardinality(A \cup {p}) = Cardinality(A) + 1)
    BY <2>2
  <2>4. Passages(T, d, w, a, b) \subseteq A \cup {p}
    BY <1>4 DEF A, p
  <2>5. Cardinality(Passages(T, d, w, a, b)) <= Cardinality(A \cup {p})
    BY <2>3, <2>4, FS_Subset
  <2>6. Cardinality(Passages(T, d, w, a, b)) <= Cardinality(A) + 1
    BY <2>1, <2>3, <2>5, <1>6 DEF Count
  <2> QED
    BY <2>6 DEF Count, A
<1>8. d # door \/ w \notin whom \/ now \notin a..b => Count(T, d, w, a, b) = Count(S, d, w, a, b)
  BY <1>5 DEF Count
<1> QED
  BY <1>7, <1>8

-----------------------------------------------------------------------------
\* What a throttle does to each of its counters: consumed, or as it was; one whose window
\* is over may be swept.

Kept(c, e, k) ==
    /\ k \in DOMAIN e => k \in DOMAIN c /\ e[k] = c[k]
    /\ RunsIn(clock, c, k) => k \in DOMAIN e

Taken(c, e, k) ==
    /\ k \in DOMAIN e
    /\ e[k] = IF RunsIn(clock, c, k) THEN [start |-> c[k].start, count |-> c[k].count + 1]
              ELSE [start |-> clock, count |-> 1]

LEMMA ConsumeOne ==
  ASSUME NEW c, NEW k, \A x \in DOMAIN c : c[x] \in [start : Int, count : Int]
  PROVE  Taken(c, Consume(c, k), k) /\ \A x : x # k => Kept(c, Consume(c, k), x)
<1> DEFINE s == Sweep(c)
           running == k \in DOMAIN s /\ Running(s[k])
           counter == IF running THEN [s[k] EXCEPT !.count = s[k].count + 1]
                      ELSE [start |-> clock, count |-> 1]
           e == Consume(c, k)
<1>1. e = [x \in DOMAIN s \cup {k} |-> IF x = k THEN counter ELSE s[x]]
  BY DEF Consume
<1>2. \A x : Kept(c, s, x)
  <2>1. CASE s = c
    BY <2>1 DEF Kept, RunsIn
  <2>2. CASE s = [x \in {x \in DOMAIN c : Running(c[x])} |-> c[x]]
    BY <2>2 DEF Kept, RunsIn, Running
  <2> QED
    BY <2>1, <2>2 DEF Sweep
<1> HIDE DEF s
<1>3. running <=> RunsIn(clock, c, k)
  BY <1>2 DEF Kept, RunsIn, Running
<1>4. RunsIn(clock, c, k) => counter = [start |-> c[k].start, count |-> c[k].count + 1]
  <2> SUFFICES ASSUME RunsIn(clock, c, k)
               PROVE  counter = [start |-> c[k].start, count |-> c[k].count + 1]
    OBVIOUS
  <2>1. s[k] = c[k] /\ c[k] \in [start : Int, count : Int]
    BY <1>2 DEF Kept, RunsIn
  <2> QED
    BY <1>3, <2>1
<1>5. ~RunsIn(clock, c, k) => counter = [start |-> clock, count |-> 1]
  BY <1>3
<1> HIDE DEF counter, running
<1>6. Taken(c, e, k)
  <2>1. k \in DOMAIN e /\ e[k] = counter
    BY <1>1
  <2> QED
    BY <1>4, <1>5, <2>1 DEF Taken
<1>7. ASSUME NEW x, x # k PROVE Kept(c, e, x)
  <2>1. (x \in DOMAIN e <=> x \in DOMAIN s) /\ (x \in DOMAIN s => e[x] = s[x])
    BY <1>1, <1>7
  <2> QED
    BY <1>2, <2>1 DEF Kept
<1> QED
  BY <1>6, <1>7

\* What is consumed is still well formed.
LEMMA TakenTyped ==
  ASSUME NEW c, NEW e, NEW k, Taken(c, e, k), clock \in Nat, \A x \in DOMAIN c : c[x] \in [start : Int, count : Int]
  PROVE  e[k] \in [start : Int, count : Int]
<1>1. RunsIn(clock, c, k) => c[k] \in [start : Int, count : Int]
  BY DEF RunsIn
<1> QED
  BY <1>1 DEF Taken

KeysOfRequest == {<<Ip(a), Id(x)>> : a \in Addresses, x \in Identifiers \cup Clients}
                 \cup {<<Ip(a)>> : a \in Addresses} \cup {<<Key(x)>> : x \in Subjects}

InKeys(k, ks) == \E n \in DOMAIN ks : ks[n] = k

LEMMA ConsumeEach ==
  ASSUME NEW c, clock \in Nat, \A x \in DOMAIN c : c[x] \in [start : Int, count : Int],
         NEW ks \in KeysOfRequest
  PROVE  \A k : IF InKeys(k, ks) THEN Taken(c, ConsumeAll(c, ks), k) ELSE Kept(c, ConsumeAll(c, ks), k)
<1> DEFINE e == ConsumeAll(c, ks)
<1>1. CASE \E k : ks = <<k>>
  <2>1. PICK k : ks = <<k>>
    BY <1>1
  <2>2. e = Consume(c, k)
    BY <2>1 DEF ConsumeAll
  <2>3. \A x : InKeys(x, ks) <=> x = k
    BY <2>1 DEF InKeys
  <2> HIDE DEF e
  <2> QED
    BY <2>2, <2>3, ConsumeOne DEF e
<1>2. CASE \E k, l : k # l /\ ks = <<k, l>>
  <2>1. PICK k, l : k # l /\ ks = <<k, l>>
    BY <1>2
  <2> DEFINE m == Consume(c, k)
  <2>2. e = Consume(m, l)
    BY <2>1 DEF ConsumeAll
  <2>3. \A x : InKeys(x, ks) <=> x = k \/ x = l
    BY <2>1 DEF InKeys
  <2>4. Taken(c, m, k) /\ \A x : x # k => Kept(c, m, x)
    BY ConsumeOne
  <2> HIDE DEF m, e
  <2>5. \A x \in DOMAIN m : m[x] \in [start : Int, count : Int]
    <3>1. m[k] \in [start : Int, count : Int]
      BY <2>4, TakenTyped
    <3> QED
      BY <2>4, <3>1 DEF Kept
  <2>6. Taken(m, e, l) /\ \A x : x # l => Kept(m, e, x)
    BY <2>2, <2>5, ConsumeOne
  <2>7. Taken(c, e, l)
    <3>1. Kept(c, m, l)
      BY <2>1, <2>4
    <3>2. (RunsIn(clock, m, l) <=> RunsIn(clock, c, l)) /\ (RunsIn(clock, c, l) => m[l] = c[l])
      BY <3>1 DEF Kept, RunsIn
    <3> QED
      BY <2>6, <3>2 DEF Taken
  <2>8. Taken(c, e, k)
    <3>1. k \in DOMAIN m /\ RunsIn(clock, m, k)
      <4>1. CASE RunsIn(clock, c, k)
        BY <2>4, <4>1 DEF Taken, RunsIn
      <4>2. CASE ~RunsIn(clock, c, k)
        BY <2>4, <4>2 DEF Taken, RunsIn
      <4> QED BY <4>1, <4>2
    <3>2. k \in DOMAIN e /\ e[k] = m[k]
      BY <2>1, <2>6, <3>1 DEF Kept
    <3> QED
      BY <2>4, <3>2 DEF Taken
  <2>9. ASSUME NEW x, x # k, x # l PROVE Kept(c, e, x)
    <3>1. Kept(c, m, x) /\ Kept(m, e, x)
      BY <2>4, <2>6, <2>9
    <3> QED
      BY <3>1 DEF Kept, RunsIn
  <2> QED
    BY <2>3, <2>7, <2>8, <2>9 DEF e
<1>3. (\E k : ks = <<k>>) \/ (\E k, l : k # l /\ ks = <<k, l>>)
  <2>1. \A a, x : Ip(a) # Id(x)
    BY DEF Ip, Id
  <2> QED
    BY <2>1 DEF KeysOfRequest
<1> QED
  BY <1>1, <1>2, <1>3

-----------------------------------------------------------------------------
\* What a request, and the time, do to the account of a subject at a door.

\* What bounds the window that ends now bounds every window.
LEMMA BudgetFromWithin ==
  ASSUME NEW now \in Nat, NEW c, NEW S, Dated(now, S), NEW d \in Doors, NEW w,
         RunsIn(now, c, CounterOf(d, w)) => c[CounterOf(d, w)].start \in 0..now,
         Within(now, c, S, d, w), NEW t \in Int, now \in t..(t + Window - 1)
  PROVE  Count(S, d, w, t, t + Window - 1) <= 2 * MaxAttempts[d] - 1
<1> DEFINE k == CounterOf(d, w)
           cap == MaxAttempts[d]
           s == c[k].start
           N(a, b) == Count(S, d, w, a, b)
<1>1. cap \in Nat \ {0}
  BY CapType
<1>2. \A a, b : N(a, b) \in Nat
  BY CountType
<1>3. N(t, t + Window - 1) <= N(t, now)
  BY CountMono
<1>4. CASE ~RunsIn(now, c, k)
  <2>1. N(now - Window + 1, now) <= cap - 1
    BY <1>4 DEF Within, Accounts
  <2>2. now - Window + 1 \in Int /\ now - Window + 1 <= t
    OBVIOUS
  <2>3. N(t, now) <= N(now - Window + 1, now)
    BY <2>2, CountMono
  <2> HIDE DEF cap, N
  <2> QED
    BY <1>1, <1>2, <1>3, <2>1, <2>3 DEF N, cap
<1>5. CASE RunsIn(now, c, k)
  <2>1. s \in 0..now /\ now - s < Window
    BY <1>5 DEF RunsIn
  <2>2. /\ N(s, now) <= cap /\ N(s + 1, now) <= cap - 1
        /\ N(s - Window + 1, s - 1) <= cap - 1
    BY <1>5 DEF Within, Accounts
  <2> HIDE DEF s
  <2>3. N(t, now) <= 2 * cap - 1
    <3>1. CASE t > s
      <4>1. s + 1 \in Int /\ s + 1 <= t
        BY <2>1, <3>1
      <4>2. N(t, now) <= N(s + 1, now)
        BY <4>1, CountMono
      <4> HIDE DEF cap, N
      <4> QED
        BY <1>1, <1>2, <2>2, <4>2
    <3>2. CASE t <= s
      <4>1. s \in Int /\ s - 1 \in Int /\ s - Window + 1 \in Int /\ s - Window + 1 <= t
        BY <2>1, <3>2
      <4>2. N(t, now) <= N(t, s - 1) + N(s, now)
        BY <4>1, CountSplit
      <4>3. N(t, s - 1) <= N(s - Window + 1, s - 1)
        BY <4>1, CountMono
      <4> HIDE DEF cap, N
      <4> QED
        BY <1>1, <1>2, <2>2, <4>2, <4>3
    <3> QED
      BY <2>1, <3>1, <3>2
  <2> HIDE DEF cap, N
  <2> QED
    BY <1>1, <1>2, <1>3, <2>3 DEF N, cap
<1> QED
  BY <1>4, <1>5

LEMMA BudgetNow ==
  ASSUME NEW now \in Nat, NEW c, NEW S, Dated(now, S), NEW d \in Doors, NEW w,
         RunsIn(now, c, CounterOf(d, w)) => c[CounterOf(d, w)].start \in 0..now,
         Within(now, c, S, d, w)
  PROVE  Count(S, d, w, now, now) <= MaxAttempts[d]
<1> DEFINE k == CounterOf(d, w)
           cap == MaxAttempts[d]
           s == c[k].start
           N(a, b) == Count(S, d, w, a, b)
<1>1. cap \in Nat \ {0}
  BY CapType
<1>2. \A a, b : N(a, b) \in Nat
  BY CountType
<1>3. CASE ~RunsIn(now, c, k)
  <2>1. N(now, now) = 0
    BY <1>3 DEF Within, Accounts
  <2> QED
    BY <1>1, <2>1
<1>4. CASE RunsIn(now, c, k)
  <2>1. s \in 0..now /\ N(s, now) <= cap
    BY <1>4 DEF Within, Accounts
  <2> HIDE DEF s
  <2>2. N(now, now) <= N(s, now)
    BY <2>1, CountMono
  <2> HIDE DEF cap, N
  <2> QED
    BY <1>1, <1>2, <2>1, <2>2 DEF cap, N
<1> QED
  BY <1>3, <1>4

\* A counter that is left alone, or consumed for nothing, still accounts for who passed.
LEMMA WithinKept ==
  ASSUME NEW c, NEW e, NEW S, NEW d \in Doors, NEW w, Within(clock, c, S, d, w),
         Kept(c, e, CounterOf(d, w))
  PROVE  Within(clock, e, S, d, w)
<1> DEFINE k == CounterOf(d, w)
<1>1. (RunsIn(clock, e, k) <=> RunsIn(clock, c, k)) /\ (RunsIn(clock, c, k) => e[k] = c[k])
  BY DEF Kept, RunsIn
<1> HIDE DEF k
<1> QED
  BY <1>1 DEF Within, k

\* A counter that is consumed accounts for one more, when what it counts is within the cap.
LEMMA WithinTaken ==
  ASSUME clock \in Nat, NEW c, NEW e, NEW S, NEW T, Dated(clock, S), Dated(clock, T),
         NEW d \in Doors, NEW w,
         Fits(clock, asked, c), asked \in Nat,
         Within(clock, c, S, d, w), Taken(c, e, CounterOf(d, w)),
         \A a, b \in Int : /\ Count(T, d, w, a, b) <= Count(S, d, w, a, b) + 1
                           /\ clock \notin a..b => Count(T, d, w, a, b) = Count(S, d, w, a, b),
         \/ e[CounterOf(d, w)].count <= MaxAttempts[d]
         \/ \A a, b \in Int : Count(T, d, w, a, b) = Count(S, d, w, a, b)
  PROVE  Within(clock, e, T, d, w)
<1> DEFINE k == CounterOf(d, w)
           cap == MaxAttempts[d]
           M(a, b) == Count(S, d, w, a, b)
           N(a, b) == Count(T, d, w, a, b)
<1>1. cap \in Nat \ {0}
  BY CapType
<1>2. \A a, b : M(a, b) \in Nat /\ N(a, b) \in Nat
  BY CountType
<1>3. /\ \A a, b \in Int : N(a, b) <= M(a, b) + 1 /\ (clock \notin a..b => N(a, b) = M(a, b))
      /\ e[k].count <= cap \/ \A a, b \in Int : N(a, b) = M(a, b)
  OBVIOUS
<1>4. CASE RunsIn(clock, c, k)
  <2> DEFINE s == c[k].start
             n == c[k].count
  <2>1. s \in 0..clock /\ n \in 1..asked /\ clock - s < Window
    BY <1>4 DEF Fits, RunsIn
  <2>2. /\ M(s, clock) <= n /\ M(s, clock) <= cap
        /\ M(s + 1, clock) <= n - 1 /\ M(s + 1, clock) <= cap - 1
        /\ M(s - Window + 1, s - 1) <= cap - 1
    BY <1>4 DEF Within, Accounts
  <2>3. k \in DOMAIN e /\ e[k].start = s /\ e[k].count = n + 1
    BY <1>4 DEF Taken
  <2> HIDE DEF s, n, cap, M, N
  <2>4. RunsIn(clock, e, k)
    BY <2>1, <2>3 DEF RunsIn
  <2>5. s \in Int /\ s + 1 \in Int /\ s - Window + 1 \in Int /\ s - 1 \in Int /\ clock \in Int
    BY <2>1
  <2>6. /\ N(s, clock) <= M(s, clock) + 1
        /\ N(s + 1, clock) <= M(s + 1, clock) + 1
        /\ N(s - Window + 1, s - 1) = M(s - Window + 1, s - 1)
        /\ \/ n + 1 <= cap
           \/ N(s, clock) = M(s, clock) /\ N(s + 1, clock) = M(s + 1, clock)
    <3>1. clock \notin (s - Window + 1)..(s - 1)
      BY <2>1
    <3> QED
      BY <1>3, <2>3, <2>5, <3>1
  <2>7. /\ N(s, clock) <= n + 1 /\ N(s, clock) <= cap
        /\ N(s + 1, clock) <= (n + 1) - 1 /\ N(s + 1, clock) <= cap - 1
        /\ N(s - Window + 1, s - 1) <= cap - 1
    <3>1. /\ M(s, clock) \in Nat /\ N(s, clock) \in Nat /\ M(s + 1, clock) \in Nat
          /\ N(s + 1, clock) \in Nat /\ n \in Nat
      BY <1>2, <2>1
    <3> QED
      BY <1>1, <2>2, <2>6, <3>1
  <2>8. Accounts(clock, T, d, w, s, n + 1)
    BY <2>7 DEF Accounts, cap, N
  <2>9. Accounts(clock, T, d, w, e[k].start, e[k].count)
    BY <2>3, <2>8
  <2> QED
    BY <2>4, <2>9 DEF Within, k
<1>5. CASE ~RunsIn(clock, c, k)
  <2>1. /\ M(clock, clock) = 0
        /\ M(clock - Window + 1, clock) <= cap - 1
    BY <1>5 DEF Within, Accounts
  <2>2. k \in DOMAIN e /\ e[k].start = clock /\ e[k].count = 1
    BY <1>5 DEF Taken
  <2>3. RunsIn(clock, e, k)
    BY <2>2 DEF RunsIn
  <2>4. N(clock + 1, clock) = 0
    BY CountLater
  <2>5. M(clock - Window + 1, clock - 1) <= M(clock - Window + 1, clock)
    BY CountMono
  <2> HIDE DEF cap, M, N
  <2>6. clock \in Int /\ clock - Window + 1 \in Int /\ clock - 1 \in Int
        /\ clock \notin (clock - Window + 1)..(clock - 1)
    OBVIOUS
  <2>7. N(clock, clock) <= M(clock, clock) + 1
        /\ N(clock - Window + 1, clock - 1) = M(clock - Window + 1, clock - 1)
    BY <1>3, <2>6
  <2>8. /\ N(clock, clock) <= 1 /\ N(clock, clock) <= cap
        /\ N(clock + 1, clock) <= 1 - 1 /\ N(clock + 1, clock) <= cap - 1
        /\ N(clock - Window + 1, clock - 1) <= cap - 1
    <3>1. N(clock, clock) \in Nat /\ M(clock - Window + 1, clock - 1) \in Nat
          /\ M(clock - Window + 1, clock) \in Nat
      BY <1>2
    <3> QED
      BY <1>1, <2>1, <2>4, <2>5, <2>7, <3>1
  <2> QED
    BY <2>2, <2>3, <2>8 DEF Within, Accounts, k, cap, N
<1> QED
  BY <1>4, <1>5

\* When the present moves on, a window may end: what it leaves is short of one.
LEMMA WithinLater ==
  ASSUME NEW now \in Nat, NEW c, NEW S, Dated(now, S), NEW d \in Doors, NEW w,
         RunsIn(now, c, CounterOf(d, w)) => c[CounterOf(d, w)].start \in 0..now,
         CounterOf(d, w) \in DOMAIN c => c[CounterOf(d, w)].start \in Int,
         Within(now, c, S, d, w)
  PROVE  Within(now + 1, c, S, d, w)
<1> DEFINE k == CounterOf(d, w)
           cap == MaxAttempts[d]
           s == c[k].start
           n == c[k].count
           N(a, b) == Count(S, d, w, a, b)
<1>1. cap \in Nat \ {0} /\ \A a, b : N(a, b) \in Nat
  BY CapType, CountType
<1>2. CASE RunsIn(now + 1, c, k)
  <2>1. RunsIn(now, c, k) /\ s \in 0..now
    <3>1. k \in DOMAIN c /\ s \in Int /\ now + 1 - s < Window
      BY <1>2 DEF RunsIn
    <3> HIDE DEF s
    <3>2. now - s < Window
      BY <3>1
    <3> QED
      BY <3>1, <3>2 DEF RunsIn, s
  <2>2. /\ N(s, now) <= n /\ N(s, now) <= cap /\ N(s + 1, now) <= n - 1 /\ N(s + 1, now) <= cap - 1
        /\ N(s - Window + 1, s - 1) <= cap - 1
    BY <2>1 DEF Within, Accounts
  <2> HIDE DEF s
  <2>3. s + 1 \in Int /\ s \in Int
    BY <2>1
  <2>4. N(s, now + 1) = N(s, now) /\ N(s + 1, now + 1) = N(s + 1, now)
    <3>1. \A a \in Int : N(a, now + 1) <= N(a, now)
      BY CountMono
    <3>2. N(s, now) <= N(s, now + 1) /\ N(s + 1, now) <= N(s + 1, now + 1)
      BY <2>3, CountMono
    <3>3. /\ N(s, now) \in Nat /\ N(s, now + 1) \in Nat
          /\ N(s + 1, now) \in Nat /\ N(s + 1, now + 1) \in Nat
      BY <1>1
    <3>4. N(s, now + 1) <= N(s, now) /\ N(s + 1, now + 1) <= N(s + 1, now)
      BY <2>3, <3>1
    <3> HIDE DEF N
    <3> QED
      BY <3>2, <3>3, <3>4
  <2> HIDE DEF n, cap, N
  <2> QED
    BY <1>2, <2>2, <2>4 DEF Within, Accounts, s, n, k, cap, N
<1>3. CASE ~RunsIn(now + 1, c, k)
  <2>1. N(now + 1, now + 1) = 0
    BY CountLater
  <2>2. N(now + 1 - Window + 1, now + 1) <= cap - 1
    <3>1. CASE RunsIn(now, c, k)
      <4>1. s \in 0..now /\ k \in DOMAIN c /\ N(s + 1, now) <= cap - 1
        BY <3>1 DEF RunsIn, Within, Accounts
      <4>2. ~(now + 1 - s < Window)
        BY <1>3, <4>1 DEF RunsIn
      <4> HIDE DEF s
      <4>3. s + 1 \in Int /\ s + 1 <= now + 1 - Window + 1 /\ now + 1 - Window + 1 \in Int
        BY <4>1, <4>2
      <4>4. N(now + 1 - Window + 1, now + 1) <= N(s + 1, now)
        BY <4>3, CountMono
      <4> HIDE DEF N, cap
      <4> QED
        BY <1>1, <4>1, <4>4
    <3>2. CASE ~RunsIn(now, c, k)
      <4>1. N(now - Window + 1, now) <= cap - 1
        BY <3>2 DEF Within, Accounts
      <4>2. N(now + 1 - Window + 1, now + 1) <= N(now - Window + 1, now)
        BY CountMono
      <4> HIDE DEF N, cap
      <4> QED
        BY <1>1, <4>1, <4>2
    <3> QED
      BY <3>1, <3>2
  <2> HIDE DEF N, cap
  <2> QED
    BY <1>3, <2>1, <2>2 DEF Within, Accounts, k, cap, N
<1> QED
  BY <1>2, <1>3

LEMMA WithinSame ==
  ASSUME NEW now \in Nat, NEW m, NEW c, Fits(now, m, c), NEW S, NEW T, NEW d \in Doors, NEW w,
         Within(now, c, S, d, w),
         \A a, b \in Int : Count(T, d, w, a, b) = Count(S, d, w, a, b)
  PROVE  Within(now, c, T, d, w)
<1> DEFINE k == CounterOf(d, w)
           s == c[k].start
<1>1. CASE RunsIn(now, c, k)
  <2>1. s \in 0..now
    BY <1>1 DEF Fits, RunsIn
  <2> HIDE DEF s
  <2>2. s \in Int /\ s + 1 \in Int /\ s - Window + 1 \in Int /\ s - 1 \in Int /\ now \in Int
    BY <2>1
  <2>3. /\ Count(T, d, w, s, now) = Count(S, d, w, s, now)
        /\ Count(T, d, w, s + 1, now) = Count(S, d, w, s + 1, now)
        /\ Count(T, d, w, s - Window + 1, s - 1) = Count(S, d, w, s - Window + 1, s - 1)
    BY <2>2
  <2>4. Accounts(now, S, d, w, s, c[k].count)
    BY <1>1 DEF Within, s
  <2>5. Accounts(now, T, d, w, s, c[k].count)
    BY <2>3, <2>4 DEF Accounts
  <2> QED
    BY <1>1, <2>5 DEF Within, s
<1>2. CASE ~RunsIn(now, c, k)
  <2>1. now \in Int /\ now - Window + 1 \in Int
    OBVIOUS
  <2> QED
    BY <1>2, <2>1 DEF Within
<1> QED
  BY <1>1, <1>2

\* Only a window that holds the present can have changed.
LEMMA BudgetedStill ==
  ASSUME NEW now \in Nat, NEW m, NEW e, Fits(now, m, e), NEW S, NEW T, Dated(now, T),
         NEW d \in Doors, NEW w, Within(now, e, T, d, w), Budgeted(S, d, w),
         \A a, b \in Int : now \notin a..b => Count(T, d, w, a, b) = Count(S, d, w, a, b)
  PROVE  Budgeted(T, d, w)
<1>1. RunsIn(now, e, CounterOf(d, w)) => e[CounterOf(d, w)].start \in 0..now
  BY DEF Fits, RunsIn
<1>2. ASSUME NEW t \in Int PROVE Count(T, d, w, t, t) <= MaxAttempts[d]
  <2>1. CASE now = t
    BY <1>1, <2>1, BudgetNow
  <2>2. CASE now # t
    <3>1. Count(T, d, w, t, t) = Count(S, d, w, t, t)
      BY <2>2
    <3> QED
      BY <3>1 DEF Budgeted
  <2> QED
    BY <2>1, <2>2
<1>3. ASSUME NEW t \in Int PROVE Count(T, d, w, t, t + Window - 1) <= 2 * MaxAttempts[d] - 1
  <2>1. CASE now \in t..(t + Window - 1)
    BY <1>1, <2>1, BudgetFromWithin
  <2>2. CASE now \notin t..(t + Window - 1)
    <3>1. t + Window - 1 \in Int
      OBVIOUS
    <3>2. Count(T, d, w, t, t + Window - 1) = Count(S, d, w, t, t + Window - 1)
      BY <2>2, <3>1
    <3> QED
      BY <3>2 DEF Budgeted
  <2> QED
    BY <2>1, <2>2
<1> QED
  BY <1>2, <1>3 DEF Budgeted

-----------------------------------------------------------------------------
\* Every step keeps the account of the throttles.

LEMMA ArriveThrottles ==
  ASSUME ThrottleInv, NEW c \in Connections, NEW door \in Doors, NEW ks \in KeysOfRequest,
         NEW whom, IsFiniteSet(whom), \A w \in whom : InKeys(CounterOf(door, w), ks),
         NEW next, Arrive(c, door, ks, whom, next)
  PROVE  ThrottleInv' /\ asked' = asked + 1
<1> DEFINE old == counters[door]
           new == ConsumeAll(old, ks)
           T == passed \cup PassedBy(door, whom, clock, asked')
           Same(d, w) == \A a, b \in Int : Count(passed', d, w, a, b) = Count(passed, d, w, a, b)
<1>1. /\ clock' = clock /\ asked' = asked + 1 /\ clock \in Nat /\ asked \in Nat
      /\ counters' = [counters EXCEPT ![door] = new]
      /\ (Allowed(door, ks) /\ passed' = T) \/ passed' = passed
  BY DEF Arrive, ThrottleInv, PassedBy
<1>2. /\ DOMAIN counters' = Doors /\ counters'[door] = new
      /\ \A d \in Doors \ {door} : counters'[d] = counters[d]
  BY <1>1 DEF ThrottleInv
<1>3. \A k \in DOMAIN old : old[k] \in [start : 0..clock, count : 1..asked]
  BY DEF ThrottleInv, Fits
<1>4. \A k \in DOMAIN old : old[k] \in [start : Int, count : Int]
  BY <1>3
<1>5. \A k : IF InKeys(k, ks) THEN Taken(old, new, k) ELSE Kept(old, new, k)
  BY <1>1, <1>4, ConsumeEach
<1> HIDE DEF new, old
<1>6. Fits(clock, asked + 1, new)
  <2>1. ASSUME NEW k \in DOMAIN new PROVE new[k] \in [start : 0..clock, count : 1..(asked + 1)]
    <3>1. CASE Kept(old, new, k)
      <4>1. new[k] \in [start : 0..clock, count : 1..asked]
        BY <1>3, <3>1 DEF Kept
      <4> QED
        BY <1>1, <4>1
    <3>2. CASE Taken(old, new, k)
      <4>1. CASE RunsIn(clock, old, k)
        <5>1. old[k] \in [start : 0..clock, count : 1..asked]
          BY <1>3, <4>1 DEF RunsIn
        <5>2. new[k] = [start |-> old[k].start, count |-> old[k].count + 1]
          BY <3>2, <4>1 DEF Taken
        <5> QED
          BY <1>1, <5>1, <5>2
      <4>2. CASE ~RunsIn(clock, old, k)
        BY <1>1, <3>2, <4>2 DEF Taken
      <4> QED
        BY <4>1, <4>2
    <3> QED
      BY <1>5, <3>1, <3>2
  <2> QED
    BY <2>1 DEF Fits
<1>7. \A d \in Doors : Fits(clock, asked + 1, counters'[d])
  <2>1. ASSUME NEW d \in Doors \ {door} PROVE Fits(clock, asked + 1, counters[d])
    <3>1. Fits(clock, asked, counters[d])
      BY DEF ThrottleInv
    <3> QED
      BY <1>1, <3>1 DEF Fits
  <2> QED
    BY <1>2, <1>6, <2>1
<1>8. Dated(clock, passed)
  BY DEF ThrottleInv
<1>9. /\ Dated(clock, passed')
      /\ \A d, w : \A a, b \in Int :
            /\ Count(passed', d, w, a, b) <= Count(passed, d, w, a, b) + 1
            /\ d # door \/ w \notin whom \/ clock \notin a..b =>
                  Count(passed', d, w, a, b) = Count(passed, d, w, a, b)
  <2>1. CASE passed' = T
    <3>1. clock \in Nat
      BY <1>1
    <3> QED
      BY <1>8, <2>1, <3>1, CountPassing
  <2>2. CASE passed' = passed
    <3>1. \A d, w, a, b : Count(passed, d, w, a, b) \in Nat
      BY <1>8, CountType
    <3> QED
      BY <1>8, <2>2, <3>1
  <2> QED
    BY <1>1, <2>1, <2>2
<1>10. ASSUME NEW d \in Doors, NEW w \in Subjects
       PROVE  Within(clock, counters'[d], passed', d, w)
  <2>1. Within(clock, counters[d], passed, d, w) /\ Fits(clock, asked, counters[d])
    BY DEF ThrottleInv
  <2>2. CASE d # door
    <3>1. Same(d, w)
      BY <1>9, <2>2
    <3> QED
      BY <1>1, <1>2, <2>1, <2>2, <3>1, WithinSame
  <2>3. CASE d = door /\ InKeys(CounterOf(door, w), ks)
    <3>1. Taken(old, new, CounterOf(d, w))
      BY <1>5, <2>3
    <3>2. new[CounterOf(d, w)].count <= MaxAttempts[d] \/ Same(d, w)
      <4>1. CASE Allowed(door, ks)
        <5>1. PICK n \in DOMAIN ks : ks[n] = CounterOf(door, w)
          BY <2>3 DEF InKeys
        <5> QED
          BY <2>3, <4>1, <5>1 DEF Allowed, new, old
      <4>2. CASE passed' = passed
        BY <4>2
      <4> QED
        BY <1>1, <4>1, <4>2
    <3>3. counters'[d] = new /\ counters[d] = old
      BY <1>2, <2>3 DEF old
    <3>4. \A a, b \in Int :
             /\ Count(passed', d, w, a, b) <= Count(passed, d, w, a, b) + 1
             /\ clock \notin a..b => Count(passed', d, w, a, b) = Count(passed, d, w, a, b)
      BY <1>9
    <3>5. Within(clock, old, passed, d, w) /\ Fits(clock, asked, old)
      BY <2>1, <3>3
    <3>6. Within(clock, new, passed', d, w)
      BY <1>1, <1>8, <1>9, <3>1, <3>2, <3>4, <3>5, WithinTaken
    <3> QED
      BY <3>3, <3>6
  <2>4. CASE d = door /\ ~InKeys(CounterOf(door, w), ks)
    <3>1. Kept(old, new, CounterOf(d, w)) /\ w \notin whom
      BY <1>5, <2>4
    <3>2. counters'[d] = new /\ counters[d] = old
      BY <1>2, <2>4 DEF old
    <3>3. Within(clock, new, passed, d, w)
      BY <2>1, <3>1, <3>2, WithinKept
    <3>4. Same(d, w)
      BY <1>9, <3>1
    <3> QED
      BY <1>1, <1>6, <3>2, <3>3, <3>4, WithinSame
  <2> QED
    BY <2>2, <2>3, <2>4
<1>11. ASSUME NEW d \in Doors, NEW w \in Subjects
       PROVE  Budgeted(passed', d, w)
  <2>1. Budgeted(passed, d, w) /\ Fits(clock, asked + 1, counters'[d])
    BY <1>7 DEF ThrottleInv
  <2>2. \A a, b \in Int : clock \notin a..b => Count(passed', d, w, a, b) = Count(passed, d, w, a, b)
    BY <1>9
  <2> QED
    BY <1>1, <1>9, <1>10, <2>1, <2>2, BudgetedStill
<1>12. clock' \in Nat /\ asked' \in Nat
  BY <1>1
<1>13. Dated(clock', passed') /\ \A d \in Doors : Fits(clock', asked', counters'[d])
  BY <1>1, <1>7, <1>9
<1>14. \A d \in Doors, w \in Subjects : Within(clock', counters'[d], passed', d, w) /\ Budgeted(passed', d, w)
  BY <1>1, <1>10, <1>11
<1> QED
  BY <1>1, <1>2, <1>12, <1>13, <1>14 DEF ThrottleInv

LEMMA ThrottlesStill ==
  ASSUME ThrottleInv, UNCHANGED <<gates, clock>>
  PROVE  ThrottleInv'
  BY DEF ThrottleInv, gates

LEMMA SubjectKeys ==
  ASSUME NEW a \in Addresses
  PROVE  /\ CounterOf("login", a) = Ip(a) /\ CounterOf("token", a) = Ip(a)
         /\ CounterOf("register", a) = Key(a)
         /\ \A x \in Identifiers : CounterOf("login", x) = Id(x)
         /\ \A x \in Clients : CounterOf("token", x) = Id(x) /\ CounterOf("v1", x) = Key(x)
<1>1. \A x \in Identifiers \cup Clients : x \notin Addresses
  BY AccessAssumption DEF AccessAssumption
<1> QED
  BY <1>1 DEF CounterOf

LEMMA FewFinite == \A x, y : IsFiniteSet({x}) /\ IsFiniteSet({x, y})
<1> TAKE x, y
<1>1. IsFiniteSet({x})
  BY FS_Singleton
<1>2. {x, y} = {x} \cup {y}
  OBVIOUS
<1>3. IsFiniteSet({x} \cup {y})
  <2>1. IsFiniteSet({y})
    BY FS_Singleton
  <2> QED
    BY <1>1, <2>1, FS_Union
<1> QED
  BY <1>1, <1>2, <1>3

\* Whoever arrives is counted under a key of their own, at the least.
LEMMA RequestThrottled ==
  ASSUME ThrottleInv, NEW c \in Connections, NEW a \in Addresses,
         \/ \E i \in Identifiers : LoginRequest(c, a, i)
         \/ RegisterRequest(c, a) \/ IllegibleRequest(c, a)
         \/ \E cl \in Clients, k \in Kids, j \in Jtis : TokenRequest(c, a, cl, k, j)
  PROVE  ThrottleInv' /\ asked' = asked + 1
<1>1. \A seen \in Seen(a) : seen = a
  BY SeenAsThemselves
<1>2. {"login", "register", "token", "v1"} = Doors
  BY DEF Doors
<1>3. CASE \E i \in Identifiers : LoginRequest(c, a, i)
  <2>1. PICK i \in Identifiers : LoginRequest(c, a, i)
    BY <1>3
  <2> DEFINE ks == <<Ip(a), Id(i)>>
             next == [op |-> "login", step |-> "find", id |-> i]
  <2>2. Arrive(c, "login", ks, {a, i}, next)
    BY <1>1, <2>1 DEF LoginRequest
  <2>3. ks \in KeysOfRequest
    BY DEF KeysOfRequest
  <2>4. \A w \in {a, i} : InKeys(CounterOf("login", w), ks)
    <3>1. CounterOf("login", a) = Ip(a) /\ CounterOf("login", i) = Id(i)
      BY SubjectKeys
    <3>2. InKeys(Ip(a), ks) /\ InKeys(Id(i), ks)
      BY DEF InKeys
    <3> QED
      BY <3>1, <3>2
  <2>5. "login" \in Doors /\ IsFiniteSet({a, i})
    BY <1>2, FewFinite
  <2> HIDE DEF ks, next
  <2> QED
    BY <2>2, <2>3, <2>4, <2>5, ArriveThrottles
<1>4. CASE RegisterRequest(c, a)
  <2> DEFINE ks == <<Key(a)>>
  <2>1. PICK next : Arrive(c, "register", ks, {a}, next)
    <3>1. PICK seen \in Seen(a), longEnough \in BOOLEAN :
             Arrive(c, "register", <<Key(seen)>>, {a},
                    IF longEnough THEN [op |-> "register", step |-> "draw", draws |-> 0] ELSE Idle)
      BY <1>4 DEF RegisterRequest
    <3> QED
      BY <1>1, <3>1
  <2>2. ks \in KeysOfRequest
    BY DEF KeysOfRequest, Subjects
  <2>3. \A w \in {a} : InKeys(CounterOf("register", w), ks)
    <3>1. InKeys(Key(a), ks)
      BY DEF InKeys
    <3> QED
      BY <3>1, SubjectKeys
  <2>4. "register" \in Doors /\ IsFiniteSet({a})
    BY <1>2, FewFinite
  <2> HIDE DEF ks
  <2> QED
    BY <2>1, <2>2, <2>3, <2>4, ArriveThrottles
<1>5. CASE IllegibleRequest(c, a)
  <2> DEFINE ks == <<Ip(a)>>
  <2>1. Arrive(c, "token", ks, {a}, Idle)
    BY <1>1, <1>5 DEF IllegibleRequest, IllegibleKeys
  <2>2. ks \in KeysOfRequest
    BY DEF KeysOfRequest
  <2>3. \A w \in {a} : InKeys(CounterOf("token", w), ks)
    <3>1. InKeys(Ip(a), ks)
      BY DEF InKeys
    <3> QED
      BY <3>1, SubjectKeys
  <2>4. "token" \in Doors /\ IsFiniteSet({a})
    BY <1>2, FewFinite
  <2> HIDE DEF ks
  <2> QED
    BY <2>1, <2>2, <2>3, <2>4, ArriveThrottles
<1>6. CASE \E cl \in Clients, k \in Kids, j \in Jtis : TokenRequest(c, a, cl, k, j)
  <2>1. PICK cl \in Clients, k \in Kids, j \in Jtis : TokenRequest(c, a, cl, k, j)
    BY <1>6
  <2> DEFINE ks == <<Ip(a), Id(cl)>>
             n == [op |-> "token", step |-> "candidate", client |-> cl, kid |-> k, jti |-> j]
  <2> HIDE DEF n
  <2>2. PICK next : Arrive(c, "token", ks, {a, cl}, next)
    <3>1. PICK seen \in Seen(a), exp \in 0..(MaxTime + AssertionTtl + 1) :
             Arrive(c, "token", <<Ip(seen), Id(cl)>>, {a, cl}, IF Timely(exp) THEN n ELSE Idle)
      BY <2>1 DEF TokenRequest, n
    <3> QED
      BY <1>1, <3>1
  <2>3. ks \in KeysOfRequest
    BY DEF KeysOfRequest
  <2>4. \A w \in {a, cl} : InKeys(CounterOf("token", w), ks)
    <3>1. CounterOf("token", a) = Ip(a) /\ CounterOf("token", cl) = Id(cl)
      BY SubjectKeys
    <3>2. InKeys(Ip(a), ks) /\ InKeys(Id(cl), ks)
      BY DEF InKeys
    <3> QED
      BY <3>1, <3>2
  <2>5. "token" \in Doors /\ IsFiniteSet({a, cl})
    BY <1>2, FewFinite
  <2> HIDE DEF ks
  <2> QED
    BY <2>2, <2>3, <2>4, <2>5, ArriveThrottles
<1> QED
  BY <1>3, <1>4, <1>5, <1>6

LEMMA CallThrottled ==
  ASSUME ThrottleInv, NEW c \in Connections, NEW cl \in Clients, Call(c, cl)
  PROVE  ThrottleInv' /\ asked' = asked + 1
<1> DEFINE ks == <<Key(cl)>>
<1>1. Arrive(c, "v1", ks, {cl}, Idle)
  BY DEF Call
<1>2. ks \in KeysOfRequest /\ "v1" \in Doors
  BY DEF KeysOfRequest, Subjects, Doors
<1>3. \A w \in {cl} : InKeys(CounterOf("v1", w), ks)
  <2>1. cl \notin Addresses
    BY AccessAssumption DEF AccessAssumption
  <2>2. CounterOf("v1", cl) = Key(cl)
    BY <2>1 DEF CounterOf
  <2> QED
    BY <2>2 DEF InKeys
<1>4. IsFiniteSet({cl})
  BY FewFinite
<1> HIDE DEF ks
<1> QED
  BY <1>1, <1>2, <1>3, <1>4, ArriveThrottles

LEMMA TickThrottles ==
  ASSUME ThrottleInv, Tick
  PROVE  ThrottleInv'
<1>1. clock' = clock + 1 /\ UNCHANGED <<counters, passed, asked>> /\ clock \in Nat /\ asked \in Nat
  BY DEF Tick, ThrottleInv, gates
<1>2. Dated(clock', passed') /\ clock' \in Nat /\ asked' \in Nat
  <2>1. \A x \in passed : x.at \in 0..(clock + 1)
    BY <1>1 DEF ThrottleInv, Dated
  <2> QED
    BY <1>1, <2>1 DEF ThrottleInv, Dated
<1>3. \A d \in Doors : Fits(clock + 1, asked, counters[d])
  <2> SUFFICES ASSUME NEW d \in Doors, NEW k \in DOMAIN counters[d]
               PROVE  counters[d][k] \in [start : 0..(clock + 1), count : 1..asked]
    BY DEF Fits
  <2>1. counters[d][k] \in [start : 0..clock, count : 1..asked]
    BY DEF ThrottleInv, Fits
  <2> QED
    BY <1>1, <2>1
<1>4. ASSUME NEW d \in Doors, NEW w \in Subjects
      PROVE  Within(clock + 1, counters[d], passed, d, w) /\ Budgeted(passed, d, w)
  <2> DEFINE e == counters[d]
             k == CounterOf(d, w)
  <2>1. Within(clock, e, passed, d, w) /\ Budgeted(passed, d, w) /\ Dated(clock, passed)
    BY DEF ThrottleInv
  <2>2. k \in DOMAIN e => e[k] \in [start : 0..clock, count : 1..asked]
    BY DEF ThrottleInv, Fits
  <2>3. k \in DOMAIN e => e[k].start \in 0..clock /\ e[k].start \in Int
    BY <1>1, <2>2
  <2>4. RunsIn(clock, e, k) => e[k].start \in 0..clock
    BY <2>3 DEF RunsIn
  <2> HIDE DEF e
  <2> QED
    BY <1>1, <2>1, <2>3, <2>4, WithinLater DEF e
<1> QED
  BY <1>1, <1>2, <1>3, <1>4 DEF ThrottleInv

\* Nobody has passed: nothing is due.
LEMMA NobodyPassed ==
  ASSUME NEW now, NEW d \in Doors, NEW w
  PROVE  Dated(now, {}) /\ Within(now, <<>>, {}, d, w) /\ Budgeted({}, d, w) /\ \A m : Fits(now, m, <<>>)
<1>1. \A a, b : Count({}, d, w, a, b) = 0
  <2>1. \A a, b : Passages({}, d, w, a, b) = {}
    BY DEF Passages
  <2> QED
    BY <2>1, FS_EmptySet DEF Count
<1>2. MaxAttempts[d] \in Nat \ {0}
  BY CapType
<1>3. Dated(now, {})
  BY FS_EmptySet DEF Dated
<1>4. Within(now, <<>>, {}, d, w)
  BY <1>1, <1>2 DEF Within, RunsIn
<1>5. Budgeted({}, d, w)
  BY <1>1, <1>2 DEF Budgeted
<1> QED
  BY <1>3, <1>4, <1>5 DEF Fits

LEMMA FreshThrottles ==
  ASSUME clock \in Nat, asked \in Nat, counters = [d \in Doors |-> <<>>], passed = {}
  PROVE  ThrottleInv
<1>1. \A d \in Doors : counters[d] = <<>>
  OBVIOUS
<1>2. Dated(clock, {})
  BY FS_EmptySet DEF Dated
<1> QED
  BY <1>1, <1>2, NobodyPassed DEF ThrottleInv

LEMMA RestartThrottles ==
  ASSUME ThrottleInv, Restart
  PROVE  ThrottleInv'
<1>1. /\ clock' \in Nat /\ asked' \in Nat /\ counters' = [d \in Doors |-> <<>>] /\ passed' = {}
  BY DEF Restart, ThrottleInv
<1>2. \A d \in Doors : counters'[d] = <<>>
  BY <1>1
<1>3. Dated(clock', {})
  BY FS_EmptySet DEF Dated
<1> QED
  BY <1>1, <1>2, <1>3, NobodyPassed DEF ThrottleInv

LEMMA ThrottleStep ==
  ASSUME ThrottleInv, [Next]_vars
  PROVE  ThrottleInv'
<1>1. CASE UNCHANGED vars
  BY <1>1, ThrottlesStill DEF vars
<1>2. CASE \E c \in Connections, a \in Addresses :
             \/ \E i \in Identifiers : LoginRequest(c, a, i)
             \/ RegisterRequest(c, a) \/ IllegibleRequest(c, a)
             \/ \E cl \in Clients, k \in Kids, j \in Jtis : TokenRequest(c, a, cl, k, j)
  BY <1>2, RequestThrottled
<1>3. ASSUME NEW c \in Connections,
             \/ Find(c) \/ Verified(c) \/ CountFailure(c) \/ Lock(c)
             \/ DrawAgain(c) \/ \E i \in Identifiers : Create(c, i)
             \/ Candidate(c) \/ Record(c) \/ Issue(c)
      PROVE  ThrottleInv'
  <2>1. UNCHANGED <<gates, clock>>
    BY <1>3 DEF Find, Verified, CountFailure, Lock, DrawAgain, Create, Candidate, Record, Issue, Go, End
  <2> QED
    BY <2>1, ThrottlesStill
<1>4. ASSUME NEW c \in Connections, NEW cl \in Clients, Call(c, cl)
      PROVE  ThrottleInv'
  BY <1>4, CallThrottled
<1>5. ASSUME NEW cl \in Clients, RevokeClient(cl) \/ \E k \in Kids : RegisterClient(cl, k) \/ RotateKey(cl, k)
      PROVE  ThrottleInv'
  BY <1>5, ThrottlesStill DEF RevokeClient, RegisterClient, RotateKey
<1>6. CASE Tick \/ Restart
  BY <1>6, TickThrottles, RestartThrottles
<1> QED
  BY <1>1, <1>2, <1>3, <1>4, <1>5, <1>6 DEF Next

-----------------------------------------------------------------------------
\* What the bounds of the model leave to every variable: each failure of a secret, and each
\* verification that may still end in one, was a request.

InFlight(i) == {c \in Connections : tx[c].op = "login" /\ tx[c].id = i /\ tx[c].step # "lock"}

Bounds ==
    /\ clock \in Instants /\ asked \in 0..MaxRequests
    /\ accounts \subseteq Identifiers
    /\ lockedUntil \in [Identifiers -> 0..(MaxTime + LockCap)]
    /\ promised \in [Identifiers -> 0..(MaxTime + LockCap)]
    /\ \A x \in Clients \X Jtis : assertions[x] <= asked
    /\ \A c \in Connections : tx[c] # Idle => asked >= 1

Attempts ==
    /\ failures \in [Identifiers -> Nat]
    /\ \A i \in Identifiers :
          IsFiniteSet(InFlight(i)) /\ failures[i] + Cardinality(InFlight(i)) <= asked

\* Steps that put no new verification in flight, and no failure.
LEMMA AttemptsKept ==
  ASSUME Attempts, Bounds, asked' = asked, failures' \in [Identifiers -> Nat],
         \A i \in Identifiers : failures'[i] <= failures[i] /\ InFlight(i)' \subseteq InFlight(i)
  PROVE  Attempts'
<1> SUFFICES ASSUME NEW i \in Identifiers
             PROVE  IsFiniteSet(InFlight(i)') /\ failures'[i] + Cardinality(InFlight(i)') <= asked'
  BY DEF Attempts
<1>1. IsFiniteSet(InFlight(i)) /\ failures[i] + Cardinality(InFlight(i)) <= asked
  BY DEF Attempts
<1>2. IsFiniteSet(InFlight(i)') /\ Cardinality(InFlight(i)') <= Cardinality(InFlight(i))
  BY <1>1, FS_Subset
<1>3. Cardinality(InFlight(i)) \in Nat /\ Cardinality(InFlight(i)') \in Nat
  BY <1>1, <1>2, FS_CardinalityType
<1>4. failures[i] \in Nat /\ failures'[i] \in Nat /\ asked \in Nat /\ failures'[i] <= failures[i]
  BY DEF Attempts, Bounds
<1> QED
  BY <1>1, <1>2, <1>3, <1>4

\* A request that ends, or goes on as something else than a verification.
LEMMA NoNewFlight ==
  ASSUME NEW c \in Connections, \A d \in Connections \ {c} : tx'[d] = tx[d],
         tx'[c].op = "login" => tx'[c].step = "lock" \/ (tx[c].op = "login" /\ tx[c].step # "lock" /\ tx'[c].id = tx[c].id)
  PROVE  \A i : InFlight(i)' \subseteq InFlight(i)
  BY DEF InFlight

\* A request adds at most one verification, to be.
LEMMA AttemptsArrive ==
  ASSUME Attempts, Bounds, NEW c \in Connections, \A d \in Connections \ {c} : tx'[d] = tx[d],
         asked' = asked + 1, failures' = failures
  PROVE  Attempts'
<1> SUFFICES ASSUME NEW i \in Identifiers
             PROVE  IsFiniteSet(InFlight(i)') /\ failures'[i] + Cardinality(InFlight(i)') <= asked'
  BY DEF Attempts
<1> DEFINE A == InFlight(i)
           B == InFlight(i)'
<1>1. IsFiniteSet(A) /\ failures[i] + Cardinality(A) <= asked
  BY DEF Attempts
<1>2. B \subseteq A \cup {c}
  BY DEF InFlight
<1>3. failures[i] \in Nat /\ asked \in Nat
  BY DEF Attempts, Bounds
<1> HIDE DEF A, B
<1>4. Cardinality(A) \in Nat
  BY <1>1, FS_CardinalityType
<1>5. \A x : /\ IsFiniteSet(A \cup {x})
             /\ Cardinality(A \cup {x}) = IF x \in A THEN Cardinality(A) ELSE Cardinality(A) + 1
  BY <1>1, FS_AddElement
<1>6. IsFiniteSet(A \cup {c}) /\ (Cardinality(A \cup {c}) = Cardinality(A) \/ Cardinality(A \cup {c}) = Cardinality(A) + 1)
  BY <1>5
<1>7. IsFiniteSet(B) /\ Cardinality(B) <= Cardinality(A \cup {c})
  BY <1>2, <1>6, FS_Subset
<1>8. Cardinality(B) \in Nat
  BY <1>7, FS_CardinalityType
<1>9. failures[i] + Cardinality(B) <= asked + 1
  BY <1>1, <1>3, <1>4, <1>6, <1>7, <1>8
<1> QED
  BY <1>7, <1>9 DEF B

\* A failure takes the place of the verification it comes from.
LEMMA AttemptsFail ==
  ASSUME Attempts, Bounds, NEW c \in Connections, \A d \in Connections \ {c} : tx'[d] = tx[d],
         NEW i \in Identifiers, c \in InFlight(i), \A j : c \notin InFlight(j)',
         asked' = asked, failures' = [failures EXCEPT ![i] = failures[i] + 1]
  PROVE  Attempts'
<1>1. failures \in [Identifiers -> Nat] /\ failures' \in [Identifiers -> Nat] /\ asked \in Nat
  BY DEF Attempts, Bounds
<1>2. failures'[i] = failures[i] + 1 /\ \A j \in Identifiers : j # i => failures'[j] = failures[j]
  BY <1>1
<1>3. \A j : InFlight(j)' \subseteq InFlight(j) \ {c}
  BY DEF InFlight
<1> SUFFICES ASSUME NEW j \in Identifiers
             PROVE  IsFiniteSet(InFlight(j)') /\ failures'[j] + Cardinality(InFlight(j)') <= asked
  BY <1>1 DEF Attempts
<1> DEFINE A == InFlight(j)
           B == InFlight(j)'
<1>4. IsFiniteSet(A) /\ failures[j] + Cardinality(A) <= asked
  BY DEF Attempts
<1>5. B \subseteq A /\ B \subseteq A \ {c} /\ (j = i => c \in A)
  BY <1>3
<1> HIDE DEF A, B
<1>6. IsFiniteSet(B) /\ Cardinality(B) <= Cardinality(A)
  BY <1>4, <1>5, FS_Subset
<1>7. Cardinality(A) \in Nat /\ Cardinality(B) \in Nat
  BY <1>4, <1>6, FS_CardinalityType
<1>8. CASE j = i
  <2>1. \A x : /\ IsFiniteSet(A \ {x})
               /\ Cardinality(A \ {x}) = IF x \in A THEN Cardinality(A) - 1 ELSE Cardinality(A)
    BY <1>4, FS_RemoveElement
  <2>2. IsFiniteSet(A \ {c}) /\ Cardinality(A \ {c}) = Cardinality(A) - 1
    BY <1>5, <1>8, <2>1
  <2>3. Cardinality(B) <= Cardinality(A) - 1
    BY <1>5, <2>2, FS_Subset
  <2>4. failures[j] \in Nat /\ failures'[j] = failures[j] + 1
    BY <1>1, <1>2, <1>8
  <2>5. failures'[j] + Cardinality(B) <= asked
    BY <1>1, <1>4, <1>7, <2>3, <2>4
  <2> QED
    BY <1>6, <2>5 DEF B
<1>9. CASE j # i
  <2>1. failures[j] \in Nat /\ failures'[j] = failures[j]
    BY <1>1, <1>2, <1>9
  <2>2. failures'[j] + Cardinality(B) <= asked
    BY <1>1, <1>4, <1>6, <1>7, <2>1
  <2> QED
    BY <1>6, <2>2 DEF B
<1> QED
  BY <1>8, <1>9

\* What the steps of a request leave of the bounds.
LEMMA BoundsKept ==
  ASSUME Bounds, NEW c \in Connections, tx[c] # Idle, \A d \in Connections \ {c} : tx'[d] = tx[d],
         UNCHANGED <<clock, asked>>, accounts' \subseteq Identifiers,
         lockedUntil' \in [Identifiers -> 0..(MaxTime + LockCap)],
         promised' \in [Identifiers -> 0..(MaxTime + LockCap)],
         \A x \in Clients \X Jtis : assertions'[x] <= asked
  PROVE  Bounds'
<1>1. \A d \in Connections : tx'[d] # Idle => asked >= 1
  BY DEF Bounds
<1> QED
  BY <1>1 DEF Bounds

LEMMA ArriveBounds ==
  ASSUME Bounds, Attempts, DoorInv, NEW c \in Connections, NEW door, NEW ks, NEW whom, NEW next \in Request,
         Arrive(c, door, ks, whom, next)
  PROVE  Bounds' /\ Attempts'
<1>1. \A d \in Connections \ {c} : tx'[d] = tx[d]
  BY ArriveRequests DEF DoorInv
<1>2. UNCHANGED <<accounts, failures, lockedUntil, promised, assertions, clock>>
  BY DEF Arrive, account, program
<1>3. asked' = asked + 1 /\ asked \in Nat /\ asked' \in 0..MaxRequests
  BY DEF Arrive, Bounds
<1>4. Attempts'
  BY <1>1, <1>2, <1>3, AttemptsArrive
<1>5. \A x \in Clients \X Jtis : assertions'[x] <= asked'
  <2> TAKE x \in Clients \X Jtis
  <2>1. assertions[x] \in {0, 1} /\ assertions[x] <= asked /\ assertions' = assertions
    BY <1>2 DEF DoorInv, Assertions, Bounds
  <2> QED
    BY <1>3, <2>1
<1>6. \A d \in Connections : tx'[d] # Idle => asked' >= 1
  BY <1>3
<1>7. Bounds'
  BY <1>2, <1>3, <1>5, <1>6 DEF Bounds
<1> QED
  BY <1>4, <1>7

LEMMA RequestBounds ==
  ASSUME Bounds, Attempts, DoorInv, NEW c \in Connections, NEW a \in Addresses,
         \/ \E i \in Identifiers : LoginRequest(c, a, i)
         \/ RegisterRequest(c, a) \/ IllegibleRequest(c, a)
         \/ \E cl \in Clients, k \in Kids, j \in Jtis : TokenRequest(c, a, cl, k, j)
  PROVE  Bounds' /\ Attempts'
<1>1. CASE \E i \in Identifiers : LoginRequest(c, a, i)
  <2>1. PICK i \in Identifiers : LoginRequest(c, a, i)
    BY <1>1
  <2> DEFINE n == [op |-> "login", step |-> "find", id |-> i]
  <2>2. n \in Request
    BY DEF Request
  <2>3. PICK seen : Arrive(c, "login", <<Ip(seen), Id(i)>>, {a, i}, n)
    BY <2>1 DEF LoginRequest
  <2> QED
    BY <2>2, <2>3, ArriveBounds
<1>2. CASE RegisterRequest(c, a)
  <2> DEFINE n == [op |-> "register", step |-> "draw", draws |-> 0]
  <2>1. n \in Request
    BY DEF Request
  <2> HIDE DEF n
  <2>2. PICK seen \in Seen(a), longEnough \in BOOLEAN :
           Arrive(c, "register", <<Key(seen)>>, {a}, IF longEnough THEN n ELSE Idle)
    BY <1>2 DEF RegisterRequest, n
  <2>3. (IF longEnough THEN n ELSE Idle) \in Request
    BY <2>1, IdleRequest
  <2> QED
    BY <2>2, <2>3, ArriveBounds
<1>3. CASE IllegibleRequest(c, a)
  <2>1. PICK seen : Arrive(c, "token", IllegibleKeys(seen), {a}, Idle)
    BY <1>3 DEF IllegibleRequest
  <2> QED
    BY <2>1, IdleRequest, ArriveBounds
<1>4. CASE \E cl \in Clients, k \in Kids, j \in Jtis : TokenRequest(c, a, cl, k, j)
  <2>1. PICK cl \in Clients, k \in Kids, j \in Jtis : TokenRequest(c, a, cl, k, j)
    BY <1>4
  <2> DEFINE n == [op |-> "token", step |-> "candidate", client |-> cl, kid |-> k, jti |-> j]
  <2>2. n \in Request
    BY DEF Request
  <2> HIDE DEF n
  <2>3. PICK seen \in Seen(a), exp \in 0..(MaxTime + AssertionTtl + 1) :
           Arrive(c, "token", <<Ip(seen), Id(cl)>>, {a, cl}, IF Timely(exp) THEN n ELSE Idle)
    BY <2>1 DEF TokenRequest, n
  <2>4. (IF Timely(exp) THEN n ELSE Idle) \in Request
    BY <2>2, IdleRequest
  <2> QED
    BY <2>3, <2>4, ArriveBounds
<1> QED
  BY <1>1, <1>2, <1>3, <1>4

\* The steps between: none puts a verification in flight that was not.
LEMMA QuietBounds ==
  ASSUME Bounds, Attempts, DoorInv, NEW c \in Connections,
         \/ Find(c) \/ Verified(c) \/ DrawAgain(c) \/ \E i \in Identifiers : Create(c, i)
         \/ Candidate(c) \/ Issue(c)
  PROVE  Bounds' /\ Attempts'
<1> DEFINE t == tx[c]
<1>1. t # Idle /\ t \in Request
  BY IdleRequest DEF DoorInv, Requests, Find, Verified, DrawAgain, Create, Candidate, Issue, At, Idle
<1>2. /\ UNCHANGED <<lockedUntil, promised, assertions>>
      /\ accounts' \subseteq Identifiers
  BY DEF Find, Verified, DrawAgain, Create, Candidate, Issue, account, program, Bounds
<1>3. PICK next \in Request :
         Go(c, next) /\ (next.op = "login" => t.op = "login" /\ t.step # "lock" /\ next.id = t.id)
  <2>1. CASE Find(c)
    <3>1. t.op = "login" /\ t.step = "find"
      BY <2>1 DEF Find, At
    <3>2. t \in [op : {"login"}, step : {"find", "verify"}, id : Identifiers]
      BY <1>1, <3>1 DEF Request, Exchange, Idle
    <3>3. [t EXCEPT !.step = "verify"] \in Request /\ [t EXCEPT !.step = "verify"].id = t.id
      BY <3>2 DEF Request
    <3> QED BY <2>1, <3>1, <3>3, IdleRequest DEF Find, End
  <2>2. CASE Verified(c) \/ Issue(c) \/ \E i \in Identifiers : Create(c, i)
    <3>1. Go(c, Idle)
      BY <2>2 DEF Verified, Issue, Create, End
    <3> QED BY <3>1, IdleRequest
  <2>3. CASE DrawAgain(c)
    <3>1. t \in [op : {"register"}, step : {"draw"}, draws : Int]
      BY <1>1, <2>3 DEF Request, Exchange, Idle, DrawAgain, At
    <3>2. [t EXCEPT !.draws = t.draws + 1] \in Request /\ [t EXCEPT !.draws = t.draws + 1].op = "register"
      BY <3>1 DEF Request
    <3> QED BY <2>3, <3>2, IdleRequest DEF DrawAgain, End
  <2>4. CASE Candidate(c)
    <3> DEFINE n == [op |-> "token", step |-> "record", client |-> t.client, jti |-> t.jti]
    <3>1. t \in [op : {"token"}, step : {"candidate"}, client : Clients, kid : Kids, jti : Jtis]
      BY <1>1, <2>4 DEF Request, Exchange, Idle, Candidate, At
    <3>2. n \in Request /\ n.op = "token"
      BY <3>1 DEF Request, Exchange
    <3> QED BY <2>4, <3>2, IdleRequest DEF Candidate, End
  <2> QED
    BY <2>1, <2>2, <2>3, <2>4
<1>4. tx'[c] = next /\ (\A d \in Connections \ {c} : tx'[d] = tx[d]) /\ UNCHANGED <<gates, clock>>
  BY <1>3, GoRequests DEF DoorInv
<1>5. clock' = clock /\ asked' = asked
  BY <1>4 DEF gates
<1>6. failures' \in [Identifiers -> Nat] /\ \A i \in Identifiers : failures'[i] <= failures[i]
  <2>1. failures \in [Identifiers -> Nat]
    BY DEF Attempts
  <2>2. failures' = failures \/ (\E i \in Identifiers : failures' = [failures EXCEPT ![i] = 0])
    <3>1. CASE Verified(c)
      <4>1. t.op = "login" /\ t.step = "verify" /\ failures' = [failures EXCEPT ![t.id] = 0]
        BY <3>1 DEF Verified, At
      <4>2. t.id \in Identifiers
        BY <1>1, <4>1 DEF Request, Exchange, Idle
      <4> QED BY <4>1, <4>2
    <3>2. CASE ~Verified(c)
      BY <3>2 DEF Find, DrawAgain, Create, Candidate, Issue, account
    <3> QED BY <3>1, <3>2
  <2>3. CASE failures' = failures
    BY <2>1, <2>3
  <2>4. CASE \E i \in Identifiers : failures' = [failures EXCEPT ![i] = 0]
    BY <2>1, <2>4
  <2> QED
    BY <2>2, <2>3, <2>4
<1>7. \A i : InFlight(i)' \subseteq InFlight(i)
  BY <1>3, <1>4, NoNewFlight
<1>8. Attempts'
  BY <1>5, <1>6, <1>7, AttemptsKept
<1>9. /\ \A x \in Clients \X Jtis : assertions'[x] <= asked
      /\ lockedUntil' \in [Identifiers -> 0..(MaxTime + LockCap)]
      /\ promised' \in [Identifiers -> 0..(MaxTime + LockCap)]
  BY <1>2 DEF Bounds
<1>10. Bounds'
  BY <1>1, <1>2, <1>4, <1>5, <1>9, BoundsKept
<1> QED
  BY <1>8, <1>10

LEMMA FailureBounds ==
  ASSUME Bounds, Attempts, DoorInv, NEW c \in Connections, CountFailure(c)
  PROVE  Bounds' /\ Attempts'
<1> DEFINE t == tx[c]
           n == [op |-> "login", step |-> "lock", id |-> t.id, count |-> failures[t.id] + 1]
<1>1. t.op = "login" /\ t.step = "verify" /\ t \in Request
  BY DEF CountFailure, At, DoorInv, Requests
<1>2. t \in [op : {"login"}, step : {"find", "verify"}, id : Identifiers] /\ t # Idle
  BY <1>1, IdleRequest DEF Request, Exchange, Idle
<1>3. failures[t.id] + 1 \in Int
  BY <1>2 DEF Attempts
<1>4. n \in Request /\ n.op = "login" /\ n.step = "lock"
  BY <1>2, <1>3 DEF Request
<1>5. /\ failures' = [failures EXCEPT ![t.id] = failures[t.id] + 1]
      /\ UNCHANGED <<accounts, lockedUntil, promised, assertions>>
      /\ Go(c, Idle) \/ Go(c, n)
  BY DEF CountFailure, End, program
<1> HIDE DEF n
<1>6. PICK next \in Request : Go(c, next) /\ (next.op = "login" => next.step = "lock")
  BY <1>4, <1>5, IdleRequest
<1>7. tx'[c] = next /\ (\A d \in Connections \ {c} : tx'[d] = tx[d]) /\ UNCHANGED <<gates, clock>>
  BY <1>6, GoRequests DEF DoorInv
<1>8. clock' = clock /\ asked' = asked
  BY <1>7 DEF gates
<1>9. c \in InFlight(t.id) /\ t.id \in Identifiers
  BY <1>1, <1>2 DEF InFlight
<1>10. \A j : c \notin InFlight(j)'
  BY <1>6, <1>7 DEF InFlight
<1>11. Attempts'
  BY <1>5, <1>7, <1>8, <1>9, <1>10, AttemptsFail
<1>12. /\ \A x \in Clients \X Jtis : assertions'[x] <= asked
       /\ lockedUntil' \in [Identifiers -> 0..(MaxTime + LockCap)]
       /\ promised' \in [Identifiers -> 0..(MaxTime + LockCap)]
       /\ accounts' \subseteq Identifiers
  BY <1>5 DEF Bounds
<1>13. Bounds'
  BY <1>2, <1>7, <1>8, <1>12, BoundsKept
<1> QED
  BY <1>11, <1>13

\* Whatever the power of two, no delay is longer than its cap.
LEMMA BackoffRange == \A count : Backoff(count) \in 0..LockCap
  BY DEF Backoff

LEMMA LockBounds ==
  ASSUME Bounds, Attempts, DoorInv, NEW c \in Connections, Lock(c)
  PROVE  Bounds' /\ Attempts'
<1> DEFINE t == tx[c]
           until == clock + Backoff(t.count)
<1>1. t \in [op : {"login"}, step : {"lock"}, id : Identifiers, count : Int]
  BY DEF DoorInv, Requests, Request, Exchange, Idle, Lock, At
<1>2. t # Idle /\ t.id \in Identifiers
  BY <1>1, IdleRequest
<1>3. until \in 0..(MaxTime + LockCap)
  <2>1. clock \in 0..MaxTime /\ Backoff(t.count) \in 0..LockCap
    BY BackoffRange DEF Bounds, Instants
  <2> HIDE DEF t
  <2> QED
    BY <2>1
<1>4. /\ lockedUntil' = IF MayLock(t.id, until) THEN [lockedUntil EXCEPT ![t.id] = until] ELSE lockedUntil
      /\ promised' = [promised EXCEPT ![t.id] = IF until > promised[t.id] THEN until ELSE promised[t.id]]
      /\ UNCHANGED <<accounts, failures, assertions>> /\ Go(c, Idle)
  BY DEF Lock, End, program
<1> HIDE DEF until
<1>5. lockedUntil' \in [Identifiers -> 0..(MaxTime + LockCap)]
  BY <1>2, <1>3, <1>4 DEF Bounds
<1>6. promised' \in [Identifiers -> 0..(MaxTime + LockCap)]
  BY <1>2, <1>3, <1>4 DEF Bounds
<1>7. tx'[c] = Idle /\ (\A d \in Connections \ {c} : tx'[d] = tx[d]) /\ UNCHANGED <<gates, clock>>
  BY <1>4, IdleRequest, GoRequests DEF DoorInv
<1>8. clock' = clock /\ asked' = asked
  BY <1>7 DEF gates
<1>9. \A i : InFlight(i)' \subseteq InFlight(i)
  BY <1>7, IdleRequest, NoNewFlight
<1>10. failures' \in [Identifiers -> Nat] /\ \A i \in Identifiers : failures'[i] <= failures[i]
  BY <1>4 DEF Attempts
<1>11. Attempts'
  BY <1>8, <1>9, <1>10, AttemptsKept
<1>12. accounts' \subseteq Identifiers /\ \A x \in Clients \X Jtis : assertions'[x] <= asked
  BY <1>4 DEF Bounds
<1>13. Bounds'
  BY <1>2, <1>5, <1>6, <1>7, <1>8, <1>12, BoundsKept
<1> QED
  BY <1>11, <1>13

LEMMA RecordBounds ==
  ASSUME Bounds, Attempts, DoorInv, NEW c \in Connections, Record(c)
  PROVE  Bounds' /\ Attempts'
<1> DEFINE t == tx[c]
<1>1. t \in Exchange({"record", "issue"}) /\ t.op = "token"
  BY DEF DoorInv, Requests, Request, Exchange, Idle, Record, At
<1>2. t # Idle /\ [t EXCEPT !.step = "issue"] \in Request /\ [t EXCEPT !.step = "issue"].op = "token"
  BY <1>1, IdleRequest DEF Request, Exchange
<1>3. PICK next \in Request : Go(c, next) /\ next.op # "login"
  BY <1>2, IdleRequest DEF Record, End
<1>4. tx'[c] = next /\ (\A d \in Connections \ {c} : tx'[d] = tx[d]) /\ UNCHANGED <<gates, clock>>
  BY <1>3, GoRequests DEF DoorInv
<1>5. clock' = clock /\ asked' = asked
  BY <1>4 DEF gates
<1>6. UNCHANGED <<accounts, failures, lockedUntil, promised>>
  BY DEF Record, account
<1>7. asked >= 1 /\ asked \in Nat
  BY <1>2 DEF Bounds
<1>8. DoorInv'
  BY RecordStep
<1>9. \A x \in Clients \X Jtis : assertions'[x] <= asked
  <2> TAKE x \in Clients \X Jtis
  <2>1. assertions'[x] \in {0, 1}
    BY <1>8 DEF DoorInv, Assertions
  <2> QED
    BY <1>7, <2>1
<1>10. \A i : InFlight(i)' \subseteq InFlight(i)
  BY <1>3, <1>4, NoNewFlight
<1>11. failures' \in [Identifiers -> Nat] /\ \A i \in Identifiers : failures'[i] <= failures[i]
  BY <1>6 DEF Attempts
<1>12. Attempts'
  BY <1>5, <1>10, <1>11, AttemptsKept
<1>13. /\ lockedUntil' \in [Identifiers -> 0..(MaxTime + LockCap)]
       /\ promised' \in [Identifiers -> 0..(MaxTime + LockCap)]
       /\ accounts' \subseteq Identifiers
  BY <1>6 DEF Bounds
<1>14. Bounds'
  BY <1>2, <1>4, <1>5, <1>9, <1>13, BoundsKept
<1> QED
  BY <1>12, <1>14

LEMMA AroundBounds ==
  ASSUME Bounds, Attempts, DoorInv,
         \/ Tick \/ Restart
         \/ \E cl \in Clients : RevokeClient(cl) \/ \E k \in Kids : RegisterClient(cl, k) \/ RotateKey(cl, k)
         \/ UNCHANGED vars
  PROVE  Bounds' /\ Attempts'
<1>1. UNCHANGED <<accounts, failures, lockedUntil, promised, assertions, asked>>
      /\ (tx' = tx \/ tx' = [c \in Connections |-> Idle])
  BY DEF Tick, Restart, RevokeClient, RegisterClient, RotateKey, vars, account, program, gates
<1>2. clock' \in Instants
  <2>1. clock' = clock \/ (clock < MaxTime /\ clock' = clock + 1)
    BY DEF Tick, Restart, RevokeClient, RegisterClient, RotateKey, vars
  <2> QED
    BY <2>1 DEF Bounds, Instants
<1>3. \A i : InFlight(i)' \subseteq InFlight(i)
  BY <1>1, IdleRequest DEF InFlight
<1>4. failures' \in [Identifiers -> Nat] /\ \A i \in Identifiers : failures'[i] <= failures[i]
  BY <1>1 DEF Attempts
<1>5. Attempts'
  BY <1>1, <1>3, <1>4, AttemptsKept
<1>6. \A c \in Connections : tx'[c] # Idle => asked >= 1
  BY <1>1 DEF Bounds
<1>7. Bounds'
  BY <1>1, <1>2, <1>6 DEF Bounds
<1> QED
  BY <1>5, <1>7

LEMMA BoundsStep ==
  ASSUME Bounds, Attempts, DoorInv, [Next]_vars
  PROVE  Bounds' /\ Attempts'
<1>1. ASSUME NEW c \in Connections, NEW cl \in Clients, Call(c, cl)
      PROVE  Bounds' /\ Attempts'
  <2>1. Arrive(c, "v1", <<Key(cl)>>, {cl}, Idle)
    BY <1>1 DEF Call
  <2> QED
    BY <2>1, IdleRequest, ArriveBounds
<1> QED
  BY <1>1, RequestBounds, QuietBounds, FailureBounds, LockBounds, RecordBounds, AroundBounds DEF Next

LEMMA BoundsInit ==
  ASSUME Init
  PROVE  ThrottleInv /\ Bounds /\ Attempts
<1>1. /\ clock = 0 /\ asked = 0 /\ counters = [d \in Doors |-> <<>>] /\ passed = {}
      /\ failures = [i \in Identifiers |-> 0]
      /\ lockedUntil = [i \in Identifiers |-> 0] /\ promised = [i \in Identifiers |-> 0]
      /\ assertions = [x \in Clients \X Jtis |-> 0]
      /\ tx = [c \in Connections |-> Idle]
  BY DEF Init
<1>2. ThrottleInv
  BY <1>1, FreshThrottles
<1>3. accounts \subseteq Identifiers
  <2>1. Identifiers # {}
    BY AccessAssumption DEF AccessAssumption
  <2>2. (CHOOSE i \in Identifiers : TRUE) \in Identifiers
    BY <2>1
  <2> QED
    BY <2>2 DEF Init
<1>4. Bounds
  <2>1. clock \in Instants /\ asked \in 0..MaxRequests
    BY <1>1 DEF Instants
  <2>2. MaxTime + LockCap \in Nat
    OBVIOUS
  <2>3. lockedUntil \in [Identifiers -> 0..(MaxTime + LockCap)]
        /\ promised \in [Identifiers -> 0..(MaxTime + LockCap)]
    BY <1>1, <2>2
  <2>4. \A x \in Clients \X Jtis : assertions[x] <= asked
    BY <1>1
  <2>5. \A c \in Connections : tx[c] = Idle
    BY <1>1
  <2> QED
    BY <1>3, <2>1, <2>3, <2>4, <2>5 DEF Bounds
<1>5. \A i : InFlight(i) = {}
  BY <1>1, IdleRequest DEF InFlight
<1>6. Attempts
  <2>1. \A i : IsFiniteSet(InFlight(i)) /\ Cardinality(InFlight(i)) = 0
    BY <1>5, FS_EmptySet
  <2> QED
    BY <1>1, <2>1 DEF Attempts
<1> QED
  BY <1>2, <1>4, <1>6

\* In one life of the process, for any callers, headers, budgets, windows and sweeps, nobody
\* passes a door more than MaxAttempts times at once nor twice that, less one, within the
\* length of a window (LoginThrottle and ClientAddress).
THEOREM BudgetIsKept == Spec => []BudgetHolds
<1>1. Init => ThrottleInv
  BY BoundsInit
<1>2. ThrottleInv /\ [Next]_vars => ThrottleInv'
  BY ThrottleStep
<1>3. ThrottleInv => BudgetHolds
  <2> SUFFICES ASSUME ThrottleInv, NEW d \in Doors, NEW w \in Subjects, NEW t \in Instants
               PROVE  /\ Passed(d, w, t, t) <= MaxAttempts[d]
                      /\ Passed(d, w, t, t + Window - 1) <= 2 * MaxAttempts[d] - 1
    BY DEF BudgetHolds, Subjects
  <2>1. t \in Int
    BY DEF Instants
  <2>2. Budgeted(passed, d, w)
    BY DEF ThrottleInv
  <2>3. \A a, b : Passed(d, w, a, b) = Count(passed, d, w, a, b)
    BY DEF Passed, Count, Passages
  <2> QED
    BY <2>1, <2>2, <2>3 DEF Budgeted
<1> QED
  BY <1>1, <1>2, <1>3, PTL DEF Spec

\* Every variable keeps its type: a counter's window has begun and it counted something, a
\* secret fails no more than it was tried, and a client that is not ACTIVE has no ACTIVE key
\* (AuthService.registerFailure, cascade_program_client_revocation).
THEOREM TypeCorrect == Spec => []TypeOK
<1> DEFINE Inv == DoorInv /\ ThrottleInv /\ Bounds /\ Attempts
<1>1. Init => Inv
  BY DoorInit, BoundsInit
<1>2. Inv /\ [Next]_vars => Inv'
  BY DoorStep, ThrottleStep, BoundsStep
<1>3. Inv => TypeOK
  <2> SUFFICES ASSUME Inv
               PROVE  TypeOK
    OBVIOUS
  <2>1. asked \in 0..MaxRequests /\ clock \in Instants
    BY DEF Bounds
  <2>2. \A d \in Doors : \A k \in DOMAIN counters[d] :
           counters[d][k].start <= clock /\ counters[d][k].count \in 1..MaxRequests
    <3> SUFFICES ASSUME NEW d \in Doors, NEW k \in DOMAIN counters[d]
                 PROVE  counters[d][k].start <= clock /\ counters[d][k].count \in 1..MaxRequests
      OBVIOUS
    <3>1. counters[d][k] \in [start : 0..clock, count : 1..asked]
      BY DEF ThrottleInv, Fits
    <3>2. counters[d][k].start \in 0..clock /\ counters[d][k].count \in 1..asked
      BY <3>1
    <3> QED
      BY <2>1, <3>2 DEF Instants
  <2>3. failures \in [Identifiers -> 0..MaxRequests]
    <3>1. ASSUME NEW i \in Identifiers PROVE failures[i] \in 0..MaxRequests
      <4>1. failures[i] \in Nat /\ IsFiniteSet(InFlight(i)) /\ failures[i] + Cardinality(InFlight(i)) <= asked
        BY DEF Attempts
      <4>2. Cardinality(InFlight(i)) \in Nat
        BY <4>1, FS_CardinalityType
      <4> QED
        BY <2>1, <4>1, <4>2
    <3>2. failures \in [Identifiers -> Nat]
      BY DEF Attempts
    <3> QED
      BY <3>1, <3>2
  <2>4. assertions \in [Clients \X Jtis -> 0..MaxRequests]
    <3>1. ASSUME NEW x \in Clients \X Jtis PROVE assertions[x] \in 0..MaxRequests
      <4>1. assertions[x] \in {0, 1} /\ assertions[x] <= asked
        BY DEF DoorInv, Assertions, Bounds
      <4> QED
        BY <2>1, <4>1
    <3>2. assertions \in [Clients \X Jtis -> {0, 1}]
      BY DEF DoorInv, Assertions
    <3> QED
      BY <3>1, <3>2
  <2>5. /\ accounts \subseteq Identifiers
        /\ lockedUntil \in [Identifiers -> 0..(MaxTime + LockCap)]
        /\ promised \in [Identifiers -> 0..(MaxTime + LockCap)]
    BY DEF Bounds
  <2>6. /\ clients \in [Clients -> {"unknown", "ACTIVE", "REVOKED"}]
        /\ keys \in [Clients -> [Kids -> {"none", "ACTIVE", "REVOKED"}]]
        /\ \A cl \in Clients : clients[cl] # "ACTIVE" => \A k \in Kids : keys[cl][k] # "ACTIVE"
    BY DEF DoorInv, Identities
  <2> QED
    BY <2>1, <2>2, <2>3, <2>4, <2>5, <2>6 DEF TypeOK
<1> QED
  BY <1>1, <1>2, <1>3, PTL DEF Spec
=============================================================================
