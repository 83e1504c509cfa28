---------------------------- MODULE OutboxProofs ----------------------------
(***************************************************************************)
(* Proofs about Outbox: for any events, workers and configuration, an      *)
(* event fails exactly when its attempts are used, the paid channel is     *)
(* called a bounded number of times, and the publisher does what           *)
(* EventDelivery promises.                                                 *)
(***************************************************************************)
EXTENDS Outbox, TLAPS, FiniteSetTheorems

USE OutboxAssumption DEF OutboxAssumption

JobSteps == {"idle", "drain", "deposit", "send", "confirm", "confirm.plain", "fail"}
Confirming == {"confirm", "confirm.plain"}

-----------------------------------------------------------------------------
\* The types the argument rests on.
Rows ==
    /\ status \in [Events -> {"PENDING", "PUBLISHED", "FAILED"}]
    /\ attempts \in [Events -> 0..MaxAttempts]
    /\ job \in [Workers -> Job]

\* A message that is being confirmed has left.
Sent == \A w \in Workers : job[w].step \in Confirming => Event(w) \in sent

DeliveryInv == Rows /\ Sent /\ FailedWhenExhausted

-----------------------------------------------------------------------------
\* What a worker carries.

LEMMA IdleType == Idle \in Job /\ Idle.step = "idle"
<1>1. (CHOOSE e \in Events : TRUE) \in Events
  OBVIOUS
<1>2. NoRow \in Row
  BY <1>1 DEF NoRow, Row
<1> QED
  BY <1>2 DEF Idle, Job

LEMMA JobTypes ==
  ASSUME Rows, NEW w \in Workers
  PROVE  job[w] \in Job /\ job[w].todo \subseteq Row /\ job[w].row \in Row /\ Event(w) \in Events
  BY DEF Rows, Job, Row, Event

LEMMA ProceedJob ==
  ASSUME Rows, NEW w \in Workers, Proceed(w)
  PROVE  /\ job' \in [Workers -> Job]
         /\ job'[w].step \notin Confirming
         /\ \A v \in Workers \ {w} : job'[v] = job[v]
<1>1. [Idle EXCEPT !.step = "drain", !.todo = job[w].todo] \in Job
  BY IdleType, JobTypes DEF Job
<1>2. [Idle EXCEPT !.step = "drain", !.todo = job[w].todo].step = "drain"
  BY IdleType DEF Job
<1>3. CASE job[w].todo = {}
  BY <1>3, IdleType DEF Proceed, Rows, Confirming
<1>4. CASE job[w].todo # {}
  <2>1. job' = [job EXCEPT ![w] = [Idle EXCEPT !.step = "drain", !.todo = job[w].todo]]
    BY <1>4 DEF Proceed
  <2> QED BY <1>1, <1>2, <2>1 DEF Rows, Confirming
<1> QED
  BY <1>3, <1>4

LEMMA GoToJob ==
  ASSUME Rows, NEW w \in Workers, NEW s \in JobSteps, GoTo(w, s)
  PROVE  /\ job' \in [Workers -> Job]
         /\ job'[w].step = s /\ job'[w].row = job[w].row
         /\ \A v \in Workers \ {w} : job'[v] = job[v]
<1>1. [job[w] EXCEPT !.step = s] \in Job
  BY JobTypes DEF Job, JobSteps
<1>2. [job[w] EXCEPT !.step = s].step = s /\ [job[w] EXCEPT !.step = s].row = job[w].row
  BY JobTypes DEF Job
<1> QED
  BY <1>1, <1>2 DEF GoTo, Rows

-----------------------------------------------------------------------------
\* The steps that change a row, seen from the row.

LEMMA DepositOutcomes ==
  ASSUME Rows, NEW w \in Workers, Deposit(w)
  PROVE  /\ UNCHANGED <<attempts, sent>>
         /\ \/ /\ status[Event(w)] = "PENDING"
               /\ status' = [status EXCEPT ![Event(w)] = "PUBLISHED"]
               /\ notified' = notified \cup {Event(w)}
            \/ UNCHANGED <<status, notified>>
         /\ Proceed(w) \/ GoTo(w, "fail")
  BY DEF Deposit, Settle

LEMMA ConfirmOutcomes ==
  ASSUME Rows, NEW w \in Workers, Confirm(w)
  PROVE  /\ UNCHANGED <<attempts, sent>>
         /\ job[w].step \in Confirming
         /\ \/ /\ status[Event(w)] = "PENDING"
               /\ status' = [status EXCEPT ![Event(w)] = "PUBLISHED"]
               /\ notified' \in {notified, notified \cup {Event(w)}}
            \/ UNCHANGED <<status, notified>>
         /\ Proceed(w) \/ GoTo(w, "confirm.plain")
  BY DEF Confirm, Settle, Confirming

LEMMA FailOutcomes ==
  ASSUME Rows, NEW w \in Workers, FailAttempt(w)
  PROVE  /\ UNCHANGED <<sent, notified>>
         /\ \/ /\ status[Event(w)] = "PENDING"
               /\ attempts' = [attempts EXCEPT ![Event(w)] = @ + 1]
               /\ status' = [status EXCEPT ![Event(w)] =
                                IF attempts[Event(w)] + 1 >= MaxAttempts THEN "FAILED" ELSE @]
            \/ UNCHANGED <<status, attempts>>
         /\ Proceed(w)
<1>1. CASE status[Event(w)] # "PENDING"
  BY <1>1 DEF FailAttempt
<1>2. CASE status[Event(w)] = "PENDING" /\ attempts[Event(w)] + 1 >= MaxAttempts
  BY <1>2 DEF FailAttempt, Settle
<1>3. CASE status[Event(w)] = "PENDING" /\ ~(attempts[Event(w)] + 1 >= MaxAttempts)
  BY <1>3 DEF FailAttempt, Rows
<1> QED
  BY <1>1, <1>2, <1>3

LEMMA SendOutcomes ==
  ASSUME Rows, NEW w \in Workers, Send(w)
  PROVE  /\ UNCHANGED <<status, attempts, notified>>
         /\ \/ sent' = sent \cup {Event(w)} /\ GoTo(w, "confirm")
            \/ sent' = sent /\ GoTo(w, "fail")
  BY DEF Send

\* The steps that change no row and no message.
Quiet(w) ==
    /\ UNCHANGED <<status, attempts, notified, sent>>
    /\ job' \in [Workers -> Job]
    /\ job'[w].step \notin Confirming
    /\ \A v \in Workers \ {w} : job'[v] = job[v]

LEMMA QuietSteps ==
  ASSUME Rows, NEW w \in Workers, Drain(w) \/ Choose(w) \/ Crash(w)
  PROVE  Quiet(w)
<1>1. CASE Drain(w)
  <2> DEFINE batch == {e \in {d \in Events : status[d] = "PENDING" /\ wait[d] = 0} :
                  Cardinality({d \in {b \in Events : status[b] = "PENDING" /\ wait[b] = 0} : d < e})
                    < BatchSize}
             todo == {[event |-> e, attempts |-> attempts[e]] : e \in batch}
  <2>1. todo \subseteq Row
    <3>1. batch \subseteq Events
      OBVIOUS
    <3> HIDE DEF batch
    <3>2. \A e \in batch : attempts[e] \in Nat
      BY <3>1 DEF Rows
    <3> QED BY <3>1, <3>2 DEF Row
  <2>2. /\ job' = [job EXCEPT ![w].step = "drain", ![w].todo = todo]
        /\ UNCHANGED <<status, attempts, notified, sent>>
    BY <1>1 DEF Drain
  <2> HIDE DEF todo
  <2>3. [job[w] EXCEPT !.step = "drain", !.todo = todo] \in Job
    BY <2>1, JobTypes DEF Job
  <2>4. [job[w] EXCEPT !.step = "drain", !.todo = todo].step = "drain"
    BY JobTypes DEF Job
  <2> QED BY <2>2, <2>3, <2>4 DEF Quiet, Rows, Confirming
<1>2. CASE Choose(w)
  <2>1. PICK r \in job[w].todo, s \in {"send", "deposit", "fail"} :
            job' = [job EXCEPT ![w] = [step |-> s, todo |-> job[w].todo \ {r}, row |-> r]]
    BY <1>2 DEF Choose
  <2>2. [step |-> s, todo |-> job[w].todo \ {r}, row |-> r] \in Job
    BY <2>1, JobTypes DEF Job
  <2> QED BY <1>2, <2>1, <2>2 DEF Choose, Quiet, Rows, Confirming
<1>3. CASE Crash(w)
  BY <1>3, IdleType DEF Crash, Quiet, Rows, Confirming
<1> QED
  BY <1>1, <1>2, <1>3

\* Every step is one of these.
LEMMA OutboxSteps ==
  ASSUME Rows, [Next]_vars
  PROVE  \/ UNCHANGED <<status, attempts, notified, sent, job>>
         \/ \E w \in Workers : Quiet(w) \/ Deposit(w) \/ Send(w) \/ Confirm(w) \/ FailAttempt(w)
  BY QuietSteps DEF Next, Handle, vars, Tick, LoseLine, AccountTurns

-----------------------------------------------------------------------------
\* The invariant.

LEMMA DeliveryInvInit == Init => DeliveryInv
<1> SUFFICES ASSUME Init PROVE DeliveryInv
  OBVIOUS
<1>1. Rows
  BY IdleType DEF Init, Rows
<1>2. Sent
  BY IdleType DEF Init, Sent, Confirming
<1>3. FailedWhenExhausted
  BY DEF Init, FailedWhenExhausted
<1> QED
  BY <1>1, <1>2, <1>3 DEF DeliveryInv

\* Publishing an event that is still PENDING keeps the equivalence, its attempts not being used.
LEMMA PublishKeeps ==
  ASSUME Rows, FailedWhenExhausted, NEW e \in Events, status[e] = "PENDING",
         status' = [status EXCEPT ![e] = "PUBLISHED"], attempts' = attempts
  PROVE  FailedWhenExhausted' /\ status' \in [Events -> {"PENDING", "PUBLISHED", "FAILED"}]
  BY DEF Rows, FailedWhenExhausted

\* So does counting a failure.
LEMMA RefusalKeeps ==
  ASSUME Rows, FailedWhenExhausted, NEW e \in Events, status[e] = "PENDING",
         attempts' = [attempts EXCEPT ![e] = @ + 1],
         status' = [status EXCEPT ![e] = IF attempts[e] + 1 >= MaxAttempts THEN "FAILED" ELSE @]
  PROVE  /\ FailedWhenExhausted'
         /\ attempts' \in [Events -> 0..MaxAttempts]
         /\ status' \in [Events -> {"PENDING", "PUBLISHED", "FAILED"}]
<1>1. attempts[e] \in 0..MaxAttempts /\ attempts[e] # MaxAttempts
  BY DEF Rows, FailedWhenExhausted
<1>2. attempts[e] + 1 \in 0..MaxAttempts
  BY <1>1
<1>3. \A d \in Events \ {e} : attempts'[d] = attempts[d] /\ status'[d] = status[d]
  BY DEF Rows
<1>4. /\ attempts'[e] = attempts[e] + 1
      /\ status'[e] = IF attempts[e] + 1 >= MaxAttempts THEN "FAILED" ELSE "PENDING"
  BY DEF Rows
<1>5. FailedWhenExhausted'
  BY <1>1, <1>2, <1>3, <1>4 DEF FailedWhenExhausted
<1> QED
  BY <1>2, <1>5 DEF Rows

LEMMA DeliveryInvStep == DeliveryInv /\ [Next]_vars => DeliveryInv'
<1> SUFFICES ASSUME Rows, Sent, FailedWhenExhausted, [Next]_vars PROVE DeliveryInv'
  BY DEF DeliveryInv
<1>1. ASSUME UNCHANGED <<status, attempts, notified, sent, job>> PROVE DeliveryInv'
  BY <1>1 DEF DeliveryInv, Rows, Sent, FailedWhenExhausted, Event
<1>2. ASSUME NEW w \in Workers, sent \subseteq sent', job' \in [Workers -> Job],
             job'[w].step \in Confirming => Event(w)' \in sent',
             \A v \in Workers \ {w} : job'[v] = job[v]
      PROVE  Sent'
  BY <1>2 DEF Sent, Event
<1>3. ASSUME NEW w \in Workers, Quiet(w) PROVE DeliveryInv'
  BY <1>2, <1>3 DEF Quiet, DeliveryInv, Rows, FailedWhenExhausted
<1>4. ASSUME NEW w \in Workers, Deposit(w) PROVE DeliveryInv'
  <2>1. Event(w) \in Events
    BY JobTypes
  <2>2. job' \in [Workers -> Job] /\ Sent'
    BY <1>2, <1>4, DepositOutcomes, ProceedJob, GoToJob DEF JobSteps, Confirming
  <2>3. FailedWhenExhausted' /\ status' \in [Events -> {"PENDING", "PUBLISHED", "FAILED"}]
    BY <1>4, <2>1, DepositOutcomes, PublishKeeps DEF Rows, FailedWhenExhausted
  <2> QED BY <1>4, <2>2, <2>3, DepositOutcomes DEF DeliveryInv, Rows
<1>5. ASSUME NEW w \in Workers, Send(w) PROVE DeliveryInv'
  <2>1. job' \in [Workers -> Job] /\ Sent'
    <3>1. CASE sent' = sent \cup {Event(w)} /\ GoTo(w, "confirm")
      BY <1>2, <3>1, GoToJob DEF JobSteps, Event
    <3>2. CASE sent' = sent /\ GoTo(w, "fail")
      BY <1>2, <3>2, GoToJob DEF JobSteps, Confirming
    <3> QED BY <1>5, <3>1, <3>2, SendOutcomes
  <2> QED BY <1>5, <2>1, SendOutcomes DEF DeliveryInv, Rows, FailedWhenExhausted
<1>6. ASSUME NEW w \in Workers, Confirm(w) PROVE DeliveryInv'
  <2>1. Event(w) \in Events /\ Event(w) \in sent
    BY <1>6, JobTypes, ConfirmOutcomes DEF Sent
  <2>2. job' \in [Workers -> Job] /\ Sent'
    <3>1. CASE Proceed(w)
      BY <1>2, <1>6, <3>1, ConfirmOutcomes, ProceedJob
    <3>2. CASE GoTo(w, "confirm.plain")
      BY <1>2, <1>6, <2>1, <3>2, ConfirmOutcomes, GoToJob DEF JobSteps, Event
    <3> QED BY <1>6, <3>1, <3>2, ConfirmOutcomes
  <2>3. FailedWhenExhausted' /\ status' \in [Events -> {"PENDING", "PUBLISHED", "FAILED"}]
    BY <1>6, <2>1, ConfirmOutcomes, PublishKeeps DEF Rows, FailedWhenExhausted
  <2> QED BY <1>6, <2>2, <2>3, ConfirmOutcomes DEF DeliveryInv, Rows
<1>7. ASSUME NEW w \in Workers, FailAttempt(w) PROVE DeliveryInv'
  <2>1. Event(w) \in Events
    BY JobTypes
  <2>2. job' \in [Workers -> Job] /\ Sent'
    BY <1>2, <1>7, FailOutcomes, ProceedJob
  <2>3. /\ FailedWhenExhausted' /\ attempts' \in [Events -> 0..MaxAttempts]
        /\ status' \in [Events -> {"PENDING", "PUBLISHED", "FAILED"}]
    BY <1>7, <2>1, FailOutcomes, RefusalKeeps DEF Rows, FailedWhenExhausted
  <2> QED BY <2>2, <2>3 DEF DeliveryInv, Rows
<1> QED
  BY <1>1, <1>3, <1>4, <1>5, <1>6, <1>7, OutboxSteps

LEMMA DeliveryInvHolds == Spec => []DeliveryInv
  BY DeliveryInvInit, DeliveryInvStep, PTL DEF Spec

-----------------------------------------------------------------------------
\* The other types: a delay stays a number of seconds whatever its exponent.
World ==
    /\ wait \in [Events -> Nat]
    /\ line \subseteq External
    /\ account \in [Persons -> {"NONE", "ACTIVE", "DEACTIVATED"}]
    /\ notified \subseteq Events
    /\ sent \subseteq Events
    /\ calls \in [Events -> Nat]
    /\ crashes \in Nat

LEMMA BackoffType == \A n : Backoff(n) \in Nat
  BY DEF Backoff

\* What a worker may do to the rest: it settles or puts off one event, tells or calls.
Touches(e) ==
    /\ wait' = wait \/ \E n \in Nat : wait' = [wait EXCEPT ![e] = n]
    /\ notified' \in {notified, notified \cup {e}}
    /\ sent' \in {sent, sent \cup {e}}
    /\ calls' = calls \/ calls' = [calls EXCEPT ![e] = calls[e] + 1]
    /\ UNCHANGED <<line, account, crashes>>

LEMMA HandlersTouch ==
  ASSUME Rows, NEW w \in Workers, Deposit(w) \/ Send(w) \/ Confirm(w) \/ FailAttempt(w)
  PROVE  Touches(Event(w))
<1>1. CASE Deposit(w)
  <2>1. CASE UNCHANGED <<status, wait, notified>>
    BY <1>1, <2>1 DEF Deposit, Touches
  <2>2. CASE Settle(Event(w), "PUBLISHED") /\ notified' = notified \cup {Event(w)}
    BY <1>1, <2>2 DEF Deposit, Settle, Touches
  <2> QED BY <1>1, <2>1, <2>2 DEF Deposit
<1>2. CASE Send(w)
  BY <1>2 DEF Send, Touches
<1>3. CASE Confirm(w)
  <2>1. notified' \in {notified, notified \cup {Event(w)}}
    BY <1>3 DEF Confirm
  <2>2. UNCHANGED wait \/ Settle(Event(w), "PUBLISHED")
    BY <1>3 DEF Confirm
  <2>3. UNCHANGED <<line, account, sent, calls, crashes>>
    BY <1>3 DEF Confirm
  <2> QED BY <2>1, <2>2, <2>3 DEF Settle, Touches
<1>4. CASE FailAttempt(w)
  <2>1. \/ UNCHANGED wait
        \/ Settle(Event(w), "FAILED")
        \/ wait' = [wait EXCEPT ![Event(w)] = Backoff(job[w].row.attempts)]
    BY <1>4 DEF FailAttempt
  <2>2. UNCHANGED <<line, account, notified, sent, calls, crashes>>
    BY <1>4 DEF FailAttempt
  <2> QED BY <2>1, <2>2, BackoffType DEF Settle, Touches
<1> QED
  BY <1>1, <1>2, <1>3, <1>4

LEMMA WorldStep ==
  ASSUME Rows, World, [Next]_vars
  PROVE  World'
<1>1. CASE UNCHANGED vars
  BY <1>1 DEF World, vars
<1>2. CASE Tick
  BY <1>2 DEF World, Tick
<1>3. CASE (\E e \in Events : LoseLine(e)) \/ (\E p \in Persons : AccountTurns(p))
  BY <1>3 DEF World, LoseLine, AccountTurns
<1>4. ASSUME NEW w \in Workers, Drain(w) PROVE World'
  <2>1. \A B : World => Lease(B) \in [Events -> Nat]
    BY DEF Lease, World
  <2>2. \E B : wait' = Lease(B)
    BY <1>4 DEF Drain
  <2>3. UNCHANGED <<line, account, notified, sent, calls, crashes>>
    BY <1>4 DEF Drain
  <2> QED BY <2>1, <2>2, <2>3 DEF World
<1>5. ASSUME NEW w \in Workers, Choose(w) \/ Crash(w) PROVE World'
  <2>1. CASE Choose(w)
    BY <2>1 DEF World, Choose
  <2>2. CASE Crash(w)
    BY <2>2 DEF World, Crash
  <2> QED BY <1>5, <2>1, <2>2
<1>6. ASSUME NEW e \in Events, Touches(e) PROVE World'
  <2>1. wait' \in [Events -> Nat]
    BY <1>6 DEF World, Touches
  <2>2. calls' \in [Events -> Nat]
    BY <1>6 DEF World, Touches
  <2> QED BY <1>6, <2>1, <2>2 DEF World, Touches
<1>7. ASSUME NEW w \in Workers, Handle(w) PROVE World'
  BY <1>5, <1>6, <1>7, JobTypes, HandlersTouch DEF Handle
<1> QED
  BY <1>1, <1>2, <1>3, <1>4, <1>5, <1>7 DEF Next

-----------------------------------------------------------------------------
\* The bound on the paid calls.

\* The workers that have asked for a call on e and not yet said how it ended, and those that
\* may still ask for one.
Called(e) == {w \in Workers : job[w].step \in {"confirm", "confirm.plain", "fail"} /\ Event(w) = e}
MaySend(e) == {w \in Workers : \/ \E r \in job[w].todo : r.event = e
                               \/ job[w].step = "send" /\ Event(w) = e}

\* A worker holds an event once.
HoldsOnce(w) ==
    /\ \A r, s \in job[w].todo : r.event = s.event => r = s
    /\ job[w].step \notin {"idle", "drain"} => \A r \in job[w].todo : r.event # Event(w)

HeldOnce == \A w \in Workers : HoldsOnce(w)

\* Every call on a PENDING event is an attempt that was counted, the death of a worker, or a
\* call whose worker has not concluded; once the event is closed nobody takes it again, and
\* the workers that may still call are counted in advance.
Counted(e) ==
    IF status[e] = "PENDING"
    THEN calls[e] <= attempts[e] + crashes + Cardinality(Called(e))
    ELSE calls[e] + Cardinality(MaySend(e)) <= MaxAttempts + Cardinality(Workers) - 1 + crashes

CallsCounted == \A e \in Events : Counted(e)

CallsInv == DeliveryInv /\ World /\ HeldOnce /\ CallsCounted

\* What a step of w does to the count of e.
Stays(e) == UNCHANGED <<status[e], attempts[e], calls[e], crashes>>
Concludes(w, e) ==
    /\ UNCHANGED <<status[e], calls[e]>>
    /\ attempts'[e] + crashes' = attempts[e] + crashes + 1
    /\ crashes' \in {crashes, crashes + 1}
    /\ Called(e) \ {w} \subseteq Called(e)'
Calls(w, e) ==
    /\ UNCHANGED <<status[e], attempts[e], crashes>>
    /\ calls'[e] = calls[e] + 1
    /\ w \notin Called(e) /\ Called(e)' = Called(e) \cup {w}
    /\ w \in MaySend(e) /\ MaySend(e)' = MaySend(e) \ {w}
Closes(e) ==
    /\ status[e] = "PENDING" /\ status'[e] # "PENDING"
    /\ UNCHANGED <<calls[e], crashes>>

\* The sets of workers are finite, no larger than the pool, and disjoint.
LEMMA CountedSets ==
  ASSUME Rows, HeldOnce, NEW e \in Events
  PROVE  /\ IsFiniteSet(Called(e)) /\ Cardinality(Called(e)) \in Nat
         /\ IsFiniteSet(MaySend(e)) /\ Cardinality(MaySend(e)) \in Nat
         /\ Cardinality(Workers) \in Nat
         /\ Cardinality(Called(e)) + Cardinality(MaySend(e)) <= Cardinality(Workers)
<1>1. Called(e) \subseteq Workers /\ MaySend(e) \subseteq Workers
  BY DEF Called, MaySend
<1>2. Called(e) \cap MaySend(e) = {}
  BY DEF Called, MaySend, HeldOnce, HoldsOnce
<1> DEFINE A == Called(e)
           B == MaySend(e)
<1> HIDE DEF A, B
<1>3. A \subseteq Workers /\ B \subseteq Workers /\ A \cap B = {}
  BY <1>1, <1>2 DEF A, B
<1>4. IsFiniteSet(A) /\ IsFiniteSet(B) /\ IsFiniteSet(Workers)
  BY <1>3, PoolAssumption, FS_Subset
<1>5. Cardinality(A) \in Nat /\ Cardinality(B) \in Nat /\ Cardinality(Workers) \in Nat
  BY <1>4, FS_CardinalityType
<1>6. Cardinality(A \cap B) = 0
  BY <1>3, FS_EmptySet
<1>7. IsFiniteSet(A \cup B) /\ Cardinality(A \cup B) = Cardinality(A) + Cardinality(B)
  <2>1. /\ IsFiniteSet(A \cup B)
        /\ Cardinality(A \cup B) = Cardinality(A) + Cardinality(B) - Cardinality(A \cap B)
    BY <1>4, FS_Union
  <2> QED BY <1>5, <1>6, <2>1
<1>8. A \cup B \subseteq Workers
  BY <1>3
<1>9. Cardinality(A \cup B) <= Cardinality(Workers)
  BY <1>4, <1>8, FS_Subset
<1> QED
  BY <1>4, <1>5, <1>7, <1>9 DEF A, B

LEMMA SubsetCount ==
  ASSUME NEW S, NEW T, IsFiniteSet(T), S \subseteq T
  PROVE  IsFiniteSet(S) /\ Cardinality(S) \in Nat /\ Cardinality(T) \in Nat
         /\ Cardinality(S) <= Cardinality(T)
  BY FS_Subset, FS_CardinalityType

\* The count survives a step of one of these forms.
LEMMA CountKept ==
  ASSUME Rows, World, HeldOnce, Rows', World', HeldOnce', FailedWhenExhausted,
         NEW e \in Events, NEW w \in Workers, Counted(e),
         status[e] # "PENDING" => status'[e] # "PENDING",
         \/ /\ Stays(e)
            /\ Called(e) \subseteq Called(e)' \/ status[e] # "PENDING"
            /\ MaySend(e)' \subseteq MaySend(e) \/ status[e] = "PENDING"
         \/ Concludes(w, e) /\ MaySend(e)' \subseteq MaySend(e)
         \/ Calls(w, e)
         \/ Closes(e) /\ MaySend(e)' \subseteq MaySend(e)
  PROVE  Counted(e)'
<1> DEFINE C == Called(e)
           D == Called(e)'
           M == MaySend(e)
           N == MaySend(e)'
<1>1. /\ IsFiniteSet(C) /\ Cardinality(C) \in Nat /\ IsFiniteSet(M) /\ Cardinality(M) \in Nat
      /\ Cardinality(Workers) \in Nat /\ Cardinality(C) + Cardinality(M) <= Cardinality(Workers)
  BY CountedSets
<1>2. D \subseteq Workers /\ N \subseteq Workers
  BY DEF Called, MaySend
<1>3. IF status[e] = "PENDING" THEN calls[e] <= attempts[e] + crashes + Cardinality(C)
      ELSE calls[e] + Cardinality(M) <= MaxAttempts + Cardinality(Workers) - 1 + crashes
  BY DEF Counted
<1>4. SUFFICES IF status'[e] = "PENDING"
               THEN calls'[e] <= attempts'[e] + crashes' + Cardinality(D)
               ELSE calls'[e] + Cardinality(N) <= MaxAttempts + Cardinality(Workers) - 1 + crashes'
  BY DEF Counted
<1>5. /\ calls[e] \in Nat /\ calls'[e] \in Nat /\ attempts[e] \in 0..MaxAttempts
      /\ attempts'[e] \in 0..MaxAttempts /\ crashes \in Nat /\ crashes' \in Nat
  BY DEF Rows, World
<1>6. \/ /\ Stays(e) /\ (C \subseteq D \/ status[e] # "PENDING") /\ (N \subseteq M \/ status[e] = "PENDING")
      \/ /\ UNCHANGED <<status[e], calls[e]>> /\ attempts'[e] + crashes' = attempts[e] + crashes + 1
         /\ crashes' \in {crashes, crashes + 1} /\ C \ {w} \subseteq D /\ N \subseteq M
      \/ /\ UNCHANGED <<status[e], attempts[e], crashes>> /\ calls'[e] = calls[e] + 1
         /\ w \notin C /\ D = C \cup {w} /\ w \in M /\ N = M \ {w}
      \/ Closes(e) /\ N \subseteq M
  BY DEF Concludes, Calls
<1> HIDE DEF C, D, M, N
<1>7. IsFiniteSet(D) /\ IsFiniteSet(N) /\ Cardinality(D) \in Nat /\ Cardinality(N) \in Nat
  BY <1>2, PoolAssumption, SubsetCount
<1>8. CASE /\ Stays(e) /\ (C \subseteq D \/ status[e] # "PENDING")
           /\ (N \subseteq M \/ status[e] = "PENDING")
  <2>1. CASE status[e] = "PENDING"
    <3>1. Cardinality(C) <= Cardinality(D)
      BY <1>7, <1>8, <2>1, SubsetCount
    <3> QED BY <1>1, <1>3, <1>5, <1>7, <1>8, <2>1, <3>1 DEF Stays
  <2>2. CASE status[e] # "PENDING"
    <3>1. Cardinality(N) <= Cardinality(M)
      BY <1>1, <1>8, <2>2, SubsetCount
    <3> QED BY <1>1, <1>3, <1>5, <1>7, <1>8, <2>2, <3>1 DEF Stays
  <2> QED BY <2>1, <2>2
<1>9. CASE /\ UNCHANGED <<status[e], calls[e]>> /\ attempts'[e] + crashes' = attempts[e] + crashes + 1
           /\ crashes' \in {crashes, crashes + 1} /\ C \ {w} \subseteq D /\ N \subseteq M
  <2>1. C \subseteq D \cup {w}
    BY <1>9
  <2>2. \A x : IsFiniteSet(D \cup {x}) /\ (Cardinality(D \cup {x}) = Cardinality(D) + 1
                                          \/ Cardinality(D \cup {x}) = Cardinality(D))
    BY <1>7, FS_AddElement
  <2>3. Cardinality(C) <= Cardinality(D) + 1
    <3>1. IsFiniteSet(D \cup {w}) /\ Cardinality(D \cup {w}) <= Cardinality(D) + 1
      <4>1. IsFiniteSet(D \cup {w}) /\ (Cardinality(D \cup {w}) = Cardinality(D) + 1
                                       \/ Cardinality(D \cup {w}) = Cardinality(D))
        BY <2>2
      <4> QED BY <1>7, <4>1
    <3>2. Cardinality(C) <= Cardinality(D \cup {w}) /\ Cardinality(D \cup {w}) \in Nat
      BY <2>1, <3>1, SubsetCount
    <3> QED BY <1>1, <1>7, <3>1, <3>2
  <2>4. Cardinality(N) <= Cardinality(M)
    BY <1>1, <1>9, SubsetCount
  <2>5. CASE status[e] = "PENDING"
    BY <1>1, <1>3, <1>5, <1>7, <1>9, <2>3, <2>5
  <2>6. CASE status[e] # "PENDING"
    BY <1>1, <1>3, <1>5, <1>7, <1>9, <2>4, <2>6
  <2> QED BY <2>5, <2>6
<1>10. CASE /\ UNCHANGED <<status[e], attempts[e], crashes>> /\ calls'[e] = calls[e] + 1
            /\ w \notin C /\ D = C \cup {w} /\ w \in M /\ N = M \ {w}
  <2>1. Cardinality(D) = Cardinality(C) + 1
    BY <1>1, <1>10, FS_AddElement
  <2>2. Cardinality(N) = Cardinality(M) - 1
    BY <1>1, <1>10, FS_RemoveElement
  <2>3. CASE status[e] = "PENDING"
    BY <1>1, <1>3, <1>5, <1>7, <1>10, <2>1, <2>3
  <2>4. CASE status[e] # "PENDING"
    BY <1>1, <1>3, <1>5, <1>7, <1>10, <2>2, <2>4
  <2> QED BY <2>3, <2>4
<1>11. CASE Closes(e) /\ N \subseteq M
  <2>1. Cardinality(N) <= Cardinality(M)
    BY <1>1, <1>11, SubsetCount
  <2>2. attempts[e] <= MaxAttempts - 1
    BY <1>5, <1>11 DEF Closes, FailedWhenExhausted
  <2>3. status[e] = "PENDING" /\ status'[e] # "PENDING" /\ calls'[e] = calls[e] /\ crashes' = crashes
    BY <1>11 DEF Closes
  <2> QED BY <1>1, <1>3, <1>5, <1>7, <2>1, <2>2, <2>3
<1> QED
  BY <1>6, <1>8, <1>9, <1>10, <1>11

\* The other workers hold what they held.
OthersStay(w) == \A v \in Workers \ {w} : job'[v] = job[v]

LEMMA OthersCounted ==
  ASSUME NEW w \in Workers, OthersStay(w), NEW e \in Events
  PROVE  /\ Called(e) \ {w} = Called(e)' \ {w} /\ MaySend(e) \ {w} = MaySend(e)' \ {w}
         /\ \A v \in Workers \ {w} : HoldsOnce(v) => HoldsOnce(v)'
  BY DEF OthersStay, Called, MaySend, HoldsOnce, Event

\* The end of a row keeps what is left of the batch.
LEMMA ProceedKeeps ==
  ASSUME Rows, NEW w \in Workers, Proceed(w)
  PROVE  /\ OthersStay(w) /\ job'[w].todo = job[w].todo /\ job'[w].step \in {"idle", "drain"}
<1>1. [Idle EXCEPT !.step = "drain", !.todo = job[w].todo].step = "drain"
      /\ [Idle EXCEPT !.step = "drain", !.todo = job[w].todo].todo = job[w].todo
  BY IdleType DEF Job
<1>2. Idle.todo = {} /\ Idle.step = "idle"
  BY DEF Idle
<1>3. job'[w] = IF job[w].todo = {} THEN Idle
                ELSE [Idle EXCEPT !.step = "drain", !.todo = job[w].todo]
  BY DEF Proceed, Rows
<1>4. OthersStay(w)
  BY DEF Proceed, Rows, OthersStay
<1> QED
  BY <1>1, <1>2, <1>3, <1>4

LEMMA GoToKeeps ==
  ASSUME Rows, NEW w \in Workers, NEW s \in JobSteps, GoTo(w, s)
  PROVE  /\ OthersStay(w) /\ job'[w].todo = job[w].todo
         /\ job'[w].step = s /\ job'[w].row = job[w].row
<1>1. [job[w] EXCEPT !.step = s].todo = job[w].todo
  BY JobTypes DEF Job
<1> QED
  BY <1>1, GoToJob DEF OthersStay, GoTo, Rows

\* A batch has one row for each event.
LEMMA DrainKeeps ==
  ASSUME Rows, NEW w \in Workers, Drain(w)
  PROVE  /\ OthersStay(w) /\ HoldsOnce(w)' /\ job[w].step = "idle" /\ job'[w].step = "drain"
         /\ \A r \in job'[w].todo : status[r.event] = "PENDING"
         /\ UNCHANGED <<status, attempts, calls, crashes>>
<1> DEFINE batch == {e \in {d \in Events : status[d] = "PENDING" /\ wait[d] = 0} :
                Cardinality({d \in {b \in Events : status[b] = "PENDING" /\ wait[b] = 0} : d < e})
                  < BatchSize}
           todo == {[event |-> e, attempts |-> attempts[e]] : e \in batch}
<1>1. job' = [job EXCEPT ![w].step = "drain", ![w].todo = todo]
      /\ UNCHANGED <<status, attempts, calls, crashes>> /\ job[w].step = "idle"
  BY DEF Drain
<1>2. \A e \in batch : status[e] = "PENDING"
  OBVIOUS
<1> HIDE DEF batch
<1>3. \A r \in todo : status[r.event] = "PENDING" /\ r = [event |-> r.event, attempts |-> attempts[r.event]]
  BY <1>2
<1> HIDE DEF todo
<1>4. /\ [job[w] EXCEPT !.step = "drain", !.todo = todo].step = "drain"
      /\ [job[w] EXCEPT !.step = "drain", !.todo = todo].todo = todo
  BY JobTypes DEF Job
<1>5. job'[w] = [job[w] EXCEPT !.step = "drain", !.todo = todo]
  BY <1>1 DEF Rows
<1>6. OthersStay(w)
  BY <1>1 DEF Rows, OthersStay
<1>7. job'[w].step = "drain" /\ job'[w].todo = todo
  BY <1>4, <1>5
<1>8. HoldsOnce(w)'
  BY <1>3, <1>7 DEF HoldsOnce
<1> QED
  BY <1>1, <1>3, <1>6, <1>7, <1>8

LEMMA ChooseKeeps ==
  ASSUME Rows, NEW w \in Workers, Choose(w), HoldsOnce(w)
  PROVE  /\ OthersStay(w) /\ HoldsOnce(w)' /\ job[w].step = "drain"
         /\ job'[w].todo \subseteq job[w].todo
         /\ job'[w].row \in job[w].todo
         /\ UNCHANGED <<status, attempts, calls, crashes>>
<1>1. PICK r \in job[w].todo, s \in {"send", "deposit", "fail"} :
          job' = [job EXCEPT ![w] = [step |-> s, todo |-> job[w].todo \ {r}, row |-> r]]
  BY DEF Choose
<1>2. job'[w] = [step |-> s, todo |-> job[w].todo \ {r}, row |-> r] /\ OthersStay(w)
  BY <1>1 DEF Rows, OthersStay
<1>3. job'[w].todo = job[w].todo \ {r} /\ job'[w].row = r
  BY <1>2
<1>4. HoldsOnce(w)'
  BY <1>3 DEF HoldsOnce, Event
<1> QED
  BY <1>2, <1>3, <1>4 DEF Choose

LEMMA CrashKeeps ==
  ASSUME Rows, NEW w \in Workers, Crash(w)
  PROVE  /\ OthersStay(w) /\ job'[w].todo = {} /\ job'[w].step = "idle"
         /\ crashes' = crashes + 1 /\ UNCHANGED <<status, attempts, calls>>
<1>1. job'[w] = Idle /\ OthersStay(w)
  BY DEF Crash, Rows, OthersStay
<1>2. Idle.todo = {} /\ Idle.step = "idle"
  BY DEF Idle
<1> QED
  BY <1>1, <1>2 DEF Crash

\* A handler that keeps the rest of the batch keeps each event held once.
LEMMA HoldsOnceKept ==
  ASSUME NEW w \in Workers, HoldsOnce(w), job'[w].todo = job[w].todo,
         \/ job'[w].step \in {"idle", "drain"}
         \/ job[w].step \notin {"idle", "drain"} /\ job'[w].row = job[w].row
  PROVE  HoldsOnce(w)'
  BY DEF HoldsOnce, Event

\* What holds before a step, and the types after it.
Around == Rows /\ World /\ HeldOnce /\ FailedWhenExhausted /\ CallsCounted /\ Rows' /\ World'

\* It is enough to count each event after the step of a worker that still holds events once.
LEMMA OneWorkerCounts ==
  ASSUME Around, NEW w \in Workers, OthersStay(w), HoldsOnce(w)',
         \A e \in Events : status[e] # "PENDING" => status'[e] # "PENDING",
         \A e \in Events :
            \/ /\ Stays(e)
               /\ w \in Called(e) => w \in Called(e)' \/ status[e] # "PENDING"
               /\ w \in MaySend(e)' => w \in MaySend(e) \/ status[e] = "PENDING"
            \/ Concludes(w, e) /\ (w \in MaySend(e)' => w \in MaySend(e))
            \/ Calls(w, e)
            \/ Closes(e) /\ (w \in MaySend(e)' => w \in MaySend(e))
  PROVE  HeldOnce' /\ CallsCounted'
<1>1. HeldOnce'
  BY OthersCounted DEF Around, HeldOnce
<1>2. ASSUME NEW e \in Events PROVE Counted(e)'
  <2>1. Called(e) \ {w} = Called(e)' \ {w} /\ MaySend(e) \ {w} = MaySend(e)' \ {w}
    BY OthersCounted
  <2>2. (w \in MaySend(e)' => w \in MaySend(e)) => MaySend(e)' \subseteq MaySend(e)
    BY <2>1
  <2>3. (w \in Called(e) => w \in Called(e)') => Called(e) \subseteq Called(e)'
    BY <2>1
  <2>4. \/ /\ Stays(e)
           /\ Called(e) \subseteq Called(e)' \/ status[e] # "PENDING"
           /\ MaySend(e)' \subseteq MaySend(e) \/ status[e] = "PENDING"
        \/ Concludes(w, e) /\ MaySend(e)' \subseteq MaySend(e)
        \/ Calls(w, e)
        \/ Closes(e) /\ MaySend(e)' \subseteq MaySend(e)
    BY <2>2, <2>3
  <2>5. Counted(e) /\ (status[e] # "PENDING" => status'[e] # "PENDING")
    BY DEF Around, CallsCounted
  <2> QED BY <1>1, <2>4, <2>5, CountKept DEF Around
<1> QED
  BY <1>1, <1>2 DEF CallsCounted

\* Who is counted, seen from the job of a worker.
LEMMA InSets ==
  ASSUME NEW w \in Workers, NEW e \in Events
  PROVE  /\ w \in Called(e) <=> job[w].step \in {"confirm", "confirm.plain", "fail"} /\ Event(w) = e
         /\ w \in Called(e)' <=> job'[w].step \in {"confirm", "confirm.plain", "fail"}
                                 /\ job'[w].row.event = e
         /\ w \in MaySend(e) <=> \/ \E r \in job[w].todo : r.event = e
                                 \/ job[w].step = "send" /\ Event(w) = e
         /\ w \in MaySend(e)' <=> \/ \E r \in job'[w].todo : r.event = e
                                  \/ job'[w].step = "send" /\ job'[w].row.event = e
  BY DEF Called, MaySend, Event

LEMMA BatchCounts ==
  ASSUME Around, NEW w \in Workers, Drain(w) \/ Choose(w) \/ Crash(w)
  PROVE  HeldOnce' /\ CallsCounted'
<1>0. Rows /\ HoldsOnce(w)
  BY DEF Around, HeldOnce
<1>1. CASE Drain(w)
  <2>1. \A e \in Events : w \notin Called(e)
    BY <1>0, <1>1, DrainKeeps, InSets
  <2>2. \A e \in Events : w \in MaySend(e)' => status[e] = "PENDING"
    BY <1>0, <1>1, DrainKeeps, InSets
  <2> QED BY <1>0, <1>1, <2>1, <2>2, DrainKeeps, OneWorkerCounts DEF Stays
<1>2. CASE Choose(w)
  <2>1. \A e \in Events : w \notin Called(e)
    BY <1>0, <1>2, ChooseKeeps, InSets
  <2>2. \A e \in Events : w \in MaySend(e)' => w \in MaySend(e)
    BY <1>0, <1>2, ChooseKeeps, InSets
  <2> QED BY <1>0, <1>2, <2>1, <2>2, ChooseKeeps, OneWorkerCounts DEF Stays
<1>3. CASE Crash(w)
  <2>1. HoldsOnce(w)'
    BY <1>0, <1>3, CrashKeeps DEF HoldsOnce
  <2>2. \A e \in Events : w \notin MaySend(e)'
    BY <1>0, <1>3, CrashKeeps, InSets
  <2>3. \A e \in Events : Called(e) \ {w} \subseteq Called(e)'
    BY <1>0, <1>3, CrashKeeps, OthersCounted
  <2>4. \A e \in Events : Concludes(w, e)
    BY <1>0, <1>3, <2>3, CrashKeeps DEF Concludes, Around, Rows, World
  <2> QED BY <1>0, <1>3, <2>1, <2>2, <2>4, CrashKeeps, OneWorkerCounts
<1> QED
  BY <1>1, <1>2, <1>3

LEMMA DepositCounts ==
  ASSUME Around, NEW w \in Workers, Deposit(w)
  PROVE  HeldOnce' /\ CallsCounted'
<1>0. Rows /\ HoldsOnce(w) /\ job[w].step = "deposit"
  BY DEF Around, HeldOnce, Deposit
<1>1. /\ OthersStay(w) /\ job'[w].todo = job[w].todo /\ job'[w].step # "send"
      /\ job'[w].step \in {"idle", "drain"} \/ job'[w].row = job[w].row
  BY <1>0, DepositOutcomes, ProceedKeeps, GoToKeeps DEF JobSteps
<1>2. HoldsOnce(w)'
  BY <1>0, <1>1, HoldsOnceKept
<1>3. \A e \in Events : w \notin Called(e) /\ (w \in MaySend(e)' => w \in MaySend(e))
  BY <1>0, <1>1, InSets
<1>4. UNCHANGED <<attempts, calls, crashes>>
  BY DEF Deposit
<1>5. \A e \in Events : \/ UNCHANGED status[e]
                        \/ status[e] = "PENDING" /\ status'[e] = "PUBLISHED"
  BY <1>0, DepositOutcomes, JobTypes DEF Rows
<1>6. \A e \in Events : Stays(e) \/ Closes(e)
  BY <1>4, <1>5 DEF Stays, Closes
<1> QED
  BY <1>1, <1>2, <1>3, <1>5, <1>6, OneWorkerCounts

LEMMA SendCounts ==
  ASSUME Around, NEW w \in Workers, Send(w)
  PROVE  HeldOnce' /\ CallsCounted'
<1>0. Rows /\ World /\ HoldsOnce(w) /\ job[w].step = "send" /\ Event(w) \in Events
  BY JobTypes DEF Around, HeldOnce, Send
<1>1. /\ OthersStay(w) /\ job'[w].todo = job[w].todo /\ job'[w].step \in {"confirm", "fail"}
      /\ job'[w].row = job[w].row
  BY <1>0, SendOutcomes, GoToKeeps DEF JobSteps
<1>2. HoldsOnce(w)'
  BY <1>0, <1>1, HoldsOnceKept
<1>3. UNCHANGED <<status, attempts, crashes>> /\ calls' = [calls EXCEPT ![Event(w)] = @ + 1]
  BY DEF Send
<1>4. ASSUME NEW e \in Events, e # Event(w)
      PROVE  Stays(e) /\ w \notin Called(e) /\ (w \in MaySend(e)' => w \in MaySend(e))
  <2>1. w \notin Called(e) /\ (w \in MaySend(e)' => w \in MaySend(e))
    BY <1>0, <1>1, <1>4, InSets
  <2> QED BY <1>0, <1>3, <1>4, <2>1 DEF Stays, World
<1>5. ASSUME NEW e \in Events, e = Event(w) PROVE Calls(w, e)
  <2>1. w \notin Called(e) /\ w \in Called(e)' /\ w \in MaySend(e)
    <3>1. job'[w].row.event = e
      BY <1>1, <1>5 DEF Event
    <3> QED BY <1>0, <1>1, <1>5, <3>1, InSets
  <2>2. w \notin MaySend(e)'
    <3>1. \A r \in job[w].todo : r.event # e
      BY <1>0, <1>5 DEF HoldsOnce
    <3> QED BY <1>0, <1>1, <3>1, InSets
  <2>3. Called(e) \ {w} = Called(e)' \ {w} /\ MaySend(e) \ {w} = MaySend(e)' \ {w}
    BY <1>1, OthersCounted
  <2>4. Called(e)' = Called(e) \cup {w} /\ MaySend(e)' = MaySend(e) \ {w}
    BY <2>1, <2>2, <2>3
  <2>5. calls'[e] = calls[e] + 1
    BY <1>0, <1>3, <1>5 DEF World
  <2> QED BY <1>3, <2>1, <2>4, <2>5 DEF Calls
<1> QED
  BY <1>1, <1>2, <1>3, <1>4, <1>5, OneWorkerCounts

LEMMA ConfirmCounts ==
  ASSUME Around, NEW w \in Workers, Confirm(w)
  PROVE  HeldOnce' /\ CallsCounted'
<1>0. Rows /\ HoldsOnce(w) /\ job[w].step \in {"confirm", "confirm.plain"}
  BY DEF Around, HeldOnce, Confirm
<1>1. UNCHANGED <<attempts, calls, crashes>>
  BY DEF Confirm
<1>2. CASE GoTo(w, "confirm.plain") /\ UNCHANGED status
  <2>1. /\ OthersStay(w) /\ job'[w].todo = job[w].todo /\ job'[w].step = "confirm.plain"
        /\ job'[w].row = job[w].row
    BY <1>0, <1>2, GoToKeeps DEF JobSteps
  <2>2. HoldsOnce(w)'
    BY <1>0, <2>1, HoldsOnceKept
  <2>3. \A e \in Events : /\ w \in Called(e) => w \in Called(e)'
                          /\ w \in MaySend(e)' => w \in MaySend(e)
    BY <1>0, <2>1, InSets DEF Event
  <2>4. \A e \in Events : Stays(e)
    BY <1>1, <1>2 DEF Stays
  <2> QED BY <1>2, <2>1, <2>2, <2>3, <2>4, OneWorkerCounts
<1>3. CASE /\ Proceed(w)
           /\ IF status[Event(w)] = "PENDING" THEN Settle(Event(w), "PUBLISHED")
              ELSE UNCHANGED <<status, wait>>
  <2>1. OthersStay(w) /\ job'[w].todo = job[w].todo /\ job'[w].step \in {"idle", "drain"}
    BY <1>0, <1>3, ProceedKeeps
  <2>2. HoldsOnce(w)'
    BY <1>0, <2>1, HoldsOnceKept
  <2>3. \A e \in Events : w \in MaySend(e)' => w \in MaySend(e)
    BY <1>0, <2>1, InSets
  <2>4. \A e \in Events : e # Event(w) => w \notin Called(e) /\ Stays(e)
    BY <1>0, <1>1, <1>3, InSets DEF Settle, Rows, Stays
  <2>5. \A e \in Events : e = Event(w) /\ status[e] = "PENDING" => Closes(e)
    BY <1>0, <1>1, <1>3 DEF Settle, Rows, Closes
  <2>6. \A e \in Events : e = Event(w) /\ status[e] # "PENDING" => Stays(e) /\ UNCHANGED status[e]
    BY <1>1, <1>3 DEF Stays
  <2>7. \A e \in Events : status[e] # "PENDING" => status'[e] # "PENDING"
    BY <2>4, <2>6 DEF Stays
  <2> QED BY <2>1, <2>2, <2>3, <2>4, <2>5, <2>6, <2>7, OneWorkerCounts
<1> QED
  BY <1>2, <1>3 DEF Confirm

LEMMA FailCounts ==
  ASSUME Around, NEW w \in Workers, FailAttempt(w)
  PROVE  HeldOnce' /\ CallsCounted'
<1>0. Rows /\ World /\ HoldsOnce(w) /\ job[w].step = "fail"
  BY DEF Around, HeldOnce, FailAttempt
<1>1. UNCHANGED <<calls, crashes>>
  BY DEF FailAttempt
<1>2. OthersStay(w) /\ job'[w].todo = job[w].todo /\ job'[w].step \in {"idle", "drain"}
  BY <1>0, FailOutcomes, ProceedKeeps
<1>3. HoldsOnce(w)'
  BY <1>0, <1>2, HoldsOnceKept
<1>4. \A e \in Events : w \in MaySend(e)' => w \in MaySend(e)
  BY <1>0, <1>2, InSets
<1>5. ASSUME NEW e \in Events, e # Event(w) PROVE w \notin Called(e) /\ Stays(e)
  <2>1. w \notin Called(e)
    BY <1>0, <1>5, InSets
  <2>2. UNCHANGED <<status[e], attempts[e]>>
    BY <1>0, <1>5, FailOutcomes DEF Rows
  <2> QED BY <1>1, <2>1, <2>2 DEF Stays
<1>6. ASSUME NEW e \in Events, e = Event(w), status[e] # "PENDING" PROVE Stays(e)
  BY <1>0, <1>1, <1>6, FailOutcomes DEF Stays
<1>7. ASSUME NEW e \in Events, e = Event(w), status[e] = "PENDING"
      PROVE  Closes(e) \/ Concludes(w, e)
  <2>1. /\ attempts' = [attempts EXCEPT ![e] = @ + 1]
        /\ IF attempts[e] + 1 >= MaxAttempts THEN Settle(e, "FAILED") ELSE UNCHANGED status
    BY <1>7 DEF FailAttempt
  <2>2. /\ attempts'[e] = attempts[e] + 1
        /\ status'[e] = IF attempts[e] + 1 >= MaxAttempts THEN "FAILED" ELSE "PENDING"
    BY <1>0, <1>7, <2>1 DEF Rows, Settle
  <2>3. CASE status'[e] = "FAILED"
    BY <1>1, <1>7, <2>3 DEF Closes
  <2>4. CASE status'[e] = "PENDING"
    <3>1. Called(e) \ {w} \subseteq Called(e)'
      BY <1>2, OthersCounted
    <3>2. attempts'[e] + crashes' = attempts[e] + crashes + 1
      BY <1>0, <1>1, <2>2 DEF Rows, World
    <3> QED BY <1>1, <1>7, <2>4, <3>1, <3>2 DEF Concludes
  <2> QED BY <2>2, <2>3, <2>4
<1>8. \A e \in Events : status[e] # "PENDING" => status'[e] # "PENDING"
  BY <1>5, <1>6 DEF Stays
<1> QED
  BY <1>2, <1>3, <1>4, <1>5, <1>6, <1>7, <1>8, OneWorkerCounts

LEMMA CallsInvInit == Init => CallsInv
<1> SUFFICES ASSUME Init PROVE CallsInv
  OBVIOUS
<1>1. World
  BY DEF Init, World
<1>2. HeldOnce
  BY IdleType DEF Init, HeldOnce, HoldsOnce, Idle
<1>3. DeliveryInv
  BY DeliveryInvInit
<1>4. ASSUME NEW e \in Events PROVE Counted(e)
  <2>1. /\ status[e] = "PENDING" /\ calls[e] = 0 /\ attempts[e] = 0 /\ crashes = 0
    BY DEF Init
  <2>2. Cardinality(Called(e)) \in Nat
    BY <1>2, <1>3, CountedSets DEF DeliveryInv
  <2> QED BY <2>1, <2>2 DEF Counted
<1> QED
  BY <1>1, <1>2, <1>3, <1>4 DEF CallsInv, CallsCounted

LEMMA CallsInvStep == CallsInv /\ [Next]_vars => CallsInv'
<1> SUFFICES ASSUME CallsInv, [Next]_vars PROVE CallsInv'
  OBVIOUS
<1>1. DeliveryInv' /\ World'
  BY DeliveryInvStep, WorldStep DEF CallsInv, DeliveryInv
<1>2. Around
  BY <1>1 DEF CallsInv, DeliveryInv, Around
<1>3. CASE UNCHANGED <<status, attempts, calls, crashes, job>>
  <2>1. HeldOnce'
    BY <1>3 DEF CallsInv, HeldOnce, HoldsOnce, Event
  <2>2. ASSUME NEW e \in Events PROVE Counted(e)'
    <3>1. Called(e)' = Called(e) /\ MaySend(e)' = MaySend(e)
      BY <1>3 DEF Called, MaySend, Event
    <3> QED BY <1>3, <3>1 DEF CallsInv, CallsCounted, Counted
  <2> QED BY <1>1, <2>1, <2>2 DEF CallsInv, CallsCounted
<1>4. ASSUME NEW w \in Workers, Drain(w) \/ Handle(w) \/ Crash(w) PROVE HeldOnce' /\ CallsCounted'
  BY <1>2, <1>4, BatchCounts, DepositCounts, SendCounts, ConfirmCounts, FailCounts DEF Handle
<1>5. \/ UNCHANGED <<status, attempts, calls, crashes, job>>
      \/ \E w \in Workers : Drain(w) \/ Handle(w) \/ Crash(w)
  BY DEF Next, vars, Tick, LoseLine, AccountTurns
<1> QED
  BY <1>1, <1>3, <1>4, <1>5 DEF CallsInv

-----------------------------------------------------------------------------
\* The theorems.

\* Every variable keeps its type, in particular no event has more failed attempts than
\* MaxAttempts, and no delay leaves the natural numbers.
THEOREM TypeCorrect == Spec => []TypeOK
<1>1. Init => World
  BY DEF Init, World
<1>2. DeliveryInv /\ World /\ [Next]_vars => World'
  BY WorldStep DEF DeliveryInv
<1>3. DeliveryInv /\ World => TypeOK
  BY DEF DeliveryInv, Rows, World, TypeOK
<1> QED
  BY <1>1, <1>2, <1>3, DeliveryInvHolds, PTL DEF Spec

\* An event is FAILED exactly when all its attempts were used, however many workers hold it
\* (fail_outbox_attempt).
THEOREM FailureIsExhaustion == Spec => []FailedWhenExhausted
<1>1. DeliveryInv => FailedWhenExhausted
  BY DEF DeliveryInv
<1> QED
  BY <1>1, DeliveryInvHolds, PTL

\* The paid channel is called at most MaxAttempts times for an event, once more for each other
\* worker that still held it and for each worker that died (publisher-config's ceiling, as
\* drain, claim_outbox_batch and fail_outbox_attempt keep it).
THEOREM PaidCallsAreBounded == Spec => []PaidChannelBounded
<1>1. ASSUME CallsInv, NEW e \in Events
      PROVE  calls[e] <= MaxAttempts + Cardinality(Workers) - 1 + crashes
  <2>1. /\ Cardinality(Called(e)) \in Nat /\ Cardinality(MaySend(e)) \in Nat
        /\ Cardinality(Workers) \in Nat
        /\ Cardinality(Called(e)) + Cardinality(MaySend(e)) <= Cardinality(Workers)
    BY <1>1, CountedSets DEF CallsInv, DeliveryInv
  <2>2. calls[e] \in Nat /\ crashes \in Nat /\ attempts[e] \in 0..MaxAttempts
    BY <1>1 DEF CallsInv, DeliveryInv, Rows, World
  <2>3. Counted(e)
    BY <1>1 DEF CallsInv, CallsCounted
  <2>4. CASE status[e] = "PENDING"
    <3>1. attempts[e] # MaxAttempts
      BY <1>1, <2>4 DEF CallsInv, DeliveryInv, FailedWhenExhausted
    <3> QED BY <2>1, <2>2, <2>3, <2>4, <3>1 DEF Counted
  <2>5. CASE status[e] # "PENDING"
    BY <2>1, <2>2, <2>3, <2>5 DEF Counted
  <2> QED BY <2>4, <2>5
<1>2. CallsInv => PaidChannelBounded
  BY <1>1 DEF PaidChannelBounded
<1> QED
  BY <1>2, CallsInvInit, CallsInvStep, PTL DEF Spec

\* The initial rows are events owed to their persons.
LEMMA DeliveryInit == Init => Delivery!Init
  BY DEF Init, Fate, Delivery!Init

\* Every step tells, refuses or reaches, or changes nothing of what was promised.
LEMMA DeliveryStep ==
  DeliveryInv /\ [Next]_vars => [Delivery!Next]_(Delivery!deliveryVars)
<1> SUFFICES ASSUME Rows, Sent, FailedWhenExhausted, [Next]_vars
             PROVE  [Delivery!Next]_(Delivery!deliveryVars)
  BY DEF DeliveryInv
<1> USE DEF Delivery!Next, Delivery!deliveryVars
<1>1. ASSUME UNCHANGED <<status, attempts, notified, sent>> PROVE UNCHANGED Delivery!deliveryVars
  BY <1>1 DEF Fate
<1>2. ASSUME NEW e \in Events, status[e] = "PENDING",
             status' = [status EXCEPT ![e] = "PUBLISHED"], attempts' = attempts,
             (notified \cup sent)' = (notified \cup sent) \cup {e}
      PROVE  Delivery!Tell(e)
  BY <1>2 DEF Delivery!Tell, Rows, Fate
<1>3. ASSUME NEW w \in Workers, Deposit(w) PROVE [Delivery!Next]_(Delivery!deliveryVars)
  BY <1>1, <1>2, <1>3, DepositOutcomes, JobTypes
<1>4. ASSUME NEW w \in Workers, Confirm(w) PROVE [Delivery!Next]_(Delivery!deliveryVars)
  <2>1. PICK e \in Events : e = Event(w) /\ e \in sent
    BY <1>4, ConfirmOutcomes, JobTypes DEF Sent
  <2>2. CASE UNCHANGED <<status, notified>>
    BY <1>1, <1>4, <2>2, ConfirmOutcomes
  <2>3. CASE /\ status[e] = "PENDING"
             /\ status' = [status EXCEPT ![e] = "PUBLISHED"]
             /\ notified' \in {notified, notified \cup {e}}
    <3>1. UNCHANGED <<attempts, sent>>
      BY <1>4, ConfirmOutcomes
    <3>2. (notified \cup sent)' = (notified \cup sent) \cup {e}
      BY <2>1, <2>3, <3>1
    <3>3. Delivery!Tell(e)
      BY <1>2, <2>1, <2>3, <3>1, <3>2
    <3> QED BY <2>1, <3>3
  <2> QED BY <1>4, <2>1, <2>2, <2>3, ConfirmOutcomes
<1>5. ASSUME NEW w \in Workers, Send(w) PROVE [Delivery!Next]_(Delivery!deliveryVars)
  <2>1. CASE sent' = sent
    BY <1>1, <1>5, <2>1, SendOutcomes
  <2>2. CASE sent' = sent \cup {Event(w)}
    <3>1. UNCHANGED <<status, attempts, notified>>
      BY <1>5, SendOutcomes
    <3>2. (notified \cup sent)' = (notified \cup sent) \cup {Event(w)}
      BY <2>2, <3>1
    <3>3. Delivery!Reach(Event(w))
      BY <3>1, <3>2 DEF Delivery!Reach, Fate
    <3> QED BY <3>3, JobTypes
  <2> QED BY <1>5, <2>1, <2>2, SendOutcomes
<1>6. ASSUME NEW w \in Workers, FailAttempt(w) PROVE [Delivery!Next]_(Delivery!deliveryVars)
  <2>0. PICK e \in Events : e = Event(w)
    BY JobTypes
  <2>1. CASE UNCHANGED <<status, attempts>>
    BY <1>1, <1>6, <2>1, FailOutcomes
  <2>2. CASE /\ status[e] = "PENDING"
             /\ attempts' = [attempts EXCEPT ![e] = @ + 1]
             /\ status' = [status EXCEPT ![e] =
                              IF attempts[e] + 1 >= MaxAttempts THEN "FAILED" ELSE @]
    <3>1. attempts[e] \in 0..MaxAttempts /\ attempts[e] # MaxAttempts /\ attempts'[e] = attempts[e] + 1
      BY <2>0, <2>2 DEF Rows, FailedWhenExhausted
    <3>2. attempts[e] + 1 >= MaxAttempts <=> attempts'[e] = MaxAttempts
      BY <3>1
    <3>3. (notified \cup sent)' = notified \cup sent
      BY <1>6, FailOutcomes
    <3>4. status[e] = "PENDING" /\ \A d \in Events : status[d] \in {"PENDING", "PUBLISHED", "FAILED"}
      BY <2>2 DEF Rows
    <3>5. Fate[e] = "owed"
      BY <2>0, <3>4 DEF Fate
    <3>6. CASE attempts'[e] = MaxAttempts
      <4>1. \A d \in Events : status'[d] = IF d = e THEN "FAILED" ELSE status[d]
        BY <2>2, <3>2, <3>6 DEF Rows
      <4>2. Fate' = [Fate EXCEPT ![e] = "given up"]
        BY <2>0, <3>4, <4>1 DEF Fate
      <4>3. Delivery!Refuse(e)
        BY <2>2, <3>3, <3>6, <3>5, <4>2 DEF Delivery!Refuse
      <4> QED BY <2>0, <4>3
    <3>7. CASE attempts'[e] # MaxAttempts
      <4>1. \A d \in Events : status'[d] = status[d]
        BY <2>0, <2>2, <3>2, <3>7 DEF Rows
      <4>2. Fate' = Fate
        BY <2>0, <3>4, <4>1 DEF Fate
      <4>3. Delivery!Refuse(e)
        BY <2>2, <3>3, <3>7, <3>5, <4>2 DEF Delivery!Refuse
      <4> QED BY <2>0, <4>3
    <3> QED BY <3>6, <3>7
  <2> QED BY <1>6, <2>0, <2>1, <2>2, FailOutcomes
<1> QED
  BY <1>1, <1>3, <1>4, <1>5, <1>6, OutboxSteps DEF Quiet

\* The publisher keeps the promise of the outbox: told at least once, or given up after
\* MaxAttempts refusals (OutboxPublisher.drain over 018).
THEOREM PublisherDelivers == Spec => ImplementsDelivery
  BY DeliveryInit, DeliveryStep, DeliveryInvHolds, PTL DEF Spec, ImplementsDelivery, Delivery!Spec
=============================================================================
