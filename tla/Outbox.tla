------------------------------- MODULE Outbox -------------------------------
(***************************************************************************)
(* The publisher of the outbox: OutboxPublisher.drain and the loop of the  *)
(* worker (src/src/outbox, src/src/worker.ts) over claim_outbox_batch,     *)
(* publish_outbox_event and fail_outbox_attempt (db/schema/009, 018) and   *)
(* resolveVerifiedAddress (src/src/phone).                                 *)
(*                                                                         *)
(* Each SQL function is one short transaction on one row, so it is one     *)
(* step; between two of them the worker may be as slow as it likes, or     *)
(* die.  Time is what is left before next_attempt_at.                      *)
(***************************************************************************)
EXTENDS Naturals, FiniteSets

CONSTANTS
    Events,       \* outbox rows, numbered by occurred_at
    Persons,      \* who the events are for
    Person,       \* person_id of each event
    External,     \* events whose policy allows an external channel
    InAccount,    \* events whose policy leaves a notification in the account
    Workers,      \* worker processes
    BatchSize, LeaseSeconds, MaxAttempts, BackoffBase, BackoffCap,  \* PublisherConfig
    MaxCrashes    \* bound: how many times a worker dies

ASSUME OutboxAssumption ==
    /\ Events \subseteq Nat /\ Events # {}
    /\ Person \in [Events -> Persons]
    /\ External \subseteq Events /\ InAccount \subseteq Events
    /\ BatchSize \in Nat \ {0}
    /\ LeaseSeconds \in Nat \ {0}
    /\ MaxAttempts \in Nat \ {0}
    /\ BackoffBase \in Nat \ {0}
    /\ BackoffCap \in Nat \ {0}
    /\ MaxCrashes \in Nat

\* The pool of workers is finite; only the bound on the paid calls needs it.
ASSUME PoolAssumption == IsFiniteSet(Workers)

VARIABLES
    status,    \* outbox.status
    attempts,  \* outbox.attempts
    wait,      \* time left before next_attempt_at
    line,      \* events whose claim is ACTIVE and decrypts to the line it names
    account,   \* the account of each person
    notified,  \* account_notifications, by event
    sent,      \* events the dispatcher took at least once
    calls,     \* how often the dispatcher was asked to send the event
    crashes,   \* how many times a worker has died
    job        \* what each worker is doing

vars == <<status, attempts, wait, line, account, notified, sent, calls, crashes, job>>

-----------------------------------------------------------------------------
\* A claimed row, with the attempts it had when it was claimed.
Row == [event : Events, attempts : Nat]

Job == [step : {"idle", "drain", "deposit", "send", "confirm", "confirm.plain", "fail"},
        todo : SUBSET Row,   \* rows of the batch still to handle
        row : Row]           \* the row being handled

NoRow == [event |-> CHOOSE e \in Events : TRUE, attempts |-> 0]
Idle == [step |-> "idle", todo |-> {}, row |-> NoRow]

Event(w) == job[w].row.event

\* The next event of the batch, or the sleep after the last one.
Proceed(w) ==
    job' = [job EXCEPT ![w] = IF job[w].todo = {} THEN Idle
                              ELSE [Idle EXCEPT !.step = "drain", !.todo = job[w].todo]]

GoTo(w, step) == job' = [job EXCEPT ![w].step = step]

Settle(e, outcome) ==
    /\ status' = [status EXCEPT ![e] = outcome]
    /\ wait' = [wait EXCEPT ![e] = 0]

-----------------------------------------------------------------------------
\* The claimed rows are out of reach until the lease ends.
Lease(B) == [e \in Events |-> IF e \in B THEN LeaseSeconds ELSE wait[e]]

\* claim_outbox_batch: the oldest rows that are due.
Drain(w) ==
    LET due == {e \in Events : status[e] = "PENDING" /\ wait[e] = 0}
        batch == {e \in due : Cardinality({d \in due : d < e}) < BatchSize}
    IN  /\ job[w].step = "idle"
        /\ batch # {}
        /\ wait' = Lease(batch)
        /\ job' = [job EXCEPT ![w].step = "drain",
                              ![w].todo = {[event |-> e, attempts |-> attempts[e]] : e \in batch}]
        /\ UNCHANGED <<status, attempts, line, account, notified, sent, calls, crashes>>

\* resolveVerifiedAddress: only an ACTIVE claim has an address, and only if
\* what it decrypts to has the fingerprint the registry locked.
HasAddress(e) == e \in line

\* Without a policy, a channel or an address there is no message.
PicksChannel(e) == e \in External /\ HasAddress(e)

\* Policy and address decide between the channel, the account and silence.
Choose(w) ==
    /\ job[w].step = "drain"
    /\ \E r \in job[w].todo :
        job' = [job EXCEPT ![w] =
            [step |-> IF PicksChannel(r.event) THEN "send"
                      ELSE IF r.event \in InAccount THEN "deposit" ELSE "fail",
             todo |-> @.todo \ {r},
             row |-> r]]
    /\ UNCHANGED <<status, attempts, wait, line, account, notified, sent, calls, crashes>>

HasAccount(e) == account[Person[e]] = "ACTIVE"

\* Fault: published although nobody could be told, as before 018.
DepositIntoNothing(w) ==
    LET e == Event(w)
    IN  /\ job[w].step = "deposit"
        /\ IF status[e] = "PENDING"
           THEN /\ Settle(e, "PUBLISHED")
                /\ notified' = IF HasAccount(e) THEN notified \cup {e} ELSE notified
           ELSE UNCHANGED <<status, wait, notified>>
        /\ Proceed(w)
        /\ UNCHANGED <<attempts, line, account, sent, calls, crashes>>

\* publish_outbox_event(id, true): a notification in the account of the person,
\* if there is one today; NO_ACCOUNT is a failed attempt.
Deposit(w) ==
    LET e == Event(w)
    IN  /\ job[w].step = "deposit"
        /\ \/ /\ status[e] = "PENDING" /\ HasAccount(e)
              /\ Settle(e, "PUBLISHED")
              /\ notified' = notified \cup {e}
              /\ Proceed(w)
           \/ /\ status[e] = "PENDING" /\ ~HasAccount(e)
              /\ GoTo(w, "fail")
              /\ UNCHANGED <<status, wait, notified>>
           \/ /\ status[e] # "PENDING"
              /\ Proceed(w)
              /\ UNCHANGED <<status, wait, notified>>
        /\ UNCHANGED <<attempts, line, account, sent, calls, crashes>>

\* The dispatcher is called with no transaction open: it takes the message, or
\* answers OutboundFailed.
Send(w) ==
    LET e == Event(w)
    IN  /\ job[w].step = "send"
        /\ calls' = [calls EXCEPT ![e] = @ + 1]
        /\ \/ sent' = sent \cup {e} /\ GoTo(w, "confirm")
           \/ GoTo(w, "fail") /\ UNCHANGED sent
        /\ UNCHANGED <<status, attempts, wait, line, account, notified, crashes>>

\* The message has left: published, with a notification if the policy wants one
\* and the person has an account, and without one otherwise.
Confirm(w) ==
    LET e == Event(w)
        pending == status[e] = "PENDING"
        deposit == e \in InAccount /\ job[w].step = "confirm"
    IN  /\ job[w].step \in {"confirm", "confirm.plain"}
        /\ IF pending /\ deposit /\ ~HasAccount(e)
           THEN GoTo(w, "confirm.plain") /\ UNCHANGED <<status, wait, notified>>
           ELSE /\ IF pending THEN Settle(e, "PUBLISHED") ELSE UNCHANGED <<status, wait>>
                /\ notified' = IF pending /\ deposit THEN notified \cup {e} ELSE notified
                /\ Proceed(w)
        /\ UNCHANGED <<attempts, line, account, sent, calls, crashes>>

\* The delay is computed from the attempts the row had when it was claimed.
Backoff(n) ==
    LET delay == BackoffBase * 2^n
    IN  IF delay \in 0..BackoffCap THEN delay ELSE BackoffCap

\* Fault: a row that is no longer PENDING is counted and closed again.
FailAttemptUnchecked(w) ==
    LET e == Event(w)
    IN  /\ job[w].step = "fail"
        /\ attempts' = [attempts EXCEPT ![e] = @ + 1]
        /\ IF attempts[e] + 1 >= MaxAttempts
           THEN Settle(e, "FAILED")
           ELSE wait' = [wait EXCEPT ![e] = Backoff(job[w].row.attempts)] /\ UNCHANGED status
        /\ Proceed(w)
        /\ UNCHANGED <<line, account, notified, sent, calls, crashes>>

\* Fault: one attempt more than the configuration allows.
FailAttemptOneMore(w) ==
    LET e == Event(w)
    IN  /\ job[w].step = "fail"
        /\ IF status[e] # "PENDING"
           THEN UNCHANGED <<status, attempts, wait>>
           ELSE /\ attempts' = [attempts EXCEPT ![e] = @ + 1]
                /\ IF attempts[e] >= MaxAttempts
                   THEN Settle(e, "FAILED")
                   ELSE /\ wait' = [wait EXCEPT ![e] = Backoff(job[w].row.attempts)]
                        /\ UNCHANGED status
        /\ Proceed(w)
        /\ UNCHANGED <<line, account, notified, sent, calls, crashes>>

\* Fault: the attempt is put off and not counted.
FailAttemptUncounted(w) ==
    LET e == Event(w)
    IN  /\ job[w].step = "fail"
        /\ wait' = [wait EXCEPT ![e] = Backoff(job[w].row.attempts)]
        /\ Proceed(w)
        /\ UNCHANGED <<status, attempts, line, account, notified, sent, calls, crashes>>

\* fail_outbox_attempt: the attempt counts and the event waits, or it was the
\* last one and the event is closed.
FailAttempt(w) ==
    LET e == Event(w)
    IN  /\ job[w].step = "fail"
        /\ IF status[e] # "PENDING"
           THEN UNCHANGED <<status, attempts, wait>>
           ELSE /\ attempts' = [attempts EXCEPT ![e] = @ + 1]
                /\ IF attempts[e] + 1 >= MaxAttempts
                   THEN Settle(e, "FAILED")
                   ELSE /\ wait' = [wait EXCEPT ![e] = Backoff(job[w].row.attempts)]
                        /\ UNCHANGED status
        /\ Proceed(w)
        /\ UNCHANGED <<line, account, notified, sent, calls, crashes>>

\* A signal, a lost connection, an error that is not OutboundFailed: the
\* process ends, and is started again with nothing of the batch.
Crash(w) ==
    /\ job[w].step # "idle"
    /\ crashes < MaxCrashes
    /\ crashes' = crashes + 1
    /\ job' = [job EXCEPT ![w] = Idle]
    /\ UNCHANGED <<status, attempts, wait, line, account, notified, sent, calls>>

-----------------------------------------------------------------------------
\* The world around: time, a line that is taken over, accounts that open and
\* close.
Tick ==
    /\ \E e \in Events : wait[e] > 0
    /\ wait' = [e \in Events |-> IF wait[e] > 0 THEN wait[e] - 1 ELSE 0]
    /\ UNCHANGED <<status, attempts, line, account, notified, sent, calls, crashes, job>>

LoseLine(e) ==
    /\ e \in line
    /\ line' = line \ {e}
    /\ UNCHANGED <<status, attempts, wait, account, notified, sent, calls, crashes, job>>

AccountTurns(p) ==
    /\ account' = [account EXCEPT ![p] = CASE @ = "NONE" -> "ACTIVE"
                                           [] OTHER -> "DEACTIVATED"]
    /\ account' # account
    /\ UNCHANGED <<status, attempts, wait, line, notified, sent, calls, crashes, job>>

-----------------------------------------------------------------------------
\* A claim that has been taken over when its event is written has no line.
Init ==
    /\ status = [e \in Events |-> "PENDING"]
    /\ attempts = [e \in Events |-> 0]
    /\ wait = [e \in Events |-> 0]
    /\ line \in SUBSET External
    /\ account \in [Persons -> {"NONE", "ACTIVE"}]
    /\ notified = {}
    /\ sent = {}
    /\ calls = [e \in Events |-> 0]
    /\ crashes = 0
    /\ job = [w \in Workers |-> Idle]

Handle(w) == Choose(w) \/ Deposit(w) \/ Send(w) \/ Confirm(w) \/ FailAttempt(w)

Next ==
    \/ Tick
    \/ \E e \in Events : LoseLine(e)
    \/ \E p \in Persons : AccountTurns(p)
    \/ \E w \in Workers : Drain(w) \/ Handle(w) \/ Crash(w)

Spec == Init /\ [][Next]_vars

\* The loop of the worker goes on, its supervisor restarts it, the dispatcher
\* answers one way or the other, and time passes.
Fairness ==
    /\ WF_vars(Tick)
    /\ \A w \in Workers : WF_vars(Drain(w)) /\ WF_vars(Handle(w))

FairSpec == Spec /\ Fairness

-----------------------------------------------------------------------------
\* Every variable keeps its type.
TypeOK ==
    /\ status \in [Events -> {"PENDING", "PUBLISHED", "FAILED"}]
    /\ attempts \in [Events -> 0..MaxAttempts]
    /\ wait \in [Events -> Nat]
    /\ line \subseteq External
    /\ account \in [Persons -> {"NONE", "ACTIVE", "DEACTIVATED"}]
    /\ notified \subseteq Events
    /\ sent \subseteq Events
    /\ calls \in [Events -> Nat]
    /\ crashes \in Nat
    /\ job \in [Workers -> Job]

\* An event is closed as FAILED exactly when all its attempts were used, however
\* many workers hold it after their lease: a late failure neither closes an
\* event again nor counts on a published one.
FailedWhenExhausted ==
    \A e \in Events : status[e] = "FAILED" <=> attempts[e] = MaxAttempts

\* "Un bug ne doit pas pouvoir couter 10 000 $ dans la nuit" (publisher-config):
\* the paid channel is called MaxAttempts times for an event, plus once for each
\* other worker that still held it, plus once for each time a worker died.
PaidChannelBounded ==
    \A e \in Events : calls[e] <= MaxAttempts + Cardinality(Workers) - 1 + crashes

Fate == [e \in Events |-> CASE status[e] = "PENDING" -> "owed"
                            [] status[e] = "PUBLISHED" -> "told"
                            [] status[e] = "FAILED" -> "given up"]

\* What the publisher promises, in EventDelivery: told at least once, or given
\* up after MaxAttempts refusals.
Delivery == INSTANCE EventDelivery WITH
    fate <- Fate,
    refusals <- attempts,
    reached <- notified \cup sent

ImplementsDelivery == Delivery!Spec

\* Every event ends, published or given up, although workers die and leases run
\* out under slow ones.
EveryEventEnds == \A e \in Events : status[e] = "PENDING" ~> status[e] # "PENDING"
=============================================================================
