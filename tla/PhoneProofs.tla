---------------------------- MODULE PhoneProofs ----------------------------
(***************************************************************************)
(* Phone claims and proofs of possession: PhoneService (src/src/phone)     *)
(* over declare_phone_self, open_possession_proof, verify_possession_code, *)
(* record_proof_dispatch and abandon_possession_proof (db/schema/018, 030) *)
(* and the guards and unique indexes of 006, 007, 018 and 028.             *)
(*                                                                         *)
(* A worker is one request.  Each call of an SQL function is a transaction *)
(* of its own at READ COMMITTED: a statement sees what is committed when   *)
(* it starts, waits for the row locks of the others, and its writes become *)
(* visible at the COMMIT, the last step of the function.  now() is the     *)
(* start of the transaction, tx[w].now.                                    *)
(*                                                                         *)
(* The person and the physical line of a claim never change (P0101): they  *)
(* are the constants Person and Line.  The line is stored as a fingerprint *)
(* under a key (hmac_key_id, phone_hmac); only a rotation of the key       *)
(* (scripts/rotate-phone-hmac, 025) hashes a claim again.  The n-th proof  *)
(* opened for claim c is the pair (c, n).                                  *)
(***************************************************************************)
EXTENDS Naturals, FiniteSets

CONSTANTS
    Persons,      \* persons rows, each with its account
    Lines,        \* physical lines
    Claims,       \* identifiers of phone_claims
    Person,       \* person_id of each claim
    Line,         \* the line of each claim
    Workers,      \* requests served at the same time
    CodeTtl,      \* config.codeTtlSeconds
    MaxAttempts,  \* config.maxAttempts
    LineCap,      \* config.lineCap
    CapWindow,    \* config.lineCapWindowSeconds
    LuckyGuess,   \* may a code be guessed before it has been delivered?
    MayAbort,     \* may a process or a connection die?
    Closable,     \* bound: persons whose account may be deactivated
    MaxProofs,    \* bound: proofs opened per claim
    MaxRotations, \* bound: rotations of the fingerprint key
    MaxTime       \* bound: the clock stops here

ASSUME PhoneAssumption ==
    /\ Claims # {}
    /\ Person \in [Claims -> Persons]
    /\ Line \in [Claims -> Lines]
    /\ CodeTtl \in Nat \ {0}
    /\ MaxAttempts \in Nat \ {0}
    /\ LineCap \in Nat \ {0}
    /\ CapWindow \in Nat \ {0}
    /\ LuckyGuess \in BOOLEAN
    /\ MayAbort \in BOOLEAN
    /\ Closable \subseteq Persons
    /\ MaxProofs \in Nat \ {0}
    /\ MaxRotations \in Nat
    /\ MaxTime \in Nat

\* The pool of connections serves so many requests at a time, and no more.
ASSUME PoolAssumption == IsFiniteSet(Workers)

VARIABLES
    clock,     \* wall-clock time
    account,   \* accounts.status of each person's account
    claim,     \* phone_claims
    key,       \* hmac_key_id of each claim, keys numbered in order of rotation
    reference, \* hmac_key_reference
    proof,     \* possession_proofs, by claim and order of opening
    opened,    \* how many proofs the claim has had
    accepted,  \* the proofs whose delivery the provider accepted
    billed,    \* proof_dispatches: the proofs with a cost row
    outbox,    \* claims with a PHONE_LINE_SUPERSEDED event
    tx         \* what each worker is doing

fingerprints == <<key, reference>>
vars == <<clock, account, claim, key, reference, proof, opened, accepted, billed, outbox, tx>>

-----------------------------------------------------------------------------
Nums == 1..MaxProofs

ClaimRow == [status : {"ABSENT", "PENDING", "ACTIVE", "REVOKED"},
             reason : {"-", "SUPERSEDED", "REPLACED"}]
ProofRow == [status : {"ABSENT", "PENDING", "SUCCEEDED", "FAILED", "EXPIRED"},
             attempts : Nat,
             created : Nat,
             expires : Nat,
             ref : BOOLEAN]   \* provider_ref is set

Steps == {"idle",
          "declare.person", "declare.pending", "declare.insert",
          "open.lock", "open.refuse", "open.insert",
          "deliver", "record", "abandon",
          "verify.lock", "verify.supersede", "verify.notice", "verify.activate"}

Transaction == [step : Steps,
                now : Nat,                \* now(), 0 once nothing reads it any more
                claim : Claims,
                num : Nums,               \* the proof being delivered or verified
                target : SUBSET Claims]   \* claims it revokes

NoClaim == [status |-> "ABSENT", reason |-> "-"]
NoProof == [status |-> "ABSENT", attempts |-> 0, created |-> 0, expires |-> 0,
            ref |-> FALSE]

\* A worker without a request; the fields of the last one are gone.
IdleTx == [step |-> "idle", now |-> 0, claim |-> CHOOSE c \in Claims : TRUE,
           num |-> 1, target |-> {}]

Begin(w, step, c, now) ==
    /\ tx[w].step = "idle"
    /\ tx' = [tx EXCEPT ![w] = [IdleTx EXCEPT !.step = step, !.now = now, !.claim = c]]

Finish(w) == tx' = [tx EXCEPT ![w] = IdleTx]

WithStatus(s) == {c \in Claims : claim[c].status = s}
ClaimsOf(p) == {c \in Claims : Person[c] = p}
OnLine(l) == {c \in Claims : Line[c] = l}

\* What the base can tell to be one line: the claims with one fingerprint.
SameFingerprint(c) == {d \in OnLine(Line[c]) : key[d] = key[c]}

PendingOf(c) == {n \in Nums : proof[c][n].status = "PENDING"}

Revoked(reason) == [status |-> "REVOKED", reason |-> reason]

-----------------------------------------------------------------------------
\* Row locks.  Each holds from the statement that takes it to the end of the
\* transaction.

VerifyHolds == {"verify.supersede", "verify.notice", "verify.activate"}

\* Fault: open_possession_proof without its FOR UPDATE.
HoldsClaimVerifyOnly(w, c) ==
    \/ tx[w].step \in VerifyHolds /\ tx[w].claim = c
    \/ tx[w].step \in {"verify.notice", "verify.activate", "declare.insert"}
       /\ c \in tx[w].target

\* phone_claims FOR UPDATE, and the rows an UPDATE has changed.
HoldsClaim(w, c) ==
    \/ tx[w].step \in VerifyHolds \cup {"open.refuse", "open.insert"}
       /\ tx[w].claim = c
    \/ tx[w].step \in {"verify.notice", "verify.activate", "declare.insert"}
       /\ c \in tx[w].target

\* persons FOR UPDATE, in declare_phone_self.
HoldsPerson(w, p) ==
    tx[w].step \in {"declare.pending", "declare.insert"} /\ Person[tx[w].claim] = p

\* The KEY SHARE lock of the foreign key of the outbox row.
SharesPerson(w, p) ==
    tx[w].step = "verify.activate" /\ \E c \in tx[w].target : Person[c] = p

\* Fault: declare_phone_self without its FOR SHARE.
SharesAccountNever(w, p) == FALSE

\* The account row FOR SHARE, in declare_phone_self.
SharesAccount(w, p) ==
    tx[w].step \in {"declare.person", "declare.pending", "declare.insert"}
    /\ Person[tx[w].claim] = p

\* A proof a verification has updated.
HoldsProof(w, c) == tx[w].step \in VerifyHolds /\ tx[w].claim = c

\* An ACTIVE claim superseded by a transaction that has not committed: a unique
\* index makes others wait to know.
Superseding(w, c) ==
    tx[w].step \in {"verify.notice", "verify.activate"} /\ c \in tx[w].target

\* The ACTIVE claims the unique index on the line sets against claim c.
Rivals(c) == (SameFingerprint(c) \cap WithStatus("ACTIVE")) \ {c}

\* The transactions worker w has to wait for before its next step.
WaitsFor(w) ==
    LET c == tx[w].claim
        s == tx[w].step
        T == tx[w].target
    IN {v \in Workers \ {w} :
        \/ s = "declare.person" /\ (HoldsPerson(v, Person[c]) \/ SharesPerson(v, Person[c]))
        \/ s = "declare.pending" /\ \E d \in ClaimsOf(Person[c]) \cap WithStatus("PENDING") :
                                        HoldsClaim(v, d)
        \/ s = "declare.insert" /\ \E d \in ClaimsOf(Person[c]) : Superseding(v, d)
        \/ s \in {"open.lock", "verify.lock"} /\ HoldsClaim(v, c)
        \/ s = "open.refuse" /\ HoldsPerson(v, Person[c])
        \/ s \in {"record", "abandon"} /\ HoldsProof(v, c)
        \/ s = "verify.supersede" /\ \E d \in T : HoldsClaim(v, d)
        \/ s = "verify.notice" /\ \E d \in T : HoldsPerson(v, Person[d])
        \/ s = "verify.activate" /\ \E d \in Rivals(c) \ T : Superseding(v, d)}

Ready(w, step) == tx[w].step = step /\ WaitsFor(w) = {}

-----------------------------------------------------------------------------
\* declare: one call of declare_phone_self.

Declaring(c) == \E w \in Workers :
    tx[w].claim = c /\ tx[w].step \in {"declare.person", "declare.pending", "declare.insert"}

\* The account is read and locked FOR SHARE; one that is not ACTIVE is refused.
DeclareBegin(w, c) ==
    /\ claim[c].status = "ABSENT"
    /\ ~Declaring(c)
    /\ account[Person[c]] = "ACTIVE"
    /\ Begin(w, "declare.person", c, 0)
    /\ UNCHANGED <<fingerprints, clock, account, claim, proof, opened, accepted, billed, outbox>>

DeclareLock(w) ==
    /\ Ready(w, "declare.person")
    /\ tx' = [tx EXCEPT ![w].step = "declare.pending"]
    /\ UNCHANGED <<fingerprints, clock, account, claim, proof, opened, accepted, billed, outbox>>

\* The PENDING claim of the person, if any, is replaced.  No other can appear
\* while the person is locked, so the rows are those still PENDING now.
DeclareReplace(w) ==
    /\ Ready(w, "declare.pending")
    /\ tx' = [tx EXCEPT ![w].step = "declare.insert",
                        ![w].target = ClaimsOf(Person[tx[w].claim]) \cap WithStatus("PENDING")]
    /\ UNCHANGED <<fingerprints, clock, account, claim, proof, opened, accepted, billed, outbox>>

\* The key the service hashes under: it refuses to start with another than the reference.
ActiveKey == reference

\* The insertion and the COMMIT.  One living claim per person: with an ACTIVE
\* claim the index raises, and nothing is declared.
DeclareCommit(w) ==
    LET c == tx[w].claim
    IN  /\ Ready(w, "declare.insert")
        /\ ClaimsOf(Person[c]) \cap WithStatus("ACTIVE") = {}
        /\ claim' = [d \in Claims |->
               IF d = c THEN [status |-> "PENDING", reason |-> "-"]
               ELSE IF d \in tx[w].target THEN Revoked("REPLACED")
               ELSE claim[d]]
        /\ key' = [key EXCEPT ![c] = ActiveKey]
        /\ Finish(w)
        /\ UNCHANGED <<reference, clock, account, proof, opened, accepted, billed, outbox>>

DeclareRefused(w) ==
    /\ Ready(w, "declare.insert")
    /\ ClaimsOf(Person[tx[w].claim]) \cap WithStatus("ACTIVE") # {}
    /\ Finish(w)
    /\ UNCHANGED <<fingerprints, clock, account, claim, proof, opened, accepted, billed, outbox>>

-----------------------------------------------------------------------------
\* requestProof: reserve, commit, call the provider, record the outcome.

\* open_possession_proof is called for a claim of the caller's person.
OpenBegin(w, c) ==
    /\ claim[c].status # "ABSENT"
    /\ Begin(w, "open.lock", c, clock)
    /\ UNCHANGED <<fingerprints, clock, account, claim, proof, opened, accepted, billed, outbox>>

\* Fault: the proofs of this claim counted, not those of the line.
SentSinceOfClaim(c, now) ==
    {p \in {c} \X Nums : p[2] <= opened[c] /\ proof[c][p[2]].created + CapWindow > now}

\* The proofs opened on the line of claim c in the window that ends at now,
\* whatever the claim and whatever became of them.
SentSince(c, now) ==
    {p \in SameFingerprint(c) \X Nums :
        p[2] <= opened[p[1]] /\ proof[p[1]][p[2]].created + CapWindow > now}

\* What the checks of open_possession_proof allow: the claim PENDING, no proof
\* in progress, even one that has expired, and the line below its cap.
MayRing(c, now) ==
    /\ claim[c].status = "PENDING"
    /\ PendingOf(c) = {}
    /\ Cardinality(SentSince(c, now)) < LineCap

\* The claim is locked and the checks read what is committed; nothing else is
\* locked.  Beyond the bound MaxProofs every request is refused.
OpenCheck(w) ==
    /\ Ready(w, "open.lock")
    /\ tx' = [tx EXCEPT ![w].step =
           IF MayRing(tx[w].claim, tx[w].now) /\ opened[tx[w].claim] < MaxProofs
           THEN "open.insert" ELSE "open.refuse"]
    /\ UNCHANGED <<fingerprints, clock, account, claim, proof, opened, accepted, billed, outbox>>

\* A refusal is a row too: its foreign key waits for the person.
OpenRefuse(w) ==
    /\ Ready(w, "open.refuse")
    /\ Finish(w)
    /\ UNCHANGED <<fingerprints, clock, account, claim, proof, opened, accepted, billed, outbox>>

OpenCommit(w) ==
    LET c == tx[w].claim
        n == opened[c] + 1
    IN  /\ Ready(w, "open.insert")
        /\ opened' = [opened EXCEPT ![c] = n]
        /\ proof' = [proof EXCEPT ![c][n] =
               [status |-> "PENDING", attempts |-> 0, created |-> tx[w].now,
                expires |-> tx[w].now + CodeTtl, ref |-> FALSE]]
        /\ tx' = [tx EXCEPT ![w].step = "deliver", ![w].num = n, ![w].now = 0]
        /\ UNCHANGED <<fingerprints, clock, account, claim, accepted, billed, outbox>>

\* The provider takes the delivery: the telephone rings, its answer comes back.
DeliverAccepted(w) ==
    /\ Ready(w, "deliver")
    /\ accepted' = accepted \cup {<<tx[w].claim, tx[w].num>>}
    /\ tx' = [tx EXCEPT ![w].step = "record"]
    /\ UNCHANGED <<fingerprints, clock, account, claim, proof, opened, billed, outbox>>

\* Fault: a delivery that failed is recorded all the same.
DeliverFailedBilled(w) ==
    /\ Ready(w, "deliver")
    /\ tx' = [tx EXCEPT ![w].step = "record"]
    /\ UNCHANGED <<fingerprints, clock, account, claim, proof, opened, accepted, billed, outbox>>

\* DeliveryFailed: nothing left.
DeliverFailed(w) ==
    /\ Ready(w, "deliver")
    /\ tx' = [tx EXCEPT ![w].step = "abandon"]
    /\ UNCHANGED <<fingerprints, clock, account, claim, proof, opened, accepted, billed, outbox>>

\* record_proof_dispatch: the cost row and the reference are born together.
Record(w) ==
    LET c == tx[w].claim
        n == tx[w].num
    IN  /\ Ready(w, "record")
        /\ proof[c][n].status = "PENDING"
        /\ billed' = billed \cup {<<c, n>>}
        /\ proof' = [proof EXCEPT ![c][n].ref = TRUE]
        /\ Finish(w)
        /\ UNCHANGED <<fingerprints, clock, account, claim, opened, accepted, outbox>>

\* A proof settled meanwhile is frozen: setting its reference raises P0103 and
\* takes the cost row back with it.
RecordRefused(w) ==
    /\ Ready(w, "record")
    /\ proof[tx[w].claim][tx[w].num].status # "PENDING"
    /\ Finish(w)
    /\ UNCHANGED <<fingerprints, clock, account, claim, proof, opened, accepted, billed, outbox>>

\* abandon_possession_proof closes the proof if nothing else did.
Abandon(w) ==
    LET c == tx[w].claim
        n == tx[w].num
    IN  /\ Ready(w, "abandon")
        /\ proof' = [proof EXCEPT ![c][n].status = IF @ = "PENDING" THEN "FAILED" ELSE @]
        /\ Finish(w)
        /\ UNCHANGED <<fingerprints, clock, account, claim, opened, accepted, billed, outbox>>

-----------------------------------------------------------------------------
\* verify: one call of verify_possession_code, made when a proof was seen
\* PENDING.

VerifyBegin(w, c) ==
    /\ PendingOf(c) # {}
    /\ Begin(w, "verify.lock", c, clock)
    /\ UNCHANGED <<fingerprints, clock, account, claim, proof, opened, accepted, billed, outbox>>

Expired(c, n, now) == proof[c][n].expires <= now

\* ALREADY_SETTLED: another request settled the proof first.
VerifySettled(w) ==
    /\ Ready(w, "verify.lock")
    /\ PendingOf(tx[w].claim) = {}
    /\ Finish(w)
    /\ UNCHANGED <<fingerprints, clock, account, claim, proof, opened, accepted, billed, outbox>>

VerifyExpired(w) ==
    LET c == tx[w].claim
    IN  /\ Ready(w, "verify.lock")
        /\ \E n \in PendingOf(c) :
            /\ Expired(c, n, tx[w].now)
            /\ proof' = [proof EXCEPT ![c][n].status = "EXPIRED"]
        /\ Finish(w)
        /\ UNCHANGED <<fingerprints, clock, account, claim, opened, accepted, billed, outbox>>

\* The attempt being counted is the last one allowed.
Exhausted(c, n) == proof[c][n].attempts + 1 >= MaxAttempts

\* WRONG or EXHAUSTED.
VerifyWrong(w) ==
    LET c == tx[w].claim
    IN  /\ Ready(w, "verify.lock")
        /\ \E n \in PendingOf(c) :
            /\ ~Expired(c, n, tx[w].now)
            /\ proof' = [proof EXCEPT ![c][n].attempts = @ + 1,
                                      ![c][n].status = IF Exhausted(c, n) THEN "FAILED"
                                                                          ELSE "PENDING"]
        /\ Finish(w)
        /\ UNCHANGED <<fingerprints, clock, account, claim, opened, accepted, billed, outbox>>

\* The right code: the proof is updated, and the loop's query sees the ACTIVE
\* claims of the line.
VerifyRight(w) ==
    LET c == tx[w].claim
    IN  /\ Ready(w, "verify.lock")
        /\ \E n \in PendingOf(c) :
            /\ ~Expired(c, n, tx[w].now)
            /\ LuckyGuess \/ <<c, n>> \in accepted
            /\ tx' = [tx EXCEPT ![w].num = n, ![w].now = 0,
                                ![w].target = Rivals(c),
                                ![w].step = IF Rivals(c) = {} THEN "verify.activate"
                                                              ELSE "verify.supersede"]
        /\ UNCHANGED <<fingerprints, clock, account, claim, proof, opened, accepted, billed, outbox>>

\* Each claim the loop saw is locked and revoked.
VerifySupersede(w) ==
    /\ Ready(w, "verify.supersede")
    /\ tx[w].target \subseteq WithStatus("ACTIVE")
    /\ tx' = [tx EXCEPT ![w].step = "verify.notice"]
    /\ UNCHANGED <<fingerprints, clock, account, claim, proof, opened, accepted, billed, outbox>>

\* The outbox row of the person who loses the line.
VerifyNotice(w) ==
    /\ Ready(w, "verify.notice")
    /\ tx' = [tx EXCEPT ![w].step = "verify.activate"]
    /\ UNCHANGED <<fingerprints, clock, account, claim, proof, opened, accepted, billed, outbox>>

\* Fault: no unique index on the ACTIVE claims of a line.
ActivationAcceptedTwice(c, superseded) ==
    claim[c].status # "REVOKED" /\ key[c] = reference

\* Fault: no P0109 on a claim under an older key.
ActivationAcceptedUnderAnyKey(c, superseded) ==
    claim[c].status # "REVOKED" /\ Rivals(c) \subseteq superseded

\* Fault: no P0103 on a REVOKED claim.
ActivationAcceptedThawed(c, superseded) ==
    key[c] = reference /\ Rivals(c) \subseteq superseded

\* A REVOKED claim is frozen (P0103), one under an older key never activates (P0109),
\* and a fingerprint has one ACTIVE claim.
ActivationAccepted(c, superseded) ==
    /\ claim[c].status # "REVOKED"
    /\ key[c] = reference
    /\ Rivals(c) \subseteq superseded

\* Fault: the person who loses the line is not told.
NotifiedNobody(w) == {}

\* The claims whose loss is written to the outbox.
Notified(w) == tx[w].target

\* PROVEN: the claim takes the line, and everything commits at once.
VerifyCommit(w) ==
    LET c == tx[w].claim
        n == tx[w].num
    IN  /\ Ready(w, "verify.activate")
        /\ ActivationAccepted(c, tx[w].target)
        /\ proof' = [proof EXCEPT ![c][n].attempts = @ + 1, ![c][n].status = "SUCCEEDED"]
        /\ claim' = [d \in Claims |->
               IF d = c THEN [status |-> "ACTIVE", reason |-> "-"]
               ELSE IF d \in tx[w].target THEN Revoked("SUPERSEDED")
               ELSE claim[d]]
        /\ outbox' = outbox \cup Notified(w)
        /\ Finish(w)
        /\ UNCHANGED <<fingerprints, clock, account, opened, accepted, billed>>

\* A guard or a unique index raises: the whole verification is undone, the
\* attempt included.
VerifyRaises(w) ==
    /\ \/ /\ Ready(w, "verify.supersede")
          /\ ~(tx[w].target \subseteq WithStatus("ACTIVE"))
       \/ /\ Ready(w, "verify.activate")
          /\ ~ActivationAccepted(tx[w].claim, tx[w].target)
    /\ Finish(w)
    /\ UNCHANGED <<fingerprints, clock, account, claim, proof, opened, accepted, billed, outbox>>

-----------------------------------------------------------------------------
\* Fault: a lock nobody breaks the wait for.
OnCycleNever(w) == FALSE

\* Worker w is on a cycle of waits: some workers, each waiting for the next.
OnCycle(w) ==
    \E S \in SUBSET Workers :
        /\ w \in S
        /\ \E next \in [S -> S] :
            /\ \A v \in S : next[v] \in WaitsFor(v)
            /\ \A u, v \in S : next[u] = next[v] => u = v

\* PostgreSQL ends a cycle by aborting one of its transactions (40P01).
DeadlockAbort(w) ==
    /\ OnCycle(w)
    /\ Finish(w)
    /\ UNCHANGED <<fingerprints, clock, account, claim, proof, opened, accepted, billed, outbox>>

\* The process or its connection dies: the transaction in progress, if any,
\* leaves nothing, and what was to follow is never done.
Abort(w) ==
    /\ MayAbort
    /\ tx[w].step # "idle"
    /\ Finish(w)
    /\ UNCHANGED <<fingerprints, clock, account, claim, proof, opened, accepted, billed, outbox>>

\* The account is deactivated; the claims of its person stay.  Bound: only
\* while a declaration by that account can still come.
Deactivate(p) ==
    /\ p \in Closable
    /\ ClaimsOf(p) \cap WithStatus("ABSENT") # {}
    /\ account[p] = "ACTIVE"
    /\ \A w \in Workers : ~SharesAccount(w, p)
    /\ account' = [account EXCEPT ![p] = "DEACTIVATED"]
    /\ UNCHANGED <<fingerprints, clock, claim, proof, opened, accepted, billed, outbox, tx>>

\* The claims a rotation hashes again; the others keep the fingerprint of their day.
Rehashed == WithStatus("ACTIVE")

\* rotatePhoneHmacKey, the service being stopped: one transaction, which hashes every
\* ACTIVE claim again and moves the reference last (P0115 if one were left behind).
\* Bound: only when there is a claim to hash again.
Rotate ==
    /\ reference < MaxRotations
    /\ Rehashed # {}
    /\ \A w \in Workers : tx[w].step = "idle"
    /\ reference' = reference + 1
    /\ key' = [c \in Claims |-> IF c \in Rehashed THEN reference' ELSE key[c]]
    /\ UNCHANGED <<clock, account, claim, proof, opened, accepted, billed, outbox, tx>>

Tick ==
    /\ clock < MaxTime
    /\ clock' = clock + 1
    /\ UNCHANGED <<fingerprints, account, claim, proof, opened, accepted, billed, outbox, tx>>

-----------------------------------------------------------------------------
Init ==
    /\ clock = 0
    /\ account = [p \in Persons |-> "ACTIVE"]
    /\ claim = [c \in Claims |-> NoClaim]
    /\ key = [c \in Claims |-> 0]
    /\ reference = 0
    /\ proof = [c \in Claims |-> [n \in Nums |-> NoProof]]
    /\ opened = [c \in Claims |-> 0]
    /\ accepted = {}
    /\ billed = {}
    /\ outbox = {}
    /\ tx = [w \in Workers |-> IdleTx]

Progress(w) ==
    \/ DeclareLock(w)
    \/ DeclareReplace(w)
    \/ DeclareCommit(w)
    \/ DeclareRefused(w)
    \/ OpenCheck(w)
    \/ OpenRefuse(w)
    \/ OpenCommit(w)
    \/ DeliverAccepted(w)
    \/ DeliverFailed(w)
    \/ Record(w)
    \/ RecordRefused(w)
    \/ Abandon(w)
    \/ VerifySettled(w)
    \/ VerifyExpired(w)
    \/ VerifyWrong(w)
    \/ VerifyRight(w)
    \/ VerifySupersede(w)
    \/ VerifyNotice(w)
    \/ VerifyCommit(w)
    \/ VerifyRaises(w)

Request(w) ==
    \E c \in Claims : DeclareBegin(w, c) \/ OpenBegin(w, c) \/ VerifyBegin(w, c)

Next ==
    \/ Tick \/ Rotate
    \/ \E p \in Persons : Deactivate(p)
    \/ \E w \in Workers : Request(w) \/ Progress(w) \/ DeadlockAbort(w) \/ Abort(w)

Spec == Init /\ [][Next]_vars

\* PostgreSQL grants a row lock to its waiters in turn and looks for deadlocks
\* after deadlock_timeout; the provider answers, or fails, within its own
\* timeout (line-ownership-prover.ts).
Fairness ==
    \A w \in Workers : SF_vars(Progress(w)) /\ WF_vars(DeadlockAbort(w))

FairSpec == Spec /\ Fairness

-----------------------------------------------------------------------------
\* Every variable keeps its type.
TypeOK ==
    /\ clock \in Nat
    /\ account \in [Persons -> {"ACTIVE", "DEACTIVATED"}]
    /\ claim \in [Claims -> ClaimRow]
    /\ reference \in 0..MaxRotations
    /\ key \in [Claims -> 0..reference]
    /\ proof \in [Claims -> [Nums -> ProofRow]]
    /\ opened \in [Claims -> 0..MaxProofs]
    /\ accepted \subseteq Claims \X Nums
    /\ billed \subseteq accepted
    /\ outbox \subseteq Claims
    /\ tx \in [Workers -> Transaction]

\* A line has at most one holder, whatever verifications of it run at the same
\* time (uq_phone_claims_active_line is what decides between two of them) and whatever key
\* its claims were hashed under: the index only compares fingerprints.
OneHolder ==
    \A c, d \in WithStatus("ACTIVE") : Line[c] = Line[d] => c = d

\* Claims and proofs tell one story: a claim has held its line exactly if one
\* of its proofs, and only one, succeeded; a replaced claim has none; and the
\* event that tells a person of a lost line exists exactly for the claims that
\* lost it.
OneStory ==
    /\ \A c \in Claims :
        LET successes == {n \in Nums : proof[c][n].status = "SUCCEEDED"}
        IN  /\ Cardinality(successes) <= 1
            /\ successes # {} <=> claim[c].status = "ACTIVE" \/ claim[c].reason = "SUPERSEDED"
    /\ outbox = {c \in Claims : claim[c].reason = "SUPERSEDED"}

\* One proof in progress per claim, and it still has an attempt left: no count
\* of requests or of wrong codes, in whatever order, gets past either limit or
\* meets uq_proofs_pending_per_claim and chk_proofs_attempts_bounded.
OneProofAtATime ==
    \A c \in Claims :
        /\ Cardinality(PendingOf(c)) <= 1
        /\ \A n \in Nums : proof[c][n].attempts <= MaxAttempts
        /\ \A n \in PendingOf(c) : proof[c][n].attempts < MaxAttempts

\* In any window a fingerprint is rung at most LineCap times and once more for each request
\* that counted at the same time: the count takes no lock on the line.
LineRungs(l, k, t) ==
    {p \in {c \in OnLine(l) : key[c] = k} \X Nums :
        /\ p[2] <= opened[p[1]]
        /\ proof[p[1]][p[2]].created <= t
        /\ proof[p[1]][p[2]].created + CapWindow > t}

LineNearlyCapped ==
    \A l \in Lines, k \in 0..reference, t \in 0..MaxTime :
        Cardinality(LineRungs(l, k, t)) <= LineCap + Cardinality(Workers) - 1

\* "The most recent proof wins", in one step: a claim loses its line only to a
\* living claim of the same line that is being proven, and the person who lost
\* it is told; nobody else's claim ever changes hands.
TakeoverIsAtomic ==
    [][\A c \in WithStatus("ACTIVE") : claim'[c] # claim[c] =>
          /\ claim'[c] = Revoked("SUPERSEDED")
          /\ c \in outbox'
          /\ \E d \in OnLine(Line[c]) \ {c} :
                claim[d].status = "PENDING" /\ claim'[d].status = "ACTIVE"]_vars

\* An account that is no longer ACTIVE declares nothing, even by a call that
\* was under way when it was deactivated.
DeactivatedIsMute ==
    [][\A c \in WithStatus("ABSENT") : claim'[c].status # "ABSENT" =>
          account[Person[c]] = "ACTIVE"]_vars

\* Every request ends, by an answer or an error: a wait for a row, or a cycle
\* of waits between a takeover and a declaration, does not last.
RequestsEnd ==
    \A w \in Workers : tx[w].step # "idle" ~> tx[w].step = "idle"

-----------------------------------------------------------------------------
\* Why the properties hold: their strengthening into an inductive invariant.

Declares == {"declare.person", "declare.pending", "declare.insert"}

\* An ACTIVE claim is under the reference: the others are not hashed again.
ActiveUnderReference == \A c \in WithStatus("ACTIVE") : key[c] = reference

\* A claim is locked by one transaction at a time.
LocksExclude ==
    \A v, w \in Workers, c \in Claims : HoldsClaim(v, c) /\ HoldsClaim(w, c) => v = w

\* A claim is being declared by one call.
DeclaresApart ==
    \A v, w \in Workers :
        tx[v].step \in Declares /\ tx[w].step \in Declares /\ tx[v].claim = tx[w].claim => v = w

\* What a transaction has read is still true while it holds the rows.
StillTrue(w) ==
    LET c == tx[w].claim
        s == tx[w].step
        T == tx[w].target
    IN  /\ s \in Declares => claim[c].status = "ABSENT" /\ account[Person[c]] = "ACTIVE"
        /\ s = "declare.insert" => T \subseteq WithStatus("PENDING")
        /\ s = "open.insert" =>
              claim[c].status = "PENDING" /\ PendingOf(c) = {} /\ opened[c] < MaxProofs
        /\ s = "record" => <<c, tx[w].num>> \in accepted
        /\ s \in VerifyHolds => tx[w].num \in PendingOf(c) /\ T \subseteq OnLine(Line[c]) \ {c}
        /\ s \in {"verify.notice", "verify.activate"} => T \subseteq WithStatus("ACTIVE")

ReadsStillTrue == \A w \in Workers : StillTrue(w)

\* The proof in progress of a claim, if any, and the state of the claim.
InProgress(c) ==
    /\ \A m, n \in PendingOf(c) : m = n
    /\ \A n \in Nums : proof[c][n].attempts <= MaxAttempts
    /\ \A n \in PendingOf(c) : proof[c][n].attempts < MaxAttempts
    /\ PendingOf(c) # {} => claim[c].status \in {"PENDING", "REVOKED"}

ProofInProgress == \A c \in Claims : InProgress(c)

Successes(c) == {n \in Nums : proof[c][n].status = "SUCCEEDED"}

\* OneStory without its count, and the reason only of a REVOKED claim.
StoryOf(c) ==
    /\ \A m, n \in Successes(c) : m = n
    /\ Successes(c) # {} <=> claim[c].status = "ACTIVE" \/ claim[c].reason = "SUPERSEDED"
    /\ claim[c].reason = "SUPERSEDED" => claim[c].status = "REVOKED"

Story ==
    /\ \A c \in Claims : StoryOf(c)
    /\ outbox = {c \in Claims : claim[c].reason = "SUPERSEDED"}

\* Locks exclude, what a transaction has read stays true until its COMMIT, and from that
\* every invariant above but LineNearlyCapped follows, which RingsCounted gives (PhoneTheorems).
Inductive ==
    /\ TypeOK
    /\ ActiveUnderReference
    /\ OneHolder
    /\ LocksExclude
    /\ DeclaresApart
    /\ ReadsStillTrue
    /\ ProofInProgress
    /\ Story

\* The proofs opened so far, and the requests that have counted those of line l under key k
\* and are about to open one that rings at time t.
Rings == {p \in Claims \X Nums : p[2] <= opened[p[1]]}

AboutToRing(l, k, t) ==
    {w \in Workers :
        /\ tx[w].step = "open.insert"
        /\ Line[tx[w].claim] = l /\ key[tx[w].claim] = k
        /\ tx[w].now <= t /\ tx[w].now + CapWindow > t}

\* Why LineNearlyCapped holds: a request that counted fewer than LineCap proofs holds a place
\* until it opens its own, and there are no more places than workers.
RingsCounted ==
    /\ IsFiniteSet(Rings)
    /\ \A c \in WithStatus("ABSENT") : opened[c] = 0
    /\ \A l \in Lines, k \in 0..reference, t \in 0..MaxTime :
          Cardinality(LineRungs(l, k, t)) + Cardinality(AboutToRing(l, k, t))
              <= LineCap + Cardinality(Workers) - 1
=============================================================================
