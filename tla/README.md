# user-core in TLA+

user-core is a NestJS service over PostgreSQL that keeps accounts, sessions, phone lines, persons and what programs may do
for them. Almost all of its state is in tables; almost all of its rules are in SQL functions, triggers, unique indexes and foreign
keys (`src/db/schema`), called by thin TypeScript services (`src/src`). What is hard to get right, and hard to test, is what happens
when several connections run these functions at once, when an answer is lost, when a process dies between two transactions.
This directory models that part.

Paths below are those of the repository, under its root `src/`: `auth/...` is `src/src/auth/...`, `004` is `src/db/schema/004_*.sql`.

## 1. Inventory

### The parts, their state and their operations

| Part | State | Operations that change it | Module |
|---|---|---|---|
| Sessions and refresh tokens (`auth/session.service.ts`, 004, 005, 019) | `sessions`, `session_refresh_tokens` | open (after login or registration), refresh (five verdicts), logout, revokeAll, cascade of a deactivation | `Sessions` |
| Phone claims and proofs (`phone/phone.service.ts`, 006, 007, 018, 028, 030) | `phone_claims`, `possession_proofs`, `proof_dispatches`, `proof_refusals`, `outbox_events` | declare, open a proof, deliver, record, abandon, verify with takeover | `PhoneProofs` |
| Rotation of the fingerprint key (`scripts/rotate-phone-hmac.ts`, 025) | fingerprints of the claims, the reference of the key | one transaction, the service stopped | `PhoneProofs` |
| Address resolution (`phone/verified-address.ts`) | none | reads a claim and compares its fingerprint | `Outbox` (partly) |
| Outbox (`outbox/publisher.ts`, `worker.ts`, 009, 018) | `outbox_events`, `account_notifications` | claim a batch under a lease, choose a channel, send, publish, count a failed attempt | `Outbox` |
| Persons, responsibilities, emancipation (`persons/`, 014, 017, 020, 023, 031) | `persons`, `person_responsibilities` | attach a dependent, add a co-responsible person, end a link, emancipate | `Registry` |
| Erasure and its scheduler (`persons/erasure*.ts`, 026–029, 032, 033) | `person_erasures`, what is recorded of the person | request, retract, notice, execute | `Registry` |
| Catalog and grants (`catalog/`, `programs/program-grants.service.ts`, 008, 019, 023) | `program_grants` | grant and revoke, by three kinds of actor | `Programs` |
| Invitations and dependent access (`invitations/`, `programs/dependent-access.service.ts`, 012, 021, 022, 024, 027) | `program_invitations`, `program_idempotency_keys` | the click of a program, accept, decline, expire | `Programs` |
| Program clients and assertions (`programs/program-auth.service.ts`, `scripts/program-client-admin.ts`, 010, 013) | `program_clients`, `program_client_keys`, `program_client_assertions` | register, rotate, revoke; spend an assertion once, issue a token | `Access` |
| Account secrets, login, throttle (`auth/auth.service.ts`, `login-throttle.ts`, 003) | `account_secrets`, an in-memory window per key | login, failure counter and lock | `Access` (partly) |
| Accounts, registration, identity, profile (`accounts/`, 002, 011, 016) | `accounts`, `account_profiles`, `persons` | register, provide, replace a profile | `Access`, `Registry` (partly) |
| Client address (`client-address.ts`) | none | walks back the forwarded hops | `Access` |
| Keyrings, bootstrap, observability, simulators, operational scripts, roles | none that the rest depends on | — | — |

### How they interact

* **Shared rows.** `accounts` is read FOR SHARE by every trigger that lets something be born under an account (sessions, declarations,
  links, grants by oneself, profiles), and updated by a deactivation, which cascades to sessions (019), by an emancipation and by an
  erasure. `persons` is taken FOR UPDATE by a declaration, an emancipation and an erasure, and KEY SHARE by every foreign key that names a person.
* **Events.** A takeover of a line (018), an emancipation (020) and an erasure notice (029) write an outbox row in their own
  transaction; the worker publishes it later, to whatever address or account the person then has.
* **Walls.** The erasure of a person (026) stands in the way of everything that could identify that person again; each writer meets the wall
  in a trigger, at the time of its own statement, not of its commit.
* **The outside.** A provider of proofs and a dispatcher of messages are called with no transaction open
  (`proving/line-ownership-prover.ts`, `outbox/`). A client keeps a refresh token and may miss the answer that replaces it. A program signs assertions.
* **Two processes.** The API and the worker share nothing but the base. The API keeps its throttles in memory; it has no other lock of its
  own: everything else is decided by row locks, advisory locks, unique indexes and the snapshot each statement reads at READ COMMITTED.

### What is hard, and what makes each part correct

* *Sessions*: the verdict on a token is read, then acted on, with other transactions in between; grace windows compare with the start of
  a transaction that may have waited; a revocation must leave nothing usable, also of what is being opened or rotated; the chain of tokens may
  not fork; an honest client on a bad network may not be taken for a thief; row locks taken in opposite order may not hang.
* *Phone*: two persons prove the same line at once; a line changes hands atomically or not at all; limits on rings and attempts under
  concurrent requests; a provider that accepts while the code is already typed; a process that dies between reservation and outcome;
  takeovers and declarations that wait for each other; a rotation after which one line has two fingerprints.
* *Outbox*: leases that expire while the sender still sends; a worker that dies after sending; a line that is lost between choice and
  sending; a failure reported for an event somebody else published.
* *Responsibilities and erasure*: constraint triggers at commit that see only what is committed; statements of one erasure that each have a
  snapshot of their own; a retraction that races the execution; a wall read before, and written past after.
* *Programs*: caps counted under a lock on something else; a reference whose fingerprint depends on a key that rotates; an invitation that
  gains a dependent while it is being accepted; a right the family closed that a program must not open again.
* *Doors*: a lock that must never recede, set by two statements that are not one transaction; windows that a sweep could forget; an assertion
  verified against a key that is revoked before it is recorded.

`PROJECT.json` lists each hazard with its line and the properties that cover it.

## 2. Modules

| Module | Models | Role |
|---|---|---|
| `Sessions` | `SessionService`, `AuthService.openSession`, the tables, triggers and lookup function of 004, 005, 019 | detailed specification |
| `SessionLedger` | the contract in the headers of 004 and `session.service.ts` | abstract specification of `Sessions` |
| `RefreshClient` | one honest client (external) composed with `Sessions` | extends `Sessions` |
| `PhoneProofs` | `PhoneService`, the SQL functions it calls (006, 007, 018, 028, 030), the rotation of the key (025) | detailed specification |
| `Outbox` | `OutboxPublisher`, the worker's loop, their SQL functions (009, 018) | detailed specification |
| `EventDelivery` | the promise in the class comment of `publisher.ts` | abstract specification of `Outbox` |
| `Registry` | `persons/`, the scheduler, 017, 020, 023, 026, 029, 032, 033 | detailed specification |
| `PersonLife` | the promise in the headers of 026 and 028 | abstract specification of `Registry` |
| `Programs` | `catalog/`, `programs/`, `invitations/`, 012, 019, 021, 023, 024, 027, 032 | detailed specification |
| `Access` | login, throttles, client address, registration, the program door and its administration (003, 010, 011, 013) | detailed specification |
| `ProgramDoor` | the promise in the class comment of `program-auth.service.ts` | abstract specification of `Access` |
| `SessionsProofs`, `SessionsRefinement`, `RefreshClientProofs`, `PhoneTheorems`, `OutboxProofs`, `RegistryProofs`, `ProgramsProofs`, `AccessProofs` | — | theorems, proved by TLAPS |
| `MC...` | — | values of constants for TLC |

### The common way of modelling a transaction

A *worker* or *connection* serves one request. `tx[w]` is what its transaction is doing: `step` names the statement it is about to run,
`now` is `now()`, the start of the transaction. A statement that takes a row lock is an action of its own, enabled when no other
transaction holds a lock that conflicts; the lock is held until the transaction ends, and *who holds what* is a function of the
steps (`HoldsSession`, `HoldsClaim`, `Holds`), not a variable. The writes of a transaction become visible in its last step, the COMMIT: until then
others read the old rows, as READ COMMITTED has it. What must be seen to wait for an uncommitted write (a unique index, a foreign key) is
written in the guards. A statement that only waits and one that decides are one action where nothing the decision reads can change between them.
`DeadlockAbort` is PostgreSQL's detection (`40P01`): it ends a transaction that stands on a cycle of waits.

Definitions marked `Fault:` are used by no specification: each puts a plausible bug in the place of one definition, see section 3.

### `Sessions`

| State | Code |
|---|---|
| `account` | `accounts.status` |
| `session`, `token`, `issued` | the rows of `sessions` and `session_refresh_tokens`, tokens numbered in order of issue |
| `access` | expiry of the last access token signed; that is all logout and revokeAll need of it |
| `clock`, `tx` | wall-clock time; the transaction of each worker |

`OpenBegin`/`OpenLock`/`OpenCommit`/`OpenIssue` are `openSession` and the signature that follows it; the account was read before an argon2
verification, so `OpenBegin` asks nothing of it. `RefreshBegin`/`RefreshLock`/`RefreshLookup` are the two lookups of `refresh` around its
`FOR UPDATE`; `Lookup` is `lookup_refresh_token`, with its five verdicts; `RefreshRotate`, `RefreshReplay`, `RefreshRefuse` act on the verdict
and commit. `Rotate` includes what the triggers ask (`RotationAccepted`); one that they refuse is a `Rollback`. `LogoutBegin`, `RevokeAllBegin`,
`DeactivateBegin` start the three UPDATEs that revoke sessions: the rows are those of the statement's snapshot, locked one at a time
(`RevokeLock`), each checked again once locked, and revoked with all their tokens in one `RevokeCommit`. `Rollback` is a crash, an exception or a lost
connection at any point.

Two assumptions about PostgreSQL: the UPDATEs lock several sessions in scan order (all use the same plan on one table; the mutant
`RevokeLockUnordered` shows that without it two of them deadlock, which the server would then break), and the deactivation takes the account row first,
since the cascade is an AFTER trigger of its UPDATE.

`SessionLedger` has three variables: is a session unborn, open or closed; which credentials of it are usable; which accounts are closed. `Replace`
puts the next credential in place of the usable one, for good; `CloseAccount` closes all open sessions of the account in the same step. `Sessions` maps to
it by `state`, `usable`, `closed` computed from the tables (definition `Ledger`); every statement that is not a COMMIT is a stutter.

In `RefreshClient` an honest client keeps one token (`kept`), presents it, and may lose, receive late or receive out of order the answers on their way
(`answers`). Nobody else presents its tokens, so every replay the server sees is a false alarm. `Timely` says the client asks again, and is served, within
the grace window. The client is not in the repository; its behaviour is the one the comments of `session.service.ts` describe. `OneAtATime` says that
it waits for one answer before it asks again and that no two answers in a row are lost; the properties are stated under it.

### `PhoneProofs`

| State | Code |
|---|---|
| `claim` | `phone_claims`: status and reason; person and line never change (P0101) and are the constants `Person`, `Line` |
| `key`, `reference` | `hmac_key_id` of each claim, `hmac_key_reference`: two claims are one line for the base when their fingerprints are under one key |
| `proof`, `opened` | `possession_proofs`, numbered per claim in order of opening |
| `accepted` | external: the deliveries the provider took |
| `billed` | `proof_dispatches` |
| `outbox` | claims with a `PHONE_LINE_SUPERSEDED` event |

`declare` is `declare_phone_self`: account FOR SHARE, person FOR UPDATE, the PENDING claims replaced, the insertion (a unique index refuses it when
the person has an ACTIVE claim). A request of a proof is three transactions with a call between them: `OpenCheck`/`OpenCommit` or `OpenRefuse`
(`open_possession_proof`), `DeliverAccepted`/`DeliverFailed` (the provider), `Record` or `Abandon`. `verify` is `verify_possession_code`: `VerifyWrong`,
`VerifyExpired`, `VerifySettled` end at once; `VerifyRight` goes on through the loop over the rivals on the line (`VerifySupersede`), their outbox rows
(`VerifyNotice`, whose foreign key waits for the loser's person), and the activation, where the guards and `uq_phone_claims_active_line` have
the last word (`VerifyCommit` or `VerifyRaises`, which undoes everything). `Rotate` is `rotate-phone-hmac`: no request is under way (the service is
stopped), every ACTIVE claim is hashed again and the reference moves, in one transaction; a PENDING claim stays under the older key, so that afterwards
it is no rival of an ACTIVE one on the same line until it is declared again, and `activate` refuses it.

`WaitsFor` is the graph of waits: row locks, uncommitted rows of a unique index, KEY SHARE of a foreign key. Cycles exist: a takeover holds the
loser's ACTIVE claim and its outbox row waits for his `persons` row, while his own `declare_phone_self` holds that row and its insertion waits to know the
fate of the ACTIVE claim; and the refusal row of a proof request waits for the person while a declaration by that person waits for the claim.
Both end with one request aborted and nothing written.

What is abstracted: the claim lock and the checks of `open_possession_proof`, or of `verify_possession_code`, are one action (the line count
is in any case not under a lock); a refusal row is not kept, only the wait of its foreign key, because nothing reads refusals back;
`record_proof_dispatch` and `abandon_possession_proof` lock one proof row and commit, in one action each; a code is right or wrong, and
with `LuckyGuess` it may be guessed before it is delivered. The erasure of a person with a claim is in `Registry`.

### `Outbox`

| State | Code |
|---|---|
| `status`, `attempts`, `wait` | `outbox_events.status`, `.attempts`, and what is left before `next_attempt_at` (a lease, or a back-off) |
| `line`, `account` | what the world offers: events whose claim still has an address, the account of each person |
| `notified` | `account_notifications` |
| `sent`, `calls` | external: what the dispatcher took, how often it was asked |
| `job` | where each worker is in its batch |

Each SQL function is one short transaction on one row, hence one action: `Drain` is `claim_outbox_batch`, `Deposit` and `Confirm` are
`publish_outbox_event` with and without a notification, `FailAttempt` is `fail_outbox_attempt`. Between them the worker decides (`Choose`, `pickChannel`
with `resolveVerifiedAddress`) and calls the dispatcher (`Send`) with no transaction open. A batch is a set: its rows carry the attempts they had when
they were claimed, which is what the back-off is computed from. `Crash` ends a worker with all it held; its rows come back when the lease ends.
`LoseLine` and `AccountTurns` are what takeovers, registrations and deactivations do meanwhile. Time is a countdown per row, so that it is unbounded.

`EventDelivery` is the promise: an event is owed, then told or given up, for good; it has reached its person before it counts as told; it is given up at
its `MaxAttempts`-th refusal. A message may reach its person again after that, because a worker whose lease ended does not know.

### `Registry`

| State | Code |
|---|---|
| `account` | `accounts.status` of each person's account; `none` for a dependent, `unborn` before the person exists |
| `links` | the ACTIVE rows of `person_responsibilities` |
| `cut` | minors with a link ended EMANCIPATED |
| `has` | what is recorded of a person: identity, profile, ACTIVE grant, PENDING or ACTIVE claim |
| `erasure` | the last row of `person_erasures` of each person |
| `tick` | `ErasureScheduler.tick`: the list it works on |

`Holds` and `Needs` give the row locks of each step, shared or exclusive; `Holders` compares them. `Attach`, `AddCoResponsible` and
`EndResponsibility` are the operations on links, `GuardInsert` the trigger of an insertion with its locks, `LinkWritten` the writes and the DEFERRED
constraint triggers. These run when the transaction is about to commit and read what is committed *then*: two transactions may both be past their checks and
neither visible to the other. `EndAlone` is the retry of `endResponsibility` when the replacement turns out to be responsible already.
`Provide`, `ReplaceProfile`, `GrantSelf`, `GrantByOther`, `Declare`, `Verify` give the person something; each meets the wall of 026/032 at its own
statement. `EraseBegin`, `EraseRights`, `ErasePerson`, `EraseAccount`, `EraseCommit` are the statements of `erase_person`: each UPDATE closes what *its* snapshot
shows (`seen`, `held`). `TickNotices`/`Notice`, then `TickDue`/`Execute`, are the two lists and loops of the scheduler; one row that fails does not
stop the loop.

The door of emancipation has been closed to the role of the API since 031; its walls stand, and the owner of the database goes through them, so it is
modelled. Two things are taken to be short, in `Pass`: a tick of the scheduler ends before the notice it gives is over (`Lead`), and a request that has
recorded an erasure reaches its execution before the days of reflection are over (`Window`). A worker that hangs in the middle of a tick for days, or a
request that does, is outside the model; one that dies is inside (`Restart`, `Crash`).

`PersonLife` is the promise: asked for, perhaps retracted, then gone; account, identity and claims go in that very step and never come back.

### `Programs`

| State | Code |
|---|---|
| `grants` | `program_grants`, the rows of each person and program in order |
| `keys` | `program_idempotency_keys`, with the key of the keyring each is hashed under |
| `invitations` | `program_invitations` and `program_invitation_dependents` |
| `links`, `fate` | what `Registry` decides: who answers for whom, what became of a dependent |
| `keyring`, `activeKey` | the keys of the reference keyring, and the one that new fingerprints are made with |

A click (`open_dependent_access`) takes the advisory lock of its reference and looks it up under every key (`ReferenceLock`), takes the advisory lock
of the program's line, then the PENDING invitation and the caps (`TakeInvitation` or `RefuseAtCap`), judges the right (`TakeGrant`), and makes birth, key, right and
junction visible together (`CommitClick`). `Answer`, `AcceptInvitation`, `CommitAccept`, `DeclineInvitation`, `Dismiss` are the family's answer, with the row of the
invitation held FOR UPDATE and the walls of 017 at the commit. `Insertion`/`Insert` are the three ways to grant, `Revoke` the two ways to withdraw. `Meet` gives a
dependent another fate in one step. A rotation of the reference keyring is two redeployments that overlap no click (024; `docs/ops/ROTATION.md`, section 4): `RotateReferenceKey` adds a key and
makes it active, `RetireReferenceKey` takes an old one out, for good and as early as the operator likes. The lookup of a click (`KnownAs`) is under the keys still in the keyring: a reference whose
key is retired is not found, and its next click makes a new person, as the procedure says.

Left out because it writes nothing: the refusals OF_AGE and NOT_GRANTED of a click. Left out because it cannot happen: an invitation without a
dependent (only a click makes one), hence the branch of `accept_program_invitation` that grants without a dependent; a program that changes status (nothing in
the repository changes one).

### `Access`

| State | Code |
|---|---|
| `counters` | the maps of four of the seven `LoginThrottle`s of `main.ts`, one per door: login, registration, exchange of assertions, calls of programs |
| `accounts`, `failures`, `lockedUntil` | identifiers in use; `failed_attempts`, `locked_until` |
| `clients`, `keys`, `assertions` | `program_clients`, `program_client_keys`, rows of `program_client_assertions` |
| `tokens` | expiries of the tokens each assertion gave |
| `passed`, `promised` | ghosts: the requests the throttles let through, each with its door, its subject and its instant; the latest lock a failure asked for |

None of these requests is a transaction, so each statement is an action. `ClientOf` is `ClientAddress.of`: the first hop, from the socket back, that is no
declared proxy; `Routes` are the ways a caller has to reach the service, with any forged header; proxies append the address they saw. `ConsumeAll` is
the throttle with its sweep. `Find`, `Verified`, `CountFailure`, `Lock` are `login` and the two statements of `registerFailure`; `Candidate`, `Record`, `Issue`
are the exchange of an assertion. The commands of `program-client-admin` hold the client's row from their first statement, hence one action each. `Restart`
empties what the process has in memory. The session a login opens is `OpenBegin` of `Sessions`.

## 3. Runs

All with two workers of TLC.

| Run | What it asks | Bounds | Size |
|---|---|---|---|
| `sessions_chain` | does the chain of tokens fork, is a verdict still true when acted on, is a rotation ever refused, is grace a factory | 1 account, 1 session, 3 connections, 4 tokens, clock 0–3, symmetry | 442 000 states |
| `sessions_revoke` | is revocation total, are the tables the ledger, does every request end | 1 account, 2 sessions, 2 connections, 2 tokens each, no time, `FairSpec` | 18 000 states |
| `client_prompt` | is an honest, timely client ever cut, out of step, or refused otherwise than because what it presents expired | 1 request at a time, 1 lost answer in a row, 5 tokens, clock 0–5, grace 2 | 11 000 states |
| `phone_takeover` | who holds the line, do claims, proofs and events agree, is a takeover atomic, does every request end | 2 persons, 1 line, 3 claims, 2 requests at a time, 1 proof each, 1 attempt, 1 rotation of the key, no time, `FairSpec` | 236 000 states |
| `phone_limits` | do the counters of proofs, attempts and rings hold, is a deactivated account mute, is the invariant of the proofs true at all | 2 claims of 2 persons on one line, 2 proofs and 2 attempts each, cap 2, clock 0–1, processes that die, codes that are guessed, accounts that close, symmetry of the workers and of the two persons with their claims | 840 000 states |
| `outbox` | is the outbox `EventDelivery`, is the paid channel bounded, does every event end | 2 workers, 2 events of one person, 2 attempts, lease 1, 1 death of a worker, `FairSpec` | 1.5 min |
| `registry` | do the cut and the walls hold, is every erasure noticed, is it `PersonLife` | 2 adults, 1 minor, 2 requests on 2 connections, scheduler, clock 0–2, days of reflection 2, notice 1, symmetry | 427 000 states |
| `registry_settles` | is what is due executed or retracted | the same, 1 connection, days of reflection 1, `FairSpec` | 149 000 states |
| `registry_orphan`, `registry_remnant` | see *Findings*: each is expected to be violated | those of `registry`, days of reflection 1, clock 0–1 | seconds |
| `programs` | is a reference one person, is an acceptance complete, how far are the caps overrun, who opens again what the family closed | 1 family, 2 granted and 1 self-service program, 2 lines (one that nobody holds), 2 references, 2 connections, 4 requests, caps 1, windows 2, clock 0–1, 2 keys, 2 births, symmetry | 678 000 states |
| `access` | does a lock recede, what passes a throttle, is the exchange `ProgramDoor` | 1 caller, 1 proxy, 2 identifiers, 1 client, 2 kids, 1 jti, 2 connections, 3 requests, window 2, budgets 2 (login) and 1, sweep above 1 counter, clock 0–2, symmetry | 496 000 states |

**Why the bounds are enough.** Three connections on one session are one that holds the row and two that wait: every order in which two
waiters resume after a third is there. Four tokens give the three positions that `lookup_refresh_token` tells apart (last, the one before, older) plus a
further rotation; clock 0–3 with a grace window of 1, tokens of 2 and sessions of 3 crosses every expiry, and the last token is capped by its
session. Locks of two sessions in opposite orders need two sessions and two connections. A dispute of a line needs two persons; the third claim lets the one who
lost the line declare it again, which is what crosses a takeover with a declaration, and with a rotation in between leaves two fingerprints of one line. Two proofs
per claim, two claims and a cap of 2 reach the cap and go beyond it; an attempt limit of 2 has one wrong code that is not the last. In the outbox, two workers
are the holder of a lease and the one who takes over; two attempts are one that is not the last; one death is one duplicate. In `Registry` a race is between two
transactions, or one and the scheduler; two adults and a dependent are what the orphan check and the replacement need; days of reflection of 2 with a notice of
1 tell apart a request that stalls, a notice that is due and an execution that is. In `Programs` four requests are two clicks, an
answer and a withdrawal, or a grant between two clicks; caps of one are reached by the first click and overrun by two at once. Two keys are one that is retired and one that is kept. In `Access` two requests fill a
login budget and a third is refused; twice that budget in one window would take four, which only the theorem `BudgetIsKept` covers for login (the doors with a budget of one reach it); a threshold of one counter makes every second key a sweep; two failures lock in either order.

**Bounds in the guards**: `MaxTokens` (a refresh does not start when the tokens it could issue are exhausted), `MaxTime` (the clock stops), `MaxProofs`
(further requests of a proof are refused, as the cap of the line does), `MaxRotations`, `Closable` (who may be deactivated), `MaxCrashes`, `MaxRequests`
(crashes count as requests in `Registry`, fates of dependents in `Programs`), `Subjects` (whose requests about themselves are made), `MaxBirths`, `MaxKey`.

**Deadlock** is checked in `programs`, where `Rest` says that nothing is under way, and in `access`, where the process may always restart. Elsewhere
`CHECK_DEADLOCK FALSE`: the system may stop when every session is closed, every claim spent, every event settled and the clock at its bound. That nobody waits
for ever is what the liveness properties say.

**Symmetry** is declared in runs without liveness only, on values that no property and no other constant tells apart.

**Fairness** (`FairSpec`). In `Sessions`, `PhoneProofs` and `Registry`, a statement that waits for nobody runs (WF); one that waits for a row lock is granted it at
last if the lock is free again and again (SF): PostgreSQL queues the waiters of a row and wakes the first. `DeadlockAbort` is weakly fair: `deadlock_timeout`
elapses while a cycle stands. The delivery of a proof ends, because the prover aborts its call after a timeout and turns it into `DeliveryFailed`. The scheduler
ticks (its interval). In `Outbox` the loop of the worker goes on and its supervisor restarts it, the dispatcher answers one way or the other, time passes.
Nothing makes a client send a request, a process die, a line be lost or an account close: none of these is fair. An event whose handling throws
something other than `OutboundFailed` every time is outside this fairness: it ends the worker's pass each time, without counting an attempt.

**Every property has a mutant** in `PROJECT.json`: TLC finds the property violated once the definition marked `Fault:` takes the place of the one it distorts.

### What the properties say

* `OneChain`, `GraceIsNoFactory`: one ACTIVE token at the end of an unbroken chain; a token buys a successor only when it is the last or
  the one just before, however often it is presented.
* `VerdictStillTrue`, `RotationNeverRefused` (C16 in the code): nothing that runs between the lookup under the lock and the writes changes the
  verdict, or makes a trigger refuse the rotation.
* `RevocationIsTotal`, `ImplementsLedger`: nothing of a revoked session is usable, no session of a deactivated account is live, also for openings
  and rotations under way; in one step, as `SessionLedger` has it.
* `NeverCut`, `ClientInStep`, `ClientIsServed`: the honest client is not taken for a thief, keeps the token the base has as ACTIVE, and is refused only
  what has expired. They hold under `OneAtATime`, and both of its halves are needed. With two requests in flight, whose answers may arrive in the other order, TLC violates all
  three: the honest client keeps a replaced token and is cut. With one request at a time but the answer of a GRACE rotation lost as well (`MaxLost = 2`) it violates `ClientIsServed`:
  the verdict STALE falls on a client that holds no living token, which the comment at `session.service.ts:125` does not expect, and which can do nothing but ask again until the
  window is over and it is cut (`Timely` stops time there, so `NeverCut` does not show it).
* `OneHolder`, `OneStory`, `TakeoverIsAtomic`: a line has one holder; claims, successful proofs and loss events tell the same story; a line is lost only to a claim
  that is being proven; all across a rotation of the key.
* `OneProofAtATime`, `LineNearlyCapped`: the limits. The cap of the line is *not* exact: the count takes no lock on the line, so one more proof may
  be opened for each other request that counted at the same time, and `LineNearlyCapped` states the bound that does hold, per fingerprint.
* `DeactivatedIsMute`: no declaration by an account that is no longer ACTIVE.
* `RequestsEnd` (sessions, phone): every request ends, by an answer or an error.
* `FailedWhenExhausted`, `PaidChannelBounded`, `ImplementsDelivery`, `EveryEventEnds`: FAILED exactly when the attempts are spent; the paid channel is
  called at most `MaxAttempts` times, plus once per other worker and per death; the promise; every event ends.
* `CutHolds`: who has an ACTIVE account depends on nobody, who was emancipated never does again while they live (an insertion whose guard
  ran first passes if the person is emancipated *and* erased before its lock).
* `ErasureBuries`, `ErasedWasNoticed`, `ImplementsLife`, `DueIsSettled`: what the walls keep of an erased person (no account, claim or identity), the notice before
  the execution, the promise, and that what is due is settled unless somebody depends on the person alone: that one stays refused, by design, until a link is added.
* `OnePersonPerReference`, `AcceptedIsComplete`, `ClosedStaysClosed`: among what was written under the keys still kept, and under one key for good, the program's name is one person through
  clicks and rotations (not across the retirement of a key: the first person is then forgotten, and TLC reaches the second); nobody on an accepted invitation
  is left unjudged; a request of a program that began after the family closed a right never opens it (one that was past its guard before the closing is not concerned).
* `NearlyCapped`: the caps of invitations are overrun by concurrency only, by at most one per other connection; exact for a program on one line.
* `LockCovers`: a lock that one failure set is never cut short by another. `BudgetHolds`: in one life of the process nobody passes a door more than its budget at
  once, nor twice the budget less one in the length of a window (the windows are fixed, not sliding), whatever headers it forges.
* `ImplementsDoor`: an assertion counts once, from an ACTIVE identity, and is worth at most one token, although it was verified before it is recorded.

## 4. Findings

* **Two ends leave a dependent alone** (`registry_orphan`). The orphan check of 017 is a deferred constraint trigger: it reads what is committed when its own
  transaction is about to commit. Two transactions that end the two links of one dependent each still see the other's link, and both commit. The comment of
  `responsibilities.service.ts` promises the invariant at the commit.
* **A right survives the erasure** (`registry_remnant`). `erase_person` revokes grants and deletes the profile by UPDATEs with a snapshot each, and locks the account
  last. A grant or a profile whose transaction holds the account FOR SHARE commits in between and survives; a grant by a program or by staff takes no lock
  of the person at all. The header of 033 promises both in the same gesture.

Met while modelling, and left as remarks: GRACE does not hand back the successor already issued, as the class comment of `session.service.ts`
has it, but rotates it (what the comment is for holds: `OneChain`, `GraceIsNoFactory`); an accepted delivery has no cost row when the code is verified before
`record_proof_dispatch` runs; an `IMMEDIATE` request that meets a row in flight is answered as if delayed; a click on the reference of an erased dependent is an
error, not a refusal; a program token outlives the revocation of its client until it expires (`Call`); a process that dies between the two statements of
`registerFailure` leaves a counted failure without its lock.

Two more, seen with larger bounds than those of the runs. With three requests, an emancipation that an IMMEDIATE erasure overtakes may leave an emancipated
person with a link that a guard let through before both (017, lines 128–130, counts on the deferred check whatever the order): this is the exception in `CutHolds`. With four,
and without the second clause of `Pass`, an `IMMEDIATE` request that stalls between its record and its execution for as long as the days of reflection, while the record is retracted and a
`DELAYED` one is made, executes the latter without its notice once it is due. `ErasedWasNoticed` is stated and proved with that clause.

## 5. Proofs

Proved by TLAPS for every value of the constants that satisfies the assumptions the modules declare, and from nothing else. They are `SessionsAssumption`,
`RefreshClientAssumption`, `PhoneAssumption`, `OutboxAssumption`, `RegistryAssumption`, `ProgramsAssumption` and `AccessAssumption` (the sets of addresses, identifiers and
clients are apart, limits and durations are positive), `LegibleAssumption` (what cannot be parsed as an address is none), and a `PoolAssumption` in `PhoneProofs`, `Outbox` and `Programs`:
the pool of workers or connections is finite, as the bounds that speak of its size require. The theorems on the client have `OneAtATime` as a hypothesis.

Every invariant, action property and refinement that a passing run checks is proved:

| Module | Theorem | Statement |
|---|---|---|
| `SessionsProofs` | `TypeCorrect`, `InductiveHolds` | `Spec => []TypeOK`, `Spec => []Inductive` |
| | `ChainHolds`, `RevocationHolds`, `VerdictStaysTrue`, `RotationHolds` | `OneChain`, `RevocationIsTotal`, `VerdictStillTrue`, `RotationNeverRefused` always |
| `SessionsRefinement` | `LedgerImplemented` | `Spec => ImplementsLedger`: the tables implement `SessionLedger` |
| | `GraceIsBounded` | `Spec => GraceIsNoFactory` |
| `RefreshClientProofs` | `ClientInductiveHolds` | `OneAtATime => (ClientSpec => []ClientInductive)` |
| | `ClientNeverCut`, `ClientStaysInStep`, `ClientAlwaysServed` | under `OneAtATime`, `NeverCut`, `ClientInStep`, `ClientIsServed` always |
| `PhoneTheorems` | `PhoneInductive` | `Spec => []Inductive` (types included) |
| | `TypesHold`, `HolderIsAlone`, `ProofIsAlone`, `StoryIsOne` | `TypeOK`, `OneHolder`, `OneProofAtATime`, `OneStory` always |
| | `TakeoverInOneStep`, `DeactivatedDeclaresNothing` | `TakeoverIsAtomic`, `DeactivatedIsMute` |
| | `LineStaysNearlyCapped` | `LineNearlyCapped` always, for any cap, window and finite pool |
| `OutboxProofs` | `TypeCorrect`, `FailureIsExhaustion` | `TypeOK`, `FailedWhenExhausted` always |
| | `PaidCallsAreBounded` | `PaidChannelBounded` always |
| | `PublisherDelivers` | `Spec => ImplementsDelivery`: the publisher implements `EventDelivery` |
| `RegistryProofs` | `TypeCorrect`, `CutStands`, `BuriedForGood` | `TypeOK`, `CutHolds`, `ErasureBuries` always |
| | `NobodyLeavesUnwarned` | `ErasedWasNoticed` always |
| | `LifeImplemented` | `Spec => ImplementsLife`: the registry implements `PersonLife` |
| `ProgramsProofs` | `TypeCorrect` | `Spec => []TypeOK` |
| | `ReferenceIsOnePerson`, `AcceptanceIsWhole`, `CapsAlmostHold` | `OnePersonPerReference`, `AcceptedIsComplete`, `NearlyCapped` always |
| | `FamilyAloneReopens` | `ClosedStaysClosed` |
| `AccessProofs` | `TypeCorrect` | `Spec => []TypeOK` |
| | `LockNeverRecedes`, `BudgetIsKept` | `LockCovers`, `BudgetHolds` always |
| | `DoorKept` | `Spec => ImplementsDoor`: the exchange implements `ProgramDoor` |

**Sessions.** None of the properties is inductive alone. That a verdict is still true when acted on needs that nobody else writes the session
while the refresh holds it (`LocksExclude`), and that no deactivation of the account commits meanwhile: a deactivation commits only with every ACTIVE
session of the account locked by itself (`InOrder`), hence not while a refresh holds one. `RevocationIsTotal` for accounts needs that an opening under way saw the
account ACTIVE and shares its row, and that the rows the deactivation has still to lock or holds are all the ACTIVE ones. A chain that stays
regular needs that rows beyond the last token are absent (`RowsInOrder`), that no two transactions insert the same session (`OpensApart`), and that
expiries stay within the session (`TokenWithinSession`). `Inductive` is the conjunction, also checked by `sessions_chain`. Each conjunct has a lemma with one
step per action that can disturb it.

The refinement then needs, of each COMMIT, which rows of the ledger it changes. `LedgerRow` says what a session's two entries are in terms of its row and tokens;
`RevokesOwn` (a revocation holds sessions of its own account only, proved as an invariant beside `Inductive`) makes a deactivation the abstract `CloseAccount` rather than
a series of closings; `OpensLedger`, `ReplacesLedger`, `ShutsLedger` give the three kinds of change, and `LedgerStep` goes through the actions.

**The client.** `ClientInductive` adds three things to `Inductive`. The client alone writes its session, one transaction at a time (`ClientAlone`), and in order: nothing before the login is
answered, no refresh while an answer is on its way (`ClientInOrder`). Every token of the chain the client has not got is in an answer or was lost, so that with at most one lost the
token it keeps is the last or the one before (`ChainAccounted`). And while it waits no time limit runs out on it, because `Timely` is measured from the start of the transaction
that rotated what it keeps (`ClientInTime`): that is where GRACE rather than REPLAY comes from.

**Phone.** `Inductive` says that row locks exclude (two transactions never hold one claim), that what a transaction read under its locks is still so when it acts on it
(the claim it verifies is PENDING, the proof in progress, the rivals it revokes ACTIVE), that a claim has one proof in progress with an attempt left, that the status of a claim
and the outcome of its proofs tell the same story, and that every holder's fingerprint is under the reference key. The last one is what makes `OneHolder` survive a
rotation: two ACTIVE claims of one line would have equal fingerprints, which the unique index refuses. It is checked by `phone_limits`.
The cap of a line is not exact, and what is bounded is the sum of two counts: the rings of a window, and the workers that counted the line and are about to ring it (`Capped`). A worker joins
the second only when the first is below the cap and the others are at most the rest of the pool; a commit moves it from one to the other; time and the rotation of the key only take away.

**Outbox.** The invariant is small: the counters are naturals at most `MaxAttempts`, FAILED is the exhausted, and a worker about to confirm holds an event that has
been sent. The refinement maps each statement to `Reach`, `Tell`, `Refuse` or a stutter.
For the paid calls (`CallsCounted`): while an event is PENDING each call is an attempt that was counted, a death, or a call whose worker has not concluded; once it is closed, nobody takes it
again, and the workers that still hold it from an older batch, each at most once (`HeldOnce`), are counted before they call.

**Registry.** Everything rests on the row of the person. A claim, an emancipation past its lock and an erasure about to end hold it alone (`Keeps`), a new link about to be
committed shares it (`Shares`); `Apart` says that two transactions under way respect this, with the row of the erasure and the birth of a dependent. Then
what a transaction found under its locks stands until it acts (`Found`): the dependent of a new link has no ACTIVE account, whoever is emancipated has not been erased
since, all ACTIVE links of the emancipated are held by the emancipation, every live claim of the erased is among those the erasure revokes. Who is not born has
nothing (`UnbornInv`); who was emancipated has an ACTIVE account or has been erased (`EmancipatedInv`). `RegistryInv` is the conjunction with the two properties, since
each protects the other: an emancipation must not give an account to an erased person. The orphan check (`NobodyAlone`) has no row in common to rest on, which is the finding.
`NoticeInv` is for the notice: a tick lists at its start all who fall due before it can end, and has told them by the time it executes (`TickWarns`); what is recorded
after an IMMEDIATE request falls due later than that request can execute (`RequestWarns`); from then on the row of the erasure is held (`ExecutesWarned`).
For the refinement, `ThingsMove` and `ErasureMoves` say what a step that touches the things, or the erasure, of one person is in `PersonLife`; `LifeLeaves` is the commit.

**Programs.** `RefsInv`: a click past the lookup holds the lock of its reference and computed the fingerprint under the key that is active, two such clicks
have different references, and nothing is written under a key before it is active, so that a key that is added brings nothing into the lookup; persons are born in order, so that a new one is nobody else's (`BornInv`). `RowsInv`: an invitation that a transaction holds is PENDING and is held by
it alone, and the outcomes of an answer cover the dependents of the row. `ClosedInv`: a row that a request found closed stays closed.
`CapsInv` counts, for any window, what a program has created together with the clicks let through that will create: for one line the clicks exclude each other, so the sum never passes the cap;
over all lines, and for what a line shows to its family, it passes it by the rest of the pool at most. That a click creates only where no PENDING invitation was found, and holds the
one it found, is `LineInv`. `TypeOK` needs that only the last grant of a pair is ACTIVE (`LastInv`) and that a number is left for each birth a click under way may make (`WhoInv`).

**Access.** A failure sets a lock only where it does not shorten the one that runs, so the greatest of the locks asked for is in force. Of an exchange, what is needed is small: one that
is about to issue was recorded as accepted, no token of its assertion exists yet, and no other request holds the same assertion at that step.
The budget has two halves. Whatever a caller writes in its headers, the service sees the caller's own address (`SeenAsThemselves`), so all its requests at a door fall on one counter. And
a counter is consumed or left, but not forgotten while its window runs, by a sweep or otherwise. `Within` is the account: a window that runs has let through no more than it counted, less the first once
its first instant is past, and of the windows before it less than a full one is within reach; hence `2 * MaxAttempts - 1` in any interval of one length. `TypeOK` needs that a failure takes the place
of a verification under way, so that failures and verifications together are no more than the requests made (`Attempts`).

**Only model-checked.** Liveness: `RequestsEnd` of `Sessions` and of `PhoneProofs`, `EveryEventEnds`, `DueIsSettled`. They rest on fairness and on what is enabled, which the prover does not
reason about. The two violated properties (`registry_orphan`, `registry_remnant`) are counterexamples of TLC.

## 6. Plan

Done: the six detailed specifications, their four abstract ones, and the proofs above. Next, in this order:

1. the composition of `PhoneProofs` with `Registry` at the grain of both (a verification against an erasure), now abstracted on each side;
2. the retirement of an account secret, once the repository calls it.

## 7. Not modelled

Keyrings and encryption: pure functions; the models take fingerprints and codes as values that match or do not. Bootstrap, configuration, observability, health,
operational scripts, database roles and error codes: run once, alone, or keep no state the rest depends on. The simulated prover and dispatcher are test doubles; the
models take the interface they double. Of account secrets, the retirement and the provisional secrets, which no code in the repository makes; of profiles and public
identifiers, their contents and alphabet. Of the throttles, those of refresh, emancipation and erasure (`main.ts:76`, `:128`, `:141`): the same class with the budgets of login and of
registration, in front of operations that `Sessions` and `Registry` have. Of the client address, the signals it emits for the operator.

## 8. Running

    tlc -workers 2 -config SessionsChain.cfg MCSessions
    tlc -workers 2 -config PhoneTakeover.cfg MCPhoneProofs
    tlc -workers 2 -config Registry.cfg MCRegistry
    tlapm SessionsProofs.tla
    tlapm RefreshClientProofs.tla
    tlapm PhoneTheorems.tla
    tlapm OutboxProofs.tla
    tlapm RegistryProofs.tla
    tlapm ProgramsProofs.tla
    tlapm AccessProofs.tla
