------------------------------- MODULE Access -------------------------------
(***************************************************************************)
(* The doors of the API: the throttles and the client address they count   *)
(* by, login and its lock, registration, the exchange of a program's       *)
(* signed assertion for a token and the calls it allows, and the           *)
(* administration of program identities (src/src/auth, client-address,     *)
(* accounts, programs; src/scripts/program-client-admin.ts; db/schema/003, *)
(* 010, 011, 013).                                                         *)
(*                                                                         *)
(* Each statement of a request is a step, because none of these requests   *)
(* is a transaction.  The session a login or a registration then opens is  *)
(* Sessions' business, what a call does is Programs' and Registry's.       *)
(* Secrets neither expire nor retire here: nothing in src/ makes them.     *)
(***************************************************************************)
EXTENDS Integers, Sequences, FiniteSets, SequencesExt, FiniteSetsExt

CONSTANTS
    Addresses,           \* addresses of callers
    Proxies,             \* the declared reverse proxies
    Identifiers,         \* public identifiers an account may draw
    Clients, Kids, Jtis, \* program identities, names of keys, of assertions
    Connections,         \* requests in flight
    Window, MaxAttempts, \* of the throttles, in ticks, and of each, in requests
    SweepThreshold,      \* counters a throttle keeps before it sweeps
    LockThreshold, LockBase, LockCap,
    MaxDraws,            \* identifiers a registration draws
    AssertionTtl, TokenTtl,
    MaxTime,             \* bound: the clock
    MaxRequests          \* bound: requests

\* Each with a LoginThrottle of its own.  Left out: refresh, emancipation and erasure, whose
\* throttles are of the same class, in front of operations of Sessions and Registry.
Doors == {"login", "register", "token", "v1"}

ASSUME AccessAssumption ==
    /\ Addresses \cap Proxies = {} /\ Identifiers # {} /\ Identifiers \cap Clients = {}
    /\ Addresses \cap (Identifiers \cup Clients) = {}
    /\ Window \in Nat \ {0} /\ MaxAttempts \in [Doors -> Nat \ {0}] /\ SweepThreshold \in Nat
    /\ LockThreshold \in Nat \ {0} /\ LockBase \in Nat \ {0} /\ LockCap \in Nat \ {0}
    /\ MaxDraws \in Nat \ {0} /\ AssertionTtl \in Nat \ {0} /\ TokenTtl \in Nat \ {0}
    /\ MaxTime \in Nat /\ MaxRequests \in Nat

VARIABLES
    counters,     \* of each throttle: what it counts, with its window
    accounts,     \* identifiers in use
    failures,     \* failed_attempts of an account's secret
    lockedUntil,  \* its locked_until; 0: never locked
    clients,      \* program_clients: the status of each
    keys,         \* program_client_keys: the status of each kid
    assertions,   \* program_client_assertions: rows of each client and jti
    tokens,       \* expiries of the tokens each assertion gave
    clock, asked,
    tx,           \* the request of each connection
    passed,       \* ghost: the requests a throttle let through, by subject and instant
    promised      \* ghost: until when the secret was ever said to be locked

account == <<accounts, failures, lockedUntil, promised>>
program == <<clients, keys, assertions, tokens>>
gates == <<counters, passed, asked>>
vars == <<account, program, gates, clock, tx>>

Idle == [op |-> "none"]
Instants == 0..MaxTime

-----------------------------------------------------------------------------
(***************************************************************************)
(* ClientAddress.of: the address of a request is the first hop, walking    *)
(* back from the socket, that is not a declared proxy.                     *)
(***************************************************************************)
NotAnAddress == "garbage"

ASSUME LegibleAssumption == NotAnAddress \notin Addresses

Trusted(hop) == hop \in Proxies

FirstUntrusted(hops) ==
    LET outside == {n \in DOMAIN hops : ~Trusted(hops[n])}
    IN hops[IF outside = {} THEN Len(hops) ELSE Min(outside)]

\* Fault: the address the caller itself wrote first.
ClientAsClaimed(socket, forwarded) ==
    IF forwarded = <<>> \/ forwarded[1] = NotAnAddress THEN socket ELSE forwarded[1]

ClientOf(socket, forwarded) ==
    LET resolved == FirstUntrusted(<<socket>> \o Reverse(forwarded))
    IN IF resolved = NotAnAddress THEN socket ELSE resolved

\* How a caller reaches the service: straight, or through a proxy that appends the address
\* it saw; with whatever X-Forwarded-For the caller wrote.
Elsewhere == "elsewhere"
Forged == {<<>>} \cup {<<h>> : h \in Addresses \cup Proxies \cup {Elsewhere, NotAnAddress}}
Routes(a) == {<<a, f>> : f \in Forged} \cup {<<p, Append(f, a)>> : p \in Proxies, f \in Forged}

Seen(a) == {ClientOf(r[1], r[2]) : r \in Routes(a)}

-----------------------------------------------------------------------------
(***************************************************************************)
(* LoginThrottle, a fixed window for each key.                             *)
(***************************************************************************)
Ip(a) == <<"ip", a>>
Id(i) == <<"id", i>>
Key(k) == <<"k", k>>

Running(counter) == clock - counter.start < Window

Sweep(c) ==
    IF Cardinality(DOMAIN c) > SweepThreshold
    THEN [k \in {k \in DOMAIN c : Running(c[k])} |-> c[k]] ELSE c

Consume(c, k) ==
    LET kept == Sweep(c)
        running == k \in DOMAIN kept /\ Running(kept[k])
        counter == IF running THEN [kept[k] EXCEPT !.count = @ + 1]
                   ELSE [start |-> clock, count |-> 1]
    IN [x \in DOMAIN kept \cup {k} |-> IF x = k THEN counter ELSE kept[x]]

\* One counter, or two: the second is consumed also when the first refuses.
ConsumeAll(c, ks) ==
    IF Len(ks) = 1 THEN Consume(c, ks[1]) ELSE Consume(Consume(c, ks[1]), ks[2])

Allowed(door, ks) ==
    \A n \in DOMAIN ks : ConsumeAll(counters[door], ks)[ks[n]].count <= MaxAttempts[door]

\* A request counts at a door under the keys `ks'; when they allow it, it goes on as `next'.
\* `whom' are those the keys stand for, whatever the keys.
Arrive(c, door, ks, whom, next) ==
    /\ asked < MaxRequests /\ asked' = asked + 1
    /\ tx[c] = Idle
    /\ counters' = [counters EXCEPT ![door] = ConsumeAll(@, ks)]
    /\ IF Allowed(door, ks)
       THEN /\ tx' = [tx EXCEPT ![c] = next]
            /\ passed' = passed \cup
                  {[door |-> door, who |-> w, at |-> clock, number |-> asked'] : w \in whom}
       ELSE UNCHANGED <<tx, passed>>
    /\ UNCHANGED <<account, program, clock>>

At(c, op, step) == tx[c].op = op /\ tx[c].step = step
Go(c, next) == tx' = [tx EXCEPT ![c] = next] /\ UNCHANGED <<gates, clock>>
End(c) == Go(c, Idle)

Init ==
    /\ counters = [d \in Doors |-> <<>>]
    /\ accounts \in {{}, {CHOOSE i \in Identifiers : TRUE}}
    /\ failures = [i \in Identifiers |-> 0]
    /\ lockedUntil = [i \in Identifiers |-> 0]
    /\ promised = [i \in Identifiers |-> 0]
    /\ clients = [cl \in Clients |-> "unknown"]
    /\ keys = [cl \in Clients |-> [k \in Kids |-> "none"]]
    /\ assertions = [x \in Clients \X Jtis |-> 0]
    /\ tokens = [x \in Clients \X Jtis |-> <<>>]
    /\ clock = 0 /\ asked = 0
    /\ tx = [c \in Connections |-> Idle]
    /\ passed = {}

-----------------------------------------------------------------------------
(***************************************************************************)
(* AuthService.login.                                                      *)
(***************************************************************************)
LoginRequest(c, a, i) ==
    \E seen \in Seen(a) :
        Arrive(c, "login", <<Ip(seen), Id(i)>>, {a, i},
               [op |-> "login", step |-> "find", id |-> i])

\* authenticable_secrets shows nothing of an unknown or of a locked account: the reference
\* hash is verified, and the login fails.
Find(c) ==
    /\ At(c, "login", "find")
    /\ LET i == tx[c].id
       IN IF i \in accounts /\ lockedUntil[i] <= clock
          THEN Go(c, [tx[c] EXCEPT !.step = "verify"]) ELSE End(c)
    /\ UNCHANGED <<account, program>>

\* The right secret: the failures are forgotten, the lock is not, and a session opens.
Verified(c) ==
    /\ At(c, "login", "verify")
    /\ failures' = [failures EXCEPT ![tx[c].id] = 0]
    /\ End(c)
    /\ UNCHANGED <<accounts, lockedUntil, promised, program>>

\* registerFailure, its first statement.
CountFailure(c) ==
    /\ At(c, "login", "verify")
    /\ LET i == tx[c].id
       IN /\ failures' = [failures EXCEPT ![i] = @ + 1]
          /\ IF failures[i] + 1 < LockThreshold THEN End(c)
             ELSE Go(c, [op |-> "login", step |-> "lock", id |-> i, count |-> failures[i] + 1])
    /\ UNCHANGED <<accounts, lockedUntil, promised, program>>

Backoff(count) ==
    LET backoff == LockBase * 2^(count - LockThreshold)
    IN IF backoff \in 0..LockCap THEN backoff ELSE LockCap

\* Fault: the last to come decides.
MayAlwaysLock(i, until) == TRUE

\* guard_account_secret_update: a lock that still runs never recedes.
MayLock(i, until) == lockedUntil[i] > clock => until > lockedUntil[i]

\* Its second statement; a refused lock is swallowed (LOCK_WOULD_RECEDE).
Lock(c) ==
    /\ At(c, "login", "lock")
    /\ LET i == tx[c].id
           until == clock + Backoff(tx[c].count)
       IN /\ lockedUntil' = IF MayLock(i, until) THEN [lockedUntil EXCEPT ![i] = until]
                            ELSE lockedUntil
          /\ promised' = [promised EXCEPT ![i] = IF until > @ THEN until ELSE @]
    /\ End(c)
    /\ UNCHANGED <<accounts, failures, program>>

-----------------------------------------------------------------------------
(***************************************************************************)
(* RegistrationService.register.  A secret that is too short is refused    *)
(* once it has been counted.                                               *)
(***************************************************************************)
RegisterRequest(c, a) ==
    \E seen \in Seen(a), longEnough \in BOOLEAN :
        Arrive(c, "register", <<Key(seen)>>, {a},
               IF longEnough THEN [op |-> "register", step |-> "draw", draws |-> 0] ELSE Idle)

Create(c, i) ==
    /\ At(c, "register", "draw") /\ i \notin accounts
    /\ accounts' = accounts \cup {i}
    /\ End(c)
    /\ UNCHANGED <<failures, lockedUntil, promised, program>>

\* The account's identifier is taken, or the person's: that one is drawn again.
DrawAgain(c) ==
    /\ At(c, "register", "draw")
    /\ IF tx[c].draws + 1 < MaxDraws THEN Go(c, [tx[c] EXCEPT !.draws = @ + 1]) ELSE End(c)
    /\ UNCHANGED <<account, program>>

-----------------------------------------------------------------------------
(***************************************************************************)
(* ProgramAuthService.token, and the wall of /v1.                          *)
(***************************************************************************)
\* Fault: on a counter of its own, as it was until October 2026.
IllegibleKeysApart(seen) == <<Key(seen)>>

\* An assertion that cannot be read names no client: it counts under its address only.
IllegibleKeys(seen) == <<Ip(seen)>>

IllegibleRequest(c, a) ==
    \E seen \in Seen(a) : Arrive(c, "token", IllegibleKeys(seen), {a}, Idle)

Timely(exp) == exp > clock /\ exp <= clock + AssertionTtl

TokenRequest(c, a, cl, k, j) ==
    \E seen \in Seen(a), exp \in 0..(MaxTime + AssertionTtl + 1) :
        Arrive(c, "token", <<Ip(seen), Id(cl)>>, {a, cl},
               IF Timely(exp)
               THEN [op |-> "token", step |-> "candidate", client |-> cl, kid |-> k, jti |-> j]
               ELSE Idle)

\* The candidate key is read, and the signature verified or not.
Candidate(c) ==
    /\ At(c, "token", "candidate")
    /\ LET t == tx[c]
       IN \E authentic \in BOOLEAN :
            IF clients[t.client] = "ACTIVE" /\ keys[t.client][t.kid] = "ACTIVE" /\ authentic
            THEN Go(c, [op |-> "token", step |-> "record", client |-> t.client, jti |-> t.jti])
            ELSE End(c)
    /\ UNCHANGED <<account, program>>

\* Fault: without the guard, on the strength of the candidate that was read.
RecordUnderAnyone(cl, j) == assertions[cl, j] = 0

\* The insertion: uq_program_client_assertions_jti, guard_program_client_assertion_insert.
MayRecord(cl, j) == clients[cl] = "ACTIVE" /\ assertions[cl, j] = 0

Record(c) ==
    /\ At(c, "token", "record")
    /\ LET cl == tx[c].client
           j == tx[c].jti
       IN IF MayRecord(cl, j)
          THEN /\ assertions' = [assertions EXCEPT ![<<cl, j>>] = @ + 1]
               /\ Go(c, [tx[c] EXCEPT !.step = "issue"])
          ELSE UNCHANGED assertions /\ End(c)
    /\ UNCHANGED <<account, clients, keys, tokens>>

Issue(c) ==
    /\ At(c, "token", "issue")
    /\ tokens' = [tokens EXCEPT ![<<tx[c].client, tx[c].jti>>] = Append(@, clock + TokenTtl)]
    /\ End(c)
    /\ UNCHANGED <<account, clients, keys, assertions>>

\* A token that has not expired opens /v1, whatever became of its client.
Call(c, cl) ==
    /\ \E j \in Jtis : \E n \in DOMAIN tokens[cl, j] : tokens[cl, j][n] > clock
    /\ Arrive(c, "v1", <<Key(cl)>>, {cl}, Idle)

-----------------------------------------------------------------------------
(***************************************************************************)
(* program-client-admin: each command is one transaction that holds the    *)
(* row of the client.  Its programs stay ACTIVE.                           *)
(***************************************************************************)
RegisterClient(cl, k) ==
    /\ clients[cl] = "unknown"
    /\ clients' = [clients EXCEPT ![cl] = "ACTIVE"]
    /\ keys' = [keys EXCEPT ![cl][k] = "ACTIVE"]
    /\ UNCHANGED <<account, gates, assertions, tokens, clock, tx>>

\* Fault: the keys are left as they are.
LeftAlive(cl) == keys[cl]

Retired(cl) == [k \in Kids |-> IF keys[cl][k] = "ACTIVE" THEN "REVOKED" ELSE keys[cl][k]]

\* A kid serves once (uq_program_client_keys_kid).
RotateKey(cl, k) ==
    /\ clients[cl] = "ACTIVE" /\ keys[cl][k] = "none"
    /\ keys' = [keys EXCEPT ![cl] = [Retired(cl) EXCEPT ![k] = "ACTIVE"]]
    /\ UNCHANGED <<account, gates, clients, assertions, tokens, clock, tx>>

\* cascade_program_client_revocation puts out its keys.
RevokeClient(cl) ==
    /\ clients[cl] = "ACTIVE"
    /\ clients' = [clients EXCEPT ![cl] = "REVOKED"]
    /\ keys' = [keys EXCEPT ![cl] = Retired(cl)]
    /\ UNCHANGED <<account, gates, assertions, tokens, clock, tx>>

-----------------------------------------------------------------------------
Tick == clock < MaxTime /\ clock' = clock + 1 /\ UNCHANGED <<account, program, gates, tx>>

\* The process stops and starts again: what it had in memory is gone.
Restart ==
    /\ counters' = [d \in Doors |-> <<>>]
    /\ passed' = {}
    /\ tx' = [c \in Connections |-> Idle]
    /\ UNCHANGED <<account, program, clock, asked>>

Next ==
    \/ \E c \in Connections, a \in Addresses :
          \/ \E i \in Identifiers : LoginRequest(c, a, i)
          \/ RegisterRequest(c, a) \/ IllegibleRequest(c, a)
          \/ \E cl \in Clients, k \in Kids, j \in Jtis : TokenRequest(c, a, cl, k, j)
    \/ \E c \in Connections :
          \/ Find(c) \/ Verified(c) \/ CountFailure(c) \/ Lock(c)
          \/ DrawAgain(c) \/ \E i \in Identifiers : Create(c, i)
          \/ Candidate(c) \/ Record(c) \/ Issue(c)
          \/ \E cl \in Clients : Call(c, cl)
    \/ \E cl \in Clients :
          \/ RevokeClient(cl)
          \/ \E k \in Kids : RegisterClient(cl, k) \/ RotateKey(cl, k)
    \/ Tick \/ Restart

Spec == Init /\ [][Next]_vars

-----------------------------------------------------------------------------
\* Every variable keeps its type: counters have a window that began and a count that did,
\* a client that is not ACTIVE has no ACTIVE key.
TypeOK ==
    /\ \A d \in Doors : \A k \in DOMAIN counters[d] :
          counters[d][k].start <= clock /\ counters[d][k].count \in 1..MaxRequests
    /\ accounts \subseteq Identifiers
    /\ failures \in [Identifiers -> 0..MaxRequests]
    /\ lockedUntil \in [Identifiers -> 0..(MaxTime + LockCap)]
    /\ promised \in [Identifiers -> 0..(MaxTime + LockCap)]
    /\ clients \in [Clients -> {"unknown", "ACTIVE", "REVOKED"}]
    /\ keys \in [Clients -> [Kids -> {"none", "ACTIVE", "REVOKED"}]]
    /\ assertions \in [Clients \X Jtis -> 0..MaxRequests]
    /\ clock \in Instants /\ asked \in 0..MaxRequests
    /\ \A cl \in Clients : clients[cl] # "ACTIVE" => \A k \in Kids : keys[cl][k] # "ACTIVE"

\* However the failures of a secret interleave, a lock that one of them set is never cut
\* short by another (registerFailure and C8).
LockCovers == \A i \in Identifiers : lockedUntil[i] >= promised[i]

Passed(d, w, from, to) ==
    Cardinality({x \in passed : x.door = d /\ x.who = w /\ x.at \in from..to})

\* In one life of the process nobody, be it a caller or the account or client they aim at,
\* passes a door more than MaxAttempts times at once nor twice that, less one, in the
\* length of a window: whatever headers and whatever kind of assertions it sends, and
\* whatever is swept (LoginThrottle and ClientAddress).
BudgetHolds ==
    \A d \in Doors, w \in Addresses \cup Identifiers \cup Clients, t \in Instants :
        /\ Passed(d, w, t, t) <= MaxAttempts[d]
        /\ Passed(d, w, t, t + Window - 1) <= 2 * MaxAttempts[d] - 1

KeysOf(cl) == {k \in Kids : keys[cl][k] = "ACTIVE"}
Verifying == [cl \in Clients |-> KeysOf(cl)]
TokensGiven == [x \in Clients \X Jtis |-> Len(tokens[x])]

Door == INSTANCE ProgramDoor WITH
    standing <- clients,
    verifying <- Verifying,
    accepted <- assertions,
    granted <- TokensGiven

\* The exchange keeps the promise of ProgramDoor, although an assertion is verified against
\* a client and a key that may be revoked before it is recorded.
ImplementsDoor == Door!Spec
=============================================================================
