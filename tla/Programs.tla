------------------------------ MODULE Programs ------------------------------
(***************************************************************************)
(* The catalogue: who may open or close a program for a person, and the    *)
(* click of a program that opens its door to a dependent and invites the   *)
(* holder of a telephone line to answer for them (src/src/catalog,         *)
(* src/src/programs, src/src/invitations; db/schema/012, 018, 019, 021,    *)
(* 023, 024, 027, 032).                                                    *)
(*                                                                         *)
(* A transaction is one request; what it wrote is seen at its commit, and  *)
(* now() is the time at which it began.  Who holds a line is PhoneProofs'  *)
(* and what becomes of a dependent Registry's business: here a line has    *)
(* one holder, and a dependent meets their fate in one step.               *)
(***************************************************************************)
EXTENDS Integers, Sequences, FiniteSets

CONSTANTS
    Families,            \* persons with an ACTIVE account
    Granted, SelfService,\* the programs offered, by access mode
    Lines, Holder,       \* telephone lines, and who holds each (or Nobody)
    References,          \* a program's own names for its dependents
    Connections,         \* connections of the API
    Nobody,
    ClientCap, ClientWindow,   \* invitations of a program in a window
    LineCap, LineWindow,       \* invitations shown on a line in a window
    Ttl,                       \* life of an invitation
    MaxKey,              \* bound: keys of the reference keyring
    MaxTime,             \* bound: the clock
    MaxBirths,           \* bound: dependents
    MaxRequests          \* bound: requests, and fates of dependents

Dependents == 1..MaxBirths     \* numbered as they are born
Persons == Families \cup Dependents
Offered == Granted \cup SelfService

ASSUME ProgramsAssumption ==
    /\ Granted \cap SelfService = {} /\ Families \cap Nat = {}
    /\ Nobody \notin Families \cup Nat /\ Holder \in [Lines -> Families \cup {Nobody}]
    /\ ClientCap \in Nat /\ LineCap \in Nat /\ Ttl \in Nat \ {0}
    /\ ClientWindow \in Nat \ {0} /\ LineWindow \in Nat \ {0}
    /\ MaxKey \in Nat \ {0} /\ MaxBirths \in Nat /\ MaxTime \in Nat /\ MaxRequests \in Nat

\* A finite pool of connections, for what is counted of the requests under way.
ASSUME PoolAssumption == IsFiniteSet(Connections) /\ Connections # {}

VARIABLES
    grants,       \* program_grants: the rows of a person and a program, by seq
    keys,         \* program_idempotency_keys
    invitations,  \* program_invitations, each with its dependents and their outcomes
    links,        \* ACTIVE responsibilities: responsible, dependent
    fate,         \* what became of each person; "autonomous" has an account
    keyring,      \* the keys of the reference keyring
    activeKey,    \* the one of them that new fingerprints are made with
    clock,
    asked,        \* how many requests were made
    tx            \* the transaction of each connection

data == <<grants, keys, invitations, links, fate>>
vars == <<data, keyring, activeKey, clock, asked, tx>>

Idle == [op |-> "none"]
None == [by |-> "NOBODY", status |-> "NONE", reason |-> "NONE"]

Init ==
    /\ grants = [x \in Persons \X Offered |-> <<>>]
    /\ keys = {}
    /\ invitations = <<>>
    /\ links = {}
    /\ fate = [x \in Persons |-> IF x \in Families THEN "autonomous" ELSE "unborn"]
    /\ keyring = {1} /\ activeKey = 1 /\ clock = 0 /\ asked = 0
    /\ tx = [c \in Connections |-> Idle]

-----------------------------------------------------------------------------
Exists(x) == fate[x] # "unborn"
HasAccount(x) == fate[x] = "autonomous"
IsErased(x) == fate[x] = "erased"

At(c, op, step) == tx[c].op = op /\ tx[c].step = step

\* A request arrives, on a connection when it takes more than one step.
Ask == asked < MaxRequests /\ asked' = asked + 1

Begin(c, request) ==
    /\ Ask /\ tx[c] = Idle
    /\ tx' = [tx EXCEPT ![c] = request]
    /\ UNCHANGED <<data, keyring, activeKey, clock>>

\* The next statement of c's transaction, before its commit: nobody sees what it wrote.
Proceed(c, next) ==
    /\ tx' = [tx EXCEPT ![c] = next]
    /\ UNCHANGED <<data, keyring, activeKey, clock, asked>>

End(c) == tx' = [tx EXCEPT ![c] = Idle] /\ UNCHANGED <<keyring, activeKey, clock, asked>>

-----------------------------------------------------------------------------
(***************************************************************************)
(* Grants.                                                                 *)
(***************************************************************************)
LastGrant(x, p) ==
    LET rows == grants[<<x, p>>] IN IF rows = <<>> THEN None ELSE rows[Len(rows)]

IsActive(x, p) == LastGrant(x, p).status = "ACTIVE"
ClosedByFamily(x, p) == LastGrant(x, p).reason = "SELF"

\* Fault: a program opens again what the family closed.
MayGrantAnything(by, x, p) ==
    /\ ~IsErased(x)
    /\ by = "SELF" => HasAccount(x) /\ (p \in Granted => ClosedByFamily(x, p))
    /\ by = "PROGRAM" => p \in Granted

\* guard_program_grant_insert and wall_erased_person_grant: whoever acts, and what the last
\* row of the couple says.
MayGrant(by, x, p) ==
    /\ MayGrantAnything(by, x, p)
    /\ by = "PROGRAM" => ~ClosedByFamily(x, p)

WithGrant(by, x, p) ==
    [grants EXCEPT ![<<x, p>>] = Append(@, [by |-> by, status |-> "ACTIVE", reason |-> "NONE"])]

WithoutGrant(g, x, p, why) ==
    [g EXCEPT ![<<x, p>>][Len(g[<<x, p>>])] = [@ EXCEPT !.status = "REVOKED", !.reason = why]]

\* For ClosedStaysClosed: the rows the family had closed when a request began.
ClosedRows(p) == {<<x, Len(grants[<<x, p>>])>> : x \in {x \in Persons : ClosedByFamily(x, p)}}

\* The insertion of a row: its guard reads what is committed now; what the guard refuses
\* changes nothing.
Insertion(c, by, x, p) ==
    /\ MayGrant(by, x, p)
    /\ Begin(c, [op |-> "grant", step |-> "insert", by |-> by, person |-> x, program |-> p,
                 closed |-> ClosedRows(p)])

\* grant_program_self: the person is the account's own.
Activate(c, x, p) == HasAccount(x) /\ Insertion(c, "SELF", x, p)

\* grant_program_staff: for the person of an ACTIVE account.
GrantAsStaff(c, x, p) == HasAccount(x) /\ Insertion(c, "STAFF", x, p)

\* grant_program_as_program: for a person whose identifier the program holds.
OpenForKnownPerson(c, x, p) == Exists(x) /\ p \in Granted /\ Insertion(c, "PROGRAM", x, p)

\* Fault: no unique index on the ACTIVE row.
InsertedTwice(t) == WithGrant(t.by, t.person, t.program)

\* uq_program_grants_active: the insertion waits for whoever holds the ACTIVE row of the
\* couple; if there is one in the end, ALREADY_ACTIVE.
Inserted(t) ==
    IF IsActive(t.person, t.program) THEN grants ELSE WithGrant(t.by, t.person, t.program)

Insert(c) ==
    /\ At(c, "grant", "insert")
    /\ grants' = Inserted(tx[c])
    /\ End(c)
    /\ UNCHANGED <<keys, invitations, links, fate>>

\* One UPDATE of the ACTIVE row.  revoke_program_grant_self and _as_program differ in who
\* acts and in the reason they stamp.
Revoke(x, p, why) ==
    /\ Ask /\ IsActive(x, p)
    /\ grants' = WithoutGrant(grants, x, p, why)
    /\ UNCHANGED <<keys, invitations, links, fate, keyring, activeKey, clock, tx>>

Deactivate(x, p) == HasAccount(x) /\ Revoke(x, p, "SELF")
RevokeForKnownPerson(x, p) == Revoke(x, p, "PROGRAM")

-----------------------------------------------------------------------------
(***************************************************************************)
(* The click: open_dependent_access.                                       *)
(***************************************************************************)
\* The persons a program names so, under the keys the keyring still has: what was written
\* under a key since retired is not found.
KnownAs(p, r) ==
    {e.person : e \in {e \in keys : e.program = p /\ e.reference = r /\ e.key \in keyring}}
\* Fault: only under the active key.
KnownUnderActive(p, r, k) ==
    {e.person : e \in {e \in keys : e.program = p /\ e.reference = r /\ e.key = k}}

\* The reference is looked for under every key of the keyring.
LookUp(p, r, k) == KnownAs(p, r)

Clicks(p) == {c \in Connections : tx[c].op = "click" /\ tx[c].program = p}
Unborn == {d \in Dependents : fate[d] = "unborn"}

\* bound: everybody who may be born of the clicks under way has a number.
MayBeBorn(p, r) ==
    KnownAs(p, r) # {} \/ Cardinality(Unborn) > Cardinality(UNION {Clicks(q) : q \in Granted})

\* Only for a GRANTED program and a minor; others are answered and nothing is written.
OpenDependentAccess(c, p, r, l) ==
    /\ p \in Granted /\ MayBeBorn(p, r)
    /\ Begin(c, [op |-> "click", step |-> "reference", program |-> p, reference |-> r, line |-> l,
                 now |-> clock, key |-> activeKey, closed |-> ClosedRows(p), person |-> Nobody,
                 rows |-> {}, live |-> {}, silent |-> FALSE, opens |-> FALSE])

Holds(c, steps) == tx[c].step \in steps

\* The advisory lock on the reference, under the active key, then the lookup.
ReferenceLock(c) ==
    /\ At(c, "click", "reference")
    /\ \A d \in Clicks(tx[c].program) \ {c} :
          <<tx[d].reference, tx[d].key>> = <<tx[c].reference, tx[c].key>>
              => ~Holds(d, {"line", "grant", "commit"})
    /\ LET known == LookUp(tx[c].program, tx[c].reference, tx[c].key)
       IN  Proceed(c, [tx[c] EXCEPT
                        !.step = "line",
                        !.person = IF known = {} THEN Nobody ELSE CHOOSE x \in known : TRUE])

Created(ids, since, window) == {i \in ids : invitations[i].created + window > since}
OfProgram(p) == {i \in DOMAIN invitations : invitations[i].program = p}
OnLine(l) == {i \in DOMAIN invitations : invitations[i].line = l}
Pending(p, l) == {i \in OfProgram(p) \cap OnLine(l) : invitations[i].status = "PENDING"}
Outlived(i, now) == invitations[i].created + Ttl <= now

AtCap(p, now) == Cardinality(Created(OfProgram(p), now, ClientWindow)) >= ClientCap
\* Fault: one invitation more than the cap.
OverCap(p, now) == Cardinality(Created(OfProgram(p), now, ClientWindow)) > ClientCap
ClientAtCap(p, now) == AtCap(p, now)

LineAtCap(l, but, now) == Cardinality(Created(OnLine(l) \ but, now, LineWindow)) >= LineCap

\* Fault: the row of an invitation is read without FOR UPDATE.
RowOnlyRead(i) == FALSE

\* Who keeps the row of an invitation FOR UPDATE.
RowTaken(i) ==
    \E c \in Connections : tx[c] # Idle /\ tx[c].step \in {"grant", "commit"} /\ i \in tx[c].rows

\* open_program_invitation: the advisory lock on the program's line, then the PENDING
\* invitation FOR UPDATE, which whoever accepts or declines it may hold.
LineLock(c) ==
    /\ At(c, "click", "line")
    /\ \A d \in Clicks(tx[c].program) \ {c} :
          tx[d].line = tx[c].line => ~Holds(d, {"grant", "commit"})
    /\ \A i \in Pending(tx[c].program, tx[c].line) : ~RowTaken(i)

Existing(c) == Pending(tx[c].program, tx[c].line)
Live(c) == {i \in Existing(c) : ~Outlived(i, tx[c].now)}

Closed(ids, how) ==
    [i \in DOMAIN invitations |->
        IF i \in ids THEN [invitations[i] EXCEPT !.status = how] ELSE invitations[i]]

\* The client's cap refuses everything; the outlived invitation is closed all the same.
RefuseAtCap(c) ==
    /\ LineLock(c) /\ Live(c) = {} /\ ClientAtCap(tx[c].program, tx[c].now)
    /\ invitations' = Closed(Existing(c), "EXPIRED")
    /\ End(c)
    /\ UNCHANGED <<grants, keys, links, fate>>

\* The live invitation is the one, and is shown at last if its line has room again; or a new
\* one is made, which the line's cap keeps silent.
Silent(c) ==
    IF Live(c) = {} THEN LineAtCap(tx[c].line, {}, tx[c].now)
    ELSE \E i \in Live(c) : invitations[i].suppressed /\ LineAtCap(tx[c].line, {i}, tx[c].now)

TakeInvitation(c) ==
    /\ LineLock(c) /\ (Live(c) = {} => ~ClientAtCap(tx[c].program, tx[c].now))
    /\ Proceed(c, [tx[c] EXCEPT !.step = "grant", !.rows = Existing(c), !.live = Live(c),
                                !.silent = Silent(c)])

\* The right: nothing if there is one, or if the family closed it; the wall stops the click
\* for somebody who was erased.
TakeGrant(c) ==
    /\ At(c, "click", "grant")
    /\ LET x == tx[c].person
           p == tx[c].program
           opens == x = Nobody \/ ~(IsActive(x, p) \/ ClosedByFamily(x, p))
       IN  Proceed(c, IF opens /\ x # Nobody /\ ~MayGrant("PROGRAM", x, p) THEN Idle
                      ELSE [tx[c] EXCEPT !.step = "commit", !.opens = opens])

NextBorn == Cardinality(Dependents \ Unborn) + 1

Listed(i, x) ==
    LET known == invitations[i].outcome
    IN  [d \in DOMAIN known \cup {x} |-> IF d \in DOMAIN known THEN known[d] ELSE "NONE"]

\* The junction: the dependent is on the invitation, once.
Invited(t, x) ==
    IF t.live = {}
    THEN Append(Closed(t.rows, "EXPIRED"),
                [program |-> t.program, line |-> t.line, status |-> "PENDING",
                 suppressed |-> t.silent, created |-> t.now, outcome |-> [d \in {x} |-> "NONE"]])
    ELSE [i \in DOMAIN invitations |->
             IF i \in t.live
             THEN [invitations[i] EXCEPT !.suppressed = @ /\ t.silent, !.outcome = Listed(i, x)]
             ELSE invitations[i]]

\* Birth, key, right and junction appear together, or not at all: another ACTIVE row made
\* meanwhile is a violation of uq_program_grants_active, which nothing here catches.
CommitClick(c) ==
    /\ At(c, "click", "commit")
    /\ LET t == tx[c]
           x == IF t.person = Nobody THEN NextBorn ELSE t.person
       IN  IF t.opens /\ IsActive(x, t.program) THEN UNCHANGED data
           ELSE /\ grants' = IF t.opens THEN WithGrant("PROGRAM", x, t.program) ELSE grants
                /\ keys' = IF t.person # Nobody THEN keys
                           ELSE keys \cup {[program |-> t.program, reference |-> t.reference,
                                            key |-> t.key, person |-> x]}
                /\ fate' = IF t.person # Nobody THEN fate ELSE [fate EXCEPT ![x] = "minor"]
                /\ invitations' = Invited(t, x)
                /\ UNCHANGED links
    /\ End(c)

-----------------------------------------------------------------------------
(***************************************************************************)
(* The answer of the line's holder.                                        *)
(***************************************************************************)
Answer(c, a, i, op) ==
    /\ i \in DOMAIN invitations
    /\ Begin(c, [op |-> op, step |-> "begin", account |-> a, invitation |-> i, now |-> clock,
                 rows |-> {}, outcome |-> <<>>])

Accept(c, a, i) == Answer(c, a, i, "accept")
Decline(c, a, i) == Answer(c, a, i, "decline")

Answering(c) == tx[c].op \in {"accept", "decline"} /\ tx[c].step = "begin"

\* What list shows an account, and what it may answer.
Answerable(i, now) ==
    invitations[i].status = "PENDING" /\ ~invitations[i].suppressed /\ ~Outlived(i, now)
Visible(i, a, now) == Answerable(i, now) /\ Holder[invitations[i].line] = a

\* UNKNOWN, ALREADY_SETTLED, LINE_NOT_PROVEN: nothing is written; EXPIRED is, whoever asks.
Dismiss(c) ==
    /\ Answering(c)
    /\ LET i == tx[c].invitation
           late == invitations[i].status = "PENDING" /\ ~invitations[i].suppressed
                   /\ Outlived(i, tx[c].now)
       IN  /\ ~RowTaken(i) /\ ~Visible(i, tx[c].account, tx[c].now)
           /\ invitations' = IF late THEN Closed({i}, "EXPIRED") ELSE invitations
    /\ End(c)
    /\ UNCHANGED <<grants, keys, links, fate>>

DeclineInvitation(c) ==
    /\ Answering(c) /\ tx[c].op = "decline"
    /\ LET i == tx[c].invitation
       IN  /\ ~RowTaken(i) /\ Visible(i, tx[c].account, tx[c].now)
           /\ invitations' = Closed({i}, "DECLINED")
    /\ End(c)
    /\ UNCHANGED <<grants, keys, links, fate>>

Outcome(a, d) ==
    CASE fate[d] = "erased"     -> "SKIPPED_ERASED"
      [] <<a, d>> \in links     -> "ALREADY_LINKED"
      [] fate[d] = "autonomous" -> "SKIPPED_AUTONOMOUS"
      [] fate[d] = "of age"     -> "SKIPPED_OF_AGE"
      [] OTHER                  -> "LINKED"

\* accept_program_invitation keeps the row and judges every dependent on it.
AcceptInvitation(c) ==
    /\ Answering(c) /\ tx[c].op = "accept"
    /\ LET i == tx[c].invitation
       IN  /\ ~RowTaken(i) /\ Visible(i, tx[c].account, tx[c].now)
           /\ Proceed(c, [tx[c] EXCEPT !.step = "commit", !.rows = {i},
                         !.outcome = [d \in DOMAIN invitations[i].outcome |->
                                         Outcome(tx[c].account, d)]])

NewLinks(t) == {<<t.account, d>> : d \in {d \in DOMAIN t.outcome : t.outcome[d] = "LINKED"}}

\* The walls of 017 have the last word on each new link: what became of a dependent since
\* undoes the whole answer.
CommitAccept(c) ==
    /\ At(c, "accept", "commit")
    /\ LET t == tx[c]
           stands == \A l \in NewLinks(t) : Outcome(l[1], l[2]) = "LINKED"
       IN  IF ~stands THEN UNCHANGED data
           ELSE /\ links' = links \cup NewLinks(t)
                /\ invitations' = [invitations EXCEPT ![t.invitation].status = "ACCEPTED",
                       ![t.invitation].outcome =
                           [d \in DOMAIN @ |-> IF d \in DOMAIN t.outcome THEN t.outcome[d] ELSE @[d]]]
                /\ UNCHANGED <<grants, keys, fate>>
    /\ End(c)

-----------------------------------------------------------------------------
(***************************************************************************)
(* What happens outside: the calendar, Registry's acts on a dependent, and *)
(* the rotation of the reference keyring: a key is added and made active,  *)
(* an old one retired, each by a redeployment that no click overlaps (024, *)
(* docs/ops/ROTATION.md, section 4).                                       *)
(***************************************************************************)
Meet(d, what) ==
    /\ Ask
    /\ fate' = [fate EXCEPT ![d] = what]
    /\ UNCHANGED <<keys, invitations, keyring, activeKey, clock, tx>>

ComeOfAge(d) == fate[d] = "minor" /\ Meet(d, "of age") /\ UNCHANGED <<grants, links>>

Emancipate(d) ==
    /\ fate[d] \in {"minor", "of age"} /\ Meet(d, "autonomous")
    /\ links' = {l \in links : l[2] # d}
    /\ UNCHANGED grants

EraseDependent(d) ==
    /\ fate[d] \in {"minor", "of age", "autonomous"} /\ Meet(d, "erased")
    /\ links' = {l \in links : l[2] # d}
    /\ grants' = [k \in DOMAIN grants |->
                     IF k[1] = d /\ IsActive(d, k[2]) THEN WithoutGrant(grants, d, k[2], "ERASED")[k]
                     ELSE grants[k]]

RotateReferenceKey ==
    /\ activeKey < MaxKey /\ \A p \in Granted : Clicks(p) = {}
    /\ keys # {}                  \* bound: before that, it changes nothing anyone reads
    /\ activeKey' = activeKey + 1 /\ keyring' = keyring \cup {activeKey'}
    /\ UNCHANGED <<data, clock, asked, tx>>

\* The last step of a rotation, whenever the operator takes it: an old key leaves the
\* keyring, and no key comes back to it.
RetireReferenceKey(k) ==
    /\ k \in keyring \ {activeKey} /\ \A p \in Granted : Clicks(p) = {}
    /\ keyring' = keyring \ {k}
    /\ UNCHANGED <<data, activeKey, clock, asked, tx>>

Pass == clock < MaxTime /\ clock' = clock + 1 /\ UNCHANGED <<data, keyring, activeKey, asked, tx>>

\* Nothing is under way.
Rest == (\A c \in Connections : tx[c] = Idle) /\ UNCHANGED vars

-----------------------------------------------------------------------------
CatalogRequest(c) ==
    \E x \in Persons, p \in Offered : Activate(c, x, p) \/ GrantAsStaff(c, x, p)

ProgramRequest(c) ==
    \/ \E x \in Persons, p \in Offered : OpenForKnownPerson(c, x, p)
    \/ \E p \in Granted, r \in References, l \in Lines : OpenDependentAccess(c, p, r, l)

Withdrawal == \E x \in Persons, p \in Offered : Deactivate(x, p) \/ RevokeForKnownPerson(x, p)

InvitationRequest(c) ==
    \E a \in Families, i \in DOMAIN invitations : Accept(c, a, i) \/ Decline(c, a, i)

Statement(c) ==
    \/ Insert(c) \/ ReferenceLock(c) \/ RefuseAtCap(c) \/ TakeInvitation(c) \/ TakeGrant(c)
    \/ CommitClick(c) \/ Dismiss(c) \/ DeclineInvitation(c) \/ AcceptInvitation(c)
    \/ CommitAccept(c)

Outside ==
    \/ \E d \in Dependents : ComeOfAge(d) \/ Emancipate(d) \/ EraseDependent(d)
    \/ RotateReferenceKey \/ (\E k \in 1..MaxKey : RetireReferenceKey(k)) \/ Pass

Next ==
    \/ \E c \in Connections :
          CatalogRequest(c) \/ ProgramRequest(c) \/ InvitationRequest(c) \/ Statement(c)
    \/ Withdrawal \/ Outside \/ Rest

Spec == Init /\ [][Next]_vars

-----------------------------------------------------------------------------
(***************************************************************************)
(* Properties.                                                             *)
(***************************************************************************)
\* The types, with what the two partial unique indexes say: of a person and a program only
\* the last grant can be ACTIVE, and of a program and a line one invitation is PENDING.
TypeOK ==
    /\ \A k \in Persons \X Offered : \A n \in DOMAIN grants[k] :
          /\ grants[k][n].by \in {"SELF", "STAFF", "PROGRAM"}
          /\ (grants[k][n].status = "ACTIVE") = (grants[k][n].reason = "NONE")
          /\ grants[k][n].status = "ACTIVE" => n = Len(grants[k])
    /\ keys \subseteq [program : Granted, reference : References, key : 1..MaxKey,
                       person : Dependents]
    /\ \A p \in Granted, l \in Lines : Cardinality(Pending(p, l)) <= 1
    /\ links \subseteq Families \X Dependents
    /\ fate \in [Persons -> {"unborn", "minor", "of age", "autonomous", "erased"}]
    /\ keyring \subseteq 1..activeKey /\ activeKey \in keyring
    /\ activeKey \in 1..MaxKey /\ clock \in 0..MaxTime /\ asked \in 0..MaxRequests

\* 024: among what was written under the keys still in the keyring, a reference of a program
\* is one person, through concurrent clicks and rotations; under one key it stays so for good.
\* Once its key is retired a reference is forgotten, and its next click makes a new person, as
\* docs/ops/ROTATION.md has it: the two are then under keys that are not both kept.
OnePersonPerReference ==
    \A e, f \in keys :
        /\ e.program = f.program /\ e.reference = f.reference
        /\ e.key = f.key \/ {e.key, f.key} \subseteq keyring
        => e.person = f.person

\* Whoever is on an ACCEPTED invitation was judged by the acceptance: no click adds a
\* dependent to an invitation that is being accepted, whom nobody would ever answer for.
AcceptedIsComplete ==
    \A i \in DOMAIN invitations : \A d \in DOMAIN invitations[i].outcome :
        (invitations[i].status = "ACCEPTED") = (invitations[i].outcome[d] # "NONE")

\* The caps are counted without a lock on what they count: a program is over its own, and a
\* line shows more recent invitations than its cap, by no more than the other connections;
\* on one line, where the clicks of a program exclude each other, the program's cap is exact.
NearlyCapped ==
    /\ \A p \in Granted, t \in 0..clock :
          LET recent == {i \in OfProgram(p) : invitations[i].created \in (t - ClientWindow + 1)..t}
          IN  /\ Cardinality(recent) <= ClientCap + Cardinality(Connections) - 1
              /\ \A l \in Lines : Cardinality(recent \cap OnLine(l)) <= ClientCap
    /\ \A l \in Lines :
          Cardinality({i \in Created(OnLine(l), clock, LineWindow) : ~invitations[i].suppressed})
              <= LineCap + Cardinality(Connections) - 1

\* 019, 012: what the family closed it alone opens again.  A request of the program that
\* began after the family closed the couple never opens it, by a grant or by a click.
ClosedStaysClosed ==
    [][\A c \in Connections, x \in Persons, p \in Offered :
          /\ tx[c] # Idle /\ tx'[c] = Idle /\ grants'[<<x, p>>] # grants[<<x, p>>]
          /\ grants'[<<x, p>>][Len(grants'[<<x, p>>])].by = "PROGRAM"
          => <<x, Len(grants[<<x, p>>])>> \notin tx[c].closed]_vars
=============================================================================
