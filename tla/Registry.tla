------------------------------ MODULE Registry ------------------------------
(***************************************************************************)
(* Persons, who answers for whom, and how a person leaves: attachment of   *)
(* a dependent, co-responsible persons, the staff act that ends a link,    *)
(* emancipation, erasure and the scheduler that executes it                *)
(* (src/src/persons, db/schema/017, 020, 023, 026, 029, 033), with what    *)
(* the walls against re-identification protect: identity, profile, phone   *)
(* claim and grants of the person.                                         *)
(*                                                                         *)
(* A transaction takes its row locks one statement at a time and is seen   *)
(* by the others at its commit.  Constraint triggers are DEFERRED: they    *)
(* read what is committed when the transaction is about to commit (step    *)
(* "commit"), which is before the others see it.                           *)
(***************************************************************************)
EXTENDS Naturals, FiniteSets

CONSTANTS
    Adults,       \* persons registered with an account of their own
    Minors,       \* persons who may be attached as dependents
    OfAge,        \* minors old enough to be emancipated
    Requests,     \* connections of the API
    Scheduler,    \* the connection of the worker
    Nobody,       \* no person
    Subjects,     \* bound: persons whose requests about themselves are made
    Window, Lead, \* erasure_policy: days to retract, hours of notice
    MaxTime,      \* bound: the clock
    MaxRequests   \* bound: how many requests are made

Persons == Adults \cup Minors
Connections == Requests \cup {Scheduler}

ASSUME RegistryAssumption ==
    /\ Adults \cap Minors = {} /\ Adults # {} /\ Minors # {}
    /\ OfAge \subseteq Minors
    /\ Scheduler \notin Requests /\ Nobody \notin Persons /\ Subjects \subseteq Persons
    /\ Window \in Nat /\ Lead \in 1..Window
    /\ MaxTime \in Nat /\ MaxRequests \in Nat

VARIABLES
    account,   \* accounts.status of each person
    links,     \* the ACTIVE rows of person_responsibilities: responsible, dependent
    cut,       \* minors with a link ended EMANCIPATED
    has,       \* what is recorded of a person: identity, profile, ACTIVE grant, claim
    erasure,   \* the last row of person_erasures of each person
    clock,
    tick,      \* the scheduler's tick
    asked,     \* how many requests were made
    tx         \* what the transaction of each connection is doing

State == <<account, links, cut, has, erasure>>
vars == <<State, clock, tick, asked, tx>>

-----------------------------------------------------------------------------
\* "unborn" is the account status of a minor whose persons row does not exist.
Things == {"identity", "profile", "grant", "PENDING", "ACTIVE"}
Claims == {"PENDING", "ACTIVE"}      \* the status of a live phone claim

Tx == [op : {"none", "attach", "add", "end", "emancipate", "retract", "profile", "grant", "given",
             "claim", "erase"},
       step : {"idle", "begin", "guard", "minor", "links", "person", "account", "commit"},
       p : Persons \cup {Nobody},  \* who acts, whose link ends, who is erased
       q : Adults \cup {Nobody},   \* co-responsible or replacement
       m : Minors \cup {Nobody},
       now : 0..MaxTime,       \* now() of the transaction
       todo : SUBSET (Adults \X Minors),   \* links its UPDATE has still to lock
       held : SUBSET (Adults \X Minors),   \* links it has locked
       seen : SUBSET Things]   \* what its UPDATEs found to revoke

NoTx == [op |-> "none", step |-> "idle", p |-> Nobody, q |-> Nobody, m |-> Nobody, now |-> 0,
         todo |-> {}, held |-> {}, seen |-> {}]

NoErasure == [status |-> "none", mode |-> "DELAYED", due |-> 0, noticed |-> FALSE]
NoTick == [step |-> "idle", todo |-> {}, at |-> 0]

\* The program starts with some persons attached, phone claims of dependents waiting for
\* their code, and erasures of their own account waiting for their day.
Init ==
    /\ links \in SUBSET (Adults \X Minors)
    /\ account = [p \in Persons |-> CASE p \in Adults -> "ACTIVE"
                                     [] \E a \in Adults : <<a, p>> \in links -> "none"
                                     [] OTHER -> "unborn"]
    /\ cut = {}
    /\ \E waiting \in SUBSET {m \in OfAge : account[m] = "none"}, leaving \in SUBSET (Adults \cap Subjects) :
          /\ has = [p \in Persons |-> (IF account[p] = "none" THEN {"identity"} ELSE {})
                                      \cup (IF p \in waiting THEN {"PENDING"} ELSE {})]
          /\ erasure = [p \in Persons |->
                          IF p \in leaving THEN [NoErasure EXCEPT !.status = "REQUESTED", !.due = Window]
                          ELSE NoErasure]
    /\ clock = 0
    /\ tick = NoTick
    /\ asked = 0
    /\ tx = [w \in Connections |-> NoTx]

LinksOf(p) == {l \in links : l[1] = p}
LinksOn(m) == {l \in links : l[2] = m}
Erased(p) == erasure[p].status = "COMPLETED"

-----------------------------------------------------------------------------
\* Row locks: FOR SHARE and FOR UPDATE, held to the end of the transaction.
S(row) == [row |-> row, mode |-> "S"]
X(row) == [row |-> row, mode |-> "X"]
Row(table, p) == <<table, p>>

Holds(w) == LET t == tx[w] IN
    CASE t.op \in {"attach", "retract", "profile", "grant"} -> {S(Row("accounts", t.p))}
      [] t.op = "claim" -> {X(Row("persons", t.p))}
            \cup (IF account[t.p] = "ACTIVE" THEN {S(Row("accounts", t.p))} ELSE {})
      [] t.op \in {"add", "end"} -> {X(l) : l \in t.held}
            \cup (IF t.op = "add" THEN {S(Row("accounts", t.p))} ELSE {})
            \cup (IF t.q # Nobody /\ t.step \in {"minor", "commit"} THEN {S(Row("accounts", t.q))} ELSE {})
            \cup (IF t.q # Nobody /\ t.step = "commit" THEN {S(Row("persons", t.m))} ELSE {})
      [] t.op = "emancipate" -> {X(l) : l \in t.held}
            \cup (IF t.step # "begin" THEN {X(Row("persons", t.m))} ELSE {})
      [] t.op = "erase" -> {X(l) : l \in t.held}
            \cup (IF t.step # "begin" THEN {X(Row("erasures", t.p))} ELSE {})
            \cup (IF t.seen \cap Claims # {} THEN {X(Row("claims", t.p))} ELSE {})
            \cup (IF t.step \in {"account", "commit"} THEN {X(Row("persons", t.p))} ELSE {})
            \cup (IF "profile" \in t.seen THEN {X(Row("profiles", t.p))} ELSE {})
            \cup (IF t.step = "commit" THEN {X(Row("accounts", t.p))} ELSE {})
      [] OTHER -> {}

\* The locks the next statement of w asks for.
Needs(w) == LET t == tx[w] IN
    CASE t.step = "guard"                                -> {S(Row("accounts", t.q))}
      [] t.step = "minor" /\ t.q # Nobody                -> {S(Row("persons", t.m))}
      [] t.step = "begin" /\ t.op \in {"erase", "retract"} -> {X(Row("erasures", t.p))}
      [] t.step = "begin" /\ t.op = "end"                -> {X(<<t.p, t.m>>)}
      [] t.step = "begin" /\ t.op = "emancipate"         -> {X(Row("persons", t.m))}
      [] t.step = "begin" /\ t.op = "profile" /\ "profile" \in has[t.p] -> {X(Row("profiles", t.p))}
      [] t.step = "begin" /\ t.op = "claim" /\ has[t.p] \cap Claims # {} -> {X(Row("claims", t.p))}
      [] t.step = "links" /\ t.todo # {}                 -> {X(l) : l \in t.todo}
      [] t.step = "person"                               -> {X(Row("persons", t.p))}
      [] t.step = "account"                              -> {X(Row("accounts", t.p))}
      [] OTHER                                           -> {}

Holders(w, needs) ==
    {v \in Connections \ {w} : \E h \in Holds(v), n \in needs :
        h.row = n.row /\ "X" \in {h.mode, n.mode}}

Free(w, needs) == Holders(w, needs) = {}
WaitsFor(w) == Holders(w, Needs(w))

-----------------------------------------------------------------------------
Step(w, t) == tx' = [tx EXCEPT ![w] = t]
Idle(w) == tx[w].op = "none"
At(w, op, step) == tx[w].op = op /\ tx[w].step = step

\* The statement is executed: the transaction goes on if it is accepted, else it ends.
Advance(w, accepted, t) ==
    /\ WaitsFor(w) = {}
    /\ Step(w, IF accepted THEN t ELSE NoTx)
    /\ UNCHANGED <<State, clock, tick, asked>>

\* A request of the API takes its connection.
Ask(w) ==
    /\ w \in Requests /\ Idle(w) /\ asked < MaxRequests
    /\ asked' = asked + 1

\* A request that starts by locking the ACTIVE account it acts for.
AskAs(w, p, op, step, q, m) ==
    /\ Ask(w)
    /\ Free(w, {S(Row("accounts", p))})
    /\ account[p] = "ACTIVE"
    /\ Step(w, [NoTx EXCEPT !.op = op, !.step = step, !.p = p, !.q = q, !.m = m, !.now = clock])
    /\ UNCHANGED <<State, clock, tick>>

\* An error, a crash or a lost connection: nothing of the transaction remains.
Rollback(w) ==
    /\ ~Idle(w) /\ asked < MaxRequests
    /\ asked' = asked + 1
    /\ Step(w, NoTx)
    /\ UNCHANGED <<State, clock, tick>>

-----------------------------------------------------------------------------
(***************************************************************************)
(* Responsibilities.                                                       *)
(***************************************************************************)
\* attach: the person of the dependent and the first link, born together.
Attach(w, p, m) ==
    /\ account[m] = "unborn"
    /\ \A v \in Connections : tx[v].op = "attach" => tx[v].m # m
    /\ AskAs(w, p, "attach", "commit", Nobody, m)

AttachCommit(w) ==
    /\ At(w, "attach", "commit")
    /\ account' = [account EXCEPT ![tx[w].m] = "none"]
    /\ links' = links \cup {<<tx[w].p, tx[w].m>>}
    /\ has' = [has EXCEPT ![tx[w].m] = {"identity"}]
    /\ Step(w, NoTx)
    /\ UNCHANGED <<cut, erasure, clock, tick, asked>>

\* addCoResponsible: a responsible person in place adds another.
AddCoResponsible(w, p, q, m) ==
    /\ <<p, m>> \in links
    /\ AskAs(w, p, "add", "guard", q, m)

\* endResponsibility: a staff act, with a replacement q, or Nobody.
EndResponsibility(w, p, q, m) ==
    /\ Ask(w)
    /\ Step(w, [NoTx EXCEPT !.op = "end", !.step = "begin", !.p = p, !.q = q, !.m = m])
    /\ UNCHANGED <<State, clock, tick>>

EndLock(w) ==
    /\ At(w, "end", "begin")
    /\ Advance(w, <<tx[w].p, tx[w].m>> \in links,
               [tx[w] EXCEPT !.held = {<<tx[w].p, tx[w].m>>},
                             !.step = IF tx[w].q = Nobody THEN "minor" ELSE "guard"])

\* The trigger of an insertion, up to the lock on the dependent: the responsible
\* person has an ACTIVE account, the dependent has none and was never emancipated.
GuardInsert(w) ==
    /\ tx[w].step = "guard"
    /\ Advance(w, account[tx[w].q] = "ACTIVE" /\ account[tx[w].m] # "ACTIVE" /\ tx[w].m \notin cut,
               [tx[w] EXCEPT !.step = "minor"])

\* Fault: 017 without the deferred trigger of the cut.
CutUnchecked(m) == TRUE

\* The deferred checks, on what is committed and on the transaction's own rows.
CutKept(m) == account[m] # "ACTIVE"
NotOrphaned(m, ended, new) == (LinksOn(m) \ ended) \cup new # {} \/ account[m] = "ACTIVE"

\* callEnd again: the replacement was responsible already, so the end alone is enough.
EndAlone(w) == [tx[w] EXCEPT !.q = Nobody, !.step = "begin", !.held = {}]

\* Fault: a row is inserted even when there is no replacement.
NewUnchecked(w) == {<<tx[w].q, tx[w].m>>}

New(w) == IF tx[w].q = Nobody THEN {} ELSE {<<tx[w].q, tx[w].m>>}

\* The dependent is locked and the rows of add and end are written (the unique index
\* waits for the fate of an equal row); their triggers at commit read what is committed.
LinkWritten(w) ==
    /\ tx[w].op \in {"add", "end"} /\ tx[w].step = "minor"
    /\ \A v \in Connections \ {w} :
           tx[v].op \in {"add", "end"} /\ tx[v].step = "commit" => New(v) \cap New(w) = {}
    /\ IF tx[w].op = "end" /\ New(w) \cap links # {}
       THEN Advance(w, TRUE, EndAlone(w))
       ELSE Advance(w, /\ New(w) \cap links = {}
                       /\ New(w) # {} => CutKept(tx[w].m)
                       /\ tx[w].op = "end" => NotOrphaned(tx[w].m, tx[w].held, New(w)),
                    [tx[w] EXCEPT !.step = "commit"])

LinkCommit(w) ==
    /\ tx[w].op \in {"add", "end"} /\ tx[w].step = "commit"
    /\ links' = (links \ tx[w].held) \cup New(w)
    /\ Step(w, NoTx)
    /\ UNCHANGED <<account, cut, has, erasure, clock, tick, asked>>

-----------------------------------------------------------------------------
(***************************************************************************)
(* Identity, profile, grants and phone claims of a person.                 *)
(***************************************************************************)
\* Fault: persons is written without looking for an erasure.
ProvideUnwalled(w, p) ==
    /\ Ask(w)
    /\ account[p] \in {"ACTIVE", "DEACTIVATED"}
    /\ Free(w, {X(Row("persons", p))})
    /\ has' = [has EXCEPT ![p] = @ \cup {"identity"}]
    /\ UNCHANGED <<account, links, cut, erasure, clock, tick, tx>>

\* provide: one UPDATE of persons behind the wall of 026.
Provide(w, p) ==
    /\ Ask(w)
    /\ account[p] \in {"ACTIVE", "DEACTIVATED"} /\ ~Erased(p)
    /\ Free(w, {X(Row("persons", p))})
    /\ has' = [has EXCEPT ![p] = @ \cup {"identity"}]
    /\ UNCHANGED <<account, links, cut, erasure, clock, tick, tx>>

\* replace: the triggers of account_profiles lock the account, then the row is written.
ReplaceProfile(w, p) == ~Erased(p) /\ AskAs(w, p, "profile", "begin", Nobody, Nobody)

\* grant_program_self locks the account; the other writers of grants lock nothing of the
\* person, and the wall of 032 reads before they commit.
GrantSelf(w, p) == AskAs(w, p, "grant", "begin", Nobody, Nobody)

GrantByOther(w, p) ==
    /\ Ask(w)
    /\ account[p] # "unborn" /\ ~Erased(p)
    /\ Step(w, [NoTx EXCEPT !.op = "given", !.step = "commit", !.p = p])
    /\ UNCHANGED <<State, clock, tick>>

ThingCommit(w) ==
    /\ tx[w].op \in {"profile", "grant", "given"} /\ WaitsFor(w) = {}
    /\ has' = [has EXCEPT ![tx[w].p] = @ \cup {IF tx[w].op = "profile" THEN "profile" ELSE "grant"}]
    /\ Step(w, NoTx)
    /\ UNCHANGED <<account, links, cut, erasure, clock, tick, asked>>

\* declare_phone_self, from an ACTIVE account: the account, then the person are locked.
Declare(w, p) ==
    /\ Free(w, {X(Row("persons", p))})
    /\ AskAs(w, p, "claim", "begin", Nobody, Nobody)

\* start of an emancipation: open_emancipation locks the person, who has no account.
StartEmancipation(w, m) ==
    /\ Ask(w)
    /\ Free(w, {X(Row("persons", m))})
    /\ account[m] \notin {"unborn", "ACTIVE"} /\ m \in OfAge /\ ~Erased(m)
    /\ Step(w, [NoTx EXCEPT !.op = "claim", !.step = "begin", !.p = m])
    /\ UNCHANGED <<State, clock, tick>>

\* The PENDING claim is replaced and one is inserted; a person has one live claim.
ClaimCommit(w) ==
    /\ At(w, "claim", "begin") /\ WaitsFor(w) = {}
    /\ has' = IF Erased(tx[w].p) \/ "ACTIVE" \in has[tx[w].p] THEN has
              ELSE [has EXCEPT ![tx[w].p] = @ \cup {"PENDING"}]
    /\ Step(w, NoTx)
    /\ UNCHANGED <<account, links, cut, erasure, clock, tick, asked>>

Activated(p) == [has EXCEPT ![p] = (@ \ {"PENDING"}) \cup {"ACTIVE"}]

\* verify: the code is right and the claim becomes ACTIVE.
Verify(w, p) ==
    /\ Ask(w)
    /\ "PENDING" \in has[p] /\ Free(w, {X(Row("claims", p))})
    /\ has' = Activated(p)
    /\ UNCHANGED <<account, links, cut, erasure, clock, tick, tx>>

-----------------------------------------------------------------------------
(***************************************************************************)
(* Emancipation (a door the role of the API may not open since 031; its    *)
(* walls stand, and the owner of the database goes through them).          *)
(***************************************************************************)
\* complete: the code is verified in a transaction of its own.
CompleteEmancipation(w, m) ==
    /\ Ask(w)
    /\ m \in OfAge /\ ~Erased(m)
    /\ "PENDING" \in has[m] /\ Free(w, {X(Row("claims", m))})
    /\ has' = Activated(m)
    /\ Step(w, [NoTx EXCEPT !.op = "emancipate", !.step = "begin", !.m = m])
    /\ UNCHANGED <<account, links, cut, erasure, clock, tick>>

EmancipateLock(w) ==
    /\ At(w, "emancipate", "begin")
    /\ Advance(w, account[tx[w].m] # "ACTIVE" /\ "ACTIVE" \in has[tx[w].m],
               [tx[w] EXCEPT !.step = "links", !.todo = LinksOn(tx[w].m)])

\* The links of the statement's snapshot are locked, and ended if they are still ACTIVE;
\* the deferred check finds no other.
EmancipateLinks(w) ==
    /\ At(w, "emancipate", "links")
    /\ Advance(w, LinksOn(tx[w].m) \subseteq tx[w].todo,
               [tx[w] EXCEPT !.step = "commit", !.todo = {}, !.held = tx[w].todo \cap links])

EmancipateCommit(w) ==
    /\ At(w, "emancipate", "commit")
    /\ account' = [account EXCEPT ![tx[w].m] = "ACTIVE"]
    /\ links' = links \ tx[w].held
    /\ cut' = IF tx[w].held = {} THEN cut ELSE cut \cup {tx[w].m}
    /\ Step(w, NoTx)
    /\ UNCHANGED <<has, erasure, clock, tick, asked>>

-----------------------------------------------------------------------------
(***************************************************************************)
(* Erasure.                                                                *)
(***************************************************************************)
\* person_is_sole_responsible: someone without an account depends on p alone.
SoleResponsible(p) ==
    \E l \in LinksOf(p) : ~NotOrphaned(l[2], {l}, {})

Due(p) == erasure[p].status = "REQUESTED" /\ clock >= erasure[p].due

\* A row in flight, or COMPLETED, refuses another; IMMEDIATE goes on to the execution.
Record(w, p, mode) ==
    /\ Ask(w)
    /\ erasure[p].status \notin {"REQUESTED", "COMPLETED"}
    /\ ~SoleResponsible(p)
    /\ erasure' = [erasure EXCEPT ![p] = [status |-> "REQUESTED", mode |-> mode, noticed |-> FALSE,
                                          due |-> IF mode = "IMMEDIATE" THEN clock ELSE clock + Window]]
    /\ Step(w, IF mode = "IMMEDIATE"
               THEN [NoTx EXCEPT !.op = "erase", !.step = "begin", !.p = p, !.now = clock] ELSE NoTx)
    /\ UNCHANGED <<account, links, cut, has, clock, tick>>

RequestSelf(w, p, mode) ==
    /\ account[p] = "ACTIVE" /\ Free(w, {S(Row("accounts", p))})
    /\ Record(w, p, mode)

EraseByStaff(w, p) ==
    /\ account[p] \notin {"unborn", "ACTIVE"}
    /\ Record(w, p, "IMMEDIATE")

\* retract_erasure_self locks the account, then the row; now() is that of its start.
RetractSelf(w, p) == AskAs(w, p, "retract", "begin", Nobody, Nobody)

RetractCommit(w) ==
    /\ At(w, "retract", "begin") /\ WaitsFor(w) = {}
    /\ erasure' = IF erasure[tx[w].p].status = "REQUESTED" /\ tx[w].now < erasure[tx[w].p].due
                  THEN [erasure EXCEPT ![tx[w].p].status = "RETRACTED"] ELSE erasure
    /\ Step(w, NoTx)
    /\ UNCHANGED <<account, links, cut, has, clock, tick, asked>>

\* erase_person locks the row, verifies it, and takes the links p answers for.
EraseBegin(w) ==
    /\ At(w, "erase", "begin")
    /\ Advance(w, Due(tx[w].p),
               [tx[w] EXCEPT !.step = "links", !.todo = LinksOf(tx[w].p)])

\* The links are locked; then the UPDATEs of grants and claims find what is committed.
EraseRights(w) ==
    /\ At(w, "erase", "links")
    /\ Advance(w, TRUE, [tx[w] EXCEPT !.step = "person", !.todo = {}, !.held = tx[w].todo \cap links,
                                      !.seen = has[tx[w].p] \cap ({"grant"} \cup Claims)])

\* The person is locked; then the UPDATE of the profile finds what is committed.
ErasePerson(w) ==
    /\ At(w, "erase", "person")
    /\ Advance(w, TRUE, [tx[w] EXCEPT !.step = "account",
                                      !.seen = @ \cup {"identity"} \cup (has[tx[w].p] \cap {"profile"})])

\* Fault: 026 without the wall between COMPLETED and a live claim.
LiveClaimIgnored(w) == TRUE

\* COMPLETED is refused to a person with a live claim; nobody may be orphaned.
NoLiveClaim(w) == has[tx[w].p] \cap Claims \subseteq tx[w].seen

EraseAccount(w) ==
    /\ At(w, "erase", "account")
    /\ Advance(w, NoLiveClaim(w) /\ \A l \in tx[w].held : NotOrphaned(l[2], tx[w].held, {}),
               [tx[w] EXCEPT !.step = "commit"])

EraseCommit(w) ==
    /\ At(w, "erase", "commit")
    /\ links' = links \ tx[w].held
    /\ has' = [has EXCEPT ![tx[w].p] = @ \ tx[w].seen]
    /\ account' = [account EXCEPT ![tx[w].p] = IF @ = "ACTIVE" THEN "DEACTIVATED" ELSE @]
    /\ erasure' = [erasure EXCEPT ![tx[w].p].status = "COMPLETED"]
    /\ Step(w, NoTx)
    /\ UNCHANGED <<cut, clock, tick, asked>>

-----------------------------------------------------------------------------
(***************************************************************************)
(* The scheduler: ErasureScheduler.tick, twice a list and a loop.          *)
(***************************************************************************)
ToNotice == {p \in Persons : /\ erasure[p].status = "REQUESTED" /\ erasure[p].mode = "DELAYED"
                             /\ ~erasure[p].noticed /\ clock + Lead >= erasure[p].due}

TickNotices ==
    /\ tick.step = "idle"
    /\ tick' = [step |-> "notices", todo |-> ToNotice, at |-> clock]
    /\ UNCHANGED <<State, clock, asked, tx>>

\* record_erasure_notice: under the lock of the row, once.
Notice(p) ==
    /\ tick.step = "notices" /\ p \in tick.todo
    /\ Free(Scheduler, {X(Row("erasures", p))})
    /\ erasure' = IF p \in ToNotice THEN [erasure EXCEPT ![p].noticed = TRUE] ELSE erasure
    /\ tick' = [tick EXCEPT !.todo = @ \ {p}]
    /\ UNCHANGED <<account, links, cut, has, clock, asked, tx>>

\* Fault: the notices are not awaited before the executions.
TickDueEager ==
    /\ tick.step = "notices"
    /\ tick' = [tick EXCEPT !.step = "due", !.todo = {p \in Persons : Due(p)}]
    /\ UNCHANGED <<State, clock, asked, tx>>

\* Fault: only who was given notice is listed.
TickDueNoticed ==
    /\ tick.step = "notices" /\ tick.todo = {}
    /\ tick' = [tick EXCEPT !.step = "due", !.todo = {p \in Persons : Due(p) /\ erasure[p].noticed}]
    /\ UNCHANGED <<State, clock, asked, tx>>

TickDue ==
    /\ tick.step = "notices" /\ tick.todo = {}
    /\ tick' = [tick EXCEPT !.step = "due", !.todo = {p \in Persons : Due(p)}]
    /\ UNCHANGED <<State, clock, asked, tx>>

\* One erase_person per row: a verdict or an error, and the loop goes on.
Execute(p) ==
    /\ tick.step = "due" /\ p \in tick.todo /\ Idle(Scheduler)
    /\ tick' = [tick EXCEPT !.todo = @ \ {p}]
    /\ Step(Scheduler, [NoTx EXCEPT !.op = "erase", !.step = "begin", !.p = p])
    /\ UNCHANGED <<State, clock, asked>>

TickEnd ==
    /\ tick.step = "due" /\ tick.todo = {} /\ Idle(Scheduler)
    /\ tick' = NoTick
    /\ UNCHANGED <<State, clock, asked, tx>>

\* An exception out of the tick, or the end of the process: the next one starts again.
Restart ==
    /\ tick.step # "idle" /\ asked < MaxRequests
    /\ asked' = asked + 1
    /\ tick' = NoTick
    /\ Step(Scheduler, NoTx)
    /\ UNCHANGED <<State, clock>>

\* Time passes; a tick is shorter than the notice is long, and a request goes from its record
\* to its execution in less than the days of reflection.
Pass ==
    /\ clock < MaxTime
    /\ tick.step # "idle" => clock + 1 < tick.at + Lead
    /\ \A w \in Requests : At(w, "erase", "begin") => clock + 1 < tx[w].now + Window
    /\ clock' = clock + 1
    /\ UNCHANGED <<State, tick, asked, tx>>

-----------------------------------------------------------------------------
\* A deadlock: each of a set of connections waits for another one of it.
OnCycle(w) ==
    /\ WaitsFor(w) # {}
    /\ \E C \in SUBSET Connections : \E next \in [C -> C] :
        /\ w \in C
        /\ \A v \in C : next[v] \in WaitsFor(v)
        /\ \A v \in C : \E u \in C : next[u] = v

DeadlockAbort(w) ==
    /\ OnCycle(w)
    /\ Step(w, NoTx)
    /\ UNCHANGED <<State, clock, tick, asked>>

\* The endpoints of the API, one controller each.
ResponsibilityRequest(w) ==
    \/ \E p \in Adults, m \in Minors : Attach(w, p, m)
    \/ \E p, q \in Adults, m \in Minors : AddCoResponsible(w, p, q, m)
    \/ \E p \in Adults, q \in Adults \cup {Nobody}, m \in Minors : EndResponsibility(w, p, q, m)

ErasureRequest(w) ==
    \E p \in Subjects :
        \/ \E mode \in {"IMMEDIATE", "DELAYED"} : RequestSelf(w, p, mode)
        \/ RetractSelf(w, p) \/ EraseByStaff(w, p)

PersonRequest(w) ==
    \E p \in Subjects :
        \/ Provide(w, p) \/ ReplaceProfile(w, p) \/ GrantSelf(w, p) \/ GrantByOther(w, p)
        \/ Declare(w, p) \/ Verify(w, p)

EmancipationRequest(w) == \E m \in Minors : StartEmancipation(w, m) \/ CompleteEmancipation(w, m)

Request(w) ==
    ResponsibilityRequest(w) \/ ErasureRequest(w) \/ PersonRequest(w) \/ EmancipationRequest(w)

Statement(w) ==
    \/ AttachCommit(w) \/ EndLock(w) \/ GuardInsert(w) \/ LinkWritten(w) \/ LinkCommit(w)
    \/ ThingCommit(w) \/ ClaimCommit(w) \/ RetractCommit(w)
    \/ EmancipateLock(w) \/ EmancipateLinks(w) \/ EmancipateCommit(w)
    \/ EraseBegin(w) \/ EraseRights(w) \/ ErasePerson(w) \/ EraseAccount(w) \/ EraseCommit(w)

Tick == TickNotices \/ TickDue \/ TickEnd \/ \E p \in Persons : Notice(p) \/ Execute(p)

Next ==
    \/ \E w \in Connections : Request(w) \/ Statement(w) \/ DeadlockAbort(w) \/ Rollback(w)
    \/ Tick \/ Restart \/ Pass

Spec == Init /\ [][Next]_vars

\* A statement whose locks are free again and again gets them (SF: PostgreSQL queues the
\* waiters of a row); a deadlock is detected; the worker ticks.
FairSpec ==
    /\ Spec
    /\ \A w \in Connections : SF_vars(Statement(w))
    /\ WF_vars(\E w \in Connections : DeadlockAbort(w))
    /\ WF_vars(Tick)

-----------------------------------------------------------------------------
\* The variables keep their types.
TypeOK ==
    /\ account \in [Persons -> {"unborn", "none", "ACTIVE", "DEACTIVATED"}]
    /\ links \subseteq Adults \X Minors
    /\ cut \subseteq Minors
    /\ has \in [Persons -> SUBSET Things]
    /\ erasure \in [Persons -> [status : {"none", "REQUESTED", "RETRACTED", "COMPLETED"},
                                mode : {"IMMEDIATE", "DELAYED"}, due : Nat, noticed : BOOLEAN]]
    /\ clock \in 0..MaxTime /\ asked \in 0..MaxRequests
    /\ tick \in [step : {"idle", "notices", "due"}, todo : SUBSET Persons, at : 0..MaxTime]
    /\ tx \in [Connections -> Tx]

\* The cut of emancipation (017): whoever has an ACTIVE account depends on nobody, and a
\* person who was emancipated never depends on anybody again while they live, whatever
\* insertion of a link and emancipation were under way together.  Only if the person was
\* erased as well between the first check of an insertion and its lock, the insertion passes.
CutHolds ==
    \A l \in links : account[l[2]] # "ACTIVE" /\ (l[2] \in cut => Erased(l[2]))

\* What the walls of 026 promise of an erased person: no ACTIVE account, no live phone
\* claim, no identity, also when one of them was being written during the erasure.
ErasureBuries ==
    \A p \in Persons : Erased(p) =>
        account[p] # "ACTIVE" /\ has[p] \cap ({"identity"} \cup Claims) = {}

\* Nobody loses the days of reflection unwarned: a DELAYED erasure that was executed had
\* its notice first (erasure-scheduler.ts deposits the notices of a tick before it executes).
ErasedWasNoticed ==
    \A p \in Persons : Erased(p) /\ erasure[p].mode = "DELAYED" => erasure[p].noticed

\* 033: at the erasure the rights of access are revoked in the same gesture, and the profile
\* goes out: an erased person keeps neither.
NothingLeft ==
    \A p \in Persons : Erased(p) => has[p] \cap {"profile", "grant"} = {}

\* 017, at the orphan check: a dependent keeps somebody who answers for them, or an
\* account of their own.
NobodyAlone ==
    \A m \in Minors :
        account[m] \in {"unborn", "ACTIVE", "DEACTIVATED"} \/ LinksOn(m) # {}

\* Every erasure that is due is executed or retracted in the end, unless its person is
\* the last one somebody depends on: no deadlock, wall or race leaves it pending for ever.
DueIsSettled ==
    \A p \in Subjects : Due(p) ~> ~Due(p) \/ SoleResponsible(p)

\* An erasure is what PersonLife says: asked for, perhaps retracted, then final; what
\* identifies the person goes in the same step and never comes back.
Life == INSTANCE PersonLife WITH
    Things <- {"account", "identity"} \cup Claims,
    life <- [p \in Persons |->
                CASE erasure[p].status = "REQUESTED" -> "leaving"
                  [] Erased(p) -> "gone"
                  [] OTHER -> "present"],
    keeps <- [p \in Persons |-> (has[p] \cap ({"identity"} \cup Claims))
                                \cup (IF account[p] = "ACTIVE" THEN {"account"} ELSE {})]

ImplementsLife == Life!Spec
=============================================================================
