------------------------------ MODULE Sessions ------------------------------
(***************************************************************************)
(* Server sessions and their chains of refresh tokens: SessionService and  *)
(* AuthService.openSession (src/src/auth) over the tables, triggers and    *)
(* lookup function of db/schema/004, 005 and 019.                          *)
(*                                                                         *)
(* PostgreSQL runs every transaction at READ COMMITTED.  A worker here is  *)
(* one pooled connection: its transaction takes row locks one statement at *)
(* a time, reads what is committed, and its writes become visible in one   *)
(* step, the COMMIT.  now() is the start of the transaction, however long  *)
(* the worker then waits for a lock; that is tx[w].now.                    *)
(*                                                                         *)
(* The n-th refresh token issued in session s is named by the pair (s, n): *)
(* the values are 256-bit random, so no two rows share one.                *)
(***************************************************************************)
EXTENDS Naturals, FiniteSets

CONSTANTS
    Accounts,     \* account rows
    Sessions,     \* session identifiers, ordered as a table scan meets them
    Owner,        \* account_id of each session, immutable
    Workers,      \* pooled database connections
    GraceWindow,  \* config.graceWindowSeconds
    RefreshTtl,   \* config.refreshTokenTtlSeconds
    SessionTtl,   \* config.sessionAbsoluteTtlSeconds
    AccessTtl,    \* config.accessTokenTtlSeconds
    MaxTokens,    \* bound: refresh tokens issued per session
    MaxTime       \* bound: the clock stops here

ASSUME SessionsAssumption ==
    /\ Sessions \subseteq Nat /\ Sessions # {}
    /\ Owner \in [Sessions -> Accounts]
    /\ GraceWindow \in Nat \ {0}
    /\ RefreshTtl \in Nat \ {0}
    /\ SessionTtl \in Nat \ {0}
    /\ AccessTtl \in Nat \ {0}
    /\ MaxTokens \in Nat \ {0}
    /\ MaxTime \in Nat

VARIABLES
    clock,    \* wall-clock time
    account,  \* accounts.status
    session,  \* sessions, one row per identifier
    token,    \* session_refresh_tokens, by session and order of issue
    issued,   \* how many token rows the session has
    access,   \* expiry of the last access token signed for the session, 0 = none
    tx        \* what each worker's transaction is doing

vars == <<clock, account, session, token, issued, access, tx>>

-----------------------------------------------------------------------------
Gens == 1..MaxTokens

AccountStatuses == {"ACTIVE", "DEACTIVATED"}
Reasons == {"LOGOUT", "LOGOUT_ALL", "REPLAY_DETECTED", "ADMIN"}
Verdicts == {"USABLE", "GRACE", "STALE", "REPLAY", "DEAD"}

\* A row that has not been inserted has status ABSENT.
SessionRow == [status : {"ABSENT", "ACTIVE", "REVOKED"},
               reason : Reasons \cup {"-"},
               expires : Nat]
TokenRow == [status : {"ABSENT", "ACTIVE", "ROTATED", "REVOKED"},
             expires : Nat,
             grace : Nat,   \* grace_until
             succ : Nat]    \* replaced_by_id, 0 = NULL

Steps == {"idle", "open.lock", "open.insert", "open.issue",
          "refresh.lock", "refresh.lookup", "refresh.apply", "revoke"}

Transaction == [step : Steps,
                now : Nat,
                sid : Sessions,
                gen : Gens,
                verdict : Verdicts,
                reason : Reasons,
                acct : Accounts,
                todo : SUBSET Sessions,   \* sessions an UPDATE still has to lock
                held : SUBSET Sessions]   \* ACTIVE sessions it has locked

NoSession == [status |-> "ABSENT", reason |-> "-", expires |-> 0]
NoToken == [status |-> "ABSENT", expires |-> 0, grace |-> 0, succ |-> 0]

\* A worker between two transactions; the fields of the last one are gone.
IdleTx == [step |-> "idle", now |-> 0, sid |-> CHOOSE s \in Sessions : TRUE,
           gen |-> 1, verdict |-> "DEAD", reason |-> "LOGOUT",
           acct |-> Owner[CHOOSE s \in Sessions : TRUE], todo |-> {}, held |-> {}]

Finish(w) == tx' = [tx EXCEPT ![w] = IdleTx]

SmallerOf(a, b) == IF a <= b THEN a ELSE b

-----------------------------------------------------------------------------
\* Row locks.

\* Fault: refresh without its FOR UPDATE.
HoldsSessionUpdatesOnly(w, s) == tx[w].step = "revoke" /\ s \in tx[w].held

\* SELECT ... FOR UPDATE and UPDATE both exclude every other writer of the row.
HoldsSession(w, s) ==
    \/ tx[w].step \in {"refresh.lookup", "refresh.apply"} /\ tx[w].sid = s
    \/ tx[w].step = "revoke" /\ s \in tx[w].held

SessionFree(s) == \A w \in Workers : ~HoldsSession(w, s)

\* guard_session_insert reads the account FOR SHARE.
SharesAccount(w, a) == tx[w].step = "open.insert" /\ Owner[tx[w].sid] = a

\* UPDATE accounts ... SET status = 'DEACTIVATED'.
WritesAccount(w, a) ==
    tx[w].step = "revoke" /\ tx[w].reason = "ADMIN" /\ tx[w].acct = a

\* Fault: guard_session_insert without its FOR SHARE.
AccountShareableUnlocked(a) == TRUE

AccountShareable(a) == \A w \in Workers : ~WritesAccount(w, a)
AccountFree(a) == AccountShareable(a) /\ \A w \in Workers : ~SharesAccount(w, a)

-----------------------------------------------------------------------------
\* lookup_refresh_token: the verdict the base gives on a presented token.

Alive(s, now) ==
    /\ account[Owner[s]] = "ACTIVE"
    /\ session[s].status = "ACTIVE"
    /\ session[s].expires > now

\* Fault: the grace window compared the wrong way round.
InGraceReversed(s, n, now) == token[s][n].status = "ROTATED" /\ token[s][n].grace <= now

InGrace(s, n, now) == token[s][n].status = "ROTATED" /\ token[s][n].grace > now

\* Fault: the status of the presented token read for its successor's.
SuccessorActiveOfSelf(s, n) ==
    \E m \in Gens : m = token[s][n].succ /\ token[s][n].status = "ACTIVE"

SuccessorActive(s, n) ==
    \E m \in Gens : m = token[s][n].succ /\ token[s][m].status = "ACTIVE"

Lookup(s, n, now) ==
    CASE ~Alive(s, now) -> "DEAD"
      [] Alive(s, now) /\ token[s][n].status = "ACTIVE" ->
            IF token[s][n].expires > now THEN "USABLE" ELSE "DEAD"
      [] Alive(s, now) /\ InGrace(s, n, now) ->
            IF SuccessorActive(s, n) THEN "GRACE" ELSE "STALE"
      [] OTHER -> "REPLAY"

-----------------------------------------------------------------------------
\* AuthService.openSession, after a login or a registration.

\* Fault: no LEAST with the absolute end of the session.
NewExpiryUncapped(now, sessionExpires) == now + RefreshTtl

NewExpiry(now, sessionExpires) == SmallerOf(now + RefreshTtl, sessionExpires)

Opening(s) == \E w \in Workers :
    tx[w].step \in {"open.lock", "open.insert"} /\ tx[w].sid = s

\* BEGIN.  The account was read ACTIVE before an argon2 verification of
\* unbounded length, so nothing is known of its status any more.
OpenBegin(w, s) ==
    /\ tx[w].step = "idle"
    /\ session[s].status = "ABSENT"
    /\ ~Opening(s)
    /\ tx' = [tx EXCEPT ![w] = [IdleTx EXCEPT !.step = "open.lock", !.now = clock,
                                             !.sid = s]]
    /\ UNCHANGED <<clock, account, session, token, issued, access>>

\* guard_session_insert: a share lock on the account, then its status; a
\* deactivated account raises P0108 and the transaction rolls back.
OpenLock(w) ==
    /\ tx[w].step = "open.lock"
    /\ AccountShareable(Owner[tx[w].sid])
    /\ IF account[Owner[tx[w].sid]] = "ACTIVE"
       THEN tx' = [tx EXCEPT ![w].step = "open.insert"]
       ELSE Finish(w)
    /\ UNCHANGED <<clock, account, session, token, issued, access>>

\* Fault: the session committed before its first token.
OpenCommitAlone(w) ==
    /\ tx[w].step = "open.insert"
    /\ session' = [session EXCEPT ![tx[w].sid] =
           [status |-> "ACTIVE", reason |-> "-", expires |-> tx[w].now + SessionTtl]]
    /\ tx' = [tx EXCEPT ![w].step = "open.issue"]
    /\ UNCHANGED <<clock, account, token, issued, access>>

\* The session and its first token are inserted and committed together.
OpenCommit(w) ==
    LET s == tx[w].sid
        expires == tx[w].now + SessionTtl
    IN  /\ tx[w].step = "open.insert"
        /\ session' = [session EXCEPT
               ![s] = [status |-> "ACTIVE", reason |-> "-", expires |-> expires]]
        /\ issued' = [issued EXCEPT ![s] = 1]
        /\ token' = [token EXCEPT ![s][1] =
               [status |-> "ACTIVE",
                expires |-> NewExpiry(tx[w].now, expires),
                grace |-> 0, succ |-> 0]]
        /\ tx' = [tx EXCEPT ![w].step = "open.issue"]
        /\ UNCHANGED <<clock, account, access>>

\* login signs the access token once the transaction is over.
OpenIssue(w) ==
    /\ tx[w].step = "open.issue"
    /\ access' = [access EXCEPT ![tx[w].sid] = clock + AccessTtl]
    /\ Finish(w)
    /\ UNCHANGED <<clock, account, session, token, issued>>

-----------------------------------------------------------------------------
\* SessionService.refresh.

Refreshing(s) == {w \in Workers :
    tx[w].step \in {"refresh.lock", "refresh.lookup", "refresh.apply"} /\ tx[w].sid = s}

\* BEGIN and the first lookup, which only finds the session to lock.  Whoever
\* holds a token may present it, as often as he likes.  The last conjunct is
\* the bound MaxTokens: a refresh in progress may issue one more token.
RefreshBegin(w, s, n) ==
    /\ tx[w].step = "idle"
    /\ n <= issued[s]
    /\ issued[s] + Cardinality(Refreshing(s)) < MaxTokens
    /\ tx' = [tx EXCEPT ![w] = [IdleTx EXCEPT !.step = "refresh.lock", !.now = clock,
                                             !.sid = s, !.gen = n]]
    /\ UNCHANGED <<clock, account, session, token, issued, access>>

\* SELECT id FROM sessions ... FOR UPDATE.
RefreshLock(w) ==
    /\ tx[w].step = "refresh.lock"
    /\ SessionFree(tx[w].sid)
    /\ tx' = [tx EXCEPT ![w].step = "refresh.lookup"]
    /\ UNCHANGED <<clock, account, session, token, issued, access>>

\* The second lookup: the verdict that decides.
RefreshLookup(w) ==
    /\ tx[w].step = "refresh.lookup"
    /\ tx' = [tx EXCEPT ![w].step = "refresh.apply",
                        ![w].verdict = Lookup(tx[w].sid, tx[w].gen, tx[w].now)]
    /\ UNCHANGED <<clock, account, session, token, issued, access>>

\* The token a rotation replaces: the presented one, or its orphan successor.
Rotated(w) ==
    IF tx[w].verdict = "GRACE" THEN token[tx[w].sid][tx[w].gen].succ ELSE tx[w].gen

\* What guard_refresh_token_update, guard_refresh_token_insert and the partial
\* unique index on ACTIVE tokens ask of a rotation; otherwise they raise.
RotationAccepted(s, n, now) ==
    /\ n \in Gens
    /\ token[s][n].status = "ACTIVE"
    /\ \A m \in Gens \ {n} : token[s][m].status # "ACTIVE"
    /\ session[s].status = "ACTIVE"
    /\ session[s].expires > now
    /\ NewExpiry(now, session[s].expires) <= session[s].expires

\* rotate: the old token gives up the ACTIVE slot, its successor takes it, the
\* chain is closed, an access token is signed.  A refused rotation leaves the
\* transaction to Rollback.
Rotate(s, old, now) ==
    LET new == issued[s] + 1
    IN  /\ RotationAccepted(s, old, now)
        /\ new \in Gens
        /\ issued' = [issued EXCEPT ![s] = new]
        /\ token' = [token EXCEPT
               ![s] = [@ EXCEPT
                   ![old].status = "ROTATED",
                   ![old].grace = now + GraceWindow,
                   ![old].succ = new,
                   ![new] = [status |-> "ACTIVE",
                             expires |-> NewExpiry(now, session[s].expires),
                             grace |-> 0, succ |-> 0]]]
        /\ access' = [access EXCEPT ![s] = clock + AccessTtl]

\* Fault: before C15, grace rotated whatever token ends the chain.
RefreshRotateHead(w) ==
    /\ tx[w].step = "refresh.apply"
    /\ tx[w].verdict \in {"USABLE", "GRACE", "STALE"}
    /\ Rotate(tx[w].sid, issued[tx[w].sid], tx[w].now)
    /\ Finish(w)
    /\ UNCHANGED <<clock, account, session>>

\* USABLE or GRACE: rotate and COMMIT.
RefreshRotate(w) ==
    /\ tx[w].step = "refresh.apply"
    /\ tx[w].verdict \in {"USABLE", "GRACE"}
    /\ Rotate(tx[w].sid, Rotated(w), tx[w].now)
    /\ Finish(w)
    /\ UNCHANGED <<clock, account, session>>

\* Fault: no cascade from the session to its tokens.
RevokeAlone(S, reason) ==
    /\ session' = [s \in Sessions |->
           IF s \in S THEN [session[s] EXCEPT !.status = "REVOKED", !.reason = reason]
           ELSE session[s]]
    /\ UNCHANGED token

\* cascade_session_revocation: every token of a revoked session is revoked.
Revoke(S, reason) ==
    /\ session' = [s \in Sessions |->
           IF s \in S THEN [session[s] EXCEPT !.status = "REVOKED", !.reason = reason]
           ELSE session[s]]
    /\ token' = [s \in Sessions |->
           IF s \in S
           THEN [n \in Gens |-> IF token[s][n].status = "ABSENT" THEN token[s][n]
                                ELSE [token[s][n] EXCEPT !.status = "REVOKED"]]
           ELSE token[s]]

\* REPLAY: neither bearer can be told from the other, the session is cut.
RefreshReplay(w) ==
    /\ tx[w].step = "refresh.apply"
    /\ tx[w].verdict = "REPLAY"
    /\ Revoke({s \in {tx[w].sid} : session[s].status = "ACTIVE"}, "REPLAY_DETECTED")
    /\ Finish(w)
    /\ UNCHANGED <<clock, account, issued, access>>

\* STALE and DEAD: a dry refusal.
RefreshRefuse(w) ==
    /\ tx[w].step = "refresh.apply"
    /\ tx[w].verdict \in {"STALE", "DEAD"}
    /\ Finish(w)
    /\ UNCHANGED <<clock, account, session, token, issued, access>>

-----------------------------------------------------------------------------
\* The three UPDATE statements that revoke sessions.  Each works on the rows
\* its snapshot shows ACTIVE, locks them in scan order, and checks the status
\* of a row again once it has it.

ActiveOf(a) == {s \in Sessions : Owner[s] = a /\ session[s].status = "ACTIVE"}

RevokeBegin(w, a, S, reason) ==
    /\ tx[w].step = "idle"
    /\ tx' = [tx EXCEPT ![w] = [IdleTx EXCEPT !.step = "revoke", !.acct = a,
                                             !.reason = reason, !.todo = S]]
    /\ UNCHANGED <<clock, account, session, token, issued, access>>

\* logout: the session named by a valid access token.
LogoutBegin(w, s) ==
    /\ access[s] > clock
    /\ session[s].status = "ACTIVE"
    /\ RevokeBegin(w, Owner[s], {s}, "LOGOUT")

\* Fault: a reason session_revoke_reason does not know.
RevokeAllUnknown(w, s) ==
    access[s] > clock /\ RevokeBegin(w, Owner[s], ActiveOf(Owner[s]), "REVOKE_ALL")

\* revokeAll: every session of the account a valid access token names.
RevokeAllBegin(w, s) ==
    /\ access[s] > clock
    /\ RevokeBegin(w, Owner[s], ActiveOf(Owner[s]), "LOGOUT_ALL")

\* Deactivation: the account row first, then cascade_account_deactivation.
DeactivateBegin(w, a) ==
    /\ account[a] = "ACTIVE"
    /\ AccountFree(a)
    /\ RevokeBegin(w, a, ActiveOf(a), "ADMIN")

\* Fault: the status of a row is not checked again once it is locked.
RevokeLockUnchecked(w) ==
    /\ tx[w].step = "revoke"
    /\ \E s \in tx[w].todo :
        /\ \A u \in tx[w].todo : s <= u
        /\ SessionFree(s)
        /\ tx' = [tx EXCEPT ![w].todo = @ \ {s}, ![w].held = @ \cup {s}]
    /\ UNCHANGED <<clock, account, session, token, issued, access>>

\* Fault: rows locked in no particular order.
RevokeLockUnordered(w) ==
    /\ tx[w].step = "revoke"
    /\ \E s \in tx[w].todo :
        /\ SessionFree(s)
        /\ tx' = [tx EXCEPT ![w].todo = @ \ {s},
                            ![w].held = IF session[s].status = "ACTIVE"
                                        THEN @ \cup {s} ELSE @]
    /\ UNCHANGED <<clock, account, session, token, issued, access>>

RevokeLock(w) ==
    /\ tx[w].step = "revoke"
    /\ \E s \in tx[w].todo :
        /\ \A u \in tx[w].todo : s <= u
        /\ SessionFree(s)
        /\ tx' = [tx EXCEPT ![w].todo = @ \ {s},
                            ![w].held = IF session[s].status = "ACTIVE"
                                        THEN @ \cup {s} ELSE @]
    /\ UNCHANGED <<clock, account, session, token, issued, access>>

RevokeCommit(w) ==
    /\ tx[w].step = "revoke"
    /\ tx[w].todo = {}
    /\ Revoke(tx[w].held, tx[w].reason)
    /\ account' = IF tx[w].reason = "ADMIN"
                  THEN [account EXCEPT ![tx[w].acct] = "DEACTIVATED"]
                  ELSE account
    /\ Finish(w)
    /\ UNCHANGED <<clock, issued, access>>

-----------------------------------------------------------------------------
\* An exception, a crash or a lost connection: nothing of the transaction
\* stays, and its locks are released.
Rollback(w) ==
    /\ tx[w].step # "idle"
    /\ Finish(w)
    /\ UNCHANGED <<clock, account, session, token, issued, access>>

Tick ==
    /\ clock < MaxTime
    /\ clock' = clock + 1
    /\ UNCHANGED <<account, session, token, issued, access, tx>>

-----------------------------------------------------------------------------
Init ==
    /\ clock = 0
    /\ account = [a \in Accounts |-> "ACTIVE"]
    /\ session = [s \in Sessions |-> NoSession]
    /\ token = [s \in Sessions |-> [n \in Gens |-> NoToken]]
    /\ issued = [s \in Sessions |-> 0]
    /\ access = [s \in Sessions |-> 0]
    /\ tx = [w \in Workers |-> IdleTx]

Progress(w) ==
    \/ OpenLock(w)
    \/ OpenCommit(w)
    \/ OpenIssue(w)
    \/ RefreshLock(w)
    \/ RefreshLookup(w)
    \/ RefreshRotate(w)
    \/ RefreshReplay(w)
    \/ RefreshRefuse(w)
    \/ RevokeLock(w)
    \/ RevokeCommit(w)

Request(w) ==
    \/ \E s \in Sessions : OpenBegin(w, s)
    \/ \E s \in Sessions, n \in Gens : RefreshBegin(w, s, n)
    \/ \E s \in Sessions : LogoutBegin(w, s)
    \/ \E s \in Sessions : RevokeAllBegin(w, s)
    \/ \E a \in Accounts : DeactivateBegin(w, a)

Next ==
    \/ Tick
    \/ \E w \in Workers : Request(w) \/ Progress(w) \/ Rollback(w)

Spec == Init /\ [][Next]_vars

\* Postgres grants a row lock to its waiters in turn, hence SF on the steps
\* that wait for one; every other statement just runs.
Fairness ==
    \A w \in Workers :
        /\ WF_vars(Progress(w))
        /\ SF_vars(OpenLock(w))
        /\ SF_vars(RefreshLock(w))
        /\ SF_vars(RevokeLock(w))

FairSpec == Spec /\ Fairness

-----------------------------------------------------------------------------
\* Every variable keeps its type; a revoking worker holds only rows it was
\* asked to revoke.
TypeOK ==
    /\ clock \in Nat
    /\ account \in [Accounts -> AccountStatuses]
    /\ session \in [Sessions -> SessionRow]
    /\ token \in [Sessions -> [Gens -> TokenRow]]
    /\ issued \in [Sessions -> 0..MaxTokens]
    /\ access \in [Sessions -> Nat]
    /\ tx \in [Workers -> Transaction]

\* The row locks exclude each other: one writer per session (C16), and no
\* deactivation of an account while a session is being opened under it (C13).
LocksExclude ==
    \A w, v \in Workers : w # v =>
        /\ \A s \in Sessions : ~(HoldsSession(w, s) /\ HoldsSession(v, s))
        /\ \A a \in Accounts : WritesAccount(w, a) =>
               ~SharesAccount(v, a) /\ ~WritesAccount(v, a)

\* A live session is one unbroken chain: every token but the last was replaced
\* by the next one, and the last, alone, is ACTIVE (the "exactly one ACTIVE
\* token" of session.service.ts and of uq_session_refresh_tokens_active).
OneChain ==
    \A s \in Sessions : session[s].status = "ACTIVE" =>
        /\ issued[s] > 0
        /\ \A n \in Gens :
            /\ n < issued[s] => token[s][n].status = "ROTATED" /\ token[s][n].succ = n + 1
            /\ n = issued[s] => token[s][n].status = "ACTIVE" /\ token[s][n].succ = 0
            /\ n > issued[s] => token[s][n].status = "ABSENT"

\* C1 and C13: nothing of a revoked session can be refreshed any more, and a
\* deactivated account keeps no live session, even one opened or refreshed
\* while the deactivation was on its way.
RevocationIsTotal ==
    /\ \A s \in Sessions : session[s].status = "REVOKED" =>
          \A n \in Gens : token[s][n].status \in {"ABSENT", "REVOKED"}
    /\ \A a \in Accounts : account[a] = "DEACTIVATED" => ActiveOf(a) = {}

VerdictTrue(w) ==
    tx[w].step = "refresh.apply" =>
        tx[w].verdict = Lookup(tx[w].sid, tx[w].gen, tx[w].now)

\* C16: the verdict a refresh acts on is still the verdict the base would give
\* when it acts, although other transactions ran since the lookup.
VerdictStillTrue == \A w \in Workers : VerdictTrue(w)

\* C16: no refresh ends in a trigger's exception (a 500 to the client): the
\* rotation that follows USABLE or GRACE is one the guards accept.
RotationNeverRefused ==
    \A w \in Workers :
        tx[w].step = "refresh.apply" /\ tx[w].verdict \in {"USABLE", "GRACE"} =>
            RotationAccepted(tx[w].sid, Rotated(w), tx[w].now)

\* A token never outlives its session, nor the absolute end its session was
\* given when it was opened.
TokenWithinSession ==
    \A s \in Sessions, n \in Gens :
        n <= issued[s] => token[s][n].expires <= session[s].expires

\* What the proof of these invariants also needs: rows that are not ACTIVE are
\* regular too, no two transactions insert the same session, and each
\* transaction still finds the tables as its last statement left them.
RowsInOrder ==
    \A s \in Sessions :
        /\ session[s].status = "ABSENT" <=> issued[s] = 0
        /\ \A n \in Gens : n > issued[s] => token[s][n] = NoToken

OpensApart ==
    \A w, v \in Workers :
        /\ w # v
        /\ tx[w].step \in {"open.lock", "open.insert"}
        /\ tx[v].step \in {"open.lock", "open.insert"}
        => tx[w].sid # tx[v].sid

InOrder(w) ==
    /\ tx[w].step \in {"open.lock", "open.insert"} =>
          session[tx[w].sid].status = "ABSENT"
    /\ tx[w].step = "open.insert" => account[Owner[tx[w].sid]] = "ACTIVE"
    /\ tx[w].step \in {"refresh.lock", "refresh.lookup", "refresh.apply"} =>
          tx[w].gen <= issued[tx[w].sid]
    /\ tx[w].step = "revoke" =>
          \A s \in tx[w].held : session[s].status = "ACTIVE"
    /\ tx[w].step = "revoke" /\ tx[w].reason = "ADMIN" =>
          /\ account[tx[w].acct] = "ACTIVE"
          /\ ActiveOf(tx[w].acct) \subseteq tx[w].todo \cup tx[w].held

Inductive ==
    /\ TypeOK
    /\ LocksExclude
    /\ OneChain
    /\ RevocationIsTotal
    /\ TokenWithinSession
    /\ RowsInOrder
    /\ OpensApart
    /\ \A w \in Workers : InOrder(w)
    /\ VerdictStillTrue

\* Grace is no factory: whoever presents a token, however often and however
\* many at once, gets a successor only from the last token of the chain or the
\* one just before it.
GraceIsNoFactory ==
    [][\A s \in Sessions : issued'[s] # issued[s] /\ issued[s] > 0 =>
          \E w \in Workers : tx[w].sid = s /\ tx[w].gen >= issued[s] - 1
                              /\ tx[w].step = "refresh.apply"]_vars

LedgerState(s) == CASE session[s].status = "ABSENT" -> "unborn"
                    [] session[s].status = "ACTIVE" -> "open"
                    [] session[s].status = "REVOKED" -> "closed"
UsableTokens(s) == {n \in Gens : token[s][n].status = "ACTIVE"}

StateOf == [s \in Sessions |-> LedgerState(s)]
UsableOf == [s \in Sessions |-> UsableTokens(s)]
ClosedAccounts == {a \in Accounts : account[a] = "DEACTIVATED"}

\* Seen from outside, the tables are the ledger of SessionLedger: one usable
\* credential per open session, and an account closed with all its sessions at
\* once, whatever the transactions interleave.
Ledger == INSTANCE SessionLedger WITH
    state <- StateOf, usable <- UsableOf, closed <- ClosedAccounts

ImplementsLedger == Ledger!Spec

\* Every request ends, by an answer or an error: no transaction waits for ever
\* for a row lock, whatever the others hold.
RequestsEnd ==
    \A w \in Workers : tx[w].step # "idle" ~> tx[w].step = "idle"
=============================================================================
