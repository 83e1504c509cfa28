--------------------------- MODULE RefreshClient ---------------------------
(***************************************************************************)
(* One honest client of one session, on a network that loses, delays and   *)
(* reorders answers: the mobile "sur reseau instable" the grace window of  *)
(* session.service.ts is for.  Nobody else presents its tokens, so any     *)
(* replay the server detects here is a false alarm.                        *)
(*                                                                         *)
(* The client is external to the repository: it keeps the last refresh     *)
(* token it was handed and presents that one, again if no answer came.     *)
(***************************************************************************)
EXTENDS Sessions

CONSTANTS
    Mine,         \* the client's session
    MaxInFlight,  \* requests and answers the client lets overlap
    MaxLost       \* answers the network loses before one arrives

ASSUME RefreshClientAssumption ==
    /\ Mine \in Sessions
    /\ MaxInFlight \in Nat \ {0}
    /\ MaxLost \in Nat

VARIABLES
    kept,     \* the token the client keeps, 0 before the login is answered
    answers,  \* tokens in answers on their way to the client
    lost      \* answers lost since the last one that arrived

clientVars == <<kept, answers, lost>>
allVars == <<vars, clientVars>>

InFlight == Cardinality(Refreshing(Mine)) + Cardinality(answers)

\* The server deals with a request, and the client gets the answer or misses it
\* and asks again, within the grace window: time outruns neither.
Timely ==
    /\ \A w \in Refreshing(Mine) : clock + 1 < tx[w].now + GraceWindow
    /\ InFlight + lost > 0 /\ token[Mine][kept].status = "ROTATED" =>
          clock + 1 < token[Mine][kept].grace

-----------------------------------------------------------------------------
ClientInit ==
    /\ Init
    /\ kept = 0
    /\ answers = {}
    /\ lost = 0

Login(w) ==
    /\ OpenBegin(w, Mine) \/ OpenLock(w) \/ OpenCommit(w)
    /\ UNCHANGED clientVars

LoginAnswered(w) == OpenIssue(w) /\ kept' = 1 /\ UNCHANGED <<answers, lost>>

Ask(w) ==
    /\ kept # 0
    /\ InFlight < MaxInFlight
    /\ RefreshBegin(w, Mine, kept)
    /\ UNCHANGED clientVars

Serve(w) ==
    /\ RefreshLock(w) \/ RefreshLookup(w) \/ RefreshReplay(w) \/ RefreshRefuse(w)
    /\ UNCHANGED clientVars

\* Fault: the answer carries the token that was presented.
AnswerOld(w) ==
    /\ RefreshRotate(w)
    /\ answers' = answers \cup {tx[w].gen}
    /\ UNCHANGED <<kept, lost>>

\* The answer to an accepted refresh leaves with the new token.
Answer(w) ==
    /\ RefreshRotate(w)
    /\ answers' = answers \cup {issued'[Mine]}
    /\ UNCHANGED <<kept, lost>>

Receive ==
    \E n \in answers :
        /\ kept' = n
        /\ answers' = answers \ {n}
        /\ lost' = 0
        /\ UNCHANGED vars

Lose ==
    \E n \in answers :
        /\ lost < MaxLost
        /\ answers' = answers \ {n}
        /\ lost' = lost + 1
        /\ UNCHANGED <<vars, kept>>

Pass == (kept # 0 => Timely) /\ Tick /\ UNCHANGED clientVars

Fail(w) == Rollback(w) /\ UNCHANGED clientVars

ClientNext ==
    \/ Receive \/ Lose \/ Pass
    \/ \E w \in Workers :
        Login(w) \/ LoginAnswered(w) \/ Ask(w) \/ Serve(w) \/ Answer(w) \/ Fail(w)

ClientSpec == ClientInit /\ [][ClientNext]_allVars

-----------------------------------------------------------------------------
\* What the grace window is for: a client that loses an answer now and then,
\* and asks again in time, is never taken for a thief.
NeverCut == session[Mine].reason # "REPLAY_DETECTED"

\* When nothing is in flight and no answer is missing, the token the client
\* keeps is the ACTIVE one: its next refresh succeeds, whenever it comes.
ClientInStep ==
    session[Mine].status = "ACTIVE" /\ kept # 0 /\ InFlight = 0 /\ lost = 0 =>
        kept = issued[Mine]

\* What GRACE was made for: a request of the client that reaches its verdict is
\* refused only because its session or its token has expired, never as STALE
\* and never as a REPLAY.
ClientIsServed ==
    \A w \in Refreshing(Mine) :
        tx[w].step = "refresh.apply" =>
            \/ tx[w].verdict \in {"USABLE", "GRACE"}
            \/ /\ tx[w].verdict = "DEAD"
               /\ \/ session[Mine].expires <= tx[w].now
                  \/ token[Mine][tx[w].gen].expires <= tx[w].now

\* The hypothesis of the three: a client that lets requests overlap, or loses
\* two answers in a row, falls behind the chain.
OneAtATime == MaxInFlight = 1 /\ MaxLost <= 1

\* What their proof needs.  The client alone writes the session, with one
\* transaction at a time.
ClientAlone ==
    /\ account[Owner[Mine]] = "ACTIVE"
    /\ session[Mine].status # "REVOKED" /\ session[Mine].reason = "-"
    /\ \A w \in Workers : tx[w].step # "idle" => tx[w].sid = Mine /\ tx[w].step # "revoke"
    /\ \A w, v \in Workers : tx[w].step = "open.issue" /\ tx[v].step = "open.issue" => w = v
    /\ \A w, v \in Refreshing(Mine) : w = v

\* Nothing is asked before the login is answered, and then once.
ClientInOrder ==
    /\ \A w \in Workers : tx[w].step = "open.issue" => kept = 0 /\ issued[Mine] = 1
    /\ kept = 0 => answers = {} /\ lost = 0 /\ Refreshing(Mine) = {} /\ issued[Mine] <= 1
    /\ kept # 0 => session[Mine].status = "ACTIVE"
    /\ \A w \in Refreshing(Mine) : tx[w].gen = kept /\ answers = {}

\* Each token the client has not got is in an answer, or was lost: the tokens
\* of the chain are all accounted for.
ChainAccounted ==
    /\ kept \in Nat /\ lost \in 0..MaxLost
    /\ answers \in {{}, {issued[Mine]}}
    /\ kept # 0 => kept + lost + Cardinality(answers) = issued[Mine]

Waiting == Refreshing(Mine) # {} \/ answers # {} \/ lost > 0

\* No time limit has run out on the client.
ClientInTime ==
    /\ \A w \in Refreshing(Mine) :
          tx[w].now <= clock /\ clock < tx[w].now + GraceWindow
    /\ Waiting /\ token[Mine][kept].status = "ROTATED" =>
          clock < token[Mine][kept].grace

ClientInductive ==
    /\ Inductive
    /\ ClientAlone
    /\ ClientInOrder
    /\ ChainAccounted
    /\ ClientInTime
=============================================================================
