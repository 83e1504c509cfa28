--------------------------- MODULE ProgramsProofs ---------------------------
(***************************************************************************)
(* Proofs about Programs: for any programs, lines, references, keys and    *)
(* connections, a reference names one person, an accepted invitation was   *)
(* judged whole, a program opens nothing the family closed, the caps of    *)
(* the invitations hold but for the clicks of the other connections, and   *)
(* every variable keeps its type, the partial unique indexes included.     *)
(***************************************************************************)
EXTENDS Programs, TLAPS, FiniteSetTheorems, SequenceTheorems

-----------------------------------------------------------------------------
\* The types the argument rests on.
People == Families \cup Nat
Actors == {"SELF", "STAFF", "PROGRAM"}
Verdicts == {"NONE", "LINKED", "ALREADY_LINKED", "SKIPPED_ERASED", "SKIPPED_AUTONOMOUS",
             "SKIPPED_OF_AGE"}
Outcomes == UNION {[D -> Verdicts] : D \in SUBSET People}

Reasons == {"SELF", "PROGRAM", "ERASED"}
Row == [by : Actors, status : {"ACTIVE"}, reason : {"NONE"}]
         \cup [by : Actors, status : {"REVOKED"}, reason : Reasons]

Key == [program : Granted, reference : References, key : Nat, person : People]

Invitation == [program : Granted, line : Lines,
               status : {"PENDING", "EXPIRED", "DECLINED", "ACCEPTED"},
               suppressed : BOOLEAN, created : Nat, outcome : Outcomes]

Insertions == [op : {"grant"}, step : {"insert"}, by : Actors, person : Persons,
               program : Offered, closed : SUBSET (Persons \X Nat)]

ClickRequests == [op : {"click"}, step : {"reference", "line", "grant", "commit"},
           program : Granted, reference : References, line : Lines, now : Nat, key : Nat,
           closed : SUBSET (Persons \X Nat), person : People \cup {Nobody},
           rows : SUBSET Nat, live : SUBSET Nat, silent : BOOLEAN, opens : BOOLEAN]

Answers == [op : {"accept", "decline"}, step : {"begin", "commit"}, account : Families,
            invitation : Nat, now : Nat, rows : SUBSET Nat, outcome : Outcomes]

Requests == {Idle} \cup Insertions \cup ClickRequests \cup Answers

Grants == grants \in [Persons \X Offered -> Seq(Row)]
Types ==
    /\ Grants
    /\ keys \subseteq Key
    /\ invitations \in Seq(Invitation)
    /\ fate \in [Persons -> {"unborn", "minor", "of age", "autonomous", "erased"}]
    /\ activeKey \in Nat
    /\ clock \in Nat
    /\ tx \in [Connections -> Requests]
    /\ \A c \in Connections :
          tx[c].op \in {"accept", "decline"} => tx[c].invitation \in DOMAIN invitations

LEMMA RequestKinds ==
  ASSUME Types, NEW c \in Connections
  PROVE  /\ tx[c].op = "grant" => tx[c] \in Insertions
         /\ tx[c].op = "click" => tx[c] \in ClickRequests
         /\ tx[c].op \in {"accept", "decline"} => tx[c] \in Answers
         /\ tx[c] = Idle <=> tx[c].op = "none"
<1>1. tx[c] \in {Idle} \cup Insertions \cup ClickRequests \cup Answers
  BY DEF Types, Requests
<1>2. /\ \A t \in Insertions : t.op = "grant"
      /\ \A t \in ClickRequests : t.op = "click"
      /\ \A t \in Answers : t.op \in {"accept", "decline"}
  BY DEF Insertions, ClickRequests, Answers
<1>3. Idle.op = "none"
  BY DEF Idle
<1> HIDE DEF Idle
<1> QED
  BY <1>1, <1>2, <1>3

LEMMA OneChanges ==
  ASSUME Types, NEW c \in Connections, NEW t \in Requests, tx' = [tx EXCEPT ![c] = t]
  PROVE  /\ tx' \in [Connections -> Requests]
         /\ tx'[c] = t
         /\ \A d \in Connections \ {c} : tx'[d] = tx[d]
  BY DEF Types

LEMMA RowsOf ==
  ASSUME Types, NEW x \in Persons, NEW p \in Offered
  PROVE  /\ grants[<<x, p>>] \in Seq(Row)
         /\ Len(grants[<<x, p>>]) \in Nat
         /\ DOMAIN grants[<<x, p>>] = 1..Len(grants[<<x, p>>])
         /\ \A n \in 1..Len(grants[<<x, p>>]) : grants[<<x, p>>][n] \in Row
<1>1. grants[<<x, p>>] \in Seq(Row)
  BY DEF Types, Grants
<1> QED
  BY <1>1, LenProperties, ElementOfSeq

LEMMA InvitationsOf ==
  ASSUME Types
  PROVE  /\ Len(invitations) \in Nat
         /\ DOMAIN invitations = 1..Len(invitations)
         /\ \A i \in DOMAIN invitations : i \in Nat /\ invitations[i] \in Invitation
<1>1. invitations \in Seq(Invitation)
  BY DEF Types
<1> QED
  BY <1>1, LenProperties, ElementOfSeq

LEMMA ClosedRowsType ==
  ASSUME Types, NEW p \in Offered
  PROVE  /\ ClosedRows(p) \in SUBSET (Persons \X Nat)
         /\ \A k \in ClosedRows(p) :
               /\ k[2] = Len(grants[<<k[1], p>>])
               /\ k[1] \in Persons /\ ClosedByFamily(k[1], p)
<1>1. \A x \in Persons : Len(grants[<<x, p>>]) \in Nat
  BY RowsOf
<1>2. \A k \in ClosedRows(p) : \E x \in Persons :
          ClosedByFamily(x, p) /\ k = <<x, Len(grants[<<x, p>>])>>
  BY DEF ClosedRows
<1>3. ASSUME NEW k \in ClosedRows(p)
      PROVE  /\ k[2] = Len(grants[<<k[1], p>>]) /\ k \in Persons \X Nat
             /\ k[1] \in Persons /\ ClosedByFamily(k[1], p)
  <2>1. PICK x \in Persons : ClosedByFamily(x, p) /\ k = <<x, Len(grants[<<x, p>>])>>
    BY <1>2, <1>3
  <2>2. k[1] = x /\ k[2] = Len(grants[<<x, p>>])
    BY <2>1
  <2> QED BY <1>1, <2>1, <2>2
<1> QED
  BY <1>3

LEMMA LastIsARow ==
  ASSUME Types, NEW x \in Persons, NEW p \in Offered
  PROVE  /\ IsActive(x, p) \/ ClosedByFamily(x, p) =>
              /\ Len(grants[<<x, p>>]) \in 1..Len(grants[<<x, p>>])
              /\ LastGrant(x, p) = grants[<<x, p>>][Len(grants[<<x, p>>])]
              /\ LastGrant(x, p) \in Row
  <1>1. grants[<<x, p>>] \in Seq(Row)
    BY RowsOf
  <1>2. CASE grants[<<x, p>>] = <<>>
    BY <1>2 DEF IsActive, ClosedByFamily, LastGrant, None
  <1>3. CASE grants[<<x, p>>] # <<>>
    <2>1. Len(grants[<<x, p>>]) \in 1..Len(grants[<<x, p>>])
      <3>1. Len(grants[<<x, p>>]) \in Nat \ {0}
        BY <1>1, <1>3, EmptySeq
      <3>2. \A n \in Nat \ {0} : n \in 1..n
        OBVIOUS
      <3> QED BY <3>1, <3>2, Zenon
    <2>2. grants[<<x, p>>][Len(grants[<<x, p>>])] \in Row
      BY <2>1, RowsOf
    <2> QED BY <1>3, <2>1, <2>2 DEF LastGrant
  <1> QED BY <1>2, <1>3

-----------------------------------------------------------------------------
\* What every step does to the requests.

LEMMA InsertionType ==
  ASSUME Types, NEW c \in Connections, NEW by \in Actors, NEW x \in Persons, NEW p \in Offered,
         Insertion(c, by, x, p)
  PROVE  /\ tx'[c] \in Insertions
         /\ tx'[c].by = by /\ tx'[c].person = x /\ tx'[c].program = p
         /\ tx'[c].closed = ClosedRows(p)
         /\ tx' \in [Connections -> Requests]
         /\ \A d \in Connections \ {c} : tx'[d] = tx[d]
<1> DEFINE t == [op |-> "grant", step |-> "insert", by |-> by, person |-> x, program |-> p,
                 closed |-> ClosedRows(p)]
<1>1. t \in Insertions
  BY ClosedRowsType DEF Insertions
<1>2. tx' = [tx EXCEPT ![c] = t]
  BY DEF Insertion, Begin
<1>3. t.by = by /\ t.person = x /\ t.program = p /\ t.closed = ClosedRows(p)
  OBVIOUS
<1> HIDE DEF t
<1> QED
  BY <1>1, <1>2, <1>3, OneChanges DEF Requests

LEMMA ClickType ==
  ASSUME Types, NEW c \in Connections, NEW p \in Granted, NEW r \in References, NEW l \in Lines,
         OpenDependentAccess(c, p, r, l)
  PROVE  /\ tx'[c] \in ClickRequests
         /\ tx'[c].step = "reference" /\ tx'[c].key = activeKey /\ tx'[c].program = p
         /\ tx'[c].reference = r
         /\ tx'[c].closed = ClosedRows(p) /\ tx'[c].person = Nobody
         /\ tx' \in [Connections -> Requests]
         /\ \A d \in Connections \ {c} : tx'[d] = tx[d]
<1> DEFINE t == [op |-> "click", step |-> "reference", program |-> p, reference |-> r, line |-> l,
                 now |-> clock, key |-> activeKey, closed |-> ClosedRows(p), person |-> Nobody,
                 rows |-> {}, live |-> {}, silent |-> FALSE, opens |-> FALSE]
<1>1. t \in ClickRequests
  <2>1. p \in Offered
    BY DEF Offered
  <2> QED BY <2>1, ClosedRowsType DEF ClickRequests, Types
<1>2. tx' = [tx EXCEPT ![c] = t]
  BY DEF OpenDependentAccess, Begin
<1>3. t.step = "reference" /\ t.key = activeKey /\ t.program = p /\ t.closed = ClosedRows(p)
      /\ t.person = Nobody /\ t.reference = r
  OBVIOUS
<1> HIDE DEF t
<1> QED
  BY <1>1, <1>2, <1>3, OneChanges DEF Requests

LEMMA AnswerType ==
  ASSUME Types, NEW c \in Connections, NEW a \in Families, NEW i \in DOMAIN invitations,
         Accept(c, a, i) \/ Decline(c, a, i)
  PROVE  /\ tx'[c] \in Answers
         /\ tx'[c].step = "begin" /\ tx'[c].invitation = i
         /\ tx' \in [Connections -> Requests]
         /\ \A d \in Connections \ {c} : tx'[d] = tx[d]
<1>1. PICK op \in {"accept", "decline"} : Answer(c, a, i, op)
  BY DEF Accept, Decline
<1> DEFINE t == [op |-> op, step |-> "begin", account |-> a, invitation |-> i, now |-> clock,
                 rows |-> {}, outcome |-> <<>>]
<1>2. t \in Answers
  <2>1. <<>> \in Outcomes
    <3>1. <<>> \in [{} -> Verdicts]
      OBVIOUS
    <3> QED BY <3>1 DEF Outcomes
  <2>2. i \in Nat
    BY InvitationsOf
  <2> QED BY <2>1, <2>2 DEF Answers, Types
<1>3. tx' = [tx EXCEPT ![c] = t]
  BY <1>1 DEF Answer, Begin
<1>4. t.step = "begin" /\ t.invitation = i
  OBVIOUS
<1> HIDE DEF t
<1> QED
  BY <1>2, <1>3, <1>4, OneChanges DEF Requests

\* A statement of a request that is under way.
Ends(c) == tx' = [tx EXCEPT ![c] = Idle]

LEMMA EndsType ==
  ASSUME Types, NEW c \in Connections, Ends(c)
  PROVE  /\ tx'[c] = Idle
         /\ tx' \in [Connections -> Requests]
         /\ \A d \in Connections \ {c} : tx'[d] = tx[d]
  BY OneChanges DEF Requests, Ends

\* A click goes on with what it was asked.
Continues(c) ==
    /\ tx'[c].program = tx[c].program /\ tx'[c].reference = tx[c].reference
    /\ tx'[c].key = tx[c].key /\ tx'[c].closed = tx[c].closed

LEMMA ReferenceLockType ==
  ASSUME Types, NEW c \in Connections, ReferenceLock(c)
  PROVE  /\ tx[c] \in ClickRequests /\ tx'[c] \in ClickRequests
         /\ tx[c].step = "reference" /\ tx'[c].step = "line" /\ Continues(c)
         /\ LET known == KnownAs(tx[c].program, tx[c].reference)
            IN  IF known = {} THEN tx'[c].person = Nobody ELSE tx'[c].person \in known
         /\ tx' \in [Connections -> Requests]
         /\ \A d \in Connections \ {c} : tx'[d] = tx[d]
<1> DEFINE known == KnownAs(tx[c].program, tx[c].reference)
           x == IF known = {} THEN Nobody ELSE CHOOSE y \in known : TRUE
           t == [tx[c] EXCEPT !.step = "line", !.person = x]
<1>1. tx[c] \in ClickRequests /\ tx[c].step = "reference"
  BY RequestKinds DEF ReferenceLock, At
<1>2. known \subseteq People
  BY DEF KnownAs, Types, Key
<1>3. tx' = [tx EXCEPT ![c] = t]
  BY DEF ReferenceLock, Proceed, LookUp
<1>4. IF known = {} THEN x = Nobody ELSE x \in known
  OBVIOUS
<1> HIDE DEF known, x
<1>5. t \in ClickRequests
  BY <1>1, <1>2, <1>4 DEF ClickRequests
<1>6. /\ t.step = "line" /\ t.program = tx[c].program /\ t.reference = tx[c].reference
      /\ t.key = tx[c].key /\ t.closed = tx[c].closed /\ t.person = x
  BY <1>1 DEF ClickRequests
<1> HIDE DEF t
<1>7. tx'[c] = t /\ tx' \in [Connections -> Requests]
      /\ \A d \in Connections \ {c} : tx'[d] = tx[d]
  BY <1>3, <1>5, OneChanges DEF Requests
<1> QED
  BY <1>1, <1>4, <1>5, <1>6, <1>7 DEF known, Continues

LEMMA TakeInvitationType ==
  ASSUME Types, NEW c \in Connections, TakeInvitation(c)
  PROVE  /\ tx[c] \in ClickRequests /\ tx'[c] \in ClickRequests
         /\ tx[c].step = "line" /\ tx'[c].step = "grant" /\ Continues(c)
         /\ tx'[c].person = tx[c].person
         /\ tx'[c].rows = Existing(c) /\ tx'[c].live \subseteq Existing(c)
         /\ tx' \in [Connections -> Requests]
         /\ \A d \in Connections \ {c} : tx'[d] = tx[d]
<1> DEFINE t == [tx[c] EXCEPT !.step = "grant", !.rows = Existing(c), !.live = Live(c),
                              !.silent = Silent(c)]
<1>1. tx[c] \in ClickRequests /\ tx[c].step = "line"
  BY RequestKinds DEF TakeInvitation, LineLock, At
<1>2. Existing(c) \subseteq Nat /\ Live(c) \subseteq Existing(c)
  BY InvitationsOf DEF Existing, Live, Pending, OfProgram, OnLine
<1>3. Silent(c) \in BOOLEAN
  <2>1. CASE Live(c) = {}
    <3>1. \A but : LineAtCap(tx[c].line, but, tx[c].now) \in BOOLEAN
      BY DEF LineAtCap
    <3> QED BY <2>1, <3>1 DEF Silent
  <2>2. CASE Live(c) # {}
    BY <2>2, Zenon DEF Silent
  <2> QED BY <2>1, <2>2
<1>4. tx' = [tx EXCEPT ![c] = t]
  BY DEF TakeInvitation, Proceed
<1>5. t \in ClickRequests
  BY <1>1, <1>2, <1>3 DEF ClickRequests
<1>6. /\ t.step = "grant" /\ t.program = tx[c].program /\ t.reference = tx[c].reference
      /\ t.key = tx[c].key /\ t.closed = tx[c].closed /\ t.person = tx[c].person
      /\ t.rows = Existing(c) /\ t.live = Live(c)
  BY <1>1 DEF ClickRequests
<1> HIDE DEF t
<1>7. tx'[c] = t /\ tx' \in [Connections -> Requests]
      /\ \A d \in Connections \ {c} : tx'[d] = tx[d]
  BY <1>4, <1>5, OneChanges DEF Requests
<1> QED
  BY <1>1, <1>2, <1>5, <1>6, <1>7 DEF Continues

LEMMA TakeGrantType ==
  ASSUME Types, NEW c \in Connections, TakeGrant(c)
  PROVE  /\ tx[c] \in ClickRequests /\ tx[c].step = "grant"
         /\ \/ tx'[c] = Idle
            \/ /\ tx'[c] \in ClickRequests
               /\ tx'[c].step = "commit" /\ Continues(c)
               /\ tx'[c].person = tx[c].person
               /\ tx'[c].rows = tx[c].rows /\ tx'[c].live = tx[c].live
               /\ tx'[c].opens /\ tx[c].person # Nobody
                    => ~ClosedByFamily(tx[c].person, tx[c].program)
         /\ tx' \in [Connections -> Requests]
         /\ \A d \in Connections \ {c} : tx'[d] = tx[d]
<1> DEFINE x == tx[c].person
           p == tx[c].program
           opens == x = Nobody \/ ~(IsActive(x, p) \/ ClosedByFamily(x, p))
           t == [tx[c] EXCEPT !.step = "commit", !.opens = opens]
<1>1. tx[c] \in ClickRequests /\ tx[c].step = "grant"
  BY RequestKinds DEF TakeGrant, At
<1>2. tx' = [tx EXCEPT ![c] = Idle] \/ tx' = [tx EXCEPT ![c] = t]
  BY DEF TakeGrant, Proceed
<1>3. opens \in BOOLEAN /\ (opens /\ x # Nobody => ~ClosedByFamily(x, p))
  OBVIOUS
<1> HIDE DEF opens
<1>4. t \in ClickRequests
  BY <1>1, <1>3 DEF ClickRequests
<1>5. /\ t.step = "commit" /\ t.program = tx[c].program /\ t.reference = tx[c].reference
      /\ t.key = tx[c].key /\ t.closed = tx[c].closed /\ t.person = tx[c].person
      /\ t.rows = tx[c].rows /\ t.live = tx[c].live /\ t.opens = opens
  BY <1>1 DEF ClickRequests
<1> HIDE DEF t
<1>6. CASE tx' = [tx EXCEPT ![c] = Idle]
  BY <1>1, <1>6, EndsType DEF Ends
<1>7. CASE tx' = [tx EXCEPT ![c] = t]
  <2>1. tx'[c] = t /\ tx' \in [Connections -> Requests]
        /\ \A d \in Connections \ {c} : tx'[d] = tx[d]
    BY <1>4, <1>7, OneChanges DEF Requests
  <2> QED BY <1>1, <1>3, <1>4, <1>5, <2>1 DEF Continues
<1> QED
  BY <1>2, <1>6, <1>7

LEMMA AcceptInvitationType ==
  ASSUME Types, NEW c \in Connections, AcceptInvitation(c)
  PROVE  /\ tx[c] \in Answers /\ tx'[c] \in Answers
         /\ tx[c].step = "begin" /\ tx'[c].step = "commit" /\ tx'[c].op = "accept"
         /\ tx'[c].invitation = tx[c].invitation /\ tx'[c].rows = {tx[c].invitation}
         /\ tx'[c].account = tx[c].account
         /\ DOMAIN tx'[c].outcome = DOMAIN invitations[tx[c].invitation].outcome
         /\ \A d \in DOMAIN tx'[c].outcome : tx'[c].outcome[d] # "NONE"
         /\ tx' \in [Connections -> Requests]
         /\ \A d \in Connections \ {c} : tx'[d] = tx[d]
<1> DEFINE i == tx[c].invitation
           judged == [d \in DOMAIN invitations[i].outcome |-> Outcome(tx[c].account, d)]
           t == [tx[c] EXCEPT !.step = "commit", !.rows = {i}, !.outcome = judged]
<1>1. tx[c] \in Answers /\ tx[c].step = "begin" /\ tx[c].op = "accept"
  BY RequestKinds DEF AcceptInvitation, Answering
<1>2. tx' = [tx EXCEPT ![c] = t]
  BY DEF AcceptInvitation, Proceed
<1>3. \A a, d : Outcome(a, d) \in Verdicts \ {"NONE"}
  BY DEF Outcome, Verdicts
<1>4. DOMAIN judged = DOMAIN invitations[i].outcome /\ \A d \in DOMAIN judged : judged[d] # "NONE"
  BY <1>3
<1>5. judged \in Outcomes
  <2>1. i \in DOMAIN invitations
    BY <1>1 DEF Types
  <2>2. PICK D \in SUBSET People : invitations[i].outcome \in [D -> Verdicts]
    BY <2>1, InvitationsOf DEF Invitation, Outcomes
  <2>3. judged \in [D -> Verdicts]
    BY <1>3, <2>2
  <2> QED BY <2>3 DEF Outcomes
<1> HIDE DEF judged
<1>6. t \in Answers
  BY <1>1, <1>5 DEF Answers
<1>7. /\ t.step = "commit" /\ t.op = "accept" /\ t.invitation = i /\ t.rows = {i}
      /\ t.account = tx[c].account /\ t.outcome = judged
  BY <1>1 DEF Answers
<1> HIDE DEF t
<1>8. tx'[c] = t /\ tx' \in [Connections -> Requests]
      /\ \A d \in Connections \ {c} : tx'[d] = tx[d]
  BY <1>2, <1>6, OneChanges DEF Requests
<1> QED
  BY <1>1, <1>4, <1>6, <1>7, <1>8

-----------------------------------------------------------------------------
\* What a step may do to the grants of a person and a program.


\* A row is added, or the ACTIVE one is closed: what the family closed stays so.
SelfKept(s, t) ==
    /\ Len(t) >= Len(s)
    /\ \A n \in 1..Len(s) : s[n].reason = "SELF" => t[n].reason = "SELF"

Kept(g, x, p) == SelfKept(grants[<<x, p>>], g[<<x, p>>])

LEMMA SameKeeps == \A s \in Seq(Row) : SelfKept(s, s)
<1>1. \A s \in Seq(Row) : Len(s) \in Nat
  BY LenProperties
<1> QED
  BY <1>1 DEF SelfKept

LEMMA AppendKeeps ==
  ASSUME NEW s \in Seq(Row), NEW r \in Row
  PROVE  /\ Append(s, r) \in Seq(Row)
         /\ Len(Append(s, r)) = Len(s) + 1
         /\ Append(s, r)[Len(s) + 1] = r
         /\ SelfKept(s, Append(s, r))
<1> DEFINE t == Append(s, r)
<1>1. /\ t \in Seq(Row) /\ Len(t) = Len(s) + 1 /\ t[Len(s) + 1] = r
      /\ \A n \in 1..Len(s) : t[n] = s[n]
  BY AppendProperties
<1>2. Len(s) \in Nat
  BY LenProperties
<1> HIDE DEF t
<1>3. SelfKept(s, t)
  BY <1>1, <1>2 DEF SelfKept
<1> QED
  BY <1>1, <1>3 DEF t

LEMMA ClosingKeeps ==
  ASSUME NEW s \in Seq(Row), s # <<>>, s[Len(s)].status = "ACTIVE", NEW why \in Reasons
  PROVE  LET t == [s EXCEPT ![Len(s)] = [@ EXCEPT !.status = "REVOKED", !.reason = why]]
         IN  t \in Seq(Row) /\ Len(t) = Len(s) /\ SelfKept(s, t)
<1>1. Len(s) \in 1..Len(s)
  <2>1. Len(s) \in Nat \ {0}
    BY EmptySeq
  <2>2. \A n \in Nat \ {0} : n \in 1..n
    OBVIOUS
  <2> QED BY <2>1, <2>2, Zenon
<1>2. s[Len(s)] \in Row
  BY <1>1, ElementOfSeq
<1> DEFINE r == [s[Len(s)] EXCEPT !.status = "REVOKED", !.reason = why]
           t == [s EXCEPT ![Len(s)] = r]
<1>3. r \in Row /\ s[Len(s)].reason = "NONE"
  BY <1>2 DEF Row
<1> HIDE DEF r
<1>4. t \in Seq(Row) /\ Len(t) = Len(s) /\ \A n \in 1..Len(s) : n # Len(s) => t[n] = s[n]
  BY <1>1, <1>3, ExceptSeq
<1>5. Len(s) \in Nat
  BY LenProperties
<1>6. SelfKept(s, t)
  <2> HIDE DEF t
  <2> QED BY <1>3, <1>4, <1>5 DEF SelfKept
<1> QED
  BY <1>4, <1>6 DEF r

LEMMA WithGrantKeeps ==
  ASSUME Types, NEW by \in Actors, NEW x, NEW p, NEW y \in Persons, NEW q \in Offered
  PROVE  /\ WithGrant(by, x, p) \in [Persons \X Offered -> Seq(Row)]
         /\ Kept(WithGrant(by, x, p), y, q)
         /\ <<y, q>> # <<x, p>> => WithGrant(by, x, p)[<<y, q>>] = grants[<<y, q>>]
         /\ <<y, q>> = <<x, p>> =>
               /\ Len(WithGrant(by, x, p)[<<y, q>>]) = Len(grants[<<y, q>>]) + 1
               /\ WithGrant(by, x, p)[<<y, q>>][Len(grants[<<y, q>>]) + 1].by = by
<1> DEFINE row == [by |-> by, status |-> "ACTIVE", reason |-> "NONE"]
<1>1. row \in Row /\ row.by = by
  BY DEF Row, Actors
<1>2. WithGrant(by, x, p) = [grants EXCEPT ![<<x, p>>] = Append(@, row)]
  BY DEF WithGrant
<1> HIDE DEF row
<1>3. \A s \in Seq(Row) : /\ Append(s, row) \in Seq(Row)
                          /\ Len(Append(s, row)) = Len(s) + 1
                          /\ Append(s, row)[Len(s) + 1] = row
                          /\ SelfKept(s, Append(s, row))
  BY <1>1, AppendKeeps
<1>4. grants[<<y, q>>] \in Seq(Row)
  BY RowsOf
<1>5. WithGrant(by, x, p)[<<y, q>>] = IF <<y, q>> = <<x, p>> THEN Append(grants[<<y, q>>], row)
                                  ELSE grants[<<y, q>>]
  BY <1>2 DEF Types, Grants
<1>6. WithGrant(by, x, p) \in [Persons \X Offered -> Seq(Row)]
  <2>1. WithGrant(by, x, p) = [k \in Persons \X Offered |->
            IF k = <<x, p>> THEN Append(grants[k], row) ELSE grants[k]]
    BY <1>2 DEF Types, Grants
  <2>2. \A k \in Persons \X Offered : grants[k] \in Seq(Row)
    BY DEF Types, Grants
  <2>3. \A k \in Persons \X Offered : Append(grants[k], row) \in Seq(Row)
    BY <1>3, <2>2
  <2> QED BY <2>1, <2>2, <2>3
<1> DEFINE t == Append(grants[<<y, q>>], row)
           g == WithGrant(by, x, p)
<1>7. /\ Len(t) = Len(grants[<<y, q>>]) + 1
      /\ t[Len(grants[<<y, q>>]) + 1] = row
      /\ SelfKept(grants[<<y, q>>], t)
  BY <1>3, <1>4
<1>8. g[<<y, q>>] = IF <<y, q>> = <<x, p>> THEN t ELSE grants[<<y, q>>]
  BY <1>5
<1> HIDE DEF t, g
<1>9. CASE <<y, q>> = <<x, p>>
  BY <1>1, <1>6, <1>7, <1>8, <1>9 DEF Kept, g
<1>10. CASE <<y, q>> # <<x, p>>
  BY <1>4, <1>6, <1>8, <1>10, SameKeeps DEF Kept, g
<1> QED
  BY <1>9, <1>10

Spared(x) == \A y \in Persons, q \in Offered : y # x => grants'[<<y, q>>] = grants[<<y, q>>]

LEMMA WithGrantSpares ==
  ASSUME Types, NEW by, NEW x, NEW p, grants' = WithGrant(by, x, p)
  PROVE  Spared(x)
<1> SUFFICES ASSUME NEW y \in Persons, NEW q \in Offered, y # x
             PROVE  grants'[<<y, q>>] = grants[<<y, q>>]
  BY DEF Spared
<1>1. <<y, q>> # <<x, p>> /\ <<y, q>> \in DOMAIN grants
  BY DEF Types, Grants
<1> DEFINE s == Append(grants[<<x, p>>], [by |-> by, status |-> "ACTIVE", reason |-> "NONE"])
<1>2. grants' = [grants EXCEPT ![<<x, p>>] = s]
  BY DEF WithGrant
<1> HIDE DEF s
<1> QED
  BY <1>1, <1>2

LEMMA WithoutGrantKeeps ==
  ASSUME Types, NEW x \in Persons, NEW p \in Offered, IsActive(x, p), NEW why \in Reasons
  PROVE  LET g == WithoutGrant(grants, x, p, why)
         IN  /\ g \in [Persons \X Offered -> Seq(Row)]
             /\ \A y \in Persons, q \in Offered :
                   Kept(g, y, q) /\ (grants[<<y, q>>] = <<>> => g[<<y, q>>] = <<>>)
<1> DEFINE s == grants[<<x, p>>]
           t == [s EXCEPT ![Len(s)] = [@ EXCEPT !.status = "REVOKED", !.reason = why]]
           g == WithoutGrant(grants, x, p, why)
<1>1. s \in Seq(Row) /\ s # <<>> /\ s[Len(s)].status = "ACTIVE"
  BY RowsOf DEF IsActive, LastGrant, None
<1>2. t \in Seq(Row) /\ SelfKept(s, t)
  BY <1>1, ClosingKeeps
<1>3. g = [grants EXCEPT ![<<x, p>>] = t]
  BY DEF WithoutGrant
<1> HIDE DEF t, g
<1>4. g \in [Persons \X Offered -> Seq(Row)]
  BY <1>2, <1>3 DEF Types, Grants
<1>5. ASSUME NEW y \in Persons, NEW q \in Offered
      PROVE  Kept(g, y, q) /\ (grants[<<y, q>>] = <<>> => g[<<y, q>>] = <<>>)
  <2>1. g[<<y, q>>] = IF <<y, q>> = <<x, p>> THEN t ELSE grants[<<y, q>>]
    BY <1>3 DEF Types, Grants
  <2>2. CASE <<y, q>> = <<x, p>>
    BY <1>1, <1>2, <2>1, <2>2 DEF Kept
  <2>3. CASE <<y, q>> # <<x, p>>
    BY <2>1, <2>3, SameKeeps, RowsOf DEF Kept
  <2> QED BY <2>2, <2>3
<1> QED
  BY <1>4, <1>5 DEF g

-----------------------------------------------------------------------------
\* What a step may do to the invitations.

\* AcceptedIsComplete, of one invitation.
Judged(v) == \A d \in DOMAIN v.outcome : (v.status = "ACCEPTED") = (v.outcome[d] # "NONE")

LEMMA JudgedIsComplete == AcceptedIsComplete <=> \A i \in DOMAIN invitations : Judged(invitations[i])
  BY DEF AcceptedIsComplete, Judged

LEMMA ClosedIsJudged ==
  ASSUME NEW v \in Invitation, Judged(v), v.status = "PENDING",
         NEW how \in {"EXPIRED", "DECLINED"}
  PROVE  [v EXCEPT !.status = how] \in Invitation /\ Judged([v EXCEPT !.status = how])
  BY DEF Judged, Invitation

LEMMA ClosedIsClosed ==
  ASSUME Types, AcceptedIsComplete, NEW ids,
         \A i \in ids \cap DOMAIN invitations : invitations[i].status = "PENDING",
         NEW how \in {"EXPIRED", "DECLINED"}
  PROVE  LET closed == Closed(ids, how)
         IN  /\ closed \in Seq(Invitation)
             /\ DOMAIN closed = DOMAIN invitations
             /\ \A i \in DOMAIN invitations :
                   Judged(closed[i]) /\ (i \notin ids => closed[i] = invitations[i])
<1> DEFINE closed == Closed(ids, how)
<1>1. closed = [i \in DOMAIN invitations |->
                  IF i \in ids THEN [invitations[i] EXCEPT !.status = how] ELSE invitations[i]]
  BY DEF Closed
<1>2. DOMAIN closed = DOMAIN invitations
  BY <1>1
<1>3. ASSUME NEW i \in DOMAIN invitations
      PROVE  /\ closed[i] \in Invitation /\ Judged(closed[i])
             /\ i \notin ids => closed[i] = invitations[i]
  <2>1. invitations[i] \in Invitation /\ Judged(invitations[i])
    BY InvitationsOf, JudgedIsComplete
  <2>2. CASE i \in ids
    <3>1. closed[i] = [invitations[i] EXCEPT !.status = how]
      BY <1>1, <2>2
    <3> QED BY <2>1, <2>2, <3>1, ClosedIsJudged
  <2>3. CASE i \notin ids
    <3>1. closed[i] = invitations[i]
      BY <1>1, <2>3
    <3> QED BY <2>1, <2>3, <3>1
  <2> QED BY <2>2, <2>3
<1> HIDE DEF closed
<1>4. closed \in [1..Len(invitations) -> Invitation]
  BY <1>1, <1>2, <1>3, InvitationsOf
<1>5. closed \in Seq(Invitation)
  BY <1>4, InvitationsOf, SeqDef
<1> QED
  BY <1>2, <1>3, <1>5 DEF closed

LEMMA OutcomeIs ==
  ASSUME NEW v \in Invitation
  PROVE  /\ DOMAIN v.outcome \subseteq People
         /\ \A d \in DOMAIN v.outcome : v.outcome[d] \in Verdicts
         /\ v.outcome = [d \in DOMAIN v.outcome |-> v.outcome[d]]
<1>1. PICK D \in SUBSET People : v.outcome \in [D -> Verdicts]
  BY DEF Invitation, Outcomes
<1> QED
  BY <1>1

\* A dependent joins an invitation nobody has answered.
LEMMA ListedIsJudged ==
  ASSUME Types, AcceptedIsComplete, NEW i \in DOMAIN invitations,
         invitations[i].status = "PENDING", NEW x \in People, NEW silent \in BOOLEAN
  PROVE  LET w == [invitations[i] EXCEPT !.suppressed = @ /\ silent, !.outcome = Listed(i, x)]
         IN  w \in Invitation /\ Judged(w)
<1> DEFINE v == invitations[i]
           o == Listed(i, x)
           D == DOMAIN v.outcome \cup {x}
<1>1. v \in Invitation /\ Judged(v)
  BY InvitationsOf, JudgedIsComplete
<1>2. \A d \in DOMAIN v.outcome : v.outcome[d] = "NONE"
  BY <1>1 DEF Judged
<1>3. o = [d \in D |-> IF d \in DOMAIN v.outcome THEN v.outcome[d] ELSE "NONE"]
  BY DEF Listed
<1>4. o \in [D -> Verdicts] /\ \A d \in DOMAIN o : o[d] = "NONE"
  BY <1>2, <1>3 DEF Verdicts
<1>5. D \in SUBSET People
  BY <1>1, OutcomeIs
<1> HIDE DEF v, o, D
<1>6. o \in Outcomes
  BY <1>4, <1>5 DEF Outcomes
<1> DEFINE w == [v EXCEPT !.suppressed = @ /\ silent, !.outcome = o]
<1>7. w \in Invitation /\ w.status = "PENDING" /\ w.outcome = o
  BY <1>1, <1>6 DEF Invitation, v
<1> HIDE DEF w
<1>8. Judged(w)
  BY <1>4, <1>7 DEF Judged
<1> QED
  BY <1>7, <1>8 DEF w, v, o

LEMMA InvitedIsJudged ==
  ASSUME Types, AcceptedIsComplete, NEW t \in ClickRequests, NEW x \in People,
         t.live \subseteq t.rows,
         \A i \in t.rows \cap DOMAIN invitations : invitations[i].status = "PENDING"
  PROVE  LET next == Invited(t, x)
         IN  /\ next \in Seq(Invitation)
             /\ DOMAIN invitations \subseteq DOMAIN next
             /\ \A i \in DOMAIN next : Judged(next[i])
             /\ \A i \in DOMAIN invitations \ t.rows : next[i] = invitations[i]
<1> DEFINE next == Invited(t, x)
<1>1. CASE t.live = {}
  <2> DEFINE closed == Closed(t.rows, "EXPIRED")
             o == [d \in {x} |-> "NONE"]
             new == [program |-> t.program, line |-> t.line, status |-> "PENDING",
                     suppressed |-> t.silent, created |-> t.now, outcome |-> o]
  <2>1. next = Append(closed, new)
    BY <1>1 DEF Invited
  <2>2. o \in Outcomes
    <3>1. o \in [{x} -> Verdicts] /\ {x} \in SUBSET People
      BY DEF Verdicts
    <3> QED BY <3>1 DEF Outcomes
  <2>3. new \in Invitation /\ Judged(new)
    <3>1. \A d \in DOMAIN o : o[d] = "NONE"
      OBVIOUS
    <3> HIDE DEF o
    <3> QED BY <2>2, <3>1 DEF Invitation, ClickRequests, Judged
  <2>4. /\ closed \in Seq(Invitation) /\ DOMAIN closed = DOMAIN invitations
        /\ \A i \in DOMAIN invitations :
              Judged(closed[i]) /\ (i \notin t.rows => closed[i] = invitations[i])
    BY ClosedIsClosed
  <2> HIDE DEF closed, new, next
  <2>5. /\ next \in Seq(Invitation) /\ Len(next) = Len(closed) + 1
        /\ \A i \in 1..Len(closed) : next[i] = closed[i]
        /\ next[Len(closed) + 1] = new
    BY <2>1, <2>3, <2>4, AppendProperties
  <2>6. /\ DOMAIN closed = 1..Len(closed) /\ Len(closed) \in Nat
        /\ DOMAIN next = 1..(Len(closed) + 1)
    BY <2>4, <2>5, LenProperties
  <2> QED BY <2>3, <2>4, <2>5, <2>6 DEF next
<1>2. CASE t.live # {}
  <2>1. next = [i \in DOMAIN invitations |->
                  IF i \in t.live
                  THEN [invitations[i] EXCEPT !.suppressed = @ /\ t.silent, !.outcome = Listed(i, x)]
                  ELSE invitations[i]]
    BY <1>2 DEF Invited
  <2>2. t.silent \in BOOLEAN
    BY DEF ClickRequests
  <2>3. ASSUME NEW i \in DOMAIN invitations
        PROVE  /\ next[i] \in Invitation /\ Judged(next[i])
               /\ i \notin t.rows => next[i] = invitations[i]
    <3>1. CASE i \in t.live
      <4>1. next[i] = [invitations[i] EXCEPT !.suppressed = @ /\ t.silent, !.outcome = Listed(i, x)]
        BY <2>1, <3>1
      <4>2. i \in t.rows /\ invitations[i].status = "PENDING"
        BY <3>1
      <4> DEFINE w == [invitations[i] EXCEPT !.suppressed = @ /\ t.silent,
                                             !.outcome = Listed(i, x)]
      <4>3. w \in Invitation /\ Judged(w)
        BY <2>2, <4>2, ListedIsJudged
      <4> HIDE DEF w
      <4>4. next[i] = w
        BY <4>1 DEF w
      <4> HIDE DEF next
      <4> QED BY <4>2, <4>3, <4>4
    <3>2. CASE i \notin t.live
      <4>1. next[i] = invitations[i]
        BY <2>1, <3>2
      <4> QED BY <4>1, InvitationsOf, JudgedIsComplete
    <3> QED BY <3>1, <3>2
  <2> HIDE DEF next
  <2>4. next \in [1..Len(invitations) -> Invitation]
    BY <2>1, <2>3, InvitationsOf
  <2>5. next \in Seq(Invitation) /\ DOMAIN next = DOMAIN invitations
    BY <2>4, InvitationsOf, SeqDef
  <2> QED BY <2>3, <2>5 DEF next
<1> QED
  BY <1>1, <1>2

-----------------------------------------------------------------------------
\* Who holds the row of an invitation, and what the holder may rely on.
HeldBy(c, i) == tx[c] # Idle /\ tx[c].step \in {"grant", "commit"} /\ i \in tx[c].rows

RowsInv ==
    /\ \A c \in Connections : \A i : HeldBy(c, i) =>
          i \in DOMAIN invitations /\ invitations[i].status = "PENDING"
    /\ \A c, d \in Connections : \A i : HeldBy(c, i) /\ HeldBy(d, i) => c = d
    /\ \A c \in Connections :
          tx[c].op = "click" /\ tx[c].step \in {"grant", "commit"} => tx[c].live \subseteq tx[c].rows
    /\ \A c \in Connections :
          tx[c].op = "accept" /\ tx[c].step = "commit" =>
              /\ tx[c].rows = {tx[c].invitation}
              /\ DOMAIN tx[c].outcome = DOMAIN invitations[tx[c].invitation].outcome
              /\ \A d \in DOMAIN tx[c].outcome : tx[c].outcome[d] # "NONE"
    /\ AcceptedIsComplete

\* c's statement changes no row that another holds.
Touch(c) ==
    /\ invitations' \in Seq(Invitation)
    /\ DOMAIN invitations \subseteq DOMAIN invitations'
    /\ \A i \in DOMAIN invitations' : Judged(invitations'[i])
    /\ \A i \in DOMAIN invitations :
          \/ invitations'[i] = invitations[i]
          \/ \A d \in Connections \ {c} : ~HeldBy(d, i)

LEMMA NoTouch ==
  ASSUME Types, AcceptedIsComplete, UNCHANGED invitations, NEW c
  PROVE  Touch(c)
  BY JudgedIsComplete DEF Types, Touch

LEMMA TakenIsHeld == \A i : ~RowTaken(i) <=> \A d \in Connections : ~HeldBy(d, i)
  BY DEF RowTaken, HeldBy

\* An invitation is closed only when nobody holds its row.
LEMMA ClosingTouches ==
  ASSUME Types, AcceptedIsComplete, NEW c, NEW ids,
         \A i \in ids : ~RowTaken(i) /\ invitations[i].status = "PENDING",
         NEW how \in {"EXPIRED", "DECLINED"}, invitations' = Closed(ids, how)
  PROVE  Touch(c)
<1>1. /\ invitations' \in Seq(Invitation)
      /\ DOMAIN invitations' = DOMAIN invitations
      /\ \A i \in DOMAIN invitations :
            Judged(invitations'[i]) /\ (i \notin ids => invitations'[i] = invitations[i])
  BY ClosedIsClosed
<1> QED
  BY <1>1, TakenIsHeld DEF Touch

LEMMA RefuseAtCapTouches ==
  ASSUME Types, RowsInv, NEW c \in Connections, RefuseAtCap(c)
  PROVE  Touch(c)
<1>1. \A i \in Existing(c) : ~RowTaken(i) /\ invitations[i].status = "PENDING"
  BY DEF RefuseAtCap, LineLock, Existing, Pending
<1>2. invitations' = Closed(Existing(c), "EXPIRED")
  BY DEF RefuseAtCap
<1> QED
  BY <1>1, <1>2, ClosingTouches DEF RowsInv

LEMMA DismissTouches ==
  ASSUME Types, RowsInv, NEW c \in Connections, Dismiss(c)
  PROVE  Touch(c)
<1> DEFINE i == tx[c].invitation
<1>1. ~RowTaken(i)
  BY DEF Dismiss
<1>2. \/ UNCHANGED invitations
      \/ invitations' = Closed({i}, "EXPIRED") /\ invitations[i].status = "PENDING"
  BY DEF Dismiss
<1> HIDE DEF i
<1> QED
  BY <1>1, <1>2, ClosingTouches, NoTouch DEF RowsInv

LEMMA DeclineTouches ==
  ASSUME Types, RowsInv, NEW c \in Connections, DeclineInvitation(c)
  PROVE  Touch(c)
<1> DEFINE i == tx[c].invitation
<1>1. ~RowTaken(i) /\ invitations[i].status = "PENDING"
  BY DEF DeclineInvitation, Visible, Answerable
<1>2. invitations' = Closed({i}, "DECLINED")
  BY DEF DeclineInvitation
<1> HIDE DEF i
<1> QED
  BY <1>1, <1>2, ClosingTouches DEF RowsInv

LEMMA NextBornType == NextBorn \in Nat
<1>1. IsFiniteSet(Dependents) /\ Dependents \ Unborn \in SUBSET Dependents
  BY ProgramsAssumption, FS_Interval DEF Dependents, ProgramsAssumption
<1>2. Cardinality(Dependents \ Unborn) \in Nat
  BY <1>1, FS_Subset, FS_CardinalityType
<1> QED
  BY <1>2 DEF NextBorn

LEMMA CommitClickTouches ==
  ASSUME Types, RowsInv, NEW c \in Connections, CommitClick(c)
  PROVE  Touch(c)
<1> DEFINE t == tx[c]
           x == IF t.person = Nobody THEN NextBorn ELSE t.person
<1>1. t \in ClickRequests /\ t.step = "commit" /\ t.op = "click"
  BY RequestKinds DEF CommitClick, At
<1>2. x \in People
  BY <1>1, NextBornType DEF ClickRequests, People
<1>3. UNCHANGED invitations \/ invitations' = Invited(t, x)
  BY DEF CommitClick, data
<1>4. t.live \subseteq t.rows /\ \A i \in t.rows : HeldBy(c, i)
  BY <1>1, RequestKinds DEF RowsInv, HeldBy, Idle
<1>5. \A i \in t.rows : /\ invitations[i].status = "PENDING"
                        /\ \A d \in Connections \ {c} : ~HeldBy(d, i)
  BY <1>4 DEF RowsInv
<1> HIDE DEF t, x
<1>6. CASE UNCHANGED invitations
  BY <1>6, NoTouch DEF RowsInv
<1>7. CASE invitations' = Invited(t, x)
  <2>1. /\ invitations' \in Seq(Invitation)
        /\ DOMAIN invitations \subseteq DOMAIN invitations'
        /\ \A i \in DOMAIN invitations' : Judged(invitations'[i])
        /\ \A i \in DOMAIN invitations \ t.rows : invitations'[i] = invitations[i]
    BY <1>1, <1>2, <1>4, <1>5, <1>7, InvitedIsJudged DEF RowsInv
  <2> QED BY <1>5, <2>1 DEF Touch
<1> QED
  BY <1>3, <1>6, <1>7

LEMMA CommitAcceptTouches ==
  ASSUME Types, RowsInv, NEW c \in Connections, CommitAccept(c)
  PROVE  Touch(c)
<1> DEFINE t == tx[c]
           i == t.invitation
           v == invitations[i]
           o == [d \in DOMAIN v.outcome |->
                    IF d \in DOMAIN t.outcome THEN t.outcome[d] ELSE v.outcome[d]]
           w == [v EXCEPT !.status = "ACCEPTED", !.outcome = o]
<1>1. t \in Answers /\ t.step = "commit" /\ t.op = "accept"
  BY RequestKinds DEF CommitAccept, At
<1>2. /\ i \in DOMAIN invitations /\ v \in Invitation
      /\ t.rows = {i} /\ DOMAIN t.outcome = DOMAIN v.outcome
      /\ \A d \in DOMAIN t.outcome : t.outcome[d] # "NONE"
  BY <1>1, InvitationsOf DEF Types, RowsInv
<1>3. UNCHANGED invitations \/ invitations' = [invitations EXCEPT ![i] = w]
  BY DEF CommitAccept, data
<1>4. \A d \in Connections \ {c} : ~HeldBy(d, i)
  <2>1. HeldBy(c, i)
    BY <1>1, <1>2 DEF HeldBy, Idle
  <2> QED BY <2>1 DEF RowsInv
<1>5. o \in Outcomes /\ \A d \in DOMAIN o : o[d] # "NONE"
  <2>1. PICK D \in SUBSET People : t.outcome \in [D -> Verdicts]
    BY <1>1 DEF Answers, Outcomes
  <2>2. o \in [D -> Verdicts] /\ \A d \in D : o[d] = t.outcome[d]
    BY <1>2, <2>1
  <2> HIDE DEF o
  <2> QED BY <1>2, <2>1, <2>2 DEF Outcomes
<1> HIDE DEF o
<1>6. w \in Invitation /\ Judged(w)
  BY <1>2, <1>5 DEF Invitation, Judged
<1> HIDE DEF w, v, i, t
<1>7. CASE UNCHANGED invitations
  BY <1>7, NoTouch DEF RowsInv
<1>8. CASE invitations' = [invitations EXCEPT ![i] = w]
  <2>1. /\ invitations' \in Seq(Invitation)
        /\ DOMAIN invitations' = DOMAIN invitations
        /\ \A j \in DOMAIN invitations : invitations'[j] = IF j = i THEN w ELSE invitations[j]
    <3>1. invitations \in Seq(Invitation) /\ i \in 1..Len(invitations)
      BY <1>2, InvitationsOf DEF Types
    <3>2. invitations' \in Seq(Invitation) /\ Len(invitations') = Len(invitations)
      BY <1>6, <1>8, <3>1, ExceptSeq
    <3> QED BY <1>8, <3>1, <3>2, LenProperties
  <2>2. \A j \in DOMAIN invitations : Judged(invitations[j])
    BY JudgedIsComplete DEF RowsInv
  <2> QED BY <1>4, <1>6, <2>1, <2>2 DEF Touch
<1> QED
  BY <1>3, <1>7, <1>8

-----------------------------------------------------------------------------
\* Every step is one of these.
Asks(c) ==
    \/ \E by \in Actors, x \in Persons, p \in Offered :
          /\ Insertion(c, by, x, p)
          /\ fate[x] # "unborn"
    \/ \E p \in Granted, r \in References, l \in Lines : OpenDependentAccess(c, p, r, l)
    \/ \E a \in Families, i \in DOMAIN invitations : Accept(c, a, i) \/ Decline(c, a, i)

Quiet == UNCHANGED <<tx, keys, invitations>>

LEMMA OutsideIsQuiet ==
  ASSUME Withdrawal \/ Outside \/ Rest \/ UNCHANGED vars
  PROVE  Quiet
<1>1. CASE Withdrawal
  BY <1>1 DEF Withdrawal, Deactivate, RevokeForKnownPerson, Revoke, Quiet
<1>2. CASE Outside
  BY <1>2 DEF Outside, ComeOfAge, Emancipate, EraseDependent, Meet, RotateReferenceKey,
              RetireReferenceKey, Pass, data, Quiet
<1>3. CASE Rest \/ UNCHANGED vars
  BY <1>3 DEF Rest, vars, data, Quiet
<1> QED
  BY <1>1, <1>2, <1>3

LEMMA ProgramsSteps ==
  ASSUME Types, [Next]_vars
  PROVE  \/ \E c \in Connections : Asks(c) \/ Statement(c)
         \/ Withdrawal \/ Outside \/ Rest \/ UNCHANGED vars
<1>1. ASSUME NEW c \in Connections, CatalogRequest(c) PROVE Asks(c)
  BY <1>1 DEF CatalogRequest, Activate, GrantAsStaff, HasAccount, Asks, Actors
<1>2. ASSUME NEW c \in Connections, ProgramRequest(c) PROVE Asks(c)
  BY <1>2 DEF ProgramRequest, OpenForKnownPerson, Exists, Asks, Actors
<1>3. ASSUME NEW c \in Connections, InvitationRequest(c) PROVE Asks(c)
  BY <1>3 DEF InvitationRequest, Asks
<1> QED
  BY <1>1, <1>2, <1>3 DEF Next

LEMMA AsksType ==
  ASSUME Types, NEW c \in Connections, Asks(c)
  PROVE  /\ tx' \in [Connections -> Requests]
         /\ \A d \in Connections \ {c} : tx'[d] = tx[d]
         /\ tx[c] = Idle
         /\ tx'[c].op \in {"accept", "decline"} => tx'[c].invitation \in DOMAIN invitations
         /\ UNCHANGED <<data, keyring, activeKey, clock>>
<1>1. CASE \E by \in Actors, x \in Persons, p \in Offered : Insertion(c, by, x, p)
  <2>1. tx'[c].op = "grant"
    BY <1>1, InsertionType DEF Insertions
  <2> QED BY <1>1, <2>1, InsertionType DEF Insertion, Begin
<1>2. CASE \E p \in Granted, r \in References, l \in Lines : OpenDependentAccess(c, p, r, l)
  <2>1. tx'[c].op = "click"
    BY <1>2, ClickType DEF ClickRequests
  <2> QED BY <1>2, <2>1, ClickType DEF OpenDependentAccess, Begin
<1>3. CASE \E a \in Families, i \in DOMAIN invitations : Accept(c, a, i) \/ Decline(c, a, i)
  BY <1>3, AnswerType DEF Accept, Decline, Answer, Begin
<1> QED
  BY <1>1, <1>2, <1>3 DEF Asks

\* A statement ends its request or goes on with it.
LEMMA StatementType ==
  ASSUME Types, NEW c \in Connections, Statement(c)
  PROVE  /\ tx' \in [Connections -> Requests]
         /\ \A d \in Connections \ {c} : tx'[d] = tx[d]
         /\ tx'[c].op \in {"accept", "decline"} => tx'[c].invitation \in DOMAIN invitations
         /\ UNCHANGED <<keyring, activeKey, clock>>
<1>1. CASE Insert(c) \/ RefuseAtCap(c) \/ CommitClick(c) \/ Dismiss(c) \/ DeclineInvitation(c)
           \/ CommitAccept(c)
  <2>1. Ends(c) /\ UNCHANGED <<keyring, activeKey, clock>>
    BY <1>1 DEF Insert, RefuseAtCap, CommitClick, Dismiss, DeclineInvitation, CommitAccept, End, Ends
  <2> QED BY <2>1, EndsType DEF Idle
<1>2. CASE ReferenceLock(c)
  <2>1. tx'[c].op = "click"
    BY <1>2, ReferenceLockType DEF ClickRequests
  <2> QED BY <1>2, <2>1, ReferenceLockType DEF ReferenceLock, Proceed
<1>3. CASE TakeInvitation(c)
  <2>1. tx'[c].op = "click"
    BY <1>3, TakeInvitationType DEF ClickRequests
  <2> QED BY <1>3, <2>1, TakeInvitationType DEF TakeInvitation, Proceed
<1>4. CASE TakeGrant(c)
  <2>1. tx'[c].op \in {"click", "none"}
    BY <1>4, TakeGrantType DEF ClickRequests, Idle
  <2> QED BY <1>4, <2>1, TakeGrantType DEF TakeGrant, Proceed
<1>5. CASE AcceptInvitation(c)
  <2>1. tx[c].invitation \in DOMAIN invitations
    BY <1>5 DEF AcceptInvitation, Types
  <2> QED BY <1>5, <2>1, AcceptInvitationType DEF AcceptInvitation, Proceed
<1> QED
  BY <1>1, <1>2, <1>3, <1>4, <1>5 DEF Statement

\* Whatever the statement, the invitations are touched as they may be.
LEMMA StatementTouches ==
  ASSUME Types, RowsInv, NEW c \in Connections, Statement(c)
  PROVE  Touch(c)
<1>1. CASE Insert(c) \/ ReferenceLock(c) \/ TakeInvitation(c) \/ TakeGrant(c) \/ AcceptInvitation(c)
  <2>1. UNCHANGED invitations
    BY <1>1 DEF Insert, ReferenceLock, TakeInvitation, TakeGrant, AcceptInvitation, Proceed, data
  <2> QED BY <2>1, NoTouch DEF RowsInv
<1> QED
  BY <1>1, RefuseAtCapTouches, CommitClickTouches, DismissTouches, DeclineTouches,
     CommitAcceptTouches DEF Statement

-----------------------------------------------------------------------------
\* The grants, keys and fates a step leaves.

Given == grants' \in [Persons \X Offered -> Seq(Row)]
         /\ \A y \in Persons, q \in Offered : Kept(grants', y, q)

LEMMA NothingGiven == Types /\ UNCHANGED grants => Given
  BY SameKeeps, RowsOf DEF Given, Kept, Types, Grants

LEMMA WithGrantGives ==
  ASSUME Types, NEW by \in Actors, NEW x, NEW p, grants' = WithGrant(by, x, p)
  PROVE  Given
<1> DEFINE g == WithGrant(by, x, p)
<1>1. g \in [Persons \X Offered -> Seq(Row)]
  <2>1. CASE Persons \X Offered = {}
    BY <2>1 DEF WithGrant, Types, Grants
  <2>2. CASE Persons \X Offered # {}
    <3>1. PICK y \in Persons, q \in Offered : TRUE
      BY <2>2
    <3> QED BY <3>1, WithGrantKeeps
  <2> QED BY <2>1, <2>2
<1>2. \A y \in Persons, q \in Offered : Kept(g, y, q)
  BY WithGrantKeeps
<1>3. grants' = g
  OBVIOUS
<1> HIDE DEF g
<1> QED
  BY <1>1, <1>2, <1>3 DEF Given, Kept

LEMMA InsertGives ==
  ASSUME Types, NEW c \in Connections, Insert(c)
  PROVE  Given
<1>1. tx[c] \in Insertions
  BY RequestKinds DEF Insert, At
<1>2. UNCHANGED grants \/ grants' = WithGrant(tx[c].by, tx[c].person, tx[c].program)
  BY DEF Insert, Inserted
<1>3. tx[c].by \in Actors
  BY <1>1 DEF Insertions
<1> QED
  BY <1>2, <1>3, NothingGiven, WithGrantGives

LEMMA CommitClickGives ==
  ASSUME Types, NEW c \in Connections, CommitClick(c)
  PROVE  Given
<1>1. UNCHANGED grants \/ \E x : grants' = WithGrant("PROGRAM", x, tx[c].program)
  BY DEF CommitClick, data
<1> QED
  BY <1>1, NothingGiven, WithGrantGives DEF Actors

LEMMA RevokeGives ==
  ASSUME Types, Withdrawal
  PROVE  Given /\ \A y \in Persons, q \in Offered : grants[<<y, q>>] = <<>> => grants'[<<y, q>>] = <<>>
<1>1. PICK x \in Persons, p \in Offered, why \in Reasons :
          IsActive(x, p) /\ grants' = WithoutGrant(grants, x, p, why)
  BY DEF Withdrawal, Deactivate, RevokeForKnownPerson, Revoke, Reasons
<1> QED
  BY <1>1, WithoutGrantKeeps DEF Given

LEMMA EraseGives ==
  ASSUME Types, NEW d \in Dependents, EraseDependent(d)
  PROVE  Given /\ \A y \in Persons, q \in Offered : grants[<<y, q>>] = <<>> => grants'[<<y, q>>] = <<>>
<1>1. DOMAIN grants = Persons \X Offered
  BY DEF Types, Grants
<1>2. ASSUME NEW y \in Persons, NEW q \in Offered
      PROVE  /\ grants'[<<y, q>>] \in Seq(Row) /\ Kept(grants', y, q)
             /\ grants[<<y, q>>] = <<>> => grants'[<<y, q>>] = <<>>
  <2>1. CASE y = d /\ IsActive(d, q)
    <3>1. grants'[<<y, q>>] = WithoutGrant(grants, y, q, "ERASED")[<<y, q>>]
      BY <1>1, <2>1 DEF EraseDependent
    <3>2. LET g == WithoutGrant(grants, y, q, "ERASED")
          IN  /\ g \in [Persons \X Offered -> Seq(Row)]
              /\ Kept(g, y, q) /\ (grants[<<y, q>>] = <<>> => g[<<y, q>>] = <<>>)
      BY <2>1, WithoutGrantKeeps DEF Reasons
    <3> QED BY <3>1, <3>2 DEF Kept
  <2>2. CASE ~(y = d /\ IsActive(d, q))
    <3>1. grants'[<<y, q>>] = grants[<<y, q>>]
      BY <1>1, <2>2 DEF EraseDependent
    <3> QED BY <3>1, SameKeeps, RowsOf DEF Kept
  <2> QED BY <2>1, <2>2
<1>3. ASSUME NEW k \in Persons \X Offered PROVE grants'[k] \in Seq(Row)
  <2>1. PICK y \in Persons, q \in Offered : k = <<y, q>>
    OBVIOUS
  <2> QED BY <1>2, <2>1
<1>4. grants' \in [Persons \X Offered -> Seq(Row)]
  BY <1>1, <1>3 DEF EraseDependent
<1> QED
  BY <1>2, <1>4 DEF Given

LEMMA StepGives ==
  ASSUME Types, [Next]_vars
  PROVE  Given
<1>1. ASSUME NEW c \in Connections, Asks(c) PROVE Given
  BY <1>1, AsksType, NothingGiven DEF data
<1>2. ASSUME NEW c \in Connections, Statement(c) PROVE Given
  <2>1. CASE Insert(c) \/ CommitClick(c)
    BY <2>1, InsertGives, CommitClickGives
  <2>2. CASE ~(Insert(c) \/ CommitClick(c))
    <3>1. UNCHANGED grants
      BY <1>2, <2>2 DEF Statement, ReferenceLock, RefuseAtCap, TakeInvitation, TakeGrant, Dismiss,
            DeclineInvitation, AcceptInvitation, CommitAccept, Proceed, data
    <3> QED BY <3>1, NothingGiven
  <2> QED BY <2>1, <2>2
<1>3. CASE Outside
  <2>1. CASE \E d \in Dependents : EraseDependent(d)
    BY <2>1, EraseGives
  <2>2. CASE ~\E d \in Dependents : EraseDependent(d)
    <3>1. UNCHANGED grants
      BY <1>3, <2>2 DEF Outside, ComeOfAge, Emancipate, RotateReferenceKey, RetireReferenceKey, Pass, data
    <3> QED BY <3>1, NothingGiven
  <2> QED BY <2>1, <2>2
<1>4. CASE Rest \/ UNCHANGED vars
  BY <1>4, NothingGiven DEF Rest, vars, data
<1> QED
  BY <1>1, <1>2, <1>3, <1>4, ProgramsSteps, RevokeGives

-----------------------------------------------------------------------------
\* The types and the rows.
Fates == {"unborn", "minor", "of age", "autonomous", "erased"}

LEMMA QuietTouches ==
  ASSUME Types, AcceptedIsComplete, Quiet, NEW c
  PROVE  Touch(c)
  BY NoTouch DEF Quiet

LEMMA CommitClickWrites ==
  ASSUME Types, NEW c \in Connections, CommitClick(c)
  PROVE  /\ tx[c] \in ClickRequests /\ tx[c].step = "commit" /\ tx'[c] = Idle
         /\ \/ UNCHANGED data
            \/ LET x == IF tx[c].person = Nobody THEN NextBorn ELSE tx[c].person
               IN  /\ x \in People
                   /\ grants' = IF tx[c].opens THEN WithGrant("PROGRAM", x, tx[c].program)
                                ELSE grants
                   /\ IF tx[c].person # Nobody THEN UNCHANGED <<keys, fate>>
                      ELSE /\ keys' = keys \cup {[program |-> tx[c].program,
                                                  reference |-> tx[c].reference,
                                                  key |-> tx[c].key, person |-> NextBorn]}
                           /\ fate' = [fate EXCEPT ![NextBorn] = "minor"]
<1>1. tx[c] \in ClickRequests /\ tx[c].step = "commit"
  BY RequestKinds DEF CommitClick, At
<1>2. tx'[c] = Idle
  BY EndsType DEF CommitClick, End, Ends
<1>3. (IF tx[c].person = Nobody THEN NextBorn ELSE tx[c].person) \in People
  BY <1>1, NextBornType DEF ClickRequests, People
<1> QED
  BY <1>1, <1>2, <1>3 DEF CommitClick

LEMMA StepKeepsKeys ==
  ASSUME Types, [Next]_vars
  PROVE  keys' \subseteq Key /\ fate' \in [Persons -> Fates]
<1> USE DEF Fates
<1>1. ASSUME NEW c \in Connections, Asks(c) PROVE UNCHANGED <<keys, fate>>
  BY <1>1, AsksType DEF data
<1>2. ASSUME NEW c \in Connections, Statement(c), ~CommitClick(c) PROVE UNCHANGED <<keys, fate>>
  BY <1>2 DEF Statement, Insert, ReferenceLock, RefuseAtCap, TakeInvitation, TakeGrant, Dismiss,
     DeclineInvitation, AcceptInvitation, CommitAccept, Proceed, data
<1>3. ASSUME NEW c \in Connections, CommitClick(c)
      PROVE  keys' \subseteq Key /\ fate' \in [Persons -> Fates]
  <2>1. CASE UNCHANGED <<keys, fate>>
    BY <2>1 DEF Types
  <2>2. CASE ~UNCHANGED <<keys, fate>>
    <3>1. tx[c] \in ClickRequests /\ NextBorn \in People
      BY <1>3, CommitClickWrites, NextBornType DEF People
    <3>2. /\ keys' = keys \cup {[program |-> tx[c].program, reference |-> tx[c].reference,
                                 key |-> tx[c].key, person |-> NextBorn]}
          /\ fate' = [fate EXCEPT ![NextBorn] = "minor"]
      BY <1>3, <2>2, CommitClickWrites DEF data
    <3>3. fate' \in [Persons -> Fates]
      BY <3>2 DEF Types
    <3>4. [program |-> tx[c].program, reference |-> tx[c].reference, key |-> tx[c].key,
           person |-> NextBorn] \in Key
      BY <3>1 DEF Key, ClickRequests
    <3> QED BY <3>2, <3>3, <3>4 DEF Types
  <2> QED BY <2>1, <2>2
<1>4. CASE Outside
  BY <1>4 DEF Outside, ComeOfAge, Emancipate, EraseDependent, Meet, RotateReferenceKey,
              RetireReferenceKey, Pass, data,
              Types
<1>5. CASE Withdrawal \/ Rest \/ UNCHANGED vars
  BY <1>5 DEF Withdrawal, Deactivate, RevokeForKnownPerson, Revoke, Rest, vars, data, Types
<1> QED
  BY <1>1, <1>2, <1>3, <1>4, <1>5, ProgramsSteps DEF Types

LEMMA StepKeepsClock ==
  ASSUME Types, [Next]_vars
  PROVE  activeKey' \in Nat /\ clock' \in Nat
<1>1. CASE \E c \in Connections : Asks(c) \/ Statement(c)
  BY <1>1, AsksType, StatementType DEF Types
<1>2. CASE Outside
  <2>1. CASE RotateReferenceKey \/ (\E k \in 1..MaxKey : RetireReferenceKey(k)) \/ Pass
    <3>1. /\ UNCHANGED activeKey \/ activeKey' = activeKey + 1
          /\ UNCHANGED clock \/ clock' = clock + 1
      BY <2>1 DEF RotateReferenceKey, RetireReferenceKey, Pass
    <3>2. activeKey \in Nat /\ clock \in Nat
      BY DEF Types
    <3> QED BY <3>1, <3>2
  <2>2. CASE \E d \in Dependents : ComeOfAge(d) \/ Emancipate(d) \/ EraseDependent(d)
    BY <2>2 DEF ComeOfAge, Emancipate, EraseDependent, Meet, Types
  <2> QED BY <1>2, <2>1, <2>2 DEF Outside
<1>3. CASE Withdrawal \/ Rest \/ UNCHANGED vars
  BY <1>3 DEF Withdrawal, Deactivate, RevokeForKnownPerson, Revoke, Rest, vars, Types
<1> QED
  BY <1>1, <1>2, <1>3, ProgramsSteps

\* One request moves, and touches the invitations as it may.
Moves(c) ==
    /\ tx' \in [Connections -> Requests]
    /\ \A d \in Connections \ {c} : tx'[d] = tx[d]
    /\ tx'[c].op \in {"accept", "decline"} => tx'[c].invitation \in DOMAIN invitations
    /\ Touch(c)

LEMMA StepMoves ==
  ASSUME Types, RowsInv, [Next]_vars
  PROVE  \/ Quiet
         \/ \E c \in Connections : Moves(c) /\ (Asks(c) \/ Statement(c))
<1>1. ASSUME NEW c \in Connections, Asks(c) PROVE Moves(c)
  <2>1. UNCHANGED invitations
    BY <1>1, AsksType DEF data
  <2> QED BY <1>1, <2>1, AsksType, NoTouch DEF Moves, RowsInv
<1>2. ASSUME NEW c \in Connections, Statement(c) PROVE Moves(c)
  BY <1>2, StatementType, StatementTouches DEF Moves
<1> QED
  BY <1>1, <1>2, ProgramsSteps, OutsideIsQuiet

LEMMA TypesStep ==
  ASSUME Types, RowsInv, [Next]_vars
  PROVE  Types'
<1>1. Given /\ keys' \subseteq Key /\ fate' \in [Persons -> Fates]
      /\ activeKey' \in Nat /\ clock' \in Nat
  BY StepGives, StepKeepsKeys, StepKeepsClock
<1>2. CASE Quiet
  BY <1>1, <1>2 DEF Quiet, Types, Given, Grants, Fates
<1>3. ASSUME NEW c \in Connections, Moves(c) PROVE Types'
  <2>1. invitations' \in Seq(Invitation) /\ DOMAIN invitations \subseteq DOMAIN invitations'
    BY <1>3 DEF Moves, Touch
  <2>2. \A d \in Connections :
            tx'[d].op \in {"accept", "decline"} => tx'[d].invitation \in DOMAIN invitations
    BY <1>3 DEF Moves, Types
  <2>3. tx' \in [Connections -> Requests]
    BY <1>3 DEF Moves
  <2> QED BY <1>1, <2>1, <2>2, <2>3 DEF Types, Given, Grants, Fates
<1> QED
  BY <1>2, <1>3, StepMoves

\* What the request that moves holds: what it held, or rows nobody did.
Claims(c) ==
    /\ \A i : HeldBy(c, i)' =>
          /\ i \in DOMAIN invitations /\ invitations[i].status = "PENDING"
          /\ HeldBy(c, i) \/ ~RowTaken(i)
          /\ UNCHANGED invitations
    /\ tx'[c].op = "click" /\ tx'[c].step \in {"grant", "commit"} => tx'[c].live \subseteq tx'[c].rows
    /\ tx'[c].op = "accept" /\ tx'[c].step = "commit" =>
          /\ tx'[c].rows = {tx'[c].invitation}
          /\ DOMAIN tx'[c].outcome = DOMAIN invitations'[tx'[c].invitation].outcome
          /\ \A d \in DOMAIN tx'[c].outcome : tx'[c].outcome[d] # "NONE"

LEMMA AsksClaims ==
  ASSUME Types, NEW c \in Connections, Asks(c)
  PROVE  Claims(c)
<1>1. tx'[c].step \in {"insert", "reference", "begin"}
  BY InsertionType, ClickType, AnswerType DEF Asks, Insertions
<1> QED
  BY <1>1 DEF Claims, HeldBy

LEMMA StatementClaims ==
  ASSUME Types, RowsInv, NEW c \in Connections, Statement(c)
  PROVE  Claims(c)
<1>1. CASE tx'[c] = Idle
  BY <1>1 DEF Claims, HeldBy, Idle
<1>2. CASE Insert(c) \/ RefuseAtCap(c) \/ CommitClick(c) \/ Dismiss(c) \/ DeclineInvitation(c)
           \/ CommitAccept(c)
  <2>1. tx'[c] = Idle
    BY <1>2, EndsType DEF Insert, RefuseAtCap, CommitClick, Dismiss, DeclineInvitation,
       CommitAccept, End, Ends
  <2> QED BY <1>1, <2>1
<1>3. CASE ReferenceLock(c)
  <2>1. tx'[c].step = "line" /\ tx'[c].op = "click"
    BY <1>3, ReferenceLockType DEF ClickRequests
  <2> QED BY <2>1 DEF Claims, HeldBy
<1>4. CASE TakeInvitation(c)
  <2>1. /\ tx'[c].op = "click" /\ tx'[c].rows = Existing(c) /\ tx'[c].live \subseteq Existing(c)
        /\ UNCHANGED invitations
    BY <1>4, TakeInvitationType DEF ClickRequests, TakeInvitation, Proceed, data
  <2>2. \A i \in Existing(c) : /\ ~RowTaken(i) /\ i \in DOMAIN invitations
                               /\ invitations[i].status = "PENDING"
    BY <1>4 DEF TakeInvitation, LineLock, Existing, Pending, OfProgram
  <2> QED BY <2>1, <2>2 DEF Claims, HeldBy
<1>5. CASE TakeGrant(c)
  <2>1. CASE tx'[c] = Idle
    BY <1>1, <2>1
  <2>2. CASE tx'[c] # Idle
    <3>1. /\ tx[c].op = "click" /\ tx[c].step = "grant" /\ tx'[c].op = "click"
          /\ tx'[c].rows = tx[c].rows /\ tx'[c].live = tx[c].live /\ UNCHANGED invitations
      BY <1>5, <2>2, TakeGrantType DEF ClickRequests, TakeGrant, Proceed, data
    <3>2. \A i : HeldBy(c, i)' => HeldBy(c, i)
      BY <3>1 DEF HeldBy, Idle
    <3>3. tx'[c].live \subseteq tx'[c].rows
      BY <3>1 DEF RowsInv
    <3> QED BY <3>1, <3>2, <3>3 DEF Claims, RowsInv
  <2> QED BY <2>1, <2>2
<1>6. CASE AcceptInvitation(c)
  <2>1. /\ tx'[c].rows = {tx[c].invitation} /\ tx'[c].op = "accept"
        /\ tx'[c].invitation = tx[c].invitation
        /\ DOMAIN tx'[c].outcome = DOMAIN invitations[tx[c].invitation].outcome
        /\ \A d \in DOMAIN tx'[c].outcome : tx'[c].outcome[d] # "NONE"
    BY <1>6, AcceptInvitationType
  <2>2. /\ UNCHANGED invitations /\ ~RowTaken(tx[c].invitation)
        /\ tx[c].invitation \in DOMAIN invitations
        /\ invitations[tx[c].invitation].status = "PENDING"
    BY <1>6 DEF AcceptInvitation, Visible, Answerable, Proceed, data, Types
  <2> QED BY <2>1, <2>2 DEF Claims, HeldBy
<1> QED
  BY <1>2, <1>3, <1>4, <1>5, <1>6 DEF Statement

LEMMA RowsStep ==
  ASSUME Types, RowsInv, [Next]_vars
  PROVE  RowsInv'
<1>1. CASE Quiet
  BY <1>1 DEF Quiet, RowsInv, HeldBy, AcceptedIsComplete
<1>2. ASSUME NEW c \in Connections, Moves(c), Claims(c) PROVE RowsInv'
  <2>1. \A d \in Connections \ {c} : tx'[d] = tx[d]
    BY <1>2 DEF Moves
  <2>2. \A d \in Connections \ {c} : \A i : HeldBy(d, i)' <=> HeldBy(d, i)
    BY <2>1 DEF HeldBy
  <2>3. ASSUME NEW d \in Connections \ {c}, NEW i, HeldBy(d, i)
        PROVE  i \in DOMAIN invitations' /\ invitations'[i] = invitations[i]
    BY <1>2, <2>3 DEF Moves, Touch, RowsInv
  <2>4. ASSUME NEW d \in Connections, NEW i, HeldBy(d, i)'
        PROVE  i \in DOMAIN invitations' /\ invitations'[i].status = "PENDING"
    BY <1>2, <2>2, <2>3, <2>4 DEF Claims, RowsInv
  <2>5. ASSUME NEW d \in Connections, NEW e \in Connections, NEW i, HeldBy(d, i)', HeldBy(e, i)'
        PROVE  d = e
    BY <1>2, <2>2, <2>5, TakenIsHeld DEF Claims, RowsInv
  <2>6. ASSUME NEW d \in Connections, tx'[d].op = "click", tx'[d].step \in {"grant", "commit"}
        PROVE  tx'[d].live \subseteq tx'[d].rows
    BY <1>2, <2>1, <2>6 DEF Claims, RowsInv
  <2>7. ASSUME NEW d \in Connections, tx'[d].op = "accept", tx'[d].step = "commit"
        PROVE  /\ tx'[d].rows = {tx'[d].invitation}
               /\ DOMAIN tx'[d].outcome = DOMAIN invitations'[tx'[d].invitation].outcome
               /\ \A x \in DOMAIN tx'[d].outcome : tx'[d].outcome[x] # "NONE"
    <3>1. CASE d = c
      BY <1>2, <2>7, <3>1 DEF Claims
    <3>2. CASE d # c
      <4>1. /\ tx[d].op = "accept" /\ tx[d].step = "commit" /\ tx'[d] = tx[d]
            /\ tx[d].rows = {tx[d].invitation}
            /\ DOMAIN tx[d].outcome = DOMAIN invitations[tx[d].invitation].outcome
            /\ \A x \in DOMAIN tx[d].outcome : tx[d].outcome[x] # "NONE"
        BY <2>1, <2>7, <3>2 DEF RowsInv
      <4>2. HeldBy(d, tx[d].invitation)
        BY <4>1 DEF HeldBy, Idle
      <4>3. invitations'[tx[d].invitation] = invitations[tx[d].invitation]
        BY <2>3, <3>2, <4>2
      <4> QED BY <4>1, <4>3
    <3> QED BY <3>1, <3>2
  <2>8. AcceptedIsComplete'
    BY <1>2 DEF Moves, Touch, AcceptedIsComplete, Judged
  <2> QED BY <2>4, <2>5, <2>6, <2>7, <2>8 DEF RowsInv
<1> QED
  BY <1>1, <1>2, StepMoves, AsksClaims, StatementClaims

-----------------------------------------------------------------------------
\* A reference is one person.
Past(c) == tx[c].op = "click" /\ tx[c].step \in {"line", "grant", "commit"}

Names(c, p, r) == tx[c].program = p /\ tx[c].reference = r

RefsInv ==
    /\ \A c \in Connections : tx[c].op = "click" => tx[c].key = activeKey
    /\ \A c, d \in Connections :
          Past(c) /\ Past(d) /\ Names(d, tx[c].program, tx[c].reference) => c = d
    /\ \A c \in Connections : Past(c) /\ tx[c].person = Nobody =>
          \A e \in keys : e.key \in keyring => ~Names(c, e.program, e.reference)
    /\ activeKey \in keyring /\ keyring \subseteq 1..activeKey
    /\ \A e \in keys : e.key \in 1..activeKey
    /\ OnePersonPerReference

\* A click that is under way goes on, or its request ends or was never a click.
Follows(c) ==
    \/ tx'[c].op # "click"
    \/ ~Past(c)' /\ tx'[c].key = activeKey
    \/ Past(c) /\ Past(c)' /\ Continues(c) /\ tx'[c].person = tx[c].person

LEMMA AsksFollows ==
  ASSUME Types, NEW c \in Connections, Asks(c)
  PROVE  Follows(c)
<1>1. CASE \E by \in Actors, x \in Persons, p \in Offered : Insertion(c, by, x, p)
  BY <1>1, InsertionType DEF Insertions, Follows
<1>2. CASE \E p \in Granted, r \in References, l \in Lines : OpenDependentAccess(c, p, r, l)
  BY <1>2, ClickType DEF Past, Follows
<1>3. CASE \E a \in Families, i \in DOMAIN invitations : Accept(c, a, i) \/ Decline(c, a, i)
  BY <1>3, AnswerType DEF Answers, Follows
<1> QED
  BY <1>1, <1>2, <1>3 DEF Asks

LEMMA StatementFollows ==
  ASSUME Types, NEW c \in Connections, Statement(c), ~ReferenceLock(c)
  PROVE  Follows(c)
<1>1. CASE Insert(c) \/ RefuseAtCap(c) \/ CommitClick(c) \/ Dismiss(c) \/ DeclineInvitation(c)
           \/ CommitAccept(c)
  <2>1. tx'[c] = Idle
    BY <1>1, EndsType DEF Insert, RefuseAtCap, CommitClick, Dismiss, DeclineInvitation,
       CommitAccept, End, Ends
  <2> QED BY <2>1 DEF Follows, Idle
<1>2. CASE TakeInvitation(c)
  BY <1>2, TakeInvitationType DEF ClickRequests, Past, Follows
<1>3. CASE TakeGrant(c)
  BY <1>3, TakeGrantType DEF ClickRequests, Past, Follows, Idle
<1>4. CASE AcceptInvitation(c)
  BY <1>4, AcceptInvitationType DEF Follows
<1> QED
  BY <1>1, <1>2, <1>3, <1>4 DEF Statement

\* Without a birth and without a new click past its lock, nothing changes.
LEMMA FollowingKeepsRefs ==
  ASSUME Types, RefsInv, NEW c \in Connections, Follows(c),
         \A d \in Connections \ {c} : tx'[d] = tx[d],
         UNCHANGED <<keyring, activeKey>>, keys' \subseteq keys
  PROVE  RefsInv'
<1>1. \A d \in Connections : Past(d)' =>
          Past(d) /\ tx'[d].program = tx[d].program /\ tx'[d].reference = tx[d].reference
             /\ tx'[d].person = tx[d].person
  BY DEF Follows, Continues, Past
<1>2. \A d \in Connections : tx'[d].op = "click" => tx'[d].key = activeKey
  BY DEF Follows, Continues, Past, RefsInv
<1>3. \A d, e \in Connections :
          Past(d)' /\ Past(e)' /\ Names(e, tx[d].program, tx[d].reference)' => d = e
  BY <1>1 DEF RefsInv, Names
<1>4. \A d \in Connections : Past(d)' /\ tx'[d].person = Nobody =>
          \A e \in keys' : e.key \in keyring =>
              ~(tx'[d].program = e.program /\ tx'[d].reference = e.reference)
  BY <1>1 DEF RefsInv, Names
<1>5. OnePersonPerReference'
  BY DEF RefsInv, OnePersonPerReference
<1> QED
  BY <1>1, <1>2, <1>3, <1>4, <1>5 DEF RefsInv, Names

LEMMA ReferenceLockKeepsRefs ==
  ASSUME Types, RefsInv, NEW c \in Connections, ReferenceLock(c)
  PROVE  RefsInv'
<1> DEFINE known == KnownAs(tx[c].program, tx[c].reference)
<1>1. /\ tx[c].op = "click" /\ tx'[c].op = "click" /\ tx'[c].step = "line" /\ Continues(c)
      /\ \A d \in Connections \ {c} : tx'[d] = tx[d]
      /\ IF known = {} THEN tx'[c].person = Nobody ELSE tx'[c].person \in known
  BY ReferenceLockType DEF ClickRequests
<1>2. UNCHANGED <<keys, keyring, activeKey>>
  BY DEF ReferenceLock, Proceed, data
<1>3. \A d \in Connections \ {c} : Past(d)' <=> Past(d)
  BY <1>1 DEF Past
<1>4. \A d \in Connections \ {c} : Past(d) => ~Names(d, tx[c].program, tx[c].reference)
  <2>1. SUFFICES ASSUME NEW d \in Connections \ {c}, Past(d),
                        Names(d, tx[c].program, tx[c].reference)
                 PROVE  FALSE
    OBVIOUS
  <2>2. tx[d].key = tx[c].key
    BY <1>1, <2>1 DEF RefsInv, Past
  <2>3. d \in Clicks(tx[c].program) \ {c}
    BY <2>1 DEF Clicks, Past, Names
  <2>4. <<tx[d].reference, tx[d].key>> = <<tx[c].reference, tx[c].key>>
    BY <2>1, <2>2 DEF Names
  <2> QED BY <2>1, <2>3, <2>4 DEF ReferenceLock, Holds, Past
<1>5. tx'[c].person = Nobody => known = {}
  <2>1. known \subseteq People
    BY DEF KnownAs, Types, Key
  <2> QED BY <1>1, <2>1, ProgramsAssumption DEF People, ProgramsAssumption
<1>6. known = {} => \A e \in keys : e.key \in keyring => ~Names(c, e.program, e.reference)
  BY DEF KnownAs, Names
<1> HIDE DEF known
<1>7. \A d \in Connections : tx'[d].op = "click" => tx'[d].key = activeKey
  BY <1>1 DEF RefsInv, Continues
<1>8. \A d, e \in Connections :
          Past(d)' /\ Past(e)' /\ Names(e, tx[d].program, tx[d].reference)' => d = e
  BY <1>1, <1>3, <1>4 DEF RefsInv, Names, Continues
<1>9. \A d \in Connections : Past(d)' /\ tx'[d].person = Nobody =>
          \A e \in keys' : e.key \in keyring =>
              ~(tx'[d].program = e.program /\ tx'[d].reference = e.reference)
  BY <1>1, <1>2, <1>3, <1>5, <1>6 DEF RefsInv, Names, Continues
<1>10. OnePersonPerReference'
  BY <1>2 DEF RefsInv, OnePersonPerReference
<1> QED
  BY <1>2, <1>7, <1>8, <1>9, <1>10 DEF RefsInv, Names

LEMMA CommitClickKeepsRefs ==
  ASSUME Types, RefsInv, NEW c \in Connections, CommitClick(c)
  PROVE  RefsInv'
<1>1. /\ tx[c] \in ClickRequests /\ tx[c].step = "commit" /\ tx'[c] = Idle
      /\ \A d \in Connections \ {c} : tx'[d] = tx[d]
      /\ UNCHANGED <<keyring, activeKey>>
  BY CommitClickWrites, StatementType DEF Statement
<1>2. Follows(c)
  BY <1>1 DEF Follows, Idle
<1>3. CASE UNCHANGED keys
  BY <1>1, <1>2, <1>3, FollowingKeepsRefs
<1>4. CASE ~UNCHANGED keys
  <2> DEFINE new == [program |-> tx[c].program, reference |-> tx[c].reference, key |-> tx[c].key,
                     person |-> NextBorn]
  <2>1. tx[c].person = Nobody /\ keys' = keys \cup {new}
    BY <1>4, CommitClickWrites DEF data
  <2>2. Past(c)
    BY <1>1 DEF ClickRequests, Past
  <2>3. /\ \A e \in keys : e.key \in keyring =>
               ~(e.program = new.program /\ e.reference = new.reference)
        /\ new.key = activeKey /\ activeKey \in keyring /\ activeKey \in 1..activeKey
    BY <2>1, <2>2 DEF RefsInv, Names, Past
  <2>4. \A d \in Connections \ {c} :
            Past(d) => ~(tx[d].program = new.program /\ tx[d].reference = new.reference)
    BY <2>2 DEF RefsInv, Names
  <2> HIDE DEF new
  <2>5. OnePersonPerReference'
    BY <1>1, <2>1, <2>3 DEF RefsInv, OnePersonPerReference
  <2>6. \A d \in Connections : Past(d)' => d # c /\ Past(d) /\ tx'[d] = tx[d]
    BY <1>1 DEF Past, Idle
  <2>7. \A d \in Connections : tx'[d].op = "click" => tx'[d].key = activeKey
    BY <1>1 DEF RefsInv, Idle
  <2>8. \A d, e \in Connections :
            Past(d)' /\ Past(e)' /\ Names(e, tx[d].program, tx[d].reference)' => d = e
    BY <2>6 DEF RefsInv, Names
  <2>9. \A d \in Connections : Past(d)' /\ tx'[d].person = Nobody =>
            \A e \in keys' : e.key \in keyring =>
              ~(tx'[d].program = e.program /\ tx'[d].reference = e.reference)
    BY <2>1, <2>4, <2>6 DEF RefsInv, Names
  <2>10. \A e \in keys' : e.key \in 1..activeKey
    BY <2>1, <2>3 DEF RefsInv
  <2> QED BY <1>1, <2>5, <2>7, <2>8, <2>9, <2>10 DEF RefsInv, Names
<1> QED
  BY <1>3, <1>4

LEMMA RefsStep ==
  ASSUME Types, RefsInv, [Next]_vars
  PROVE  RefsInv'
<1>1. ASSUME NEW c \in Connections, Asks(c) PROVE RefsInv'
  BY <1>1, AsksType, AsksFollows, FollowingKeepsRefs DEF data
<1>2. ASSUME NEW c \in Connections, Statement(c) PROVE RefsInv'
  <2>1. CASE ReferenceLock(c) \/ CommitClick(c)
    BY <2>1, ReferenceLockKeepsRefs, CommitClickKeepsRefs
  <2>2. CASE ~(ReferenceLock(c) \/ CommitClick(c))
    <3>1. UNCHANGED keys
      BY <1>2, <2>2 DEF Statement, Insert, RefuseAtCap, TakeInvitation, TakeGrant, Dismiss,
         DeclineInvitation, AcceptInvitation, CommitAccept, Proceed, data
    <3> QED BY <1>2, <2>2, <3>1, StatementType, StatementFollows, FollowingKeepsRefs
  <2> QED BY <2>1, <2>2
<1>3. CASE RotateReferenceKey \/ \E k \in 1..MaxKey : RetireReferenceKey(k)
  <2>1. \A c \in Connections : tx[c].op # "click"
    BY <1>3, RequestKinds DEF RotateReferenceKey, RetireReferenceKey, Clicks, ClickRequests
  <2>2. UNCHANGED <<tx, keys>>
    BY <1>3 DEF RotateReferenceKey, RetireReferenceKey, data
  <2>3. activeKey \in Nat /\ activeKey \in keyring /\ keyring \subseteq 1..activeKey
        /\ \A e \in keys : e.key \in 1..activeKey
    BY DEF RefsInv, Types
  <2>4. CASE RotateReferenceKey
    <3>1. activeKey' = activeKey + 1 /\ keyring' = keyring \cup {activeKey'}
      BY <2>4 DEF RotateReferenceKey
    <3>2. \A e \in keys : e.key \in keyring' => e.key \in keyring
      BY <2>3, <3>1
    <3>3. OnePersonPerReference'
      BY <2>2, <3>2 DEF RefsInv, OnePersonPerReference
    <3>4. activeKey' \in keyring' /\ keyring' \subseteq 1..activeKey'
          /\ \A e \in keys' : e.key \in 1..activeKey'
      BY <2>2, <2>3, <3>1
    <3> QED BY <2>1, <2>2, <3>3, <3>4 DEF RefsInv, Past
  <2>5. CASE \E k \in 1..MaxKey : RetireReferenceKey(k)
    <3>1. UNCHANGED activeKey /\ activeKey \in keyring' /\ keyring' \subseteq keyring
      BY <2>3, <2>5 DEF RetireReferenceKey
    <3>2. OnePersonPerReference'
      BY <2>2, <3>1 DEF RefsInv, OnePersonPerReference
    <3> QED BY <2>1, <2>2, <2>3, <3>1, <3>2 DEF RefsInv, Past
  <2> QED BY <1>3, <2>4, <2>5
<1>4. CASE /\ ~RotateReferenceKey /\ ~\E k \in 1..MaxKey : RetireReferenceKey(k)
           /\ Withdrawal \/ Outside \/ Rest \/ UNCHANGED vars
  <2>1. UNCHANGED <<keyring, activeKey>>
    BY <1>4 DEF Withdrawal, Deactivate, RevokeForKnownPerson, Revoke, Outside, ComeOfAge,
       Emancipate, EraseDependent, Meet, Pass, Rest, vars
  <2>2. UNCHANGED <<tx, keys>>
    BY <1>4, OutsideIsQuiet DEF Quiet
  <2> QED BY <2>1, <2>2 DEF RefsInv, Past, Names, OnePersonPerReference
<1> QED
  BY <1>1, <1>2, <1>3, <1>4, ProgramsSteps

-----------------------------------------------------------------------------
\* Who is not born has nothing, and is born in order.
BornInv ==
    /\ \A x \in Persons, p \in Offered : fate[x] = "unborn" => grants[<<x, p>>] = <<>>
    /\ \E k \in Nat : Dependents \ Unborn = 1..k
    /\ \A e \in keys : e.person \in Persons => fate[e.person] # "unborn"
    /\ \A c \in Connections : tx[c].op = "grant" => fate[tx[c].person] # "unborn"
    /\ \A c \in Connections :
          tx[c].op = "click" /\ tx[c].person \in Persons => fate[tx[c].person] # "unborn"

LEMMA NextIsUnborn ==
  ASSUME BornInv, NextBorn \in Persons
  PROVE  /\ NextBorn \in Dependents /\ fate[NextBorn] = "unborn"
         /\ Dependents \ (Unborn \ {NextBorn}) = 1..NextBorn
<1>1. PICK k \in Nat : Dependents \ Unborn = 1..k
  BY DEF BornInv
<1>2. Cardinality(1..k) = k
  BY FS_Interval
<1>3. NextBorn = k + 1
  BY <1>1, <1>2 DEF NextBorn
<1>4. NextBorn \in Dependents
  BY <1>1, <1>3, ProgramsAssumption DEF Persons, ProgramsAssumption
<1>5. NextBorn \in Unborn
  BY <1>1, <1>3, <1>4
<1>6. 1..NextBorn = (1..k) \cup {NextBorn}
  BY <1>3
<1> QED
  BY <1>1, <1>4, <1>5, <1>6 DEF Unborn

\* Nobody goes back to before birth, and a click is the only birth.
LEMMA StepBears ==
  ASSUME Types, [Next]_vars, ~\E c \in Connections : CommitClick(c)
  PROVE  \A x \in Persons : fate'[x] = "unborn" <=> fate[x] = "unborn"
<1>1. ASSUME NEW c \in Connections, Asks(c) PROVE UNCHANGED fate
  BY <1>1, AsksType DEF data
<1>2. ASSUME NEW c \in Connections, Statement(c) PROVE UNCHANGED fate
  BY <1>2 DEF Statement, Insert, ReferenceLock, RefuseAtCap, TakeInvitation, TakeGrant, Dismiss,
     DeclineInvitation, AcceptInvitation, CommitAccept, Proceed, data
<1>3. ASSUME NEW d \in Dependents, ComeOfAge(d) \/ Emancipate(d) \/ EraseDependent(d)
      PROVE  \A x \in Persons : fate'[x] = "unborn" <=> fate[x] = "unborn"
  <2>1. PICK what \in {"of age", "autonomous", "erased"} : fate' = [fate EXCEPT ![d] = what]
    BY <1>3 DEF ComeOfAge, Emancipate, EraseDependent, Meet
  <2>2. fate[d] # "unborn"
    BY <1>3 DEF ComeOfAge, Emancipate, EraseDependent
  <2> QED BY <2>1, <2>2 DEF Types
<1>4. CASE Withdrawal \/ RotateReferenceKey \/ (\E k \in 1..MaxKey : RetireReferenceKey(k))
           \/ Pass \/ Rest \/ UNCHANGED vars
  <2>1. UNCHANGED fate
    BY <1>4 DEF Withdrawal, Deactivate, RevokeForKnownPerson, Revoke, RotateReferenceKey,
       RetireReferenceKey, Pass, Rest, vars, data
  <2> QED BY <2>1
<1> QED
  BY <1>1, <1>2, <1>3, <1>4, ProgramsSteps DEF Outside

\* Only an insertion and a click give a first row.
LEMMA StepGivesFirst ==
  ASSUME Types, [Next]_vars, ~\E c \in Connections : CommitClick(c),
         NEW x \in Persons, NEW p \in Offered, grants[<<x, p>>] = <<>>
  PROVE  \/ grants'[<<x, p>>] = <<>>
         \/ \E c \in Connections : tx[c].op = "grant" /\ tx[c].person = x
<1>1. ASSUME NEW c \in Connections, Asks(c) PROVE UNCHANGED grants
  BY <1>1, AsksType DEF data
<1>2. ASSUME NEW c \in Connections, Insert(c)
      PROVE  grants'[<<x, p>>] = <<>> \/ (tx[c].op = "grant" /\ tx[c].person = x)
  <2>1. tx[c].op = "grant" /\ tx[c].by \in Actors
    BY <1>2, RequestKinds DEF Insert, At, Insertions
  <2>2. UNCHANGED grants \/ grants' = WithGrant(tx[c].by, tx[c].person, tx[c].program)
    BY <1>2 DEF Insert, Inserted
  <2>3. CASE tx[c].person = x
    BY <2>1, <2>3
  <2>4. CASE tx[c].person # x
    <3>1. UNCHANGED grants \/ Spared(tx[c].person)
      BY <2>2, WithGrantSpares, Zenon
    <3> QED BY <2>4, <3>1 DEF Spared
  <2> QED BY <2>3, <2>4
<1>3. ASSUME NEW c \in Connections, Statement(c), ~Insert(c) PROVE UNCHANGED grants
  BY <1>3 DEF Statement, ReferenceLock, RefuseAtCap, TakeInvitation, TakeGrant, Dismiss,
     DeclineInvitation, AcceptInvitation, CommitAccept, Proceed, data
<1>4. CASE Withdrawal \/ \E d \in Dependents : EraseDependent(d)
  BY <1>4, RevokeGives, EraseGives
<1>5. CASE Outside /\ ~\E d \in Dependents : EraseDependent(d)
  BY <1>5 DEF Outside, ComeOfAge, Emancipate, RotateReferenceKey, RetireReferenceKey, Pass, data
<1>6. CASE Rest \/ UNCHANGED vars
  BY <1>6 DEF Rest, vars, data
<1> QED
  BY <1>1, <1>2, <1>3, <1>4, <1>5, <1>6, ProgramsSteps

LEMMA WhoMoves ==
  ASSUME Types, [Next]_vars, NEW c \in Connections, tx'[c] # tx[c]
  PROVE  Asks(c) \/ Statement(c)
<1>1. CASE UNCHANGED tx
  BY <1>1
<1>2. ASSUME NEW d \in Connections, Asks(d) \/ Statement(d) PROVE Asks(c) \/ Statement(c)
  BY <1>2, AsksType, StatementType
<1> QED
  BY <1>1, <1>2, ProgramsSteps, OutsideIsQuiet DEF Quiet

GoesOn(c) ==
    \/ tx'[c].op \in {"none", "accept", "decline"}
    \/ /\ tx[c].op = "click" /\ tx'[c].op = "click" /\ Continues(c)
       /\ tx'[c].person = tx[c].person

LEMMA StatementGoesOn ==
  ASSUME Types, NEW c \in Connections, Statement(c), ~ReferenceLock(c)
  PROVE  GoesOn(c)
<1>1. CASE Insert(c) \/ RefuseAtCap(c) \/ CommitClick(c) \/ Dismiss(c) \/ DeclineInvitation(c)
           \/ CommitAccept(c)
  <2>1. tx'[c] = Idle
    BY <1>1, EndsType DEF Insert, RefuseAtCap, CommitClick, Dismiss, DeclineInvitation,
       CommitAccept, End, Ends
  <2> QED BY <2>1 DEF GoesOn, Idle
<1>2. CASE TakeInvitation(c)
  BY <1>2, TakeInvitationType DEF ClickRequests, GoesOn
<1>3. CASE TakeGrant(c)
  BY <1>3, TakeGrantType DEF ClickRequests, GoesOn, Idle
<1>4. CASE AcceptInvitation(c)
  BY <1>4, AcceptInvitationType DEF GoesOn
<1> QED
  BY <1>1, <1>2, <1>3, <1>4 DEF Statement

\* The requests name people who are born.
LEMMA StepNamesBorn ==
  ASSUME Types, BornInv, [Next]_vars, NEW c \in Connections
  PROVE  /\ tx'[c].op = "grant" => tx'[c].person \in Persons /\ fate[tx'[c].person] # "unborn"
         /\ tx'[c].op = "click" /\ tx'[c].person \in Persons => fate[tx'[c].person] # "unborn"
<1>1. /\ tx[c].op = "grant" => tx[c].person \in Persons /\ fate[tx[c].person] # "unborn"
      /\ tx[c].op = "click" /\ tx[c].person \in Persons => fate[tx[c].person] # "unborn"
  BY RequestKinds DEF BornInv, Insertions
<1>2. CASE tx'[c] = tx[c]
  BY <1>1, <1>2
<1>3. CASE \E by \in Actors, x \in Persons, p \in Offered :
              Insertion(c, by, x, p) /\ fate[x] # "unborn"
  BY <1>3, InsertionType DEF Insertions
<1>4. CASE \E p \in Granted, r \in References, l \in Lines : OpenDependentAccess(c, p, r, l)
  <2>1. tx'[c].person = Nobody /\ tx'[c].op = "click"
    BY <1>4, ClickType DEF ClickRequests
  <2>2. Nobody \notin Persons
    BY ProgramsAssumption DEF Persons, Dependents, ProgramsAssumption
  <2> QED BY <2>1, <2>2
<1>5. CASE \E a \in Families, i \in DOMAIN invitations : Accept(c, a, i) \/ Decline(c, a, i)
  BY <1>5, AnswerType DEF Answers
<1>6. CASE ReferenceLock(c)
  <2>1. /\ tx'[c].op = "click"
        /\ tx'[c].person = Nobody \/ \E e \in keys : e.person = tx'[c].person
    BY <1>6, ReferenceLockType DEF ClickRequests, KnownAs
  <2>2. Nobody \notin Persons
    BY ProgramsAssumption DEF Persons, Dependents, ProgramsAssumption
  <2> QED BY <2>1, <2>2 DEF BornInv
<1>7. CASE Statement(c) /\ ~ReferenceLock(c)
  BY <1>1, <1>7, StatementGoesOn DEF GoesOn
<1> QED
  BY <1>2, <1>3, <1>4, <1>5, <1>6, <1>7, WhoMoves DEF Asks

LEMMA BornStep ==
  ASSUME Types, BornInv, [Next]_vars
  PROVE  BornInv'
<1>1. CASE ~\E c \in Connections : CommitClick(c)
  <2>1. \A x \in Persons : fate'[x] = "unborn" <=> fate[x] = "unborn"
    BY <1>1, StepBears
  <2>2. Unborn' = Unborn
    BY <2>1 DEF Unborn, Persons
  <2>3. \A x \in Persons, p \in Offered : fate'[x] = "unborn" => grants'[<<x, p>>] = <<>>
    <3>1. ASSUME NEW x \in Persons, NEW p \in Offered, fate'[x] = "unborn"
          PROVE  grants'[<<x, p>>] = <<>>
      <4>1. fate[x] = "unborn" /\ grants[<<x, p>>] = <<>>
        BY <2>1, <3>1 DEF BornInv
      <4>2. ~\E c \in Connections : tx[c].op = "grant" /\ tx[c].person = x
        BY <4>1 DEF BornInv
      <4> QED BY <1>1, <4>1, <4>2, StepGivesFirst
    <3> QED BY <3>1
  <2>4. keys' = keys
    BY <1>1, ProgramsSteps, AsksType, OutsideIsQuiet DEF Quiet, data, Statement, Insert,
       ReferenceLock, RefuseAtCap, TakeInvitation, TakeGrant, Dismiss, DeclineInvitation,
       AcceptInvitation, CommitAccept, Proceed
  <2>5. \A e \in keys' : e.person \in Persons => fate'[e.person] # "unborn"
    BY <2>1, <2>4 DEF BornInv
  <2>6. \A c \in Connections : tx'[c].op = "grant" => fate'[tx'[c].person] # "unborn"
    BY <2>1, StepNamesBorn
  <2>7. \A c \in Connections :
            tx'[c].op = "click" /\ tx'[c].person \in Persons => fate'[tx'[c].person] # "unborn"
    BY <2>1, StepNamesBorn
  <2> QED BY <2>2, <2>3, <2>5, <2>6, <2>7 DEF BornInv
<1>2. ASSUME NEW c \in Connections, CommitClick(c) PROVE BornInv'
  <2> DEFINE x == IF tx[c].person = Nobody THEN NextBorn ELSE tx[c].person
  <2>1. /\ tx[c] \in ClickRequests /\ tx'[c] = Idle /\ tx[c].op = "click"
        /\ \A d \in Connections \ {c} : tx'[d] = tx[d]
    BY <1>2, CommitClickWrites, StatementType DEF Statement, ClickRequests
  <2>2. \A d \in Connections : tx'[d].op \in {"grant", "click"} => tx'[d] = tx[d]
    BY <2>1 DEF Idle
  <2>3. CASE UNCHANGED data
    BY <2>2, <2>3 DEF BornInv, Unborn, data
  <2>4. CASE ~UNCHANGED data
    <3>1. /\ x \in People
          /\ grants' = IF tx[c].opens THEN WithGrant("PROGRAM", x, tx[c].program) ELSE grants
          /\ IF tx[c].person # Nobody THEN UNCHANGED <<keys, fate>>
             ELSE /\ keys' = keys \cup {[program |-> tx[c].program, reference |-> tx[c].reference,
                                         key |-> tx[c].key, person |-> NextBorn]}
                  /\ fate' = [fate EXCEPT ![NextBorn] = "minor"]
      BY <1>2, <2>4, CommitClickWrites
    <3>2. \A y \in Persons : fate[y] # "unborn" => fate'[y] # "unborn"
      BY <3>1 DEF Types
    <3>3. x \in Persons => fate'[x] # "unborn"
      BY <2>1, <3>1, <3>2 DEF BornInv, Types
    <3>4. \A y \in Persons : y # x => fate'[y] = fate[y]
      BY <3>1 DEF Types
    <3> HIDE DEF x
    <3>5. \A y \in Persons, p \in Offered : y # x => grants'[<<y, p>>] = grants[<<y, p>>]
      <4>1. UNCHANGED grants => Spared(x)
        BY DEF Spared
      <4>2. grants' = WithGrant("PROGRAM", x, tx[c].program) => Spared(x)
        BY WithGrantSpares, Zenon
      <4>3. Spared(x)
        BY <3>1, <4>1, <4>2, Zenon
      <4> QED BY <4>3 DEF Spared
    <3>6. \A y \in Persons, p \in Offered : fate'[y] = "unborn" => grants'[<<y, p>>] = <<>>
      BY <3>3, <3>4, <3>5 DEF BornInv
    <3>7. \E k \in Nat : (Dependents \ Unborn)' = 1..k
      <4>1. CASE UNCHANGED fate \/ NextBorn \notin Persons
        <5>1. \A y \in Persons : fate'[y] = fate[y]
          BY <3>1, <4>1 DEF Types
        <5>2. Unborn' = Unborn
          BY <5>1 DEF Unborn, Persons
        <5> QED BY <5>2 DEF BornInv
      <4>2. CASE ~UNCHANGED fate /\ NextBorn \in Persons
        <5>1. \A y \in Persons : fate'[y] = IF y = NextBorn THEN "minor" ELSE fate[y]
          BY <3>1, <4>2 DEF Types
        <5>2. Unborn' = Unborn \ {NextBorn}
          BY <5>1 DEF Unborn, Persons
        <5> QED BY <4>2, <5>2, NextIsUnborn, NextBornType
      <4> QED BY <4>1, <4>2
    <3>8. \A e \in keys' : e.person \in Persons => fate'[e.person] # "unborn"
      <4>1. CASE UNCHANGED keys
        BY <3>2, <4>1 DEF BornInv
      <4>2. CASE ~UNCHANGED keys
        <5>1. \A e \in keys' : e \in keys \/ e.person = x
          BY <3>1, <4>2 DEF x
        <5> QED BY <3>2, <3>3, <5>1 DEF BornInv
      <4> QED BY <4>1, <4>2
    <3>9. \A d \in Connections : tx'[d].op = "grant" => fate'[tx'[d].person] # "unborn"
      <4>1. \A d \in Connections : tx[d].op = "grant" => tx[d].person \in Persons
        BY RequestKinds DEF Insertions
      <4> QED BY <2>2, <3>2, <4>1 DEF BornInv
    <3>10. \A d \in Connections :
              tx'[d].op = "click" /\ tx'[d].person \in Persons => fate'[tx'[d].person] # "unborn"
      BY <2>2, <3>2 DEF BornInv
    <3> QED BY <3>6, <3>7, <3>8, <3>9, <3>10 DEF BornInv
  <2> QED BY <2>3, <2>4
<1> QED
  BY <1>1, <1>2

-----------------------------------------------------------------------------
\* What the family closed.

\* The rows a request found closed are still there, and still closed by the family.
StillClosed(c) ==
    \A k \in tx[c].closed : /\ k[2] \in 1..Len(grants[<<k[1], tx[c].program>>])
                            /\ grants[<<k[1], tx[c].program>>][k[2]].reason = "SELF"

\* A program's own insertion found nothing closed for the person.
OpensNothingClosed(c) == \A n \in Nat : <<tx[c].person, n>> \notin tx[c].closed

\* A click that opens found that the closed row is no longer the last.
OpensAnother(c) ==
    \A n \in Nat : <<tx[c].person, n>> \in tx[c].closed =>
        n < Len(grants[<<tx[c].person, tx[c].program>>])

AboutToOpen(c) ==
    tx[c].op = "click" /\ tx[c].step = "commit" /\ tx[c].opens /\ tx[c].person \in Persons

ClosedInv ==
    /\ \A c \in Connections : tx[c].op \in {"grant", "click"} => StillClosed(c)
    /\ \A c \in Connections : tx[c].op = "grant" /\ tx[c].by = "PROGRAM" => OpensNothingClosed(c)
    /\ \A c \in Connections : AboutToOpen(c) => OpensAnother(c)

LEMMA ClosedRowsAreClosed ==
  ASSUME Types, NEW p \in Offered, NEW k \in ClosedRows(p)
  PROVE  /\ k[1] \in Persons /\ ClosedByFamily(k[1], p)
         /\ k[2] \in 1..Len(grants[<<k[1], p>>])
         /\ grants[<<k[1], p>>][k[2]].reason = "SELF"
<1>1. k[1] \in Persons /\ ClosedByFamily(k[1], p)
  BY ClosedRowsType
<1>2. k[2] = Len(grants[<<k[1], p>>])
  BY ClosedRowsType
<1>3. /\ Len(grants[<<k[1], p>>]) \in 1..Len(grants[<<k[1], p>>])
      /\ LastGrant(k[1], p) = grants[<<k[1], p>>][Len(grants[<<k[1], p>>])]
  BY <1>1, LastIsARow
<1> QED
  BY <1>1, <1>2, <1>3 DEF ClosedByFamily

\* What a request knew stays true, as rows are only added and closed.
LEMMA ClosedIsKept ==
  ASSUME Types, ClosedInv, Given, NEW c \in Connections, tx'[c] = tx[c]
  PROVE  /\ tx[c].op \in {"grant", "click"} => StillClosed(c)'
         /\ tx[c].op = "grant" /\ tx[c].by = "PROGRAM" => OpensNothingClosed(c)'
         /\ AboutToOpen(c) => OpensAnother(c)'
<1>1. ASSUME tx[c].op \in {"grant", "click"} PROVE StillClosed(c)'
  <2>1. tx[c].program \in Offered /\ tx[c].closed \subseteq Persons \X Nat
    BY <1>1, RequestKinds DEF Insertions, ClickRequests, Offered
  <2>2. ASSUME NEW k \in tx[c].closed
        PROVE  /\ k[2] \in 1..Len(grants'[<<k[1], tx[c].program>>])
               /\ grants'[<<k[1], tx[c].program>>][k[2]].reason = "SELF"
    <3>1. /\ k[2] \in 1..Len(grants[<<k[1], tx[c].program>>])
          /\ grants[<<k[1], tx[c].program>>][k[2]].reason = "SELF"
      BY <1>1, <2>2 DEF ClosedInv, StillClosed
    <3>2. k[1] \in Persons
      BY <2>1
    <3> DEFINE s == grants[<<k[1], tx[c].program>>]
               t == grants'[<<k[1], tx[c].program>>]
    <3>3. SelfKept(s, t) /\ t \in Seq(Row)
      BY <2>1, <3>2 DEF Given, Kept
    <3>4. Len(s) \in Nat /\ Len(t) \in Nat
      BY <2>1, <3>2, <3>3, RowsOf, LenProperties
    <3> HIDE DEF s, t
    <3>5. k[2] \in 1..Len(s) /\ s[k[2]].reason = "SELF"
      BY <3>1 DEF s
    <3>6. k[2] \in 1..Len(t) /\ t[k[2]].reason = "SELF"
      BY <3>3, <3>4, <3>5 DEF SelfKept
    <3> QED BY <3>6 DEF t
  <2> QED BY <2>2 DEF StillClosed
<1>2. ASSUME tx[c].op = "grant", tx[c].by = "PROGRAM" PROVE OpensNothingClosed(c)'
  BY <1>2 DEF ClosedInv, OpensNothingClosed
<1>3. ASSUME AboutToOpen(c) PROVE OpensAnother(c)'
  <2>1. tx[c].program \in Offered /\ tx[c].person \in Persons
    BY <1>3, RequestKinds DEF AboutToOpen, ClickRequests, Offered
  <2> DEFINE s == grants[<<tx[c].person, tx[c].program>>]
             t == grants'[<<tx[c].person, tx[c].program>>]
  <2>2. SelfKept(s, t) /\ t \in Seq(Row)
    BY <2>1 DEF Given, Kept
  <2>3. Len(s) \in Nat /\ Len(t) \in Nat /\ Len(t) >= Len(s)
    BY <2>1, <2>2, RowsOf, LenProperties DEF SelfKept
  <2>4. \A n \in Nat : <<tx[c].person, n>> \in tx[c].closed => n < Len(s)
    BY <1>3 DEF ClosedInv, OpensAnother
  <2> HIDE DEF s
  <2>5. \A n \in Nat : <<tx[c].person, n>> \in tx[c].closed => n < Len(t)
    <3> HIDE DEF t
    <3> QED BY <2>3, <2>4
  <2> QED BY <2>5 DEF OpensAnother
<1> QED
  BY <1>1, <1>2, <1>3

\* A request that has just come.
LEMMA AskedIsClosed ==
  ASSUME Types, NEW c \in Connections, Asks(c)
  PROVE  /\ tx'[c].op \in {"grant", "click"} => StillClosed(c)'
         /\ tx'[c].op = "grant" /\ tx'[c].by = "PROGRAM" => OpensNothingClosed(c)'
         /\ ~AboutToOpen(c)'
<1>1. UNCHANGED grants
  BY AsksType DEF data
<1>2. \A p \in Offered : tx'[c].program = p /\ tx'[c].closed = ClosedRows(p) => StillClosed(c)'
  BY <1>1, ClosedRowsAreClosed DEF StillClosed
<1>3. CASE \E by \in Actors, x \in Persons, p \in Offered : Insertion(c, by, x, p)
  <2>1. PICK by \in Actors, x \in Persons, p \in Offered : Insertion(c, by, x, p)
    BY <1>3
  <2>2. /\ tx'[c].op = "grant" /\ tx'[c].by = by /\ tx'[c].person = x /\ tx'[c].program = p
        /\ tx'[c].closed = ClosedRows(p)
    BY <2>1, InsertionType DEF Insertions
  <2>3. by = "PROGRAM" => ~ClosedByFamily(x, p)
    BY <2>1 DEF Insertion, MayGrant
  <2>4. \A n \in Nat : <<x, n>> \in ClosedRows(p) => ClosedByFamily(x, p)
    <3>1. ASSUME NEW n \in Nat, <<x, n>> \in ClosedRows(p) PROVE ClosedByFamily(x, p)
      <4>1. <<x, n>>[1] = x
        OBVIOUS
      <4> QED BY <3>1, <4>1, ClosedRowsAreClosed
    <3> QED BY <3>1
  <2>5. tx'[c].by = "PROGRAM" => OpensNothingClosed(c)'
    BY <2>2, <2>3, <2>4 DEF OpensNothingClosed
  <2> QED BY <1>2, <2>2, <2>5 DEF AboutToOpen
<1>4. CASE \E p \in Granted, r \in References, l \in Lines : OpenDependentAccess(c, p, r, l)
  <2>1. PICK p \in Granted, r \in References, l \in Lines : OpenDependentAccess(c, p, r, l)
    BY <1>4
  <2>2. /\ tx'[c].op = "click" /\ tx'[c].step = "reference" /\ tx'[c].program = p
        /\ tx'[c].closed = ClosedRows(p)
    BY <2>1, ClickType DEF ClickRequests
  <2> QED BY <1>2, <2>2 DEF AboutToOpen, Offered
<1>5. CASE \E a \in Families, i \in DOMAIN invitations : Accept(c, a, i) \/ Decline(c, a, i)
  <2>1. tx'[c].op \in {"accept", "decline"}
    BY <1>5, AnswerType DEF Answers
  <2> QED BY <2>1 DEF AboutToOpen
<1> QED
  BY <1>3, <1>4, <1>5 DEF Asks

\* A click that decides to open looked at the last row.
LEMMA TakeGrantOpensAnother ==
  ASSUME Types, ClosedInv, NEW c \in Connections, TakeGrant(c), AboutToOpen(c)'
  PROVE  OpensAnother(c)'
<1>1. /\ tx[c] \in ClickRequests /\ tx[c].op = "click" /\ tx'[c].program = tx[c].program
      /\ tx'[c].person = tx[c].person /\ tx'[c].closed = tx[c].closed
      /\ tx[c].person # Nobody => ~ClosedByFamily(tx[c].person, tx[c].program)
  BY TakeGrantType DEF AboutToOpen, Continues, ClickRequests, Idle
<1>2. tx[c].person \in Persons /\ tx[c].person # Nobody
  BY <1>1, ProgramsAssumption DEF AboutToOpen, Persons, Dependents, ProgramsAssumption
<1>3. tx[c].program \in Offered
  BY <1>1 DEF ClickRequests, Offered
<1>4. UNCHANGED grants
  BY DEF TakeGrant, Proceed, data
<1> DEFINE s == grants[<<tx[c].person, tx[c].program>>]
<1>5. ASSUME NEW n \in Nat, <<tx[c].person, n>> \in tx[c].closed
      PROVE  n < Len(s)
  <2>1. n \in 1..Len(s) /\ s[n].reason = "SELF"
    <3>1. <<tx[c].person, n>>[1] = tx[c].person /\ <<tx[c].person, n>>[2] = n
      OBVIOUS
    <3> QED BY <1>1, <1>5, <3>1 DEF ClosedInv, StillClosed
  <2>2. Len(s) \in Nat /\ s # <<>>
    <3>1. Len(s) \in Nat
      BY <1>2, <1>3, RowsOf
    <3>2. s = <<>> => Len(s) = 0
      BY EmptySeq
    <3> HIDE DEF s
    <3> QED BY <2>1, <3>1, <3>2
  <2>3. s[Len(s)].reason # "SELF"
    BY <1>1, <1>2, <2>2 DEF ClosedByFamily, LastGrant
  <2> HIDE DEF s
  <2> QED BY <2>1, <2>2, <2>3
<1> QED
  BY <1>1, <1>4, <1>5 DEF OpensAnother

LEMMA ClosedStep ==
  ASSUME Types, ClosedInv, [Next]_vars
  PROVE  ClosedInv'
<1>1. Given
  BY StepGives
<1>2. ASSUME NEW c \in Connections
      PROVE  /\ tx'[c].op \in {"grant", "click"} => StillClosed(c)'
             /\ tx'[c].op = "grant" /\ tx'[c].by = "PROGRAM" => OpensNothingClosed(c)'
             /\ AboutToOpen(c)' => OpensAnother(c)'
  <2>1. CASE tx'[c] = tx[c]
    <3>1. AboutToOpen(c)' <=> AboutToOpen(c)
      BY <2>1 DEF AboutToOpen
    <3> QED BY <1>1, <2>1, <3>1, ClosedIsKept
  <2>2. CASE Asks(c)
    BY <2>2, AskedIsClosed
  <2>3. CASE Statement(c)
    <3>1. GoesOn(c) \/ ReferenceLock(c)
      BY <2>3, StatementGoesOn
    <3>2. /\ tx'[c].op # "grant"
          /\ tx'[c].op = "click" => /\ tx[c].op = "click" /\ tx'[c].program = tx[c].program
                                    /\ tx'[c].closed = tx[c].closed
      BY <3>1, ReferenceLockType DEF GoesOn, Continues, ClickRequests
    <3>3. ASSUME tx'[c].op = "click" PROVE UNCHANGED grants
      <4>1. ~(Insert(c) \/ CommitClick(c))
        BY <3>3, EndsType DEF Insert, CommitClick, End, Ends, Idle
      <4> QED BY <2>3, <4>1 DEF Statement, ReferenceLock, RefuseAtCap, TakeInvitation, TakeGrant,
                 Dismiss, DeclineInvitation, AcceptInvitation, CommitAccept, Proceed, data
    <3>4. tx'[c].op = "click" => StillClosed(c)'
      BY <3>2, <3>3 DEF ClosedInv, StillClosed
    <3>5. ASSUME AboutToOpen(c)' PROVE TakeGrant(c)
      <4>1. tx'[c].step = "commit" /\ tx'[c].op = "click"
        BY <3>5 DEF AboutToOpen
      <4>2. ~(ReferenceLock(c) \/ TakeInvitation(c) \/ AcceptInvitation(c))
        BY <4>1, ReferenceLockType, TakeInvitationType, AcceptInvitationType
      <4>3. ~(Insert(c) \/ RefuseAtCap(c) \/ CommitClick(c) \/ Dismiss(c) \/ DeclineInvitation(c)
              \/ CommitAccept(c))
        BY <4>1, EndsType DEF Insert, RefuseAtCap, CommitClick, Dismiss, DeclineInvitation,
           CommitAccept, End, Ends, Idle
      <4> QED BY <2>3, <4>2, <4>3 DEF Statement
    <3> QED BY <3>2, <3>4, <3>5, TakeGrantOpensAnother
  <2> QED BY <2>1, <2>2, <2>3, WhoMoves
<1> QED
  BY <1>2 DEF ClosedInv

-----------------------------------------------------------------------------
\* The invariant.
ProgramsInv == Types /\ RowsInv /\ RefsInv /\ BornInv /\ ClosedInv

LEMMA ProgramsInvInit == Init => ProgramsInv
<1> SUFFICES ASSUME Init PROVE ProgramsInv
  OBVIOUS
<1>1. \A c \in Connections : tx[c] = Idle /\ tx[c].op = "none"
  BY DEF Init, Idle
<1>2. Types
  <2>1. <<>> \in Seq(Row) /\ <<>> \in Seq(Invitation)
    BY EmptySeq
  <2>2. grants \in [Persons \X Offered -> Seq(Row)] /\ invitations \in Seq(Invitation)
    BY <2>1 DEF Init
  <2>3. tx \in [Connections -> Requests]
    BY DEF Init, Requests
  <2> QED BY <1>1, <2>2, <2>3 DEF Init, Types, Grants
<1>3. RowsInv
  <2>1. \A c \in Connections : \A i : ~HeldBy(c, i)
    BY <1>1 DEF HeldBy
  <2>2. AcceptedIsComplete
    <3>1. DOMAIN invitations = {}
      BY DEF Init
    <3> QED BY <3>1 DEF AcceptedIsComplete
  <2> QED BY <1>1, <2>1, <2>2 DEF RowsInv
<1>4. RefsInv
  BY <1>1 DEF Init, RefsInv, Past, OnePersonPerReference
<1>5. BornInv
  <2>1. Dependents \ Unborn = 1..0
    BY ProgramsAssumption DEF Init, Unborn, Dependents, Persons, ProgramsAssumption
  <2>2. \A x \in Persons, p \in Offered : grants[<<x, p>>] = <<>>
    BY DEF Init
  <2> QED BY <1>1, <2>1, <2>2 DEF Init, BornInv
<1>6. ClosedInv
  BY <1>1 DEF ClosedInv, AboutToOpen
<1> QED
  BY <1>2, <1>3, <1>4, <1>5, <1>6 DEF ProgramsInv

LEMMA ProgramsInvHolds == Spec => []ProgramsInv
<1>1. ProgramsInv /\ [Next]_vars => ProgramsInv'
  BY TypesStep, RowsStep, RefsStep, BornStep, ClosedStep DEF ProgramsInv
<1> QED
  BY ProgramsInvInit, <1>1, PTL DEF Spec

-----------------------------------------------------------------------------
\* The theorems.

\* Under the keys the keyring keeps, and under each key for good, a reference of a program is
\* one person (open_dependent_access): a click that will make a person holds, from its lookup
\* to its commit, the only lock under which another could; the active key, which the lock is
\* made with, does not turn under it, and a key that is added has nothing under it yet.  What a
\* retired key had named is promised nothing.
THEOREM ReferenceIsOnePerson == Spec => []OnePersonPerReference
<1>1. ProgramsInv => OnePersonPerReference
  BY DEF ProgramsInv, RefsInv
<1> QED
  BY <1>1, ProgramsInvHolds, PTL

\* Whoever is on an accepted invitation was judged (accept_program_invitation): a click that
\* adds a dependent and the acceptance exclude each other by the row of the invitation.
THEOREM AcceptanceIsWhole == Spec => []AcceptedIsComplete
<1>1. ProgramsInv => AcceptedIsComplete
  BY DEF ProgramsInv, RowsInv
<1> QED
  BY <1>1, ProgramsInvHolds, PTL

ClosedStaysClosedStep ==
    \A c \in Connections, x \in Persons, p \in Offered :
        /\ tx[c] # Idle /\ tx'[c] = Idle /\ grants'[<<x, p>>] # grants[<<x, p>>]
        /\ grants'[<<x, p>>][Len(grants'[<<x, p>>])].by = "PROGRAM"
        => <<x, Len(grants[<<x, p>>])>> \notin tx[c].closed

LEMMA CommitOpensNothingClosed ==
  ASSUME ProgramsInv, NEW c \in Connections, CommitClick(c), NEW x \in Persons,
         NEW p \in Offered, grants'[<<x, p>>] # grants[<<x, p>>]
  PROVE  <<x, Len(grants[<<x, p>>])>> \notin tx[c].closed
<1> USE DEF ProgramsInv
<1> SUFFICES ASSUME <<x, Len(grants[<<x, p>>])>> \in tx[c].closed PROVE FALSE
  OBVIOUS
<1> DEFINE y == IF tx[c].person = Nobody THEN NextBorn ELSE tx[c].person
<1>1. /\ tx[c] \in ClickRequests /\ tx[c].op = "click" /\ tx[c].step = "commit"
      /\ tx[c].opens /\ grants' = WithGrant("PROGRAM", y, tx[c].program)
  BY CommitClickWrites DEF ClickRequests, data
<1>2. Len(grants[<<x, p>>]) \in Nat
  BY RowsOf
<1>3. x = y /\ p = tx[c].program
  <2>1. <<x, p>> = <<y, tx[c].program>>
    <3>1. SUFFICES ASSUME <<x, p>> # <<y, tx[c].program>> PROVE FALSE
      OBVIOUS
    <3> HIDE DEF y
    <3>2. "PROGRAM" \in Actors
      BY DEF Actors
    <3>3. grants'[<<x, p>>] = grants[<<x, p>>]
      BY <1>1, <3>1, <3>2, WithGrantKeeps
    <3> QED BY <3>3
  <2> HIDE DEF y
  <2> QED BY <2>1
<1>4. Len(grants[<<x, p>>]) \in 1..Len(grants[<<x, p>>])
  <2>1. <<x, Len(grants[<<x, p>>])>>[1] = x /\ <<x, Len(grants[<<x, p>>])>>[2] = Len(grants[<<x, p>>])
    OBVIOUS
  <2> HIDE DEF y
  <2> QED BY <1>1, <1>3, <2>1 DEF ClosedInv, StillClosed
<1>5. CASE tx[c].person = Nobody
  <2>1. x = NextBorn
    BY <1>3, <1>5
  <2>2. grants[<<x, p>>] = <<>>
    BY <2>1, NextIsUnborn DEF BornInv
  <2>3. Len(grants[<<x, p>>]) = 0
    BY <2>2, EmptySeq
  <2> QED BY <1>4, <2>3
<1>6. CASE tx[c].person # Nobody
  <2>1. tx[c].person = x /\ AboutToOpen(c)
    BY <1>1, <1>3, <1>6 DEF AboutToOpen
  <2>2. Len(grants[<<x, p>>]) < Len(grants[<<x, p>>])
    BY <1>2, <1>3, <2>1 DEF ClosedInv, OpensAnother
  <2> QED BY <1>2, <2>2
<1> QED
  BY <1>5, <1>6

LEMMA InsertOpensNothingClosed ==
  ASSUME ProgramsInv, NEW c \in Connections, Insert(c), NEW x \in Persons,
         NEW p \in Offered, grants'[<<x, p>>] # grants[<<x, p>>],
         grants'[<<x, p>>][Len(grants'[<<x, p>>])].by = "PROGRAM"
  PROVE  <<x, Len(grants[<<x, p>>])>> \notin tx[c].closed
<1> USE DEF ProgramsInv
<1>1. /\ tx[c].op = "grant" /\ tx[c].by \in Actors
      /\ grants' = WithGrant(tx[c].by, tx[c].person, tx[c].program)
  BY RequestKinds DEF Insert, At, Inserted, Insertions
<1> DEFINE by == tx[c].by
           y == tx[c].person
           q == tx[c].program
<1>2. by \in Actors /\ grants' = WithGrant(by, y, q)
  BY <1>1
<1> HIDE DEF by, y, q
<1>3. /\ <<x, p>> # <<y, q>> => WithGrant(by, y, q)[<<x, p>>] = grants[<<x, p>>]
      /\ <<x, p>> = <<y, q>> =>
            /\ Len(WithGrant(by, y, q)[<<x, p>>]) = Len(grants[<<x, p>>]) + 1
            /\ WithGrant(by, y, q)[<<x, p>>][Len(grants[<<x, p>>]) + 1].by = by
  BY <1>2, WithGrantKeeps
<1>4. <<x, p>> = <<y, q>>
  BY <1>2, <1>3
<1>5. grants'[<<x, p>>][Len(grants'[<<x, p>>])].by = by
  BY <1>2, <1>3, <1>4
<1>6. Len(grants[<<x, p>>]) \in Nat
  BY RowsOf
<1> QED
  BY <1>1, <1>4, <1>5, <1>6 DEF ClosedInv, OpensNothingClosed, by, y

\* What the family closed the program does not open (grant_program_as_program and
\* open_dependent_access), if its request began after that.
THEOREM FamilyAloneReopens == Spec => ClosedStaysClosed
<1>1. ProgramsInv /\ [Next]_vars => [ClosedStaysClosedStep]_vars
  <2>1. SUFFICES ASSUME ProgramsInv, [Next]_vars, NEW c \in Connections, NEW x \in Persons,
                        NEW p \in Offered, tx[c] # Idle, tx'[c] = Idle,
                        grants'[<<x, p>>] # grants[<<x, p>>],
                        grants'[<<x, p>>][Len(grants'[<<x, p>>])].by = "PROGRAM"
                 PROVE  <<x, Len(grants[<<x, p>>])>> \notin tx[c].closed
    BY DEF ClosedStaysClosedStep
  <2>2. Statement(c)
    BY <2>1, WhoMoves, AsksType DEF ProgramsInv
  <2>3. Insert(c) \/ CommitClick(c)
    BY <2>1, <2>2 DEF Statement, ReferenceLock, RefuseAtCap, TakeInvitation, TakeGrant, Dismiss,
       DeclineInvitation, AcceptInvitation, CommitAccept, Proceed, data
  <2> QED BY <2>1, <2>3, InsertOpensNothingClosed, CommitOpensNothingClosed
<1>2. Spec => [][ClosedStaysClosedStep]_vars
  BY <1>1, ProgramsInvHolds, PTL DEF Spec
<1> QED
  BY <1>2 DEF ClosedStaysClosed, ClosedStaysClosedStep
-----------------------------------------------------------------------------
\* The PENDING invitation of a program and a line, and the click that has it.

InLine(c) == tx[c].op = "click" /\ tx[c].step \in {"grant", "commit"}

LineInv ==
    /\ \A c, d \in Connections :
          InLine(c) /\ InLine(d) /\ tx[c].program = tx[d].program /\ tx[c].line = tx[d].line => c = d
    /\ \A c \in Connections : InLine(c) => tx[c].rows = Existing(c)
    /\ \A p \in Granted, l \in Lines : \A i, j \in Pending(p, l) : i = j
    /\ \A c \in Connections : tx[c].op = "click" => tx[c].now <= clock

\* An invitation is what it was, and is not PENDING again.
Stays(i) ==
    /\ invitations'[i].program = invitations[i].program
    /\ invitations'[i].line = invitations[i].line
    /\ invitations'[i].created = invitations[i].created
    /\ invitations'[i].status = "PENDING" => invitations[i].status = "PENDING"

\* A step that makes no invitation and shows none.
Calm ==
    /\ DOMAIN invitations' = DOMAIN invitations
    /\ \A i \in DOMAIN invitations :
          Stays(i) /\ invitations'[i].suppressed = invitations[i].suppressed

\* A click that shows the invitation it found, as far as it may.
Shows(c) ==
    /\ DOMAIN invitations' = DOMAIN invitations
    /\ \A i \in DOMAIN invitations :
          /\ Stays(i) /\ invitations'[i].status = invitations[i].status
          /\ invitations'[i].suppressed =
                IF i \in tx[c].live THEN invitations[i].suppressed /\ tx[c].silent
                ELSE invitations[i].suppressed

\* A click that makes an invitation, in the place of the one it closes.
Makes(c, n) ==
    /\ n \notin DOMAIN invitations /\ DOMAIN invitations' = DOMAIN invitations \cup {n}
    /\ \A i \in DOMAIN invitations :
          /\ Stays(i) /\ invitations'[i].suppressed = invitations[i].suppressed
          /\ i \in tx[c].rows => invitations'[i].status # "PENDING"
    /\ invitations'[n].program = tx[c].program /\ invitations'[n].line = tx[c].line
    /\ invitations'[n].created = tx[c].now /\ invitations'[n].suppressed = tx[c].silent

LEMMA CalmWhenClosed ==
  ASSUME Types, NEW ids, NEW how \in {"EXPIRED", "DECLINED"}, invitations' = Closed(ids, how)
  PROVE  Calm
<1>1. /\ DOMAIN invitations' = DOMAIN invitations
      /\ \A i \in DOMAIN invitations :
            invitations'[i] = IF i \in ids THEN [invitations[i] EXCEPT !.status = how]
                              ELSE invitations[i]
  BY DEF Closed
<1>2. ASSUME NEW i \in DOMAIN invitations
      PROVE  Stays(i) /\ invitations'[i].suppressed = invitations[i].suppressed
  <2>1. invitations[i] \in Invitation
    BY InvitationsOf
  <2>2. CASE i \in ids
    <3>1. invitations'[i] = [invitations[i] EXCEPT !.status = how]
      BY <1>1, <2>2
    <3> QED BY <2>1, <3>1 DEF Invitation, Stays
  <2>3. CASE i \notin ids
    BY <1>1, <2>3 DEF Stays
  <2> QED BY <2>2, <2>3
<1> QED
  BY <1>1, <1>2 DEF Calm

LEMMA CalmWhenUnchanged ==
  ASSUME UNCHANGED invitations
  PROVE  Calm
  BY DEF Calm, Stays

LEMMA CommitAcceptIsCalm ==
  ASSUME Types, NEW c \in Connections, CommitAccept(c)
  PROVE  Calm
<1> DEFINE i == tx[c].invitation
           o == [d \in DOMAIN invitations[i].outcome |->
                    IF d \in DOMAIN tx[c].outcome THEN tx[c].outcome[d]
                    ELSE invitations[i].outcome[d]]
<1>1. i \in DOMAIN invitations /\ invitations[i] \in Invitation
  BY InvitationsOf DEF CommitAccept, At, Types
<1>2. UNCHANGED invitations
      \/ invitations' = [invitations EXCEPT ![i].status = "ACCEPTED", ![i].outcome = o]
  BY <1>1 DEF CommitAccept, data, Invitation
<1> HIDE DEF o
<1>3. CASE invitations' = [invitations EXCEPT ![i].status = "ACCEPTED", ![i].outcome = o]
  <2> DEFINE w == [invitations[i] EXCEPT !.status = "ACCEPTED", !.outcome = o]
  <2>1. /\ w.program = invitations[i].program /\ w.line = invitations[i].line
        /\ w.created = invitations[i].created /\ w.suppressed = invitations[i].suppressed
        /\ w.status # "PENDING"
    BY <1>1 DEF Invitation
  <2>2. invitations' = [invitations EXCEPT ![i] = w]
    BY <1>1, <1>3 DEF Types
  <2> HIDE DEF w, i
  <2>3. /\ DOMAIN invitations' = DOMAIN invitations
        /\ \A j \in DOMAIN invitations : invitations'[j] = IF j = i THEN w ELSE invitations[j]
    BY <2>2
  <2> QED BY <2>1, <2>3 DEF Calm, Stays
<1> QED
  BY <1>2, <1>3, CalmWhenUnchanged

\* The commit of a click, as the invitations see it.
LEMMA CommitClickWritesRows ==
  ASSUME Types, NEW c \in Connections, CommitClick(c)
  PROVE  \/ Calm
         \/ tx[c].live # {} /\ Shows(c)
         \/ tx[c].live = {} /\ \E n \in Nat : Makes(c, n)
<1> DEFINE t == tx[c]
           x == IF t.person = Nobody THEN NextBorn ELSE t.person
<1>1. t \in ClickRequests
  BY RequestKinds DEF CommitClick, At
<1>2. UNCHANGED invitations \/ invitations' = Invited(t, x)
  BY DEF CommitClick, data
<1> HIDE DEF x
<1>3. CASE invitations' = Invited(t, x) /\ t.live # {}
  <2>1. /\ DOMAIN invitations' = DOMAIN invitations
        /\ \A i \in DOMAIN invitations :
              invitations'[i] =
                  IF i \in t.live
                  THEN [invitations[i] EXCEPT !.suppressed = @ /\ t.silent, !.outcome = Listed(i, x)]
                  ELSE invitations[i]
    BY <1>3 DEF Invited
  <2>2. ASSUME NEW i \in DOMAIN invitations
        PROVE  /\ Stays(i) /\ invitations'[i].status = invitations[i].status
               /\ invitations'[i].suppressed =
                     IF i \in tx[c].live THEN invitations[i].suppressed /\ tx[c].silent
                     ELSE invitations[i].suppressed
    <3>1. invitations[i] \in Invitation
      BY InvitationsOf
    <3>2. CASE i \in t.live
      <4> DEFINE s == invitations[i].suppressed /\ t.silent
                 o == Listed(i, x)
                 w == [invitations[i] EXCEPT !.suppressed = s, !.outcome = o]
      <4>1. invitations'[i] = w
        BY <2>1, <3>2
      <4> HIDE DEF s, o
      <4>2. /\ w.program = invitations[i].program /\ w.line = invitations[i].line
            /\ w.created = invitations[i].created /\ w.status = invitations[i].status
            /\ w.suppressed = s
        BY <3>1 DEF Invitation
      <4> HIDE DEF w
      <4> QED BY <3>2, <4>1, <4>2 DEF Stays, s
    <3>3. CASE i \notin t.live
      <4>1. invitations'[i] = invitations[i]
        BY <2>1, <3>3
      <4> QED BY <3>3, <4>1 DEF Stays
    <3> QED BY <3>2, <3>3
  <2> QED BY <1>3, <2>1, <2>2 DEF Shows
<1>4. CASE invitations' = Invited(t, x) /\ t.live = {}
  <2> DEFINE closed == Closed(t.rows, "EXPIRED")
             o == [d \in {x} |-> "NONE"]
             new == [program |-> t.program, line |-> t.line, status |-> "PENDING",
                     suppressed |-> t.silent, created |-> t.now, outcome |-> o]
             n == Len(invitations) + 1
  <2>1. invitations' = Append(closed, new)
    BY <1>4 DEF Invited
  <2>2. /\ DOMAIN closed = DOMAIN invitations
        /\ \A i \in DOMAIN invitations :
              closed[i] = IF i \in t.rows THEN [invitations[i] EXCEPT !.status = "EXPIRED"]
                          ELSE invitations[i]
    BY DEF Closed
  <2>3. /\ new.program = t.program /\ new.line = t.line /\ new.created = t.now
        /\ new.suppressed = t.silent
    OBVIOUS
  <2>4. ASSUME NEW i \in DOMAIN invitations
        PROVE  /\ closed[i] \in Invitation /\ closed[i].program = invitations[i].program
               /\ closed[i].line = invitations[i].line
               /\ closed[i].created = invitations[i].created
               /\ closed[i].suppressed = invitations[i].suppressed
               /\ closed[i].status = "PENDING" => invitations[i].status = "PENDING"
               /\ i \in t.rows => closed[i].status # "PENDING"
    <3>1. invitations[i] \in Invitation
      BY InvitationsOf
    <3>2. CASE i \in t.rows
      <4>1. closed[i] = [invitations[i] EXCEPT !.status = "EXPIRED"]
        BY <2>2, <3>2
      <4> HIDE DEF closed
      <4> QED BY <3>1, <4>1 DEF Invitation
    <3>3. CASE i \notin t.rows
      <4>1. closed[i] = invitations[i]
        BY <2>2, <3>3
      <4> HIDE DEF closed
      <4> QED BY <3>1, <3>3, <4>1
    <3> QED BY <3>2, <3>3
  <2> HIDE DEF closed
  <2>5. closed \in Seq(Invitation) /\ Len(closed) = Len(invitations)
    <3>1. closed \in [1..Len(invitations) -> Invitation]
      <4>1. closed = [i \in DOMAIN invitations |-> closed[i]]
        BY DEF closed, Closed
      <4> QED BY <2>2, <2>4, <4>1, InvitationsOf
    <3>2. closed \in Seq(Invitation)
      BY <3>1, InvitationsOf, SeqDef
    <3> QED BY <3>1, <3>2, InvitationsOf, LenProperties
  <2>6. new \in Invitation
    <3>1. x \in People
      BY <1>1, NextBornType DEF ClickRequests, People, x
    <3>2. o \in [{x} -> Verdicts] /\ {x} \in SUBSET People
      BY <3>1 DEF Verdicts
    <3>3. o \in Outcomes
      BY <3>2 DEF Outcomes
    <3> HIDE DEF o
    <3> QED BY <1>1, <3>3 DEF Invitation, ClickRequests
  <2> HIDE DEF new
  <2>7. /\ DOMAIN invitations' = 1..n
        /\ \A i \in 1..Len(invitations) : invitations'[i] = closed[i]
        /\ invitations'[n] = new
    <3>1. /\ invitations' \in Seq(Invitation) /\ Len(invitations') = Len(closed) + 1
          /\ \A i \in 1..Len(closed) : invitations'[i] = closed[i]
          /\ invitations'[Len(closed) + 1] = new
      BY <2>1, <2>5, <2>6, AppendProperties
    <3>2. DOMAIN invitations' = 1..Len(invitations')
      BY <3>1, LenProperties
    <3> QED BY <2>5, <3>1, <3>2
  <2>8. /\ n \in Nat /\ n \notin DOMAIN invitations /\ 1..n = DOMAIN invitations \cup {n}
        /\ DOMAIN invitations = 1..Len(invitations)
    BY InvitationsOf
  <2> HIDE DEF n
  <2>9. Makes(c, n)
    BY <2>3, <2>4, <2>7, <2>8 DEF Makes, Stays
  <2> QED BY <1>4, <2>8, <2>9
<1> QED
  BY <1>2, <1>3, <1>4, CalmWhenUnchanged

LEMMA StatementIsCalm ==
  ASSUME Types, NEW c \in Connections, Statement(c), ~CommitClick(c)
  PROVE  Calm
<1>1. CASE Insert(c) \/ ReferenceLock(c) \/ TakeInvitation(c) \/ TakeGrant(c) \/ AcceptInvitation(c)
  <2>1. UNCHANGED invitations
    BY <1>1 DEF Insert, ReferenceLock, TakeInvitation, TakeGrant, AcceptInvitation, Proceed, data
  <2> QED BY <2>1, CalmWhenUnchanged
<1>2. CASE RefuseAtCap(c) \/ DeclineInvitation(c)
  BY <1>2, CalmWhenClosed DEF RefuseAtCap, DeclineInvitation
<1>3. CASE Dismiss(c)
  <2>1. UNCHANGED invitations \/ invitations' = Closed({tx[c].invitation}, "EXPIRED")
    BY <1>3 DEF Dismiss
  <2> QED BY <2>1, CalmWhenUnchanged, CalmWhenClosed
<1> QED
  BY <1>1, <1>2, <1>3, CommitAcceptIsCalm DEF Statement

\* What a request becomes, as the lines see it.
StaysIn(c) ==
    /\ InLine(c) /\ InLine(c)'
    /\ tx'[c].program = tx[c].program /\ tx'[c].line = tx[c].line /\ tx'[c].now = tx[c].now
    /\ tx'[c].rows = tx[c].rows /\ tx'[c].live = tx[c].live /\ tx'[c].silent = tx[c].silent

Enters(c) ==
    /\ TakeInvitation(c) /\ tx[c] \in ClickRequests
    /\ tx[c].op = "click" /\ ~InLine(c) /\ InLine(c)'
    /\ tx'[c].program = tx[c].program /\ tx'[c].line = tx[c].line /\ tx'[c].now = tx[c].now
    /\ tx'[c].rows = Existing(c) /\ tx'[c].live = Live(c) /\ tx'[c].silent = Silent(c)

LEMMA TakeInvitationEnters ==
  ASSUME Types, NEW c \in Connections, TakeInvitation(c)
  PROVE  Enters(c)
<1> DEFINE rows == Existing(c)
           live == Live(c)
           silent == Silent(c)
           t == [tx[c] EXCEPT !.step = "grant", !.rows = rows, !.live = live, !.silent = silent]
<1>1. tx[c] \in ClickRequests /\ tx[c].step = "line"
  BY RequestKinds DEF TakeInvitation, LineLock, At
<1>2. tx' = [tx EXCEPT ![c] = t]
  BY DEF TakeInvitation, Proceed
<1> HIDE DEF rows, live, silent
<1>3. /\ t.op = "click" /\ t.step = "grant" /\ t.program = tx[c].program /\ t.line = tx[c].line
      /\ t.now = tx[c].now /\ t.rows = rows /\ t.live = live /\ t.silent = silent
  BY <1>1 DEF ClickRequests
<1> HIDE DEF t
<1>4. tx'[c] = t
  BY <1>2 DEF Types
<1> QED
  BY <1>1, <1>3, <1>4 DEF Enters, InLine, ClickRequests, rows, live, silent

LEMMA TakeGrantStaysIn ==
  ASSUME Types, NEW c \in Connections, TakeGrant(c), tx'[c] # Idle
  PROVE  StaysIn(c)
<1> DEFINE x == tx[c].person
           p == tx[c].program
           opens == x = Nobody \/ ~(IsActive(x, p) \/ ClosedByFamily(x, p))
           t == [tx[c] EXCEPT !.step = "commit", !.opens = opens]
<1>1. tx[c] \in ClickRequests /\ tx[c].step = "grant"
  BY RequestKinds DEF TakeGrant, At
<1>2. tx' = [tx EXCEPT ![c] = Idle] \/ tx' = [tx EXCEPT ![c] = t]
  BY DEF TakeGrant, Proceed
<1> HIDE DEF opens
<1>3. /\ t.op = "click" /\ t.step = "commit" /\ t.program = tx[c].program /\ t.line = tx[c].line
      /\ t.now = tx[c].now /\ t.rows = tx[c].rows /\ t.live = tx[c].live /\ t.silent = tx[c].silent
  BY <1>1 DEF ClickRequests
<1> HIDE DEF t
<1>4. tx'[c] = t
  BY <1>2 DEF Types
<1> QED
  BY <1>1, <1>3, <1>4 DEF StaysIn, InLine, ClickRequests

LEMMA StatementInLine ==
  ASSUME Types, NEW c \in Connections, Statement(c)
  PROVE  ~InLine(c)' \/ StaysIn(c) \/ Enters(c)
<1>1. CASE tx'[c] = Idle
  BY <1>1 DEF InLine, Idle
<1>2. CASE Insert(c) \/ RefuseAtCap(c) \/ CommitClick(c) \/ Dismiss(c) \/ DeclineInvitation(c)
           \/ CommitAccept(c)
  BY <1>1, <1>2, EndsType DEF Insert, RefuseAtCap, CommitClick, Dismiss, DeclineInvitation,
     CommitAccept, End, Ends
<1>3. CASE ReferenceLock(c)
  BY <1>3, ReferenceLockType DEF InLine
<1>4. CASE TakeGrant(c)
  BY <1>1, <1>4, TakeGrantStaysIn
<1>5. CASE AcceptInvitation(c)
  BY <1>5, AcceptInvitationType DEF InLine
<1> QED
  BY <1>2, <1>3, <1>4, <1>5, TakeInvitationEnters DEF Statement

\* Every step is one of these.
Still == Calm /\ UNCHANGED tx

OneMoves(c) ==
    /\ \A d \in Connections \ {c} : tx'[d] = tx[d]
    /\ \/ Calm /\ (~InLine(c)' \/ StaysIn(c) \/ Enters(c))
       \/ ~InLine(c)' /\ InLine(c) /\ tx[c].live # {} /\ Shows(c)
       \/ ~InLine(c)' /\ InLine(c) /\ tx[c].live = {} /\ \E n \in Nat : Makes(c, n)

LEMMA StepInLine ==
  ASSUME Types, [Next]_vars
  PROVE  Still \/ \E c \in Connections : OneMoves(c)
<1>1. ASSUME NEW c \in Connections, Asks(c) PROVE OneMoves(c)
  <2>1. tx'[c].step \in {"insert", "reference", "begin"}
    BY <1>1, InsertionType, ClickType, AnswerType DEF Asks, Insertions
  <2>2. UNCHANGED invitations
    BY <1>1, AsksType DEF data
  <2> QED BY <1>1, <2>1, <2>2, AsksType, CalmWhenUnchanged DEF OneMoves, InLine
<1>2. ASSUME NEW c \in Connections, CommitClick(c) PROVE OneMoves(c)
  <2>1. tx[c] \in ClickRequests /\ tx[c].step = "commit" /\ tx'[c] = Idle
    BY <1>2, CommitClickWrites
  <2>2. InLine(c) /\ ~InLine(c)'
    BY <2>1 DEF InLine, ClickRequests, Idle
  <2> QED BY <1>2, <2>2, CommitClickWritesRows, StatementType DEF OneMoves, Statement
<1>3. ASSUME NEW c \in Connections, Statement(c), ~CommitClick(c) PROVE OneMoves(c)
  BY <1>3, StatementInLine, StatementIsCalm, StatementType DEF OneMoves
<1>4. CASE Quiet
  BY <1>4, CalmWhenUnchanged DEF Quiet, Still
<1> QED
  BY <1>1, <1>2, <1>3, <1>4, ProgramsSteps, OutsideIsQuiet

\* Time does not go back, and no click began later than it is.
LEMMA NowStep ==
  ASSUME Types, LineInv, [Next]_vars
  PROVE  /\ clock' \in Nat /\ clock <= clock'
         /\ \A c \in Connections : tx'[c].op = "click" => tx'[c].now <= clock'
<1>1. clock' \in Nat /\ clock \in Nat /\ clock <= clock'
  <2>1. ASSUME NEW c \in Connections, Asks(c) \/ Statement(c) PROVE clock' = clock
    BY <2>1, AsksType, StatementType
  <2>2. ASSUME ~Pass, Withdrawal \/ Outside \/ Rest \/ UNCHANGED vars PROVE clock' = clock
    BY <2>2 DEF Withdrawal, Deactivate, RevokeForKnownPerson, Revoke, Outside, ComeOfAge,
       Emancipate, EraseDependent, Meet, RotateReferenceKey, RetireReferenceKey, Rest, vars
  <2>3. clock \in Nat
    BY DEF Types
  <2>4. clock' = clock \/ clock' = clock + 1
    BY <2>1, <2>2, ProgramsSteps DEF Pass
  <2> QED BY <2>3, <2>4
<1>2. ASSUME NEW c \in Connections, tx'[c].op = "click"
      PROVE  tx'[c].now \in Nat /\ tx'[c].now <= clock
  <2>1. CASE tx'[c] = tx[c]
    BY <1>2, <2>1, RequestKinds DEF LineInv, ClickRequests
  <2>2. CASE Asks(c)
    <3>1. PICK p \in Granted, r \in References, l \in Lines : OpenDependentAccess(c, p, r, l)
      BY <1>2, <2>2, InsertionType, AnswerType DEF Asks, Insertions, Answers
    <3>2. tx'[c].now = clock
      <4> DEFINE t == [op |-> "click", step |-> "reference", program |-> p, reference |-> r,
                       line |-> l, now |-> clock, key |-> activeKey, closed |-> ClosedRows(p),
                       person |-> Nobody, rows |-> {}, live |-> {}, silent |-> FALSE,
                       opens |-> FALSE]
      <4>1. tx' = [tx EXCEPT ![c] = t]
        BY <3>1 DEF OpenDependentAccess, Begin
      <4>2. t.now = clock
        OBVIOUS
      <4> HIDE DEF t
      <4>3. tx'[c] = t
        BY <4>1 DEF Types
      <4> QED BY <4>2, <4>3
    <3> QED BY <1>1, <3>2
  <2>3. CASE Statement(c)
    <3>1. CASE ReferenceLock(c)
      <4> DEFINE known == LookUp(tx[c].program, tx[c].reference, tx[c].key)
                 x == IF known = {} THEN Nobody ELSE CHOOSE y \in known : TRUE
                 t == [tx[c] EXCEPT !.step = "line", !.person = x]
      <4>1. tx' = [tx EXCEPT ![c] = t] /\ tx[c] \in ClickRequests
        BY <3>1, RequestKinds DEF ReferenceLock, Proceed, At
      <4> HIDE DEF x
      <4>2. t.now = tx[c].now /\ tx[c].now \in Nat /\ tx[c].op = "click"
        BY <4>1 DEF ClickRequests
      <4> HIDE DEF t
      <4> QED BY <4>1, <4>2 DEF Types, LineInv
    <3>2. CASE TakeInvitation(c)
      BY <3>2, TakeInvitationEnters DEF Enters, LineInv, ClickRequests
    <3>3. CASE TakeGrant(c)
      <4>1. StaysIn(c)
        BY <1>2, <3>3, TakeGrantStaysIn DEF Idle
      <4> QED BY <4>1, RequestKinds DEF StaysIn, InLine, LineInv, ClickRequests
    <3>4. CASE AcceptInvitation(c)
      BY <1>2, <3>4, AcceptInvitationType
    <3>5. CASE ~(ReferenceLock(c) \/ TakeInvitation(c) \/ TakeGrant(c) \/ AcceptInvitation(c))
      <4>1. tx'[c] = Idle
        BY <2>3, <3>5, EndsType DEF Statement, Insert, RefuseAtCap, CommitClick, Dismiss,
           DeclineInvitation, CommitAccept, End, Ends
      <4> QED BY <1>2, <4>1 DEF Idle
    <3> QED BY <3>1, <3>2, <3>3, <3>4, <3>5
  <2> QED BY <2>1, <2>2, <2>3, WhoMoves
<1> QED
  BY <1>1, <1>2

\* What is PENDING on a line after a step was so before, or has just been made.
LEMMA PendingStep ==
  ASSUME Types, LineInv, [Next]_vars, NEW p \in Granted, NEW l \in Lines
  PROVE  \/ Pending(p, l)' \subseteq Pending(p, l)
         \/ \E c \in Connections, n \in Nat :
               /\ ~InLine(c)' /\ InLine(c) /\ tx[c].program = p /\ tx[c].line = l
               /\ \A d \in Connections \ {c} : tx'[d] = tx[d]
               /\ Pending(p, l)' \subseteq {n}
<1>1. \A i : i \in Pending(p, l) <=>
          /\ i \in DOMAIN invitations /\ invitations[i].program = p /\ invitations[i].line = l
          /\ invitations[i].status = "PENDING"
  BY DEF Pending, OfProgram, OnLine
<1>2. \A i : i \in Pending(p, l)' <=>
          /\ i \in DOMAIN invitations' /\ invitations'[i].program = p /\ invitations'[i].line = l
          /\ invitations'[i].status = "PENDING"
  BY DEF Pending, OfProgram, OnLine
<1>3. ASSUME Calm PROVE Pending(p, l)' \subseteq Pending(p, l)
  BY <1>1, <1>2, <1>3 DEF Calm, Stays
<1>4. ASSUME NEW c \in Connections, Shows(c) PROVE Pending(p, l)' \subseteq Pending(p, l)
  BY <1>1, <1>2, <1>4 DEF Shows, Stays
<1>5. ASSUME NEW c \in Connections, NEW n \in Nat, Makes(c, n), InLine(c)
      PROVE  \/ Pending(p, l)' \subseteq Pending(p, l)
             \/ tx[c].program = p /\ tx[c].line = l /\ Pending(p, l)' \subseteq {n}
  <2>1. CASE tx[c].program = p /\ tx[c].line = l
    <3>1. tx[c].rows = Pending(p, l)
      BY <1>5, <2>1 DEF LineInv, Existing
    <3>2. Pending(p, l)' \subseteq {n}
      BY <1>1, <1>2, <1>5, <3>1 DEF Makes, Stays
    <3> QED BY <2>1, <3>2
  <2>2. CASE ~(tx[c].program = p /\ tx[c].line = l)
    BY <1>1, <1>2, <1>5, <2>2 DEF Makes, Stays
  <2> QED BY <2>1, <2>2
<1> QED
  BY <1>3, <1>4, <1>5, StepInLine DEF Still, OneMoves

\* Who enters finds the line of the program free, and keeps what is PENDING on it.
LEMMA LineStep ==
  ASSUME Types, RowsInv, LineInv, [Next]_vars
  PROVE  LineInv'
<1> DEFINE Same(c, d) == tx[c].program = tx[d].program /\ tx[c].line = tx[d].line
<1>1. \A p \in Granted, l \in Lines : \A i, j \in Pending(p, l)' : i = j
  BY PendingStep DEF LineInv
<1>2. RowsInv' /\ Types'
  BY RowsStep, TypesStep
<1>3. \A i \in DOMAIN invitations : Stays(i)
  BY StepInLine DEF Still, OneMoves, Calm, Shows, Makes
<1>4. ASSUME NEW d \in Connections, InLine(d)'
      PROVE  /\ tx'[d].program = tx[d].program /\ tx'[d].line = tx[d].line
             /\ tx'[d].rows = Existing(d)
             /\ InLine(d) \/ Enters(d)
             /\ tx[d].program \in Granted /\ tx[d].line \in Lines
  <2>1. tx'[d] = tx[d] \/ StaysIn(d) \/ Enters(d)
    BY <1>4, StepInLine DEF Still, OneMoves
  <2>2. InLine(d) => tx[d] \in ClickRequests
    BY RequestKinds DEF InLine
  <2>3. tx[d] \in ClickRequests => tx[d].program \in Granted /\ tx[d].line \in Lines
    BY DEF ClickRequests
  <2> QED BY <1>4, <2>1, <2>2, <2>3 DEF InLine, StaysIn, Enters, LineInv
<1>5. ASSUME NEW d \in Connections, InLine(d)' PROVE tx'[d].rows = Existing(d)'
  <2>1. PICK p \in Granted, l \in Lines :
            /\ tx[d].program = p /\ tx[d].line = l
            /\ tx'[d].program = p /\ tx'[d].line = l /\ tx'[d].rows = Pending(p, l)
    BY <1>4, <1>5 DEF Existing
  <2>2. \A i : i \in Existing(d)' <=> i \in Pending(p, l)'
    BY <2>1 DEF Existing, Pending, OfProgram, OnLine
  <2>3. ASSUME NEW i \in Pending(p, l) PROVE i \in Existing(d)'
    <3>1. HeldBy(d, i)'
      BY <1>5, <2>1, <2>3 DEF HeldBy, InLine, Idle
    <3>2. i \in DOMAIN invitations' /\ invitations'[i].status = "PENDING"
      BY <1>2, <3>1 DEF RowsInv
    <3>3. /\ i \in DOMAIN invitations /\ invitations[i].program = p /\ invitations[i].line = l
      BY <2>3 DEF Pending, OfProgram, OnLine
    <3>4. invitations'[i].program = p /\ invitations'[i].line = l
      BY <1>3, <3>3 DEF Stays
    <3> QED BY <2>1, <3>2, <3>4 DEF Existing, Pending, OfProgram, OnLine
  <2>4. Pending(p, l)' \subseteq Pending(p, l)
    <3> SUFFICES ASSUME ~(Pending(p, l)' \subseteq Pending(p, l)) PROVE FALSE
      OBVIOUS
    <3>1. PICK c \in Connections : /\ ~InLine(c)' /\ InLine(c)
                                  /\ tx[c].program = p /\ tx[c].line = l
                                  /\ \A b \in Connections \ {c} : tx'[b] = tx[b]
      BY PendingStep
    <3>2. d # c /\ tx'[d] = tx[d]
      BY <1>5, <3>1
    <3>3. InLine(d)
      BY <1>5, <3>2 DEF InLine
    <3> QED BY <2>1, <3>1, <3>2, <3>3 DEF LineInv
  <2> QED BY <2>1, <2>2, <2>3, <2>4
<1>6. ASSUME NEW d \in Connections, NEW e \in Connections, InLine(d)', InLine(e)', Same(d, e)'
      PROVE  d = e
  <2>1. Same(d, e)
    BY <1>4, <1>6
  <2>2. CASE InLine(d) /\ InLine(e)
    BY <2>1, <2>2 DEF LineInv
  <2>3. ASSUME NEW c \in Connections, NEW b \in Connections, Enters(c), InLine(b), Same(b, c)
        PROVE  b = c
    <3>1. tx[b] \in ClickRequests /\ tx[b].op = "click" /\ tx[b].step \in {"grant", "commit"}
      BY <2>3, RequestKinds DEF InLine
    <3>2. b \in Clicks(tx[c].program)
      BY <2>3, <3>1 DEF Clicks
    <3>3. \A a \in Clicks(tx[c].program) \ {c} :
              tx[a].line = tx[c].line => tx[a].step \notin {"grant", "commit"}
      BY <2>3 DEF Enters, TakeInvitation, LineLock, Holds
    <3> QED BY <2>3, <3>1, <3>2, <3>3
  <2>4. CASE Enters(d) /\ Enters(e)
    BY <2>4, StepInLine DEF Still, OneMoves, Enters, InLine
  <2> QED BY <1>4, <1>6, <2>1, <2>2, <2>3, <2>4
<1>7. \A c \in Connections : tx'[c].op = "click" => tx'[c].now <= clock'
  BY NowStep
<1> QED
  BY <1>1, <1>5, <1>6, <1>7 DEF LineInv

-----------------------------------------------------------------------------
\* The caps.

\* The invitations of a program on some lines, in the window that ends at a time, and the
\* clicks that have been let through and will make one there.
RecentOn(p, L, t) ==
    {i \in DOMAIN invitations :
        /\ invitations[i].program = p /\ invitations[i].line \in L
        /\ invitations[i].created \in (t - ClientWindow + 1)..t}

ComingOn(p, L, t) ==
    {c \in Connections :
        /\ InLine(c) /\ tx[c].live = {} /\ tx[c].program = p /\ tx[c].line \in L
        /\ tx[c].now \in (t - ClientWindow + 1)..t}

\* The invitations a line shows now, and the clicks that will show one there.
Shown(l) == {i \in Created(OnLine(l), clock, LineWindow) : ~invitations[i].suppressed}

ToShow(l) ==
    {c \in Connections :
        /\ InLine(c) /\ tx[c].line = l /\ ~tx[c].silent
        /\ \A i \in tx[c].live : invitations[i].suppressed}

CapsInv ==
    /\ \A p \in Granted, t \in Nat :
          /\ Cardinality(RecentOn(p, Lines, t)) + Cardinality(ComingOn(p, Lines, t))
                 <= ClientCap + Cardinality(Connections) - 1
          /\ \A l \in Lines :
                Cardinality(RecentOn(p, {l}, t)) + Cardinality(ComingOn(p, {l}, t)) <= ClientCap
    /\ \A l \in Lines :
          Cardinality(Shown(l)) + Cardinality(ToShow(l)) <= LineCap + Cardinality(Connections) - 1

\* What is counted is finite: some of the invitations, some of the connections.
LEMMA SomeInvitations ==
  ASSUME Types, NEW R \in SUBSET DOMAIN invitations
  PROVE  IsFiniteSet(R) /\ Cardinality(R) \in Nat
<1>1. IsFiniteSet(DOMAIN invitations)
  BY InvitationsOf, FS_Interval
<1> QED
  BY <1>1, FS_Subset, FS_CardinalityType

LEMMA SomeConnections ==
  ASSUME NEW C \in SUBSET Connections
  PROVE  /\ IsFiniteSet(C) /\ Cardinality(C) \in Nat
         /\ Cardinality(C) <= Cardinality(Connections)
         /\ Cardinality(Connections) \in Nat \ {0}
<1>1. Cardinality(Connections) \in Nat /\ Cardinality(Connections) # 0
  BY PoolAssumption, FS_CardinalityType, FS_EmptySet
<1> QED
  BY <1>1, PoolAssumption, FS_Subset, FS_CardinalityType

\* Fewer of both are no more together; and one more of the one for one less of the other.
LEMMA FewerOfBoth ==
  ASSUME NEW A, NEW B, IsFiniteSet(A), IsFiniteSet(B), NEW R \in SUBSET A, NEW S \in SUBSET B
  PROVE  Cardinality(R) + Cardinality(S) <= Cardinality(A) + Cardinality(B)
<1>1. /\ Cardinality(R) <= Cardinality(A) /\ Cardinality(S) <= Cardinality(B)
      /\ Cardinality(A) \in Nat /\ Cardinality(B) \in Nat
      /\ Cardinality(R) \in Nat /\ Cardinality(S) \in Nat
  BY FS_Subset, FS_CardinalityType
<1> QED
  BY <1>1

LEMMA OneForOne ==
  ASSUME NEW A, NEW B, IsFiniteSet(A), IsFiniteSet(B), NEW x, NEW c \in B,
         NEW R \in SUBSET (A \cup {x}), NEW S \in SUBSET (B \ {c})
  PROVE  Cardinality(R) + Cardinality(S) <= Cardinality(A) + Cardinality(B)
<1>1. /\ IsFiniteSet(A \cup {x})
      /\ Cardinality(A \cup {x}) = IF x \in A THEN Cardinality(A) ELSE Cardinality(A) + 1
  BY FS_AddElement
<1>2. IsFiniteSet(B \ {c}) /\ Cardinality(B \ {c}) = Cardinality(B) - 1
  BY FS_RemoveElement
<1>3. Cardinality(A) \in Nat /\ Cardinality(B) \in Nat
  BY FS_CardinalityType
<1>4. Cardinality(R) + Cardinality(S) <= Cardinality(A \cup {x}) + Cardinality(B \ {c})
  BY <1>1, <1>2, FewerOfBoth
<1>5. Cardinality(A \cup {x}) <= Cardinality(A) + 1 /\ Cardinality(A \cup {x}) \in Nat
  BY <1>1, <1>3
<1>6. Cardinality(R) \in Nat /\ Cardinality(S) \in Nat
  BY <1>1, <1>2, FS_Subset, FS_CardinalityType
<1> QED
  BY <1>2, <1>3, <1>4, <1>5, <1>6

\* What a step does to the invitations of a program and to the clicks that will make some.
LEMMA RecentStep ==
  ASSUME Types, LineInv, [Next]_vars, NEW p \in Granted, NEW L \in SUBSET Lines, NEW t \in Nat
  PROVE  \/ /\ RecentOn(p, L, t)' \subseteq RecentOn(p, L, t)
            /\ ComingOn(p, L, t)' \subseteq ComingOn(p, L, t)
         \/ \E n \in Nat, c \in ComingOn(p, L, t) :
               /\ RecentOn(p, L, t)' \subseteq RecentOn(p, L, t) \cup {n}
               /\ ComingOn(p, L, t)' \subseteq ComingOn(p, L, t) \ {c}
         \/ \E c \in Connections :
               /\ RecentOn(p, L, t)' \subseteq RecentOn(p, L, t)
               /\ ComingOn(p, L, t)' \subseteq ComingOn(p, L, t) \cup {c}
               /\ Enters(c) /\ Live(c) = {} /\ tx[c].program = p /\ tx[c].line \in L
               /\ tx[c].now \in (t - ClientWindow + 1)..t
<1> DEFINE R == RecentOn(p, L, t)
           C == ComingOn(p, L, t)
           InWindow(x) == x \in (t - ClientWindow + 1)..t
<1>1. \A i : i \in R <=> /\ i \in DOMAIN invitations
                         /\ invitations[i].program = p /\ invitations[i].line \in L
                         /\ InWindow(invitations[i].created)
  BY DEF RecentOn
<1>2. \A i : i \in R' <=> /\ i \in DOMAIN invitations'
                          /\ invitations'[i].program = p /\ invitations'[i].line \in L
                          /\ InWindow(invitations'[i].created)
  BY DEF RecentOn
<1>3. \A c : c \in C <=> /\ c \in Connections /\ InLine(c) /\ tx[c].live = {}
                         /\ tx[c].program = p /\ tx[c].line \in L /\ InWindow(tx[c].now)
  BY DEF ComingOn
<1>4. \A c : c \in C' <=> /\ c \in Connections /\ InLine(c)' /\ tx'[c].live = {}
                          /\ tx'[c].program = p /\ tx'[c].line \in L /\ InWindow(tx'[c].now)
  BY DEF ComingOn
<1> HIDE DEF R, C, InWindow
<1>5. ASSUME Calm PROVE R' \subseteq R
  BY <1>1, <1>2, <1>5 DEF Calm, Stays
<1>6. ASSUME NEW c \in Connections, Shows(c) PROVE R' \subseteq R
  BY <1>1, <1>2, <1>6 DEF Shows, Stays
<1>7. ASSUME NEW c \in Connections, NEW n \in Nat, Makes(c, n), InLine(c), tx[c].live = {}
      PROVE  R' \subseteq R \/ (R' \subseteq R \cup {n} /\ c \in C)
  <2>1. R' \subseteq R \cup {n}
    BY <1>1, <1>2, <1>7 DEF Makes, Stays
  <2>2. n \in R' => c \in C
    BY <1>2, <1>3, <1>7 DEF Makes
  <2> QED BY <2>1, <2>2
<1>8. ASSUME NEW c \in Connections, \A d \in Connections \ {c} : tx'[d] = tx[d], ~InLine(c)'
      PROVE  C' \subseteq C \ {c}
  BY <1>3, <1>4, <1>8 DEF InLine
<1>9. ASSUME NEW c \in Connections, \A d \in Connections \ {c} : tx'[d] = tx[d], StaysIn(c)
      PROVE  C' \subseteq C
  BY <1>3, <1>4, <1>9 DEF InLine, StaysIn
<1>10. ASSUME NEW c \in Connections, \A d \in Connections \ {c} : tx'[d] = tx[d], Enters(c)
       PROVE  \/ C' \subseteq C
              \/ /\ C' \subseteq C \cup {c}
                 /\ Live(c) = {} /\ tx[c].program = p /\ tx[c].line \in L /\ InWindow(tx[c].now)
  <2>1. \A d \in Connections \ {c} : d \in C' => d \in C
    BY <1>3, <1>4, <1>10 DEF InLine
  <2>2. c \in C' => Live(c) = {} /\ tx[c].program = p /\ tx[c].line \in L /\ InWindow(tx[c].now)
    BY <1>4, <1>10 DEF Enters
  <2>3. C' \subseteq Connections
    BY <1>4
  <2> QED BY <2>1, <2>2, <2>3
<1>11. CASE Still
  <2>1. C' \subseteq C
    BY <1>3, <1>4, <1>11 DEF Still, InLine
  <2> QED BY <1>5, <1>11, <2>1 DEF Still, R, C
<1>12. ASSUME NEW c \in Connections, OneMoves(c)
       PROVE  \/ R' \subseteq R /\ C' \subseteq C
              \/ \E n \in Nat, d \in C : R' \subseteq R \cup {n} /\ C' \subseteq C \ {d}
              \/ \E d \in Connections :
                    /\ R' \subseteq R /\ C' \subseteq C \cup {d} /\ Enters(d) /\ Live(d) = {}
                    /\ tx[d].program = p /\ tx[d].line \in L /\ InWindow(tx[d].now)
  <2>1. CASE Calm /\ ~InLine(c)'
    BY <1>5, <1>8, <1>12, <2>1 DEF OneMoves
  <2>2. CASE Calm /\ StaysIn(c)
    BY <1>5, <1>9, <1>12, <2>2 DEF OneMoves
  <2>3. CASE Calm /\ Enters(c)
    BY <1>5, <1>10, <1>12, <2>3 DEF OneMoves
  <2>4. CASE Shows(c) /\ ~InLine(c)'
    BY <1>6, <1>8, <1>12, <2>4 DEF OneMoves
  <2>5. ASSUME NEW n \in Nat, Makes(c, n), InLine(c), tx[c].live = {}, ~InLine(c)'
        PROVE  \/ R' \subseteq R /\ C' \subseteq C
               \/ \E m \in Nat, d \in C : R' \subseteq R \cup {m} /\ C' \subseteq C \ {d}
    <3>1. C' \subseteq C \ {c}
      BY <1>8, <1>12, <2>5 DEF OneMoves
    <3>2. R' \subseteq R \/ (R' \subseteq R \cup {n} /\ c \in C)
      BY <1>7, <2>5
    <3> QED BY <3>1, <3>2
  <2> QED BY <1>12, <2>1, <2>2, <2>3, <2>4, <2>5 DEF OneMoves
<1> QED
  BY <1>11, <1>12, StepInLine DEF R, C, InWindow

\* What a step does to the invitations a line shows and to the clicks that will show one.
LEMMA ShownStep ==
  ASSUME Types, RowsInv, LineInv, [Next]_vars, NEW l \in Lines
  PROVE  \/ Shown(l)' \subseteq Shown(l) /\ ToShow(l)' \subseteq ToShow(l)
         \/ \E n \in Nat, c \in ToShow(l) :
               /\ Shown(l)' \subseteq Shown(l) \cup {n}
               /\ ToShow(l)' \subseteq ToShow(l) \ {c}
         \/ \E c \in Connections :
               /\ Shown(l)' \subseteq Shown(l)
               /\ ToShow(l)' \subseteq ToShow(l) \cup {c}
               /\ Enters(c) /\ tx[c].line = l /\ ~Silent(c)
               /\ \A i \in Live(c) : invitations[i].suppressed
<1> DEFINE S == Shown(l)
           C == ToShow(l)
<1>1. \A i : i \in S <=> /\ i \in DOMAIN invitations /\ invitations[i].line = l
                         /\ invitations[i].created + LineWindow > clock
                         /\ ~invitations[i].suppressed
  BY DEF Shown, Created, OnLine
<1>2. \A i : i \in S' <=> /\ i \in DOMAIN invitations' /\ invitations'[i].line = l
                          /\ invitations'[i].created + LineWindow > clock'
                          /\ ~invitations'[i].suppressed
  BY DEF Shown, Created, OnLine
<1>3. \A c : c \in C <=> /\ c \in Connections /\ InLine(c) /\ tx[c].line = l /\ ~tx[c].silent
                         /\ \A i \in tx[c].live : invitations[i].suppressed
  BY DEF ToShow
<1>4. \A c : c \in C' <=> /\ c \in Connections /\ InLine(c)' /\ tx'[c].line = l /\ ~tx'[c].silent
                          /\ \A i \in tx'[c].live : invitations'[i].suppressed
  BY DEF ToShow
<1> HIDE DEF S, C
<1>5. \A i \in DOMAIN invitations : invitations[i].created \in Nat
  BY InvitationsOf DEF Invitation
<1>6. clock \in Nat /\ clock' \in Nat /\ clock <= clock' /\ LineWindow \in Nat
  BY NowStep, ProgramsAssumption DEF ProgramsAssumption, Types
<1>7. \A i \in DOMAIN invitations :
          invitations[i].created + LineWindow > clock' => invitations[i].created + LineWindow > clock
  BY <1>5, <1>6
<1>8. \A c \in Connections : InLine(c) => tx[c].live \subseteq DOMAIN invitations
  BY DEF RowsInv, InLine, HeldBy, Idle
<1>9. \A i \in DOMAIN invitations : invitations'[i].suppressed => invitations[i].suppressed
  BY StepInLine DEF Still, OneMoves, Calm, Shows, Makes
<1>10. ASSUME Calm PROVE S' \subseteq S
  BY <1>1, <1>2, <1>7, <1>10 DEF Calm, Stays
<1>11. ASSUME NEW c \in Connections, Shows(c), InLine(c), tx[c].live # {}
       PROVE  S' \subseteq S \/ (c \in C /\ \E n \in Nat : S' \subseteq S \cup {n})
  <2>1. tx[c] \in ClickRequests /\ tx[c].live \subseteq Existing(c)
    BY <1>11, RequestKinds DEF RowsInv, LineInv, InLine
  <2>2. tx[c].program \in Granted /\ tx[c].line \in Lines /\ tx[c].live \subseteq Nat
    BY <2>1 DEF ClickRequests
  <2>3. PICK n \in Nat : tx[c].live = {n}
    BY <1>11, <2>1, <2>2 DEF LineInv, Existing
  <2>4. S' \subseteq S \cup {n}
    BY <1>1, <1>2, <1>7, <1>11, <2>3 DEF Shows, Stays
  <2>5. n \in S' /\ n \notin S => c \in C
    <3> SUFFICES ASSUME n \in S', n \notin S PROVE c \in C
      OBVIOUS
    <3>1. n \in DOMAIN invitations /\ invitations[n].line = tx[c].line
      BY <2>1, <2>3 DEF Existing, Pending, OfProgram, OnLine
    <3>2. invitations[n].line = l /\ invitations[n].created + LineWindow > clock
      BY <1>2, <1>7, <1>11, <3>1 DEF Shows, Stays
    <3>3. invitations[n].suppressed
      BY <1>1, <3>1, <3>2
    <3>4. ~tx[c].silent
      BY <1>2, <1>11, <2>3, <3>1, <3>3 DEF Shows
    <3> QED BY <1>3, <1>11, <2>3, <3>1, <3>2, <3>3, <3>4
  <2> QED BY <2>4, <2>5
<1>12. ASSUME NEW c \in Connections, NEW n \in Nat, Makes(c, n), InLine(c), tx[c].live = {}
       PROVE  S' \subseteq S \/ (S' \subseteq S \cup {n} /\ c \in C)
  <2>1. S' \subseteq S \cup {n}
    BY <1>1, <1>2, <1>7, <1>12 DEF Makes, Stays
  <2>2. n \in S' => c \in C
    BY <1>2, <1>3, <1>12 DEF Makes
  <2> QED BY <2>1, <2>2
<1>13. ASSUME NEW d \in Connections, d \in C', InLine(d),
              tx'[d].line = tx[d].line, tx'[d].silent = tx[d].silent, tx'[d].live = tx[d].live
       PROVE  d \in C
  <2>1. \A i \in tx[d].live : invitations'[i].suppressed /\ i \in DOMAIN invitations
    BY <1>4, <1>8, <1>13
  <2> QED BY <1>3, <1>4, <1>9, <1>13, <2>1
<1>14. ASSUME NEW c \in Connections, \A d \in Connections \ {c} : tx'[d] = tx[d]
       PROVE  C' \subseteq C \cup {c}
  <2> SUFFICES ASSUME NEW d \in C', d # c PROVE d \in C
    OBVIOUS
  <2>1. d \in Connections /\ InLine(d)'
    BY <1>4
  <2> QED BY <1>13, <1>14, <2>1 DEF InLine
<1>15. ASSUME NEW c \in Connections, OneMoves(c)
       PROVE  \/ S' \subseteq S /\ C' \subseteq C
              \/ \E n \in Nat, d \in C : S' \subseteq S \cup {n} /\ C' \subseteq C \ {d}
              \/ \E d \in Connections :
                    /\ S' \subseteq S /\ C' \subseteq C \cup {d} /\ Enters(d) /\ tx[d].line = l
                    /\ ~Silent(d) /\ \A i \in Live(d) : invitations[i].suppressed
  <2>1. C' \subseteq C \cup {c}
    BY <1>14, <1>15 DEF OneMoves
  <2>2. ~InLine(c)' => C' \subseteq C \ {c}
    BY <1>4, <2>1
  <2>3. CASE Calm /\ ~InLine(c)'
    BY <1>10, <2>2, <2>3
  <2>4. CASE Calm /\ StaysIn(c)
    <3>1. c \in C' => c \in C
      BY <1>13, <2>4 DEF StaysIn
    <3> QED BY <1>10, <2>1, <2>4, <3>1
  <2>5. CASE Calm /\ Enters(c)
    <3>1. S' \subseteq S
      BY <1>10, <2>5
    <3>2. CASE c \notin C'
      BY <2>1, <3>1, <3>2
    <3>3. CASE c \in C'
      <4>1. tx[c].line = l /\ ~Silent(c) /\ \A i \in Live(c) : invitations'[i].suppressed
        BY <1>4, <2>5, <3>3 DEF Enters
      <4>2. \A i \in Live(c) : i \in DOMAIN invitations
        BY DEF Live, Existing, Pending, OfProgram
      <4>3. \A i \in Live(c) : invitations[i].suppressed
        BY <1>9, <4>1, <4>2
      <4> QED BY <2>1, <2>5, <3>1, <4>1, <4>3
    <3> QED BY <3>2, <3>3
  <2>6. CASE ~InLine(c)' /\ InLine(c) /\ tx[c].live # {} /\ Shows(c)
    BY <1>11, <2>2, <2>6
  <2>7. CASE ~InLine(c)' /\ InLine(c) /\ tx[c].live = {} /\ \E n \in Nat : Makes(c, n)
    BY <1>12, <2>2, <2>7
  <2> QED BY <1>15, <2>3, <2>4, <2>5, <2>6, <2>7 DEF OneMoves
<1>16. CASE Still
  <2>1. C' \subseteq C
    <3> SUFFICES ASSUME NEW d \in C' PROVE d \in C
      OBVIOUS
    <3>1. d \in Connections /\ InLine(d)' /\ UNCHANGED tx
      BY <1>4, <1>16 DEF Still
    <3> QED BY <1>13, <3>1 DEF InLine
  <2> QED BY <1>10, <1>16, <2>1 DEF Still, S, C
<1> QED
  BY <1>15, <1>16, StepInLine DEF S, C

\* Who enters to make an invitation counted fewer than the cap of the program, and has its
\* line alone.
LEMMA EntersBelowTheCap ==
  ASSUME Types, LineInv, NEW c \in Connections, Enters(c), Live(c) = {},
         NEW p \in Granted, tx[c].program = p, NEW L, NEW t \in Nat,
         tx[c].now \in (t - ClientWindow + 1)..t
  PROVE  Cardinality(RecentOn(p, L, t)) < ClientCap
<1> DEFINE counted == Created(OfProgram(p), tx[c].now, ClientWindow)
<1>1. Cardinality(counted) \in Nat /\ ~(Cardinality(counted) >= ClientCap)
  <2>1. ~ClientAtCap(tx[c].program, tx[c].now)
    BY DEF Enters, TakeInvitation
  <2>2. counted \in SUBSET DOMAIN invitations
    BY DEF Created, OfProgram
  <2>3. Cardinality(counted) \in Nat
    BY <2>2, SomeInvitations
  <2> QED BY <2>1, <2>3 DEF ClientAtCap, AtCap
<1>2. RecentOn(p, L, t) \subseteq counted
  <2> SUFFICES ASSUME NEW i \in RecentOn(p, L, t) PROVE i \in counted
    OBVIOUS
  <2>1. /\ i \in OfProgram(p) /\ i \in DOMAIN invitations
        /\ invitations[i].created \in (t - ClientWindow + 1)..t
    BY DEF RecentOn, OfProgram
  <2>2. invitations[i].created \in Nat /\ tx[c].now \in Nat /\ ClientWindow \in Nat
    BY <2>1, InvitationsOf, ProgramsAssumption DEF Invitation, Enters, ClickRequests,
       ProgramsAssumption
  <2>3. invitations[i].created + ClientWindow > tx[c].now
    BY <2>1, <2>2
  <2> QED BY <2>1, <2>3 DEF Created
<1>3. counted \in SUBSET DOMAIN invitations
  BY DEF Created, OfProgram
<1> HIDE DEF counted
<1>4. IsFiniteSet(counted)
  BY <1>3, SomeInvitations
<1>5. Cardinality(RecentOn(p, L, t)) <= Cardinality(counted) /\ Cardinality(RecentOn(p, L, t)) \in Nat
  BY <1>2, <1>4, FS_Subset, FS_CardinalityType
<1> QED
  BY <1>1, <1>5, ProgramsAssumption DEF ProgramsAssumption

LEMMA EntersAlone ==
  ASSUME Types, NEW c \in Connections, Enters(c), NEW p, NEW l, NEW t,
         tx[c].program = p, tx[c].line = l
  PROVE  ComingOn(p, {l}, t) = {}
<1>1. \A d \in Clicks(p) \ {c} : tx[d].line = l => tx[d].step \notin {"grant", "commit"}
  BY DEF Enters, TakeInvitation, LineLock, Holds
<1>2. \A d \in ComingOn(p, {l}, t) :
          d \in Clicks(p) /\ d # c /\ tx[d].line = l /\ tx[d].step \in {"grant", "commit"}
  BY DEF ComingOn, InLine, Enters, Clicks
<1> QED
  BY <1>1, <1>2

\* Who enters to show an invitation counted fewer than the cap of the line.
LEMMA EntersBelowTheLine ==
  ASSUME Types, LineInv, NEW c \in Connections, Enters(c), NEW l \in Lines, tx[c].line = l,
         ~Silent(c), \A i \in Live(c) : invitations[i].suppressed
  PROVE  Cardinality(Shown(l)) < LineCap
<1>1. PICK but \in SUBSET DOMAIN invitations :
          ~LineAtCap(l, but, tx[c].now) /\ \A i \in but : invitations[i].suppressed
  <2>1. CASE Live(c) = {}
    BY <2>1 DEF Silent
  <2>2. CASE Live(c) # {}
    <3>1. PICK i \in Live(c) : TRUE
      BY <2>2
    <3>2. i \in DOMAIN invitations
      BY DEF Live, Existing, Pending, OfProgram
    <3>3. ~LineAtCap(l, {i}, tx[c].now) /\ invitations[i].suppressed
      BY <2>2 DEF Silent
    <3>4. {i} \in SUBSET DOMAIN invitations
      BY <3>2
    <3> QED BY <3>3, <3>4
  <2> QED BY <2>1, <2>2
<1> DEFINE counted == Created(OnLine(l) \ but, tx[c].now, LineWindow)
<1>2. counted \in SUBSET DOMAIN invitations
  BY DEF Created, OnLine
<1>3. ~(Cardinality(counted) >= LineCap)
  BY <1>1 DEF LineAtCap
<1>4. Shown(l) \subseteq counted
  <2> SUFFICES ASSUME NEW i \in Shown(l) PROVE i \in counted
    OBVIOUS
  <2>1. /\ i \in OnLine(l) /\ i \in DOMAIN invitations /\ ~invitations[i].suppressed
        /\ invitations[i].created + LineWindow > clock
    BY DEF Shown, Created, OnLine
  <2>2. /\ invitations[i].created \in Nat /\ tx[c].now \in Nat /\ LineWindow \in Nat
        /\ clock \in Nat /\ tx[c].now <= clock
    BY <2>1, InvitationsOf, ProgramsAssumption DEF Invitation, Enters, ClickRequests,
       ProgramsAssumption, Types, LineInv
  <2>3. invitations[i].created + LineWindow > tx[c].now
    BY <2>1, <2>2
  <2> QED BY <1>1, <2>1, <2>3 DEF Created
<1> HIDE DEF counted
<1>5. IsFiniteSet(counted) /\ Cardinality(counted) \in Nat
  BY <1>2, SomeInvitations
<1>6. Cardinality(Shown(l)) <= Cardinality(counted) /\ Cardinality(Shown(l)) \in Nat
  BY <1>4, <1>5, FS_Subset, FS_CardinalityType
<1> QED
  BY <1>3, <1>5, <1>6, ProgramsAssumption DEF ProgramsAssumption

LEMMA CountsFinite ==
  ASSUME Types, NEW p, NEW L, NEW t, NEW l
  PROVE  /\ RecentOn(p, L, t) \in SUBSET DOMAIN invitations
         /\ Shown(l) \in SUBSET DOMAIN invitations
         /\ ComingOn(p, L, t) \in SUBSET Connections /\ ToShow(l) \in SUBSET Connections
         /\ IsFiniteSet(RecentOn(p, L, t)) /\ IsFiniteSet(ComingOn(p, L, t))
         /\ IsFiniteSet(Shown(l)) /\ IsFiniteSet(ToShow(l))
         /\ Cardinality(RecentOn(p, L, t)) \in Nat /\ Cardinality(ComingOn(p, L, t)) \in Nat
         /\ Cardinality(Shown(l)) \in Nat /\ Cardinality(ToShow(l)) \in Nat
<1>1. RecentOn(p, L, t) \in SUBSET DOMAIN invitations /\ Shown(l) \in SUBSET DOMAIN invitations
  BY DEF RecentOn, Shown, Created, OnLine
<1>2. ComingOn(p, L, t) \in SUBSET Connections /\ ToShow(l) \in SUBSET Connections
  BY DEF ComingOn, ToShow
<1> QED
  BY <1>1, <1>2, SomeInvitations, SomeConnections

\* A bound on two counts, kept by fewer of both and by one for one.
LEMMA BoundKept ==
  ASSUME NEW A, NEW B, IsFiniteSet(A), IsFiniteSet(B), NEW K \in Int,
         Cardinality(A) + Cardinality(B) <= K, NEW R, NEW S,
         \/ R \subseteq A /\ S \subseteq B
         \/ \E n \in Nat, c \in B : R \subseteq A \cup {n} /\ S \subseteq B \ {c}
  PROVE  Cardinality(R) + Cardinality(S) <= K
<1>1. Cardinality(R) + Cardinality(S) <= Cardinality(A) + Cardinality(B)
  <2>1. CASE R \subseteq A /\ S \subseteq B
    BY <2>1, FewerOfBoth
  <2>2. CASE \E n \in Nat, c \in B : R \subseteq A \cup {n} /\ S \subseteq B \ {c}
    BY <2>2, OneForOne
  <2> QED BY <2>1, <2>2
<1>2. IsFiniteSet(R) /\ IsFiniteSet(S)
  <2>1. \A n : IsFiniteSet(A \cup {n})
    BY FS_AddElement
  <2>2. S \subseteq B /\ \E n : R \subseteq A \cup {n}
    OBVIOUS
  <2> QED BY <2>1, <2>2, FS_Subset
<1>3. /\ Cardinality(A) \in Nat /\ Cardinality(B) \in Nat
      /\ Cardinality(R) \in Nat /\ Cardinality(S) \in Nat
  BY <1>2, FS_CardinalityType
<1> QED
  BY <1>1, <1>3

LEMMA ProgramCapStep ==
  ASSUME Types, RowsInv, LineInv, CapsInv, [Next]_vars, NEW p \in Granted, NEW t \in Nat
  PROVE  Cardinality(RecentOn(p, Lines, t)') + Cardinality(ComingOn(p, Lines, t)')
             <= ClientCap + Cardinality(Connections) - 1
<1> DEFINE A == RecentOn(p, Lines, t)
           B == ComingOn(p, Lines, t)
           K == ClientCap + Cardinality(Connections) - 1
<1>1. /\ IsFiniteSet(A) /\ IsFiniteSet(B) /\ Cardinality(A) + Cardinality(B) <= K
      /\ Cardinality(A) \in Nat
  BY CountsFinite DEF CapsInv
<1>2. Cardinality(Connections) \in Nat \ {0} /\ ClientCap \in Nat /\ K \in Int
  BY SomeConnections, ProgramsAssumption DEF ProgramsAssumption
<1>3. ASSUME NEW c \in Connections, A' \subseteq A, Enters(c), Live(c) = {}, tx[c].program = p,
             tx[c].now \in (t - ClientWindow + 1)..t
      PROVE  Cardinality(A') + Cardinality(B') <= K
  <2>1. Cardinality(A) < ClientCap
    BY <1>3, EntersBelowTheCap
  <2>2. B' \in SUBSET Connections
    BY DEF ComingOn
  <2> HIDE DEF A, B
  <2>3. Cardinality(A') \in Nat /\ Cardinality(A') <= Cardinality(A)
    BY <1>1, <1>3, FS_Subset, FS_CardinalityType
  <2>4. Cardinality(B') \in Nat /\ Cardinality(B') <= Cardinality(Connections)
    BY <2>2, SomeConnections
  <2> QED BY <1>1, <1>2, <2>1, <2>3, <2>4
<1>4. \/ A' \subseteq A /\ B' \subseteq B
      \/ \E n \in Nat, c \in B : A' \subseteq A \cup {n} /\ B' \subseteq B \ {c}
      \/ \E c \in Connections :
            /\ A' \subseteq A /\ Enters(c) /\ Live(c) = {} /\ tx[c].program = p
            /\ tx[c].now \in (t - ClientWindow + 1)..t
  BY RecentStep
<1> HIDE DEF A, B, K
<1>5. Cardinality(A') + Cardinality(B') <= K
  BY <1>1, <1>2, <1>3, <1>4, BoundKept
<1> QED
  BY <1>5 DEF A, B, K

LEMMA ProgramCapOnALine ==
  ASSUME Types, RowsInv, LineInv, CapsInv, [Next]_vars, NEW p \in Granted, NEW t \in Nat,
         NEW l \in Lines
  PROVE  Cardinality(RecentOn(p, {l}, t)') + Cardinality(ComingOn(p, {l}, t)') <= ClientCap
<1> DEFINE A == RecentOn(p, {l}, t)
           B == ComingOn(p, {l}, t)
<1>1. /\ IsFiniteSet(A) /\ IsFiniteSet(B) /\ Cardinality(A) + Cardinality(B) <= ClientCap
      /\ Cardinality(A) \in Nat
  BY CountsFinite DEF CapsInv
<1>2. ClientCap \in Nat
  BY ProgramsAssumption DEF ProgramsAssumption
<1>3. ASSUME NEW c \in Connections, A' \subseteq A, B' \subseteq B \cup {c}, Enters(c),
             Live(c) = {}, tx[c].program = p, tx[c].line \in {l},
             tx[c].now \in (t - ClientWindow + 1)..t
      PROVE  Cardinality(A') + Cardinality(B') <= ClientCap
  <2>1. Cardinality(A) < ClientCap
    BY <1>3, EntersBelowTheCap
  <2>2. B = {}
    BY <1>3, EntersAlone
  <2> HIDE DEF A, B
  <2>3. Cardinality(A') \in Nat /\ Cardinality(A') <= Cardinality(A)
    BY <1>1, <1>3, FS_Subset, FS_CardinalityType
  <2>4. Cardinality(B') \in Nat /\ Cardinality(B') <= 1
    <3>1. B' \subseteq {c}
      BY <1>3, <2>2
    <3>2. IsFiniteSet({c}) /\ Cardinality({c}) = 1
      BY FS_Singleton
    <3> QED BY <3>1, <3>2, FS_Subset, FS_CardinalityType
  <2> QED BY <1>1, <1>2, <2>1, <2>3, <2>4
<1>4. \/ A' \subseteq A /\ B' \subseteq B
      \/ \E n \in Nat, c \in B : A' \subseteq A \cup {n} /\ B' \subseteq B \ {c}
      \/ \E c \in Connections :
            /\ A' \subseteq A /\ B' \subseteq B \cup {c}
            /\ Enters(c) /\ Live(c) = {} /\ tx[c].program = p
            /\ tx[c].line \in {l} /\ tx[c].now \in (t - ClientWindow + 1)..t
  <2>1. {l} \in SUBSET Lines
    OBVIOUS
  <2> QED BY <2>1, RecentStep
<1> HIDE DEF A, B
<1>5. Cardinality(A') + Cardinality(B') <= ClientCap
  BY <1>1, <1>2, <1>3, <1>4, BoundKept
<1> QED
  BY <1>5 DEF A, B

LEMMA LineCapStep ==
  ASSUME Types, RowsInv, LineInv, CapsInv, [Next]_vars, NEW l \in Lines
  PROVE  Cardinality(Shown(l)') + Cardinality(ToShow(l)') <= LineCap + Cardinality(Connections) - 1
<1> DEFINE A == Shown(l)
           B == ToShow(l)
           K == LineCap + Cardinality(Connections) - 1
<1>1. /\ IsFiniteSet(A) /\ IsFiniteSet(B) /\ Cardinality(A) + Cardinality(B) <= K
      /\ Cardinality(A) \in Nat
  BY CountsFinite DEF CapsInv
<1>2. Cardinality(Connections) \in Nat \ {0} /\ LineCap \in Nat /\ K \in Int
  BY SomeConnections, ProgramsAssumption DEF ProgramsAssumption
<1>3. ASSUME NEW c \in Connections, A' \subseteq A, Enters(c), tx[c].line = l, ~Silent(c),
             \A i \in Live(c) : invitations[i].suppressed
      PROVE  Cardinality(A') + Cardinality(B') <= K
  <2>1. Cardinality(A) < LineCap
    BY <1>3, EntersBelowTheLine
  <2>2. B' \in SUBSET Connections
    BY DEF ToShow
  <2> HIDE DEF A, B
  <2>3. Cardinality(A') \in Nat /\ Cardinality(A') <= Cardinality(A)
    BY <1>1, <1>3, FS_Subset, FS_CardinalityType
  <2>4. Cardinality(B') \in Nat /\ Cardinality(B') <= Cardinality(Connections)
    BY <2>2, SomeConnections
  <2> QED BY <1>1, <1>2, <2>1, <2>3, <2>4
<1>4. \/ A' \subseteq A /\ B' \subseteq B
      \/ \E n \in Nat, c \in B : A' \subseteq A \cup {n} /\ B' \subseteq B \ {c}
      \/ \E c \in Connections :
            /\ A' \subseteq A /\ Enters(c) /\ tx[c].line = l /\ ~Silent(c)
            /\ \A i \in Live(c) : invitations[i].suppressed
  BY ShownStep
<1> HIDE DEF A, B, K
<1>5. Cardinality(A') + Cardinality(B') <= K
  BY <1>1, <1>2, <1>3, <1>4, BoundKept
<1> QED
  BY <1>5 DEF A, B, K

LEMMA CapsStep ==
  ASSUME Types, RowsInv, LineInv, CapsInv, [Next]_vars
  PROVE  CapsInv'
  BY ProgramCapStep, ProgramCapOnALine, LineCapStep DEF CapsInv

LEMMA CapsInit ==
  ASSUME Init
  PROVE  LineInv /\ CapsInv
<1>1. DOMAIN invitations = {} /\ \A c \in Connections : tx[c].op = "none"
  BY DEF Init, Idle
<1>2. LineInv
  BY <1>1 DEF LineInv, InLine, Pending, OfProgram
<1>3. \A p, L, t : RecentOn(p, L, t) = {} /\ ComingOn(p, L, t) = {}
  BY <1>1 DEF RecentOn, ComingOn, InLine
<1>4. \A l : Shown(l) = {} /\ ToShow(l) = {}
  BY <1>1 DEF Shown, ToShow, Created, OnLine, InLine
<1>5. Cardinality({}) = 0
  BY FS_EmptySet
<1>6. Cardinality(Connections) \in Nat \ {0} /\ ClientCap \in Nat /\ LineCap \in Nat
  BY SomeConnections, ProgramsAssumption DEF ProgramsAssumption
<1>7. ASSUME NEW p \in Granted, NEW t \in Nat
      PROVE  /\ Cardinality(RecentOn(p, Lines, t)) + Cardinality(ComingOn(p, Lines, t))
                    <= ClientCap + Cardinality(Connections) - 1
             /\ \A l \in Lines :
                   Cardinality(RecentOn(p, {l}, t)) + Cardinality(ComingOn(p, {l}, t)) <= ClientCap
  <2>1. /\ RecentOn(p, Lines, t) = {} /\ ComingOn(p, Lines, t) = {}
        /\ \A l \in Lines : RecentOn(p, {l}, t) = {} /\ ComingOn(p, {l}, t) = {}
    BY <1>3
  <2> QED BY <2>1, <1>5, <1>6
<1>8. ASSUME NEW l \in Lines
      PROVE  Cardinality(Shown(l)) + Cardinality(ToShow(l)) <= LineCap + Cardinality(Connections) - 1
  <2>1. Shown(l) = {} /\ ToShow(l) = {}
    BY <1>4
  <2> QED BY <2>1, <1>5, <1>6
<1> QED
  BY <1>2, <1>7, <1>8 DEF CapsInv

\* The caps of the invitations (invitation_client_at_cap, invitation_line_at_cap), counted
\* without a lock on what they count: a program passes its own by no more than the other
\* connections, and not at all on one line, where its clicks exclude each other; and so does
\* what a line shows.
THEOREM CapsAlmostHold == Spec => []NearlyCapped
<1>1. Init => LineInv /\ CapsInv
  BY CapsInit
<1>2. ProgramsInv /\ LineInv /\ CapsInv /\ [Next]_vars => LineInv' /\ CapsInv'
  BY LineStep, CapsStep DEF ProgramsInv
<1>3. ProgramsInv /\ CapsInv => NearlyCapped
  <2> SUFFICES ASSUME ProgramsInv, CapsInv PROVE NearlyCapped
    OBVIOUS
  <2>1. Types
    BY DEF ProgramsInv
  <2> DEFINE Recent(p, t) ==
                {i \in OfProgram(p) : invitations[i].created \in (t - ClientWindow + 1)..t}
  <2>2. \A p, t : Recent(p, t) = RecentOn(p, Lines, t)
    BY <2>1, InvitationsOf DEF RecentOn, OfProgram, Invitation
  <2>3. \A p, t, l : Recent(p, t) \cap OnLine(l) = RecentOn(p, {l}, t)
    BY DEF RecentOn, OfProgram, OnLine
  <2>4. ASSUME NEW p \in Granted, NEW t \in 0..clock
        PROVE  /\ Cardinality(Recent(p, t)) <= ClientCap + Cardinality(Connections) - 1
               /\ \A l \in Lines : Cardinality(Recent(p, t) \cap OnLine(l)) <= ClientCap
    <3>1. t \in Nat
      <4>1. clock \in Nat
        BY <2>1 DEF Types
      <4> QED BY <4>1
    <3> HIDE DEF Recent
    <3>2. Cardinality(Recent(p, t)) <= ClientCap + Cardinality(Connections) - 1
      <4>1. /\ Cardinality(RecentOn(p, Lines, t)) + Cardinality(ComingOn(p, Lines, t))
                  <= ClientCap + Cardinality(Connections) - 1
            /\ Cardinality(RecentOn(p, Lines, t)) \in Nat
            /\ Cardinality(ComingOn(p, Lines, t)) \in Nat
        BY <2>1, <3>1, CountsFinite DEF CapsInv
      <4>2. ClientCap \in Nat /\ Cardinality(Connections) \in Nat
        BY SomeConnections, ProgramsAssumption DEF ProgramsAssumption
      <4> QED BY <2>2, <4>1, <4>2
    <3>3. ASSUME NEW l \in Lines PROVE Cardinality(Recent(p, t) \cap OnLine(l)) <= ClientCap
      <4>1. /\ Cardinality(RecentOn(p, {l}, t)) + Cardinality(ComingOn(p, {l}, t)) <= ClientCap
            /\ Cardinality(RecentOn(p, {l}, t)) \in Nat
            /\ Cardinality(ComingOn(p, {l}, t)) \in Nat
        BY <2>1, <3>1, CountsFinite DEF CapsInv
      <4>2. ClientCap \in Nat
        BY ProgramsAssumption DEF ProgramsAssumption
      <4>3. Recent(p, t) \cap OnLine(l) = RecentOn(p, {l}, t)
        BY <2>3
      <4>4. Cardinality(RecentOn(p, {l}, t)) <= ClientCap
        BY <4>1, <4>2
      <4> QED BY <4>3, <4>4
    <3> QED BY <3>2, <3>3
  <2>5. ASSUME NEW l \in Lines
        PROVE  Cardinality(Shown(l)) <= LineCap + Cardinality(Connections) - 1
    <3>1. /\ Cardinality(Shown(l)) + Cardinality(ToShow(l)) <= LineCap + Cardinality(Connections) - 1
          /\ Cardinality(Shown(l)) \in Nat /\ Cardinality(ToShow(l)) \in Nat
      BY <2>1, CountsFinite DEF CapsInv
    <3>2. LineCap \in Nat /\ Cardinality(Connections) \in Nat
      BY SomeConnections, ProgramsAssumption DEF ProgramsAssumption
    <3> QED BY <3>1, <3>2
  <2> QED BY <2>4, <2>5 DEF NearlyCapped, Shown
<1> QED
  BY <1>1, <1>2, <1>3, ProgramsInvHolds, PTL DEF Spec

-----------------------------------------------------------------------------
\* The types.

\* Of a person and a program only the last row can be ACTIVE.
LastOnly(s) == \A n \in 1..Len(s) : s[n].status = "ACTIVE" => n = Len(s)

LastInv == \A x \in Persons, p \in Offered : LastOnly(grants[<<x, p>>])

LEMMA AppendLastOnly ==
  ASSUME NEW s \in Seq(Row), LastOnly(s), s = <<>> \/ s[Len(s)].status # "ACTIVE", NEW r \in Row
  PROVE  LastOnly(Append(s, r))
<1> DEFINE t == Append(s, r)
<1>1. Len(t) = Len(s) + 1 /\ \A n \in 1..Len(s) : t[n] = s[n]
  BY AppendProperties
<1>2. Len(s) \in Nat
  BY LenProperties
<1>3. \A n \in 1..Len(s) : s[n].status # "ACTIVE"
  <2>1. CASE s = <<>>
    <3>1. Len(s) = 0
      BY <2>1, EmptySeq
    <3> QED BY <3>1
  <2>2. CASE s # <<>>
    BY <2>2 DEF LastOnly
  <2> QED BY <2>1, <2>2
<1> HIDE DEF t
<1>4. LastOnly(t)
  BY <1>1, <1>2, <1>3 DEF LastOnly
<1> QED
  BY <1>4 DEF t

LEMMA ClosingLastOnly ==
  ASSUME NEW s \in Seq(Row), s # <<>>, LastOnly(s), NEW why \in Reasons
  PROVE  LET t == [s EXCEPT ![Len(s)] = [@ EXCEPT !.status = "REVOKED", !.reason = why]]
         IN  LastOnly(t)
<1> DEFINE r == [s[Len(s)] EXCEPT !.status = "REVOKED", !.reason = why]
           t == [s EXCEPT ![Len(s)] = r]
<1>1. Len(s) \in 1..Len(s)
  <2>1. Len(s) \in Nat \ {0}
    BY EmptySeq
  <2>2. \A n \in Nat \ {0} : n \in 1..n
    OBVIOUS
  <2> QED BY <2>1, <2>2, Zenon
<1>2. r \in Row
  <2>1. s[Len(s)] \in Row
    BY <1>1, ElementOfSeq
  <2> QED BY <2>1 DEF Row
<1> HIDE DEF r
<1>3. Len(t) = Len(s) /\ \A n \in 1..Len(s) : n # Len(s) => t[n] = s[n]
  BY <1>1, <1>2, ExceptSeq
<1> HIDE DEF t
<1>4. LastOnly(t)
  BY <1>3 DEF LastOnly
<1> QED
  BY <1>4 DEF t, r

LEMMA WithGrantLast ==
  ASSUME Types, LastInv, NEW by \in Actors, NEW x, NEW p, ~IsActive(x, p),
         grants' = WithGrant(by, x, p)
  PROVE  LastInv'
<1> SUFFICES ASSUME NEW y \in Persons, NEW q \in Offered
             PROVE  LastOnly(grants'[<<y, q>>])
  BY DEF LastInv
<1> DEFINE row == [by |-> by, status |-> "ACTIVE", reason |-> "NONE"]
           s == grants[<<y, q>>]
<1>1. row \in Row
  BY DEF Row, Actors
<1>2. s \in Seq(Row) /\ LastOnly(s)
  BY RowsOf DEF LastInv
<1>3. grants'[<<y, q>>] = IF <<y, q>> = <<x, p>> THEN Append(s, row) ELSE s
  BY DEF WithGrant, Types, Grants
<1>4. ASSUME <<y, q>> = <<x, p>> PROVE s = <<>> \/ s[Len(s)].status # "ACTIVE"
  <2>1. y = x /\ q = p
    BY <1>4
  <2> QED BY <2>1 DEF IsActive, LastGrant
<1> HIDE DEF row, s
<1> QED
  BY <1>1, <1>2, <1>3, <1>4, AppendLastOnly

LEMMA WithoutGrantLast ==
  ASSUME Types, LastInv, NEW x \in Persons, NEW p \in Offered, IsActive(x, p), NEW why \in Reasons,
         NEW y \in Persons, NEW q \in Offered
  PROVE  LastOnly(WithoutGrant(grants, x, p, why)[<<y, q>>])
<1> DEFINE s == grants[<<x, p>>]
           t == [s EXCEPT ![Len(s)] = [@ EXCEPT !.status = "REVOKED", !.reason = why]]
           g == WithoutGrant(grants, x, p, why)
<1>1. s \in Seq(Row) /\ s # <<>>
  BY RowsOf DEF IsActive, LastGrant, None
<1>2. LastOnly(t)
  BY <1>1, ClosingLastOnly DEF LastInv
<1>3. g = [grants EXCEPT ![<<x, p>>] = t]
  BY DEF WithoutGrant
<1> HIDE DEF t, g
<1>4. g[<<y, q>>] = IF <<y, q>> = <<x, p>> THEN t ELSE grants[<<y, q>>]
  BY <1>3 DEF Types, Grants
<1>5. LastOnly(g[<<y, q>>])
  BY <1>2, <1>4 DEF LastInv
<1> QED
  BY <1>5 DEF g

LEMMA LastStep ==
  ASSUME Types, LastInv, [Next]_vars
  PROVE  LastInv'
<1>1. CASE UNCHANGED grants
  BY <1>1 DEF LastInv
<1>2. ASSUME NEW c \in Connections, Insert(c), ~UNCHANGED grants PROVE LastInv'
  <2>1. tx[c] \in Insertions
    BY <1>2, RequestKinds DEF Insert, At
  <2>2. ~IsActive(tx[c].person, tx[c].program)
        /\ grants' = WithGrant(tx[c].by, tx[c].person, tx[c].program)
    BY <1>2 DEF Insert, Inserted
  <2> QED BY <2>1, <2>2, WithGrantLast DEF Insertions
<1>3. ASSUME NEW c \in Connections, CommitClick(c), ~UNCHANGED grants PROVE LastInv'
  <2>1. \E x : ~IsActive(x, tx[c].program) /\ grants' = WithGrant("PROGRAM", x, tx[c].program)
    BY <1>3 DEF CommitClick, data
  <2> QED BY <2>1, WithGrantLast DEF Actors
<1>4. CASE Withdrawal
  <2>1. PICK x \in Persons, p \in Offered, why \in Reasons :
            IsActive(x, p) /\ grants' = WithoutGrant(grants, x, p, why)
    BY <1>4 DEF Withdrawal, Deactivate, RevokeForKnownPerson, Revoke, Reasons
  <2>2. \A y \in Persons, q \in Offered : LastOnly(WithoutGrant(grants, x, p, why)[<<y, q>>])
    BY <2>1, WithoutGrantLast
  <2> QED BY <2>1, <2>2 DEF LastInv
<1>5. ASSUME NEW d \in Dependents, EraseDependent(d) PROVE LastInv'
  <2> SUFFICES ASSUME NEW y \in Persons, NEW q \in Offered
               PROVE  LastOnly(grants'[<<y, q>>])
    BY DEF LastInv
  <2>1. <<y, q>> \in DOMAIN grants
    BY DEF Types, Grants
  <2>2. CASE y = d /\ IsActive(d, q)
    <3>1. grants'[<<y, q>>] = WithoutGrant(grants, y, q, "ERASED")[<<y, q>>]
      BY <1>5, <2>1, <2>2 DEF EraseDependent
    <3>2. LastOnly(WithoutGrant(grants, y, q, "ERASED")[<<y, q>>])
      BY <2>2, WithoutGrantLast DEF Reasons
    <3> QED BY <3>1, <3>2
  <2>3. CASE ~(y = d /\ IsActive(d, q))
    <3>1. grants'[<<y, q>>] = grants[<<y, q>>]
      BY <1>5, <2>1, <2>3 DEF EraseDependent
    <3> QED BY <3>1 DEF LastInv
  <2> QED BY <2>2, <2>3
<1>6. UNCHANGED grants \/ Withdrawal
      \/ (\E c \in Connections : Insert(c) \/ CommitClick(c))
      \/ (\E d \in Dependents : EraseDependent(d))
  <2>1. ASSUME NEW c \in Connections, Asks(c) PROVE UNCHANGED grants
    BY <2>1, AsksType DEF data
  <2>2. ASSUME NEW c \in Connections, Statement(c), ~Insert(c), ~CommitClick(c)
        PROVE  UNCHANGED grants
    BY <2>2 DEF Statement, ReferenceLock, RefuseAtCap, TakeInvitation, TakeGrant, Dismiss,
       DeclineInvitation, AcceptInvitation, CommitAccept, Proceed, data
  <2>3. CASE Outside /\ ~\E d \in Dependents : EraseDependent(d)
    BY <2>3 DEF Outside, ComeOfAge, Emancipate, RotateReferenceKey, RetireReferenceKey, Pass, data
  <2>4. CASE Rest \/ UNCHANGED vars
    BY <2>4 DEF Rest, vars, data
  <2> QED BY <2>1, <2>2, <2>3, <2>4, ProgramsSteps
<1> QED
  BY <1>1, <1>2, <1>3, <1>4, <1>5, <1>6

\* The bounds.
BoundsInv == activeKey \in 1..MaxKey /\ clock \in 0..MaxTime /\ asked \in 0..MaxRequests

LEMMA BoundsStep ==
  ASSUME Types, BoundsInv, [Next]_vars
  PROVE  BoundsInv'
<1>1. UNCHANGED activeKey \/ (activeKey < MaxKey /\ activeKey' = activeKey + 1)
  <2>1. ASSUME NEW c \in Connections, Asks(c) \/ Statement(c) PROVE UNCHANGED activeKey
    BY <2>1, AsksType, StatementType
  <2> QED BY <2>1, ProgramsSteps DEF Withdrawal, Deactivate, RevokeForKnownPerson, Revoke, Outside,
             ComeOfAge, Emancipate, EraseDependent, Meet, RotateReferenceKey, RetireReferenceKey,
             Pass, Rest, vars
<1>2. UNCHANGED clock \/ (clock < MaxTime /\ clock' = clock + 1)
  <2>1. ASSUME NEW c \in Connections, Asks(c) \/ Statement(c) PROVE UNCHANGED clock
    BY <2>1, AsksType, StatementType
  <2> QED BY <2>1, ProgramsSteps DEF Withdrawal, Deactivate, RevokeForKnownPerson, Revoke, Outside,
             ComeOfAge, Emancipate, EraseDependent, Meet, RotateReferenceKey, RetireReferenceKey,
             Pass, Rest, vars
<1>3. UNCHANGED asked \/ (asked < MaxRequests /\ asked' = asked + 1)
  <2>1. ASSUME NEW c \in Connections, Asks(c) PROVE Ask
    BY <2>1 DEF Asks, Insertion, OpenDependentAccess, Accept, Decline, Answer, Begin
  <2>2. ASSUME NEW c \in Connections, Statement(c) PROVE UNCHANGED asked
    BY <2>2 DEF Statement, Insert, ReferenceLock, RefuseAtCap, TakeInvitation, TakeGrant,
       CommitClick, Dismiss, DeclineInvitation, AcceptInvitation, CommitAccept, Proceed, End
  <2>3. CASE Withdrawal \/ Outside \/ Rest \/ UNCHANGED vars
    BY <2>3 DEF Withdrawal, Deactivate, RevokeForKnownPerson, Revoke, Outside, ComeOfAge,
       Emancipate, EraseDependent, Meet, RotateReferenceKey, RetireReferenceKey, Pass,
       Rest, vars, Ask
  <2> QED BY <2>1, <2>2, <2>3, ProgramsSteps DEF Ask
<1>4. /\ activeKey \in 1..MaxKey /\ clock \in 0..MaxTime /\ asked \in 0..MaxRequests
      /\ MaxKey \in Nat /\ MaxTime \in Nat /\ MaxRequests \in Nat
  BY ProgramsAssumption DEF BoundsInv, ProgramsAssumption
<1>5. activeKey' \in 1..MaxKey
  BY <1>1, <1>4
<1>6. clock' \in 0..MaxTime
  BY <1>2, <1>4
<1>7. asked' \in 0..MaxRequests
  BY <1>3, <1>4
<1> QED
  BY <1>5, <1>6, <1>7 DEF BoundsInv

\* The clicks that may give birth: nobody is known under the name they give.
Expecting ==
    {c \in Connections : /\ tx[c].op = "click" /\ tx[c].person = Nobody
                         /\ \A e \in keys : e.key \in keyring => ~Names(c, e.program, e.reference)}

\* Whoever a program knows, a click is about and an invitation names is a dependent; and
\* there is a number left for every birth to come.
WhoInv ==
    /\ \A e \in keys : e.key \in 1..MaxKey /\ e.person \in Dependents
    /\ \A c \in Connections : tx[c].op = "click" =>
          /\ tx[c].person \in Dependents \cup {Nobody}
          /\ tx[c].step = "reference" => tx[c].person = Nobody
    /\ \A i \in DOMAIN invitations : DOMAIN invitations[i].outcome \subseteq Dependents
    /\ links \subseteq Families \X Dependents
    /\ Cardinality(Expecting) <= Cardinality(Unborn)

LEMMA UnbornIsFinite == IsFiniteSet(Unborn) /\ Cardinality(Unborn) \in Nat
<1>1. IsFiniteSet(Dependents) /\ Unborn \in SUBSET Dependents
  BY ProgramsAssumption, FS_Interval DEF Dependents, Unborn, ProgramsAssumption
<1> QED
  BY <1>1, FS_Subset, FS_CardinalityType

\* A click that has found nobody is one of them, and there is a number for its birth.
LEMMA BirthHasANumber ==
  ASSUME Types, RefsInv, BornInv, WhoInv, NEW c \in Connections, CommitClick(c),
         tx[c].person = Nobody
  PROVE  c \in Expecting /\ NextBorn \in Dependents
<1>1. c \in Expecting
  <2>1. tx[c].op = "click" /\ tx[c].step = "commit"
    BY DEF CommitClick, At
  <2>2. Past(c)
    BY <2>1 DEF Past
  <2> QED BY <2>1, <2>2 DEF Expecting, RefsInv
<1>2. IsFiniteSet(Expecting) /\ Cardinality(Expecting) \in Nat
  <2>1. Expecting \in SUBSET Connections
    BY DEF Expecting
  <2> QED BY <2>1, SomeConnections
<1>3. Cardinality(Expecting) # 0
  BY <1>1, <1>2, FS_EmptySet
<1>4. Cardinality(Expecting) <= Cardinality(Unborn)
  BY DEF WhoInv
<1>5. Cardinality(Unborn) # 0
  BY <1>2, <1>3, <1>4, UnbornIsFinite
<1>6. PICK d : d \in Unborn
  BY <1>5, UnbornIsFinite, FS_EmptySet
<1>7. PICK k \in Nat : Dependents \ Unborn = 1..k
  BY DEF BornInv
<1>8. NextBorn = k + 1
  <2>1. Cardinality(1..k) = k
    BY FS_Interval
  <2> QED BY <1>7, <2>1 DEF NextBorn
<1>9. d \in 1..MaxBirths /\ d \notin 1..k
  BY <1>6, <1>7 DEF Unborn, Dependents
<1>10. NextBorn \in 1..MaxBirths
  BY <1>7, <1>8, <1>9, ProgramsAssumption DEF ProgramsAssumption
<1> QED
  BY <1>1, <1>10 DEF Dependents

\* The dependents of the invitations.
LEMMA ListsStep ==
  ASSUME Types, RowsInv, RefsInv, BornInv, WhoInv, [Next]_vars
  PROVE  \A i \in DOMAIN invitations' : DOMAIN invitations'[i].outcome \subseteq Dependents
<1>1. \A i \in DOMAIN invitations : DOMAIN invitations[i].outcome \subseteq Dependents
  BY DEF WhoInv
<1>2. CASE UNCHANGED invitations
  BY <1>1, <1>2
<1>3. ASSUME NEW ids, NEW how
      PROVE  /\ DOMAIN Closed(ids, how) = DOMAIN invitations
             /\ \A i \in DOMAIN invitations : DOMAIN Closed(ids, how)[i].outcome \subseteq Dependents
  <2>1. \A i \in DOMAIN invitations :
            Closed(ids, how)[i].outcome = invitations[i].outcome
    <3>1. ASSUME NEW i \in DOMAIN invitations
          PROVE  Closed(ids, how)[i].outcome = invitations[i].outcome
      <4>1. invitations[i] \in Invitation
        BY InvitationsOf
      <4>2. Closed(ids, how)[i] = IF i \in ids THEN [invitations[i] EXCEPT !.status = how]
                                  ELSE invitations[i]
        BY DEF Closed
      <4> QED BY <4>1, <4>2 DEF Invitation
    <3> QED BY <3>1
  <2>2. DOMAIN Closed(ids, how) = DOMAIN invitations
    BY DEF Closed
  <2> QED BY <1>1, <2>1, <2>2
<1>4. CASE \E ids, how : invitations' = Closed(ids, how)
  BY <1>3, <1>4
<1>5. ASSUME NEW c \in Connections, CommitAccept(c), ~UNCHANGED invitations
      PROVE  \A i \in DOMAIN invitations' : DOMAIN invitations'[i].outcome \subseteq Dependents
  <2> DEFINE j == tx[c].invitation
             v == invitations[j]
             o == [d \in DOMAIN v.outcome |->
                      IF d \in DOMAIN tx[c].outcome THEN tx[c].outcome[d] ELSE v.outcome[d]]
             w == [v EXCEPT !.status = "ACCEPTED", !.outcome = o]
  <2>1. tx[c].op = "accept"
    BY <1>5 DEF CommitAccept, At
  <2>2. j \in DOMAIN invitations /\ v \in Invitation
    BY <2>1, InvitationsOf DEF Types
  <2>3. invitations' = [invitations EXCEPT ![j] = w]
    BY <1>5 DEF CommitAccept, data
  <2>4. DOMAIN o = DOMAIN v.outcome
    OBVIOUS
  <2> HIDE DEF o
  <2>5. w.outcome = o
    BY <2>2 DEF Invitation
  <2>6. DOMAIN v.outcome \subseteq Dependents
    BY <1>1, <2>2
  <2> HIDE DEF w, v, j
  <2> QED BY <1>1, <2>2, <2>3, <2>4, <2>5, <2>6
<1>6. ASSUME NEW c \in Connections, CommitClick(c), ~UNCHANGED invitations
      PROVE  \A i \in DOMAIN invitations' : DOMAIN invitations'[i].outcome \subseteq Dependents
  <2> DEFINE x == IF tx[c].person = Nobody THEN NextBorn ELSE tx[c].person
  <2>1. tx[c] \in ClickRequests /\ tx[c].op = "click"
    BY <1>6, CommitClickWrites DEF ClickRequests
  <2>2. x \in Dependents
    BY <1>6, <2>1, BirthHasANumber DEF WhoInv
  <2>3. invitations' = Invited(tx[c], x)
    BY <1>6 DEF CommitClick, data
  <2> HIDE DEF x
  <2>4. CASE tx[c].live = {}
    <3> DEFINE s == Closed(tx[c].rows, "EXPIRED")
               o == [d \in {x} |-> "NONE"]
               r == [program |-> tx[c].program, line |-> tx[c].line, status |-> "PENDING",
                     suppressed |-> tx[c].silent, created |-> tx[c].now, outcome |-> o]
    <3>1. invitations' = Append(s, r) /\ r.outcome = o /\ DOMAIN o = {x}
      BY <2>3, <2>4 DEF Invited
    <3> HIDE DEF r
    <3>2. s \in [1..Len(invitations) -> {s[i] : i \in 1..Len(invitations)}]
      BY InvitationsOf DEF Closed
    <3>3. s \in Seq({s[i] : i \in 1..Len(invitations)} \cup {r}) /\ Len(s) = Len(invitations)
      <4> DEFINE S == {s[i] : i \in 1..Len(invitations)} \cup {r}
      <4>1. s \in [1..Len(invitations) -> S]
        BY <3>2
      <4>2. Len(invitations) \in Nat
        BY InvitationsOf
      <4> HIDE DEF S, s
      <4>3. s \in Seq(S)
        BY <4>1, <4>2, SeqDef
      <4>4. Len(s) = Len(invitations)
        BY <4>1, <4>2, <4>3, LenProperties
      <4> QED BY <4>3, <4>4 DEF S
    <3>4. \A i \in DOMAIN invitations : DOMAIN s[i].outcome \subseteq Dependents
      BY <1>3
    <3> HIDE DEF s, o
    <3>5. /\ DOMAIN Append(s, r) = 1..(Len(s) + 1)
          /\ \A i \in 1..Len(s) : Append(s, r)[i] = s[i]
          /\ Append(s, r)[Len(s) + 1] = r
      BY <3>3, AppendProperties, LenProperties
    <3>6. DOMAIN invitations = 1..Len(s) /\ Len(s) \in Nat
      BY <3>3, InvitationsOf
    <3> QED BY <2>2, <3>1, <3>4, <3>5, <3>6
  <2>5. CASE tx[c].live # {}
    <3>1. DOMAIN invitations' = DOMAIN invitations
      BY <2>3, <2>5 DEF Invited
    <3>2. ASSUME NEW i \in DOMAIN invitations
          PROVE  DOMAIN invitations'[i].outcome \subseteq Dependents
      <4> DEFINE o == Listed(i, x)
                 w == [invitations[i] EXCEPT !.suppressed = @ /\ tx[c].silent, !.outcome = o]
      <4>1. invitations'[i] = IF i \in tx[c].live THEN w ELSE invitations[i]
        BY <2>3, <2>5 DEF Invited
      <4>2. DOMAIN o = DOMAIN invitations[i].outcome \cup {x}
        BY DEF Listed
      <4> HIDE DEF o
      <4>3. w.outcome = o
        BY InvitationsOf DEF Invitation
      <4> HIDE DEF w
      <4> QED BY <1>1, <2>2, <4>1, <4>2, <4>3
    <3> QED BY <3>1, <3>2
  <2> QED BY <2>4, <2>5
<1>7. \/ UNCHANGED invitations \/ \E ids, how : invitations' = Closed(ids, how)
      \/ \E c \in Connections : CommitAccept(c) \/ CommitClick(c)
  <2>1. ASSUME NEW c \in Connections, Asks(c) PROVE UNCHANGED invitations
    BY <2>1, AsksType DEF data
  <2>2. ASSUME NEW c \in Connections, Statement(c), ~CommitClick(c), ~CommitAccept(c)
        PROVE  UNCHANGED invitations \/ \E ids, how : invitations' = Closed(ids, how)
    <3>1. CASE RefuseAtCap(c)
      BY <3>1 DEF RefuseAtCap
    <3>2. CASE Dismiss(c)
      BY <3>2, Zenon DEF Dismiss
    <3>3. CASE DeclineInvitation(c)
      BY <3>3, Zenon DEF DeclineInvitation
    <3>4. CASE Insert(c) \/ ReferenceLock(c) \/ TakeInvitation(c) \/ TakeGrant(c)
               \/ AcceptInvitation(c)
      BY <3>4 DEF Insert, ReferenceLock, TakeInvitation, TakeGrant, AcceptInvitation, Proceed, data
    <3> QED BY <2>2, <3>1, <3>2, <3>3, <3>4 DEF Statement
  <2> QED BY <2>1, <2>2, ProgramsSteps, OutsideIsQuiet DEF Quiet
<1> QED
  BY <1>2, <1>4, <1>5, <1>6, <1>7

\* The keys, links and clicks.
LEMMA KeysOfDependents ==
  ASSUME Types, RefsInv, BornInv, BoundsInv, WhoInv, [Next]_vars
  PROVE  \A e \in keys' : e.key \in 1..MaxKey /\ e.person \in Dependents
<1>1. \A e \in keys : e.key \in 1..MaxKey /\ e.person \in Dependents
  BY DEF WhoInv
<1>2. ASSUME NEW c \in Connections, CommitClick(c), ~UNCHANGED keys
      PROVE  \A e \in keys' : e.key \in 1..MaxKey /\ e.person \in Dependents
  <2>1. /\ tx[c] \in ClickRequests /\ tx[c].op = "click" /\ tx[c].person = Nobody
        /\ keys' = keys \cup {[program |-> tx[c].program, reference |-> tx[c].reference,
                               key |-> tx[c].key, person |-> NextBorn]}
    BY <1>2, CommitClickWrites DEF ClickRequests, data
  <2>2. tx[c].key \in 1..MaxKey
    BY <2>1 DEF RefsInv, BoundsInv
  <2>3. NextBorn \in Dependents
    BY <1>2, <2>1, BirthHasANumber
  <2> QED BY <1>1, <2>1, <2>2, <2>3
<1>3. UNCHANGED keys \/ \E c \in Connections : CommitClick(c)
  BY ProgramsSteps, AsksType, OutsideIsQuiet DEF Quiet, data, Statement, Insert,
     ReferenceLock, RefuseAtCap, TakeInvitation, TakeGrant, Dismiss, DeclineInvitation,
     AcceptInvitation, CommitAccept, Proceed
<1> QED
  BY <1>1, <1>2, <1>3

LEMMA LinksOfDependents ==
  ASSUME Types, RowsInv, WhoInv, [Next]_vars
  PROVE  links' \subseteq Families \X Dependents
<1>1. links \subseteq Families \X Dependents
  BY DEF WhoInv
<1>2. ASSUME NEW c \in Connections, CommitAccept(c) PROVE links' \subseteq Families \X Dependents
  <2>1. tx[c] \in Answers /\ tx[c].op = "accept" /\ tx[c].step = "commit"
    BY <1>2, RequestKinds DEF CommitAccept, At
  <2>2. DOMAIN tx[c].outcome \subseteq Dependents
    BY <2>1 DEF RowsInv, WhoInv, Types
  <2>3. tx[c].account \in Families
    BY <2>1 DEF Answers
  <2>4. NewLinks(tx[c]) \subseteq Families \X Dependents
    BY <2>2, <2>3 DEF NewLinks
  <2>5. UNCHANGED links \/ links' = links \cup NewLinks(tx[c])
    BY <1>2 DEF CommitAccept, data
  <2> QED BY <1>1, <2>4, <2>5
<1>3. links' \subseteq links \/ \E c \in Connections : CommitAccept(c)
  <2>1. ASSUME NEW c \in Connections, Asks(c) PROVE UNCHANGED links
    BY <2>1, AsksType DEF data
  <2>2. ASSUME NEW c \in Connections, Statement(c), ~CommitAccept(c) PROVE UNCHANGED links
    BY <2>2 DEF Statement, Insert, ReferenceLock, RefuseAtCap, TakeInvitation, TakeGrant,
       CommitClick, Dismiss, DeclineInvitation, AcceptInvitation, Proceed, data
  <2>3. CASE Withdrawal \/ Outside \/ Rest \/ UNCHANGED vars
    BY <2>3 DEF Withdrawal, Deactivate, RevokeForKnownPerson, Revoke, Outside, ComeOfAge,
       Emancipate, EraseDependent, Meet, RotateReferenceKey, RetireReferenceKey, Pass,
       Rest, vars, data
  <2> QED BY <2>1, <2>2, <2>3, ProgramsSteps
<1> QED
  BY <1>1, <1>2, <1>3

LEMMA ClicksOfDependents ==
  ASSUME Types, WhoInv, [Next]_vars, NEW c \in Connections, tx'[c].op = "click"
  PROVE  /\ tx'[c].person \in Dependents \cup {Nobody}
         /\ tx'[c].step = "reference" => tx'[c].person = Nobody
<1>1. tx[c].op = "click" => /\ tx[c].person \in Dependents \cup {Nobody}
                            /\ tx[c].step = "reference" => tx[c].person = Nobody
  BY DEF WhoInv
<1>2. CASE tx'[c] = tx[c]
  BY <1>1, <1>2
<1>3. CASE Asks(c)
  <2>1. CASE \E by \in Actors, x \in Persons, p \in Offered : Insertion(c, by, x, p)
    BY <2>1, InsertionType DEF Insertions
  <2>2. CASE \E p \in Granted, r \in References, l \in Lines : OpenDependentAccess(c, p, r, l)
    BY <2>2, ClickType
  <2>3. CASE \E a \in Families, i \in DOMAIN invitations : Accept(c, a, i) \/ Decline(c, a, i)
    BY <2>3, AnswerType DEF Answers
  <2> QED BY <1>3, <2>1, <2>2, <2>3 DEF Asks
<1>4. CASE ReferenceLock(c)
  <2>1. /\ tx'[c].person = Nobody \/ \E e \in keys : e.person = tx'[c].person
        /\ tx'[c].step = "line"
    BY <1>4, ReferenceLockType DEF KnownAs
  <2> QED BY <2>1 DEF WhoInv
<1>5. CASE Statement(c) /\ ~ReferenceLock(c)
  <2>1. tx[c].op = "click" /\ tx'[c].person = tx[c].person
    BY <1>5, StatementGoesOn DEF GoesOn
  <2>2. tx'[c].step = "reference" => tx'[c].person = Nobody
    <3>1. CASE TakeInvitation(c)
      BY <3>1, TakeInvitationType
    <3>2. CASE TakeGrant(c)
      BY <3>2, TakeGrantType DEF Idle
    <3>3. CASE AcceptInvitation(c)
      BY <3>3, AcceptInvitationType
    <3>4. CASE Insert(c) \/ RefuseAtCap(c) \/ CommitClick(c) \/ Dismiss(c) \/ DeclineInvitation(c)
               \/ CommitAccept(c)
      <4>1. tx'[c] = Idle
        BY <3>4, EndsType DEF Insert, RefuseAtCap, CommitClick, Dismiss, DeclineInvitation,
           CommitAccept, End, Ends
      <4> QED BY <4>1 DEF Idle
    <3> QED BY <1>5, <3>1, <3>2, <3>3, <3>4 DEF Statement
  <2> QED BY <1>1, <2>1, <2>2
<1> QED
  BY <1>2, <1>3, <1>4, <1>5, WhoMoves

\* A click is let in only while there is a number for everybody who may be born.
LEMMA AskLeavesANumber ==
  ASSUME Types, WhoInv, NEW c \in Connections, NEW p \in Granted, NEW r \in References,
         NEW l \in Lines, OpenDependentAccess(c, p, r, l)
  PROVE  Cardinality(Expecting') <= Cardinality(Unborn)
<1> DEFINE U == UNION {Clicks(q) : q \in Granted}
           E == Expecting
<1>1. /\ tx'[c] \in ClickRequests /\ tx'[c].program = p /\ tx'[c].reference = r
      /\ \A d \in Connections \ {c} : tx'[d] = tx[d]
      /\ tx[c].op = "none"
  <2>1. tx[c].op = "none"
    BY DEF OpenDependentAccess, Begin, Idle
  <2> QED BY <2>1, ClickType
<1>2. UNCHANGED <<keys, keyring>>
  BY DEF OpenDependentAccess, Begin, data
<1>3. E' \subseteq E \cup {c}
  BY <1>1, <1>2 DEF Expecting, Names
<1>4. KnownAs(p, r) # {} => c \notin E'
  BY <1>1, <1>2 DEF Expecting, Names, KnownAs
<1>5. E \subseteq U
  <2>1. \A d \in Connections : tx[d].op = "click" => tx[d].program \in Granted
    BY RequestKinds DEF ClickRequests
  <2> QED BY <2>1 DEF Expecting, Clicks
<1>6. U \in SUBSET Connections
  BY DEF Clicks
<1>7. KnownAs(p, r) # {} \/ Cardinality(Unborn) > Cardinality(U)
  BY DEF OpenDependentAccess, MayBeBorn
<1>8. Cardinality(E) <= Cardinality(Unborn)
  BY DEF WhoInv
<1>9. E \in SUBSET Connections
  BY DEF Expecting
<1> HIDE DEF U, E
<1>10. IsFiniteSet(U) /\ Cardinality(U) \in Nat /\ IsFiniteSet(E) /\ Cardinality(E) \in Nat
  BY <1>6, <1>9, SomeConnections
<1>11. Cardinality(Unborn) \in Nat
  BY UnbornIsFinite
<1>12. CASE KnownAs(p, r) # {}
  <2>1. E' \in SUBSET E
    BY <1>3, <1>4, <1>12
  <2>2. Cardinality(E') \in Nat /\ Cardinality(E') <= Cardinality(E)
    BY <1>10, <2>1, FS_Subset, FS_CardinalityType
  <2>3. Cardinality(E') <= Cardinality(Unborn)
    BY <1>8, <1>10, <1>11, <2>2
  <2> QED BY <2>3 DEF E
<1>13. CASE Cardinality(Unborn) > Cardinality(U)
  <2>1. E' \in SUBSET (U \cup {c})
    BY <1>3, <1>5
  <2>2. \A x : /\ IsFiniteSet(U \cup {x})
               /\ Cardinality(U \cup {x}) = IF x \in U THEN Cardinality(U) ELSE Cardinality(U) + 1
    BY <1>10, FS_AddElement
  <2>3. IsFiniteSet(U \cup {c}) /\ Cardinality(U \cup {c}) <= Cardinality(U) + 1
        /\ Cardinality(U \cup {c}) \in Nat
    <3>1. IsFiniteSet(U \cup {c}) /\ (Cardinality(U \cup {c}) = Cardinality(U)
                                       \/ Cardinality(U \cup {c}) = Cardinality(U) + 1)
      BY <2>2
    <3> QED BY <1>10, <3>1
  <2>4. Cardinality(E') \in Nat /\ Cardinality(E') <= Cardinality(U \cup {c})
    BY <2>1, <2>3, FS_Subset, FS_CardinalityType
  <2>5. Cardinality(E') <= Cardinality(Unborn)
    BY <1>10, <1>11, <1>13, <2>3, <2>4
  <2> QED BY <2>5 DEF E
<1> QED
  BY <1>7, <1>12, <1>13

LEMMA NumbersStep ==
  ASSUME Types, RefsInv, BornInv, WhoInv, [Next]_vars
  PROVE  Cardinality(Expecting') <= Cardinality(Unborn')
<1> DEFINE E == Expecting
           N == Unborn
<1>1. Cardinality(E) <= Cardinality(N)
  BY DEF WhoInv
<1>2. IsFiniteSet(E) /\ Cardinality(E) \in Nat /\ IsFiniteSet(N) /\ Cardinality(N) \in Nat
  <2>1. E \in SUBSET Connections
    BY DEF Expecting
  <2> QED BY <2>1, SomeConnections, UnbornIsFinite
<1>3. CASE ~\E c \in Connections : CommitClick(c)
  <2>1. N' = N
    <3>1. \A x \in Persons : fate'[x] = "unborn" <=> fate[x] = "unborn"
      BY <1>3, StepBears
    <3> QED BY <3>1 DEF Unborn, Persons
  <2>2. CASE \E c \in Connections, p \in Granted, r \in References, l \in Lines :
                OpenDependentAccess(c, p, r, l)
    BY <2>1, <2>2, AskLeavesANumber
  <2> DEFINE Redeployed == RotateReferenceKey \/ \E k \in 1..MaxKey : RetireReferenceKey(k)
  <2>3. CASE Redeployed
    <3>1. \A c \in Connections : tx'[c].op # "click"
      BY <2>3, RequestKinds DEF RotateReferenceKey, RetireReferenceKey, Clicks, ClickRequests
    <3>2. E' = {}
      BY <3>1 DEF Expecting
    <3> HIDE DEF E, N
    <3>3. Cardinality(E') = 0 /\ Cardinality(N') \in Nat
      BY <1>2, <2>1, <3>2, FS_EmptySet
    <3>4. Cardinality(E') <= Cardinality(N')
      BY <3>3
    <3> QED BY <3>4 DEF E, N
  <2>4. CASE ~Redeployed /\ ~\E c \in Connections, p \in Granted, r \in References, l \in Lines :
                 OpenDependentAccess(c, p, r, l)
    <3>1. UNCHANGED keys
      BY <1>3, ProgramsSteps, AsksType, OutsideIsQuiet DEF Quiet, data, Statement, Insert,
         ReferenceLock, RefuseAtCap, TakeInvitation, TakeGrant, Dismiss, DeclineInvitation,
         AcceptInvitation, CommitAccept, Proceed
    <3>2. UNCHANGED keyring
      <4>1. ASSUME NEW c \in Connections, Asks(c) \/ Statement(c) PROVE UNCHANGED keyring
        BY <4>1, AsksType, StatementType
      <4>2. CASE Withdrawal \/ Outside \/ Rest \/ UNCHANGED vars
        BY <2>4, <4>2 DEF Withdrawal, Deactivate, RevokeForKnownPerson, Revoke, Outside, ComeOfAge,
           Emancipate, EraseDependent, Meet, Pass, Rest, vars
      <4> QED BY <4>1, <4>2, ProgramsSteps
    <3>3. ASSUME NEW d \in Connections, tx'[d].op = "click", tx'[d].person = Nobody,
                 \A e \in keys : e.key \in keyring =>
                     ~(tx'[d].program = e.program /\ tx'[d].reference = e.reference)
          PROVE  d \in E
      <4>1. CASE tx'[d] = tx[d]
        BY <3>3, <4>1 DEF Expecting, Names
      <4>2. CASE Asks(d)
        <5>1. CASE \E by \in Actors, x \in Persons, p \in Offered : Insertion(d, by, x, p)
          BY <3>3, <5>1, InsertionType DEF Insertions
        <5>2. CASE \E a \in Families, i \in DOMAIN invitations : Accept(d, a, i) \/ Decline(d, a, i)
          BY <3>3, <5>2, AnswerType DEF Answers
        <5> QED BY <2>4, <4>2, <5>1, <5>2 DEF Asks
      <4>3. CASE ReferenceLock(d)
        <5>1. /\ tx[d] \in ClickRequests /\ tx[d].op = "click" /\ Continues(d)
              /\ LET known == KnownAs(tx[d].program, tx[d].reference)
                 IN  IF known = {} THEN tx'[d].person = Nobody ELSE tx'[d].person \in known
          BY <4>3, ReferenceLockType DEF ClickRequests
        <5>2. tx[d].step = "reference"
          BY <4>3 DEF ReferenceLock, At
        <5>3. tx[d].person = Nobody
          BY <5>1, <5>2 DEF WhoInv
        <5> QED BY <3>3, <5>1, <5>3 DEF Expecting, Names, Continues
      <4>4. CASE Statement(d) /\ ~ReferenceLock(d)
        <5>1. tx[d].op = "click" /\ Continues(d) /\ tx'[d].person = tx[d].person
          BY <3>3, <4>4, StatementGoesOn DEF GoesOn
        <5> QED BY <3>3, <5>1 DEF Expecting, Names, Continues
      <4> QED BY <4>1, <4>2, <4>3, <4>4, WhoMoves
    <3>4. E' \in SUBSET E
      BY <3>1, <3>2, <3>3 DEF Expecting, Names
    <3> HIDE DEF E, N
    <3>5. Cardinality(E') \in Nat /\ Cardinality(E') <= Cardinality(E)
      BY <1>2, <3>4, FS_Subset, FS_CardinalityType
    <3>6. Cardinality(E') <= Cardinality(N')
      BY <1>1, <1>2, <2>1, <3>5
    <3> QED BY <3>6 DEF E, N
  <2> QED BY <2>2, <2>3, <2>4
<1>4. ASSUME NEW c \in Connections, CommitClick(c)
      PROVE  Cardinality(Expecting') <= Cardinality(Unborn')
  <2>1. /\ tx[c] \in ClickRequests /\ tx'[c] = Idle /\ tx'[c].op # "click"
        /\ \A d \in Connections \ {c} : tx'[d] = tx[d]
    BY <1>4, CommitClickWrites, StatementType DEF Statement, Idle
  <2>2. keys \subseteq keys' /\ UNCHANGED keyring
    BY <1>4, CommitClickWrites, StatementType DEF Statement, data
  <2>3. E' \in SUBSET (E \ {c})
    BY <2>1, <2>2 DEF Expecting, Names
  <2>4. UNCHANGED fate \/ (tx[c].person = Nobody /\ fate' = [fate EXCEPT ![NextBorn] = "minor"])
    BY <1>4, CommitClickWrites DEF data
  <2>5. CASE UNCHANGED fate
    <3>1. N' = N
      BY <2>5 DEF Unborn
    <3> HIDE DEF E, N
    <3>2. Cardinality(E') \in Nat /\ Cardinality(E') <= Cardinality(E)
      BY <1>2, <2>3, FS_Subset, FS_CardinalityType
    <3>3. Cardinality(E') <= Cardinality(N')
      BY <1>1, <1>2, <3>1, <3>2
    <3> QED BY <3>3 DEF E, N
  <2>6. CASE tx[c].person = Nobody /\ fate' = [fate EXCEPT ![NextBorn] = "minor"]
    <3>1. c \in E /\ NextBorn \in Dependents
      BY <1>4, <2>6, BirthHasANumber
    <3>2. N' = N \ {NextBorn}
      BY <2>6, <3>1 DEF Unborn, Types, Persons
    <3> HIDE DEF E, N
    <3>3. IsFiniteSet(E \ {c}) /\ Cardinality(E \ {c}) = Cardinality(E) - 1
      BY <1>2, <3>1, FS_RemoveElement
    <3>4. Cardinality(E') \in Nat /\ Cardinality(E') <= Cardinality(E \ {c})
      BY <2>3, <3>3, FS_Subset, FS_CardinalityType
    <3>5. \A x : Cardinality(N \ {x}) = IF x \in N THEN Cardinality(N) - 1 ELSE Cardinality(N)
      BY <1>2, FS_RemoveElement
    <3>6. Cardinality(N') = Cardinality(N) - 1 \/ Cardinality(N') = Cardinality(N)
      BY <3>2, <3>5
    <3>7. Cardinality(E') <= Cardinality(N')
      BY <1>1, <1>2, <3>3, <3>4, <3>6
    <3> QED BY <3>7 DEF E, N
  <2> QED BY <2>4, <2>5, <2>6
<1> QED
  BY <1>3, <1>4

LEMMA WhoStep ==
  ASSUME Types, RowsInv, RefsInv, BornInv, BoundsInv, WhoInv, [Next]_vars
  PROVE  WhoInv'
<1>1. \A c \in Connections : tx'[c].op = "click" =>
          /\ tx'[c].person \in Dependents \cup {Nobody}
          /\ tx'[c].step = "reference" => tx'[c].person = Nobody
  BY ClicksOfDependents
<1> QED
  BY <1>1, KeysOfDependents, LinksOfDependents, ListsStep, NumbersStep DEF WhoInv

LEMMA TypeOKInit ==
  ASSUME Init
  PROVE  LastInv /\ BoundsInv /\ WhoInv
<1>1. /\ \A x \in Persons, p \in Offered : grants[<<x, p>>] = <<>>
      /\ DOMAIN invitations = {} /\ keys = {} /\ links = {}
      /\ \A c \in Connections : tx[c].op = "none"
  BY DEF Init, Idle
<1>2. LastInv
  <2>1. Len(<<>>) = 0
    BY EmptySeq
  <2> QED BY <1>1, <2>1 DEF LastInv, LastOnly
<1>3. BoundsInv
  BY ProgramsAssumption DEF Init, BoundsInv, ProgramsAssumption
<1>4. Expecting = {}
  BY <1>1 DEF Expecting
<1>5. Cardinality(Expecting) <= Cardinality(Unborn)
  BY <1>4, UnbornIsFinite, FS_EmptySet
<1> QED
  BY <1>1, <1>2, <1>3, <1>5 DEF WhoInv

\* Of a person and a program only the last grant can be ACTIVE, of a program and a line one
\* invitation is PENDING (the partial unique indexes), and whoever a program knows is one of
\* its dependents: every variable keeps its type, whatever requests interleave.
THEOREM TypeCorrect == Spec => []TypeOK
<1>1. Init => LastInv /\ BoundsInv /\ WhoInv /\ LineInv
  BY TypeOKInit, CapsInit
<1>2. ProgramsInv /\ LastInv /\ BoundsInv /\ WhoInv /\ LineInv /\ [Next]_vars
        => LastInv' /\ BoundsInv' /\ WhoInv' /\ LineInv'
  BY LastStep, BoundsStep, WhoStep, LineStep DEF ProgramsInv
<1>3. ProgramsInv /\ LastInv /\ BoundsInv /\ WhoInv /\ LineInv => TypeOK
  <2> SUFFICES ASSUME ProgramsInv, LastInv, BoundsInv, WhoInv, LineInv PROVE TypeOK
    OBVIOUS
  <2>1. Types
    BY DEF ProgramsInv
  <2>2. ASSUME NEW k \in Persons \X Offered, NEW n \in DOMAIN grants[k]
        PROVE  /\ grants[k][n].by \in {"SELF", "STAFF", "PROGRAM"}
               /\ (grants[k][n].status = "ACTIVE") = (grants[k][n].reason = "NONE")
               /\ grants[k][n].status = "ACTIVE" => n = Len(grants[k])
    <3>1. PICK x \in Persons, p \in Offered : k = <<x, p>>
      OBVIOUS
    <3>2. n \in 1..Len(grants[<<x, p>>]) /\ grants[<<x, p>>][n] \in Row
      BY <2>1, <2>2, <3>1, RowsOf
    <3>3. grants[<<x, p>>][n].status = "ACTIVE" => n = Len(grants[<<x, p>>])
      BY <3>2 DEF LastInv, LastOnly
    <3>4. \A r \in Row : r.by \in {"SELF", "STAFF", "PROGRAM"}
                         /\ (r.status = "ACTIVE") = (r.reason = "NONE")
      BY DEF Row, Actors, Reasons
    <3> QED BY <3>1, <3>2, <3>3, <3>4
  <2>3. keys \subseteq [program : Granted, reference : References, key : 1..MaxKey,
                        person : Dependents]
    BY <2>1 DEF Types, Key, WhoInv
  <2>4. ASSUME NEW p \in Granted, NEW l \in Lines PROVE Cardinality(Pending(p, l)) <= 1
    <3>1. \A i, j \in Pending(p, l) : i = j
      BY DEF LineInv
    <3>2. CASE Pending(p, l) = {}
      BY <3>2, FS_EmptySet
    <3>3. CASE Pending(p, l) # {}
      <4>1. PICK i : Pending(p, l) = {i}
        BY <3>1, <3>3
      <4>2. Cardinality(Pending(p, l)) = 1
        BY <4>1, FS_Singleton
      <4> QED BY <4>2
    <3> QED BY <3>2, <3>3
  <2>5. links \subseteq Families \X Dependents
    BY DEF WhoInv
  <2>6. fate \in [Persons -> {"unborn", "minor", "of age", "autonomous", "erased"}]
    BY <2>1 DEF Types
  <2>7. keyring \subseteq 1..activeKey /\ activeKey \in keyring
    BY DEF ProgramsInv, RefsInv
  <2> QED BY <2>2, <2>3, <2>4, <2>5, <2>6, <2>7 DEF TypeOK, BoundsInv
<1> QED
  BY <1>1, <1>2, <1>3, ProgramsInvHolds, PTL DEF Spec
=============================================================================
