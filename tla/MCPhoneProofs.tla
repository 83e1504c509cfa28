--------------------------- MODULE MCPhoneProofs ---------------------------
\* PhoneProofs on two persons who dispute one line; in the larger instance the
\* first of them declares it a second time.
EXTENDS PhoneProofs, TLC

CONSTANTS p1, p2, c1, c2, c3, w1, w2

MCPersons == {p1, p2}
MCLines == {"line"}
MCTwoClaims == {c1, c2}
MCThreeClaims == {c1, c2, c3}
MCPerson == [c \in Claims |-> IF c = c2 THEN p2 ELSE p1]
MCLine == [c \in Claims |-> "line"]
MCWorkers == {w1, w2}
MCClosable == {p1, p2}

\* Two workers, and two persons who each have one claim on the line, may be exchanged
\* (the claim that an idle transaction carries is read by nothing).
MCSwaps == {p1 :> p1 @@ p2 :> p2 @@ c1 :> c1 @@ c2 :> c2, p1 :> p2 @@ p2 :> p1 @@ c1 :> c2 @@ c2 :> c1}
MCSymmetry == {swap @@ workers : swap \in MCSwaps, workers \in Permutations(MCWorkers)}
=============================================================================
