------------------------------ MODULE MCOutbox ------------------------------
\* Outbox with two events of one person: a message that may go to a line or, for
\* want of one, to the account; and the notice of a lost line, for the account only.
EXTENDS Outbox, TLC

CONSTANTS w1, w2

MCPerson == [e \in Events |-> "p"]
MCPersons == {"p"}
MCSymmetry == Permutations(Workers)
=============================================================================
