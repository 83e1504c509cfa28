----------------------------- MODULE MCRegistry -----------------------------
\* Values of the constants of Registry for TLC.
EXTENDS Registry, TLC

CONSTANTS a1, a2, m1, r1, r2

MCAdults == {a1, a2}
MCMinors == {m1}
MCRequests == {r1, r2}
MCOneRequest == {r1}
MCSubjects == {a1, m1}
MCSymmetry == Permutations(MCRequests)
=============================================================================
