----------------------------- MODULE MCPrograms -----------------------------
\* Values of the constants of Programs for TLC: one family holds one line, nobody known
\* holds the other.
EXTENDS Programs, TLC

CONSTANTS h1, g1, g2, s1, l1, l2, r1, r2, c1, c2

MCFamilies == {h1}
MCGranted == {g1, g2}
MCSelfService == {s1}
MCLines == {l1, l2}
MCHolder == (l1 :> h1) @@ (l2 :> Nobody)
MCReferences == {r1, r2}
MCConnections == {c1, c2}
MCSymmetry ==
    Permutations(MCGranted) \cup Permutations(MCReferences) \cup Permutations(MCConnections)
=============================================================================
