----------------------------- MODULE MCAccess -----------------------------
\* Values of the constants of Access for TLC.
EXTENDS Access, TLC

CONSTANTS a1, proxy, i1, i2, p1, k1, k2, j1, c1, c2

MCAddresses == {a1}
MCProxies == {proxy}
MCIdentifiers == {i1, i2}
MCClients == {p1}
MCKids == {k1, k2}
MCJtis == {j1}
MCConnections == {c1, c2}
MCMaxAttempts == [d \in Doors |-> IF d = "login" THEN 2 ELSE 1]
MCSymmetry == Permutations(MCConnections) \cup Permutations(MCKids)
=============================================================================
