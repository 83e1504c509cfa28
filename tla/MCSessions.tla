----------------------------- MODULE MCSessions -----------------------------
(***************************************************************************)
(* Instances of Sessions for TLC: one account with two sessions, or two    *)
(* accounts, two or three connections.                                     *)
(***************************************************************************)
EXTENDS Sessions, TLC

CONSTANTS a1, w1, w2, w3

OneAccount == [s \in Sessions |-> a1]

WorkerSymmetry == Permutations(Workers)
=============================================================================
