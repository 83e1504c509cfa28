-------------------------- MODULE MCRefreshClient --------------------------
(* Instances of RefreshClient for TLC: one account, one session. *)
EXTENDS RefreshClient

CONSTANTS a1, w1, w2

OneAccount == [s \in Sessions |-> a1]
=============================================================================
