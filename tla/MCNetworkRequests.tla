------------------------- MODULE MCNetworkRequests --------------------------
(* Small instances of NetworkRequests for TLC. *)
EXTENDS NetworkRequests, TLC

CONSTANTS f1, c1, p1, p2, a1

OneEntry == [p \in Package |-> a1]
=============================================================================
