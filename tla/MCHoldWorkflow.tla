--------------------------- MODULE MCHoldWorkflow ---------------------------
(* Small instances of HoldWorkflow for TLC. *)
EXTENDS HoldWorkflow, TLC

CONSTANTS e1, e2, l1

MCDeps == [l \in Link |-> {e1}]
MCBase == [l \in Link |-> e1]
=============================================================================
