----------------------------- MODULE MCTcpTransfer -----------------------------
(* A sends three bytes to B through a window of two, closes, and the wire     *)
(* loses and repeats a segment.  A's numbers wrap inside the transfer.        *)
EXTENDS TcpRefinement

MCIss == [s \in Sides |-> IF s = "A" THEN 29 ELSE 9]
MCPort == [s \in Sides |-> TRUE]
MCSend == [s \in Sides |-> IF s = "A" THEN 3 ELSE 0]
MCBudget == [k \in BudgetKeys |-> IF k \in {"lose", "duplicate", "rto", "persist"} THEN 1 ELSE 0]
===============================================================================
