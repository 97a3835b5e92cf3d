------------------------------ MODULE MCTcpAbort ------------------------------
(* A fills B's window, queues more, aborts, and may open again.               *)
EXTENDS TcpProperties

MCIss == [s \in Sides |-> IF s = "A" THEN 31 ELSE 9]
MCPort == [s \in Sides |-> TRUE]
MCSend == [s \in Sides |-> IF s = "A" THEN 3 ELSE 0]
MCBudget == [k \in BudgetKeys |-> IF k \in {"open", "abort", "persist"} THEN 1 ELSE 0]
===============================================================================
