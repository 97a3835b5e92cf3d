----------------------------- MODULE MCTcpProgress -----------------------------
(* A sends two bytes, as one segment or as two, both sides close when they    *)
(* like, and the wire loses one segment, whichever it is.                     *)
EXTENDS TcpProperties

MCIss == [s \in Sides |-> IF s = "A" THEN 30 ELSE 9]
MCPort == [s \in Sides |-> TRUE]
MCSend == [s \in Sides |-> IF s = "A" THEN 2 ELSE 0]
MCBudget == [k \in BudgetKeys |-> IF k = "lose" THEN 1 ELSE 0]
===============================================================================
