------------------------------- MODULE MCTcpLife -------------------------------
(* A whole connection: A opens actively and B passively, A sends one byte,    *)
(* both close, someone aborts, and the wire repeats a segment.                *)
EXTENDS TcpProperties

MCIss == [s \in Sides |-> IF s = "A" THEN 31 ELSE 9]
MCPort == [s \in Sides |-> s = "A"]
MCSend == [s \in Sides |-> IF s = "A" THEN 1 ELSE 0]
MCBudget == [k \in BudgetKeys |->
                IF k = "open" THEN 2 ELSE IF k \in {"abort", "duplicate"} THEN 1 ELSE 0]
===============================================================================
