----------------------------- MODULE MCTcpCrossing -----------------------------
(* Opens that cross: both sides open actively, or B listens first and is      *)
(* turned into an active opener by OPEN or SEND.  A duplicate may arrive.     *)
EXTENDS TcpProperties

MCIss == [s \in Sides |-> IF s = "A" THEN 31 ELSE 9]
MCPort == [s \in Sides |-> TRUE]
MCSend == [s \in Sides |-> IF s = "B" THEN 1 ELSE 0]
MCBudget == [k \in BudgetKeys |->
                IF k = "open" THEN 2 ELSE IF k = "duplicate" THEN 1 ELSE 0]
===============================================================================
