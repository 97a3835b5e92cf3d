---------------------------- MODULE MCTcpKeepalive ----------------------------
(* Idle connections with keepalive on: A may send a byte, someone may abort,  *)
(* and the wire may lose a segment, the reset or a probe for instance.        *)
EXTENDS TcpProperties

MCIss == [s \in Sides |-> IF s = "A" THEN 31 ELSE 9]
MCPort == [s \in Sides |-> TRUE]
MCSend == [s \in Sides |-> IF s = "A" THEN 1 ELSE 0]
MCBudget == [k \in BudgetKeys |-> IF k \in {"abort", "lose"} THEN 1 ELSE 0]
===============================================================================
