------------------------------ MODULE MCSyncWire ------------------------------
(* Two established engines that close over a wire without a delay.            *)
EXTENDS SyncWire

MCIss == [s \in Sides |-> IF s = "A" THEN 1 ELSE 9]
===============================================================================
