------------------------------ MODULE MCTcpStream ------------------------------
(* A stream of up to three items of two kinds, offered one or two at a time. *)
EXTENDS TcpStream

MCOffers == {<<x>> : x \in Item} \cup {<<x, y>> : x, y \in Item}
===============================================================================
