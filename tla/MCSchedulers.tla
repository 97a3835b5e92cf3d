------------------------------ MODULE MCSchedulers ------------------------------
(* Three timers on every clock, armed and cancelled by a testbench between    *)
(* driving calls and by each other's callbacks.                               *)
EXTENDS Schedulers

MCDelays == {-1, 1}
MCSpans == {0, 1}
=================================================================================
