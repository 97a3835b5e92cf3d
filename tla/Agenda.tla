-------------------------------- MODULE Agenda --------------------------------
(***************************************************************************)
(* What the engine is promised by a clock (the Scheduler protocol of       *)
(* tcp_model/ports/scheduler.py): a callback armed for a deadline runs at  *)
(* most once, never once cancelled, never before its deadline, never       *)
(* before one that is due earlier, and never inside another callback.      *)
(*                                                                         *)
(* The clocks of module Schedulers implement it.                           *)
(***************************************************************************)
EXTENDS Integers

VARIABLES
    clock,      \* now()
    count,      \* the number of call_later so far, which numbers the timers
    armed,      \* the timers that may still fire, [id, deadline]
    calling     \* the timer whose callback is running, 0 when there is none

vars == <<clock, count, armed, calling>>

Init == clock = 0 /\ count = 0 /\ armed = {} /\ calling = 0

Arm ==
    /\ count' = count + 1
    /\ \E timer \in armed' \ armed :
          /\ timer.id = count' /\ timer.deadline >= clock
          /\ armed' = armed \cup {timer}
    /\ UNCHANGED <<clock, calling>>

Cancel ==
    /\ \E timer \in armed : armed' = armed \ {timer}
    /\ UNCHANGED <<clock, count, calling>>

Fire ==
    /\ calling = 0
    /\ \E timer \in armed :
          /\ \A other \in armed : timer.deadline <= other.deadline
          /\ clock' >= timer.deadline
          /\ armed' = armed \ {timer}
          /\ calling' = timer.id
    /\ clock' >= clock
    /\ UNCHANGED count

Return ==
    /\ calling' = 0
    /\ UNCHANGED <<clock, count, armed>>

Pass ==
    /\ clock' > clock
    /\ UNCHANGED <<count, armed, calling>>

Spec == Init /\ [][Arm \/ Cancel \/ Fire \/ Return \/ Pass]_vars
===============================================================================
