------------------------------ MODULE Schedulers ------------------------------
(***************************************************************************)
(* The clocks an engine can be given, behind one client interface:         *)
(*   manual  ManualScheduler       (tcp_model/ports/scheduler.py)          *)
(*   wall    WallClockScheduler    (tcp_model/ports/scheduler.py)          *)
(*   sim     SimScheduler over SpoofClock (tcp_model/ports/sim_clock.py)   *)
(*   mux     SimScheduler over TimeMux    (tcp/test_runner.py)             *)
(*   simpy   SimClock                     (verif/pyhdl/sim_clock.py)       *)
(*                                                                         *)
(* Which one runs is chosen in the initial state.  Times are integers, a   *)
(* timer is the number of the call_later that armed it, and a callback is  *)
(* whatever calls its client makes until it returns.                       *)
(***************************************************************************)
EXTENDS Integers, Sequences, SequencesExt

CONSTANTS
    KINDS,          \* the clocks to run
    TIMERS,         \* bound on the calls of call_later
    DELAYS,         \* the delays the client asks for
    SPANS,          \* the spans the driver is asked to run for
    HORIZON,        \* bound on the time anything is asked to happen at
    SETTLE,         \* rounds a driver lets the asyncio loop run, 8 in the code
    MAX_STEPS       \* the timer-storm guard of run_until_idle

ASSUME SchedulersAssumption ==
    /\ KINDS \subseteq {"manual", "wall", "sim", "mux", "simpy"}
    /\ DELAYS \subseteq Int /\ SPANS \subseteq Nat
    /\ {TIMERS, HORIZON} \subseteq Nat
    /\ SETTLE \in Nat \ {0, 1} /\ MAX_STEPS \in Nat \ {0}

VARIABLES
    kind,       \* which clock runs
    now,        \* what now() returns
    timers,     \* the handles, in the order of call_later
    heap,       \* the entries of the heap, [deadline, seq, timer]
    counter,    \* the next number of itertools.count()
    running,    \* the timer whose callback is running, or None
    ready,      \* the asyncio loop's queue: tasks of timers, and the driver
    driver      \* where the driving call stands

clockVars == <<kind, now, timers, heap, counter, running, ready, driver>>

None == 0       \* no timer; in the loop's queue, the driver

OnLoop == kind \in {"sim", "mux", "simpy"}

\* The driver between two calls.
Idle == [pc |-> "idle", op |-> "none", target |-> 0, left |-> 0, next |-> "idle", steps |-> 0]

Init ==
    /\ kind \in KINDS
    /\ now = 0 /\ counter = 0 /\ running = None
    /\ timers = <<>> /\ ready = <<>> /\ heap = {}
    /\ driver = Idle

Clamped(delay) == IF delay < 0 THEN 0 ELSE delay

\* An operator named Mut_... is the one that follows it with a plausible bug.

Mut_Sooner(x, y) == x.deadline < y.deadline \/ (x.deadline = y.deadline /\ x.seq > y.seq)

\* The order of the heap's tuples.
Sooner(x, y) == x.deadline < y.deadline \/ (x.deadline = y.deadline /\ x.seq < y.seq)

Soonest == CHOOSE e \in heap : \A f \in heap \ {e} : Sooner(e, f)

Entry(deadline, t) == [deadline |-> deadline, seq |-> counter, timer |-> t]

Dead(e) == timers[e.timer].cancelled

\* Timer t may still fire.
Armed(t) == ~timers[t].cancelled /\ timers[t].state # "done"

-------------------------------------------------------------------------------
(* The client: a testbench between two driving calls, or a callback.         *)

\* Under a simulator the far engine's receive path also runs while time does.
ClientTurn ==
    \/ running # None
    \/ driver.pc = "idle"
    \/ kind = "mux" /\ driver.pc \in {"lock", "sleep"}

NewTimer(delay, state) ==
    [deadline |-> now + Clamped(delay), delay |-> Clamped(delay), cancelled |-> FALSE,
     state |-> state]

\* call_later, and SimClock.sleep and wait_until, which return at once unless
\* the time is still to come.
CallLater(delay) ==
    /\ ClientTurn
    /\ Len(timers) < TIMERS /\ now + delay <= HORIZON
    /\ kind = "simpy" => delay > 0
    /\ IF kind \in {"sim", "mux"}
       THEN /\ timers' = Append(timers, NewTimer(delay, "new"))
            /\ ready' = Append(ready, Len(timers'))
            /\ UNCHANGED <<heap, counter>>
       ELSE /\ timers' = Append(timers, NewTimer(delay, "waiting"))
            /\ heap' = heap \cup {Entry(now + Clamped(delay), Len(timers'))}
            /\ counter' = counter + 1
            /\ UNCHANGED ready
    /\ UNCHANGED <<kind, now, running, driver>>

\* cancel; on a loop the waiting task is woken to learn it was cancelled.  A
\* handle that has fired takes no notice.
Cancel(t) ==
    /\ ClientTurn
    /\ Armed(t)
    /\ timers' = [timers EXCEPT ![t].cancelled = TRUE]
    /\ ready' = IF OnLoop /\ timers[t].state = "waiting" THEN Append(ready, t) ELSE ready
    /\ UNCHANGED <<kind, now, heap, counter, running, driver>>

CallbackReturns ==
    /\ running # None
    /\ running' = None
    /\ UNCHANGED <<kind, now, timers, heap, counter, ready, driver>>

-------------------------------------------------------------------------------
(* The steps the drivers share.                                              *)

Between == running = None

Call(op, target, pc) ==
    /\ Between /\ driver = Idle
    /\ driver' = [Idle EXCEPT !.op = op, !.target = target, !.pc = pc]

Goto(pc) == driver' = [driver EXCEPT !.pc = pc]

At(pc) == Between /\ driver.pc = pc

Mut_Take(e) ==
    /\ heap' = heap \ {e}
    /\ running' = e.timer
    /\ timers' = [timers EXCEPT ![e.timer].state = "done"]

\* heappop, and the callback unless the entry was cancelled.
Take(e) ==
    /\ heap' = heap \ {e}
    /\ IF Dead(e) THEN UNCHANGED <<running, timers>>
       ELSE /\ running' = e.timer
            /\ timers' = [timers EXCEPT ![e.timer].state = "done"]

LaterOf(x, y) == IF x < y THEN y ELSE x

SoonerOf(x, y) == IF x < y THEN x ELSE y

-------------------------------------------------------------------------------
(* ManualScheduler: time moves to each deadline, then to the end of the span.*)

Advance(dt) ==
    /\ kind = "manual" /\ now + dt <= HORIZON
    /\ Call("run", now + dt, "loop")
    /\ UNCHANGED <<kind, now, timers, heap, counter, running, ready>>

ManualRunUntilIdle ==
    /\ kind = "manual"
    /\ Call("idle", 0, "loop")
    /\ UNCHANGED <<kind, now, timers, heap, counter, running, ready>>

\* run_until_idle raises when it has taken MAX_STEPS entries and more remain.
Storm == driver.op = "idle" /\ driver.steps >= MAX_STEPS

Mut_ManualDue(e) == driver.op = "run" => e.deadline < driver.target

ManualDue(e) == driver.op = "run" => e.deadline <= driver.target

ManualGoesOn == heap # {} /\ ManualDue(Soonest) /\ ~Storm

ManualPop ==
    /\ kind = "manual" /\ At("loop") /\ ManualGoesOn
    /\ now' = LaterOf(now, Soonest.deadline)
    /\ Take(Soonest)
    /\ driver' = [driver EXCEPT !.steps = IF driver.op = "idle" THEN @ + 1 ELSE @]
    /\ UNCHANGED <<kind, counter, ready>>

ManualEnd ==
    /\ kind = "manual" /\ At("loop") /\ ~ManualGoesOn
    /\ now' = IF driver.op = "run" THEN driver.target ELSE now
    /\ driver' = Idle
    /\ UNCHANGED <<kind, timers, heap, counter, running, ready>>

-------------------------------------------------------------------------------
(* WallClockScheduler: time passes by itself, between any two steps.         *)

WallCall(op, dt) ==
    /\ kind = "wall" /\ now + dt <= HORIZON
    /\ Call(op, now + dt, IF op = "run" THEN "fire" ELSE "check")
    /\ UNCHANGED <<kind, now, timers, heap, counter, running, ready>>

\* The head of run_until_idle's loop, which raises when its time is over.
WallCheck ==
    /\ kind = "wall" /\ At("check")
    /\ IF heap = {} \/ now > driver.target THEN driver' = Idle ELSE Goto("fire")
    /\ UNCHANGED <<kind, now, timers, heap, counter, running, ready>>

\* One turn of _fire_due, or its end.
WallFire ==
    /\ kind = "wall" /\ At("fire")
    /\ IF heap # {} /\ Soonest.deadline <= now
       THEN Take(Soonest) /\ UNCHANGED driver
       ELSE Goto("rest") /\ UNCHANGED <<heap, running, timers>>
    /\ UNCHANGED <<kind, now, counter, ready>>

\* Sleep until the head of the heap is due, cancelled or not, or the time is
\* over.  The clock is read again: what fell due since _fire_due looked is left.
WallRest ==
    /\ kind = "wall" /\ At("rest")
    /\ LET over == IF driver.op = "run" THEN now >= driver.target ELSE heap = {}
           wake == IF heap = {} THEN driver.target
                   ELSE SoonerOf(driver.target, Soonest.deadline)
       IN  driver' = IF over THEN Idle
                     ELSE [driver EXCEPT !.pc = "sleep", !.left = LaterOf(wake - now, 0)]
    /\ UNCHANGED <<kind, now, timers, heap, counter, running, ready>>

WallWake ==
    /\ kind = "wall" /\ At("sleep") /\ driver.left = 0
    /\ Goto(IF driver.op = "run" THEN "fire" ELSE "check")
    /\ UNCHANGED <<kind, now, timers, heap, counter, running, ready>>

\* The wall clock, and the simulator under TimeMux: its time passes while the
\* loop is quiet, for segments are being driven or wait_ns is pending.
Tick ==
    /\ \/ kind = "wall" /\ (now < HORIZON \/ (driver.pc = "sleep" /\ driver.left > 0))
       \/ /\ kind = "mux" /\ Between /\ ready = <<>>
          /\ \/ driver.pc \in {"idle", "lock"} /\ now < HORIZON
             \/ driver.pc = "sleep" /\ driver.left > 0
    /\ now' = now + 1
    /\ driver' = IF driver.pc = "sleep" /\ driver.left > 0
                 THEN [driver EXCEPT !.left = @ - 1] ELSE driver
    /\ UNCHANGED <<kind, timers, heap, counter, running, ready>>

-------------------------------------------------------------------------------
(* The asyncio loop, first come first served, and SimScheduler's tasks.      *)

\* The task of a timer reaches its first await and registers with the clock.
TaskStarts ==
    LET t == ready[1] IN
    /\ timers[t].state = "new" /\ ~timers[t].cancelled
    /\ timers' = [timers EXCEPT ![t].state = "waiting"]
    /\ heap' = heap \cup {Entry(now + timers[t].delay, t)}
    /\ counter' = counter + 1
    /\ ready' = Tail(ready)
    /\ UNCHANGED running

\* Its wait is over, and the callback runs.
TaskResumes ==
    LET t == ready[1] IN
    /\ timers[t].state = "woken" /\ ~timers[t].cancelled
    /\ timers' = [timers EXCEPT ![t].state = "done"]
    /\ running' = t
    /\ ready' = Tail(ready)
    /\ UNCHANGED <<heap, counter>>

\* It was cancelled before it started, in its wait, or after its wait was over.
TaskCancelled ==
    LET t == ready[1] IN
    /\ timers[t].cancelled
    /\ timers' = [timers EXCEPT ![t].state = "done"]
    /\ ready' = Tail(ready)
    /\ UNCHANGED <<heap, counter, running>>

TaskStep ==
    /\ OnLoop /\ Between
    /\ driver.pc \in {"idle", "settle", "lock", "sleep"}
    /\ ready # <<>> /\ ready[1] # None
    /\ TaskStarts \/ TaskResumes \/ TaskCancelled
    /\ UNCHANGED <<kind, now, driver>>

Mut_SettleRounds == 1

\* What _settle lets the loop run before the driver looks at the heap.
SettleRounds == SETTLE

\* await _settle(), then go on at next; queue is the loop's queue so far.
Settle(call, queue, next) ==
    /\ driver' = [call EXCEPT !.pc = "settle", !.left = SettleRounds, !.next = next]
    /\ ready' = Append(queue, None)

DriverTurn ==
    /\ At("settle") /\ ready # <<>> /\ ready[1] = None
    /\ IF driver.left > 1
       THEN /\ driver' = [driver EXCEPT !.left = @ - 1]
            /\ ready' = Append(Tail(ready), None)
       ELSE /\ driver' = IF driver.next = "idle" THEN Idle
                         ELSE [driver EXCEPT !.pc = driver.next, !.left = 0]
            /\ ready' = Tail(ready)
    /\ UNCHANGED <<kind, now, timers, heap, counter, running>>

\* The waits of these live entries are over ...
Wake(entries) ==
    timers' = [t \in DOMAIN timers |->
                 IF \E e \in entries : e.timer = t
                 THEN [timers[t] EXCEPT !.state = "woken"] ELSE timers[t]]

\* The entries in the order they leave the heap; there is only one.
InOrder(entries) ==
    {s \in SetToSeqs(entries) : \A i, j \in DOMAIN s : i < j => Sooner(s[i], s[j])}

\* ... and their tasks are queued, soonest first.
Queued(entries) == {ready \o [i \in DOMAIN s |-> s[i].timer] : s \in InOrder(entries)}

Live == {e \in heap : ~Dead(e)}

-------------------------------------------------------------------------------
(* SpoofClock: one waiter is woken at a time, and the loop settles.          *)

SpoofRunFor(dt) ==
    /\ kind = "sim" /\ Between /\ driver = Idle /\ now + dt <= HORIZON
    /\ Settle([Idle EXCEPT !.op = "run", !.target = now + dt], ready, "loop")
    /\ UNCHANGED <<kind, now, timers, heap, counter, running>>

SpoofRunUntilIdle ==
    /\ kind = "sim" /\ Between /\ driver = Idle
    /\ Settle([Idle EXCEPT !.op = "idle"], ready, "loop")
    /\ UNCHANGED <<kind, now, timers, heap, counter, running>>

\* What _pop_live returns, and what it leaves in the heap.
FirstLive == CHOOSE e \in Live : \A f \in Live \ {e} : Sooner(e, f)

AfterFirstLive == {e \in heap : Sooner(FirstLive, e)}

\* run_for looks at the head, cancelled or not, before it pops.
SpoofLooksFurther == driver.op = "run" => heap # {} /\ Soonest.deadline <= driver.target

InSpan(e) == driver.op = "run" => e.deadline <= driver.target

SpoofWake ==
    /\ kind = "sim" /\ At("loop") /\ SpoofLooksFurther
    /\ Live # {} /\ InSpan(FirstLive)
    /\ now' = LaterOf(now, FirstLive.deadline)
    /\ heap' = AfterFirstLive
    /\ Wake({FirstLive})
    /\ LET steps == IF driver.op = "idle" THEN driver.steps + 1 ELSE 0 IN
       IF steps > MAX_STEPS
       THEN driver' = Idle /\ ready' = Append(ready, FirstLive.timer)
       ELSE Settle([driver EXCEPT !.steps = steps], Append(ready, FirstLive.timer), "loop")
    /\ UNCHANGED <<kind, counter, running>>

Mut_SpoofPutBack == heap' = AfterFirstLive /\ UNCHANGED counter

\* run_for returns a live entry beyond the span to the heap, with a new number.
SpoofPutBack ==
    /\ heap' = AfterFirstLive \cup {Entry(FirstLive.deadline, FirstLive.timer)}
    /\ counter' = counter + 1

SpoofEnd ==
    /\ kind = "sim" /\ At("loop")
    /\ \/ ~SpoofLooksFurther /\ UNCHANGED <<heap, counter>>
       \/ SpoofLooksFurther /\ Live = {} /\ heap' = {} /\ UNCHANGED counter
       \/ SpoofLooksFurther /\ Live # {} /\ ~InSpan(FirstLive) /\ SpoofPutBack
    /\ IF driver.op = "idle" THEN driver' = Idle /\ UNCHANGED <<now, ready>>
       ELSE now' = driver.target /\ Settle(driver, ready, "idle")
    /\ UNCHANGED <<kind, timers, running>>

-------------------------------------------------------------------------------
(* TimeMux: one wait_ns in the simulator at a time, for the earliest waiter. *)

MuxStep(span) ==
    /\ kind = "mux" /\ span > 0 /\ Between /\ driver = Idle
    /\ now + span <= HORIZON \/ Live # {} \/ ready # <<>>
    /\ Settle([Idle EXCEPT !.target = span], ready, "fire")
    /\ UNCHANGED <<kind, now, timers, heap, counter, running>>

\* _fire_due before the wait ("fire") and after it ("woke"), and _settle.
MuxFire ==
    /\ kind = "mux" /\ (At("fire") \/ At("woke"))
    /\ LET due == {e \in heap : e.deadline <= now} IN
       /\ heap' = heap \ due
       /\ Wake(due \cap Live)
       /\ \E queue \in Queued(due \cap Live) :
             Settle(driver, queue, IF driver.pc = "fire" THEN "aim" ELSE "idle")
    /\ UNCHANGED <<kind, now, counter, running>>

\* How long to wait is settled here, before the lock is free.
MuxAim ==
    /\ kind = "mux" /\ At("aim")
    /\ LET span == IF Live = {} THEN driver.target
                   ELSE SoonerOf(driver.target, FirstLive.deadline - now)
       IN  driver' = IF span > 0 THEN [driver EXCEPT !.pc = "lock", !.target = span]
                     ELSE [driver EXCEPT !.pc = "woke"]
    /\ UNCHANGED <<kind, now, timers, heap, counter, running, ready>>

MuxLocks ==
    /\ kind = "mux" /\ At("lock")
    /\ driver' = [driver EXCEPT !.pc = "sleep", !.left = driver.target]
    /\ UNCHANGED <<kind, now, timers, heap, counter, running, ready>>

MuxWakes ==
    /\ kind = "mux" /\ At("sleep") /\ driver.left = 0 /\ ready = <<>>
    /\ Goto("woke")
    /\ UNCHANGED <<kind, now, timers, heap, counter, running, ready>>

-------------------------------------------------------------------------------
(* SimClock: the simulator, or a wall-clock pump, tells simpy the time.      *)

\* env.run(until=t) stops ahead of what is due at t exactly.
AdvanceTo(t) ==
    /\ kind = "simpy" /\ Between /\ t > now
    /\ LET due == {e \in heap : e.deadline < t} IN
       /\ heap' = heap \ due
       /\ Wake(due \cap Live)
       /\ ready' \in Queued(due \cap Live)
    /\ now' = t
    /\ UNCHANGED <<kind, counter, running, driver>>

-------------------------------------------------------------------------------
Client ==
    \/ \E delay \in DELAYS : CallLater(delay)
    \/ \E t \in DOMAIN timers : Cancel(t)
    \/ CallbackReturns

Drive ==
    \/ \E dt \in SPANS : Advance(dt) \/ SpoofRunFor(dt) \/ MuxStep(dt)
    \/ \E op \in {"run", "idle"}, dt \in SPANS : WallCall(op, dt)
    \/ ManualRunUntilIdle \/ SpoofRunUntilIdle
    \/ \E t \in 1 .. HORIZON + 1 : AdvanceTo(t)

\* The steps of a driving call under way, and of the loop.
Proceed ==
    \/ ManualPop \/ ManualEnd
    \/ WallCheck \/ WallFire \/ WallRest \/ WallWake
    \/ TaskStep \/ DriverTurn
    \/ SpoofWake \/ SpoofEnd
    \/ MuxFire \/ MuxAim \/ MuxLocks \/ MuxWakes

Next == Client \/ Drive \/ Proceed \/ Tick

Spec == Init /\ [][Next]_clockVars

\* The calls of a testbench that keeps driving its clock, on each clock.
DriveOn ==
    \/ ManualRunUntilIdle \/ SpoofRunUntilIdle
    \/ \E op \in {"run", "idle"}, dt \in SPANS : WallCall(op, dt)
    \/ \E dt \in SPANS : MuxStep(dt)
    \/ AdvanceTo(HORIZON + 1)

\* Callbacks return, calls under way proceed, time passes, and the testbench
\* drives its clock again after every call, as far as the horizon.
FairSpec ==
    /\ Spec
    /\ WF_clockVars(CallbackReturns \/ Proceed) /\ WF_clockVars(Tick)
    /\ SF_clockVars(DriveOn)

-------------------------------------------------------------------------------
(* Properties                                                                *)

\* Every clock is an Agenda: its callbacks run once, in time, in the order of
\* their deadlines and one at a time, however cancelling, arming and driving
\* interleave (the Scheduler protocol).
Promise ==
    INSTANCE Agenda WITH
        clock   <- now,
        count   <- Len(timers),
        armed   <- {[id |-> t, deadline |-> timers[t].deadline] :
                       t \in {t \in DOMAIN timers : Armed(t)}},
        calling <- running

KeepsThePromise == Promise!Spec

\* A clock that owns its time never moves it past a timer that still waits, so
\* what fires fires on time.  A simulator or a wall clock runs on regardless.
NothingOverdue ==
    kind \in {"manual", "sim", "simpy"} =>
        \A t \in DOMAIN timers :
           Armed(t) /\ timers[t].state # "woken" => now <= timers[t].deadline

\* When advance or run_for returns, nothing that was due within its span is
\* left: callbacks armed while others fire are honoured, and an entry due at
\* the very end too (ManualScheduler, SpoofClock).
SpanIsServed ==
    [][driver.op = "run" /\ driver' = Idle /\ kind \in {"manual", "sim"} =>
          \A t \in DOMAIN timers : Armed(t)' => timers'[t].deadline > driver.target]_clockVars

\* No timer armed before the running one, for the same deadline, is passed over.
RegistrationOrder ==
    running # None =>
        \A t \in 1 .. running - 1 :
           Armed(t) => timers[t].deadline # timers[running].deadline

\* Timers due together run in the order they were armed, on every clock but
\* SpoofClock (ManualScheduler, WallClockScheduler, TimeMux, SimClock).
TiesInOrder == kind # "sim" => RegistrationOrder

\* Whatever is armed fires or is cancelled, if the clock is driven on: no entry
\* and no wake-up is lost on the way.
NoTimerLost ==
    \A t \in 1 .. TIMERS :
        (t \in DOMAIN timers /\ Armed(t)) ~> (t \in DOMAIN timers /\ ~Armed(t))
===============================================================================
