--------------------------- MODULE SchedulersProofs ---------------------------
(***************************************************************************)
(* Every clock is an Agenda, whatever its client asks of it: a callback    *)
(* runs once, in time, in deadline order and never inside another one.     *)
(* With it: what may be overdue, what a driving call leaves behind, and    *)
(* which ties keep the order of registration.                              *)
(***************************************************************************)
EXTENDS Schedulers, FiniteSetTheorems, SequenceTheorems, WellFoundedInduction, TLAPS

Handle == [deadline : Nat, delay : Nat, cancelled : BOOLEAN,
           state : {"new", "waiting", "woken", "done"}]

Calls == [pc : {"idle", "loop", "check", "fire", "rest", "sleep", "settle", "aim", "lock", "woke"},
           op : {"none", "run", "idle"}, target : Nat, left : Nat,
           next : {"idle", "loop", "fire", "aim"}, steps : Nat]

TypeOK ==
    /\ kind \in {"manual", "wall", "sim", "mux", "simpy"}
    /\ now \in Nat /\ counter \in Nat
    /\ timers \in Seq(Handle)
    /\ heap \in SUBSET [deadline : Nat, seq : Nat, timer : DOMAIN timers]
    /\ IsFiniteSet(heap)
    /\ running \in {None} \cup DOMAIN timers
    /\ ready \in Seq({None} \cup DOMAIN timers)
    /\ driver \in Calls

\* What has become of timer t: its task has yet to start, it waits in the heap,
\* or its wait is over and its callback is still to come.
New(t) == timers[t].state = "new"
Waits(t) == Armed(t) /\ timers[t].state = "waiting"
Woken(t) == Armed(t) /\ timers[t].state = "woken"

\* Where each clock's driver may stand, and what it has still to serve.
DriverOK ==
    /\ kind = "manual" => driver.pc \in {"idle", "loop"}
    /\ kind = "wall" => driver.pc \in {"idle", "check", "fire", "rest", "sleep"}
    /\ kind = "sim" => driver.pc \in {"idle", "settle", "loop"} /\ driver.next \in {"idle", "loop"}
    /\ kind = "mux" => /\ driver.pc \in {"idle", "settle", "fire", "aim", "lock", "sleep", "woke"}
                       /\ driver.next \in {"idle", "fire", "aim"}
    /\ kind = "simpy" => driver.pc = "idle"
    /\ kind \in {"manual", "sim"} /\ driver.pc # "idle" =>
          driver.op = "idle" \/ (driver.op = "run" /\ now <= driver.target)
    /\ driver.pc = "settle" => driver.left \in 1 .. SETTLE

\* The driver is in the loop's queue once, while it settles.  Whatever had been
\* woken runs in the first round, and after it the driver is the last in line:
\* two rounds leave the queue empty.
LoopOK ==
    /\ ~OnLoop => ready = <<>>
    /\ OnLoop /\ driver.pc \in {"loop", "fire", "aim", "woke"} => ready = <<>> /\ running = None
    /\ \A i \in DOMAIN ready : ready[i] = None => driver.pc = "settle"
    /\ \A i, j \in DOMAIN ready : ready[i] = None /\ ready[j] = None => i = j
    /\ \A i, j \in DOMAIN ready :
          ready[i] = None /\ ready[j] # None /\ Woken(ready[j]) => j < i
    /\ driver.pc = "settle" /\ driver.left < SETTLE =>
          /\ running = None
          /\ \A i \in DOMAIN ready : ready[i] = None => i = Len(ready)
          /\ \A i \in DOMAIN ready : ready[i] # None => ~Woken(ready[i])

\* The heap holds every timer that waits, once, and nothing else that is live.
HeapOK ==
    /\ \A e \in heap : /\ e.seq < counter /\ e.deadline = timers[e.timer].deadline
                       /\ Waits(e.timer) \/ timers[e.timer].cancelled
                       /\ ~New(e.timer)
    /\ \A e, f \in heap : e.seq = f.seq \/ e.timer = f.timer => e = f
    /\ kind # "sim" => \A e, f \in heap : e.seq < f.seq => e.timer < f.timer
    /\ \A t \in DOMAIN timers : Waits(t) => \E e \in heap : e.timer = t

\* The loop holds every task that is to start, in the order of their timers,
\* and every task that is to resume.
TaskOK ==
    /\ kind \notin {"sim", "mux"} => \A t \in DOMAIN timers : ~New(t)
    /\ ~OnLoop => \A t \in DOMAIN timers : ~Woken(t)
    /\ \A t \in DOMAIN timers :
          /\ New(t) => timers[t].deadline = now + timers[t].delay
          /\ Woken(t) => timers[t].deadline <= now
          /\ New(t) \/ Woken(t) => \E i \in DOMAIN ready : ready[i] = t
    /\ \A t, u \in DOMAIN timers : New(t) /\ ~New(u) => u < t
    /\ \A i \in DOMAIN ready : ready[i] # None => ~Waits(ready[i])
    /\ \A i, j \in DOMAIN ready :
          /\ i < j /\ ready[i] # None /\ ready[j] # None
          /\ New(ready[i]) /\ New(ready[j])
          => ready[i] < ready[j]

\* Timer t is due before timer u.  SpoofClock does not tell ties apart.
Before(t, u) ==
    \/ timers[t].deadline < timers[u].deadline
    \/ timers[t].deadline = timers[u].deadline /\ (kind = "sim" \/ t < u)

\* The woken timers are due before all others, and are queued as they are due.
OrderOK ==
    /\ \A t, u \in DOMAIN timers : Woken(t) /\ Armed(u) /\ ~Woken(u) => Before(t, u)
    /\ \A i, j \in DOMAIN ready :
          /\ i < j /\ ready[i] # None /\ ready[j] # None
          /\ Woken(ready[i]) /\ Woken(ready[j])
          => Before(ready[i], ready[j])

\* A run_for that has set the time to its end has only itself left to run.
ServedOK ==
    kind = "sim" /\ driver.pc = "settle" /\ driver.next = "idle" /\ driver.op = "run" =>
        /\ running = None
        /\ \A i \in DOMAIN ready : ready[i] = None
        /\ \A t \in DOMAIN timers : Armed(t) => timers[t].deadline > driver.target

IInv ==
    /\ TypeOK /\ DriverOK /\ LoopOK /\ HeapOK /\ TaskOK /\ OrderOK /\ ServedOK
    /\ NothingOverdue /\ TiesInOrder

-------------------------------------------------------------------------------
(* The heap.                                                                 *)

\* A set of numbers has a smallest one.
LEMMA Smallest ==
    ASSUME NEW T \in SUBSET Nat, T # {}
    PROVE  \E x \in T : \A y \in T : x <= y
<1>1. PICK x \in T : \A y \in T : ~(<<y, x>> \in OpToRel(<, Nat))
  BY WFMin, NatLessThanWellFounded
<1>2. ASSUME NEW y \in T PROVE x <= y
  <2>1. x \in Nat /\ y \in Nat
    OBVIOUS
  <2>2. ~(y < x)
    BY <1>1, <2>1 DEF OpToRel
  <2> QED
    BY <2>1, <2>2
<1> QED
  BY <1>2

\* Among some entries of the heap one leaves it first.
LEMMA OneIsSoonest ==
    ASSUME TypeOK, HeapOK, NEW S \in SUBSET heap, S # {}
    PROVE  \E e \in S : \A f \in S \ {e} : Sooner(e, f)
<1>1. \A e \in heap : e.deadline \in Nat /\ e.seq \in Nat
  BY DEF TypeOK
<1>2. PICK d \in {e.deadline : e \in S} : \A x \in {e.deadline : e \in S} : d <= x
  <2> DEFINE D == {e.deadline : e \in S}
  <2>1. D \in SUBSET Nat /\ D # {}
    BY <1>1
  <2> HIDE DEF D
  <2>2. \E d \in D : \A x \in D : d <= x
    BY <2>1, Smallest
  <2> QED
    BY <2>2 DEF D
<1> DEFINE T == {e \in S : e.deadline = d}
<1>3. PICK q \in {e.seq : e \in T} : \A x \in {e.seq : e \in T} : q <= x
  <2>1. {e.seq : e \in T} \in SUBSET Nat /\ {e.seq : e \in T} # {}
    BY <1>1, <1>2
  <2> HIDE DEF T
  <2> QED
    BY <2>1, Smallest
<1>4. PICK e \in T : e.seq = q
  BY <1>3
<1>5. ASSUME NEW f \in S \ {e} PROVE Sooner(e, f)
  <2>1. e.seq # f.seq
    BY <1>5 DEF HeapOK
  <2>2. d <= f.deadline /\ (f.deadline = d => q <= f.seq)
    BY <1>2, <1>3, <1>5
  <2>3. d \in Nat /\ q \in Nat /\ f.deadline \in Nat /\ f.seq \in Nat
    BY <1>1, <1>2, <1>3, <1>5
  <2> QED
    BY <1>4, <2>1, <2>2, <2>3 DEF Sooner
<1> QED
  BY <1>4, <1>5

\* The head of the heap.
LEMMA SoonestIsFirst ==
    ASSUME TypeOK, HeapOK, heap # {}
    PROVE  Soonest \in heap /\ \A f \in heap \ {Soonest} : Sooner(Soonest, f)
BY OneIsSoonest DEF Soonest

\* The first live entry of the heap.
LEMMA FirstLiveIsFirst ==
    ASSUME TypeOK, HeapOK, Live # {}
    PROVE  FirstLive \in Live /\ \A f \in Live \ {FirstLive} : Sooner(FirstLive, f)
<1>1. Live \in SUBSET heap
  BY DEF Live
<1> QED
  BY <1>1, OneIsSoonest DEF FirstLive

\* The tail of the queue.
LEMMA TailOf ==
    ASSUME NEW T, NEW q \in Seq(T), q # <<>>
    PROVE  /\ Tail(q) \in Seq(T) /\ Len(q) \in Nat /\ Len(q) > 0 /\ Len(Tail(q)) = Len(q) - 1
           /\ \A i \in DOMAIN Tail(q) : i + 1 \in DOMAIN q /\ Tail(q)[i] = q[i + 1]
           /\ \A i \in DOMAIN q : i # 1 => i - 1 \in DOMAIN Tail(q) /\ Tail(q)[i - 1] = q[i]
OBVIOUS

\* What the end of the queue is when one more is queued.
LEMMA AppendOf ==
    ASSUME NEW T, NEW q \in Seq(T), NEW x \in T
    PROVE  /\ Append(q, x) \in Seq(T) /\ Len(q) \in Nat /\ Len(Append(q, x)) = Len(q) + 1
           /\ DOMAIN Append(q, x) = DOMAIN q \cup {Len(q) + 1}
           /\ \A i \in DOMAIN q : i < Len(q) + 1 /\ i \in Nat /\ Append(q, x)[i] = q[i]
           /\ Append(q, x)[Len(q) + 1] = x
OBVIOUS

\* What is appended to the loop's queue when entries fall due together: their
\* timers, all of them, as they leave the heap.
LEMMA QueuedTimers ==
    ASSUME TypeOK, NEW S \in SUBSET heap, NEW queue \in Queued(S)
    PROVE  /\ queue \in Seq({None} \cup DOMAIN timers)
           /\ Len(queue) >= Len(ready)
           /\ \A i \in 1 .. Len(ready) : queue[i] = ready[i]
           /\ \A i \in Len(ready) + 1 .. Len(queue) : \E e \in S : queue[i] = e.timer
           /\ \A e \in S : \E i \in Len(ready) + 1 .. Len(queue) : queue[i] = e.timer
           /\ \A i, j \in Len(ready) + 1 .. Len(queue) : i < j =>
                 \E e, f \in S : /\ queue[i] = e.timer /\ queue[j] = f.timer
                                 /\ Sooner(e, f)
<1> DEFINE n == Cardinality(S)
<1>1. IsFiniteSet(S) /\ n \in Nat
  BY FS_Subset, FS_CardinalityType DEF TypeOK
<1>2. PICK s \in InOrder(S) : queue = ready \o [i \in DOMAIN s |-> s[i].timer]
  BY DEF Queued
<1>3. /\ s \in [1 .. n -> S] /\ \A i, j \in 1 .. n : i # j => s[i] # s[j]
      /\ \A i, j \in 1 .. n : i < j => Sooner(s[i], s[j])
  BY <1>2 DEF InOrder, SetToSeqs
<1>4. \A e \in S : \E i \in 1 .. n : s[i] = e
  <2>1. IsFiniteSet(1 .. n) /\ Cardinality(1 .. n) = n
    BY <1>1, FS_Interval
  <2>2. s \in Injection(1 .. n, S)
    BY <1>3 DEF Injection, IsInjective
  <2>3. s \in Surjection(1 .. n, S)
    BY <1>1, <2>1, <2>2, FS_Injection
  <2> QED
    BY <2>3 DEF Surjection
<1> HIDE DEF n
<1> DEFINE tail == [i \in 1 .. n |-> s[i].timer]
<1>5. tail \in Seq({None} \cup DOMAIN timers) /\ Len(tail) = n /\ \A i \in 1 .. n : tail[i] = s[i].timer
  <2>1. \A i \in 1 .. n : s[i].timer \in DOMAIN timers
    BY <1>3 DEF TypeOK
  <2> QED
    BY <1>1, <2>1
<1>6. queue = ready \o tail
  BY <1>2, <1>3
<1> HIDE DEF tail
<1>7. ready \in Seq({None} \cup DOMAIN timers)
  BY DEF TypeOK
<1>8. /\ queue \in Seq({None} \cup DOMAIN timers) /\ Len(queue) = Len(ready) + n
      /\ \A i \in 1 .. Len(ready) : queue[i] = ready[i]
      /\ \A i \in Len(ready) + 1 .. Len(queue) : queue[i] = tail[i - Len(ready)]
  <2>1. queue \in Seq({None} \cup DOMAIN timers) /\ Len(queue) = Len(ready) + n
    BY <1>5, <1>6, <1>7, ConcatProperties
  <2>2. \A i \in 1 .. Len(ready) + n :
           queue[i] = IF i <= Len(ready) THEN ready[i] ELSE tail[i - Len(ready)]
    BY <1>5, <1>6, <1>7
  <2>3. Len(ready) \in Nat
    BY <1>7
  <2> QED
    BY <1>1, <2>1, <2>2, <2>3
<1>9. \A i \in Len(ready) + 1 .. Len(queue) :
         i - Len(ready) \in 1 .. n /\ queue[i] = s[i - Len(ready)].timer
  BY <1>1, <1>5, <1>7, <1>8
<1>10. ASSUME NEW i \in 1 .. n
       PROVE  Len(ready) + i \in Len(ready) + 1 .. Len(queue) /\ queue[Len(ready) + i] = s[i].timer
  <2>1. Len(ready) \in Nat /\ Len(ready) + i \in Len(ready) + 1 .. Len(queue) /\ Len(ready) + i - Len(ready) = i
    BY <1>1, <1>7, <1>8
  <2>2. queue[Len(ready) + i] = tail[Len(ready) + i - Len(ready)]
    BY <1>8, <2>1
  <2> QED
    BY <1>5, <2>1, <2>2
<1>11. \A i, j \in Len(ready) + 1 .. Len(queue) : i < j =>
          \E e, f \in S : queue[i] = e.timer /\ queue[j] = f.timer /\ Sooner(e, f)
  <2> SUFFICES ASSUME NEW i \in Len(ready) + 1 .. Len(queue), NEW j \in Len(ready) + 1 .. Len(queue), i < j
               PROVE  \E e, f \in S : queue[i] = e.timer /\ queue[j] = f.timer /\ Sooner(e, f)
    OBVIOUS
  <2>1. i - Len(ready) < j - Len(ready)
    BY <1>7
  <2> QED
    BY <1>3, <1>9, <2>1
<1>12. \A e \in S : \E i \in Len(ready) + 1 .. Len(queue) : queue[i] = e.timer
  BY <1>4, <1>10
<1>13. \A i \in Len(ready) + 1 .. Len(queue) : \E e \in S : queue[i] = e.timer
  BY <1>3, <1>9
<1>14. Len(queue) >= Len(ready)
  BY <1>1, <1>7, <1>8
<1> QED
  BY <1>8, <1>11, <1>12, <1>13, <1>14

-------------------------------------------------------------------------------
(* Types.                                                                    *)

\* The list of timers holds handles.
LEMMA Handles ==
    ASSUME TypeOK
    PROVE  /\ DOMAIN timers = 1 .. Len(timers) /\ Len(timers) \in Nat
           /\ \A t \in DOMAIN timers :
                 /\ timers[t] \in Handle /\ t \in Nat /\ t > 0
                 /\ timers[t].deadline \in Nat /\ timers[t].delay \in Nat
                 /\ timers[t].cancelled \in BOOLEAN
                 /\ timers[t].state \in {"new", "waiting", "woken", "done"}
<1>1. timers \in Seq(Handle)
  BY DEF TypeOK
<1>2. DOMAIN timers = 1 .. Len(timers) /\ Len(timers) \in Nat
  BY <1>1
<1>3. \A t \in DOMAIN timers : timers[t] \in Handle /\ t \in Nat /\ t > 0
  BY <1>1, <1>2, ElementOfSeq
<1> QED
  BY <1>2, <1>3 DEF Handle

\* A handle of the list is replaced, or one is added.
LEMMA HandleChange ==
    ASSUME timers \in Seq(Handle), NEW t \in DOMAIN timers, NEW h \in Handle
    PROVE  [timers EXCEPT ![t] = h] \in Seq(Handle) /\ DOMAIN [timers EXCEPT ![t] = h] = DOMAIN timers
OBVIOUS

\* A handle whose state changes, or which is cancelled, is still a handle.
LEMMA HandleTypes ==
    ASSUME NEW h \in Handle
    PROVE  /\ [h EXCEPT !.cancelled = TRUE] \in Handle
           /\ \A state \in {"new", "waiting", "woken", "done"} : [h EXCEPT !.state = state] \in Handle
BY DEF Handle

\* Taking an entry from the heap keeps the types.
LEMMA TakeTypes ==
    ASSUME TypeOK, NEW e \in heap, Take(e)
    PROVE  /\ timers' \in Seq(Handle) /\ DOMAIN timers' = DOMAIN timers
           /\ heap' \in SUBSET heap /\ IsFiniteSet(heap')
           /\ running' \in {None} \cup DOMAIN timers
<1>1. heap' = heap \ {e} /\ IsFiniteSet(heap')
  BY FS_RemoveElement DEF Take, TypeOK
<1>2. e.timer \in DOMAIN timers
  BY DEF TypeOK
<1>3. CASE Dead(e)
  BY <1>1, <1>3 DEF Take, TypeOK
<1>4. CASE ~Dead(e)
  <2>1. timers' = [timers EXCEPT ![e.timer].state = "done"] /\ running' = e.timer
    BY <1>4 DEF Take
  <2>2. timers' \in Seq(Handle) /\ DOMAIN timers' = DOMAIN timers
    <3>1. [timers[e.timer] EXCEPT !.state = "done"] \in Handle
      BY <1>2, Handles, HandleTypes
    <3> QED
      BY <1>2, <2>1, <3>1, HandleChange DEF TypeOK
  <2> QED
    BY <1>1, <1>2, <2>1, <2>2
<1> QED
  BY <1>3, <1>4

\* Ending waits keeps the types.
LEMMA WakeTypes ==
    ASSUME TypeOK, NEW S, Wake(S)
    PROVE  timers' \in Seq(Handle) /\ DOMAIN timers' = DOMAIN timers
<1>1. /\ DOMAIN timers' = DOMAIN timers
      /\ \A t \in DOMAIN timers : timers'[t] = timers[t] \/ timers'[t] = [timers[t] EXCEPT !.state = "woken"]
  BY DEF Wake
<1>2. ASSUME NEW t \in DOMAIN timers PROVE timers'[t] \in Handle
  <2>1. timers[t] \in Handle
    BY Handles
  <2>2. [timers[t] EXCEPT !.state = "woken"] \in Handle
    BY <2>1, HandleTypes
  <2> QED
    BY <1>1, <2>1, <2>2
<1>3. DOMAIN timers = 1 .. Len(timers) /\ Len(timers) \in Nat
  BY DEF TypeOK
<1> DEFINE n == Len(timers)
<1>4. timers' \in [1 .. n -> Handle]
  <2>1. timers' = [t \in 1 .. n |-> timers'[t]]
    BY <1>3 DEF Wake
  <2> QED
    BY <1>2, <1>3, <2>1
<1>5. n \in Nat
  BY <1>3
<1> HIDE DEF n
<1>6. timers' \in Seq(Handle)
  BY <1>4, <1>5
<1> QED
  BY <1>1, <1>6

\* The two halves of the driver's queueing.
LEMMA SettleTypes ==
    ASSUME SchedulersAssumption, TypeOK,
           NEW call \in Calls, NEW queue \in Seq({None} \cup DOMAIN timers),
           NEW next \in {"idle", "loop", "fire", "aim"}, Settle(call, queue, next)
    PROVE  driver' \in Calls /\ ready' \in Seq({None} \cup DOMAIN timers)
<1>1. [call EXCEPT !.pc = "settle", !.left = SettleRounds, !.next = next] \in Calls
  BY DEF SchedulersAssumption, SettleRounds, Calls
<1>2. Append(queue, None) \in Seq({None} \cup DOMAIN timers)
  OBVIOUS
<1> QED
  BY <1>1, <1>2 DEF Settle

\* Every step keeps the types.
LEMMA Types ==
    ASSUME SchedulersAssumption, TypeOK, HeapOK, Next
    PROVE  TypeOK'
<1> USE DEF None
<1>0. /\ now \in Nat /\ counter \in Nat /\ driver \in Calls /\ Idle \in Calls
      /\ \A e \in heap : e.deadline \in Nat /\ e.seq \in Nat /\ e.timer \in DOMAIN timers
  BY DEF TypeOK, Idle, Calls
<1>1. CASE \E delay \in DELAYS : CallLater(delay)
  <2>1. PICK delay \in DELAYS : CallLater(delay)
    BY <1>1
  <2>2. Clamped(delay) \in Nat
    BY DEF Clamped, SchedulersAssumption
  <2>3. \A state \in {"new", "waiting"} : NewTimer(delay, state) \in Handle
    BY <2>2 DEF NewTimer, Handle, TypeOK
  <2>4. /\ timers' \in Seq(Handle) /\ Len(timers') = Len(timers) + 1
        /\ DOMAIN timers \subseteq DOMAIN timers' /\ Len(timers') \in DOMAIN timers'
    <3>1. PICK state \in {"new", "waiting"} : timers' = Append(timers, NewTimer(delay, state))
      BY <2>1 DEF CallLater
    <3>2. NewTimer(delay, state) \in Handle
      BY <2>3
    <3>3. timers \in Seq(Handle)
      BY DEF TypeOK
    <3> QED
      BY <3>1, <3>2, <3>3
  <2>5. heap' \in SUBSET [deadline : Nat, seq : Nat, timer : DOMAIN timers'] /\ IsFiniteSet(heap')
    <3>1. CASE kind \in {"sim", "mux"}
      BY <2>1, <2>4, <3>1 DEF CallLater, TypeOK
    <3>2. CASE kind \notin {"sim", "mux"}
      <4>1. heap' = heap \cup {Entry(now + Clamped(delay), Len(timers'))}
        BY <2>1, <3>2 DEF CallLater
      <4>2. Entry(now + Clamped(delay), Len(timers')) \in [deadline : Nat, seq : Nat, timer : DOMAIN timers']
        BY <1>0, <2>2, <2>4 DEF Entry
      <4>3. heap \in SUBSET [deadline : Nat, seq : Nat, timer : DOMAIN timers'] /\ IsFiniteSet(heap)
        BY <2>4 DEF TypeOK
      <4> QED
        BY <4>1, <4>2, <4>3, FS_AddElement
    <3> QED
      BY <3>1, <3>2
  <2>6. ready' \in Seq({None} \cup DOMAIN timers')
    <3>1. ready \in Seq({None} \cup DOMAIN timers') /\ Len(timers') \in {None} \cup DOMAIN timers'
      BY <2>4 DEF TypeOK
    <3>2. ready' = ready \/ ready' = Append(ready, Len(timers'))
      BY <2>1 DEF CallLater
    <3> QED
      BY <3>1, <3>2, AppendOf
  <2>7. /\ UNCHANGED <<kind, now, running, driver>>
        /\ counter' \in {counter, counter + 1}
    BY <2>1 DEF CallLater
  <2>8. running' \in {None} \cup DOMAIN timers' /\ counter' \in Nat /\ driver' \in Calls
    BY <1>0, <2>4, <2>7 DEF TypeOK
  <2> QED
    BY <2>4, <2>5, <2>6, <2>7, <2>8 DEF TypeOK
<1>2. CASE \E t \in DOMAIN timers : Cancel(t)
  <2>1. PICK t \in DOMAIN timers : Cancel(t)
    BY <1>2
  <2>2. timers' \in Seq(Handle) /\ DOMAIN timers' = DOMAIN timers
    <3>1. [timers[t] EXCEPT !.cancelled = TRUE] \in Handle
      BY Handles, HandleTypes
    <3> QED
      BY <2>1, <3>1, HandleChange DEF Cancel, TypeOK
  <2> QED
    BY <2>1, <2>2 DEF Cancel, TypeOK
<1>3. CASE CallbackReturns
  BY <1>3 DEF CallbackReturns, TypeOK
<1>4. CASE \E dt \in SPANS : Advance(dt) \/ SpoofRunFor(dt) \/ MuxStep(dt)
  <2>1. PICK dt \in SPANS : Advance(dt) \/ SpoofRunFor(dt) \/ MuxStep(dt)
    BY <1>4
  <2>2. dt \in Nat /\ now + dt \in Nat
    BY <1>0 DEF SchedulersAssumption
  <2>3. CASE Advance(dt)
    BY <2>2, <2>3 DEF Advance, Call, Idle, Calls, TypeOK
  <2>4. CASE SpoofRunFor(dt)
    <3>1. [Idle EXCEPT !.op = "run", !.target = now + dt] \in Calls
      BY <2>2 DEF Idle, Calls
    <3> QED
      BY <2>4, <3>1, SettleTypes DEF SpoofRunFor, TypeOK
  <2>5. CASE MuxStep(dt)
    <3>1. [Idle EXCEPT !.target = dt] \in Calls
      BY <2>2 DEF Idle, Calls
    <3> QED
      BY <2>5, <3>1, SettleTypes DEF MuxStep, TypeOK
  <2> QED
    BY <2>1, <2>3, <2>4, <2>5
<1>5. CASE \E op \in {"run", "idle"}, dt \in SPANS : WallCall(op, dt)
  <2>1. PICK op \in {"run", "idle"}, dt \in SPANS : WallCall(op, dt)
    BY <1>5
  <2>2. dt \in Nat /\ now + dt \in Nat
    BY <1>0 DEF SchedulersAssumption
  <2> QED
    BY <2>1, <2>2 DEF WallCall, Call, Idle, Calls, TypeOK
<1>6. CASE ManualRunUntilIdle
  BY <1>6 DEF ManualRunUntilIdle, Call, Idle, Calls, TypeOK
<1>7. CASE SpoofRunUntilIdle
  <2>1. [Idle EXCEPT !.op = "idle"] \in Calls
    BY DEF Idle, Calls
  <2> QED
    BY <1>7, <2>1, SettleTypes DEF SpoofRunUntilIdle, TypeOK
<1>8. CASE \E t \in 1 .. HORIZON + 1 : AdvanceTo(t)
  <2>1. PICK t \in 1 .. HORIZON + 1 : AdvanceTo(t)
    BY <1>8
  <2> DEFINE due == {e \in heap : e.deadline < t}
  <2>2. /\ heap' = heap \ due /\ Wake(due \cap Live) /\ ready' \in Queued(due \cap Live) /\ now' = t
        /\ UNCHANGED <<kind, counter, running, driver>>
    BY <2>1 DEF AdvanceTo
  <2>3. due \cap Live \in SUBSET heap /\ heap' \in SUBSET heap /\ IsFiniteSet(heap')
    BY <2>2, FS_Subset DEF TypeOK
  <2>4. ready' \in Seq({None} \cup DOMAIN timers)
    BY <2>2, <2>3, QueuedTimers
  <2>5. timers' \in Seq(Handle) /\ DOMAIN timers' = DOMAIN timers
    BY <2>2, WakeTypes
  <2>6. t \in Nat
    BY DEF SchedulersAssumption
  <2> QED
    BY <2>2, <2>3, <2>4, <2>5, <2>6 DEF TypeOK
<1>9. CASE ManualPop
  <2>1. heap # {} /\ Take(Soonest) /\ UNCHANGED <<kind, counter, ready>>
    BY <1>9 DEF ManualPop, ManualGoesOn
  <2>2. Soonest \in heap
    BY <2>1, SoonestIsFirst
  <2>3. now' \in Nat
    BY <1>0, <1>9, <2>2 DEF ManualPop, LaterOf
  <2>4. driver' \in Calls
    BY <1>0, <1>9 DEF ManualPop, Calls
  <2> QED
    BY <2>1, <2>2, <2>3, <2>4, TakeTypes DEF TypeOK
<1>10. CASE ManualEnd
  BY <1>0, <1>10 DEF ManualEnd, TypeOK, Calls
<1>11. CASE WallCheck
  BY <1>0, <1>11 DEF WallCheck, Goto, TypeOK, Calls
<1>12. CASE WallFire
  <2>1. CASE heap # {} /\ Soonest.deadline <= now
    <3>1. Take(Soonest) /\ UNCHANGED <<driver, kind, now, counter, ready>>
      BY <1>12, <2>1 DEF WallFire
    <3>2. Soonest \in heap
      BY <2>1, SoonestIsFirst
    <3> QED
      BY <3>1, <3>2, TakeTypes DEF TypeOK
  <2>2. CASE ~(heap # {} /\ Soonest.deadline <= now)
    BY <1>0, <1>12, <2>2 DEF WallFire, Goto, TypeOK, Calls
  <2> QED
    BY <2>1, <2>2
<1>13. CASE WallRest
  <2>1. heap # {} => Soonest.deadline \in Nat
    BY <1>0, SoonestIsFirst
  <2>2. LaterOf((IF heap = {} THEN driver.target ELSE SoonerOf(driver.target, Soonest.deadline)) - now, 0) \in Nat
    BY <1>0, <2>1 DEF LaterOf, SoonerOf, Calls
  <2>3. driver' \in Calls
    BY <1>0, <1>13, <2>2 DEF WallRest, Calls
  <2> QED
    BY <1>13, <2>3 DEF WallRest, TypeOK
<1>14. CASE WallWake
  BY <1>0, <1>14 DEF WallWake, Goto, TypeOK, Calls
<1>15. CASE TaskStep
  <2>1. /\ ready # <<>> /\ ready[1] # None /\ UNCHANGED <<kind, now, driver>>
        /\ TaskStarts \/ TaskResumes \/ TaskCancelled
    BY <1>15 DEF TaskStep
  <2>2. ready[1] \in DOMAIN timers
    BY <2>1 DEF TypeOK
  <2>3. Tail(ready) \in Seq({None} \cup DOMAIN timers)
    BY <2>1 DEF TypeOK
  <2>4. \A state \in {"waiting", "done"} :
           LET new == [timers EXCEPT ![ready[1]].state = state]
           IN  new \in Seq(Handle) /\ DOMAIN new = DOMAIN timers
    <3> SUFFICES ASSUME NEW state \in {"waiting", "done"}
                 PROVE  LET new == [timers EXCEPT ![ready[1]].state = state]
                        IN  new \in Seq(Handle) /\ DOMAIN new = DOMAIN timers
      OBVIOUS
    <3>1. [timers[ready[1]] EXCEPT !.state = state] \in Handle
      BY <2>2, Handles, HandleTypes
    <3> QED
      BY <2>2, <3>1, HandleChange DEF TypeOK
  <2>5. CASE TaskStarts
    <3>1. Entry(now + timers[ready[1]].delay, ready[1]) \in [deadline : Nat, seq : Nat, timer : DOMAIN timers]
      <4>1. timers[ready[1]].delay \in Nat
        BY <2>2, Handles
      <4> QED
        BY <1>0, <2>2, <4>1 DEF Entry
    <3>2. heap' \in SUBSET [deadline : Nat, seq : Nat, timer : DOMAIN timers] /\ IsFiniteSet(heap')
      BY <2>5, <3>1, FS_AddElement DEF TaskStarts, TypeOK
    <3> QED
      BY <2>1, <2>3, <2>4, <2>5, <3>2 DEF TaskStarts, TypeOK
  <2>6. CASE TaskResumes
    BY <2>1, <2>2, <2>3, <2>4, <2>6 DEF TaskResumes, TypeOK
  <2>7. CASE TaskCancelled
    BY <2>1, <2>2, <2>3, <2>4, <2>7 DEF TaskCancelled, TypeOK
  <2> QED
    BY <2>1, <2>5, <2>6, <2>7
<1>16. CASE DriverTurn
  <2>0. ready # <<>> 
    BY <1>16 DEF DriverTurn
  <2>1. ready' \in Seq({None} \cup DOMAIN timers)
    <3>1. Tail(ready) \in Seq({None} \cup DOMAIN timers)
      BY <2>0 DEF TypeOK
    <3>2. Append(Tail(ready), None) \in Seq({None} \cup DOMAIN timers)
      BY <3>1
    <3> QED
      BY <1>16, <3>1, <3>2 DEF DriverTurn
  <2>2. driver' \in Calls
    <3>1. CASE driver.left > 1
      <4>1. driver.left - 1 \in Nat
        BY <1>0, <3>1 DEF Calls
      <4>2. [driver EXCEPT !.left = @ - 1] \in Calls
        BY <1>0, <4>1 DEF Calls
      <4> QED
        BY <1>16, <3>1, <4>2 DEF DriverTurn
    <3>2. CASE ~(driver.left > 1)
      <4>1. [driver EXCEPT !.pc = driver.next, !.left = 0] \in Calls
        BY <1>0 DEF Calls
      <4> QED
        BY <1>0, <1>16, <3>2, <4>1 DEF DriverTurn
    <3> QED
      BY <3>1, <3>2
  <2> QED
    BY <1>16, <2>1, <2>2 DEF DriverTurn, TypeOK
<1>17. CASE SpoofWake
  <2>1. FirstLive \in heap
    BY <1>17, FirstLiveIsFirst DEF SpoofWake, Live
  <2>2. now' \in Nat
    BY <1>0, <1>17, <2>1 DEF SpoofWake, LaterOf
  <2>3. heap' \in SUBSET heap /\ IsFiniteSet(heap')
    BY <1>17, FS_Subset DEF SpoofWake, AfterFirstLive, TypeOK
  <2>4. timers' \in Seq(Handle) /\ DOMAIN timers' = DOMAIN timers
    BY <1>17, WakeTypes DEF SpoofWake
  <2> DEFINE steps == IF driver.op = "idle" THEN driver.steps + 1 ELSE 0
  <2>5. Append(ready, FirstLive.timer) \in Seq({None} \cup DOMAIN timers) /\ [driver EXCEPT !.steps = steps] \in Calls
    <3>1. steps \in Nat
      BY <1>0 DEF Calls
    <3>2. [driver EXCEPT !.steps = steps] \in Calls
      BY <1>0, <3>1 DEF Calls
    <3>3. FirstLive.timer \in DOMAIN timers /\ ready \in Seq({None} \cup DOMAIN timers)
      BY <1>0, <2>1 DEF TypeOK
    <3>4. Append(ready, FirstLive.timer) \in Seq({None} \cup DOMAIN timers)
      BY <3>3
    <3> QED
      BY <3>2, <3>4
  <2>6. driver' \in Calls /\ ready' \in Seq({None} \cup DOMAIN timers)
    <3>1. CASE steps > MAX_STEPS
      BY <1>0, <1>17, <2>5, <3>1 DEF SpoofWake
    <3>2. CASE ~(steps > MAX_STEPS)
      <4>1. Settle([driver EXCEPT !.steps = steps], Append(ready, FirstLive.timer), "loop")
        BY <1>17, <3>2 DEF SpoofWake
      <4> QED
        BY <2>5, <4>1, SettleTypes
    <3> QED
      BY <3>1, <3>2
  <2> QED
    BY <1>17, <2>2, <2>3, <2>4, <2>6 DEF SpoofWake, TypeOK
<1>18. CASE SpoofEnd
  <2>1. heap' \in SUBSET [deadline : Nat, seq : Nat, timer : DOMAIN timers] /\ IsFiniteSet(heap') /\ counter' \in Nat
    <3>1. CASE UNCHANGED <<heap, counter>>
      BY <3>1 DEF TypeOK
    <3>2. CASE heap' = {} /\ UNCHANGED counter
      BY <3>2, FS_EmptySet DEF TypeOK
    <3>3. CASE Live # {} /\ SpoofPutBack
      <4>1. FirstLive \in heap
        BY <3>3, FirstLiveIsFirst DEF Live
      <4>2. Entry(FirstLive.deadline, FirstLive.timer) \in [deadline : Nat, seq : Nat, timer : DOMAIN timers]
        BY <1>0, <4>1 DEF Entry
      <4>3. AfterFirstLive \in SUBSET heap /\ IsFiniteSet(AfterFirstLive)
        BY FS_Subset DEF AfterFirstLive, TypeOK
      <4> QED
        BY <1>0, <3>3, <4>2, <4>3, FS_AddElement DEF SpoofPutBack, TypeOK
    <3> QED
      BY <1>18, <3>1, <3>2, <3>3 DEF SpoofEnd
  <2>2. now' \in Nat /\ driver' \in Calls /\ ready' \in Seq({None} \cup DOMAIN timers)
    <3>1. CASE driver.op = "idle"
      BY <1>0, <1>18, <3>1 DEF SpoofEnd, TypeOK
    <3>2. CASE driver.op # "idle"
      <4>1. now' = driver.target /\ Settle(driver, ready, "idle")
        BY <1>18, <3>2 DEF SpoofEnd
      <4>2. driver.target \in Nat
        BY <1>0 DEF Calls
      <4> QED
        BY <1>0, <4>1, <4>2, SettleTypes DEF TypeOK
    <3> QED
      BY <3>1, <3>2
  <2> QED
    BY <1>18, <2>1, <2>2 DEF SpoofEnd, TypeOK
<1>19. CASE MuxFire
  <2> DEFINE due == {e \in heap : e.deadline <= now}
  <2>1. /\ heap' = heap \ due /\ Wake(due \cap Live)
        /\ UNCHANGED <<kind, now, counter, running>>
    BY <1>19 DEF MuxFire
  <2>2. PICK queue \in Queued(due \cap Live) :
           Settle(driver, queue, IF driver.pc = "fire" THEN "aim" ELSE "idle")
    BY <1>19 DEF MuxFire
  <2>3. due \cap Live \in SUBSET heap /\ heap' \in SUBSET heap /\ IsFiniteSet(heap')
    BY <2>1, FS_Subset DEF TypeOK
  <2>4. queue \in Seq({None} \cup DOMAIN timers)
    BY <2>3, QueuedTimers
  <2>5. driver' \in Calls /\ ready' \in Seq({None} \cup DOMAIN timers)
    BY <1>0, <2>2, <2>4, SettleTypes
  <2> QED
    BY <2>1, <2>3, <2>5, WakeTypes DEF TypeOK
<1>20. CASE MuxAim
  <2> DEFINE span == IF Live = {} THEN driver.target
                     ELSE SoonerOf(driver.target, FirstLive.deadline - now)
  <2>1. Live # {} => FirstLive.deadline \in Nat
    BY <1>0, FirstLiveIsFirst DEF Live
  <2>2. span > 0 => span \in Nat
    BY <1>0, <2>1 DEF SoonerOf, Calls
  <2>3. driver' \in Calls
    BY <1>0, <1>20, <2>2 DEF MuxAim, Calls
  <2> QED
    BY <1>20, <2>3 DEF MuxAim, TypeOK
<1>21. CASE MuxLocks
  BY <1>0, <1>21 DEF MuxLocks, TypeOK, Calls
<1>22. CASE MuxWakes
  BY <1>0, <1>22 DEF MuxWakes, Goto, TypeOK, Calls
<1>23. CASE Tick
  <2>1. driver' \in Calls /\ now' \in Nat
    <3>1. now' = now + 1
      BY <1>23 DEF Tick
    <3>2. CASE driver.pc = "sleep" /\ driver.left > 0
      <4>1. driver.left - 1 \in Nat
        BY <1>0, <3>2 DEF Calls
      <4>2. [driver EXCEPT !.left = @ - 1] \in Calls
        BY <1>0, <4>1 DEF Calls
      <4> QED
        BY <1>0, <1>23, <3>1, <3>2, <4>2 DEF Tick
    <3>3. CASE ~(driver.pc = "sleep" /\ driver.left > 0)
      BY <1>0, <1>23, <3>1, <3>3 DEF Tick
    <3> QED
      BY <3>2, <3>3
  <2> QED
    BY <1>23, <2>1 DEF Tick, TypeOK
<1> QED
  BY <1>1, <1>2, <1>3, <1>4, <1>5, <1>6, <1>7, <1>8, <1>9, <1>10, <1>11, <1>12, <1>13,
     <1>14, <1>15, <1>16, <1>17, <1>18, <1>19, <1>20, <1>21, <1>22, <1>23
  DEF Next, Client, Drive, Proceed

-------------------------------------------------------------------------------
(* What the steps do to the timers.                                          *)

\* The waits of S end, whatever the clock: its entries leave the heap, with
\* none but dead ones beside them, and its timers are queued as they are due.
Woke(S) ==
    /\ OnLoop /\ S \in SUBSET Live /\ Wake(S)
    /\ heap' \in SUBSET (heap \ S) /\ \A e \in heap \ heap' : e \in S \/ Dead(e)
    /\ \A e \in S, f \in Live \ S : Sooner(e, f)
    /\ UNCHANGED <<kind, counter>>
    /\ now' >= now /\ \A e \in S : e.deadline <= now'
    /\ now' # now => \A t \in DOMAIN timers : ~New(t)
    /\ Len(ready') >= Len(ready)
    /\ \A i \in 1 .. Len(ready) : ready'[i] = ready[i]
    /\ \A i \in Len(ready) + 1 .. Len(ready') : ready'[i] = None \/ \E e \in S : ready'[i] = e.timer
    /\ \A e \in S : \E i \in Len(ready) + 1 .. Len(ready') : ready'[i] = e.timer
    /\ \A i, j \in Len(ready) + 1 .. Len(ready') :
          i < j /\ ready'[i] # None /\ ready'[j] # None =>
             \E e, f \in S : ready'[i] = e.timer /\ ready'[j] = f.timer /\ Sooner(e, f)

\* The entries whose waits end are those of timers that wait.
LEMMA WokeEntries ==
    ASSUME TypeOK, HeapOK, NEW S, Woke(S)
    PROVE  /\ S \in SUBSET heap /\ OnLoop /\ UNCHANGED <<kind, counter>>
           /\ \A e \in S : /\ e.timer \in DOMAIN timers /\ e.deadline \in Nat
                           /\ e.deadline = timers[e.timer].deadline
                           /\ Waits(e.timer)
<1>1. S \in SUBSET heap /\ OnLoop /\ UNCHANGED <<kind, counter>> /\ \A e \in S : ~timers[e.timer].cancelled
  BY DEF Woke, Live, Dead
<1>2. \A e \in S : Waits(e.timer) /\ e.deadline = timers[e.timer].deadline
  BY <1>1 DEF HeapOK
<1>3. \A e \in S : e.timer \in DOMAIN timers /\ e.deadline \in Nat
  BY <1>1 DEF TypeOK
<1> QED
  BY <1>1, <1>2, <1>3

\* No task is to start where the loop's queue is empty.
LEMMA NothingNew ==
    ASSUME TypeOK, TaskOK, ready = <<>>
    PROVE  \A t \in DOMAIN timers : ~New(t) /\ ~Woken(t)
BY DEF TaskOK

\* SpoofClock wakes the first live waiter.
LEMMA SpoofWakes ==
    ASSUME SchedulersAssumption, TypeOK, HeapOK, LoopOK, TaskOK, SpoofWake
    PROVE  Woke({FirstLive})
<1> DEFINE S == {FirstLive}
<1>1. FirstLive \in Live /\ \A f \in Live \ S : Sooner(FirstLive, f)
  BY FirstLiveIsFirst DEF SpoofWake
<1>2. FirstLive \in heap /\ FirstLive.timer \in DOMAIN timers /\ ~Sooner(FirstLive, FirstLive)
  BY <1>1 DEF Live, Sooner, TypeOK
<1>3. heap' \in SUBSET (heap \ S) /\ \A e \in heap \ heap' : e \in S \/ Dead(e)
  BY <1>1, <1>2 DEF SpoofWake, AfterFirstLive, Live
<1>4. ready = <<>>
  BY DEF SpoofWake, LoopOK, OnLoop, At
<1>5. now \in Nat /\ FirstLive.deadline \in Nat
  BY <1>2 DEF TypeOK
<1>6. now' >= now /\ FirstLive.deadline <= now'
  BY <1>5 DEF SpoofWake, LaterOf
<1>7. ready' = <<FirstLive.timer>> \/ ready' = <<FirstLive.timer, None>>
  BY <1>4 DEF SpoofWake, Settle
<1>8. /\ Len(ready) = 0 /\ Len(ready') \in {1, 2} /\ ready'[1] = FirstLive.timer
      /\ Len(ready') = 2 => ready'[2] = None
  BY <1>4, <1>7
<1>9. 1 \in Len(ready) + 1 .. Len(ready') /\ \A i \in Len(ready) + 1 .. Len(ready') : i = 1 \/ (i = 2 /\ Len(ready') = 2)
  <2>1. CASE Len(ready') = 1
    BY <1>8, <2>1
  <2>2. CASE Len(ready') = 2
    BY <1>8, <2>2
  <2> QED
    BY <1>8, <2>1, <2>2
<1>10. \A i, j \in Len(ready) + 1 .. Len(ready') : ~(i < j /\ ready'[i] # None /\ ready'[j] # None)
  BY <1>8, <1>9
<1>11. \A i \in 1 .. Len(ready) : FALSE
  BY <1>8
<1> QED
  BY <1>1, <1>3, <1>4, <1>6, <1>8, <1>9, <1>10, <1>11, NothingNew DEF Woke, SpoofWake, OnLoop

\* TimeMux wakes everything that is due.
LEMMA MuxWakesDue ==
    ASSUME SchedulersAssumption, TypeOK, HeapOK, LoopOK, TaskOK, MuxFire
    PROVE  Woke({e \in heap : e.deadline <= now} \cap Live)
<1> DEFINE due == {e \in heap : e.deadline <= now}
           S == due \cap Live
<1>1. /\ heap' = heap \ due /\ Wake(S) /\ UNCHANGED <<kind, now, counter, running>>
      /\ \E queue \in Queued(S) : Settle(driver, queue, IF driver.pc = "fire" THEN "aim" ELSE "idle")
  BY DEF MuxFire
<1>2. PICK queue \in Queued(S) : ready' = Append(queue, None)
  BY <1>1 DEF Settle
<1>3. S \in SUBSET heap
  OBVIOUS
<1>4. /\ queue \in Seq({None} \cup DOMAIN timers) /\ Len(queue) >= Len(ready)
      /\ \A i \in 1 .. Len(ready) : queue[i] = ready[i]
      /\ \A i \in Len(ready) + 1 .. Len(queue) : \E e \in S : queue[i] = e.timer
      /\ \A e \in S : \E i \in Len(ready) + 1 .. Len(queue) : queue[i] = e.timer
      /\ \A i, j \in Len(ready) + 1 .. Len(queue) : i < j =>
             \E e, f \in S : queue[i] = e.timer /\ queue[j] = f.timer /\ Sooner(e, f)
  BY <1>3, QueuedTimers
<1>5. /\ Len(ready') = Len(queue) + 1 /\ ready'[Len(ready')] = None
      /\ \A i \in 1 .. Len(queue) : ready'[i] = queue[i]
      /\ Len(ready) \in Nat /\ Len(queue) \in Nat
  BY <1>2, <1>4 DEF TypeOK
<1>6. now \in Nat /\ \A e \in heap : e.deadline \in Nat /\ e.seq \in Nat
  BY DEF TypeOK
<1>7. \A e \in S, f \in Live \ S : Sooner(e, f)
  BY <1>6 DEF Live, Sooner
<1>8. \A e \in heap \ heap' : e \in S \/ Dead(e)
  BY <1>1 DEF Live
<1>9. \A i \in Len(ready) + 1 .. Len(ready') : i \in Len(ready) + 1 .. Len(queue) \/ ready'[i] = None
  BY <1>5
<1>10. \A i \in Len(ready) + 1 .. Len(queue) : i \in Len(ready) + 1 .. Len(ready') /\ ready'[i] = queue[i]
  BY <1>5
<1>11. \A i \in 1 .. Len(ready) : ready'[i] = ready[i]
  BY <1>4, <1>5
<1>12. Len(ready') >= Len(ready)
  BY <1>4, <1>5
<1> HIDE DEF due
<1>13. heap' \in SUBSET (heap \ S) /\ \A e \in S : e.deadline <= now'
  BY <1>1, <1>6 DEF due
<1>14. now' >= now
  BY <1>1, <1>6
<1> HIDE DEF S
<1>15. S \in SUBSET Live
  BY DEF S
<1>16. /\ \A i \in Len(ready) + 1 .. Len(ready') : ready'[i] = None \/ \E e \in S : ready'[i] = e.timer
       /\ \A e \in S : \E i \in Len(ready) + 1 .. Len(ready') : ready'[i] = e.timer
       /\ \A i, j \in Len(ready) + 1 .. Len(ready') :
             i < j /\ ready'[i] # None /\ ready'[j] # None =>
                \E e, f \in S : ready'[i] = e.timer /\ ready'[j] = f.timer /\ Sooner(e, f)
  BY <1>4, <1>9, <1>10
<1> QED
  BY <1>1, <1>7, <1>8, <1>11, <1>12, <1>13, <1>14, <1>15, <1>16 DEF Woke, S, due, OnLoop, MuxFire

\* simpy wakes what was due before the time it is told.
LEMMA SimpyWakesDue ==
    ASSUME SchedulersAssumption, TypeOK, HeapOK, LoopOK, TaskOK, NEW t \in Nat, AdvanceTo(t)
    PROVE  Woke({e \in heap : e.deadline < t} \cap Live)
<1> DEFINE due == {e \in heap : e.deadline < t}
           S == due \cap Live
<1>1. /\ heap' = heap \ due /\ Wake(S) /\ ready' \in Queued(S) /\ now' = t /\ t > now
      /\ kind = "simpy" /\ UNCHANGED <<kind, counter, running, driver>>
  BY DEF AdvanceTo
<1>3. S \in SUBSET heap
  OBVIOUS
<1>4. /\ Len(ready') >= Len(ready)
      /\ \A i \in 1 .. Len(ready) : ready'[i] = ready[i]
      /\ \A i \in Len(ready) + 1 .. Len(ready') : \E e \in S : ready'[i] = e.timer
      /\ \A e \in S : \E i \in Len(ready) + 1 .. Len(ready') : ready'[i] = e.timer
      /\ \A i, j \in Len(ready) + 1 .. Len(ready') : i < j =>
             \E e, f \in S : ready'[i] = e.timer /\ ready'[j] = f.timer /\ Sooner(e, f)
  BY <1>1, <1>3, QueuedTimers
<1>6. now \in Nat /\ \A e \in heap : e.deadline \in Nat /\ e.seq \in Nat
  BY DEF TypeOK
<1>7. \A e \in S, f \in Live \ S : Sooner(e, f)
  BY <1>6 DEF Live, Sooner
<1>8. \A e \in heap \ heap' : e \in S \/ Dead(e)
  BY <1>1 DEF Live
<1>9. \A u \in DOMAIN timers : ~New(u)
  BY <1>1 DEF TaskOK
<1> HIDE DEF due
<1>13. heap' \in SUBSET (heap \ S) /\ \A e \in S : e.deadline <= now'
  BY <1>1, <1>6 DEF due
<1>14. now' >= now
  BY <1>1, <1>6
<1> HIDE DEF S
<1>15. S \in SUBSET Live
  BY DEF S
<1> QED
  BY <1>1, <1>4, <1>7, <1>8, <1>9, <1>13, <1>14, <1>15 DEF Woke, S, due, OnLoop

\* What call_later adds to the list.
LEMMA NewTimerIs ==
    ASSUME SchedulersAssumption, TypeOK, NEW delay \in DELAYS, CallLater(delay)
    PROVE  /\ Clamped(delay) \in Nat
           /\ DOMAIN timers' = 1 .. Len(timers') /\ Len(timers') = Len(timers) + 1
           /\ Len(timers') \in Nat /\ Len(timers') \notin DOMAIN timers
           /\ DOMAIN timers' = DOMAIN timers \cup {Len(timers')}
           /\ \A t \in DOMAIN timers : t < Len(timers') /\ timers'[t] = timers[t]
           /\ timers'[Len(timers')] =
                 NewTimer(delay, IF kind \in {"sim", "mux"} THEN "new" ELSE "waiting")
<1>1. Clamped(delay) \in Nat
  BY DEF Clamped, SchedulersAssumption
<1>2. timers' = Append(timers, NewTimer(delay, IF kind \in {"sim", "mux"} THEN "new" ELSE "waiting"))
  BY DEF CallLater
<1>3. timers \in Seq(Handle)
  BY DEF TypeOK
<1>4. NewTimer(delay, IF kind \in {"sim", "mux"} THEN "new" ELSE "waiting") \in Handle
  BY <1>1 DEF NewTimer, Handle, TypeOK
<1> QED
  BY <1>1, <1>2, <1>3, <1>4

\* A timer of the list changes its state, and no other does.
StateTo(t, state) ==
    /\ DOMAIN timers' = DOMAIN timers
    /\ \A u \in DOMAIN timers : u # t => timers'[u] = timers[u]
    /\ timers'[t] = [timers[t] EXCEPT !.state = state]

\* The tasks and the drivers change the state of one timer.
LEMMA TakesOne ==
    ASSUME TypeOK, NEW e \in heap, Take(e), ~Dead(e)
    PROVE  StateTo(e.timer, "done")
BY DEF Take, StateTo, TypeOK

\* The head of the queue is a timer, whose state the task changes.
LEMMA TaskTakesOne ==
    ASSUME TypeOK, TaskStep
    PROVE  /\ ready[1] \in DOMAIN timers
           /\ TaskStarts => StateTo(ready[1], "waiting")
           /\ TaskResumes \/ TaskCancelled => StateTo(ready[1], "done")
<1>1. ready[1] \in DOMAIN timers
  BY DEF TypeOK, TaskStep
<1> QED
  BY <1>1 DEF TaskStarts, TaskResumes, TaskCancelled, StateTo


-------------------------------------------------------------------------------
(* The heap.                                                                 *)

\* Every step leaves in the heap the timers that wait, each once.
LEMMA HeapKept ==
    ASSUME SchedulersAssumption, TypeOK, TypeOK', LoopOK, HeapOK, TaskOK, Next
    PROVE  HeapOK'
<1> USE DEF Waits, New, Armed
<1>0. /\ now \in Nat /\ counter \in Nat
      /\ \A e \in heap : e.deadline \in Nat /\ e.seq \in Nat /\ e.timer \in DOMAIN timers
  BY DEF TypeOK
<1>1. CASE \E delay \in DELAYS : CallLater(delay)
  <2>1. PICK delay \in DELAYS : CallLater(delay)
    BY <1>1
  <2> DEFINE n == Len(timers')
             E == Entry(now + Clamped(delay), n)
  <2>2. /\ DOMAIN timers' = DOMAIN timers \cup {n} /\ Clamped(delay) \in Nat /\ n \in Nat
        /\ \A t \in DOMAIN timers : t < n /\ t # n /\ timers'[t] = timers[t]
        /\ timers'[n] = NewTimer(delay, IF kind \in {"sim", "mux"} THEN "new" ELSE "waiting")
    BY <2>1, NewTimerIs
  <2> HIDE DEF n
  <2>3. CASE kind \in {"sim", "mux"}
    <3>1. UNCHANGED <<kind, heap, counter>> /\ timers'[n].state = "new"
      BY <2>1, <2>2, <2>3 DEF CallLater, NewTimer
    <3> QED
      BY <1>0, <2>2, <3>1 DEF HeapOK
  <2>4. CASE kind \notin {"sim", "mux"}
    <3>1. /\ heap' = heap \cup {E} /\ counter' = counter + 1 /\ kind' = kind
          /\ timers'[n].state = "waiting" /\ timers'[n].cancelled = FALSE
          /\ timers'[n].deadline = now + Clamped(delay)
          /\ E.seq = counter /\ E.timer = n /\ E.deadline = now + Clamped(delay)
      BY <2>1, <2>2, <2>4 DEF CallLater, NewTimer, Entry, n
    <3> HIDE DEF E
    <3>2. \A e \in heap' : /\ e.seq < counter' /\ e.deadline = timers'[e.timer].deadline
                           /\ Waits(e.timer)' \/ timers'[e.timer].cancelled
                           /\ ~New(e.timer)'
      BY <1>0, <2>2, <3>1 DEF HeapOK
    <3>3. \A e, f \in heap' : e.seq = f.seq \/ e.timer = f.timer => e = f
      BY <1>0, <2>2, <3>1 DEF HeapOK
    <3>4. kind' # "sim" => \A e, f \in heap' : e.seq < f.seq => e.timer < f.timer
      BY <1>0, <2>2, <3>1 DEF HeapOK
    <3>5. \A t \in DOMAIN timers' : Waits(t)' => \E e \in heap' : e.timer = t
      BY <1>0, <2>2, <3>1 DEF HeapOK
    <3> QED
      BY <3>2, <3>3, <3>4, <3>5 DEF HeapOK
  <2> QED
    BY <2>3, <2>4
<1>2. CASE \E t \in DOMAIN timers : Cancel(t)
  <2>1. PICK t \in DOMAIN timers : Cancel(t)
    BY <1>2
  <2>2. /\ UNCHANGED <<kind, heap, counter>> /\ DOMAIN timers' = DOMAIN timers
        /\ \A u \in DOMAIN timers : u # t => timers'[u] = timers[u]
        /\ timers'[t].cancelled /\ timers'[t].state = timers[t].state
        /\ timers'[t].deadline = timers[t].deadline
    BY <2>1, Handles DEF Cancel, Handle
  <2> QED
    BY <1>0, <2>2 DEF HeapOK
<1>3. ASSUME heap # {}, Take(Soonest), UNCHANGED <<kind, counter>>
      PROVE  HeapOK'
  <2>1. Soonest \in heap /\ Soonest.timer \in DOMAIN timers
    BY <1>0, <1>3, SoonestIsFirst
  <2>2. heap' = heap \ {Soonest}
    BY <1>3 DEF Take
  <2>3. CASE Dead(Soonest)
    <3>1. timers' = timers /\ timers[Soonest.timer].cancelled
      BY <1>3, <2>3 DEF Take, Dead
    <3> QED
      BY <1>0, <1>3, <2>1, <2>2, <3>1 DEF HeapOK
  <2>4. CASE ~Dead(Soonest)
    <3>1. /\ DOMAIN timers' = DOMAIN timers
          /\ \A u \in DOMAIN timers : u # Soonest.timer => timers'[u] = timers[u]
          /\ timers'[Soonest.timer].state = "done"
      <4>1. StateTo(Soonest.timer, "done")
        BY <1>3, <2>1, <2>4, TakesOne
      <4>2. timers[Soonest.timer] \in Handle
        BY <2>1, Handles
      <4> QED
        BY <4>1, <4>2 DEF StateTo, Handle
    <3> QED
      BY <1>0, <1>3, <2>1, <2>2, <3>1 DEF HeapOK
  <2> QED
    BY <2>3, <2>4
<1>4. CASE TaskStep
  <2> DEFINE t == ready[1]
  <2>1. /\ UNCHANGED kind /\ t \in DOMAIN timers
        /\ TaskStarts \/ TaskResumes \/ TaskCancelled
    BY <1>4, TaskTakesOne DEF TaskStep
  <2>2. CASE TaskStarts
    <3> DEFINE E == Entry(now + timers[t].delay, t)
    <3>1. /\ timers[t].state = "new" /\ ~timers[t].cancelled
          /\ heap' = heap \cup {E} /\ counter' = counter + 1
      BY <2>2 DEF TaskStarts
    <3>2. E.seq = counter /\ E.timer = t /\ E.deadline = now + timers[t].delay
      BY DEF Entry
    <3>3. timers[t].deadline = now + timers[t].delay
      BY <2>1, <3>1 DEF TaskOK
    <3>4. /\ DOMAIN timers' = DOMAIN timers
          /\ \A u \in DOMAIN timers : u # t => timers'[u] = timers[u]
          /\ timers'[t].state = "waiting" /\ timers'[t].deadline = timers[t].deadline
          /\ ~timers'[t].cancelled
      BY <1>4, <2>1, <2>2, <3>1, TaskTakesOne, Handles DEF StateTo, Handle
    <3> HIDE DEF E, t
    <3>5. \A e \in heap : e.timer # t /\ e.timer < t
      BY <1>0, <2>1, <3>1 DEF HeapOK, TaskOK
    <3>6. \A e \in heap' : /\ e.seq < counter' /\ e.deadline = timers'[e.timer].deadline
                           /\ Waits(e.timer)' \/ timers'[e.timer].cancelled
                           /\ ~New(e.timer)'
      BY <1>0, <2>1, <3>1, <3>2, <3>3, <3>4, <3>5 DEF HeapOK
    <3>7. \A e, f \in heap' : e.seq = f.seq \/ e.timer = f.timer => e = f
      BY <1>0, <3>1, <3>2, <3>5 DEF HeapOK
    <3>8. kind' # "sim" => \A e, f \in heap' : e.seq < f.seq => e.timer < f.timer
      BY <1>0, <2>1, <3>1, <3>2, <3>5 DEF HeapOK
    <3>9. \A u \in DOMAIN timers' : Waits(u)' => \E e \in heap' : e.timer = u
      BY <2>1, <3>1, <3>2, <3>4 DEF HeapOK
    <3> QED
      BY <3>6, <3>7, <3>8, <3>9 DEF HeapOK
  <2>3. CASE TaskResumes \/ TaskCancelled
    <3>1. /\ DOMAIN timers' = DOMAIN timers
          /\ \A u \in DOMAIN timers : u # t => timers'[u] = timers[u]
          /\ timers'[t].state = "done" /\ timers'[t].deadline = timers[t].deadline
          /\ timers'[t].cancelled = timers[t].cancelled
      BY <1>4, <2>1, <2>3, TaskTakesOne, Handles DEF StateTo, Handle
    <3>2. /\ UNCHANGED <<heap, counter>>
          /\ timers[t].cancelled \/ timers[t].state = "woken"
      BY <2>3 DEF TaskResumes, TaskCancelled
    <3> HIDE DEF t
    <3> QED
      BY <1>0, <2>1, <3>1, <3>2 DEF HeapOK
  <2> QED
    BY <2>1, <2>2, <2>3
<1>5. ASSUME NEW S, Woke(S)
      PROVE  HeapOK'
  <2>1. /\ S \in SUBSET heap /\ heap' \in SUBSET (heap \ S) /\ UNCHANGED <<kind, counter>>
        /\ \A e \in heap \ heap' : e \in S \/ timers[e.timer].cancelled
    BY <1>5 DEF Woke, Live, Dead
  <2>2. /\ DOMAIN timers' = DOMAIN timers
        /\ \A u \in DOMAIN timers : (\A e \in S : e.timer # u) => timers'[u] = timers[u]
        /\ \A u \in DOMAIN timers : (\E e \in S : e.timer = u) => timers'[u].state = "woken"
    BY <1>5, Handles DEF Woke, Wake, Handle
  <2>3. \A e \in heap', f \in S : e.timer # f.timer
    BY <2>1 DEF HeapOK
  <2>4. \A e \in heap' : timers'[e.timer] = timers[e.timer]
    BY <1>0, <2>1, <2>2, <2>3
  <2>5. \A t \in DOMAIN timers' : Waits(t)' => \E e \in heap' : e.timer = t
    BY <2>1, <2>2 DEF HeapOK
  <2> QED
    BY <1>0, <2>1, <2>2, <2>4, <2>5 DEF HeapOK
<1>6. CASE SpoofEnd
  <2>1. kind = "sim" /\ UNCHANGED <<kind, timers>>
    BY <1>6 DEF SpoofEnd
  <2>2. CASE UNCHANGED <<heap, counter>>
    BY <2>1, <2>2 DEF HeapOK
  <2>3. CASE Live = {} /\ heap' = {} /\ UNCHANGED counter
    <3>1. \A t \in DOMAIN timers : ~Waits(t)
      BY <2>3 DEF HeapOK, Live, Dead
    <3> QED
      BY <2>1, <2>3, <3>1 DEF HeapOK
  <2>4. CASE Live # {} /\ SpoofPutBack
    <3> DEFINE E == Entry(FirstLive.deadline, FirstLive.timer)
    <3>1. /\ FirstLive \in heap /\ ~timers[FirstLive.timer].cancelled
          /\ \A f \in heap : ~timers[f.timer].cancelled /\ f # FirstLive => Sooner(FirstLive, f)
          /\ ~Sooner(FirstLive, FirstLive)
      BY <1>0, <2>4, FirstLiveIsFirst DEF Live, Dead, Sooner
    <3>2. /\ heap' = AfterFirstLive \cup {E} /\ counter' = counter + 1
          /\ E.seq = counter /\ E.timer = FirstLive.timer /\ E.deadline = FirstLive.deadline
      BY <2>4 DEF SpoofPutBack, Entry
    <3>3. /\ AfterFirstLive \in SUBSET (heap \ {FirstLive})
          /\ \A f \in heap : ~timers[f.timer].cancelled /\ f # FirstLive => f \in AfterFirstLive
      BY <3>1 DEF AfterFirstLive
    <3> HIDE DEF E
    <3>4. \A e \in heap' : /\ e.seq < counter' /\ e.deadline = timers'[e.timer].deadline
                           /\ Waits(e.timer)' \/ timers'[e.timer].cancelled
                           /\ ~New(e.timer)'
      BY <1>0, <2>1, <3>1, <3>2, <3>3 DEF HeapOK
    <3>5. \A e, f \in heap' : e.seq = f.seq \/ e.timer = f.timer => e = f
      BY <1>0, <3>1, <3>2, <3>3 DEF HeapOK
    <3>6. \A t \in DOMAIN timers' : Waits(t)' => \E e \in heap' : e.timer = t
      BY <2>1, <3>1, <3>2, <3>3 DEF HeapOK
    <3> QED
      BY <2>1, <3>4, <3>5, <3>6 DEF HeapOK
  <2> QED
    BY <1>6, <2>2, <2>3, <2>4 DEF SpoofEnd
<1>7. CASE UNCHANGED <<kind, timers, heap, counter>>
  BY <1>7 DEF HeapOK
<1>8. CASE ManualPop
  BY <1>3, <1>8 DEF ManualPop, ManualGoesOn
<1>9. CASE WallFire
  <2>1. CASE heap # {} /\ Soonest.deadline <= now
    BY <1>3, <1>9, <2>1 DEF WallFire
  <2>2. CASE ~(heap # {} /\ Soonest.deadline <= now)
    BY <1>7, <1>9, <2>2 DEF WallFire
  <2> QED
    BY <2>1, <2>2
<1>10. CASE SpoofWake \/ MuxFire
  BY <1>5, <1>10, SpoofWakes, MuxWakesDue
<1>11. CASE \E t \in 1 .. HORIZON + 1 : AdvanceTo(t)
  <2>1. PICK t \in 1 .. HORIZON + 1 : AdvanceTo(t)
    BY <1>11
  <2>2. t \in Nat
    BY DEF SchedulersAssumption
  <2> QED
    BY <1>5, <2>1, <2>2, SimpyWakesDue
<1> QED
  BY <1>1, <1>2, <1>4, <1>6, <1>7, <1>8, <1>9, <1>10, <1>11
  DEF Next, Client, Drive, Proceed, CallbackReturns, Advance, SpoofRunFor, MuxStep, WallCall,
      ManualRunUntilIdle, SpoofRunUntilIdle, ManualEnd, WallCheck, WallRest, WallWake, DriverTurn,
      MuxAim, MuxLocks, MuxWakes, Tick

-------------------------------------------------------------------------------
(* The loop's queue.                                                         *)

\* The queue holds the tasks it held, in the order they had: only the driver
\* came or went.
SameTasks ==
    /\ \A i \in DOMAIN ready : ready[i] # None => \E k \in DOMAIN ready' : ready'[k] = ready[i]
    /\ \A i \in DOMAIN ready' : ready'[i] # None => \E k \in DOMAIN ready : ready[k] = ready'[i]
    /\ \A i, j \in DOMAIN ready' : i < j /\ ready'[i] # None /\ ready'[j] # None =>
          \E k, l \in DOMAIN ready : k < l /\ ready[k] = ready'[i] /\ ready[l] = ready'[j]

\* Steps of the driver that do not touch a timer.
Quiet ==
    /\ UNCHANGED <<kind, timers>>
    /\ \/ ready' = ready
       \/ ready' = Append(ready, None)
       \/ DriverTurn
    /\ \/ now' = now
       \/ now' \in Nat /\ now' >= now /\ \A t \in DOMAIN timers : ~New(t)

\* The driver's coming and going leaves the tasks as they were.
LEMMA QuietQueue ==
    ASSUME TypeOK, Quiet
    PROVE  SameTasks
<1> DEFINE Item == {None} \cup DOMAIN timers
<1>0. ready \in Seq(Item) /\ None \in Item
  BY DEF TypeOK
<1> HIDE DEF Item
<1>1. CASE ready' = ready
  BY <1>1 DEF SameTasks
<1>2. CASE ready' = Append(ready, None)
  <2>1. /\ DOMAIN ready' = DOMAIN ready \cup {Len(ready) + 1}
        /\ \A i \in DOMAIN ready : ready'[i] = ready[i]
        /\ ready'[Len(ready) + 1] = None
    BY <1>0, <1>2, AppendOf
  <2> QED
    BY <2>1 DEF SameTasks
<1>3. CASE DriverTurn
  <2>1. ready # <<>> /\ ready[1] = None /\ (ready' = Tail(ready) \/ ready' = Append(Tail(ready), None))
    BY <1>3 DEF DriverTurn
  <2> DEFINE q == Tail(ready)
  <2>2. /\ q \in Seq(Item)
        /\ \A i \in DOMAIN q : i \in Nat /\ i + 1 \in DOMAIN ready /\ q[i] = ready[i + 1]
        /\ \A i \in DOMAIN ready : i # 1 => i - 1 \in DOMAIN q /\ q[i - 1] = ready[i]
    BY <1>0, <2>1, TailOf
  <2> HIDE DEF q
  <2>3. /\ DOMAIN q \subseteq DOMAIN ready'
        /\ \A i \in DOMAIN q : ready'[i] = q[i]
        /\ \A i \in DOMAIN ready' : i \in DOMAIN q \/ ready'[i] = None
    BY <1>0, <2>1, <2>2, AppendOf DEF q
  <2>4. \A i \in DOMAIN ready : ready[i] # None => \E k \in DOMAIN ready' : ready'[k] = ready[i]
    BY <2>1, <2>2, <2>3
  <2>5. \A i \in DOMAIN ready' : ready'[i] # None => \E k \in DOMAIN ready : ready[k] = ready'[i]
    BY <2>2, <2>3
  <2>6. \A i, j \in DOMAIN ready' : i < j /\ ready'[i] # None /\ ready'[j] # None =>
          \E k, l \in DOMAIN ready : k < l /\ ready[k] = ready'[i] /\ ready[l] = ready'[j]
    <3> SUFFICES ASSUME NEW i \in DOMAIN ready', NEW j \in DOMAIN ready',
                        i < j, ready'[i] # None, ready'[j] # None
                 PROVE  i + 1 < j + 1 /\ i + 1 \in DOMAIN ready /\ j + 1 \in DOMAIN ready
                        /\ ready[i + 1] = ready'[i] /\ ready[j + 1] = ready'[j]
      OBVIOUS
    <3>1. i \in DOMAIN q /\ j \in DOMAIN q
      BY <2>3
    <3> QED
      BY <2>2, <2>3, <3>1
  <2> QED
    BY <2>4, <2>5, <2>6 DEF SameTasks
<1> QED
  BY <1>1, <1>2, <1>3 DEF Quiet

\* The actions that are quiet.
LEMMA QuietSteps ==
    ASSUME SchedulersAssumption, TypeOK, DriverOK, LoopOK, TaskOK,
           \/ CallbackReturns
           \/ \E dt \in SPANS : Advance(dt) \/ SpoofRunFor(dt) \/ MuxStep(dt)
           \/ \E op \in {"run", "idle"}, dt \in SPANS : WallCall(op, dt)
           \/ ManualRunUntilIdle \/ SpoofRunUntilIdle \/ ManualEnd
           \/ WallCheck \/ WallRest \/ WallWake \/ DriverTurn
           \/ SpoofEnd \/ MuxAim \/ MuxLocks \/ MuxWakes \/ Tick
    PROVE  Quiet
<1>0. now \in Nat /\ now + 1 \in Nat /\ now + 1 >= now /\ driver.target \in Nat
  BY DEF TypeOK, Calls
<1>1. CASE ManualEnd
  <2>1. \A t \in DOMAIN timers : ~New(t)
    BY <1>1 DEF ManualEnd, TaskOK
  <2>2. now' = now \/ (now' = driver.target /\ now <= driver.target)
    BY <1>1 DEF ManualEnd, DriverOK, At
  <2> QED
    BY <1>0, <1>1, <2>1, <2>2 DEF ManualEnd, Quiet
<1>2. CASE SpoofEnd
  <2>1. ready = <<>> /\ UNCHANGED <<kind, timers>>
    BY <1>2 DEF SpoofEnd, LoopOK, OnLoop, At
  <2>2. CASE driver.op = "idle"
    BY <1>2, <2>1, <2>2 DEF SpoofEnd, Quiet
  <2>3. CASE driver.op # "idle"
    <3>1. now' = driver.target /\ ready' = Append(ready, None)
      BY <1>2, <2>3 DEF SpoofEnd, Settle
    <3>2. now' = now \/ now <= driver.target
      BY <1>0, <1>2, <2>3, <3>1 DEF SpoofEnd, DriverOK, At, TypeOK, Calls
    <3> QED
      BY <1>0, <2>1, <3>1, <3>2, NothingNew DEF Quiet
  <2> QED
    BY <2>2, <2>3
<1>3. CASE Tick
  <2>1. \A t \in DOMAIN timers : ~New(t)
    BY <1>3, NothingNew DEF Tick, TaskOK
  <2> QED
    BY <1>0, <1>3, <2>1 DEF Tick, Quiet
<1>4. CASE DriverTurn
  BY <1>4 DEF Quiet, DriverTurn
<1>5. CASE CallbackReturns \/ \E dt \in SPANS : Advance(dt) \/ SpoofRunFor(dt) \/ MuxStep(dt)
  BY <1>5 DEF Quiet, CallbackReturns, Advance, SpoofRunFor, MuxStep, Settle
<1>6. CASE \/ \E op \in {"run", "idle"}, dt \in SPANS : WallCall(op, dt)
           \/ ManualRunUntilIdle \/ SpoofRunUntilIdle
  BY <1>6 DEF Quiet, WallCall, ManualRunUntilIdle, SpoofRunUntilIdle, Settle
<1>7. CASE WallCheck \/ WallRest \/ WallWake \/ MuxAim \/ MuxLocks \/ MuxWakes
  BY <1>7 DEF Quiet, WallCheck, WallRest, WallWake, MuxAim, MuxLocks, MuxWakes
<1> QED
  BY <1>1, <1>2, <1>3, <1>4, <1>5, <1>6, <1>7

\* Every step keeps the loop's tasks: those to start in the order of their
\* timers, and every woken one.
LEMMA TaskKept ==
    ASSUME SchedulersAssumption, TypeOK, TypeOK', DriverOK, LoopOK, HeapOK, TaskOK, Next
    PROVE  TaskOK'
<1> USE DEF Waits, Woken, New, Armed
<1> DEFINE Item == {None} \cup DOMAIN timers
<1>0. /\ now \in Nat /\ ready \in Seq(Item) /\ None \in Item
      /\ \A t \in DOMAIN timers : t \in Nat /\ t # None
  BY Handles DEF TypeOK, None
<1>00. \A i \in DOMAIN ready : ready[i] = None \/ ready[i] \in DOMAIN timers
  BY <1>0, ElementOfSeq
<1>1. CASE \E delay \in DELAYS : CallLater(delay)
  <2>1. PICK delay \in DELAYS : CallLater(delay)
    BY <1>1
  <2> DEFINE n == Len(timers')
  <2>2. /\ DOMAIN timers' = DOMAIN timers \cup {n} /\ Clamped(delay) \in Nat /\ n \in Nat
        /\ \A t \in DOMAIN timers : t < n /\ t # n /\ timers'[t] = timers[t]
        /\ timers'[n] = NewTimer(delay, IF kind \in {"sim", "mux"} THEN "new" ELSE "waiting")
    BY <2>1, NewTimerIs
  <2>3. CASE kind \in {"sim", "mux"}
    <3> DEFINE l == Len(ready) + 1
    <3>1. /\ UNCHANGED <<kind, now>> /\ timers'[n].state = "new"
          /\ timers'[n].deadline = now + timers'[n].delay
      BY <2>1, <2>2, <2>3 DEF CallLater, NewTimer
    <3>2. ready' = Append(ready, n) /\ ready \in Seq({None} \cup DOMAIN timers') /\ n \in {None} \cup DOMAIN timers'
      BY <2>1, <2>2, <2>3 DEF CallLater, TypeOK
    <3>3. /\ DOMAIN ready' = DOMAIN ready \cup {l} /\ ready'[l] = n /\ l \in Nat
          /\ \A i \in DOMAIN ready : i < l /\ i \in Nat /\ ready'[i] = ready[i]
      BY <3>2, AppendOf
    <3> HIDE DEF n, l
    <3>5. \A t \in DOMAIN timers' :
             /\ New(t)' => timers'[t].deadline = now' + timers'[t].delay
             /\ Woken(t)' => timers'[t].deadline <= now'
             /\ New(t)' \/ Woken(t)' => \E i \in DOMAIN ready' : ready'[i] = t
      BY <2>2, <3>1, <3>3 DEF TaskOK
    <3>6. \A t, u \in DOMAIN timers' : New(t)' /\ ~New(u)' => u < t
      BY <2>2, <3>1 DEF TaskOK
    <3>7. \A i \in DOMAIN ready' : ready'[i] # None => ~Waits(ready[i])'
      BY <2>2, <3>1, <3>3, <1>00 DEF TaskOK
    <3>8. \A i, j \in DOMAIN ready' :
             /\ i < j /\ ready'[i] # None /\ ready'[j] # None
             /\ New(ready[i])' /\ New(ready[j])'
             => ready'[i] < ready'[j]
      BY <2>2, <3>1, <3>3, <1>00 DEF TaskOK
    <3> QED
      BY <2>3, <3>1, <3>5, <3>6, <3>7, <3>8 DEF TaskOK, OnLoop
  <2>4. CASE kind \notin {"sim", "mux"}
    <3>1. UNCHANGED <<kind, now, ready>> /\ timers'[n].state = "waiting"
      BY <2>1, <2>2, <2>4 DEF CallLater, NewTimer
    <3> HIDE DEF n
    <3> QED
      BY <1>00, <2>2, <2>4, <3>1 DEF TaskOK, OnLoop
  <2> QED
    BY <2>3, <2>4
<1>2. CASE \E t \in DOMAIN timers : Cancel(t)
  <2>1. PICK t \in DOMAIN timers : Cancel(t)
    BY <1>2
  <2>2. /\ UNCHANGED <<kind, now>> /\ DOMAIN timers' = DOMAIN timers
        /\ \A u \in DOMAIN timers : u # t => timers'[u] = timers[u]
        /\ timers'[t].cancelled /\ timers'[t].state = timers[t].state
        /\ timers'[t].deadline = timers[t].deadline /\ timers'[t].delay = timers[t].delay
    BY <2>1, Handles DEF Cancel, Handle
  <2>3. CASE ready' = ready
    BY <1>00, <2>2, <2>3 DEF TaskOK, OnLoop
  <2>4. CASE ready' = Append(ready, t) /\ timers[t].state = "waiting"
    <3> DEFINE l == Len(ready) + 1
    <3>1. /\ DOMAIN ready' = DOMAIN ready \cup {l} /\ ready'[l] = t /\ l \in Nat
          /\ \A i \in DOMAIN ready : i < l /\ i \in Nat /\ ready'[i] = ready[i]
      BY <1>0, <2>4, AppendOf
    <3> HIDE DEF l
    <3>2. \A u \in DOMAIN timers' :
             /\ New(u)' => timers'[u].deadline = now' + timers'[u].delay
             /\ Woken(u)' => timers'[u].deadline <= now'
             /\ New(u)' \/ Woken(u)' => \E i \in DOMAIN ready' : ready'[i] = u
      BY <2>2, <2>4, <3>1 DEF TaskOK
    <3>3. \A i \in DOMAIN ready' : ready'[i] # None => ~Waits(ready[i])'
      BY <1>00, <2>2, <2>4, <3>1 DEF TaskOK
    <3>4. \A i, j \in DOMAIN ready' :
             /\ i < j /\ ready'[i] # None /\ ready'[j] # None
             /\ New(ready[i])' /\ New(ready[j])'
             => ready'[i] < ready'[j]
      BY <1>00, <2>2, <2>4, <3>1 DEF TaskOK
    <3>5. \A u, v \in DOMAIN timers' : New(u)' /\ ~New(v)' => v < u
      BY <2>2 DEF TaskOK
    <3>6. /\ kind' \notin {"sim", "mux"} => \A u \in DOMAIN timers' : ~New(u)'
          /\ ~OnLoop' => \A u \in DOMAIN timers' : ~Woken(u)'
      BY <2>2 DEF TaskOK, OnLoop
    <3> QED
      BY <3>2, <3>3, <3>4, <3>5, <3>6 DEF TaskOK
  <2> QED
    BY <2>1, <2>3, <2>4 DEF Cancel
<1>3. ASSUME heap # {}, Take(Soonest), UNCHANGED <<kind, ready>>, kind \in {"manual", "wall"}
      PROVE  TaskOK'
  <2>1. Soonest \in heap /\ Soonest.timer \in DOMAIN timers
    BY <1>3, SoonestIsFirst DEF TypeOK
  <2>2. \A u \in DOMAIN timers : ~New(u) /\ ~Woken(u)
    BY <1>3 DEF TaskOK, OnLoop
  <2>3. DOMAIN timers' = DOMAIN timers /\ \A u \in DOMAIN timers : ~New(u)' /\ ~Woken(u)'
    <3>1. CASE Dead(Soonest)
      BY <1>3, <2>2, <3>1 DEF Take
    <3>2. CASE ~Dead(Soonest)
      <4>1. StateTo(Soonest.timer, "done")
        BY <1>3, <2>1, <3>2, TakesOne
      <4>2. timers[Soonest.timer] \in Handle
        BY <2>1, Handles
      <4> QED
        BY <2>2, <4>1, <4>2 DEF StateTo, Handle
    <3> QED
      BY <3>1, <3>2
  <2>4. ready' = <<>>
    BY <1>3 DEF LoopOK, OnLoop
  <2> QED
    BY <1>3, <2>3, <2>4 DEF TaskOK, OnLoop
<1>4. CASE TaskStep
  <2> DEFINE t == ready[1]
             q == Tail(ready)
  <2>1. /\ UNCHANGED <<kind, now>> /\ OnLoop /\ t \in DOMAIN timers /\ ready # <<>> /\ ready' = q
        /\ TaskStarts \/ TaskResumes \/ TaskCancelled
    BY <1>4, TaskTakesOne DEF TaskStep, TaskStarts, TaskResumes, TaskCancelled
  <2>2. /\ \A i \in DOMAIN ready' : i \in Nat /\ 1 < i + 1 /\ i + 1 \in DOMAIN ready /\ ready'[i] = ready[i + 1]
        /\ \A i \in DOMAIN ready : i # 1 => i - 1 \in DOMAIN ready' /\ ready'[i - 1] = ready[i]
        /\ 1 \in DOMAIN ready
    BY <1>0, <2>1, TailOf
  <2>3. /\ DOMAIN timers' = DOMAIN timers
        /\ \A u \in DOMAIN timers : u # t => timers'[u] = timers[u]
        /\ timers'[t].state = IF TaskStarts THEN "waiting" ELSE "done"
        /\ TaskStarts => timers[t].state = "new"
    <3>1. StateTo(t, IF TaskStarts THEN "waiting" ELSE "done")
      BY <1>4, <2>1, TaskTakesOne
    <3>2. timers[t] \in Handle
      BY <2>1, Handles
    <3> QED
      BY <3>1, <3>2 DEF StateTo, Handle, TaskStarts
  <2>4. ASSUME NEW i \in DOMAIN ready', ready'[i] # None
        PROVE  ready'[i] \in DOMAIN timers /\ (New(t) /\ New(ready'[i]) => t < ready'[i])
    <3>1. i + 1 \in DOMAIN ready /\ 1 < i + 1 /\ ready[i + 1] = ready'[i]
      BY <2>2
    <3>2. ready[i + 1] \in DOMAIN timers
      BY <1>0, <2>4, <3>1, ElementOfSeq
    <3>3. ready[1] # None
      BY <1>0, <2>1
    <3> QED
      BY <2>2, <2>4, <3>1, <3>2, <3>3 DEF TaskOK
  <2> HIDE DEF q, t
  <2>5. \A u \in DOMAIN timers' :
           /\ New(u)' => timers'[u].deadline = now' + timers'[u].delay
           /\ Woken(u)' => timers'[u].deadline <= now'
           /\ New(u)' \/ Woken(u)' => \E i \in DOMAIN ready' : ready'[i] = u
    <3> SUFFICES ASSUME NEW u \in DOMAIN timers, u # t, timers'[u] = timers[u], New(u) \/ Woken(u)
                 PROVE  /\ New(u) => timers[u].deadline = now + timers[u].delay
                        /\ Woken(u) => timers[u].deadline <= now
                        /\ \E i \in DOMAIN ready' : ready'[i] = u
      BY <2>1, <2>3
    <3>1. PICK i \in DOMAIN ready : ready[i] = u
      BY DEF TaskOK
    <3>2. i # 1
      BY <3>1 DEF t
    <3> QED
      BY <2>2, <3>1, <3>2 DEF TaskOK
  <2>6. \A u, v \in DOMAIN timers' : New(u)' /\ ~New(v)' => v < u
    <3> SUFFICES ASSUME NEW u \in DOMAIN timers, NEW v \in DOMAIN timers,
                        u # t, New(u), New(u)', ~New(v)'
                 PROVE  v < u
      BY <2>3
    <3>1. CASE New(v)
      <4>1. v = t
        BY <2>3, <3>1
      <4>2. PICK i \in DOMAIN ready' : ready'[i] = u
        BY <2>3, <2>5
      <4> QED
        BY <1>0, <2>4, <3>1, <4>1, <4>2
    <3>2. CASE ~New(v)
      BY <3>2 DEF TaskOK
    <3> QED
      BY <3>1, <3>2
  <2>7. \A i \in DOMAIN ready' : ready'[i] # None => ~Waits(ready[i])'
    <3> SUFFICES ASSUME NEW i \in DOMAIN ready', ready'[i] # None
                 PROVE  ~Waits(ready[i])'
      OBVIOUS
    <3>1. ~Waits(ready'[i])
      BY <2>2 DEF TaskOK
    <3>2. CASE ready'[i] = t
      <4>1. ~New(t)
        BY <1>0, <2>1, <2>4, <3>2
      <4> QED
        BY <2>3, <3>2, <4>1
    <3>3. CASE ready'[i] # t
      BY <2>3, <2>4, <3>1, <3>3
    <3> QED
      BY <3>2, <3>3
  <2>8. \A i, j \in DOMAIN ready' :
           /\ i < j /\ ready'[i] # None /\ ready'[j] # None
           /\ New(ready[i])' /\ New(ready[j])'
           => ready'[i] < ready'[j]
    <3> SUFFICES ASSUME NEW i \in DOMAIN ready', NEW j \in DOMAIN ready',
                        i < j, ready'[i] # None, ready'[j] # None,
                        New(ready[i])', New(ready[j])'
                 PROVE  ready'[i] < ready'[j]
      OBVIOUS
    <3>1. New(ready'[i]) /\ New(ready'[j])
      BY <2>3, <2>4
    <3>2. i + 1 < j + 1 /\ i + 1 \in DOMAIN ready /\ j + 1 \in DOMAIN ready
      BY <2>2
    <3> QED
      BY <2>2, <3>1, <3>2 DEF TaskOK
  <2> QED
    BY <2>1, <2>5, <2>6, <2>7, <2>8, <2>3 DEF TaskOK, OnLoop
<1>5. ASSUME NEW S, Woke(S)
      PROVE  TaskOK'
  <2>1. /\ S \in SUBSET heap /\ OnLoop /\ UNCHANGED kind
        /\ \A e \in S : /\ e.timer \in DOMAIN timers /\ e.deadline = timers[e.timer].deadline
                        /\ timers[e.timer].state = "waiting"
    BY <1>5, WokeEntries
  <2>2. /\ DOMAIN timers' = DOMAIN timers
        /\ \A u \in DOMAIN timers : (\A e \in S : e.timer # u) => timers'[u] = timers[u]
        /\ \A e \in S : timers'[e.timer].state = "woken" /\ timers'[e.timer].deadline = e.deadline
    BY <1>5, <2>1, Handles DEF Woke, Wake, Handle
  <2>3. now' \in Nat /\ now' >= now /\ (now' # now => \A u \in DOMAIN timers : ~New(u))
    BY <1>5 DEF Woke, TypeOK
  <2>4. ready' \in Seq(Item) /\ Len(ready) \in Nat /\ Len(ready') \in Nat
    BY <2>2 DEF TypeOK
  <2>5. /\ \A i \in DOMAIN ready : i \in DOMAIN ready' /\ ready'[i] = ready[i]
        /\ \A i \in DOMAIN ready' :
              i \in DOMAIN ready \/ ready'[i] = None \/ \E e \in S : ready'[i] = e.timer
        /\ \A e \in S : \E i \in DOMAIN ready' : ready'[i] = e.timer
    <3>1. \A i \in 1 .. Len(ready) : i \in 1 .. Len(ready') /\ ready'[i] = ready[i]
      BY <1>5, <2>4 DEF Woke
    <3>2. \A i \in 1 .. Len(ready') : i \in 1 .. Len(ready) \/ i \in Len(ready) + 1 .. Len(ready')
      BY <2>4
    <3>3. \A i \in Len(ready) + 1 .. Len(ready') : i \in 1 .. Len(ready')
      BY <2>4
    <3>4. DOMAIN ready = 1 .. Len(ready) /\ DOMAIN ready' = 1 .. Len(ready')
      BY <1>0, <2>4
    <3> QED
      BY <1>5, <3>1, <3>2, <3>3, <3>4 DEF Woke
  <2>6. \A u \in DOMAIN timers : New(u)' => New(u) /\ timers'[u] = timers[u]
    BY <2>2
  <2>7. \A u \in DOMAIN timers : ~New(u)' => ~New(u)
    BY <2>1, <2>2
  <2>8. \A u \in DOMAIN timers' :
           /\ New(u)' => timers'[u].deadline = now' + timers'[u].delay
           /\ New(u)' => \E i \in DOMAIN ready' : ready'[i] = u
    BY <2>2, <2>3, <2>5, <2>6 DEF TaskOK
  <2>9. \A u \in DOMAIN timers' :
           Woken(u)' => timers'[u].deadline <= now' /\ \E i \in DOMAIN ready' : ready'[i] = u
    <3> SUFFICES ASSUME NEW u \in DOMAIN timers, Woken(u)'
                 PROVE  timers'[u].deadline <= now' /\ \E i \in DOMAIN ready' : ready'[i] = u
      BY <2>2
    <3>1. CASE \E e \in S : e.timer = u
      BY <1>5, <2>2, <2>5, <3>1 DEF Woke
    <3>2. CASE \A e \in S : e.timer # u
      <4>1. Woken(u) /\ timers'[u] = timers[u]
        BY <2>2, <3>2
      <4>2. timers[u].deadline <= now /\ timers[u].deadline \in Nat
        BY <4>1, Handles DEF TaskOK
      <4> QED
        BY <1>0, <2>3, <2>5, <4>1, <4>2 DEF TaskOK
    <3> QED
      BY <3>1, <3>2
  <2>10. \A i \in DOMAIN ready' : ready'[i] # None => ~Waits(ready[i])'
    <3> SUFFICES ASSUME NEW i \in DOMAIN ready', ready'[i] # None
                 PROVE  ~Waits(ready[i])'
      OBVIOUS
    <3>1. ready'[i] \in DOMAIN timers
      BY <2>4, ElementOfSeq
    <3> QED
      BY <2>2, <2>5, <3>1 DEF TaskOK
  <2>11. \A i, j \in DOMAIN ready' :
           /\ i < j /\ ready'[i] # None /\ ready'[j] # None
           /\ New(ready[i])' /\ New(ready[j])'
           => ready'[i] < ready'[j]
    <3> SUFFICES ASSUME NEW i \in DOMAIN ready', NEW j \in DOMAIN ready',
                        i < j, ready'[i] # None, ready'[j] # None,
                        New(ready[i])', New(ready[j])'
                 PROVE  ready'[i] < ready'[j]
      OBVIOUS
    <3>1. ready'[i] \in DOMAIN timers /\ ready'[j] \in DOMAIN timers
      BY <2>4, ElementOfSeq
    <3>2. i \in DOMAIN ready /\ j \in DOMAIN ready
      BY <2>2, <2>5
    <3> QED
      BY <2>5, <2>6, <3>1, <3>2 DEF TaskOK
  <2> QED
    BY <2>1, <2>2, <2>6, <2>7, <2>8, <2>9, <2>10, <2>11 DEF TaskOK, OnLoop
<1>6. CASE Quiet
  <2>1. SameTasks
    BY <1>6, QuietQueue
  <2>2. UNCHANGED <<kind, timers>> /\ now' \in Nat /\ now' >= now /\ (now' # now => \A u \in DOMAIN timers : ~New(u))
    BY <1>0, <1>6 DEF Quiet
  <2>3. \A u \in DOMAIN timers : timers[u].deadline \in Nat
    BY Handles
  <2>4. \A u \in DOMAIN timers' :
           /\ New(u)' => timers'[u].deadline = now' + timers'[u].delay
           /\ Woken(u)' => timers'[u].deadline <= now'
           /\ New(u)' \/ Woken(u)' => \E i \in DOMAIN ready' : ready'[i] = u
    BY <1>0, <2>1, <2>2, <2>3 DEF TaskOK, SameTasks
  <2>5. \A i \in DOMAIN ready' : ready'[i] # None => ~Waits(ready[i])'
    BY <2>1, <2>2 DEF TaskOK, SameTasks
  <2>6. \A i, j \in DOMAIN ready' :
           /\ i < j /\ ready'[i] # None /\ ready'[j] # None
           /\ New(ready[i])' /\ New(ready[j])'
           => ready'[i] < ready'[j]
    <3> SUFFICES ASSUME NEW i \in DOMAIN ready', NEW j \in DOMAIN ready',
                        i < j, ready'[i] # None, ready'[j] # None,
                        New(ready[i])', New(ready[j])'
                 PROVE  ready'[i] < ready'[j]
      OBVIOUS
    <3>1. PICK k, l \in DOMAIN ready : k < l /\ ready[k] = ready'[i] /\ ready[l] = ready'[j]
      BY <2>1 DEF SameTasks
    <3>2. New(ready[k]) /\ New(ready[l])
      BY <2>2, <3>1
    <3> QED
      BY <3>1, <3>2 DEF TaskOK
  <2> QED
    BY <2>2, <2>4, <2>5, <2>6 DEF TaskOK, OnLoop
<1>7. CASE ManualPop
  BY <1>3, <1>7 DEF ManualPop, ManualGoesOn
<1>8. CASE WallFire
  <2>1. CASE heap # {} /\ Soonest.deadline <= now
    BY <1>3, <1>8, <2>1 DEF WallFire
  <2>2. CASE ~(heap # {} /\ Soonest.deadline <= now)
    BY <1>6, <1>8, <2>2 DEF WallFire, Quiet
  <2> QED
    BY <2>1, <2>2
<1>9. CASE SpoofWake \/ MuxFire
  BY <1>5, <1>9, SpoofWakes, MuxWakesDue
<1>10. CASE \E t \in 1 .. HORIZON + 1 : AdvanceTo(t)
  <2>1. PICK t \in 1 .. HORIZON + 1 : AdvanceTo(t)
    BY <1>10
  <2>2. t \in Nat
    BY DEF SchedulersAssumption
  <2> QED
    BY <1>5, <2>1, <2>2, SimpyWakesDue
<1> QED
  BY <1>1, <1>2, <1>4, <1>6, <1>7, <1>8, <1>9, <1>10, QuietSteps DEF Next, Client, Drive, Proceed

\* Of two live entries the one that leaves the heap first is due before.
LEMMA SoonerIsBefore ==
    ASSUME TypeOK, HeapOK, NEW e \in heap, NEW f \in heap, Sooner(e, f)
    PROVE  Before(e.timer, f.timer)
BY DEF HeapOK, Sooner, Before

\* Every step keeps the woken timers ahead of the others, and queued in order.
LEMMA OrderKept ==
    ASSUME SchedulersAssumption, TypeOK, TypeOK', DriverOK, LoopOK, HeapOK,
           TaskOK, TaskOK', OrderOK, Next
    PROVE  OrderOK'
<1> USE DEF Waits, Woken, New, Armed
<1> DEFINE Item == {None} \cup DOMAIN timers
<1>0. /\ now \in Nat /\ ready \in Seq(Item) /\ None \in Item
      /\ \A t \in DOMAIN timers : /\ t \in Nat /\ t # None /\ timers[t].deadline \in Nat
                                  /\ timers[t].state \in {"new", "waiting", "woken", "done"}
  BY Handles DEF TypeOK, None
<1>00. \A i \in DOMAIN ready : ready[i] = None \/ ready[i] \in DOMAIN timers
  BY <1>0, ElementOfSeq
<1>1. CASE \E delay \in DELAYS : CallLater(delay)
  <2>1. PICK delay \in DELAYS : CallLater(delay)
    BY <1>1
  <2> DEFINE n == Len(timers')
             l == Len(ready) + 1
  <2>2. /\ DOMAIN timers' = DOMAIN timers \cup {n} /\ Clamped(delay) \in Nat /\ n \in Nat
        /\ \A t \in DOMAIN timers : t < n /\ t # n /\ timers'[t] = timers[t]
        /\ timers'[n] = NewTimer(delay, IF kind \in {"sim", "mux"} THEN "new" ELSE "waiting")
    BY <2>1, NewTimerIs
  <2>3. /\ UNCHANGED <<kind, now>> /\ timers'[n].state \in {"new", "waiting"}
        /\ timers'[n].deadline = now + Clamped(delay)
    <3>1. UNCHANGED <<kind, now>>
      BY <2>1 DEF CallLater
    <3> HIDE DEF n
    <3>2. CASE kind \in {"sim", "mux"}
      BY <2>2, <3>1, <3>2 DEF NewTimer
    <3>3. CASE kind \notin {"sim", "mux"}
      BY <2>2, <3>1, <3>3 DEF NewTimer
    <3> QED
      BY <3>1, <3>2, <3>3
  <2>4. /\ \A i \in DOMAIN ready' : /\ i \in DOMAIN ready \/ ready'[i] = n
                                    /\ i \in DOMAIN ready => ready'[i] = ready[i]
    <3>1. CASE ready' = ready
      BY <3>1
    <3>2. CASE ready' = Append(ready, n)
      <4>1. ready \in Seq({None} \cup DOMAIN timers') /\ n \in {None} \cup DOMAIN timers'
        <5> HIDE DEF n
        <5>1. DOMAIN timers \subseteq DOMAIN timers' /\ n \in DOMAIN timers'
          BY <2>2
        <5> QED
          BY <5>1 DEF TypeOK
      <4> HIDE DEF n
      <4> QED
        BY <3>2, <4>1, AppendOf
    <3> QED
      BY <2>1, <3>1, <3>2 DEF CallLater
  <2> HIDE DEF n, l
  <2>5. \A t, u \in DOMAIN timers' : Woken(t)' /\ Armed(u)' /\ ~Woken(u)' => Before(t, u)'
    <3> SUFFICES ASSUME NEW t \in DOMAIN timers, NEW u \in DOMAIN timers', Woken(t), Armed(u)', ~Woken(u)'
                 PROVE  Before(t, u)'
      BY <2>2, <2>3
    <3>1. CASE u = n
      <4>1. timers[t].deadline <= now
        BY DEF TaskOK
      <4>2. timers[t].deadline <= now + Clamped(delay)
        BY <1>0, <2>2, <4>1
      <4>3. /\ timers'[t].deadline = timers[t].deadline /\ t < n /\ timers[t].deadline \in Nat
            /\ timers'[n].deadline = now + Clamped(delay) /\ now + Clamped(delay) \in Nat
        BY <1>0, <2>2, <2>3
      <4> QED
        BY <3>1, <4>2, <4>3 DEF Before
    <3>2. CASE u # n
      BY <2>2, <2>3, <3>2 DEF OrderOK, Before
    <3> QED
      BY <3>1, <3>2
  <2>6. \A i, j \in DOMAIN ready' :
          /\ i < j /\ ready'[i] # None /\ ready'[j] # None
          /\ Woken(ready[i])' /\ Woken(ready[j])'
          => Before(ready[i], ready[j])'
    BY <1>00, <2>2, <2>3, <2>4 DEF OrderOK, Before
  <2> QED
    BY <2>5, <2>6 DEF OrderOK
<1>2. CASE \E t \in DOMAIN timers : Cancel(t)
  <2>1. PICK t \in DOMAIN timers : Cancel(t)
    BY <1>2
  <2>2. /\ UNCHANGED <<kind, now>> /\ DOMAIN timers' = DOMAIN timers
        /\ \A u \in DOMAIN timers : u # t => timers'[u] = timers[u]
        /\ timers'[t].cancelled /\ timers'[t].state = timers[t].state
        /\ timers'[t].deadline = timers[t].deadline
    BY <2>1, Handles DEF Cancel, Handle
  <2>3. /\ \A i \in DOMAIN ready' : /\ i \in DOMAIN ready \/ ready'[i] = t
                                    /\ i \in DOMAIN ready => ready'[i] = ready[i]
    <3>1. CASE ready' = ready
      BY <3>1
    <3>2. CASE ready' = Append(ready, t)
      BY <1>0, <3>2, AppendOf
    <3> QED
      BY <2>1, <3>1, <3>2 DEF Cancel
  <2>4. \A u, v \in DOMAIN timers' : Woken(u)' /\ Armed(v)' /\ ~Woken(v)' => Before(u, v)'
    BY <2>2 DEF OrderOK, Before
  <2>5. \A i, j \in DOMAIN ready' :
          /\ i < j /\ ready'[i] # None /\ ready'[j] # None
          /\ Woken(ready[i])' /\ Woken(ready[j])'
          => Before(ready[i], ready[j])'
    BY <1>00, <2>2, <2>3 DEF OrderOK, Before
  <2> QED
    BY <2>4, <2>5 DEF OrderOK
<1>3. ASSUME kind \in {"manual", "wall"}, kind' = kind
      PROVE  OrderOK'
  <2>1. \A u \in DOMAIN timers' : ~Woken(u)'
    BY <1>3 DEF TaskOK, OnLoop
  <2>2. \A i \in DOMAIN ready' : ready'[i] # None => ready'[i] \in DOMAIN timers'
    BY ElementOfSeq DEF TypeOK
  <2> QED
    BY <2>1, <2>2 DEF OrderOK
<1>4. CASE TaskStep
  <2> DEFINE t == ready[1]
             q == Tail(ready)
  <2>1. /\ UNCHANGED <<kind, now>> /\ OnLoop /\ t \in DOMAIN timers /\ ready # <<>> /\ ready' = q
        /\ TaskStarts \/ TaskResumes \/ TaskCancelled
    BY <1>4, TaskTakesOne DEF TaskStep, TaskStarts, TaskResumes, TaskCancelled
  <2>2. /\ \A i \in DOMAIN ready' : i \in Nat /\ i + 1 \in DOMAIN ready /\ ready'[i] = ready[i + 1]
    BY <1>0, <2>1, TailOf
  <2>3. /\ DOMAIN timers' = DOMAIN timers
        /\ \A u \in DOMAIN timers : u # t => timers'[u] = timers[u]
        /\ timers'[t].state = IF TaskStarts THEN "waiting" ELSE "done"
        /\ timers'[t].deadline = timers[t].deadline
        /\ timers'[t].cancelled = timers[t].cancelled
        /\ TaskStarts => timers[t].state = "new"
    <3>1. StateTo(t, IF TaskStarts THEN "waiting" ELSE "done")
      BY <1>4, <2>1, TaskTakesOne
    <3>2. timers[t] \in Handle
      BY <2>1, Handles
    <3> QED
      BY <3>1, <3>2 DEF StateTo, Handle, TaskStarts
  <2> HIDE DEF q, t
  <2>4. \A u \in DOMAIN timers : Woken(u)' => Woken(u) /\ u # t
    BY <2>3
  <2>5. \A u \in DOMAIN timers : Armed(u)' /\ ~Woken(u)' => Armed(u) /\ ~Woken(u)
    BY <2>3
  <2>6. \A u, v \in DOMAIN timers : Before(u, v)' <=> Before(u, v)
    BY <2>1, <2>3 DEF Before
  <2>7. \A u, v \in DOMAIN timers' : Woken(u)' /\ Armed(v)' /\ ~Woken(v)' => Before(u, v)'
    BY <2>3, <2>4, <2>5, <2>6 DEF OrderOK
  <2>8. \A i, j \in DOMAIN ready' :
          /\ i < j /\ ready'[i] # None /\ ready'[j] # None
          /\ Woken(ready[i])' /\ Woken(ready[j])'
          => Before(ready[i], ready[j])'
    <3> SUFFICES ASSUME NEW i \in DOMAIN ready', NEW j \in DOMAIN ready', i < j,
                        ready'[i] # None, ready'[j] # None, Woken(ready[i])', Woken(ready[j])'
                 PROVE  Before(ready[i], ready[j])'
      OBVIOUS
    <3>1. ready'[i] \in DOMAIN timers /\ ready'[j] \in DOMAIN timers
      BY <1>00, <2>2
    <3>2. Woken(ready'[i]) /\ Woken(ready'[j])
      BY <2>3, <3>1
    <3>3. i + 1 < j + 1 /\ i + 1 \in DOMAIN ready /\ j + 1 \in DOMAIN ready
      BY <2>2
    <3>4. Before(ready[i + 1], ready[j + 1])
      BY <2>2, <3>2, <3>3 DEF OrderOK
    <3> QED
      BY <2>1, <2>2, <2>3, <3>1, <3>4 DEF Before
  <2> QED
    BY <2>7, <2>8 DEF OrderOK
<1>5. ASSUME NEW S, Woke(S)
      PROVE  OrderOK'
  <2>1. /\ S \in SUBSET heap /\ UNCHANGED kind
        /\ \A e \in S : /\ e.timer \in DOMAIN timers /\ e.deadline = timers[e.timer].deadline
                        /\ Waits(e.timer) /\ e.deadline \in Nat
    BY <1>5, WokeEntries
  <2>2. /\ DOMAIN timers' = DOMAIN timers
        /\ \A u \in DOMAIN timers : (\A e \in S : e.timer # u) => timers'[u] = timers[u]
        /\ \A e \in S : timers'[e.timer].state = "woken" /\ timers'[e.timer].deadline = e.deadline
    BY <1>5, <2>1, Handles DEF Woke, Wake, Handle
  <2>3. now' \in Nat /\ now' >= now /\ (now' # now => \A u \in DOMAIN timers : ~New(u))
    BY <1>5 DEF Woke, TypeOK
  <2>4. \A u, v \in DOMAIN timers : Before(u, v)' <=> Before(u, v)
    BY <2>1, <2>2 DEF Before
  <2>5. ASSUME NEW e \in S, NEW u \in DOMAIN timers, Armed(u), ~Woken(u), \A f \in S : f.timer # u
        PROVE  Before(e.timer, u)
    <3>1. CASE Waits(u)
      <4>1. PICK f \in heap : f.timer = u
        BY <3>1 DEF HeapOK
      <4>2. f \in Live \ S
        BY <2>5, <4>1 DEF Live, Dead
      <4>3. Sooner(e, f)
        BY <1>5, <4>2 DEF Woke
      <4> QED
        BY <2>1, <4>1, <4>3, SoonerIsBefore
    <3>2. CASE New(u)
      <4>1. now' = now /\ e.deadline <= now
        BY <1>5, <2>3, <3>2 DEF Woke
      <4>2. timers[u].deadline = now + timers[u].delay /\ timers[u].delay \in Nat
        BY <3>2, Handles DEF TaskOK
      <4>3. e.timer < u
        BY <2>1, <3>2 DEF TaskOK
      <4>4. e.deadline <= timers[u].deadline
        BY <1>0, <2>1, <4>1, <4>2
      <4> QED
        BY <1>0, <2>1, <4>3, <4>4 DEF Before
    <3> QED
      BY <1>0, <2>5, <3>1, <3>2
  <2>6. \A u, v \in DOMAIN timers' : Woken(u)' /\ Armed(v)' /\ ~Woken(v)' => Before(u, v)'
    <3> SUFFICES ASSUME NEW u \in DOMAIN timers, NEW v \in DOMAIN timers,
                        Woken(u)', Armed(v)', ~Woken(v)'
                 PROVE  Before(u, v)
      BY <2>2, <2>4
    <3>1. \A f \in S : f.timer # v
      BY <2>2
    <3>2. timers'[v] = timers[v]
      BY <2>2, <3>1
    <3>3. CASE \E e \in S : e.timer = u
      BY <2>5, <3>1, <3>2, <3>3
    <3>4. CASE \A e \in S : e.timer # u
      BY <2>2, <3>2, <3>4 DEF OrderOK
    <3> QED
      BY <3>3, <3>4
  <2>7. /\ ready' \in Seq(Item) /\ Len(ready) \in Nat /\ Len(ready') \in Nat
        /\ DOMAIN ready = 1 .. Len(ready) /\ DOMAIN ready' = 1 .. Len(ready')
    BY <1>0, <2>2 DEF TypeOK
  <2>8. ASSUME NEW i \in DOMAIN ready, ready[i] # None
        PROVE  /\ \A e \in S : e.timer # ready[i]
               /\ ready[i] \in DOMAIN timers /\ timers'[ready[i]] = timers[ready[i]]
    BY <1>00, <2>1, <2>2, <2>8 DEF TaskOK
  <2>9. \A i, j \in DOMAIN ready' :
          /\ i < j /\ ready'[i] # None /\ ready'[j] # None
          /\ Woken(ready[i])' /\ Woken(ready[j])'
          => Before(ready[i], ready[j])'
    <3> SUFFICES ASSUME NEW i \in DOMAIN ready', NEW j \in DOMAIN ready', i < j,
                        ready'[i] # None, ready'[j] # None, Woken(ready[i])', Woken(ready[j])'
                 PROVE  Before(ready'[i], ready'[j])
      <4>1. \A i \in DOMAIN ready' : ready'[i] = None \/ ready'[i] \in DOMAIN timers
        BY <2>7, ElementOfSeq
      <4> QED
        BY <2>1, <2>2, <4>1 DEF Before
    <3>1. CASE j \in DOMAIN ready
      <4>1. i \in DOMAIN ready
        BY <2>7, <3>1
      <4>2. ready'[i] = ready[i] /\ ready'[j] = ready[j]
        BY <1>5, <2>7, <3>1, <4>1 DEF Woke
      <4>3. Woken(ready[i]) /\ Woken(ready[j])
        BY <2>8, <3>1, <4>1, <4>2
      <4> QED
        BY <3>1, <4>1, <4>2, <4>3 DEF OrderOK
    <3>2. CASE i \in DOMAIN ready /\ j \notin DOMAIN ready
      <4>1. ready'[i] = ready[i]
        BY <1>5, <2>7, <3>2 DEF Woke
      <4>2. Woken(ready[i]) /\ ready[i] \in DOMAIN timers
        BY <2>8, <3>2, <4>1
      <4>3. j \in Len(ready) + 1 .. Len(ready')
        BY <2>7, <3>2
      <4>4. PICK e \in S : ready'[j] = e.timer
        BY <1>5, <4>3 DEF Woke
      <4> QED
        BY <2>1, <4>1, <4>2, <4>4 DEF OrderOK
    <3>3. CASE i \notin DOMAIN ready /\ j \notin DOMAIN ready
      <4>1. i \in Len(ready) + 1 .. Len(ready') /\ j \in Len(ready) + 1 .. Len(ready')
        BY <2>7, <3>3
      <4>2. \A k, l \in Len(ready) + 1 .. Len(ready') :
               k < l /\ ready'[k] # None /\ ready'[l] # None =>
                  \E e, f \in S : ready'[k] = e.timer /\ ready'[l] = f.timer /\ Sooner(e, f)
        BY <1>5 DEF Woke
      <4>3. PICK e \in S, f \in S : ready'[i] = e.timer /\ ready'[j] = f.timer /\ Sooner(e, f)
        BY <4>1, <4>2
      <4> QED
        BY <2>1, <4>3, SoonerIsBefore
    <3> QED
      BY <3>1, <3>2, <3>3
  <2> QED
    BY <2>6, <2>9 DEF OrderOK
<1>6. CASE Quiet
  <2>1. SameTasks /\ UNCHANGED <<kind, timers>>
    BY <1>6, QuietQueue DEF Quiet
  <2>2. \A i, j \in DOMAIN ready' :
          /\ i < j /\ ready'[i] # None /\ ready'[j] # None
          /\ Woken(ready[i])' /\ Woken(ready[j])'
          => Before(ready[i], ready[j])'
    <3> SUFFICES ASSUME NEW i \in DOMAIN ready', NEW j \in DOMAIN ready',
                        i < j, ready'[i] # None, ready'[j] # None,
                        Woken(ready[i])', Woken(ready[j])'
                 PROVE  Before(ready[i], ready[j])'
      OBVIOUS
    <3>1. PICK k, l \in DOMAIN ready : k < l /\ ready[k] = ready'[i] /\ ready[l] = ready'[j]
      BY <2>1 DEF SameTasks
    <3>2. Before(ready[k], ready[l])
      BY <2>1, <3>1 DEF OrderOK
    <3> QED
      BY <2>1, <3>1, <3>2 DEF Before
  <2> QED
    BY <2>1, <2>2 DEF OrderOK, Before
<1>7. CASE ManualPop \/ WallFire
  BY <1>3, <1>7 DEF ManualPop, WallFire
<1>8. CASE SpoofWake \/ MuxFire
  BY <1>5, <1>8, SpoofWakes, MuxWakesDue
<1>9. CASE \E t \in 1 .. HORIZON + 1 : AdvanceTo(t)
  <2>1. PICK t \in 1 .. HORIZON + 1 : AdvanceTo(t)
    BY <1>9
  <2>2. t \in Nat
    BY DEF SchedulersAssumption
  <2> QED
    BY <1>5, <2>1, <2>2, SimpyWakesDue
<1> QED
  BY <1>1, <1>2, <1>4, <1>6, <1>7, <1>8, <1>9, QuietSteps DEF Next, Client, Drive, Proceed

-------------------------------------------------------------------------------
(* The driver.                                                               *)

\* A client call leaves the driver where it is, and never comes while it settles
\* with no callback running, or looks at the heap.
LEMMA ClientLoop ==
    ASSUME TypeOK, LoopOK, ClientTurn, UNCHANGED <<kind, running, driver>>,
           OnLoop, NEW n, n # None,
           \A i \in DOMAIN ready' : /\ i \in DOMAIN ready \/ ready'[i] = n
                                    /\ i \in DOMAIN ready => ready'[i] = ready[i],
           \A i \in DOMAIN ready' : ready'[i] # None /\ Woken(ready[i])' =>
                                       i \in DOMAIN ready /\ Woken(ready[i])
    PROVE  LoopOK'
BY DEF LoopOK, ClientTurn, OnLoop

\* Every step keeps the driver's place in the queue, and leaves the queue empty
\* when it has settled.
LEMMA LoopKept ==
    ASSUME SchedulersAssumption, TypeOK, TypeOK', DriverOK, LoopOK, HeapOK, TaskOK, TaskOK', Next
    PROVE  LoopOK'
<1> DEFINE Item == {None} \cup DOMAIN timers
<1>0. /\ ready \in Seq(Item) /\ None \in Item /\ SETTLE \in Nat /\ SETTLE > 1
      /\ \A t \in DOMAIN timers : t # None
  BY Handles DEF TypeOK, None, SchedulersAssumption
<1>00. \A i \in DOMAIN ready : ready[i] = None \/ ready[i] \in DOMAIN timers
  BY <1>0, ElementOfSeq
<1>1. CASE \E delay \in DELAYS : CallLater(delay)
  <2>1. PICK delay \in DELAYS : CallLater(delay)
    BY <1>1
  <2> DEFINE n == Len(timers')
  <2>2. /\ n \in DOMAIN timers' /\ n \in Nat /\ DOMAIN timers \subseteq DOMAIN timers'
        /\ \A t \in DOMAIN timers : t < n /\ t # n /\ timers'[t] = timers[t]
        /\ timers'[n] = NewTimer(delay, IF kind \in {"sim", "mux"} THEN "new" ELSE "waiting")
    BY <2>1, NewTimerIs
  <2>3. /\ timers'[n].state # "woken" /\ n # None /\ ClientTurn
        /\ UNCHANGED <<kind, running, driver>>
    <3>1. ClientTurn /\ UNCHANGED <<kind, running, driver>>
      BY <2>1 DEF CallLater
    <3>2. n # None
      BY <2>2, Handles DEF None, TypeOK
    <3> HIDE DEF n
    <3>3. CASE kind \in {"sim", "mux"}
      BY <2>2, <3>1, <3>2, <3>3 DEF NewTimer
    <3>4. CASE kind \notin {"sim", "mux"}
      BY <2>2, <3>1, <3>2, <3>4 DEF NewTimer
    <3> QED
      BY <3>3, <3>4
  <2>4. CASE OnLoop
    <3>1. \A i \in DOMAIN ready' : /\ i \in DOMAIN ready \/ ready'[i] = n
                                   /\ i \in DOMAIN ready => ready'[i] = ready[i]
      <4>1. CASE ready' = ready
        BY <4>1
      <4>2. CASE ready' = Append(ready, n)
        <5> HIDE DEF n
        <5>1. ready \in Seq({None} \cup DOMAIN timers')
          BY <2>2 DEF TypeOK
        <5> QED
          BY <2>2, <4>2, <5>1, AppendOf
      <4> QED
        BY <2>1, <4>1, <4>2 DEF CallLater
    <3> HIDE DEF n
    <3>2. \A i \in DOMAIN ready' : ready'[i] # None /\ Woken(ready[i])' =>
                                       i \in DOMAIN ready /\ Woken(ready[i])
      BY <1>00, <2>2, <2>3, <3>1 DEF Woken, Armed
    <3> QED
      BY <2>3, <2>4, <3>1, <3>2, ClientLoop
  <2>5. CASE ~OnLoop
    <3>1. ready' = <<>>
      BY <2>1, <2>5 DEF CallLater, LoopOK, OnLoop
    <3> QED
      BY <2>3, <2>5, <3>1 DEF LoopOK, ClientTurn, OnLoop
  <2> QED
    BY <2>4, <2>5
<1>2. CASE \E t \in DOMAIN timers : Cancel(t)
  <2>1. PICK t \in DOMAIN timers : Cancel(t)
    BY <1>2
  <2>2. /\ UNCHANGED <<kind, running, driver>> /\ ClientTurn /\ DOMAIN timers' = DOMAIN timers
        /\ \A u \in DOMAIN timers : u # t => timers'[u] = timers[u]
        /\ timers'[t].cancelled /\ t # None
    BY <1>0, <2>1, Handles DEF Cancel, Handle
  <2>3. CASE OnLoop
    <3>1. \A i \in DOMAIN ready' : /\ i \in DOMAIN ready \/ ready'[i] = t
                                   /\ i \in DOMAIN ready => ready'[i] = ready[i]
      <4>1. CASE ready' = ready
        BY <4>1
      <4>2. CASE ready' = Append(ready, t)
        BY <1>0, <4>2, AppendOf
      <4> QED
        BY <2>1, <4>1, <4>2 DEF Cancel
    <3>2. \A i \in DOMAIN ready' : ready'[i] # None /\ Woken(ready[i])' =>
                                       i \in DOMAIN ready /\ Woken(ready[i])
      BY <1>00, <2>2, <3>1 DEF Woken, Armed
    <3> QED
      BY <2>2, <2>3, <3>1, <3>2, ClientLoop
  <2>4. CASE ~OnLoop
    <3>1. ready' = <<>>
      BY <2>1, <2>4 DEF Cancel, LoopOK, OnLoop
    <3> QED
      BY <2>2, <2>4, <3>1 DEF LoopOK, OnLoop
  <2> QED
    BY <2>3, <2>4
<1>3. CASE CallbackReturns
  <2>1. running' = None /\ UNCHANGED <<kind, timers, ready, driver>>
    BY <1>3 DEF CallbackReturns
  <2> QED
    BY <2>1 DEF LoopOK, OnLoop, Woken, Armed
<1>4. ASSUME kind \in {"manual", "wall"}, UNCHANGED <<kind, ready>>, driver'.pc # "settle"
      PROVE  LoopOK'
  BY <1>4 DEF LoopOK, OnLoop
<1>5. CASE TaskStep
  <2> DEFINE t == ready[1]
             q == Tail(ready)
  <2>1. /\ UNCHANGED <<kind, driver>> /\ OnLoop /\ t \in DOMAIN timers /\ ready # <<>> /\ ready' = q
        /\ driver.pc \in {"idle", "settle", "lock", "sleep"} /\ running = None
        /\ running' = running \/ Woken(t)
    BY <1>5, TaskTakesOne DEF TaskStep, TaskStarts, TaskResumes, TaskCancelled, Woken, Armed, Between
  <2>2. /\ \A i \in DOMAIN ready' : i \in Nat /\ i + 1 \in DOMAIN ready /\ ready'[i] = ready[i + 1]
        /\ Len(ready') = Len(ready) - 1 /\ Len(ready) \in Nat /\ 1 \in DOMAIN ready
    BY <1>0, <2>1, TailOf
  <2>3. \A u \in DOMAIN timers : Woken(u)' => Woken(u)
    <3>1. \E state \in {"waiting", "done"} : StateTo(t, state)
      BY <1>5, TaskTakesOne DEF TaskStep
    <3>2. timers[t] \in Handle
      BY <2>1, Handles
    <3> QED
      BY <3>1, <3>2 DEF StateTo, Handle, Woken, Armed
  <2> HIDE DEF q
  <2>4. \A i \in DOMAIN ready' : ready'[i] = None => driver'.pc = "settle"
    BY <2>1, <2>2 DEF LoopOK
  <2>5. \A i, j \in DOMAIN ready' : ready'[i] = None /\ ready'[j] = None => i = j
    <3> SUFFICES ASSUME NEW i \in DOMAIN ready', NEW j \in DOMAIN ready', ready'[i] = None, ready'[j] = None
                 PROVE  i = j
      OBVIOUS
    <3>1. i + 1 = j + 1
      BY <2>2 DEF LoopOK
    <3> QED
      BY <2>2, <3>1
  <2>6. \A i, j \in DOMAIN ready' : ready'[i] = None /\ ready'[j] # None /\ Woken(ready[j])' => j < i
    <3> SUFFICES ASSUME NEW i \in DOMAIN ready', NEW j \in DOMAIN ready', ready'[i] = None, ready'[j] # None,
                        Woken(ready[j])'
                 PROVE  j < i
      OBVIOUS
    <3>1. Woken(ready[j + 1])
      BY <1>00, <2>2, <2>3 DEF Woken, Armed
    <3>2. j + 1 < i + 1
      BY <2>2, <3>1 DEF LoopOK
    <3> QED
      BY <2>2, <3>2
  <2>7. ASSUME driver'.pc = "settle", driver'.left < SETTLE
        PROVE  /\ running' = None
               /\ \A i \in DOMAIN ready' : ready'[i] = None => i = Len(ready')
               /\ \A i \in DOMAIN ready' : ready'[i] # None => ~Woken(ready[i])'
    <3>1. /\ \A i \in DOMAIN ready : ready[i] = None => i = Len(ready)
          /\ \A i \in DOMAIN ready : ready[i] # None => ~Woken(ready[i])
      BY <2>1, <2>7 DEF LoopOK
    <3>2. running' = None
      BY <1>0, <2>1, <2>2, <3>1
    <3>3. \A i \in DOMAIN ready' : ready'[i] = None => i = Len(ready')
      BY <2>2, <3>1
    <3>4. \A i \in DOMAIN ready' : ready'[i] # None => ~Woken(ready[i])'
      <4> SUFFICES ASSUME NEW i \in DOMAIN ready', ready'[i] # None, Woken(ready[i])'
                   PROVE  FALSE
        OBVIOUS
      <4>1. Woken(ready[i + 1])
        BY <1>00, <2>2, <2>3 DEF Woken, Armed
      <4> QED
        BY <2>2, <3>1, <4>1
    <3> QED
      BY <3>2, <3>3, <3>4
  <2> QED
    BY <2>1, <2>4, <2>5, <2>6, <2>7 DEF LoopOK, OnLoop
<1>6. ASSUME driver.pc # "settle", Between, UNCHANGED <<kind, timers, running>>, OnLoop,
             ready' = Append(ready, None), driver'.pc = "settle", driver'.left = SETTLE
      PROVE  LoopOK'
  <2> DEFINE l == Len(ready) + 1
  <2>1. /\ DOMAIN ready' = DOMAIN ready \cup {l} /\ ready'[l] = None /\ l \in Nat
        /\ \A i \in DOMAIN ready : i < l /\ i \in Nat /\ ready'[i] = ready[i]
    BY <1>0, <1>6, AppendOf
  <2>2. \A i \in DOMAIN ready : ready[i] # None
    BY <1>6 DEF LoopOK
  <2> HIDE DEF l
  <2> QED
    BY <1>0, <1>6, <2>1, <2>2 DEF LoopOK, OnLoop, Between
<1>7. CASE \/ \E dt \in SPANS : SpoofRunFor(dt) \/ MuxStep(dt)
           \/ SpoofRunUntilIdle
  <2>1. /\ driver = Idle /\ Between /\ UNCHANGED <<kind, timers, running>> /\ kind \in {"sim", "mux"}
        /\ \E call \in Calls, next \in {"loop", "fire"} : Settle(call, ready, next)
    <3>1. now \in Nat /\ \A dt \in SPANS : dt \in Nat
      BY DEF SchedulersAssumption, TypeOK
    <3>2. \A dt \in SPANS : dt \in Nat /\ now + dt \in Nat
      BY <3>1
    <3>3. /\ \A dt \in SPANS : [Idle EXCEPT !.op = "run", !.target = now + dt] \in Calls
          /\ \A dt \in SPANS : [Idle EXCEPT !.target = dt] \in Calls
          /\ [Idle EXCEPT !.op = "idle"] \in Calls
      BY <3>2 DEF Idle, Calls
    <3> QED
      BY <1>7, <3>3 DEF SpoofRunFor, MuxStep, SpoofRunUntilIdle
  <2>2. driver.pc = "idle"
    BY <2>1 DEF Idle
  <2>3. driver'.pc = "settle" /\ driver'.left = SETTLE /\ ready' = Append(ready, None)
    BY <2>1 DEF Settle, SettleRounds, Calls
  <2> QED
    BY <1>6, <2>1, <2>2, <2>3 DEF OnLoop
<1>8. CASE DriverTurn
  <2> DEFINE q == Tail(ready)
  <2>1. /\ driver.pc = "settle" /\ ready # <<>> /\ ready[1] = None /\ running = None
        /\ UNCHANGED <<kind, timers, running>>
    BY <1>8 DEF DriverTurn, At, Between
  <2>2. /\ q \in Seq(Item) /\ Len(q) = Len(ready) - 1 /\ Len(ready) \in Nat
        /\ \A i \in DOMAIN q : i \in Nat /\ i + 1 \in DOMAIN ready /\ i + 1 # 1 /\ q[i] = ready[i + 1]
        /\ 1 \in DOMAIN ready
    BY <1>0, <2>1, TailOf
  <2>3. driver.left \in 1 .. SETTLE /\ OnLoop
    BY <2>1 DEF DriverOK, OnLoop, TypeOK
  <2>4. \A i \in DOMAIN q : q[i] # None /\ ~Woken(q[i])
    <3> SUFFICES ASSUME NEW i \in DOMAIN q
                 PROVE  q[i] # None /\ ~Woken(q[i])
      OBVIOUS
    <3>1. i + 1 \in DOMAIN ready /\ i + 1 # 1 /\ q[i] = ready[i + 1] /\ i \in Nat
      BY <2>2
    <3>2. ready[i + 1] # None
      BY <2>1, <2>2, <3>1 DEF LoopOK
    <3>3. ~Woken(ready[i + 1])
      <4>1. Woken(ready[i + 1]) => i + 1 < 1
        BY <2>1, <2>2, <3>1, <3>2 DEF LoopOK
      <4> QED
        BY <3>1, <4>1
    <3> QED
      BY <3>1, <3>2, <3>3
  <2> HIDE DEF q
  <2>5. CASE driver.left > 1
    <3>1. ready' = Append(q, None) /\ driver' = [driver EXCEPT !.left = @ - 1]
      BY <1>8, <2>5 DEF DriverTurn, q
    <3> DEFINE l == Len(q) + 1
    <3>2. /\ DOMAIN ready' = DOMAIN q \cup {l} /\ ready'[l] = None /\ Len(ready') = l
          /\ \A i \in DOMAIN q : ready'[i] = q[i]
      BY <1>0, <2>2, <3>1, AppendOf
    <3>3. driver'.pc = "settle"
      BY <2>1, <3>1 DEF TypeOK, Calls
    <3> HIDE DEF l
    <3> QED
      BY <2>1, <2>3, <2>4, <3>2, <3>3 DEF LoopOK, OnLoop, Woken, Armed
  <2>6. CASE ~(driver.left > 1)
    <3>1. driver.left < SETTLE
      BY <1>0, <2>3, <2>6
    <3>2. Len(ready) = 1
      BY <2>1, <2>2, <3>1 DEF LoopOK
    <3>3. ready' = <<>>
      <4>1. ready' = q /\ Len(q) = 0
        BY <1>8, <2>2, <2>6, <3>2 DEF DriverTurn, q
      <4> QED
        BY <2>2, <4>1
    <3>4. driver'.pc # "settle"
      <4>1. driver \in Calls /\ driver.next # "settle"
        BY DEF TypeOK, Calls
      <4>2. driver' = Idle \/ driver' = [driver EXCEPT !.pc = driver.next, !.left = 0]
        BY <1>8, <2>6 DEF DriverTurn
      <4>3. [driver EXCEPT !.pc = driver.next, !.left = 0].pc = driver.next
        BY <4>1 DEF Calls
      <4>4. Idle.pc # "settle"
        BY DEF Idle
      <4> QED
        BY <4>1, <4>2, <4>3, <4>4
    <3> QED
      BY <2>1, <3>3, <3>4 DEF LoopOK, OnLoop
  <2> QED
    BY <2>5, <2>6
<1>9. CASE SpoofWake
  <2>1. /\ ready = <<>> /\ running = None /\ UNCHANGED <<kind, running>> /\ kind = "sim"
        /\ driver.pc = "loop" /\ driver \in Calls
    BY <1>9 DEF SpoofWake, At, Between, LoopOK, OnLoop, TypeOK
  <2>2. FirstLive.timer # None
    BY <1>0, <1>9, FirstLiveIsFirst DEF SpoofWake, Live, TypeOK
  <2>3. \/ driver' = Idle /\ ready' = <<FirstLive.timer>>
        \/ /\ driver'.pc = "settle" /\ driver'.left = SETTLE
           /\ ready' = <<FirstLive.timer, None>>
    <3> DEFINE steps == IF driver.op = "idle" THEN driver.steps + 1 ELSE 0
               call == [driver EXCEPT !.steps = steps]
    <3>2. \/ driver' = Idle /\ ready' = Append(ready, FirstLive.timer)
          \/ Settle(call, Append(ready, FirstLive.timer), "loop")
      BY <1>9 DEF SpoofWake
    <3>3. call \in [pc : {"loop"}, op : {"none", "run", "idle"}, target : Nat, left : Nat,
                    next : {"idle", "loop", "fire", "aim"}, steps : Int]
      BY <2>1 DEF Calls
    <3> HIDE DEF call
    <3>4. Append(ready, FirstLive.timer) = <<FirstLive.timer>>
      BY <2>1
    <3>5. Append(<<FirstLive.timer>>, None) = <<FirstLive.timer, None>>
      <4> DEFINE t == FirstLive.timer
                 a == Append(<<t>>, None)
                 b == <<t, None>>
      <4>1. t \in DOMAIN timers
        BY <1>9, FirstLiveIsFirst DEF SpoofWake, Live, TypeOK
      <4> HIDE DEF t
      <4>2. a \in Seq(Item) /\ b \in Seq(Item) /\ Len(a) = 2 /\ Len(b) = 2
        BY <4>1
      <4>3. \A i \in 1 .. 2 : a[i] = b[i]
        BY <4>1
      <4> HIDE DEF a, b
      <4>4. a = b
        BY <4>2, <4>3, SeqEqual
      <4> QED
        BY <4>4 DEF a, b, t
    <3> QED
      BY <3>2, <3>3, <3>4, <3>5 DEF Settle, SettleRounds
  <2>4. CASE driver' = Idle /\ ready' = <<FirstLive.timer>>
    <3>1. DOMAIN ready' = {1} /\ ready'[1] # None
      BY <2>2, <2>4
    <3> QED
      BY <2>1, <2>4, <3>1 DEF LoopOK, OnLoop, Idle
  <2>5. CASE driver'.pc = "settle" /\ driver'.left = SETTLE /\ ready' = <<FirstLive.timer, None>>
    <3>1. DOMAIN ready' = {1, 2} /\ ready'[1] # None /\ ready'[2] = None
      BY <2>2, <2>5
    <3> QED
      BY <1>0, <2>1, <2>5, <3>1 DEF LoopOK, OnLoop
  <2> QED
    BY <2>3, <2>4, <2>5
<1>10. CASE SpoofEnd
  <2>1. /\ ready = <<>> /\ Between /\ UNCHANGED <<kind, timers, running>> /\ kind = "sim"
        /\ driver.pc = "loop" /\ driver \in Calls
    BY <1>10 DEF SpoofEnd, At, LoopOK, OnLoop, TypeOK
  <2>2. CASE driver.op = "idle"
    BY <1>10, <2>1, <2>2 DEF SpoofEnd, LoopOK, OnLoop, Idle
  <2>3. CASE driver.op # "idle"
    <3>1. driver'.pc = "settle" /\ driver'.left = SETTLE /\ ready' = Append(ready, None)
      BY <1>10, <2>1, <2>3 DEF SpoofEnd, Settle, SettleRounds, Calls
    <3> QED
      BY <1>6, <2>1, <3>1 DEF OnLoop
  <2> QED
    BY <2>2, <2>3
<1>11. CASE MuxFire
  <2> DEFINE S == {e \in heap : e.deadline <= now} \cap Live
  <2>1. /\ ready = <<>> /\ running = None /\ UNCHANGED <<kind, running>> /\ kind = "mux"
        /\ driver \in Calls
    BY <1>11 DEF MuxFire, At, Between, LoopOK, OnLoop, TypeOK
  <2>2. PICK queue \in Queued(S) : Settle(driver, queue, IF driver.pc = "fire" THEN "aim" ELSE "idle")
    BY <1>11 DEF MuxFire
  <2>3. driver'.pc = "settle" /\ driver'.left = SETTLE /\ ready' = Append(queue, None)
    BY <2>1, <2>2 DEF Settle, SettleRounds, Calls
  <2>4. S \in SUBSET heap
    OBVIOUS
  <2>5. queue \in Seq(Item) /\ \A i \in Len(ready) + 1 .. Len(queue) : \E e \in S : queue[i] = e.timer
    BY <2>4, QueuedTimers
  <2>6. \A i \in DOMAIN queue : queue[i] # None
    <3>1. \A e \in S : e.timer # None
      BY <1>0, <2>4 DEF TypeOK
    <3>2. Len(ready) = 0 /\ DOMAIN queue = 1 .. Len(queue)
      BY <2>1, <2>5
    <3> QED
      BY <2>5, <3>1, <3>2
  <2> DEFINE l == Len(queue) + 1
  <2>7. /\ DOMAIN ready' = DOMAIN queue \cup {l} /\ ready'[l] = None
        /\ \A i \in DOMAIN queue : i < l /\ ready'[i] = queue[i]
    BY <1>0, <2>3, <2>5, AppendOf
  <2> HIDE DEF l
  <2> QED
    BY <1>0, <2>1, <2>3, <2>6, <2>7 DEF LoopOK, OnLoop
<1>12. CASE \E t \in 1 .. HORIZON + 1 : AdvanceTo(t)
  <2>1. PICK t \in 1 .. HORIZON + 1 : AdvanceTo(t)
    BY <1>12
  <2> DEFINE S == {e \in heap : e.deadline < t} \cap Live
  <2>2. ready' \in Queued(S) /\ UNCHANGED <<kind, running, driver>> /\ kind = "simpy" /\ driver.pc = "idle"
    BY <2>1 DEF AdvanceTo, DriverOK
  <2>3. S \in SUBSET heap
    OBVIOUS
  <2>4. /\ ready' \in Seq(Item) /\ Len(ready') >= Len(ready)
        /\ \A i \in 1 .. Len(ready) : ready'[i] = ready[i]
        /\ \A i \in Len(ready) + 1 .. Len(ready') : \E e \in S : ready'[i] = e.timer
    BY <2>2, <2>3, QueuedTimers
  <2>5. \A i \in DOMAIN ready' : ready'[i] # None
    <3> SUFFICES ASSUME NEW i \in DOMAIN ready' PROVE ready'[i] # None
      OBVIOUS
    <3>1. i \in 1 .. Len(ready) \/ i \in Len(ready) + 1 .. Len(ready')
      BY <1>0, <2>4
    <3>2. CASE i \in 1 .. Len(ready)
      BY <1>0, <2>2, <2>4, <3>2 DEF LoopOK
    <3>3. CASE i \in Len(ready) + 1 .. Len(ready')
      BY <1>0, <2>3, <2>4, <3>3 DEF TypeOK
    <3> QED
      BY <3>1, <3>2, <3>3
  <2> QED
    BY <2>2, <2>5 DEF LoopOK, OnLoop
<1>13. CASE ManualPop \/ ManualEnd \/ WallCheck \/ WallFire \/ WallRest \/ WallWake
            \/ ManualRunUntilIdle \/ (\E dt \in SPANS : Advance(dt))
            \/ \E op \in {"run", "idle"}, dt \in SPANS : WallCall(op, dt)
  <2>1. kind' = kind /\ ready' = ready /\ kind \in {"manual", "wall"} /\ driver \in Calls
    BY <1>13 DEF ManualPop, ManualEnd, WallCheck, WallFire, WallRest, WallWake, ManualRunUntilIdle,
                 Advance, WallCall, TypeOK
  <2>2. driver'.pc # "settle"
    <3>1. driver.pc # "settle"
      BY <2>1 DEF DriverOK
    <3>2. CASE ManualPop \/ ManualEnd \/ ManualRunUntilIdle \/ \E dt \in SPANS : Advance(dt)
      <4>1. CASE ManualPop
        BY <2>1, <3>1, <4>1 DEF ManualPop, Calls
      <4>2. CASE ManualEnd
        BY <4>2 DEF ManualEnd, Idle
      <4>3. CASE ManualRunUntilIdle
        BY <4>3 DEF ManualRunUntilIdle, Call, Idle
      <4>4. CASE \E dt \in SPANS : Advance(dt)
        BY <4>4 DEF Advance, Call, Idle
      <4> QED
        BY <3>2, <4>1, <4>2, <4>3, <4>4
    <3>3. CASE WallCheck \/ WallFire \/ WallWake
      BY <2>1, <3>1, <3>3 DEF WallCheck, WallFire, WallWake, Goto, Idle, Calls
    <3>4. CASE WallRest
      <4>1. driver' = Idle \/ \E left : driver' = [driver EXCEPT !.pc = "sleep", !.left = left]
        BY <3>4 DEF WallRest
      <4> QED
        <5>1. \A left : [driver EXCEPT !.pc = "sleep", !.left = left].pc = "sleep"
          BY <2>1 DEF Calls
        <5>2. Idle.pc # "settle"
          BY DEF Idle
        <5> QED
          BY <4>1, <5>1, <5>2
    <3>5. CASE \E op \in {"run", "idle"}, dt \in SPANS : WallCall(op, dt)
      BY <3>5 DEF WallCall, Call, Idle
    <3> QED
      BY <1>13, <3>2, <3>3, <3>4, <3>5
  <2> QED
    BY <1>4, <2>1, <2>2
<1>14. CASE MuxAim \/ MuxLocks \/ MuxWakes
  <2>1. /\ UNCHANGED <<kind, timers, running, ready>> /\ running = None /\ kind = "mux"
        /\ driver \in Calls /\ driver.pc # "settle"
        /\ driver'.pc \in {"lock", "woke", "sleep"}
    BY <1>14 DEF MuxAim, MuxLocks, MuxWakes, At, Between, Goto, Calls, TypeOK
  <2>2. driver'.pc = "woke" => ready = <<>>
    BY <1>14 DEF MuxAim, MuxLocks, MuxWakes, At, Between, LoopOK, OnLoop, Calls, TypeOK
  <2> QED
    BY <2>1, <2>2 DEF LoopOK, OnLoop, Woken, Armed
<1>15. CASE Tick
  <2>1. UNCHANGED <<kind, timers, running, ready>> /\ driver \in Calls
    BY <1>15 DEF Tick, TypeOK
  <2>2. driver' = driver \/ (driver.pc = "sleep" /\ driver'.pc = "sleep")
    BY <1>15, <2>1 DEF Tick, Calls
  <2> QED
    BY <2>1, <2>2 DEF LoopOK, OnLoop, Woken, Armed
<1> QED
  BY <1>1, <1>2, <1>3, <1>5, <1>7, <1>8, <1>9, <1>10, <1>11, <1>12, <1>13, <1>14, <1>15
  DEF Next, Client, Drive, Proceed

\* Every step keeps the driver where its clock has it, and short of its target.
LEMMA DriverKept ==
    ASSUME SchedulersAssumption, TypeOK, DriverOK, LoopOK, HeapOK, Next
    PROVE  DriverOK'
<1>0. /\ driver \in Calls /\ now \in Nat /\ SETTLE \in Nat /\ SETTLE > 1
      /\ \A e \in heap : e.deadline \in Nat
  BY DEF TypeOK, SchedulersAssumption
<1>00. Idle.pc = "idle" /\ Idle.next = "idle"
  BY DEF Idle
<1>1. CASE UNCHANGED <<kind, now, driver>>
  BY <1>1 DEF DriverOK
<1>2. CASE \E dt \in SPANS : Advance(dt)
  <2>1. PICK dt \in SPANS : Advance(dt)
    BY <1>2
  <2>2. dt \in Nat
    BY DEF SchedulersAssumption
  <2>3. kind = "manual" /\ kind' = kind /\ now' = now
        /\ driver'.pc = "loop" /\ driver'.op = "run" /\ driver'.target = now + dt
    BY <2>1 DEF Advance, Call, Idle
  <2> QED
    BY <1>0, <2>2, <2>3 DEF DriverOK
<1>3. CASE ManualRunUntilIdle
  <2>1. kind = "manual" /\ kind' = kind /\ driver'.pc = "loop" /\ driver'.op = "idle"
    BY <1>3 DEF ManualRunUntilIdle, Call, Idle
  <2> QED
    BY <2>1 DEF DriverOK
<1>4. CASE ManualPop
  <2>1. /\ heap # {} /\ ManualDue(Soonest) /\ now' = LaterOf(now, Soonest.deadline)
        /\ kind = "manual" /\ kind' = kind /\ driver.pc = "loop"
    BY <1>4 DEF ManualPop, ManualGoesOn, At
  <2>2. Soonest.deadline \in Nat
    BY <1>0, <2>1, SoonestIsFirst
  <2>3. driver'.pc = driver.pc /\ driver'.op = driver.op /\ driver'.target = driver.target
    BY <1>0, <1>4 DEF ManualPop, Calls
  <2>4. driver.op = "run" => now' <= driver.target
    BY <1>0, <2>1, <2>2 DEF LaterOf, ManualDue, DriverOK
  <2> QED
    BY <2>1, <2>3, <2>4 DEF DriverOK
<1>5. CASE driver' = Idle /\ kind' = kind
  BY <1>00, <1>5 DEF DriverOK
<1>6. CASE \E op \in {"run", "idle"}, dt \in SPANS : WallCall(op, dt)
  <2>1. kind = "wall" /\ kind' = kind /\ driver'.pc \in {"fire", "check"}
    BY <1>6 DEF WallCall, Call, Idle
  <2> QED
    BY <2>1 DEF DriverOK
<1>7. CASE WallCheck \/ WallFire \/ WallWake
  <2>1. kind = "wall" /\ kind' = kind /\ driver'.pc \in {"idle", "fire", "rest", "check"} \cup {driver.pc}
    BY <1>0, <1>7 DEF WallCheck, WallFire, WallWake, Goto, Idle, Calls
  <2> QED
    BY <2>1 DEF DriverOK
<1>8. CASE WallRest
  <2>1. \A left : [driver EXCEPT !.pc = "sleep", !.left = left].pc = "sleep"
    BY <1>0 DEF Calls
  <2>2. kind = "wall" /\ kind' = kind /\ driver'.pc \in {"idle", "sleep"}
    BY <1>00, <1>8, <2>1 DEF WallRest
  <2> QED
    BY <2>2 DEF DriverOK
<1>9. ASSUME NEW call \in Calls, NEW queue, NEW next \in {"idle", "loop", "fire", "aim"}, Settle(call, queue, next)
      PROVE  /\ driver'.pc = "settle" /\ driver'.next = next /\ driver'.left = SETTLE
             /\ driver'.op = call.op /\ driver'.target = call.target
  BY <1>9 DEF Settle, SettleRounds, Calls
<1>10. CASE \E dt \in SPANS : SpoofRunFor(dt)
  <2>1. PICK dt \in SPANS : SpoofRunFor(dt)
    BY <1>10
  <2>2. dt \in Nat /\ now + dt \in Nat
    BY <1>0 DEF SchedulersAssumption
  <2>3. [Idle EXCEPT !.op = "run", !.target = now + dt] \in Calls
    BY <2>2 DEF Idle, Calls
  <2>4. kind = "sim" /\ kind' = kind /\ now' = now /\ now <= now + dt
    BY <1>0, <2>1, <2>2 DEF SpoofRunFor
  <2>5. /\ [Idle EXCEPT !.op = "run", !.target = now + dt].op = "run"
        /\ [Idle EXCEPT !.op = "run", !.target = now + dt].target = now + dt
    BY DEF Idle
  <2>6. /\ driver'.pc = "settle" /\ driver'.next = "loop" /\ driver'.left = SETTLE
        /\ driver'.op = "run" /\ driver'.target = now + dt
    BY <1>9, <2>1, <2>3, <2>5 DEF SpoofRunFor
  <2> QED
    BY <1>0, <2>4, <2>6 DEF DriverOK
<1>11. CASE SpoofRunUntilIdle
  <2>1. [Idle EXCEPT !.op = "idle"] \in Calls /\ [Idle EXCEPT !.op = "idle"].op = "idle"
    BY DEF Idle, Calls
  <2> QED
    <3>1. kind = "sim" /\ kind' = kind /\ Settle([Idle EXCEPT !.op = "idle"], ready, "loop")
      BY <1>11 DEF SpoofRunUntilIdle
    <3>2. driver'.pc = "settle" /\ driver'.next = "loop" /\ driver'.left = SETTLE /\ driver'.op = "idle"
      BY <1>9, <2>1, <3>1
    <3> QED
      BY <1>0, <3>1, <3>2 DEF DriverOK
<1>12. CASE \E dt \in SPANS : MuxStep(dt)
  <2>1. PICK dt \in SPANS : MuxStep(dt)
    BY <1>12
  <2>2. [Idle EXCEPT !.target = dt] \in Calls
    BY DEF SchedulersAssumption, Idle, Calls
  <2> QED
    BY <1>0, <1>9, <2>1, <2>2 DEF MuxStep, DriverOK
<1>13. CASE DriverTurn
  <2>1. driver.pc = "settle" /\ UNCHANGED <<kind, now>> /\ kind \in {"sim", "mux"}
    BY <1>13 DEF DriverTurn, At, DriverOK, TypeOK
  <2>2. CASE driver.left > 1
    <3>1. /\ driver'.pc = "settle" /\ driver'.left = driver.left - 1 /\ driver'.next = driver.next
          /\ driver'.op = driver.op /\ driver'.target = driver.target
      BY <1>0, <1>13, <2>1, <2>2 DEF DriverTurn, Calls
    <3>2. driver.left - 1 \in 1 .. SETTLE
      BY <1>0, <2>1, <2>2 DEF DriverOK
    <3> QED
      BY <2>1, <3>1, <3>2 DEF DriverOK
  <2>3. CASE ~(driver.left > 1) /\ driver.next # "idle"
    <3>1. driver' = [driver EXCEPT !.pc = driver.next, !.left = 0]
      BY <1>13, <2>3 DEF DriverTurn
    <3>2. /\ driver'.pc = driver.next /\ driver'.next = driver.next
          /\ driver'.op = driver.op /\ driver'.target = driver.target
      BY <1>0, <3>1 DEF Calls
    <3> QED
      BY <2>1, <2>3, <3>2 DEF DriverOK
  <2>4. CASE ~(driver.left > 1) /\ driver.next = "idle"
    BY <1>5, <1>13, <2>4 DEF DriverTurn
  <2> QED
    BY <2>2, <2>3, <2>4
<1>14. CASE SpoofWake
  <2> DEFINE steps == IF driver.op = "idle" THEN driver.steps + 1 ELSE 0
             call == [driver EXCEPT !.steps = steps]
  <2>1. /\ Live # {} /\ InSpan(FirstLive) /\ now' = LaterOf(now, FirstLive.deadline)
        /\ kind = "sim" /\ kind' = kind /\ driver.pc = "loop"
        /\ driver' = Idle \/ \E queue : Settle(call, queue, "loop")
    BY <1>14 DEF SpoofWake, At
  <2>2. FirstLive.deadline \in Nat
    BY <1>0, <2>1, FirstLiveIsFirst DEF Live
  <2>3. driver.op = "run" => now' <= driver.target
    BY <1>0, <2>1, <2>2 DEF LaterOf, InSpan, DriverOK
  <2>4. call \in Calls /\ call.op = driver.op /\ call.target = driver.target
    <3>1. steps \in Nat
      BY <1>0 DEF Calls
    <3> QED
      BY <1>0, <3>1 DEF Calls
  <2> HIDE DEF call
  <2>5. CASE \E queue : Settle(call, queue, "loop")
    <3>1. /\ driver'.pc = "settle" /\ driver'.next = "loop" /\ driver'.left = SETTLE
          /\ driver'.op = driver.op /\ driver'.target = driver.target
      BY <1>9, <2>4, <2>5
    <3> QED
      BY <1>0, <2>1, <2>3, <3>1 DEF DriverOK
  <2> QED
    BY <1>5, <2>1, <2>5
<1>15. CASE SpoofEnd
  <2>1. kind = "sim" /\ kind' = kind /\ driver.pc = "loop"
    BY <1>15 DEF SpoofEnd, At
  <2>2. CASE driver.op = "idle"
    BY <1>5, <1>15, <2>2 DEF SpoofEnd
  <2>3. CASE driver.op # "idle"
    <3>1. now' = driver.target /\ Settle(driver, ready, "idle")
      BY <1>15, <2>3 DEF SpoofEnd
    <3>2. /\ driver'.pc = "settle" /\ driver'.next = "idle" /\ driver'.left = SETTLE
          /\ driver'.op = "run" /\ driver'.target = driver.target
      BY <1>0, <1>9, <2>1, <2>3, <3>1 DEF DriverOK
    <3> QED
      BY <1>0, <2>1, <3>1, <3>2 DEF DriverOK, Calls
  <2> QED
    BY <2>2, <2>3
<1>16. CASE MuxFire
  <2>1. PICK next \in {"idle", "aim"} : \E queue : Settle(driver, queue, next)
    BY <1>16 DEF MuxFire
  <2> QED
    BY <1>0, <1>9, <1>16, <2>1 DEF MuxFire, DriverOK
<1>17. CASE MuxAim \/ MuxLocks \/ MuxWakes
  <2>1. kind = "mux" /\ kind' = kind /\ driver'.pc \in {"lock", "woke", "sleep"} /\ driver'.next = driver.next
    BY <1>0, <1>17 DEF MuxAim, MuxLocks, MuxWakes, Goto, Calls
  <2> QED
    BY <2>1 DEF DriverOK
<1>18. CASE Tick
  <2>1. kind \in {"wall", "mux"} /\ kind' = kind
    BY <1>18 DEF Tick
  <2>2. \/ driver' = driver
        \/ driver'.pc = driver.pc /\ driver.pc = "sleep" /\ driver'.next = driver.next
    BY <1>0, <1>18 DEF Tick, Calls
  <2> QED
    BY <2>1, <2>2 DEF DriverOK
<1>19. CASE \E t \in 1 .. HORIZON + 1 : AdvanceTo(t)
  BY <1>19 DEF AdvanceTo, DriverOK
<1>20. CASE ManualEnd
  BY <1>5, <1>20 DEF ManualEnd
<1> QED
  BY <1>1, <1>2, <1>3, <1>4, <1>6, <1>7, <1>8, <1>10, <1>11, <1>12, <1>13, <1>14, <1>15, <1>16, <1>17,
     <1>18, <1>19, <1>20
  DEF Next, Client, Drive, Proceed, CallLater, Cancel, CallbackReturns, TaskStep

\* Where nothing of the loop is pending, whatever may fire has an entry.
LEMMA AllWait ==
    ASSUME TypeOK, HeapOK, TaskOK, ready = <<>>
    PROVE  \A t \in DOMAIN timers : Armed(t) => Waits(t) /\ \E e \in Live : e.timer = t /\ e.deadline = timers[t].deadline
BY NothingNew, Handles DEF HeapOK, Live, Dead, Armed, Waits, New, Woken

\* Where run_for stops popping, all that may fire is due after its span.
LEMMA SpoofEndServes ==
    ASSUME TypeOK, LoopOK, HeapOK, TaskOK, SpoofEnd, driver.op = "run"
    PROVE  \A t \in DOMAIN timers : Armed(t) => timers[t].deadline > driver.target
<1>1. ready = <<>> /\ driver.target \in Nat
  BY DEF SpoofEnd, At, LoopOK, OnLoop, TypeOK, Calls
<1>2. \A e \in heap : e.deadline \in Nat /\ e.seq \in Nat
  BY DEF TypeOK
<1>3. \A e \in Live : e.deadline > driver.target
  <2>1. CASE ~SpoofLooksFurther
    <3>1. heap = {} \/ (Soonest \in heap /\ ~(Soonest.deadline <= driver.target)
                        /\ \A f \in heap \ {Soonest} : Sooner(Soonest, f))
      BY <2>1, SoonestIsFirst DEF SpoofLooksFurther
    <3> QED
      BY <1>1, <1>2, <3>1 DEF Live, Sooner
  <2>2. CASE Live = {}
    BY <2>2
  <2>3. CASE Live # {} /\ ~InSpan(FirstLive)
    <3>1. FirstLive \in Live /\ \A f \in Live \ {FirstLive} : Sooner(FirstLive, f)
      BY <2>3, FirstLiveIsFirst
    <3> QED
      BY <1>1, <1>2, <2>3, <3>1 DEF Live, Sooner, InSpan
  <2> QED
    BY <2>1, <2>2, <2>3 DEF SpoofEnd
<1> QED
  BY <1>1, <1>3, AllWait

\* Where advance stops popping, all that may fire is due after its span.
LEMMA ManualEndServes ==
    ASSUME TypeOK, LoopOK, HeapOK, TaskOK, ManualEnd, driver.op = "run"
    PROVE  \A t \in DOMAIN timers : Armed(t) => timers[t].deadline > driver.target
<1>1. ready = <<>> /\ driver.target \in Nat
  BY DEF ManualEnd, LoopOK, OnLoop, TypeOK, Calls
<1>2. \A e \in heap : e.deadline \in Nat /\ e.seq \in Nat
  BY DEF TypeOK
<1>3. \A e \in Live : e.deadline > driver.target
  <2>1. heap = {} \/ (Soonest \in heap /\ ~(Soonest.deadline <= driver.target)
                      /\ \A f \in heap \ {Soonest} : Sooner(Soonest, f))
    BY SoonestIsFirst DEF ManualEnd, ManualGoesOn, ManualDue, Storm
  <2> QED
    BY <1>1, <1>2, <2>1 DEF Live, Sooner
<1> QED
  BY <1>1, <1>3, AllWait

\* A run_for that has set the time to its end keeps what it serves.
LEMMA ServedKept ==
    ASSUME SchedulersAssumption, TypeOK, TypeOK', DriverOK, LoopOK, HeapOK, TaskOK, ServedOK, Next
    PROVE  ServedOK'
<1> DEFINE Serving == /\ kind = "sim" /\ driver.pc = "settle" /\ driver.next = "idle"
                      /\ driver.op = "run"
<1>0. driver \in Calls /\ ready \in Seq({None} \cup DOMAIN timers)
  BY DEF TypeOK
<1>1. CASE UNCHANGED <<kind, driver>>
  <2> SUFFICES ASSUME Serving, Next PROVE ServedOK'
    BY <1>1 DEF ServedOK
  <2>1. ~ClientTurn /\ \A i \in DOMAIN ready : ready[i] = None
    BY DEF ServedOK, ClientTurn
  <2>2. ~TaskStep
    <3>1. ready # <<>> => 1 \in DOMAIN ready
      BY <1>0
    <3> QED
      BY <2>1, <3>1 DEF TaskStep
  <2>3. CASE CallbackReturns
    BY <2>3 DEF CallbackReturns, ServedOK, Armed
  <2>4. ~(\/ \E delay \in DELAYS : CallLater(delay)
          \/ \E t \in DOMAIN timers : Cancel(t))
    BY <2>1 DEF CallLater, Cancel
  <2>5. CASE Drive
    <3>1. driver # Idle /\ kind # "simpy" /\ kind # "manual" /\ kind # "wall"
      BY DEF Idle
    <3> QED
      BY <2>5, <3>1 DEF Drive, Advance, SpoofRunFor, MuxStep, WallCall, ManualRunUntilIdle, SpoofRunUntilIdle,
               AdvanceTo
  <2>6. CASE Proceed
    <3>1. CASE DriverTurn
      <4>1. driver' # driver
        <5>1. CASE driver.left > 1
          <6>1. driver'.left = driver.left - 1 /\ driver.left \in Nat
            BY <1>0, <3>1, <5>1 DEF DriverTurn, Calls
          <6> QED
            BY <6>1
        <5>2. CASE ~(driver.left > 1)
          BY <3>1, <5>2 DEF DriverTurn, Idle
        <5> QED
          BY <5>1, <5>2
      <4> QED
        BY <1>1, <4>1
    <3> QED
      BY <2>2, <2>6, <3>1 DEF Proceed, ManualPop, ManualEnd, WallCheck, WallFire, WallRest,
               WallWake, SpoofWake, SpoofEnd, MuxFire, MuxAim, MuxLocks, MuxWakes, At
  <2>7. CASE Tick
    BY <2>7 DEF Tick
  <2> QED
    BY <2>3, <2>4, <2>5, <2>6, <2>7 DEF Next, Client
<1>2. CASE DriverTurn
  <2>1. /\ driver.pc = "settle" /\ ready # <<>> /\ ready[1] = None /\ running = None
        /\ UNCHANGED <<kind, timers, running>>
    BY <1>2 DEF DriverTurn, At, Between
  <2>2. CASE driver.left > 1
    <3>1. /\ driver'.pc = "settle" /\ driver'.next = driver.next
          /\ driver'.op = driver.op /\ driver'.target = driver.target
      BY <1>0, <1>2, <2>1, <2>2 DEF DriverTurn, Calls
    <3>2. ready' = Append(Tail(ready), None)
      BY <1>2, <2>2 DEF DriverTurn
    <3>3. (\A i \in DOMAIN ready : ready[i] = None) => \A i \in DOMAIN ready' : ready'[i] = None
      <4> DEFINE q == Tail(ready)
      <4>1. q \in Seq({None} \cup DOMAIN timers) /\ \A i \in DOMAIN q : i + 1 \in DOMAIN ready /\ q[i] = ready[i + 1]
        BY <1>0, <2>1, TailOf
      <4> HIDE DEF q
      <4>2. \A i \in DOMAIN ready' : ready'[i] = None \/ (i \in DOMAIN q /\ ready'[i] = q[i])
        BY <3>2, <4>1, AppendOf DEF q
      <4> QED
        BY <4>1, <4>2
    <3> QED
      BY <2>1, <3>1, <3>3 DEF ServedOK, Armed
  <2>3. CASE ~(driver.left > 1)
    <3>1. driver' = Idle \/ driver' = [driver EXCEPT !.pc = driver.next, !.left = 0]
      BY <1>2, <2>3 DEF DriverTurn
    <3>2. Idle.pc # "settle" /\ [driver EXCEPT !.pc = driver.next, !.left = 0].pc # "settle"
      BY <1>0 DEF Idle, Calls
    <3> QED
      BY <3>1, <3>2 DEF ServedOK
  <2> QED
    BY <2>2, <2>3
<1>3. CASE SpoofEnd
  <2>1. ready = <<>> /\ running = None /\ UNCHANGED <<kind, timers, running>> /\ kind = "sim" /\ driver.pc = "loop"
    BY <1>3 DEF SpoofEnd, At, Between, LoopOK, OnLoop
  <2>2. CASE driver.op = "idle"
    BY <1>3, <2>2 DEF SpoofEnd, ServedOK, Idle
  <2>3. CASE driver.op # "idle"
    <3>1. /\ driver.op = "run" /\ ready' = Append(ready, None) /\ driver'.target = driver.target
      BY <1>0, <1>3, <2>1, <2>3 DEF SpoofEnd, Settle, DriverOK, Calls
    <3>2. \A i \in DOMAIN ready' : ready'[i] = None
      <4>1. DOMAIN ready = {} /\ None \in {None} \cup DOMAIN timers
        BY <2>1
      <4> QED
        BY <1>0, <3>1, <4>1, AppendOf
    <3>5. \A t \in DOMAIN timers : Armed(t) => timers[t].deadline > driver.target
      BY <1>3, <3>1, SpoofEndServes
    <3> QED
      BY <2>1, <3>1, <3>2, <3>5 DEF ServedOK, Armed
  <2> QED
    BY <2>2, <2>3
<1>4. CASE driver'.pc # "settle" \/ driver'.next # "idle" \/ kind' # "sim"
  BY <1>4 DEF ServedOK
<1>5. CASE Drive
  <2>1. CASE \E dt \in SPANS : Advance(dt) \/ MuxStep(dt)
    BY <1>4, <2>1 DEF Advance, MuxStep
  <2>2. CASE \E op \in {"run", "idle"}, dt \in SPANS : WallCall(op, dt)
    BY <1>4, <2>2 DEF WallCall
  <2>3. CASE ManualRunUntilIdle
    BY <1>4, <2>3 DEF ManualRunUntilIdle
  <2>4. CASE SpoofRunUntilIdle
    BY <1>4, <2>4 DEF SpoofRunUntilIdle, Settle, Idle
  <2>5. CASE \E dt \in SPANS : SpoofRunFor(dt)
    BY <1>4, <2>5 DEF SpoofRunFor, Settle, Idle
  <2>6. CASE \E t \in 1 .. HORIZON + 1 : AdvanceTo(t)
    BY <1>4, <2>6 DEF AdvanceTo
  <2> QED
    BY <1>5, <2>1, <2>2, <2>3, <2>4, <2>5, <2>6 DEF Drive
<1>6. CASE ManualPop \/ ManualEnd \/ WallCheck \/ WallFire \/ WallRest \/ WallWake
           \/ MuxFire \/ MuxAim \/ MuxLocks \/ MuxWakes \/ Tick
  BY <1>4, <1>6 DEF ManualPop, ManualEnd, WallCheck, WallFire, WallRest, WallWake, MuxFire, MuxAim,
     MuxLocks, MuxWakes, Tick
<1>7. CASE SpoofWake
  <2>1. driver'.pc # "settle" \/ driver'.next # "idle"
    <3> DEFINE steps == IF driver.op = "idle" THEN driver.steps + 1 ELSE 0
               call == [driver EXCEPT !.steps = steps]
    <3>1. driver' = Idle \/ driver' = [call EXCEPT !.pc = "settle", !.left = SettleRounds, !.next = "loop"]
      BY <1>7 DEF SpoofWake, Settle
    <3>2. [call EXCEPT !.pc = "settle", !.left = SettleRounds, !.next = "loop"].next = "loop"
      BY <1>0 DEF Calls
    <3>3. Idle.pc # "settle"
      BY DEF Idle
    <3> HIDE DEF call
    <3> QED
      BY <3>1, <3>2, <3>3
  <2> QED
    BY <1>4, <2>1
<1> QED
  BY <1>1, <1>2, <1>3, <1>5, <1>6, <1>7
  DEF Next, Client, Proceed, CallLater, Cancel, CallbackReturns, TaskStep

-------------------------------------------------------------------------------
(* What a step is to the client of the clock.                                *)

\* Timer t fires, and nothing that may still fire was due before it.
Fires(t) ==
    /\ Armed(t) /\ running = None /\ running' = t /\ UNCHANGED kind
    /\ StateTo(t, "done")
    /\ now' = LaterOf(now, timers[t].deadline)
    /\ \A u \in DOMAIN timers : Armed(u) /\ u # t => Before(t, u)

\* Nothing fires, and what may fire stays the same.  Time may pass, on a clock
\* that owns its time as far as what still waits.
Rests ==
    /\ UNCHANGED <<kind, running>>
    /\ DOMAIN timers' = DOMAIN timers
    /\ \A t \in DOMAIN timers : /\ timers'[t].deadline = timers[t].deadline
                                /\ Armed(t)' <=> Armed(t)
                                /\ Woken(t) => Woken(t)'
    /\ now' >= now
    /\ now' = now \/ (kind \in {"manual", "sim", "simpy"} =>
                         \A t \in DOMAIN timers : Armed(t) /\ ~Woken(t)' => now' <= timers[t].deadline)

\* The head of the heap is due before whatever may still fire, where nothing of
\* the loop is pending.
LEMMA SoonestIsDueFirst ==
    ASSUME TypeOK, HeapOK, TaskOK, ready = <<>>, heap # {}
    PROVE  /\ Soonest \in heap /\ Soonest.timer \in DOMAIN timers /\ Soonest.deadline \in Nat
           /\ Soonest.deadline = timers[Soonest.timer].deadline
           /\ ~Dead(Soonest) => Armed(Soonest.timer)
           /\ \A u \in DOMAIN timers : Armed(u) => Soonest.deadline <= timers[u].deadline
           /\ \A u \in DOMAIN timers : Armed(u) /\ u # Soonest.timer => Before(Soonest.timer, u)
<1>1. Soonest \in heap /\ \A f \in heap \ {Soonest} : Sooner(Soonest, f)
  BY SoonestIsFirst
<1>2. \A e \in heap : e.deadline \in Nat /\ e.timer \in DOMAIN timers /\ e.deadline = timers[e.timer].deadline
  BY DEF TypeOK, HeapOK
<1>3. ~Dead(Soonest) => Armed(Soonest.timer)
  BY <1>1 DEF HeapOK, Dead, Waits
<1>4. ASSUME NEW u \in DOMAIN timers, Armed(u)
      PROVE  /\ Soonest.deadline <= timers[u].deadline
             /\ u # Soonest.timer => Before(Soonest.timer, u)
  <2>1. PICK f \in heap : f.timer = u
    BY <1>4, AllWait DEF Live
  <2>2. CASE f = Soonest
    BY <1>1, <1>2, <2>1, <2>2
  <2>3. CASE f # Soonest
    BY <1>1, <1>2, <2>1, <2>3, SoonerIsBefore DEF Sooner
  <2> QED
    BY <2>2, <2>3
<1> QED
  BY <1>1, <1>2, <1>3, <1>4

\* An entry taken fires its timer, unless it was cancelled.
LEMMA TakeFires ==
    ASSUME TypeOK, HeapOK, TaskOK, ready = <<>>, heap # {}, running = None,
           Take(Soonest), UNCHANGED kind, now' = LaterOf(now, Soonest.deadline)
    PROVE  (\E t \in DOMAIN timers : Fires(t)) \/ Rests
<1>1. /\ Soonest \in heap /\ Soonest.timer \in DOMAIN timers /\ Soonest.deadline \in Nat /\ now \in Nat
      /\ Soonest.deadline = timers[Soonest.timer].deadline
      /\ ~Dead(Soonest) => Armed(Soonest.timer)
      /\ \A u \in DOMAIN timers : Armed(u) => Soonest.deadline <= timers[u].deadline
      /\ \A u \in DOMAIN timers : Armed(u) /\ u # Soonest.timer => Before(Soonest.timer, u)
  BY SoonestIsDueFirst DEF TypeOK
<1>2. CASE Dead(Soonest)
  <2>1. UNCHANGED <<running, timers, kind>>
    BY <1>2 DEF Take
  <2>2. now' >= now /\ (now' = now \/ now' = Soonest.deadline)
    BY <1>1 DEF LaterOf
  <2>3. \A t \in DOMAIN timers : Armed(t)' = Armed(t) /\ Woken(t)' = Woken(t)
    BY <2>1 DEF Armed, Woken
  <2> QED
    BY <1>1, <2>1, <2>2, <2>3 DEF Rests
<1>3. CASE ~Dead(Soonest)
  <2>1. StateTo(Soonest.timer, "done") /\ running' = Soonest.timer
    BY <1>1, <1>3, TakesOne DEF Take
  <2>2. Fires(Soonest.timer)
    BY <1>1, <1>3, <2>1 DEF Fires
  <2> QED
    BY <1>1, <2>2
<1> QED
  BY <1>2, <1>3

\* Waits that end are those of timers due: the rest is due no earlier.
LEMMA WakingRests ==
    ASSUME TypeOK, TypeOK', HeapOK, TaskOK, NEW S, Woke(S), UNCHANGED running,
           now' # now => \A t \in DOMAIN timers : Armed(t) => Waits(t) \/ Woken(t),
           \/ now' = now
           \/ \A f \in Live \ S : now' <= f.deadline
    PROVE  Rests
<1>1. /\ S \in SUBSET heap /\ UNCHANGED <<kind, running>> /\ now' >= now
      /\ \A e \in S : e.timer \in DOMAIN timers /\ Waits(e.timer)
  BY WokeEntries DEF Woke
<1>2. /\ DOMAIN timers' = DOMAIN timers
      /\ \A t \in DOMAIN timers : \/ timers'[t] = timers[t] /\ (\A e \in S : e.timer # t)
                                  \/ Waits(t) /\ timers'[t] = [timers[t] EXCEPT !.state = "woken"]
  BY <1>1 DEF Woke, Wake
<1>3. \A t \in DOMAIN timers : /\ timers'[t].deadline = timers[t].deadline
                               /\ Armed(t)' <=> Armed(t)
                               /\ Woken(t) => Woken(t)'
                               /\ ~Woken(t)' => \A e \in S : e.timer # t
  BY <1>2, Handles DEF Waits, Woken, Armed, Handle
<1>4. ASSUME now' # now, NEW t \in DOMAIN timers, Armed(t), ~Woken(t)'
      PROVE  now' <= timers[t].deadline
  <2>1. Waits(t)
    BY <1>3, <1>4
  <2>2. PICK f \in heap : f.timer = t
    BY <2>1 DEF HeapOK
  <2>3. f \in Live \ S /\ f.deadline = timers[t].deadline
    BY <1>3, <1>4, <2>1, <2>2 DEF Live, Dead, HeapOK, Waits, Armed
  <2> QED
    BY <1>4, <2>3
<1> QED
  BY <1>1, <1>2, <1>3, <1>4 DEF Rests

\* The task at the head of the queue fires its timer, or none.
LEMMA TaskFires ==
    ASSUME TypeOK, HeapOK, TaskOK, OrderOK, TaskStep
    PROVE  (\E t \in DOMAIN timers : Fires(t)) \/ Rests
<1> DEFINE t == ready[1]
<1>1. /\ t \in DOMAIN timers /\ now \in Nat /\ running = None /\ UNCHANGED <<kind, now>>
      /\ TaskStarts \/ TaskResumes \/ TaskCancelled
      /\ ready \in Seq({None} \cup DOMAIN timers)
      /\ 1 \in DOMAIN ready /\ t # None
  BY TaskTakesOne DEF TaskStep, Between, TypeOK
<1>2. timers[t] \in Handle
  BY <1>1, Handles
<1>3. CASE TaskResumes
  <2>1. Woken(t) /\ running' = t /\ StateTo(t, "done")
    BY <1>3, TaskTakesOne DEF TaskResumes, Woken, Armed
  <2>2. timers[t].deadline <= now /\ timers[t].deadline \in Nat
    BY <1>1, <1>2, <2>1 DEF TaskOK, Handle
  <2>3. ASSUME NEW u \in DOMAIN timers, Armed(u), u # t PROVE Before(t, u)
    <3>1. CASE ~Woken(u)
      BY <1>1, <2>1, <2>3, <3>1 DEF OrderOK
    <3>2. CASE Woken(u)
      <4>1. PICK i \in DOMAIN ready : ready[i] = u
        BY <3>2 DEF TaskOK
      <4>2. i \in Nat /\ i > 1 /\ u # None
        BY <1>1, <2>3, <4>1, Handles DEF None
      <4> QED
        BY <1>1, <2>1, <3>2, <4>1, <4>2 DEF OrderOK
    <3> QED
      BY <3>1, <3>2
  <2>4. Fires(t)
    BY <1>1, <2>1, <2>2, <2>3 DEF Fires, LaterOf, Woken
  <2> QED
    BY <1>1, <2>4
<1>4. CASE TaskStarts
  <2>1. StateTo(t, "waiting") /\ UNCHANGED running /\ timers[t].state = "new"
    BY <1>1, <1>4, TaskTakesOne DEF TaskStarts
  <2> HIDE DEF t
  <2> QED
    BY <1>1, <1>2, <2>1 DEF StateTo, Rests, Armed, Woken, Handle
<1>5. CASE TaskCancelled
  <2>1. StateTo(t, "done") /\ UNCHANGED running /\ timers[t].cancelled
    BY <1>1, <1>5, TaskTakesOne DEF TaskCancelled
  <2> HIDE DEF t
  <2> QED
    BY <1>1, <1>2, <2>1 DEF StateTo, Rests, Armed, Woken, Handle
<1> QED
  BY <1>1, <1>3, <1>4, <1>5

\* The driver's own steps: what fires is none of their business.
LEMMA QuietRests ==
    ASSUME TypeOK, LoopOK, HeapOK, TaskOK, DriverOK, Quiet, UNCHANGED running,
           now' # now => ManualEnd \/ SpoofEnd \/ Tick
    PROVE  Rests
<1>1. /\ UNCHANGED <<kind, running, timers>> /\ now \in Nat
      /\ now' = now \/ now' >= now
  BY DEF Quiet, TypeOK
<1>2. \A t \in DOMAIN timers : Armed(t)' = Armed(t) /\ Woken(t)' = Woken(t)
  BY <1>1 DEF Armed, Woken
<1>3. ASSUME now' # now, kind \in {"manual", "sim", "simpy"}, NEW t \in DOMAIN timers, Armed(t)
      PROVE  now' <= timers[t].deadline
  <2>1. ~Tick
    BY <1>3 DEF Tick
  <2>2. driver.op = "run" /\ now' = driver.target
    BY <1>3, <2>1 DEF ManualEnd, SpoofEnd, DriverOK, At
  <2>3. timers[t].deadline > driver.target
    BY <1>3, <2>1, <2>2, ManualEndServes, SpoofEndServes
  <2>4. driver.target \in Nat /\ timers[t].deadline \in Nat
    BY Handles DEF TypeOK, Calls
  <2> QED
    BY <2>2, <2>3, <2>4
<1> QED
  BY <1>1, <1>2, <1>3 DEF Rests

\* Whatever the clock does, its client sees a call of its own, a callback that
\* runs or returns, or time that passes.
LEMMA StepIs ==
    ASSUME SchedulersAssumption, TypeOK, TypeOK', DriverOK, LoopOK, HeapOK, TaskOK, OrderOK, Next
    PROVE  \/ \E delay \in DELAYS : CallLater(delay)
           \/ \E t \in DOMAIN timers : Cancel(t)
           \/ CallbackReturns
           \/ \E t \in DOMAIN timers : Fires(t)
           \/ Rests
<1>0. now \in Nat
  BY DEF TypeOK
<1>1. CASE ManualPop
  <2>1. /\ ready = <<>> /\ heap # {} /\ running = None /\ Take(Soonest) /\ UNCHANGED kind
        /\ now' = LaterOf(now, Soonest.deadline)
    BY <1>1 DEF ManualPop, ManualGoesOn, At, Between, LoopOK, OnLoop
  <2> QED
    BY <2>1, TakeFires
<1>2. CASE WallFire /\ heap # {} /\ Soonest.deadline <= now
  <2>1. /\ ready = <<>> /\ heap # {} /\ running = None /\ Take(Soonest) /\ UNCHANGED <<kind, now>>
    BY <1>2 DEF WallFire, At, Between, LoopOK, OnLoop
  <2>2. Soonest.deadline \in Nat
    BY <2>1, SoonestIsDueFirst
  <2>3. now' = LaterOf(now, Soonest.deadline)
    BY <1>0, <1>2, <2>1, <2>2 DEF LaterOf
  <2> QED
    BY <2>1, <2>3, TakeFires
<1>3. CASE WallFire /\ ~(heap # {} /\ Soonest.deadline <= now)
  <2>1. UNCHANGED <<kind, now, timers, running, ready>>
    BY <1>3 DEF WallFire
  <2> QED
    BY <1>0, <2>1 DEF Rests, Armed, Woken
<1>4. CASE TaskStep
  BY <1>4, TaskFires
<1>5. CASE SpoofWake
  <2>1. Woke({FirstLive}) /\ UNCHANGED running /\ now' = LaterOf(now, FirstLive.deadline)
    BY <1>5, SpoofWakes DEF SpoofWake
  <2>2. FirstLive \in Live /\ \A f \in Live \ {FirstLive} : Sooner(FirstLive, f)
    BY <1>5, FirstLiveIsFirst DEF SpoofWake
  <2>3. ready = <<>>
    BY <1>5 DEF SpoofWake, LoopOK, OnLoop, At
  <2>4. \A t \in DOMAIN timers : Armed(t) => Waits(t)
    BY <2>3, AllWait
  <2>5. \A e \in Live : e.deadline \in Nat
    BY DEF Live, TypeOK
  <2>6. now' = now \/ \A f \in Live \ {FirstLive} : now' <= f.deadline
    BY <1>0, <2>1, <2>2, <2>5 DEF LaterOf, Sooner
  <2> QED
    BY <2>1, <2>4, <2>6, WakingRests
<1>6. CASE MuxFire
  <2>1. UNCHANGED <<now, running>>
    BY <1>6 DEF MuxFire
  <2> QED
    BY <1>6, <2>1, MuxWakesDue, WakingRests
<1>7. CASE \E t \in 1 .. HORIZON + 1 : AdvanceTo(t)
  <2>1. PICK t \in 1 .. HORIZON + 1 : AdvanceTo(t)
    BY <1>7
  <2>2. t \in Nat
    BY DEF SchedulersAssumption
  <2>3. Woke({e \in heap : e.deadline < t} \cap Live) /\ UNCHANGED running /\ now' = t /\ kind = "simpy"
    BY <2>1, <2>2, SimpyWakesDue DEF AdvanceTo
  <2>4. \A u \in DOMAIN timers : Armed(u) => Waits(u) \/ Woken(u)
    BY <2>3, Handles DEF TaskOK, Armed, Waits, Woken, New
  <2>5. \A f \in Live \ ({e \in heap : e.deadline < t} \cap Live) : now' <= f.deadline
    BY <2>2, <2>3 DEF Live, TypeOK
  <2> QED
    BY <2>3, <2>4, <2>5, WakingRests
<1>8. CASE \/ \E dt \in SPANS : Advance(dt) \/ SpoofRunFor(dt) \/ MuxStep(dt)
           \/ \E op \in {"run", "idle"}, dt \in SPANS : WallCall(op, dt)
           \/ ManualRunUntilIdle \/ SpoofRunUntilIdle \/ ManualEnd
           \/ WallCheck \/ WallRest \/ WallWake \/ DriverTurn
           \/ SpoofEnd \/ MuxAim \/ MuxLocks \/ MuxWakes \/ Tick
  <2>1. Quiet
    BY <1>8, QuietSteps
  <2>2. UNCHANGED running
    BY <1>8 DEF Advance, SpoofRunFor, MuxStep, WallCall, ManualRunUntilIdle, SpoofRunUntilIdle, ManualEnd,
       WallCheck, WallRest, WallWake, DriverTurn, SpoofEnd, MuxAim, MuxLocks, MuxWakes, Tick
  <2>3. now' # now => ManualEnd \/ SpoofEnd \/ Tick
    BY <1>8 DEF Advance, SpoofRunFor, MuxStep, WallCall, ManualRunUntilIdle, SpoofRunUntilIdle,
       WallCheck, WallRest, WallWake, DriverTurn, MuxAim, MuxLocks, MuxWakes
  <2> QED
    BY <2>1, <2>2, <2>3, QuietRests
<1> QED
  BY <1>1, <1>2, <1>3, <1>4, <1>5, <1>6, <1>7, <1>8 DEF Next, Client, Drive, Proceed


-------------------------------------------------------------------------------
(* The inductive invariant.                                                  *)

\* No step moves time past what still waits, on a clock that owns its time.
LEMMA OverdueKept ==
    ASSUME SchedulersAssumption, TypeOK, TypeOK', DriverOK, LoopOK, HeapOK, TaskOK, OrderOK,
           NothingOverdue, Next
    PROVE  NothingOverdue'
<1>0. /\ now \in Nat
      /\ \A t \in DOMAIN timers : timers[t] \in Handle /\ timers[t].deadline \in Nat
  BY Handles DEF TypeOK
<1>1. CASE \E delay \in DELAYS : CallLater(delay)
  <2>1. PICK delay \in DELAYS : CallLater(delay)
    BY <1>1
  <2> DEFINE n == Len(timers')
  <2>2. /\ DOMAIN timers' = DOMAIN timers \cup {n} /\ Clamped(delay) \in Nat
        /\ \A t \in DOMAIN timers : timers'[t] = timers[t]
        /\ timers'[n].deadline = now + Clamped(delay)
    <3>1. /\ DOMAIN timers' = DOMAIN timers \cup {n} /\ Clamped(delay) \in Nat
          /\ \A t \in DOMAIN timers : timers'[t] = timers[t]
          /\ timers'[n] = NewTimer(delay, IF kind \in {"sim", "mux"} THEN "new" ELSE "waiting")
      BY <2>1, NewTimerIs
    <3> HIDE DEF n
    <3>2. timers'[n].deadline = now + Clamped(delay)
      BY <3>1 DEF NewTimer
    <3> QED
      BY <3>1, <3>2
  <2>3. UNCHANGED <<kind, now>>
    BY <2>1 DEF CallLater
  <2> HIDE DEF n
  <2>4. now' <= timers'[n].deadline
    BY <1>0, <2>2, <2>3
  <2>5. \A t \in DOMAIN timers : Armed(t)' <=> Armed(t)
    BY <2>2 DEF Armed
  <2> QED
    BY <2>2, <2>3, <2>4, <2>5 DEF NothingOverdue
<1>2. CASE \E t \in DOMAIN timers : Cancel(t)
  <2>1. PICK t \in DOMAIN timers : Cancel(t)
    BY <1>2
  <2>2. /\ UNCHANGED <<kind, now>> /\ DOMAIN timers' = DOMAIN timers
        /\ \A u \in DOMAIN timers : /\ timers'[u].deadline = timers[u].deadline
                                    /\ timers'[u].state = timers[u].state
                                    /\ Armed(u)' => Armed(u)
    BY <1>0, <2>1 DEF Cancel, Handle, Armed
  <2> QED
    BY <2>2 DEF NothingOverdue
<1>3. CASE CallbackReturns
  BY <1>3 DEF CallbackReturns, NothingOverdue, Armed
<1>4. CASE \E t \in DOMAIN timers : Fires(t)
  <2>1. PICK t \in DOMAIN timers : Fires(t)
    BY <1>4
  <2>2. /\ DOMAIN timers' = DOMAIN timers
        /\ \A u \in DOMAIN timers : u # t => timers'[u] = timers[u]
        /\ ~Armed(t)'
    BY <1>0, <2>1 DEF Fires, StateTo, Armed, Handle
  <2>3. ASSUME NEW u \in DOMAIN timers, u # t, Armed(u),
               kind \in {"manual", "sim", "simpy"}, timers[u].state # "woken"
        PROVE  now' <= timers[u].deadline
    <3>1. now <= timers[u].deadline
      BY <2>3 DEF NothingOverdue
    <3>2. timers[t].deadline <= timers[u].deadline
      BY <1>0, <2>1, <2>3 DEF Fires, Before
    <3> QED
      BY <1>0, <2>1, <3>1, <3>2 DEF Fires, LaterOf
  <2>4. kind' = kind
    BY <2>1 DEF Fires
  <2>5. \A u \in DOMAIN timers : Armed(u)' => u # t /\ Armed(u)
    BY <2>2 DEF Armed
  <2> QED
    BY <2>2, <2>3, <2>4, <2>5 DEF NothingOverdue
<1>5. CASE Rests
  <2>1. /\ UNCHANGED kind /\ DOMAIN timers' = DOMAIN timers
        /\ \A t \in DOMAIN timers : /\ timers'[t].deadline = timers[t].deadline
                                    /\ Armed(t)' <=> Armed(t)
                                    /\ Woken(t) => Woken(t)'
    BY <1>5 DEF Rests
  <2>2. ASSUME NEW t \in DOMAIN timers, Armed(t), ~Woken(t)', kind \in {"manual", "sim", "simpy"}
        PROVE  now' <= timers[t].deadline
    <3>1. CASE now' = now
      BY <2>1, <2>2, <3>1 DEF NothingOverdue, Woken
    <3>2. CASE now' # now
      BY <1>5, <2>2, <3>2 DEF Rests
    <3> QED
      BY <3>1, <3>2
  <2> QED
    BY <2>1, <2>2 DEF NothingOverdue, Woken
<1> QED
  BY <1>1, <1>2, <1>3, <1>4, <1>5, StepIs

\* No step lets a timer pass one armed before it for the same deadline.
LEMMA TiesKept ==
    ASSUME SchedulersAssumption, TypeOK, TypeOK', DriverOK, LoopOK, HeapOK, TaskOK, OrderOK,
           TiesInOrder, Next
    PROVE  TiesInOrder'
<1>0. /\ DOMAIN timers = 1 .. Len(timers) /\ Len(timers) \in Nat
      /\ running \in {None} \cup DOMAIN timers
      /\ \A t \in DOMAIN timers : timers[t] \in Handle /\ timers[t].deadline \in Nat /\ t \in Nat
  BY Handles DEF TypeOK
<1>00. \A t : running # None /\ t \in 1 .. running - 1 => t \in DOMAIN timers
  BY <1>0 DEF None
<1>1. ASSUME UNCHANGED <<kind, running>>,
             \A t \in DOMAIN timers : timers'[t].deadline = timers[t].deadline /\ (Armed(t)' => Armed(t))
      PROVE  TiesInOrder'
  BY <1>0, <1>00, <1>1 DEF TiesInOrder, RegistrationOrder
<1>2. CASE \E delay \in DELAYS : CallLater(delay)
  <2>1. PICK delay \in DELAYS : CallLater(delay)
    BY <1>2
  <2>2. UNCHANGED <<kind, running>> /\ \A t \in DOMAIN timers : timers'[t] = timers[t]
    BY <2>1, NewTimerIs DEF CallLater
  <2>3. \A t \in DOMAIN timers : timers'[t].deadline = timers[t].deadline /\ (Armed(t)' => Armed(t))
    BY <2>2 DEF Armed
  <2> QED
    BY <1>1, <2>2, <2>3
<1>3. CASE \E t \in DOMAIN timers : Cancel(t)
  <2>1. PICK t \in DOMAIN timers : Cancel(t)
    BY <1>3
  <2>2. /\ UNCHANGED <<kind, running>>
        /\ \A u \in DOMAIN timers : timers'[u].deadline = timers[u].deadline /\ (Armed(u)' => Armed(u))
    BY <1>0, <2>1 DEF Cancel, Handle, Armed
  <2> QED
    BY <1>1, <2>2
<1>4. CASE CallbackReturns
  BY <1>4 DEF CallbackReturns, TiesInOrder, RegistrationOrder
<1>5. CASE \E t \in DOMAIN timers : Fires(t)
  <2>1. PICK t \in DOMAIN timers : Fires(t)
    BY <1>5
  <2>2. /\ UNCHANGED kind /\ running' = t /\ DOMAIN timers' = DOMAIN timers
        /\ \A u \in DOMAIN timers : u # t => timers'[u] = timers[u]
        /\ timers'[t].deadline = timers[t].deadline
    BY <1>0, <2>1 DEF Fires, StateTo, Handle
  <2>3. ASSUME kind # "sim", NEW u \in 1 .. t - 1, Armed(u)'
        PROVE  timers'[u].deadline # timers'[t].deadline
    <3>1. u \in DOMAIN timers /\ u # t /\ u < t
      BY <1>0, <2>1
    <3>2. Armed(u)
      BY <2>2, <2>3, <3>1 DEF Armed
    <3>3. Before(t, u)
      BY <2>1, <3>1, <3>2 DEF Fires
    <3> QED
      BY <1>0, <2>2, <2>3, <3>1, <3>3 DEF Before
  <2> QED
    BY <2>2, <2>3 DEF TiesInOrder, RegistrationOrder
<1>6. CASE Rests
  BY <1>1, <1>6 DEF Rests
<1> QED
  BY <1>2, <1>3, <1>4, <1>5, <1>6, StepIs

\* The invariant holds at the start ...
LEMMA InitIInv ==
    ASSUME SchedulersAssumption, Init
    PROVE  IInv
<1> USE DEF Init
<1>1. /\ DOMAIN timers = {} /\ DOMAIN ready = {} /\ heap = {} /\ running = None
      /\ driver.pc = "idle" /\ driver.next = "idle" /\ driver.op = "none"
  BY DEF Idle
<1>2. TypeOK
  <2>1. driver \in Calls
    BY DEF Idle, Calls
  <2>2. IsFiniteSet(heap)
    BY FS_EmptySet
  <2>3. timers \in Seq(Handle) /\ ready \in Seq({None} \cup DOMAIN timers)
    OBVIOUS
  <2> QED
    BY <2>1, <2>2, <2>3 DEF TypeOK, SchedulersAssumption
<1>3. DriverOK
  BY <1>1 DEF DriverOK
<1>4. LoopOK
  BY <1>1 DEF LoopOK
<1>5. HeapOK /\ TaskOK /\ OrderOK
  BY <1>1 DEF HeapOK, TaskOK, OrderOK
<1>6. ServedOK /\ NothingOverdue /\ TiesInOrder
  BY <1>1 DEF ServedOK, NothingOverdue, TiesInOrder, RegistrationOrder
<1> QED
  BY <1>2, <1>3, <1>4, <1>5, <1>6 DEF IInv

\* ... and every step keeps it.
LEMMA NextIInv ==
    ASSUME SchedulersAssumption, IInv, [Next]_clockVars
    PROVE  IInv'
<1> USE DEF IInv
<1>1. CASE Next
  <2>1. TypeOK'
    BY <1>1, Types
  <2>2. HeapOK'
    BY <1>1, <2>1, HeapKept
  <2>3. TaskOK'
    BY <1>1, <2>1, TaskKept
  <2>4. OrderOK'
    BY <1>1, <2>1, <2>3, OrderKept
  <2>5. LoopOK'
    BY <1>1, <2>1, <2>3, LoopKept
  <2>6. DriverOK'
    BY <1>1, DriverKept
  <2>7. ServedOK'
    BY <1>1, <2>1, ServedKept
  <2>8. NothingOverdue'
    BY <1>1, <2>1, OverdueKept
  <2>9. TiesInOrder'
    BY <1>1, <2>1, TiesKept
  <2> QED
    BY <2>1, <2>2, <2>3, <2>4, <2>5, <2>6, <2>7, <2>8, <2>9
<1>2. CASE UNCHANGED clockVars
  BY <1>2 DEF clockVars, TypeOK, DriverOK, LoopOK, HeapOK, TaskOK, OrderOK, ServedOK,
     NothingOverdue, TiesInOrder, RegistrationOrder, OnLoop, New, Waits, Woken, Armed, Before
<1> QED
  BY <1>1, <1>2

\* Every reachable state of every clock satisfies the invariant.
THEOREM Invariant == Spec => []IInv
<1>1. IInv /\ [Next]_clockVars => IInv'
  BY SchedulersAssumption, NextIInv
<1>2. Init => IInv
  BY SchedulersAssumption, InitIInv
<1> QED
  BY <1>1, <1>2, PTL DEF Spec

-------------------------------------------------------------------------------
(* What the clocks promise.                                                  *)

\* A clock that owns its time never moves it past a timer that still waits.
THEOREM OnTime == Spec => []NothingOverdue
<1>1. IInv => NothingOverdue
  BY DEF IInv
<1> QED
  BY <1>1, Invariant, PTL

\* Timers due together run in the order they were armed, but under SpoofClock.
THEOREM TiesKeepTheirOrder == Spec => []TiesInOrder
<1>1. IInv => TiesInOrder
  BY DEF IInv
<1> QED
  BY <1>1, Invariant, PTL

\* Only the steps that end a call leave the driver idle, and they end it when all
\* is served.
LEMMA EndIsServed ==
    ASSUME SchedulersAssumption, IInv, Next,
           driver.op = "run", driver' = Idle, kind \in {"manual", "sim"}
    PROVE  \A t \in DOMAIN timers : Armed(t)' => timers'[t].deadline > driver.target
<1> USE DEF IInv
<1>0. /\ driver \in Calls /\ Idle.op = "none" /\ Idle.pc = "idle"
      /\ driver'.op = "none" /\ driver'.pc = "idle"
  BY DEF TypeOK, Idle
<1>1. CASE ManualEnd
  <2>1. UNCHANGED timers
    BY <1>1 DEF ManualEnd
  <2> QED
    BY <1>1, <2>1, ManualEndServes DEF Armed
<1>2. CASE DriverTurn
  <2>1. CASE driver.left > 1 \/ driver.next # "idle"
    <3>1. driver' = [driver EXCEPT !.left = @ - 1] \/ driver' = [driver EXCEPT !.pc = driver.next, !.left = 0]
      BY <1>2, <2>1 DEF DriverTurn
    <3>2. driver'.op = driver.op
      BY <1>0, <3>1 DEF Calls
    <3> QED
      BY <1>0, <3>2
  <2>2. CASE ~(driver.left > 1) /\ driver.next = "idle"
    <3>1. /\ kind = "sim" /\ driver.pc = "settle" /\ UNCHANGED timers
      BY <1>2 DEF DriverTurn, At, DriverOK
    <3> QED
      BY <2>2, <3>1 DEF ServedOK, Armed
  <2> QED
    BY <2>1, <2>2
<1>3. CASE UNCHANGED driver
  BY <1>0, <1>3
<1>4. CASE Drive
  <2>1. CASE \E t \in 1 .. HORIZON + 1 : AdvanceTo(t)
    BY <2>1 DEF AdvanceTo
  <2>2. CASE ~\E t \in 1 .. HORIZON + 1 : AdvanceTo(t)
    <3>1. driver = Idle
      BY <1>4, <2>2 DEF Drive, Advance, SpoofRunFor, MuxStep, WallCall, ManualRunUntilIdle, SpoofRunUntilIdle, Call
    <3> QED
      BY <1>0, <3>1
  <2> QED
    BY <2>1, <2>2
<1>5. CASE ManualPop
  BY <1>0, <1>5 DEF ManualPop, Calls
<1>6. CASE SpoofWake
  <2>1. ~(0 > MAX_STEPS)
    BY DEF SchedulersAssumption
  <2>2. Settle([driver EXCEPT !.steps = 0], Append(ready, FirstLive.timer), "loop")
    BY <1>6, <2>1 DEF SpoofWake
  <2>3. driver' = [[driver EXCEPT !.steps = 0] EXCEPT !.pc = "settle", !.left = SettleRounds, !.next = "loop"]
    BY <2>2 DEF Settle
  <2> QED
    BY <1>0, <2>3 DEF Calls
<1>7. CASE SpoofEnd
  <2>1. driver' = [driver EXCEPT !.pc = "settle", !.left = SettleRounds, !.next = "idle"]
    BY <1>7 DEF SpoofEnd, Settle
  <2> QED
    BY <1>0, <2>1 DEF Calls
<1>8. CASE WallCheck \/ WallFire \/ WallRest \/ WallWake \/ MuxFire \/ MuxAim \/ MuxLocks \/ MuxWakes \/ Tick
  BY <1>8 DEF WallCheck, WallFire, WallRest, WallWake, MuxFire, MuxAim, MuxLocks, MuxWakes, Tick
<1> QED
  BY <1>1, <1>2, <1>3, <1>4, <1>5, <1>6, <1>7, <1>8
  DEF Next, Client, Proceed, CallLater, Cancel, CallbackReturns, TaskStep

\* When advance or run_for returns, nothing due within its span is left.
THEOREM NothingIsLeft == Spec => SpanIsServed
<1>1. IInv /\ [Next]_clockVars =>
         [driver.op = "run" /\ driver' = Idle /\ kind \in {"manual", "sim"} =>
            \A t \in DOMAIN timers : Armed(t)' => timers'[t].deadline > driver.target]_clockVars
  BY SchedulersAssumption, EndIsServed
<1> QED
  BY <1>1, Invariant, PTL DEF Spec, SpanIsServed

-------------------------------------------------------------------------------
(* Every clock implements the agenda.                                        *)

\* The agenda's entry of timer t, and its entries.
Item(t) == [id |-> t, deadline |-> timers[t].deadline]
Agenda == {Item(t) : t \in {t \in DOMAIN timers : Armed(t)}}

\* An entry of the agenda is that of a timer that may still fire.
LEMMA AgendaItems ==
    /\ \A t \in DOMAIN timers : Armed(t) => Item(t) \in Agenda
    /\ \A e \in Agenda : \E t \in DOMAIN timers : Armed(t) /\ e = Item(t)
    /\ \A t, u : Item(t) = Item(u) => t = u
    /\ \A t : Item(t).id = t /\ Item(t).deadline = timers[t].deadline
BY DEF Agenda, Item

\* The agenda keeps its entries where the timers stay as they are.
LEMMA SameAgenda ==
    ASSUME DOMAIN timers' = DOMAIN timers,
           \A t \in DOMAIN timers : timers'[t].deadline = timers[t].deadline /\ (Armed(t)' <=> Armed(t))
    PROVE  Agenda' = Agenda
<1>1. \A t \in DOMAIN timers : Item(t)' = Item(t)
  BY DEF Item
<1> QED
  BY <1>1 DEF Agenda

\* A timer that fires or is cancelled leaves the agenda, and it alone.
LEMMA LeavesAgenda ==
    ASSUME NEW t \in DOMAIN timers, Armed(t), ~Armed(t)', DOMAIN timers' = DOMAIN timers,
           \A u \in DOMAIN timers : u # t => timers'[u] = timers[u]
    PROVE  Agenda' = Agenda \ {Item(t)} /\ Item(t) \in Agenda
<1>1. \A u \in DOMAIN timers : u # t => Item(u)' = Item(u) /\ (Armed(u)' <=> Armed(u))
  BY DEF Item, Armed
<1>2. \A u : u # t => Item(u) # Item(t)
  BY DEF Item
<1> QED
  BY <1>1, <1>2 DEF Agenda

\* As many timers as numbers: lists of the same domain are of the same length.
LEMMA SameLength ==
    ASSUME NEW m \in Nat, NEW n \in Nat, 1 .. m = 1 .. n
    PROVE  m = n
<1>1. m = 0 \/ m \in 1 .. n
  OBVIOUS
<1>2. n = 0 \/ n \in 1 .. m
  OBVIOUS
<1> QED
  BY <1>1, <1>2

\* What the agenda's state is on a clock.
LEMMA AgendaState ==
    /\ Promise!Init <=> now = 0 /\ Len(timers) = 0 /\ Agenda = {} /\ running = 0
    /\ Promise!Arm <=>
          /\ Len(timers)' = Len(timers) + 1
          /\ \E e \in Agenda' \ Agenda : /\ e.id = Len(timers)' /\ e.deadline >= now
                                         /\ Agenda' = Agenda \cup {e}
          /\ now' = now /\ running' = running
    /\ Promise!Cancel <=>
          /\ \E e \in Agenda : Agenda' = Agenda \ {e}
          /\ now' = now /\ Len(timers)' = Len(timers) /\ running' = running
    /\ Promise!Fire <=>
          /\ running = 0
          /\ \E e \in Agenda : /\ \A f \in Agenda : e.deadline <= f.deadline
                               /\ now' >= e.deadline /\ Agenda' = Agenda \ {e} /\ running' = e.id
          /\ now' >= now /\ Len(timers)' = Len(timers)
    /\ Promise!Return <=>
          running' = 0 /\ now' = now /\ Len(timers)' = Len(timers) /\ Agenda' = Agenda
    /\ Promise!Pass <=>
          now' > now /\ Len(timers)' = Len(timers) /\ Agenda' = Agenda /\ running' = running
    /\ UNCHANGED Promise!vars <=>
          now' = now /\ Len(timers)' = Len(timers) /\ Agenda' = Agenda /\ running' = running
BY DEF Promise!Init, Promise!Arm, Promise!Cancel, Promise!Fire, Promise!Return, Promise!Pass, Promise!vars,
   Agenda, Item

\* Every clock starts with an empty agenda ...
LEMMA StartsEmpty ==
    ASSUME Init
    PROVE  Promise!Init
<1>1. Agenda = {} /\ Len(timers) = 0
  BY DEF Init, Agenda
<1> QED
  BY <1>1, AgendaState DEF Init, None

\* ... and each of its steps is one of the agenda's, or none.
LEMMA StepKeepsPromise ==
    ASSUME SchedulersAssumption, IInv, IInv', Next
    PROVE  \/ Promise!Arm \/ Promise!Cancel \/ Promise!Fire \/ Promise!Return \/ Promise!Pass
           \/ UNCHANGED Promise!vars
<1>0. /\ now \in Nat /\ now' \in Nat
      /\ DOMAIN timers = 1 .. Len(timers) /\ Len(timers) \in Nat
      /\ (DOMAIN timers)' = 1 .. Len(timers)' /\ Len(timers)' \in Nat
      /\ \A t \in DOMAIN timers : timers[t] \in Handle /\ timers[t].deadline \in Nat
  BY Handles DEF IInv, TypeOK
<1>00. DOMAIN timers' = DOMAIN timers => Len(timers)' = Len(timers)
  BY <1>0, SameLength
<1>1. CASE \E delay \in DELAYS : CallLater(delay)
  <2>1. PICK delay \in DELAYS : CallLater(delay)
    BY <1>1
  <2> DEFINE n == Len(timers')
  <2>2. /\ n = Len(timers) + 1 /\ DOMAIN timers' = DOMAIN timers \cup {n} /\ n \notin DOMAIN timers
        /\ Clamped(delay) \in Nat
        /\ \A t \in DOMAIN timers : timers'[t] = timers[t]
        /\ timers'[n] = NewTimer(delay, IF kind \in {"sim", "mux"} THEN "new" ELSE "waiting")
    BY <2>1, NewTimerIs DEF IInv
  <2>3. UNCHANGED <<now, running>>
    BY <2>1 DEF CallLater
  <2> HIDE DEF n
  <2> DEFINE e == [id |-> n, deadline |-> now + Clamped(delay)]
  <2>4. ~timers'[n].cancelled /\ timers'[n].state # "done" /\ timers'[n].deadline = now + Clamped(delay)
    BY <2>2 DEF NewTimer
  <2>5. Agenda' = Agenda \cup {e}
    <3> DEFINE live == {t \in DOMAIN timers : Armed(t)}
               item(t) == [id |-> t, deadline |-> timers'[t].deadline]
    <3>1. {t \in DOMAIN timers' : ~timers'[t].cancelled /\ timers'[t].state # "done"} = live \cup {n}
      BY <2>2, <2>4 DEF Armed
    <3>2. Agenda' = {item(t) : t \in live \cup {n}}
      BY <3>1 DEF Agenda, Item, Armed
    <3>3. \A t \in live : item(t) = Item(t)
      BY <2>2 DEF Item
    <3>4. item(n) = e
      BY <2>4
    <3>5. Agenda = {Item(t) : t \in live}
      BY DEF Agenda
    <3> HIDE DEF live, item, e
    <3> QED
      BY <3>2, <3>3, <3>4, <3>5
  <2>6. e \notin Agenda /\ e.id = n /\ e.deadline >= now
    <3>1. now + Clamped(delay) >= now
      BY <1>0, <2>2
    <3>2. \A f \in Agenda : f.id \in DOMAIN timers
      BY DEF Agenda, Item
    <3> QED
      BY <2>2, <3>1, <3>2
  <2> QED
    BY <2>2, <2>3, <2>5, <2>6, AgendaState DEF n
<1>2. CASE \E t \in DOMAIN timers : Cancel(t)
  <2>1. PICK t \in DOMAIN timers : Cancel(t)
    BY <1>2
  <2>2. /\ UNCHANGED <<now, running>> /\ DOMAIN timers' = DOMAIN timers
        /\ \A u \in DOMAIN timers : u # t => timers'[u] = timers[u]
        /\ Armed(t) /\ ~Armed(t)'
    BY <1>0, <2>1 DEF Cancel, Handle, Armed
  <2>3. Agenda' = Agenda \ {Item(t)} /\ Item(t) \in Agenda
    BY <2>2, LeavesAgenda
  <2> QED
    BY <1>00, <2>2, <2>3, AgendaState
<1>3. CASE CallbackReturns
  <2>1. UNCHANGED <<now, timers>> /\ running' = 0
    BY <1>3 DEF CallbackReturns, None
  <2>2. Agenda' = Agenda
    BY <2>1 DEF Agenda, Item, Armed
  <2> QED
    BY <2>1, <2>2, AgendaState
<1>4. CASE \E t \in DOMAIN timers : Fires(t)
  <2>1. PICK t \in DOMAIN timers : Fires(t)
    BY <1>4
  <2>2. /\ DOMAIN timers' = DOMAIN timers
        /\ \A u \in DOMAIN timers : u # t => timers'[u] = timers[u]
        /\ Armed(t) /\ ~Armed(t)' /\ running = 0 /\ running' = t
    BY <1>0, <2>1 DEF Fires, StateTo, Handle, Armed, None
  <2>3. Agenda' = Agenda \ {Item(t)} /\ Item(t) \in Agenda
    BY <2>2, LeavesAgenda
  <2>4. now' >= now /\ now' >= timers[t].deadline
    BY <1>0, <2>1 DEF Fires, LaterOf
  <2>5. \A u \in DOMAIN timers : Armed(u) => timers[t].deadline <= timers[u].deadline
    BY <1>0, <2>1 DEF Fires, Before
  <2>6. \A f \in Agenda : Item(t).deadline <= f.deadline
    BY <2>5, AgendaItems
  <2> QED
    BY <1>00, <2>2, <2>3, <2>4, <2>6, AgendaItems, AgendaState
<1>5. CASE Rests
  <2>1. /\ running' = running /\ now' >= now /\ DOMAIN timers' = DOMAIN timers
        /\ \A t \in DOMAIN timers : timers'[t].deadline = timers[t].deadline /\ (Armed(t)' <=> Armed(t))
    BY <1>5 DEF Rests
  <2>2. Agenda' = Agenda
    BY <2>1, SameAgenda
  <2>3. now' = now \/ now' > now
    BY <1>0, <2>1
  <2> QED
    BY <1>00, <2>1, <2>2, <2>3, AgendaState
<1> QED
  BY <1>1, <1>2, <1>3, <1>4, <1>5, StepIs DEF IInv

\* Every clock keeps the promise its client relies on.
THEOREM Implementation == Spec => KeepsThePromise
<1>1. IInv /\ IInv' /\ [Next]_clockVars =>
         [\/ Promise!Arm \/ Promise!Cancel \/ Promise!Fire \/ Promise!Return \/ Promise!Pass]_(Promise!vars)
  <2> SUFFICES ASSUME IInv, IInv', [Next]_clockVars
               PROVE  [\/ Promise!Arm \/ Promise!Cancel \/ Promise!Fire \/ Promise!Return
                       \/ Promise!Pass]_(Promise!vars)
    OBVIOUS
  <2>1. CASE Next
    BY <2>1, SchedulersAssumption, StepKeepsPromise
  <2>2. CASE UNCHANGED clockVars
    <3>1. UNCHANGED <<now, timers, running>>
      BY <2>2 DEF clockVars
    <3>2. Agenda' = Agenda
      BY <3>1 DEF Agenda, Item, Armed
    <3> QED
      BY <3>1, <3>2, AgendaState
  <2> QED
    BY <2>1, <2>2
<1>2. Init => Promise!Init
  BY StartsEmpty
<1> QED
  BY <1>1, <1>2, Invariant, PTL DEF Spec, KeepsThePromise, Promise!Spec
===============================================================================
