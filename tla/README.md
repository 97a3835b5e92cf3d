# A verification project for hdl-playground

The repository is a workbench for driving hardware simulations from Python: RTL
designs, UVM testbenches in SystemVerilog, a bridge between the simulator and
Python, and, as its largest program, a TCP engine written in Python
(`src/verif/pyhdl/tcp_model`) that a simulation can talk to. This directory
holds TLA+ models of it, the TLC runs that check them and TLAPS proofs.

Paths below are relative to the root of the repository; `engine.py` is
`src/verif/pyhdl/tcp_model/core/engine.py`.

## 1. Inventory

| Part | State it keeps | Operations | Talks to |
|---|---|---|---|
| `tcp_model/core/seqnum.py` | none | `s32`, `add`, `sub`, comparisons, `between`, `acceptable` | called by the engine |
| `tcp_model/core/engine.py` (with `tcb.py`, `timers.py`) | the TCB, `app_buf`, `recv_buf`, `retx`, `ooo`, FIN flags, five timers, counters | user calls `open send receive close abort seed status`; `on_segment` in eleven states; `_on_rto _on_persist _on_time_wait _on_keepalive _on_delack` | a scheduler (`call_later`, `cancel`), a `tx` callback, user callbacks |
| `tcp_model/core/segment.py`, `rtt.py` | none; smoothed round trip | encode, decode, checksum; `sample`, `backoff` | called by the engine |
| `tcp_model/ports/net_port.py` | two filters, counters | `Wire.tx_from_a`, `tx_from_b`, scheduled or immediate delivery; `CaptureNet` | two engines, a scheduler |
| `tcp_model/ports/scheduler.py`, `ports/sim_clock.py`, `pyhdl/sim_clock.py` | heap of timers, current time | `call_later`, `cancel`, `advance`, waits on simulated time | engines, simulator |
| `pyhdl/tcp/test_runner.py` | engines, queues, events, locks | `EngineSeqB`, `TimeMux`, scenario tasks | engines, UVM sequences |
| `pyhdl/tcp/*.sv` | UVM driver, monitor, scoreboard | byte transfer over an interface, comparison of sent and received | test runner through the proxies |
| `pyhdl/pyhdl_raw.sv`, `raw_mirror.py`, `uvm_mirror.py` | proxied sequence items | start and finish of items, field access | simulator and Python |
| `rtl/ether.sv` with its testbenches | receive and transmit machine, CRC, holdback | one clock edge | bytes in, bytes out |
| `rtl/counter.sv` with its testbenches | a counter | one clock edge | UVM environment |
| `sim_logging.py`, `tests/`, `scripts/` | none that matters here | logging, starting simulations | |

**What is hard.** The engine is single-threaded, and each user call, arriving
segment or expired timer runs to completion; the difficulty is the order in
which these entries come on two engines that share only a lossy network:
windows that close and whose reopening is lost, FINs that arrive before data,
opens and closes that cross, retransmissions that race their acknowledgments,
numbers that wrap. Under it are clocks whose timers are cancelled and armed while
they fire, some on an asyncio loop. Around it, the co-simulation has asynchronous
Python tasks which share one simulator, and the RTL has a parser that learns that
a frame is over only when its check sequence is in. Every
hazard found in reading the code is listed, at its line, in `PROJECT.json`.

**What makes each part correct.**

* Sequence arithmetic: comparisons agree with true distances below half the
  space; a segment is acceptable exactly when it touches the window.
* Engine: a sink is told exactly what the peer sent, in order, and EOF last; the
  retransmission queue covers exactly what is outstanding; anything waiting has
  a timer; the window never shrinks; the state agrees with the FINs; data and
  closes get through; a live peer is never dropped and a dead one is found.
* Segment codec: what is built is parsed as it was; a list of options, however it
  is cut off, means what stands whole in front of the cut.
* Estimator: the timeout is within its limits and covers what was just measured.
* Schedulers: what is due runs once, in order and one at a time, nothing cancelled
  runs, no timer is lost, a call that drives the clock serves its whole span.
* Test runner and proxies: no wake-up is lost, calls into the simulator never
  overlap, what is seen is what was sent, every test reports and its verdict is
  the truth.
* Framer: exactly the bytes of a frame between its preamble and its CRC come
  out; the frame ends once, and its last byte is marked.
* Counter testbench: the scoreboard's expectation equals the design's value.

## 2. Modules

| Module | Models | Remarks |
|---|---|---|
| `SeqNum` | `seqnum.py` | modulus is the constant `MOD`, any even number from 4 up |
| `MCSeqNum` | | a segment and a window that slide through two turns of the space |
| `TcpEngine` | `engine.py`, `tcb.py` | one operator per method, on an engine record |
| `TcpPair` | two engines, their users and timers, `Wire` | one action per entry into an engine or act of the wire |
| `TcpProperties` | | what the pair guarantees |
| `TcpEngineProofs` | | TLAPS proofs about `TcpEngine` and `TcpPair`, for every instance |
| `TcpConnectionProofs` | | what each method of the engine does to a connection that was opened once, proved in positions of its two streams |
| `TcpDeliveryProofs` | | two such engines and the wire between them: what arrives is what was sent |
| `TcpStream` | the promise of one direction | abstract specification, unwrapped positions |
| `TcpRefinement` | | `TcpPair` implements `TcpStream` |
| `TcpStreamProofs` | | TLAPS proofs about `TcpStream` |
| `SyncWire` | `Wire` without a delay, two engines that close | methods of the engine cut where they call `tx` |
| `Segment` | `segment.py` | `build` and `parse`, options byte by byte |
| `Rtt` | `rtt.py` | integers in place of floating point |
| `ArithmeticProofs` | | TLAPS proofs about `SeqNum`, for every modulus, and `Rtt`, for every limit and every measurement |
| `Agenda` | the `Scheduler` protocol | abstract specification of every clock |
| `Schedulers` | `scheduler.py`, `ports/sim_clock.py`, `TimeMux`, `pyhdl/sim_clock.py` | the clock is chosen at the start; refines `Agenda` |
| `SchedulersProofs` | | TLAPS proofs about the five clocks, and that they implement `Agenda` |
| `CoSim` | `tcp/test_runner.py`, the UVM environment, `pyhdl_raw.sv` | two sequence bodies, the lock, the simulator |
| `CoSimProofs` | | TLAPS proofs about the co-simulation |
| `Ether` | `rtl/ether.sv` and its testbench | one step per clock edge |
| `EtherProofs` | | TLAPS proofs about `Ether`, for every set of frames, filler and check sequence |
| `MCAlgorithms` | | `SeqNum`, `Segment`, `Rtt` and `Ether` checked in one run, one per behaviour |
| `MC*` | | instances for TLC, with one `.cfg` per run |

**TcpEngine.** A method of the engine is an operator from the engine before to
the engine after; the segments it transmitted are in the field `out`, in the
order of the `tx` calls. Field names are the code's. Every call a handler makes
is composed into it, in the order of the code: `EnterTimeWait`, for example,
passes through `CancelPersist` and so through `SendPending`, as
`_enter_time_wait` does. The segmentation loop of `_send_pending` is given in
closed form (`Chunks`): full segments, then the tail if Nagle lets it go. So is
the trimming loop of `_process_ack` (`Unacked`) and the reassembly loop
(`MergeReassembly`: the longest run of numbers the kept segments hold). A
payload is a sequence of byte values and a timer a flag.

**TcpPair.** `eng[s]` is the engine of side `s`, `net[s]` the bag of segments on
their way to `s`. A step is a user call (`UserSend`, ...), an arrival, a loss or
a repeat, or an expiring timer. `sent`, `ended` and the field `stream` of an
engine are history variables. The wire is more general than `Wire`: that one
keeps order for a fixed delay and may drop or change a segment in a filter; the
engine claims to cope with any order and with repeats, so the model has both.
`left` bounds the events a run could repeat for ever: losses, repeats, opens,
aborts and, in the safety runs, the expiry of timers.

**SyncWire.** The default delay of a `Wire` is zero, and then `tx` calls the
peer's `on_segment` before it returns. `TcpPair` lets every entry into an engine
run to its end; `SyncWire` keeps a call stack and cuts the methods that a close
goes through where they call `tx`, so that the peer's answer comes in between, as
it does in the code. It has only what a close of two idle engines needs.

**Agenda and Schedulers.** `Agenda` is what a user of the `Scheduler` protocol may
rely on: a timer that was armed and not cancelled fires once, not before it is
due, never while another callback runs, never ahead of one that was due earlier.
`Schedulers` has the five clocks, one per initial state: `kind` is "manual"
(`ManualScheduler`), "wall" (`WallClockScheduler`), "sim" (`SimScheduler` on
`SpoofClock`), "mux" (`SimScheduler` on `TimeMux`) or "simpy" (`SimClock`). The
heap is a set of entries with the numbers `itertools.count()` gave them; the
asyncio loop is a queue (`ready`) of tasks and of the driver, which takes its turns
in `_settle` like any other; a driving call is a program with the point it has
reached in `driver`. Callbacks arm and cancel timers as the client between two
calls does.

**CoSim.** The test runner forks two sequence bodies on one asyncio loop. `pc[s]`
is where each stands between two awaits, `lock` is `_sv_lock` with its queue,
`event` and `done` are `tx_event` and `done` of `_State`. While a segment is driven
the far monitor hands it to its engine, which may emit, and timers may emit when
time has moved; what an engine emits is left open up to a bound, because the
engines have modules of their own. `proxy` is the item `start_item` has readied
or, when the image did not decode, nothing. An exception may come at any point of
the locked region: at its start, while the body waits for the item, and between
`start_item` and `finish_item`. One event may make an engine emit any
number of segments, up to the bound. The tests differ in what their bodies
do: "engines" stands for T1 to T5, "transport" for P2, "raw" for T6 and T7.

**Ether.** `dut` holds the registers of the framer, and `Clocked` is its
`always_ff` block, one disjunct of the case per operator. The CRC register is kept
as the bytes since the SFD: the residue is reached exactly when the last four
are the check sequence of those in front of them, which is the theory of CRCs and
is not modelled. `Edge` drives, clocks and samples at one edge, each with what the
others had put out at the edge before, as clocking blocks do.

**Mutants.** An operator `Mut_X`, just before the operator `X`, is `X` with a
plausible bug. It is not used by the model; replacing `X` by it must make a
property fail. `PROJECT.json` says which property each one breaks, so that every
checked property is known to say something about the code.

## 3. Runs

| Run | Bounds | Shows |
|---|---|---|
| `algorithms` | `MOD` 16, lengths and windows up to 3, two turns; lists of up to three options out of eight, cut anywhere, and segments with up to 40 bytes of options; four round trips; two streams from 28 frames, with and without filler, paused anywhere | comparisons, acceptability, codec, estimator and framer, each against what it is for |
| `stream` | three items of two values | the abstract stream; `IInv`, the invariant of the proofs, which contains the types |
| `transfer` | 3 bytes and a FIN through a window of 2, `MSS` 2, numbers wrap; one loss, one repeat, one retransmission, one probe | refinement of `TcpStream`; the bookkeeping of queue, timers, windows and buffers |
| `lifecycle` | active and passive open, one byte, both closes, one abort, one repeat | the stream, the FINs and the acknowledgments, from open to close |
| `crossing` | two opens, by `OPEN` or by `SEND` in LISTEN, a repeat, both closes | simultaneous open, the state diagram, what an engine remembers of how it opened |
| `progress` | 2 bytes through a window of 1, Nagle, delayed ACK, one loss | liveness |
| `keepalive` | idle connection, one byte, one abort, one loss | keepalive in both directions |
| `schedulers` | three timers, delays -1 and 1, spans 0 and 1, times up to 2, on each of the five clocks | every clock implements `Agenda`; order, punctuality and liveness of timers |
| `cosim` | three segments per engine, three images, two phases, one exception, one dropped segment | the lock, the wake-ups, the verdict, termination |
| `reopen` | 3 bytes behind a window of 1, an abort, a second open | a disagreement, see below |
| `spoof_order` | as `schedulers`, on `SpoofClock` | a disagreement, see below |
| `syncwire` | two idle engines, both may close, twenty open calls | a disagreement, see below |

*Why the bounds suffice.* Three bytes and a window of two make every case of the
send and receive paths happen: full and short segments, a partly acknowledged
segment, data beyond the window, a zero window, a gap, an overlap (a probe's
byte and a segment), a FIN ahead of a gap. The initial numbers are chosen so
that the space of 32 wraps inside the transfer. One loss, one repeat and one
retransmission already let each segment be late, doubled or missing; counters
with limits (`MAX_RETRANSMITS`, `KEEPALIVE_COUNT`) are set to 1 or 2 so that the
limit is within reach. Runs that end in two closed engines switch deadlock
checking off, because there the system has stopped; so do `algorithms`, whose
streams end, and `schedulers`, where time has a horizon.

Three timers are enough for one that fires, one that it arms and one that is
cancelled meanwhile, and for two of them to be due together; the delay -1 is the
one the schedulers clamp to 0. `SETTLE` is 2 where the code has 8: a task needs one
turn of the loop to reach its wait or to run its callback and one more for what
that arms, and with 1 `NothingOverdue` fails (that is its mutant). Two phases of
`run_until`, with a time of 2 and steps of 1 or 2, let it succeed, give up, and go on
after its time is over. A frame of `Ether` has its real header and addresses,
which contain a preamble and an SFD; only its limits are small (20 and 25 bytes
for 64 and 1522), so that runts, full frames and abandoned frames all occur.
`MCFcs` is a check sequence that no prefix of these frames ends with by accident;
a payload that does (one in 2^32) is cut there by design.

*Fairness and PATIENT.* The liveness runs assume that the wire delivers
(`WireDelivers`: a segment of each kind - with a FIN, with text, or bare - that
is in flight for ever is eventually delivered), that the scheduler runs timers
that are due (weak fairness of `TimerFires`) and that readers read. They do not
assume that users send or close. In these runs (`PATIENT`) a timer expires as
often as it likes, not within a budget, but the periods count for something:
the retransmission and persist timers (`rto_min` and `persist_min`, 1 s in
`timers.py`) outlast the wire and the readers; of two armed retransmission
timers, which back off alike, none overtakes the other by a round; and
`keepalive_idle` outlasts the other timers, as the default `keepalive_interval`
(75 s) does (`rto_max` and `persist_max` are 60 s). TIME_WAIT and delayed acknowledgments may expire at any moment. Without
the first assumption a peer that merely waits its turn is given up after
`max_retransmits`, and rightly so.

For the clocks (`FairSpec` of `Schedulers`) callbacks return, a call under way
proceeds (an asyncio loop runs what is ready, a sleep ends), time passes, and the
testbench drives its clock again after every call, as far as the horizon: the
last is strong fairness, for each call disables the next one until it returns.
In `CoSim` either body proceeds when it can (the loop is fair to its tasks, the
simulator completes each call) and `report` runs when both have ended; nothing is
assumed of what the engines emit, of losses or of conditions that `run_until`
waits for.

`AcksHonest` and `Genuine` of `TcpStream` are checked as parts of `IInv`.

**Disagreements between the code and what is said of it.**

* `reopen` (`NoDataBeforeEstablished`). `_enter_closed` cancels the persist timer by
  `_cancel_persist`, which ends in `_send_pending`; the state is not CLOSED yet
  and the buffer not yet cleared, so behind a closed window the timer is armed
  again and stays armed in CLOSED, although DOCUMENTATION.md says of ABORT that it
  "discards all state". If the user opens again before that timer fires, and
  queues data, `_on_persist` finds SND.WND = 0 and sends a byte in SYN_SENT, which
  the comment in `_send_pending` rules out.
* `spoof_order` (`RegistrationOrder`). `SpoofClock.run_for` pops the earliest waiter
  before it knows whether it is due in its span (the head it looked at may be a
  cancelled one), and puts it back under a new number: behind another waiter with
  the same deadline that was registered after it. The class promises
  (deadline, registration) order. On the other clocks `TiesInOrder` holds.
* `syncwire` (`EofIsSignalledOnce`). Over a `Wire` with its default delay, a `close`
  sends the FIN, and the peer's acknowledgment arrives before `fin_sent` is set:
  the engine, which is asked again whether anything is pending, sends another FIN with
  the next number, and so on until Python's recursion limit; each one tells the
  peer's user again that the stream has ended. The harness of the repository uses
  a delay, and so never meets it.

Met on the way, and not properties: in TIME_WAIT every segment is acknowledged
(engine.py:480, documented in ARCHITECTURE.md section 3), so two engines in
TIME_WAIT bounce an acknowledgment until a timer expires; and when a lost
segment would have filled the receiver's window, the sender's bare
acknowledgments sit at the right edge and are dropped as unacceptable, so that
what they acknowledge must wait for a retransmission. `TEST_PLAN.md`, section 2
(line 85) says of `TimeMux` that it re-arms its wait when an earlier deadline is
registered; `step` does not, and a timer armed while it waits fires when the wait
is over. The class says that time advances only while `pump` runs; it also
advances while segments are driven, and `pump` is called `step`. The monitor of
the Ethernet testbench forwards a frame with a bad FCS too, so that Python counts
an 802.3 frame with a damaged FCS as a match when its declared payload is right.

## 4. Proofs

`ArithmeticProofs` proves for every even modulus from 4 up (`ModAssumption`), so for
the 2^32 of the code:

* `OrderIsDistance`: the comparisons, `s32` and `sub` of two wrapped positions
  less than half the space apart answer as the positions do;
* `AcceptableIsWindow`: the acceptability test accepts exactly what touches the
  window.

Both rest on the lemmas `DistanceKept` and `Advance`, which say what `s32` and `add`
make of wrapped positions, and these on a few facts about remainders
(`ModDifference`, `ModSum`) where all multiplication by the modulus is confined.
The invariant `Placed` keeps the two positions within half the space.

It proves also, for all limits with `RTO_MIN <= RTO_INITIAL <= RTO_MAX`, any
granularity and any set of round trips (`RttAssumption`):

* `TimeoutIsPrudent`: the timeout stays within its limits, is not below the latest
  measurement unless the upper limit cuts it, and the estimate lies among what was
  measured.

The core is `SmoothingReaches`: what the smoothed value falls short of a new
measurement (7/8 of the difference) is made up by what the spread gains (four
times a quarter of it), so their sum reaches the measurement. `EstimateCovers`
carries that to the clamped timeout. `RtoIsPrudent` says nothing about the spread,
so the invariant `RttInv` adds that it is a number once something was measured, and
that estimate, bounds and measurements are defined together.

`EtherProofs` proves of the framer, for all frames and fillers that are sequences of
bytes (`BytesAssumption`: Python sends `bytes`), padded, tagged or damaged, every
check sequence, accidental hits included, all limits that fit the framer's 16-bit
counters, wherever the producer pauses, and from any of the states the registers may
wake in:

* `LastIsMarked` (`LastMarksTheEnd`): of a good frame's payload exactly the last byte
  is marked.

The framer lets a byte out when four more are held back, so the mark depends on
what it learns later. The invariant (`EtherInv`) ties the beats the monitor has
heard to the registers: as many as `pl_cnt`, one of them marked only if the length
field said so (`Marked`), none before the holdback is full, none beyond the length
field (`InStep`). When the FCS is in, either a byte leaves now and carries
the mark, or none has left at all, or padding is being dropped and the mark went
out with the byte the length field names. Nothing of an abandoned frame may be
left in the monitor when a reset comes: the driver resets before it sends a
byte (`ResetFirst`).

* `FramesComeOut` (`EveryFrameComesOut`): whenever the driver is done with a stream,
  Python has seen one frame for it and, unless it was damaged, the very header and
  payload it built.

The premise `CleanStreams` is about what is sent, and TLC evaluates it for the frames
of the run (`MCCleanStreams`): fillers without a preamble byte, as
`_inter_frame_filler` makes them; frames of `build_stream`'s flavours that fit the
framer; and no part of a frame, from the start to somewhere behind the header, that
checks as its end does. Without the last the theorem is false, as it is of any framer
that takes a check for the end. The invariant (`FrameInv`) adds to `EtherInv` where the
driver is in a stream (`Driving`, or `Resetting` before the first), that `p` bytes of
it have reached the framer, and what the framer has made of just those (`Tracks`): in
the filler no preamble is counted, in the preamble all of it, in the header the
fields taken so far, and in the payload the last four bytes are held back and those
before them are with the monitor, but for padding (`HoldsBack`, `HeardSoFar`). Python
has counted every frame (`Told`) or waits for one (`Awaited`), according to whether
`p` is behind the end of the frame. `ByteTracked` carries this over a byte, and
`Wire`, `StreamIs` and the lemmas on the layout of a stream say which byte that is.

`TcpStreamProofs` proves, for every set of items, every set of offers and every
`LIMIT`, from `StreamAssumption` alone:

* `Invariant`: `Spec => []IInv`;
* `TypeCorrect`, `StreamDelivered`, `CountsStayOrdered`: its corollaries.

*The argument.* `Delivered` (what the receiver took is a prefix of what was
accepted) is not inductive: the receiver copies what it sees, so everything it
can see must be an item of the stream at its own position (`Genuine`), and this
survives the acceptance of more items because appending leaves earlier positions
alone (`AppendKeeps`). `CountsOrdered` is not inductive either: an
acknowledgment may be taken long after it was sent, so none on the wire may
claim more than was taken (`AcksHonest`). There is one lemma per action, and one
step per conjunct that the action can disturb.

`CoSimProofs` proves, for any sets of conditions and images and any bounds:

* `OneCallAtATime` (`OneActivation`): two calls into the simulator never overlap;
* `WakeupsAreKept` (`NoLostWakeup`): a body that sleeps is woken for what was queued
  before it slept or while it does;
* `MonitorInStep` (`InStep`), `VerdictTells` (`VerdictIsRight`).

Mutual exclusion is not inductive by itself: the lock's queue must hold each waiter
once, a body must be at a place where it holds the lock exactly when the lock names
it, and a waiter that was handed the lock while it slept must not be queued any
more. The wake-up needs to know what each program point has already read of `event`
and `done`. `IInv` says this, point by point.

`SchedulersProofs` proves, for each of the five clocks, for every set of timers,
delays, spans and horizons:

* `OnTime` (`NothingOverdue`): when a call that drives a clock returns, what was due
  in its span has run, what the callbacks armed on the way included;
* `TiesKeepTheirOrder` (`TiesInOrder`), `NothingIsLeft` (`SpanIsServed`);
* `Implementation`: `Spec` implies `KeepsThePromise`, the specification of `Agenda`
  under the refinement mapping: every step of every clock is a step of `Agenda` or
  stutters.

The invariant (`IInv`) says what the heap holds in each phase of each clock: every
timer that waits has exactly one live entry, at its due time; entries of cancelled
timers are dead but still in order; at each point of `_settle` and of `run_for`, what
has not been looked at yet is not due. `OnTime` rests on one assumption about
`SETTLE`, `SETTLE >= 2` (the code has 8): a loop that drains in fewer rounds than
tasks may queue would return early, and the mutant with 1 shows it. Refinement is
proved step by step (`StepIs` and the lemmas under it); that no armed timer is
lost for ever (`NoTimerLost`) is liveness and stays with TLC.

`TcpEngineProofs` proves about the engines, for every modulus, every pair of
configurations and every mixture of active, passive and seeded connections, closed
and opened again as often as one likes, over a wire that loses, repeats and
reorders:

* `Types` (`TypeOK`): every number a handler computes is a number of its kind, every
  state reached is a state of the diagram, and every queue holds what it should;
* `Diagram` (`LegalTransitions`): an engine goes from a state only to those RFC 9293
  lets it go to, although one handler may pass through several; and in SYN_RECEIVED it
  knows whether it came from LISTEN, so that a reset returns only a listener there and
  closes a connection that was opened actively;
* `RoomKept` (`RoomIsKept`): the receive buffer and the kept out-of-order segments
  never exceed the buffer's size.

*The argument.* An engine is a record of some thirty fields and a handler a
composition of up to a dozen methods. `Typed` is kept opaque: for each method one
lemma says that it keeps `Sound` (types and the few relations `Consistent`: the
buffers fit, they are empty before there is a connection, what is kept lies ahead of
RCV.NXT, the FIN flags suit the state) and one, where needed, which fields it may
change (`Only`). Handlers are put together from
these, and `LegalTransitions` follows from what each says of `state` and of `passive`. For
the latter it needs one more invariant, `OpensKnown`: an engine that listens has opened
passively and one in SYN_SENT has not, whatever connections it had before
(`StepRemembers`). The closed
forms of the loops (`Chunks`, `Unacked`, `MergeReassembly`) are proved about as
sequences, by the least counterexample where an induction is needed (`Climb`,
`Smallest`). `IInv` of the pair adds that every segment on the wire is
well-formed (`WireSound`) and that the histories keep their types.

`TcpConnectionProofs` and `TcpDeliveryProofs` prove the rest of what `TcpProperties`
claims as an invariant, of two engines that were seeded into one connection
(`SeededSpec`), whatever the modulus, the windows, the options of either side, the
orders in which users call and timers expire, and the losses, repeats and delays on
the wire. The premise of each theorem is `SingleConnection`:

| Theorem | States | In words |
|---|---|---|
| `Integrity` | `StreamIntegrity` | a sink is told what the peer sent, in order, without gaps or repeats, and EOF after all of it |
| `AckedTaken` | `AckedWasTaken` | nothing counts as acknowledged that the peer has not taken |
| `FinAcked` | `FinAckedMeansAllDelivered` | a FIN is acknowledged only after everything in front of it was delivered |
| `QueueCovers` | `RetxCoversOutstanding` | the retransmission queue covers SND.UNA to SND.NXT, entry by entry |
| `WorkTimed` | `WorkIsTimed` | whatever waits has a timer that will bring it on |
| `KarnKept` | `KarnTiming` | the segment that is timed is outstanding and was sent once |
| `EdgeKept` | `RightEdgeHolds` | the window's right edge never moves back |
| `BufferKept` | `ReceiveBufferBounded` | what is received and what is kept out of order fit the buffer together |
| `StateTells` | `StateMatchesFins` | the state agrees with the FINs sent, acknowledged and received |
| `Delivers` | `Delivery` | the invariant they all follow from |
| `Refines` | `AToBIsAStream` | one direction of the connection is a `TcpStream` |

*The premise.* `SingleConnection` says that nobody opens a connection beside the
seeded one, that EOF is not the value of a byte, and that the user of either side
sends less than half the space of sequence numbers, a window included. The first
is what "a seeded connection" means; without it some of these properties are false
(see *What holds of some connections only*). The last is the code's own limit: it compares numbers by the sign of
their difference and has neither timestamps nor a maximum segment lifetime
(`seq_lt` and its like in `seqnum.py` look at 32 bits and nothing else), so on a wire
that may keep a segment as long as it likes, a longer stream can meet its own
past. A wire that loses its old segments would allow more; the model makes no
such assumption. TLC evaluates the premise on the instances of `transfer`,
`progress` and `keepalive`, where it is true.

*The argument.* Sequence numbers wrap, and an invariant about them would have to say
so everywhere. A `View` of a connection fixes the first number of each stream, and
everything else is said in positions, the distance from that number, which below half
the space compare as they should (`Placed`, `Onward`). The invariant of one engine
is `Connected`, or `Shut` when its connection is over. `Connected` says what is
outstanding, entry by entry, and that what waits follows it (`Sender`); that what
was told, kept out of order and noted as a FIN is the peer's stream at its position
(`Receiver`); that what it transmits is `Genuine`, true of its own stream and not
beyond SND.NXT, and `Honest`, acknowledging no more than was taken (`Says`); and that
state, FIN flags and timers agree (`Stage`, `Timed`, `Waits`). Few of the properties
of the table are inductive: that a sink is told the truth needs every segment on the wire to
be `Genuine`, this needs the retransmission queue to hold what was sent at its
position, and that needs acknowledgments to be `Honest`, or the queue would be
trimmed by more than was taken. `TcpConnectionProofs` has one lemma per method
of the engine, put together as the handlers are. `TcpDeliveryProofs` joins two
engines: what one does only makes the other's view grow (`Grows`), and a view
that grows leaves the other engine's invariant true (`SettledGrows`) and every
segment in flight as truthful as it was (`FaithfulGrows`). Losing a segment or
repeating one changes nothing that is said of those in flight. TLC found no state of the
three seeded instances where the invariant fails before it was proved.

*What holds of some connections only.* For a connection opened on an engine that
has been used before, several invariants of the sender are false, for the
reason the run `reopen` shows: the persist timer of the old connection sends a byte
the new one does not count. And `RightEdgeHolds` is false of connections that are
opened: `_make_segment` (engine.py:600) records `adv_right` for the SYN it builds
when RCV.NXT is still that of no connection, so `_rcv_wnd` (engine.py:772) compares
the window with an edge that means nothing until the two come near each other. The
runs `lifecycle` and `crossing` check the properties that hold in spite of that; the
run `transfer` checks the others, on a seeded connection, and those are proved, but for
one. `WindowWasGranted` says that an old segment does not move the sender's right edge
to where the peer never let it go. The edge of a crossing open is set before the peer's
number is known, so it is for seeded connections only; and only as long as the peer
has sent nothing itself, because a repeat that fills a gap carries, with an older number, a
newer acknowledgment, and by RFC 9293 (and `_update_send_window`) the window
then stays where it was while SND.UNA goes on.

*The refinement.* `Refines` proves what the run `transfer` checks on its instance:
under `SingleConnection`, every behaviour of `TcpPair` from a seeded connection is,
through the mapping of `TcpRefinement`, a behaviour of `TcpStream`. What is proved
of the abstract stream thus holds of the engines; and it says more of a step than
the invariants do, namely where each thing an engine acts on comes from. A sender
that goes forward to an acknowledgment must find it on the wire, a receiver that
takes an item must find it there or among those it kept, and what an engine
transmits is outstanding at the end of the entry, although a handler trims its
queue, delivers, merges and retransmits in one go. `Delivery` does not know of
provenance, so a view carries two sets more, `acks` and `sight`: the
acknowledgments and the places of items that can be known of. Every lemma about a
method is proved for any two sets: it keeps SND.UNA within `acks`, and what it newly
tells its sink or keeps out of order within `sight`, provided what arrives is
(`Shown`). For `Delivery` both are all numbers, and nothing is ruled out; for the
refinement they are what is in flight to that engine when it is entered, and what it
kept (`Fresh`, `InReach`; `KnowsFine` says that the engine before the entry and every
segment in flight respect them). An acknowledgment older than all that could be acted
on is in flight too, and must have no effect: `Timely` allows it,
because only one beyond SND.UNA is acted on (`ProcessAckTalks`). `SenderSteps` and `ReceiverSteps` put
together what an entry reads and leaves (`EntryReads`), `WireSteps` does the same for
losses and repeats.

*Model-checked only.* The invariants of `TcpProperties` beyond types and room for
connections that are opened rather than seeded (`lifecycle`, `crossing`), and
`WindowWasGranted`; `SyncWire`; `OptionsMean` and `BuildThenParse`, which need what `parse_options`
computes for every input, an induction over data; liveness (`NoTimerLost`,
`EveryTestReports`, the progress properties of `TcpProperties`), which is out of the
prover's reach, as is `ENABLED`.

## 5. Not modelled, and why

* In the engine: PSH and URG and their indications, MSS negotiation, seeds other
  than ESTABLISHED, the `on_data` callback (a push reader, in place of which there
  is the buffer a reader pulls from), timer periods in numbers, port matching
  against a third party, the status reports. None of them changes which states
  the checked properties speak of. `SyncWire` has no data and no retransmission.
* In the codec: the printed form. The checksum is a field the code neither
  computes nor checks.
* In the estimator: rounding. The code works in floating point, the model in
  integers of any unit, dividing downwards.
* In the clocks: the wall clock and the simulator are a counter that moves by
  itself; the C++ of the simulator and the internals of asyncio and simpy are
  external, modelled by what the code relies on.
* In the co-simulation: payloads, the byte-by-byte handshake of `tcp_if`, the
  build phases of UVM, the smoke test and the probes, which compare field by field and
  have no interleaving. `raw_mirror.py` and `uvm_mirror.py` copy fields between an
  object and its Python image by declared widths, once per type.
* The counter is one register, loaded or incremented, and its scoreboard predicts
  each value from the one before: a property would repeat the two assignments.
* Logging, the generator of interface code, build scripts and the regression
  tests are input and output.

## 6. Plan

Modelled and checked: all of the components above but those of section 5. Proved:
sequence arithmetic, the abstract stream, the estimator, the framer and its tests, the
clocks and their refinement, the co-simulation, and of the engines types,
transitions and room for every connection, and for a seeded one every invariant but
`WindowWasGranted` and that it implements the abstract stream. What is left:

1. Connections that are opened by a handshake, where a repeated SYN and the
   segments of an earlier connection must be told from those of this one.
