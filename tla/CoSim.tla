--------------------------------- MODULE CoSim ---------------------------------
(***************************************************************************)
(* The TCP testbench (tcp/test_runner.py and the SystemVerilog around it): *)
(* two Python sequence bodies on one asyncio loop share one way into the   *)
(* simulator.  Side A drives its segments and moves time on, side B wakes  *)
(* up when its engine emits, and a segment reaches the far engine while    *)
(* its sender is still inside the simulator.                               *)
(*                                                                         *)
(* What an engine emits is left open, up to a bound: the engines are       *)
(* modelled in TcpEngine, the timers TimeMux serves in Schedulers.  Three  *)
(* kinds of test are told apart: "engines" (T1 to T5), "transport" (P2)    *)
(* and "raw" (T6 and T7, over the proxy of pyhdl_raw.sv).                  *)
(***************************************************************************)
EXTENDS Integers, Sequences, SequencesExt

CONSTANTS
    TESTS,          \* the kinds of test to run
    EMITS,          \* bound on the segments an engine emits
    IMAGES,         \* the number of images a transport or raw test sends
    PHASES,         \* the calls of run_until, each after an application call
    TIMEOUT,        \* the time run_until is given
    QUANTUM,        \* the longest wait of one step
    RAISES, DROPS   \* bounds on exceptions in a body, and on segments dropped

ASSUME CoSimAssumption ==
    /\ TESTS \subseteq {"engines", "transport", "raw"}
    /\ {EMITS, IMAGES, PHASES, TIMEOUT, QUANTUM, RAISES, DROPS} \subseteq Nat

VARIABLES
    test,       \* which test runs
    pc,         \* where each body stands
    back,       \* where each body goes once its segment is driven
    txq,        \* the segments each engine has queued
    event,      \* tx_event of side B
    done,       \* _State.done
    lock,       \* _sv_lock: its owner, and those who wait for it in turn
    image,      \* the segment each body has taken from its queue
    proxy,      \* what start_item has readied to be driven, per side
    sent, rcvd, \* segments recorded by the sender, seen by the far monitor
    emitted,    \* segments each engine has emitted so far
    left,       \* the time run_until has left
    phase,      \* the calls of run_until so far
    errors,     \* _State.errors
    raised, dropped,
    verdict     \* what report() returned

engines == <<txq, event, emitted>>
items == <<image, proxy, sent, rcvd>>
clock == <<left, phase>>
outcome == <<done, errors, raised, dropped, verdict>>
simVars == <<engines, items, clock, outcome, lock>>

vars == <<test, pc, back, simVars>>

Sides == {"A", "B"}

Peer(s) == IF s = "A" THEN "B" ELSE "A"

None == [n |-> 0, ok |-> FALSE]

Engines == test = "engines"

\* What a test sends: well-formed segments, or images of either kind.
Programs(t) ==
    {q \in [1 .. IMAGES -> [n : 1 .. IMAGES, ok : BOOLEAN]] :
        \A i \in 1 .. IMAGES : q[i].n = i /\ (t = "raw" \/ q[i].ok)}

Init ==
    /\ test \in TESTS
    /\ \E a, b \in Programs(test) :
          txq = [s \in Sides |-> IF Engines \/ (test = "raw" /\ s = "B") THEN <<>>
                                 ELSE IF s = "A" THEN a ELSE b]
    /\ pc = [s \in Sides |-> IF Engines THEN "start"
                             ELSE IF test = "raw" /\ s = "B" THEN "ended" ELSE "last"]
    /\ back = [s \in Sides |-> "last"]
    /\ event = FALSE /\ done = FALSE /\ lock = <<>>
    /\ image = [s \in Sides |-> None] /\ proxy = [s \in Sides |-> None]
    /\ sent = [s \in Sides |-> <<>>] /\ rcvd = [s \in Sides |-> <<>>]
    /\ emitted = [s \in Sides |-> 0]
    /\ left = 0 /\ phase = 0 /\ errors = 0 /\ raised = 0 /\ dropped = 0
    /\ verdict = "none"

\* An operator named Mut_... is the one that follows it with a plausible bug.

Mut_Rings(s) == FALSE

\* An emission of B wakes its body; nobody waits for A's event.
Rings(s) == s = "B"

\* The engines of these sides emit as many segments as they like (the tx of
\* _tx_of, once for every segment a handler sends).
Emit(sides) ==
    \E more \in [Sides -> 0 .. EMITS] :
        /\ \A s \in Sides : more[s] > 0 => Engines /\ s \in sides /\ emitted[s] + more[s] <= EMITS
        /\ txq' = [s \in Sides |->
                      txq[s] \o [i \in 1 .. more[s] |-> [n |-> emitted[s] + i, ok |-> TRUE]]]
        /\ emitted' = [s \in Sides |-> emitted[s] + more[s]]
        /\ event' = (event \/ \E s \in Sides : more[s] > 0 /\ Rings(s))

Goto(s, where) == pc' = [pc EXCEPT ![s] = where]

Holds(s) == lock # <<>> /\ lock[1] = s

Ask(s) == lock' = Append(lock, s)

Release == lock' = Tail(lock)

LeftAfter(d) == IF left > d THEN left - d ELSE 0

-------------------------------------------------------------------------------
(* drain and send_segment, on either side.                                   *)

\* The body takes a segment and asks for the simulator.
Takes(s) ==
    /\ pc[s] \in {"drain", "last"} /\ txq[s] # <<>>
    /\ image' = [image EXCEPT ![s] = Head(txq[s])]
    /\ txq' = [txq EXCEPT ![s] = Tail(@)]
    /\ back' = [back EXCEPT ![s] = pc[s]]
    /\ Ask(s) /\ Goto(s, "lock")
    /\ UNCHANGED <<test, clock, outcome, event, proxy, sent, rcvd, emitted>>

\* LossSeqA puts nothing on the wire for some of A's segments.
Drops ==
    /\ Engines /\ dropped < DROPS
    /\ pc["A"] \in {"drain", "last"} /\ txq["A"] # <<>>
    /\ txq' = [txq EXCEPT !["A"] = Tail(@)]
    /\ dropped' = dropped + 1
    /\ UNCHANGED <<test, pc, back, items, clock, event, done, lock, emitted, errors, raised, verdict>>

Mut_Decodes(img) == TRUE

\* from_bytes accepts the image.
Decodes(img) == img.ok

\* Up to the grant of start_item.  The raw proxy keeps what it decoded, or
\* nothing; the test does not record an image it knows to be malformed.
Starts(s) ==
    /\ pc[s] = "lock" /\ Holds(s)
    /\ sent' = [sent EXCEPT ![s] = IF image[s].ok THEN Append(@, image[s]) ELSE @]
    /\ proxy' = [proxy EXCEPT ![s] = IF Decodes(image[s]) THEN image[s] ELSE None]
    /\ Goto(s, "item")
    /\ UNCHANGED <<test, back, engines, clock, outcome, lock, image, rcvd>>

\* An exception while the item is readied (bind, pack, unpack) or driven
\* (start_item, finish_item): the lock is given back, the body ends, and A's
\* frees B.  A raw test has recorded the image by the time it is readied.
Raises(s) ==
    /\ pc[s] \in {"lock", "item", "gap"} /\ Holds(s) /\ raised < RAISES
    /\ raised' = raised + 1 /\ errors' = errors + 1
    /\ sent' = [sent EXCEPT ![s] = IF pc[s] = "lock" /\ test = "raw" /\ image[s].ok
                                   THEN Append(@, image[s]) ELSE @]
    /\ Release
    /\ Goto(s, IF Engines /\ s = "A" THEN "finally" ELSE "ended")
    /\ UNCHANGED <<test, back, engines, image, proxy, rcvd, clock, done, dropped, verdict>>

\* finish_item: the bytes cross the wire, and the far monitor hands the segment
\* to its engine at the last of them (rx_segment).
Drives(s) ==
    /\ pc[s] = "item" /\ proxy[s] # None
    /\ rcvd' = [rcvd EXCEPT ![Peer(s)] = Append(@, proxy[s])]
    /\ Emit({Peer(s)})
    /\ left' = LeftAfter(1)
    /\ Goto(s, "gap")
    /\ UNCHANGED <<test, back, outcome, lock, image, proxy, sent, phase>>

Mut_AfterItem(s) == IF s = "B" THEN "top" ELSE back[s]

AfterItem(s) == back[s]

\* item_done; when the decoding failed, finish_item drives nothing.
Finishes(s) ==
    /\ pc[s] = "gap" \/ (pc[s] = "item" /\ proxy[s] = None)
    /\ proxy' = [proxy EXCEPT ![s] = None]
    /\ image' = [image EXCEPT ![s] = None]
    /\ Release
    /\ Goto(s, AfterItem(s))
    /\ UNCHANGED <<test, back, engines, clock, outcome, sent, rcvd>>

\* A body that only drives what it was given has driven it.
ProgramEnds(s) ==
    /\ ~Engines
    /\ pc[s] = "last" /\ txq[s] = <<>>
    /\ Goto(s, "ended")
    /\ UNCHANGED <<test, back, simVars>>

-------------------------------------------------------------------------------
(* Side A: HandshakeSeqA, _DataSeqA and the tests made from it.              *)

\* build_engines, and the two opens.
AStarts ==
    /\ Engines /\ pc["A"] = "start"
    /\ Emit({"A"})
    /\ left' = TIMEOUT /\ phase' = 1
    /\ Goto("A", "head")
    /\ UNCHANGED <<test, back, items, outcome, lock>>

\* The head of run_until's loop, and the drain after it.
AHead ==
    /\ pc["A"] = "head"
    /\ Goto("A", IF left > 0 THEN "drain" ELSE "last")
    /\ UNCHANGED <<test, back, simVars>>

\* cond() holds: the application calls of the next phase, or the end.
ASucceeds ==
    /\ Engines /\ pc["A"] \in {"drain", "last"} /\ txq["A"] = <<>>
    /\ IF phase < PHASES
       THEN Emit(Sides) /\ left' = TIMEOUT /\ phase' = phase + 1 /\ Goto("A", "head")
       ELSE Goto("A", "finally") /\ UNCHANGED <<engines, clock>>
    /\ UNCHANGED <<test, back, items, outcome, lock>>

\* It does not, and the time is over.
AGivesUp ==
    /\ Engines /\ pc["A"] = "last" /\ txq["A"] = <<>>
    /\ errors' = errors + 1
    /\ Goto("A", "finally")
    /\ UNCHANGED <<test, back, engines, items, clock, done, lock, raised, dropped, verdict>>

\* HandshakeSeqA's own loop looks at the outcome without that last drain.
ALeaves ==
    /\ pc["A"] = "head" /\ left = 0 /\ phase = PHASES
    /\ errors' \in {errors, errors + 1}
    /\ Goto("A", "finally")
    /\ UNCHANGED <<test, back, engines, items, clock, done, lock, raised, dropped, verdict>>

\* It does not: TimeMux.step runs what is due and asks for the simulator.
ASteps ==
    /\ Engines /\ pc["A"] = "drain" /\ txq["A"] = <<>>
    /\ Emit(Sides)
    /\ Ask("A") /\ Goto("A", "turn")
    /\ UNCHANGED <<test, back, items, clock, outcome>>

Mut_AWaits ==
    /\ pc["A"] = "turn"
    /\ Goto("A", "wait")
    /\ UNCHANGED <<test, back, simVars>>

AWaits ==
    /\ pc["A"] = "turn" /\ Holds("A")
    /\ Goto("A", "wait")
    /\ UNCHANGED <<test, back, simVars>>

\* wait_ns returns.
AWakes ==
    /\ pc["A"] = "wait"
    /\ \E d \in 1 .. QUANTUM : left' = LeftAfter(d)
    /\ Release
    /\ Goto("A", "woke")
    /\ UNCHANGED <<test, back, engines, items, outcome, phase>>

\* The timers that came due run, on either engine.
AFires ==
    /\ pc["A"] = "woke"
    /\ Emit(Sides)
    /\ Goto("A", "head")
    /\ UNCHANGED <<test, back, items, clock, outcome, lock>>

Mut_AFinally ==
    /\ pc["A"] = "finally"
    /\ done' = TRUE
    /\ Goto("A", "ended")
    /\ UNCHANGED <<test, back, engines, items, clock, lock, errors, raised, dropped, verdict>>

\* However A's body ends, it tells B and wakes it.
AFinally ==
    /\ pc["A"] = "finally"
    /\ done' = TRUE /\ event' = TRUE
    /\ Goto("A", "ended")
    /\ UNCHANGED <<test, back, items, clock, txq, lock, emitted, errors, raised, dropped, verdict>>

-------------------------------------------------------------------------------
(* Side B: EngineSeqB, forked after A, whose first step made the queues.     *)

BStarts ==
    /\ Engines /\ pc["B"] = "start" /\ pc["A"] # "start"
    /\ Goto("B", "top")
    /\ UNCHANGED <<test, back, simVars>>

Mut_BTop ==
    /\ pc["B"] = "top"
    /\ Goto("B", IF done THEN "ended" ELSE "parked")
    /\ UNCHANGED <<test, back, simVars>>

\* while not done; the drain after the loop.
BTop ==
    /\ pc["B"] = "top"
    /\ Goto("B", IF done THEN "last" ELSE "parked")
    /\ UNCHANGED <<test, back, simVars>>

BWakes ==
    /\ pc["B"] = "parked" /\ event
    /\ event' = FALSE
    /\ Goto("B", "drain")
    /\ UNCHANGED <<test, back, items, clock, outcome, txq, lock, emitted>>

BDrained ==
    /\ Engines /\ pc["B"] \in {"drain", "last"} /\ txq["B"] = <<>>
    /\ Goto("B", IF pc["B"] = "drain" THEN "top" ELSE "ended")
    /\ UNCHANGED <<test, back, simVars>>

-------------------------------------------------------------------------------
(* The SystemVerilog test, once both sequences have returned.                *)

Report ==
    /\ verdict = "none" /\ \A s \in Sides : pc[s] = "ended"
    /\ verdict' = IF errors = 0 /\ \A s \in Sides : sent[s] = rcvd[Peer(s)]
                  THEN "pass" ELSE "fail"
    /\ UNCHANGED <<test, pc, back, engines, items, clock, done, lock, errors, raised, dropped>>

\* The test is over.
Over == verdict # "none" /\ UNCHANGED vars

SideA ==
    \/ Takes("A") \/ Drops \/ Starts("A") \/ Raises("A") \/ Drives("A") \/ Finishes("A")
    \/ ProgramEnds("A") \/ AStarts \/ AHead \/ ASucceeds \/ AGivesUp \/ ALeaves
    \/ ASteps \/ AWaits \/ AWakes \/ AFires \/ AFinally

SideB ==
    \/ Takes("B") \/ Starts("B") \/ Raises("B") \/ Drives("B") \/ Finishes("B")
    \/ ProgramEnds("B") \/ BStarts \/ BTop \/ BWakes \/ BDrained

Next == SideA \/ SideB \/ Report \/ Over

\* The loop runs whichever body can go on, and the simulator completes calls.
Spec == Init /\ [][Next]_vars /\ WF_vars(SideA) /\ WF_vars(SideB) /\ WF_vars(Report)

-------------------------------------------------------------------------------
(* Properties                                                                *)

InSimulator(s) == pc[s] \in {"item", "gap", "wait"}

\* At most one blocking call into the simulator is under way, and whoever made
\* it owns the lock (sv_lock, send_segment and TimeMux.step).
OneActivation ==
    /\ ~(InSimulator("A") /\ InSimulator("B"))
    /\ \A s \in Sides : InSimulator(s) => Holds(s)

\* B never sleeps on segments it should drive, nor past the end of the test:
\* parked with its event clear, it has nothing queued and is not done
\* (EngineSeqB against _tx_of and A's finally).
NoLostWakeup == pc["B"] = "parked" /\ ~event => txq["B"] = <<>> /\ ~done

\* The verdict is the truth: it passes if and only if nothing went wrong, and
\* then all B's engine emitted was driven, all that was driven arrived, in
\* order, and nothing malformed did (report, RawCorruptSeq, LossSeqA).
VerdictIsRight ==
    verdict # "none" =>
        /\ verdict = "pass" <=> errors = 0
        /\ verdict = "pass" =>
              /\ Engines => /\ txq["B"] = <<>> /\ Len(rcvd["A"]) = emitted["B"]
                            /\ Len(rcvd["B"]) + Len(txq["A"]) + dropped = emitted["A"]
              /\ \A s \in Sides : \A i \in DOMAIN rcvd[s] : rcvd[s][i].ok
              /\ test = "transport" => \A s \in Sides : Len(rcvd[s]) = IMAGES

\* The monitor sees what was recorded as sent, in order; one item at most is
\* ahead, the one being driven (send_segment, tcp_driver, tcp_monitor) or the
\* one whose sending raised (send_segment, send_raw_segment).
InStep ==
    \A s \in Sides :
        /\ IsPrefix(rcvd[Peer(s)], sent[s])
        /\ Len(sent[s]) - Len(rcvd[Peer(s)]) \in
              IF pc[s] = "item" /\ proxy[s] # None THEN {1}
              ELSE IF raised > 0 /\ pc[s] \in {"finally", "ended"} THEN {0, 1} ELSE {0}

\* Whatever happens, both bodies end and the test reports: neither waits for
\* the other for ever (the lock, the event, done and the deadlines of run_until).
EveryTestReports == <>(verdict # "none")
===============================================================================
