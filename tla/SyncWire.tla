-------------------------------- MODULE SyncWire --------------------------------
(***************************************************************************)
(* Two established engines on a Wire without a delay, its default          *)
(* (net_port.py, Wire._enqueue): tx calls the peer's on_segment before it  *)
(* returns.  TcpPair delivers between two entries into an engine; here the *)
(* peer answers in the middle of one.                                      *)
(*                                                                         *)
(* The users send no data and close.  A method of the engine is cut where  *)
(* it calls tx; what is left of it waits on the call stack.                *)
(***************************************************************************)
EXTENDS TcpEngine

CONSTANTS
    ISS,          \* ISS[s]: the initial sequence number of side s
    STACK_LIMIT   \* calls that may be open at a time

Sides == {"A", "B"}

Peer(s) == IF s = "A" THEN "B" ELSE "A"

VARIABLES
    eng,      \* eng[s]: the engine of side s
    calls     \* the call stack, innermost first: [side, at, seg]

vars == <<eng, calls>>

NoSegment == [seq |-> 0, ack |-> 0, flags |-> {}, window |-> 0, payload |-> <<>>]

Call(s, at, seg) == <<[side |-> s, at |-> at, seg |-> seg]>>

Init ==
    /\ eng = [s \in Sides |-> SeedEstablished(NewEngine(TRUE), add(ISS[s], 1),
                                              add(ISS[Peer(s)], 1))]
    /\ calls = <<>>

\* Side s becomes e and hands to the peer what e transmits; then the calls
\* that are open go on.
Continues(s, e, open) ==
    /\ Len(open) < STACK_LIMIT
    /\ eng' = [eng EXCEPT ![s] = [e EXCEPT !.out = <<>>]]
    /\ calls' = IF e.out = <<>> THEN open
                ELSE Call(Peer(s), "on_segment", e.out[1]) \o open

\* _send_pending with nothing but a FIN to send: the FIN is numbered, queued
\* and handed to tx before fin_sent and the state say so.
SendsPending(s, e, open) ==
    IF MaySend(e) /\ FinDue(e) /\ ~Blocked(e) /\ UsableWindow(e) >= 1
    THEN Continues(s, [QueueAndSend(e, {"ACK", "FIN"}, <<>>) EXCEPT
                          !.fin_seq = e.snd_nxt, !.rt_timer = e.rt_timer],
                   Call(s, "fin_sent", NoSegment) \o open)
    ELSE Continues(s, e, open)

UserClose(s) ==
    /\ calls = <<>> /\ MayClose(eng[s])
    /\ SendsPending(s, [eng[s] EXCEPT !.fin_pending = TRUE], <<>>)

\* The innermost call is one of side s at this point; open are those around it.
At(s, at) == calls # <<>> /\ Head(calls).side = s /\ Head(calls).at = at

Open == Tail(calls)

FinSent(s) ==
    /\ At(s, "fin_sent")
    /\ Continues(s, SetState([eng[s] EXCEPT !.rt_timer = @ \/ eng[s].retx # <<>>, !.fin_sent = TRUE],
                             AfterOurFin(eng[s].state)), Open)

\* The checks of a segment up to its acknowledgment answer it and return.
Refused(e, seg) ==
    \/ e.state \in {"CLOSED", "TIME_WAIT"}
    \/ ~acceptable(seg.seq, SegLen(seg), e.rcv_nxt, RcvWnd(e))
    \/ seq_gt(seg.ack, e.snd_nxt)

Acknowledged(e, seg) ==
    UpdateWindow(IF NewAck(e, seg.ack) THEN ProcessAck(e, seg.ack) ELSE e, seg)

SegmentRefused(s) ==
    LET seg == Head(calls).seg IN
    /\ At(s, "on_segment") /\ Refused(eng[s], seg)
    /\ Continues(s, OnSegment(eng[s], seg, 0), Open)

\* The acknowledgment of our FIN ends the segment's processing.
LastAck(s) ==
    LET seg == Head(calls).seg
        e == Acknowledged(eng[s], seg)
    IN  /\ At(s, "on_segment") /\ ~Refused(eng[s], seg)
        /\ e.fin_acked /\ e.state \in {"CLOSING", "LAST_ACK"}
        /\ Continues(s, IF e.state = "CLOSING" THEN EnterTimeWait(e) ELSE EnterClosed(e), Open)

SegmentAcks(s) ==
    LET seg == Head(calls).seg
        e == Acknowledged(eng[s], seg)
    IN  /\ At(s, "on_segment") /\ ~Refused(eng[s], seg)
        /\ ~(e.fin_acked /\ e.state \in {"CLOSING", "LAST_ACK"})
        /\ SendsPending(s, IF e.state = "FIN_WAIT_1" /\ e.fin_acked
                           THEN SetState(e, "FIN_WAIT_2") ELSE e,
                        Call(s, "fin_check", seg) \o Open)

\* A FIN in sequence is taken, signalled and acknowledged before the state
\* says so.
FinCheck(s) ==
    LET seg == Head(calls).seg
        e == IF "FIN" \in seg.flags THEN NoteFin(eng[s], seg.seq) ELSE eng[s]
    IN  /\ At(s, "fin_check")
        /\ IF e.pending_fin # None /\ e.rcv_nxt = e.pending_fin
           THEN Continues(s, SendAck([e EXCEPT !.pending_fin = None, !.rcv_nxt = add(@, 1),
                                               !.stream = Append(@, EOF)]),
                          Call(s, "fin_taken", NoSegment) \o Open)
           ELSE Continues(s, e, Open)

FinTaken(s) ==
    At(s, "fin_taken") /\ Continues(s, EnterAfterFin(eng[s]), Open)

Next ==
    \E s \in Sides :
        \/ UserClose(s) \/ FinSent(s) \/ FinCheck(s) \/ FinTaken(s)
        \/ SegmentRefused(s) \/ LastAck(s) \/ SegmentAcks(s)

Spec == Init /\ [][Next]_vars

\* The end of the stream is signalled once ("when the peer's FIN is consumed,
\* on_data(b"") is delivered once", DOCUMENTATION.md section 3).
EofIsSignalledOnce ==
    \A s \in Sides : Cardinality({k \in DOMAIN eng[s].stream : eng[s].stream[k] = EOF}) <= 1
=================================================================================
