------------------------------- MODULE TcpEngine -------------------------------
(***************************************************************************)
(* The TCP engine (tcp_model/core/engine.py) as operators on an engine     *)
(* record.  A user call, an arriving segment and an expiring timer each    *)
(* run to completion, as in the code, whose entry points are atomic: the   *)
(* operator for a handler takes the engine before it and returns the       *)
(* engine after it, with the segments it transmitted, in order, in the     *)
(* field "out".  Helpers compose in the order the code calls them.         *)
(*                                                                         *)
(* Abstracted: a payload is a sequence of bytes and a byte is any value; a *)
(* timer is a flag (armed or not), its period is not modelled; PSH, URG    *)
(* and the negotiation of the MSS are left out (both ends use MSS).        *)
(* Field and operator names follow the code's.  Readers pull: there is no  *)
(* on_data callback and _deliver fills recv_buf.  "stream" is a history of *)
(* what _deliver passed on, byte by byte, and EOF for _signal_close.       *)
(*                                                                         *)
(* An operator named Mut_... is no part of the engine: it is the operator  *)
(* that follows it with a plausible bug, which a property must catch.      *)
(***************************************************************************)
EXTENDS SeqNum, Sequences, FiniteSets, SequencesExt

CONSTANTS
    MSS,               \* snd_mss: the most bytes one segment carries
    RCV_WND,           \* rcv_wnd_max: size of the receive buffer
    NAGLE,             \* TimerConfig.nagle
    DELAYED_ACK,       \* TimerConfig.delayed_ack is not None
    SWS_AVOIDANCE,     \* TimerConfig.sws_avoidance
    KEEPALIVE,         \* TimerConfig.keepalive_idle is not None
    KEEPALIVE_COUNT,   \* TimerConfig.keepalive_count
    MAX_RETRANSMITS,   \* TimerConfig.max_retransmits
    EOF                \* what a sink is told on the peer's FIN

ASSUME EngineAssumption ==
    /\ MSS \in Nat \ {0}
    /\ RCV_WND \in Nat /\ RCV_WND < HALF
    /\ {NAGLE, DELAYED_ACK, SWS_AVOIDANCE, KEEPALIVE} \subseteq BOOLEAN
    /\ KEEPALIVE_COUNT \in Nat
    /\ MAX_RETRANSMITS \in Nat

States == {"CLOSED", "LISTEN", "SYN_SENT", "SYN_RECEIVED", "ESTABLISHED",
           "FIN_WAIT_1", "FIN_WAIT_2", "CLOSE_WAIT", "CLOSING", "LAST_ACK",
           "TIME_WAIT"}

Flags == {"SYN", "ACK", "FIN", "RST"}

None == -1    \* Python's None for a field that otherwise holds a sequence number

Least(a, b) == IF a <= b THEN a ELSE b

Count(b) == IF b THEN 1 ELSE 0

Mut_SegLen(x) == Len(x.payload) + Count("SYN" \in x.flags)

\* Sequence numbers a segment, or an entry of the retransmission queue, takes.
SegLen(x) == Len(x.payload) + Count("SYN" \in x.flags) + Count("FIN" \in x.flags)

End(o) == add(o.seq, SegLen(o))

-------------------------------------------------------------------------------
(* An engine as its constructor leaves it.                                 *)

NewEngine(port_known) ==
    [state |-> "CLOSED", iss |-> 0, snd_una |-> 0, snd_nxt |-> 0, snd_wnd |-> 0,
     snd_wl1 |-> 0, snd_wl2 |-> 0, rcv_nxt |-> 0,
     app_buf |-> <<>>, recv_buf |-> <<>>, retx |-> <<>>, ooo |-> {},
     passive |-> FALSE, remote |-> port_known, cfg_remote |-> port_known,
     fin_pending |-> FALSE, fin_sent |-> FALSE, fin_acked |-> FALSE,
     fin_seq |-> 0, pending_fin |-> None,
     rtt_pending |-> None, zero_win_advertised |-> FALSE, adv_right |-> None,
     ack_count |-> 0, rto_count |-> 0, ka_probes |-> 0,
     rt_timer |-> FALSE, persist_timer |-> FALSE, tw_timer |-> FALSE,
     ack_timer |-> FALSE, ka_timer |-> FALSE,
     out |-> <<>>, stream |-> <<>>]

\* Seeded in the middle of a connection (seed_established, TcpEngine.seed).
SeedEstablished(e, snd_nxt, rcv_nxt) ==
    [e EXCEPT !.state = "ESTABLISHED", !.iss = sub(snd_nxt, 1),
              !.snd_una = snd_nxt, !.snd_nxt = snd_nxt, !.snd_wnd = RCV_WND,
              !.rcv_nxt = rcv_nxt, !.snd_wl1 = rcv_nxt, !.snd_wl2 = snd_nxt,
              !.adv_right = None, !.ka_timer = KEEPALIVE, !.ka_probes = 0]

-------------------------------------------------------------------------------
(* Sending: segments, the advertised window, acknowledgments.              *)

Mut_FreeSpace(e) ==
    LET used == Len(e.recv_buf) + Cardinality(e.ooo)
    IN  IF used >= RCV_WND THEN 0 ELSE RCV_WND - used

Mut_FreeSpaceUnread(e) == RCV_WND

FreeSpace(e) == IF Len(e.recv_buf) >= RCV_WND THEN 0 ELSE RCV_WND - Len(e.recv_buf)

\* The window to advertise; with SWS avoidance the right edge only advances
\* by a useful amount.
RcvWnd(e) ==
    LET raw == FreeSpace(e)
        cur_right == add(e.rcv_nxt, raw)
        half == IF RCV_WND \div 2 = 0 THEN 1 ELSE RCV_WND \div 2
        held == s32(sub(e.adv_right, e.rcv_nxt))
    IN  IF /\ SWS_AVOIDANCE
           /\ e.adv_right # None
           /\ seq_gt(cur_right, e.adv_right)
           /\ sub(cur_right, e.adv_right) < Least(MSS, half)
        THEN IF held < 0 THEN 0 ELSE held
        ELSE raw

Segment(e, seq, flags, payload) ==
    [seq |-> seq, ack |-> IF "ACK" \in flags THEN e.rcv_nxt ELSE 0,
     flags |-> flags, window |-> RcvWnd(e), payload |-> payload]

Transmit(e, seg) == [e EXCEPT !.out = Append(@, seg)]

\* Building a segment notes the window it advertises.
Advertised(e, wnd, right) ==
    [e EXCEPT !.zero_win_advertised = @ \/ wnd = 0,
              !.adv_right = IF @ = None \/ seq_gt(right, @) THEN right ELSE @]

\* _transmit(_make_segment(...)).
Emit(e, seq, flags, payload) ==
    Transmit(Advertised(e, RcvWnd(e), add(e.rcv_nxt, RcvWnd(e))),
             Segment(e, seq, flags, payload))

SendAck(e) ==
    [Emit(e, e.snd_nxt, {"ACK"}, <<>>) EXCEPT !.ack_count = 0, !.ack_timer = FALSE]

ScheduleAck(e, force) ==
    IF ~DELAYED_ACK \/ force \/ e.ack_count >= 1
    THEN SendAck(e)
    ELSE [e EXCEPT !.ack_count = @ + 1, !.ack_timer = TRUE]

\* A RST in answer to a segment, outside the connection: window 0, no state.
EmitRstReply(e, seq, ack, flags) ==
    Transmit(e, [seq |-> seq, ack |-> ack, flags |-> flags, window |-> 0, payload |-> <<>>])

QueueAndSend(e, flags, payload) ==
    LET o == [seq |-> e.snd_nxt, flags |-> flags, payload |-> payload,
              retransmitted |-> FALSE]
    IN  [Emit(e, e.snd_nxt, flags, payload) EXCEPT
            !.retx = Append(@, o),
            !.snd_nxt = End(o),
            !.rtt_pending = IF @ = None THEN End(o) ELSE @,
            !.rt_timer = TRUE]

-------------------------------------------------------------------------------
(* State changes and timers.                                               *)

Mut_RestartKeepalive(e) == e

RestartKeepalive(e) ==
    IF KEEPALIVE THEN [e EXCEPT !.ka_timer = (e.state = "ESTABLISHED")] ELSE e

Mut_ResetKeepalive(e) == RestartKeepalive(e)

ResetKeepalive(e) ==
    IF KEEPALIVE THEN RestartKeepalive([e EXCEPT !.ka_probes = 0]) ELSE e

CancelKeepalive(e) == [e EXCEPT !.ka_timer = FALSE, !.ka_probes = 0]

SetState(e, new) ==
    LET moved == [e EXCEPT !.state = new] IN
    IF e.state = new THEN e
    ELSE IF new = "ESTABLISHED" THEN ResetKeepalive(moved)
    ELSE IF e.state = "ESTABLISHED" THEN CancelKeepalive(moved)
    ELSE moved

StopRt(e) == [e EXCEPT !.rt_timer = FALSE, !.rto_count = 0]

ArmPersist(e) == [e EXCEPT !.persist_timer = TRUE]

-------------------------------------------------------------------------------
(* The send path.                                                          *)

UsableWindow(e) == s32(sub(add(e.snd_una, e.snd_wnd), e.snd_nxt))

Mut_TailMayGo(e, full) == ~NAGLE

\* Nagle's rule: less than a full segment waits while data is outstanding.
TailMayGo(e, full) == ~NAGLE \/ (full = 0 /\ e.retx = <<>>)

\* The chunks the segmentation loop cuts off app_buf: full ones, then what
\* the window or the buffer leaves.
Chunks(e) ==
    LET usable == UsableWindow(e)
        total  == IF usable <= 0 THEN 0 ELSE Least(usable, Len(e.app_buf))
        full   == total \div MSS
        rest   == total % MSS
        tail   == rest > 0 /\ TailMayGo(e, full)
    IN  [i \in 1 .. full + Count(tail) |->
            SubSeq(e.app_buf, (i - 1) * MSS + 1, Least(i * MSS, total))]

SendChunk(e, chunk) ==
    QueueAndSend([e EXCEPT !.app_buf = SubSeq(@, Len(chunk) + 1, Len(@))], {"ACK"}, chunk)

SendData(e) ==
    LET chunks == Chunks(e)
        after[k \in 0 .. Len(chunks)] ==
            IF k = 0 THEN e ELSE SendChunk(after[k - 1], chunks[k])
    IN  IF e.snd_wnd = 0 THEN e ELSE after[Len(chunks)]

Mut_StatesBeforeFin == {"ESTABLISHED"}

StatesBeforeFin == {"ESTABLISHED", "SYN_RECEIVED"}

\* The state our FIN leads to.
AfterOurFin(state) ==
    CASE state \in StatesBeforeFin -> "FIN_WAIT_1"
      [] state = "CLOSE_WAIT"       -> "LAST_ACK"
      [] OTHER                      -> state

EmitFin(e) ==
    SetState([QueueAndSend(e, {"ACK", "FIN"}, <<>>) EXCEPT
                 !.fin_seq = e.snd_nxt, !.fin_sent = TRUE],
             AfterOurFin(e.state))

MaySend(e) ==
    \/ e.state \in {"ESTABLISHED", "CLOSE_WAIT"}
    \/ e.state = "SYN_RECEIVED" /\ e.fin_pending /\ e.app_buf = <<>>

FinDue(e) == e.app_buf = <<>> /\ e.fin_pending /\ ~e.fin_sent

Mut_Blocked(e) == e.snd_wnd = 0 /\ e.app_buf # <<>>

\* A closed window holds back data or the FIN.
Blocked(e) == e.snd_wnd = 0 /\ (e.app_buf # <<>> \/ FinDue(e))

\* What follows the data: the FIN if the window has room for it, a timer if
\* the window is closed.
SendFinOrWait(e) ==
    IF Blocked(e) THEN ArmPersist(e)
    ELSE IF FinDue(e) /\ UsableWindow(e) >= 1 THEN EmitFin(e)
    ELSE e

SendPending(e) == IF MaySend(e) THEN SendFinOrWait(SendData(e)) ELSE e

CancelPersist(e) == SendPending([e EXCEPT !.persist_timer = FALSE])

-------------------------------------------------------------------------------
(* Ending a connection.                                                    *)

ResetBuffers(e) ==
    [e EXCEPT !.app_buf = <<>>, !.recv_buf = <<>>, !.retx = <<>>, !.ooo = {},
              !.fin_pending = FALSE, !.fin_sent = FALSE, !.fin_acked = FALSE,
              !.pending_fin = None, !.rtt_pending = None, !.adv_right = None]

EnterClosed(e) ==
    LET stopped == [CancelKeepalive(CancelPersist(StopRt(e))) EXCEPT
                        !.tw_timer = FALSE, !.ack_timer = FALSE]
    IN  SetState(ResetBuffers(stopped), "CLOSED")

Mut_BackToListen(e) == e.state = "SYN_RECEIVED"

\* A reset during a passive open.
BackToListen(e) == e.state = "SYN_RECEIVED" /\ e.passive

\* RST in an acceptable position.
DoReset(e) ==
    IF BackToListen(e)
    THEN [CancelPersist(StopRt(ResetBuffers(SetState(e, "LISTEN")))) EXCEPT
             !.remote = e.cfg_remote]
    ELSE EnterClosed(e)

\* abort() and _abort(reason): RST from the states synchronized with the peer.
Abort(e) ==
    EnterClosed(
        IF e.state \in {"SYN_RECEIVED", "ESTABLISHED", "FIN_WAIT_1", "FIN_WAIT_2",
                        "CLOSE_WAIT"}
        THEN Emit(e, e.snd_nxt, {"RST"}, <<>>) ELSE e)

EnterTimeWait(e) ==
    [SetState(CancelPersist(StopRt(e)), "TIME_WAIT") EXCEPT !.tw_timer = TRUE]

-------------------------------------------------------------------------------
(* Acknowledgments and received data.                                      *)

Mut_Covered(o, ack) == seq_leq(o.seq, ack)

\* All of an entry is acknowledged.
Covered(o, ack) == seq_leq(End(o), ack)

\* The retransmission queue once ack is acknowledged: wholly acknowledged
\* entries leave from the head, and a partly acknowledged one loses its
\* acknowledged bytes.
Unacked(retx, ack) ==
    LET gone == CHOOSE k \in 0 .. Len(retx) :
                    /\ \A i \in 1 .. k : Covered(retx[i], ack)
                    /\ k = Len(retx) \/ ~Covered(retx[k + 1], ack)
        rest == SubSeq(retx, gone + 1, Len(retx))
    IN  IF rest # <<>> /\ seq_lt(rest[1].seq, ack)
        THEN [rest EXCEPT ![1].payload = SubSeq(@, sub(ack, rest[1].seq) + 1, Len(@)),
                          ![1].seq = ack]
        ELSE rest

Mut_FinCovered(e, ack) == e.fin_sent /\ seq_geq(ack, e.fin_seq)

FinCovered(e, ack) == e.fin_sent /\ seq_gt(ack, e.fin_seq)

\* retx is what is left of the retransmission queue.
AckTaken(e, ack, retx) ==
    [e EXCEPT !.snd_una = ack,
              !.retx = retx,
              !.rtt_pending = IF @ # None /\ seq_geq(ack, @) THEN None ELSE @,
              !.fin_acked = @ \/ FinCovered(e, ack),
              !.rto_count = 0,
              !.rt_timer = (retx # <<>>)]

ProcessAck(e, ack) == AckTaken(e, ack, Unacked(e.retx, ack))

Deliver(e, data) ==
    [e EXCEPT !.recv_buf = @ \o data, !.stream = @ \o data,
              !.rcv_nxt = add(@, Len(data))]

\* A segment kept until the gap before it closes, unless one that starts at
\* the same number and is no shorter is kept already.
StoreOoo(e, seq, data) ==
    IF \E o \in e.ooo : o.seq = seq /\ Len(o.data) >= Len(data)
    THEN e
    ELSE [e EXCEPT !.ooo = @ \cup {[seq |-> seq, data |-> data]}]

\* The kept segments that hold the byte numbered x.
Holding(e, x) == {o \in e.ooo : sub(x, o.seq) < Len(o.data)}

\* Only what lies beyond the next gap is kept.
Pruned(e) == [e EXCEPT !.ooo = {o \in @ : seq_gt(o.seq, e.rcv_nxt)}]

MergeReassembly(e) ==
    LET at(j) == add(e.rcv_nxt, j)
        n == CHOOSE k \in 0 .. HALF :
                 /\ \A j \in 0 .. k - 1 : Holding(e, at(j)) # {}
                 /\ Holding(e, at(k)) = {}
        byte(j) == LET o == CHOOSE o \in Holding(e, at(j)) : TRUE
                   IN  o.data[sub(at(j), o.seq) + 1]
    IN  Pruned(Deliver(e, [j \in 1 .. n |-> byte(j - 1)]))

\* What the window leaves for data that starts at seq.
Space(e, seq) == s32(sub(add(e.rcv_nxt, RcvWnd(e)), seq))

\* How many of the segment's bytes came before.
Received(e, seg) == IF seq_lt(seg.seq, e.rcv_nxt) THEN sub(e.rcv_nxt, seg.seq) ELSE 0

\* Text that starts at seq, cut to what is new; space is what the window has
\* left for it.
TakeText(e, seq, text, space) ==
    LET data == SubSeq(text, 1, Least(Len(text), space)) IN
    IF text = <<>> \/ space <= 0 THEN e
    ELSE IF seq = e.rcv_nxt THEN MergeReassembly(Deliver(e, data))
    ELSE StoreOoo(e, seq, data)

\* Text in order may be acknowledged late, any other text at once.
RecvData(e, seg) ==
    LET off   == Received(e, seg)
        seq   == add(seg.seq, off)
        text  == SubSeq(seg.payload, off + 1, Len(seg.payload))
        taken == TakeText(e, seq, text, Space(e, seq))
    IN  ScheduleAck(taken, taken.rcv_nxt = e.rcv_nxt)

Mut_AfterFin(state) ==
    CASE state = "ESTABLISHED" -> "CLOSE_WAIT"
      [] state \in {"FIN_WAIT_1", "FIN_WAIT_2"} -> "TIME_WAIT"
      [] OTHER -> state

\* The state the peer's FIN leads to.
AfterFin(state) ==
    CASE state = "ESTABLISHED" -> "CLOSE_WAIT"
      [] state = "FIN_WAIT_1"  -> "CLOSING"
      [] state = "FIN_WAIT_2"  -> "TIME_WAIT"
      [] OTHER                 -> state

EnterAfterFin(e) ==
    IF AfterFin(e.state) = "TIME_WAIT" THEN EnterTimeWait(e)
    ELSE SetState(e, AfterFin(e.state))

ProcessFin(e) ==
    EnterAfterFin(SendAck([e EXCEPT !.pending_fin = None, !.rcv_nxt = add(@, 1),
                                    !.stream = Append(@, EOF)]))

Mut_CheckPendingFin(e) == IF e.pending_fin # None THEN ProcessFin(e) ELSE e

CheckPendingFin(e) ==
    IF e.pending_fin # None /\ e.rcv_nxt = e.pending_fin THEN ProcessFin(e) ELSE e

-------------------------------------------------------------------------------
(* SEGMENT ARRIVES.                                                        *)

HandleClosed(e, seg) ==
    IF "RST" \in seg.flags THEN e
    ELSE IF "ACK" \in seg.flags THEN EmitRstReply(e, seg.ack, 0, {"RST"})
    ELSE EmitRstReply(e, 0, add(seg.seq, SegLen(seg)), {"RST", "ACK"})

\* iss is what _new_iss returns.
HandleListen(e, seg, iss) ==
    IF "RST" \in seg.flags THEN e
    ELSE IF "ACK" \in seg.flags THEN EmitRstReply(e, seg.ack, 0, {"RST"})
    ELSE IF "SYN" \notin seg.flags THEN e
    ELSE LET bound == [e EXCEPT
                 !.remote = TRUE, !.rcv_nxt = add(seg.seq, 1), !.iss = iss,
                 !.snd_una = iss, !.snd_nxt = iss, !.snd_wnd = seg.window,
                 !.snd_wl1 = seg.seq, !.snd_wl2 = iss]
         IN  QueueAndSend(SetState(bound, "SYN_RECEIVED"), {"SYN", "ACK"}, <<>>)

\* The part of the window update that every state shares.
TakeWindow(e, seg, wl2) ==
    [e EXCEPT !.snd_wnd = seg.window, !.snd_wl1 = seg.seq, !.snd_wl2 = wl2]

Mut_MovesWindow(e, seg) == TRUE

\* WL1/WL2: the segment is no older than the last one that moved the window.
MovesWindow(e, seg) ==
    \/ seq_lt(e.snd_wl1, seg.seq)
    \/ e.snd_wl1 = seg.seq /\ seq_leq(e.snd_wl2, seg.ack)

UpdateWindow(e, seg) ==
    LET updated == TakeWindow(e, seg, seg.ack)
    IN  IF ~MovesWindow(e, seg) THEN e
        ELSE IF updated.snd_wnd > 0 /\ e.snd_wnd = 0 THEN CancelPersist(updated)
        ELSE updated

\* A FIN with number seq arrived: in sequence, ahead of missing data, or again.
\* Noted, it is processed by the check that follows, as it is in the code when
\* it is in sequence.
NoteFin(e, seq) == IF seq_geq(seq, e.rcv_nxt) THEN [e EXCEPT !.pending_fin = seq] ELSE e

\* Text, anything the window now lets out, and the FIN: the tail every
\* acceptable segment reaches unless an earlier check ends its processing.
TextAndFin(e, seg) ==
    LET text == IF /\ seg.payload # <<>>
                   /\ e.state \in {"ESTABLISHED", "FIN_WAIT_1", "FIN_WAIT_2"}
                THEN RecvData(e, seg) ELSE e
        sent == SendPending(text)
    IN  CheckPendingFin(IF "FIN" \in seg.flags
                        THEN NoteFin(sent, add(seg.seq, Len(seg.payload)))
                        ELSE sent)

\* The fifth check in SYN_RECEIVED: the ACK of our SYN.
AckOfSyn(e, seg) ==
    LET open == SetState(TakeWindow(ProcessAck(e, seg.ack), seg, seg.ack), "ESTABLISHED")
    IN  IF seq_lt(e.snd_una, seg.ack) /\ seq_leq(seg.ack, e.snd_nxt)
        THEN TextAndFin(SendPending(MergeReassembly(open)), seg)
        ELSE EmitRstReply(e, seg.ack, 0, {"RST"})

\* What the acknowledgment of our FIN leads to.
AfterAck(e, seg) ==
    IF e.state = "CLOSING" /\ e.fin_acked THEN EnterTimeWait(e)
    ELSE IF e.state = "LAST_ACK" /\ e.fin_acked THEN EnterClosed(e)
    ELSE TextAndFin(IF e.state = "FIN_WAIT_1" /\ e.fin_acked
                    THEN SetState(e, "FIN_WAIT_2") ELSE e, seg)

Mut_NewAck(e, ack) == TRUE

NewAck(e, ack) == seq_gt(ack, e.snd_una)

\* The fifth check in the states after SYN_RECEIVED.
AckInConnection(e, seg) ==
    IF seq_gt(seg.ack, e.snd_nxt) THEN SendAck(e)
    ELSE AfterAck(UpdateWindow(IF NewAck(e, seg.ack) THEN ProcessAck(e, seg.ack) ELSE e,
                               seg),
                  seg)

HandleTimeWait(e, seg) ==
    IF "RST" \notin seg.flags
    THEN [SendAck(e) EXCEPT !.tw_timer = @ \/ "FIN" \in seg.flags]
    ELSE IF seg.seq = e.rcv_nxt THEN EnterClosed(e) ELSE SendAck(e)

HandleSynchronized(e, seg) ==
    IF e.state = "TIME_WAIT" THEN HandleTimeWait(e, seg)
    ELSE IF ~acceptable(seg.seq, SegLen(seg), e.rcv_nxt, RcvWnd(e))
    THEN IF "RST" \in seg.flags THEN e ELSE SendAck(e)
    ELSE IF "RST" \in seg.flags
    THEN IF seg.seq = e.rcv_nxt THEN DoReset(e) ELSE SendAck(e)
    ELSE IF "SYN" \in seg.flags THEN SendAck(e)
    ELSE IF "ACK" \notin seg.flags THEN e
    ELSE IF e.state = "SYN_RECEIVED" THEN AckOfSyn(e, seg)
    ELSE AckInConnection(e, seg)

Mut_SynAckAgain(e) ==
    [Emit(e, e.iss, {"SYN", "ACK"}, <<>>) EXCEPT !.snd_nxt = add(@, 1)]

\* Our SYN goes out again, now with an ACK; it is queued already.
SynAckAgain(e) == Emit(e, e.iss, {"SYN", "ACK"}, <<>>)

\* The queued SYN, to be sent again as a SYN with an ACK.
WithAck(retx) ==
    IF retx # <<>> /\ "SYN" \in retx[1].flags
    THEN [retx EXCEPT ![1].flags = @ \cup {"ACK"}] ELSE retx

\* The peer's SYN without an ACK of ours: simultaneous open.
SimultaneousOpen(e, seg) ==
    LET first == add(seg.seq, 1)
        kept  == IF seg.payload = <<>> THEN e ELSE StoreOoo(e, first, seg.payload)
        answer == [SetState(kept, "SYN_RECEIVED") EXCEPT
            !.retx = WithAck(@),
            !.pending_fin = IF "FIN" \in seg.flags
                            THEN add(first, Len(seg.payload)) ELSE @]
    IN  SynAckAgain(answer)

\* Our SYN is acknowledged; what came with the peer's SYN is handled next.
SynSentOpens(e, seg) ==
    LET open == SendPending(SendAck(SetState(e, "ESTABLISHED")))
        rest == [seg EXCEPT !.flags = @ \ {"SYN"}, !.seq = add(@, 1)]
    IN  IF seg.payload # <<>> \/ "FIN" \in seg.flags THEN HandleSynchronized(open, rest)
        ELSE open

\* The peer's SYN, e having noted what it says.
SynInSynSent(e, seg) ==
    IF seq_gt(e.snd_una, e.iss) THEN SynSentOpens(e, seg) ELSE SimultaneousOpen(e, seg)

HandleSynSent(e, seg) ==
    LET acks == "ACK" \in seg.flags
        bad_ack == acks /\ (seq_leq(seg.ack, e.iss) \/ seq_gt(seg.ack, e.snd_nxt))
        ack_ok  == acks /\ between(e.snd_una, seg.ack, e.snd_nxt)
        heard == [e EXCEPT !.rcv_nxt = add(seg.seq, 1)]
    IN  IF bad_ack
        THEN IF "RST" \in seg.flags THEN e ELSE EmitRstReply(e, seg.ack, 0, {"RST"})
        ELSE IF "RST" \in seg.flags THEN IF ack_ok THEN EnterClosed(e) ELSE e
        ELSE IF "SYN" \notin seg.flags THEN e
        ELSE SynInSynSent(TakeWindow(IF acks THEN ProcessAck(heard, seg.ack) ELSE heard,
                                     seg, IF acks THEN seg.ack ELSE e.snd_una),
                          seg)

\* iss is the number _new_iss returns, should the segment open a connection.
OnSegment(e, seg, iss) ==
    CASE e.state = "CLOSED"   -> HandleClosed(e, seg)
      [] e.state = "LISTEN"   -> HandleListen(e, seg, iss)
      [] e.state = "SYN_SENT" -> HandleSynSent(e, seg)
      [] OTHER ->
            HandleSynchronized(IF e.state = "ESTABLISHED" THEN ResetKeepalive(e) ELSE e,
                               seg)

-------------------------------------------------------------------------------
(* User calls.  Each has a guard that says when the call does not raise.   *)

ActiveOpen(e, iss) ==
    LET fresh == [e EXCEPT !.passive = FALSE, !.iss = iss, !.snd_una = iss,
                           !.snd_nxt = iss, !.snd_wnd = 0]
    IN  QueueAndSend(SetState(fresh, "SYN_SENT"), {"SYN"}, <<>>)

PassiveOpen(e) == SetState([e EXCEPT !.passive = TRUE], "LISTEN")

MayOpen(e, active) == e.state = "CLOSED" \/ (active /\ e.state = "LISTEN")

Finished == {"FIN_WAIT_1", "FIN_WAIT_2", "CLOSING", "LAST_ACK", "TIME_WAIT"}

\* SEND gets past its checks; in LISTEN without a remote port it raises after
\* it has queued the data.
MaySendCall(e) == e.state \notin Finished \cup {"CLOSED"} /\ ~e.fin_pending

Send(e, data, iss) ==
    LET queued == [e EXCEPT !.app_buf = @ \o data]
    IN  IF e.state = "LISTEN" /\ ~e.remote THEN queued
        ELSE IF e.state = "LISTEN" THEN ActiveOpen(queued, iss)
        ELSE IF e.state \in {"ESTABLISHED", "CLOSE_WAIT"} THEN SendPending(queued)
        ELSE queued

MayReceive(e) ==
    /\ e.state \notin {"CLOSED", "CLOSING", "LAST_ACK", "TIME_WAIT"}
    /\ e.state = "CLOSE_WAIT" => e.recv_buf # <<>>

\* What is left in the buffer; the first n bytes went to the caller.
Receive(e, n) ==
    LET left == [e EXCEPT !.recv_buf = SubSeq(@, n + 1, Len(@))]
    IN  IF n > 0 /\ left.zero_win_advertised /\ RcvWnd(left) > 0
        THEN SendAck([left EXCEPT !.zero_win_advertised = FALSE])
        ELSE left

MayClose(e) == e.state \notin Finished \cup {"CLOSED"}

Close(e) ==
    IF e.state \in {"LISTEN", "SYN_SENT"} THEN EnterClosed(e)
    ELSE SendPending([e EXCEPT !.fin_pending = TRUE])

-------------------------------------------------------------------------------
(* Timers.  gave_up is the user-timeout test, which compares clock values. *)

Mut_Exhausted(e) == e.rto_count + 1 >= MAX_RETRANSMITS

Exhausted(e) == e.rto_count + 1 > MAX_RETRANSMITS

Mut_Retried(e) == [e EXCEPT !.rto_count = @ + 1, !.retx[1].retransmitted = TRUE]

\* The bookkeeping of a retransmission; Karn: it is not timed.
Retried(e) ==
    [e EXCEPT !.rto_count = @ + 1, !.rtt_pending = None, !.retx[1].retransmitted = TRUE]

OnRto(e, gave_up) ==
    LET o == Head(e.retx)
    IN  IF e.retx = <<>> THEN [e EXCEPT !.rt_timer = FALSE]
        ELSE IF gave_up \/ Exhausted(e) THEN Abort([e EXCEPT !.rt_timer = FALSE])
        ELSE Emit(Retried(e), o.seq, o.flags, o.payload)

\* A zero-window probe takes one new byte, or the FIN, past SND.NXT.
OnPersist(e) ==
    LET fired == [e EXCEPT !.persist_timer = FALSE]
    IN  IF e.snd_wnd > 0 THEN SendPending(fired)
        ELSE IF e.app_buf # <<>>
        THEN ArmPersist(QueueAndSend([fired EXCEPT !.app_buf = Tail(@)],
                                     {"ACK"}, <<Head(e.app_buf)>>))
        ELSE IF e.fin_pending /\ ~e.fin_sent THEN ArmPersist(EmitFin(fired))
        ELSE fired

OnTimeWait(e) == EnterClosed([e EXCEPT !.tw_timer = FALSE])

OnKeepalive(e) ==
    LET fired == [e EXCEPT !.ka_timer = FALSE]
    IN  IF ~KEEPALIVE \/ e.state # "ESTABLISHED" THEN fired
        ELSE IF e.retx # <<>> THEN RestartKeepalive(fired)
        ELSE IF e.ka_probes >= KEEPALIVE_COUNT THEN Abort(fired)
        ELSE RestartKeepalive([Emit(fired, sub(e.snd_una, 1), {"ACK"}, <<>>) EXCEPT
                                  !.ka_probes = @ + 1])

OnDelack(e) == SendAck([e EXCEPT !.ack_timer = FALSE])
===============================================================================
