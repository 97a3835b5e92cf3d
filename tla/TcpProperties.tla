----------------------------- MODULE TcpProperties -----------------------------
(***************************************************************************)
(* What the pair of engines is expected to guarantee.  Each property says  *)
(* which code it is about; the runs that check it are named in README.md.  *)
(***************************************************************************)
EXTENDS TcpPair

Bytes == Nat \ {0}

\* What the user of s has put into the stream: the bytes, then the FIN.
Accepted(s) == [i \in 1 .. sent[s] |-> i] \o (IF ended[s] THEN <<EOF>> ELSE <<>>)

SegmentOk(seg) ==
    /\ DOMAIN seg = {"seq", "ack", "flags", "window", "payload"}
    /\ seg.seq \in SeqNums /\ seg.ack \in SeqNums
    /\ seg.flags \subseteq Flags
    /\ seg.window \in 0 .. RCV_WND
    /\ seg.payload \in Seq(Bytes) /\ Len(seg.payload) <= MSS

EngineOk(e) ==
    /\ e.state \in States
    /\ {e.iss, e.snd_una, e.snd_nxt, e.snd_wl1, e.snd_wl2, e.rcv_nxt, e.fin_seq}
         \subseteq SeqNums
    /\ {e.pending_fin, e.rtt_pending, e.adv_right} \subseteq SeqNums \cup {None}
    /\ e.snd_wnd \in 0 .. RCV_WND
    /\ e.app_buf \in Seq(Bytes) /\ e.recv_buf \in Seq(Bytes)
    /\ \A i \in 1 .. Len(e.retx) :
          /\ e.retx[i].seq \in SeqNums
          /\ e.retx[i].flags \subseteq Flags
          /\ SegLen(e.retx[i]) \in 1 .. MSS
    /\ \A o \in e.ooo : o.seq \in SeqNums /\ o.data \in Seq(Bytes) \ {<<>>}
    /\ e.ack_count \in 0 .. 1
    /\ e.rto_count \in 0 .. MAX_RETRANSMITS
    /\ e.ka_probes \in 0 .. KEEPALIVE_COUNT
    /\ e.out = <<>>

\* The type invariant: every field of both engines and of every segment in
\* flight keeps its range, the counters their configured limits.
TypeOK ==
    /\ \A s \in Sides : EngineOk(eng[s])
    /\ \A s \in Sides : \A seg \in BagToSet(net[s]) : SegmentOk(seg)
    /\ sent \in [Sides -> Nat]
    /\ ended \in [Sides -> BOOLEAN]
    /\ left \in [BudgetKeys -> Nat]

-------------------------------------------------------------------------------
(* The byte stream.                                                        *)

\* Whatever the wire drops, repeats or reorders, and wherever the numbers
\* wrap, a sink is told exactly the bytes the peer's user sent, in order and
\* without gap or repeat, and EOF only after all of them (_recv_data,
\* _merge_reassembly, _process_fin).
StreamIntegrity ==
    \A s \in Sides : IsPrefix(eng[s].stream, Accepted(Peer(s)))

\* SND.UNA <= peer's RCV.NXT <= SND.NXT: nothing counts as acknowledged
\* before the peer has taken it, and the peer takes nothing that was not sent
\* (_process_ack, the ack > SND.NXT check).
AckedWasTaken ==
    \A s \in Sides :
        eng[s].snd_una # eng[s].iss =>
            between(eng[s].snd_una, eng[Peer(s)].rcv_nxt, eng[s].snd_nxt)

\* Once our FIN is acknowledged the peer's sink has been told everything,
\* EOF included: the FIN never overtakes data (_send_pending, _on_persist,
\* _pending_fin).
FinAckedMeansAllDelivered ==
    \A s \in Sides : eng[s].fin_acked => eng[Peer(s)].stream = Accepted(s)

-------------------------------------------------------------------------------
(* The bookkeeping of one engine, which every later answer relies on.      *)

Live(e) == e.state \notin {"CLOSED", "LISTEN"}

\* The retransmission queue holds exactly the numbers from SND.UNA to
\* SND.NXT, without gap or overlap, also after a partial acknowledgment
\* (_queue_and_send, the trimming loop of _process_ack).
RetxCoversOutstanding ==
    \A s \in Sides : LET e == eng[s] IN Live(e) =>
        /\ e.retx = <<>> => e.snd_una = e.snd_nxt
        /\ e.retx # <<>> => e.retx[1].seq = e.snd_una /\ End(Last(e.retx)) = e.snd_nxt
        /\ \A i \in 1 .. Len(e.retx) - 1 : End(e.retx[i]) = e.retx[i + 1].seq

\* An engine with something outstanding or still to be sent has a timer that
\* will make it act: no order of window updates, probes and acknowledgments
\* leaves data or a FIN waiting on nothing (_arm_rt, _arm_persist,
\* _cancel_persist, _send_pending).
WorkIsTimed ==
    \A s \in Sides : LET e == eng[s] IN
        /\ Live(e) /\ e.retx # <<>> => e.rt_timer
        /\ MaySend(e) /\ (e.app_buf # <<>> \/ (e.fin_pending /\ ~e.fin_sent))
             => e.rt_timer \/ e.persist_timer

\* Karn's algorithm: the segment being timed is outstanding and has never
\* been retransmitted, so its acknowledgment is unambiguous (_on_rto,
\* _process_ack).
KarnTiming ==
    \A s \in Sides : LET e == eng[s] IN
        e.rtt_pending # None =>
            \E i \in 1 .. Len(e.retx) :
                End(e.retx[i]) = e.rtt_pending /\ ~e.retx[i].retransmitted

\* The window an engine would advertise now never ends before an edge it has
\* already advertised (_rcv_wnd: "never move it left"), so the peer may use
\* whatever it was granted.
RightEdgeHolds ==
    \A s \in Sides : LET e == eng[s] IN
        e.adv_right # None => seq_geq(add(e.rcv_nxt, RcvWnd(e)), e.adv_right)

\* The right edge an engine sends up to was granted: until the peer has sent
\* anything itself, an old or repeated segment never makes it send beyond what
\* the peer has ever advertised (snd_wl1 and snd_wl2 in _update_send_window).
\* It is a property of seeded connections: a crossing open fixes an edge before
\* it knows the peer's first number.  Once the peer sends, a repeat that fills
\* a gap may carry a newer acknowledgment with an older number, and by RFC 9293
\* such a segment leaves the window as it is.
WindowWasGranted ==
    \A s \in Sides : LET e == eng[s]
                         p == eng[Peer(s)]
                     IN
        Live(e) /\ p.adv_right # None /\ p.snd_nxt = add(ISS[Peer(s)], 1)
            => seq_leq(add(e.snd_una, e.snd_wnd), p.adv_right)

\* Received bytes, in order or kept for reassembly, never exceed the buffer
\* the engine was configured with (_recv_data's trimming, acceptable()).
ReceiveBufferBounded ==
    \A s \in Sides : LET e == eng[s] IN
        /\ Len(e.recv_buf) <= RCV_WND
        /\ \A o \in e.ooo :
              seq_leq(add(o.seq, Len(o.data)), add(e.rcv_nxt, RCV_WND - Len(e.recv_buf)))

-------------------------------------------------------------------------------
(* The life of a connection.                                               *)

\* The state an engine is in agrees with what became of both FINs: ours sent
\* and acknowledged, the peer's passed to the sink.  Every handler that moves
\* the state has to keep this, in whichever order the ACK of our FIN, the
\* peer's FIN and the window that lets ours out arrive.
StateMatchesFins ==
    \A s \in Sides : LET e == eng[s]
                         heard == e.stream # <<>> /\ Last(e.stream) = EOF
                     IN
        /\ e.state \in {"FIN_WAIT_1", "CLOSING", "LAST_ACK"} => e.fin_sent /\ ~e.fin_acked
        /\ e.state \in {"FIN_WAIT_2", "TIME_WAIT"} => e.fin_sent /\ e.fin_acked
        /\ e.state \in {"SYN_SENT", "SYN_RECEIVED", "ESTABLISHED", "CLOSE_WAIT"} => ~e.fin_sent
        /\ e.state \in {"CLOSE_WAIT", "CLOSING", "LAST_ACK", "TIME_WAIT"} => heard
        /\ e.state \in {"SYN_RECEIVED", "ESTABLISHED", "FIN_WAIT_1", "FIN_WAIT_2"} => ~heard

\* The arcs of the connection diagram, docs/ARCHITECTURE.md section 3.
Arcs == {<<"CLOSED", "SYN_SENT">>, <<"CLOSED", "LISTEN">>, <<"LISTEN", "SYN_SENT">>,
         <<"LISTEN", "SYN_RECEIVED">>, <<"SYN_SENT", "SYN_RECEIVED">>,
         <<"SYN_SENT", "ESTABLISHED">>, <<"SYN_RECEIVED", "LISTEN">>,
         <<"SYN_RECEIVED", "ESTABLISHED">>, <<"SYN_RECEIVED", "FIN_WAIT_1">>,
         <<"ESTABLISHED", "FIN_WAIT_1">>, <<"ESTABLISHED", "CLOSE_WAIT">>,
         <<"FIN_WAIT_1", "FIN_WAIT_2">>, <<"FIN_WAIT_1", "CLOSING">>,
         <<"FIN_WAIT_1", "TIME_WAIT">>, <<"FIN_WAIT_2", "TIME_WAIT">>,
         <<"CLOSING", "TIME_WAIT">>, <<"CLOSE_WAIT", "LAST_ACK">>,
         <<"LAST_ACK", "CLOSED">>, <<"TIME_WAIT", "CLOSED">>}

\* One handler may take two arcs in a row: the ACK that opens the connection
\* or the window lets our FIN out, or brings the peer's.
Compositions == {<<"SYN_SENT", "CLOSE_WAIT">>, <<"SYN_RECEIVED", "CLOSE_WAIT">>,
                 <<"ESTABLISHED", "CLOSING">>, <<"SYN_RECEIVED", "CLOSING">>}

\* A state a handler may leave an engine in that it found in state from.
MayBecome(from, to) ==
    to \in {from, "CLOSED"} \/ <<from, to>> \in Arcs \cup Compositions

\* What an engine that turns from e to n remembers of its open: SYN_RECEIVED
\* counts as passive if and only if a listener entered it, and only a passive
\* one goes back to LISTEN (_passive, _do_reset).
KnowsItsOpen(e, n) ==
    /\ n.state = "SYN_RECEIVED" =>
          (n.passive <=> IF e.state = "SYN_RECEIVED" THEN e.passive ELSE e.state = "LISTEN")
    /\ e.state = "SYN_RECEIVED" /\ n.state = "LISTEN" => e.passive

\* A state changes only along the diagram; CLOSED is reached in one step from
\* anywhere by a reset, an abort or a close before the connection is up, and a
\* reset in SYN_RECEIVED leads back to LISTEN only who came from there
\* (_set_state and all its callers, _do_reset).
LegalTransitions ==
    [][\A s \in Sides : /\ MayBecome(eng[s].state, eng'[s].state)
                        /\ KnowsItsOpen(eng[s], eng'[s])]_vars

\* A connection that nobody aborts ends only by the closing handshake: as long
\* as fewer segments are lost than the retry limits allow, neither keepalive
\* nor retransmission gives up on a peer that answers, and no reset is drawn by
\* a peer that is done (_on_keepalive, _on_rto, the keepalive reset in
\* on_segment).  CLOSING may end by a reset: both FINs are out by then, and the
\* peer leaves TIME_WAIT on its own clock.
NoLivePeerIsDropped ==
    [][left'["abort"] = BUDGET["abort"] =>
          \A s \in Sides :
             eng[s].state \in {"ESTABLISHED", "FIN_WAIT_1", "FIN_WAIT_2", "CLOSE_WAIT"}
                => eng'[s].state # "CLOSED"]_vars

\* With keepalive on, an engine whose peer has gone finds out, although the
\* peer's reset may be lost and it has nothing to send itself
\* (_on_keepalive, _restart_keepalive, _handle_closed).
HalfOpenIsFound ==
    \A s \in Sides :
        eng[s].state = "CLOSED" /\ eng[Peer(s)].state = "ESTABLISHED"
            ~> eng[Peer(s)].state # "ESTABLISHED"

\* Everything handed to SEND reaches the peer's sink: Nagle's rule, delayed
\* acknowledgments, a closed window and a lost segment never wait for one
\* another for good.
EverythingIsDelivered ==
    \A s \in Sides :
        sent[s] = SEND_LIMIT[s] ~> Len(eng[Peer(s)].stream) >= SEND_LIMIT[s]

\* Two sides that have both closed end up in CLOSED, whichever FIN or ACK of
\* a FIN is lost (_process_fin, _on_rto, TIME_WAIT).
CloseCompletes ==
    (\A s \in Sides : ended[s]) ~> (\A s \in Sides : eng[s].state = "CLOSED")

-------------------------------------------------------------------------------
(* What a comment says and the engine does not keep.                        *)

\* engine.py on _send_pending: "queued data is transmitted only once
\* ESTABLISHED".  Then an engine in SYN_SENT has only its SYN outstanding
\* (_on_persist).
NoDataBeforeEstablished ==
    \A s \in Sides :
        eng[s].state = "SYN_SENT" =>
            \A i \in 1 .. Len(eng[s].retx) : eng[s].retx[i].payload = <<>>
===============================================================================
