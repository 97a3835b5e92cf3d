-------------------------- MODULE TcpConnectionProofs --------------------------
(***************************************************************************)
(* What each handler of the engine does to a connection that was opened    *)
(* once, at matching positions: the bookkeeping of what is sent and        *)
(* received, told in positions, which unlike sequence numbers do not wrap. *)
(* A position is the distance from the first number of a stream; the byte  *)
(* at position k - 1 is the k-th the user handed to SEND, and has value k. *)
(***************************************************************************)
EXTENDS TcpEngineProofs

-------------------------------------------------------------------------------
(* What is promised between two engines.                                   *)

\* What surrounds an engine: the first numbers of its own stream and of the
\* peer's; how many bytes its user has sent, whether he has ended the stream
\* and how much of it the peer has taken; how many bytes the peer's user has
\* sent and how much of that the peer has transmitted; how far the engine itself
\* had transmitted and received when it was entered; and which acknowledgments
\* and which items of the peer's stream it can know of, by the positions they
\* reach.
Views ==
    {v \in [base : SeqNums, sent : Nat, ended : BOOLEAN, taken : Nat,
            pbase : SeqNums, psent : Nat, pnxt : Nat, snd : Nat, rcv : Nat,
            acks : SUBSET Nat, sight : SUBSET Nat] :
        /\ v.sent + RCV_WND + 2 < HALF /\ v.psent + RCV_WND + 2 < HALF
        /\ v.taken <= v.sent + 1 /\ v.pnxt <= v.psent + 1}

\* The i-th item of a stream of n bytes.
Item(n, i) == IF i <= n THEN i ELSE EOF

\* Text that starts at position k.
From(k, text) == \A j \in 1 .. Len(text) : text[j] = k + j

\* A segment says nothing but what is in a stream of n bytes that begins at
\* base, and nothing that lies beyond position nxt.
Genuine(seg, base, n, nxt) ==
    "RST" \notin seg.flags =>
        /\ seg.flags \in {{"ACK"}, {"ACK", "FIN"}}
        /\ seg.payload # <<>> =>
              /\ sub(seg.seq, base) + Len(seg.payload) <= n
              /\ sub(seg.seq, base) + Len(seg.payload) <= nxt
              /\ From(sub(seg.seq, base), seg.payload)
        /\ "FIN" \in seg.flags => sub(seg.seq, base) = n /\ nxt = n + 1

\* It acknowledges no more than its sender has taken.
Honest(seg, base, taken) == "RST" \notin seg.flags => sub(seg.ack, base) <= taken

-------------------------------------------------------------------------------
(* What an engine keeps of its own stream.                                 *)

\* Where entry i of a retransmission queue ends: at the next one.
NextSeq(retx, nxt, i) == IF i = Len(retx) THEN nxt ELSE retx[i + 1].seq

\* An entry lies between its neighbours and holds its part of the stream.
EntryLaid(retx, nxt, base, i) ==
    /\ sub(retx[i].seq, base) + SegLen(retx[i]) = sub(NextSeq(retx, nxt, i), base)
    /\ sub(retx[i].seq, base) + SegLen(retx[i]) <= sub(nxt, base)
    /\ retx[i].flags \in {{"ACK"}, {"ACK", "FIN"}}
    /\ From(sub(retx[i].seq, base), retx[i].payload)

\* The queue covers exactly what is outstanding.
Laid(retx, una, nxt, base) ==
    /\ retx = <<>> => una = nxt
    /\ retx # <<>> => retx[1].seq = una
    /\ \A i \in 1 .. Len(retx) : EntryLaid(retx, nxt, base, i)

\* What waits to be sent is the rest of what the user handed over.
Unsent(e, v) ==
    /\ sub(e.snd_nxt, v.base) + Len(e.app_buf) = v.sent + Count(e.fin_sent)
    /\ From(sub(e.snd_nxt, v.base), e.app_buf)

\* The segment being timed is outstanding and was sent once.
Timing(e) ==
    e.rtt_pending # None =>
        \E i \in 1 .. Len(e.retx) :
            End(e.retx[i]) = e.rtt_pending /\ ~e.retx[i].retransmitted

\* Our FIN comes after all data; it is the last entry until it is acknowledged.
FinLaid(e, v) ==
    /\ e.fin_pending <=> v.ended
    /\ e.fin_sent => e.app_buf = <<>> /\ e.fin_pending /\ e.snd_nxt = add(e.fin_seq, 1)
    /\ e.fin_acked => e.fin_sent
    /\ e.fin_sent => (e.fin_acked <=> e.retx = <<>>)
    /\ \A i \in 1 .. Len(e.retx) :
          "FIN" \in e.retx[i].flags <=> i = Len(e.retx) /\ e.fin_sent

Sender(e, v) ==
    /\ sub(e.snd_una, v.base) <= sub(e.snd_nxt, v.base)
    /\ sub(e.snd_una, v.base) <= v.taken /\ sub(e.snd_una, v.base) \in v.acks
    /\ Laid(e.retx, e.snd_una, e.snd_nxt, v.base)
    /\ Unsent(e, v) /\ Timing(e) /\ FinLaid(e, v)

-------------------------------------------------------------------------------
(* What it keeps of the peer's, and what it says.                          *)

\* Text that starts at position k can be known of.
Seen(k, text, v) == \A j \in 1 .. Len(text) : k + j \in v.sight

\* What a segment says that arrives can be known of, or is an acknowledgment
\* older than all of those.
Timely(ack, v) ==
    sub(ack, v.base) \in v.acks \/ \A a \in v.acks : sub(ack, v.base) < a

Shown(seg, v) ==
    "RST" \notin seg.flags =>
        /\ Timely(seg.ack, v)
        /\ Seen(sub(seg.seq, v.pbase), seg.payload, v)
        /\ "FIN" \in seg.flags => v.psent + 1 \in v.sight

\* What came out of order is part of the stream.
KeptGenuine(e, v) ==
    \A o \in e.ooo :
        /\ sub(o.seq, v.pbase) + Len(o.data) <= v.psent
        /\ sub(o.seq, v.pbase) + Len(o.data) <= v.pnxt
        /\ From(sub(o.seq, v.pbase), o.data) /\ Seen(sub(o.seq, v.pbase), o.data, v)

\* The sink was told a part of the stream, up to RCV.NXT.
Relayed(e, v) ==
    /\ Len(e.stream) = sub(e.rcv_nxt, v.pbase)
    /\ Len(e.stream) <= v.pnxt
    /\ \A i \in 1 .. Len(e.stream) :
          e.stream[i] = Item(v.psent, i) /\ (i > v.rcv => i \in v.sight)

\* A FIN that waits for data is the peer's.
FinNoted(e, v) ==
    e.pending_fin # None =>
        /\ sub(e.pending_fin, v.pbase) = v.psent /\ v.pnxt = v.psent + 1
        /\ v.psent + 1 \in v.sight

\* No edge was advertised beyond the buffer.
EdgeHeld(e, v) ==
    e.adv_right # None => sub(e.adv_right, v.pbase) <= sub(e.rcv_nxt, v.pbase) + FreeSpace(e)

Receiver(e, v) == KeptGenuine(e, v) /\ Relayed(e, v) /\ FinNoted(e, v) /\ EdgeHeld(e, v)

\* A segment of e carries nothing that is acknowledged, and acknowledges no
\* less than was taken when e was entered.
Recent(seg, e, v) ==
    "RST" \notin seg.flags =>
        /\ seg.payload # <<>> \/ "FIN" \in seg.flags =>
              sub(e.snd_una, v.base) <= sub(seg.seq, v.base)
        /\ v.rcv <= sub(seg.ack, v.pbase)

\* What it has transmitted since it was entered, and that it went forward.
Says(e, v) ==
    /\ \A k \in 1 .. Len(e.out) :
          /\ Genuine(e.out[k], v.base, v.sent, sub(e.snd_nxt, v.base))
          /\ Honest(e.out[k], v.pbase, sub(e.rcv_nxt, v.pbase))
          /\ Recent(e.out[k], e, v)
    /\ v.snd <= sub(e.snd_nxt, v.base) /\ v.rcv <= sub(e.rcv_nxt, v.pbase)

Talks(e, v) == Sender(e, v) /\ Receiver(e, v) /\ Says(e, v)

-------------------------------------------------------------------------------
(* Timers and the state.                                                   *)

Timed(e) == e.rt_timer <=> e.retx # <<>>

\* Whatever may be sent has a timer.
Waits(e) ==
    MaySend(e) /\ (e.app_buf # <<>> \/ (e.fin_pending /\ ~e.fin_sent)) =>
        e.rt_timer \/ e.persist_timer

Up == {"ESTABLISHED", "CLOSE_WAIT"} \cup Finished

Told(e, v) == sub(e.rcv_nxt, v.pbase) = v.psent + 1

ToldStates == {"CLOSE_WAIT", "CLOSING", "LAST_ACK", "TIME_WAIT"}

\* The state agrees with the FINs, but may not have noticed yet that ours was
\* acknowledged.
Stage(e, v) ==
    /\ e.state \in Up
    /\ e.state \in {"FIN_WAIT_2", "TIME_WAIT"} => e.fin_acked
    /\ Told(e, v) <=> e.state \in ToldStates

Noticed(e) == e.state \in {"FIN_WAIT_1", "CLOSING", "LAST_ACK"} => ~e.fin_acked

\* An engine of a connection within a handler, between two handlers, and one
\* whose connection is over.
Talking(e, v) == Sound(e) /\ Talks(e, v) /\ Timed(e) /\ Stage(e, v)

Connected(e, v) == Talking(e, v) /\ Noticed(e) /\ Waits(e)

Shut(e, v) ==
    /\ Sound(e)
    /\ e.state = "CLOSED" /\ e.retx = <<>> /\ e.app_buf = <<>> /\ e.rtt_pending = None
    /\ e.ack_timer = FALSE /\ e.tw_timer = FALSE
    /\ sub(e.snd_una, v.base) <= v.taken /\ sub(e.snd_una, v.base) \in v.acks
    /\ sub(e.snd_una, v.base) <= sub(e.snd_nxt, v.base)
    /\ sub(e.snd_nxt, v.base) <= v.sent + 1
    /\ sub(e.snd_nxt, v.base) = v.sent + 1 => v.ended
    /\ Receiver(e, v) /\ Says(e, v)

-------------------------------------------------------------------------------
(* Positions.                                                              *)

\* What a view holds.
LEMMA ViewReads ==
    ASSUME NEW v \in Views
    PROVE  /\ v.base \in SeqNums /\ v.sent \in Nat /\ v.ended \in BOOLEAN /\ v.taken \in Nat
           /\ v.pbase \in SeqNums /\ v.psent \in Nat /\ v.pnxt \in Nat
           /\ v.snd \in Nat /\ v.rcv \in Nat /\ v.acks \subseteq Nat /\ v.sight \subseteq Nat
           /\ v.sent + RCV_WND + 2 < HALF /\ v.psent + RCV_WND + 2 < HALF
           /\ v.taken <= v.sent + 1 /\ v.pnxt <= v.psent + 1
  BY DEF Views

\* A position is a natural number.
LEMMA Position ==
    ASSUME NEW base \in SeqNums, NEW a \in SeqNums
    PROVE  sub(a, base) \in Nat /\ sub(a, base) < MOD /\ sub(base, base) = 0
<1>1. sub(a, base) \in SeqNums
  BY InSeqNums
<1>2. sub(base, base) = 0
  BY Subs, Numbers
<1> QED BY <1>1, <1>2, Numbers

\* Positions below half the space tell numbers apart and compare as they do.
LEMMA Placed ==
    ASSUME NEW base \in SeqNums, NEW a \in SeqNums, NEW b \in SeqNums,
           sub(a, base) < HALF, sub(b, base) < HALF
    PROVE  /\ seq_lt(a, b)  <=> sub(a, base) < sub(b, base)
           /\ seq_leq(a, b) <=> sub(a, base) <= sub(b, base)
           /\ seq_gt(a, b)  <=> sub(a, base) > sub(b, base)
           /\ seq_geq(a, b) <=> sub(a, base) >= sub(b, base)
           /\ a = b <=> sub(a, base) = sub(b, base)
           /\ sub(a, base) >= sub(b, base) => sub(a, b) = sub(a, base) - sub(b, base)
           /\ sub(a, base) < sub(b, base) => sub(a, b) = sub(a, base) - sub(b, base) + MOD
<1> DEFINE p == sub(a, base)
           q == sub(b, base)
           d == sub(a, b)
<1>1. /\ a \in Nat /\ a < MOD /\ b \in Nat /\ b < MOD /\ base \in Nat /\ base < MOD
      /\ p \in Nat /\ q \in Nat /\ d \in Nat /\ d < MOD
  <2>1. d \in SeqNums
    BY InSeqNums
  <2> QED BY <2>1, Numbers, Position
<1>2. /\ p = IF a >= base THEN a - base ELSE a - base + MOD
      /\ q = IF b >= base THEN b - base ELSE b - base + MOD
      /\ d = IF a >= b THEN a - b ELSE a - b + MOD
  BY Subs
<1>3. /\ seq_lt(a, b)  <=> d >= HALF
      /\ seq_leq(a, b) <=> d = 0 \/ d >= HALF
      /\ seq_gt(a, b)  <=> d > 0 /\ d < HALF
      /\ seq_geq(a, b) <=> d < HALF
  BY Compares
<1>4. p < HALF /\ q < HALF
  OBVIOUS
<1> HIDE DEF p, q, d
<1>5. d = IF p >= q THEN p - q ELSE p - q + MOD
  BY <1>1, <1>2, <1>4, Halves
<1>6. a = b <=> p = q
  BY <1>1, <1>2, <1>4, Halves
<1>7. /\ d >= HALF <=> p < q
      /\ (d = 0 \/ d >= HALF) <=> p <= q
      /\ (d > 0 /\ d < HALF) <=> p > q
      /\ d < HALF <=> p >= q
  BY <1>1, <1>4, <1>5, Halves
<1>8. p >= q => d = p - q
  BY <1>5
<1>9. p < q => d = p - q + MOD
  BY <1>1, <1>5
<1> QED BY <1>3, <1>6, <1>7, <1>8, <1>9 DEF p, q, d

\* The position k further on.
LEMMA Onward ==
    ASSUME NEW base \in SeqNums, NEW a \in SeqNums, NEW k \in Nat, sub(a, base) + k < MOD
    PROVE  add(a, k) \in SeqNums /\ sub(add(a, k), base) = sub(a, base) + k
<1> DEFINE p == sub(a, base)
           c == add(a, k)
<1>1. c \in SeqNums
  BY InSeqNums
<1>2. /\ a \in Nat /\ a < MOD /\ base \in Nat /\ base < MOD /\ c \in Nat /\ c < MOD /\ p \in Nat
  BY <1>1, Numbers, Position
<1>3. p + k < MOD /\ k \in 0 .. MOD
  BY <1>2, Halves
<1>4. p = IF a >= base THEN a - base ELSE a - base + MOD
  BY Subs
<1>5. c = IF a + k < MOD THEN a + k ELSE a + k - MOD
  BY <1>3, Adds
<1>6. sub(c, base) = IF c >= base THEN c - base ELSE c - base + MOD
  BY <1>1, Subs
<1> HIDE DEF p, c
<1>7. sub(c, base) = p + k
  BY <1>2, <1>3, <1>4, <1>5, <1>6, Halves
<1> QED BY <1>1, <1>7 DEF p, c

-------------------------------------------------------------------------------
(* What a handler leaves alone.                                            *)

SenderFields == {"snd_una", "snd_nxt", "app_buf", "retx", "fin_pending", "fin_sent",
                 "fin_acked", "fin_seq", "rtt_pending"}

ReceiverFields == {"rcv_nxt", "recv_buf", "stream", "ooo", "pending_fin", "adv_right"}

TalkFields == SenderFields \cup ReceiverFields \cup {"out"}

\* The sender's bookkeeping stands as long as nobody touches it.
LEMMA SenderKept ==
    ASSUME NEW e, NEW n, NEW v, NEW S, Sender(e, v), Only(e, n, S), S \cap SenderFields = {}
    PROVE  Sender(n, v)
<1>1. /\ n.snd_una = e.snd_una /\ n.snd_nxt = e.snd_nxt /\ n.app_buf = e.app_buf
      /\ n.retx = e.retx /\ n.fin_pending = e.fin_pending /\ n.fin_sent = e.fin_sent
      /\ n.fin_acked = e.fin_acked /\ n.fin_seq = e.fin_seq /\ n.rtt_pending = e.rtt_pending
  BY FieldNames DEF Only, SenderFields
<1> QED BY <1>1, Zenon DEF Sender, Unsent, Timing, FinLaid

\* So does the receiver's.
LEMMA ReceiverKept ==
    ASSUME NEW e, NEW n, NEW v, NEW S, Receiver(e, v), Only(e, n, S), S \cap ReceiverFields = {}
    PROVE  Receiver(n, v)
<1>1. /\ n.rcv_nxt = e.rcv_nxt /\ n.recv_buf = e.recv_buf /\ n.stream = e.stream
      /\ n.ooo = e.ooo /\ n.pending_fin = e.pending_fin /\ n.adv_right = e.adv_right
  BY FieldNames DEF Only, ReceiverFields
<1> QED BY <1>1, Zenon DEF Receiver, KeptGenuine, Relayed, FinNoted, EdgeHeld, FreeSpace

\* A handler that changes neither, and transmits nothing, has nothing to say.
LEMMA TalksKept ==
    ASSUME NEW e, NEW n, NEW v, NEW S, Talks(e, v), Only(e, n, S), S \cap TalkFields = {}
    PROVE  Talks(n, v)
<1>1. S \cap SenderFields = {} /\ S \cap ReceiverFields = {}
  BY DEF TalkFields
<1>2. n.out = e.out /\ n.snd_nxt = e.snd_nxt /\ n.rcv_nxt = e.rcv_nxt /\ n.snd_una = e.snd_una
  BY FieldNames DEF Only, TalkFields, SenderFields, ReceiverFields
<1>3. Says(n, v)
  BY <1>2, Zenon DEF Talks, Says, Recent
<1> QED BY <1>1, <1>3, SenderKept, ReceiverKept DEF Talks

-------------------------------------------------------------------------------
(* What is said stays true.                                                *)

\* A stream that grows holds what was said of it.
LEMMA StaysGenuine ==
    ASSUME NEW seg, NEW base, NEW n \in Nat, NEW nxt \in Nat, NEW n2 \in Nat, NEW nxt2 \in Nat,
           Genuine(seg, base, n, nxt), Len(seg.payload) \in Nat, sub(seg.seq, base) \in Nat,
           nxt <= nxt2,
           \/ n2 = n /\ nxt2 <= n + 1
           \/ nxt <= n /\ n <= n2
    PROVE  Genuine(seg, base, n2, nxt2)
  BY DEF Genuine

\* In particular when it is only transmitted further.
LEMMA StaysGenuineHere ==
    ASSUME NEW seg, NEW base, NEW n \in Nat, NEW nxt \in Nat, NEW nxt2 \in Nat,
           Genuine(seg, base, n, nxt), Len(seg.payload) \in Nat, sub(seg.seq, base) \in Nat,
           nxt <= nxt2, nxt2 <= n + 1
    PROVE  Genuine(seg, base, n, nxt2)
  BY StaysGenuine

\* And so does a receiver that takes more.
LEMMA StaysHonest ==
    ASSUME NEW seg, NEW base, NEW t \in Nat, NEW t2 \in Nat, Honest(seg, base, t), t <= t2,
           sub(seg.ack, base) \in Nat
    PROVE  Honest(seg, base, t2)
  BY DEF Honest

\* The segments an engine has transmitted are segments.
LEMMA OutReads ==
    ASSUME NEW e, Typed(e), NEW k \in 1 .. Len(e.out)
    PROVE  e.out[k] \in SegmentRecords
  BY Reads

\* What went forward goes forward.
LEMMA Forward ==
    ASSUME NEW e, NEW n, NEW v \in Views, Typed(e), Typed(n), Says(e, v),
           sub(e.snd_nxt, v.base) <= sub(n.snd_nxt, v.base),
           sub(e.rcv_nxt, v.pbase) <= sub(n.rcv_nxt, v.pbase)
    PROVE  v.snd <= sub(n.snd_nxt, v.base) /\ v.rcv <= sub(n.rcv_nxt, v.pbase)
<1>1. /\ e.snd_nxt \in SeqNums /\ n.snd_nxt \in SeqNums /\ e.rcv_nxt \in SeqNums
      /\ n.rcv_nxt \in SeqNums
  BY Reads
<1>2. v.base \in SeqNums /\ v.pbase \in SeqNums /\ v.snd \in Nat /\ v.rcv \in Nat
  BY ViewReads
<1>3. /\ sub(e.snd_nxt, v.base) \in Nat /\ sub(n.snd_nxt, v.base) \in Nat
      /\ sub(e.rcv_nxt, v.pbase) \in Nat /\ sub(n.rcv_nxt, v.pbase) \in Nat
  BY <1>1, <1>2, Position
<1>4. v.snd <= sub(e.snd_nxt, v.base) /\ v.rcv <= sub(e.rcv_nxt, v.pbase)
  BY DEF Says
<1> QED BY <1>2, <1>3, <1>4

\* What was said before this handler's last step, and nothing since.
LEMMA SaysKept ==
    ASSUME NEW e, NEW n, NEW v \in Views, Typed(e), Typed(n), Says(e, v), n.out = e.out,
           sub(e.snd_nxt, v.base) <= sub(n.snd_nxt, v.base),
           sub(n.snd_nxt, v.base) <= v.sent + 1,
           sub(e.rcv_nxt, v.pbase) <= sub(n.rcv_nxt, v.pbase),
           n.snd_una = e.snd_una \/ e.out = <<>>
    PROVE  Says(n, v)
<1> SUFFICES ASSUME NEW k \in 1 .. Len(e.out)
             PROVE  /\ Genuine(e.out[k], v.base, v.sent, sub(n.snd_nxt, v.base))
                    /\ Honest(e.out[k], v.pbase, sub(n.rcv_nxt, v.pbase))
                    /\ Recent(e.out[k], n, v)
  BY Forward DEF Says
<1>0. n.snd_una = e.snd_una
  OBVIOUS
<1>1. /\ e.snd_nxt \in SeqNums /\ n.snd_nxt \in SeqNums /\ e.rcv_nxt \in SeqNums
      /\ n.rcv_nxt \in SeqNums
  BY Reads
<1>2. v.base \in SeqNums /\ v.pbase \in SeqNums /\ v.sent \in Nat
  BY ViewReads
<1>3. /\ sub(e.snd_nxt, v.base) \in Nat /\ sub(n.snd_nxt, v.base) \in Nat
      /\ sub(e.rcv_nxt, v.pbase) \in Nat /\ sub(n.rcv_nxt, v.pbase) \in Nat
  BY <1>1, <1>2, Position
<1>4. e.out[k].seq \in SeqNums /\ e.out[k].ack \in SeqNums /\ Len(e.out[k].payload) \in Nat
  BY OutReads, SegmentReads
<1>5. sub(e.out[k].seq, v.base) \in Nat /\ sub(e.out[k].ack, v.pbase) \in Nat
  BY <1>2, <1>4, Position
<1>6. /\ Genuine(e.out[k], v.base, v.sent, sub(e.snd_nxt, v.base))
      /\ Honest(e.out[k], v.pbase, sub(e.rcv_nxt, v.pbase))
  BY DEF Says
<1>7. Genuine(e.out[k], v.base, v.sent, sub(n.snd_nxt, v.base))
  BY <1>2, <1>3, <1>4, <1>5, <1>6, StaysGenuineHere
<1>8. Honest(e.out[k], v.pbase, sub(n.rcv_nxt, v.pbase))
  BY <1>3, <1>5, <1>6, StaysHonest
<1>9. Recent(e.out[k], n, v)
  BY <1>0 DEF Says, Recent
<1> QED BY <1>7, <1>8, <1>9

\* One more segment.
LEMMA SaysMore ==
    ASSUME NEW e, NEW n, NEW v \in Views, Typed(e), Typed(n), Says(e, v),
           NEW seg, n.out = Append(e.out, seg), n.snd_una = e.snd_una,
           Genuine(seg, v.base, v.sent, sub(n.snd_nxt, v.base)),
           Honest(seg, v.pbase, sub(n.rcv_nxt, v.pbase)), Recent(seg, e, v),
           sub(e.snd_nxt, v.base) <= sub(n.snd_nxt, v.base),
           sub(n.snd_nxt, v.base) <= v.sent + 1,
           sub(e.rcv_nxt, v.pbase) <= sub(n.rcv_nxt, v.pbase)
    PROVE  Says(n, v)
<1> SUFFICES ASSUME NEW k \in 1 .. Len(n.out)
             PROVE  /\ Genuine(n.out[k], v.base, v.sent, sub(n.snd_nxt, v.base))
                    /\ Honest(n.out[k], v.pbase, sub(n.rcv_nxt, v.pbase))
                    /\ Recent(n.out[k], n, v)
  BY Forward DEF Says
<1>1. /\ e.snd_nxt \in SeqNums /\ n.snd_nxt \in SeqNums /\ e.rcv_nxt \in SeqNums
      /\ n.rcv_nxt \in SeqNums /\ e.out \in Seq(SegmentRecords)
  BY Reads
<1>2. v.base \in SeqNums /\ v.pbase \in SeqNums /\ v.sent \in Nat
  BY ViewReads
<1>3. /\ sub(e.snd_nxt, v.base) \in Nat /\ sub(n.snd_nxt, v.base) \in Nat
      /\ sub(e.rcv_nxt, v.pbase) \in Nat /\ sub(n.rcv_nxt, v.pbase) \in Nat
  BY <1>1, <1>2, Position
<1>4. CASE k = Len(e.out) + 1
  <2>1. n.out[k] = seg
    BY <1>1, <1>4
  <2> QED BY <2>1 DEF Recent
<1>5. CASE k # Len(e.out) + 1
  <2>1. k \in 1 .. Len(e.out) /\ n.out[k] = e.out[k]
    BY <1>1, <1>5
  <2>2. e.out[k].seq \in SeqNums /\ e.out[k].ack \in SeqNums /\ Len(e.out[k].payload) \in Nat
    BY <2>1, OutReads, SegmentReads
  <2>3. sub(e.out[k].seq, v.base) \in Nat /\ sub(e.out[k].ack, v.pbase) \in Nat
    BY <1>2, <2>2, Position
  <2>4. /\ Genuine(e.out[k], v.base, v.sent, sub(e.snd_nxt, v.base))
        /\ Honest(e.out[k], v.pbase, sub(e.rcv_nxt, v.pbase))
        /\ Recent(e.out[k], e, v)
    BY <2>1 DEF Says
  <2>5. Genuine(e.out[k], v.base, v.sent, sub(n.snd_nxt, v.base))
    BY <1>2, <1>3, <2>2, <2>3, <2>4, StaysGenuineHere
  <2>6. Honest(e.out[k], v.pbase, sub(n.rcv_nxt, v.pbase))
    BY <1>3, <2>3, <2>4, StaysHonest
  <2>7. Recent(n.out[k], n, v)
    BY <2>1, <2>4 DEF Recent
  <2> QED BY <2>1, <2>5, <2>6, <2>7
<1> QED BY <1>4, <1>5

-------------------------------------------------------------------------------
(* Transmission.                                                           *)

\* Where a segment puts the advertised edge.
LEMMA EmitEdge ==
    ASSUME NEW e, Typed(e), NEW seq \in SeqNums, NEW flags \in FlagSets,
           NEW payload \in Seq(Bytes), MayCarry(flags, payload)
    PROVE  Emit(e, seq, flags, payload).adv_right
               \in {e.adv_right, add(e.rcv_nxt, RcvWnd(e))}
<1> DEFINE right == add(e.rcv_nxt, RcvWnd(e))
           noted == Advertised(e, RcvWnd(e), right)
           seg == Segment(e, seq, flags, payload)
<1>1. RcvWnd(e) \in 0 .. RCV_WND /\ right \in SeqNums
  <2>1. RcvWnd(e) \in 0 .. RCV_WND /\ RcvWnd(e) \in Int
    BY WindowFits, Halves
  <2>2. e.rcv_nxt \in SeqNums
    BY Reads
  <2> QED BY <2>1, <2>2, InSeqNums
<1>2. Typed(noted) /\ noted.adv_right \in {e.adv_right, right}
  <2> HIDE DEF right
  <2> QED BY <1>1, AdvertisedFrame
<1>3. seg \in SegmentRecords
  BY SegmentTyped
<1> HIDE DEF noted, seg
<1>4. Transmit(noted, seg).adv_right = noted.adv_right
  BY <1>2, <1>3, TransmitFrame, FieldNames DEF Only
<1> QED BY <1>2, <1>4 DEF Emit, noted, seg, right

\* The receiver's side of a transmission.
LEMMA EmitReceiver ==
    ASSUME NEW e, NEW v \in Views, Typed(e), Receiver(e, v),
           NEW seq \in SeqNums, NEW flags \in FlagSets,
           NEW payload \in Seq(Bytes), MayCarry(flags, payload)
    PROVE  Receiver(Emit(e, seq, flags, payload), v)
<1> DEFINE n == Emit(e, seq, flags, payload)
           right == add(e.rcv_nxt, RcvWnd(e))
<1>1. Typed(n) /\ Only(e, n, Emitted) /\ n.adv_right \in {e.adv_right, right}
  BY EmitFrame, EmitEdge
<1> HIDE DEF n
<1>2. /\ n.rcv_nxt = e.rcv_nxt /\ n.recv_buf = e.recv_buf /\ n.stream = e.stream
      /\ n.ooo = e.ooo /\ n.pending_fin = e.pending_fin
  BY <1>1, FieldNames DEF Only, Emitted
<1>3. FreeSpace(n) = FreeSpace(e)
  BY <1>2 DEF FreeSpace
<1>4. sub(right, v.pbase) <= sub(e.rcv_nxt, v.pbase) + FreeSpace(e)
  <2>1. e.rcv_nxt \in SeqNums /\ v.pbase \in SeqNums
    BY Reads, ViewReads
  <2>2. RcvWnd(e) \in 0 .. FreeSpace(e) /\ FreeSpace(e) \in 0 .. RCV_WND
    BY WindowFits
  <2>3. sub(e.rcv_nxt, v.pbase) <= v.psent + 1
    <3>1. e.stream \in Seq(Bytes \cup {EOF})
      BY Reads
    <3> QED BY <3>1, ViewReads DEF Receiver, Relayed
  <2>4. sub(e.rcv_nxt, v.pbase) \in Nat
    BY <2>1, Position
  <2>5. sub(e.rcv_nxt, v.pbase) + RcvWnd(e) < MOD
    <3> DEFINE g == sub(e.rcv_nxt, v.pbase)
               w == RcvWnd(e)
               f == FreeSpace(e)
    <3>1. g \in Nat /\ g <= v.psent + 1 /\ w \in 0 .. f /\ f \in 0 .. RCV_WND
      BY <2>2, <2>3, <2>4
    <3>2. v.psent \in Nat /\ v.psent + RCV_WND + 2 < HALF
      BY ViewReads
    <3> HIDE DEF g, w, f
    <3>3. g + w < HALF
      BY <3>1, <3>2, Halves
    <3> QED BY <3>1, <3>3, Halves DEF g, w
  <2>6. sub(right, v.pbase) = sub(e.rcv_nxt, v.pbase) + RcvWnd(e)
    BY <2>1, <2>2, <2>5, Onward, Halves
  <2> QED BY <2>2, <2>4, <2>6, Halves
<1>5. EdgeHeld(n, v)
  BY <1>1, <1>2, <1>3, <1>4 DEF Receiver, EdgeHeld
<1>6. KeptGenuine(n, v) /\ Relayed(n, v) /\ FinNoted(n, v)
  BY <1>2, Zenon DEF Receiver, KeptGenuine, Relayed, FinNoted
<1> QED BY <1>5, <1>6 DEF Receiver, n

\* The position an engine has sent up to is bounded by what its user gave it.
LEMMA SentWithin ==
    ASSUME NEW e, NEW v \in Views, Typed(e), Sender(e, v)
    PROVE  /\ sub(e.snd_nxt, v.base) \in Nat /\ sub(e.snd_una, v.base) \in Nat
           /\ sub(e.snd_nxt, v.base) <= v.sent + Count(e.fin_sent)
           /\ sub(e.snd_nxt, v.base) <= v.sent + 1
           /\ sub(e.snd_una, v.base) <= sub(e.snd_nxt, v.base)
           /\ sub(e.snd_nxt, v.base) < HALF
<1>1. e.snd_nxt \in SeqNums /\ e.snd_una \in SeqNums /\ e.app_buf \in Seq(Bytes)
  BY Reads
<1>2. sub(e.snd_nxt, v.base) \in Nat /\ sub(e.snd_una, v.base) \in Nat
  BY <1>1, ViewReads, Position
<1>3. Count(e.fin_sent) \in 0 .. 1
  BY DEF Count
<1>4. sub(e.snd_nxt, v.base) + Len(e.app_buf) = v.sent + Count(e.fin_sent)
  BY DEF Sender, Unsent
<1>5. Len(e.app_buf) \in Nat /\ v.sent \in Nat /\ v.sent + RCV_WND + 2 < HALF
  BY <1>1, ViewReads
<1>6. sub(e.snd_una, v.base) <= sub(e.snd_nxt, v.base)
  BY DEF Sender
<1> DEFINE p == sub(e.snd_nxt, v.base)
           c == Count(e.fin_sent)
           n == Len(e.app_buf)
<1>7. p <= v.sent + c /\ p <= v.sent + 1 /\ p < HALF
  <2>1. p \in Nat /\ c \in 0 .. 1 /\ p + n = v.sent + c /\ n \in Nat
    BY <1>2, <1>3, <1>4, <1>5
  <2>2. v.sent \in Nat /\ v.sent + 2 < HALF
    BY <1>5, Halves
  <2> HIDE DEF p, c, n
  <2> QED BY <2>1, <2>2, Halves
<1> QED BY <1>2, <1>6, <1>7

\* The position an engine has received up to.
LEMMA GotWithin ==
    ASSUME NEW e, NEW v \in Views, Typed(e), Receiver(e, v)
    PROVE  /\ sub(e.rcv_nxt, v.pbase) \in Nat /\ sub(e.rcv_nxt, v.pbase) = Len(e.stream)
           /\ sub(e.rcv_nxt, v.pbase) <= v.pnxt /\ sub(e.rcv_nxt, v.pbase) <= v.psent + 1
           /\ sub(e.rcv_nxt, v.pbase) + RCV_WND < HALF
<1>1. e.rcv_nxt \in SeqNums
  BY Reads
<1>2. sub(e.rcv_nxt, v.pbase) \in Nat
  BY <1>1, ViewReads, Position
<1> QED BY <1>2, ViewReads, Halves DEF Receiver, Relayed

\* A transmission that leaves the sender as it is.
LEMMA EmitTalks ==
    ASSUME NEW e, NEW v \in Views, Typed(e), Talks(e, v),
           NEW seq \in SeqNums, NEW flags \in FlagSets,
           NEW payload \in Seq(Bytes), MayCarry(flags, payload),
           "ACK" \in flags \/ "RST" \in flags,
           payload # <<>> \/ "FIN" \in flags => sub(e.snd_una, v.base) <= sub(seq, v.base),
           \A seg : /\ seg.seq = seq /\ seg.flags = flags /\ seg.payload = payload
                    => Genuine(seg, v.base, v.sent, sub(e.snd_nxt, v.base))
    PROVE  Talks(Emit(e, seq, flags, payload), v)
<1> DEFINE n == Emit(e, seq, flags, payload)
           seg == Segment(e, seq, flags, payload)
<1>1. Typed(n) /\ Only(e, n, Emitted) /\ n.out = Append(e.out, seg)
  BY EmitFrame
<1>2. Sender(n, v)
  BY <1>1, SenderKept DEF Talks, Emitted, SenderFields
<1>3. Receiver(n, v)
  BY EmitReceiver DEF Talks
<1>4. seg.seq = seq /\ seg.flags = flags /\ seg.payload = payload
  BY DEF Segment
<1>5. "RST" \notin flags => seg.ack = e.rcv_nxt
  BY DEF Segment
<1> HIDE DEF n, seg
<1>6. n.snd_nxt = e.snd_nxt /\ n.rcv_nxt = e.rcv_nxt /\ n.snd_una = e.snd_una
  BY <1>1, FieldNames DEF Only, Emitted
<1>7. Genuine(seg, v.base, v.sent, sub(n.snd_nxt, v.base))
  BY <1>4, <1>6
<1>8. Honest(seg, v.pbase, sub(n.rcv_nxt, v.pbase))
  <2>1. sub(e.rcv_nxt, v.pbase) \in Nat
    BY GotWithin DEF Talks
  <2> QED BY <1>4, <1>5, <1>6, <2>1 DEF Honest
<1>9. Says(n, v)
  <2>1. /\ sub(e.snd_nxt, v.base) \in Nat /\ sub(e.snd_nxt, v.base) <= v.sent + 1
        /\ sub(e.rcv_nxt, v.pbase) \in Nat
    BY SentWithin, GotWithin DEF Talks
  <2>2. Says(e, v)
    BY DEF Talks
  <2>3. /\ sub(e.snd_nxt, v.base) <= sub(n.snd_nxt, v.base)
        /\ sub(n.snd_nxt, v.base) <= v.sent + 1
        /\ sub(e.rcv_nxt, v.pbase) <= sub(n.rcv_nxt, v.pbase)
    BY <1>6, <2>1
  <2>4. Recent(seg, e, v)
    BY <1>4, <1>5, <2>2 DEF Recent, Says
  <2> QED BY <1>1, <1>6, <1>7, <1>8, <2>2, <2>3, <2>4, SaysMore
<1> QED BY <1>2, <1>3, <1>9 DEF Talks, n

-------------------------------------------------------------------------------
(* Queueing what is sent.                                                  *)

\* An entry that begins at SND.NXT prolongs the queue.
LEMMA LaidMore ==
    ASSUME NEW retx \in Seq(QueueEntries), NEW una \in SeqNums, NEW nxt \in SeqNums,
           NEW base \in SeqNums, Laid(retx, una, nxt, base),
           NEW o \in QueueEntries, o.seq = nxt, o.flags \in {{"ACK"}, {"ACK", "FIN"}},
           From(sub(nxt, base), o.payload), sub(nxt, base) + SegLen(o) < MOD
    PROVE  /\ sub(End(o), base) = sub(nxt, base) + SegLen(o)
           /\ Laid(Append(retx, o), una, End(o), base)
<1> DEFINE r == Append(retx, o)
<1>1. SegLen(o) \in Nat /\ SegLen(o) >= 1 /\ End(o) \in SeqNums
  BY EntryTakes, Halves
<1>2. sub(End(o), base) = sub(nxt, base) + SegLen(o)
  BY <1>1, Onward DEF End
<1>3. Len(r) = Len(retx) + 1 /\ r[Len(retx) + 1] = o /\ \A i \in 1 .. Len(retx) : r[i] = retx[i]
  OBVIOUS
<1>4. Len(retx) \in Nat /\ (retx = <<>> <=> Len(retx) = 0)
  OBVIOUS
<1>5. r # <<>> /\ r[1].seq = una
  <2>1. CASE retx = <<>>
    BY <2>1, <1>3, <1>4 DEF Laid
  <2>2. CASE retx # <<>>
    <3>1. 1 \in 1 .. Len(retx)
      BY <2>2, <1>4
    <3> QED BY <2>2, <3>1, <1>3 DEF Laid
  <2> QED BY <2>1, <2>2
<1>6. \A i \in 1 .. Len(r) : EntryLaid(r, End(o), base, i)
  <2> SUFFICES ASSUME NEW i \in 1 .. Len(r)
               PROVE  EntryLaid(r, End(o), base, i)
    OBVIOUS
  <2> HIDE DEF r
  <2>0. sub(nxt, base) \in Nat
    BY Position
  <2>1. CASE i = Len(retx) + 1
    <3>1. r[i] = o /\ NextSeq(r, End(o), i) = End(o)
      BY <2>1, <1>3 DEF NextSeq
    <3> QED BY <3>1, <1>1, <1>2, <2>0 DEF EntryLaid
  <2>2. CASE i # Len(retx) + 1
    <3>1. i \in 1 .. Len(retx) /\ r[i] = retx[i]
      BY <2>2, <1>3, <1>4
    <3>2. NextSeq(r, End(o), i) = NextSeq(retx, nxt, i)
      <4>1. CASE i = Len(retx)
        BY <4>1, <1>3, <1>4 DEF NextSeq
      <4>2. CASE i # Len(retx)
        <5>1. i + 1 \in 1 .. Len(retx)
          BY <3>1, <4>2, <1>4
        <5> QED BY <4>2, <5>1, <3>1, <1>3, <1>4 DEF NextSeq
      <4> QED BY <4>1, <4>2
    <3>3. EntryLaid(retx, nxt, base, i)
      BY <3>1 DEF Laid
    <3>4. retx[i] \in QueueEntries
      BY <3>1
    <3>5. SegLen(retx[i]) \in Nat /\ retx[i].seq \in SeqNums
      BY <3>4, EntryTakes, Halves
    <3>6. sub(retx[i].seq, base) \in Nat
      BY <3>5, Position
    <3>7. sub(retx[i].seq, base) + SegLen(retx[i]) <= sub(End(o), base)
      BY <3>3, <3>5, <3>6, <1>1, <1>2, <2>0 DEF EntryLaid
    <3> QED BY <3>1, <3>2, <3>3, <3>7 DEF EntryLaid
  <2> QED BY <2>1, <2>2
<1> QED BY <1>2, <1>5, <1>6 DEF Laid

\* Only what is sent for the first time is timed.
LEMMA TimingMore ==
    ASSUME NEW e, NEW n, NEW o, e.retx \in Seq(QueueEntries), o \in QueueEntries,
           Timing(e), o.retransmitted = FALSE, n.retx = Append(e.retx, o),
           n.rtt_pending = IF e.rtt_pending = None THEN End(o) ELSE e.rtt_pending
    PROVE  Timing(n)
<1>1. /\ Len(n.retx) = Len(e.retx) + 1 /\ n.retx[Len(e.retx) + 1] = o /\ Len(e.retx) \in Nat
      /\ \A i \in 1 .. Len(e.retx) : n.retx[i] = e.retx[i]
  OBVIOUS
<1>2. CASE e.rtt_pending = None
  <2>1. Len(e.retx) + 1 \in 1 .. Len(n.retx)
    BY <1>1
  <2> QED BY <1>1, <1>2, <2>1 DEF Timing
<1>3. CASE e.rtt_pending # None
  <2>1. PICK i \in 1 .. Len(e.retx) :
            End(e.retx[i]) = e.rtt_pending /\ ~e.retx[i].retransmitted
    BY <1>3 DEF Timing
  <2>2. i \in 1 .. Len(n.retx) /\ n.retx[i] = e.retx[i]
    BY <1>1
  <2> QED BY <1>3, <2>1, <2>2 DEF Timing
<1> QED BY <1>2, <1>3

\* The receiver's side of a transmission that is queued.
LEMMA QueueReceiver ==
    ASSUME NEW e, NEW v \in Views, Typed(e), Receiver(e, v),
           NEW flags \in {{"SYN"}, {"SYN", "ACK"}, {"ACK"}, {"ACK", "FIN"}},
           NEW payload \in Seq(Bytes), MayCarry(flags, payload)
    PROVE  Receiver(QueueAndSend(e, flags, payload), v)
<1> DEFINE n == QueueAndSend(e, flags, payload)
           m == Emit(e, e.snd_nxt, flags, payload)
           o == [seq |-> e.snd_nxt, flags |-> flags, payload |-> payload,
                 retransmitted |-> FALSE]
<1>1. e.snd_nxt \in SeqNums /\ flags \in FlagSets
  BY Reads DEF FlagSets
<1>2. Typed(m) /\ Receiver(m, v)
  BY <1>1, EmitFrame, EmitReceiver
<1>3. n = [m EXCEPT !.retx = Append(@, o), !.snd_nxt = End(o),
                    !.rtt_pending = IF @ = None THEN End(o) ELSE @, !.rt_timer = TRUE]
  BY DEF QueueAndSend
<1> HIDE DEF m, n, o
<1>4. Only(m, n, {"retx", "snd_nxt", "rtt_pending", "rt_timer"})
  BY <1>2, <1>3, FieldNames DEF Only, Typed
<1>5. Receiver(n, v)
  BY <1>2, <1>4, ReceiverKept DEF ReceiverFields
<1> QED BY <1>5 DEF n

\* What is queued, and how the queue and its numbers change.
Entry(e, flags, payload) ==
    [seq |-> e.snd_nxt, flags |-> flags, payload |-> payload, retransmitted |-> FALSE]

\* The lemma QueueFrame, entry by name.
LEMMA Queued ==
    ASSUME NEW e, Typed(e), NEW flags \in {{"ACK"}, {"ACK", "FIN"}},
           NEW payload \in Seq(Bytes), MayCarry(flags, payload),
           flags = {"ACK"} => payload # <<>>
    PROVE  /\ Typed(QueueAndSend(e, flags, payload))
           /\ Only(e, QueueAndSend(e, flags, payload), Queueing)
           /\ Entry(e, flags, payload) \in QueueEntries
           /\ QueueAndSend(e, flags, payload).retx = Append(e.retx, Entry(e, flags, payload))
           /\ QueueAndSend(e, flags, payload).snd_nxt = End(Entry(e, flags, payload))
           /\ QueueAndSend(e, flags, payload).rtt_pending =
                 (IF e.rtt_pending = None THEN End(Entry(e, flags, payload)) ELSE e.rtt_pending)
           /\ QueueAndSend(e, flags, payload).rt_timer = TRUE
           /\ QueueAndSend(e, flags, payload).out =
                 Append(e.out, Segment(e, e.snd_nxt, flags, payload))
<1>1. flags \in {{"SYN"}, {"SYN", "ACK"}, {"ACK"}, {"ACK", "FIN"}}
  OBVIOUS
<1> QED BY <1>1, QueueFrame, Zenon DEF Entry

\* Bytes cut off the front of what waits take the next numbers.
LEMMA ChunkTalks ==
    ASSUME NEW e, NEW v \in Views, Typed(e), Talks(e, v), e.fin_sent = FALSE,
           NEW k \in 1 .. Len(e.app_buf), k <= TextMax
    PROVE  LET n == SendChunk(e, SubSeq(e.app_buf, 1, k)) IN
           /\ Talks(n, v) /\ Typed(n) /\ Only(e, n, Segmenting)
           /\ n.app_buf = SubSeq(e.app_buf, k + 1, Len(e.app_buf))
           /\ n.retx # <<>> /\ n.rt_timer = TRUE
<1> DEFINE chunk == SubSeq(e.app_buf, 1, k)
           rest == SubSeq(e.app_buf, k + 1, Len(e.app_buf))
           cut == [e EXCEPT !.app_buf = rest]
           o == Entry(cut, {"ACK"}, chunk)
           n == QueueAndSend(cut, {"ACK"}, chunk)
           p == sub(e.snd_nxt, v.base)
<1> SUFFICES /\ Talks(SendChunk(e, chunk), v) /\ Typed(SendChunk(e, chunk))
             /\ Only(e, SendChunk(e, chunk), Segmenting)
             /\ SendChunk(e, chunk).app_buf = rest
             /\ SendChunk(e, chunk).retx # <<>> /\ SendChunk(e, chunk).rt_timer = TRUE
  OBVIOUS
<1>1. /\ e.app_buf \in Seq(Bytes) /\ e.snd_nxt \in SeqNums /\ e.retx \in Seq(QueueEntries)
      /\ e.snd_una \in SeqNums
  BY Reads
<1>2. /\ chunk \in Seq(Bytes) /\ Len(chunk) = k /\ \A j \in 1 .. k : chunk[j] = e.app_buf[j]
      /\ rest \in Seq(Bytes) /\ Len(rest) = Len(e.app_buf) - k
      /\ \A j \in 1 .. Len(rest) : rest[j] = e.app_buf[j + k]
  <2>1. Len(e.app_buf) \in Nat
    BY <1>1
  <2>2. /\ chunk \in Seq(Bytes) /\ Len(chunk) = k /\ \A j \in 1 .. k : chunk[j] = e.app_buf[j]
    BY <1>1, <2>1, SubSeqProperties
  <2>3. rest \in Seq(Bytes) /\ Len(rest) = Len(e.app_buf) - k
    BY <1>1, <2>1, SubSeqProperties
  <2>4. \A j \in 1 .. Len(rest) : rest[j] = e.app_buf[j + k]
    BY <1>1, <2>1, <2>3, SubSeqProperties
  <2> QED BY <2>2, <2>3, <2>4
<1>3. SendChunk(e, chunk) = n
  BY <1>2 DEF SendChunk
<1>4. Len(chunk) \in 1 .. TextMax /\ chunk # <<>> /\ MayCarry({"ACK"}, chunk)
  BY <1>2, Halves DEF MayCarry
<1>5. Typed(n) /\ Only(e, n, Segmenting)
  BY <1>2, <1>3, <1>4, SendChunkFrame
<1> HIDE DEF chunk, rest
<1>6. Typed(cut) /\ Only(e, cut, {"app_buf"}) /\ cut.app_buf = rest
  <2>1. rest \in EngineTypes["app_buf"]
    BY <1>2, FieldTypes
  <2>2. Typed(cut)
    BY <2>1, FieldNames, Zenon DEF Typed
  <2>3. Only(e, cut, {"app_buf"}) /\ cut.app_buf = rest
    BY FieldNames DEF Only, Typed
  <2> QED BY <2>2, <2>3
<1> HIDE DEF cut
<1>7. /\ Only(cut, n, Queueing)
      /\ o \in QueueEntries /\ n.retx = Append(cut.retx, o) /\ n.snd_nxt = End(o)
      /\ n.rtt_pending = (IF cut.rtt_pending = None THEN End(o) ELSE cut.rtt_pending)
      /\ n.rt_timer = TRUE
      /\ n.out = Append(cut.out, Segment(cut, cut.snd_nxt, {"ACK"}, chunk))
  <2>1. {"ACK"} \in {{"ACK"}, {"ACK", "FIN"}}
    OBVIOUS
  <2>2. chunk \in Seq(Bytes)
    BY <1>2
  <2>3. MayCarry({"ACK"}, chunk) /\ ({"ACK"} = {"ACK"} => chunk # <<>>)
    BY <1>4
  <2>4. Typed(cut)
    BY <1>6
  <2>5. Only(cut, n, Queueing)
    BY <2>1, <2>2, <2>3, <2>4, Queued
  <2>6. o \in QueueEntries
    BY <2>1, <2>2, <2>3, <2>4, Queued
  <2>7. n.retx = Append(cut.retx, o) /\ n.snd_nxt = End(o)
    BY <2>1, <2>2, <2>3, <2>4, Queued
  <2>8. n.rtt_pending = (IF cut.rtt_pending = None THEN End(o) ELSE cut.rtt_pending)
    BY <2>1, <2>2, <2>3, <2>4, Queued
  <2>9. n.rt_timer = TRUE
    BY <2>1, <2>2, <2>3, <2>4, Queued
  <2>10. n.out = Append(cut.out, Segment(cut, cut.snd_nxt, {"ACK"}, chunk))
    BY <2>1, <2>2, <2>3, <2>4, Queued
  <2> QED BY <2>5, <2>6, <2>7, <2>8, <2>9, <2>10
<1>8. Receiver(n, v)
  <2>1. Receiver(cut, v)
    BY <1>6, ReceiverKept DEF Talks, ReceiverFields
  <2> QED BY <1>2, <1>4, <1>6, <2>1, QueueReceiver
<1>9. /\ cut.snd_nxt = e.snd_nxt /\ cut.retx = e.retx /\ cut.rtt_pending = e.rtt_pending
      /\ cut.out = e.out /\ cut.rcv_nxt = e.rcv_nxt
  BY <1>6, FieldNames DEF Only
<1>10. o.seq = e.snd_nxt /\ o.flags = {"ACK"} /\ o.payload = chunk /\ o.retransmitted = FALSE
  BY <1>9 DEF Entry
<1> HIDE DEF n, o
<1>11. /\ n.snd_una = e.snd_una /\ n.app_buf = rest /\ n.fin_pending = e.fin_pending
       /\ n.fin_sent = e.fin_sent /\ n.fin_acked = e.fin_acked /\ n.fin_seq = e.fin_seq
       /\ n.rcv_nxt = e.rcv_nxt
  BY <1>6, <1>7, FieldNames DEF Only, Queueing, Emitted
<1>12. SegLen(o) = k /\ n.snd_nxt \in SeqNums
  BY <1>2, <1>5, <1>7, <1>10, EntryTakes, Reads
<1>13. /\ p \in Nat /\ p <= v.sent + 1 /\ p < HALF /\ p + k <= v.sent
       /\ p + Len(e.app_buf) = v.sent /\ From(p, e.app_buf)
       /\ sub(e.snd_una, v.base) <= p
  <2>1. p + Len(e.app_buf) = v.sent /\ From(p, e.app_buf)
    BY ViewReads, Position, <1>1 DEF Talks, Sender, Unsent, Count
  <2>2. p \in Nat /\ p <= v.sent + 1 /\ p < HALF /\ sub(e.snd_una, v.base) <= p
    BY SentWithin DEF Talks
  <2> QED BY <2>1, <2>2, <1>1
<1>14. From(p, chunk)
  <2> SUFFICES ASSUME NEW j \in 1 .. Len(chunk) PROVE chunk[j] = p + j
    BY DEF From
  <2>1. j \in 1 .. Len(e.app_buf) /\ chunk[j] = e.app_buf[j]
    BY <1>1, <1>2
  <2> QED BY <2>1, <1>13 DEF From
<1>15. sub(n.snd_nxt, v.base) = p + k /\ Laid(n.retx, n.snd_una, n.snd_nxt, v.base)
  <2>1. p + SegLen(o) < MOD
    BY <1>12, <1>13, ViewReads, Halves
  <2>2. Laid(e.retx, e.snd_una, e.snd_nxt, v.base)
    BY DEF Talks, Sender
  <2>3. v.base \in SeqNums
    BY ViewReads
  <2>4. /\ sub(End(o), v.base) = p + SegLen(o)
        /\ Laid(Append(e.retx, o), e.snd_una, End(o), v.base)
    BY <1>1, <1>7, <1>10, <1>14, <2>1, <2>2, <2>3, LaidMore
  <2> QED BY <2>4, <1>7, <1>9, <1>11, <1>12
<1> HIDE DEF p
<1>16. Timing(n)
  <2>1. Timing(e)
    BY DEF Talks, Sender
  <2>2. n.retx = Append(e.retx, o)
    BY <1>7, <1>9
  <2>3. n.rtt_pending = IF e.rtt_pending = None THEN End(o) ELSE e.rtt_pending
    BY <1>7, <1>9
  <2> QED BY <1>1, <1>7, <1>10, <2>1, <2>2, <2>3, TimingMore
<1>17. Unsent(n, v)
  <2>1. p + k + Len(rest) = v.sent
    <3> DEFINE a == Len(e.app_buf)
               b == Len(rest)
    <3>1. p \in Nat /\ a \in Nat /\ k \in Nat /\ b = a - k /\ p + a = v.sent
      BY <1>1, <1>2, <1>13
    <3> HIDE DEF a, b
    <3> QED BY <3>1 DEF b
  <2>2. From(p + k, rest)
    <3> SUFFICES ASSUME NEW j \in 1 .. Len(rest) PROVE rest[j] = p + k + j
      BY DEF From
    <3>1. j + k \in 1 .. Len(e.app_buf) /\ rest[j] = e.app_buf[j + k]
      BY <1>1, <1>2
    <3>2. e.app_buf[j + k] = p + (j + k)
      BY <3>1, <1>13 DEF From
    <3> QED BY <3>1, <3>2, <1>13
  <2>3. n.fin_sent = FALSE
    BY <1>11
  <2> QED BY <2>1, <2>2, <2>3, <1>11, <1>15, ViewReads DEF Unsent, Count
<1>18. FinLaid(n, v)
  <2>1. FinLaid(e, v)
    BY DEF Talks, Sender
  <2>2. n.fin_sent = FALSE /\ (n.fin_pending <=> v.ended) /\ ~n.fin_acked
    BY <2>1, <1>11 DEF FinLaid
  <2>3. ASSUME NEW i \in 1 .. Len(n.retx) PROVE "FIN" \notin n.retx[i].flags
    <3>1. n.retx = Append(e.retx, o)
      BY <1>7, <1>9
    <3>2. CASE i = Len(e.retx) + 1
      <4>1. n.retx[i] = o
        BY <3>1, <3>2, <1>1
      <4> QED BY <4>1, <1>10
    <3>3. CASE i # Len(e.retx) + 1
      <4>1. i \in 1 .. Len(e.retx) /\ n.retx[i] = e.retx[i]
        BY <3>1, <3>3, <1>1
      <4> QED BY <4>1, <2>1 DEF FinLaid
    <3> QED BY <3>2, <3>3
  <2> QED BY <2>2, <2>3 DEF FinLaid
<1>19. Sender(n, v)
  <2>1. sub(e.snd_una, v.base) <= v.taken /\ sub(e.snd_una, v.base) \in v.acks
    BY DEF Talks, Sender
  <2>2. sub(e.snd_una, v.base) \in Nat
    BY SentWithin DEF Talks
  <2>3. sub(n.snd_una, v.base) <= sub(n.snd_nxt, v.base)
    BY <1>11, <1>13, <1>15, <2>2
  <2> QED BY <1>11, <1>15, <1>16, <1>17, <1>18, <2>1, <2>3 DEF Sender
<1>20. Says(n, v)
  <2> DEFINE seg == Segment(cut, cut.snd_nxt, {"ACK"}, chunk)
  <2>1. seg.seq = e.snd_nxt /\ seg.flags = {"ACK"} /\ seg.payload = chunk /\ seg.ack = e.rcv_nxt
    BY <1>9 DEF Segment
  <2>2. n.out = Append(e.out, seg)
    BY <1>7, <1>9
  <2> HIDE DEF seg
  <2>3. Genuine(seg, v.base, v.sent, sub(n.snd_nxt, v.base))
    BY <2>1, <1>2, <1>13, <1>14, <1>15 DEF Genuine, p
  <2>4. sub(e.rcv_nxt, v.pbase) \in Nat
    BY GotWithin DEF Talks
  <2>5. Honest(seg, v.pbase, sub(n.rcv_nxt, v.pbase))
    BY <2>1, <2>4, <1>11 DEF Honest
  <2>6. /\ sub(e.snd_nxt, v.base) <= sub(n.snd_nxt, v.base)
        /\ sub(n.snd_nxt, v.base) <= v.sent + 1
        /\ sub(e.rcv_nxt, v.pbase) <= sub(n.rcv_nxt, v.pbase)
    BY <1>11, <1>13, <1>15, <2>4, ViewReads DEF p
  <2>7. Says(e, v)
    BY DEF Talks
  <2>8. Recent(seg, e, v)
    BY <2>1, <2>7, <1>13 DEF Recent, Says, p
  <2> QED BY <1>5, <1>11, <2>2, <2>3, <2>5, <2>6, <2>7, <2>8, SaysMore
<1>21. n.retx # <<>>
  <2>1. n.retx = Append(e.retx, o)
    BY <1>7, <1>9
  <2>2. e.retx \in Seq(QueueEntries) /\ o \in QueueEntries
    BY <1>1, <1>7
  <2> QED BY <2>1, <2>2
<1> QED BY <1>3, <1>5, <1>7, <1>8, <1>11, <1>19, <1>20, <1>21 DEF Talks

\* A part of what was cut off.
LEMMA Cuts ==
    ASSUME NEW s \in Seq(Bytes), NEW a \in 0 .. Len(s), NEW b \in a .. Len(s)
    PROVE  LET rest == SubSeq(s, a + 1, Len(s)) IN
           /\ rest \in Seq(Bytes) /\ Len(rest) = Len(s) - a
           /\ SubSeq(rest, 1, b - a) = SubSeq(s, a + 1, b)
           /\ SubSeq(rest, b - a + 1, Len(rest)) = SubSeq(s, b + 1, Len(s))
<1> DEFINE rest == SubSeq(s, a + 1, Len(s))
           front == SubSeq(s, a + 1, b)
           back == SubSeq(s, b + 1, Len(s))
<1>0. Len(s) \in Nat /\ a \in Nat /\ b \in Nat /\ a <= b /\ b <= Len(s)
  OBVIOUS
<1>1. rest \in Seq(Bytes) /\ Len(rest) = Len(s) - a
  BY <1>0, SubSeqProperties
<1>2. \A j \in 1 .. Len(rest) : rest[j] = s[j + a]
  BY <1>0, <1>1, SubSeqProperties
<1>3. front \in Seq(Bytes) /\ Len(front) = b - a
  BY <1>0, SubSeqProperties
<1>4. \A j \in 1 .. Len(front) : front[j] = s[j + a]
  BY <1>0, <1>3, SubSeqProperties
<1>5. back \in Seq(Bytes) /\ Len(back) = Len(s) - b
  BY <1>0, SubSeqProperties
<1>6. \A j \in 1 .. Len(back) : back[j] = s[j + b]
  BY <1>0, <1>5, SubSeqProperties
<1> HIDE DEF rest, front, back
<1> DEFINE first == SubSeq(rest, 1, b - a)
           last == SubSeq(rest, b - a + 1, Len(rest))
<1>7. first \in Seq(Bytes) /\ Len(first) = b - a
  BY <1>0, <1>1, SubSeqProperties
<1>8. \A j \in 1 .. Len(first) : first[j] = rest[j]
  BY <1>0, <1>1, <1>7, SubSeqProperties
<1>9. last \in Seq(Bytes) /\ Len(last) = Len(s) - b
  BY <1>0, <1>1, SubSeqProperties
<1>10. \A j \in 1 .. Len(last) : last[j] = rest[j + (b - a)]
  BY <1>0, <1>1, <1>9, SubSeqProperties
<1> HIDE DEF first, last
<1>11. first = front
  <2>1. ASSUME NEW j \in 1 .. Len(first) PROVE first[j] = front[j]
    <3>1. j \in 1 .. Len(rest) /\ j \in 1 .. Len(front)
      BY <1>0, <1>1, <1>3, <1>7
    <3> QED BY <3>1, <1>2, <1>4, <1>8
  <2> QED BY <2>1, <1>3, <1>7, SeqEqual
<1>12. last = back
  <2>1. ASSUME NEW j \in 1 .. Len(last) PROVE last[j] = back[j]
    <3>1. j + (b - a) \in 1 .. Len(rest) /\ j \in 1 .. Len(back) /\ j \in Int
      BY <1>0, <1>1, <1>5, <1>9
    <3>2. rest[j + (b - a)] = s[(j + (b - a)) + a]
      BY <3>1, <1>2
    <3>3. (j + (b - a)) + a = j + b
      BY <1>0, <3>1
    <3> QED BY <3>1, <3>2, <3>3, <1>6, <1>10
  <2> QED BY <2>1, <1>5, <1>9, SeqEqual
<1> QED BY <1>1, <1>11, <1>12 DEF rest, front, back, first, last

\* The segmentation loop.
LEMMA SendDataTalks ==
    ASSUME NEW e, NEW v \in Views, Typed(e), Talks(e, v)
    PROVE  /\ Talks(SendData(e), v)
           /\ \/ SendData(e) = e
              \/ SendData(e).retx # <<>> /\ SendData(e).rt_timer = TRUE
           /\ e.snd_wnd # 0 /\ Len(Chunks(e)) # 0 => SendData(e).retx # <<>>
<1> DEFINE n == Len(Chunks(e))
           After(g) == /\ Typed(g) /\ Only(e, g, Segmenting) /\ Talks(g, v)
           rest(k) == SubSeq(e.app_buf, Gone(e, k) + 1, Len(e.app_buf))
<1>1. n \in Nat
  BY ChunksAre
<1>2. PICK after :
         /\ after[0] = e
         /\ \A k \in 1 .. n : after[k] = SendChunk(after[k - 1], Chunks(e)[k])
         /\ SendData(e) = IF e.snd_wnd = 0 THEN e ELSE after[n]
  BY <1>1, SendDataSteps
<1> DEFINE G == {k \in 0 .. n : /\ After(after[k]) /\ after[k].app_buf = rest(k)
                                /\ k > 0 => after[k].retx # <<>> /\ after[k].rt_timer = TRUE}
<1>0. e.app_buf \in Seq(Bytes) /\ Len(e.app_buf) \in Nat
  BY Reads
<1>3. 0 \in G
  <2>1. Gone(e, 0) = 0
    BY ChunksAre
  <2>2. SubSeq(e.app_buf, 1, Len(e.app_buf)) = e.app_buf
    <3> DEFINE t == SubSeq(e.app_buf, 1, Len(e.app_buf))
    <3>1. t \in Seq(Bytes) /\ Len(t) = Len(e.app_buf)
      BY <1>0, SubSeqProperties
    <3>2. \A j \in 1 .. Len(t) : t[j] = e.app_buf[j]
      BY <1>0, <3>1, SubSeqProperties
    <3> HIDE DEF t
    <3>3. t = e.app_buf
      BY <1>0, <3>1, <3>2, SeqEqual
    <3> QED BY <3>3 DEF t
  <2>3. rest(0) = e.app_buf
    BY <2>1, <2>2
  <2>4. After(after[0])
    BY <1>2 DEF Only
  <2> HIDE DEF rest, After
  <2> QED BY <1>1, <1>2, <2>3, <2>4
<1>4. ASSUME NEW k \in 1 .. n, k - 1 \in G PROVE k \in G
  <2> DEFINE a == Gone(e, k - 1)
             b == Gone(e, k)
             g == after[k - 1]
             h == after[k]
  <2>1. /\ Chunks(e)[k] = SubSeq(e.app_buf, a + 1, b)
        /\ b - a \in 1 .. TextMax /\ b \in 1 .. Len(e.app_buf) /\ a \in 0 .. Len(e.app_buf)
    BY ChunksAre
  <2>2. Typed(g) /\ Only(e, g, Segmenting) /\ Talks(g, v) /\ g.app_buf = SubSeq(e.app_buf, a + 1, Len(e.app_buf))
    BY <1>4
  <2>3. h = SendChunk(g, Chunks(e)[k])
    BY <1>2
  <2> HIDE DEF a, b, g, h
  <2>4. b \in a .. Len(e.app_buf) /\ b - a \in Nat
    BY <1>0, <2>1, Halves
  <2>5. /\ Len(g.app_buf) = Len(e.app_buf) - a
        /\ SubSeq(g.app_buf, 1, b - a) = SubSeq(e.app_buf, a + 1, b)
        /\ SubSeq(g.app_buf, b - a + 1, Len(g.app_buf)) = SubSeq(e.app_buf, b + 1, Len(e.app_buf))
    BY <1>0, <2>1, <2>2, <2>4, Cuts
  <2>6. b - a \in 1 .. Len(g.app_buf) /\ b - a <= TextMax
    BY <1>0, <2>1, <2>4, <2>5, Halves
  <2>7. g.fin_sent = FALSE
    <3>1. g.app_buf # <<>>
      BY <2>6
    <3>2. g.fin_sent \in BOOLEAN
      BY <2>2, Reads
    <3> QED BY <2>2, <3>1, <3>2 DEF Talks, Sender, FinLaid
  <2>8. /\ Talks(h, v) /\ Typed(h) /\ Only(g, h, Segmenting)
        /\ h.app_buf = SubSeq(e.app_buf, b + 1, Len(e.app_buf))
        /\ h.retx # <<>> /\ h.rt_timer = TRUE
    <3>1. h = SendChunk(g, SubSeq(g.app_buf, 1, b - a))
      BY <2>1, <2>3, <2>5
    <3> QED BY <2>2, <2>5, <2>6, <2>7, <3>1, ChunkTalks
  <2>9. Only(e, h, Segmenting)
    BY <2>2, <2>8 DEF Only
  <2>10. k \in 0 .. n
    BY <1>1
  <2> QED BY <2>8, <2>9, <2>10 DEF h, b
<1>5. n \in G
  <2> HIDE DEF G, n
  <2> QED BY <1>1, <1>3, <1>4, Climb
<1>6. CASE n = 0 \/ e.snd_wnd = 0
  BY <1>2, <1>6
<1>7. CASE n # 0 /\ e.snd_wnd # 0
  BY <1>1, <1>2, <1>5, <1>7
<1> QED BY <1>6, <1>7

\* With nothing outstanding all of the window may be used.
LEMMA WindowIsUsable ==
    ASSUME NEW e, Typed(e), e.snd_wnd # 0, e.snd_una = e.snd_nxt
    PROVE  UsableWindow(e) >= 1 /\ UsableWindow(e) \in Nat
<1>1. e.snd_wnd \in 0 .. RCV_WND /\ e.snd_una \in SeqNums
  BY Reads
<1>2. UsableWindow(e) = e.snd_wnd
  <2> DEFINE w == e.snd_wnd
             right == add(e.snd_una, w)
  <2>1. w \in Nat /\ w < HALF /\ w <= MOD
    BY <1>1, Halves
  <2>2. sub(e.snd_una, e.snd_una) = 0
    BY <1>1, Position
  <2>3. sub(right, e.snd_una) = w
    BY <1>1, <2>1, <2>2, Onward, Halves
  <2>4. w \in SeqNums
    BY <2>1, Halves DEF SeqNums
  <2>5. s32(w) = w
    BY <2>1, <2>4, Signed
  <2> QED BY <2>3, <2>5 DEF UsableWindow
<1> QED BY <1>1, <1>2

\* Through an open window with nothing outstanding something goes out.
LEMMA SomethingGoes ==
    ASSUME NEW e, Typed(e), e.snd_wnd # 0, e.retx = <<>>, e.snd_una = e.snd_nxt,
           e.app_buf # <<>>
    PROVE  Len(Chunks(e)) # 0
<1> DEFINE total == Sendable(e)
           full == total \div MSS
           rest == total % MSS
<1>3. e.app_buf \in Seq(Bytes) /\ e.snd_wnd \in 0 .. RCV_WND /\ e.snd_una \in SeqNums
  BY Reads
<1>4. UsableWindow(e) >= 1 /\ UsableWindow(e) \in Nat
  BY WindowIsUsable
<1>5. total \in Nat /\ total > 0
  BY <1>3, <1>4, Halves DEF Sendable, Least
<1>6. Chunks(e) = [i \in 1 .. full + Count(rest > 0 /\ TailMayGo(e, full)) |->
                      SubSeq(e.app_buf, (i - 1) * MSS + 1, Least(i * MSS, total))]
  BY DEF Chunks, Sendable
<1> HIDE DEF total
<1>7. full \in Nat /\ rest \in Nat /\ total = MSS * full + rest
  BY <1>5, Halves
<1> HIDE DEF full, rest
<1>8. full = 0 => rest > 0 /\ TailMayGo(e, full)
  BY <1>5, <1>7, Halves DEF TailMayGo
<1>9. Len(Chunks(e)) = full + Count(rest > 0 /\ TailMayGo(e, full))
  BY <1>6, <1>7 DEF Count
<1> QED BY <1>7, <1>8, <1>9 DEF Count

\* Our FIN takes the number after the last byte.
LEMMA EmitFinTalks ==
    ASSUME NEW e, NEW v \in Views, Typed(e), Talks(e, v), FinDue(e)
    PROVE  LET n == EmitFin(e) IN
           /\ Talks(n, v) /\ n.retx # <<>> /\ n.rt_timer = TRUE
           /\ n.fin_sent = TRUE /\ n.fin_acked = FALSE
<1> DEFINE q == QueueAndSend(e, {"ACK", "FIN"}, <<>>)
           m == [q EXCEPT !.fin_seq = e.snd_nxt, !.fin_sent = TRUE]
           o == Entry(e, {"ACK", "FIN"}, <<>>)
           n == EmitFin(e)
           p == sub(e.snd_nxt, v.base)
<1> SUFFICES /\ Talks(n, v) /\ n.retx # <<>> /\ n.rt_timer = TRUE
             /\ n.fin_sent = TRUE /\ n.fin_acked = FALSE
  OBVIOUS
<1>1. /\ e.app_buf = <<>> /\ e.fin_pending = TRUE /\ e.fin_sent = FALSE /\ e.fin_acked = FALSE
      /\ e.snd_nxt \in SeqNums /\ e.retx \in Seq(QueueEntries) /\ e.snd_una \in SeqNums
  <2>1. e.fin_pending \in BOOLEAN /\ e.fin_sent \in BOOLEAN /\ e.fin_acked \in BOOLEAN
    BY Reads
  <2> QED BY <2>1, Reads DEF FinDue, Talks, Sender, FinLaid
<1>2. /\ {"ACK", "FIN"} \in {{"ACK"}, {"ACK", "FIN"}} /\ <<>> \in Seq(Bytes)
      /\ MayCarry({"ACK", "FIN"}, <<>>) /\ ({"ACK", "FIN"} = {"ACK"} => <<>> # <<>>)
      /\ {"ACK", "FIN"} # {"ACK"}
  BY DEF MayCarry
<1>3. Typed(q) /\ Only(e, q, Queueing)
  BY <1>2, Queued
<1>4. o \in QueueEntries
  BY <1>2, Queued
<1>5. q.retx = Append(e.retx, o) /\ q.snd_nxt = End(o)
  BY <1>2, Queued
<1>6. q.rtt_pending = (IF e.rtt_pending = None THEN End(o) ELSE e.rtt_pending)
  BY <1>2, Queued
<1>7. q.rt_timer = TRUE
  BY <1>2, Queued
<1>8. q.out = Append(e.out, Segment(e, e.snd_nxt, {"ACK", "FIN"}, <<>>))
  BY <1>2, Queued
<1>9. Receiver(q, v)
  <2>1. {"ACK", "FIN"} \in {{"SYN"}, {"SYN", "ACK"}, {"ACK"}, {"ACK", "FIN"}}
    OBVIOUS
  <2> QED BY <1>2, <2>1, QueueReceiver DEF Talks
<1>10. o.seq = e.snd_nxt /\ o.flags = {"ACK", "FIN"} /\ o.payload = <<>> /\ o.retransmitted = FALSE
  BY DEF Entry
<1>11. n = SetState(m, AfterOurFin(e.state))
  BY DEF EmitFin
<1> HIDE DEF q, o, n
<1>12. Typed(m) /\ Only(q, m, {"fin_seq", "fin_sent"}) /\ m.fin_seq = e.snd_nxt /\ m.fin_sent = TRUE
  <2>1. e.snd_nxt \in EngineTypes["fin_seq"]
    BY <1>1, FieldTypes
  <2>2. Typed(m)
    BY <1>3, <2>1, Values, FieldNames, Zenon DEF Typed
  <2>3. Only(q, m, {"fin_seq", "fin_sent"}) /\ m.fin_seq = e.snd_nxt /\ m.fin_sent = TRUE
    BY <1>3, FieldNames DEF Only, Typed
  <2> QED BY <2>2, <2>3
<1> HIDE DEF m
<1>13. /\ m.snd_una = e.snd_una /\ m.app_buf = <<>> /\ m.fin_pending = TRUE
       /\ m.fin_acked = FALSE /\ m.rcv_nxt = e.rcv_nxt /\ m.snd_nxt = q.snd_nxt
       /\ m.retx = q.retx /\ m.rtt_pending = q.rtt_pending /\ m.out = q.out
       /\ m.rt_timer = TRUE
  BY <1>1, <1>3, <1>7, <1>12, FieldNames DEF Only, Queueing, Emitted
<1>14. SegLen(o) = 1 /\ m.snd_nxt \in SeqNums /\ m.snd_nxt = add(e.snd_nxt, 1)
  <2>1. SegLen(o) = 1 /\ End(o) \in SeqNums
    BY <1>2, <1>4, <1>10, EntryTakes
  <2>2. End(o) = add(e.snd_nxt, 1)
    BY <1>10, <2>1 DEF End
  <2> QED BY <1>5, <1>13, <2>1, <2>2
<1>15. /\ p \in Nat /\ p = v.sent /\ p < HALF /\ sub(e.snd_una, v.base) <= p
       /\ sub(e.snd_una, v.base) \in Nat
  <2>1. p + Len(e.app_buf) = v.sent + Count(e.fin_sent)
    BY DEF Talks, Sender, Unsent
  <2>2. p \in Nat /\ p < HALF /\ sub(e.snd_una, v.base) <= p /\ sub(e.snd_una, v.base) \in Nat
    BY SentWithin DEF Talks
  <2>3. Len(e.app_buf) = 0 /\ Count(e.fin_sent) = 0 /\ v.sent \in Nat
    BY <1>1, ViewReads DEF Count
  <2> QED BY <2>1, <2>2, <2>3
<1>16. sub(m.snd_nxt, v.base) = p + 1 /\ Laid(m.retx, m.snd_una, m.snd_nxt, v.base)
  <2>1. p + SegLen(o) < MOD
    BY <1>14, <1>15, Halves
  <2>2. Laid(e.retx, e.snd_una, e.snd_nxt, v.base)
    BY DEF Talks, Sender
  <2>3. v.base \in SeqNums
    BY ViewReads
  <2>4. From(p, o.payload) /\ o.flags \in {{"ACK"}, {"ACK", "FIN"}}
    BY <1>10 DEF From
  <2>5. /\ sub(End(o), v.base) = p + SegLen(o)
        /\ Laid(Append(e.retx, o), e.snd_una, End(o), v.base)
    BY <1>1, <1>4, <1>10, <2>1, <2>2, <2>3, <2>4, LaidMore
  <2> QED BY <2>5, <1>5, <1>13, <1>14
<1>17. Timing(m)
  <2>1. Timing(e)
    BY DEF Talks, Sender
  <2>2. m.retx = Append(e.retx, o)
    BY <1>5, <1>13
  <2>3. m.rtt_pending = IF e.rtt_pending = None THEN End(o) ELSE e.rtt_pending
    BY <1>6, <1>13
  <2> QED BY <1>1, <1>4, <1>10, <2>1, <2>2, <2>3, TimingMore
<1>18. Unsent(m, v)
  BY <1>12, <1>13, <1>15, <1>16 DEF Unsent, Count, From
<1>19. m.retx # <<>>
  BY <1>1, <1>5, <1>13
<1>20. FinLaid(m, v)
  <2>1. FinLaid(e, v)
    BY DEF Talks, Sender
  <2>2. /\ m.fin_pending <=> v.ended
        /\ m.fin_sent => m.app_buf = <<>> /\ m.fin_pending /\ m.snd_nxt = add(m.fin_seq, 1)
        /\ m.fin_acked => m.fin_sent
        /\ m.fin_sent => (m.fin_acked <=> m.retx = <<>>)
    BY <2>1, <1>1, <1>12, <1>13, <1>14, <1>19 DEF FinLaid
  <2>3. ASSUME NEW i \in 1 .. Len(m.retx)
        PROVE  "FIN" \in m.retx[i].flags <=> i = Len(m.retx) /\ m.fin_sent
    <3>1. m.retx = Append(e.retx, o) /\ Len(m.retx) = Len(e.retx) + 1 /\ Len(e.retx) \in Nat
      BY <1>1, <1>5, <1>13
    <3>2. CASE i = Len(e.retx) + 1
      <4>1. m.retx[i] = o
        BY <3>1, <3>2, <1>1
      <4> QED BY <4>1, <1>10, <1>12, <3>1, <3>2
    <3>3. CASE i # Len(e.retx) + 1
      <4>1. i \in 1 .. Len(e.retx) /\ m.retx[i] = e.retx[i] /\ i # Len(m.retx)
        BY <3>1, <3>3, <1>1
      <4>2. "FIN" \notin e.retx[i].flags
        BY <4>1, <2>1, <1>1 DEF FinLaid
      <4> QED BY <4>1, <4>2
    <3> QED BY <3>2, <3>3
  <2> QED BY <2>2, <2>3 DEF FinLaid
<1>21. Sender(m, v)
  <2>1. sub(e.snd_una, v.base) <= v.taken /\ sub(e.snd_una, v.base) \in v.acks
    BY DEF Talks, Sender
  <2>2. sub(m.snd_una, v.base) <= sub(m.snd_nxt, v.base)
    BY <1>13, <1>15, <1>16
  <2> QED BY <1>13, <1>16, <1>17, <1>18, <1>20, <2>1, <2>2 DEF Sender
<1>22. Receiver(m, v)
  BY <1>9, <1>12, ReceiverKept DEF ReceiverFields
<1>23. Says(m, v)
  <2> DEFINE seg == Segment(e, e.snd_nxt, {"ACK", "FIN"}, <<>>)
  <2>1. /\ seg.seq = e.snd_nxt /\ seg.flags = {"ACK", "FIN"} /\ seg.payload = <<>>
        /\ seg.ack = e.rcv_nxt
    BY DEF Segment
  <2>2. m.out = Append(e.out, seg)
    BY <1>8, <1>13
  <2> HIDE DEF seg
  <2>3. Genuine(seg, v.base, v.sent, sub(m.snd_nxt, v.base))
    BY <2>1, <1>15, <1>16 DEF Genuine, p
  <2>4. sub(e.rcv_nxt, v.pbase) \in Nat
    BY GotWithin DEF Talks
  <2>5. Honest(seg, v.pbase, sub(m.rcv_nxt, v.pbase))
    BY <2>1, <2>4, <1>13 DEF Honest
  <2>6. /\ sub(e.snd_nxt, v.base) <= sub(m.snd_nxt, v.base)
        /\ sub(m.snd_nxt, v.base) <= v.sent + 1
        /\ sub(e.rcv_nxt, v.pbase) <= sub(m.rcv_nxt, v.pbase)
    BY <1>13, <1>15, <1>16, <2>4 DEF p
  <2>7. Says(e, v)
    BY DEF Talks
  <2>8. Recent(seg, e, v)
    BY <2>1, <2>7, <1>15 DEF Recent, Says, p
  <2> QED BY <1>12, <1>13, <2>2, <2>3, <2>5, <2>6, <2>7, <2>8, SaysMore
<1>24. AfterOurFin(e.state) \in States
  <2>1. e.state \in States
    BY Reads
  <2> QED BY <2>1 DEF AfterOurFin, States, StatesBeforeFin
<1>25. Typed(n) /\ Only(m, n, Moving)
  BY <1>11, <1>12, <1>24, SetStateFrame
<1>26. Talks(n, v)
  <2>1. Talks(m, v)
    BY <1>21, <1>22, <1>23 DEF Talks
  <2>2. Moving \cap TalkFields = {}
    BY DEF Moving, TalkFields, SenderFields, ReceiverFields
  <2> QED BY <1>25, <2>1, <2>2, TalksKept
<1>27. /\ n.retx = m.retx /\ n.rt_timer = m.rt_timer /\ n.fin_sent = m.fin_sent
       /\ n.fin_acked = m.fin_acked
  BY <1>25, FieldNames DEF Only, Moving
<1> QED BY <1>12, <1>13, <1>19, <1>26, <1>27

\* A timer set or stopped, the connection moved: not what is said.
LEMMA ArmPersistTalks ==
    ASSUME NEW e, NEW v, Typed(e), Talks(e, v)
    PROVE  Talks(ArmPersist(e), v) /\ Only(e, ArmPersist(e), {"persist_timer"})
<1>1. {"persist_timer"} \cap TalkFields = {}
  BY DEF TalkFields, SenderFields, ReceiverFields
<1> QED BY <1>1, TimerFrames, TalksKept

\* The send path as a whole keeps the bookkeeping, and leaves nothing that may
\* be sent without a timer.
LEMMA SendPendingTalks ==
    ASSUME NEW e, NEW v \in Views, Typed(e), Talks(e, v)
    PROVE  LET n == SendPending(e) IN
           /\ Talks(n, v)
           /\ Timed(e) => Timed(n)
           /\ Timed(e) /\ MaySend(e) => Waits(n)
           /\ n.fin_acked = e.fin_acked
<1> DEFINE n == SendPending(e)
           m == SendData(e)
<1> SUFFICES /\ Talks(n, v) /\ (Timed(e) => Timed(n)) /\ (Timed(e) /\ MaySend(e) => Waits(n))
             /\ n.fin_acked = e.fin_acked
  OBVIOUS
<1>1. CASE ~MaySend(e)
  <2>1. n = e
    BY <1>1 DEF SendPending
  <2> QED BY <1>1, <2>1
<1>2. CASE MaySend(e)
  <2>1. n = SendFinOrWait(m)
    BY <1>2 DEF SendPending
  <2>2. Typed(m) /\ Only(e, m, Segmenting)
    BY SendDataFrame
  <2>3. /\ Talks(m, v)
        /\ m = e \/ (m.retx # <<>> /\ m.rt_timer = TRUE)
    BY SendDataTalks
  <2>3a. e.snd_wnd # 0 /\ Len(Chunks(e)) # 0 => m.retx # <<>>
    BY SendDataTalks
  <2>4. e.snd_wnd # 0 /\ m.retx = <<>> => m.app_buf = <<>> /\ m.snd_una = m.snd_nxt
    <3> SUFFICES ASSUME e.snd_wnd # 0, m.retx = <<>>
                 PROVE  m.app_buf = <<>> /\ m.snd_una = m.snd_nxt
      OBVIOUS
    <3>1. m = e
      BY <2>3
    <3>2. e.snd_una = e.snd_nxt
      BY <3>1 DEF Talks, Sender, Laid
    <3>3. ASSUME e.app_buf # <<>> PROVE FALSE
      BY <3>1, <3>2, <3>3, <2>3a, SomethingGoes
    <3> QED BY <3>1, <3>2, <3>3
  <2>5. /\ m.snd_wnd = e.snd_wnd /\ m.fin_pending = e.fin_pending /\ m.fin_sent = e.fin_sent
        /\ m.state = e.state /\ m.fin_acked = e.fin_acked
    BY <2>2, FieldNames DEF Only, Segmenting, Queueing, Emitted
  <2>6. Timed(e) => Timed(m)
    BY <2>3 DEF Timed
  <2> HIDE DEF m, n
  <2>7. CASE Blocked(m)
    <3>1. n = ArmPersist(m)
      BY <2>1, <2>7 DEF SendFinOrWait
    <3>2. Talks(n, v) /\ Only(m, n, {"persist_timer"}) /\ n.persist_timer = TRUE
      BY <2>2, <2>3, <3>1, ArmPersistTalks, TimerFrames
    <3>3. n.rt_timer = m.rt_timer /\ n.retx = m.retx /\ n.fin_acked = m.fin_acked
      BY <3>2, FieldNames DEF Only
    <3>4. Waits(n)
      BY <3>2 DEF Waits
    <3> QED BY <2>5, <2>6, <3>2, <3>3, <3>4 DEF Timed
  <2>8. CASE ~Blocked(m) /\ FinDue(m) /\ UsableWindow(m) >= 1
    <3>1. n = EmitFin(m)
      BY <2>1, <2>8 DEF SendFinOrWait
    <3>2. /\ Talks(n, v) /\ n.retx # <<>> /\ n.rt_timer = TRUE
          /\ n.fin_sent = TRUE /\ n.fin_acked = FALSE
      BY <2>2, <2>3, <2>8, <3>1, EmitFinTalks
    <3>3. m.fin_acked = FALSE
      <4>1. m.fin_acked \in BOOLEAN /\ m.fin_sent \in BOOLEAN
        BY <2>2, Reads
      <4> QED BY <4>1, <2>3, <2>8 DEF FinDue, Talks, Sender, FinLaid
    <3> QED BY <2>5, <3>2, <3>3 DEF Timed, Waits
  <2>9. CASE ~Blocked(m) /\ ~(FinDue(m) /\ UsableWindow(m) >= 1)
    <3>1. n = m
      BY <2>1, <2>9 DEF SendFinOrWait
    <3>2. ASSUME Timed(e) PROVE Waits(m)
      <4>1. CASE m.rt_timer
        BY <4>1 DEF Waits
      <4>2. CASE ~m.rt_timer
        <5>1. m.retx = <<>>
          BY <2>6, <3>2, <4>2 DEF Timed
        <5>2. CASE e.snd_wnd = 0
          BY <5>2, <2>5, <2>9 DEF Blocked, Waits, FinDue
        <5>3. CASE e.snd_wnd # 0
          <6>1. m.app_buf = <<>> /\ m.snd_una = m.snd_nxt
            BY <2>4, <5>1, <5>3
          <6>2. UsableWindow(m) >= 1
            BY <2>2, <2>5, <5>3, <6>1, WindowIsUsable
          <6> QED BY <6>1, <6>2, <2>9 DEF FinDue, Waits
        <5> QED BY <5>2, <5>3
      <4> QED BY <4>1, <4>2
    <3> QED BY <2>3, <2>5, <2>6, <3>1, <3>2
  <2> QED BY <2>7, <2>8, <2>9
<1> QED BY <1>1, <1>2

\* Sending again, the probes stopped.
LEMMA CancelPersistTalks ==
    ASSUME NEW e, NEW v \in Views, Typed(e), Talks(e, v)
    PROVE  LET n == CancelPersist(e) IN
           /\ Talks(n, v)
           /\ Timed(e) => Timed(n)
           /\ Timed(e) /\ MaySend(e) => Waits(n)
           /\ n.fin_acked = e.fin_acked
<1> DEFINE m == [e EXCEPT !.persist_timer = FALSE]
<1>1. Typed(m)
  BY Values, FieldNames, Zenon DEF Typed
<1>2. Only(e, m, {"persist_timer"})
  BY FieldNames DEF Only, Typed
<1>3. CancelPersist(e) = SendPending(m)
  BY DEF CancelPersist
<1> HIDE DEF m
<1>4. Talks(m, v)
  <2>1. {"persist_timer"} \cap TalkFields = {}
    BY DEF TalkFields, SenderFields, ReceiverFields
  <2> QED BY <1>2, <2>1, TalksKept
<1>5. /\ m.state = e.state /\ m.fin_pending = e.fin_pending /\ m.app_buf = e.app_buf
      /\ m.rt_timer = e.rt_timer /\ m.retx = e.retx /\ m.fin_acked = e.fin_acked
  BY <1>2, FieldNames DEF Only
<1>6. (MaySend(e) <=> MaySend(m)) /\ (Timed(e) <=> Timed(m))
  BY <1>5, Zenon DEF MaySend, Timed
<1> QED BY <1>1, <1>3, <1>4, <1>5, <1>6, SendPendingTalks

-------------------------------------------------------------------------------
(* Ending a connection.                                                    *)

\* What a connection leaves behind when its buffers are given up.
LEMMA Emptied ==
    ASSUME NEW e, NEW n, NEW v \in Views, Typed(e), Talks(e, v), Sound(n),
           Only(e, n, Resetting \cup Moving), n.state = "CLOSED",
           n.app_buf = <<>>, n.retx = <<>>, n.ooo = {}, n.recv_buf = <<>>,
           n.rtt_pending = None, n.pending_fin = None, n.adv_right = None,
           n.ack_timer = FALSE, n.tw_timer = FALSE
    PROVE  Shut(n, v)
<1>1. /\ n.snd_una = e.snd_una /\ n.snd_nxt = e.snd_nxt /\ n.rcv_nxt = e.rcv_nxt
      /\ n.stream = e.stream /\ n.out = e.out
  BY FieldNames DEF Only, Resetting, Moving
<1>2. Says(n, v)
  BY <1>1, Zenon DEF Talks, Says, Recent
<1>3. KeptGenuine(n, v) /\ FinNoted(n, v) /\ EdgeHeld(n, v)
  BY DEF KeptGenuine, FinNoted, EdgeHeld
<1>4. Relayed(n, v)
  BY <1>1, Zenon DEF Talks, Receiver, Relayed
<1>5. /\ sub(e.snd_nxt, v.base) <= v.sent + Count(e.fin_sent)
      /\ sub(e.snd_nxt, v.base) <= v.sent + 1
      /\ sub(e.snd_una, v.base) <= sub(e.snd_nxt, v.base)
      /\ sub(e.snd_nxt, v.base) \in Nat
  BY SentWithin DEF Talks
<1>6. sub(e.snd_nxt, v.base) = v.sent + 1 => v.ended
  <2> SUFFICES ASSUME sub(e.snd_nxt, v.base) = v.sent + 1 PROVE v.ended
    OBVIOUS
  <2>1. e.fin_sent \in BOOLEAN /\ v.sent \in Nat
    BY Reads, ViewReads
  <2>2. e.fin_sent = TRUE
    BY <1>5, <2>1 DEF Count
  <2> QED BY <2>2 DEF Talks, Sender, FinLaid
<1>7. sub(e.snd_una, v.base) <= v.taken /\ sub(e.snd_una, v.base) \in v.acks
  BY DEF Talks, Sender
<1> QED BY <1>1, <1>2, <1>3, <1>4, <1>5, <1>6, <1>7 DEF Shut, Receiver

\* _enter_closed ends a connection in whatever state it is.
LEMMA EnterClosedShut ==
    ASSUME NEW e, NEW v \in Views, Typed(e), Talks(e, v)
    PROVE  Shut(EnterClosed(e), v)
<1> DEFINE still == StopRt(e)
           idle == CancelPersist(still)
           quiet == CancelKeepalive(idle)
           stopped == [quiet EXCEPT !.tw_timer = FALSE, !.ack_timer = FALSE]
           bare == ResetBuffers(stopped)
           n == SetState(bare, "CLOSED")
<1>0. /\ {"rt_timer", "rto_count"} \cap TalkFields = {}
      /\ {"ka_timer", "ka_probes"} \cap TalkFields = {}
      /\ {"tw_timer", "ack_timer"} \cap TalkFields = {}
  BY DEF TalkFields, SenderFields, ReceiverFields
<1>1. Typed(still) /\ Talks(still, v)
  BY <1>0, TimerFrames, TalksKept
<1> HIDE DEF still
<1>2. Typed(idle) /\ Talks(idle, v)
  <2>1. Typed(idle)
    BY <1>1, CancelPersistFrame
  <2>2. Talks(idle, v)
    BY <1>1, CancelPersistTalks
  <2> QED BY <2>1, <2>2
<1> HIDE DEF idle
<1>3. Typed(quiet) /\ Talks(quiet, v)
  BY <1>0, <1>2, CancelKeepaliveFrame, TalksKept
<1> HIDE DEF quiet
<1>4. Typed(stopped)
  BY <1>3, Values, FieldNames, Zenon DEF Typed
<1>5. /\ Only(quiet, stopped, {"tw_timer", "ack_timer"})
      /\ stopped.tw_timer = FALSE /\ stopped.ack_timer = FALSE
  BY <1>3, FieldNames DEF Only, Typed
<1>6. EnterClosed(e) = n
  BY DEF EnterClosed, quiet, idle, still
<1> HIDE DEF stopped
<1>7. Talks(stopped, v)
  BY <1>0, <1>3, <1>5, TalksKept
<1>8. Typed(bare) /\ Only(stopped, bare, Resetting)
  BY <1>4, ResetBuffersFrame
<1>9. /\ bare.app_buf = <<>> /\ bare.retx = <<>> /\ bare.ooo = {} /\ bare.recv_buf = <<>>
      /\ bare.rtt_pending = None /\ bare.pending_fin = None /\ bare.adv_right = None
  BY <1>4, FieldNames DEF Typed, ResetBuffers
<1> HIDE DEF bare
<1>10. Only(bare, n, Moving) /\ n.state = "CLOSED"
  BY <1>8, SetStateFrame DEF States
<1> HIDE DEF n
<1>11. Only(stopped, n, Resetting \cup Moving)
  BY <1>8, <1>10, OnlyThen
<1>12. /\ n.app_buf = <<>> /\ n.retx = <<>> /\ n.ooo = {} /\ n.recv_buf = <<>>
       /\ n.rtt_pending = None /\ n.pending_fin = None /\ n.adv_right = None
  BY <1>9, <1>10, FieldNames DEF Only, Moving
<1>12a. n.ack_timer = FALSE /\ n.tw_timer = FALSE
  BY <1>5, <1>11, FieldNames DEF Only, Resetting, Moving
<1>13. Sound(n)
  BY <1>6, EnterClosedSound
<1>14. Shut(n, v)
  BY <1>4, <1>7, <1>10, <1>11, <1>12, <1>12a, <1>13, Emptied
<1> QED BY <1>6, <1>14

\* abort() and _abort: the reset says nothing.
LEMMA AbortShut ==
    ASSUME NEW e, NEW v \in Views, Typed(e), Talks(e, v)
    PROVE  Shut(Abort(e), v)
<1> DEFINE n == Emit(e, e.snd_nxt, {"RST"}, <<>>)
<1>1. e.snd_nxt \in SeqNums /\ {"RST"} \in FlagSets /\ <<>> \in Seq(Bytes)
      /\ MayCarry({"RST"}, <<>>)
  BY Reads DEF FlagSets, MayCarry
<1>2. Typed(n)
  BY <1>1, EmitFrame
<1>3. Talks(n, v)
  <2>1. \A seg : /\ seg.seq = e.snd_nxt /\ seg.flags = {"RST"} /\ seg.payload = <<>>
                 => Genuine(seg, v.base, v.sent, sub(e.snd_nxt, v.base))
    BY DEF Genuine
  <2> QED BY <1>1, <2>1, EmitTalks
<1>4. Abort(e) \in {EnterClosed(e), EnterClosed(n)}
  BY DEF Abort
<1> HIDE DEF n
<1> QED BY <1>2, <1>3, <1>4, EnterClosedShut

-------------------------------------------------------------------------------
(* Acknowledgments.                                                        *)

\* What is left of an entry that is not wholly acknowledged.
Cut(o, ack) ==
    IF seq_lt(o.seq, ack)
    THEN [o EXCEPT !.payload = SubSeq(@, sub(ack, o.seq) + 1, Len(@)), !.seq = ack]
    ELSE o

\* An entry ends where its length says.
LEMMA EndsAt ==
    ASSUME NEW o \in QueueEntries, NEW base \in SeqNums,
           sub(o.seq, base) + SegLen(o) < HALF
    PROVE  /\ sub(End(o), base) = sub(o.seq, base) + SegLen(o)
           /\ sub(o.seq, base) \in Nat /\ SegLen(o) \in Nat /\ SegLen(o) >= 1
           /\ o.seq \in SeqNums /\ End(o) \in SeqNums
<1>1. o.seq \in SeqNums /\ SegLen(o) \in Nat /\ SegLen(o) >= 1 /\ End(o) \in SeqNums
  BY EntryTakes, Halves
<1>2. sub(o.seq, base) \in Nat
  BY <1>1, Position
<1>3. sub(o.seq, base) + SegLen(o) < MOD
  BY <1>1, <1>2, Halves
<1> QED BY <1>1, <1>2, <1>3, Onward DEF End

\* It begins at the acknowledgment, ends where it ended and holds the rest.
LEMMA Trimmed ==
    ASSUME NEW o \in QueueEntries, NEW base \in SeqNums, NEW ack \in SeqNums,
           sub(o.seq, base) + SegLen(o) < HALF, From(sub(o.seq, base), o.payload),
           sub(o.seq, base) <= sub(ack, base), sub(ack, base) < HALF, ~Covered(o, ack)
    PROVE  LET t == Cut(o, ack) IN
           /\ t \in QueueEntries /\ t.seq = ack /\ t.flags = o.flags
           /\ t.retransmitted = o.retransmitted
           /\ sub(ack, base) + SegLen(t) = sub(o.seq, base) + SegLen(o)
           /\ End(t) = End(o) /\ From(sub(ack, base), t.payload)
           /\ sub(ack, base) < sub(o.seq, base) + SegLen(o)
<1> DEFINE p == sub(o.seq, base)
           a == sub(ack, base)
           t == Cut(o, ack)
<1> SUFFICES /\ t \in QueueEntries /\ t.seq = ack /\ t.flags = o.flags
             /\ t.retransmitted = o.retransmitted
             /\ a + SegLen(t) = p + SegLen(o)
             /\ End(t) = End(o) /\ From(a, t.payload)
             /\ a < p + SegLen(o)
  OBVIOUS
<1>1. /\ p \in Nat /\ SegLen(o) \in Nat /\ o.seq \in SeqNums /\ End(o) \in SeqNums
      /\ sub(End(o), base) = p + SegLen(o) /\ p + SegLen(o) < HALF /\ p <= a
  BY EndsAt
<1>2. a \in Nat
  BY Position
<1>3. a < p + SegLen(o)
  <2> SUFFICES ASSUME ~(a < p + SegLen(o)) PROVE FALSE
    OBVIOUS
  <2>1. sub(End(o), base) < HALF
    BY <1>1
  <2>2. seq_leq(End(o), ack) <=> sub(End(o), base) <= a
    BY <1>1, <2>1, Placed
  <2> QED BY <2>2, <1>1, <1>2 DEF Covered
<1>4. a < HALF /\ p < HALF
  BY <1>1, <1>2, <1>3, Halves
<1>5. /\ seq_lt(o.seq, ack) <=> p < a
      /\ o.seq = ack <=> p = a
      /\ a >= p => sub(ack, o.seq) = a - p
  BY <1>1, <1>4, Placed
<1>6. CASE ~seq_lt(o.seq, ack)
  <2>1. t = o /\ p = a /\ o.seq = ack
    BY <1>1, <1>2, <1>5, <1>6 DEF Cut
  <2> HIDE DEF t
  <2> QED BY <2>1, <1>3
<1>7. CASE seq_lt(o.seq, ack)
  <2> DEFINE d == sub(ack, o.seq)
             some == SubSeq(o.payload, d + 1, Len(o.payload))
  <2>1. d \in 1 .. Len(o.payload) - 1 /\ o.flags = {"ACK"} /\ t \in QueueEntries
    BY <1>7, PartlyAcked DEF Cut
  <2>2. t = [o EXCEPT !.payload = some, !.seq = ack]
    BY <1>7 DEF Cut
  <2>3. d = a - p /\ d \in Nat
    BY <1>1, <1>2, <1>5
  <2> HIDE DEF d, t
  <2>4. o.payload \in Seq(Bytes) /\ Len(o.payload) \in Nat /\ SegLen(o) = Len(o.payload)
    <3>1. o.payload \in Seq(Bytes) /\ SegLen(o) = Len(o.payload)
      BY <2>1, EntryTakes
    <3> QED BY <3>1
  <2>5. some \in Seq(Bytes) /\ Len(some) = Len(o.payload) - d
    BY <2>1, <2>3, <2>4, SubSeqProperties
  <2>6. ASSUME NEW j \in 1 .. Len(some) PROVE some[j] = o.payload[j + d]
    <3>1. d + 1 \in 1 .. Len(o.payload) + 1 /\ Len(o.payload) \in d .. Len(o.payload)
      BY <2>1, <2>3, <2>4
    <3>2. j \in 1 .. Len(o.payload) - (d + 1) + 1
      BY <2>3, <2>4, <2>5
    <3>3. some[j] = o.payload[d + 1 + j - 1]
      BY <2>4, <3>1, <3>2, SubSeqProperties
    <3>4. d + 1 + j - 1 = j + d
      BY <2>3
    <3> QED BY <3>3, <3>4
  <2> HIDE DEF some
  <2>7. t.seq = ack /\ t.flags = o.flags /\ t.retransmitted = o.retransmitted /\ t.payload = some
    BY <2>2 DEF QueueEntries
  <2>8. SegLen(t) = Len(some)
    BY <2>1, <2>7, EntryTakes
  <2>9. a + SegLen(t) = p + SegLen(o)
    BY <1>1, <1>2, <2>3, <2>4, <2>5, <2>8
  <2>10. From(a, t.payload)
    <3> SUFFICES ASSUME NEW j \in 1 .. Len(some) PROVE some[j] = a + j
      BY <2>7 DEF From
    <3>1. j + d \in 1 .. Len(o.payload) /\ some[j] = o.payload[j + d]
      BY <2>1, <2>3, <2>4, <2>5, <2>6
    <3>2. o.payload[j + d] = p + (j + d)
      BY <3>1 DEF From
    <3> QED BY <3>1, <3>2, <1>1, <1>2, <2>3
  <2>11. End(t) = End(o)
    <3>1. sub(t.seq, base) + SegLen(t) < HALF
      BY <1>1, <2>7, <2>9
    <3>2. sub(End(t), base) = a + SegLen(t) /\ End(t) \in SeqNums
      BY <3>1, <2>1, <2>7, EndsAt
    <3>3. sub(End(t), base) < HALF /\ sub(End(o), base) < HALF
      BY <1>1, <2>9, <3>2
    <3>4. End(t) = End(o) <=> sub(End(t), base) = sub(End(o), base)
      BY <1>1, <3>2, <3>3, Placed
    <3> QED BY <1>1, <2>9, <3>2, <3>4
  <2> QED BY <1>3, <2>1, <2>7, <2>9, <2>10, <2>11
<1> QED BY <1>6, <1>7

\* How many entries leave, and what the others become.
LEMMA UnackedIs ==
    ASSUME NEW retx \in Seq(QueueEntries), NEW ack \in SeqNums
    PROVE  \E gone \in 0 .. Len(retx) :
              /\ \A i \in 1 .. gone : Covered(retx[i], ack)
              /\ gone = Len(retx) \/ ~Covered(retx[gone + 1], ack)
              /\ Unacked(retx, ack) \in Seq(QueueEntries)
              /\ Len(Unacked(retx, ack)) = Len(retx) - gone
              /\ \A i \in 1 .. Len(retx) - gone :
                    Unacked(retx, ack)[i] =
                       IF i = 1 THEN Cut(retx[gone + 1], ack) ELSE retx[gone + i]
<1>1. PICK gone \in 0 .. Len(retx) :
         /\ \A i \in 1 .. gone : Covered(retx[i], ack)
         /\ gone = Len(retx) \/ ~Covered(retx[gone + 1], ack)
         /\ LET rest == SubSeq(retx, gone + 1, Len(retx)) IN
            Unacked(retx, ack) =
               IF rest # <<>> /\ seq_lt(rest[1].seq, ack)
               THEN [rest EXCEPT ![1].payload = SubSeq(@, sub(ack, rest[1].seq) + 1, Len(@)),
                                 ![1].seq = ack]
               ELSE rest
  BY CoveredAre
<1> DEFINE rest == SubSeq(retx, gone + 1, Len(retx))
           r == Unacked(retx, ack)
<1>2. Len(retx) \in Nat /\ gone \in Nat
  OBVIOUS
<1>3. rest \in Seq(QueueEntries) /\ Len(rest) = Len(retx) - gone
  BY <1>2, SubSeqProperties
<1>4. \A i \in 1 .. Len(rest) : rest[i] = retx[gone + i]
  <2>1. \A i \in 1 .. Len(rest) : rest[i] = retx[(gone + 1) + i - 1]
    BY <1>2, <1>3, SubSeqProperties
  <2> HIDE DEF rest
  <2> SUFFICES ASSUME NEW i \in 1 .. Len(rest) PROVE rest[i] = retx[gone + i]
    OBVIOUS
  <2>2. (gone + 1) + i - 1 = gone + i
    BY <1>2
  <2> QED BY <2>1, <2>2
<1>5. r \in Seq(QueueEntries)
  BY UnackedTyped
<1>6. CASE rest # <<>> /\ seq_lt(rest[1].seq, ack)
  <2> DEFINE o == rest[1]
             cut == [o EXCEPT !.payload = SubSeq(@, sub(ack, o.seq) + 1, Len(@)), !.seq = ack]
  <2>1. r = [rest EXCEPT ![1].payload = SubSeq(@, sub(ack, rest[1].seq) + 1, Len(@)),
                         ![1].seq = ack]
    BY <1>1, <1>6
  <2>2. 1 \in 1 .. Len(rest) /\ o = retx[gone + 1]
    BY <1>2, <1>3, <1>4, <1>6
  <2>3. cut = Cut(retx[gone + 1], ack)
    BY <1>6, <2>2 DEF Cut
  <2> HIDE DEF rest
  <2>4. r = [rest EXCEPT ![1] = cut]
    <3>1. 1 \in DOMAIN rest
      BY <1>3, <2>2
    <3> QED BY <2>1, <3>1
  <2> HIDE DEF cut, r
  <2>5. Len(r) = Len(rest) /\ \A i \in 1 .. Len(rest) : r[i] = IF i = 1 THEN cut ELSE rest[i]
    BY <1>3, <2>4
  <2>6. Len(r) = Len(retx) - gone
    BY <1>3, <2>5
  <2>7. ASSUME NEW i \in 1 .. Len(retx) - gone
        PROVE  r[i] = IF i = 1 THEN Cut(retx[gone + 1], ack) ELSE retx[gone + i]
    BY <1>3, <1>4, <2>3, <2>5
  <2> QED BY <1>1, <1>5, <2>6, <2>7 DEF r
<1>7. CASE ~(rest # <<>> /\ seq_lt(rest[1].seq, ack))
  <2>1. r = rest
    BY <1>1, <1>7
  <2> HIDE DEF rest, r
  <2>2. ASSUME NEW i \in 1 .. Len(retx) - gone
        PROVE  r[i] = IF i = 1 THEN Cut(retx[gone + 1], ack) ELSE retx[gone + i]
    <3>1. i \in 1 .. Len(rest) /\ r[i] = retx[gone + i]
      BY <1>3, <1>4, <2>1
    <3>2. CASE i = 1
      <4>1. rest # <<>>
        BY <1>3, <3>1
      <4>2. ~seq_lt(retx[gone + 1].seq, ack)
        BY <1>4, <1>7, <3>1, <3>2, <4>1
      <4> QED BY <3>1, <3>2, <4>2 DEF Cut
    <3> QED BY <3>1, <3>2
  <2>3. Len(r) = Len(retx) - gone
    BY <1>3, <2>1
  <2> QED BY <1>1, <1>5, <2>2, <2>3 DEF r
<1> QED BY <1>6, <1>7

\* r is the queue without its first entries, which ack acknowledges.
Remains(retx, r, gone, ack, nxt, base) ==
    /\ r \in Seq(QueueEntries)
    /\ Len(r) = Len(retx) - gone
    /\ Laid(r, ack, nxt, base)
    /\ r = <<>> <=> ack = nxt
    /\ \A i \in 1 .. gone : seq_geq(ack, End(retx[i]))
    /\ \A i \in 1 .. Len(retx) - gone :
          /\ r[i].flags = retx[gone + i].flags
          /\ End(r[i]) = End(retx[gone + i])
          /\ r[i].retransmitted = retx[gone + i].retransmitted

\* The queue still covers what is outstanding, and ends as it did.
LEMMA UnackedLaid ==
    ASSUME NEW retx \in Seq(QueueEntries), NEW una \in SeqNums, NEW nxt \in SeqNums,
           NEW base \in SeqNums, NEW ack \in SeqNums, Laid(retx, una, nxt, base),
           sub(nxt, base) < HALF, sub(una, base) < sub(ack, base),
           sub(ack, base) <= sub(nxt, base)
    PROVE  \E gone \in 0 .. Len(retx) :
              Remains(retx, Unacked(retx, ack), gone, ack, nxt, base)
<1> DEFINE r == Unacked(retx, ack)
           n == Len(retx)
           P(i) == sub(retx[i].seq, base)
           a == sub(ack, base)
<1>1. PICK gone \in 0 .. n :
         /\ \A i \in 1 .. gone : Covered(retx[i], ack)
         /\ gone = n \/ ~Covered(retx[gone + 1], ack)
         /\ r \in Seq(QueueEntries)
         /\ Len(r) = n - gone
         /\ \A i \in 1 .. n - gone :
               r[i] = IF i = 1 THEN Cut(retx[gone + 1], ack) ELSE retx[gone + i]
  BY UnackedIs
<1> SUFFICES /\ Laid(r, ack, nxt, base)
             /\ r = <<>> <=> ack = nxt
             /\ \A i \in 1 .. gone : seq_geq(ack, End(retx[i]))
             /\ \A i \in 1 .. n - gone :
                   /\ r[i].flags = retx[gone + i].flags
                   /\ End(r[i]) = End(retx[gone + i])
                   /\ r[i].retransmitted = retx[gone + i].retransmitted
  BY <1>1 DEF Remains
<1>2. /\ n \in Nat /\ gone \in Nat /\ a \in Nat /\ sub(nxt, base) \in Nat /\ sub(una, base) \in Nat
      /\ a < HALF /\ ack # una
  <2>1. n \in Nat /\ gone \in Nat /\ a \in Nat /\ sub(nxt, base) \in Nat /\ sub(una, base) \in Nat
    BY Position
  <2> QED BY <2>1, Halves
<1>3. ASSUME NEW i \in 1 .. n
      PROVE  /\ retx[i] \in QueueEntries /\ retx[i].seq \in SeqNums /\ P(i) \in Nat
             /\ SegLen(retx[i]) \in Nat /\ SegLen(retx[i]) >= 1 /\ End(retx[i]) \in SeqNums
             /\ P(i) + SegLen(retx[i]) = sub(NextSeq(retx, nxt, i), base)
             /\ P(i) + SegLen(retx[i]) <= sub(nxt, base)
             /\ sub(End(retx[i]), base) = P(i) + SegLen(retx[i])
             /\ retx[i].flags \in {{"ACK"}, {"ACK", "FIN"}} /\ From(P(i), retx[i].payload)
  <2>1. retx[i] \in QueueEntries /\ EntryLaid(retx, nxt, base, i)
    BY DEF Laid
  <2>2. retx[i].seq \in SeqNums /\ SegLen(retx[i]) \in Nat
    <3>1. retx[i].seq \in SeqNums /\ SegLen(retx[i]) \in 1 .. TextMax
      BY <2>1, EntryTakes
    <3> QED BY <3>1, Halves
  <2>3. P(i) \in Nat
    BY <2>2, Position
  <2>4. P(i) + SegLen(retx[i]) < HALF
    BY <2>1, <2>2, <2>3, <1>2, Halves DEF EntryLaid
  <2>5. sub(End(retx[i]), base) = P(i) + SegLen(retx[i]) /\ SegLen(retx[i]) >= 1 /\ End(retx[i]) \in SeqNums
    BY <2>1, <2>4, EndsAt
  <2> QED BY <2>1, <2>2, <2>3, <2>5 DEF EntryLaid
<1>4. ASSUME NEW i \in 1 .. n
      PROVE  /\ Covered(retx[i], ack) <=> P(i) + SegLen(retx[i]) <= a
             /\ seq_geq(ack, End(retx[i])) <=> P(i) + SegLen(retx[i]) <= a
  <2>1. /\ sub(End(retx[i]), base) = P(i) + SegLen(retx[i]) /\ End(retx[i]) \in SeqNums
        /\ P(i) + SegLen(retx[i]) <= sub(nxt, base) /\ P(i) \in Nat /\ SegLen(retx[i]) \in Nat
    BY <1>3
  <2>2. sub(End(retx[i]), base) < HALF
    BY <2>1, <1>2, Halves
  <2>3. /\ seq_leq(End(retx[i]), ack) <=> sub(End(retx[i]), base) <= a
        /\ seq_geq(ack, End(retx[i])) <=> a >= sub(End(retx[i]), base)
    BY <2>1, <2>2, <1>2, Placed
  <2> QED BY <2>1, <2>3, <1>2 DEF Covered
<1> HIDE DEF r
<1>5. \A i \in 1 .. gone : seq_geq(ack, End(retx[i]))
  <2> SUFFICES ASSUME NEW i \in 1 .. gone PROVE seq_geq(ack, End(retx[i]))
    OBVIOUS
  <2>1. i \in 1 .. n
    BY <1>2
  <2> QED BY <1>1, <1>4, <2>1
<1>6. CASE gone = n
  <2>1. r = <<>>
    BY <1>1, <1>2, <1>6
  <2>2. ack = nxt
    <3>1. n # 0
      <4> SUFFICES ASSUME n = 0 PROVE FALSE
        OBVIOUS
      <4>1. una = nxt
        BY DEF Laid
      <4> QED BY <4>1, <1>2
    <3>2. n \in 1 .. n /\ n \in 1 .. gone
      BY <3>1, <1>2, <1>6
    <3>3. P(n) + SegLen(retx[n]) = sub(nxt, base)
      BY <3>2, <1>3 DEF NextSeq
    <3>4. P(n) + SegLen(retx[n]) <= a
      BY <3>2, <1>1, <1>4
    <3>5. a = sub(nxt, base)
      BY <3>3, <3>4, <1>2
    <3> QED BY <3>5, <1>2, Placed
  <2>3. Laid(r, ack, nxt, base)
    BY <2>1, <2>2 DEF Laid
  <2>4. 1 .. n - gone = {}
    BY <1>2, <1>6
  <2> QED BY <1>5, <2>1, <2>2, <2>3, <2>4
<1>7. CASE gone # n
  <2> DEFINE h == retx[gone + 1]
             t == Cut(h, ack)
  <2>1. gone + 1 \in 1 .. n /\ 1 \in 1 .. n - gone /\ ~Covered(h, ack)
    BY <1>1, <1>2, <1>7
  <2>2. P(gone + 1) <= a
    <3>1. CASE gone = 0
      <4>1. h.seq = una
        BY <2>1, <3>1 DEF Laid
      <4> QED BY <4>1, <3>1, <1>2
    <3>2. CASE gone # 0
      <4>1. gone \in 1 .. n /\ gone \in 1 .. gone /\ gone # n
        BY <2>1, <3>2, <1>2
      <4>2. NextSeq(retx, nxt, gone) = h.seq
        BY <4>1 DEF NextSeq
      <4>3. P(gone) + SegLen(retx[gone]) = sub(h.seq, base) /\ P(gone) + SegLen(retx[gone]) <= a
        BY <4>1, <4>2, <1>1, <1>3, <1>4
      <4> QED BY <4>3
    <3> QED BY <3>1, <3>2
  <2>3. /\ h \in QueueEntries /\ P(gone + 1) + SegLen(h) < HALF /\ From(P(gone + 1), h.payload)
        /\ h.flags \in {{"ACK"}, {"ACK", "FIN"}} /\ P(gone + 1) + SegLen(h) <= sub(nxt, base)
        /\ P(gone + 1) + SegLen(h) = sub(NextSeq(retx, nxt, gone + 1), base)
        /\ P(gone + 1) + SegLen(h) \in Nat
    <3>1. /\ h \in QueueEntries /\ From(P(gone + 1), h.payload) /\ P(gone + 1) \in Nat
          /\ h.flags \in {{"ACK"}, {"ACK", "FIN"}} /\ P(gone + 1) + SegLen(h) <= sub(nxt, base)
          /\ P(gone + 1) + SegLen(h) = sub(NextSeq(retx, nxt, gone + 1), base)
          /\ SegLen(h) \in Nat
      BY <2>1, <1>3
    <3>2. P(gone + 1) + SegLen(h) \in Nat
      BY <3>1
    <3>3. P(gone + 1) + SegLen(h) < HALF
      BY <3>1, <3>2, <1>2, Halves
    <3> QED BY <3>1, <3>2, <3>3
  <2> HIDE DEF h
  <2>4. /\ t \in QueueEntries /\ t.seq = ack /\ t.flags = h.flags
        /\ t.retransmitted = h.retransmitted
        /\ a + SegLen(t) = P(gone + 1) + SegLen(h)
        /\ End(t) = End(h) /\ From(a, t.payload)
        /\ a < P(gone + 1) + SegLen(h)
    <3>1. sub(h.seq, base) + SegLen(h) < HALF /\ From(sub(h.seq, base), h.payload)
          /\ sub(h.seq, base) <= a
      BY <2>2, <2>3 DEF h
    <3>2. sub(h.seq, base) = P(gone + 1)
      BY DEF h
    <3> QED BY <3>1, <3>2, <2>1, <2>3, <1>2, Trimmed
  <2> HIDE DEF t
  <2>5. r[1] = t /\ \A i \in 2 .. n - gone : r[i] = retx[gone + i]
    BY <1>1, <1>2, <2>1 DEF h, t
  <2>6. r # <<>> /\ ack # nxt
    <3>1. Len(r) >= 1
      BY <1>1, <1>2, <2>1
    <3>2. a < sub(nxt, base)
      BY <2>3, <2>4, <1>2, Halves
    <3> QED BY <3>1, <3>2, <1>2
  <2>7. ASSUME NEW i \in 1 .. n - gone
        PROVE  NextSeq(r, nxt, i) = NextSeq(retx, nxt, gone + i)
    <3>1. CASE i = n - gone
      <4>1. gone + i = n /\ i = Len(r)
        BY <1>1, <1>2, <3>1
      <4> QED BY <4>1 DEF NextSeq
    <3>2. CASE i # n - gone
      <4>1. /\ i + 1 \in 2 .. n - gone /\ i # Len(r) /\ gone + i # n
            /\ gone + (i + 1) = (gone + i) + 1
        <5>1. n \in Nat /\ gone \in Nat /\ Len(r) = n - gone /\ gone <= n
          BY <1>1, <1>2
        <5> HIDE DEF n
        <5> QED BY <3>2, <5>1
      <4>2. r[i + 1] = retx[(gone + i) + 1]
        BY <4>1, <2>5
      <4> QED BY <4>1, <4>2 DEF NextSeq
    <3> QED BY <3>1, <3>2
  <2>8. ASSUME NEW i \in 1 .. n - gone
        PROVE  /\ EntryLaid(r, nxt, base, i)
               /\ r[i].flags = retx[gone + i].flags
               /\ End(r[i]) = End(retx[gone + i])
               /\ r[i].retransmitted = retx[gone + i].retransmitted
    <3>0. NextSeq(r, nxt, i) = NextSeq(retx, nxt, gone + i)
      BY <2>7
    <3>1. CASE i = 1
      <4>1. r[i] = t /\ retx[gone + i] = h
        BY <2>5, <3>1 DEF h
      <4>2. NextSeq(r, nxt, i) = NextSeq(retx, nxt, gone + 1)
        BY <3>0, <3>1
      <4> QED BY <4>1, <4>2, <2>3, <2>4 DEF EntryLaid
    <3>2. CASE i # 1
      <4>1. i \in 2 .. n - gone /\ gone + i \in 1 .. n
        BY <1>2, <3>2
      <4>2. r[i] = retx[gone + i]
        BY <4>1, <2>5
      <4>3. EntryLaid(retx, nxt, base, gone + i)
        BY <4>1 DEF Laid
      <4> QED BY <4>2, <4>3, <3>0 DEF EntryLaid
    <3> QED BY <3>1, <3>2
  <2>9. Laid(r, ack, nxt, base)
    <3>1. r[1].seq = ack
      BY <2>4, <2>5
    <3>2. Len(r) = n - gone
      BY <1>1
    <3> HIDE DEF n
    <3> QED BY <3>1, <3>2, <2>6, <2>8 DEF Laid
  <2> QED BY <1>5, <2>6, <2>8, <2>9
<1> QED BY <1>6, <1>7

\* The position before one that is not the first.
LEMMA Previous ==
    ASSUME NEW base \in SeqNums, NEW a \in SeqNums, sub(add(a, 1), base) >= 1
    PROVE  sub(a, base) = sub(add(a, 1), base) - 1
<1> DEFINE q == sub(a, base)
           c == add(a, 1)
           p == sub(c, base)
<1>1. 1 \in 0 .. MOD /\ c \in SeqNums
  BY InSeqNums, Halves
<1>2. c = IF a + 1 < MOD THEN a + 1 ELSE a + 1 - MOD
  BY <1>1, Adds
<1>3. q = IF a >= base THEN a - base ELSE a - base + MOD
  BY Subs
<1> HIDE DEF c, q
<1>4. p = IF c >= base THEN c - base ELSE c - base + MOD
  BY <1>1, Subs
<1>5. a \in Nat /\ a < MOD /\ base \in Nat /\ base < MOD /\ c \in Nat /\ c < MOD
  BY <1>1, Numbers
<1>6. p >= 1
  BY DEF c
<1> HIDE DEF p
<1>7. q = p - 1
  BY <1>2, <1>3, <1>4, <1>5, <1>6, Halves
<1> QED BY <1>7 DEF p, q, c

\* The fields keep their ranges, whatever is acknowledged.
LEMMA ProcessAckTyped ==
    ASSUME NEW e, Typed(e), NEW ack \in SeqNums
    PROVE  Typed(ProcessAck(e, ack))
<1> DEFINE retx == Unacked(e.retx, ack)
           timed == IF e.rtt_pending # None /\ seq_geq(ack, e.rtt_pending) THEN None
                    ELSE e.rtt_pending
           acked == e.fin_acked \/ FinCovered(e, ack)
           armed == (retx # <<>>)
           n == [e EXCEPT !.snd_una = ack, !.retx = retx, !.rtt_pending = timed,
                          !.fin_acked = acked, !.rto_count = 0, !.rt_timer = armed]
<1>1. e.retx \in Seq(QueueEntries) /\ e.rtt_pending \in Noted
  BY Reads
<1>2. /\ ack \in EngineTypes["snd_una"] /\ retx \in EngineTypes["retx"]
      /\ timed \in EngineTypes["rtt_pending"]
  <2>1. retx \in Seq(QueueEntries)
    BY <1>1, UnackedTyped
  <2>2. timed \in Noted
    BY <1>1 DEF Noted
  <2> QED BY <2>1, <2>2, FieldTypes
<1>3. acked \in EngineTypes["fin_acked"] /\ armed \in EngineTypes["rt_timer"]
  BY Values, Zenon
<1>4. ProcessAck(e, ack) = n
  BY Zenon DEF ProcessAck, AckTaken
<1> HIDE DEF retx, timed, acked, armed
<1>5. Typed(n)
  BY <1>2, <1>3, Values, FieldNames, Zenon DEF Typed
<1> QED BY <1>4, <1>5

\* _process_ack, when the peer has taken what is acknowledged.
LEMMA ProcessAckTalks ==
    ASSUME NEW e, NEW v \in Views, Typed(e), Talks(e, v), NEW ack \in SeqNums,
           NewAck(e, ack), ~seq_gt(ack, e.snd_nxt), sub(ack, v.base) <= v.taken,
           e.out = <<>>, Timely(ack, v)
    PROVE  LET n == ProcessAck(e, ack) IN
           Talks(n, v) /\ Timed(n) /\ (e.fin_acked => n.fin_acked)
<1> DEFINE retx == Unacked(e.retx, ack)
           timed == IF e.rtt_pending # None /\ seq_geq(ack, e.rtt_pending) THEN None
                    ELSE e.rtt_pending
           acked == e.fin_acked \/ FinCovered(e, ack)
           armed == (retx # <<>>)
           n == [e EXCEPT !.snd_una = ack, !.retx = retx, !.rtt_pending = timed,
                          !.fin_acked = acked, !.rto_count = 0, !.rt_timer = armed]
           a == sub(ack, v.base)
           p == sub(e.snd_nxt, v.base)
<1>1. /\ e.snd_una \in SeqNums /\ e.snd_nxt \in SeqNums /\ e.fin_seq \in SeqNums
      /\ e.retx \in Seq(QueueEntries) /\ e.fin_sent \in BOOLEAN /\ e.fin_acked \in BOOLEAN
      /\ v.base \in SeqNums /\ v.sent \in Nat
  BY Reads, ViewReads
<1>2. /\ p \in Nat /\ p < HALF /\ p <= v.sent + 1 /\ a \in Nat /\ a < HALF
      /\ sub(e.snd_una, v.base) \in Nat /\ sub(e.snd_una, v.base) < HALF
      /\ a <= v.taken /\ sub(e.snd_una, v.base) < a /\ a <= p
  <2>1. /\ p \in Nat /\ p < HALF /\ p <= v.sent + 1 /\ sub(e.snd_una, v.base) \in Nat
        /\ sub(e.snd_una, v.base) <= p
    BY SentWithin DEF Talks
  <2>2. sub(e.snd_una, v.base) < HALF
    BY <2>1, Halves
  <2>3. a \in Nat /\ a < HALF
    <3>1. a \in Nat
      BY <1>1, Position
    <3> QED BY <3>1, ViewReads, Halves
  <2>4. /\ seq_gt(ack, e.snd_una) <=> a > sub(e.snd_una, v.base)
        /\ seq_gt(ack, e.snd_nxt) <=> a > p
    BY <1>1, <2>1, <2>2, <2>3, Placed
  <2> QED BY <2>1, <2>2, <2>3, <2>4 DEF NewAck
<1>2a. a \in v.acks
  <2>1. sub(e.snd_una, v.base) \in v.acks
    BY DEF Talks, Sender
  <2> QED BY <1>2, <2>1 DEF Timely
<1>3. /\ Laid(e.retx, e.snd_una, e.snd_nxt, v.base) /\ Unsent(e, v) /\ Timing(e) /\ FinLaid(e, v)
  BY DEF Talks, Sender
<1>4. PICK gone \in 0 .. Len(e.retx) :
              /\ retx \in Seq(QueueEntries)
              /\ Len(retx) = Len(e.retx) - gone
              /\ Laid(retx, ack, e.snd_nxt, v.base)
              /\ retx = <<>> <=> ack = e.snd_nxt
              /\ \A i \in 1 .. gone : seq_geq(ack, End(e.retx[i]))
              /\ \A i \in 1 .. Len(e.retx) - gone :
                    /\ retx[i].flags = e.retx[gone + i].flags
                    /\ End(retx[i]) = End(e.retx[gone + i])
                    /\ retx[i].retransmitted = e.retx[gone + i].retransmitted
  <2>1. sub(e.snd_nxt, v.base) < HALF
    BY <1>2
  <2>2. sub(e.snd_una, v.base) < sub(ack, v.base)
    BY <1>2
  <2>3. sub(ack, v.base) <= sub(e.snd_nxt, v.base)
    BY <1>2
  <2>4. /\ e.retx \in Seq(QueueEntries) /\ e.snd_una \in SeqNums /\ e.snd_nxt \in SeqNums
        /\ v.base \in SeqNums
    BY <1>1
  <2>5. Laid(e.retx, e.snd_una, e.snd_nxt, v.base)
    BY <1>3
  <2> HIDE DEF retx
  <2>6. retx = Unacked(e.retx, ack)
    BY DEF retx
  <2>7. PICK gone \in 0 .. Len(e.retx) :
            Remains(e.retx, Unacked(e.retx, ack), gone, ack, e.snd_nxt, v.base)
    BY <2>1, <2>2, <2>3, <2>4, <2>5, UnackedLaid
  <2> QED BY <2>6, <2>7 DEF Remains
<1>5. ProcessAck(e, ack) = n
  BY Zenon DEF ProcessAck, AckTaken
<1>6. e.fin_sent => ~e.fin_acked /\ (acked <=> ack = e.snd_nxt)
  <2> SUFFICES ASSUME e.fin_sent PROVE ~e.fin_acked /\ (acked <=> ack = e.snd_nxt)
    OBVIOUS
  <2>1. e.retx # <<>>
    <3> SUFFICES ASSUME e.retx = <<>> PROVE FALSE
      OBVIOUS
    <3>1. e.snd_una = e.snd_nxt
      BY <1>3 DEF Laid
    <3> QED BY <3>1, <1>2
  <2>2. ~e.fin_acked /\ e.snd_nxt = add(e.fin_seq, 1) /\ e.app_buf = <<>>
    BY <1>3, <2>1 DEF FinLaid
  <2>3. p = v.sent + 1
    BY <1>3, <1>2, <2>2 DEF Unsent, Count
  <2>4. sub(e.fin_seq, v.base) = p - 1
    BY <1>1, <1>2, <2>2, <2>3, Previous
  <2>5. seq_gt(ack, e.fin_seq) <=> a > p - 1
    <3>1. sub(e.fin_seq, v.base) < HALF /\ sub(ack, v.base) < HALF
      <4> HIDE DEF p
      <4> QED BY <1>2, <2>4, Halves
    <3>2. seq_gt(ack, e.fin_seq) <=> sub(ack, v.base) > sub(e.fin_seq, v.base)
      BY <1>1, <3>1, Placed
    <3> QED BY <2>4, <3>2
  <2>6. ack = e.snd_nxt <=> a = p
    BY <1>1, <1>2, Placed
  <2> QED BY <1>2, <2>2, <2>5, <2>6 DEF FinCovered
<1> HIDE DEF retx, acked, armed
<1>7. Typed(n)
  BY <1>5, ProcessAckTyped
<1>8. /\ Only(e, n, Acknowledging)
      /\ n.snd_una = ack /\ n.retx = retx /\ n.rtt_pending = timed /\ n.fin_acked = acked
      /\ n.rt_timer = armed
  BY FieldNames DEF Only, Typed, Acknowledging
<1> HIDE DEF n
<1>9. /\ n.snd_nxt = e.snd_nxt /\ n.app_buf = e.app_buf /\ n.fin_pending = e.fin_pending
      /\ n.fin_sent = e.fin_sent /\ n.fin_seq = e.fin_seq /\ n.rcv_nxt = e.rcv_nxt
      /\ n.out = e.out
  BY <1>8, FieldNames DEF Only, Acknowledging
<1>10. Timing(n)
  <2> SUFFICES ASSUME timed # None
               PROVE  \E i \in 1 .. Len(n.retx) :
                         End(n.retx[i]) = timed /\ ~n.retx[i].retransmitted
    BY <1>8 DEF Timing
  <2>1. e.rtt_pending # None /\ timed = e.rtt_pending /\ ~seq_geq(ack, e.rtt_pending)
    OBVIOUS
  <2>2. PICK k \in 1 .. Len(e.retx) :
            End(e.retx[k]) = e.rtt_pending /\ ~e.retx[k].retransmitted
    BY <1>3, <2>1 DEF Timing
  <2>3. ~(k \in 1 .. gone)
    BY <1>4, <2>1, <2>2
  <2>4. k - gone \in 1 .. Len(e.retx) - gone /\ gone + (k - gone) = k
    BY <1>1, <2>3
  <2>5. /\ End(retx[k - gone]) = e.rtt_pending /\ ~retx[k - gone].retransmitted
        /\ k - gone \in 1 .. Len(retx)
    BY <1>4, <2>2, <2>4
  <2> QED BY <1>8, <2>1, <2>5
<1>11. FinLaid(n, v)
  <2>1. /\ n.fin_pending <=> v.ended
        /\ n.fin_sent => n.app_buf = <<>> /\ n.fin_pending /\ n.snd_nxt = add(n.fin_seq, 1)
    BY <1>3, <1>9 DEF FinLaid
  <2>2. n.fin_acked => n.fin_sent
    BY <1>3, <1>8, <1>9 DEF FinLaid, FinCovered, acked
  <2>3. n.fin_sent => (n.fin_acked <=> n.retx = <<>>)
    BY <1>4, <1>6, <1>8, <1>9
  <2>4. ASSUME NEW i \in 1 .. Len(n.retx)
        PROVE  "FIN" \in n.retx[i].flags <=> i = Len(n.retx) /\ n.fin_sent
    <3>1. i \in 1 .. Len(e.retx) - gone /\ gone + i \in 1 .. Len(e.retx)
      BY <1>1, <1>4, <1>8
    <3>2. n.retx[i].flags = e.retx[gone + i].flags
      BY <1>4, <1>8, <3>1
    <3>3. "FIN" \in e.retx[gone + i].flags <=> gone + i = Len(e.retx) /\ e.fin_sent
      BY <1>3, <3>1 DEF FinLaid
    <3>4. i = Len(n.retx) <=> gone + i = Len(e.retx)
      <4>1. Len(e.retx) \in Nat /\ gone \in Nat /\ i \in Int
        BY <1>1
      <4>2. Len(n.retx) = Len(e.retx) - gone
        BY <1>4, <1>8
      <4> HIDE DEF retx
      <4> QED BY <4>1, <4>2
    <3> QED BY <1>9, <3>2, <3>3, <3>4
  <2> QED BY <2>1, <2>2, <2>3, <2>4 DEF FinLaid
<1>12. Unsent(n, v)
  BY <1>3, <1>9, Zenon DEF Unsent
<1>13. Sender(n, v)
  BY <1>2, <1>2a, <1>4, <1>8, <1>9, <1>10, <1>11, <1>12 DEF Sender
<1>14. Receiver(n, v)
  <2>1. Acknowledging \cap ReceiverFields = {}
    BY DEF Acknowledging, ReceiverFields
  <2> QED BY <1>8, <2>1, ReceiverKept DEF Talks
<1>15. Says(n, v)
  BY <1>9 DEF Talks, Says
<1>16. Timed(n)
  BY <1>8 DEF Timed, armed
<1>17. e.fin_acked => n.fin_acked
  BY <1>8 DEF acked
<1> QED BY <1>5, <1>13, <1>14, <1>15, <1>16, <1>17 DEF Talks


-------------------------------------------------------------------------------
(* Received text.                                                          *)

\* Text the stream goes on with at position g, of which the peer has sent it.
Continues(g, text, v) ==
    /\ text # <<>> => g + Len(text) <= v.psent /\ g + Len(text) <= v.pnxt
    /\ From(g, text) /\ Seen(g, text, v)

\* What is free, when the buffer is not overfull.
LEMMA Room ==
    ASSUME NEW e, Len(e.recv_buf) \in Nat, Len(e.recv_buf) <= RCV_WND
    PROVE  FreeSpace(e) = RCV_WND - Len(e.recv_buf) /\ FreeSpace(e) \in Nat
<1> DEFINE used == Len(e.recv_buf)
<1>1. used \in Nat /\ used <= RCV_WND /\ RCV_WND \in Nat
  BY Halves
<1>2. FreeSpace(e) = IF used >= RCV_WND THEN 0 ELSE RCV_WND - used
  BY DEF FreeSpace
<1> HIDE DEF used
<1>3. FreeSpace(e) = RCV_WND - used /\ FreeSpace(e) \in Nat
  BY <1>1, <1>2
<1> QED BY <1>3 DEF used

\* _deliver: the sink is told more of the stream, and the edge stays.
LEMMA DeliverReceiver ==
    ASSUME NEW e, NEW v \in Views, Typed(e), Receiver(e, v), NEW data \in Seq(Bytes),
           Continues(sub(e.rcv_nxt, v.pbase), data, v), Len(e.recv_buf) + Len(data) <= RCV_WND
    PROVE  /\ Receiver(Deliver(e, data), v)
           /\ sub(Deliver(e, data).rcv_nxt, v.pbase) = sub(e.rcv_nxt, v.pbase) + Len(data)
<1> DEFINE n == Deliver(e, data)
           g == sub(e.rcv_nxt, v.pbase)
<1>1. /\ Typed(n) /\ Only(e, n, {"recv_buf", "stream", "rcv_nxt"})
      /\ n.recv_buf = e.recv_buf \o data /\ n.stream = e.stream \o data
      /\ n.rcv_nxt = add(e.rcv_nxt, Len(data))
  BY DeliverFrame
<1> HIDE DEF n
<1>2. /\ e.recv_buf \in Seq(Bytes) /\ e.stream \in Seq(Bytes \cup {EOF}) /\ e.rcv_nxt \in SeqNums
      /\ v.pbase \in SeqNums /\ Len(data) \in Nat /\ data \in Seq(Bytes \cup {EOF})
      /\ Len(e.recv_buf) \in Nat /\ Len(e.stream) \in Nat
  BY Reads, ViewReads
<1>3. g \in Nat /\ g = Len(e.stream) /\ g <= v.pnxt /\ g + RCV_WND < HALF
  BY GotWithin
<1>4. sub(n.rcv_nxt, v.pbase) = g + Len(data)
  <2>1. g + Len(data) < MOD
    <3>1. Len(data) <= RCV_WND
      BY <1>2, Halves
    <3> HIDE DEF g
    <3> QED BY <1>2, <1>3, <3>1, Halves
  <2> QED BY <1>1, <1>2, <2>1, Onward
<1>5. Len(n.stream) = g + Len(data)
  BY <1>1, <1>2, <1>3
<1>6. Len(n.recv_buf) = Len(e.recv_buf) + Len(data)
  BY <1>1, <1>2
<1>7. KeptGenuine(n, v) /\ FinNoted(n, v)
  <2>1. n.ooo = e.ooo /\ n.pending_fin = e.pending_fin
    BY <1>1, FieldNames DEF Only
  <2> QED BY <2>1, Zenon DEF Receiver, KeptGenuine, FinNoted
<1>8. Relayed(n, v)
  <2>1. Len(n.stream) <= v.pnxt
    BY <1>2, <1>3, <1>5 DEF Continues
  <2>2. ASSUME NEW i \in 1 .. Len(n.stream)
        PROVE  n.stream[i] = Item(v.psent, i) /\ (i > v.rcv => i \in v.sight)
    <3>1. CASE i <= Len(e.stream)
      <4>1. i \in 1 .. Len(e.stream) /\ n.stream[i] = e.stream[i]
        BY <3>1, <1>1, <1>2
      <4> QED BY <4>1 DEF Receiver, Relayed
    <3>2. CASE i > Len(e.stream)
      <4>1. i - Len(e.stream) \in 1 .. Len(data) /\ n.stream[i] = data[i - Len(e.stream)]
        BY <3>2, <1>1, <1>2, <1>3, <1>5
      <4>2. data[i - Len(e.stream)] = g + (i - Len(e.stream))
        BY <4>1 DEF Continues, From
      <4>3. n.stream[i] = i /\ i <= v.psent
        <5>1. g + Len(data) <= v.psent
          BY <4>1, <1>2 DEF Continues
        <5>2. v.psent \in Nat
          BY ViewReads
        <5> HIDE DEF g
        <5> QED BY <4>1, <4>2, <5>1, <5>2, <1>2, <1>3
      <4>4. i \in v.sight
        <5>1. g + (i - Len(e.stream)) \in v.sight
          BY <4>1 DEF Continues, Seen
        <5>2. g + (i - Len(e.stream)) = i
          BY <4>2, <4>1, <4>3
        <5> QED BY <5>1, <5>2
      <4> QED BY <4>3, <4>4 DEF Item
    <3> QED BY <1>2, <3>1, <3>2
  <2> QED BY <1>4, <1>5, <2>1, <2>2 DEF Relayed
<1>9. EdgeHeld(n, v)
  <2>1. n.adv_right = e.adv_right
    BY <1>1, FieldNames DEF Only
  <2>2. FreeSpace(e) = RCV_WND - Len(e.recv_buf)
    <3>1. Len(e.recv_buf) <= RCV_WND
      BY <1>2, Halves
    <3> QED BY <1>2, <3>1, Room
  <2>3. FreeSpace(n) = RCV_WND - (Len(e.recv_buf) + Len(data))
    <3>1. Len(n.recv_buf) \in Nat /\ Len(n.recv_buf) <= RCV_WND
      BY <1>2, <1>6
    <3> QED BY <1>6, <3>1, Room
  <2>4. sub(n.rcv_nxt, v.pbase) + FreeSpace(n) = g + FreeSpace(e)
    BY <1>2, <1>3, <1>4, <2>2, <2>3, Halves
  <2> QED BY <2>1, <2>4 DEF Receiver, EdgeHeld
<1> QED BY <1>4, <1>7, <1>8, <1>9 DEF Receiver, n, g

\* Less may be kept.
LEMMA PrunedReceiver ==
    ASSUME NEW e, NEW v, Typed(e), Receiver(e, v)
    PROVE  Receiver(Pruned(e), v) /\ Pruned(e).rcv_nxt = e.rcv_nxt
<1> DEFINE n == Pruned(e)
<1>1. Only(e, n, {"ooo"}) /\ n.ooo \subseteq e.ooo
  BY PrunedFrame
<1> HIDE DEF n
<1>2. /\ n.rcv_nxt = e.rcv_nxt /\ n.recv_buf = e.recv_buf /\ n.stream = e.stream
      /\ n.pending_fin = e.pending_fin /\ n.adv_right = e.adv_right
  BY <1>1, FieldNames DEF Only
<1>3. KeptGenuine(n, v)
  BY <1>1 DEF Receiver, KeptGenuine
<1>4. Relayed(n, v) /\ FinNoted(n, v) /\ EdgeHeld(n, v)
  BY <1>2, Zenon DEF Receiver, Relayed, FinNoted, EdgeHeld, FreeSpace
<1> QED BY <1>2, <1>3, <1>4 DEF Receiver, n

\* What _merge_reassembly finds is the stream's continuation.
LEMMA MergeContinues ==
    ASSUME NEW e, NEW v \in Views, Typed(e), KeptGenuine(e, v),
           sub(e.rcv_nxt, v.pbase) <= v.psent
    PROVE  \E data \in Seq(Bytes) :
              /\ MergeReassembly(e) = Pruned(Deliver(e, data))
              /\ Continues(sub(e.rcv_nxt, v.pbase), data, v)
<1> DEFINE g == sub(e.rcv_nxt, v.pbase)
           free == v.psent - g
<1>1. /\ e.rcv_nxt \in SeqNums /\ e.ooo \in SUBSET KeptRecords /\ v.pbase \in SeqNums
      /\ v.psent \in Nat /\ v.pnxt \in Nat /\ v.psent + RCV_WND + 2 < HALF
  BY Reads, ViewReads
<1>2. g \in Nat
  BY <1>1, Position
<1>3. free \in 0 .. HALF
  BY <1>1, <1>2, Halves
\* What holds the byte at position g + k.
<1>4. ASSUME NEW o \in e.ooo, NEW k \in 0 .. free,
             sub(add(e.rcv_nxt, k), o.seq) < Len(o.data)
      PROVE  /\ g + k < v.psent /\ g + k < v.pnxt /\ g + k + 1 \in v.sight
             /\ HeldByte(o, add(e.rcv_nxt, k)) = g + k + 1
  <2> DEFINE p == sub(o.seq, v.pbase)
             x == add(e.rcv_nxt, k)
             d == sub(x, o.seq)
             len == Len(o.data)
  <2>1. o.seq \in SeqNums /\ len \in Nat /\ k \in Nat /\ k <= free /\ free \in Nat
    BY <1>1, <1>3 DEF KeptRecords
  <2>2. p \in Nat /\ p + len <= v.psent /\ p + len <= v.pnxt /\ From(p, o.data)
        /\ Seen(p, o.data, v)
    BY <1>1, <2>1, Position DEF KeptGenuine
  <2>3. x \in SeqNums /\ sub(x, v.pbase) = g + k
    <3>1. g + k < MOD
      BY <1>1, <1>2, <2>1, Halves
    <3> QED BY <1>1, <2>1, <3>1, Onward
  <2>4. p < HALF /\ g + k < HALF
    <3>1. g + k <= v.psent
      BY <1>1, <1>2, <2>1
    <3> HIDE DEF p, len, g, free
    <3> QED BY <1>1, <1>2, <2>1, <2>2, <3>1, Halves
  <2>5. d = IF g + k >= p THEN g + k - p ELSE g + k - p + MOD
    <3>1. /\ sub(x, v.pbase) >= p => d = sub(x, v.pbase) - p
          /\ sub(x, v.pbase) < p => d = sub(x, v.pbase) - p + MOD
      BY <1>1, <2>1, <2>3, <2>4, Placed
    <3> HIDE DEF x, p, d
    <3> QED BY <1>2, <2>1, <2>2, <2>3, <3>1
  <2>6. d < len
    BY <1>4
  <2>7. d = sub(x, o.seq) /\ HeldByte(o, x) = o.data[d + 1]
    BY DEF HeldByte
  <2> HIDE DEF p, x, d, len, free
  <2>8. g + k >= p /\ d = g + k - p
    BY <1>1, <1>2, <2>1, <2>2, <2>4, <2>5, <2>6, Halves
  <2>9. d + 1 \in 1 .. len /\ p + (d + 1) = g + k + 1
    BY <1>2, <2>1, <2>2, <2>6, <2>8
  <2>10. o.data[d + 1] = p + (d + 1)
    BY <2>2, <2>9 DEF From, len
  <2>11. g + k < v.psent /\ g + k < v.pnxt
    BY <1>1, <1>2, <2>1, <2>2, <2>6, <2>8
  <2>12. g + k + 1 \in v.sight
    BY <2>2, <2>9 DEF Seen, len
  <2> QED BY <2>7, <2>9, <2>10, <2>11, <2>12 DEF x
<1>5. Holding(e, add(e.rcv_nxt, free)) = {}
  <2> SUFFICES ASSUME NEW o \in e.ooo, sub(add(e.rcv_nxt, free), o.seq) < Len(o.data)
               PROVE  FALSE
    BY DEF Holding
  <2>1. free \in 0 .. free
    BY <1>3
  <2>2. g + free < v.psent
    BY <1>4, <2>1
  <2> QED BY <1>1, <1>2, <2>2
<1>6. PICK data \in Seq(Bytes) :
         /\ MergeReassembly(e) = Pruned(Deliver(e, data))
         /\ Len(data) <= free
         /\ \A j \in 1 .. Len(data) :
               \E o \in Holding(e, add(e.rcv_nxt, j - 1)) :
                  data[j] = HeldByte(o, add(e.rcv_nxt, j - 1))
  <2> HIDE DEF free
  <2> QED BY <1>3, <1>5, MergeIs
<1>7. ASSUME NEW j \in 1 .. Len(data)
      PROVE  g + j <= v.psent /\ g + j <= v.pnxt /\ data[j] = g + j /\ g + j \in v.sight
  <2>1. PICK o \in Holding(e, add(e.rcv_nxt, j - 1)) :
            data[j] = HeldByte(o, add(e.rcv_nxt, j - 1))
    BY <1>6
  <2>2. o \in e.ooo /\ sub(add(e.rcv_nxt, j - 1), o.seq) < Len(o.data)
    BY DEF Holding
  <2>3. j - 1 \in 0 .. free /\ j \in Nat
    BY <1>1, <1>2, <1>3, <1>6
  <2> HIDE DEF free
  <2>4. /\ g + (j - 1) < v.psent /\ g + (j - 1) < v.pnxt /\ g + (j - 1) + 1 \in v.sight
        /\ HeldByte(o, add(e.rcv_nxt, j - 1)) = g + (j - 1) + 1
    BY <1>4, <2>2, <2>3
  <2>5. g \in Nat /\ v.psent \in Nat /\ v.pnxt \in Nat
    BY <1>1, <1>2
  <2> HIDE DEF g
  <2>6. g + (j - 1) + 1 = g + j /\ g + j <= v.psent /\ g + j <= v.pnxt
    BY <2>3, <2>4, <2>5
  <2> QED BY <2>1, <2>4, <2>6
<1>8. Continues(g, data, v)
  <2>1. From(g, data) /\ Seen(g, data, v)
    BY <1>7 DEF From, Seen
  <2>2. data # <<>> => Len(data) \in 1 .. Len(data)
    OBVIOUS
  <2> QED BY <1>7, <2>1, <2>2 DEF Continues
<1> QED BY <1>6, <1>8

\* Two pieces of the stream delivered one after the other.
LEMMA MergeReceiver ==
    ASSUME NEW e, NEW v \in Views, Typed(e), Receiver(e, v), NEW data \in Seq(Bytes),
           Continues(sub(e.rcv_nxt, v.pbase), data, v), data # <<>>,
           Len(MergeReassembly(Deliver(e, data)).recv_buf) <= RCV_WND
    PROVE  /\ Receiver(MergeReassembly(Deliver(e, data)), v)
           /\ sub(e.rcv_nxt, v.pbase) <= sub(MergeReassembly(Deliver(e, data)).rcv_nxt, v.pbase)
           /\ sub(MergeReassembly(Deliver(e, data)).rcv_nxt, v.pbase) <= v.psent
<1> DEFINE m == Deliver(e, data)
           g == sub(e.rcv_nxt, v.pbase)
<1>1. /\ Typed(m) /\ Only(e, m, {"recv_buf", "stream", "rcv_nxt"})
      /\ m.recv_buf = e.recv_buf \o data /\ m.rcv_nxt = add(e.rcv_nxt, Len(data))
  BY DeliverFrame
<1>2. /\ e.recv_buf \in Seq(Bytes) /\ e.rcv_nxt \in SeqNums /\ v.pbase \in SeqNums
      /\ Len(data) \in Nat /\ Len(e.recv_buf) \in Nat /\ Len(data) >= 1
  BY Reads, ViewReads
<1> HIDE DEF m
<1>3. g \in Nat /\ g + Len(data) <= v.psent /\ v.psent \in Nat /\ v.psent + RCV_WND + 2 < HALF
  BY <1>2, Position, ViewReads DEF Continues
<1>4. sub(m.rcv_nxt, v.pbase) = g + Len(data)
  <2>1. g + Len(data) < MOD
    <3> HIDE DEF g
    <3> QED BY <1>2, <1>3, Halves
  <2> QED BY <1>1, <1>2, <2>1, Onward
<1>5. KeptGenuine(m, v)
  <2>1. m.ooo = e.ooo
    BY <1>1, FieldNames DEF Only
  <2> QED BY <2>1, Zenon DEF Receiver, KeptGenuine
<1>6. PICK more \in Seq(Bytes) :
         /\ MergeReassembly(m) = Pruned(Deliver(m, more))
         /\ Continues(sub(m.rcv_nxt, v.pbase), more, v)
  <2>1. sub(m.rcv_nxt, v.pbase) <= v.psent
    BY <1>3, <1>4
  <2> QED BY <1>1, <1>5, <2>1, MergeContinues
<1> DEFINE d == Deliver(m, more)
<1>7. /\ Typed(d) /\ d.recv_buf = m.recv_buf \o more
  BY <1>1, DeliverFrame
<1> HIDE DEF d
<1>8. Only(d, Pruned(d), {"ooo"})
  BY <1>7, PrunedFrame
<1>9. MergeReassembly(m).recv_buf = d.recv_buf
  <2>1. Pruned(d).recv_buf = d.recv_buf
    BY <1>8, FieldNames DEF Only
  <2> QED BY <1>6, <2>1 DEF d
<1>10. Len(e.recv_buf) + Len(data) + Len(more) <= RCV_WND /\ Len(more) \in Nat
  <2>1. Len(m.recv_buf) = Len(e.recv_buf) + Len(data) /\ m.recv_buf \in Seq(Bytes)
    BY <1>1, <1>2
  <2>2. Len(d.recv_buf) = Len(m.recv_buf) + Len(more) /\ Len(more) \in Nat
    <3>1. more \in Seq(Bytes)
      OBVIOUS
    <3>2. m.recv_buf \in Seq(Bytes) /\ Len(more) \in Nat
      BY <2>1, <3>1
    <3>3. Len(m.recv_buf \o more) = Len(m.recv_buf) + Len(more)
      BY <3>1, <3>2
    <3> QED BY <1>7, <3>2, <3>3
  <2>3. Len(d.recv_buf) <= RCV_WND
    BY <1>9 DEF m
  <2> QED BY <2>1, <2>2, <2>3
<1>11. Receiver(m, v)
  <2>1. Len(e.recv_buf) + Len(data) <= RCV_WND
    BY <1>2, <1>10, Halves
  <2> QED BY <2>1, DeliverReceiver DEF m
<1>12. Receiver(d, v) /\ sub(d.rcv_nxt, v.pbase) = g + Len(data) + Len(more)
  <2>1. Len(m.recv_buf) + Len(more) <= RCV_WND
    BY <1>1, <1>2, <1>10
  <2>2. /\ Receiver(Deliver(m, more), v)
        /\ sub(Deliver(m, more).rcv_nxt, v.pbase) = sub(m.rcv_nxt, v.pbase) + Len(more)
    BY <1>1, <1>6, <1>11, <2>1, DeliverReceiver
  <2> QED BY <1>4, <2>2 DEF d
<1>13. Receiver(Pruned(d), v) /\ Pruned(d).rcv_nxt = d.rcv_nxt
  BY <1>7, <1>12, PrunedReceiver
<1>14. /\ g <= g + Len(data) + Len(more) /\ g + Len(data) + Len(more) <= v.psent
  <2>1. more # <<>> => g + Len(data) + Len(more) <= v.psent
    BY <1>4, <1>6 DEF Continues
  <2>2. more = <<>> => Len(more) = 0
    OBVIOUS
  <2> QED BY <1>2, <1>3, <1>10, <2>1, <2>2
<1> QED BY <1>6, <1>12, <1>13, <1>14 DEF m, d

\* What is kept out of order is part of the stream.
LEMMA StoreReceiver ==
    ASSUME NEW e, NEW v \in Views, Typed(e), Receiver(e, v), NEW seq \in SeqNums,
           NEW data \in Seq(Bytes), Len(data) \in 1 .. TextMax,
           Continues(sub(seq, v.pbase), data, v)
    PROVE  Receiver(StoreOoo(e, seq, data), v) /\ StoreOoo(e, seq, data).rcv_nxt = e.rcv_nxt
<1> DEFINE n == StoreOoo(e, seq, data)
           o == [seq |-> seq, data |-> data]
<1>1. Only(e, n, {"ooo"}) /\ n.ooo \subseteq e.ooo \cup {o}
  BY StoreOooFrame
<1> HIDE DEF n
<1>2. /\ n.rcv_nxt = e.rcv_nxt /\ n.recv_buf = e.recv_buf /\ n.stream = e.stream
      /\ n.pending_fin = e.pending_fin /\ n.adv_right = e.adv_right
  BY <1>1, FieldNames DEF Only
<1>3. KeptGenuine(n, v)
  <2> SUFFICES ASSUME NEW k \in n.ooo
               PROVE  /\ sub(k.seq, v.pbase) + Len(k.data) <= v.psent
                      /\ sub(k.seq, v.pbase) + Len(k.data) <= v.pnxt
                      /\ From(sub(k.seq, v.pbase), k.data)
                      /\ Seen(sub(k.seq, v.pbase), k.data, v)
    BY DEF KeptGenuine
  <2>1. CASE k \in e.ooo
    BY <2>1 DEF Receiver, KeptGenuine
  <2>2. CASE k = o
    <3>1. k.seq = seq /\ k.data = data /\ data # <<>>
      BY <2>2
    <3> QED BY <3>1 DEF Continues
  <2> QED BY <1>1, <2>1, <2>2
<1>4. Relayed(n, v) /\ FinNoted(n, v) /\ EdgeHeld(n, v)
  BY <1>2, Zenon DEF Receiver, Relayed, FinNoted, EdgeHeld, FreeSpace
<1> QED BY <1>2, <1>3, <1>4 DEF Receiver, n

\* The room left for text is a number.
LEMMA SpaceIs ==
    ASSUME NEW e, Typed(e), NEW seq \in SeqNums
    PROVE  Space(e, seq) \in Int
<1> DEFINE wnd == RcvWnd(e)
           d == sub(add(e.rcv_nxt, wnd), seq)
<1>1. wnd \in Int
  <2>1. wnd \in 0 .. FreeSpace(e) /\ FreeSpace(e) \in 0 .. RCV_WND
    BY WindowFits
  <2> HIDE DEF wnd
  <2> QED BY <2>1, Halves
<1> HIDE DEF wnd
<1>2. d \in SeqNums
  <2>1. e.rcv_nxt \in SeqNums
    BY Reads
  <2> QED BY <1>1, <2>1, InSeqNums
<1>3. Space(e, seq) = s32(d)
  BY DEF Space, wnd
<1> HIDE DEF d
<1>4. d \in Nat
  BY <1>2, Numbers
<1> QED BY <1>2, <1>3, <1>4, Signed, Halves

\* _recv_data's trimming takes a part of the stream.
LEMMA TakeTextReceiver ==
    ASSUME NEW e, NEW v \in Views, Typed(e), Len(e.recv_buf) <= RCV_WND, Ahead(e),
           Receiver(e, v), NEW seq \in SeqNums, sub(seq, e.rcv_nxt) < HALF,
           NEW text \in Seq(Bytes), Len(text) <= TextMax, Continues(sub(seq, v.pbase), text, v),
           NEW n, n = TakeText(e, seq, text, Space(e, seq))
    PROVE  /\ Receiver(n, v)
           /\ sub(e.rcv_nxt, v.pbase) <= sub(n.rcv_nxt, v.pbase)
           /\ sub(e.rcv_nxt, v.pbase) <= v.psent => sub(n.rcv_nxt, v.pbase) <= v.psent
<1> DEFINE space == Space(e, seq)
           data == SubSeq(text, 1, Least(Len(text), space))
           g == sub(e.rcv_nxt, v.pbase)
           p == sub(seq, v.pbase)
<1>1. Typed(n) /\ Len(n.recv_buf) <= RCV_WND
  BY TakeTextSound
<1>2. /\ e.rcv_nxt \in SeqNums /\ v.pbase \in SeqNums /\ v.psent \in Nat /\ v.pnxt \in Nat
      /\ Len(text) \in Nat
  BY Reads, ViewReads
<1>3. g \in Nat /\ p \in Nat
  BY <1>2, Position
<1>4. space \in Int
  BY SpaceIs
<1>5. CASE text = <<>> \/ space <= 0
  <2>1. n = e
    BY <1>5 DEF TakeText
  <2> QED BY <2>1, <1>3
<1>6. ASSUME text # <<>>, ~(space <= 0)
      PROVE  /\ data \in Seq(Bytes) /\ Len(data) \in 1 .. TextMax /\ Len(data) \in Nat
             /\ Continues(p, data, v)
  <2> HIDE DEF space, p
  <2>1. space >= 1 /\ Len(text) >= 1 /\ TextMax \in Nat
    BY <1>2, <1>4, <1>6, Halves
  <2> DEFINE k == Least(Len(text), space)
  <2>2. k \in 1 .. Len(text)
    BY <1>2, <1>4, <2>1 DEF Least
  <2>3. \A i \in 1 .. k : text[i] \in Bytes
    BY <1>2, <2>2
  <2>4. data \in Seq(Bytes) /\ Len(data) = k - 1 + 1
    BY <1>2, <2>2, <2>3, SubSeqProperties
  <2>5. \A i \in 1 .. k : data[i] = text[i]
    <3>1. k \in Nat /\ data = SubSeq(text, 1, k)
      BY <2>2
    <3> SUFFICES ASSUME NEW i \in 1 .. k PROVE data[i] = text[i]
      OBVIOUS
    <3> HIDE DEF k, data
    <3>2. data[i] = text[1 + i - 1]
      BY <1>2, <2>2, <2>4, <3>1, SubSeqProperties
    <3> QED BY <3>1, <3>2
  <2> HIDE DEF data, k
  <2>6. Len(data) \in 1 .. TextMax /\ Len(data) \in Nat /\ Len(data) <= Len(text)
        /\ Len(data) = k
    BY <1>2, <2>1, <2>2, <2>4
  <2>7. From(p, data)
    <3> SUFFICES ASSUME NEW j \in 1 .. Len(data) PROVE data[j] = p + j
      BY DEF From
    <3>1. j \in 1 .. Len(text) /\ data[j] = text[j]
      BY <1>2, <2>5, <2>6
    <3> QED BY <3>1 DEF Continues, From, p
  <2>7a. Seen(p, data, v)
    <3> SUFFICES ASSUME NEW j \in 1 .. Len(data) PROVE p + j \in v.sight
      BY DEF Seen
    <3>1. j \in 1 .. Len(text)
      BY <1>2, <2>6
    <3> QED BY <3>1 DEF Continues, Seen, p
  <2>8. p + Len(data) <= v.psent /\ p + Len(data) <= v.pnxt
    <3>1. p + Len(text) <= v.psent /\ p + Len(text) <= v.pnxt
      BY <1>6 DEF Continues, p
    <3>2. p \in Nat
      BY <1>3 DEF p
    <3> QED BY <1>2, <2>6, <3>1, <3>2
  <2> QED BY <2>4, <2>6, <2>7, <2>7a, <2>8 DEF Continues
<1>7. CASE text # <<>> /\ ~(space <= 0) /\ seq = e.rcv_nxt
  <2>1. n = MergeReassembly(Deliver(e, data))
    BY <1>7 DEF TakeText
  <2>2. p = g /\ data \in Seq(Bytes) /\ Len(data) >= 1 /\ Continues(p, data, v)
    BY <1>6, <1>7
  <2> HIDE DEF data, p
  <2>3. data # <<>> /\ Continues(sub(e.rcv_nxt, v.pbase), data, v)
    BY <2>2
  <2>4. Len(MergeReassembly(Deliver(e, data)).recv_buf) <= RCV_WND
    BY <1>1, <2>1
  <2>5. /\ Receiver(MergeReassembly(Deliver(e, data)), v)
        /\ sub(e.rcv_nxt, v.pbase) <= sub(MergeReassembly(Deliver(e, data)).rcv_nxt, v.pbase)
        /\ sub(MergeReassembly(Deliver(e, data)).rcv_nxt, v.pbase) <= v.psent
    BY <2>2, <2>3, <2>4, MergeReceiver
  <2> QED BY <2>1, <2>5
<1>8. CASE text # <<>> /\ ~(space <= 0) /\ seq # e.rcv_nxt
  <2>1. n = StoreOoo(e, seq, data)
    BY <1>8 DEF TakeText
  <2>2. data \in Seq(Bytes) /\ Len(data) \in 1 .. TextMax /\ Continues(p, data, v)
    BY <1>6, <1>8
  <2> HIDE DEF data
  <2>3. Receiver(StoreOoo(e, seq, data), v) /\ StoreOoo(e, seq, data).rcv_nxt = e.rcv_nxt
    BY <2>2, StoreReceiver
  <2> QED BY <1>3, <2>1, <2>3
<1> QED BY <1>5, <1>7, <1>8

-------------------------------------------------------------------------------
(* Acknowledgments.                                                        *)

\* An acknowledgment without text says nothing of the stream.
LEMMA BareTalks ==
    ASSUME NEW e, NEW v \in Views, Typed(e), Talks(e, v), NEW seq \in SeqNums
    PROVE  Talks(Emit(e, seq, {"ACK"}, <<>>), v)
<1>1. {"ACK"} \in FlagSets /\ <<>> \in Seq(Bytes) /\ MayCarry({"ACK"}, <<>>)
  BY DEF FlagSets, MayCarry
<1>2. ASSUME NEW seg, seg.seq = seq /\ seg.flags = {"ACK"} /\ seg.payload = <<>>
      PROVE  Genuine(seg, v.base, v.sent, sub(e.snd_nxt, v.base))
  BY <1>2 DEF Genuine
<1> QED BY <1>1, <1>2, EmitTalks

\* _send_ack.
LEMMA SendAckTalks ==
    ASSUME NEW e, NEW v \in Views, Typed(e), Talks(e, v)
    PROVE  Talks(SendAck(e), v)
<1> DEFINE m == Emit(e, e.snd_nxt, {"ACK"}, <<>>)
           n == [m EXCEPT !.ack_count = 0, !.ack_timer = FALSE]
<1>1. e.snd_nxt \in SeqNums /\ {"ACK"} \in FlagSets /\ <<>> \in Seq(Bytes)
      /\ MayCarry({"ACK"}, <<>>)
  BY Reads DEF FlagSets, MayCarry
<1>2. Typed(m) /\ Talks(m, v)
  BY <1>1, EmitFrame, BareTalks
<1>3. SendAck(e) = n
  BY DEF SendAck
<1> HIDE DEF m
<1>4. Only(m, n, {"ack_count", "ack_timer"})
  BY <1>2, FieldNames DEF Only, Typed
<1>5. {"ack_count", "ack_timer"} \cap TalkFields = {}
  BY DEF TalkFields, SenderFields, ReceiverFields
<1> HIDE DEF n
<1> QED BY <1>2, <1>3, <1>4, <1>5, TalksKept

\* _schedule_ack.
LEMMA ScheduleAckTalks ==
    ASSUME NEW e, NEW v \in Views, Typed(e), Talks(e, v), NEW force
    PROVE  Talks(ScheduleAck(e, force), v)
<1> DEFINE n == [e EXCEPT !.ack_count = @ + 1, !.ack_timer = TRUE]
<1>1. ScheduleAck(e, force) \in {SendAck(e), n}
  BY DEF ScheduleAck
<1>2. Only(e, n, {"ack_count", "ack_timer"})
  BY FieldNames DEF Only, Typed
<1>3. {"ack_count", "ack_timer"} \cap TalkFields = {}
  BY DEF TalkFields, SenderFields, ReceiverFields
<1> HIDE DEF n
<1> QED BY <1>1, <1>2, <1>3, SendAckTalks, TalksKept

\* A segment's text, without what came before, goes on with the stream.
LEMMA TextContinues ==
    ASSUME NEW e, NEW v \in Views, Typed(e), Receiver(e, v), NEW seg \in SegmentRecords,
           Genuine(seg, v.pbase, v.psent, v.pnxt), Shown(seg, v), seg.payload # <<>>
    PROVE  LET off  == Received(e, seg)
               seq  == add(seg.seq, off)
               text == SubSeq(seg.payload, off + 1, Len(seg.payload))
           IN  /\ off \in Nat /\ seq \in SeqNums /\ sub(seq, e.rcv_nxt) < HALF
               /\ text \in Seq(Bytes) /\ Len(text) <= TextMax
               /\ Continues(sub(seq, v.pbase), text, v)
<1> DEFINE off == Received(e, seg)
           seq == add(seg.seq, off)
           len == Len(seg.payload)
           text == SubSeq(seg.payload, off + 1, len)
           p == sub(seg.seq, v.pbase)
           g == sub(e.rcv_nxt, v.pbase)
<1> SUFFICES /\ off \in Nat /\ seq \in SeqNums /\ sub(seq, e.rcv_nxt) < HALF
             /\ text \in Seq(Bytes) /\ Len(text) <= TextMax
             /\ Continues(sub(seq, v.pbase), text, v)
  OBVIOUS
<1>1. /\ seg.seq \in SeqNums /\ seg.payload \in Seq(Bytes) /\ len \in Nat /\ len <= TextMax
      /\ seg.flags = {"ACK"} /\ TextMax \in Nat
  BY SegmentReads, Halves
<1>2. /\ e.rcv_nxt \in SeqNums /\ v.pbase \in SeqNums /\ v.psent \in Nat /\ v.pnxt \in Nat
      /\ v.psent + RCV_WND + 2 < HALF
  BY Reads, ViewReads
<1>3. p \in Nat /\ g \in Nat /\ g + RCV_WND < HALF
  BY <1>1, <1>2, Position, GotWithin
<1>4. p + len <= v.psent /\ p + len <= v.pnxt /\ From(p, seg.payload)
      /\ Seen(p, seg.payload, v)
  BY <1>1 DEF Genuine, Shown
<1>5. p < HALF /\ g < HALF
  <2> HIDE DEF p, g, len
  <2> QED BY <1>1, <1>2, <1>3, <1>4, Halves
<1>6. off = IF p < g THEN g - p ELSE 0
  <2>1. /\ seq_lt(seg.seq, e.rcv_nxt) <=> p < g
        /\ p <= g => sub(e.rcv_nxt, seg.seq) = g - p
    BY <1>1, <1>2, <1>5, Placed
  <2> HIDE DEF p, g
  <2> QED BY <1>3, <2>1 DEF Received
<1> HIDE DEF off
<1>7. off \in Nat /\ off <= g
  <2> HIDE DEF p, g
  <2> QED BY <1>3, <1>6
<1>8. seq \in SeqNums /\ sub(seq, v.pbase) = p + off
  <2>1. p + off < MOD
    <3> HIDE DEF p, g, len
    <3> QED BY <1>3, <1>5, <1>6, Halves
  <2> QED BY <1>1, <1>2, <1>7, <2>1, Onward
<1> HIDE DEF seq
<1>9. sub(seq, e.rcv_nxt) < HALF
  <2>1. p + off < HALF /\ p + off >= g
    <3> HIDE DEF p, g, len
    <3> QED BY <1>3, <1>5, <1>6
  <2>2. sub(seq, e.rcv_nxt) = sub(seq, v.pbase) - g
    BY <1>2, <1>5, <1>8, <2>1, Placed
  <2> HIDE DEF p, g
  <2> QED BY <1>3, <1>5, <1>7, <1>8, <2>1, <2>2, Halves
<1>10. CASE off + 1 > len
  <2>1. text = <<>>
    BY <1>1, <1>7, <1>10, SubSeqProperties
  <2> HIDE DEF text
  <2>2. text \in Seq(Bytes) /\ Len(text) = 0
    BY <2>1
  <2>3. Continues(sub(seq, v.pbase), text, v)
    BY <2>1, <2>2 DEF Continues, From, Seen
  <2> QED BY <1>1, <1>7, <1>8, <1>9, <2>2, <2>3
<1>11. CASE ~(off + 1 > len)
  <2>1. \A i \in off + 1 .. len : seg.payload[i] \in Bytes
    BY <1>1, <1>7
  <2>2. text \in Seq(Bytes) /\ Len(text) = len - (off + 1) + 1
    BY <1>1, <1>7, <1>11, <2>1, SubSeqProperties
  <2>3. \A j \in 1 .. len - off : text[j] = seg.payload[off + j]
    <3> SUFFICES ASSUME NEW j \in 1 .. len - off PROVE text[j] = seg.payload[off + j]
      OBVIOUS
    <3>1. text[j] = seg.payload[off + 1 + j - 1]
      BY <1>1, <1>7, <1>11, <2>2, SubSeqProperties
    <3>2. j \in Nat /\ off \in Nat
      BY <1>7
    <3> HIDE DEF text
    <3>3. off + 1 + j - 1 = off + j
      BY <3>2
    <3> QED BY <3>1, <3>3
  <2> HIDE DEF text, len
  <2>4. Len(text) = len - off /\ Len(text) \in Nat /\ Len(text) <= len
    BY <1>1, <1>7, <1>11, <2>2
  <2>5. From(p + off, text)
    <3> SUFFICES ASSUME NEW j \in 1 .. Len(text) PROVE text[j] = p + off + j
      BY DEF From
    <3>1. off + j \in 1 .. len /\ text[j] = seg.payload[off + j]
      BY <1>1, <1>7, <2>3, <2>4
    <3>2. seg.payload[off + j] = p + (off + j)
      BY <1>4, <3>1 DEF From, len
    <3> QED BY <1>3, <1>7, <3>1, <3>2
  <2>5a. Seen(p + off, text, v)
    <3> SUFFICES ASSUME NEW j \in 1 .. Len(text) PROVE p + off + j \in v.sight
      BY DEF Seen
    <3>1. off + j \in 1 .. len
      BY <1>1, <1>7, <2>4
    <3>2. p + (off + j) \in v.sight
      BY <1>4, <3>1 DEF Seen, len
    <3> QED BY <1>3, <1>7, <3>1, <3>2
  <2>6. p + off + Len(text) = p + len
    BY <1>1, <1>3, <1>7, <2>4
  <2>7. Continues(sub(seq, v.pbase), text, v)
    BY <1>4, <1>8, <2>5, <2>5a, <2>6 DEF Continues
  <2> QED BY <1>1, <1>7, <1>8, <1>9, <2>2, <2>4, <2>7
<1> QED BY <1>10, <1>11

-------------------------------------------------------------------------------
(* What the state of a connection and its timers depend on.                *)

StageFields == {"state", "fin_acked", "rcv_nxt", "retx", "rt_timer"}

WaitFields == {"state", "app_buf", "fin_pending", "fin_sent", "rt_timer", "persist_timer"}

\* A handler that leaves those alone leaves the connection where it was.
LEMMA StageKept ==
    ASSUME NEW e, NEW n, NEW v, NEW S, Talking(e, v), Sound(n), Talks(n, v), Only(e, n, S),
           S \cap StageFields = {}
    PROVE  Talking(n, v) /\ (Noticed(e) => Noticed(n)) /\ n.state = e.state
<1>1. /\ n.state = e.state /\ n.fin_acked = e.fin_acked /\ n.rcv_nxt = e.rcv_nxt
      /\ n.retx = e.retx /\ n.rt_timer = e.rt_timer
  BY FieldNames DEF Only, StageFields
<1>2. Timed(n) /\ Stage(n, v) /\ (Noticed(e) => Noticed(n))
  BY <1>1, Zenon DEF Talking, Timed, Stage, Told, Noticed
<1> QED BY <1>1, <1>2 DEF Talking

\* And waiting on what it waited on.
LEMMA WaitsKept ==
    ASSUME NEW e, NEW n, NEW S, Waits(e), Only(e, n, S), S \cap WaitFields = {}
    PROVE  Waits(n)
<1>1. /\ n.state = e.state /\ n.app_buf = e.app_buf /\ n.fin_pending = e.fin_pending
      /\ n.fin_sent = e.fin_sent /\ n.rt_timer = e.rt_timer /\ n.persist_timer = e.persist_timer
  BY FieldNames DEF Only, WaitFields
<1> QED BY <1>1, Zenon DEF Waits, MaySend

\* A change of fields that nothing here is about.
LEMMA TalkingKept ==
    ASSUME NEW e, NEW n, NEW v, NEW S, Talking(e, v), Typed(n), Only(e, n, S),
           S \cap (TalkFields \cup Judged \cup {"rt_timer"}) = {}
    PROVE  Talking(n, v) /\ (Noticed(e) => Noticed(n)) /\ n.state = e.state
<1>1. S \cap TalkFields = {} /\ S \cap Judged = {} /\ S \cap StageFields = {}
  BY DEF StageFields, Judged, TalkFields, SenderFields
<1>2. Talks(n, v)
  BY <1>1, TalksKept DEF Talking
<1>3. Sound(n)
  <2>1. Consistent(n)
    BY <1>1, Undisturbed DEF Talking, Sound
  <2> QED BY <2>1 DEF Sound
<1> QED BY <1>1, <1>2, <1>3, StageKept

\* _send_ack between two steps of a handler, or as the whole of one.
LEMMA SendAckTalking ==
    ASSUME NEW e, NEW v \in Views, Talking(e, v)
    PROVE  /\ Talking(SendAck(e), v)
           /\ Noticed(e) => Noticed(SendAck(e))
           /\ Waits(e) => Waits(SendAck(e))
           /\ SendAck(e).state = e.state
<1> DEFINE n == SendAck(e)
<1>1. Typed(e) /\ Talks(e, v) /\ Sound(e)
  BY DEF Talking, Sound
<1>2. Typed(n) /\ Only(e, n, Acking) /\ Talks(n, v)
  BY <1>1, SendAckFrame, SendAckTalks
<1> HIDE DEF n
<1>3. Acking \cap StageFields = {} /\ Acking \cap WaitFields = {} /\ Acking \cap Judged = {}
  BY DEF Acking, Emitted, StageFields, WaitFields, Judged
<1>4. Sound(n)
  BY <1>1, <1>2, <1>3, Undisturbed DEF Sound
<1>5. Talking(n, v) /\ (Noticed(e) => Noticed(n)) /\ n.state = e.state
  BY <1>2, <1>3, <1>4, StageKept
<1>6. Waits(e) => Waits(n)
  BY <1>2, <1>3, WaitsKept
<1> QED BY <1>5, <1>6 DEF n

\* Where the receiver stands, told in positions.
LEMMA ToldOrNot ==
    ASSUME NEW e, NEW v \in Views, Typed(e), Receiver(e, v)
    PROVE  ~Told(e, v) <=> sub(e.rcv_nxt, v.pbase) <= v.psent
<1>1. /\ sub(e.rcv_nxt, v.pbase) \in Nat /\ sub(e.rcv_nxt, v.pbase) <= v.psent + 1
      /\ v.psent \in Nat
  BY GotWithin, ViewReads
<1> QED BY <1>1 DEF Told

\* _recv_data, given what the peer has sent.
LEMMA RecvDataTalking ==
    ASSUME NEW e, NEW v \in Views, Talking(e, v), e.state \in Hearing,
           NEW seg \in SegmentRecords, Genuine(seg, v.pbase, v.psent, v.pnxt),
           Shown(seg, v), seg.payload # <<>>
    PROVE  /\ Talking(RecvData(e, seg), v)
           /\ Noticed(e) => Noticed(RecvData(e, seg))
           /\ RecvData(e, seg).state = e.state
<1> DEFINE off == Received(e, seg)
           seq == add(seg.seq, off)
           text == SubSeq(seg.payload, off + 1, Len(seg.payload))
           taken == TakeText(e, seq, text, Space(e, seq))
           force == (taken.rcv_nxt = e.rcv_nxt)
           n == RecvData(e, seg)
<1>1. /\ Typed(e) /\ Talks(e, v) /\ Sound(e) /\ Receiver(e, v) /\ Sender(e, v) /\ Says(e, v)
      /\ Len(e.recv_buf) <= RCV_WND /\ Ahead(e)
  BY DEF Talking, Sound, Talks, Consistent
<1>2. Sound(n) /\ Only(e, n, Receiving) /\ n.state = e.state
  BY <1>1, RecvDataSound
<1>3. /\ off \in Nat /\ seq \in SeqNums /\ sub(seq, e.rcv_nxt) < HALF
      /\ text \in Seq(Bytes) /\ Len(text) <= TextMax
      /\ Continues(sub(seq, v.pbase), text, v)
  BY <1>1, TextContinues
<1>4. n = ScheduleAck(taken, force)
  BY DEF RecvData
<1> HIDE DEF n, seq, text, off
<1>5. Typed(taken) /\ Only(e, taken, Delivering)
  BY <1>1, <1>3, TakeTextSound
<1>6. /\ Receiver(taken, v)
      /\ sub(e.rcv_nxt, v.pbase) <= sub(taken.rcv_nxt, v.pbase)
      /\ sub(e.rcv_nxt, v.pbase) <= v.psent => sub(taken.rcv_nxt, v.pbase) <= v.psent
  BY <1>1, <1>3, TakeTextReceiver
<1> HIDE DEF taken
<1>7. Sender(taken, v)
  BY <1>1, <1>5, SenderKept DEF Delivering, SenderFields
<1>8. Says(taken, v)
  <2>1. taken.out = e.out /\ taken.snd_nxt = e.snd_nxt /\ taken.snd_una = e.snd_una
    BY <1>5, FieldNames DEF Only, Delivering
  <2>2. sub(e.snd_nxt, v.base) \in Nat /\ sub(e.snd_nxt, v.base) <= v.sent + 1
    BY <1>1, SentWithin
  <2>3. /\ sub(e.snd_nxt, v.base) <= sub(taken.snd_nxt, v.base)
        /\ sub(taken.snd_nxt, v.base) <= v.sent + 1
    BY <2>1, <2>2
  <2> QED BY <1>1, <1>5, <1>6, <2>1, <2>3, SaysKept
<1>9. Talks(n, v)
  <2>1. Talks(taken, v)
    BY <1>6, <1>7, <1>8 DEF Talks
  <2> QED BY <1>4, <1>5, <2>1, ScheduleAckTalks
<1>10. n.rcv_nxt = taken.rcv_nxt
  <2>1. force \in BOOLEAN
    OBVIOUS
  <2>2. Only(taken, n, Acking)
    BY <1>4, <1>5, <2>1, ScheduleAckFrame
  <2> QED BY <2>2, FieldNames DEF Only, Acking, Emitted
<1>11. n.fin_acked = e.fin_acked /\ n.retx = e.retx /\ n.rt_timer = e.rt_timer
  BY <1>2, FieldNames DEF Only, Receiving, Delivering, Acking, Emitted
<1>12. ~Told(e, v) /\ ~Told(n, v)
  <2>1. ~Told(e, v)
    BY DEF Talking, Stage, ToldStates, Hearing
  <2>2. sub(n.rcv_nxt, v.pbase) <= v.psent
    BY <1>1, <1>6, <1>10, <2>1, ToldOrNot
  <2> QED BY <1>2, <1>9, <2>1, <2>2, ToldOrNot DEF Talks, Sound
<1>13. Timed(n) /\ Stage(n, v) /\ (Noticed(e) => Noticed(n))
  BY <1>2, <1>11, <1>12, Zenon DEF Talking, Timed, Stage, Noticed
<1> QED BY <1>2, <1>9, <1>13 DEF Talking, n

\* _send_pending in a connection that is up.
LEMMA SendPendingTalking ==
    ASSUME NEW e, NEW v \in Views, Talking(e, v)
    PROVE  /\ Talking(SendPending(e), v)
           /\ Waits(SendPending(e))
           /\ Noticed(e) => Noticed(SendPending(e))
           /\ SendPending(e).state \in Own(e.state)
<1> DEFINE n == SendPending(e)
<1>1. /\ Typed(e) /\ Talks(e, v) /\ Sound(e) /\ Timed(e) /\ Stage(e, v)
  BY DEF Talking, Sound
<1>2. /\ Sound(n) /\ Only(e, n, Sending)
      /\ \/ n.state = e.state
         \/ /\ e.state \in {"ESTABLISHED", "CLOSE_WAIT", "SYN_RECEIVED"}
            /\ n.state = AfterOurFin(e.state)
  BY <1>1, SendPendingSound
<1>3. Talks(n, v) /\ Timed(n) /\ (MaySend(e) => Waits(n)) /\ n.fin_acked = e.fin_acked
  BY <1>1, SendPendingTalks
<1>4. ~MaySend(e) => n = e
  BY DEF SendPending
<1>5. Waits(n)
  BY <1>3, <1>4 DEF Waits
<1> HIDE DEF n
<1>6. n.rcv_nxt = e.rcv_nxt
  BY <1>2, FieldNames DEF Only, Sending, Segmenting, Queueing, Emitted, Moving
<1>7. CASE n.state = e.state
  <2>1. Stage(n, v) /\ (Noticed(e) => Noticed(n))
    BY <1>1, <1>3, <1>6, <1>7, Zenon DEF Stage, Told, Noticed
  <2> QED BY <1>2, <1>3, <1>5, <1>7, <2>1 DEF Talking, n, Own
<1>8. CASE /\ e.state \in {"ESTABLISHED", "CLOSE_WAIT", "SYN_RECEIVED"}
           /\ n.state = AfterOurFin(e.state)
  <2>1. e.state \in {"ESTABLISHED", "CLOSE_WAIT"}
    BY <1>1, <1>8 DEF Stage, Up, Finished
  <2>2. /\ e.state = "ESTABLISHED" => n.state = "FIN_WAIT_1"
        /\ e.state = "CLOSE_WAIT" => n.state = "LAST_ACK"
    BY <1>8, <2>1 DEF AfterOurFin, StatesBeforeFin
  <2>3. Told(n, v) <=> Told(e, v)
    BY <1>6 DEF Told
  <2>4. Stage(n, v)
    BY <1>1, <2>1, <2>2, <2>3 DEF Stage, Up, Finished, ToldStates
  <2>5. n.fin_acked = FALSE
    BY <1>1, <1>3, <2>1 DEF Sound, Consistent, Finished
  <2>6. n.state \in Own(e.state)
    BY <1>8 DEF Own
  <2> QED BY <1>2, <1>3, <1>5, <2>4, <2>5, <2>6 DEF Talking, Noticed, n
<1> QED BY <1>2, <1>7, <1>8

\* The same with the probes stopped.
LEMMA CancelPersistTalking ==
    ASSUME NEW e, NEW v \in Views, Talking(e, v)
    PROVE  /\ Talking(CancelPersist(e), v)
           /\ Waits(CancelPersist(e))
           /\ Noticed(e) => Noticed(CancelPersist(e))
           /\ CancelPersist(e).state \in Own(e.state)
<1> DEFINE m == [e EXCEPT !.persist_timer = FALSE]
<1>1. Typed(e)
  BY DEF Talking, Sound
<1>2. Typed(m)
  BY <1>1, Values, FieldNames, Zenon DEF Typed
<1>3. Only(e, m, {"persist_timer"})
  BY <1>1, FieldNames DEF Only, Typed
<1>4. CancelPersist(e) = SendPending(m)
  BY DEF CancelPersist
<1> HIDE DEF m
<1>5. Talking(m, v) /\ (Noticed(e) => Noticed(m)) /\ m.state = e.state
  <2>1. {"persist_timer"} \cap (TalkFields \cup Judged \cup {"rt_timer"}) = {}
    BY DEF TalkFields, SenderFields, ReceiverFields, Judged
  <2> QED BY <1>2, <1>3, <2>1, TalkingKept
<1> QED BY <1>4, <1>5, SendPendingTalking

-------------------------------------------------------------------------------
(* The peer's FIN.                                                         *)

\* _set_state says nothing.
LEMMA SetStateTalks ==
    ASSUME NEW e, NEW v, Typed(e), Talks(e, v), NEW new \in States
    PROVE  /\ Typed(SetState(e, new)) /\ Only(e, SetState(e, new), Moving)
           /\ Talks(SetState(e, new), v) /\ SetState(e, new).state = new
<1>1. Typed(SetState(e, new)) /\ Only(e, SetState(e, new), Moving) /\ SetState(e, new).state = new
  BY SetStateFrame
<1>2. Moving \cap TalkFields = {}
  BY DEF Moving, TalkFields, SenderFields, ReceiverFields
<1> QED BY <1>1, <1>2, TalksKept

\* _enter_time_wait, with our FIN acknowledged and the peer's told.
LEMMA EnterTimeWaitTalking ==
    ASSUME NEW e, NEW v \in Views, Sound(e), Talks(e, v), Told(e, v), e.state \in Finished,
           e.fin_acked = TRUE
    PROVE  Connected(EnterTimeWait(e), v)
<1> DEFINE still == StopRt(e)
           moved == SetState(still, "TIME_WAIT")
           n == [moved EXCEPT !.tw_timer = TRUE]
<1>1. Typed(e) /\ Consistent(e) /\ e.fin_sent = TRUE /\ Len(e.recv_buf) <= RCV_WND
  BY DEF Sound, Consistent
<1>2. e.retx = <<>>
  BY <1>1 DEF Talks, Sender, FinLaid
<1>3. Sound(EnterTimeWait(e)) /\ EnterTimeWait(e).state = "TIME_WAIT"
  BY <1>1, EnterTimeWaitSound
<1>4. Typed(still) /\ Only(e, still, {"rt_timer", "rto_count"})
  BY <1>1, TimerFrames
<1>5. still.rt_timer = FALSE
  BY <1>1, FieldNames DEF StopRt, Typed
<1> DEFINE idle == [still EXCEPT !.persist_timer = FALSE]
<1>6. EnterTimeWait(e) = [SetState(SendPending(idle), "TIME_WAIT") EXCEPT !.tw_timer = TRUE]
  BY DEF EnterTimeWait, CancelPersist
<1> HIDE DEF still
<1>7. Talks(still, v)
  <2>1. {"rt_timer", "rto_count"} \cap TalkFields = {}
    BY DEF TalkFields, SenderFields, ReceiverFields
  <2> QED BY <1>4, <2>1, TalksKept
<1>8. Typed(idle)
  BY <1>4, Values, FieldNames, Zenon DEF Typed
<1>9. Only(still, idle, {"persist_timer"})
  BY <1>4, FieldNames DEF Only, Typed
<1> HIDE DEF idle
<1>10. Talks(idle, v)
  <2>1. {"persist_timer"} \cap TalkFields = {}
    BY DEF TalkFields, SenderFields, ReceiverFields
  <2> QED BY <1>7, <1>9, <2>1, TalksKept
<1>11. /\ idle.state = e.state /\ idle.rt_timer = FALSE /\ idle.retx = <<>>
       /\ idle.rcv_nxt = e.rcv_nxt /\ idle.fin_acked = TRUE
  BY <1>2, <1>4, <1>5, <1>9, FieldNames DEF Only
<1>12. SendPending(idle) = idle
  <2>1. ~MaySend(idle)
    BY <1>11 DEF MaySend, Finished
  <2> QED BY <2>1 DEF SendPending
<1> DEFINE m == SetState(idle, "TIME_WAIT")
           k == [m EXCEPT !.tw_timer = TRUE]
<1>13. EnterTimeWait(e) = k
  BY <1>6, <1>12
<1>14. Typed(m) /\ Only(idle, m, Moving) /\ Talks(m, v)
  BY <1>8, <1>10, SetStateTalks DEF States
<1> HIDE DEF m
<1>15. Only(m, k, {"tw_timer"})
  BY <1>14, FieldNames DEF Only, Typed
<1>16. Talks(k, v)
  <2>1. {"tw_timer"} \cap TalkFields = {}
    BY DEF TalkFields, SenderFields, ReceiverFields
  <2> HIDE DEF k
  <2> QED BY <1>14, <1>15, <2>1, TalksKept
<1> HIDE DEF k
<1>17. k.rt_timer = FALSE /\ k.retx = <<>> /\ k.rcv_nxt = e.rcv_nxt /\ k.fin_acked = TRUE
  BY <1>11, <1>14, <1>15, FieldNames DEF Only, Moving
<1>18. k.state = "TIME_WAIT" /\ Sound(k)
  BY <1>3, <1>13
<1>19. Timed(k) /\ Stage(k, v) /\ Noticed(k) /\ Waits(k)
  BY <1>17, <1>18 DEF Timed, Stage, Told, Noticed, Waits, MaySend, ToldStates, Up, Finished
<1> QED BY <1>13, <1>16, <1>18, <1>19 DEF Connected, Talking

\* _process_fin: the stream has ended.
LEMMA ProcessFinTalking ==
    ASSUME NEW e, NEW v \in Views, Talking(e, v), Noticed(e), Waits(e),
           e.state \in Exchanging, e.pending_fin # None, e.rcv_nxt = e.pending_fin
    PROVE  Connected(ProcessFin(e), v)
<1> DEFINE next == add(e.rcv_nxt, 1)
           told == Append(e.stream, EOF)
           m == [e EXCEPT !.pending_fin = None, !.rcv_nxt = next, !.stream = told]
           a == SendAck(m)
           g == sub(e.rcv_nxt, v.pbase)
<1>1. /\ Typed(e) /\ Consistent(e) /\ Talks(e, v) /\ Sender(e, v) /\ Receiver(e, v) /\ Says(e, v)
      /\ Timed(e) /\ Stage(e, v) /\ Sound(e)
  BY DEF Talking, Sound, Talks
<1>2. /\ e.rcv_nxt \in SeqNums /\ v.pbase \in SeqNums /\ e.stream \in Seq(Bytes \cup {EOF})
      /\ v.psent \in Nat /\ v.psent + RCV_WND + 2 < HALF
  BY <1>1, Reads, ViewReads
<1>3. g = v.psent /\ v.pnxt = v.psent + 1 /\ Len(e.stream) = v.psent
  BY <1>1 DEF Receiver, FinNoted, Relayed
<1>4. next \in SeqNums /\ sub(next, v.pbase) = v.psent + 1
  <2>1. g + 1 < MOD
    BY <1>2, <1>3, Halves
  <2> QED BY <1>2, <1>3, <2>1, Onward
<1>5. e.state \in {"ESTABLISHED", "FIN_WAIT_1", "FIN_WAIT_2"}
  <2>1. ~Told(e, v)
    BY <1>2, <1>3 DEF Told
  <2> QED BY <1>1, <2>1 DEF Stage, ToldStates, Exchanging
<1>6. next \in EngineTypes["rcv_nxt"] /\ told \in EngineTypes["stream"]
  <2>1. told \in Seq(Bytes \cup {EOF})
    BY <1>2
  <2> QED BY <1>4, <2>1, FieldTypes
<1>7. ProcessFin(e) = EnterAfterFin(a)
  BY DEF ProcessFin
<1>7a. /\ told \in Seq(Bytes \cup {EOF}) /\ Len(told) = v.psent + 1
       /\ \A i \in 1 .. v.psent : told[i] = e.stream[i]
       /\ told[v.psent + 1] = EOF
  BY <1>2, <1>3
<1> HIDE DEF next, told
<1>8. Typed(m)
  BY <1>1, <1>6, Values, FieldNames, Zenon DEF Typed
<1>9. /\ Only(e, m, {"pending_fin", "rcv_nxt", "stream"})
      /\ m.pending_fin = None /\ m.rcv_nxt = next /\ m.stream = told
  BY <1>1, FieldNames DEF Only, Typed
<1> HIDE DEF m
<1>10. Sender(m, v)
  BY <1>1, <1>9, SenderKept DEF SenderFields
<1>11. Receiver(m, v)
  <2>1. m.ooo = e.ooo /\ m.adv_right = e.adv_right /\ m.recv_buf = e.recv_buf
    BY <1>9, FieldNames DEF Only
  <2>2. KeptGenuine(m, v)
    BY <1>1, <2>1, Zenon DEF Receiver, KeptGenuine
  <2>3. FinNoted(m, v)
    BY <1>9 DEF FinNoted
  <2>4. Relayed(m, v)
    <3>1. ASSUME NEW i \in 1 .. v.psent + 1
          PROVE  told[i] = Item(v.psent, i) /\ (i > v.rcv => i \in v.sight)
      <4>1. CASE i = v.psent + 1
        <5>1. ~(i <= v.psent)
          BY <1>2, <4>1
        <5>2. told[i] = EOF
          BY <1>7a, <4>1, Zenon
        <5>3. i \in v.sight
          BY <1>1, <4>1 DEF Receiver, FinNoted
        <5> QED BY <5>1, <5>2, <5>3 DEF Item
      <4>2. CASE i # v.psent + 1
        <5>1. i \in 1 .. v.psent /\ i \in 1 .. Len(e.stream)
          BY <1>2, <1>3, <4>2
        <5> QED BY <1>1, <1>7a, <5>1 DEF Receiver, Relayed
      <4> QED BY <4>1, <4>2
    <3> QED BY <1>2, <1>3, <1>4, <1>7a, <1>9, <3>1 DEF Relayed
  <2>5. EdgeHeld(m, v)
    <3>1. FreeSpace(m) = FreeSpace(e) /\ FreeSpace(e) \in Nat
      <4>1. FreeSpace(e) \in Nat
        BY <1>1, WindowFits, Halves
      <4> QED BY <2>1, <4>1 DEF FreeSpace
    <3>2. CASE e.adv_right # None
      <4>1. sub(e.adv_right, v.pbase) <= v.psent + FreeSpace(e)
        BY <1>1, <1>3, <3>2 DEF Receiver, EdgeHeld
      <4>2. sub(e.adv_right, v.pbase) \in Nat
        <5>1. e.adv_right \in SeqNums
          BY <1>1, <3>2, Reads DEF Noted
        <5> QED BY <1>2, <5>1, Position
      <4>3. sub(e.adv_right, v.pbase) <= v.psent + 1 + FreeSpace(e)
        BY <1>2, <3>1, <4>1, <4>2
      <4> QED BY <1>4, <1>9, <2>1, <3>1, <4>3 DEF EdgeHeld
    <3>3. CASE e.adv_right = None
      BY <2>1, <3>3 DEF EdgeHeld
    <3> QED BY <3>2, <3>3
  <2> QED BY <2>2, <2>3, <2>4, <2>5 DEF Receiver
<1>12. Says(m, v)
  <2>1. m.out = e.out /\ m.snd_nxt = e.snd_nxt /\ m.snd_una = e.snd_una
    BY <1>9, FieldNames DEF Only
  <2>2. sub(e.snd_nxt, v.base) \in Nat /\ sub(e.snd_nxt, v.base) <= v.sent + 1
    BY <1>1, SentWithin
  <2>3. /\ sub(e.snd_nxt, v.base) <= sub(m.snd_nxt, v.base)
        /\ sub(m.snd_nxt, v.base) <= v.sent + 1
        /\ sub(e.rcv_nxt, v.pbase) <= sub(m.rcv_nxt, v.pbase)
    BY <1>2, <1>3, <1>4, <1>9, <2>1, <2>2
  <2> QED BY <1>1, <1>8, <2>1, <2>3, SaysKept
<1>13. Typed(a) /\ Only(m, a, Acking) /\ Talks(a, v)
  BY <1>8, <1>10, <1>11, <1>12, SendAckFrame, SendAckTalks DEF Talks
<1> HIDE DEF a
<1>14. /\ a.state = e.state /\ a.recv_buf = e.recv_buf /\ a.fin_sent = e.fin_sent
       /\ a.fin_acked = e.fin_acked /\ a.rcv_nxt = next /\ a.retx = e.retx
       /\ a.rt_timer = e.rt_timer /\ a.persist_timer = e.persist_timer
       /\ a.app_buf = e.app_buf /\ a.fin_pending = e.fin_pending
  BY <1>9, <1>13, FieldNames DEF Only, Acking, Emitted
<1>15. Told(a, v)
  BY <1>4, <1>14 DEF Told
<1>16. Sound(ProcessFin(e)) /\ ProcessFin(e).state = AfterFin(e.state)
  BY <1>1, ProcessFinSound
<1>17. CASE e.state = "FIN_WAIT_2"
  <2>1. ProcessFin(e) = EnterTimeWait(a)
    BY <1>7, <1>14, <1>17 DEF EnterAfterFin, AfterFin
  <2>2. a.fin_acked = TRUE /\ a.state \in Finished
    <3>1. e.fin_acked \in BOOLEAN
      BY <1>1, Reads
    <3> QED BY <1>1, <1>14, <1>17, <3>1 DEF Stage, Finished
  <2>3. Sound(a)
    <3>1. a.fin_sent = TRUE
      BY <1>1, <1>14, <1>17 DEF Consistent, Finished
    <3>2. a.ooo = e.ooo
      BY <1>9, <1>13, FieldNames DEF Only, Acking, Emitted
    <3>3. Ahead(a)
      <4> SUFFICES ASSUME NEW o \in a.ooo
                   PROVE  /\ sub(o.seq, a.rcv_nxt) >= 1
                          /\ sub(o.seq, a.rcv_nxt) + Len(o.data) <= RCV_WND - Len(a.recv_buf)
        BY DEF Ahead
      <4> DEFINE p == sub(o.seq, v.pbase)
      <4>1. Ahead(e) /\ e.ooo \in SUBSET KeptRecords
        BY <1>1, <1>17, Reads DEF Consistent, Hearing
      <4>2. /\ sub(o.seq, e.rcv_nxt) >= 1 /\ o.seq \in SeqNums
            /\ p + Len(o.data) <= v.psent /\ Len(o.data) \in 1 .. TextMax
        BY <1>1, <3>2, <4>1 DEF Ahead, KeptRecords, Receiver, KeptGenuine
      <4>3. /\ sub(o.seq, e.rcv_nxt) + Len(o.data) <= RCV_WND - Len(e.recv_buf)
            /\ Len(e.recv_buf) \in Nat
        BY <1>1, <3>2, <4>1, Reads DEF Ahead
      <4>4. p \in Nat /\ Len(o.data) \in Nat /\ Len(o.data) >= 1
        <5>1. p \in Nat
          BY <1>2, <4>2, Position
        <5>2. Len(o.data) \in Nat /\ Len(o.data) >= 1
          BY <4>2, Halves
        <5> QED BY <5>1, <5>2
      <4>5. p < g /\ p < HALF /\ g < HALF
        <5> HIDE DEF p, g
        <5> QED BY <1>2, <1>3, <4>2, <4>4, Halves
      <4>6. sub(o.seq, e.rcv_nxt) = p - g + MOD
        BY <1>2, <4>2, <4>5, Placed
      <4> DEFINE d == sub(o.seq, e.rcv_nxt)
                 k == Len(o.data)
                 h == Len(e.recv_buf)
      <4>7. ~(d + k <= RCV_WND - h)
        <5>1. /\ d = p - g + MOD /\ p \in Nat /\ g \in Nat /\ g < HALF /\ k \in Nat /\ h \in Nat
              /\ RCV_WND < HALF /\ RCV_WND \in Nat /\ HALF \in Nat /\ MOD = HALF + HALF
          BY <1>2, <1>3, <4>3, <4>4, <4>5, <4>6, Halves
        <5> HIDE DEF p, g, d, k, h
        <5> QED BY <5>1
      <4> QED BY <4>3, <4>7
    <3> QED BY <1>1, <1>13, <1>14, <1>17, <3>1, <3>3 DEF Sound, Consistent, Unopened, Finished, Hearing
  <2> QED BY <1>15, <1>13, <2>1, <2>2, <2>3, EnterTimeWaitTalking
<1>18. CASE e.state \in {"ESTABLISHED", "FIN_WAIT_1"}
  <2> DEFINE n == SetState(a, AfterFin(e.state))
  <2>1. AfterFin(e.state) \in {"CLOSE_WAIT", "CLOSING"} /\ AfterFin(e.state) \in States
        /\ (e.state = "ESTABLISHED" <=> AfterFin(e.state) = "CLOSE_WAIT")
    BY <1>18 DEF AfterFin, States
  <2>2. ProcessFin(e) = n
    BY <1>7, <1>14, <2>1 DEF EnterAfterFin
  <2>3. Only(a, n, Moving) /\ Talks(n, v) /\ n.state = AfterFin(e.state)
    BY <1>13, <2>1, SetStateTalks
  <2> HIDE DEF n
  <2>4. /\ n.fin_sent = e.fin_sent /\ n.fin_acked = e.fin_acked /\ n.rcv_nxt = next
        /\ n.retx = e.retx /\ n.rt_timer = e.rt_timer /\ n.persist_timer = e.persist_timer
        /\ n.app_buf = e.app_buf /\ n.fin_pending = e.fin_pending
    BY <1>14, <2>3, FieldNames DEF Only, Moving
  <2>5. Timed(n)
    BY <1>1, <2>4, Zenon DEF Timed
  <2>6. Stage(n, v)
    <3>1. Told(n, v)
      BY <1>4, <2>4 DEF Told
    <3> QED BY <2>1, <2>3, <3>1 DEF Stage, Up, Finished, ToldStates
  <2>7. Noticed(n)
    BY <1>18, <2>1, <2>3, <2>4 DEF Noticed
  <2>8. Waits(n)
    <3>1. CASE e.state = "ESTABLISHED"
      BY <2>1, <2>4, <3>1 DEF Waits, MaySend
    <3>2. CASE e.state = "FIN_WAIT_1"
      BY <2>1, <2>3, <3>2 DEF Waits, MaySend
    <3> QED BY <1>18, <3>1, <3>2
  <2> QED BY <1>16, <2>2, <2>3, <2>5, <2>6, <2>7, <2>8 DEF Connected, Talking
<1> QED BY <1>5, <1>17, <1>18

-------------------------------------------------------------------------------
(* Text and FIN.                                                           *)

\* A FIN that is noted is the peer's.
LEMMA NoteFinTalking ==
    ASSUME NEW e, NEW v \in Views, Talking(e, v), Noticed(e), Waits(e),
           NEW seg \in SegmentRecords, Genuine(seg, v.pbase, v.psent, v.pnxt),
           Shown(seg, v), "RST" \notin seg.flags, "FIN" \in seg.flags
    PROVE  LET n == NoteFin(e, add(seg.seq, Len(seg.payload))) IN
           Talking(n, v) /\ Noticed(n) /\ Waits(n) /\ n.state = e.state
<1> DEFINE number == add(seg.seq, Len(seg.payload))
           m == [e EXCEPT !.pending_fin = number]
<1>1. /\ Typed(e) /\ Consistent(e) /\ Sound(e) /\ Talks(e, v)
      /\ Sender(e, v) /\ Receiver(e, v) /\ Says(e, v)
  BY DEF Talking, Sound, Talks
<1>2. seg.seq \in SeqNums /\ seg.payload = <<>> /\ Len(seg.payload) = 0
  <2>1. seg.payload = <<>>
    BY SegmentReads
  <2> QED BY <2>1, SegmentReads
<1>3. /\ sub(seg.seq, v.pbase) = v.psent /\ v.pnxt = v.psent + 1
      /\ v.psent + 1 \in v.sight
  BY DEF Genuine, Shown
<1>4. number \in SeqNums /\ sub(number, v.pbase) = v.psent
  <2>1. v.pbase \in SeqNums /\ v.psent \in Nat /\ v.psent + RCV_WND + 2 < HALF
    BY ViewReads
  <2>2. sub(seg.seq, v.pbase) + 0 < MOD
    BY <1>3, <2>1, Halves
  <2>3. add(seg.seq, 0) \in SeqNums /\ sub(add(seg.seq, 0), v.pbase) = sub(seg.seq, v.pbase) + 0
    BY <1>2, <2>1, <2>2, Onward
  <2> QED BY <1>2, <1>3, <2>1, <2>3
<1>5. number \in EngineTypes["pending_fin"]
  BY <1>4, FieldTypes DEF Noted
<1>6. NoteFin(e, number) \in {m, e}
  BY DEF NoteFin
<1> HIDE DEF number
<1>7. Typed(m)
  BY <1>1, <1>5, FieldNames, Zenon DEF Typed
<1>8. Only(e, m, {"pending_fin"}) /\ m.pending_fin = number
  BY <1>1, FieldNames DEF Only, Typed
<1> HIDE DEF m
<1>9. /\ m.ooo = e.ooo /\ m.adv_right = e.adv_right /\ m.recv_buf = e.recv_buf
      /\ m.stream = e.stream /\ m.rcv_nxt = e.rcv_nxt /\ m.out = e.out /\ m.snd_nxt = e.snd_nxt
      /\ m.snd_una = e.snd_una
  BY <1>8, FieldNames DEF Only
<1>10. Talks(m, v)
  <2>1. Sender(m, v)
    BY <1>1, <1>8, SenderKept DEF SenderFields
  <2>2. KeptGenuine(m, v) /\ Relayed(m, v)
    BY <1>1, <1>9, Zenon DEF Receiver, KeptGenuine, Relayed
  <2>3. FinNoted(m, v)
    BY <1>3, <1>4, <1>8 DEF FinNoted
  <2>4. EdgeHeld(m, v)
    BY <1>1, <1>9 DEF Receiver, EdgeHeld, FreeSpace
  <2>5. Says(m, v)
    BY <1>1, <1>9, Zenon DEF Says, Recent
  <2> QED BY <2>1, <2>2, <2>3, <2>4, <2>5 DEF Talks, Receiver
<1>11. Sound(m)
  <2>1. {"pending_fin"} \cap Judged = {}
    BY DEF Judged
  <2> QED BY <1>1, <1>7, <1>8, <2>1, Undisturbed DEF Sound
<1>12. Talking(m, v) /\ Noticed(m) /\ m.state = e.state
  <2>1. {"pending_fin"} \cap StageFields = {}
    BY DEF StageFields
  <2> QED BY <1>8, <1>10, <1>11, <2>1, StageKept
<1>13. Waits(m)
  <2>1. {"pending_fin"} \cap WaitFields = {}
    BY DEF WaitFields
  <2> QED BY <1>8, <2>1, WaitsKept
<1> QED BY <1>6, <1>12, <1>13 DEF number

\* The tail of on_segment in a connection that is up.
LEMMA TextAndFinTalking ==
    ASSUME NEW e, NEW v \in Views, Talking(e, v), Noticed(e), e.state \in Exchanging,
           NEW seg \in SegmentRecords, Genuine(seg, v.pbase, v.psent, v.pnxt),
           Shown(seg, v), "RST" \notin seg.flags
    PROVE  Connected(TextAndFin(e, seg), v)
<1> DEFINE text == IF /\ seg.payload # <<>>
                      /\ e.state \in {"ESTABLISHED", "FIN_WAIT_1", "FIN_WAIT_2"}
                   THEN RecvData(e, seg) ELSE e
           pushed == SendPending(text)
           noted == IF "FIN" \in seg.flags
                    THEN NoteFin(pushed, add(seg.seq, Len(seg.payload))) ELSE pushed
           n == CheckPendingFin(noted)
<1>1. Talking(text, v) /\ Noticed(text) /\ text.state = e.state
  BY RecvDataTalking DEF Hearing
<1>2. TextAndFin(e, seg) = n
  BY DEF TextAndFin
<1> HIDE DEF text
<1>3. Talking(pushed, v) /\ Waits(pushed) /\ Noticed(pushed) /\ pushed.state \in Own(e.state)
  BY <1>1, SendPendingTalking
<1> HIDE DEF pushed
<1>4. Talking(noted, v) /\ Noticed(noted) /\ Waits(noted) /\ noted.state = pushed.state
  BY <1>3, NoteFinTalking
<1> HIDE DEF noted
<1>5. noted.state \in Exchanging
  BY <1>3, <1>4 DEF Own, Exchanging, AfterOurFin, StatesBeforeFin
<1>6. Connected(n, v)
  BY <1>4, <1>5, ProcessFinTalking DEF CheckPendingFin, Connected
<1> QED BY <1>2, <1>6

-------------------------------------------------------------------------------
(* The window and what an acknowledgment leads to.                         *)

\* _update_window.
LEMMA UpdateWindowTalking ==
    ASSUME NEW e, NEW v \in Views, Talking(e, v), NEW seg \in SegmentRecords
    PROVE  /\ Talking(UpdateWindow(e, seg), v)
           /\ Noticed(e) => Noticed(UpdateWindow(e, seg))
           /\ UpdateWindow(e, seg).state \in Own(e.state)
           /\ UpdateWindow(e, seg).fin_acked = e.fin_acked
<1> DEFINE updated == TakeWindow(e, seg, seg.ack)
           sending == CancelPersist(updated)
           n == UpdateWindow(e, seg)
<1>1. /\ Sound(e) /\ Sound(updated) /\ updated.state = e.state
      /\ Only(e, updated, {"snd_wnd", "snd_wl1", "snd_wl2"})
  BY SegmentReads, TakeWindowSound DEF Talking
<1>2. n \in {e, updated, sending}
  BY DEF UpdateWindow
<1>3. n.fin_acked = e.fin_acked
  BY <1>1, UpdateWindowSound
<1> HIDE DEF n, updated
<1>4. Talking(updated, v) /\ (Noticed(e) => Noticed(updated))
  <2>1. {"snd_wnd", "snd_wl1", "snd_wl2"} \cap (TalkFields \cup Judged \cup {"rt_timer"}) = {}
    BY DEF TalkFields, SenderFields, ReceiverFields, Judged
  <2> QED BY <1>1, <2>1, TalkingKept DEF Sound
<1>5. /\ Talking(sending, v) /\ (Noticed(updated) => Noticed(sending))
      /\ sending.state \in Own(updated.state)
  BY <1>4, CancelPersistTalking
<1> HIDE DEF sending
<1>6. e.state \in Own(e.state)
  BY DEF Own
<1>7. Talking(n, v) /\ (Noticed(e) => Noticed(n)) /\ n.state \in Own(e.state)
  BY <1>1, <1>2, <1>4, <1>5, <1>6
<1> QED BY <1>3, <1>7 DEF n

\* The state notices that our FIN was acknowledged, and the rest follows.
LEMMA AfterAckTalking ==
    ASSUME NEW e, NEW v \in Views, Talking(e, v), e.state \in Exchanging,
           NEW seg \in SegmentRecords, Genuine(seg, v.pbase, v.psent, v.pnxt),
           Shown(seg, v), "RST" \notin seg.flags
    PROVE  Connected(AfterAck(e, seg), v) \/ Shut(AfterAck(e, seg), v)
<1>1. /\ Sound(e) /\ Typed(e) /\ Consistent(e) /\ Talks(e, v) /\ Timed(e) /\ Stage(e, v)
      /\ e.fin_acked \in BOOLEAN
  BY Reads DEF Talking, Sound
<1>2. CASE e.state = "CLOSING" /\ e.fin_acked
  <2>1. AfterAck(e, seg) = EnterTimeWait(e)
    BY <1>2 DEF AfterAck
  <2>2. e.state \in Finished /\ Told(e, v) /\ e.fin_acked = TRUE
    BY <1>1, <1>2 DEF Finished, Stage, ToldStates
  <2> QED BY <1>1, <2>1, <2>2, EnterTimeWaitTalking
<1>3. CASE e.state = "LAST_ACK" /\ e.fin_acked
  <2>1. AfterAck(e, seg) = EnterClosed(e)
    BY <1>3 DEF AfterAck
  <2> QED BY <1>1, <2>1, EnterClosedShut
<1>4. CASE e.state = "FIN_WAIT_1" /\ e.fin_acked
  <2> DEFINE m == SetState(e, "FIN_WAIT_2")
  <2>1. AfterAck(e, seg) = TextAndFin(m, seg)
    BY <1>4 DEF AfterAck
  <2>2. "FIN_WAIT_2" \in States
    BY DEF States
  <2>3. Only(e, m, Moving) /\ Talks(m, v) /\ m.state = "FIN_WAIT_2"
    BY <1>1, <2>2, SetStateTalks
  <2>4. Sound(m)
    <3>1. Ahead(e)
      BY <1>1, <1>4 DEF Consistent, Hearing
    <3>2. /\ "FIN_WAIT_2" \notin Unopened
          /\ "FIN_WAIT_2" \in Finished /\ e.state \in Finished
      BY <1>4 DEF Unopened, Finished
    <3> QED BY <1>1, <2>2, <3>1, <3>2, SetStateSound
  <2> HIDE DEF m
  <2>5. /\ m.fin_acked = e.fin_acked /\ m.rcv_nxt = e.rcv_nxt /\ m.retx = e.retx
        /\ m.rt_timer = e.rt_timer
    BY <2>3, FieldNames DEF Only, Moving
  <2>6. Timed(m)
    BY <1>1, <2>5, Zenon DEF Timed
  <2>7. Stage(m, v)
    BY <1>1, <1>4, <2>3, <2>5 DEF Stage, Told, ToldStates, Up, Finished
  <2>8. Noticed(m) /\ m.state \in Exchanging
    BY <2>3 DEF Noticed, Exchanging
  <2>9. Talking(m, v)
    BY <2>3, <2>4, <2>6, <2>7 DEF Talking
  <2> QED BY <2>1, <2>8, <2>9, TextAndFinTalking
<1>5. CASE /\ ~(e.state = "CLOSING" /\ e.fin_acked) /\ ~(e.state = "LAST_ACK" /\ e.fin_acked)
           /\ ~(e.state = "FIN_WAIT_1" /\ e.fin_acked)
  <2>1. AfterAck(e, seg) = TextAndFin(e, seg)
    BY <1>5, Zenon DEF AfterAck
  <2>2. Noticed(e)
    BY <1>5 DEF Noticed
  <2> QED BY <2>1, <2>2, TextAndFinTalking
<1> QED BY <1>2, <1>3, <1>4, <1>5

\* The fifth check of on_segment, given that the peer acknowledges no more than
\* it has taken.
LEMMA AckInConnectionTalking ==
    ASSUME NEW e, NEW v \in Views, Connected(e, v), e.state \in Exchanging,
           NEW seg \in SegmentRecords, Genuine(seg, v.pbase, v.psent, v.pnxt),
           Honest(seg, v.base, v.taken), Shown(seg, v), e.out = <<>>, "RST" \notin seg.flags
    PROVE  LET n == AckInConnection(e, seg) IN Connected(n, v) \/ Shut(n, v)
<1> DEFINE acked == IF NewAck(e, seg.ack) THEN ProcessAck(e, seg.ack) ELSE e
           u == UpdateWindow(acked, seg)
<1>1. /\ Sound(e) /\ Typed(e) /\ Talks(e, v) /\ Timed(e) /\ Stage(e, v) /\ Talking(e, v)
      /\ seg.ack \in SeqNums
  BY SegmentReads DEF Connected, Talking, Sound
<1>2. CASE seq_gt(seg.ack, e.snd_nxt)
  <2>1. AckInConnection(e, seg) = SendAck(e)
    BY <1>2 DEF AckInConnection
  <2> QED BY <1>1, <2>1, SendAckTalking DEF Connected
<1>3. CASE ~seq_gt(seg.ack, e.snd_nxt)
  <2>1. AckInConnection(e, seg) = AfterAck(u, seg)
    BY <1>3 DEF AckInConnection
  <2>2. Talking(acked, v) /\ acked.state = e.state
    <3>1. CASE NewAck(e, seg.ack)
      <4> DEFINE n == ProcessAck(e, seg.ack)
      <4>1. Sound(n) /\ Only(e, n, Acknowledging) /\ n.state = e.state
        BY <1>1, ProcessAckSound
      <4>2. sub(seg.ack, v.base) <= v.taken
        BY DEF Honest
      <4>2a. Timely(seg.ack, v)
        BY DEF Shown
      <4>3. Talks(n, v) /\ Timed(n) /\ (e.fin_acked => n.fin_acked)
        BY <1>1, <1>3, <3>1, <4>2, <4>2a, ProcessAckTalks
      <4> HIDE DEF n
      <4>4. n.rcv_nxt = e.rcv_nxt
        BY <4>1, FieldNames DEF Only, Acknowledging
      <4>5. Stage(n, v)
        BY <1>1, <4>1, <4>3, <4>4 DEF Stage, Told
      <4>6. acked = n
        BY <3>1 DEF n
      <4> QED BY <4>1, <4>3, <4>5, <4>6 DEF Talking
    <3>2. CASE ~NewAck(e, seg.ack)
      BY <1>1, <3>2
    <3> QED BY <3>1, <3>2
  <2> HIDE DEF acked
  <2>3. Talking(u, v) /\ u.state \in Own(e.state)
    BY <2>2, UpdateWindowTalking
  <2> HIDE DEF u
  <2>4. u.state \in Exchanging
    BY <2>3 DEF Own, Exchanging, AfterOurFin, StatesBeforeFin
  <2> QED BY <2>1, <2>3, <2>4, AfterAckTalking
<1> QED BY <1>2, <1>3

-------------------------------------------------------------------------------
(* A segment arrives.                                                      *)

\* A connection that is over stays as it is when only the other timers move.
LEMMA ShutKept ==
    ASSUME NEW e, NEW n, NEW v, NEW S, Shut(e, v), Typed(n), Only(e, n, S),
           S \cap (TalkFields \cup Judged \cup {"ack_timer", "tw_timer"}) = {}
    PROVE  Shut(n, v)
<1>1. S \cap TalkFields = {} /\ S \cap Judged = {} /\ S \cap ReceiverFields = {}
  BY DEF TalkFields
<1>2. Sound(n)
  <2>1. Consistent(n)
    BY <1>1, Undisturbed DEF Shut, Sound
  <2> QED BY <2>1 DEF Sound
<1>3. /\ n.state = e.state /\ n.retx = e.retx /\ n.app_buf = e.app_buf
      /\ n.rtt_pending = e.rtt_pending /\ n.ack_timer = e.ack_timer /\ n.tw_timer = e.tw_timer
      /\ n.snd_una = e.snd_una /\ n.snd_nxt = e.snd_nxt /\ n.rcv_nxt = e.rcv_nxt
      /\ n.out = e.out
  BY FieldNames DEF Only, TalkFields, SenderFields, ReceiverFields, Judged
<1>4. Receiver(n, v)
  BY <1>1, ReceiverKept DEF Shut
<1>5. Says(n, v)
  BY <1>3, Zenon DEF Shut, Says, Recent
<1> QED BY <1>2, <1>3, <1>4, <1>5 DEF Shut

\* An answer that is a reset says nothing of either stream.
LEMMA RstReplyShut ==
    ASSUME NEW e, NEW v \in Views, Shut(e, v), NEW seq \in SeqNums, NEW ack \in SeqNums,
           NEW flags \in {{"RST"}, {"RST", "ACK"}}
    PROVE  Shut(EmitRstReply(e, seq, ack, flags), v)
<1> DEFINE seg == [seq |-> seq, ack |-> ack, flags |-> flags, window |-> 0, payload |-> <<>>]
           n == EmitRstReply(e, seq, ack, flags)
<1>1. Typed(e) /\ Sound(e) /\ Says(e, v) /\ Receiver(e, v)
  BY DEF Shut, Sound
<1>2. Typed(n) /\ Only(e, n, {"out"})
  BY <1>1, RstReplyFrame
<1>3. n.out = Append(e.out, seg)
  BY <1>1, FieldNames DEF EmitRstReply, Transmit, Typed
<1>4. "RST" \in seg.flags
  OBVIOUS
<1>5. Sound(n) /\ n.state = e.state
  BY <1>1, RstReplySound
<1> HIDE DEF n, seg
<1>6. /\ n.retx = e.retx /\ n.app_buf = e.app_buf
      /\ n.rtt_pending = e.rtt_pending /\ n.ack_timer = e.ack_timer /\ n.tw_timer = e.tw_timer
      /\ n.snd_una = e.snd_una /\ n.snd_nxt = e.snd_nxt /\ n.rcv_nxt = e.rcv_nxt
  BY <1>2, FieldNames DEF Only
<1>7. Receiver(n, v)
  BY <1>1, <1>2, ReceiverKept DEF ReceiverFields
<1>8. Says(n, v)
  <2>1. Genuine(seg, v.base, v.sent, sub(n.snd_nxt, v.base)) /\ Honest(seg, v.pbase, sub(n.rcv_nxt, v.pbase))
    BY <1>4 DEF Genuine, Honest
  <2>2. /\ sub(e.snd_nxt, v.base) <= sub(n.snd_nxt, v.base)
        /\ sub(e.rcv_nxt, v.pbase) <= sub(n.rcv_nxt, v.pbase)
    <3>1. e.snd_nxt \in SeqNums /\ e.rcv_nxt \in SeqNums /\ v.base \in SeqNums /\ v.pbase \in SeqNums
      BY <1>1, Reads, ViewReads
    <3>2. sub(e.snd_nxt, v.base) \in Nat /\ sub(e.rcv_nxt, v.pbase) \in Nat
      BY <3>1, Position
    <3> QED BY <1>6, <3>2
  <2>3. sub(n.snd_nxt, v.base) <= v.sent + 1
    BY <1>6 DEF Shut
  <2>4. Recent(seg, e, v)
    BY <1>4 DEF Recent
  <2> QED BY <1>1, <1>2, <1>3, <1>6, <2>1, <2>2, <2>3, <2>4, SaysMore
<1>9. Shut(n, v)
  BY <1>5, <1>6, <1>7, <1>8 DEF Shut
<1> QED BY <1>9 DEF n

\* _handle_closed.
LEMMA HandleClosedShut ==
    ASSUME NEW e, NEW v \in Views, Shut(e, v), NEW seg \in SegmentRecords
    PROVE  Shut(HandleClosed(e, seg), v)
<1> DEFINE past == add(seg.seq, SegLen(seg))
<1>1. seg.ack \in SeqNums /\ seg.seq \in SeqNums /\ seg.payload \in Seq(Bytes)
  BY SegmentReads
<1>2. 0 \in SeqNums
  BY Halves DEF SeqNums
<1>3. past \in SeqNums
  <2>1. SegLen(seg) \in Int
    BY <1>1, SegLenCounts
  <2> QED BY <1>1, <2>1, InSeqNums
<1>4. HandleClosed(e, seg) \in {e, EmitRstReply(e, seg.ack, 0, {"RST"}),
                               EmitRstReply(e, 0, past, {"RST", "ACK"})}
  BY DEF HandleClosed
<1> HIDE DEF past
<1>5. Shut(EmitRstReply(e, seg.ack, 0, {"RST"}), v)
  BY <1>1, <1>2, RstReplyShut
<1>6. Shut(EmitRstReply(e, 0, past, {"RST", "ACK"}), v)
  BY <1>2, <1>3, RstReplyShut
<1> QED BY <1>4, <1>5, <1>6

\* TIME_WAIT.
LEMMA TimeWaitTalking ==
    ASSUME NEW e, NEW v \in Views, Connected(e, v), e.state = "TIME_WAIT",
           NEW seg \in SegmentRecords
    PROVE  LET n == HandleTimeWait(e, seg) IN Connected(n, v) \/ Shut(n, v)
<1> DEFINE a == SendAck(e)
           armed == a.tw_timer \/ "FIN" \in seg.flags
           n == [a EXCEPT !.tw_timer = armed]
<1>1. Talking(e, v) /\ Typed(e) /\ Talks(e, v)
  BY DEF Connected, Talking, Sound
<1>2. Connected(a, v)
  BY <1>1, SendAckTalking DEF Connected
<1>3. HandleTimeWait(e, seg) \in {n, EnterClosed(e), a}
  BY Zenon DEF HandleTimeWait
<1>4. armed \in EngineTypes["tw_timer"]
  BY Values, Zenon
<1> HIDE DEF a, armed
<1>5. Typed(n)
  BY <1>2, <1>4, FieldNames, Zenon DEF Typed, Connected, Talking, Sound
<1>6. Only(a, n, {"tw_timer"})
  BY <1>2, FieldNames DEF Only, Typed, Connected, Talking, Sound
<1> HIDE DEF n
<1>7. Connected(n, v)
  <2>1. /\ {"tw_timer"} \cap (TalkFields \cup Judged \cup {"rt_timer"}) = {}
        /\ {"tw_timer"} \cap WaitFields = {}
    BY DEF TalkFields, SenderFields, ReceiverFields, Judged, WaitFields
  <2>2. Talking(n, v) /\ Noticed(n)
    BY <1>2, <1>5, <1>6, <2>1, TalkingKept DEF Connected
  <2>3. Waits(n)
    BY <1>2, <1>6, <2>1, WaitsKept DEF Connected
  <2> QED BY <2>2, <2>3 DEF Connected
<1> QED BY <1>1, <1>2, <1>3, <1>7, EnterClosedShut

\* The states of a connection that is up.
LEMMA SynchronizedTalking ==
    ASSUME NEW e, NEW v \in Views, Connected(e, v), e.out = <<>>, NEW seg \in SegmentRecords,
           Genuine(seg, v.pbase, v.psent, v.pnxt), Honest(seg, v.base, v.taken),
           Shown(seg, v)
    PROVE  LET n == HandleSynchronized(e, seg) IN Connected(n, v) \/ Shut(n, v)
<1> DEFINE n == HandleSynchronized(e, seg)
<1>1. Talking(e, v) /\ Typed(e) /\ Talks(e, v) /\ e.state \in Up
  BY DEF Connected, Talking, Sound, Stage
<1>2. /\ e.state = "TIME_WAIT" => n = HandleTimeWait(e, seg)
      /\ e.state # "TIME_WAIT" => \/ n \in {e, SendAck(e), EnterClosed(e)}
                                  \/ "RST" \notin seg.flags /\ n = AckInConnection(e, seg)
  BY <1>1 DEF HandleSynchronized, Up, Finished, DoReset, BackToListen
<1>3. e.state # "TIME_WAIT" => e.state \in Exchanging
  BY <1>1 DEF Up, Finished, Exchanging
<1> HIDE DEF n
<1>4. Connected(SendAck(e), v)
  BY <1>1, SendAckTalking DEF Connected
<1>5. Shut(EnterClosed(e), v)
  BY <1>1, EnterClosedShut
<1>6. CASE e.state = "TIME_WAIT"
  BY <1>2, <1>6, TimeWaitTalking DEF n
<1>7. CASE e.state # "TIME_WAIT"
  <2>1. CASE n \in {e, SendAck(e), EnterClosed(e)}
    BY <1>4, <1>5, <2>1 DEF n
  <2>2. CASE "RST" \notin seg.flags /\ n = AckInConnection(e, seg)
    BY <1>3, <1>7, <2>2, AckInConnectionTalking DEF n
  <2> QED BY <1>2, <1>7, <2>1, <2>2
<1> QED BY <1>6, <1>7

\* The keepalive timer starts over.
LEMMA ResetKeepaliveTalking ==
    ASSUME NEW e, NEW v \in Views, Connected(e, v)
    PROVE  Connected(ResetKeepalive(e), v) /\ ResetKeepalive(e).out = e.out
<1> DEFINE n == ResetKeepalive(e)
           S == {"ka_timer", "ka_probes"}
<1>1. Talking(e, v) /\ Typed(e) /\ Noticed(e) /\ Waits(e)
  BY DEF Connected, Talking, Sound
<1>2. Typed(n) /\ Only(e, n, S)
  BY <1>1, ResetKeepaliveFrame
<1>3. S \cap (TalkFields \cup Judged \cup {"rt_timer"}) = {} /\ S \cap WaitFields = {}
  BY DEF TalkFields, SenderFields, ReceiverFields, Judged, WaitFields
<1> HIDE DEF n, S
<1>4. Talking(n, v) /\ Noticed(n)
  BY <1>1, <1>2, <1>3, TalkingKept
<1>5. Waits(n)
  BY <1>1, <1>2, <1>3, WaitsKept
<1>6. n.out = e.out
  BY <1>2, <1>3, FieldNames DEF Only, TalkFields
<1> QED BY <1>4, <1>5, <1>6 DEF Connected, n

\* on_segment.
LEMMA OnSegmentTalking ==
    ASSUME NEW e, NEW v \in Views, Connected(e, v) \/ Shut(e, v), e.out = <<>>,
           NEW seg \in SegmentRecords, Genuine(seg, v.pbase, v.psent, v.pnxt),
           Honest(seg, v.base, v.taken), Shown(seg, v), NEW iss
    PROVE  LET n == OnSegment(e, seg, iss) IN Connected(n, v) \/ Shut(n, v)
<1>1. CASE Shut(e, v)
  <2>1. OnSegment(e, seg, iss) = HandleClosed(e, seg)
    BY <1>1 DEF OnSegment, Shut
  <2> QED BY <1>1, <2>1, HandleClosedShut
<1>2. CASE Connected(e, v)
  <2> DEFINE m == IF e.state = "ESTABLISHED" THEN ResetKeepalive(e) ELSE e
  <2>1. e.state \in Up
    BY <1>2 DEF Connected, Talking, Stage
  <2>2. OnSegment(e, seg, iss) = HandleSynchronized(m, seg)
    BY <2>1 DEF OnSegment, Up, Finished
  <2>3. Connected(m, v) /\ m.out = <<>>
    BY <1>2, ResetKeepaliveTalking
  <2> HIDE DEF m
  <2> QED BY <2>2, <2>3, SynchronizedTalking
<1> QED BY <1>1, <1>2

-------------------------------------------------------------------------------
(* The users.                                                              *)

\* send: the new bytes continue the stream.
LEMMA SendTalking ==
    ASSUME NEW e, NEW v \in Views, NEW w \in Views, Connected(e, v), e.out = <<>>,
           MaySendCall(e), NEW data \in Seq(Bytes), NEW iss,
           From(v.sent, data), w.sent = v.sent + Len(data),
           w.base = v.base, w.ended = v.ended, w.taken = v.taken,
           w.pbase = v.pbase, w.psent = v.psent, w.pnxt = v.pnxt, w.snd = v.snd, w.rcv = v.rcv,
           w.acks = v.acks, w.sight = v.sight
    PROVE  Connected(Send(e, data, iss), w)
<1> DEFINE all == e.app_buf \o data
           queued == [e EXCEPT !.app_buf = all]
           p == sub(e.snd_nxt, v.base)
<1>1. /\ Typed(e) /\ Consistent(e) /\ Sender(e, v) /\ Receiver(e, v) /\ Timed(e) /\ Stage(e, v)
      /\ Noticed(e) /\ Sound(e)
  BY DEF Connected, Talking, Sound, Talks
<1>2. e.state \in {"ESTABLISHED", "CLOSE_WAIT"} /\ e.fin_sent = FALSE
  BY <1>1 DEF MaySendCall, Stage, Up, Consistent, Finished
<1>3. e.app_buf \in Seq(Bytes) /\ Len(e.app_buf) \in Nat /\ Len(data) \in Nat
  BY <1>1, Reads
<1>4. /\ all \in Seq(Bytes) /\ Len(all) = Len(e.app_buf) + Len(data)
      /\ \A j \in 1 .. Len(all) :
            all[j] = IF j <= Len(e.app_buf) THEN e.app_buf[j] ELSE data[j - Len(e.app_buf)]
  BY <1>3
<1>5. all \in EngineTypes["app_buf"]
  BY <1>4, FieldTypes
<1>6. Send(e, data, iss) = SendPending(queued)
  BY <1>2 DEF Send
<1>7. p \in Nat /\ v.sent \in Nat /\ p + Len(e.app_buf) = v.sent /\ From(p, e.app_buf)
  <2>1. p \in Nat /\ v.sent \in Nat
    BY <1>1, SentWithin, ViewReads
  <2>2. p + Len(e.app_buf) = v.sent + Count(e.fin_sent) /\ From(p, e.app_buf)
    BY <1>1 DEF Sender, Unsent
  <2>3. Count(e.fin_sent) = 0
    BY <1>2 DEF Count
  <2> QED BY <2>1, <2>2, <2>3
<1> HIDE DEF all, p
<1>8. Typed(queued)
  BY <1>1, <1>5, FieldNames, Zenon DEF Typed
<1>9. Only(e, queued, {"app_buf"}) /\ queued.app_buf = all
  BY <1>1, FieldNames DEF Only, Typed
<1> HIDE DEF queued
<1>10. /\ queued.snd_nxt = e.snd_nxt /\ queued.snd_una = e.snd_una /\ queued.retx = e.retx
       /\ queued.rtt_pending = e.rtt_pending /\ queued.fin_pending = e.fin_pending
       /\ queued.fin_sent = e.fin_sent /\ queued.fin_acked = e.fin_acked
       /\ queued.fin_seq = e.fin_seq /\ queued.out = e.out /\ queued.rcv_nxt = e.rcv_nxt
  BY <1>9, FieldNames DEF Only
<1>11. Sender(queued, w)
  <2>1. From(p, all)
    <3> SUFFICES ASSUME NEW j \in 1 .. Len(all) PROVE all[j] = p + j
      BY DEF From
    <3>1. CASE j <= Len(e.app_buf)
      <4>1. j \in 1 .. Len(e.app_buf)
        BY <1>3, <3>1
      <4> QED BY <1>4, <1>7, <3>1, <4>1 DEF From
    <3>2. CASE ~(j <= Len(e.app_buf))
      <4>1. j - Len(e.app_buf) \in 1 .. Len(data)
        BY <1>3, <1>4, <3>2
      <4>2. data[j - Len(e.app_buf)] = v.sent + (j - Len(e.app_buf))
        BY <4>1 DEF From
      <4>3. all[j] = data[j - Len(e.app_buf)]
        BY <1>4, <3>2
      <4> DEFINE h == Len(e.app_buf)
                 x == data[j - h]
      <4>4. x = v.sent + (j - h) /\ h \in Nat /\ j \in Int /\ p + h = v.sent
        BY <1>3, <1>4, <1>7, <4>2
      <4>5. x = p + j
        <5> HIDE DEF x, h
        <5> QED BY <1>7, <4>4
      <4> QED BY <4>3, <4>5
    <3> QED BY <3>1, <3>2
  <2>2. p + Len(all) = w.sent
    BY <1>3, <1>4, <1>7
  <2>3. Unsent(queued, w)
    BY <1>2, <1>9, <1>10, <2>1, <2>2, <1>3, <1>4, <1>7 DEF Unsent, Count, p
  <2>4. FinLaid(queued, w)
    BY <1>1, <1>2, <1>10 DEF Sender, FinLaid
  <2>5. Timing(queued)
    BY <1>1, <1>10, Zenon DEF Sender, Timing
  <2> QED BY <1>1, <1>10, <2>3, <2>4, <2>5 DEF Sender
<1>12. Receiver(queued, w)
  <2>1. Receiver(queued, v)
    BY <1>1, <1>9, ReceiverKept DEF ReceiverFields
  <2> QED BY <2>1, Zenon DEF Receiver, KeptGenuine, Relayed, FinNoted, EdgeHeld, Seen
<1>13. Talks(queued, w)
  <2>1. Len(queued.out) = 0
    BY <1>10
  <2>2. Says(e, v)
    BY DEF Connected, Talking, Talks
  <2>3. w.snd <= sub(queued.snd_nxt, w.base) /\ w.rcv <= sub(queued.rcv_nxt, w.pbase)
    BY <1>10, <2>2 DEF Says
  <2> QED BY <1>11, <1>12, <2>1, <2>3 DEF Talks, Says
<1>14. Sound(queued)
  <2>1. {"app_buf"} \cap Judged = {}
    BY DEF Judged
  <2> QED BY <1>1, <1>8, <1>9, <2>1, Besides
<1>15. Talking(queued, w) /\ Noticed(queued)
  <2>1. Stage(e, w) /\ queued.state = e.state /\ queued.rt_timer = e.rt_timer
    BY <1>1, <1>9, FieldNames DEF Stage, Told, Only
  <2>2. Timed(queued) /\ Stage(queued, w) /\ Noticed(queued)
    BY <1>1, <1>10, <2>1, Zenon DEF Timed, Stage, Told, Noticed
  <2> QED BY <1>13, <1>14, <2>2 DEF Talking
<1> QED BY <1>6, <1>15, SendPendingTalking DEF Connected

\* close: the stream ends.
LEMMA CloseTalking ==
    ASSUME NEW e, NEW v \in Views, NEW w \in Views, Connected(e, v), e.out = <<>>,
           MayClose(e), w.ended = TRUE, w.sent = v.sent,
           w.base = v.base, w.taken = v.taken,
           w.pbase = v.pbase, w.psent = v.psent, w.pnxt = v.pnxt, w.snd = v.snd, w.rcv = v.rcv,
           w.acks = v.acks, w.sight = v.sight
    PROVE  Connected(Close(e), w)
<1> DEFINE closing == [e EXCEPT !.fin_pending = TRUE]
<1>1. /\ Typed(e) /\ Consistent(e) /\ Sender(e, v) /\ Receiver(e, v) /\ Timed(e) /\ Stage(e, v)
      /\ Noticed(e) /\ Sound(e)
  BY DEF Connected, Talking, Sound, Talks
<1>2. e.state \in {"ESTABLISHED", "CLOSE_WAIT"} /\ e.fin_sent = FALSE /\ e.fin_acked = FALSE
  BY <1>1 DEF MayClose, Stage, Up, Consistent, Finished
<1>3. Close(e) = SendPending(closing)
  BY <1>2 DEF Close
<1>4. Typed(closing)
  BY <1>1, Values, FieldNames, Zenon DEF Typed
<1>5. Only(e, closing, {"fin_pending"}) /\ closing.fin_pending = TRUE
  BY <1>1, FieldNames DEF Only, Typed
<1> HIDE DEF closing
<1>6. /\ closing.snd_nxt = e.snd_nxt /\ closing.snd_una = e.snd_una /\ closing.retx = e.retx
      /\ closing.rtt_pending = e.rtt_pending /\ closing.app_buf = e.app_buf
      /\ closing.fin_sent = e.fin_sent /\ closing.fin_acked = e.fin_acked
      /\ closing.fin_seq = e.fin_seq /\ closing.out = e.out /\ closing.rcv_nxt = e.rcv_nxt
      /\ closing.state = e.state /\ closing.rt_timer = e.rt_timer
      /\ closing.recv_buf = e.recv_buf /\ closing.ooo = e.ooo
  BY <1>5, FieldNames DEF Only
<1>7. Sender(closing, w)
  <2>1. Unsent(closing, w)
    BY <1>1, <1>6 DEF Sender, Unsent
  <2>2. FinLaid(closing, w)
    BY <1>1, <1>2, <1>5, <1>6 DEF Sender, FinLaid
  <2>3. Timing(closing)
    BY <1>1, <1>6, Zenon DEF Sender, Timing
  <2> QED BY <1>1, <1>6, <2>1, <2>2, <2>3 DEF Sender
<1>8. Receiver(closing, w)
  <2>1. Receiver(closing, v)
    BY <1>1, <1>5, ReceiverKept DEF ReceiverFields
  <2> QED BY <2>1, Zenon DEF Receiver, KeptGenuine, Relayed, FinNoted, EdgeHeld, Seen
<1>9. Talks(closing, w)
  <2>1. Len(closing.out) = 0
    BY <1>6
  <2>2. Says(e, v)
    BY DEF Connected, Talking, Talks
  <2>3. w.snd <= sub(closing.snd_nxt, w.base) /\ w.rcv <= sub(closing.rcv_nxt, w.pbase)
    BY <1>6, <2>2 DEF Says
  <2> QED BY <1>7, <1>8, <2>1, <2>3 DEF Talks, Says
<1>10. Sound(closing)
  <2>1. e.state \notin Unopened
    BY <1>2 DEF Unopened
  <2>2. Ahead(e) => Ahead(closing)
    BY <1>6, Zenon DEF Ahead
  <2> QED BY <1>1, <1>4, <1>6, <2>1, <2>2 DEF Sound, Consistent
<1>11. Talking(closing, w) /\ Noticed(closing)
  <2>1. Timed(closing) /\ Stage(closing, w) /\ Noticed(closing)
    BY <1>1, <1>6, Zenon DEF Timed, Stage, Told, Noticed
  <2> QED BY <1>9, <1>10, <2>1 DEF Talking
<1> QED BY <1>3, <1>11, SendPendingTalking DEF Connected

\* receive: what the reader takes makes room.
LEMMA ReceiveTalking ==
    ASSUME NEW e, NEW v \in Views, Connected(e, v), NEW k \in 1 .. Len(e.recv_buf)
    PROVE  Connected(Receive(e, k), v)
<1> DEFINE rest == SubSeq(e.recv_buf, k + 1, Len(e.recv_buf))
           taken == [e EXCEPT !.recv_buf = rest]
           told == [taken EXCEPT !.zero_win_advertised = FALSE]
<1>1. /\ Typed(e) /\ Consistent(e) /\ Sender(e, v) /\ Receiver(e, v) /\ Says(e, v)
      /\ Talking(e, v) /\ Noticed(e) /\ Waits(e) /\ Sound(e)
      /\ e.recv_buf \in Seq(Bytes) /\ Len(e.recv_buf) \in Nat /\ Len(e.recv_buf) <= RCV_WND
  BY Reads DEF Connected, Talking, Sound, Talks, Consistent
<1>2. rest \in Seq(Bytes) /\ Len(rest) \in Nat /\ Len(rest) <= Len(e.recv_buf)
  <2>1. CASE k = Len(e.recv_buf)
    <3>1. rest = <<>>
      BY <1>1, <2>1, SubSeqProperties
    <3> HIDE DEF rest
    <3> QED BY <1>1, <3>1
  <2>2. CASE k < Len(e.recv_buf)
    <3>1. /\ k + 1 \in Int /\ Len(e.recv_buf) \in Int /\ k + 1 <= Len(e.recv_buf)
          /\ \A i \in k + 1 .. Len(e.recv_buf) : e.recv_buf[i] \in Bytes
      BY <1>1, <2>2
    <3>2. rest \in Seq(Bytes) /\ Len(rest) = Len(e.recv_buf) - (k + 1) + 1
      BY <3>1, SubSeqProperties
    <3> HIDE DEF rest
    <3> QED BY <1>1, <2>2, <3>2
  <2> QED BY <1>1, <2>1, <2>2
<1>3. Receive(e, k) \in {taken, SendAck(told)}
  BY DEF Receive
<1>4. rest \in EngineTypes["recv_buf"]
  BY <1>2, FieldTypes
<1> HIDE DEF rest
<1>5. Typed(taken)
  BY <1>1, <1>4, FieldNames, Zenon DEF Typed
<1>6. Only(e, taken, {"recv_buf"}) /\ taken.recv_buf = rest
  BY <1>1, FieldNames DEF Only, Typed
<1> HIDE DEF taken
<1>7. /\ taken.state = e.state /\ taken.ooo = e.ooo /\ taken.fin_pending = e.fin_pending
      /\ taken.fin_sent = e.fin_sent /\ taken.fin_acked = e.fin_acked
      /\ taken.rcv_nxt = e.rcv_nxt /\ taken.stream = e.stream
      /\ taken.pending_fin = e.pending_fin /\ taken.adv_right = e.adv_right
      /\ taken.out = e.out /\ taken.snd_nxt = e.snd_nxt /\ taken.snd_una = e.snd_una
  BY <1>6, FieldNames DEF Only
<1>8. Sound(taken)
  <2>1. Len(taken.recv_buf) \in Nat /\ Len(taken.recv_buf) <= Len(e.recv_buf)
        /\ Len(taken.recv_buf) <= RCV_WND
    BY <1>1, <1>2, <1>6, Halves
  <2>2. Ahead(e) => Ahead(taken)
    <3> SUFFICES ASSUME Ahead(e), NEW o \in e.ooo
                 PROVE  /\ sub(o.seq, e.rcv_nxt) >= 1
                        /\ sub(o.seq, e.rcv_nxt) + Len(o.data) <= RCV_WND - Len(taken.recv_buf)
      BY <1>7 DEF Ahead
    <3>1. /\ sub(o.seq, e.rcv_nxt) >= 1
          /\ sub(o.seq, e.rcv_nxt) + Len(o.data) <= RCV_WND - Len(e.recv_buf)
      BY DEF Ahead
    <3>2. sub(o.seq, e.rcv_nxt) \in Nat /\ Len(o.data) \in Nat
      <4>1. o \in KeptRecords /\ e.rcv_nxt \in SeqNums
        BY <1>1, Reads
      <4>2. o.seq \in SeqNums /\ o.data \in Seq(Bytes)
        BY <4>1 DEF KeptRecords
      <4> QED BY <4>1, <4>2, Position
    <3> DEFINE d == sub(o.seq, e.rcv_nxt)
               q == Len(o.data)
               held == Len(e.recv_buf)
               now == Len(taken.recv_buf)
    <3>3. /\ d >= 1 /\ d + q <= RCV_WND - held /\ now <= held /\ RCV_WND \in Nat
          /\ d \in Nat /\ q \in Nat /\ held \in Nat /\ now \in Nat
      BY <1>1, <2>1, <3>1, <3>2, Halves
    <3>4. d >= 1 /\ d + q <= RCV_WND - now
      <4> HIDE DEF d, q, held, now
      <4> QED BY <3>3
    <3> QED BY <3>4
  <2>3. e.state \notin Unopened
    BY <1>1 DEF Consistent
  <2> QED BY <1>1, <1>5, <1>7, <2>1, <2>2, <2>3 DEF Sound, Consistent
<1>9. Talks(taken, v)
  <2>1. Sender(taken, v)
    BY <1>1, <1>6, SenderKept DEF SenderFields
  <2>2. KeptGenuine(taken, v) /\ Relayed(taken, v) /\ FinNoted(taken, v)
    BY <1>1, <1>7, Zenon DEF Receiver, KeptGenuine, Relayed, FinNoted
  <2>3. EdgeHeld(taken, v)
    <3> SUFFICES ASSUME e.adv_right # None
                 PROVE  sub(e.adv_right, v.pbase) <= sub(e.rcv_nxt, v.pbase) + FreeSpace(taken)
      BY <1>7 DEF EdgeHeld
    <3>1. sub(e.adv_right, v.pbase) <= sub(e.rcv_nxt, v.pbase) + FreeSpace(e)
      BY <1>1 DEF Receiver, EdgeHeld
    <3>2. sub(e.adv_right, v.pbase) \in Nat /\ sub(e.rcv_nxt, v.pbase) \in Nat
      <4>1. e.adv_right \in SeqNums /\ e.rcv_nxt \in SeqNums /\ v.pbase \in SeqNums
        BY <1>1, Reads, ViewReads DEF Noted
      <4> QED BY <4>1, Position
    <3>3. FreeSpace(e) <= FreeSpace(taken) /\ FreeSpace(e) \in Nat /\ FreeSpace(taken) \in Nat
      BY <1>1, <1>2, <1>6, Halves DEF FreeSpace
    <3> QED BY <3>1, <3>2, <3>3
  <2>4. Says(taken, v)
    BY <1>1, <1>7, Zenon DEF Says, Recent
  <2> QED BY <2>1, <2>2, <2>3, <2>4 DEF Talks, Receiver
<1>10. Connected(taken, v)
  <2>1. {"recv_buf"} \cap StageFields = {} /\ {"recv_buf"} \cap WaitFields = {}
    BY DEF StageFields, WaitFields
  <2>2. Talking(taken, v) /\ Noticed(taken)
    BY <1>1, <1>6, <1>8, <1>9, <2>1, StageKept
  <2>3. Waits(taken)
    BY <1>1, <1>6, <2>1, WaitsKept
  <2> QED BY <2>2, <2>3 DEF Connected
<1>11. Connected(told, v)
  <2>1. Typed(told)
    BY <1>5, Values, FieldNames, Zenon DEF Typed
  <2>2. Only(taken, told, {"zero_win_advertised"})
    BY <1>5, FieldNames DEF Only, Typed
  <2>3. /\ {"zero_win_advertised"} \cap (TalkFields \cup Judged \cup {"rt_timer"}) = {}
        /\ {"zero_win_advertised"} \cap WaitFields = {}
    BY DEF TalkFields, SenderFields, ReceiverFields, Judged, WaitFields
  <2> HIDE DEF told
  <2>4. Talking(told, v) /\ Noticed(told)
    BY <1>10, <2>1, <2>2, <2>3, TalkingKept DEF Connected
  <2>5. Waits(told)
    BY <1>10, <2>2, <2>3, WaitsKept DEF Connected
  <2> QED BY <2>4, <2>5 DEF Connected
<1> HIDE DEF told
<1>12. Connected(SendAck(told), v)
  BY <1>11, SendAckTalking DEF Connected
<1> QED BY <1>3, <1>10, <1>12

-------------------------------------------------------------------------------
(* The timers.                                                             *)

\* What waits for its acknowledgment may be said again.
LEMMA EntryGenuine ==
    ASSUME NEW e, NEW v \in Views, Typed(e), Sender(e, v), NEW i \in 1 .. Len(e.retx),
           NEW seg, seg.seq = e.retx[i].seq, seg.flags = e.retx[i].flags,
           seg.payload = e.retx[i].payload
    PROVE  Genuine(seg, v.base, v.sent, sub(e.snd_nxt, v.base))
<1> DEFINE o == e.retx[i]
           p == sub(o.seq, v.base)
           nxt == sub(e.snd_nxt, v.base)
           len == Len(o.payload)
<1>1. /\ e.retx \in Seq(QueueEntries) /\ o \in QueueEntries /\ Len(e.retx) \in Nat
      /\ e.snd_nxt \in SeqNums
  BY Reads
<1>2. /\ o.seq \in SeqNums /\ o.payload \in Seq(Bytes) /\ MayCarry(o.flags, o.payload)
      /\ o.payload # <<>> => o.flags = {"ACK"}
  BY <1>1, EntryTakes DEF QueueEntries, MayCarry
<1>3. /\ p \in Nat /\ nxt \in Nat /\ len \in Nat /\ v.sent \in Nat /\ v.base \in SeqNums
      /\ nxt <= v.sent + Count(e.fin_sent) /\ e.fin_sent \in BOOLEAN
      /\ sub(e.snd_nxt, v.base) + Len(e.app_buf) = v.sent + Count(e.fin_sent)
  <2>1. p \in Nat /\ v.sent \in Nat /\ v.base \in SeqNums /\ len \in Nat
    BY <1>2, ViewReads, Position
  <2>2. nxt \in Nat /\ nxt <= v.sent + Count(e.fin_sent)
    BY SentWithin
  <2>3. e.fin_sent \in BOOLEAN
    BY Reads
  <2>4. nxt + Len(e.app_buf) = v.sent + Count(e.fin_sent)
    BY DEF Sender, Unsent
  <2> QED BY <2>1, <2>2, <2>3, <2>4
<1>4. /\ EntryLaid(e.retx, e.snd_nxt, v.base, i)
      /\ "FIN" \in o.flags <=> i = Len(e.retx) /\ e.fin_sent
  BY DEF Sender, Laid, FinLaid
<1>5. /\ p + SegLen(o) = sub(NextSeq(e.retx, e.snd_nxt, i), v.base)
      /\ p + SegLen(o) <= nxt
      /\ o.flags \in {{"ACK"}, {"ACK", "FIN"}} /\ From(p, o.payload)
  BY <1>4 DEF EntryLaid
<1>6. ASSUME o.payload # <<>> PROVE p + len <= v.sent /\ p + len <= nxt
  <2>1. "FIN" \notin o.flags /\ "SYN" \notin o.flags
    BY <1>2, <1>6
  <2>2. SegLen(o) = len
    BY <1>3, <2>1 DEF SegLen, Count
  <2>3. CASE e.fin_sent = FALSE
    <3>1. Count(e.fin_sent) = 0
      BY <2>3 DEF Count
    <3> HIDE DEF p, nxt, len
    <3> QED BY <1>3, <1>5, <2>2, <3>1
  <2>4. CASE e.fin_sent = TRUE
    <3> DEFINE q == sub(e.retx[i + 1].seq, v.base)
               more == SegLen(e.retx[i + 1])
    <3>1. i # Len(e.retx)
      BY <1>4, <2>1, <2>4
    <3>2. i + 1 \in 1 .. Len(e.retx)
      BY <1>1, <3>1
    <3>3. e.retx[i + 1] \in QueueEntries
      BY <1>1, <3>2
    <3>4. more \in Nat /\ more >= 1 /\ e.retx[i + 1].seq \in SeqNums
      BY <3>3, EntryTakes, Halves
    <3>5. q \in Nat
      BY <1>3, <3>4, Position
    <3>6. q + more <= nxt
      BY <3>2 DEF Sender, Laid, EntryLaid
    <3>7. p + len = q
      BY <1>5, <2>2, <3>1 DEF NextSeq
    <3>8. Count(e.fin_sent) = 1
      BY <2>4 DEF Count
    <3> HIDE DEF p, nxt, len, q, more
    <3> QED BY <1>3, <3>4, <3>5, <3>6, <3>7, <3>8
  <2> QED BY <1>3, <2>3, <2>4
<1>7. ASSUME "FIN" \in o.flags PROVE p = v.sent /\ nxt = v.sent + 1
  <2>1. i = Len(e.retx) /\ e.fin_sent = TRUE /\ o.payload = <<>> /\ "SYN" \notin o.flags
    BY <1>2, <1>3, <1>4, <1>5, <1>7
  <2>2. SegLen(o) = 1
    BY <1>7, <2>1 DEF SegLen, Count
  <2>3. p + 1 = nxt
    BY <1>5, <2>1, <2>2 DEF NextSeq
  <2>4. e.app_buf = <<>> /\ Count(e.fin_sent) = 1
    BY <2>1 DEF Sender, FinLaid, Count
  <2>5. nxt = v.sent + 1
    BY <1>3, <2>4
  <2> HIDE DEF p, nxt
  <2> QED BY <1>3, <2>3, <2>5
<1> QED BY <1>5, <1>6, <1>7 DEF Genuine

\* A retransmission leaves the queue where it is and is timed no more.
LEMMA RetriedTalks ==
    ASSUME NEW e, NEW v \in Views, Typed(e), Talks(e, v), e.retx # <<>>, Typed(Retried(e))
    PROVE  /\ Talks(Retried(e), v)
           /\ Only(e, Retried(e), {"rto_count", "rtt_pending", "retx"})
           /\ Retried(e).retx # <<>>
           /\ Retried(e).retx[1].seq = e.retx[1].seq
           /\ Retried(e).retx[1].flags = e.retx[1].flags
           /\ Retried(e).retx[1].payload = e.retx[1].payload
<1> DEFINE o == e.retx[1]
           again == [o EXCEPT !.retransmitted = TRUE]
           queue == [e.retx EXCEPT ![1] = again]
           more == e.rto_count + 1
           n == [e EXCEPT !.rto_count = more, !.rtt_pending = None, !.retx = queue]
           S == {"rto_count", "rtt_pending", "retx"}
<1>1. /\ e.retx \in Seq(QueueEntries) /\ Len(e.retx) \in Nat /\ 1 \in 1 .. Len(e.retx)
      /\ o \in QueueEntries
  BY Reads
<1>2. Retried(e) = n
  BY <1>1 DEF Retried
<1>3. /\ Len(queue) = Len(e.retx) /\ queue # <<>>
      /\ \A i \in 1 .. Len(e.retx) : queue[i] = IF i = 1 THEN again ELSE e.retx[i]
  BY <1>1
<1>4. again.seq = o.seq /\ again.flags = o.flags /\ again.payload = o.payload
  BY <1>1 DEF QueueEntries
<1> HIDE DEF queue, more, again
<1>5. \A i \in 1 .. Len(e.retx) :
         /\ queue[i].seq = e.retx[i].seq /\ queue[i].flags = e.retx[i].flags
         /\ queue[i].payload = e.retx[i].payload
  BY <1>3, <1>4
<1>6. Only(e, n, S) /\ n.retx = queue /\ n.rtt_pending = None
  BY FieldNames DEF Only, Typed
<1> HIDE DEF n, S
<1>7. /\ n.snd_nxt = e.snd_nxt /\ n.snd_una = e.snd_una /\ n.app_buf = e.app_buf
      /\ n.fin_pending = e.fin_pending /\ n.fin_seq = e.fin_seq
      /\ n.fin_sent = e.fin_sent /\ n.fin_acked = e.fin_acked
      /\ n.out = e.out /\ n.rcv_nxt = e.rcv_nxt
  BY <1>6, FieldNames DEF Only, S
<1>8. Sender(e, v) /\ Laid(e.retx, e.snd_una, e.snd_nxt, v.base) /\ FinLaid(e, v) /\ Unsent(e, v)
  BY DEF Talks, Sender
<1>9. Laid(queue, e.snd_una, e.snd_nxt, v.base)
  <2>1. ASSUME NEW i \in 1 .. Len(e.retx) PROVE EntryLaid(queue, e.snd_nxt, v.base, i)
    <3>1. SegLen(queue[i]) = SegLen(e.retx[i])
      BY <1>5 DEF SegLen
    <3>2. NextSeq(queue, e.snd_nxt, i) = NextSeq(e.retx, e.snd_nxt, i)
      <4>1. i # Len(e.retx) => i + 1 \in 1 .. Len(e.retx)
        BY <1>1
      <4> QED BY <1>3, <1>5, <4>1 DEF NextSeq
    <3>3. EntryLaid(e.retx, e.snd_nxt, v.base, i)
      BY <1>8 DEF Laid
    <3> QED BY <1>5, <3>1, <3>2, <3>3 DEF EntryLaid
  <2>2. queue[1].seq = e.snd_una
    BY <1>1, <1>5, <1>8 DEF Laid
  <2> QED BY <1>3, <2>1, <2>2 DEF Laid
<1>10. FinLaid(n, v)
  <2>1. \A i \in 1 .. Len(queue) : "FIN" \in queue[i].flags <=> i = Len(queue) /\ e.fin_sent
    BY <1>3, <1>5, <1>8 DEF FinLaid
  <2>2. queue = <<>> <=> e.retx = <<>>
    BY <1>3
  <2> QED BY <1>6, <1>7, <1>8, <2>1, <2>2 DEF FinLaid
<1>11. Sender(n, v)
  <2>1. Timing(n)
    BY <1>6 DEF Timing
  <2>2. Unsent(n, v)
    BY <1>7, <1>8 DEF Unsent
  <2> QED BY <1>6, <1>7, <1>8, <1>9, <1>10, <2>1, <2>2 DEF Sender
<1>12. Receiver(n, v)
  BY <1>6, ReceiverKept DEF Talks, ReceiverFields, S
<1>13. Says(n, v)
  BY <1>7, Zenon DEF Talks, Says, Recent
<1> QED BY <1>1, <1>2, <1>3, <1>5, <1>6, <1>11, <1>12, <1>13 DEF Talks, S

\* _on_rto.
LEMMA OnRtoTalking ==
    ASSUME NEW e, NEW v \in Views, Connected(e, v), e.rt_timer = TRUE, NEW gave_up \in BOOLEAN
    PROVE  LET n == OnRto(e, gave_up) IN Connected(n, v) \/ Shut(n, v)
<1> DEFINE o == Head(e.retx)
           fired == [e EXCEPT !.rt_timer = FALSE]
           again == Retried(e)
           n == Emit(again, o.seq, o.flags, o.payload)
<1>1. /\ Typed(e) /\ Talks(e, v) /\ Timed(e) /\ Sound(e) /\ Talking(e, v) /\ Noticed(e) /\ Waits(e)
      /\ Sender(e, v)
  BY DEF Connected, Talking, Sound, Talks
<1>2. e.retx # <<>>
  BY <1>1 DEF Timed
<1>3. CASE gave_up \/ Exhausted(e)
  <2>1. OnRto(e, gave_up) = Abort(fired)
    BY <1>2, <1>3, Zenon DEF OnRto
  <2>2. Typed(fired)
    BY <1>1, Fires DEF Sound
  <2>3. Only(e, fired, {"rt_timer"})
    BY <1>1, FieldNames DEF Only, Typed
  <2> HIDE DEF fired
  <2>4. Talks(fired, v)
    <3>1. {"rt_timer"} \cap TalkFields = {}
      BY DEF TalkFields, SenderFields, ReceiverFields
    <3> QED BY <1>1, <2>3, <3>1, TalksKept
  <2> QED BY <2>1, <2>2, <2>4, AbortShut
<1>4. CASE ~gave_up /\ ~Exhausted(e)
  <2>1. OnRto(e, gave_up) = n
    BY <1>2, <1>4, Zenon DEF OnRto
  <2>2. o = e.retx[1] /\ o \in QueueEntries /\ 1 \in 1 .. Len(e.retx)
    <3>1. e.retx \in Seq(QueueEntries)
      BY <1>1, Reads
    <3> QED BY <1>2, <3>1, HeadTailProperties
  <2>3. /\ o.seq \in SeqNums /\ o.payload \in Seq(Bytes) /\ o.flags \in FlagSets
        /\ MayCarry(o.flags, o.payload) /\ "ACK" \in o.flags
    <3>1. EntryLaid(e.retx, e.snd_nxt, v.base, 1)
      BY <1>1, <2>2 DEF Sender, Laid
    <3> QED BY <2>2, <3>1, EntryTakes DEF EntryLaid
  <2>4. Sound(again) /\ again.state = e.state
    BY <1>1, <1>2, <1>4, RetriedSound
  <2>5. /\ Talks(again, v) /\ Only(e, again, {"rto_count", "rtt_pending", "retx"})
        /\ again.retx # <<>>
    BY <1>1, <1>2, <2>4, RetriedTalks DEF Sound
  <2>6. \A seg : /\ seg.seq = o.seq /\ seg.flags = o.flags /\ seg.payload = o.payload
                 => Genuine(seg, v.base, v.sent, sub(e.snd_nxt, v.base))
    BY <1>1, <2>2, EntryGenuine
  <2>6a. o.seq = e.snd_una
    BY <1>1, <2>2 DEF Sender, Laid
  <2> HIDE DEF o, again
  <2>7. again.snd_nxt = e.snd_nxt /\ again.snd_una = e.snd_una
    BY <2>5, FieldNames DEF Only
  <2>7a. sub(again.snd_una, v.base) <= sub(o.seq, v.base)
    BY <1>1, <2>6a, <2>7, SentWithin
  <2>8. Typed(n) /\ Only(again, n, Emitted)
    BY <2>3, <2>4, EmitFrame DEF Sound
  <2>9. Talks(n, v)
    BY <2>3, <2>4, <2>5, <2>6, <2>7, <2>7a, EmitTalks DEF Sound
  <2> HIDE DEF n
  <2>10. Only(e, n, {"rto_count", "rtt_pending", "retx"} \cup Emitted)
    BY <2>5, <2>8, OnlyThen
  <2>11. /\ n.state = e.state /\ n.fin_acked = e.fin_acked /\ n.rcv_nxt = e.rcv_nxt
         /\ n.rt_timer = e.rt_timer
    BY <2>10, FieldNames DEF Only, Emitted
  <2>12. n.retx # <<>>
    BY <2>5, <2>8, FieldNames DEF Only, Emitted
  <2>13. Sound(n)
    <3>1. Emitted \cap Judged = {}
      BY DEF Emitted, Judged
    <3> QED BY <2>4, <2>8, <3>1, Besides
  <2>14. Talking(n, v) /\ Noticed(n)
    <3>1. Timed(n) /\ Stage(n, v) /\ Noticed(n)
      BY <1>1, <1>2, <2>11, <2>12, Zenon DEF Talking, Timed, Stage, Told, Noticed
    <3> QED BY <2>9, <2>13, <3>1 DEF Talking
  <2>15. Waits(n)
    <3>1. ({"rto_count", "rtt_pending", "retx"} \cup Emitted) \cap WaitFields = {}
      BY DEF Emitted, WaitFields
    <3> QED BY <1>1, <2>10, <3>1, WaitsKept
  <2> QED BY <2>1, <2>14, <2>15 DEF Connected
<1> QED BY <1>3, <1>4

\* _on_persist: what the window lets out, a probe, or nothing left to wait for.
LEMMA OnPersistTalking ==
    ASSUME NEW e, NEW v \in Views, Connected(e, v)
    PROVE  Connected(OnPersist(e), v)
<1> DEFINE fired == [e EXCEPT !.persist_timer = FALSE]
           fin == EmitFin(fired)
           first == SubSeq(fired.app_buf, 1, 1)
           probe == SendChunk(fired, first)
           n == OnPersist(e)
<1>1. /\ Typed(e) /\ Talks(e, v) /\ Timed(e) /\ Sound(e) /\ Talking(e, v) /\ Noticed(e)
      /\ Sender(e, v) /\ Stage(e, v) /\ e.app_buf \in Seq(Bytes)
      /\ e.fin_sent \in BOOLEAN /\ e.fin_pending \in BOOLEAN /\ e.snd_wnd \in 0 .. RCV_WND
  BY Reads DEF Connected, Talking, Sound, Talks
<1>2. Typed(fired) /\ Sound(fired)
  BY <1>1, Fires DEF Sound
<1>3. Only(e, fired, {"persist_timer"})
  BY <1>1, FieldNames DEF Only, Typed
<1>4. /\ fired.state = e.state /\ fired.app_buf = e.app_buf /\ fired.fin_pending = e.fin_pending
      /\ fired.fin_sent = e.fin_sent /\ fired.rt_timer = e.rt_timer
      /\ fired.fin_acked = e.fin_acked /\ fired.rcv_nxt = e.rcv_nxt
  BY <1>3, FieldNames DEF Only
<1>5. /\ e.snd_wnd > 0 => n = SendPending(fired)
      /\ ~(e.snd_wnd > 0) /\ e.app_buf # <<>> =>
            n = ArmPersist(QueueAndSend([fired EXCEPT !.app_buf = Tail(@)],
                                        {"ACK"}, <<Head(e.app_buf)>>))
      /\ ~(e.snd_wnd > 0) /\ e.app_buf = <<>> /\ (e.fin_pending /\ ~e.fin_sent) =>
            n = ArmPersist(fin)
      /\ ~(e.snd_wnd > 0) /\ e.app_buf = <<>> /\ ~(e.fin_pending /\ ~e.fin_sent) => n = fired
  BY Zenon DEF OnPersist
<1>6. Sound(n)
  BY <1>1, OnPersistSound
<1> HIDE DEF fired, n
<1>7. Talking(fired, v) /\ Noticed(fired)
  <2>1. {"persist_timer"} \cap (TalkFields \cup Judged \cup {"rt_timer"}) = {}
    BY DEF TalkFields, SenderFields, ReceiverFields, Judged
  <2> QED BY <1>1, <1>2, <1>3, <2>1, TalkingKept
<1>8. CASE e.snd_wnd > 0
  BY <1>5, <1>7, <1>8, SendPendingTalking DEF Connected, n
<1>9. CASE ~(e.snd_wnd > 0) /\ e.app_buf # <<>>
  <2>1. e.fin_sent = FALSE
    BY <1>1, <1>9 DEF Sender, FinLaid
  <2>2. 1 \in 1 .. Len(fired.app_buf) /\ 1 <= TextMax
    <3>1. 1 <= TextMax
      BY Halves
    <3> QED BY <1>1, <1>4, <1>9, <3>1
  <2>3. Talks(fired, v)
    BY <1>7 DEF Talking
  <2>4. /\ Talks(probe, v) /\ Typed(probe) /\ Only(fired, probe, Segmenting)
        /\ probe.retx # <<>> /\ probe.rt_timer = TRUE
    BY <1>2, <1>4, <2>1, <2>2, <2>3, ChunkTalks
  <2>5. first = <<Head(e.app_buf)>> /\ Len(first) = 1
    <3>1. /\ e.app_buf \in Seq(Bytes) /\ Len(e.app_buf) \in Nat /\ Len(e.app_buf) >= 1
          /\ e.app_buf[1] \in Bytes /\ Head(e.app_buf) = e.app_buf[1]
      BY <1>1, <1>9
    <3>2. \A i \in 1 .. 1 : e.app_buf[i] \in Bytes
      BY <3>1
    <3>3. /\ first \in Seq(Bytes) /\ Len(first) = 1
          /\ \A i \in 1 .. 1 : first[i] = e.app_buf[1 + i - 1]
      BY <1>4, <3>2, SubSeqProperties
    <3> HIDE DEF first
    <3>4. first[1] = e.app_buf[1]
      BY <3>3
    <3>5. <<Head(e.app_buf)>> \in Seq(Bytes) /\ Len(<<Head(e.app_buf)>>) = 1
      BY <3>1
    <3>6. \A i \in 1 .. Len(first) : first[i] = <<Head(e.app_buf)>>[i]
      BY <3>1, <3>3, <3>4
    <3>7. first = <<Head(e.app_buf)>>
      BY <3>3, <3>5, <3>6, SeqEqual
    <3> QED BY <3>3, <3>7
  <2>6. Tail(fired.app_buf) = SubSeq(fired.app_buf, Len(first) + 1, Len(fired.app_buf))
    <3>1. Len(first) + 1 = 2
      BY <2>5
    <3> HIDE DEF first
    <3>2. Tail(fired.app_buf) = SubSeq(fired.app_buf, 2, Len(fired.app_buf))
      BY <1>1, <1>4, <1>9
    <3> QED BY <3>1, <3>2
  <2> DEFINE shorter == [fired EXCEPT !.app_buf = Tail(@)]
  <2>7. shorter = [fired EXCEPT !.app_buf = SubSeq(@, Len(first) + 1, Len(@))]
    BY <1>2, <2>6, FieldNames, Zenon DEF Typed
  <2>8. probe = QueueAndSend(shorter, {"ACK"}, <<Head(e.app_buf)>>)
    BY <2>5, <2>7, Zenon DEF SendChunk
  <2>9. n = ArmPersist(probe)
    BY <1>5, <1>9, <2>8
  <2> HIDE DEF probe
  <2>10. Talks(n, v) /\ Only(probe, n, {"persist_timer"})
    BY <2>4, <2>9, ArmPersistTalks
  <2>11. Only(fired, n, Segmenting \cup {"persist_timer"})
    BY <2>4, <2>10, OnlyThen
  <2>12. /\ n.state = e.state /\ n.fin_acked = e.fin_acked /\ n.rcv_nxt = e.rcv_nxt
    BY <1>4, <2>11, FieldNames DEF Only, Segmenting, Queueing, Emitted
  <2>13. n.rt_timer = TRUE /\ n.retx # <<>>
    BY <2>4, <2>10, FieldNames DEF Only
  <2>14. Timed(n) /\ Waits(n)
    BY <2>13 DEF Timed, Waits
  <2>15. Stage(n, v) /\ Noticed(n)
    BY <1>1, <2>12, Zenon DEF Stage, Told, Noticed
  <2> QED BY <1>6, <2>10, <2>14, <2>15 DEF Connected, Talking, n
<1>10. CASE ~(e.snd_wnd > 0) /\ e.app_buf = <<>> /\ (e.fin_pending /\ ~e.fin_sent)
  <2>1. e.state \in {"ESTABLISHED", "CLOSE_WAIT"}
    BY <1>1, <1>10 DEF Stage, Up, Sound, Consistent, Finished
  <2>2. FinDue(fired)
    BY <1>4, <1>10 DEF FinDue
  <2>3. Talks(fired, v)
    BY <1>7 DEF Talking
  <2>4. /\ Talks(fin, v) /\ fin.retx # <<>> /\ fin.rt_timer = TRUE
        /\ fin.fin_sent = TRUE /\ fin.fin_acked = FALSE
    BY <1>2, <2>2, <2>3, EmitFinTalks
  <2>5. Typed(fin) /\ Only(fired, fin, Sending) /\ fin.state = AfterOurFin(fired.state)
    BY <1>2, EmitFinFrame
  <2>6. n = ArmPersist(fin)
    BY <1>5, <1>10
  <2> HIDE DEF fin
  <2>7. Talks(n, v) /\ Only(fin, n, {"persist_timer"})
    BY <2>4, <2>5, <2>6, ArmPersistTalks
  <2>8. /\ n.state = fin.state /\ n.fin_acked = fin.fin_acked /\ n.rcv_nxt = fin.rcv_nxt
        /\ n.retx = fin.retx /\ n.rt_timer = fin.rt_timer /\ n.fin_sent = fin.fin_sent
    BY <2>7, FieldNames DEF Only
  <2>9. fin.rcv_nxt = e.rcv_nxt
    BY <1>4, <2>5, FieldNames DEF Only, Sending, Segmenting, Queueing, Emitted, Moving
  <2>10. /\ e.state = "ESTABLISHED" => n.state = "FIN_WAIT_1"
         /\ e.state = "CLOSE_WAIT" => n.state = "LAST_ACK"
    BY <1>4, <2>1, <2>5, <2>8 DEF AfterOurFin, StatesBeforeFin
  <2>11. Timed(n) /\ Waits(n)
    BY <2>4, <2>8 DEF Timed, Waits
  <2>12. Told(n, v) <=> Told(e, v)
    BY <2>8, <2>9 DEF Told
  <2>13. Stage(n, v) /\ Noticed(n)
    BY <1>1, <2>1, <2>4, <2>8, <2>10, <2>12 DEF Stage, Noticed, Up, Finished, ToldStates
  <2> QED BY <1>6, <2>7, <2>11, <2>13 DEF Connected, Talking, n
<1>11. CASE ~(e.snd_wnd > 0) /\ e.app_buf = <<>> /\ ~(e.fin_pending /\ ~e.fin_sent)
  <2>1. n = fired
    BY <1>5, <1>11, Zenon
  <2>2. Waits(fired)
    BY <1>4, <1>11 DEF Waits
  <2> QED BY <1>7, <2>1, <2>2 DEF Connected, n
<1> QED BY <1>8, <1>9, <1>10, <1>11

\* _on_delack.
LEMMA OnDelackTalking ==
    ASSUME NEW e, NEW v \in Views, Connected(e, v)
    PROVE  Connected(OnDelack(e), v)
<1> DEFINE fired == [e EXCEPT !.ack_timer = FALSE]
<1>1. Typed(e) /\ Sound(e) /\ Talking(e, v) /\ Noticed(e) /\ Waits(e)
  BY DEF Connected, Talking, Sound
<1>2. Typed(fired)
  BY <1>1, Fires DEF Sound
<1>3. Only(e, fired, {"ack_timer"})
  BY <1>1, FieldNames DEF Only, Typed
<1>4. OnDelack(e) = SendAck(fired)
  BY DEF OnDelack
<1> HIDE DEF fired
<1>5. /\ {"ack_timer"} \cap (TalkFields \cup Judged \cup {"rt_timer"}) = {}
      /\ {"ack_timer"} \cap WaitFields = {}
  BY DEF TalkFields, SenderFields, ReceiverFields, Judged, WaitFields
<1>6. Talking(fired, v) /\ Noticed(fired)
  BY <1>1, <1>2, <1>3, <1>5, TalkingKept
<1>7. Waits(fired)
  BY <1>1, <1>3, <1>5, WaitsKept
<1> QED BY <1>4, <1>6, <1>7, SendAckTalking DEF Connected

\* _on_time_wait.
LEMMA OnTimeWaitTalking ==
    ASSUME NEW e, NEW v \in Views, Connected(e, v)
    PROVE  Shut(OnTimeWait(e), v)
<1> DEFINE fired == [e EXCEPT !.tw_timer = FALSE]
<1>1. Typed(e) /\ Sound(e) /\ Talks(e, v)
  BY DEF Connected, Talking, Sound
<1>2. Typed(fired)
  BY <1>1, Fires DEF Sound
<1>3. Only(e, fired, {"tw_timer"})
  BY <1>1, FieldNames DEF Only, Typed
<1>4. OnTimeWait(e) = EnterClosed(fired)
  BY DEF OnTimeWait
<1> HIDE DEF fired
<1>5. Talks(fired, v)
  <2>1. {"tw_timer"} \cap TalkFields = {}
    BY DEF TalkFields, SenderFields, ReceiverFields
  <2> QED BY <1>1, <1>3, <2>1, TalksKept
<1> QED BY <1>2, <1>4, <1>5, EnterClosedShut

\* _on_keepalive.
LEMMA OnKeepaliveTalking ==
    ASSUME NEW e, NEW v \in Views, Connected(e, v)
    PROVE  LET n == OnKeepalive(e) IN Connected(n, v) \/ Shut(n, v)
<1> DEFINE fired == [e EXCEPT !.ka_timer = FALSE]
           over == Abort(fired)
           again == RestartKeepalive(fired)
           probe == Emit(fired, sub(e.snd_una, 1), {"ACK"}, <<>>)
           counted == [probe EXCEPT !.ka_probes = @ + 1]
           probed == RestartKeepalive(counted)
           n == OnKeepalive(e)
<1>1. \/ n = fired \/ n = again \/ n = over
      \/ ~(e.ka_probes >= KEEPALIVE_COUNT) /\ n = probed
  BY DEF OnKeepalive
<1>2. Typed(e) /\ Sound(e) /\ Talking(e, v) /\ Noticed(e) /\ Waits(e)
  BY DEF Connected, Talking, Sound
<1>3. Typed(fired)
  BY <1>2, Fires DEF Sound
<1>4. Only(e, fired, {"ka_timer"}) /\ fired.ka_probes = e.ka_probes
  BY <1>2, FieldNames DEF Only, Typed
<1>5. /\ {"ka_timer"} \cap (TalkFields \cup Judged \cup {"rt_timer"}) = {}
      /\ {"ka_timer"} \cap WaitFields = {}
      /\ {"ka_probes"} \cap (TalkFields \cup Judged \cup {"rt_timer"}) = {}
      /\ {"ka_probes"} \cap WaitFields = {}
      /\ Emitted \cap WaitFields = {} /\ Emitted \cap Judged = {} /\ Emitted \cap StageFields = {}
  BY DEF TalkFields, SenderFields, ReceiverFields, Judged, WaitFields, StageFields, Emitted
<1> HIDE DEF fired, n
<1>6. Connected(fired, v)
  <2>1. Talking(fired, v) /\ Noticed(fired)
    BY <1>2, <1>3, <1>4, <1>5, TalkingKept
  <2>2. Waits(fired)
    BY <1>2, <1>4, <1>5, WaitsKept
  <2> QED BY <2>1, <2>2 DEF Connected
<1>7. Shut(over, v)
  BY <1>3, <1>6, AbortShut DEF Connected, Talking
<1>8. ASSUME NEW x, Connected(x, v) PROVE Connected(RestartKeepalive(x), v)
  <2>1. Typed(x) /\ Talking(x, v) /\ Noticed(x) /\ Waits(x)
    BY <1>8 DEF Connected, Talking, Sound
  <2>2. Typed(RestartKeepalive(x)) /\ Only(x, RestartKeepalive(x), {"ka_timer"})
    BY <2>1, RestartKeepaliveFrame
  <2>3. Talking(RestartKeepalive(x), v) /\ Noticed(RestartKeepalive(x))
    BY <1>5, <2>1, <2>2, TalkingKept
  <2>4. Waits(RestartKeepalive(x))
    BY <1>5, <2>1, <2>2, WaitsKept
  <2> QED BY <2>3, <2>4 DEF Connected
<1>9. Connected(again, v)
  BY <1>6, <1>8
<1> HIDE DEF over, again
<1>10. ASSUME ~(e.ka_probes >= KEEPALIVE_COUNT) PROVE Connected(probed, v)
  <2> DEFINE more == probe.ka_probes + 1
  <2>1. sub(e.snd_una, 1) \in SeqNums
    <3>1. e.snd_una \in SeqNums
      BY <1>2, Reads
    <3> QED BY <3>1, InSeqNums
  <2>2. Typed(probe) /\ Only(fired, probe, Emitted)
    <3>1. {"ACK"} \in FlagSets /\ <<>> \in Seq(Bytes) /\ MayCarry({"ACK"}, <<>>)
      BY DEF FlagSets, MayCarry
    <3> QED BY <1>3, <2>1, <3>1, EmitFrame
  <2>3. Talks(probe, v)
    BY <1>3, <1>6, <2>1, BareTalks DEF Connected, Talking
  <2> HIDE DEF probe
  <2>4. Connected(probe, v)
    <3>1. Sound(probe)
      BY <1>5, <1>6, <2>2, Besides DEF Connected, Talking
    <3>2. Talking(probe, v) /\ Noticed(probe)
      BY <1>5, <1>6, <2>2, <2>3, <3>1, StageKept DEF Connected
    <3>3. Waits(probe)
      BY <1>5, <1>6, <2>2, WaitsKept DEF Connected
    <3> QED BY <3>2, <3>3 DEF Connected
  <2>5. probe.ka_probes = e.ka_probes
    BY <1>4, <2>2, FieldNames DEF Only, Emitted
  <2>6. more \in EngineTypes["ka_probes"]
    <3>1. e.ka_probes \in 0 .. KEEPALIVE_COUNT
      BY <1>2, Reads
    <3>2. more \in 0 .. KEEPALIVE_COUNT
      BY <1>10, <2>5, <3>1, EngineAssumption
    <3> QED BY <3>2, FieldTypes
  <2>7. counted = [probe EXCEPT !.ka_probes = more]
    OBVIOUS
  <2> HIDE DEF more, counted
  <2>8. Typed(counted)
    BY <2>2, <2>6, <2>7, FieldNames, Zenon DEF Typed
  <2>9. Only(probe, counted, {"ka_probes"})
    BY <2>2, <2>7, FieldNames DEF Only, Typed
  <2>10. Connected(counted, v)
    <3>1. Talking(counted, v) /\ Noticed(counted)
      BY <1>5, <2>4, <2>8, <2>9, TalkingKept DEF Connected
    <3>2. Waits(counted)
      BY <1>5, <2>4, <2>9, WaitsKept DEF Connected
    <3> QED BY <3>1, <3>2 DEF Connected
  <2> QED BY <1>8, <2>10
<1> HIDE DEF probed
<1>11. Connected(n, v) \/ Shut(n, v)
  BY <1>1, <1>6, <1>7, <1>9, <1>10
<1> QED BY <1>11 DEF n

\* A timer that was still armed when the connection ended finds nothing to do.
LEMMA TimersShut ==
    ASSUME NEW e, NEW v, Shut(e, v), NEW gave_up \in BOOLEAN
    PROVE  Shut(OnRto(e, gave_up), v) /\ Shut(OnPersist(e), v) /\ Shut(OnKeepalive(e), v)
<1> DEFINE rt == [e EXCEPT !.rt_timer = FALSE]
           persist == [e EXCEPT !.persist_timer = FALSE]
           ka == [e EXCEPT !.ka_timer = FALSE]
<1>1. /\ Typed(e) /\ Sound(e) /\ e.state = "CLOSED" /\ e.retx = <<>> /\ e.app_buf = <<>>
      /\ e.fin_pending = FALSE
  BY DEF Shut, Sound, Consistent, Unopened
<1>2. Typed(rt) /\ Typed(persist) /\ Typed(ka)
  BY <1>1, Fires DEF Sound
<1>3. Only(e, rt, {"rt_timer"}) /\ Only(e, persist, {"persist_timer"}) /\ Only(e, ka, {"ka_timer"})
  BY <1>1, FieldNames DEF Only, Typed
<1>4. persist.state = e.state
  BY <1>1, FieldNames DEF Typed
<1>5. OnRto(e, gave_up) = rt
  BY <1>1 DEF OnRto
<1>6. OnPersist(e) = persist
  <2>1. ~MaySend(persist)
    BY <1>1, <1>4 DEF MaySend
  <2> QED BY <1>1, <2>1 DEF OnPersist, SendPending
<1>7. OnKeepalive(e) = ka
  BY <1>1 DEF OnKeepalive
<1> HIDE DEF rt, persist, ka
<1>8. ASSUME NEW f \in {"rt_timer", "persist_timer", "ka_timer"}
      PROVE  {f} \cap (TalkFields \cup Judged \cup {"ack_timer", "tw_timer"}) = {}
  BY DEF TalkFields, SenderFields, ReceiverFields, Judged
<1> QED BY <1>2, <1>3, <1>5, <1>6, <1>7, <1>8, ShutKept
===============================================================================
