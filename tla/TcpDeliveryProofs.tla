---------------------------- MODULE TcpDeliveryProofs ----------------------------
(***************************************************************************)
(* Two engines that were dropped into one connection, and the wire between *)
(* them: the bytes arrive as they were sent, whatever the wire does.       *)
(***************************************************************************)
EXTENDS TcpConnectionProofs, TcpRefinement

-------------------------------------------------------------------------------
(* What the other side does.                                               *)

\* From v to w, the other side may take more, transmit more and, before it
\* ends its stream, have more to send.
Grows(v, w) ==
    /\ w.base = v.base /\ w.sent = v.sent /\ w.ended = v.ended /\ w.pbase = v.pbase
    /\ w.snd = v.snd /\ w.rcv = v.rcv /\ w.acks = v.acks /\ w.sight = v.sight
    /\ v.taken <= w.taken /\ v.pnxt <= w.pnxt
    /\ w.psent = v.psent \/ (v.pnxt <= v.psent /\ v.psent <= w.psent)

\* What an engine knows of the stream it receives stays true.
LEMMA ReceiverGrows ==
    ASSUME NEW e, NEW v \in Views, NEW w \in Views, Typed(e), Receiver(e, v), Grows(v, w)
    PROVE  Receiver(e, w) /\ (Told(e, v) <=> Told(e, w))
<1> DEFINE len == Len(e.stream)
           p == sub(e.rcv_nxt, v.pbase)
<1>1. /\ e.rcv_nxt \in SeqNums /\ e.stream \in Seq(Bytes \cup {EOF}) /\ len \in Nat
      /\ e.ooo \subseteq KeptRecords
  BY Reads
<1>2. p = len /\ len <= v.pnxt
  BY DEF Receiver, Relayed
<1>3. /\ v.psent \in Nat /\ v.pnxt \in Nat /\ v.pnxt <= v.psent + 1
      /\ w.psent \in Nat /\ w.pnxt \in Nat /\ w.pnxt <= w.psent + 1
  BY ViewReads
<1>4. /\ w.pbase = v.pbase /\ v.pnxt <= w.pnxt
      /\ w.psent = v.psent \/ (v.pnxt <= v.psent /\ v.psent <= w.psent)
  BY DEF Grows
<1> HIDE DEF len, p
<1>5. v.psent <= w.psent /\ len <= w.pnxt
  BY <1>1, <1>2, <1>3, <1>4
<1>11. w.sight = v.sight /\ w.rcv = v.rcv
  BY DEF Grows
<1>6. KeptGenuine(e, w)
  <2> SUFFICES ASSUME NEW o \in e.ooo
               PROVE  /\ sub(o.seq, v.pbase) + Len(o.data) <= w.psent
                      /\ sub(o.seq, v.pbase) + Len(o.data) <= w.pnxt
                      /\ From(sub(o.seq, v.pbase), o.data) /\ Seen(sub(o.seq, v.pbase), o.data, w)
    BY <1>4 DEF KeptGenuine
  <2>1. o.seq \in SeqNums /\ Len(o.data) \in Nat
    BY <1>1 DEF KeptRecords
  <2>2. sub(o.seq, v.pbase) \in Nat
    BY <2>1, ViewReads, Position
  <2>3. /\ sub(o.seq, v.pbase) + Len(o.data) <= v.psent
        /\ sub(o.seq, v.pbase) + Len(o.data) <= v.pnxt
        /\ From(sub(o.seq, v.pbase), o.data) /\ Seen(sub(o.seq, v.pbase), o.data, v)
    BY DEF Receiver, KeptGenuine
  <2>4. Seen(sub(o.seq, v.pbase), o.data, w)
    BY <1>11, <2>3 DEF Seen
  <2> QED BY <1>3, <1>4, <1>5, <2>1, <2>2, <2>3, <2>4
<1>7. Relayed(e, w)
  <2>1. ASSUME NEW i \in 1 .. len PROVE e.stream[i] = Item(w.psent, i) /\ (i > w.rcv => i \in w.sight)
    <3>1. e.stream[i] = Item(v.psent, i) /\ (i > v.rcv => i \in v.sight)
      BY DEF Receiver, Relayed, len
    <3>2. CASE w.psent = v.psent
      BY <1>11, <3>1, <3>2
    <3>3. CASE v.pnxt <= v.psent /\ v.psent <= w.psent
      <4>1. i <= v.psent /\ i <= w.psent
        BY <1>1, <1>2, <1>3, <3>3
      <4> QED BY <1>11, <3>1, <4>1 DEF Item
    <3> QED BY <1>4, <3>2, <3>3
  <2> QED BY <1>2, <1>4, <1>5, <2>1 DEF Relayed, len, p
<1>8. FinNoted(e, w)
  BY <1>3, <1>4, <1>11 DEF Receiver, FinNoted
<1>9. EdgeHeld(e, w)
  BY <1>4 DEF Receiver, EdgeHeld
<1>10. Told(e, v) <=> Told(e, w)
  <2>1. Told(e, v) <=> len = v.psent + 1
    BY <1>2 DEF Told, p
  <2>2. Told(e, w) <=> len = w.psent + 1
    BY <1>2, <1>4 DEF Told, p
  <2> QED BY <1>1, <1>2, <1>3, <1>4, <2>1, <2>2
<1> QED BY <1>6, <1>7, <1>8, <1>9, <1>10 DEF Receiver

\* So does what it keeps of its own.
LEMMA SenderGrows ==
    ASSUME NEW e, NEW v \in Views, NEW w \in Views, Typed(e), Sender(e, v), Grows(v, w)
    PROVE  Sender(e, w)
<1>1. /\ w.base = v.base /\ w.sent = v.sent /\ w.ended = v.ended /\ v.taken <= w.taken
      /\ w.acks = v.acks
  BY DEF Grows
<1>2. sub(e.snd_una, w.base) <= w.taken
  <2>1. v.taken \in Nat /\ w.taken \in Nat /\ sub(e.snd_una, v.base) \in Nat
    BY SentWithin, ViewReads
  <2>2. sub(e.snd_una, v.base) <= v.taken
    BY DEF Sender
  <2> QED BY <1>1, <2>1, <2>2
<1>3. Unsent(e, w) /\ FinLaid(e, w)
  BY <1>1, Zenon DEF Sender, Unsent, FinLaid
<1> QED BY <1>1, <1>2, <1>3 DEF Sender

\* And nothing it says is outstanding.
LEMMA SilentSays ==
    ASSUME NEW e, e.out = <<>>, NEW v,
           v.snd <= sub(e.snd_nxt, v.base), v.rcv <= sub(e.rcv_nxt, v.pbase)
    PROVE  Says(e, v)
  BY DEF Says

\* A connection, or one that is over.
Settled(e, v) == Connected(e, v) \/ Shut(e, v)

\* What the other side does leaves an engine where it was.
LEMMA SettledGrows ==
    ASSUME NEW e, NEW v \in Views, NEW w \in Views, e.out = <<>>, Settled(e, v), Grows(v, w)
    PROVE  Settled(e, w)
<1>1. Typed(e) /\ Sound(e) /\ Receiver(e, v) /\ Says(e, v)
  BY DEF Settled, Connected, Shut, Talking, Talks, Sound
<1>2. Receiver(e, w) /\ (Told(e, v) <=> Told(e, w))
  BY <1>1, ReceiverGrows
<1>3. /\ w.base = v.base /\ w.sent = v.sent /\ w.ended = v.ended /\ w.pbase = v.pbase
      /\ w.snd = v.snd /\ w.rcv = v.rcv /\ v.taken <= w.taken /\ w.acks = v.acks
  BY DEF Grows
<1>4. Says(e, w)
  <2>1. w.snd <= sub(e.snd_nxt, w.base) /\ w.rcv <= sub(e.rcv_nxt, w.pbase)
    BY <1>1, <1>3 DEF Says
  <2> QED BY <2>1, SilentSays
<1>5. CASE Connected(e, v)
  <2>1. Sender(e, w)
    BY <1>1, <1>5, SenderGrows DEF Connected, Talking, Talks
  <2>2. Talks(e, w)
    BY <1>2, <1>4, <2>1 DEF Talks
  <2>3. Stage(e, w) /\ Timed(e) /\ Noticed(e) /\ Waits(e)
    BY <1>2, <1>5 DEF Connected, Talking, Stage
  <2> QED BY <1>1, <2>2, <2>3 DEF Settled, Connected, Talking
<1>6. CASE Shut(e, v)
  <2>1. e.snd_una \in SeqNums /\ v.base \in SeqNums /\ v.taken \in Nat /\ w.taken \in Nat
    BY <1>1, ViewReads, Reads
  <2>2. sub(e.snd_una, v.base) \in Nat
    BY <2>1, Position
  <2>3. sub(e.snd_una, w.base) <= w.taken
    BY <1>3, <1>6, <2>1, <2>2 DEF Shut
  <2>4. /\ e.state = "CLOSED" /\ e.retx = <<>> /\ e.app_buf = <<>> /\ e.rtt_pending = None
        /\ e.ack_timer = FALSE /\ e.tw_timer = FALSE
        /\ sub(e.snd_una, w.base) <= sub(e.snd_nxt, w.base) /\ sub(e.snd_una, w.base) \in w.acks
        /\ sub(e.snd_nxt, w.base) <= w.sent + 1
        /\ sub(e.snd_nxt, w.base) = w.sent + 1 => w.ended
    BY <1>3, <1>6 DEF Shut
  <2> QED BY <1>1, <1>2, <1>4, <2>3, <2>4 DEF Settled, Shut
<1> QED BY <1>5, <1>6 DEF Settled

\* Once its segments are on the wire an engine has said nothing more.
LEMMA SettledSilent ==
    ASSUME NEW e, NEW v \in Views, Settled(e, v)
    PROVE  Settled([e EXCEPT !.out = <<>>], v)
<1> DEFINE n == [e EXCEPT !.out = <<>>]
<1>1. Typed(e) /\ Sound(e) /\ Receiver(e, v) /\ Says(e, v) /\ Consistent(e)
  BY DEF Settled, Connected, Shut, Talking, Talks, Sound
<1>2. Typed(n)
  BY <1>1, Values, FieldNames, Zenon DEF Typed
<1>3. Only(e, n, {"out"}) /\ n.out = <<>>
  BY <1>1, FieldNames DEF Only, Typed
<1> HIDE DEF n
<1>4. {"out"} \cap SenderFields = {} /\ {"out"} \cap ReceiverFields = {} /\ {"out"} \cap Judged = {}
      /\ {"out"} \cap WaitFields = {}
  BY DEF SenderFields, ReceiverFields, Judged, WaitFields
<1>5. Sound(n)
  BY <1>1, <1>2, <1>3, <1>4, Undisturbed DEF Sound
<1>6. /\ n.state = e.state /\ n.retx = e.retx /\ n.app_buf = e.app_buf
      /\ n.rtt_pending = e.rtt_pending /\ n.ack_timer = e.ack_timer /\ n.tw_timer = e.tw_timer
      /\ n.rt_timer = e.rt_timer /\ n.fin_acked = e.fin_acked
      /\ n.snd_una = e.snd_una /\ n.snd_nxt = e.snd_nxt /\ n.rcv_nxt = e.rcv_nxt
  BY <1>3, FieldNames DEF Only
<1>7. Receiver(n, v)
  BY <1>1, <1>3, <1>4, ReceiverKept
<1>8. Says(n, v)
  <2>1. v.snd <= sub(n.snd_nxt, v.base) /\ v.rcv <= sub(n.rcv_nxt, v.pbase)
    BY <1>1, <1>6 DEF Says
  <2> QED BY <1>3, <2>1, SilentSays
<1>9. CASE Connected(e, v)
  <2>1. Sender(n, v)
    BY <1>3, <1>4, <1>9, SenderKept DEF Connected, Talking, Talks
  <2>2. Waits(n)
    BY <1>3, <1>4, <1>9, WaitsKept DEF Connected
  <2>3. Timed(n) /\ Noticed(n)
    BY <1>6, <1>9, Zenon DEF Connected, Talking, Timed, Noticed
  <2>4. Stage(n, v)
    BY <1>6, <1>9, Zenon DEF Connected, Talking, Stage, Told
  <2> QED BY <1>5, <1>7, <1>8, <2>1, <2>2, <2>3, <2>4 DEF Settled, Connected, Talking, Talks, n
<1>10. CASE Shut(e, v)
  <2>1. /\ n.state = "CLOSED" /\ n.retx = <<>> /\ n.app_buf = <<>> /\ n.rtt_pending = None
        /\ n.ack_timer = FALSE /\ n.tw_timer = FALSE
        /\ sub(n.snd_una, v.base) <= v.taken /\ sub(n.snd_una, v.base) \in v.acks
        /\ sub(n.snd_una, v.base) <= sub(n.snd_nxt, v.base)
        /\ sub(n.snd_nxt, v.base) <= v.sent + 1
        /\ sub(n.snd_nxt, v.base) = v.sent + 1 => v.ended
    BY <1>6, <1>10, Zenon DEF Shut
  <2> QED BY <1>5, <1>7, <1>8, <2>1 DEF Settled, Shut, n
<1> QED BY <1>9, <1>10 DEF Settled

\* What an engine keeps of the peer's stream can be known of.
SeenKept(e, v) ==
    /\ \A o \in e.ooo : Seen(sub(o.seq, v.pbase), o.data, v)
    /\ e.pending_fin # None => v.psent + 1 \in v.sight

\* Told of from where it is, and of what else can be known, an engine is as it was.
LEMMA SettledViewed ==
    ASSUME NEW e, NEW v \in Views, NEW w \in Views, Settled(e, v), e.out = <<>>,
           w.base = v.base, w.sent = v.sent, w.ended = v.ended, w.taken = v.taken,
           w.pbase = v.pbase, w.psent = v.psent, w.pnxt = v.pnxt,
           w.snd = sub(e.snd_nxt, v.base), w.rcv = sub(e.rcv_nxt, v.pbase),
           sub(e.snd_una, v.base) \in w.acks, SeenKept(e, w)
    PROVE  Settled(e, w)
<1>1. Typed(e) /\ Sound(e) /\ Receiver(e, v) /\ e.snd_nxt \in SeqNums /\ e.rcv_nxt \in SeqNums
  <2>1. Typed(e) /\ Sound(e) /\ Receiver(e, v)
    BY DEF Settled, Connected, Shut, Talking, Talks, Sound
  <2> QED BY <2>1, Reads
<1>2. Receiver(e, w)
  <2>1. KeptGenuine(e, w)
    BY <1>1, Zenon DEF Receiver, KeptGenuine, SeenKept
  <2>2. Relayed(e, w)
    <3>1. /\ Len(e.stream) = sub(e.rcv_nxt, v.pbase) /\ Len(e.stream) <= v.pnxt
          /\ \A i \in 1 .. Len(e.stream) : e.stream[i] = Item(v.psent, i)
      BY <1>1 DEF Receiver, Relayed
    <3>2. Len(e.stream) \in Nat
      BY <1>1, Reads
    <3>3. \A i \in 1 .. Len(e.stream) : ~(i > w.rcv)
      BY <3>1, <3>2
    <3> QED BY <3>1, <3>3 DEF Relayed
  <2>3. FinNoted(e, w) /\ EdgeHeld(e, w)
    BY <1>1 DEF Receiver, FinNoted, EdgeHeld, SeenKept
  <2> QED BY <2>1, <2>2, <2>3 DEF Receiver
<1>3. Says(e, w)
  <2>1. sub(e.snd_nxt, v.base) \in Nat /\ sub(e.rcv_nxt, v.pbase) \in Nat
    BY <1>1, ViewReads, Position
  <2>2. w.snd <= sub(e.snd_nxt, w.base) /\ w.rcv <= sub(e.rcv_nxt, w.pbase)
    BY <2>1
  <2> QED BY <2>2, SilentSays
<1>4. CASE Connected(e, v)
  <2>1. Sender(e, v) /\ Timed(e) /\ Stage(e, v) /\ Noticed(e) /\ Waits(e)
    BY <1>4 DEF Connected, Talking, Talks
  <2>2. Sender(e, w)
    BY <2>1, Zenon DEF Sender, Unsent, FinLaid
  <2>3. Stage(e, w)
    BY <2>1, Zenon DEF Stage, Told
  <2> QED BY <1>1, <1>2, <1>3, <2>1, <2>2, <2>3 DEF Settled, Connected, Talking, Talks
<1>5. CASE Shut(e, v)
  <2>1. /\ e.state = "CLOSED" /\ e.retx = <<>> /\ e.app_buf = <<>> /\ e.rtt_pending = None
        /\ e.ack_timer = FALSE /\ e.tw_timer = FALSE
        /\ sub(e.snd_una, w.base) <= w.taken /\ sub(e.snd_una, w.base) \in w.acks
        /\ sub(e.snd_una, w.base) <= sub(e.snd_nxt, w.base)
        /\ sub(e.snd_nxt, w.base) <= w.sent + 1
        /\ sub(e.snd_nxt, w.base) = w.sent + 1 => w.ended
    BY <1>5, Zenon DEF Shut
  <2> QED BY <1>1, <1>2, <1>3, <2>1 DEF Settled, Shut
<1> QED BY <1>4, <1>5 DEF Settled

\* When nothing is ruled out, whatever is kept can be known of.
LEMMA AllSeen ==
    ASSUME NEW e, Typed(e), NEW v \in Views, v.sight = Nat
    PROVE  SeenKept(e, v)
<1>1. v.psent \in Nat /\ v.pbase \in SeqNums /\ e.ooo \subseteq KeptRecords
  BY ViewReads, Reads
<1>2. ASSUME NEW o \in e.ooo PROVE Seen(sub(o.seq, v.pbase), o.data, v)
  <2>1. o.seq \in SeqNums
    BY <1>1 DEF KeptRecords
  <2>2. sub(o.seq, v.pbase) \in Nat
    BY <1>1, <2>1, Position
  <2> HIDE DEF Views
  <2> QED BY <2>2 DEF Seen
<1> QED BY <1>1, <1>2 DEF SeenKept

\* When its segments are on the wire, an engine starts afresh from where it is.
LEMMA SettledAfresh ==
    ASSUME NEW e, NEW v \in Views, NEW w \in Views, Settled(e, v),
           w.base = v.base, w.sent = v.sent, w.ended = v.ended, w.taken = v.taken,
           w.pbase = v.pbase, w.psent = v.psent, w.pnxt = v.pnxt,
           w.snd = sub(e.snd_nxt, v.base), w.rcv = sub(e.rcv_nxt, v.pbase),
           w.acks = Nat, w.sight = Nat
    PROVE  Settled([e EXCEPT !.out = <<>>], w)
<1> DEFINE n == [e EXCEPT !.out = <<>>]
<1>1. Typed(e)
  BY DEF Settled, Connected, Shut, Talking, Sound
<1>2. Settled(n, v)
  BY SettledSilent
<1>3. n.out = <<>> /\ n.snd_nxt = e.snd_nxt /\ n.rcv_nxt = e.rcv_nxt /\ Typed(n)
  <2>1. Typed(n)
    BY <1>2 DEF Settled, Connected, Shut, Talking, Sound
  <2> QED BY <1>1, <2>1, FieldNames DEF Typed
<1> HIDE DEF n
<1>4. sub(n.snd_una, v.base) \in w.acks
  <2>1. n.snd_una \in SeqNums /\ v.base \in SeqNums
    BY <1>3, Reads, ViewReads
  <2> QED BY <2>1, Position
<1>5. SeenKept(n, w)
  BY <1>3, AllSeen
<1>6. Settled(n, w)
  BY <1>2, <1>3, <1>4, <1>5, SettledViewed
<1> QED BY <1>6 DEF n

\* What a settled engine says, and how far it is.
LEMMA SettledReads ==
    ASSUME NEW e, NEW v \in Views, Settled(e, v)
    PROVE  /\ Sound(e) /\ Typed(e) /\ Receiver(e, v) /\ Says(e, v)
           /\ sub(e.snd_una, v.base) \in Nat /\ sub(e.snd_nxt, v.base) \in Nat
           /\ sub(e.rcv_nxt, v.pbase) \in Nat
           /\ sub(e.snd_una, v.base) <= sub(e.snd_nxt, v.base)
           /\ sub(e.snd_una, v.base) <= v.taken
           /\ sub(e.snd_nxt, v.base) <= v.sent + 1
           /\ sub(e.rcv_nxt, v.pbase) <= v.pnxt
           /\ sub(e.snd_nxt, v.base) = v.sent + 1 => v.ended
<1>1. Sound(e) /\ Typed(e) /\ Receiver(e, v) /\ Says(e, v)
  BY DEF Settled, Connected, Shut, Talking, Talks, Sound
<1>2. /\ e.snd_una \in SeqNums /\ e.snd_nxt \in SeqNums /\ e.app_buf \in Seq(Bytes)
      /\ Len(e.app_buf) \in Nat /\ e.fin_sent \in BOOLEAN
  BY <1>1, Reads
<1>3. sub(e.snd_una, v.base) \in Nat /\ sub(e.snd_nxt, v.base) \in Nat
  BY <1>2, ViewReads, Position
<1>4. sub(e.rcv_nxt, v.pbase) \in Nat /\ sub(e.rcv_nxt, v.pbase) <= v.pnxt
  BY <1>1, GotWithin
<1>5. CASE Connected(e, v)
  <2>1. Sender(e, v)
    BY <1>5 DEF Connected, Talking, Talks
  <2>2. /\ sub(e.snd_una, v.base) <= sub(e.snd_nxt, v.base)
        /\ sub(e.snd_nxt, v.base) <= v.sent + 1 /\ sub(e.snd_una, v.base) <= v.taken
    BY <1>1, <2>1, SentWithin DEF Sender
  <2>3. ASSUME sub(e.snd_nxt, v.base) = v.sent + 1 PROVE v.ended
    <3>1. sub(e.snd_nxt, v.base) + Len(e.app_buf) = v.sent + Count(e.fin_sent) /\ v.sent \in Nat
      BY <2>1, ViewReads DEF Sender, Unsent
    <3>2. e.fin_sent
      BY <1>2, <2>3, <3>1 DEF Count
    <3> QED BY <2>1, <3>2 DEF Sender, FinLaid
  <2> QED BY <1>1, <1>3, <1>4, <2>2, <2>3
<1>6. CASE Shut(e, v)
  BY <1>1, <1>3, <1>4, <1>6 DEF Shut
<1> QED BY <1>5, <1>6 DEF Settled

-------------------------------------------------------------------------------
(* The pair.                                                               *)

\* One connection: nobody opens another, a byte is not the mark of the end,
\* and there are fewer bytes than half the numbers, so that positions compare.
SingleConnection ==
    /\ OPENERS = {} /\ LISTENERS = {} /\ EOF \notin Bytes
    /\ \A s \in Sides : SEND_LIMIT[s] + RCV_WND + 2 < HALF

\* The first number of the stream of s.
First(s) == add(ISS[s], 1)

\* What surrounds mine, an engine of s, when other is that of its peer.
Between(s, mine, other, n, m, over) ==
    [base |-> First(s), sent |-> n, ended |-> over,
     taken |-> sub(other.rcv_nxt, First(s)),
     pbase |-> First(Peer(s)), psent |-> m,
     pnxt |-> sub(other.snd_nxt, First(Peer(s))),
     snd |-> sub(mine.snd_nxt, First(s)), rcv |-> sub(mine.rcv_nxt, First(Peer(s))),
     acks |-> Nat, sight |-> Nat]

View(s) == Between(s, eng[s], eng[Peer(s)], sent[s], sent[Peer(s)], ended[s])

\* A segment in flight says what its sender has said of both streams.
Faithful(seg, v) == Genuine(seg, v.pbase, v.psent, v.pnxt) /\ Honest(seg, v.base, v.taken)

SideInv(s) ==
    /\ View(s) \in Views /\ Settled(eng[s], View(s))
    /\ \A seg \in BagToSet(net[s]) : Faithful(seg, View(s))
    /\ sent[s] <= SEND_LIMIT[s]

\* The inductive invariant of one connection.
Delivery == \A s \in Sides : SideInv(s)

\* Peers are each other's.
LEMMA PeerOf ==
    ASSUME NEW s \in Sides
    PROVE  Peer(s) \in Sides /\ Peer(s) # s /\ Peer(Peer(s)) = s
  BY DEF Sides, Peer

\* A stream begins at a number.
LEMMA Firsts ==
    ASSUME NEW s \in Sides
    PROVE  First(s) \in SeqNums /\ First(Peer(s)) \in SeqNums
<1>1. \A t \in Sides : ISS[t] \in SeqNums
  BY Pairs
<1>2. \A t \in Sides : add(ISS[t], 1) \in SeqNums
  BY <1>1, InSeqNums
<1> QED BY <1>2, PeerOf DEF First

\* What two engines see of each other.
LEMMA BetweenIs ==
    ASSUME NEW s, NEW e, NEW o, NEW n, NEW m, NEW over
    PROVE  LET v == Between(s, e, o, n, m, over) IN
           /\ v.base = First(s) /\ v.sent = n /\ v.ended = over
           /\ v.taken = sub(o.rcv_nxt, First(s))
           /\ v.pbase = First(Peer(s)) /\ v.psent = m
           /\ v.pnxt = sub(o.snd_nxt, First(Peer(s)))
           /\ v.snd = sub(e.snd_nxt, First(s)) /\ v.rcv = sub(e.rcv_nxt, First(Peer(s)))
           /\ v.acks = Nat /\ v.sight = Nat
  BY DEF Between

\* It is a view when neither is ahead of the other.
LEMMA BetweenViews ==
    ASSUME NEW s \in Sides, NEW e, Typed(e), NEW o, Typed(o),
           NEW n \in Nat, NEW m \in Nat, NEW over \in BOOLEAN,
           n + RCV_WND + 2 < HALF, m + RCV_WND + 2 < HALF,
           sub(o.rcv_nxt, First(s)) <= n + 1, sub(o.snd_nxt, First(Peer(s))) <= m + 1
    PROVE  Between(s, e, o, n, m, over) \in Views
<1>1. First(s) \in SeqNums /\ First(Peer(s)) \in SeqNums
  BY Firsts
<1>2. /\ e.snd_nxt \in SeqNums /\ e.rcv_nxt \in SeqNums
      /\ o.snd_nxt \in SeqNums /\ o.rcv_nxt \in SeqNums
  BY Reads
<1>3. /\ sub(o.rcv_nxt, First(s)) \in Nat /\ sub(o.snd_nxt, First(Peer(s))) \in Nat
      /\ sub(e.snd_nxt, First(s)) \in Nat /\ sub(e.rcv_nxt, First(Peer(s))) \in Nat
  BY <1>1, <1>2, Position
<1> QED BY <1>1, <1>3 DEF Between, Views

\* What was faithful stays so as the other side goes on.
LEMMA FaithfulGrows ==
    ASSUME NEW seg \in SegmentRecords, NEW v \in Views, NEW w \in Views,
           Faithful(seg, v), Grows(v, w)
    PROVE  Faithful(seg, w)
<1>1. /\ seg.seq \in SeqNums /\ seg.ack \in SeqNums /\ Len(seg.payload) \in Nat
  BY DEF SegmentRecords
<1>2. /\ v.psent \in Nat /\ v.pnxt \in Nat /\ w.psent \in Nat /\ w.pnxt \in Nat
      /\ w.pnxt <= w.psent + 1 /\ v.taken \in Nat /\ w.taken \in Nat
      /\ v.base \in SeqNums /\ v.pbase \in SeqNums
  BY ViewReads
<1>3. sub(seg.seq, v.pbase) \in Nat /\ sub(seg.ack, v.base) \in Nat
  BY <1>1, <1>2, Position
<1>4. /\ w.base = v.base /\ w.pbase = v.pbase /\ v.taken <= w.taken /\ v.pnxt <= w.pnxt
      /\ w.psent = v.psent \/ (v.pnxt <= v.psent /\ v.psent <= w.psent)
  BY DEF Grows
<1>5. Genuine(seg, v.pbase, v.psent, v.pnxt) /\ Honest(seg, v.base, v.taken)
  BY DEF Faithful
<1>6. Honest(seg, v.base, w.taken)
  BY <1>2, <1>3, <1>4, <1>5, StaysHonest
<1>7. Genuine(seg, v.pbase, w.psent, w.pnxt)
  <2>1. CASE w.psent = v.psent
    <3>1. w.pnxt <= v.psent + 1
      BY <1>2, <2>1
    <3>2. Genuine(seg, v.pbase, v.psent, w.pnxt)
      BY <1>1, <1>2, <1>3, <1>4, <1>5, <3>1, StaysGenuineHere
    <3> QED BY <2>1, <3>2
  <2>2. CASE v.pnxt <= v.psent /\ v.psent <= w.psent
    BY <1>1, <1>2, <1>3, <1>4, <1>5, <2>2, StaysGenuine
  <2> QED BY <1>4, <2>1, <2>2
<1> QED BY <1>4, <1>6, <1>7 DEF Faithful

\* The view of s as its user hands over n bytes in all, and may end the stream.
Asked(s, n, over) == Between(s, eng[s], eng[Peer(s)], n, sent[Peer(s)], over)

\* The same, if only some acknowledgments and items can be known of.
Finer(s, n, over, acks, sight) == [Asked(s, n, over) EXCEPT !.acks = acks, !.sight = sight]

\* More bytes come only before the end of the stream was transmitted.
MayAsk(s, n) ==
    /\ n \in Nat /\ n <= SEND_LIMIT[s]
    /\ n = sent[s] \/ (sub(eng[s].snd_nxt, First(s)) <= sent[s] /\ sent[s] <= n)

\* The user hands over nothing, more bytes or the end of the stream.
Hands(s, n, over) ==
    \/ n = sent[s] /\ over = ended[s]
    \/ n > sent[s] /\ ~over /\ ~ended[s]
    \/ n = sent[s] /\ over

\* One entry into the engine of s, which becomes e, takes what is not left in
\* taken from the wire, and knows of no other acknowledgments and items.
RunsTo(s, n, over, e, taken, acks, sight) ==
    /\ MayAsk(s, n) /\ over \in BOOLEAN /\ Hands(s, n, over)
    /\ Settled(e, Finer(s, n, over, acks, sight))
    /\ BagToSet(taken) \subseteq BagToSet(net[s]) /\ Becomes(s, e, taken)
    /\ sent' = [sent EXCEPT ![s] = n] /\ ended' = [ended EXCEPT ![s] = over]

Entered(s, acks, sight) ==
    \E n, over, e, taken : RunsTo(s, n, over, e, taken, acks, sight)

\* Asked, the view is still one.
LEMMA AskedViews ==
    ASSUME SingleConnection, IInv, Delivery, NEW s \in Sides,
           NEW n, MayAsk(s, n), NEW over \in BOOLEAN
    PROVE  Asked(s, n, over) \in Views
<1>1. View(s) \in Views
  BY DEF Delivery, SideInv
<1>2. Typed(eng[s]) /\ Typed(eng[Peer(s)]) /\ sent[s] \in Nat /\ sent[Peer(s)] \in Nat
  BY Pairs DEF IInv, EnginesSound, Sound, HistoryTyped
<1>3. /\ sub(eng[Peer(s)].rcv_nxt, First(s)) <= sent[s] + 1
      /\ sub(eng[Peer(s)].snd_nxt, First(Peer(s))) <= sent[Peer(s)] + 1
      /\ sent[Peer(s)] + RCV_WND + 2 < HALF
  <2> DEFINE v == View(s)
  <2>1. /\ v.sent = sent[s] /\ v.psent = sent[Peer(s)]
        /\ v.taken = sub(eng[Peer(s)].rcv_nxt, First(s))
        /\ v.pnxt = sub(eng[Peer(s)].snd_nxt, First(Peer(s)))
    BY BetweenIs DEF View
  <2> HIDE DEF v
  <2>2. v.psent + RCV_WND + 2 < HALF /\ v.taken <= v.sent + 1 /\ v.pnxt <= v.psent + 1
    BY <1>1, ViewReads DEF v
  <2> QED BY <2>1, <2>2
<1>4. n \in Nat /\ sent[s] <= n /\ n <= SEND_LIMIT[s]
  BY <1>2 DEF MayAsk
<1>5. n + RCV_WND + 2 < HALF
  <2>1. SEND_LIMIT[s] \in Nat /\ SEND_LIMIT[s] + RCV_WND + 2 < HALF
    BY PairAssumption DEF SingleConnection
  <2> QED BY <1>4, <2>1, Halves
<1>6. sub(eng[Peer(s)].rcv_nxt, First(s)) <= n + 1
  <2>1. First(s) \in SeqNums /\ eng[Peer(s)].rcv_nxt \in SeqNums
    BY <1>2, Firsts, Reads
  <2>2. sub(eng[Peer(s)].rcv_nxt, First(s)) \in Nat
    BY <2>1, Position
  <2> QED BY <1>2, <1>3, <1>4, <2>2
<1> QED BY <1>2, <1>3, <1>4, <1>5, <1>6, BetweenViews DEF Asked

\* What a view that knows of less says.
LEMMA FinerIs ==
    ASSUME NEW s, NEW n, NEW over, NEW acks, NEW sight
    PROVE  LET v == Finer(s, n, over, acks, sight) IN
           /\ v.base = First(s) /\ v.sent = n /\ v.ended = over
           /\ v.taken = sub(eng[Peer(s)].rcv_nxt, First(s))
           /\ v.pbase = First(Peer(s)) /\ v.psent = sent[Peer(s)]
           /\ v.pnxt = sub(eng[Peer(s)].snd_nxt, First(Peer(s)))
           /\ v.snd = sub(eng[s].snd_nxt, First(s)) /\ v.rcv = sub(eng[s].rcv_nxt, First(Peer(s)))
           /\ v.acks = acks /\ v.sight = sight
  BY DEF Finer, Asked, Between

\* It is a view, too.
LEMMA FinerViews ==
    ASSUME SingleConnection, IInv, Delivery, NEW s \in Sides,
           NEW n, MayAsk(s, n), NEW over \in BOOLEAN,
           NEW acks \in SUBSET Nat, NEW sight \in SUBSET Nat
    PROVE  Finer(s, n, over, acks, sight) \in Views
<1> DEFINE v == Asked(s, n, over)
<1>1. v \in Views
  BY AskedViews
<1> HIDE DEF v
<1>2. [v EXCEPT !.acks = acks, !.sight = sight] \in Views
  BY <1>1 DEF Views
<1> QED BY <1>2 DEF Finer, v

\* Nothing is ruled out in what was asked.
LEMMA FinerAll ==
    ASSUME NEW s, NEW n, NEW over
    PROVE  Finer(s, n, over, Nat, Nat) = Asked(s, n, over)
<1> DEFINE v == Asked(s, n, over)
<1>1. v = [x \in DOMAIN v |-> v[x]] /\ v.acks = Nat /\ v.sight = Nat
  BY DEF Asked, Between
<1> HIDE DEF v
<1>2. [v EXCEPT !.acks = Nat, !.sight = Nat] = v
  BY <1>1, Zenon
<1> QED BY <1>2 DEF Finer, v

\* What a bag of transmitted segments holds.
LEMMA BagOfHolds ==
    ASSUME NEW segs \in Seq(SegmentRecords), NEW seg \in BagToSet(BagOf(segs))
    PROVE  \E k \in 1 .. Len(segs) : seg = segs[k]
<1>1. seg \in Range(segs)
  BY DEF BagToSet, BagOf
<1> QED BY <1>1 DEF Range

\* An engine is replaced by one that is settled, and what that one transmitted
\* joins what is in flight: everything is as promised again.
LEMMA BecomesDelivery ==
    ASSUME SingleConnection, IInv, Delivery, IInv', NEW s \in Sides,
           NEW n, MayAsk(s, n), NEW over \in BOOLEAN, NEW e, Settled(e, Asked(s, n, over)),
           NEW taken, BagToSet(taken) \subseteq BagToSet(net[s]), Becomes(s, e, taken),
           sent' = [sent EXCEPT ![s] = n], ended' = [ended EXCEPT ![s] = over]
    PROVE  Delivery'
<1> DEFINE p == Peer(s)
           o == eng[p]
           v == Asked(s, n, over)
           c == [e EXCEPT !.out = <<>>]
           w == Between(s, c, o, n, sent[p], over)
           u == View(p)
           x == Between(p, o, c, sent[p], n, ended[p])
<1>1. /\ p \in Sides /\ p # s /\ Peer(p) = s /\ \A t \in Sides : t \in {s, p}
      /\ First(s) \in SeqNums /\ First(p) \in SeqNums
  BY Pairs, PeerOf, Firsts
<1>2. v \in Views
  BY AskedViews
<1>3. /\ u \in Views /\ Settled(o, u) /\ sent[p] <= SEND_LIMIT[p]
      /\ \A seg \in BagToSet(net[p]) : Faithful(seg, u)
      /\ \A seg \in BagToSet(net[s]) : Faithful(seg, View(s)) /\ View(s) \in Views
  BY <1>1 DEF Delivery, SideInv
<1>4. /\ Typed(o) /\ o.out = <<>> /\ sent[s] \in Nat /\ sent[p] \in Nat /\ ended[p] \in BOOLEAN
      /\ BagToSet(net[s]) \subseteq SegmentRecords /\ BagToSet(net[p]) \subseteq SegmentRecords
      /\ sent \in [Sides -> Nat] /\ ended \in [Sides -> BOOLEAN]
      /\ eng = [t \in Sides |-> eng[t]] /\ net = [t \in Sides |-> net[t]]
  BY <1>1 DEF IInv, EnginesSound, Sound, HistoryTyped, WireSound
<1>5. n \in Nat /\ n <= SEND_LIMIT[s] /\ sent[s] <= n
  BY <1>4 DEF MayAsk
<1>6. /\ eng'[s] = c /\ eng'[p] = o /\ net'[s] = taken /\ net'[p] = net[p] (+) BagOf(e.out)
      /\ sent'[s] = n /\ sent'[p] = sent[p] /\ ended'[s] = over /\ ended'[p] = ended[p]
  BY <1>1, <1>4, Zenon DEF Becomes
<1>7. View(s)' = w /\ View(p)' = x
  BY <1>1, <1>6, Zenon DEF View, Between
<1>8. /\ v.base = First(s) /\ v.sent = n /\ v.ended = over
      /\ v.taken = sub(o.rcv_nxt, First(s)) /\ v.pbase = First(p) /\ v.psent = sent[p]
      /\ v.pnxt = sub(o.snd_nxt, First(p))
      /\ v.snd = sub(eng[s].snd_nxt, First(s)) /\ v.rcv = sub(eng[s].rcv_nxt, First(p))
      /\ v.acks = Nat /\ v.sight = Nat
  BY BetweenIs DEF Asked
<1>9. Typed(e) /\ Says(e, v) /\ e.out \in Seq(SegmentRecords)
  BY <1>2, SettledReads, Reads
<1>10. /\ sub(e.snd_nxt, First(s)) \in Nat /\ sub(e.rcv_nxt, First(p)) \in Nat
       /\ sub(e.snd_nxt, First(s)) <= n + 1 /\ sub(e.rcv_nxt, First(p)) <= v.pnxt
       /\ v.snd <= sub(e.snd_nxt, First(s)) /\ v.rcv <= sub(e.rcv_nxt, First(p))
  <2>1. /\ sub(e.snd_nxt, v.base) \in Nat /\ sub(e.rcv_nxt, v.pbase) \in Nat
        /\ sub(e.snd_nxt, v.base) <= v.sent + 1 /\ sub(e.rcv_nxt, v.pbase) <= v.pnxt
    BY <1>2, SettledReads
  <2>2. v.snd <= sub(e.snd_nxt, v.base) /\ v.rcv <= sub(e.rcv_nxt, v.pbase)
    BY <1>9 DEF Says
  <2> QED BY <1>8, <2>1, <2>2
<1>11. c.snd_nxt = e.snd_nxt /\ c.rcv_nxt = e.rcv_nxt /\ Typed(c)
  <2>1. Typed(c)
    BY <1>9, Values, FieldNames, Zenon DEF Typed
  <2> QED BY <1>9, <2>1, FieldNames DEF Typed
<1>12. /\ w.base = First(s) /\ w.sent = n /\ w.ended = over
       /\ w.taken = sub(o.rcv_nxt, First(s)) /\ w.pbase = First(p) /\ w.psent = sent[p]
       /\ w.pnxt = sub(o.snd_nxt, First(p))
       /\ w.snd = sub(c.snd_nxt, First(s)) /\ w.rcv = sub(c.rcv_nxt, First(p))
       /\ w.acks = Nat /\ w.sight = Nat
  BY DEF Between
<1>13. /\ x.base = First(p) /\ x.sent = sent[p] /\ x.ended = ended[p]
       /\ x.taken = sub(c.rcv_nxt, First(p)) /\ x.pbase = First(s) /\ x.psent = n
       /\ x.pnxt = sub(c.snd_nxt, First(s))
       /\ x.snd = sub(o.snd_nxt, First(p)) /\ x.rcv = sub(o.rcv_nxt, First(s))
       /\ x.acks = Nat /\ x.sight = Nat
  BY <1>1 DEF Between
<1>14. /\ u.base = First(p) /\ u.sent = sent[p] /\ u.ended = ended[p]
       /\ u.taken = sub(eng[s].rcv_nxt, First(p)) /\ u.pbase = First(s) /\ u.psent = sent[s]
       /\ u.pnxt = sub(eng[s].snd_nxt, First(s))
       /\ u.snd = sub(o.snd_nxt, First(p)) /\ u.rcv = sub(o.rcv_nxt, First(s))
       /\ u.acks = Nat /\ u.sight = Nat
  BY <1>1, BetweenIs DEF View
<1>15. w \in Views /\ x \in Views
  <2>1. /\ n + RCV_WND + 2 < HALF /\ sent[p] + RCV_WND + 2 < HALF
        /\ sub(o.rcv_nxt, First(s)) <= n + 1 /\ sub(o.snd_nxt, First(p)) <= sent[p] + 1
        /\ v.pnxt \in Nat
    BY <1>2, <1>8, ViewReads
  <2>2. sub(c.rcv_nxt, First(p)) <= sent[p] + 1 /\ sub(c.snd_nxt, First(s)) <= n + 1
    <3>1. v.pnxt <= sent[p] + 1
      BY <1>8, <2>1
    <3> QED BY <1>4, <1>10, <1>11, <2>1, <3>1
  <2>3. w \in Views
    BY <1>4, <1>5, <1>11, <2>1, BetweenViews
  <2>4. x \in Views
    BY <1>1, <1>4, <1>5, <1>11, <2>1, <2>2, BetweenViews
  <2> QED BY <2>3, <2>4
<1> HIDE DEF v, c, w, u, x, o
<1>16. Settled(c, w)
  <2>1. /\ w.base = v.base /\ w.sent = v.sent /\ w.ended = v.ended /\ w.taken = v.taken
        /\ w.pbase = v.pbase /\ w.psent = v.psent /\ w.pnxt = v.pnxt
        /\ w.snd = sub(e.snd_nxt, v.base) /\ w.rcv = sub(e.rcv_nxt, v.pbase)
        /\ w.acks = Nat /\ w.sight = Nat
    BY <1>8, <1>11, <1>12
  <2>2. Settled(e, v)
    BY DEF v
  <2> QED BY <1>2, <1>15, <2>1, <2>2, SettledAfresh DEF c
<1>17. Grows(u, x)
  <2>1. x.psent = u.psent \/ (u.pnxt <= u.psent /\ u.psent <= x.psent)
    BY <1>13, <1>14 DEF MayAsk
  <2>2. u.taken <= x.taken /\ u.pnxt <= x.pnxt
    BY <1>8, <1>10, <1>11, <1>13, <1>14
  <2> QED BY <1>13, <1>14, <2>1, <2>2 DEF Grows
<1>18. Settled(o, x)
  BY <1>3, <1>4, <1>15, <1>17, SettledGrows
<1>19. ASSUME NEW seg \in BagToSet(taken) PROVE Faithful(seg, w)
  <2>1. Faithful(seg, View(s))
    BY <1>3
  <2>2. /\ View(s).base = w.base /\ View(s).taken = w.taken /\ View(s).pbase = w.pbase
        /\ View(s).psent = w.psent /\ View(s).pnxt = w.pnxt
    BY <1>12, BetweenIs DEF View, o
  <2> QED BY <2>1, <2>2 DEF Faithful
<1>20. ASSUME NEW seg \in BagToSet(net[p] (+) BagOf(e.out)) PROVE Faithful(seg, x)
  <2>1. seg \in BagToSet(net[p]) \/ seg \in BagToSet(BagOf(e.out))
    BY DEF BagToSet, (+)
  <2>2. CASE seg \in BagToSet(net[p])
    BY <1>3, <1>4, <1>15, <1>17, <2>2, FaithfulGrows
  <2>3. CASE seg \in BagToSet(BagOf(e.out))
    <3>1. PICK k \in 1 .. Len(e.out) : seg = e.out[k]
      BY <1>9, <2>3, BagOfHolds
    <3>2. /\ Genuine(seg, v.base, v.sent, sub(e.snd_nxt, v.base))
          /\ Honest(seg, v.pbase, sub(e.rcv_nxt, v.pbase))
      BY <1>9, <3>1 DEF Says
    <3> QED BY <1>8, <1>11, <1>13, <3>2 DEF Faithful
  <2> QED BY <2>1, <2>2, <2>3
<1>21. SideInv(s)'
  <2>1. /\ View(s)' \in Views /\ Settled(eng'[s], View(s)')
        /\ \A seg \in BagToSet(net'[s]) : Faithful(seg, View(s)')
        /\ sent'[s] <= SEND_LIMIT[s]
    BY <1>5, <1>6, <1>7, <1>15, <1>16, <1>19
  <2> QED BY <2>1, Zenon DEF SideInv, View, Between, First, Views, Settled, Faithful, Genuine, Honest
<1>22. SideInv(p)'
  <2>1. /\ View(p)' \in Views /\ Settled(eng'[p], View(p)')
        /\ \A seg \in BagToSet(net'[p]) : Faithful(seg, View(p)')
        /\ sent'[p] <= SEND_LIMIT[p]
    BY <1>3, <1>6, <1>7, <1>15, <1>18, <1>20
  <2> QED BY <2>1, Zenon DEF SideInv, View, Between, First, Views, Settled, Faithful, Genuine, Honest
<1> QED BY <1>1, <1>21, <1>22, Zenon DEF Delivery

\* What s sees now, if only some acknowledgments and items can be known of.
Now(s, acks, sight) == Finer(s, sent[s], ended[s], acks, sight)

\* It is in that view, and so is what is in flight to it.
Knows(s, acks, sight) ==
    /\ Settled(eng[s], Now(s, acks, sight))
    /\ \A seg \in BagToSet(net[s]) : Shown(seg, Now(s, acks, sight))

\* An entry by which the user hands over nothing.
LEMMA EntersQuietly ==
    ASSUME IInv, Delivery, NEW s \in Sides, NEW acks, NEW sight,
           NEW e, Settled(e, Now(s, acks, sight)),
           NEW taken, BagToSet(taken) \subseteq BagToSet(net[s]), Becomes(s, e, taken),
           UNCHANGED <<sent, ended>>
    PROVE  Entered(s, acks, sight)
<1>1. sent \in [Sides -> Nat] /\ ended \in [Sides -> BOOLEAN]
  BY DEF IInv, HistoryTyped
<1>2. sent' = [sent EXCEPT ![s] = sent[s]] /\ ended' = [ended EXCEPT ![s] = ended[s]]
  BY <1>1
<1>3. MayAsk(s, sent[s]) /\ ended[s] \in BOOLEAN /\ Hands(s, sent[s], ended[s])
  BY <1>1 DEF MayAsk, Delivery, SideInv, Hands
<1>4. RunsTo(s, sent[s], ended[s], e, taken, acks, sight)
  BY <1>2, <1>3, Zenon DEF RunsTo, Now
<1> QED BY <1>4 DEF Entered

\* Between two entries, either the connection is up or it is over.
LEMMA SideReads ==
    ASSUME IInv, Delivery, NEW s \in Sides
    PROVE  /\ View(s) \in Views /\ eng[s].out = <<>> /\ Sound(eng[s]) /\ Typed(eng[s])
           /\ (Connected(eng[s], View(s)) \/ Shut(eng[s], View(s)))
           /\ View(s).sent = sent[s] /\ View(s).base = First(s)
           /\ sent[s] \in Nat /\ SEND_LIMIT[s] \in Nat /\ sent[s] <= SEND_LIMIT[s]
           /\ ISS[s] \in SeqNums /\ BagToSet(net[s]) \subseteq SegmentRecords
<1>1. View(s) \in Views /\ (Connected(eng[s], View(s)) \/ Shut(eng[s], View(s)))
      /\ sent[s] <= SEND_LIMIT[s]
  BY DEF Delivery, SideInv, Settled
<1>2. /\ eng[s].out = <<>> /\ Sound(eng[s]) /\ Typed(eng[s])
      /\ sent[s] \in Nat /\ BagToSet(net[s]) \subseteq SegmentRecords
  BY DEF IInv, EnginesSound, HistoryTyped, WireSound, Sound
<1>3. View(s).sent = sent[s] /\ View(s).base = First(s)
  BY DEF View, Between
<1>4. SEND_LIMIT[s] \in Nat /\ ISS[s] \in SeqNums
  BY PairAssumption
<1> QED BY <1>1, <1>2, <1>3, <1>4

\* What it sees now is a view.
LEMMA NowViews ==
    ASSUME SingleConnection, IInv, Delivery, NEW s \in Sides,
           NEW acks \in SUBSET Nat, NEW sight \in SUBSET Nat
    PROVE  Now(s, acks, sight) \in Views
<1>1. MayAsk(s, sent[s]) /\ ended[s] \in BOOLEAN
  BY SideReads DEF MayAsk, IInv, HistoryTyped
<1> QED BY <1>1, FinerViews DEF Now

\* The user hands over bytes.
LEMMA UserSendEnters ==
    ASSUME SingleConnection, IInv, Delivery, NEW s \in Sides,
           NEW acks \in SUBSET Nat, NEW sight \in SUBSET Nat, Knows(s, acks, sight), UserSend(s)
    PROVE  Entered(s, acks, sight)
<1> DEFINE e == eng[s]
<1>1. PICK k \in 1 .. SEND_LIMIT[s] - sent[s] :
         /\ sent' = [sent EXCEPT ![s] = @ + k]
         /\ Enters(s, Send(e, [i \in 1 .. k |-> sent[s] + i], ISS[s]))
         /\ UNCHANGED <<ended, left>> /\ MaySendCall(e)
  BY DEF UserSend
<1> DEFINE data == [i \in 1 .. k |-> sent[s] + i]
           n == Send(e, data, ISS[s])
           more == sent[s] + k
           v == Now(s, acks, sight)
           w == Finer(s, more, ended[s], acks, sight)
<1>2. /\ sent[s] \in Nat /\ SEND_LIMIT[s] \in Nat /\ sent[s] <= SEND_LIMIT[s]
      /\ v \in Views /\ e.out = <<>> /\ Typed(e)
      /\ Connected(e, v) \/ Shut(e, v)
  BY SideReads, NowViews DEF Knows, Settled
<1>3. k \in Nat /\ k > 0 /\ more \in Nat /\ more <= SEND_LIMIT[s] /\ sent[s] <= more /\ more > sent[s]
  BY <1>2
<1>4. data \in Seq(Bytes) /\ Len(data) = k /\ \A j \in 1 .. Len(data) : data[j] = sent[s] + j
  <2>1. \A i \in 1 .. k : sent[s] + i \in Bytes
    BY <1>2, <1>3 DEF Bytes
  <2> QED BY <1>3, <2>1
<1>5. Connected(e, v)
  BY <1>1, <1>2 DEF MaySendCall, Shut
<1>6. v.sent = sent[s] /\ v.base = First(s) /\ v.ended = ended[s]
  BY FinerIs DEF Now
<1>7. sub(e.snd_nxt, First(s)) <= sent[s] /\ ended[s] = FALSE
  <2>1. e.fin_sent = FALSE /\ Sender(e, v)
    BY <1>1, <1>5 DEF MaySendCall, Connected, Talking, Talks, Stage, Up, Sound, Consistent, Finished
  <2>2. sub(e.snd_nxt, v.base) <= v.sent + Count(e.fin_sent) /\ Count(e.fin_sent) = 0
    BY <1>2, <2>1, SentWithin DEF Count
  <2>3. ~v.ended
    BY <1>1, <2>1 DEF MaySendCall, Sender, FinLaid
  <2>4. ended[s] \in BOOLEAN
    BY DEF IInv, HistoryTyped
  <2> QED BY <1>2, <1>6, <2>2, <2>3, <2>4
<1> HIDE DEF data, more
<1>8. MayAsk(s, more) /\ ended[s] \in BOOLEAN /\ Hands(s, more, ended[s])
  BY <1>3, <1>7 DEF MayAsk, Hands
<1>9. w \in Views
  BY <1>8, FinerViews
<1>10. /\ w.sent = v.sent + Len(data) /\ w.base = v.base /\ w.ended = v.ended
       /\ w.taken = v.taken /\ w.pbase = v.pbase /\ w.psent = v.psent /\ w.pnxt = v.pnxt
       /\ w.snd = v.snd /\ w.rcv = v.rcv /\ w.acks = v.acks /\ w.sight = v.sight
  BY <1>4, FinerIs DEF Now, more
<1>11. From(v.sent, data)
  BY <1>4, <1>6 DEF From
<1> HIDE DEF e, v, w
<1>12. Connected(n, w)
  BY <1>1, <1>2, <1>4, <1>5, <1>9, <1>10, <1>11, SendTalking
<1>13. Becomes(s, n, net[s])
  BY <1>1 DEF Enters, data
<1>14. sent' = [sent EXCEPT ![s] = more] /\ ended' = [ended EXCEPT ![s] = ended[s]]
  BY <1>1 DEF more, IInv, HistoryTyped
<1>15. Settled(n, Finer(s, more, ended[s], acks, sight))
  BY <1>12 DEF Settled, w
<1> HIDE DEF n
<1>16. RunsTo(s, more, ended[s], n, net[s], acks, sight)
  BY <1>8, <1>13, <1>14, <1>15 DEF RunsTo
<1> QED BY <1>16 DEF Entered

\* The user ends the stream.
LEMMA UserCloseEnters ==
    ASSUME SingleConnection, IInv, Delivery, NEW s \in Sides,
           NEW acks \in SUBSET Nat, NEW sight \in SUBSET Nat, Knows(s, acks, sight), UserClose(s)
    PROVE  Entered(s, acks, sight)
<1> DEFINE e == eng[s]
           n == Close(e)
           v == Now(s, acks, sight)
           w == Finer(s, sent[s], TRUE, acks, sight)
<1>1. /\ MayClose(e) /\ Becomes(s, n, net[s]) /\ UNCHANGED sent
      /\ ended' = [ended EXCEPT ![s] = @ \/ e.state \notin {"LISTEN", "SYN_SENT"}]
  BY DEF UserClose, Enters
<1>2. /\ v \in Views /\ e.out = <<>> /\ Typed(e) /\ sent[s] \in Nat
      /\ Connected(e, v) \/ Shut(e, v)
  BY SideReads, NowViews DEF Knows, Settled
<1>3. Connected(e, v)
  BY <1>1, <1>2 DEF MayClose, Shut
<1>4. e.state \notin {"LISTEN", "SYN_SENT"}
  BY <1>3 DEF Connected, Talking, Stage, Up, Finished
<1>5. ended' = [ended EXCEPT ![s] = TRUE] /\ sent' = [sent EXCEPT ![s] = sent[s]]
  BY <1>1, <1>4 DEF IInv, HistoryTyped
<1>6. MayAsk(s, sent[s]) /\ Hands(s, sent[s], TRUE)
  BY <1>2, SideReads DEF MayAsk, Hands
<1>7. w \in Views
  BY <1>6, FinerViews
<1>8. /\ w.sent = v.sent /\ w.base = v.base /\ w.ended = TRUE
      /\ w.taken = v.taken /\ w.pbase = v.pbase /\ w.psent = v.psent /\ w.pnxt = v.pnxt
      /\ w.snd = v.snd /\ w.rcv = v.rcv /\ w.acks = v.acks /\ w.sight = v.sight
  BY DEF Now, Finer, Asked, Between
<1> HIDE DEF e, v, w
<1>9. Connected(n, w)
  BY <1>1, <1>2, <1>3, <1>7, <1>8, CloseTalking
<1>10. Settled(n, Finer(s, sent[s], TRUE, acks, sight))
  BY <1>9 DEF Settled, w
<1> HIDE DEF n
<1>11. RunsTo(s, sent[s], TRUE, n, net[s], acks, sight)
  BY <1>1, <1>5, <1>6, <1>10 DEF RunsTo
<1> QED BY <1>11 DEF Entered

\* What a user does.
LEMMA UserEnters ==
    ASSUME SingleConnection, IInv, Delivery, NEW s \in Sides,
           NEW acks \in SUBSET Nat, NEW sight \in SUBSET Nat, Knows(s, acks, sight), User(s)
    PROVE  Entered(s, acks, sight)
<1> DEFINE e == eng[s]
           v == Now(s, acks, sight)
<1>1. /\ v \in Views /\ e.out = <<>> /\ Typed(e)
      /\ Connected(e, v) \/ Shut(e, v)
  BY SideReads, NowViews DEF Knows, Settled
<1>2. UserSend(s) \/ UserReceive(s) \/ UserClose(s) \/ UserAbort(s)
  BY DEF User, UserActiveOpen, UserPassiveOpen, SingleConnection
<1>3. CASE UserReceive(s)
  <2>1. PICK k \in 1 .. Len(e.recv_buf) : Becomes(s, Receive(e, k), net[s])
    BY <1>3 DEF UserReceive, Enters
  <2> DEFINE n == Receive(e, k)
  <2>2. MayReceive(e) /\ UNCHANGED <<sent, ended>>
    BY <1>3 DEF UserReceive
  <2>3. Connected(e, v)
    BY <1>1, <2>2 DEF MayReceive, Shut
  <2>4. Connected(n, v)
    BY <1>1, <2>3, ReceiveTalking
  <2>5. Settled(n, Now(s, acks, sight))
    BY <2>4 DEF Settled
  <2>6. Becomes(s, n, net[s])
    BY <2>1
  <2> HIDE DEF n
  <2> QED BY <2>2, <2>5, <2>6, EntersQuietly
<1>4. CASE UserAbort(s)
  <2> DEFINE n == Abort(e)
  <2>1. e.state # "CLOSED" /\ Becomes(s, n, net[s]) /\ UNCHANGED <<sent, ended>>
    BY <1>4 DEF UserAbort, Enters
  <2>2. Talks(e, v)
    BY <1>1, <2>1 DEF Shut, Connected, Talking
  <2>3. Shut(n, v)
    BY <1>1, <2>2, AbortShut
  <2>4. Settled(n, Now(s, acks, sight))
    BY <2>3 DEF Settled
  <2> HIDE DEF n
  <2> QED BY <2>1, <2>4, EntersQuietly
<1> QED BY <1>2, <1>3, <1>4, UserSendEnters, UserCloseEnters

\* A segment arrives.
LEMMA ArriveEnters ==
    ASSUME SingleConnection, IInv, Delivery, NEW s \in Sides,
           NEW acks \in SUBSET Nat, NEW sight \in SUBSET Nat, Knows(s, acks, sight), Arrive(s)
    PROVE  Entered(s, acks, sight)
<1> DEFINE e == eng[s]
           v == Now(s, acks, sight)
<1>1. /\ v \in Views /\ (Connected(e, v) \/ Shut(e, v)) /\ e.out = <<>>
      /\ BagToSet(net[s]) \subseteq SegmentRecords
  BY SideReads, NowViews DEF Knows, Settled
<1>2. PICK seg \in BagToSet(net[s]) :
         Becomes(s, OnSegment(e, seg, ISS[s]), net[s] (-) SetToBag({seg}))
  BY DEF Arrive
<1> DEFINE n == OnSegment(e, seg, ISS[s])
           taken == net[s] (-) SetToBag({seg})
<1>3. Genuine(seg, v.pbase, v.psent, v.pnxt) /\ Honest(seg, v.base, v.taken)
  <2>1. Faithful(seg, View(s))
    BY DEF Delivery, SideInv
  <2>2. /\ v.pbase = View(s).pbase /\ v.psent = View(s).psent /\ v.pnxt = View(s).pnxt
        /\ v.base = View(s).base /\ v.taken = View(s).taken
    BY FinerIs, BetweenIs DEF Now, View
  <2> QED BY <2>1, <2>2 DEF Faithful
<1>4. Shown(seg, v)
  BY DEF Knows
<1>5. BagToSet(taken) \subseteq BagToSet(net[s])
  BY DEF BagToSet, (-), SetToBag
<1>6. Connected(n, v) \/ Shut(n, v)
  <2>1. seg \in SegmentRecords
    BY <1>1
  <2> HIDE DEF v, e
  <2> QED BY <1>1, <1>3, <1>4, <2>1, OnSegmentTalking
<1>7. Settled(n, Now(s, acks, sight))
  BY <1>6 DEF Settled
<1>8. Becomes(s, n, taken) /\ UNCHANGED <<sent, ended>>
  BY <1>2 DEF Arrive
<1> HIDE DEF n, taken
<1> QED BY <1>5, <1>7, <1>8, EntersQuietly

\* What a timer does.
LEMMA TimerEnters ==
    ASSUME SingleConnection, IInv, Delivery, NEW s \in Sides,
           NEW acks \in SUBSET Nat, NEW sight \in SUBSET Nat, Knows(s, acks, sight), Timers(s)
    PROVE  Entered(s, acks, sight)
<1> DEFINE e == eng[s]
           v == Now(s, acks, sight)
<1>1. v \in Views /\ (Connected(e, v) \/ Shut(e, v))
  BY NowViews DEF Knows, Settled
<1>2. UNCHANGED <<sent, ended>>
  BY DEF Timers, RtoExpires, UserTimeout, PersistExpires, KeepaliveExpires, DelackExpires,
         TimeWaitExpires
<1>3. ASSUME NEW n, Enters(s, n), Connected(n, v) \/ Shut(n, v) PROVE Entered(s, acks, sight)
  <2>1. Settled(n, Now(s, acks, sight)) /\ Becomes(s, n, net[s])
    BY <1>3 DEF Settled, Enters
  <2> QED BY <1>2, <2>1, EntersQuietly
<1> HIDE DEF v
<1>4. CASE RtoExpires(s) \/ UserTimeout(s)
  <2>1. PICK gave_up \in BOOLEAN : Enters(s, OnRto(e, gave_up)) /\ e.rt_timer
    BY <1>4 DEF RtoExpires, UserTimeout
  <2>2. Connected(OnRto(e, gave_up), v) \/ Shut(OnRto(e, gave_up), v)
    <3>1. e.rt_timer = TRUE
      <4>1. e.rt_timer \in BOOLEAN
        BY SideReads, Reads
      <4> QED BY <2>1, <4>1
    <3> HIDE DEF e
    <3> QED BY <1>1, <3>1, OnRtoTalking, TimersShut
  <2> QED BY <1>3, <2>1, <2>2
<1>5. CASE PersistExpires(s)
  <2>1. Enters(s, OnPersist(e))
    BY <1>5 DEF PersistExpires
  <2>2. Connected(OnPersist(e), v) \/ Shut(OnPersist(e), v)
    <3>1. CASE Connected(e, v)
      BY <1>1, <3>1, OnPersistTalking
    <3>2. CASE Shut(e, v)
      BY <3>2, TimersShut
    <3> QED BY <1>1, <3>1, <3>2
  <2> QED BY <1>3, <2>1, <2>2
<1>6. CASE KeepaliveExpires(s)
  <2>1. Enters(s, OnKeepalive(e))
    BY <1>6 DEF KeepaliveExpires
  <2>2. Connected(OnKeepalive(e), v) \/ Shut(OnKeepalive(e), v)
    <3>1. CASE Connected(e, v)
      BY <1>1, <3>1, OnKeepaliveTalking
    <3>2. CASE Shut(e, v)
      BY <3>2, TimersShut
    <3> QED BY <1>1, <3>1, <3>2
  <2> QED BY <1>3, <2>1, <2>2
<1>7. CASE DelackExpires(s)
  <2>1. Enters(s, OnDelack(e)) /\ Connected(e, v)
    BY <1>1, <1>7 DEF DelackExpires, Shut
  <2>2. Connected(OnDelack(e), v)
    BY <1>1, <2>1, OnDelackTalking
  <2> QED BY <1>3, <2>1, <2>2
<1>8. CASE TimeWaitExpires(s)
  <2>1. Enters(s, OnTimeWait(e)) /\ Connected(e, v)
    BY <1>1, <1>8 DEF TimeWaitExpires, Shut
  <2>2. Shut(OnTimeWait(e), v)
    BY <1>1, <2>1, OnTimeWaitTalking
  <2> QED BY <1>3, <2>1, <2>2
<1> QED BY <1>4, <1>5, <1>6, <1>7, <1>8 DEF Timers

\* Every entry into an engine is one of these.
LEMMA StepEnters ==
    ASSUME SingleConnection, IInv, Delivery, NEW s \in Sides,
           NEW acks \in SUBSET Nat, NEW sight \in SUBSET Nat, Knows(s, acks, sight),
           User(s) \/ Arrive(s) \/ Timers(s)
    PROVE  Entered(s, acks, sight)
  BY UserEnters, ArriveEnters, TimerEnters

\* When nothing is ruled out, a side knows all there is.
LEMMA KnowsAll ==
    ASSUME IInv, Delivery, NEW s \in Sides
    PROVE  Knows(s, Nat, Nat)
<1> DEFINE v == Now(s, Nat, Nat)
<1>1. v = View(s)
  BY FinerAll, Zenon DEF Now, View, Asked
<1>2. v \in Views /\ Settled(eng[s], v) /\ BagToSet(net[s]) \subseteq SegmentRecords
  BY <1>1, SideReads DEF Delivery, SideInv
<1>3. v.acks = Nat /\ v.sight = Nat /\ v.base \in SeqNums /\ v.pbase \in SeqNums /\ v.psent \in Nat
  BY <1>2, ViewReads, FinerIs DEF Now
<1>4. ASSUME NEW seg \in BagToSet(net[s]) PROVE Shown(seg, v)
  <2>1. seg.seq \in SeqNums /\ seg.ack \in SeqNums
    BY <1>2 DEF SegmentRecords
  <2> HIDE DEF v
  <2>2. sub(seg.ack, v.base) \in Nat /\ sub(seg.seq, v.pbase) \in Nat
    BY <1>3, <2>1, Position
  <2> QED BY <1>3, <2>2 DEF Shown, Timely, Seen
<1> QED BY <1>2, <1>4 DEF Knows

\* What the wire loses or repeats.
LEMMA WireDelivery ==
    ASSUME IInv, Delivery, NEW s \in Sides, Lose(s) \/ Duplicate(s)
    PROVE  Delivery'
<1>1. ASSUME NEW bag, BagToSet(bag) \subseteq BagToSet(net[s]),
             net' = [net EXCEPT ![s] = bag], UNCHANGED <<eng, sent, ended>>
      PROVE  Delivery'
  <2> SUFFICES ASSUME NEW t \in Sides PROVE SideInv(t)'
    BY Zenon DEF Delivery
  <2>1. BagToSet(net'[t]) \subseteq BagToSet(net[t])
    BY <1>1 DEF IInv, WireSound
  <2>2. View(t)' = View(t)
    BY <1>1 DEF View, Between, First
  <2>3. SideInv(t)
    BY DEF Delivery
  <2>4. /\ View(t)' \in Views /\ Settled(eng'[t], View(t)')
        /\ \A seg \in BagToSet(net'[t]) : Faithful(seg, View(t)')
        /\ sent'[t] <= SEND_LIMIT[t]
    BY <1>1, <2>1, <2>2, <2>3 DEF SideInv
  <2> QED BY <2>4, Zenon DEF SideInv, View, Between, First, Views, Settled, Faithful, Genuine, Honest
<1>2. CASE Lose(s)
  <2>1. PICK seg \in BagToSet(net[s]) : net' = [net EXCEPT ![s] = net[s] (-) SetToBag({seg})]
    BY <1>2 DEF Lose
  <2>2. BagToSet(net[s] (-) SetToBag({seg})) \subseteq BagToSet(net[s])
    BY DEF BagToSet, (-), SetToBag
  <2> QED BY <1>1, <1>2, <2>1, <2>2 DEF Lose
<1>3. CASE Duplicate(s)
  <2>1. PICK seg \in BagToSet(net[s]) : net' = [net EXCEPT ![s] = net[s] (+) SetToBag({seg})]
    BY <1>3 DEF Duplicate
  <2>2. BagToSet(net[s] (+) SetToBag({seg})) \subseteq BagToSet(net[s])
    BY <2>1 DEF BagToSet, (+), SetToBag
  <2> QED BY <1>1, <1>3, <2>1, <2>2 DEF Duplicate
<1> QED BY <1>2, <1>3

\* So does an entry.
LEMMA EntryDelivery ==
    ASSUME SingleConnection, IInv, Delivery, IInv', NEW s \in Sides,
           User(s) \/ Arrive(s) \/ Timers(s)
    PROVE  Delivery'
<1>1. Knows(s, Nat, Nat)
  BY KnowsAll
<1>2. Entered(s, Nat, Nat)
  BY <1>1, StepEnters
<1>3. PICK n, over, e, taken : RunsTo(s, n, over, e, taken, Nat, Nat)
  BY <1>2 DEF Entered
<1>4. Finer(s, n, over, Nat, Nat) = Asked(s, n, over)
  BY FinerAll
<1>5. /\ MayAsk(s, n) /\ over \in BOOLEAN /\ Settled(e, Asked(s, n, over))
      /\ BagToSet(taken) \subseteq BagToSet(net[s]) /\ Becomes(s, e, taken)
      /\ sent' = [sent EXCEPT ![s] = n] /\ ended' = [ended EXCEPT ![s] = over]
  BY <1>3, <1>4 DEF RunsTo
<1> QED BY <1>5, BecomesDelivery

\* Every step keeps what is promised.
LEMMA StepDelivers ==
    ASSUME SingleConnection, IInv, Delivery, [Next]_vars
    PROVE  Delivery'
<1>1. IInv'
  BY StepKeeps
<1>2. CASE Next
  BY <1>1, <1>2, EntryDelivery, WireDelivery DEF Next, Wire
<1>3. CASE UNCHANGED vars
  BY <1>3 DEF vars, Delivery, SideInv, View, Between, First
<1> QED BY <1>2, <1>3

\* An engine that was dropped into a connection has said and heard nothing.
LEMMA SeededSettled ==
    ASSUME SingleConnection, NEW s \in Sides, NEW base \in SeqNums, NEW pbase \in SeqNums,
           NEW v \in Views, v.base = base, v.sent = 0, v.ended = FALSE, v.taken = 0,
           v.pbase = pbase, v.psent = 0, v.pnxt = 0, v.snd = 0, v.rcv = 0, v.acks = Nat
    PROVE  Settled(SeedEstablished(NewEngine(TRUE), base, pbase), v)
<1> DEFINE n == SeedEstablished(NewEngine(TRUE), base, pbase)
<1>1. /\ n.state = "ESTABLISHED" /\ n.snd_una = base /\ n.snd_nxt = base /\ n.rcv_nxt = pbase
      /\ n.retx = <<>> /\ n.app_buf = <<>> /\ n.ooo = {} /\ n.stream = <<>> /\ n.out = <<>>
      /\ n.fin_pending = FALSE /\ n.fin_sent = FALSE /\ n.fin_acked = FALSE
      /\ n.rtt_pending = None /\ n.pending_fin = None /\ n.adv_right = None
      /\ n.rt_timer = FALSE
  BY DEF SeedEstablished, NewEngine
<1>2. Sound(n)
  <2>1. Sound(NewEngine(TRUE)) /\ NewEngine(TRUE).state = "CLOSED" /\ NewEngine(TRUE).out = <<>>
    BY NewEngineSound
  <2> QED BY <2>1, SeededSound
<1> HIDE DEF n
<1>3. sub(base, base) = 0 /\ sub(pbase, pbase) = 0
  BY Position
<1>4. Sender(n, v)
  <2>1. Laid(n.retx, n.snd_una, n.snd_nxt, v.base)
    BY <1>1 DEF Laid
  <2>2. Unsent(n, v)
    BY <1>1, <1>3 DEF Unsent, Count, From
  <2>3. Timing(n) /\ FinLaid(n, v)
    BY <1>1 DEF Timing, FinLaid
  <2> QED BY <1>1, <1>3, <2>1, <2>2, <2>3 DEF Sender
<1>5. Receiver(n, v)
  BY <1>1, <1>3 DEF Receiver, KeptGenuine, Relayed, FinNoted, EdgeHeld
<1>6. Says(n, v)
  BY <1>1, <1>3 DEF Says
<1>7. Timed(n) /\ Noticed(n) /\ Waits(n)
  BY <1>1 DEF Timed, Noticed, Waits
<1>8. Stage(n, v)
  BY <1>1, <1>3 DEF Stage, Up, Told, ToldStates
<1> QED BY <1>2, <1>4, <1>5, <1>6, <1>7, <1>8 DEF Settled, Connected, Talking, Talks, n

\* So is everything as promised at the start.
LEMMA StartDelivers ==
    ASSUME SingleConnection, SeededInit, IInv
    PROVE  Delivery
<1> SUFFICES ASSUME NEW s \in Sides PROVE SideInv(s)
  BY DEF Delivery
<1> DEFINE p == Peer(s)
           v == View(s)
<1>1. p \in Sides /\ Peer(p) = s /\ First(s) \in SeqNums /\ First(p) \in SeqNums
  BY PeerOf, Firsts
<1>2. /\ eng[s] = SeedEstablished(NewEngine(TRUE), First(s), First(p))
      /\ eng[p] = SeedEstablished(NewEngine(TRUE), First(p), First(s))
      /\ sent[s] = 0 /\ sent[p] = 0 /\ ended[s] = FALSE /\ net[s] = EmptyBag
  BY <1>1 DEF SeededInit, First
<1>3. /\ eng[s].snd_nxt = First(s) /\ eng[s].rcv_nxt = First(p)
      /\ eng[p].snd_nxt = First(p) /\ eng[p].rcv_nxt = First(s)
  BY <1>2 DEF SeedEstablished, NewEngine
<1>4. sub(First(s), First(s)) = 0 /\ sub(First(p), First(p)) = 0
  BY <1>1, Position
<1>5. Typed(eng[s]) /\ Typed(eng[p])
  BY <1>1 DEF IInv, EnginesSound, Sound
<1>6. /\ v.base = First(s) /\ v.sent = 0 /\ v.ended = FALSE /\ v.taken = 0
      /\ v.pbase = First(p) /\ v.psent = 0 /\ v.pnxt = 0 /\ v.snd = 0 /\ v.rcv = 0
      /\ v.acks = Nat
  BY <1>2, <1>3, <1>4 DEF View, Between
<1>7. SEND_LIMIT[s] \in Nat /\ SEND_LIMIT[s] + RCV_WND + 2 < HALF
  BY PairAssumption DEF SingleConnection
<1>8. v \in Views
  <2>1. 0 + RCV_WND + 2 < HALF
    BY <1>7, Halves
  <2>2. 0 \in Nat /\ FALSE \in BOOLEAN /\ 0 <= 0 + 1
    OBVIOUS
  <2>3. Between(s, eng[s], eng[p], 0, 0, FALSE) \in Views
    BY <1>3, <1>4, <1>5, <2>1, <2>2, BetweenViews
  <2> QED BY <1>2, <2>3 DEF View
<1>9. BagToSet(net[s]) = {}
  BY <1>2 DEF BagToSet, EmptyBag, SetToBag
<1> HIDE DEF v
<1>10. Settled(eng[s], v)
  BY <1>1, <1>2, <1>6, <1>8, SeededSettled
<1>11. \A seg \in BagToSet(net[s]) : Faithful(seg, View(s))
  BY <1>9
<1>12. sent[s] <= SEND_LIMIT[s]
  BY <1>2, <1>7
<1>13. View(s) \in Views /\ Settled(eng[s], View(s))
  BY <1>8, <1>10 DEF v
<1> QED BY <1>11, <1>12, <1>13 DEF SideInv

\* What is promised holds throughout.
THEOREM Delivers == SingleConnection => (SeededSpec => []Delivery)
<1> SUFFICES ASSUME SingleConnection PROVE SeededSpec => []Delivery
  OBVIOUS
<1>1. SeededInit => Delivery
  BY StartsSound, StartDelivers
<1>2. IInv /\ Delivery /\ [Next]_vars => Delivery'
  BY StepDelivers
<1> QED BY <1>1, <1>2, Invariant, PTL DEF SeededSpec

-------------------------------------------------------------------------------
(* What follows for a connection that was opened once.                     *)

\* A queue that is laid out covers what is outstanding.
LEMMA LaidCovers ==
    ASSUME NEW e, NEW v \in Views, Typed(e), Sender(e, v)
    PROVE  /\ e.retx = <<>> => e.snd_una = e.snd_nxt
           /\ e.retx # <<>> => e.retx[1].seq = e.snd_una /\ End(Last(e.retx)) = e.snd_nxt
           /\ \A i \in 1 .. Len(e.retx) - 1 : End(e.retx[i]) = e.retx[i + 1].seq
<1> DEFINE retx == e.retx
           nxt == e.snd_nxt
<1>1. retx \in Seq(QueueEntries) /\ Len(retx) \in Nat /\ nxt \in SeqNums /\ v.base \in SeqNums
  BY Reads, ViewReads
<1>2. Laid(retx, e.snd_una, nxt, v.base)
  BY DEF Sender
<1>3. sub(nxt, v.base) \in Nat /\ sub(nxt, v.base) < HALF
  BY SentWithin
<1> HIDE DEF retx, nxt
<1>4. ASSUME NEW i \in 1 .. Len(retx) PROVE End(retx[i]) = NextSeq(retx, nxt, i)
  <2> DEFINE o == retx[i]
             x == NextSeq(retx, nxt, i)
             k == SegLen(o)
  <2>1. o \in QueueEntries
    BY <1>1
  <2>2. o.seq \in SeqNums /\ k \in 1 .. TextMax
    BY <2>1, EntryTakes
  <2>3. x \in SeqNums
    <3>1. CASE i = Len(retx)
      BY <1>1, <3>1 DEF NextSeq
    <3>2. CASE i # Len(retx)
      <4>1. retx[i + 1] \in QueueEntries
        BY <1>1, <3>2
      <4> QED BY <3>2, <4>1, EntryTakes DEF NextSeq
    <3> QED BY <3>1, <3>2
  <2>4. EntryLaid(retx, nxt, v.base, i)
    BY <1>2 DEF Laid
  <2>5. /\ sub(o.seq, v.base) + k = sub(x, v.base)
        /\ sub(o.seq, v.base) + k <= sub(nxt, v.base)
    BY <2>4, Zenon DEF EntryLaid
  <2> HIDE DEF o, x, k
  <2>6. /\ sub(o.seq, v.base) \in Nat /\ sub(x, v.base) \in Nat /\ k \in Nat
        /\ HALF \in Nat /\ HALF < MOD /\ MOD \in Nat
    <3>1. sub(o.seq, v.base) \in Nat /\ sub(x, v.base) \in Nat
      BY <1>1, <2>2, <2>3, Position
    <3>2. k \in Nat /\ HALF \in Nat /\ HALF < MOD /\ MOD \in Nat
      BY <2>2, Halves
    <3> QED BY <3>1, <3>2
  <2>7. sub(x, v.base) < HALF /\ sub(o.seq, v.base) + k < MOD
    BY <1>3, <2>5, <2>6
  <2>8. add(o.seq, k) \in SeqNums /\ sub(add(o.seq, k), v.base) = sub(o.seq, v.base) + k
    BY <1>1, <2>2, <2>6, <2>7, Onward
  <2>9. sub(add(o.seq, k), v.base) < HALF /\ sub(add(o.seq, k), v.base) = sub(x, v.base)
    BY <2>5, <2>7, <2>8
  <2>10. add(o.seq, k) = x
    BY <1>1, <2>3, <2>7, <2>8, <2>9, Placed
  <2> QED BY <2>10 DEF End, o, x, k
<1>5. retx = <<>> => e.snd_una = nxt
  BY <1>2 DEF Laid
<1>6. ASSUME retx # <<>> PROVE retx[1].seq = e.snd_una /\ End(Last(retx)) = nxt
  <2>1. Len(retx) \in 1 .. Len(retx) /\ Last(retx) = retx[Len(retx)]
    BY <1>1, <1>6 DEF Last
  <2>2. End(Last(retx)) = NextSeq(retx, nxt, Len(retx))
    BY <1>4, <2>1
  <2> QED BY <1>2, <1>6, <2>2 DEF Laid, NextSeq
<1>7. ASSUME NEW i \in 1 .. Len(retx) - 1 PROVE End(retx[i]) = retx[i + 1].seq
  <2>1. i \in 1 .. Len(retx) /\ i # Len(retx)
    BY <1>1
  <2> QED BY <1>4, <2>1 DEF NextSeq
<1> QED BY <1>5, <1>6, <1>7 DEF retx, nxt

\* A connection between two entries, or one that is over, state by state.
LEMMA SideCases ==
    ASSUME IInv, Delivery, NEW s \in Sides
    PROVE  \/ /\ Sender(eng[s], View(s)) /\ Receiver(eng[s], View(s)) /\ Timed(eng[s])
              /\ Stage(eng[s], View(s)) /\ Noticed(eng[s]) /\ Waits(eng[s])
           \/ Shut(eng[s], View(s))
  BY SideReads DEF Connected, Talking, Talks

\* The retransmission queue covers exactly what is outstanding, for every
\* sequence of acknowledgments, windows and losses (_queue_and_send,
\* _process_ack).
THEOREM QueueCovers == SingleConnection => (SeededSpec => []RetxCoversOutstanding)
<1> SUFFICES ASSUME SingleConnection PROVE SeededSpec => []RetxCoversOutstanding
  OBVIOUS
<1>1. IInv /\ Delivery => RetxCoversOutstanding
  <2> SUFFICES ASSUME IInv, Delivery, NEW s \in Sides, Live(eng[s])
               PROVE  LET e == eng[s] IN
                      /\ e.retx = <<>> => e.snd_una = e.snd_nxt
                      /\ e.retx # <<>> => e.retx[1].seq = e.snd_una /\ End(Last(e.retx)) = e.snd_nxt
                      /\ \A i \in 1 .. Len(e.retx) - 1 : End(e.retx[i]) = e.retx[i + 1].seq
    BY DEF RetxCoversOutstanding
  <2>1. Sender(eng[s], View(s))
    BY SideCases DEF Shut, Live
  <2>2. Typed(eng[s]) /\ View(s) \in Views
    BY SideReads
  <2> QED BY <2>1, <2>2, LaidCovers
<1> QED BY <1>1, Delivers, Invariant, PTL

\* Whatever waits for an answer, or for room to be sent, has a timer
\* (_arm_rt, _arm_persist, _send_pending).
THEOREM WorkTimed == SingleConnection => (SeededSpec => []WorkIsTimed)
<1> SUFFICES ASSUME SingleConnection PROVE SeededSpec => []WorkIsTimed
  OBVIOUS
<1>1. IInv /\ Delivery => WorkIsTimed
  <2> SUFFICES ASSUME IInv, Delivery, NEW s \in Sides
               PROVE  LET e == eng[s] IN
                      /\ Live(e) /\ e.retx # <<>> => e.rt_timer
                      /\ MaySend(e) /\ (e.app_buf # <<>> \/ (e.fin_pending /\ ~e.fin_sent))
                           => e.rt_timer \/ e.persist_timer
    BY DEF WorkIsTimed
  <2> QED BY SideCases DEF Shut, MaySend, Timed, Waits
<1> QED BY <1>1, Delivers, Invariant, PTL

\* Karn's algorithm: only a segment that was sent once is timed (_on_rto,
\* _process_ack).
THEOREM KarnKept == SingleConnection => (SeededSpec => []KarnTiming)
<1> SUFFICES ASSUME SingleConnection PROVE SeededSpec => []KarnTiming
  OBVIOUS
<1>1. IInv /\ Delivery => KarnTiming
  <2> SUFFICES ASSUME IInv, Delivery, NEW s \in Sides, eng[s].rtt_pending # None
               PROVE  \E i \in 1 .. Len(eng[s].retx) :
                         /\ End(eng[s].retx[i]) = eng[s].rtt_pending
                         /\ ~eng[s].retx[i].retransmitted
    BY DEF KarnTiming
  <2>1. Timing(eng[s])
    BY SideCases DEF Shut, Sender
  <2> QED BY <2>1 DEF Timing
<1> QED BY <1>1, Delivers, Invariant, PTL

\* The window an engine would advertise reaches every edge it advertised.
LEMMA WindowReaches ==
    ASSUME NEW e, NEW v \in Views, Typed(e), Receiver(e, v), e.adv_right # None
    PROVE  seq_geq(add(e.rcv_nxt, RcvWnd(e)), e.adv_right)
<1> DEFINE r == sub(e.rcv_nxt, v.pbase)
           a == sub(e.adv_right, v.pbase)
           raw == FreeSpace(e)
           wnd == RcvWnd(e)
           d == sub(e.adv_right, e.rcv_nxt)
<1>1. e.rcv_nxt \in SeqNums /\ e.adv_right \in SeqNums /\ v.pbase \in SeqNums
  BY Reads, ViewReads DEF Noted
<1>2. raw \in 0 .. RCV_WND /\ wnd \in 0 .. raw
  BY WindowFits
<1>3. r \in Nat /\ r + RCV_WND < HALF
  BY GotWithin
<1>4. a \in Nat
  BY <1>1, Position
<1>5. a <= r + raw
  BY DEF Receiver, EdgeHeld
<1>6. /\ a >= r => d = a - r
      /\ a < r => d = a - r + MOD
  <2>1. a < HALF /\ r < HALF
    BY <1>2, <1>3, <1>4, <1>5, Halves
  <2> QED BY <1>1, <2>1, Placed
<1>7. d \in SeqNums
  BY <1>1, InSeqNums
<1>8. s32(d) = IF d < HALF THEN d ELSE d - MOD
  BY <1>7, Signed
<1>9. wnd \in {raw, IF s32(d) < 0 THEN 0 ELSE s32(d)}
  BY DEF RcvWnd
<1>10. HALF \in Nat /\ MOD = 2 * HALF /\ RCV_WND \in Nat
  BY Halves
<1> HIDE DEF r, a, raw, wnd, d
<1>11. a <= r + wnd /\ r + wnd < HALF /\ wnd \in Nat
  <2>1. wnd \in Nat /\ r + wnd < HALF
    BY <1>2, <1>3, <1>10
  <2>2. CASE wnd = raw
    BY <1>5, <2>1, <2>2
  <2>3. CASE wnd # raw /\ a >= r
    <3>1. a - r < HALF
      BY <1>2, <1>3, <1>4, <1>5, <1>10, <2>3
    <3>2. s32(d) = a - r
      BY <1>6, <1>8, <2>3, <3>1
    <3>3. wnd = a - r
      BY <1>3, <1>4, <1>9, <2>3, <3>2
    <3> QED BY <1>3, <1>4, <2>1, <3>3
  <2>4. CASE wnd # raw /\ a < r
    BY <1>3, <1>4, <2>1, <2>4
  <2> QED BY <1>3, <1>4, <2>2, <2>3, <2>4
<1>12. r + wnd < MOD
  BY <1>3, <1>10, <1>11
<1>13. add(e.rcv_nxt, wnd) \in SeqNums /\ sub(add(e.rcv_nxt, wnd), v.pbase) = r + wnd
  BY <1>1, <1>11, <1>12, Onward DEF r
<1>14. sub(add(e.rcv_nxt, wnd), v.pbase) < HALF /\ a < HALF
  BY <1>3, <1>4, <1>10, <1>11, <1>13
<1>15. sub(add(e.rcv_nxt, wnd), v.pbase) >= a
  BY <1>11, <1>13
<1> QED BY <1>1, <1>13, <1>14, <1>15, Placed DEF a, wnd

\* An advertised edge is never withdrawn, whatever the user reads and however
\* data arrives (_rcv_wnd: "never move it left").
THEOREM EdgeKept == SingleConnection => (SeededSpec => []RightEdgeHolds)
<1> SUFFICES ASSUME SingleConnection PROVE SeededSpec => []RightEdgeHolds
  OBVIOUS
<1>1. IInv /\ Delivery => RightEdgeHolds
  <2> SUFFICES ASSUME IInv, Delivery, NEW s \in Sides, eng[s].adv_right # None
               PROVE  seq_geq(add(eng[s].rcv_nxt, RcvWnd(eng[s])), eng[s].adv_right)
    BY DEF RightEdgeHolds
  <2>1. Typed(eng[s]) /\ View(s) \in Views /\ Receiver(eng[s], View(s))
    BY SideReads, SideCases DEF Shut
  <2> QED BY <2>1, WindowReaches
<1> QED BY <1>1, Delivers, Invariant, PTL

\* What is kept for reassembly fits behind what waits to be read.
LEMMA KeptFits ==
    ASSUME NEW e, NEW v \in Views, Sound(e), Receiver(e, v), NEW o \in e.ooo,
           e.state \in Hearing \/ Told(e, v)
    PROVE  seq_leq(add(o.seq, Len(o.data)), add(e.rcv_nxt, RCV_WND - Len(e.recv_buf)))
<1> DEFINE r == sub(e.rcv_nxt, v.pbase)
           q == sub(o.seq, v.pbase)
           k == Len(o.data)
           room == RCV_WND - Len(e.recv_buf)
           d == sub(o.seq, e.rcv_nxt)
<1>1. /\ Typed(e) /\ e.rcv_nxt \in SeqNums /\ e.ooo \subseteq KeptRecords
      /\ Len(e.recv_buf) \in Nat /\ Len(e.recv_buf) <= RCV_WND /\ v.pbase \in SeqNums
  <2>1. Typed(e) /\ Len(e.recv_buf) <= RCV_WND
    BY DEF Sound, Consistent
  <2> QED BY <2>1, Reads, ViewReads
<1>2. o.seq \in SeqNums /\ k \in Nat
  BY <1>1 DEF KeptRecords
<1>3. q \in Nat /\ r \in Nat /\ r + RCV_WND < HALF
  BY <1>1, <1>2, Position, GotWithin
<1>4. q + k <= v.psent
  BY DEF Receiver, KeptGenuine
<1>5. v.psent \in Nat /\ v.psent + RCV_WND + 2 < HALF
  BY ViewReads
<1>6. HALF \in Nat /\ MOD = 2 * HALF /\ RCV_WND \in Nat /\ RCV_WND < HALF
  BY Halves
<1>7. room \in Nat /\ room <= RCV_WND
  BY <1>1, <1>6
<1> HIDE DEF r, q, k, room, d
<1>8. q < HALF /\ r < HALF /\ q + k < HALF /\ r + room < HALF /\ q + k < MOD /\ r + room < MOD
  BY <1>2, <1>3, <1>4, <1>5, <1>6, <1>7
<1>9. q + k <= r + room
  <2>1. CASE e.state \in Hearing
    <3>1. d >= 1 /\ d + k <= room
      BY <2>1 DEF Sound, Consistent, Ahead, d, k, room
    <3>2. /\ q >= r => d = q - r
          /\ q < r => d = q - r + MOD
      BY <1>1, <1>2, <1>8, Placed DEF q, r, d
    <3> QED BY <1>2, <1>3, <1>6, <1>7, <1>8, <3>1, <3>2
  <2>2. CASE Told(e, v)
    <3>1. r = v.psent + 1
      BY <2>2 DEF Told, r
    <3> QED BY <1>2, <1>3, <1>4, <1>5, <1>7, <3>1
  <2> QED BY <2>1, <2>2
<1>10. add(o.seq, k) \in SeqNums /\ sub(add(o.seq, k), v.pbase) = q + k
  BY <1>1, <1>2, <1>8, Onward DEF q
<1>11. add(e.rcv_nxt, room) \in SeqNums /\ sub(add(e.rcv_nxt, room), v.pbase) = r + room
  BY <1>1, <1>7, <1>8, Onward DEF r
<1>12. /\ sub(add(o.seq, k), v.pbase) < HALF /\ sub(add(e.rcv_nxt, room), v.pbase) < HALF
       /\ sub(add(o.seq, k), v.pbase) <= sub(add(e.rcv_nxt, room), v.pbase)
  BY <1>8, <1>9, <1>10, <1>11
<1>13. seq_leq(add(o.seq, k), add(e.rcv_nxt, room))
  BY <1>1, <1>10, <1>11, <1>12, Placed
<1> QED BY <1>13 DEF k, room

\* Received bytes never exceed the buffer, in any state of the connection
\* (_recv_data, acceptable).
THEOREM BufferKept == SingleConnection => (SeededSpec => []ReceiveBufferBounded)
<1> SUFFICES ASSUME SingleConnection PROVE SeededSpec => []ReceiveBufferBounded
  OBVIOUS
<1>1. IInv /\ Delivery => ReceiveBufferBounded
  <2> SUFFICES ASSUME IInv, Delivery, NEW s \in Sides
               PROVE  LET e == eng[s] IN
                      /\ Len(e.recv_buf) <= RCV_WND
                      /\ \A o \in e.ooo : seq_leq(add(o.seq, Len(o.data)),
                                                  add(e.rcv_nxt, RCV_WND - Len(e.recv_buf)))
    BY DEF ReceiveBufferBounded
  <2>1. /\ Sound(eng[s]) /\ View(s) \in Views /\ Receiver(eng[s], View(s))
        /\ Len(eng[s].recv_buf) <= RCV_WND
    BY SideReads, SideCases DEF Shut, Sound, Consistent
  <2>2. ASSUME NEW o \in eng[s].ooo PROVE eng[s].state \in Hearing \/ Told(eng[s], View(s))
    <3>1. eng[s].state # "CLOSED"
      BY <2>1 DEF Sound, Consistent, Unopened
    <3>2. Stage(eng[s], View(s))
      BY <3>1, SideCases DEF Shut
    <3> QED BY <3>2 DEF Stage, Up, Finished, Hearing, ToldStates
  <2> QED BY <2>1, <2>2, KeptFits
<1> QED BY <1>1, Delivers, Invariant, PTL

\* A stream of n bytes, which has ended or not.
StreamOf(n, over) == [i \in 1 .. n |-> i] \o (IF over THEN <<EOF>> ELSE <<>>)

\* It has the items it should have.
LEMMA StreamIs ==
    ASSUME NEW n \in Nat, NEW over \in BOOLEAN
    PROVE  /\ StreamOf(n, over) \in Seq(Bytes \cup {EOF})
           /\ Len(StreamOf(n, over)) = n + Count(over)
           /\ \A i \in 1 .. Len(StreamOf(n, over)) : StreamOf(n, over)[i] = Item(n, i)
<1> DEFINE body == [i \in 1 .. n |-> i]
           tail == IF over THEN <<EOF>> ELSE <<>>
<1>2. body \in Seq(Bytes \cup {EOF}) /\ Len(body) = n /\ \A i \in 1 .. n : body[i] = i
  <2>1. \A i \in 1 .. n : i \in Bytes \cup {EOF}
    BY DEF Bytes
  <2> QED BY <2>1
<1>3. tail \in Seq(Bytes \cup {EOF}) /\ Len(tail) = Count(over) /\ (tail # <<>> => tail[1] = EOF)
  <2>1. CASE over
    <3>1. tail = <<EOF>> /\ Count(over) = 1
      BY <2>1 DEF Count
    <3> HIDE DEF tail
    <3> QED BY <3>1
  <2>2. CASE ~over
    <3>1. tail = <<>> /\ Count(over) = 0
      BY <2>2 DEF Count
    <3> HIDE DEF tail
    <3> QED BY <3>1
  <2> QED BY <2>1, <2>2
<1>4. StreamOf(n, over) = body \o tail
  BY DEF StreamOf
<1>5. Count(over) \in 0 .. 1
  BY DEF Count
<1> HIDE DEF body, tail
<1>6. /\ body \o tail \in Seq(Bytes \cup {EOF}) /\ Len(body \o tail) = Len(body) + Len(tail)
      /\ \A i \in 1 .. Len(body \o tail) :
            (body \o tail)[i] = IF i <= Len(body) THEN body[i] ELSE tail[i - Len(body)]
  BY <1>2, <1>3
<1>7. ASSUME NEW i \in 1 .. Len(body \o tail) PROVE (body \o tail)[i] = Item(n, i)
  <2>1. CASE i <= n
    BY <1>2, <1>6, <2>1 DEF Item
  <2>2. CASE ~(i <= n)
    <3>1. i - n = 1 /\ Len(tail) = 1
      BY <1>2, <1>3, <1>5, <1>6, <2>2
    <3>2. tail[1] = EOF
      BY <1>3, <3>1
    <3>3. (body \o tail)[i] = tail[i - n]
      BY <1>2, <1>6, <2>2
    <3> QED BY <2>2, <3>1, <3>2, <3>3 DEF Item
  <2> QED BY <2>1, <2>2
<1> QED BY <1>2, <1>3, <1>4, <1>6, <1>7

\* What the user of s has put into the stream, item by item.
LEMMA AcceptedIs ==
    ASSUME IInv, NEW s \in Sides
    PROVE  /\ Accepted(s) \in Seq(Bytes \cup {EOF})
           /\ Len(Accepted(s)) = sent[s] + Count(ended[s])
           /\ \A i \in 1 .. Len(Accepted(s)) : Accepted(s)[i] = Item(sent[s], i)
<1>1. sent[s] \in Nat /\ ended[s] \in BOOLEAN
  BY DEF IInv, HistoryTyped
<1>2. Accepted(s) = StreamOf(sent[s], ended[s])
  BY Zenon DEF Accepted, StreamOf
<1> DEFINE n == sent[s]
           over == ended[s]
<1> HIDE DEF n, over
<1>3. /\ StreamOf(n, over) \in Seq(Bytes \cup {EOF})
      /\ Len(StreamOf(n, over)) = n + Count(over)
      /\ \A i \in 1 .. Len(StreamOf(n, over)) : StreamOf(n, over)[i] = Item(n, i)
  BY <1>1, StreamIs DEF n, over
<1>4. Accepted(s) = StreamOf(n, over)
  BY <1>2 DEF n, over
<1> QED BY <1>3, <1>4, Zenon DEF n, over

\* What the sink of the peer of s was told, item by item.
LEMMA ToldIs ==
    ASSUME IInv, Delivery, NEW s \in Sides
    PROVE  LET r == eng[Peer(s)].stream IN
           /\ r \in Seq(Bytes \cup {EOF}) /\ Len(r) \in Nat
           /\ Len(r) = sub(eng[Peer(s)].rcv_nxt, First(s))
           /\ Len(r) <= sub(eng[s].snd_nxt, First(s))
           /\ Len(r) <= Len(Accepted(s))
           /\ \A i \in 1 .. Len(r) : r[i] = Item(sent[s], i)
<1> DEFINE p == Peer(s)
           e == eng[p]
           v == View(p)
           r == e.stream
           nxt == sub(eng[s].snd_nxt, First(s))
<1>1. p \in Sides /\ Peer(p) = s
  BY PeerOf
<1>2. Typed(e) /\ v \in Views /\ Receiver(e, v)
  BY <1>1, SideReads, SideCases DEF Shut
<1>3. r \in Seq(Bytes \cup {EOF}) /\ Len(r) \in Nat
  BY <1>2, Reads
<1>4. v.psent = sent[s] /\ v.pbase = First(s) /\ v.pnxt = nxt
  BY <1>1 DEF View, Between
<1>5. /\ Len(r) = sub(e.rcv_nxt, v.pbase) /\ Len(r) <= v.pnxt
      /\ \A i \in 1 .. Len(r) : r[i] = Item(v.psent, i)
  BY <1>2 DEF Receiver, Relayed
<1>6. Len(r) <= Len(Accepted(s))
  <2>1. Settled(eng[s], View(s)) /\ View(s) \in Views
    BY DEF Delivery, SideInv
  <2>2. View(s).base = First(s) /\ View(s).sent = sent[s] /\ View(s).ended = ended[s]
    BY DEF View, Between
  <2>3. nxt \in Nat /\ nxt <= sent[s] + 1 /\ (nxt = sent[s] + 1 => ended[s])
    BY <2>1, <2>2, SettledReads
  <2>4. Len(Accepted(s)) = sent[s] + Count(ended[s])
    BY AcceptedIs
  <2>5. sent[s] \in Nat /\ Count(ended[s]) \in 0 .. 1 /\ (ended[s] => Count(ended[s]) = 1)
    BY DEF IInv, HistoryTyped, Count
  <2> HIDE DEF nxt
  <2>6. Len(r) <= nxt
    BY <1>4, <1>5
  <2> QED BY <1>3, <2>3, <2>4, <2>5, <2>6
<1> QED BY <1>3, <1>4, <1>5, <1>6

\* A sink is told exactly the bytes the peer's user sent, in order, without gap
\* or repeat, and EOF only after all of them, whatever the wire drops, repeats
\* or reorders and wherever the numbers wrap.
THEOREM Integrity == SingleConnection => (SeededSpec => []StreamIntegrity)
<1> SUFFICES ASSUME SingleConnection PROVE SeededSpec => []StreamIntegrity
  OBVIOUS
<1>1. IInv /\ Delivery => StreamIntegrity
  <2> SUFFICES ASSUME IInv, Delivery, NEW t \in Sides
               PROVE  IsPrefix(eng[t].stream, Accepted(Peer(t)))
    BY DEF StreamIntegrity
  <2> DEFINE s == Peer(t)
             r == eng[t].stream
             all == Accepted(s)
  <2>1. s \in Sides /\ Peer(s) = t
    BY PeerOf
  <2>2. /\ r \in Seq(Bytes \cup {EOF}) /\ Len(r) \in Nat /\ Len(r) <= Len(all)
        /\ \A i \in 1 .. Len(r) : r[i] = Item(sent[s], i)
    BY <2>1, ToldIs
  <2>3. /\ all \in Seq(Bytes \cup {EOF}) /\ Len(all) \in Nat
        /\ \A i \in 1 .. Len(all) : all[i] = Item(sent[s], i)
    BY <2>1, AcceptedIs
  <2> HIDE DEF r, all, s
  <2>4. /\ SubSeq(r, 1, Len(r)) \in Seq(Bytes \cup {EOF}) /\ Len(SubSeq(r, 1, Len(r))) = Len(r)
        /\ \A i \in 1 .. Len(r) : SubSeq(r, 1, Len(r))[i] = r[i]
    BY <2>2
  <2>5. /\ SubSeq(all, 1, Len(r)) \in Seq(Bytes \cup {EOF}) /\ Len(SubSeq(all, 1, Len(r))) = Len(r)
        /\ \A i \in 1 .. Len(r) : SubSeq(all, 1, Len(r))[i] = all[i]
    BY <2>2, <2>3
  <2>6. \A i \in 1 .. Len(SubSeq(r, 1, Len(r))) : SubSeq(r, 1, Len(r))[i] = SubSeq(all, 1, Len(r))[i]
    BY <2>2, <2>3, <2>4, <2>5
  <2>7. SubSeq(r, 1, Len(r)) = SubSeq(all, 1, Len(r))
    BY <2>4, <2>5, <2>6, SeqEqual
  <2> QED BY <2>2, <2>7 DEF IsPrefix, r, all, s
<1> QED BY <1>1, Delivers, Invariant, PTL

\* SND.UNA <= the peer's RCV.NXT <= SND.NXT (_process_ack).
THEOREM AckedTaken == SingleConnection => (SeededSpec => []AckedWasTaken)
<1> SUFFICES ASSUME SingleConnection PROVE SeededSpec => []AckedWasTaken
  OBVIOUS
<1>1. IInv /\ Delivery => AckedWasTaken
  <2> SUFFICES ASSUME IInv, Delivery, NEW s \in Sides
               PROVE  between(eng[s].snd_una, eng[Peer(s)].rcv_nxt, eng[s].snd_nxt)
    BY DEF AckedWasTaken
  <2> DEFINE a == eng[s].snd_una
             b == eng[Peer(s)].rcv_nxt
             c == eng[s].snd_nxt
             v == View(s)
  <2>1. v \in Views /\ Settled(eng[s], v)
    BY DEF Delivery, SideInv
  <2>2. v.base = First(s) /\ v.taken = sub(b, First(s)) /\ v.base \in SeqNums
    BY Firsts DEF View, Between
  <2>3. /\ sub(a, v.base) \in Nat /\ sub(c, v.base) \in Nat /\ sub(a, v.base) <= v.taken
        /\ sub(c, v.base) <= v.sent + 1
    BY <2>1, SettledReads
  <2>4. /\ v.taken \in Nat /\ v.taken <= v.sent + 1 /\ v.sent \in Nat /\ v.sent + RCV_WND + 2 < HALF
        /\ RCV_WND \in Nat /\ HALF \in Nat
    BY <2>1, ViewReads, Halves
  <2>5. v.taken <= sub(c, v.base)
    BY <2>2, ToldIs
  <2>6. a \in SeqNums /\ b \in SeqNums /\ c \in SeqNums
    BY PeerOf, SideReads, Reads
  <2> HIDE DEF a, b, c, v
  <2>7. /\ sub(a, v.base) < HALF /\ sub(b, v.base) < HALF /\ sub(c, v.base) < HALF
        /\ sub(a, v.base) <= sub(b, v.base) /\ sub(b, v.base) <= sub(c, v.base)
    BY <2>2, <2>3, <2>4, <2>5
  <2>8. seq_leq(a, b) /\ seq_leq(b, c)
    BY <2>2, <2>6, <2>7, Placed
  <2> QED BY <2>8 DEF between, a, b, c
<1> QED BY <1>1, Delivers, Invariant, PTL

\* Once our FIN is acknowledged the peer's sink has been told everything
\* (_send_pending, _on_persist, _pending_fin).
THEOREM FinAcked == SingleConnection => (SeededSpec => []FinAckedMeansAllDelivered)
<1> SUFFICES ASSUME SingleConnection PROVE SeededSpec => []FinAckedMeansAllDelivered
  OBVIOUS
<1>1. IInv /\ Delivery => FinAckedMeansAllDelivered
  <2> SUFFICES ASSUME IInv, Delivery, NEW s \in Sides, eng[s].fin_acked
               PROVE  eng[Peer(s)].stream = Accepted(s)
    BY DEF FinAckedMeansAllDelivered
  <2> DEFINE e == eng[s]
             v == View(s)
             r == eng[Peer(s)].stream
             all == Accepted(s)
  <2>1. v \in Views /\ Sound(e) /\ Typed(e) /\ e.fin_acked \in BOOLEAN
    BY SideReads, Reads
  <2>2. Sender(e, v)
    <3>1. ~Shut(e, v)
      BY <2>1 DEF Shut, Sound, Consistent, Finished
    <3> QED BY <3>1, SideCases
  <2>3. v.base = First(s) /\ v.sent = sent[s] /\ v.ended = ended[s]
        /\ v.taken = sub(eng[Peer(s)].rcv_nxt, First(s))
    BY DEF View, Between
  <2>4. e.fin_sent /\ e.retx = <<>> /\ e.app_buf = <<>> /\ e.fin_pending /\ v.ended
    BY <2>2 DEF Sender, FinLaid
  <2>5. e.snd_una = e.snd_nxt /\ sub(e.snd_nxt, v.base) + Len(e.app_buf) = v.sent + Count(e.fin_sent)
        /\ sub(e.snd_una, v.base) <= v.taken
    BY <2>2, <2>4 DEF Sender, Laid, Unsent
  <2>6. sub(e.snd_nxt, v.base) \in Nat /\ v.sent \in Nat /\ v.taken \in Nat
    BY <2>1, <2>2, SentWithin, ViewReads
  <2>7. Len(e.app_buf) = 0 /\ Count(e.fin_sent) = 1
    BY <2>4 DEF Count
  <2>8. /\ r \in Seq(Bytes \cup {EOF}) /\ Len(r) \in Nat /\ Len(r) <= Len(all)
        /\ Len(r) = v.taken
        /\ \A i \in 1 .. Len(r) : r[i] = Item(sent[s], i)
    BY <2>3, ToldIs
  <2>9. /\ all \in Seq(Bytes \cup {EOF}) /\ Len(all) = sent[s] + 1
        /\ \A i \in 1 .. Len(all) : all[i] = Item(sent[s], i)
    BY <2>3, <2>4, AcceptedIs DEF Count
  <2> HIDE DEF e, v, r, all
  <2>10. v.sent + 1 <= v.taken
    BY <2>5, <2>6, <2>7
  <2>11. Len(r) = Len(all)
    BY <2>3, <2>6, <2>8, <2>9, <2>10
  <2>12. \A i \in 1 .. Len(r) : r[i] = all[i]
    BY <2>8, <2>9, <2>11
  <2>13. r = all
    BY <2>8, <2>9, <2>11, <2>12, SeqEqual
  <2> QED BY <2>13 DEF r, all
<1> QED BY <1>1, Delivers, Invariant, PTL

\* The mark of the end is told when everything was.
LEMMA HeardIsTold ==
    ASSUME SingleConnection, NEW e, NEW v \in Views, Typed(e), Receiver(e, v)
    PROVE  (e.stream # <<>> /\ Last(e.stream) = EOF) <=> Told(e, v)
<1> DEFINE r == e.stream
           n == Len(r)
<1>1. r \in Seq(Bytes \cup {EOF}) /\ n \in Nat
  BY Reads
<1>2. n = sub(e.rcv_nxt, v.pbase) /\ n <= v.pnxt /\ \A i \in 1 .. n : r[i] = Item(v.psent, i)
  BY DEF Receiver, Relayed
<1>3. v.psent \in Nat /\ v.pnxt \in Nat /\ v.pnxt <= v.psent + 1
  BY ViewReads
<1>4. Told(e, v) <=> n = v.psent + 1
  BY <1>2 DEF Told
<1>5. r # <<>> => n >= 1 /\ Last(r) = r[n]
  BY <1>1 DEF Last
<1>6. EOF \notin Bytes
  BY DEF SingleConnection
<1> HIDE DEF r, n
<1>7. ASSUME r # <<>>, Last(r) = EOF PROVE n = v.psent + 1
  <2>1. n \in 1 .. n /\ Item(v.psent, n) = EOF
    BY <1>1, <1>2, <1>5, <1>7
  <2>2. ~(n <= v.psent)
    <3>1. n \in Bytes
      BY <1>1, <2>1 DEF Bytes
    <3> QED BY <1>6, <2>1, <3>1 DEF Item
  <2> QED BY <1>1, <1>2, <1>3, <2>2
<1>8. ASSUME n = v.psent + 1 PROVE r # <<>> /\ Last(r) = EOF
  <2>1. n \in 1 .. n /\ ~(n <= v.psent)
    BY <1>1, <1>3, <1>8
  <2>2. r # <<>>
    BY <2>1 DEF n
  <2> QED BY <1>2, <1>5, <2>1, <2>2 DEF Item
<1> QED BY <1>4, <1>7, <1>8 DEF r, n

\* The state agrees with what became of both FINs, in whatever order the ACK of
\* ours, the peer's FIN and the window that lets ours out arrive (_process_fin,
\* _after_fin_acked, close).
THEOREM StateTells == SingleConnection => (SeededSpec => []StateMatchesFins)
<1> SUFFICES ASSUME SingleConnection PROVE SeededSpec => []StateMatchesFins
  OBVIOUS
<1>1. IInv /\ Delivery => StateMatchesFins
  <2> SUFFICES ASSUME IInv, Delivery, NEW s \in Sides
               PROVE  LET e == eng[s]
                          heard == e.stream # <<>> /\ Last(e.stream) = EOF
                      IN
          /\ e.state \in {"FIN_WAIT_1", "CLOSING", "LAST_ACK"} => e.fin_sent /\ ~e.fin_acked
          /\ e.state \in {"FIN_WAIT_2", "TIME_WAIT"} => e.fin_sent /\ e.fin_acked
          /\ e.state \in {"SYN_SENT", "SYN_RECEIVED", "ESTABLISHED", "CLOSE_WAIT"} => ~e.fin_sent
          /\ e.state \in {"CLOSE_WAIT", "CLOSING", "LAST_ACK", "TIME_WAIT"} => heard
          /\ e.state \in {"SYN_RECEIVED", "ESTABLISHED", "FIN_WAIT_1", "FIN_WAIT_2"} => ~heard
    BY DEF StateMatchesFins
  <2> DEFINE e == eng[s]
             v == View(s)
             heard == e.stream # <<>> /\ Last(e.stream) = EOF
  <2>1. Sound(e) /\ Typed(e) /\ v \in Views /\ Consistent(e)
    BY SideReads DEF Sound
  <2>2. CASE Shut(e, v)
    <3>1. e.state = "CLOSED"
      BY <2>2 DEF Shut
    <3> QED BY <3>1
  <2>3. CASE Receiver(e, v) /\ Stage(e, v) /\ Noticed(e)
    <3>1. heard <=> Told(e, v)
      BY <2>1, <2>3, HeardIsTold
    <3>2. heard <=> e.state \in ToldStates
      BY <2>3, <3>1 DEF Stage
    <3>3. /\ e.state \in Finished => e.fin_sent = TRUE
          /\ e.state \notin Finished => e.fin_sent = FALSE
      BY <2>1 DEF Consistent
    <3> HIDE DEF e, heard
    <3>4. /\ e.state \in {"FIN_WAIT_1", "CLOSING", "LAST_ACK"} => e.fin_sent /\ ~e.fin_acked
          /\ e.state \in {"FIN_WAIT_2", "TIME_WAIT"} => e.fin_sent /\ e.fin_acked
          /\ e.state \in {"SYN_SENT", "SYN_RECEIVED", "ESTABLISHED", "CLOSE_WAIT"} => ~e.fin_sent
      BY <2>3, <3>3 DEF Stage, Noticed, Finished
    <3>5. /\ e.state \in {"CLOSE_WAIT", "CLOSING", "LAST_ACK", "TIME_WAIT"} => heard
          /\ e.state \in {"SYN_RECEIVED", "ESTABLISHED", "FIN_WAIT_1", "FIN_WAIT_2"} => ~heard
      BY <3>2 DEF ToldStates
    <3> QED BY <3>4, <3>5 DEF e, heard
  <2> QED BY <2>2, <2>3, SideCases
<1> QED BY <1>1, Delivers, Invariant, PTL

-------------------------------------------------------------------------------
(* One direction is a TcpStream.                                           *)

Places(items) == {x[1] : x \in items}

\* The acknowledgments s can act on: what it acted on last and what is in
\* flight, but nothing older.
Fresh(s) ==
    {a \in {Before(s, eng[s].snd_una)} \cup AcksOnWire(s) : Before(s, eng[s].snd_una) <= a}

\* Where the items lie that s keeps or that are in flight to it.
InReach(s) == Places(Held(Peer(s)) \cup OnWire(Peer(s)))

\* A number of items is a position.
LEMMA BeforeIs ==
    ASSUME NEW s \in Sides, NEW x \in SeqNums
    PROVE  Before(s, x) = sub(x, First(s)) /\ Before(s, x) \in Nat
<1>1. Before(s, x) = sub(x, First(s))
  BY DEF Before, First
<1> QED BY <1>1, Firsts, Position

\* What a segment in flight may look like.
LEMMA SegmentIs ==
    ASSUME NEW seg \in SegmentRecords
    PROVE  /\ seg.seq \in SeqNums /\ seg.ack \in SeqNums /\ seg.payload \in Seq(Bytes)
           /\ Len(seg.payload) \in Nat
           /\ "FIN" \in seg.flags => seg.payload = <<>>
           /\ "RST" \notin seg.flags /\ seg.flags \in {{"ACK"}, {"ACK", "FIN"}} =>
                 "ACK" \in seg.flags
<1>1. seg.payload = <<>> \/ seg.flags = {"ACK"}
  BY DEF SegmentRecords, MayCarry
<1>2. seg.payload \in Seq(Bytes) /\ seg.seq \in SeqNums /\ seg.ack \in SeqNums
  BY DEF SegmentRecords
<1> QED BY <1>1, <1>2

\* Text of the stream stands for items of the stream, and so does its end.
LEMMA ItemsAre ==
    ASSUME NEW s \in Sides, NEW seq \in SeqNums, NEW text \in Seq(Bytes), NEW fin \in BOOLEAN,
           NEW n \in Nat, Len(text) > 0 => sub(seq, First(s)) + Len(text) <= n,
           From(sub(seq, First(s)), text),
           fin => sub(seq, First(s)) = n /\ text = <<>>,
           NEW x \in ItemsOf(s, seq, text, fin)
    PROVE  /\ x[1] \in Nat /\ x[1] \in 1 .. n + 1 /\ x = <<x[1], Item(n, x[1])>>
           /\ sub(seq, First(s)) < x[1]
           /\ \/ \E j \in 1 .. Len(text) : x[1] = sub(seq, First(s)) + j
              \/ fin /\ x[1] = n + 1
<1> DEFINE k == sub(seq, First(s))
<1>1. k \in Nat /\ Before(s, seq) = k
  BY BeforeIs
<1>2. \/ \E j \in 1 .. Len(text) : x = <<k + j, text[j]>>
      \/ fin /\ x = <<k + Len(text) + 1, EOF>>
  BY <1>1 DEF ItemsOf
<1> HIDE DEF k
<1>3. CASE \E j \in 1 .. Len(text) : x = <<k + j, text[j]>>
  <2>1. PICK j \in 1 .. Len(text) : x = <<k + j, text[j]>>
    BY <1>3
  <2>2. text[j] = k + j /\ Len(text) \in Nat /\ k + Len(text) <= n
    BY DEF From, k
  <2>3. k + j <= n /\ k + j >= 1 /\ k + j \in Nat /\ k < k + j
    BY <1>1, <2>2
  <2>4. x[1] = k + j /\ x = <<x[1], k + j>> /\ Item(n, k + j) = k + j
    BY <2>1, <2>2, <2>3 DEF Item
  <2> QED BY <2>3, <2>4 DEF k
<1>4. CASE fin /\ x = <<k + Len(text) + 1, EOF>>
  <2>1. Len(text) = 0 /\ k = n
    BY <1>4 DEF k
  <2>2. x[1] = n + 1 /\ x = <<x[1], EOF>> /\ Item(n, n + 1) = EOF
    BY <1>4, <2>1 DEF Item
  <2> QED BY <1>4, <2>1, <2>2 DEF k
<1> QED BY <1>2, <1>3, <1>4

\* And they stand where the text lies.
LEMMA TextPlaced ==
    ASSUME NEW s \in Sides, NEW seq \in SeqNums, NEW text \in Seq(Bytes), NEW fin \in BOOLEAN
    PROVE  /\ \A j \in 1 .. Len(text) :
                 sub(seq, First(s)) + j \in Places(ItemsOf(s, seq, text, fin))
           /\ fin => sub(seq, First(s)) + Len(text) + 1 \in Places(ItemsOf(s, seq, text, fin))
<1> DEFINE k == sub(seq, First(s))
<1>1. k \in Nat /\ Before(s, seq) = k
  BY BeforeIs
<1> HIDE DEF k
<1>2. ASSUME NEW j \in 1 .. Len(text) PROVE k + j \in Places(ItemsOf(s, seq, text, fin))
  <2>1. <<k + j, text[j]>> \in ItemsOf(s, seq, text, fin)
    BY <1>1 DEF ItemsOf
  <2> QED BY <2>1 DEF Places
<1>3. ASSUME fin PROVE k + Len(text) + 1 \in Places(ItemsOf(s, seq, text, fin))
  <2>1. <<k + Len(text) + 1, EOF>> \in ItemsOf(s, seq, text, fin)
    BY <1>1, <1>3 DEF ItemsOf
  <2> QED BY <2>1 DEF Places
<1> QED BY <1>2, <1>3 DEF k

\* The items that an engine which receives from s keeps.
HeldIn(s, e) ==
    (UNION {ItemsOf(s, o.seq, o.data, FALSE) : o \in e.ooo})
      \cup (IF e.pending_fin = None THEN {} ELSE ItemsOf(s, e.pending_fin, <<>>, TRUE))

\* They are in what came out of order and in a FIN that was noted.
LEMMA HeldIs ==
    ASSUME NEW s, NEW e, NEW x
    PROVE  x \in HeldIn(s, e) <=>
              \/ \E o \in e.ooo : x \in ItemsOf(s, o.seq, o.data, FALSE)
              \/ e.pending_fin # None /\ x \in ItemsOf(s, e.pending_fin, <<>>, TRUE)
<1> DEFINE texts == UNION {ItemsOf(s, o.seq, o.data, FALSE) : o \in e.ooo}
           end == ItemsOf(s, e.pending_fin, <<>>, TRUE)
<1>1. HeldIn(s, e) = texts \cup (IF e.pending_fin = None THEN {} ELSE end)
  BY Zenon DEF HeldIn
<1>2. x \in texts <=> \E o \in e.ooo : x \in ItemsOf(s, o.seq, o.data, FALSE)
  BY Zenon
<1> HIDE DEF texts, end
<1>3. x \in HeldIn(s, e) <=> x \in texts \/ (e.pending_fin # None /\ x \in end)
  BY <1>1
<1> QED BY <1>2, <1>3 DEF end

\* Each is the item of the stream at its place, and can be known of.
LEMMA KeptItems ==
    ASSUME NEW s \in Sides, NEW e, NEW v \in Views, Typed(e), Receiver(e, v),
           v.pbase = First(s), NEW x \in HeldIn(s, e)
    PROVE  /\ x[1] \in Nat /\ x[1] \in 1 .. v.psent + 1 /\ x[1] \in v.sight
           /\ x = <<x[1], Item(v.psent, x[1])>>
<1> DEFINE n == v.psent
<1>1. n \in Nat /\ e.ooo \subseteq KeptRecords /\ e.pending_fin \in SeqNums \cup {None}
  BY ViewReads, Reads DEF Noted
<1>2. \/ \E o \in e.ooo : x \in ItemsOf(s, o.seq, o.data, FALSE)
      \/ e.pending_fin # None /\ x \in ItemsOf(s, e.pending_fin, <<>>, TRUE)
  BY HeldIs
<1>3. ASSUME NEW o \in e.ooo, x \in ItemsOf(s, o.seq, o.data, FALSE)
      PROVE  x[1] \in Nat /\ x[1] \in 1 .. n + 1 /\ x[1] \in v.sight /\ x = <<x[1], Item(n, x[1])>>
  <2>1. o.seq \in SeqNums /\ o.data \in Seq(Bytes)
    BY <1>1 DEF KeptRecords
  <2>2. /\ sub(o.seq, First(s)) + Len(o.data) <= n /\ From(sub(o.seq, First(s)), o.data)
        /\ Seen(sub(o.seq, First(s)), o.data, v)
    BY DEF Receiver, KeptGenuine
  <2> DEFINE fin == FALSE
  <2>3. fin \in BOOLEAN /\ ~fin /\ x \in ItemsOf(s, o.seq, o.data, fin)
    BY <1>3
  <2> HIDE DEF fin, n
  <2>4. /\ x[1] \in Nat /\ x[1] \in 1 .. n + 1 /\ x = <<x[1], Item(n, x[1])>>
        /\ \E j \in 1 .. Len(o.data) : x[1] = sub(o.seq, First(s)) + j
    BY <1>1, <2>1, <2>2, <2>3, ItemsAre
  <2> QED BY <2>2, <2>4 DEF Seen
<1>4. ASSUME e.pending_fin # None, x \in ItemsOf(s, e.pending_fin, <<>>, TRUE)
      PROVE  x[1] \in Nat /\ x[1] \in 1 .. n + 1 /\ x[1] \in v.sight /\ x = <<x[1], Item(n, x[1])>>
  <2>1. e.pending_fin \in SeqNums /\ Len(<<>>) = 0
    BY <1>1, <1>4
  <2>2. sub(e.pending_fin, First(s)) = n /\ n + 1 \in v.sight
    BY <1>4 DEF Receiver, FinNoted
  <2>3. x \in {<<n + 0 + 1, EOF>>}
    BY <1>4, <2>1, <2>2, BeforeIs DEF ItemsOf
  <2>4. x = <<n + 1, EOF>> /\ Item(n, n + 1) = EOF
    BY <1>1, <2>3 DEF Item
  <2> QED BY <1>1, <2>2, <2>4
<1> QED BY <1>2, <1>3, <1>4

\* Every item in flight or kept is the item of the stream at its place.
LEMMA OnWireGenuine ==
    ASSUME IInv, Delivery, NEW s \in Sides, NEW x \in Held(s) \cup OnWire(s)
    PROVE  /\ x[1] \in Nat /\ x[1] \in 1 .. sent[s] + 1
           /\ x = <<x[1], Item(sent[s], x[1])>>
<1> DEFINE t == Peer(s)
           e == eng[t]
           v == View(t)
           n == sent[s]
<1>1. t \in Sides /\ Peer(t) = s /\ n \in Nat
  BY PeerOf DEF IInv, HistoryTyped
<1>2. /\ v \in Views /\ Typed(e) /\ Receiver(e, v) /\ BagToSet(net[t]) \subseteq SegmentRecords
      /\ \A seg \in BagToSet(net[t]) : Faithful(seg, v)
  BY <1>1, SideReads, SideCases DEF Shut, Delivery, SideInv
<1>3. v.pbase = First(s) /\ v.psent = n
  BY <1>1 DEF View, Between
<1>4. Held(s) = HeldIn(s, e)
  BY DEF Held, HeldIn
<1> HIDE DEF v, n
<1>5. CASE x \in OnWire(s)
  <2>1. PICK seg \in BagToSet(net[t]) :
           "RST" \notin seg.flags /\ x \in ItemsOf(s, seg.seq, seg.payload, "FIN" \in seg.flags)
    BY <1>5 DEF OnWire, InFlight
  <2> DEFINE fin == "FIN" \in seg.flags
  <2>2. /\ seg.seq \in SeqNums /\ seg.payload \in Seq(Bytes) /\ fin \in BOOLEAN
        /\ fin => seg.payload = <<>>
    <3>1. seg \in SegmentRecords
      BY <1>2
    <3> QED BY <3>1, SegmentIs
  <2>3. Genuine(seg, First(s), n, v.pnxt)
    BY <1>2, <1>3 DEF Faithful
  <2>4. /\ Len(seg.payload) > 0 => sub(seg.seq, First(s)) + Len(seg.payload) <= n
        /\ From(sub(seg.seq, First(s)), seg.payload)
        /\ fin => sub(seg.seq, First(s)) = n
    BY <2>1, <2>2, <2>3 DEF Genuine, From
  <2>5. x \in ItemsOf(s, seg.seq, seg.payload, fin)
    BY <2>1
  <2> HIDE DEF fin
  <2> QED BY <1>1, <2>2, <2>4, <2>5, ItemsAre DEF n
<1>6. CASE x \in Held(s)
  <2>1. x \in HeldIn(s, e)
    BY <1>4, <1>6
  <2> HIDE DEF e
  <2> QED BY <1>2, <1>3, <2>1, KeptItems DEF n
<1> QED BY <1>5, <1>6

\* A side needs to know of nothing but this.
LEMMA KnowsFine ==
    ASSUME SingleConnection, IInv, Delivery, NEW s \in Sides
    PROVE  /\ Fresh(s) \in SUBSET Nat /\ InReach(s) \in SUBSET Nat
           /\ Knows(s, Fresh(s), InReach(s))
<1> DEFINE p == Peer(s)
           e == eng[s]
           w == Now(s, Fresh(s), InReach(s))
           v == View(s)
<1>1. p \in Sides /\ Peer(p) = s
  BY PeerOf
<1>2. /\ v \in Views /\ Settled(e, v) /\ e.out = <<>> /\ Typed(e) /\ Receiver(e, v)
      /\ BagToSet(net[s]) \subseteq SegmentRecords /\ e.snd_una \in SeqNums
      /\ e.ooo \subseteq KeptRecords /\ e.pending_fin \in SeqNums \cup {None}
      /\ \A seg \in BagToSet(net[s]) : Faithful(seg, v)
  <2>1. /\ v \in Views /\ Settled(e, v) /\ e.out = <<>> /\ Typed(e) /\ Receiver(e, v)
        /\ BagToSet(net[s]) \subseteq SegmentRecords
        /\ \A seg \in BagToSet(net[s]) : Faithful(seg, v)
    BY SideReads, SideCases DEF Shut, Delivery, SideInv
  <2> QED BY <2>1, Reads DEF Noted
<1>3. \A seg \in InFlight(s) : seg \in SegmentRecords /\ seg \in BagToSet(net[s]) /\ "RST" \notin seg.flags
  BY <1>2 DEF InFlight
<1>4. Fresh(s) \in SUBSET Nat
  <2>1. ASSUME NEW seg \in InFlight(s) PROVE Before(s, seg.ack) \in Nat
    <3>1. seg.ack \in SeqNums
      BY <1>3 DEF SegmentRecords
    <3> QED BY <3>1, BeforeIs
  <2>2. AcksOnWire(s) \subseteq Nat
    BY <2>1 DEF AcksOnWire
  <2> QED BY <1>2, <2>2, BeforeIs DEF Fresh
<1>5. InReach(s) \in SUBSET Nat
  <2>1. \A x \in Held(p) \cup OnWire(p) : x[1] \in Nat
    BY <1>1, OnWireGenuine
  <2> QED BY <2>1 DEF InReach, Places
<1>6. w \in Views
  BY <1>4, <1>5, NowViews
<1>7. /\ w.base = First(s) /\ w.pbase = First(p) /\ w.psent = sent[p]
      /\ w.acks = Fresh(s) /\ w.sight = InReach(s)
      /\ w.base = v.base /\ w.sent = v.sent /\ w.ended = v.ended /\ w.taken = v.taken
      /\ w.pbase = v.pbase /\ w.psent = v.psent /\ w.pnxt = v.pnxt
      /\ w.snd = sub(e.snd_nxt, v.base) /\ w.rcv = sub(e.rcv_nxt, v.pbase)
  BY DEF Now, Finer, Asked, View, Between
<1> HIDE DEF w, v
<1>8. sub(e.snd_una, v.base) \in w.acks
  <2>1. Before(s, e.snd_una) = sub(e.snd_una, v.base) /\ Before(s, e.snd_una) \in Nat
    BY <1>2, <1>7, BeforeIs
  <2> QED BY <1>7, <2>1 DEF Fresh
<1>9. SeenKept(e, w)
  <2>1. ASSUME NEW o \in e.ooo PROVE Seen(sub(o.seq, w.pbase), o.data, w)
    <3>1. o.seq \in SeqNums /\ o.data \in Seq(Bytes)
      BY <1>2 DEF KeptRecords
    <3>2. \A j \in 1 .. Len(o.data) :
             sub(o.seq, First(p)) + j \in Places(ItemsOf(p, o.seq, o.data, FALSE))
      BY <1>1, <3>1, TextPlaced
    <3>3. ItemsOf(p, o.seq, o.data, FALSE) \subseteq Held(p)
      BY <1>1 DEF Held
    <3> QED BY <1>7, <3>2, <3>3 DEF Seen, InReach, Places
  <2>2. ASSUME e.pending_fin # None PROVE w.psent + 1 \in w.sight
    <3>1. e.pending_fin \in SeqNums /\ <<>> \in Seq(Bytes) /\ Len(<<>>) = 0
      BY <1>2, <2>2
    <3>2. sub(e.pending_fin, First(p)) + Len(<<>>) + 1 \in Places(ItemsOf(p, e.pending_fin, <<>>, TRUE))
      BY <1>1, <3>1, TextPlaced
    <3>3. Held(p) = HeldIn(p, e)
      BY <1>1 DEF Held, HeldIn
    <3>6. ItemsOf(p, e.pending_fin, <<>>, TRUE) \subseteq Held(p)
      BY <2>2, <3>3, HeldIs
    <3>4. sub(e.pending_fin, First(p)) = w.psent /\ w.psent \in Nat
      BY <1>2, <1>6, <1>7, <2>2, ViewReads DEF Receiver, FinNoted
    <3>5. sub(e.pending_fin, First(p)) + Len(<<>>) + 1 = w.psent + 1
      BY <3>1, <3>4
    <3> QED BY <1>7, <3>2, <3>5, <3>6 DEF InReach, Places
  <2> QED BY <2>1, <2>2 DEF SeenKept
<1>10. Settled(e, w)
  BY <1>2, <1>6, <1>7, <1>8, <1>9, SettledViewed
<1>11. ASSUME NEW seg \in BagToSet(net[s]), "RST" \notin seg.flags
       PROVE  /\ Timely(seg.ack, w) /\ Seen(sub(seg.seq, w.pbase), seg.payload, w)
              /\ "FIN" \in seg.flags => w.psent + 1 \in w.sight
  <2> DEFINE fin == "FIN" \in seg.flags
  <2>1. /\ seg.seq \in SeqNums /\ seg.payload \in Seq(Bytes) /\ seg.ack \in SeqNums
        /\ fin => seg.payload = <<>>
        /\ seg.flags \in {{"ACK"}, {"ACK", "FIN"}} => "ACK" \in seg.flags
    <3>1. seg \in SegmentRecords
      BY <1>2
    <3> QED BY <1>11, <3>1, SegmentIs
  <2>2. Genuine(seg, First(p), w.psent, w.pnxt)
    BY <1>2, <1>7 DEF Faithful
  <2>3. "ACK" \in seg.flags /\ seg \in InFlight(s)
    BY <1>11, <2>1, <2>2 DEF Genuine, InFlight
  <2>4. Timely(seg.ack, w)
    <3> DEFINE a == Before(s, seg.ack)
               una == Before(s, e.snd_una)
    <3>1. a = sub(seg.ack, w.base) /\ a \in Nat /\ una \in Nat
      BY <1>2, <1>7, <2>1, BeforeIs
    <3>2. a \in AcksOnWire(s)
      BY <2>3 DEF AcksOnWire
    <3>3. CASE una <= a
      BY <1>7, <3>1, <3>2, <3>3 DEF Timely, Fresh
    <3>4. CASE ~(una <= a)
      <4>1. \A b \in Fresh(s) : b \in Nat /\ una <= b
        BY <1>4 DEF Fresh
      <4> HIDE DEF a, una
      <4>2. \A b \in Fresh(s) : a < b
        BY <3>1, <3>4, <4>1
      <4> QED BY <1>7, <3>1, <4>2 DEF Timely
    <3> QED BY <3>3, <3>4
  <2>5. ItemsOf(p, seg.seq, seg.payload, fin) \subseteq OnWire(p)
    BY <1>1, <2>3 DEF OnWire
  <2>6. /\ \A j \in 1 .. Len(seg.payload) :
              sub(seg.seq, First(p)) + j \in Places(ItemsOf(p, seg.seq, seg.payload, fin))
        /\ fin => sub(seg.seq, First(p)) + Len(seg.payload) + 1
                     \in Places(ItemsOf(p, seg.seq, seg.payload, fin))
    <3>1. fin \in BOOLEAN
      OBVIOUS
    <3> HIDE DEF fin
    <3> QED BY <1>1, <2>1, <3>1, TextPlaced
  <2>7. Seen(sub(seg.seq, w.pbase), seg.payload, w)
    BY <1>7, <2>5, <2>6 DEF Seen, InReach, Places
  <2>8. ASSUME fin PROVE w.psent + 1 \in w.sight
    <3>1. sub(seg.seq, First(p)) = w.psent /\ w.psent \in Nat /\ Len(seg.payload) = 0
      BY <1>6, <1>11, <2>1, <2>2, <2>8, ViewReads DEF Genuine
    <3>2. sub(seg.seq, First(p)) + Len(seg.payload) + 1 = w.psent + 1
      BY <3>1
    <3> QED BY <1>7, <2>5, <2>6, <2>8, <3>2 DEF InReach, Places
  <2> QED BY <2>4, <2>7, <2>8
<1>12. \A seg \in BagToSet(net[s]) : Shown(seg, w)
  BY <1>11 DEF Shown
<1>13. Knows(s, Fresh(s), InReach(s))
  BY <1>10, <1>12 DEF Knows, w
<1> QED BY <1>4, <1>5, <1>13

\* How an entry into the engine of s leaves the two.
After(s, n, over, e, taken) ==
    /\ eng'[s] = [e EXCEPT !.out = <<>>] /\ eng'[Peer(s)] = eng[Peer(s)]
    /\ net'[s] = taken /\ BagToSet(taken) \subseteq BagToSet(net[s])
    /\ net'[Peer(s)] = net[Peer(s)] (+) BagOf(e.out)
    /\ sent'[s] = n /\ sent'[Peer(s)] = sent[Peer(s)]
    /\ ended'[s] = over /\ ended'[Peer(s)] = ended[Peer(s)]
    /\ eng'[s].snd_una = e.snd_una /\ eng'[s].snd_nxt = e.snd_nxt
    /\ eng'[s].rcv_nxt = e.rcv_nxt /\ eng'[s].stream = e.stream
    /\ eng'[s].ooo = e.ooo /\ eng'[s].pending_fin = e.pending_fin

\* What an entry into the engine of s leaves behind.
LEMMA EntryReads ==
    ASSUME SingleConnection, IInv, Delivery, NEW s \in Sides,
           NEW acks \in SUBSET Nat, NEW sight \in SUBSET Nat,
           NEW n, NEW over, NEW e, NEW taken, RunsTo(s, n, over, e, taken, acks, sight)
    PROVE  /\ Finer(s, n, over, acks, sight) \in Views
           /\ Settled(e, Finer(s, n, over, acks, sight)) /\ Typed(e)
           /\ n \in Nat /\ n <= SEND_LIMIT[s] /\ over \in BOOLEAN /\ Hands(s, n, over)
           /\ After(s, n, over, e, taken)
<1> DEFINE p == Peer(s)
           v == Finer(s, n, over, acks, sight)
<1>1. p \in Sides /\ p # s
  BY PeerOf
<1>2. /\ MayAsk(s, n) /\ over \in BOOLEAN /\ Hands(s, n, over) /\ Settled(e, v)
      /\ BagToSet(taken) \subseteq BagToSet(net[s]) /\ Becomes(s, e, taken)
      /\ sent' = [sent EXCEPT ![s] = n] /\ ended' = [ended EXCEPT ![s] = over]
  BY DEF RunsTo
<1>3. v \in Views /\ n \in Nat /\ n <= SEND_LIMIT[s]
  BY <1>2, FinerViews DEF MayAsk
<1>4. Typed(e)
  BY <1>2 DEF Settled, Connected, Shut, Talking, Sound
<1>5. /\ sent \in [Sides -> Nat] /\ ended \in [Sides -> BOOLEAN]
      /\ eng = [t \in Sides |-> eng[t]] /\ net = [t \in Sides |-> net[t]]
  BY DEF IInv, EnginesSound, HistoryTyped, WireSound
<1>6. /\ eng'[s] = [e EXCEPT !.out = <<>>] /\ eng'[p] = eng[p] /\ net'[s] = taken
      /\ net'[p] = net[p] (+) BagOf(e.out)
      /\ sent'[s] = n /\ sent'[p] = sent[p] /\ ended'[s] = over /\ ended'[p] = ended[p]
  BY <1>1, <1>2, <1>5, Zenon DEF Becomes
<1> HIDE DEF v, p
<1>7. /\ eng'[s].snd_una = e.snd_una /\ eng'[s].snd_nxt = e.snd_nxt
      /\ eng'[s].rcv_nxt = e.rcv_nxt /\ eng'[s].stream = e.stream
      /\ eng'[s].ooo = e.ooo /\ eng'[s].pending_fin = e.pending_fin
  BY <1>4, <1>6, FieldNames DEF Typed
<1>8. After(s, n, over, e, taken)
  BY <1>2, <1>6, <1>7 DEF After, p
<1> QED BY <1>2, <1>3, <1>4, <1>8 DEF v

\* What joins a bag of segments.
LEMMA BagGains ==
    ASSUME NEW bag, NEW segs \in Seq(SegmentRecords)
    PROVE  BagToSet(bag (+) BagOf(segs)) = BagToSet(bag) \cup Range(segs)
<1>1. BagToSet(BagOf(segs)) = Range(segs)
  BY DEF BagToSet, BagOf
<1>2. BagToSet(bag (+) BagOf(segs)) = BagToSet(bag) \cup BagToSet(BagOf(segs))
  BY DEF BagToSet, (+)
<1> QED BY <1>1, <1>2

\* The segments of segs that carry something, their items and acknowledgments.
Carrying(segs) == {seg \in Range(segs) : "RST" \notin seg.flags}

OutItems(s, segs) ==
    UNION {ItemsOf(s, seg.seq, seg.payload, "FIN" \in seg.flags) : seg \in Carrying(segs)}

OutAcks(s, segs) == {Before(s, seg.ack) : seg \in {g \in Carrying(segs) : "ACK" \in g.flags}}

\* Items in flight from s, when it transmits.
LEMMA WireGains ==
    ASSUME NEW s, NEW segs \in Seq(SegmentRecords),
           net'[Peer(s)] = net[Peer(s)] (+) BagOf(segs)
    PROVE  OnWire(s)' = OnWire(s) \cup OutItems(s, segs)
<1> DEFINE now == InFlight(Peer(s))
           then == InFlight(Peer(s))'
<1>1. BagToSet(net'[Peer(s)]) = BagToSet(net[Peer(s)]) \cup Range(segs)
  BY BagGains
<1>2. then = now \cup Carrying(segs)
  BY <1>1 DEF InFlight, Carrying
<1>3. OnWire(s)' = UNION {ItemsOf(s, seg.seq, seg.payload, "FIN" \in seg.flags) : seg \in then}
  BY DEF OnWire, ItemsOf, Before
<1>4. OnWire(s) = UNION {ItemsOf(s, seg.seq, seg.payload, "FIN" \in seg.flags) : seg \in now}
  BY DEF OnWire
<1> HIDE DEF now, then
<1> QED BY <1>2, <1>3, <1>4, Zenon DEF OutItems

\* Acknowledgments in flight to s, when its peer transmits.
LEMMA AcksGain ==
    ASSUME NEW s, NEW segs \in Seq(SegmentRecords), net'[s] = net[s] (+) BagOf(segs)
    PROVE  AcksOnWire(s)' = AcksOnWire(s) \cup OutAcks(s, segs)
<1>1. BagToSet(net'[s]) = BagToSet(net[s]) \cup Range(segs)
  BY BagGains
<1>2. InFlight(s)' = InFlight(s) \cup Carrying(segs)
  BY <1>1 DEF InFlight, Carrying
<1> QED BY <1>2, Zenon DEF AcksOnWire, OutAcks, Before

\* When segments leave the wire.
LEMMA WireShrinks ==
    ASSUME NEW s, BagToSet(net'[s]) \subseteq BagToSet(net[s])
    PROVE  AcksOnWire(s)' \subseteq AcksOnWire(s)
<1>1. InFlight(s)' \subseteq InFlight(s)
  BY DEF InFlight
<1> QED BY <1>1, Zenon DEF AcksOnWire, Before

\* The same for the items.
LEMMA ItemsShrink ==
    ASSUME NEW s, BagToSet(net'[Peer(s)]) \subseteq BagToSet(net[Peer(s)])
    PROVE  OnWire(s)' \subseteq OnWire(s)
<1> DEFINE now == InFlight(Peer(s))
           then == InFlight(Peer(s))'
<1>1. then \subseteq now
  BY DEF InFlight
<1>2. OnWire(s)' = UNION {ItemsOf(s, seg.seq, seg.payload, "FIN" \in seg.flags) : seg \in then}
  BY DEF OnWire, ItemsOf, Before
<1>3. OnWire(s) = UNION {ItemsOf(s, seg.seq, seg.payload, "FIN" \in seg.flags) : seg \in now}
  BY DEF OnWire
<1> HIDE DEF now, then
<1> QED BY <1>1, <1>2, <1>3, Zenon

\* What the user hands over lengthens the stream.
LEMMA StreamGrows ==
    ASSUME IInv, NEW s \in Sides, NEW n \in Nat, n <= SEND_LIMIT[s], NEW over \in BOOLEAN,
           Hands(s, n, over)
    PROVE  \E more \in Offered(s) \cup {<<>>} : StreamOf(n, over) = Accepted(s) \o more
<1> DEFINE m == sent[s]
           was == ended[s]
           old == StreamOf(m, was)
           new == StreamOf(n, over)
<1>1. m \in Nat /\ was \in BOOLEAN /\ old = Accepted(s) /\ SEND_LIMIT[s] \in Nat
  BY PairAssumption DEF IInv, HistoryTyped, StreamOf, Accepted
<1>2. /\ old \in Seq(Bytes \cup {EOF}) /\ Len(old) = m + Count(was)
      /\ \A i \in 1 .. Len(old) : old[i] = Item(m, i)
  BY <1>1, StreamIs
<1>3. /\ new \in Seq(Bytes \cup {EOF}) /\ Len(new) = n + Count(over)
      /\ \A i \in 1 .. Len(new) : new[i] = Item(n, i)
  BY StreamIs
<1>4. CASE n = m /\ over = was
  <2>1. new = old
    BY <1>4, Zenon
  <2> HIDE DEF new, old
  <2>2. new = old \o <<>>
    BY <1>2, <2>1
  <2> QED BY <1>1, <2>2 DEF new
<1>5. CASE n > m /\ ~over /\ ~was
  <2> DEFINE more == [i \in 1 .. n - m |-> m + i]
  <2>1. Count(over) = 0 /\ Count(was) = 0
    BY <1>5 DEF Count
  <2>2. n - m \in 1 .. SEND_LIMIT[s] /\ m \in 0 .. SEND_LIMIT[s]
    BY <1>1, <1>5
  <2>3. more \in Offered(s)
    BY <2>2 DEF Offered
  <2>4. more \in Seq(Bytes \cup {EOF}) /\ Len(more) = n - m /\ \A i \in 1 .. n - m : more[i] = m + i
    <3>1. \A i \in 1 .. n - m : m + i \in Bytes \cup {EOF}
      BY <1>1 DEF Bytes
    <3>2. n - m \in Nat
      BY <1>1, <1>5
    <3> HIDE DEF m
    <3> QED BY <3>1, <3>2
  <2> HIDE DEF more, new, old, m, was
  <2>5. /\ old \o more \in Seq(Bytes \cup {EOF}) /\ Len(old \o more) = n
        /\ \A i \in 1 .. n : (old \o more)[i] = IF i <= m THEN old[i] ELSE more[i - m]
    BY <1>1, <1>2, <2>1, <2>4
  <2>6. ASSUME NEW i \in 1 .. n PROVE new[i] = (old \o more)[i]
    <3>1. new[i] = i
      BY <1>3, <2>1 DEF Item
    <3>2. CASE i <= m
      BY <1>1, <1>2, <2>1, <2>5, <3>1, <3>2 DEF Item
    <3>3. CASE ~(i <= m)
      <4>1. i - m \in 1 .. n - m
        BY <1>1, <3>3
      <4>2. more[i - m] = m + (i - m) /\ m + (i - m) = i
        BY <1>1, <2>4, <4>1
      <4>3. (old \o more)[i] = more[i - m]
        BY <2>5, <3>3
      <4> QED BY <3>1, <4>2, <4>3
    <3> QED BY <3>2, <3>3
  <2>7. new = old \o more
    <3> DEFINE both == old \o more
    <3>1. both \in Seq(Bytes \cup {EOF}) /\ Len(both) = n /\ \A i \in 1 .. n : new[i] = both[i]
      BY <2>5, <2>6
    <3> HIDE DEF both
    <3>2. new \in Seq(Bytes \cup {EOF}) /\ Len(new) = n
      BY <1>3, <2>1
    <3>3. new = both
      BY <3>1, <3>2, SeqEqual
    <3> QED BY <3>3 DEF both
  <2> QED BY <1>1, <2>3, <2>7 DEF new
<1>6. CASE n = m /\ over /\ ~was
  <2>1. Count(over) = 1 /\ Count(was) = 0 /\ <<EOF>> \in Seq(Bytes \cup {EOF}) /\ Len(<<EOF>>) = 1
    BY <1>6 DEF Count
  <2>2. <<EOF>> \in Offered(s)
    BY DEF Offered
  <2> HIDE DEF new, old, m, was
  <2>3. /\ old \o <<EOF>> \in Seq(Bytes \cup {EOF}) /\ Len(old \o <<EOF>>) = n + 1
        /\ \A i \in 1 .. n : (old \o <<EOF>>)[i] = old[i]
        /\ (old \o <<EOF>>)[n + 1] = EOF
    BY <1>1, <1>2, <1>6, <2>1
  <2>4. ASSUME NEW i \in 1 .. n + 1 PROVE new[i] = (old \o <<EOF>>)[i]
    <3>1. new[i] = Item(n, i)
      BY <1>3, <2>1
    <3>2. CASE i <= n
      BY <1>2, <1>6, <2>1, <2>3, <3>1, <3>2
    <3>3. CASE i = n + 1
      BY <2>3, <3>1, <3>3 DEF Item
    <3>4. i <= n \/ i = n + 1
      OBVIOUS
    <3> QED BY <3>2, <3>3, <3>4
  <2>5. new = old \o <<EOF>>
    BY <1>3, <2>1, <2>3, <2>4, SeqEqual
  <2> QED BY <1>1, <2>2, <2>5 DEF new
<1>7. over = was \/ (over /\ ~was) \/ (~over /\ was)
  BY <1>1
<1> QED BY <1>4, <1>5, <1>6, <1>7 DEF Hands

\* What an engine transmits of its stream is outstanding.
LEMMA OutItemsAre ==
    ASSUME NEW s \in Sides, NEW e, NEW v \in Views, Settled(e, v), v.base = First(s),
           NEW x \in OutItems(s, e.out)
    PROVE  /\ x[1] \in Nat /\ x = <<x[1], Item(v.sent, x[1])>>
           /\ sub(e.snd_una, First(s)) < x[1] /\ x[1] <= sub(e.snd_nxt, First(s))
<1> DEFINE una == sub(e.snd_una, First(s))
           nxt == sub(e.snd_nxt, First(s))
           n == v.sent
<1>1. Says(e, v) /\ e.out \in Seq(SegmentRecords) /\ n \in Nat /\ una \in Nat /\ nxt \in Nat
  BY SettledReads, Reads, ViewReads
<1>2. PICK k \in 1 .. Len(e.out) :
         /\ "RST" \notin e.out[k].flags
         /\ x \in ItemsOf(s, e.out[k].seq, e.out[k].payload, "FIN" \in e.out[k].flags)
  BY <1>1 DEF OutItems, Carrying, Range
<1> DEFINE seg == e.out[k]
           fin == "FIN" \in seg.flags
           at == sub(seg.seq, First(s))
<1>3. seg \in SegmentRecords
  BY <1>1
<1>4. /\ seg.seq \in SeqNums /\ seg.payload \in Seq(Bytes) /\ Len(seg.payload) \in Nat
      /\ fin => seg.payload = <<>>
  BY <1>3, SegmentIs
<1>5. Genuine(seg, First(s), n, nxt) /\ Recent(seg, e, v)
  BY <1>1 DEF Says
<1>6. /\ Len(seg.payload) > 0 => at + Len(seg.payload) <= n /\ at + Len(seg.payload) <= nxt
      /\ From(at, seg.payload)
      /\ fin => at = n /\ nxt = n + 1
  BY <1>2, <1>4, <1>5 DEF Genuine, From
<1>7. Len(seg.payload) > 0 \/ fin => una <= at
  BY <1>2, <1>5 DEF Recent
<1>8. x \in ItemsOf(s, seg.seq, seg.payload, fin) /\ fin \in BOOLEAN /\ at \in Nat
  BY <1>2, <1>4, Firsts, Position
<1> HIDE DEF seg, fin, una, nxt, n, at
<1>9. /\ x[1] \in Nat /\ x = <<x[1], Item(n, x[1])>> /\ at < x[1]
      /\ \/ \E j \in 1 .. Len(seg.payload) : x[1] = at + j
         \/ fin /\ x[1] = n + 1
  <2>1. Len(seg.payload) > 0 => sub(seg.seq, First(s)) + Len(seg.payload) <= n
    BY <1>6 DEF at
  <2>2. From(sub(seg.seq, First(s)), seg.payload)
    BY <1>6 DEF at
  <2>3. fin => sub(seg.seq, First(s)) = n /\ seg.payload = <<>>
    BY <1>4, <1>6 DEF at
  <2> QED BY <1>1, <1>4, <1>8, <2>1, <2>2, <2>3, ItemsAre DEF at
<1>10. una < x[1] /\ x[1] <= nxt
  <2>1. CASE \E j \in 1 .. Len(seg.payload) : x[1] = at + j
    <3>1. PICK j \in 1 .. Len(seg.payload) : x[1] = at + j
      BY <2>1
    <3>2. Len(seg.payload) > 0 /\ j <= Len(seg.payload) /\ j >= 1
      BY <1>4
    <3>3. una <= at /\ at + Len(seg.payload) <= nxt
      BY <1>6, <1>7, <3>2
    <3> QED BY <1>1, <1>4, <1>8, <3>1, <3>2, <3>3
  <2>2. CASE fin /\ x[1] = n + 1
    BY <1>1, <1>6, <1>7, <1>8, <1>9, <2>2
  <2> QED BY <1>9, <2>1, <2>2
<1> QED BY <1>9, <1>10 DEF una, nxt, n

\* The numbers of the sender go forward, within what its user handed over and
\* what is in flight to it.
LEMMA SenderMoves ==
    ASSUME SingleConnection, IInv, Delivery, NEW s \in Sides,
           NEW acks \in SUBSET Nat, NEW sight \in SUBSET Nat, acks = Fresh(s),
           NEW n, NEW over, NEW e, NEW taken, RunsTo(s, n, over, e, taken, acks, sight)
    PROVE  /\ \/ Before(s, eng'[s].snd_una) = Before(s, eng[s].snd_una)
              \/ /\ Before(s, eng'[s].snd_una) \in AcksOnWire(s)
                 /\ Before(s, eng[s].snd_una) < Before(s, eng'[s].snd_una)
                 /\ Before(s, eng'[s].snd_una) <= Before(s, eng[s].snd_nxt)
           /\ Before(s, eng'[s].snd_nxt) \in Before(s, eng[s].snd_nxt) .. n + Count(over)
<1> DEFINE v == Finer(s, n, over, acks, sight)
           una == Before(s, eng[s].snd_una)
           next == Before(s, eng'[s].snd_una)
           nxt == Before(s, eng[s].snd_nxt)
           then == Before(s, eng'[s].snd_nxt)
<1>2. /\ v \in Views /\ Settled(e, v) /\ Typed(e) /\ n \in Nat /\ over \in BOOLEAN
      /\ eng'[s].snd_una = e.snd_una /\ eng'[s].snd_nxt = e.snd_nxt
  <2>1. /\ v \in Views /\ Settled(e, v) /\ Typed(e) /\ n \in Nat /\ over \in BOOLEAN
        /\ After(s, n, over, e, taken)
    BY EntryReads
  <2> QED BY <2>1 DEF After
<1>3. /\ v.base = First(s) /\ v.sent = n /\ v.ended = over /\ v.acks = acks
      /\ v.taken = sub(eng[Peer(s)].rcv_nxt, First(s)) /\ v.snd = sub(eng[s].snd_nxt, First(s))
  BY FinerIs
<1>4. /\ e.snd_una \in SeqNums /\ e.snd_nxt \in SeqNums
      /\ eng[s].snd_una \in SeqNums /\ eng[s].snd_nxt \in SeqNums
  BY <1>2, SideReads, Reads
<1>5. /\ next = sub(e.snd_una, First(s)) /\ then = sub(e.snd_nxt, First(s))
      /\ nxt = sub(eng[s].snd_nxt, First(s))
      /\ una \in Nat /\ next \in Nat /\ nxt \in Nat /\ then \in Nat
  BY <1>2, <1>4, BeforeIs
<1> HIDE DEF v, una, next, nxt, then
<1>6. next \in Fresh(s) /\ next <= v.taken
  <2>1. sub(e.snd_una, v.base) \in v.acks
    BY <1>2 DEF Settled, Connected, Talking, Talks, Sender, Shut
  <2>2. sub(e.snd_una, v.base) <= v.taken
    BY <1>2, SettledReads
  <2> QED BY <1>3, <1>5, <2>1, <2>2
<1>7. v.taken <= nxt /\ v.taken \in Nat
  <2>1. /\ Len(eng[Peer(s)].stream) = sub(eng[Peer(s)].rcv_nxt, First(s))
        /\ Len(eng[Peer(s)].stream) <= sub(eng[s].snd_nxt, First(s))
    BY ToldIs
  <2> QED BY <1>2, <1>3, <1>5, <2>1, ViewReads
<1>8. next = una \/ (next \in AcksOnWire(s) /\ una < next /\ next <= nxt)
  <2>1. next \in {una} \cup AcksOnWire(s) /\ una <= next
    BY <1>6 DEF Fresh, una
  <2> QED BY <1>5, <1>6, <1>7, <2>1
<1>9. nxt <= then
  BY <1>2, <1>3, <1>5, SettledReads DEF Says
<1>10. then <= n + Count(over)
  <2>1. then <= n + 1 /\ (then = n + 1 => over)
    BY <1>2, <1>3, <1>5, SettledReads
  <2>2. over => Count(over) = 1
    BY DEF Count
  <2>3. Count(over) \in 0 .. 1
    BY DEF Count
  <2> QED BY <1>2, <1>5, <2>1, <2>2, <2>3
<1>11. Count(over) \in 0 .. 1
  BY DEF Count
<1>12. then \in nxt .. n + Count(over)
  BY <1>2, <1>5, <1>9, <1>10, <1>11
<1> QED BY <1>8, <1>12 DEF una, next, nxt, then

\* An entry into the sending engine is a step of the sender.
LEMMA SenderSteps ==
    ASSUME SingleConnection, IInv, Delivery,
           NEW acks \in SUBSET Nat, NEW sight \in SUBSET Nat, acks = Fresh("A"),
           Entered("A", acks, sight)
    PROVE  AToB!SenderStep
<1> DEFINE s == "A"
<1>1. s \in Sides /\ Peer(s) = "B" /\ Peer(Peer(s)) = s
  BY DEF Sides, Peer
<1>2. PICK n, over, e, taken : RunsTo(s, n, over, e, taken, acks, sight)
  BY DEF Entered
<1> DEFINE v == Finer(s, n, over, acks, sight)
           una == Before(s, eng[s].snd_una)
           next == Before(s, eng'[s].snd_una)
           nxt == Before(s, eng[s].snd_nxt)
           then == Before(s, eng'[s].snd_nxt)
           all == StreamOf(n, over)
           out == OutItems(s, e.out)
<1>4. /\ v \in Views /\ Settled(e, v) /\ Typed(e)
      /\ n \in Nat /\ n <= SEND_LIMIT[s] /\ over \in BOOLEAN /\ Hands(s, n, over)
      /\ eng'["B"] = eng["B"] /\ net'[s] = taken /\ BagToSet(taken) \subseteq BagToSet(net[s])
      /\ net'["B"] = net["B"] (+) BagOf(e.out)
      /\ sent'[s] = n /\ ended'[s] = over
      /\ eng'[s].snd_una = e.snd_una /\ eng'[s].snd_nxt = e.snd_nxt
  <2>1. /\ v \in Views /\ Settled(e, v) /\ Typed(e)
        /\ n \in Nat /\ n <= SEND_LIMIT[s] /\ over \in BOOLEAN /\ Hands(s, n, over)
        /\ After(s, n, over, e, taken)
    BY <1>1, <1>2, EntryReads
  <2> HIDE DEF v
  <2> QED BY <1>1, <2>1 DEF After
<1>5. Accepted(s)' = all
  BY <1>4, Zenon DEF Accepted, StreamOf
<1>6. /\ Len(all) = n + Count(over) /\ Count(over) \in 0 .. 1 /\ SEND_LIMIT[s] \in Nat
      /\ \A i \in 1 .. Len(all) : all[i] = Item(n, i)
  <2>1. Len(all) = n + Count(over) /\ \A i \in 1 .. Len(all) : all[i] = Item(n, i)
    BY <1>4, StreamIs
  <2>2. Count(over) \in 0 .. 1
    BY DEF Count
  <2> QED BY <1>1, <2>1, <2>2, PairAssumption
<1>7. v.base = First(s) /\ v.sent = n
  BY FinerIs
<1>8. /\ e.out \in Seq(SegmentRecords) /\ e.snd_una \in SeqNums /\ e.snd_nxt \in SeqNums
      /\ eng[s].snd_una \in SeqNums /\ eng[s].snd_nxt \in SeqNums
  BY <1>1, <1>4, Reads, SideReads
<1>9. /\ next = sub(e.snd_una, First(s)) /\ then = sub(e.snd_nxt, First(s))
      /\ una \in Nat /\ next \in Nat /\ nxt \in Nat /\ then \in Nat
  BY <1>1, <1>4, <1>8, BeforeIs
<1>10. /\ next = una \/ (next \in AcksOnWire(s) /\ una < next /\ next <= nxt)
       /\ then \in nxt .. Len(all)
  BY <1>1, <1>2, <1>6, SenderMoves
<1>11. \E more \in Offered(s) \cup {<<>>} : all = Accepted(s) \o more
  BY <1>1, <1>4, StreamGrows
<1>12. Len(all) <= SEND_LIMIT[s] + 1
  BY <1>4, <1>6
<1>13. OnWire(s)' = OnWire(s) \cup out
  BY <1>1, <1>4, <1>8, WireGains
<1>14. AcksOnWire(s)' \subseteq AcksOnWire(s)
  BY <1>4, WireShrinks
<1>15. Held(s)' = Held(s)
  BY <1>1, <1>4, Zenon DEF Held, ItemsOf, Before
<1>16. out \subseteq {<<i, all[i]>> : i \in (next + 1) .. then}
  <2> SUFFICES ASSUME NEW x \in out PROVE \E i \in (next + 1) .. then : x = <<i, all[i]>>
    OBVIOUS
  <2>1. /\ x[1] \in Nat /\ x = <<x[1], Item(n, x[1])>>
        /\ next < x[1] /\ x[1] <= then
    BY <1>1, <1>4, <1>7, <1>9, OutItemsAre
  <2> HIDE DEF all, next, then, out
  <2>2. x[1] \in (next + 1) .. then /\ x[1] \in 1 .. Len(all)
    BY <1>4, <1>6, <1>9, <1>10, <2>1
  <2>3. x = <<x[1], all[x[1]]>>
    BY <1>6, <2>1, <2>2
  <2> QED BY <2>2, <2>3
<1> HIDE DEF v, out, all
<1>17. /\ \E more \in Offered("A") \cup {<<>>} : Accepted("A")' = Accepted("A") \o more
       /\ Len(Accepted("A")') <= SEND_LIMIT["A"] + 1
       /\ Before("A", eng["A"].snd_una)' \in {Before("A", eng["A"].snd_una)} \cup
            {a \in AcksOnWire("A") : Before("A", eng["A"].snd_una) < a
                                     /\ a <= Before("A", eng["A"].snd_nxt)}
       /\ Before("A", eng["A"].snd_nxt)' \in Before("A", eng["A"].snd_nxt) .. Len(Accepted("A")')
  <2>1. Before("A", eng["A"].snd_una)' = next /\ Before("A", eng["A"].snd_nxt)' = then
    BY DEF Before
  <2> QED BY <1>5, <1>10, <1>11, <1>12, <2>1
<1>18. \E new \in SUBSET {<<i, Accepted("A")'[i]>> :
                             i \in (Before("A", eng["A"].snd_una)' + 1) .. Before("A", eng["A"].snd_nxt)'} :
          OnWire("A")' = OnWire("A") \cup new
  <2>1. Before("A", eng["A"].snd_una)' = next /\ Before("A", eng["A"].snd_nxt)' = then
    BY DEF Before
  <2> QED BY <1>5, <1>13, <1>16, <2>1, Zenon
<1> QED BY <1>4, <1>14, <1>15, <1>17, <1>18, Zenon DEF AToB!SenderStep, AToB!Acceptable, AToB!Outstanding

\* What an engine transmits acknowledges no less than it had taken, and no more
\* than it has.
LEMMA OutAcksAre ==
    ASSUME NEW s \in Sides, NEW e, NEW v \in Views, Settled(e, v), v.pbase = First(s),
           NEW a \in OutAcks(s, e.out)
    PROVE  a \in Nat /\ v.rcv <= a /\ a <= sub(e.rcv_nxt, First(s))
<1>1. Says(e, v) /\ e.out \in Seq(SegmentRecords)
  BY SettledReads, Reads
<1>2. PICK k \in 1 .. Len(e.out) : "RST" \notin e.out[k].flags /\ a = Before(s, e.out[k].ack)
  BY <1>1 DEF OutAcks, Carrying, Range
<1> DEFINE seg == e.out[k]
<1>3. seg \in SegmentRecords
  BY <1>1
<1>4. seg.ack \in SeqNums
  BY <1>3, SegmentIs
<1>5. Honest(seg, First(s), sub(e.rcv_nxt, First(s))) /\ Recent(seg, e, v)
  BY <1>1 DEF Says
<1>6. a = sub(seg.ack, First(s)) /\ a \in Nat
  BY <1>2, <1>4, BeforeIs
<1> QED BY <1>2, <1>5, <1>6 DEF Honest, Recent

\* A receiver goes on with the items it kept and those in flight to it, and
\* keeps others of them.
LEMMA ReceiverMoves ==
    ASSUME SingleConnection, IInv, Delivery, NEW t \in Sides, NEW s \in Sides, s = Peer(t),
           NEW acks \in SUBSET Nat, NEW sight \in SUBSET Nat, sight = InReach(t),
           NEW n, NEW over, NEW e, NEW taken, RunsTo(t, n, over, e, taken, acks, sight)
    PROVE  /\ e.stream \in Seq(Bytes \cup {EOF}) /\ Len(eng[t].stream) <= Len(e.stream)
           /\ Len(e.stream) <= sent[s] + 1 /\ Len(e.stream) = sub(e.rcv_nxt, First(s))
           /\ \A i \in 1 .. Len(e.stream) : e.stream[i] = Item(sent[s], i)
           /\ \A i \in 1 .. Len(e.stream) :
                 i > Len(eng[t].stream) => <<i, Item(sent[s], i)>> \in Held(s) \cup OnWire(s)
           /\ HeldIn(s, e) \subseteq Held(s) \cup OnWire(s)
<1> DEFINE v == Finer(t, n, over, acks, sight)
           old == eng[t].stream
           new == e.stream
           all == Held(s) \cup OnWire(s)
           m == sent[s]
<1>1. v \in Views /\ Settled(e, v)
  BY EntryReads
<1>2. v.pbase = First(s) /\ v.psent = m /\ v.sight = sight /\ v.rcv = sub(eng[t].rcv_nxt, First(s))
  BY FinerIs
<1>3. Typed(e) /\ Receiver(e, v) /\ Says(e, v)
  BY <1>1, SettledReads
<1> HIDE DEF v
<1>4. Peer(s) = t
  BY PeerOf
<1>5. Len(old) = v.rcv /\ Len(old) \in Nat
  BY <1>2, <1>4, ToldIs
<1>6. new \in Seq(Bytes \cup {EOF}) /\ Len(new) \in Nat
  BY <1>3, Reads
<1>7. /\ Len(new) = sub(e.rcv_nxt, First(s)) /\ Len(new) <= v.pnxt
      /\ \A i \in 1 .. Len(new) : new[i] = Item(m, i) /\ (i > v.rcv => i \in sight)
  BY <1>2, <1>3 DEF Receiver, Relayed
<1>8. v.pnxt \in Nat /\ v.pnxt <= m + 1 /\ m \in Nat
  BY <1>1, <1>2, ViewReads
<1>9. v.rcv <= Len(new)
  BY <1>2, <1>3, <1>7 DEF Says
<1>10. ASSUME NEW i \in sight PROVE <<i, Item(m, i)>> \in all
  <2>1. PICK x \in all : x[1] = i
    BY <1>4 DEF InReach, Places
  <2>2. x = <<x[1], Item(m, x[1])>>
    BY OnWireGenuine
  <2> QED BY <2>1, <2>2
<1>11. ASSUME NEW x \in HeldIn(s, e) PROVE x \in all
  <2>1. x[1] \in sight /\ x = <<x[1], Item(m, x[1])>>
    BY <1>1, <1>2, <1>3, KeptItems
  <2> QED BY <1>10, <2>1
<1> HIDE DEF old, new, all, m
<1>12. Len(old) <= Len(new) /\ Len(new) <= m + 1
  BY <1>5, <1>6, <1>7, <1>8, <1>9
<1>13. \A i \in 1 .. Len(new) : new[i] = Item(m, i) /\ (i > Len(old) => <<i, Item(m, i)>> \in all)
  BY <1>5, <1>7, <1>10
<1> QED BY <1>6, <1>7, <1>11, <1>12, <1>13 DEF old, new, all, m

\* What is in reach at a place is the item of the stream there.
LEMMA ReachIs ==
    ASSUME IInv, Delivery, NEW i, NEW x, <<i, x>> \in Held("A") \cup OnWire("A")
    PROVE  /\ i \in Nat /\ x = Item(sent["A"], i) /\ x \in (1 .. SEND_LIMIT["A"]) \cup {EOF}
           /\ AToB!InSight(i) /\ AToB!ItemAt(i) = x
<1> DEFINE all == Held("A") \cup OnWire("A")
           m == sent["A"]
           items == (1 .. SEND_LIMIT["A"]) \cup {EOF}
<1>1. "A" \in Sides
  BY DEF Sides
<1>2. m \in Nat /\ m <= SEND_LIMIT["A"] /\ SEND_LIMIT["A"] \in Nat
  BY <1>1, PairAssumption DEF IInv, HistoryTyped, Delivery, SideInv
<1>3. \A y \in all : y[1] \in Nat /\ y[1] \in 1 .. m + 1 /\ y = <<y[1], Item(m, y[1])>>
  BY <1>1, OnWireGenuine
<1> HIDE DEF all, m
<1>4. \A j, y : <<j, y>> \in all => j \in 1 .. m + 1 /\ y = Item(m, j)
  <2> SUFFICES ASSUME NEW j, NEW y, <<j, y>> \in all PROVE j \in 1 .. m + 1 /\ y = Item(m, j)
    OBVIOUS
  <2>1. <<j, y>>[1] = j /\ <<j, y>>[2] = y
    OBVIOUS
  <2>2. <<j, y>>[1] \in 1 .. m + 1 /\ <<j, y>> = <<<<j, y>>[1], Item(m, <<j, y>>[1])>>
    BY <1>3
  <2> QED BY <2>1, <2>2
<1>5. i \in 1 .. m + 1 /\ x = Item(m, i)
  BY <1>4 DEF all
<1>6. x \in items
  BY <1>2, <1>5 DEF Item
<1>7. AToB!InSight(i)
  BY <1>6, Zenon DEF AToB!InSight, AToB!Reachable
<1>8. \A y \in items : <<i, y>> \in all <=> y = x
  BY <1>4, <1>5 DEF all
<1>9. (CHOOSE y \in items : <<i, y>> \in all) = x
  BY <1>6, <1>8
<1>10. AToB!ItemAt(i) = x
  BY <1>9, Zenon DEF AToB!ItemAt, AToB!Reachable, all
<1> QED BY <1>2, <1>5, <1>6, <1>7, <1>10 DEF m

\* An entry into the receiving engine is a step of the receiver.
LEMMA ReceiverSteps ==
    ASSUME SingleConnection, IInv, Delivery,
           NEW acks \in SUBSET Nat, NEW sight \in SUBSET Nat, sight = InReach("B"),
           Entered("B", acks, sight)
    PROVE  AToB!ReceiverStep
<1> DEFINE t == "B"
           s == "A"
<1>1. s \in Sides /\ t \in Sides /\ Peer(s) = t /\ Peer(t) = s
  BY DEF Sides, Peer
<1>2. PICK n, over, e, taken : RunsTo(t, n, over, e, taken, acks, sight)
  BY DEF Entered
<1> DEFINE v == Finer(t, n, over, acks, sight)
           old == eng[t].stream
           new == e.stream
           all == Held(s) \cup OnWire(s)
           m == sent[s]
           out == OutAcks(s, e.out)
<1>3. /\ v \in Views /\ Settled(e, v) /\ Typed(e)
      /\ eng'[s] = eng[s] /\ net'[t] = taken /\ BagToSet(taken) \subseteq BagToSet(net[t])
      /\ net'[s] = net[s] (+) BagOf(e.out)
      /\ sent'[s] = m /\ ended'[s] = ended[s]
      /\ eng'[t].stream = new /\ eng'[t].ooo = e.ooo /\ eng'[t].pending_fin = e.pending_fin
  <2>1. v \in Views /\ Settled(e, v) /\ Typed(e) /\ After(t, n, over, e, taken)
    BY <1>1, <1>2, EntryReads
  <2> HIDE DEF v
  <2> QED BY <1>1, <2>1 DEF After
<1>4. /\ new \in Seq(Bytes \cup {EOF}) /\ Len(old) <= Len(new)
      /\ Len(new) <= m + 1 /\ Len(new) = sub(e.rcv_nxt, First(s))
      /\ \A i \in 1 .. Len(new) : new[i] = Item(m, i)
      /\ \A i \in 1 .. Len(new) : i > Len(old) => <<i, Item(m, i)>> \in all
      /\ HeldIn(s, e) \subseteq all
  BY <1>1, <1>2, ReceiverMoves
<1>5. /\ old \in Seq(Bytes \cup {EOF}) /\ Len(old) \in Nat
      /\ Len(old) = sub(eng[t].rcv_nxt, First(s))
      /\ \A i \in 1 .. Len(old) : old[i] = Item(m, i)
  BY <1>1, ToldIs
<1>6. m \in Nat /\ m <= SEND_LIMIT[s] /\ SEND_LIMIT[s] \in Nat
  BY <1>1, PairAssumption DEF IInv, HistoryTyped, Delivery, SideInv
<1>7. v.pbase = First(s) /\ v.rcv = Len(old)
  BY <1>1, <1>5, FinerIs
<1>8. e.out \in Seq(SegmentRecords)
  BY <1>3, Reads
<1>9. OnWire(s)' \subseteq OnWire(s)
  BY <1>1, <1>3, ItemsShrink
<1>10. AcksOnWire(s)' = AcksOnWire(s) \cup out
  BY <1>3, <1>8, AcksGain
<1>11. out \subseteq Len(old) .. Len(new)
  <2> SUFFICES ASSUME NEW a \in out PROVE a \in Len(old) .. Len(new)
    OBVIOUS
  <2>1. a \in Nat /\ v.rcv <= a /\ a <= sub(e.rcv_nxt, First(s))
    BY <1>1, <1>3, <1>7, OutAcksAre
  <2> HIDE DEF v, old, new, out
  <2> QED BY <1>4, <1>5, <1>7, <2>1
<1>12. Held(s)' = HeldIn(s, e)
  <2>1. Held(s)' = HeldIn(s, eng'[Peer(s)])
    BY Zenon DEF Held, HeldIn, ItemsOf, Before
  <2>2. HeldIn(s, eng'[Peer(s)]) = HeldIn(s, eng'[t])
    BY <1>1, Zenon
  <2>3. HeldIn(s, eng'[t]) = HeldIn(s, e)
    BY <1>3, Zenon DEF HeldIn
  <2> QED BY <2>1, <2>2, <2>3, Zenon
<1>13. Accepted(s)' = Accepted(s)
  BY <1>3, Zenon DEF Accepted
<1> HIDE DEF v, old, new, all, out, m
<1> DEFINE k == Len(new) - Len(old)
<1>14. k \in 0 .. SEND_LIMIT[s] + 1 /\ Len(new) \in Nat
  BY <1>4, <1>5, <1>6
<1>15. ASSUME NEW i \in 1 .. k
       PROVE  /\ AToB!InSight(Len(old) + i) /\ AToB!ItemAt(Len(old) + i) = new[Len(old) + i]
              /\ new[Len(old) + i] \in Bytes \cup {EOF}
  <2>1. Len(old) + i \in 1 .. Len(new) /\ Len(old) + i > Len(old)
    BY <1>5, <1>14
  <2> DEFINE j == Len(old) + i
  <2>2. <<j, new[j]>> \in all /\ new[j] \in Bytes \cup {EOF}
    <3> HIDE DEF j
    <3> QED BY <1>4, <2>1 DEF j
  <2> HIDE DEF j
  <2>3. AToB!InSight(j) /\ AToB!ItemAt(j) = new[j]
    BY <2>2, ReachIs DEF all
  <2> QED BY <2>2, <2>3 DEF j
<1> DEFINE run == [i \in 1 .. k |-> AToB!ItemAt(Len(old) + i)]
<1>16. new = old \o run
  <2>1. \A i \in 1 .. k : run[i] = new[Len(old) + i] /\ run[i] \in Bytes \cup {EOF}
    BY <1>15, Zenon
  <2>2. run = [i \in 1 .. k |-> run[i]]
    OBVIOUS
  <2> HIDE DEF run
  <2>3. run \in Seq(Bytes \cup {EOF}) /\ Len(run) = k
    BY <1>14, <2>1, <2>2
  <2>4. /\ old \o run \in Seq(Bytes \cup {EOF}) /\ Len(old \o run) = Len(old) + k
        /\ \A i \in 1 .. Len(old) + k :
              (old \o run)[i] = IF i <= Len(old) THEN old[i] ELSE run[i - Len(old)]
    BY <1>5, <1>14, <2>3
  <2>5. Len(new) = Len(old) + k
    BY <1>5, <1>14
  <2> HIDE DEF k
  <2>6. ASSUME NEW i \in 1 .. Len(new) PROVE new[i] = (old \o run)[i]
    <3>1. CASE i <= Len(old)
      BY <1>4, <1>5, <2>4, <2>5, <3>1
    <3>2. CASE ~(i <= Len(old))
      <4>1. i - Len(old) \in 1 .. k /\ Len(old) + (i - Len(old)) = i
        BY <1>5, <1>14, <2>5, <3>2
      <4>2. run[i - Len(old)] = new[i]
        BY <2>1, <4>1
      <4> QED BY <2>4, <2>5, <3>2, <4>2
    <3> QED BY <3>1, <3>2
  <2> QED BY <1>4, <2>4, <2>5, <2>6, SeqEqual
<1>17. \E i \in 0 .. SEND_LIMIT["A"] + 1 :
          /\ \A j \in 1 .. i : AToB!InSight(Len(eng["B"].stream) + j)
          /\ eng'["B"].stream = eng["B"].stream \o [j \in 1 .. i |-> AToB!ItemAt(Len(eng["B"].stream) + j)]
  <2>1. \A i \in 1 .. k : AToB!InSight(Len(eng["B"].stream) + i)
    BY <1>15 DEF old
  <2>2. eng'["B"].stream = eng["B"].stream \o [j \in 1 .. k |-> AToB!ItemAt(Len(eng["B"].stream) + j)]
    BY <1>3, <1>16, Zenon DEF old
  <2> HIDE DEF k
  <2> QED BY <1>14, <2>1, <2>2
<1>18. Held("A")' \in SUBSET (Held("A") \cup OnWire("A"))
  BY <1>4, <1>12 DEF all
<1>19. \E found \in SUBSET (Len(eng["B"].stream) .. Len(eng'["B"].stream)) :
          AcksOnWire("A")' = AcksOnWire("A") \cup found
  BY <1>3, <1>10, <1>11 DEF old
<1>20. /\ Accepted("A")' = Accepted("A")
       /\ Before("A", eng["A"].snd_una)' = Before("A", eng["A"].snd_una)
       /\ Before("A", eng["A"].snd_nxt)' = Before("A", eng["A"].snd_nxt)
  BY <1>3, <1>13 DEF Before
<1> QED BY <1>9, <1>17, <1>18, <1>19, <1>20, Zenon DEF AToB!ReceiverStep, AToB!Reachable

\* While the engines rest, so does all but the wire.
LEMMA Stays ==
    ASSUME UNCHANGED <<eng, sent, ended>>
    PROVE  /\ Accepted("A")' = Accepted("A") /\ Held("A")' = Held("A")
           /\ Before("A", eng["A"].snd_una)' = Before("A", eng["A"].snd_una)
           /\ Before("A", eng["A"].snd_nxt)' = Before("A", eng["A"].snd_nxt)
           /\ eng'["B"].stream = eng["B"].stream
<1>1. eng' = eng /\ sent' = sent /\ ended' = ended
  OBVIOUS
<1>2. Accepted("A")' = Accepted("A")
  BY <1>1, Zenon DEF Accepted
<1>3. Held("A")' = Held("A")
  <2>1. Held("A") = HeldIn("A", eng[Peer("A")])
    BY Zenon DEF Held, HeldIn
  <2>2. Held("A")' = HeldIn("A", eng'[Peer("A")])
    BY Zenon DEF Held, HeldIn, ItemsOf, Before
  <2> QED BY <1>1, <2>1, <2>2, Zenon
<1>4. /\ Before("A", eng["A"].snd_una)' = Before("A", eng["A"].snd_una)
      /\ Before("A", eng["A"].snd_nxt)' = Before("A", eng["A"].snd_nxt)
  BY <1>1, Zenon DEF Before
<1> QED BY <1>1, <1>2, <1>3, <1>4

\* When nobody's engine moves, and the wire carries no more than it did.
LEMMA WireSteps ==
    ASSUME IInv, NEW s \in Sides, Lose(s) \/ Duplicate(s)
    PROVE  AToB!Lose
<1>1. ASSUME NEW bag, BagToSet(bag) \subseteq BagToSet(net[s]),
             net' = [net EXCEPT ![s] = bag], UNCHANGED <<eng, sent, ended>>
      PROVE  AToB!Lose
  <2>1. \A t \in Sides : BagToSet(net'[t]) \subseteq BagToSet(net[t])
    BY <1>1 DEF IInv, WireSound
  <2>2. OnWire("A")' \subseteq OnWire("A") /\ AcksOnWire("A")' \subseteq AcksOnWire("A")
    BY <2>1, WireShrinks, ItemsShrink DEF Sides, Peer
  <2>3. /\ Accepted("A")' = Accepted("A") /\ Held("A")' = Held("A")
        /\ Before("A", eng["A"].snd_una)' = Before("A", eng["A"].snd_una)
        /\ Before("A", eng["A"].snd_nxt)' = Before("A", eng["A"].snd_nxt)
        /\ eng'["B"].stream = eng["B"].stream
    BY <1>1, Stays
  <2> QED BY <2>2, <2>3, Zenon DEF AToB!Lose
<1>2. CASE Lose(s)
  <2>1. PICK seg \in BagToSet(net[s]) : net' = [net EXCEPT ![s] = net[s] (-) SetToBag({seg})]
    BY <1>2 DEF Lose
  <2>2. BagToSet(net[s] (-) SetToBag({seg})) \subseteq BagToSet(net[s])
    BY DEF BagToSet, (-), SetToBag
  <2> QED BY <1>1, <1>2, <2>1, <2>2 DEF Lose
<1>3. CASE Duplicate(s)
  <2>1. PICK seg \in BagToSet(net[s]) : net' = [net EXCEPT ![s] = net[s] (+) SetToBag({seg})]
    BY <1>3 DEF Duplicate
  <2>2. BagToSet(net[s] (+) SetToBag({seg})) \subseteq BagToSet(net[s])
    BY <2>1 DEF BagToSet, (+), SetToBag
  <2> QED BY <1>1, <1>3, <2>1, <2>2 DEF Duplicate
<1> QED BY <1>2, <1>3

\* Every step of the pair is a step of the stream, or leaves it alone.
LEMMA StepStreams ==
    ASSUME SingleConnection, IInv, Delivery, [Next]_vars
    PROVE  [AToB!Next]_(AToB!vars)
<1>1. ASSUME NEW s \in Sides, User(s) \/ Arrive(s) \/ Timers(s)
      PROVE  AToB!Next
  <2>1. PICK acks \in SUBSET Nat, sight \in SUBSET Nat :
           acks = Fresh(s) /\ sight = InReach(s)
    BY KnowsFine
  <2>2. Knows(s, acks, sight)
    BY <2>1, KnowsFine
  <2>3. Entered(s, acks, sight)
    BY <1>1, <2>2, StepEnters
  <2>4. CASE s = "A"
    <3>1. AToB!SenderStep
      BY <2>1, <2>3, <2>4, SenderSteps
    <3> QED BY <3>1 DEF AToB!Next
  <2>5. CASE s = "B"
    <3>1. AToB!ReceiverStep
      BY <2>1, <2>3, <2>5, ReceiverSteps
    <3> QED BY <3>1 DEF AToB!Next
  <2> QED BY <2>4, <2>5 DEF Sides
<1>2. ASSUME NEW s \in Sides, Lose(s) \/ Duplicate(s)
      PROVE  AToB!Next
  <2>1. AToB!Lose
    BY <1>2, WireSteps
  <2> QED BY <2>1 DEF AToB!Next
<1>3. CASE Next
  <2>1. AToB!Next
    BY <1>1, <1>2, <1>3 DEF Next, Wire
  <2> QED BY <2>1
<1>4. CASE UNCHANGED vars
  <2>1. UNCHANGED <<eng, net, sent, ended>>
    BY <1>4 DEF vars
  <2>2. OnWire("A")' = OnWire("A") /\ AcksOnWire("A")' = AcksOnWire("A")
    BY <2>1, Zenon DEF OnWire, AcksOnWire, InFlight, ItemsOf, Before
  <2>3. UNCHANGED AToB!vars
    BY <2>1, <2>2, Stays, Zenon DEF AToB!vars
  <2> QED BY <2>3
<1> QED BY <1>3, <1>4

\* The pair starts where the stream does.
LEMMA StartStreams ==
    ASSUME SeededInit
    PROVE  AToB!Init
<1>1. "A" \in Sides /\ "B" \in Sides /\ Peer("A") = "B" /\ Peer("B") = "A"
  BY DEF Sides, Peer
<1>2. First("A") \in SeqNums /\ First("B") \in SeqNums
  BY <1>1, Firsts
<1>3. /\ eng["A"] = SeedEstablished(NewEngine(TRUE), First("A"), First("B"))
      /\ eng["B"] = SeedEstablished(NewEngine(TRUE), First("B"), First("A"))
      /\ net["A"] = EmptyBag /\ net["B"] = EmptyBag /\ sent["A"] = 0 /\ ended["A"] = FALSE
  BY <1>1 DEF SeededInit, First
<1>4. /\ eng["A"].snd_una = First("A") /\ eng["A"].snd_nxt = First("A")
      /\ eng["B"].stream = <<>> /\ eng["B"].ooo = {} /\ eng["B"].pending_fin = None
  BY <1>3 DEF SeedEstablished, NewEngine
<1>5. Before("A", eng["A"].snd_una) = 0 /\ Before("A", eng["A"].snd_nxt) = 0
  <2>1. sub(First("A"), First("A")) = 0
    BY <1>2, Position
  <2> QED BY <1>1, <1>2, <1>4, <2>1, BeforeIs
<1>6. Accepted("A") = <<>>
  <2> DEFINE body == [i \in 1 .. 0 |-> i]
  <2>1. Accepted("A") = body \o <<>>
    BY <1>3 DEF Accepted
  <2>2. body = <<>>
    OBVIOUS
  <2> QED BY <2>1, <2>2
<1>7. OnWire("A") = {} /\ AcksOnWire("A") = {}
  <2>1. BagToSet(EmptyBag) = {}
    BY DEF BagToSet, EmptyBag, SetToBag
  <2>2. InFlight("A") = {} /\ InFlight(Peer("A")) = {}
    BY <1>1, <1>3, <2>1 DEF InFlight
  <2> QED BY <2>2 DEF OnWire, AcksOnWire
<1>8. Held("A") = {}
  <2>1. Held("A") = HeldIn("A", eng["B"])
    BY <1>1 DEF Held, HeldIn
  <2>2. \A x : x \notin HeldIn("A", eng["B"])
    BY <1>4, HeldIs
  <2> QED BY <2>1, <2>2
<1> QED BY <1>4, <1>5, <1>6, <1>7, <1>8, Zenon DEF AToB!Init

\* The direction that leaves A is a TcpStream, at every step and whatever the
\* numbers, windows and timers are: what was shown of TcpStream holds of it
\* (on_segment, send, close, _on_rto, _on_persist and the Wire).
THEOREM Refines == SingleConnection => (SeededSpec => AToBIsAStream)
<1> SUFFICES ASSUME SingleConnection PROVE SeededSpec => AToBIsAStream
  OBVIOUS
<1>1. SeededInit => AToB!Init
  BY StartStreams
<1>2. IInv /\ Delivery /\ [Next]_vars => [AToB!Next]_(AToB!vars)
  BY StepStreams
<1> QED BY <1>1, <1>2, Invariant, Delivers, PTL DEF SeededSpec, AToBIsAStream, AToB!Spec
===============================================================================
