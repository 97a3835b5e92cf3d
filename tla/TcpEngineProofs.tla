---------------------------- MODULE TcpEngineProofs ----------------------------
(***************************************************************************)
(* What each handler of the engine does to the fields of its record, and   *)
(* what follows for every pair of engines, whatever the users ask and the  *)
(* wire does: the fields keep their ranges, and a connection changes its   *)
(* state along the diagram only.                                           *)
(***************************************************************************)
EXTENDS TcpProperties, SequenceTheorems, WellFoundedInduction, TLAPS

\* The most bytes the segmentation loop puts into one segment.
TextMax == Least(MSS, HALF - 1)

\* The flags an engine puts on a segment, and which of them go with text.
FlagSets == {{"SYN"}, {"SYN", "ACK"}, {"ACK"}, {"ACK", "FIN"}, {"RST"}, {"RST", "ACK"}}

MayCarry(flags, payload) ==
    payload = <<>> \/ (flags = {"ACK"} /\ Len(payload) \in 1 .. TextMax)

SegmentRecords ==
    {seg \in [seq : SeqNums, ack : SeqNums, flags : FlagSets, window : 0 .. RCV_WND,
              payload : Seq(Bytes)] : MayCarry(seg.flags, seg.payload)}

\* What waits for its acknowledgment takes at least one number.
QueueEntries ==
    {o \in [seq : SeqNums, flags : {{"SYN"}, {"SYN", "ACK"}, {"ACK"}, {"ACK", "FIN"}},
            payload : Seq(Bytes), retransmitted : BOOLEAN] :
        MayCarry(o.flags, o.payload) /\ (o.flags = {"ACK"} => o.payload # <<>>)}

KeptRecords == {o \in [seq : SeqNums, data : Seq(Bytes)] : Len(o.data) \in 1 .. TextMax}

Noted == SeqNums \cup {None}

EngineTypes ==
    [state |-> States, iss |-> SeqNums, snd_una |-> SeqNums, snd_nxt |-> SeqNums,
     snd_wnd |-> 0 .. RCV_WND, snd_wl1 |-> SeqNums, snd_wl2 |-> SeqNums,
     rcv_nxt |-> SeqNums, app_buf |-> Seq(Bytes), recv_buf |-> Seq(Bytes),
     retx |-> Seq(QueueEntries), ooo |-> SUBSET KeptRecords,
     passive |-> BOOLEAN, remote |-> BOOLEAN, cfg_remote |-> BOOLEAN,
     fin_pending |-> BOOLEAN, fin_sent |-> BOOLEAN, fin_acked |-> BOOLEAN,
     fin_seq |-> SeqNums, pending_fin |-> Noted, rtt_pending |-> Noted,
     zero_win_advertised |-> BOOLEAN, adv_right |-> Noted,
     ack_count |-> 0 .. 1, rto_count |-> 0 .. MAX_RETRANSMITS,
     ka_probes |-> 0 .. KEEPALIVE_COUNT,
     rt_timer |-> BOOLEAN, persist_timer |-> BOOLEAN, tw_timer |-> BOOLEAN,
     ack_timer |-> BOOLEAN, ka_timer |-> BOOLEAN,
     out |-> Seq(SegmentRecords), stream |-> Seq(Bytes \cup {EOF})]

Fields == DOMAIN EngineTypes

\* Every field of an engine keeps its range.
Typed(e) ==
    e = [f \in Fields |-> e[f]] /\ \A f \in Fields : e[f] \in EngineTypes[f]

\* A handler that turns e into n changes no field but those in changed.
Only(e, n, changed) == \A f \in Fields \ changed : n[f] = e[f]

-------------------------------------------------------------------------------
(* Reading and writing the fields of an engine.                            *)

\* The fields, one by one.
LEMMA FieldNames ==
    /\ "state" \in Fields /\ "iss" \in Fields /\ "snd_una" \in Fields
    /\ "snd_nxt" \in Fields /\ "snd_wnd" \in Fields /\ "snd_wl1" \in Fields
    /\ "snd_wl2" \in Fields /\ "rcv_nxt" \in Fields /\ "app_buf" \in Fields
    /\ "recv_buf" \in Fields /\ "retx" \in Fields /\ "ooo" \in Fields
    /\ "passive" \in Fields /\ "remote" \in Fields /\ "cfg_remote" \in Fields
    /\ "fin_pending" \in Fields /\ "fin_sent" \in Fields /\ "fin_acked" \in Fields
    /\ "fin_seq" \in Fields /\ "pending_fin" \in Fields /\ "rtt_pending" \in Fields
    /\ "zero_win_advertised" \in Fields /\ "adv_right" \in Fields /\ "ack_count" \in Fields
    /\ "rto_count" \in Fields /\ "ka_probes" \in Fields /\ "rt_timer" \in Fields
    /\ "persist_timer" \in Fields /\ "tw_timer" \in Fields /\ "ack_timer" \in Fields
    /\ "ka_timer" \in Fields /\ "out" \in Fields /\ "stream" \in Fields
  BY DEF Fields, EngineTypes

\* And the range of each.
LEMMA FieldTypes ==
    /\ EngineTypes["state"] = States
    /\ EngineTypes["iss"] = SeqNums
    /\ EngineTypes["snd_una"] = SeqNums
    /\ EngineTypes["snd_nxt"] = SeqNums
    /\ EngineTypes["snd_wnd"] = 0 .. RCV_WND
    /\ EngineTypes["snd_wl1"] = SeqNums
    /\ EngineTypes["snd_wl2"] = SeqNums
    /\ EngineTypes["rcv_nxt"] = SeqNums
    /\ EngineTypes["app_buf"] = Seq(Bytes)
    /\ EngineTypes["recv_buf"] = Seq(Bytes)
    /\ EngineTypes["retx"] = Seq(QueueEntries)
    /\ EngineTypes["ooo"] = SUBSET KeptRecords
    /\ EngineTypes["passive"] = BOOLEAN
    /\ EngineTypes["remote"] = BOOLEAN
    /\ EngineTypes["cfg_remote"] = BOOLEAN
    /\ EngineTypes["fin_pending"] = BOOLEAN
    /\ EngineTypes["fin_sent"] = BOOLEAN
    /\ EngineTypes["fin_acked"] = BOOLEAN
    /\ EngineTypes["fin_seq"] = SeqNums
    /\ EngineTypes["pending_fin"] = Noted
    /\ EngineTypes["rtt_pending"] = Noted
    /\ EngineTypes["zero_win_advertised"] = BOOLEAN
    /\ EngineTypes["adv_right"] = Noted
    /\ EngineTypes["ack_count"] = 0 .. 1
    /\ EngineTypes["rto_count"] = 0 .. MAX_RETRANSMITS
    /\ EngineTypes["ka_probes"] = 0 .. KEEPALIVE_COUNT
    /\ EngineTypes["rt_timer"] = BOOLEAN
    /\ EngineTypes["persist_timer"] = BOOLEAN
    /\ EngineTypes["tw_timer"] = BOOLEAN
    /\ EngineTypes["ack_timer"] = BOOLEAN
    /\ EngineTypes["ka_timer"] = BOOLEAN
    /\ EngineTypes["out"] = Seq(SegmentRecords)
    /\ EngineTypes["stream"] = Seq(Bytes \cup {EOF})
  BY DEF EngineTypes

\* The ranges of an engine's fields, as facts about the engine.
LEMMA Reads ==
    ASSUME NEW e, Typed(e)
    PROVE
    /\ e.state \in States
    /\ e.iss \in SeqNums
    /\ e.snd_una \in SeqNums
    /\ e.snd_nxt \in SeqNums
    /\ e.snd_wnd \in 0 .. RCV_WND
    /\ e.snd_wl1 \in SeqNums
    /\ e.snd_wl2 \in SeqNums
    /\ e.rcv_nxt \in SeqNums
    /\ e.app_buf \in Seq(Bytes)
    /\ e.recv_buf \in Seq(Bytes)
    /\ e.retx \in Seq(QueueEntries)
    /\ e.ooo \in SUBSET KeptRecords
    /\ e.passive \in BOOLEAN
    /\ e.remote \in BOOLEAN
    /\ e.cfg_remote \in BOOLEAN
    /\ e.fin_pending \in BOOLEAN
    /\ e.fin_sent \in BOOLEAN
    /\ e.fin_acked \in BOOLEAN
    /\ e.fin_seq \in SeqNums
    /\ e.pending_fin \in Noted
    /\ e.rtt_pending \in Noted
    /\ e.zero_win_advertised \in BOOLEAN
    /\ e.adv_right \in Noted
    /\ e.ack_count \in 0 .. 1
    /\ e.rto_count \in 0 .. MAX_RETRANSMITS
    /\ e.ka_probes \in 0 .. KEEPALIVE_COUNT
    /\ e.rt_timer \in BOOLEAN
    /\ e.persist_timer \in BOOLEAN
    /\ e.tw_timer \in BOOLEAN
    /\ e.ack_timer \in BOOLEAN
    /\ e.ka_timer \in BOOLEAN
    /\ e.out \in Seq(SegmentRecords)
    /\ e.stream \in Seq(Bytes \cup {EOF})
  BY FieldNames, FieldTypes, Zenon DEF Typed

\* A change of one field, of several fields: what it leaves alone adds up.
LEMMA OnlyThen ==
    ASSUME NEW e, NEW f, NEW g, NEW S, NEW T, Only(e, f, S), Only(f, g, T)
    PROVE  Only(e, g, S \cup T)
  BY DEF Only

\* And to leave more than that open is to say less.
LEMMA OnlyWithin ==
    ASSUME NEW e, NEW f, NEW S, NEW T, Only(e, f, S), S \subseteq T
    PROVE  Only(e, f, T)
  BY DEF Only

-------------------------------------------------------------------------------
(* Sequence numbers, read as integers between two turns.                   *)

\* Half the sequence space.
LEMMA Halves ==
    /\ MOD = 2 * HALF /\ HALF \in Nat /\ HALF >= 2
    /\ RCV_WND \in Nat /\ RCV_WND < HALF /\ 2 * RCV_WND + 2 < HALF
    /\ MSS \in Nat /\ MSS >= 1
    /\ TextMax \in Nat /\ TextMax >= 1 /\ TextMax <= MSS /\ TextMax < HALF
<1>1. MOD = 2 * HALF /\ HALF \in Nat /\ HALF >= 2
  BY ModAssumption DEF HALF
<1>2. RCV_WND \in Nat /\ RCV_WND < HALF /\ MSS \in Nat /\ MSS >= 1
  BY EngineAssumption
<1>3. 2 * RCV_WND + 2 < HALF
  BY PairAssumption DEF Sides
<1> QED
  BY <1>1, <1>2, <1>3 DEF TextMax, Least

\* A number at most one turn away from the sequence space.
LEMMA Turn ==
    ASSUME NEW x \in Int
    PROVE  /\ x \in 0 .. MOD - 1 => x % MOD = x
           /\ x \in MOD .. 2 * MOD - 1 => x % MOD = x - MOD
           /\ x \in -MOD .. -1 => x % MOD = x + MOD
<1>1. MOD \in Nat /\ MOD >= 4
  BY ModAssumption
<1>2. x \in 0 .. MOD - 1 => x % MOD = x
  BY <1>1
<1>3. x \in MOD .. 2 * MOD - 1 => x % MOD = x - MOD
  BY <1>1
<1>4. x \in -MOD .. -1 => x % MOD = x + MOD
  BY <1>1
<1> QED BY <1>2, <1>3, <1>4

\* What a sequence number is.
LEMMA Numbers ==
    ASSUME NEW a \in SeqNums
    PROVE  a \in Nat /\ a < MOD
  BY ModAssumption DEF SeqNums

\* Sums and differences of sequence numbers are sequence numbers.
LEMMA InSeqNums ==
    ASSUME NEW a \in SeqNums
    PROVE  /\ \A n \in Int : add(a, n) \in SeqNums /\ sub(a, n) \in SeqNums
           /\ \A n \in SeqNums : add(a, n) \in SeqNums /\ sub(a, n) \in SeqNums
  BY ModAssumption DEF add, sub, SeqNums

\* Addition and subtraction wrap at most once.
LEMMA Adds ==
    ASSUME NEW a \in SeqNums, NEW n \in 0 .. MOD
    PROVE  add(a, n) = IF a + n < MOD THEN a + n ELSE a + n - MOD
  BY Turn, Halves DEF add, SeqNums

\* So does subtraction.
LEMMA Subs ==
    ASSUME NEW a \in SeqNums, NEW b \in SeqNums
    PROVE  sub(a, b) = IF a >= b THEN a - b ELSE a - b + MOD
  BY Turn, Halves DEF sub, SeqNums

\* The signed reading of a number.
LEMMA Signed ==
    ASSUME NEW x \in SeqNums
    PROVE  s32(x) = IF x < HALF THEN x ELSE x - MOD
  BY Turn, Halves DEF s32, SeqNums

\* The signed difference is that of the wrapped difference.
LEMMA SignedDifference ==
    ASSUME NEW a \in SeqNums, NEW b \in SeqNums
    PROVE  s32(a - b) = s32(sub(a, b))
<1>1. sub(a, b) \in SeqNums
  BY InSeqNums
<1>2. sub(a, b) % MOD = sub(a, b)
  BY <1>1, Turn, Numbers DEF SeqNums
<1> QED BY <1>2 DEF s32, sub

\* Comparison, in terms of the distance read forwards.
LEMMA Compares ==
    ASSUME NEW a \in SeqNums, NEW b \in SeqNums
    PROVE  /\ seq_lt(a, b)  <=> sub(a, b) >= HALF
           /\ seq_leq(a, b) <=> sub(a, b) = 0 \/ sub(a, b) >= HALF
           /\ seq_gt(a, b)  <=> sub(a, b) > 0 /\ sub(a, b) < HALF
           /\ seq_geq(a, b) <=> sub(a, b) < HALF
<1>1. sub(a, b) \in SeqNums
  BY InSeqNums
<1>2. s32(a - b) = IF sub(a, b) < HALF THEN sub(a, b) ELSE sub(a, b) - MOD
  BY <1>1, Signed, SignedDifference
<1> QED
  BY <1>1, <1>2, Halves, Numbers DEF seq_lt, seq_leq, seq_gt, seq_geq

-------------------------------------------------------------------------------
(* The window and what is transmitted.                                     *)

\* The window advertised never exceeds the free space, which never exceeds the
\* buffer.
LEMMA WindowFits ==
    ASSUME NEW e, Typed(e)
    PROVE  /\ FreeSpace(e) \in 0 .. RCV_WND
           /\ RcvWnd(e) \in 0 .. FreeSpace(e)
<1> DEFINE raw == FreeSpace(e)
           right == add(e.rcv_nxt, raw)
           half == IF RCV_WND \div 2 = 0 THEN 1 ELSE RCV_WND \div 2
           lead == sub(right, e.adv_right)
           held == s32(sub(e.adv_right, e.rcv_nxt))
<1>1. e.rcv_nxt \in SeqNums /\ e.recv_buf \in Seq(Bytes) /\ e.adv_right \in SeqNums \cup {None}
  BY Reads DEF Noted
<1>2. raw \in 0 .. RCV_WND
  BY <1>1, Halves DEF FreeSpace
<1>3. half \in Nat /\ half <= RCV_WND + 1
  BY Halves
<1>4. ASSUME e.adv_right # None, seq_gt(right, e.adv_right), lead < Least(MSS, half)
      PROVE  held <= raw /\ held \in Int
  <2> HIDE DEF raw, half
  <2>1. e.adv_right \in SeqNums /\ right \in SeqNums
    BY <1>1, <1>2, <1>4, InSeqNums
  <2>2. right = IF e.rcv_nxt + raw < MOD THEN e.rcv_nxt + raw ELSE e.rcv_nxt + raw - MOD
    BY <1>1, <1>2, Adds, Halves
  <2>3. lead \in 1 .. RCV_WND
    <3>1. lead \in SeqNums /\ lead > 0
      BY <2>1, <1>4, Compares, InSeqNums
    <3>2. lead \in Nat
      BY <3>1, Numbers
    <3>3. Least(MSS, half) <= half
      BY <1>3, Halves DEF Least
    <3> HIDE DEF lead
    <3> QED BY <3>1, <3>2, <3>3, <1>3, <1>4, Halves DEF Least
  <2>4. lead = IF right >= e.adv_right THEN right - e.adv_right ELSE right - e.adv_right + MOD
    BY <2>1, Subs
  <2> DEFINE gap == sub(e.adv_right, e.rcv_nxt)
  <2>5. gap = IF e.adv_right >= e.rcv_nxt THEN e.adv_right - e.rcv_nxt ELSE e.adv_right - e.rcv_nxt + MOD
    BY <2>1, <1>1, Subs
  <2>6. gap \in SeqNums
    BY <2>1, <1>1, InSeqNums
  <2>7. held = IF gap < HALF THEN gap ELSE gap - MOD
    BY <2>6, Signed
  <2>8. /\ e.rcv_nxt \in Nat /\ e.rcv_nxt < MOD /\ right \in Nat /\ right < MOD
        /\ e.adv_right \in Nat /\ e.adv_right < MOD /\ gap \in Nat /\ gap < MOD
    BY <1>1, <2>1, <2>6, Numbers
  <2> HIDE DEF lead, gap, held, right
  <2> QED
    BY <1>2, <2>2, <2>3, <2>4, <2>5, <2>7, <2>8, Halves
<1>5. RcvWnd(e) = IF /\ SWS_AVOIDANCE
                     /\ e.adv_right # None
                     /\ seq_gt(right, e.adv_right)
                     /\ lead < Least(MSS, half)
                  THEN IF held < 0 THEN 0 ELSE held
                  ELSE raw
  BY DEF RcvWnd
<1> HIDE DEF raw, right, half, lead, held
<1>6. RcvWnd(e) \in 0 .. raw
  BY <1>2, <1>4, <1>5
<1> QED
  BY <1>2, <1>6 DEF raw

\* Values that any engine may hold.
LEMMA Values ==
    /\ \A b \in BOOLEAN :
          /\ b \in EngineTypes["passive"] /\ b \in EngineTypes["remote"]
          /\ b \in EngineTypes["fin_pending"] /\ b \in EngineTypes["fin_sent"]
          /\ b \in EngineTypes["fin_acked"] /\ b \in EngineTypes["zero_win_advertised"]
          /\ b \in EngineTypes["rt_timer"] /\ b \in EngineTypes["persist_timer"]
          /\ b \in EngineTypes["tw_timer"] /\ b \in EngineTypes["ack_timer"]
          /\ b \in EngineTypes["ka_timer"]
    /\ <<>> \in EngineTypes["app_buf"] /\ <<>> \in EngineTypes["recv_buf"]
    /\ <<>> \in EngineTypes["retx"] /\ <<>> \in EngineTypes["out"]
    /\ {} \in EngineTypes["ooo"]
    /\ None \in EngineTypes["pending_fin"] /\ None \in EngineTypes["rtt_pending"]
    /\ None \in EngineTypes["adv_right"]
    /\ 0 \in EngineTypes["ack_count"] /\ 0 \in EngineTypes["rto_count"]
    /\ 0 \in EngineTypes["ka_probes"]
    /\ 0 \in EngineTypes["snd_wnd"]
<1>1. /\ <<>> \in Seq(Bytes) /\ <<>> \in Seq(QueueEntries) /\ <<>> \in Seq(SegmentRecords)
      /\ {} \in SUBSET KeptRecords /\ None \in Noted
  BY DEF Noted
<1>2. 0 \in 0 .. 1 /\ 0 \in 0 .. MAX_RETRANSMITS /\ 0 \in 0 .. KEEPALIVE_COUNT /\ 0 \in 0 .. RCV_WND
  BY EngineAssumption
<1> QED
  BY <1>1, <1>2, FieldTypes, Zenon

\* The fields a transmission may change, an acknowledgment, and one that is
\* queued; those that follow the state.
Emitted == {"out", "zero_win_advertised", "adv_right"}
Acking == Emitted \cup {"ack_count", "ack_timer"}
Queueing == Emitted \cup {"retx", "snd_nxt", "rtt_pending", "rt_timer"}
Moving == {"state", "ka_timer", "ka_probes"}

\* A segment as the engine builds it is one the wire may carry.
LEMMA SegmentTyped ==
    ASSUME NEW e, Typed(e), NEW seq \in SeqNums, NEW flags \in FlagSets,
           NEW payload \in Seq(Bytes), MayCarry(flags, payload)
    PROVE  Segment(e, seq, flags, payload) \in SegmentRecords
<1>1. e.rcv_nxt \in SeqNums /\ 0 \in SeqNums
  BY Reads, Halves DEF SeqNums
<1>2. RcvWnd(e) \in 0 .. RCV_WND
  BY WindowFits, Halves
<1> QED
  BY <1>1, <1>2 DEF Segment, SegmentRecords

\* _transmit touches the output only.
LEMMA TransmitFrame ==
    ASSUME NEW e, Typed(e), NEW seg \in SegmentRecords
    PROVE  /\ Typed(Transmit(e, seg))
           /\ Only(e, Transmit(e, seg), {"out"})
           /\ Transmit(e, seg).out = Append(e.out, seg)
<1>1. Append(e.out, seg) \in EngineTypes["out"]
  <2>1. e.out \in Seq(SegmentRecords)
    BY Reads
  <2> QED BY <2>1, FieldTypes
<1>2. Typed(Transmit(e, seg))
  BY <1>1, FieldNames, Zenon DEF Typed, Transmit
<1>3. Only(e, Transmit(e, seg), {"out"})
  BY FieldNames DEF Only, Typed, Transmit
<1>4. Transmit(e, seg).out = Append(e.out, seg)
  BY FieldNames DEF Typed, Transmit
<1> QED BY <1>2, <1>3, <1>4

\* What _make_segment notes of the window it advertises.
LEMMA AdvertisedFrame ==
    ASSUME NEW e, Typed(e), NEW wnd \in 0 .. RCV_WND, NEW right \in SeqNums
    PROVE  /\ Typed(Advertised(e, wnd, right))
           /\ Only(e, Advertised(e, wnd, right), {"zero_win_advertised", "adv_right"})
           /\ Advertised(e, wnd, right).adv_right =
                 IF e.adv_right = None \/ seq_gt(right, e.adv_right) THEN right ELSE e.adv_right
           /\ Advertised(e, wnd, right).zero_win_advertised = (e.zero_win_advertised \/ wnd = 0)
<1> DEFINE zero == e.zero_win_advertised \/ wnd = 0
           edge == IF e.adv_right = None \/ seq_gt(right, e.adv_right) THEN right ELSE e.adv_right
<1>1. zero \in EngineTypes["zero_win_advertised"]
  BY Values, Zenon
<1>2. edge \in EngineTypes["adv_right"]
  <2>1. e.adv_right \in Noted /\ right \in Noted
    BY Reads DEF Noted
  <2> QED BY <2>1, FieldTypes
<1>3. Advertised(e, wnd, right) = [e EXCEPT !.zero_win_advertised = zero, !.adv_right = edge]
  BY Zenon DEF Advertised
<1> HIDE DEF zero, edge
<1>4. Typed(Advertised(e, wnd, right))
  BY <1>1, <1>2, <1>3, FieldNames, Zenon DEF Typed
<1>5. /\ Only(e, Advertised(e, wnd, right), {"zero_win_advertised", "adv_right"})
      /\ Advertised(e, wnd, right).adv_right = edge
      /\ Advertised(e, wnd, right).zero_win_advertised = zero
  BY <1>3, FieldNames DEF Only, Typed
<1> QED BY <1>4, <1>5 DEF zero, edge

\* What _transmit(_make_segment(...)) does.
LEMMA EmitFrame ==
    ASSUME NEW e, Typed(e), NEW seq \in SeqNums, NEW flags \in FlagSets,
           NEW payload \in Seq(Bytes), MayCarry(flags, payload)
    PROVE  /\ Typed(Emit(e, seq, flags, payload))
           /\ Only(e, Emit(e, seq, flags, payload), Emitted)
           /\ Emit(e, seq, flags, payload).out = Append(e.out, Segment(e, seq, flags, payload))
<1> DEFINE right == add(e.rcv_nxt, RcvWnd(e))
           noted == Advertised(e, RcvWnd(e), right)
           seg == Segment(e, seq, flags, payload)
<1>1. RcvWnd(e) \in 0 .. RCV_WND /\ right \in SeqNums
  <2>1. RcvWnd(e) \in 0 .. RCV_WND /\ RcvWnd(e) \in Int
    BY WindowFits, Halves
  <2>2. e.rcv_nxt \in SeqNums
    BY Reads
  <2> QED BY <2>1, <2>2, InSeqNums
<1>2. /\ Typed(noted) /\ Only(e, noted, {"zero_win_advertised", "adv_right"})
  BY <1>1, AdvertisedFrame
<1>3. seg \in SegmentRecords
  BY SegmentTyped
<1>4. Emit(e, seq, flags, payload) = Transmit(noted, seg)
  BY DEF Emit
<1> HIDE DEF noted, seg
<1>5. /\ Typed(Transmit(noted, seg)) /\ Only(noted, Transmit(noted, seg), {"out"})
      /\ Transmit(noted, seg).out = Append(noted.out, seg)
  BY <1>2, <1>3, TransmitFrame
<1>6. Only(e, Transmit(noted, seg), Emitted) /\ noted.out = e.out
  BY <1>2, <1>5, FieldNames DEF Only, Emitted
<1> QED
  BY <1>4, <1>5, <1>6 DEF seg

\* _send_ack.
LEMMA SendAckFrame ==
    ASSUME NEW e, Typed(e)
    PROVE  /\ Typed(SendAck(e)) /\ Only(e, SendAck(e), Acking)
           /\ SendAck(e).out = Append(e.out, Segment(e, e.snd_nxt, {"ACK"}, <<>>))
<1> DEFINE n == Emit(e, e.snd_nxt, {"ACK"}, <<>>)
<1>1. /\ Typed(n) /\ Only(e, n, Emitted)
      /\ n.out = Append(e.out, Segment(e, e.snd_nxt, {"ACK"}, <<>>))
  <2>1. e.snd_nxt \in SeqNums /\ {"ACK"} \in FlagSets /\ <<>> \in Seq(Bytes)
        /\ MayCarry({"ACK"}, <<>>)
    BY Reads DEF FlagSets, MayCarry
  <2> QED BY <2>1, EmitFrame
<1>2. SendAck(e) = [n EXCEPT !.ack_count = 0, !.ack_timer = FALSE]
  BY DEF SendAck
<1> HIDE DEF n
<1>3. Typed(SendAck(e))
  BY <1>1, <1>2, Values, FieldNames, Zenon DEF Typed
<1>4. Only(n, SendAck(e), {"ack_count", "ack_timer"}) /\ SendAck(e).out = n.out
  BY <1>1, <1>2, FieldNames DEF Only, Typed
<1> QED
  BY <1>1, <1>3, <1>4 DEF Only, Acking

\* _schedule_ack: now, or when the timer says so.
LEMMA ScheduleAckFrame ==
    ASSUME NEW e, Typed(e), NEW force \in BOOLEAN
    PROVE  Typed(ScheduleAck(e, force)) /\ Only(e, ScheduleAck(e, force), Acking)
<1>1. CASE ~DELAYED_ACK \/ force \/ e.ack_count >= 1
  BY <1>1, SendAckFrame DEF ScheduleAck
<1>2. CASE ~(~DELAYED_ACK \/ force \/ e.ack_count >= 1)
  <2>1. e.ack_count + 1 \in EngineTypes["ack_count"]
    <3>1. e.ack_count \in 0 .. 1 /\ ~(e.ack_count >= 1)
      BY <1>2, Reads
    <3>2. e.ack_count + 1 \in 0 .. 1
      BY <3>1
    <3> QED BY <3>2, FieldTypes
  <2>2. ScheduleAck(e, force) = [e EXCEPT !.ack_count = @ + 1, !.ack_timer = TRUE]
    BY <1>2 DEF ScheduleAck
  <2>3. Typed(ScheduleAck(e, force))
    BY <2>1, <2>2, Values, FieldNames, Zenon DEF Typed
  <2>4. Only(e, ScheduleAck(e, force), Acking)
    BY <2>2, FieldNames DEF Only, Typed, Acking
  <2> QED BY <2>3, <2>4
<1> QED BY <1>1, <1>2

\* The reset that answers a segment.
LEMMA RstReplyFrame ==
    ASSUME NEW e, Typed(e), NEW seq \in SeqNums, NEW ack \in SeqNums,
           NEW flags \in {{"RST"}, {"RST", "ACK"}}
    PROVE  /\ Typed(EmitRstReply(e, seq, ack, flags))
           /\ Only(e, EmitRstReply(e, seq, ack, flags), {"out"})
<1> DEFINE seg == [seq |-> seq, ack |-> ack, flags |-> flags, window |-> 0, payload |-> <<>>]
<1>1. seg \in SegmentRecords
  BY Halves DEF SegmentRecords, FlagSets, MayCarry
<1> QED
  BY <1>1, TransmitFrame DEF EmitRstReply

\* How many numbers a payload and its flags take.
LEMMA SegLenCounts ==
    ASSUME NEW x, x.payload \in Seq(Bytes)
    PROVE  SegLen(x) \in Nat /\ SegLen(x) >= Len(x.payload) /\ SegLen(x) <= Len(x.payload) + 2
<1>1. Len(x.payload) \in Nat
  OBVIOUS
<1>2. Count("SYN" \in x.flags) \in 0 .. 1 /\ Count("FIN" \in x.flags) \in 0 .. 1
  BY DEF Count
<1> QED BY <1>1, <1>2 DEF SegLen

\* An entry of the retransmission queue: text of at most one segment, or one
\* number for a SYN or a FIN.
LEMMA EntryTakes ==
    ASSUME NEW o \in QueueEntries
    PROVE  /\ o.seq \in SeqNums /\ o.payload \in Seq(Bytes) /\ o.retransmitted \in BOOLEAN
           /\ o.flags \in FlagSets /\ MayCarry(o.flags, o.payload)
           /\ SegLen(o) \in 1 .. TextMax
           /\ o.flags = {"ACK"} => SegLen(o) = Len(o.payload) /\ o.payload # <<>>
           /\ o.flags # {"ACK"} => SegLen(o) = 1 /\ o.payload = <<>>
           /\ End(o) \in SeqNums
<1>1. /\ o.seq \in SeqNums /\ o.payload \in Seq(Bytes) /\ o.retransmitted \in BOOLEAN
      /\ o.flags \in {{"SYN"}, {"SYN", "ACK"}, {"ACK"}, {"ACK", "FIN"}}
      /\ MayCarry(o.flags, o.payload) /\ (o.flags = {"ACK"} => o.payload # <<>>)
  BY DEF QueueEntries
<1>2. o.flags \in FlagSets
  BY <1>1 DEF FlagSets
<1>3. CASE o.flags = {"ACK"}
  <2>1. Len(o.payload) \in 1 .. TextMax
    BY <1>1, <1>3 DEF MayCarry
  <2>2. SegLen(o) = Len(o.payload)
    BY <1>3, <2>1, Halves DEF SegLen, Count
  <2> QED
    BY <1>1, <1>2, <1>3, <2>1, <2>2, InSeqNums, Halves DEF End
<1>4. CASE o.flags # {"ACK"}
  <2>1. o.payload = <<>>
    BY <1>1, <1>4 DEF MayCarry
  <2>2. SegLen(o) = 1
    BY <1>1, <1>4, <2>1 DEF SegLen, Count
  <2> QED
    BY <1>1, <1>2, <1>4, <2>1, <2>2, InSeqNums, Halves DEF End
<1> QED BY <1>3, <1>4

\* _queue_and_send.
LEMMA QueueFrame ==
    ASSUME NEW e, Typed(e),
           NEW flags \in {{"SYN"}, {"SYN", "ACK"}, {"ACK"}, {"ACK", "FIN"}},
           NEW payload \in Seq(Bytes), MayCarry(flags, payload),
           flags = {"ACK"} => payload # <<>>
    PROVE  LET n == QueueAndSend(e, flags, payload)
               o == [seq |-> e.snd_nxt, flags |-> flags, payload |-> payload,
                     retransmitted |-> FALSE]
           IN  /\ Typed(n) /\ Only(e, n, Queueing)
               /\ o \in QueueEntries /\ n.retx = Append(e.retx, o) /\ n.snd_nxt = End(o)
               /\ n.rtt_pending = (IF e.rtt_pending = None THEN End(o) ELSE e.rtt_pending)
               /\ n.rt_timer = TRUE
               /\ n.out = Append(e.out, Segment(e, e.snd_nxt, flags, payload))
<1> DEFINE n == QueueAndSend(e, flags, payload)
           o == [seq |-> e.snd_nxt, flags |-> flags, payload |-> payload,
                 retransmitted |-> FALSE]
           m == Emit(e, e.snd_nxt, flags, payload)
           timed == IF m.rtt_pending = None THEN End(o) ELSE m.rtt_pending
           queue == Append(m.retx, o)
<1>1. e.snd_nxt \in SeqNums /\ e.retx \in Seq(QueueEntries) /\ e.rtt_pending \in Noted
  BY Reads
<1>2. o \in QueueEntries
  BY <1>1 DEF QueueEntries
<1>3. /\ Typed(m) /\ Only(e, m, Emitted)
      /\ m.out = Append(e.out, Segment(e, e.snd_nxt, flags, payload))
  <2>1. flags \in FlagSets
    BY DEF FlagSets
  <2> QED BY <1>1, <2>1, EmitFrame
<1>4. m.retx = e.retx /\ m.rtt_pending = e.rtt_pending
  BY <1>3, FieldNames DEF Only, Emitted
<1>5. End(o) \in SeqNums
  BY <1>2, EntryTakes
<1>6. n = [m EXCEPT !.retx = queue, !.snd_nxt = End(o), !.rtt_pending = timed, !.rt_timer = TRUE]
  BY Zenon DEF QueueAndSend
<1>7. /\ queue \in EngineTypes["retx"] /\ End(o) \in EngineTypes["snd_nxt"]
      /\ timed \in EngineTypes["rtt_pending"]
  <2>1. queue \in Seq(QueueEntries)
    BY <1>1, <1>2, <1>4
  <2>2. timed \in Noted
    BY <1>1, <1>4, <1>5 DEF Noted
  <2> QED BY <1>5, <2>1, <2>2, FieldTypes
<1> HIDE DEF m, n, o, timed, queue
<1>8. Typed(n)
  BY <1>3, <1>6, <1>7, Values, FieldNames, Zenon DEF Typed
<1>9. /\ Only(m, n, {"retx", "snd_nxt", "rtt_pending", "rt_timer"})
      /\ n.retx = queue /\ n.snd_nxt = End(o) /\ n.rtt_pending = timed /\ n.rt_timer = TRUE
      /\ n.out = m.out
  BY <1>3, <1>6, FieldNames DEF Only, Typed
<1>10. Only(e, n, Queueing)
  BY <1>3, <1>9 DEF Only, Queueing
<1> QED
  BY <1>2, <1>3, <1>4, <1>8, <1>9, <1>10 DEF n, o, timed, queue

-------------------------------------------------------------------------------
(* State changes and timers.                                               *)

\* _restart_keepalive arms or clears the timer.
LEMMA RestartKeepaliveFrame ==
    ASSUME NEW e, Typed(e)
    PROVE  Typed(RestartKeepalive(e)) /\ Only(e, RestartKeepalive(e), {"ka_timer"})
<1>1. CASE KEEPALIVE
  <2> DEFINE armed == e.state = "ESTABLISHED"
  <2>1. RestartKeepalive(e) = [e EXCEPT !.ka_timer = armed]
    BY <1>1 DEF RestartKeepalive
  <2>2. armed \in EngineTypes["ka_timer"]
    BY Values, Zenon
  <2> HIDE DEF armed
  <2>3. Typed(RestartKeepalive(e))
    BY <2>1, <2>2, FieldNames, Zenon DEF Typed
  <2>4. Only(e, RestartKeepalive(e), {"ka_timer"})
    BY <2>1, FieldNames DEF Only, Typed
  <2> QED BY <2>3, <2>4
<1>2. CASE ~KEEPALIVE
  BY <1>2 DEF RestartKeepalive, Only
<1> QED BY <1>1, <1>2

\* _reset_keepalive clears the count of probes too.
LEMMA ResetKeepaliveFrame ==
    ASSUME NEW e, Typed(e)
    PROVE  Typed(ResetKeepalive(e)) /\ Only(e, ResetKeepalive(e), {"ka_timer", "ka_probes"})
<1>1. CASE KEEPALIVE
  <2> DEFINE n == [e EXCEPT !.ka_probes = 0]
  <2>1. Typed(n)
    BY Values, FieldNames, Zenon DEF Typed
  <2>2. Only(e, n, {"ka_probes"})
    BY FieldNames DEF Only, Typed
  <2>3. ResetKeepalive(e) = RestartKeepalive(n)
    BY <1>1 DEF ResetKeepalive
  <2> HIDE DEF n
  <2> QED
    BY <2>1, <2>2, <2>3, RestartKeepaliveFrame DEF Only
<1>2. CASE ~KEEPALIVE
  BY <1>2 DEF ResetKeepalive, Only
<1> QED BY <1>1, <1>2

\* _cancel_keepalive.
LEMMA CancelKeepaliveFrame ==
    ASSUME NEW e, Typed(e)
    PROVE  Typed(CancelKeepalive(e)) /\ Only(e, CancelKeepalive(e), {"ka_timer", "ka_probes"})
<1>1. Typed(CancelKeepalive(e))
  BY Values, FieldNames, Zenon DEF Typed, CancelKeepalive
<1>2. Only(e, CancelKeepalive(e), {"ka_timer", "ka_probes"})
  BY FieldNames DEF Only, Typed, CancelKeepalive
<1> QED BY <1>1, <1>2

\* _set_state.
LEMMA SetStateFrame ==
    ASSUME NEW e, Typed(e), NEW new \in States
    PROVE  /\ Typed(SetState(e, new)) /\ Only(e, SetState(e, new), Moving)
           /\ SetState(e, new).state = new
<1> DEFINE moved == [e EXCEPT !.state = new]
<1>1. Typed(moved)
  <2>1. new \in EngineTypes["state"]
    BY FieldTypes
  <2> QED BY <2>1, FieldNames, Zenon DEF Typed
<1>2. Only(e, moved, {"state"}) /\ moved.state = new
  BY FieldNames DEF Only, Typed
<1>3. e.state # new =>
         SetState(e, new) \in {moved, ResetKeepalive(moved), CancelKeepalive(moved)}
  BY DEF SetState
<1> HIDE DEF moved
<1>4. CASE e.state = new
  BY <1>4 DEF SetState, Only
<1>5. CASE SetState(e, new) = moved
  BY <1>1, <1>2, <1>5 DEF Only, Moving
<1>6. CASE SetState(e, new) = ResetKeepalive(moved)
  BY <1>1, <1>2, <1>6, ResetKeepaliveFrame, FieldNames DEF Only, Moving
<1>7. CASE SetState(e, new) = CancelKeepalive(moved)
  BY <1>1, <1>2, <1>7, CancelKeepaliveFrame, FieldNames DEF Only, Moving
<1> QED BY <1>3, <1>4, <1>5, <1>6, <1>7

\* _stop_rt, _arm_persist.
LEMMA TimerFrames ==
    ASSUME NEW e, Typed(e)
    PROVE  /\ Typed(StopRt(e)) /\ Only(e, StopRt(e), {"rt_timer", "rto_count"})
           /\ StopRt(e).rt_timer = FALSE
           /\ Typed(ArmPersist(e)) /\ Only(e, ArmPersist(e), {"persist_timer"})
           /\ ArmPersist(e).persist_timer = TRUE
<1>1. Typed(StopRt(e)) /\ Typed(ArmPersist(e))
  BY Values, FieldNames, Zenon DEF Typed, StopRt, ArmPersist
<1>2. Only(e, StopRt(e), {"rt_timer", "rto_count"}) /\ StopRt(e).rt_timer = FALSE
  BY FieldNames DEF Only, Typed, StopRt
<1>3. Only(e, ArmPersist(e), {"persist_timer"}) /\ ArmPersist(e).persist_timer = TRUE
  BY FieldNames DEF Only, Typed, ArmPersist
<1> QED BY <1>1, <1>2, <1>3

-------------------------------------------------------------------------------
(* The send path.                                                          *)

\* A set of numbers has a smallest one.
LEMMA Smallest ==
    ASSUME NEW T \in SUBSET Nat, T # {}
    PROVE  \E x \in T : \A y \in T : x <= y
<1>1. PICK x \in T : \A y \in T : ~(<<y, x>> \in OpToRel(<, Nat))
  BY WFMin, NatLessThanWellFounded
<1>2. ASSUME NEW y \in T PROVE x <= y
  <2>1. x \in Nat /\ y \in Nat
    OBVIOUS
  <2>2. ~(y < x)
    BY <1>1, <2>1 DEF OpToRel
  <2> QED
    BY <2>1, <2>2
<1> QED
  BY <1>2

\* A set that holds 0 and, with a number, the next one holds all up to n.
LEMMA Climb ==
    ASSUME NEW n \in Nat, NEW G, 0 \in G,
           \A k \in 1 .. n : k - 1 \in G => k \in G
    PROVE  n \in G
<1> SUFFICES ASSUME n \notin G PROVE FALSE
  OBVIOUS
<1> DEFINE T == {k \in 0 .. n : k \notin G}
<1>1. PICK x \in T : \A y \in T : x <= y
  <2>1. T \in SUBSET Nat /\ n \in T
    OBVIOUS
  <2> QED BY <2>1, Smallest
<1>2. x \in 1 .. n /\ x - 1 \in 0 .. n /\ x - 1 \notin T
  BY <1>1
<1> QED
  BY <1>1, <1>2

\* Multiples of the segment size.
LEMMA Multiples ==
    ASSUME NEW m \in Nat, NEW i \in Nat, NEW j \in Nat, i <= j
    PROVE  /\ i * m \in Nat /\ j * m \in Nat /\ i * m <= j * m
           /\ (j + 1) * m = j * m + m
<1>1. PICK d \in Nat : j = i + d
  <2>1. j - i \in Nat /\ j = i + (j - i)
    OBVIOUS
  <2> QED BY <2>1
<1>2. (i + d) * m = i * m + d * m /\ i * m \in Nat /\ d * m \in Nat
  OBVIOUS
<1> QED BY <1>1, <1>2

\* What the segmentation loop may send now, and the full segments in it.
Sendable(e) ==
    IF UsableWindow(e) <= 0 THEN 0 ELSE Least(UsableWindow(e), Len(e.app_buf))

\* How many bytes have gone after k segments.
Gone(e, k) == Least(k * MSS, Sendable(e))

\* What is sendable lies in the buffer and in half the sequence space.
LEMMA SendableFits ==
    ASSUME NEW e, Typed(e)
    PROVE  /\ Sendable(e) \in 0 .. HALF - 1 /\ Sendable(e) <= Len(e.app_buf)
           /\ UsableWindow(e) \in Int
           /\ Len(e.app_buf) \in Nat
<1>1. e.snd_una \in SeqNums /\ e.snd_nxt \in SeqNums /\ e.snd_wnd \in Int /\ e.app_buf \in Seq(Bytes)
  BY Reads, Halves
<1> DEFINE d == sub(add(e.snd_una, e.snd_wnd), e.snd_nxt)
<1>2. d \in SeqNums
  BY <1>1, InSeqNums
<1>3. UsableWindow(e) = IF d < HALF THEN d ELSE d - MOD
  BY <1>2, Signed DEF UsableWindow
<1>4. d \in Nat /\ d < MOD
  BY <1>2, Numbers
<1> HIDE DEF d
<1>5. UsableWindow(e) \in Int /\ UsableWindow(e) <= HALF - 1
  BY <1>3, <1>4, Halves
<1>6. Len(e.app_buf) \in Nat
  BY <1>1
<1> QED
  BY <1>5, <1>6, Halves DEF Sendable, Least

\* The chunks are cut off the buffer one behind the other, each of them text
\* for one segment.
LEMMA ChunksAre ==
    ASSUME NEW e, Typed(e)
    PROVE  LET n == Len(Chunks(e)) IN
           /\ n \in Nat /\ Chunks(e) \in Seq(Seq(Bytes)) /\ Gone(e, 0) = 0
           /\ \A k \in 1 .. n :
                 /\ Chunks(e)[k] = SubSeq(e.app_buf, Gone(e, k - 1) + 1, Gone(e, k))
                 /\ Chunks(e)[k] \in Seq(Bytes)
                 /\ Len(Chunks(e)[k]) = Gone(e, k) - Gone(e, k - 1)
                 /\ Len(Chunks(e)[k]) \in 1 .. TextMax
                 /\ Gone(e, k) \in 1 .. Len(e.app_buf) /\ Gone(e, k - 1) \in 0 .. Len(e.app_buf)
<1> DEFINE total == Sendable(e)
           full == total \div MSS
           rest == total % MSS
           tail == rest > 0 /\ TailMayGo(e, full)
           n == full + Count(tail)
<1>1. total \in 0 .. HALF - 1 /\ total <= Len(e.app_buf) /\ Len(e.app_buf) \in Nat
  BY SendableFits
<1>2. e.app_buf \in Seq(Bytes)
  BY Reads
<1>3. Chunks(e) = [i \in 1 .. n |-> SubSeq(e.app_buf, (i - 1) * MSS + 1, Least(i * MSS, total))]
  BY DEF Chunks, Sendable
<1> HIDE DEF total
<1>4. full \in Nat /\ rest \in 0 .. MSS - 1 /\ total = full * MSS + rest
  <2>1. total \in Nat /\ MSS \in Nat /\ MSS >= 1
    BY <1>1, Halves
  <2>2. total \div MSS \in Nat /\ total % MSS \in 0 .. MSS - 1 /\ total = MSS * (total \div MSS) + (total % MSS)
    BY <2>1
  <2> QED BY <2>1, <2>2
<1> HIDE DEF full, rest
<1>5. n \in Nat /\ (n = full \/ (n = full + 1 /\ rest > 0))
  BY <1>4 DEF Count
<1> HIDE DEF tail, n
<1>6. ASSUME NEW k \in 1 .. n
      PROVE  /\ Gone(e, k - 1) = (k - 1) * MSS /\ Gone(e, k - 1) \in 0 .. Len(e.app_buf)
             /\ Gone(e, k) \in 1 .. Len(e.app_buf)
             /\ Gone(e, k) - Gone(e, k - 1) \in 1 .. TextMax
             /\ Gone(e, k) = Least(k * MSS, total)
  <2>1. /\ k - 1 \in Nat /\ k \in Nat /\ k - 1 <= full
    BY <1>4, <1>5
  <2>2. /\ (k - 1) * MSS \in Nat /\ full * MSS \in Nat /\ (k - 1) * MSS <= full * MSS
        /\ k * MSS = (k - 1) * MSS + MSS
    <3>1. /\ (k - 1) * MSS \in Nat /\ full * MSS \in Nat /\ (k - 1) * MSS <= full * MSS
      BY <2>1, <1>4, Multiples, Halves
    <3>2. ((k - 1) + 1) * MSS = (k - 1) * MSS + MSS
      BY <2>1, Multiples, Halves
    <3> QED BY <2>1, <3>1, <3>2
  <2>3. k <= full => k * MSS <= full * MSS
    BY <2>1, <1>4, Multiples, Halves
  <2> DEFINE a == (k - 1) * MSS
             b == k * MSS
             c == full * MSS
  <2>4. /\ a \in Nat /\ c \in Nat /\ a <= c /\ b = a + MSS /\ total = c + rest
        /\ k <= full => b <= c
        /\ k > full => k = full + 1 /\ rest > 0 /\ a = c
    <3>1. k > full => k = full + 1 /\ rest > 0
      BY <1>4, <1>5
    <3>2. k = full + 1 => k - 1 = full
      BY <1>4
    <3> QED
      BY <1>4, <2>2, <2>3, <3>1, <3>2
  <2>5. Gone(e, k) = (IF b <= total THEN b ELSE total) /\ Gone(e, k - 1) = (IF a <= total THEN a ELSE total)
    BY DEF Gone, Least, total
  <2> HIDE DEF a, b, c
  <2>6. Gone(e, k - 1) = a /\ Gone(e, k) - a \in 1 .. MSS /\ Gone(e, k) <= total
    BY <1>1, <1>4, <2>1, <2>4, <2>5, Halves
  <2>7. Gone(e, k) - a \in 1 .. TextMax /\ Gone(e, k) \in 1 .. Len(e.app_buf) /\ a \in 0 .. Len(e.app_buf)
    BY <1>1, <2>4, <2>5, <2>6, Halves DEF TextMax, Least
  <2> QED
    BY <2>5, <2>6, <2>7 DEF Least, a, b
<1>7. Len(Chunks(e)) = n
  BY <1>3, <1>5
<1>8. ASSUME NEW k \in 1 .. n
      PROVE  /\ Chunks(e)[k] = SubSeq(e.app_buf, Gone(e, k - 1) + 1, Gone(e, k))
             /\ Chunks(e)[k] \in Seq(Bytes)
             /\ Len(Chunks(e)[k]) = Gone(e, k) - Gone(e, k - 1)
  <2>1. Chunks(e)[k] = SubSeq(e.app_buf, Gone(e, k - 1) + 1, Gone(e, k))
    BY <1>3, <1>6
  <2>2. /\ Gone(e, k - 1) + 1 \in Int /\ Gone(e, k) \in Int /\ Gone(e, k - 1) + 1 <= Gone(e, k)
        /\ \A i \in Gone(e, k - 1) + 1 .. Gone(e, k) : e.app_buf[i] \in Bytes
    <3> DEFINE a == Gone(e, k - 1)
               b == Gone(e, k)
    <3>1. /\ Len(e.app_buf) \in Nat /\ a \in 0 .. Len(e.app_buf) /\ b \in 1 .. Len(e.app_buf)
          /\ b - a \in 1 .. TextMax /\ TextMax \in Nat
      BY <1>6, <1>1, Halves
    <3> HIDE DEF a, b
    <3>2. a + 1 \in Int /\ b \in Int /\ a + 1 <= b
      BY <3>1
    <3>3. \A i \in a + 1 .. b : e.app_buf[i] \in Bytes
      BY <1>2, <3>1
    <3> QED BY <3>2, <3>3 DEF a, b
  <2>3. /\ SubSeq(e.app_buf, Gone(e, k - 1) + 1, Gone(e, k)) \in Seq(Bytes)
        /\ Len(SubSeq(e.app_buf, Gone(e, k - 1) + 1, Gone(e, k))) = Gone(e, k) - (Gone(e, k - 1) + 1) + 1
    BY <2>2, SubSeqProperties
  <2> QED
    BY <1>6, <2>1, <2>2, <2>3
<1>9. Gone(e, 0) = 0
  BY <1>1, Halves DEF Gone, Least, total
<1>10. Chunks(e) \in Seq(Seq(Bytes))
  <2>1. \A i \in 1 .. n : SubSeq(e.app_buf, (i - 1) * MSS + 1, Least(i * MSS, total)) \in Seq(Bytes)
    BY <1>3, <1>8
  <2> QED BY <1>3, <1>5, <2>1
<1> QED
  BY <1>5, <1>6, <1>7, <1>8, <1>9, <1>10

\* The segmentation loop: a segment at a time, from the engine as it was.
LEMMA SendDataSteps ==
    ASSUME NEW e, Len(Chunks(e)) \in Nat
    PROVE  \E after :
              /\ after[0] = e
              /\ \A k \in 1 .. Len(Chunks(e)) : after[k] = SendChunk(after[k - 1], Chunks(e)[k])
              /\ SendData(e) = IF e.snd_wnd = 0 THEN e ELSE after[Len(Chunks(e))]
<1> DEFINE n == Len(Chunks(e))
           Loop(g, m) == [k \in 0 .. m |-> IF k = 0 THEN e ELSE SendChunk(g[k - 1], Chunks(e)[k])]
           Runs(m) == \E g : g = Loop(g, m)
           G == {m \in 0 .. n : Runs(m)}
<1>1. n \in Nat
  OBVIOUS
<1>2. SendData(e) = IF e.snd_wnd = 0 THEN e ELSE (CHOOSE g : g = Loop(g, n))[n]
  BY DEF SendData
<1> HIDE DEF n
<1>3. 0 \in G
  <2> DEFINE g == [k \in 0 .. 0 |-> e]
  <2>1. g = Loop(g, 0)
    OBVIOUS
  <2>2. Runs(0)
    <3> HIDE DEF g
    <3> WITNESS g
    <3> QED BY <2>1
  <2> HIDE DEF Runs
  <2> QED BY <1>1, <2>2
<1>4. ASSUME NEW m \in 1 .. n, m - 1 \in G PROVE m \in G
  <2>1. PICK g : g = Loop(g, m - 1)
    <3>1. Runs(m - 1)
      <4> HIDE DEF Runs
      <4> QED BY <1>4
    <3> QED BY <3>1
  <2> DEFINE h == Loop(g, m)
  <2>2. ASSUME NEW k \in 1 .. m PROVE h[k - 1] = g[k - 1]
    <3>1. k - 1 \in 0 .. m - 1 /\ k - 1 \in 0 .. m
      BY <1>1
    <3>2. g[k - 1] = IF k - 1 = 0 THEN e ELSE SendChunk(g[(k - 1) - 1], Chunks(e)[k - 1])
      <4> DEFINE j == k - 1
      <4> HIDE DEF j
      <4>1. Loop(g, m - 1)[j] = IF j = 0 THEN e ELSE SendChunk(g[j - 1], Chunks(e)[j])
        BY <3>1 DEF j
      <4> QED BY <2>1, <4>1 DEF j
    <3>3. h[k - 1] = IF k - 1 = 0 THEN e ELSE SendChunk(g[(k - 1) - 1], Chunks(e)[k - 1])
      <4> DEFINE j == k - 1
      <4> HIDE DEF j
      <4>1. h[j] = IF j = 0 THEN e ELSE SendChunk(g[j - 1], Chunks(e)[j])
        BY <3>1 DEF j
      <4> QED BY <4>1 DEF j
    <3> QED BY <3>2, <3>3
  <2>3. h = Loop(h, m)
    <3> HIDE DEF h
    <3>1. \A k \in 0 .. m : (IF k = 0 THEN e ELSE SendChunk(g[k - 1], Chunks(e)[k]))
                               = (IF k = 0 THEN e ELSE SendChunk(h[k - 1], Chunks(e)[k]))
      <4> TAKE k \in 0 .. m
      <4>1. k # 0 => k \in 1 .. m
        BY <1>1
      <4> QED BY <2>2, <4>1
    <3>2. Loop(g, m) = Loop(h, m)
      BY <3>1
    <3> QED BY <3>2 DEF h
  <2>4. Runs(m)
    <3> HIDE DEF h
    <3> WITNESS h
    <3> QED BY <2>3
  <2> HIDE DEF Runs
  <2> QED BY <1>1, <2>4
<1>5. n \in G
  <2> HIDE DEF G
  <2> QED BY <1>1, <1>3, <1>4, Climb
<1> DEFINE after == CHOOSE g : g = Loop(g, n)
<1>6. after = Loop(after, n)
  <2>1. Runs(n)
    <3> HIDE DEF Runs
    <3> QED BY <1>5
  <2> QED BY <2>1
<1> HIDE DEF after
<1>7. after[0] = e /\ \A k \in 1 .. n : after[k] = SendChunk(after[k - 1], Chunks(e)[k])
  <2>1. \A k \in 0 .. n : after[k] = IF k = 0 THEN e ELSE SendChunk(after[k - 1], Chunks(e)[k])
    BY <1>6
  <2>2. 0 \in 0 .. n /\ \A k \in 1 .. n : k \in 0 .. n /\ k # 0
    BY <1>1
  <2> QED BY <2>1, <2>2
<1>8. SendData(e) = IF e.snd_wnd = 0 THEN e ELSE after[n]
  BY <1>2 DEF after
<1> QED BY <1>7, <1>8 DEF n

\* The fields the segmentation loop may change, and the whole send path.
Segmenting == Queueing \cup {"app_buf"}
Sending == Segmenting \cup Moving \cup {"fin_seq", "fin_sent", "persist_timer"}

\* One segment of text.
LEMMA SendChunkFrame ==
    ASSUME NEW e, Typed(e), NEW chunk \in Seq(Bytes), Len(chunk) \in 1 .. TextMax
    PROVE  /\ Typed(SendChunk(e, chunk)) /\ Only(e, SendChunk(e, chunk), Segmenting)
<1> DEFINE rest == SubSeq(e.app_buf, Len(chunk) + 1, Len(e.app_buf))
           cut == [e EXCEPT !.app_buf = rest]
<1>1. rest \in Seq(Bytes)
  <2>1. e.app_buf \in Seq(Bytes) /\ Len(chunk) \in Nat
    BY Reads, Halves
  <2> QED BY <2>1, SubSeqProperties
<1>2. Typed(cut) /\ Only(e, cut, {"app_buf"})
  <2>1. rest \in EngineTypes["app_buf"]
    BY <1>1, FieldTypes
  <2> HIDE DEF rest
  <2>2. Typed(cut)
    BY <2>1, FieldNames, Zenon DEF Typed
  <2>3. Only(e, cut, {"app_buf"})
    BY FieldNames DEF Only, Typed
  <2> QED BY <2>2, <2>3
<1>3. SendChunk(e, chunk) = QueueAndSend(cut, {"ACK"}, chunk)
  BY DEF SendChunk
<1> HIDE DEF cut
<1>4. Typed(SendChunk(e, chunk)) /\ Only(cut, SendChunk(e, chunk), Queueing)
  <2>1. chunk # <<>> /\ MayCarry({"ACK"}, chunk)
    BY Halves DEF MayCarry
  <2> QED BY <1>2, <1>3, <2>1, QueueFrame
<1> QED BY <1>2, <1>4 DEF Only, Segmenting

\* _send_pending's loop.
LEMMA SendDataFrame ==
    ASSUME NEW e, Typed(e)
    PROVE  Typed(SendData(e)) /\ Only(e, SendData(e), Segmenting)
<1> DEFINE n == Len(Chunks(e))
<1>1. n \in Nat
  BY ChunksAre
<1>2. PICK after :
         /\ after[0] = e
         /\ \A k \in 1 .. n : after[k] = SendChunk(after[k - 1], Chunks(e)[k])
         /\ SendData(e) = IF e.snd_wnd = 0 THEN e ELSE after[n]
  BY <1>1, SendDataSteps
<1> DEFINE G == {k \in 0 .. n : Typed(after[k]) /\ Only(e, after[k], Segmenting)}
<1>3. 0 \in G
  BY <1>1, <1>2 DEF Only
<1>4. ASSUME NEW k \in 1 .. n, k - 1 \in G PROVE k \in G
  <2>1. Chunks(e)[k] \in Seq(Bytes) /\ Len(Chunks(e)[k]) \in 1 .. TextMax
    BY ChunksAre
  <2>2. Typed(after[k - 1]) /\ Only(e, after[k - 1], Segmenting)
    BY <1>4
  <2>3. Typed(after[k]) /\ Only(after[k - 1], after[k], Segmenting)
    BY <1>2, <2>1, <2>2, SendChunkFrame
  <2>4. k \in 0 .. n
    BY <1>1
  <2> QED BY <2>2, <2>3, <2>4 DEF Only
<1>5. n \in G
  <2> HIDE DEF G, n
  <2> QED BY <1>1, <1>3, <1>4, Climb
<1> QED BY <1>2, <1>5 DEF Only

\* Our FIN goes out.
LEMMA EmitFinFrame ==
    ASSUME NEW e, Typed(e)
    PROVE  /\ Typed(EmitFin(e)) /\ Only(e, EmitFin(e), Sending)
           /\ EmitFin(e).state = AfterOurFin(e.state) /\ EmitFin(e).fin_sent = TRUE
<1> DEFINE queued == QueueAndSend(e, {"ACK", "FIN"}, <<>>)
           flagged == [queued EXCEPT !.fin_seq = e.snd_nxt, !.fin_sent = TRUE]
<1>1. Typed(queued) /\ Only(e, queued, Queueing)
  <2>1. <<>> \in Seq(Bytes) /\ MayCarry({"ACK", "FIN"}, <<>>) /\ {"ACK", "FIN"} # {"ACK"}
    BY DEF MayCarry
  <2> QED BY <2>1, QueueFrame
<1>2. e.snd_nxt \in EngineTypes["fin_seq"]
  BY Reads, FieldTypes
<1>3. EmitFin(e) = SetState(flagged, AfterOurFin(e.state))
  BY DEF EmitFin
<1> HIDE DEF queued
<1>4. Typed(flagged)
  BY <1>1, <1>2, Values, FieldNames, Zenon DEF Typed
<1>5. Only(queued, flagged, {"fin_seq", "fin_sent"}) /\ flagged.fin_sent = TRUE
  BY <1>1, FieldNames DEF Only, Typed
<1> HIDE DEF flagged
<1>6. AfterOurFin(e.state) \in States
  BY Reads DEF AfterOurFin, States, StatesBeforeFin
<1>7. /\ Typed(EmitFin(e)) /\ Only(flagged, EmitFin(e), Moving)
      /\ EmitFin(e).state = AfterOurFin(e.state)
  BY <1>3, <1>4, <1>6, SetStateFrame
<1>8. EmitFin(e).fin_sent = TRUE
  BY <1>5, <1>7, FieldNames DEF Only, Moving
<1>9. Only(e, EmitFin(e), Sending)
  BY <1>1, <1>5, <1>7 DEF Only, Sending, Segmenting
<1> QED BY <1>7, <1>8, <1>9

\* _send_pending: the state stays, or our FIN went out and moved it.
LEMMA SendPendingFrame ==
    ASSUME NEW e, Typed(e)
    PROVE  LET n == SendPending(e) IN
           /\ Typed(n) /\ Only(e, n, Sending)
           /\ \/ n.state = e.state /\ n.fin_sent = e.fin_sent
              \/ /\ MaySend(e) /\ n.state = AfterOurFin(e.state) /\ n.fin_sent = TRUE
                 /\ e.fin_pending = TRUE
<1> DEFINE cut == SendData(e)
           n == SendFinOrWait(cut)
           Done == /\ Typed(n) /\ Only(e, n, Sending)
                   /\ \/ n.state = e.state /\ n.fin_sent = e.fin_sent
                      \/ /\ n.state = AfterOurFin(e.state) /\ n.fin_sent = TRUE
                         /\ e.fin_pending = TRUE
<1>1. Typed(cut) /\ Only(e, cut, Segmenting)
  BY SendDataFrame
<1> HIDE DEF cut
<1>2. cut.state = e.state /\ cut.fin_sent = e.fin_sent /\ cut.fin_pending = e.fin_pending
  BY <1>1, FieldNames DEF Only, Segmenting, Queueing, Emitted
<1>3. ASSUME n = ArmPersist(cut) PROVE Done
  <2>1. Typed(n) /\ Only(cut, n, {"persist_timer"})
    BY <1>1, <1>3, TimerFrames
  <2>2. Only(e, n, Sending)
    BY <1>1, <2>1 DEF Only, Sending
  <2>3. n.state = cut.state /\ n.fin_sent = cut.fin_sent
    BY <2>1, FieldNames DEF Only
  <2> HIDE DEF n
  <2> QED BY <1>2, <2>1, <2>2, <2>3
<1>4. ASSUME FinDue(cut), n = EmitFin(cut) PROVE Done
  <2>1. /\ Typed(n) /\ Only(cut, n, Sending)
        /\ n.state = AfterOurFin(cut.state) /\ n.fin_sent = TRUE
    BY <1>1, <1>4, EmitFinFrame
  <2>2. Only(e, n, Sending)
    BY <1>1, <2>1 DEF Only, Sending
  <2>3. e.fin_pending = TRUE
    BY <1>2, <1>4, Reads DEF FinDue
  <2> HIDE DEF n
  <2> QED BY <1>2, <2>1, <2>2, <2>3
<1>5. ASSUME n = cut PROVE Done
  <2>1. Only(e, n, Sending)
    BY <1>1, <1>5 DEF Only, Sending
  <2> QED BY <1>1, <1>2, <1>5, <2>1
<1>6. n = ArmPersist(cut) \/ (FinDue(cut) /\ n = EmitFin(cut)) \/ n = cut
  BY DEF SendFinOrWait
<1>7. Done
  <2> HIDE DEF n, Done
  <2> QED BY <1>3, <1>4, <1>5, <1>6
<1>8. CASE MaySend(e)
  <2>1. SendPending(e) = n
    BY <1>8 DEF SendPending, cut
  <2> HIDE DEF n
  <2> QED BY <1>7, <1>8, <2>1
<1>9. CASE ~MaySend(e)
  <2>1. SendPending(e) = e
    BY <1>9 DEF SendPending
  <2> QED BY <2>1 DEF Only
<1> QED BY <1>8, <1>9

\* _cancel_persist tries to send again.
LEMMA CancelPersistFrame ==
    ASSUME NEW e, Typed(e)
    PROVE  LET n == CancelPersist(e) IN
           /\ Typed(n) /\ Only(e, n, Sending)
           /\ \/ n.state = e.state /\ n.fin_sent = e.fin_sent
              \/ /\ e.state \in {"ESTABLISHED", "CLOSE_WAIT", "SYN_RECEIVED"}
                 /\ n.state = AfterOurFin(e.state) /\ n.fin_sent = TRUE
                 /\ e.fin_pending = TRUE
<1> DEFINE m == [e EXCEPT !.persist_timer = FALSE]
<1>1. Typed(m)
  BY Values, FieldNames, Zenon DEF Typed
<1>2. Only(e, m, {"persist_timer"})
  BY FieldNames DEF Only, Typed
<1>3. CancelPersist(e) = SendPending(m)
  BY DEF CancelPersist
<1> HIDE DEF m
<1>4. /\ m.state = e.state /\ m.fin_sent = e.fin_sent /\ m.fin_pending = e.fin_pending
  BY <1>2, FieldNames DEF Only
<1>5. MaySend(m) => m.state \in {"ESTABLISHED", "CLOSE_WAIT", "SYN_RECEIVED"}
  BY DEF MaySend
<1>6. LET n == SendPending(m) IN
           /\ Typed(n) /\ Only(m, n, Sending)
           /\ \/ n.state = m.state /\ n.fin_sent = m.fin_sent
              \/ /\ MaySend(m) /\ n.state = AfterOurFin(m.state) /\ n.fin_sent = TRUE
                 /\ m.fin_pending = TRUE
  BY <1>1, SendPendingFrame
<1>7. Only(e, SendPending(m), Sending)
  BY <1>2, <1>6 DEF Only, Sending
<1> HIDE DEF Sending
<1> QED BY <1>3, <1>4, <1>5, <1>6, <1>7

-------------------------------------------------------------------------------
(* Consistent engines, and how a handler may move the state.               *)

\* The states before the peer is known, and those in which data still comes.
Unopened == {"CLOSED", "LISTEN", "SYN_SENT"}
Hearing == {"SYN_RECEIVED", "ESTABLISHED", "FIN_WAIT_1", "FIN_WAIT_2"}

\* What is kept for reassembly lies behind a gap, and in the free space.
Ahead(e) ==
    \A o \in e.ooo :
        /\ sub(o.seq, e.rcv_nxt) >= 1
        /\ sub(o.seq, e.rcv_nxt) + Len(o.data) <= RCV_WND - Len(e.recv_buf)

\* What the handlers rely on besides the ranges.
Consistent(e) ==
    /\ Len(e.recv_buf) <= RCV_WND
    /\ e.state \in Unopened => e.recv_buf = <<>> /\ e.ooo = {} /\ e.fin_pending = FALSE
    /\ e.state \in Hearing => Ahead(e)
    /\ e.state \in Finished => e.fin_sent = TRUE
    /\ e.state \notin Finished => e.fin_sent = FALSE /\ e.fin_acked = FALSE

Sound(e) == Typed(e) /\ Consistent(e)

\* The fields consistency is about.
Judged == {"state", "recv_buf", "ooo", "fin_pending", "fin_sent", "fin_acked", "rcv_nxt"}

\* A handler that keeps to other fields keeps an engine consistent.
LEMMA Undisturbed ==
    ASSUME NEW e, NEW n, NEW S, Consistent(e), Only(e, n, S), S \cap Judged = {}
    PROVE  Consistent(n) /\ n.state = e.state
<1>1. \A f \in Judged : f \in Fields \ S
  BY FieldNames DEF Judged
<1>2. /\ n.state = e.state /\ n.recv_buf = e.recv_buf /\ n.ooo = e.ooo
      /\ n.fin_pending = e.fin_pending /\ n.fin_sent = e.fin_sent
      /\ n.fin_acked = e.fin_acked /\ n.rcv_nxt = e.rcv_nxt
  BY <1>1 DEF Only, Judged
<1> QED BY <1>2, Zenon DEF Consistent, Ahead

\* _send_pending keeps it too, also when it sends our FIN.
LEMMA SentConsistent ==
    ASSUME NEW e, NEW n, Sound(e), Only(e, n, Sending),
           \/ n.state = e.state /\ n.fin_sent = e.fin_sent
           \/ /\ e.state \in {"ESTABLISHED", "CLOSE_WAIT", "SYN_RECEIVED"}
              /\ n.state = AfterOurFin(e.state) /\ n.fin_sent = TRUE
    PROVE  Consistent(n)
<1>1. /\ n.recv_buf = e.recv_buf /\ n.ooo = e.ooo /\ n.fin_pending = e.fin_pending
      /\ n.fin_acked = e.fin_acked /\ n.rcv_nxt = e.rcv_nxt
  BY FieldNames DEF Only, Sending, Segmenting, Queueing, Emitted, Moving
<1>2. CASE n.state = e.state /\ n.fin_sent = e.fin_sent
  BY <1>1, <1>2, Zenon DEF Sound, Consistent, Ahead
<1>3. CASE /\ e.state \in {"ESTABLISHED", "CLOSE_WAIT", "SYN_RECEIVED"}
           /\ n.state = AfterOurFin(e.state) /\ n.fin_sent = TRUE
  <2>1. /\ n.state \in {"FIN_WAIT_1", "LAST_ACK"}
        /\ n.state = "FIN_WAIT_1" => e.state \in Hearing
    BY <1>3 DEF AfterOurFin, StatesBeforeFin, Hearing
  <2>2. n.state \in Finished /\ n.state \notin Unopened /\ (n.state \in Hearing => e.state \in Hearing)
    BY <2>1 DEF Finished, Unopened, Hearing
  <2>3. Len(e.recv_buf) <= RCV_WND /\ (n.state \in Hearing => Ahead(e))
    BY <2>2 DEF Sound, Consistent
  <2>4. Ahead(e) => Ahead(n)
    BY <1>1, Zenon DEF Ahead
  <2> QED BY <1>1, <1>3, <2>2, <2>3, <2>4 DEF Consistent
<1> QED BY <1>2, <1>3

\* _send_pending as a whole.
LEMMA SendPendingSound ==
    ASSUME NEW e, Sound(e)
    PROVE  /\ Sound(SendPending(e)) /\ Only(e, SendPending(e), Sending)
           /\ \/ SendPending(e).state = e.state
              \/ /\ e.state \in {"ESTABLISHED", "CLOSE_WAIT", "SYN_RECEIVED"}
                 /\ SendPending(e).state = AfterOurFin(e.state)
                 /\ e.fin_pending = TRUE
<1>1. Typed(e)
  BY DEF Sound
<1>2. MaySend(e) => e.state \in {"ESTABLISHED", "CLOSE_WAIT", "SYN_RECEIVED"}
  BY DEF MaySend
<1>3. LET n == SendPending(e) IN
      /\ Typed(n) /\ Only(e, n, Sending)
      /\ \/ n.state = e.state /\ n.fin_sent = e.fin_sent
         \/ /\ MaySend(e) /\ n.state = AfterOurFin(e.state) /\ n.fin_sent = TRUE
            /\ e.fin_pending = TRUE
  BY <1>1, SendPendingFrame
<1> HIDE DEF Sending
<1>4. Consistent(SendPending(e))
  BY <1>2, <1>3, SentConsistent
<1> QED BY <1>2, <1>3, <1>4 DEF Sound

\* A handler that moves the state and none of the other fields.
LEMMA MovedConsistent ==
    ASSUME NEW e, NEW n, NEW S, Consistent(e), Only(e, n, S), S \cap Judged \subseteq {"state"},
           n.state \in Unopened => e.state \in Unopened,
           n.state \in Hearing => Ahead(e),
           n.state \in Finished <=> e.state \in Finished
    PROVE  Consistent(n)
<1>1. \A f \in Judged \ {"state"} : f \in Fields \ S
  BY FieldNames DEF Judged
<1>2. /\ n.recv_buf = e.recv_buf /\ n.ooo = e.ooo
      /\ n.fin_pending = e.fin_pending /\ n.fin_sent = e.fin_sent
      /\ n.fin_acked = e.fin_acked /\ n.rcv_nxt = e.rcv_nxt
  BY <1>1 DEF Only, Judged
<1>3. Ahead(e) => Ahead(n)
  BY <1>2, Zenon DEF Ahead
<1> QED BY <1>2, <1>3 DEF Consistent

-------------------------------------------------------------------------------
(* Ending a connection.                                                    *)

\* An engine without a connection: nothing received is left, no FIN is on its
\* way.
Bare(e) ==
    /\ e.recv_buf = <<>> /\ e.ooo = {} /\ e.fin_pending = FALSE
    /\ e.fin_sent = FALSE /\ e.fin_acked = FALSE

\* Such an engine is consistent in every state that has not sent a FIN.
LEMMA BareConsistent ==
    ASSUME NEW e, Bare(e), e.state \notin Finished
    PROVE  Consistent(e)
<1>1. Len(e.recv_buf) <= RCV_WND
  BY Halves DEF Bare
<1>2. Ahead(e)
  BY DEF Bare, Ahead
<1> QED BY <1>1, <1>2 DEF Bare, Consistent

Resetting == {"app_buf", "recv_buf", "retx", "ooo", "fin_pending", "fin_sent", "fin_acked",
              "pending_fin", "rtt_pending", "adv_right"}

\* _reset_buffers.
LEMMA ResetBuffersFrame ==
    ASSUME NEW e, Typed(e)
    PROVE  /\ Typed(ResetBuffers(e)) /\ Only(e, ResetBuffers(e), Resetting)
           /\ Bare(ResetBuffers(e))
<1>1. Typed(ResetBuffers(e))
  BY Values, FieldNames, Zenon DEF Typed, ResetBuffers
<1>2. Only(e, ResetBuffers(e), Resetting)
  BY FieldNames DEF Only, Typed, ResetBuffers, Resetting
<1>3. Bare(ResetBuffers(e))
  BY FieldNames DEF Typed, ResetBuffers, Bare
<1> QED BY <1>1, <1>2, <1>3

\* _enter_closed, from whatever state and with whatever was going on.
LEMMA EnterClosedSound ==
    ASSUME NEW e, Typed(e)
    PROVE  Sound(EnterClosed(e)) /\ EnterClosed(e).state = "CLOSED"
<1> DEFINE idle == CancelPersist(StopRt(e))
           quiet == CancelKeepalive(idle)
           stopped == [quiet EXCEPT !.tw_timer = FALSE, !.ack_timer = FALSE]
           bare == ResetBuffers(stopped)
<1>1. Typed(idle)
  BY TimerFrames, CancelPersistFrame
<1> HIDE DEF idle
<1>2. Typed(quiet)
  BY <1>1, CancelKeepaliveFrame
<1> HIDE DEF quiet
<1>3. Typed(stopped)
  BY <1>2, Values, FieldNames, Zenon DEF Typed
<1>4. EnterClosed(e) = SetState(bare, "CLOSED")
  BY DEF EnterClosed, quiet, idle
<1> HIDE DEF stopped
<1>5. Typed(bare) /\ Bare(bare)
  BY <1>3, ResetBuffersFrame
<1> HIDE DEF bare
<1> DEFINE n == SetState(bare, "CLOSED")
<1>6. Typed(n) /\ Only(bare, n, Moving) /\ n.state = "CLOSED"
  BY <1>5, SetStateFrame DEF States
<1> HIDE DEF n
<1>7. Bare(n)
  BY <1>5, <1>6, FieldNames DEF Bare, Only, Moving
<1>8. Consistent(n)
  BY <1>6, <1>7, BareConsistent DEF Finished
<1> QED BY <1>4, <1>6, <1>8 DEF Sound, n

\* A reset from the peer: back to LISTEN or to CLOSED.
LEMMA DoResetSound ==
    ASSUME NEW e, Typed(e)
    PROVE  /\ Sound(DoReset(e)) /\ MayBecome(e.state, DoReset(e).state)
           /\ DoReset(e).state # "CLOSED" => BackToListen(e) /\ DoReset(e).passive = e.passive
<1>1. CASE BackToListen(e)
  <2> DEFINE waiting == SetState(e, "LISTEN")
             bare == ResetBuffers(waiting)
             still == StopRt(bare)
             idle == CancelPersist(still)
             n == [idle EXCEPT !.remote = e.cfg_remote]
  <2>1. DoReset(e) = n
    BY <1>1 DEF DoReset
  <2>2. Typed(waiting) /\ waiting.state = "LISTEN" /\ waiting.passive = e.passive
    BY SetStateFrame, FieldNames DEF States, Only, Moving
  <2> HIDE DEF waiting
  <2>3. Typed(bare) /\ Bare(bare) /\ bare.state = "LISTEN" /\ bare.passive = e.passive
    BY <2>2, ResetBuffersFrame, FieldNames DEF Only, Resetting
  <2> HIDE DEF bare
  <2>4. Typed(still) /\ Only(bare, still, {"rt_timer", "rto_count"})
    BY <2>3, TimerFrames
  <2> HIDE DEF still
  <2>5. still.state = "LISTEN" /\ Bare(still) /\ still.passive = e.passive
    BY <2>3, <2>4, FieldNames DEF Only, Bare
  <2>6. Typed(idle) /\ Only(still, idle, Sending) /\ idle.state = "LISTEN" /\ idle.fin_sent = FALSE
    BY <2>4, <2>5, CancelPersistFrame DEF Bare
  <2> HIDE DEF idle
  <2>7. Bare(idle) /\ idle.passive = e.passive
    BY <2>5, <2>6, FieldNames
    DEF Bare, Only, Sending, Segmenting, Queueing, Emitted, Moving
  <2>8. Typed(n) /\ Only(idle, n, {"remote"})
    <3>1. e.cfg_remote \in EngineTypes["remote"]
      BY Reads, FieldTypes
    <3>2. Typed(n)
      BY <2>6, <3>1, FieldNames, Zenon DEF Typed
    <3>3. Only(idle, n, {"remote"})
      BY <2>6, FieldNames DEF Only, Typed
    <3> QED BY <3>2, <3>3
  <2> HIDE DEF n
  <2>9. Bare(n) /\ n.state = "LISTEN" /\ n.passive = e.passive
    BY <2>6, <2>7, <2>8, FieldNames DEF Bare, Only
  <2>10. Consistent(n)
    BY <2>9, BareConsistent DEF Finished
  <2>11. MayBecome(e.state, "LISTEN")
    BY <1>1 DEF BackToListen, MayBecome, Arcs
  <2> QED BY <1>1, <2>1, <2>8, <2>9, <2>10, <2>11 DEF Sound
<1>2. CASE ~BackToListen(e)
  <2>1. DoReset(e) = EnterClosed(e)
    BY <1>2 DEF DoReset
  <2> QED BY <2>1, EnterClosedSound DEF MayBecome
<1> QED BY <1>1, <1>2

\* abort() and _abort.
LEMMA AbortSound ==
    ASSUME NEW e, Typed(e)
    PROVE  Sound(Abort(e)) /\ Abort(e).state = "CLOSED"
<1>1. Typed(Emit(e, e.snd_nxt, {"RST"}, <<>>))
  <2>1. e.snd_nxt \in SeqNums /\ {"RST"} \in FlagSets /\ <<>> \in Seq(Bytes)
        /\ MayCarry({"RST"}, <<>>)
    BY Reads DEF FlagSets, MayCarry
  <2> QED BY <2>1, EmitFrame
<1>2. Abort(e) \in {EnterClosed(e), EnterClosed(Emit(e, e.snd_nxt, {"RST"}, <<>>))}
  BY DEF Abort
<1> QED BY <1>1, <1>2, EnterClosedSound

\* _enter_time_wait, once our FIN is out.
LEMMA EnterTimeWaitSound ==
    ASSUME NEW e, Typed(e), e.state \in Finished, e.fin_sent = TRUE,
           Len(e.recv_buf) <= RCV_WND
    PROVE  Sound(EnterTimeWait(e)) /\ EnterTimeWait(e).state = "TIME_WAIT"
<1> DEFINE still == StopRt(e)
           idle == CancelPersist(still)
           moved == SetState(idle, "TIME_WAIT")
           n == [moved EXCEPT !.tw_timer = TRUE]
<1>1. Typed(still) /\ Only(e, still, {"rt_timer", "rto_count"})
  BY TimerFrames
<1> HIDE DEF still
<1>2. still.state = e.state /\ still.fin_sent = TRUE /\ still.recv_buf = e.recv_buf
  BY <1>1, FieldNames DEF Only
<1>3. /\ Typed(idle) /\ Only(still, idle, Sending) /\ idle.fin_sent = TRUE
  <2>1. still.state \notin {"ESTABLISHED", "CLOSE_WAIT", "SYN_RECEIVED"}
    BY <1>2 DEF Finished
  <2> QED BY <1>1, <1>2, <2>1, CancelPersistFrame
<1>4. idle.recv_buf = e.recv_buf
  BY <1>2, <1>3, FieldNames DEF Only, Sending, Segmenting, Queueing, Emitted, Moving
<1> HIDE DEF idle
<1>5. Typed(moved) /\ Only(idle, moved, Moving) /\ moved.state = "TIME_WAIT"
  BY <1>3, SetStateFrame DEF States
<1>6. EnterTimeWait(e) = n
  BY DEF EnterTimeWait, idle, still
<1> HIDE DEF moved
<1>7. Typed(n)
  BY <1>5, Values, FieldNames, Zenon DEF Typed
<1>8. Only(moved, n, {"tw_timer"})
  BY <1>5, FieldNames DEF Only, Typed
<1>9. n.state = "TIME_WAIT" /\ n.fin_sent = TRUE /\ n.recv_buf = e.recv_buf
  <2> HIDE DEF n
  <2> QED BY <1>3, <1>4, <1>5, <1>8, FieldNames DEF Only, Moving
<1>10. Consistent(n)
  <2> HIDE DEF n
  <2> QED BY <1>9 DEF Consistent, Unopened, Hearing, Finished
<1> QED BY <1>6, <1>7, <1>9, <1>10 DEF Sound

-------------------------------------------------------------------------------
(* Acknowledgments.                                                        *)

\* An entry that is acknowledged in part is text, and some of it is left.
LEMMA PartlyAcked ==
    ASSUME NEW o \in QueueEntries, NEW ack \in SeqNums,
           seq_lt(o.seq, ack), ~Covered(o, ack)
    PROVE  /\ sub(ack, o.seq) \in 1 .. Len(o.payload) - 1 /\ o.flags = {"ACK"}
           /\ [o EXCEPT !.payload = SubSeq(@, sub(ack, o.seq) + 1, Len(@)), !.seq = ack]
                 \in QueueEntries
<1> DEFINE d == sub(ack, o.seq)
           b == sub(o.seq, ack)
           c == sub(End(o), ack)
           len == SegLen(o)
<1>1. /\ o.seq \in SeqNums /\ o.payload \in Seq(Bytes) /\ len \in 1 .. TextMax
      /\ End(o) \in SeqNums /\ End(o) = add(o.seq, len)
      /\ o.flags = {"ACK"} => len = Len(o.payload)
      /\ o.flags # {"ACK"} => len = 1
  BY EntryTakes DEF End
<1>2. b >= HALF
  BY <1>1, Compares
<1>3. c > 0 /\ c < HALF
  <2>1. c # 0 /\ ~(c >= HALF)
    BY <1>1, Compares DEF Covered
  <2>2. c \in Nat
    BY <1>1, InSeqNums, Numbers
  <2> HIDE DEF c
  <2> QED BY <2>1, <2>2, Halves
<1>4. /\ d = IF ack >= o.seq THEN ack - o.seq ELSE ack - o.seq + MOD
      /\ b = IF o.seq >= ack THEN o.seq - ack ELSE o.seq - ack + MOD
      /\ c = IF End(o) >= ack THEN End(o) - ack ELSE End(o) - ack + MOD
  BY <1>1, Subs
<1>5. End(o) = IF o.seq + len < MOD THEN o.seq + len ELSE o.seq + len - MOD
  <2>1. len \in 0 .. MOD
    BY <1>1, Halves
  <2> HIDE DEF len
  <2> QED BY <1>1, <2>1, Adds
<1>6. /\ ack \in Nat /\ ack < MOD /\ o.seq \in Nat /\ o.seq < MOD
      /\ End(o) \in Nat /\ End(o) < MOD
      /\ len \in Nat /\ len >= 1 /\ len < HALF
  BY <1>1, Numbers, Halves
<1> DEFINE end == End(o)
           start == o.seq
<1> HIDE DEF d, b, c, len, end, start
<1>7. d \in 1 .. len - 1 /\ len \in Nat
  <2>1. /\ d = IF ack >= start THEN ack - start ELSE ack - start + MOD
        /\ b = IF start >= ack THEN start - ack ELSE start - ack + MOD
        /\ c = IF end >= ack THEN end - ack ELSE end - ack + MOD
        /\ end = IF start + len < MOD THEN start + len ELSE start + len - MOD
        /\ start \in Nat /\ start < MOD /\ end \in Nat /\ end < MOD
    BY <1>4, <1>5, <1>6 DEF end, start
  <2>2. d \in Int /\ d >= 1 /\ d < len
    BY <1>2, <1>3, <1>6, <2>1, Halves
  <2> QED BY <1>6, <2>2
<1>8. o.flags = {"ACK"} /\ len = Len(o.payload)
  BY <1>1, <1>7
<1> DEFINE some == SubSeq(o.payload, d + 1, Len(o.payload))
           trimmed == [o EXCEPT !.payload = some, !.seq = ack]
<1>9. some \in Seq(Bytes) /\ Len(some) = len - d
  <2>1. /\ d + 1 \in Int /\ Len(o.payload) \in Int /\ d + 1 <= Len(o.payload)
        /\ \A i \in d + 1 .. Len(o.payload) : o.payload[i] \in Bytes
    BY <1>1, <1>7, <1>8
  <2>2. /\ some \in Seq(Bytes) /\ Len(some) = Len(o.payload) - (d + 1) + 1
    BY <2>1, SubSeqProperties
  <2> HIDE DEF some
  <2> QED BY <1>7, <1>8, <2>2
<1> HIDE DEF some
<1>10. /\ o = [seq |-> o.seq, flags |-> o.flags, payload |-> o.payload,
               retransmitted |-> o.retransmitted]
       /\ o.retransmitted \in BOOLEAN
  BY DEF QueueEntries
<1>11. trimmed = [seq |-> ack, flags |-> o.flags, payload |-> some,
                  retransmitted |-> o.retransmitted]
  <2> DEFINE cut == [o EXCEPT !.payload = some]
  <2>1. cut = [seq |-> o.seq, flags |-> o.flags, payload |-> some,
               retransmitted |-> o.retransmitted]
    BY <1>10
  <2>2. trimmed = [cut EXCEPT !.seq = ack]
    OBVIOUS
  <2> HIDE DEF trimmed, cut
  <2> QED BY <2>1, <2>2
<1>12. Len(some) \in 1 .. TextMax /\ some # <<>>
  BY <1>1, <1>7, <1>9, Halves
<1> HIDE DEF trimmed
<1>13. trimmed \in QueueEntries
  BY <1>8, <1>9, <1>10, <1>11, <1>12 DEF QueueEntries, MayCarry
<1> QED
  BY <1>7, <1>8, <1>13 DEF trimmed, some, d

\* How many entries an acknowledgment covers, from the head.
LEMMA CoveredAre ==
    ASSUME NEW retx \in Seq(QueueEntries), NEW ack \in SeqNums
    PROVE  \E gone \in 0 .. Len(retx) :
              /\ \A i \in 1 .. gone : Covered(retx[i], ack)
              /\ gone = Len(retx) \/ ~Covered(retx[gone + 1], ack)
              /\ LET rest == SubSeq(retx, gone + 1, Len(retx)) IN
                 Unacked(retx, ack) =
                    IF rest # <<>> /\ seq_lt(rest[1].seq, ack)
                    THEN [rest EXCEPT ![1].payload = SubSeq(@, sub(ack, rest[1].seq) + 1, Len(@)),
                                      ![1].seq = ack]
                    ELSE rest
<1> DEFINE n == Len(retx)
           Stops(k) == /\ \A i \in 1 .. k : Covered(retx[i], ack)
                       /\ k = n \/ ~Covered(retx[k + 1], ack)
<1>1. n \in Nat
  OBVIOUS
<1>2. \E k \in 0 .. n : Stops(k)
  <2>1. CASE \A i \in 1 .. n : Covered(retx[i], ack)
    <3>1. n \in 0 .. n /\ Stops(n)
      BY <1>1, <2>1
    <3> HIDE DEF Stops, n
    <3> QED BY <3>1
  <2>2. CASE \E i \in 1 .. n : ~Covered(retx[i], ack)
    <3> DEFINE T == {i \in 1 .. n : ~Covered(retx[i], ack)}
    <3>1. T \in SUBSET Nat /\ T # {}
      BY <2>2
    <3> HIDE DEF T
    <3>2. PICK x \in T : \A y \in T : x <= y
      BY <3>1, Smallest
    <3>3. x \in 1 .. n /\ ~Covered(retx[x], ack)
      BY DEF T
    <3>4. ASSUME NEW i \in 1 .. x - 1 PROVE Covered(retx[i], ack)
      <4>1. i \in 1 .. n /\ i \in Nat /\ x \in Nat /\ ~(x <= i)
        BY <1>1, <3>3
      <4>2. i \notin T
        BY <3>2, <4>1
      <4> QED BY <4>1, <4>2 DEF T
    <3>5. x - 1 \in 0 .. n /\ (x - 1) + 1 = x
      BY <1>1, <3>3
    <3>6. Stops(x - 1)
      BY <3>3, <3>4, <3>5
    <3> HIDE DEF Stops, n
    <3> QED BY <3>5, <3>6
  <2> QED BY <2>1, <2>2
<1> DEFINE gone == CHOOSE k \in 0 .. n : Stops(k)
<1>3. gone \in 0 .. n /\ Stops(gone)
  <2> HIDE DEF Stops, n
  <2> QED BY <1>2
<1>4. LET rest == SubSeq(retx, gone + 1, n) IN
         Unacked(retx, ack) =
            IF rest # <<>> /\ seq_lt(rest[1].seq, ack)
            THEN [rest EXCEPT ![1].payload = SubSeq(@, sub(ack, rest[1].seq) + 1, Len(@)),
                              ![1].seq = ack]
            ELSE rest
  BY Zenon DEF Unacked
<1> HIDE DEF gone
<1> gone \in 0 .. Len(retx)
  BY <1>3
<1> WITNESS gone \in 0 .. Len(retx)
<1> QED BY <1>3, <1>4

\* What an acknowledgment leaves of the queue is a queue.
LEMMA UnackedTyped ==
    ASSUME NEW retx \in Seq(QueueEntries), NEW ack \in SeqNums
    PROVE  Unacked(retx, ack) \in Seq(QueueEntries)
<1>1. PICK gone \in 0 .. Len(retx) :
         /\ \A i \in 1 .. gone : Covered(retx[i], ack)
         /\ gone = Len(retx) \/ ~Covered(retx[gone + 1], ack)
         /\ LET rest == SubSeq(retx, gone + 1, Len(retx)) IN
            Unacked(retx, ack) =
               IF rest # <<>> /\ seq_lt(rest[1].seq, ack)
               THEN [rest EXCEPT ![1].payload = SubSeq(@, sub(ack, rest[1].seq) + 1, Len(@)),
                                 ![1].seq = ack]
               ELSE rest
  BY CoveredAre
<1> DEFINE rest == SubSeq(retx, gone + 1, Len(retx))
<1>2. Len(retx) \in Nat
  OBVIOUS
<1>3. rest \in Seq(QueueEntries)
  BY <1>2, SubSeqProperties
<1>4. CASE rest # <<>> /\ seq_lt(rest[1].seq, ack)
  <2> DEFINE o == rest[1]
             trimmed == [o EXCEPT !.payload = SubSeq(@, sub(ack, o.seq) + 1, Len(@)), !.seq = ack]
  <2>1. gone + 1 \in 1 .. Len(retx) /\ o = retx[gone + 1] /\ 1 \in 1 .. Len(rest)
    <3>1. gone < Len(retx)
      <4> SUFFICES ASSUME gone = Len(retx) PROVE FALSE
        BY <1>2
      <4>1. rest = <<>>
        BY <1>2, SubSeqProperties
      <4> QED BY <1>4, <4>1
    <3>2. \A i \in gone + 1 .. Len(retx) : retx[i] \in QueueEntries
      BY <1>2
    <3>3. /\ Len(rest) = Len(retx) - (gone + 1) + 1
          /\ \A i \in 1 .. Len(retx) - (gone + 1) + 1 : rest[i] = retx[(gone + 1) + i - 1]
      BY <1>2, <3>1, <3>2, SubSeqProperties
    <3> HIDE DEF rest
    <3>4. 1 \in 1 .. Len(retx) - (gone + 1) + 1 /\ (gone + 1) + 1 - 1 = gone + 1
      BY <1>2, <3>1
    <3>5. rest[1] = retx[gone + 1]
      BY <3>3, <3>4
    <3> QED BY <1>2, <3>1, <3>3, <3>4, <3>5
  <2>2. o \in QueueEntries
    BY <1>3, <2>1
  <2>3. ~Covered(o, ack)
    BY <1>1, <2>1, <1>2
  <2>4. trimmed \in QueueEntries
    <3> HIDE DEF o
    <3>1. seq_lt(o.seq, ack)
      BY <1>4 DEF o
    <3> QED BY <2>2, <2>3, <3>1, PartlyAcked
  <2>5. Unacked(retx, ack) = [rest EXCEPT ![1] = trimmed]
    <3>1. Unacked(retx, ack) =
             [rest EXCEPT ![1].payload = SubSeq(@, sub(ack, rest[1].seq) + 1, Len(@)),
                          ![1].seq = ack]
      BY <1>1, <1>4
    <3> HIDE DEF rest
    <3>2. 1 \in DOMAIN rest
      BY <1>3, <2>1
    <3> QED BY <3>1, <3>2
  <2> HIDE DEF rest, trimmed
  <2>6. [rest EXCEPT ![1] = trimmed] \in Seq(QueueEntries)
    BY <1>3, <2>1, <2>4, ExceptSeq
  <2> QED BY <2>5, <2>6
<1>5. CASE ~(rest # <<>> /\ seq_lt(rest[1].seq, ack))
  <2>1. Unacked(retx, ack) = rest
    BY <1>1, <1>5
  <2> HIDE DEF rest
  <2> QED BY <1>3, <2>1
<1> QED BY <1>4, <1>5

Acknowledging == {"snd_una", "retx", "rtt_pending", "fin_acked", "rto_count", "rt_timer"}

\* _process_ack.
LEMMA ProcessAckSound ==
    ASSUME NEW e, Sound(e), NEW ack \in SeqNums
    PROVE  LET n == ProcessAck(e, ack) IN
           /\ Sound(n) /\ Only(e, n, Acknowledging) /\ n.state = e.state
<1> DEFINE retx == Unacked(e.retx, ack)
           timed == IF e.rtt_pending # None /\ seq_geq(ack, e.rtt_pending) THEN None
                    ELSE e.rtt_pending
           acked == e.fin_acked \/ FinCovered(e, ack)
           armed == (retx # <<>>)
           n == [e EXCEPT !.snd_una = ack, !.retx = retx, !.rtt_pending = timed,
                          !.fin_acked = acked, !.rto_count = 0, !.rt_timer = armed]
<1>1. Typed(e) /\ Consistent(e)
  BY DEF Sound
<1>2. e.retx \in Seq(QueueEntries) /\ e.rtt_pending \in Noted
  BY <1>1, Reads
<1>3. /\ ack \in EngineTypes["snd_una"] /\ retx \in EngineTypes["retx"]
      /\ timed \in EngineTypes["rtt_pending"]
  <2>1. retx \in Seq(QueueEntries)
    BY <1>2, UnackedTyped
  <2>2. timed \in Noted
    BY <1>2 DEF Noted
  <2> QED BY <2>1, <2>2, FieldTypes
<1>4. acked \in EngineTypes["fin_acked"] /\ armed \in EngineTypes["rt_timer"]
  BY Values, Zenon
<1>5. ProcessAck(e, ack) = n
  BY Zenon DEF ProcessAck, AckTaken
<1>6. e.fin_sent = FALSE => acked = e.fin_acked
  <2>1. e.fin_acked \in BOOLEAN
    BY <1>1, Reads
  <2> QED BY <2>1, Zenon DEF FinCovered
<1> HIDE DEF retx, timed, acked, armed
<1>7. Typed(n)
  BY <1>1, <1>3, <1>4, Values, FieldNames, Zenon DEF Typed
<1>8. Only(e, n, Acknowledging) /\ n.fin_acked = acked
  BY <1>1, FieldNames DEF Only, Typed, Acknowledging
<1> HIDE DEF n
<1>9. /\ n.state = e.state /\ n.recv_buf = e.recv_buf /\ n.ooo = e.ooo
      /\ n.fin_pending = e.fin_pending /\ n.fin_sent = e.fin_sent /\ n.rcv_nxt = e.rcv_nxt
  BY <1>8, FieldNames DEF Only, Acknowledging
<1>10. Ahead(e) => Ahead(n)
  BY <1>9, Zenon DEF Ahead
<1>11. Consistent(n)
  BY <1>1, <1>6, <1>8, <1>9, <1>10 DEF Consistent
<1> QED BY <1>5, <1>7, <1>8, <1>9, <1>11 DEF Sound

-------------------------------------------------------------------------------
(* Received data.                                                          *)

\* Distances from a base and from a number k further on.
LEMMA Offsets ==
    ASSUME NEW base \in SeqNums, NEW x \in SeqNums, NEW k \in 0 .. MOD - 1
    PROVE  /\ sub(x, add(base, k)) =
                 IF sub(x, base) >= k THEN sub(x, base) - k ELSE sub(x, base) - k + MOD
           /\ sub(add(base, k), x) =
                 IF k >= sub(x, base) THEN k - sub(x, base) ELSE k - sub(x, base) + MOD
           /\ \A j \in 0 .. MOD - 1 : k + j < MOD => add(add(base, k), j) = add(base, k + j)
<1> DEFINE q == sub(x, base)
           y == add(base, k)
<1>1. /\ y \in SeqNums /\ q \in SeqNums /\ k \in Nat /\ k < MOD
      /\ y = IF base + k < MOD THEN base + k ELSE base + k - MOD
  <2>1. MOD \in Nat
    BY Halves
  <2> QED BY <2>1, InSeqNums, Adds
<1>2. q = IF x >= base THEN x - base ELSE x - base + MOD
  BY Subs
<1> HIDE DEF q, y
<1>3. /\ sub(x, y) = (IF x >= y THEN x - y ELSE x - y + MOD)
      /\ sub(y, x) = (IF y >= x THEN y - x ELSE y - x + MOD)
  BY <1>1, Subs
<1>4. /\ base \in Nat /\ base < MOD /\ x \in Nat /\ x < MOD /\ y \in Nat /\ y < MOD
      /\ q \in Nat /\ q < MOD
  BY <1>1, Numbers
<1>5. sub(x, y) = IF q >= k THEN q - k ELSE q - k + MOD
  BY <1>1, <1>2, <1>3, <1>4, Halves
<1>6. sub(y, x) = IF k >= q THEN k - q ELSE k - q + MOD
  BY <1>1, <1>2, <1>3, <1>4, Halves
<1>7. ASSUME NEW j \in 0 .. MOD - 1, k + j < MOD
      PROVE  add(y, j) = add(base, k + j)
  <2>1. j \in 0 .. MOD /\ k + j \in 0 .. MOD /\ j \in Nat
    BY <1>1, <1>7, Halves
  <2>2. /\ add(y, j) = (IF y + j < MOD THEN y + j ELSE y + j - MOD)
        /\ add(base, k + j) = (IF base + (k + j) < MOD THEN base + (k + j) ELSE base + (k + j) - MOD)
    BY <1>1, <2>1, Adds
  <2> QED BY <1>1, <1>4, <1>7, <2>1, <2>2, Halves
<1> QED BY <1>5, <1>6, <1>7 DEF q, y

Delivering == {"recv_buf", "stream", "rcv_nxt", "ooo"}

\* _deliver.
LEMMA DeliverFrame ==
    ASSUME NEW e, Typed(e), NEW data \in Seq(Bytes)
    PROVE  LET n == Deliver(e, data) IN
           /\ Typed(n) /\ Only(e, n, {"recv_buf", "stream", "rcv_nxt"})
           /\ n.recv_buf = e.recv_buf \o data /\ n.stream = e.stream \o data
           /\ n.rcv_nxt = add(e.rcv_nxt, Len(data))
<1> DEFINE buf == e.recv_buf \o data
           told == e.stream \o data
           next == add(e.rcv_nxt, Len(data))
           n == [e EXCEPT !.recv_buf = buf, !.stream = told, !.rcv_nxt = next]
<1>1. /\ buf \in EngineTypes["recv_buf"] /\ told \in EngineTypes["stream"]
      /\ next \in EngineTypes["rcv_nxt"]
  <2>1. e.recv_buf \in Seq(Bytes) /\ e.stream \in Seq(Bytes \cup {EOF}) /\ e.rcv_nxt \in SeqNums
    BY Reads
  <2>2. data \in Seq(Bytes \cup {EOF}) /\ Len(data) \in Int
    OBVIOUS
  <2>3. buf \in Seq(Bytes)
    BY <2>1
  <2>4. told \in Seq(Bytes \cup {EOF})
    BY <2>1, <2>2
  <2>5. next \in SeqNums
    BY <2>1, <2>2, InSeqNums
  <2> QED BY <2>3, <2>4, <2>5, FieldTypes
<1>2. Deliver(e, data) = n
  BY DEF Deliver
<1> HIDE DEF buf, told, next
<1>3. Typed(n)
  BY <1>1, FieldNames, Zenon DEF Typed
<1>4. Only(e, n, {"recv_buf", "stream", "rcv_nxt"})
      /\ n.recv_buf = buf /\ n.stream = told /\ n.rcv_nxt = next
  BY FieldNames DEF Only, Typed
<1> QED BY <1>2, <1>3, <1>4 DEF buf, told, next

\* A byte of what is kept.
HeldByte(o, x) == o.data[sub(x, o.seq) + 1]

\* _merge_reassembly delivers a run of kept bytes that ends where none is
\* kept, each byte out of a kept segment that holds its number.
LEMMA MergeIs ==
    ASSUME NEW e, Typed(e), NEW free \in 0 .. HALF, Holding(e, add(e.rcv_nxt, free)) = {}
    PROVE  \E data \in Seq(Bytes) :
              /\ MergeReassembly(e) = Pruned(Deliver(e, data))
              /\ Len(data) <= free
              /\ Holding(e, add(e.rcv_nxt, Len(data))) = {}
              /\ \A j \in 1 .. Len(data) :
                    \E o \in Holding(e, add(e.rcv_nxt, j - 1)) :
                       data[j] = HeldByte(o, add(e.rcv_nxt, j - 1))
<1> DEFINE at(j) == add(e.rcv_nxt, j)
           Ends(k) == /\ \A j \in 0 .. k - 1 : Holding(e, at(j)) # {}
                      /\ Holding(e, at(k)) = {}
           n == CHOOSE k \in 0 .. HALF : Ends(k)
           one(j) == CHOOSE o \in Holding(e, at(j)) : TRUE
           data == [j \in 1 .. n |-> HeldByte(one(j - 1), at(j - 1))]
<1>1. HALF \in Nat /\ free \in Nat /\ e.rcv_nxt \in SeqNums /\ e.ooo \in SUBSET KeptRecords
  BY Halves, Reads
<1>2. \E k \in 0 .. HALF : Ends(k)
  <2> DEFINE T == {k \in 0 .. free : Holding(e, at(k)) = {}}
  <2>1. T \in SUBSET Nat /\ T # {}
    BY <1>1
  <2> HIDE DEF T
  <2>2. PICK x \in T : \A y \in T : x <= y
    BY <2>1, Smallest
  <2>3. x \in 0 .. free /\ Holding(e, at(x)) = {}
    BY DEF T
  <2>4. ASSUME NEW j \in 0 .. x - 1 PROVE Holding(e, at(j)) # {}
    <3>1. j \in 0 .. free /\ ~(x <= j)
      BY <1>1, <2>3
    <3> QED BY <2>2, <3>1 DEF T
  <2>5. x \in 0 .. HALF /\ Ends(x)
    BY <1>1, <2>3, <2>4
  <2> HIDE DEF Ends
  <2> QED BY <2>5
<1>3. n \in 0 .. HALF /\ Ends(n)
  <2> HIDE DEF Ends
  <2> QED BY <1>2
<1>4. MergeReassembly(e) = Pruned(Deliver(e, data))
  BY DEF MergeReassembly, HeldByte
<1> HIDE DEF n
<1>5. ASSUME NEW j \in 1 .. n
      PROVE  one(j - 1) \in Holding(e, at(j - 1)) /\ HeldByte(one(j - 1), at(j - 1)) \in Bytes
  <2> DEFINE o == one(j - 1)
  <2>1. j - 1 \in 0 .. n - 1 /\ j - 1 \in Int
    BY <1>1, <1>3
  <2>2. Holding(e, at(j - 1)) # {}
    BY <1>3, <2>1
  <2>3. o \in Holding(e, at(j - 1))
    BY <2>2
  <2> HIDE DEF o
  <2>4. o \in KeptRecords /\ sub(at(j - 1), o.seq) < Len(o.data)
    BY <1>1, <2>3 DEF Holding
  <2>5. o.seq \in SeqNums /\ o.data \in Seq(Bytes) /\ at(j - 1) \in SeqNums
    BY <1>1, <2>1, <2>4, InSeqNums DEF KeptRecords
  <2>6. sub(at(j - 1), o.seq) \in Nat
    BY <2>5, InSeqNums, Numbers
  <2>7. sub(at(j - 1), o.seq) + 1 \in 1 .. Len(o.data)
    BY <2>4, <2>5, <2>6
  <2>8. HeldByte(o, at(j - 1)) \in Bytes
    BY <2>5, <2>7 DEF HeldByte
  <2> QED BY <2>3, <2>8 DEF o
<1>6. data \in Seq(Bytes) /\ Len(data) = n
  <2>1. n \in Nat
    BY <1>1, <1>3
  <2>2. \A j \in 1 .. n : HeldByte(one(j - 1), at(j - 1)) \in Bytes
    BY <1>5
  <2> HIDE DEF one
  <2> QED BY <2>1, <2>2
<1>7. n <= free
  <2> SUFFICES ASSUME ~(n <= free) PROVE FALSE
    OBVIOUS
  <2>1. free \in 0 .. n - 1
    BY <1>1, <1>3
  <2> QED BY <1>3, <2>1
<1>8. ASSUME NEW j \in 1 .. n
      PROVE  \E o \in Holding(e, at(j - 1)) : data[j] = HeldByte(o, at(j - 1))
  <2>1. data[j] = HeldByte(one(j - 1), at(j - 1))
    OBVIOUS
  <2> HIDE DEF one, data
  <2> QED BY <1>5, <2>1
<1> HIDE DEF data
<1> QED BY <1>3, <1>4, <1>6, <1>7, <1>8

\* What remains kept.
LEMMA PrunedFrame ==
    ASSUME NEW e, Typed(e)
    PROVE  /\ Typed(Pruned(e)) /\ Only(e, Pruned(e), {"ooo"})
           /\ Pruned(e).ooo = {o \in e.ooo : seq_gt(o.seq, e.rcv_nxt)}
<1> DEFINE kept == {o \in e.ooo : seq_gt(o.seq, e.rcv_nxt)}
<1>1. kept \in EngineTypes["ooo"]
  <2>1. e.ooo \in SUBSET KeptRecords
    BY Reads
  <2> QED BY <2>1, FieldTypes
<1>2. Pruned(e) = [e EXCEPT !.ooo = kept]
  BY DEF Pruned
<1> HIDE DEF kept
<1>3. Typed(Pruned(e))
  BY <1>1, <1>2, FieldNames, Zenon DEF Typed
<1>4. Only(e, Pruned(e), {"ooo"}) /\ Pruned(e).ooo = kept
  BY <1>2, FieldNames DEF Only, Typed
<1> QED BY <1>3, <1>4 DEF kept

\* Merging stays within the buffer, and what is still kept lies behind a gap
\* again.  base is where RCV.NXT stood before the b bytes just delivered.
LEMMA MergeSound ==
    ASSUME NEW e, Typed(e), NEW base \in SeqNums, NEW b \in Nat,
           e.rcv_nxt = add(base, b), Len(e.recv_buf) <= RCV_WND, b <= Len(e.recv_buf),
           \A o \in e.ooo :
              /\ sub(o.seq, base) >= 1
              /\ sub(o.seq, base) + Len(o.data) <= b + (RCV_WND - Len(e.recv_buf))
    PROVE  LET n == MergeReassembly(e) IN
           /\ Typed(n) /\ Only(e, n, Delivering) /\ Len(n.recv_buf) <= RCV_WND /\ Ahead(n)
<1> DEFINE free == RCV_WND - Len(e.recv_buf)
<1>1. /\ e.recv_buf \in Seq(Bytes) /\ Len(e.recv_buf) \in Nat /\ e.ooo \in SUBSET KeptRecords
      /\ e.rcv_nxt \in SeqNums
  BY Reads
<1>2. /\ free \in Nat /\ free <= RCV_WND /\ b + free <= RCV_WND /\ free \in 0 .. HALF
      /\ b + free \in 0 .. MOD - 1 /\ free \in 0 .. MOD - 1 /\ b \in 0 .. MOD - 1
      /\ b + free < MOD
  <2>1. /\ free \in Nat /\ free <= RCV_WND /\ b + free <= RCV_WND /\ b + free \in Nat
        /\ b <= RCV_WND
    BY <1>1, Halves
  <2> HIDE DEF free
  <2>2. HALF \in Nat /\ MOD \in Nat /\ RCV_WND < HALF /\ HALF < MOD /\ RCV_WND \in Nat
    BY Halves
  <2> QED BY <2>1, <2>2
<1>3. ASSUME NEW o \in e.ooo
      PROVE  /\ o.seq \in SeqNums /\ Len(o.data) \in Nat /\ sub(o.seq, base) \in Nat
             /\ sub(o.seq, base) < MOD /\ sub(o.seq, base) >= 1
             /\ sub(o.seq, base) + Len(o.data) <= b + free
  <2>1. o.seq \in SeqNums /\ Len(o.data) \in Nat
    BY <1>1 DEF KeptRecords
  <2> QED BY <2>1, InSeqNums, Numbers
<1> HIDE DEF free
<1>4. Holding(e, add(e.rcv_nxt, free)) = {}
  <2>1. add(e.rcv_nxt, free) = add(base, b + free)
    BY <1>2, Offsets
  <2>2. ASSUME NEW o \in e.ooo PROVE ~(sub(add(base, b + free), o.seq) < Len(o.data))
    <3> DEFINE q == sub(o.seq, base)
               reach == b + free
    <3>1. /\ o.seq \in SeqNums /\ Len(o.data) \in Nat /\ q \in Nat /\ q + Len(o.data) <= reach
          /\ reach \in Nat
      BY <1>2, <1>3
    <3>2. sub(add(base, reach), o.seq) = IF reach >= q THEN reach - q ELSE reach - q + MOD
      BY <1>2, <3>1, Offsets
    <3> HIDE DEF q, reach
    <3>3. ~(sub(add(base, reach), o.seq) < Len(o.data))
      BY <3>1, <3>2
    <3> QED BY <3>3 DEF reach
  <2> QED BY <2>1, <2>2 DEF Holding
<1>5. PICK data \in Seq(Bytes) :
         /\ MergeReassembly(e) = Pruned(Deliver(e, data))
         /\ Len(data) <= free
  BY <1>2, <1>4, MergeIs
<1> DEFINE m == Deliver(e, data)
           n == Pruned(m)
<1>6. /\ Typed(m) /\ Only(e, m, {"recv_buf", "stream", "rcv_nxt"})
      /\ m.recv_buf = e.recv_buf \o data /\ m.rcv_nxt = add(e.rcv_nxt, Len(data))
  BY DeliverFrame
<1> HIDE DEF m
<1>7. /\ Typed(n) /\ Only(m, n, {"ooo"}) /\ n.ooo = {o \in m.ooo : seq_gt(o.seq, m.rcv_nxt)}
  BY <1>6, PrunedFrame
<1> HIDE DEF n
<1>8. Only(e, n, Delivering)
  BY <1>6, <1>7 DEF Only, Delivering
<1>9. /\ m.ooo = e.ooo /\ n.recv_buf = m.recv_buf /\ n.rcv_nxt = m.rcv_nxt
  BY <1>6, <1>7, FieldNames DEF Only
<1>10. Len(n.recv_buf) = Len(e.recv_buf) + Len(data) /\ Len(data) \in Nat
  BY <1>1, <1>6, <1>9
<1>11. Len(n.recv_buf) <= RCV_WND /\ RCV_WND - Len(n.recv_buf) = free - Len(data)
  BY <1>1, <1>2, <1>5, <1>10, Halves DEF free
<1>12. n.rcv_nxt = add(base, b + Len(data)) /\ b + Len(data) \in 0 .. MOD - 1
  <2>1. Len(data) \in 0 .. MOD - 1 /\ b + Len(data) < MOD /\ b + Len(data) \in 0 .. MOD - 1
    <3> DEFINE len == Len(data)
    <3>1. len \in Nat /\ len <= free /\ free \in Nat /\ b + free < MOD /\ MOD \in Nat
      BY <1>2, <1>5, <1>10, Halves
    <3> HIDE DEF len
    <3>2. len \in 0 .. MOD - 1 /\ b + len < MOD /\ b + len \in 0 .. MOD - 1
      BY <3>1
    <3> QED BY <3>2 DEF len
  <2> QED BY <1>2, <1>6, <1>9, <2>1, Offsets
<1>13. Ahead(n)
  <2> SUFFICES ASSUME NEW o \in n.ooo
               PROVE  /\ sub(o.seq, n.rcv_nxt) >= 1
                      /\ sub(o.seq, n.rcv_nxt) + Len(o.data) <= RCV_WND - Len(n.recv_buf)
    BY DEF Ahead
  <2> DEFINE q == sub(o.seq, base)
             p == sub(o.seq, n.rcv_nxt)
             k == b + Len(data)
  <2>1. o \in e.ooo /\ seq_gt(o.seq, n.rcv_nxt)
    BY <1>7, <1>9
  <2>2. /\ o.seq \in SeqNums /\ Len(o.data) \in Nat /\ q \in Nat /\ q < MOD
        /\ q + Len(o.data) <= b + free
    BY <1>3, <2>1
  <2>3. n.rcv_nxt \in SeqNums
    BY <1>12, InSeqNums
  <2>4. p > 0 /\ p < HALF
    BY <2>1, <2>2, <2>3, Compares
  <2>5. p = IF q >= k THEN q - k ELSE q - k + MOD
    BY <1>12, <2>2, Offsets
  <2>6. k \in Nat /\ k < HALF
    <3> DEFINE len == Len(data)
    <3>1. len \in Nat /\ len <= free /\ free \in Nat /\ b + free < HALF /\ HALF \in Nat
      BY <1>2, <1>5, <1>10, Halves
    <3> HIDE DEF len
    <3>2. b + len \in Nat /\ b + len < HALF
      BY <1>2, <3>1
    <3> QED BY <3>2 DEF len
  <2> HIDE DEF q, p
  <2>7. p = q - k
    <3>1. p \in Int /\ k \in Nat /\ k < HALF /\ HALF \in Nat /\ MOD = 2 * HALF
      BY <2>2, <2>5, <2>6, Halves
    <3> HIDE DEF k
    <3> QED BY <2>2, <2>4, <2>5, <3>1
  <2> QED
    BY <1>2, <1>5, <1>10, <1>11, <2>2, <2>4, <2>6, <2>7 DEF p
<1> QED BY <1>5, <1>7, <1>8, <1>11, <1>13 DEF n, m

\* A segment kept for reassembly.
LEMMA StoreOooFrame ==
    ASSUME NEW e, Typed(e), NEW seq \in SeqNums, NEW data \in Seq(Bytes),
           Len(data) \in 1 .. TextMax
    PROVE  LET n == StoreOoo(e, seq, data) IN
           /\ Typed(n) /\ Only(e, n, {"ooo"})
           /\ n.ooo \subseteq e.ooo \cup {[seq |-> seq, data |-> data]}
<1> DEFINE o == [seq |-> seq, data |-> data]
           kept == e.ooo \cup {o}
           n == [e EXCEPT !.ooo = kept]
<1>1. kept \in EngineTypes["ooo"]
  <2>1. e.ooo \in SUBSET KeptRecords
    BY Reads
  <2>2. o \in KeptRecords
    BY DEF KeptRecords
  <2> HIDE DEF o
  <2> QED BY <2>1, <2>2, FieldTypes
<1>2. StoreOoo(e, seq, data) = e \/ StoreOoo(e, seq, data) = n
  BY DEF StoreOoo
<1> HIDE DEF kept
<1>3. Typed(n)
  BY <1>1, FieldNames, Zenon DEF Typed
<1>4. Only(e, n, {"ooo"}) /\ n.ooo = kept
  BY FieldNames DEF Only, Typed
<1> HIDE DEF n
<1> QED BY <1>2, <1>3, <1>4 DEF kept, Only

\* _recv_data's trimming: what is taken fits the window that was advertised,
\* hence the buffer.
LEMMA TakeTextSound ==
    ASSUME NEW e, Typed(e), Len(e.recv_buf) <= RCV_WND, Ahead(e),
           NEW seq \in SeqNums, sub(seq, e.rcv_nxt) < HALF,
           NEW text \in Seq(Bytes), Len(text) <= TextMax
    PROVE  LET n == TakeText(e, seq, text, Space(e, seq)) IN
           /\ Typed(n) /\ Only(e, n, Delivering) /\ Len(n.recv_buf) <= RCV_WND /\ Ahead(n)
<1> DEFINE space == Space(e, seq)
           q == sub(seq, e.rcv_nxt)
           wnd == RcvWnd(e)
           free == RCV_WND - Len(e.recv_buf)
           data == SubSeq(text, 1, Least(Len(text), space))
           n == TakeText(e, seq, text, space)
<1> SUFFICES Typed(n) /\ Only(e, n, Delivering) /\ Len(n.recv_buf) <= RCV_WND /\ Ahead(n)
  OBVIOUS
<1>1. /\ e.recv_buf \in Seq(Bytes) /\ e.rcv_nxt \in SeqNums
      /\ Len(e.recv_buf) \in Nat /\ Len(text) \in Nat
  BY Reads
<1>2. wnd \in Nat /\ wnd <= free /\ free \in Nat /\ free <= RCV_WND
  <2>1. FreeSpace(e) = free
    <3> DEFINE used == Len(e.recv_buf)
    <3>1. used \in Nat /\ used <= RCV_WND /\ RCV_WND \in Nat
      BY <1>1, Halves
    <3>2. FreeSpace(e) = IF used >= RCV_WND THEN 0 ELSE RCV_WND - used
      BY DEF FreeSpace
    <3> HIDE DEF used
    <3>3. FreeSpace(e) = RCV_WND - used
      BY <3>1, <3>2
    <3> QED BY <3>3 DEF used
  <2>2. free \in Nat /\ free <= RCV_WND
    BY <1>1, Halves
  <2>3. wnd \in 0 .. free
    BY <2>1, WindowFits
  <2> HIDE DEF wnd, free
  <2> QED BY <2>2, <2>3
<1>3. q \in Nat /\ q < HALF
  BY <1>1, InSeqNums, Numbers
<1>4. space = wnd - q
  <2> DEFINE right == add(e.rcv_nxt, wnd)
             d == sub(right, seq)
  <2>1. right \in SeqNums /\ d \in SeqNums /\ wnd \in 0 .. MOD - 1
    <3>1. wnd \in 0 .. MOD - 1 /\ wnd \in Int
      <4> HIDE DEF wnd, free
      <4> QED BY <1>2, Halves
    <3> HIDE DEF wnd
    <3> QED BY <1>1, <3>1, InSeqNums
  <2>2. d = IF wnd >= q THEN wnd - q ELSE wnd - q + MOD
    <3> HIDE DEF wnd
    <3> QED BY <1>1, <2>1, Offsets
  <2>3. space = IF d < HALF THEN d ELSE d - MOD
    <3>1. space = s32(d)
      BY DEF Space
    <3> HIDE DEF d, space
    <3> QED BY <2>1, <3>1, Signed
  <2> HIDE DEF d, wnd, free, q, space
  <2> QED BY <1>2, <1>3, <2>2, <2>3, Halves
<1> space \in Int
  <2> HIDE DEF wnd, q, free, space
  <2> QED BY <1>2, <1>3, <1>4
<1> HIDE DEF space
<1>5. CASE text = <<>> \/ space <= 0
  <2>1. n = e
    BY <1>5 DEF TakeText
  <2> HIDE DEF n
  <2> QED BY <2>1 DEF Only
<1>6. ASSUME text # <<>>, space > 0
      PROVE  /\ data \in Seq(Bytes) /\ Len(data) \in 1 .. TextMax /\ Len(data) <= space
             /\ Len(data) \in Nat /\ space \in Int
  <2> HIDE DEF space, wnd, q, free
  <2>1. space \in Nat /\ space >= 1 /\ Len(text) >= 1
    BY <1>1, <1>2, <1>3, <1>4, <1>6
  <2>2. Least(Len(text), space) \in 1 .. Len(text) /\ Least(Len(text), space) <= space
    BY <1>1, <2>1 DEF Least
  <2>3. \A i \in 1 .. Least(Len(text), space) : text[i] \in Bytes
    BY <1>1, <2>2
  <2>4. data \in Seq(Bytes) /\ Len(data) = Least(Len(text), space) - 1 + 1
    BY <1>1, <2>2, <2>3, SubSeqProperties
  <2> HIDE DEF data
  <2> QED BY <1>1, <2>1, <2>2, <2>4, Halves
<1>7. CASE text # <<>> /\ space > 0 /\ seq = e.rcv_nxt
  <2> DEFINE m == Deliver(e, data)
             b == Len(data)
  <2>1. n = MergeReassembly(m)
    BY <1>7 DEF TakeText
  <2>2. data \in Seq(Bytes) /\ b \in Nat /\ b <= space /\ space \in Int
    BY <1>6, <1>7
  <2> HIDE DEF data
  <2>3. /\ Typed(m) /\ Only(e, m, {"recv_buf", "stream", "rcv_nxt"})
        /\ m.recv_buf = e.recv_buf \o data /\ m.rcv_nxt = add(e.rcv_nxt, b)
    BY <2>2, DeliverFrame
  <2> HIDE DEF m
  <2>4. m.ooo = e.ooo /\ Len(m.recv_buf) = Len(e.recv_buf) + b
    <3>1. m.ooo = e.ooo
      BY <2>3, FieldNames DEF Only
    <3>2. Len(e.recv_buf \o data) = Len(e.recv_buf) + Len(data)
      BY <1>1, <2>2
    <3> QED BY <2>3, <3>1, <3>2
  <2>5. b <= free /\ Len(m.recv_buf) <= RCV_WND /\ b <= Len(m.recv_buf)
        /\ b + (RCV_WND - Len(m.recv_buf)) = free
    <3>1. b <= free
      <4> HIDE DEF space, wnd, q, free, b
      <4> QED BY <1>2, <1>3, <1>4, <2>2
    <3> HIDE DEF b
    <3> QED BY <1>1, <2>2, <2>4, <3>1, Halves
  <2>6. \A o \in m.ooo :
           /\ sub(o.seq, e.rcv_nxt) >= 1
           /\ sub(o.seq, e.rcv_nxt) + Len(o.data) <= b + (RCV_WND - Len(m.recv_buf))
    BY <2>4, <2>5 DEF Ahead
  <2> HIDE DEF b
  <2>7. LET r == MergeReassembly(m) IN
        Typed(r) /\ Only(m, r, Delivering) /\ Len(r.recv_buf) <= RCV_WND /\ Ahead(r)
    BY <1>1, <2>2, <2>3, <2>5, <2>6, MergeSound
  <2>8. Only(e, MergeReassembly(m), Delivering)
    BY <2>3, <2>7 DEF Only, Delivering
  <2> HIDE DEF n
  <2> QED BY <2>1, <2>7, <2>8
<1>8. CASE text # <<>> /\ space > 0 /\ seq # e.rcv_nxt
  <2> DEFINE o == [seq |-> seq, data |-> data]
  <2>1. n = StoreOoo(e, seq, data)
    BY <1>8 DEF TakeText
  <2>2. /\ data \in Seq(Bytes) /\ Len(data) \in 1 .. TextMax /\ Len(data) <= space
        /\ Len(data) \in Nat
    BY <1>6, <1>8
  <2> HIDE DEF data
  <2>3. Typed(n) /\ Only(e, n, {"ooo"}) /\ n.ooo \subseteq e.ooo \cup {o}
    BY <2>1, <2>2, StoreOooFrame
  <2> HIDE DEF n
  <2>4. n.recv_buf = e.recv_buf /\ n.rcv_nxt = e.rcv_nxt
    BY <2>3, FieldNames DEF Only
  <2>5. q # 0
    <3>1. q = IF seq >= e.rcv_nxt THEN seq - e.rcv_nxt ELSE seq - e.rcv_nxt + MOD
      BY <1>1, Subs
    <3>2. seq \in Nat /\ seq < MOD /\ e.rcv_nxt \in Nat /\ e.rcv_nxt < MOD
      BY <1>1, Numbers
    <3> HIDE DEF q
    <3> QED BY <1>8, <3>1, <3>2, Halves
  <2>6. q >= 1 /\ q + Len(data) <= free
    <3> HIDE DEF space, wnd, q, free
    <3> QED BY <1>2, <1>3, <1>4, <2>2, <2>5
  <2>7. Ahead(n)
    <3> SUFFICES ASSUME NEW p \in n.ooo
                 PROVE  /\ sub(p.seq, n.rcv_nxt) >= 1
                        /\ sub(p.seq, n.rcv_nxt) + Len(p.data) <= RCV_WND - Len(n.recv_buf)
      BY DEF Ahead
    <3>1. CASE p \in e.ooo
      BY <2>4, <3>1 DEF Ahead
    <3>2. CASE p = o
      <4>1. p.seq = seq /\ p.data = data
        BY <3>2
      <4> QED BY <2>4, <2>6, <4>1
    <3> QED BY <2>3, <3>1, <3>2
  <2>8. Only(e, n, Delivering)
    BY <2>3 DEF Only, Delivering
  <2> QED BY <2>3, <2>4, <2>7, <2>8
<1> HIDE DEF n
<1> QED BY <1>5, <1>7, <1>8

Receiving == Delivering \cup Acking

\* What a segment on the wire is.
LEMMA SegmentReads ==
    ASSUME NEW seg \in SegmentRecords
    PROVE  /\ seg.seq \in SeqNums /\ seg.ack \in SeqNums /\ seg.flags \in FlagSets
           /\ seg.window \in 0 .. RCV_WND /\ seg.payload \in Seq(Bytes)
           /\ Len(seg.payload) \in 0 .. TextMax
           /\ seg.payload # <<>> => seg.flags = {"ACK"}
<1>1. /\ seg.seq \in SeqNums /\ seg.ack \in SeqNums /\ seg.flags \in FlagSets
      /\ seg.window \in 0 .. RCV_WND /\ seg.payload \in Seq(Bytes)
      /\ MayCarry(seg.flags, seg.payload)
  BY DEF SegmentRecords
<1>2. Len(seg.payload) \in 0 .. TextMax
  BY <1>1, Halves DEF MayCarry
<1> QED BY <1>1, <1>2 DEF MayCarry

\* _recv_data.
LEMMA RecvDataSound ==
    ASSUME NEW e, Sound(e), e.state \in Hearing, NEW seg \in SegmentRecords
    PROVE  LET n == RecvData(e, seg) IN
           Sound(n) /\ Only(e, n, Receiving) /\ n.state = e.state
<1> DEFINE off == Received(e, seg)
           seq == add(seg.seq, off)
           text == SubSeq(seg.payload, off + 1, Len(seg.payload))
           taken == TakeText(e, seq, text, Space(e, seq))
           force == (taken.rcv_nxt = e.rcv_nxt)
           n == ScheduleAck(taken, force)
<1>1. /\ Typed(e) /\ Consistent(e) /\ Len(e.recv_buf) <= RCV_WND /\ Ahead(e)
      /\ e.rcv_nxt \in SeqNums
  BY Reads DEF Sound, Consistent
<1>2. /\ seg.seq \in SeqNums /\ seg.payload \in Seq(Bytes) /\ Len(seg.payload) \in 0 .. TextMax
  BY SegmentReads
<1>3. off \in Nat /\ seq \in SeqNums /\ sub(seq, e.rcv_nxt) < HALF
  <2> DEFINE q == sub(seg.seq, e.rcv_nxt)
             p == sub(e.rcv_nxt, seg.seq)
  <2>1. /\ q = (IF seg.seq >= e.rcv_nxt THEN seg.seq - e.rcv_nxt ELSE seg.seq - e.rcv_nxt + MOD)
        /\ p = (IF e.rcv_nxt >= seg.seq THEN e.rcv_nxt - seg.seq ELSE e.rcv_nxt - seg.seq + MOD)
        /\ seq_lt(seg.seq, e.rcv_nxt) <=> q >= HALF
    BY <1>1, <1>2, Subs, Compares
  <2>2. /\ seg.seq \in Nat /\ seg.seq < MOD /\ e.rcv_nxt \in Nat /\ e.rcv_nxt < MOD
    BY <1>1, <1>2, Numbers
  <2>3. off = IF q >= HALF THEN p ELSE 0
    BY <2>1 DEF Received
  <2> HIDE DEF q, p, off
  <2>4. off \in 0 .. MOD /\ off \in Nat
    BY <2>1, <2>2, <2>3, Halves
  <2>5. seq = IF seg.seq + off < MOD THEN seg.seq + off ELSE seg.seq + off - MOD
    BY <1>2, <2>4, Adds
  <2>6. seq \in SeqNums
    BY <1>2, <2>4, InSeqNums
  <2>7. sub(seq, e.rcv_nxt) = IF seq >= e.rcv_nxt THEN seq - e.rcv_nxt ELSE seq - e.rcv_nxt + MOD
    <3> HIDE DEF seq
    <3> QED BY <1>1, <2>6, Subs
  <2> DEFINE r == sub(seq, e.rcv_nxt)
  <2> HIDE DEF seq, r
  <2>8. r < HALF
    BY <2>1, <2>2, <2>3, <2>4, <2>5, <2>7, Halves DEF r
  <2> QED BY <2>4, <2>6, <2>8 DEF r
<1> HIDE DEF seq, off
<1>4. text \in Seq(Bytes) /\ Len(text) <= TextMax
  <2>1. Len(seg.payload) \in Nat /\ Len(seg.payload) <= TextMax /\ TextMax \in Nat
    BY <1>2, Halves
  <2>2. CASE off + 1 > Len(seg.payload)
    <3>1. text = <<>>
      BY <1>2, <1>3, <2>1, <2>2, SubSeqProperties
    <3> HIDE DEF text
    <3> QED BY <3>1, <2>1
  <2>3. CASE off + 1 <= Len(seg.payload)
    <3>1. \A i \in off + 1 .. Len(seg.payload) : seg.payload[i] \in Bytes
      BY <1>2, <1>3, <2>1
    <3>2. text \in Seq(Bytes) /\ Len(text) = Len(seg.payload) - (off + 1) + 1
      BY <1>3, <2>1, <2>3, <3>1, SubSeqProperties
    <3> HIDE DEF text
    <3> QED BY <1>3, <2>1, <3>2
  <2> QED BY <1>3, <2>1, <2>2, <2>3
<1> HIDE DEF text
<1>5. /\ Typed(taken) /\ Only(e, taken, Delivering) /\ Len(taken.recv_buf) <= RCV_WND
      /\ Ahead(taken)
  BY <1>1, <1>3, <1>4, TakeTextSound
<1> HIDE DEF taken
<1>6. Typed(n) /\ Only(taken, n, Acking)
  BY <1>5, ScheduleAckFrame
<1>7. RecvData(e, seg) = n
  BY DEF RecvData, n, force, taken, text, seq, off
<1> HIDE DEF n
<1>8. Only(e, n, Receiving)
  BY <1>5, <1>6 DEF Only, Receiving
<1>9. /\ n.state = e.state /\ n.fin_pending = e.fin_pending /\ n.fin_sent = e.fin_sent
      /\ n.fin_acked = e.fin_acked
      /\ n.recv_buf = taken.recv_buf /\ n.ooo = taken.ooo /\ n.rcv_nxt = taken.rcv_nxt
  BY <1>5, <1>6, FieldNames DEF Only, Delivering, Acking, Emitted
<1>10. Ahead(n)
  BY <1>5, <1>9, Zenon DEF Ahead
<1>11. Consistent(n)
  <2>1. e.state \notin Unopened
    BY DEF Hearing, Unopened
  <2> QED BY <1>1, <1>5, <1>9, <1>10, <2>1 DEF Consistent
<1> QED BY <1>6, <1>7, <1>8, <1>9, <1>11 DEF Sound

-------------------------------------------------------------------------------
(* The peer's FIN, and what follows the text of a segment.                 *)

\* The states in which text and FINs are exchanged.
Exchanging == {"ESTABLISHED", "FIN_WAIT_1", "FIN_WAIT_2", "CLOSE_WAIT", "CLOSING", "LAST_ACK"}

\* The state our own FIN may have led to, if it has just gone out.
Own(state) ==
    {state} \cup (IF state \in {"ESTABLISHED", "CLOSE_WAIT", "SYN_RECEIVED"}
                  THEN {AfterOurFin(state)} ELSE {})

\* The same for both FINs, ours first.
Both(state) == Own(state) \cup {AfterFin(s) : s \in Own(state)}

\* _process_fin.
LEMMA ProcessFinSound ==
    ASSUME NEW e, Sound(e), e.state \in Exchanging
    PROVE  Sound(ProcessFin(e)) /\ ProcessFin(e).state = AfterFin(e.state)
<1> DEFINE next == add(e.rcv_nxt, 1)
           told == Append(e.stream, EOF)
           m == [e EXCEPT !.pending_fin = None, !.rcv_nxt = next, !.stream = told]
           a == SendAck(m)
           new == AfterFin(e.state)
<1>1. Typed(e) /\ Consistent(e)
  BY DEF Sound
<1>2. next \in EngineTypes["rcv_nxt"] /\ told \in EngineTypes["stream"]
  <2>1. e.rcv_nxt \in SeqNums /\ e.stream \in Seq(Bytes \cup {EOF})
    BY <1>1, Reads
  <2>2. next \in SeqNums /\ told \in Seq(Bytes \cup {EOF})
    BY <2>1, InSeqNums
  <2> QED BY <2>2, FieldTypes
<1>3. ProcessFin(e) = EnterAfterFin(a)
  BY DEF ProcessFin
<1> HIDE DEF next, told
<1>4. Typed(m)
  BY <1>1, <1>2, Values, FieldNames, Zenon DEF Typed
<1>5. Only(e, m, {"pending_fin", "rcv_nxt", "stream"})
  BY <1>1, FieldNames DEF Only, Typed
<1> HIDE DEF m
<1>6. Typed(a) /\ Only(m, a, Acking)
  BY <1>4, SendAckFrame
<1> HIDE DEF a
<1>7. /\ a.state = e.state /\ a.recv_buf = e.recv_buf /\ a.fin_sent = e.fin_sent
      /\ a.fin_acked = e.fin_acked
  BY <1>5, <1>6, FieldNames DEF Only, Acking, Emitted
<1>8. CASE new = "TIME_WAIT"
  <2>1. e.state = "FIN_WAIT_2"
    BY <1>8 DEF AfterFin, Exchanging
  <2>2. EnterAfterFin(a) = EnterTimeWait(a)
    BY <1>7, <1>8 DEF EnterAfterFin
  <2>3. a.state \in Finished /\ a.fin_sent = TRUE /\ Len(a.recv_buf) <= RCV_WND
    BY <1>1, <1>7, <2>1 DEF Consistent, Finished
  <2> HIDE DEF new
  <2> QED BY <1>3, <1>6, <1>8, <2>2, <2>3, EnterTimeWaitSound DEF new
<1>9. CASE new # "TIME_WAIT"
  <2> DEFINE n == SetState(a, new)
  <2>1. EnterAfterFin(a) = n
    BY <1>7, <1>9 DEF EnterAfterFin
  <2>2. /\ new \in States /\ new \notin Unopened /\ new \notin Hearing
        /\ new \in Finished <=> e.state \in Finished
    BY <1>9 DEF AfterFin, Exchanging, States, Unopened, Hearing, Finished
  <2> HIDE DEF new
  <2>3. Typed(n) /\ Only(a, n, Moving) /\ n.state = new
    BY <1>6, <2>2, SetStateFrame
  <2> HIDE DEF n
  <2>4. n.recv_buf = e.recv_buf /\ n.fin_sent = e.fin_sent /\ n.fin_acked = e.fin_acked
    BY <1>7, <2>3, FieldNames DEF Only, Moving
  <2>5. Consistent(n)
    BY <1>1, <2>2, <2>3, <2>4 DEF Consistent
  <2> QED BY <1>3, <2>1, <2>3, <2>5 DEF Sound, new
<1> QED BY <1>8, <1>9

\* The tail of the processing of a segment.
LEMMA TextAndFinSound ==
    ASSUME NEW e, Sound(e), e.state \in Exchanging, NEW seg \in SegmentRecords
    PROVE  LET n == TextAndFin(e, seg) IN Sound(n) /\ n.state \in Both(e.state)
<1> DEFINE text == IF /\ seg.payload # <<>>
                      /\ e.state \in {"ESTABLISHED", "FIN_WAIT_1", "FIN_WAIT_2"}
                   THEN RecvData(e, seg) ELSE e
           pushed == SendPending(text)
           number == add(seg.seq, Len(seg.payload))
           noted == IF "FIN" \in seg.flags THEN NoteFin(pushed, number) ELSE pushed
           n == CheckPendingFin(noted)
<1>1. Sound(text) /\ text.state = e.state
  BY RecvDataSound DEF Hearing
<1>2. TextAndFin(e, seg) = n
  BY DEF TextAndFin
<1> HIDE DEF text
<1>3. Sound(pushed) /\ pushed.state \in Own(e.state)
  BY <1>1, SendPendingSound DEF Own
<1> HIDE DEF pushed
<1>4. Sound(noted) /\ noted.state = pushed.state
  <2> DEFINE m == [pushed EXCEPT !.pending_fin = number]
  <2>1. number \in EngineTypes["pending_fin"]
    <3>1. seg.seq \in SeqNums /\ Len(seg.payload) \in Int
      BY SegmentReads
    <3>2. number \in Noted
      BY <3>1, InSeqNums DEF Noted
    <3> QED BY <3>2, FieldTypes
  <2>2. noted \in {m, pushed}
    BY DEF NoteFin
  <2> HIDE DEF number
  <2>3. Typed(m)
    BY <1>3, <2>1, FieldNames, Zenon DEF Typed, Sound
  <2>4. Only(pushed, m, {"pending_fin"})
    BY <1>3, FieldNames DEF Only, Typed, Sound
  <2> HIDE DEF m
  <2>5. Consistent(m) /\ m.state = pushed.state
    <3>1. {"pending_fin"} \cap Judged = {}
      BY DEF Judged
    <3> QED BY <1>3, <2>4, <3>1, Undisturbed DEF Sound
  <2> QED BY <1>3, <2>2, <2>3, <2>5 DEF Sound
<1> HIDE DEF noted
<1>5. noted.state \in Exchanging
  BY <1>3, <1>4 DEF Own, Exchanging, AfterOurFin, StatesBeforeFin
<1>6. Sound(n) /\ n.state \in {noted.state, AfterFin(noted.state)}
  BY <1>4, <1>5, ProcessFinSound DEF CheckPendingFin
<1> HIDE DEF n
<1>7. n.state \in Both(e.state)
  BY <1>3, <1>4, <1>6 DEF Both
<1> QED BY <1>2, <1>6, <1>7

\* _update_window's fields.
LEMMA TakeWindowFrame ==
    ASSUME NEW e, Typed(e), NEW seg \in SegmentRecords, NEW wl2 \in SeqNums
    PROVE  LET n == TakeWindow(e, seg, wl2) IN
           Typed(n) /\ Only(e, n, {"snd_wnd", "snd_wl1", "snd_wl2"})
<1> DEFINE wnd == seg.window
           wl1 == seg.seq
           n == [e EXCEPT !.snd_wnd = wnd, !.snd_wl1 = wl1, !.snd_wl2 = wl2]
<1>1. /\ wnd \in EngineTypes["snd_wnd"] /\ wl1 \in EngineTypes["snd_wl1"]
      /\ wl2 \in EngineTypes["snd_wl2"]
  BY SegmentReads, FieldTypes
<1>2. TakeWindow(e, seg, wl2) = n
  BY DEF TakeWindow
<1> HIDE DEF wnd, wl1
<1>3. Typed(n)
  BY <1>1, FieldNames, Zenon DEF Typed
<1>4. Only(e, n, {"snd_wnd", "snd_wl1", "snd_wl2"})
  BY FieldNames DEF Only, Typed
<1> QED BY <1>2, <1>3, <1>4

\* Taking the peer's window keeps an engine sound.
LEMMA TakeWindowSound ==
    ASSUME NEW e, Sound(e), NEW seg \in SegmentRecords, NEW wl2 \in SeqNums
    PROVE  LET n == TakeWindow(e, seg, wl2) IN
           /\ Sound(n) /\ n.state = e.state
           /\ Only(e, n, {"snd_wnd", "snd_wl1", "snd_wl2"})
<1> DEFINE n == TakeWindow(e, seg, wl2)
<1>1. Typed(n) /\ Only(e, n, {"snd_wnd", "snd_wl1", "snd_wl2"})
  BY TakeWindowFrame DEF Sound
<1> HIDE DEF n
<1>2. {"snd_wnd", "snd_wl1", "snd_wl2"} \cap Judged = {}
  BY DEF Judged
<1>3. Consistent(n) /\ n.state = e.state
  BY <1>1, <1>2, Undisturbed DEF Sound
<1> QED BY <1>1, <1>3 DEF Sound, n

\* _update_window: a window that opens may let our FIN out.
LEMMA UpdateWindowSound ==
    ASSUME NEW e, Sound(e), NEW seg \in SegmentRecords
    PROVE  LET n == UpdateWindow(e, seg) IN
           Sound(n) /\ n.state \in Own(e.state) /\ n.fin_acked = e.fin_acked
<1> DEFINE updated == TakeWindow(e, seg, seg.ack)
           sending == CancelPersist(updated)
<1>1. /\ Sound(updated) /\ updated.state = e.state
      /\ Only(e, updated, {"snd_wnd", "snd_wl1", "snd_wl2"})
  BY SegmentReads, TakeWindowSound
<1>2. UpdateWindow(e, seg) \in {e, updated, sending}
  BY DEF UpdateWindow
<1> HIDE DEF updated
<1>3. updated.fin_acked = e.fin_acked
  BY <1>1, FieldNames DEF Only
<1>4. /\ Typed(sending) /\ Only(updated, sending, Sending)
      /\ \/ sending.state = updated.state /\ sending.fin_sent = updated.fin_sent
         \/ /\ updated.state \in {"ESTABLISHED", "CLOSE_WAIT", "SYN_RECEIVED"}
            /\ sending.state = AfterOurFin(updated.state) /\ sending.fin_sent = TRUE
  BY <1>1, CancelPersistFrame DEF Sound
<1> HIDE DEF sending
<1>5. Consistent(sending)
  <2> HIDE DEF Sending
  <2> QED BY <1>1, <1>4, SentConsistent
<1>6. sending.fin_acked = updated.fin_acked
  BY <1>4, FieldNames DEF Only, Sending, Segmenting, Queueing, Emitted, Moving
<1>7. sending.state \in Own(e.state) /\ e.state \in Own(e.state)
  BY <1>1, <1>4 DEF Own
<1> QED BY <1>1, <1>2, <1>3, <1>4, <1>5, <1>6, <1>7 DEF Sound

-------------------------------------------------------------------------------
(* SEGMENT ARRIVES.                                                        *)

\* Where the two FINs may lead within one segment is on the diagram.
LEMMA BothIsLegal ==
    /\ \A to \in Both("ESTABLISHED") :
          MayBecome("ESTABLISHED", to) /\ MayBecome("SYN_RECEIVED", to)
    /\ \A from \in Exchanging : \A to \in Both(from) : MayBecome(from, to)
    /\ \A to \in Both("FIN_WAIT_2") : MayBecome("FIN_WAIT_1", to)
    /\ \A to \in Both("FIN_WAIT_1") : MayBecome("ESTABLISHED", to)
    /\ \A to \in Both("LAST_ACK") : MayBecome("CLOSE_WAIT", to)
<1> USE DEF Both, Own, AfterFin, AfterOurFin, StatesBeforeFin
<1>1. /\ Both("ESTABLISHED") = {"ESTABLISHED", "FIN_WAIT_1", "CLOSE_WAIT", "CLOSING"}
      /\ Both("FIN_WAIT_1") = {"FIN_WAIT_1", "CLOSING"}
      /\ Both("FIN_WAIT_2") = {"FIN_WAIT_2", "TIME_WAIT"}
      /\ Both("CLOSE_WAIT") = {"CLOSE_WAIT", "LAST_ACK"}
      /\ Both("CLOSING") = {"CLOSING"} /\ Both("LAST_ACK") = {"LAST_ACK"}
  OBVIOUS
<1> QED BY <1>1 DEF Exchanging, MayBecome, Arcs, Compositions

\* An acknowledgment that is sent changes nothing else.
LEMMA SendAckSound ==
    ASSUME NEW e, Sound(e)
    PROVE  Sound(SendAck(e)) /\ SendAck(e).state = e.state
<1> DEFINE n == SendAck(e)
<1>1. Typed(n) /\ Only(e, n, Acking)
  BY SendAckFrame DEF Sound
<1>2. Acking \cap Judged = {}
  BY DEF Acking, Emitted, Judged
<1> HIDE DEF n, Acking
<1>3. Consistent(n) /\ n.state = e.state
  BY <1>1, <1>2, Undisturbed DEF Sound
<1> QED BY <1>1, <1>3 DEF Sound, n

\* Nor does a reset in answer.
LEMMA RstReplySound ==
    ASSUME NEW e, Sound(e), NEW seq \in SeqNums, NEW ack \in SeqNums,
           NEW flags \in {{"RST"}, {"RST", "ACK"}}
    PROVE  LET n == EmitRstReply(e, seq, ack, flags) IN Sound(n) /\ n.state = e.state
<1> DEFINE n == EmitRstReply(e, seq, ack, flags)
<1>1. Typed(n) /\ Only(e, n, {"out"})
  BY RstReplyFrame DEF Sound
<1>2. {"out"} \cap Judged = {}
  BY DEF Judged
<1> HIDE DEF n
<1>3. Consistent(n) /\ n.state = e.state
  BY <1>1, <1>2, Undisturbed DEF Sound
<1> QED BY <1>1, <1>3 DEF Sound, n

\* A move between states of which neither or both have our FIN out.
LEMMA SetStateSound ==
    ASSUME NEW e, Sound(e), NEW new \in States,
           new \in Unopened => e.state \in Unopened,
           new \in Hearing => Ahead(e),
           new \in Finished <=> e.state \in Finished
    PROVE  LET n == SetState(e, new) IN Sound(n) /\ n.state = new /\ Only(e, n, Moving)
<1> DEFINE n == SetState(e, new)
<1>1. Typed(n) /\ Only(e, n, Moving) /\ n.state = new
  BY SetStateFrame DEF Sound
<1>2. Moving \cap Judged \subseteq {"state"}
  BY DEF Moving, Judged
<1> HIDE DEF n, Moving
<1>3. Consistent(n)
  BY <1>1, <1>2, MovedConsistent DEF Sound
<1> QED BY <1>1, <1>3 DEF Sound, n

\* The ACK that opens a connection, with all that follows.
LEMMA AckOfSynSound ==
    ASSUME NEW e, Sound(e), e.state = "SYN_RECEIVED", NEW seg \in SegmentRecords
    PROVE  LET n == AckOfSyn(e, seg) IN
           /\ Sound(n) /\ MayBecome(e.state, n.state)
           /\ \/ n.state \in Both("ESTABLISHED")
              \/ n.state = e.state /\ n.passive = e.passive
<1> DEFINE acked == ProcessAck(e, seg.ack)
           told == TakeWindow(acked, seg, seg.ack)
           open == SetState(told, "ESTABLISHED")
           merged == MergeReassembly(open)
           pushed == SendPending(merged)
           n == TextAndFin(pushed, seg)
<1>1. seg.ack \in SeqNums
  BY SegmentReads
<1>2. Sound(acked) /\ acked.state = "SYN_RECEIVED"
  BY <1>1, ProcessAckSound
<1> HIDE DEF acked
<1>3. Sound(told) /\ told.state = "SYN_RECEIVED"
  BY <1>1, <1>2, TakeWindowSound
<1> HIDE DEF told
<1>4. Sound(open) /\ open.state = "ESTABLISHED"
  <2>1. Ahead(told)
    BY <1>3 DEF Sound, Consistent, Hearing
  <2>2. /\ "ESTABLISHED" \in States /\ "ESTABLISHED" \notin Unopened
        /\ "ESTABLISHED" \notin Finished /\ told.state \notin Finished
    BY <1>3 DEF States, Unopened, Finished
  <2> QED BY <1>3, <2>1, <2>2, SetStateSound
<1> HIDE DEF open
<1>5. Sound(merged) /\ merged.state = "ESTABLISHED"
  <2>1. Typed(open) /\ Consistent(open) /\ Ahead(open) /\ Len(open.recv_buf) <= RCV_WND
    BY <1>4 DEF Sound, Consistent, Hearing
  <2>2. open.rcv_nxt \in SeqNums /\ open.recv_buf \in Seq(Bytes) /\ Len(open.recv_buf) \in Nat
    BY <2>1, Reads
  <2>3. open.rcv_nxt = add(open.rcv_nxt, 0)
    BY <2>2, Adds, Halves, Numbers
  <2>4. \A o \in open.ooo :
           /\ sub(o.seq, open.rcv_nxt) >= 1
           /\ sub(o.seq, open.rcv_nxt) + Len(o.data) <= 0 + (RCV_WND - Len(open.recv_buf))
    <3>1. 0 + (RCV_WND - Len(open.recv_buf)) = RCV_WND - Len(open.recv_buf)
      BY <2>2, Halves
    <3> QED BY <2>1, <3>1 DEF Ahead
  <2>5. /\ Typed(merged) /\ Only(open, merged, Delivering) /\ Len(merged.recv_buf) <= RCV_WND
        /\ Ahead(merged)
    BY <2>1, <2>2, <2>3, <2>4, MergeSound
  <2> HIDE DEF merged
  <2>6. /\ merged.state = open.state /\ merged.fin_sent = open.fin_sent
        /\ merged.fin_acked = open.fin_acked
    BY <2>5, FieldNames DEF Only, Delivering
  <2>7. Consistent(merged)
    BY <1>4, <2>1, <2>5, <2>6 DEF Consistent, Unopened, Finished
  <2> QED BY <1>4, <2>5, <2>6, <2>7 DEF Sound
<1> HIDE DEF merged
<1>6. Sound(pushed) /\ pushed.state \in {"ESTABLISHED", "FIN_WAIT_1"}
  BY <1>5, SendPendingSound DEF AfterOurFin, StatesBeforeFin
<1> HIDE DEF pushed
<1>7. Sound(n) /\ n.state \in Both(pushed.state)
  BY <1>6, TextAndFinSound DEF Exchanging
<1>8. n.state \in Both("ESTABLISHED")
  BY <1>6, <1>7 DEF Both, Own, AfterOurFin, StatesBeforeFin
<1>9. AckOfSyn(e, seg) \in {n, EmitRstReply(e, seg.ack, 0, {"RST"})}
  BY DEF AckOfSyn, pushed, merged, open, told, acked
<1>10. LET r == EmitRstReply(e, seg.ack, 0, {"RST"}) IN
       Sound(r) /\ r.state = e.state /\ r.passive = e.passive
  <2> DEFINE r == EmitRstReply(e, seg.ack, 0, {"RST"})
  <2>1. 0 \in SeqNums
    BY Halves DEF SeqNums
  <2>2. Sound(r) /\ r.state = e.state /\ Only(e, r, {"out"})
    BY <1>1, <2>1, RstReplySound, RstReplyFrame DEF Sound
  <2> HIDE DEF r
  <2>3. r.passive = e.passive
    BY <2>2, FieldNames DEF Only
  <2> QED BY <2>2, <2>3 DEF r
<1> HIDE DEF n
<1>11. MayBecome("SYN_RECEIVED", n.state) /\ MayBecome(e.state, e.state)
  BY <1>8, BothIsLegal DEF MayBecome
<1> QED BY <1>7, <1>8, <1>9, <1>10, <1>11

\* The acknowledgment of our FIN, and what else the segment brings.
LEMMA AfterAckSound ==
    ASSUME NEW e, Sound(e), e.state \in Exchanging, NEW seg \in SegmentRecords
    PROVE  LET n == AfterAck(e, seg) IN
           /\ Sound(n)
           /\ \/ e.state = "CLOSING" /\ n.state = "TIME_WAIT"
              \/ n.state = "CLOSED"
              \/ e.state = "FIN_WAIT_1" /\ e.fin_acked = TRUE /\ n.state \in Both("FIN_WAIT_2")
              \/ n.state \in Both(e.state)
<1> DEFINE n == AfterAck(e, seg)
<1>1. Typed(e) /\ Consistent(e) /\ Len(e.recv_buf) <= RCV_WND /\ e.fin_acked \in BOOLEAN
  BY Reads DEF Sound, Consistent
<1>2. CASE e.state = "CLOSING" /\ e.fin_acked
  <2>1. n = EnterTimeWait(e)
    BY <1>2 DEF AfterAck
  <2>2. e.state \in Finished /\ e.fin_sent = TRUE
    BY <1>1, <1>2 DEF Consistent, Finished
  <2> HIDE DEF n
  <2>3. Sound(n) /\ n.state = "TIME_WAIT"
    BY <1>1, <2>1, <2>2, EnterTimeWaitSound
  <2> QED BY <1>2, <2>3 DEF n
<1>3. CASE e.state = "LAST_ACK" /\ e.fin_acked
  <2>1. n = EnterClosed(e)
    BY <1>3 DEF AfterAck
  <2> HIDE DEF n
  <2>2. Sound(n) /\ n.state = "CLOSED"
    BY <1>1, <2>1, EnterClosedSound
  <2> QED BY <2>2 DEF n
<1>4. CASE e.state = "FIN_WAIT_1" /\ e.fin_acked
  <2> DEFINE m == SetState(e, "FIN_WAIT_2")
  <2>1. n = TextAndFin(m, seg)
    BY <1>4 DEF AfterAck
  <2>2. Sound(m) /\ m.state = "FIN_WAIT_2"
    <3>1. Ahead(e)
      BY <1>1, <1>4 DEF Consistent, Hearing
    <3>2. /\ "FIN_WAIT_2" \in States /\ "FIN_WAIT_2" \notin Unopened
          /\ "FIN_WAIT_2" \in Finished /\ e.state \in Finished
      BY <1>4 DEF States, Unopened, Finished
    <3> QED BY <3>1, <3>2, SetStateSound
  <2> HIDE DEF n, m
  <2>3. Sound(n) /\ n.state \in Both("FIN_WAIT_2")
    BY <2>1, <2>2, TextAndFinSound DEF Exchanging
  <2>4. e.fin_acked = TRUE
    BY <1>1, <1>4
  <2> QED BY <1>4, <2>3, <2>4 DEF n
<1>5. CASE /\ ~(e.state = "CLOSING" /\ e.fin_acked) /\ ~(e.state = "LAST_ACK" /\ e.fin_acked)
           /\ ~(e.state = "FIN_WAIT_1" /\ e.fin_acked)
  <2>1. n = TextAndFin(e, seg)
    BY <1>5, Zenon DEF AfterAck
  <2> HIDE DEF n
  <2>2. Sound(n) /\ n.state \in Both(e.state)
    BY <2>1, TextAndFinSound
  <2> QED BY <2>2 DEF n
<1> QED BY <1>2, <1>3, <1>4, <1>5

\* The fifth check of on_segment, after SYN_RECEIVED.
LEMMA AckInConnectionSound ==
    ASSUME NEW e, Sound(e), e.state \in Exchanging, NEW seg \in SegmentRecords
    PROVE  LET n == AckInConnection(e, seg) IN Sound(n) /\ MayBecome(e.state, n.state)
<1> DEFINE acked == IF NewAck(e, seg.ack) THEN ProcessAck(e, seg.ack) ELSE e
           u == UpdateWindow(acked, seg)
           n == AfterAck(u, seg)
<1>1. Sound(acked) /\ acked.state = e.state
  BY SegmentReads, ProcessAckSound
<1>2. AckInConnection(e, seg) \in {n, SendAck(e)}
  BY DEF AckInConnection
<1> HIDE DEF acked
<1>3. Sound(u) /\ u.state \in Own(e.state) /\ u.fin_acked = acked.fin_acked
  BY <1>1, UpdateWindowSound
<1> HIDE DEF u
<1>4. u.state = e.state \/ <<e.state, u.state>> \in {<<"ESTABLISHED", "FIN_WAIT_1">>,
                                                    <<"CLOSE_WAIT", "LAST_ACK">>}
  BY <1>3 DEF Own, Exchanging, AfterOurFin, StatesBeforeFin
<1>5. u.state # e.state => u.fin_acked = FALSE
  <2>1. acked.state \notin Finished => acked.fin_acked = FALSE
    BY <1>1 DEF Sound, Consistent
  <2>2. u.state # e.state => acked.state \notin Finished
    BY <1>1, <1>4 DEF Finished
  <2> QED BY <1>3, <2>1, <2>2
<1>6. u.state \in Exchanging
  BY <1>4 DEF Exchanging
<1>7. /\ Sound(n)
      /\ \/ u.state = "CLOSING" /\ n.state = "TIME_WAIT"
         \/ n.state = "CLOSED"
         \/ u.state = "FIN_WAIT_1" /\ u.fin_acked = TRUE /\ n.state \in Both("FIN_WAIT_2")
         \/ n.state \in Both(u.state)
  BY <1>3, <1>6, AfterAckSound
<1> HIDE DEF n
<1>8. MayBecome(e.state, n.state)
  <2>1. CASE u.state = e.state
    <3>1. CASE u.state = "CLOSING" /\ n.state = "TIME_WAIT"
      BY <2>1, <3>1 DEF MayBecome, Arcs
    <3>2. CASE n.state = "CLOSED"
      BY <3>2 DEF MayBecome
    <3>3. CASE u.state = "FIN_WAIT_1" /\ n.state \in Both("FIN_WAIT_2")
      BY <2>1, <3>3, BothIsLegal
    <3>4. CASE n.state \in Both(u.state)
      BY <2>1, <3>4, BothIsLegal
    <3> QED BY <1>7, <3>1, <3>2, <3>3, <3>4
  <2>2. CASE e.state = "ESTABLISHED" /\ u.state = "FIN_WAIT_1"
    <3>1. u.fin_acked = FALSE
      BY <1>5, <2>2
    <3>2. n.state = "CLOSED" \/ n.state \in Both("FIN_WAIT_1")
      BY <1>7, <2>2, <3>1
    <3> QED BY <2>2, <3>2, BothIsLegal DEF MayBecome
  <2>3. CASE e.state = "CLOSE_WAIT" /\ u.state = "LAST_ACK"
    <3>1. n.state = "CLOSED" \/ n.state \in Both("LAST_ACK")
      BY <1>7, <2>3
    <3> QED BY <2>3, <3>1, BothIsLegal DEF MayBecome
  <2> QED BY <1>4, <2>1, <2>2, <2>3
<1>9. MayBecome(e.state, e.state)
  BY DEF MayBecome
<1> QED BY <1>2, <1>7, <1>8, <1>9, SendAckSound

\* TIME_WAIT.
LEMMA TimeWaitSound ==
    ASSUME NEW e, Sound(e), NEW seg \in SegmentRecords
    PROVE  LET n == HandleTimeWait(e, seg) IN Sound(n) /\ n.state \in {e.state, "CLOSED"}
<1> DEFINE a == SendAck(e)
           armed == a.tw_timer \/ "FIN" \in seg.flags
           n == [a EXCEPT !.tw_timer = armed]
<1>1. Sound(a) /\ a.state = e.state
  BY SendAckSound
<1>2. HandleTimeWait(e, seg) \in {n, EnterClosed(e), a}
  BY Zenon DEF HandleTimeWait
<1>3. armed \in EngineTypes["tw_timer"]
  BY Values, Zenon
<1> HIDE DEF a, armed
<1>4. Typed(n)
  BY <1>1, <1>3, FieldNames, Zenon DEF Typed, Sound
<1>5. Only(a, n, {"tw_timer"})
  BY <1>1, FieldNames DEF Only, Typed, Sound
<1>6. Consistent(n) /\ n.state = a.state
  <2>1. {"tw_timer"} \cap Judged = {}
    BY DEF Judged
  <2> HIDE DEF n
  <2> QED BY <1>1, <1>5, <2>1, Undisturbed DEF Sound
<1>7. Sound(EnterClosed(e)) /\ EnterClosed(e).state = "CLOSED"
  BY EnterClosedSound DEF Sound
<1> HIDE DEF n
<1> QED BY <1>1, <1>2, <1>4, <1>6, <1>7 DEF Sound

\* _handle_synchronized.
LEMMA SynchronizedSound ==
    ASSUME NEW e, Sound(e), e.state \notin Unopened, NEW seg \in SegmentRecords
    PROVE  LET n == HandleSynchronized(e, seg) IN Sound(n) /\ MayBecome(e.state, n.state)
<1> DEFINE n == HandleSynchronized(e, seg)
<1>1. e.state \in Exchanging \cup {"SYN_RECEIVED", "TIME_WAIT"}
  BY Reads DEF Sound, States, Unopened, Exchanging
<1>2. /\ e.state = "TIME_WAIT" => n = HandleTimeWait(e, seg)
      /\ e.state = "SYN_RECEIVED" => n \in {e, SendAck(e), DoReset(e), AckOfSyn(e, seg)}
      /\ e.state \in Exchanging => n \in {e, SendAck(e), DoReset(e), AckInConnection(e, seg)}
  BY DEF HandleSynchronized, Exchanging
<1>3. Typed(e) /\ MayBecome(e.state, e.state) /\ MayBecome(e.state, "CLOSED")
  BY DEF Sound, MayBecome
<1> HIDE DEF n
<1>4. CASE n = e \/ n = SendAck(e)
  <2>1. Sound(n) /\ MayBecome(e.state, n.state)
    BY <1>3, <1>4, SendAckSound
  <2> QED BY <2>1 DEF n
<1>5. CASE n = DoReset(e)
  <2>1. Sound(n) /\ MayBecome(e.state, n.state)
    BY <1>3, <1>5, DoResetSound
  <2> QED BY <2>1 DEF n
<1>6. CASE e.state = "TIME_WAIT"
  <2>1. Sound(n) /\ n.state \in {e.state, "CLOSED"}
    BY <1>2, <1>6, TimeWaitSound
  <2>2. MayBecome(e.state, n.state)
    BY <1>3, <2>1
  <2> QED BY <2>1, <2>2 DEF n
<1>7. CASE e.state = "SYN_RECEIVED" /\ n = AckOfSyn(e, seg)
  <2>1. Sound(n) /\ MayBecome(e.state, n.state)
    BY <1>7, AckOfSynSound
  <2> QED BY <2>1 DEF n
<1>8. CASE e.state \in Exchanging /\ n = AckInConnection(e, seg)
  <2>1. Sound(n) /\ MayBecome(e.state, n.state)
    BY <1>8, AckInConnectionSound
  <2> QED BY <2>1 DEF n
<1> QED BY <1>1, <1>2, <1>4, <1>5, <1>6, <1>7, <1>8

\* What a SYN carries: neither text nor a FIN.
LEMMA SynIsBare ==
    ASSUME NEW seg \in SegmentRecords, "SYN" \in seg.flags
    PROVE  seg.payload = <<>> /\ "FIN" \notin seg.flags
<1>1. seg.flags \in FlagSets /\ (seg.payload # <<>> => seg.flags = {"ACK"})
  BY SegmentReads
<1> QED BY <1>1 DEF FlagSets

\* _handle_closed.
LEMMA HandleClosedSound ==
    ASSUME NEW e, Sound(e), NEW seg \in SegmentRecords
    PROVE  LET n == HandleClosed(e, seg) IN Sound(n) /\ n.state = e.state
<1> DEFINE past == add(seg.seq, SegLen(seg))
           ours == EmitRstReply(e, seg.ack, 0, {"RST"})
           none == EmitRstReply(e, 0, past, {"RST", "ACK"})
           n == HandleClosed(e, seg)
<1>1. seg.ack \in SeqNums /\ seg.seq \in SeqNums /\ seg.payload \in Seq(Bytes)
  BY SegmentReads
<1>2. 0 \in SeqNums
  BY Halves DEF SeqNums
<1>3. past \in SeqNums
  <2>1. SegLen(seg) \in Int
    BY <1>1, SegLenCounts
  <2> QED BY <1>1, <2>1, InSeqNums
<1>4. n \in {e, ours, none}
  BY DEF HandleClosed
<1> HIDE DEF past, n
<1>5. Sound(ours) /\ ours.state = e.state
  BY <1>1, <1>2, RstReplySound
<1>6. Sound(none) /\ none.state = e.state
  BY <1>2, <1>3, RstReplySound
<1> HIDE DEF ours, none
<1>7. Sound(n) /\ n.state = e.state
  BY <1>4, <1>5, <1>6
<1> QED BY <1>7 DEF n

\* A queued segment changes none of the fields consistency is about.
LEMMA QueueSound ==
    ASSUME NEW e, Sound(e),
           NEW flags \in {{"SYN"}, {"SYN", "ACK"}, {"ACK"}, {"ACK", "FIN"}},
           NEW payload \in Seq(Bytes), MayCarry(flags, payload),
           flags = {"ACK"} => payload # <<>>
    PROVE  LET n == QueueAndSend(e, flags, payload) IN
           Sound(n) /\ n.state = e.state /\ Only(e, n, Queueing)
<1> DEFINE n == QueueAndSend(e, flags, payload)
<1>1. Typed(n) /\ Only(e, n, Queueing)
  BY QueueFrame DEF Sound
<1>2. Queueing \cap Judged = {}
  BY DEF Queueing, Emitted, Judged
<1> HIDE DEF n, Queueing
<1>3. Consistent(n) /\ n.state = e.state
  BY <1>1, <1>2, Undisturbed DEF Sound
<1> QED BY <1>1, <1>3 DEF Sound, n

\* _handle_listen.
LEMMA HandleListenSound ==
    ASSUME NEW e, Sound(e), e.state = "LISTEN", NEW seg \in SegmentRecords, NEW iss \in SeqNums
    PROVE  LET n == HandleListen(e, seg, iss) IN
           /\ Sound(n) /\ MayBecome(e.state, n.state)
           /\ n.state \in {"LISTEN", "SYN_RECEIVED"} /\ n.passive = e.passive
<1> DEFINE first == add(seg.seq, 1)
           wnd == seg.window
           wl1 == seg.seq
           bound == [e EXCEPT !.remote = TRUE, !.rcv_nxt = first, !.iss = iss,
                              !.snd_una = iss, !.snd_nxt = iss, !.snd_wnd = wnd,
                              !.snd_wl1 = wl1, !.snd_wl2 = iss]
           moved == SetState(bound, "SYN_RECEIVED")
           n == QueueAndSend(moved, {"SYN", "ACK"}, <<>>)
<1>1. seg.seq \in SeqNums /\ seg.ack \in SeqNums /\ seg.window \in 0 .. RCV_WND /\ 0 \in SeqNums
  BY SegmentReads, Halves DEF SeqNums
<1>2. /\ first \in EngineTypes["rcv_nxt"] /\ iss \in EngineTypes["iss"]
      /\ iss \in EngineTypes["snd_una"] /\ iss \in EngineTypes["snd_nxt"]
      /\ wnd \in EngineTypes["snd_wnd"] /\ wl1 \in EngineTypes["snd_wl1"]
      /\ iss \in EngineTypes["snd_wl2"]
  <2>1. first \in SeqNums
    BY <1>1, InSeqNums
  <2> QED BY <1>1, <2>1, FieldTypes
<1>3. HandleListen(e, seg, iss) \in {e, EmitRstReply(e, seg.ack, 0, {"RST"}), n}
  BY DEF HandleListen
<1>4. Typed(e) /\ Bare(e) /\ "LISTEN" \notin Finished
  BY DEF Sound, Consistent, Unopened, Bare, Finished
<1> HIDE DEF first, wnd, wl1
<1>5. Typed(bound)
  BY <1>2, <1>4, Values, FieldNames, Zenon DEF Typed
<1>6. Only(e, bound, {"remote", "rcv_nxt", "iss", "snd_una", "snd_nxt", "snd_wnd", "snd_wl1",
                      "snd_wl2"})
  BY <1>4, FieldNames DEF Only, Typed
<1> HIDE DEF bound
<1>7. Bare(bound) /\ bound.state = "LISTEN" /\ bound.passive = e.passive
  BY <1>4, <1>6, FieldNames DEF Bare, Only
<1>8. Sound(bound) /\ Ahead(bound)
  <2>1. Ahead(bound)
    BY <1>7 DEF Bare, Ahead
  <2> QED BY <1>4, <1>5, <1>7, <2>1, BareConsistent DEF Sound
<1>9. Sound(moved) /\ moved.state = "SYN_RECEIVED" /\ Only(bound, moved, Moving)
  <2>1. /\ "SYN_RECEIVED" \in States /\ "SYN_RECEIVED" \notin Unopened
        /\ "SYN_RECEIVED" \notin Finished /\ bound.state \notin Finished
    BY <1>7 DEF States, Unopened, Finished
  <2> QED BY <1>8, <2>1, SetStateSound
<1> HIDE DEF moved
<1>10. Sound(n) /\ n.state = "SYN_RECEIVED" /\ Only(moved, n, Queueing)
  <2>1. <<>> \in Seq(Bytes) /\ MayCarry({"SYN", "ACK"}, <<>>) /\ {"SYN", "ACK"} # {"ACK"}
    BY DEF MayCarry
  <2> QED BY <1>9, <2>1, QueueSound
<1> HIDE DEF n
<1>11. MayBecome("LISTEN", "SYN_RECEIVED") /\ MayBecome("LISTEN", "LISTEN")
  BY DEF MayBecome, Arcs
<1> DEFINE reply == EmitRstReply(e, seg.ack, 0, {"RST"})
           done == HandleListen(e, seg, iss)
<1>12. Sound(reply) /\ reply.state = e.state /\ Only(e, reply, {"out"})
  BY <1>1, RstReplySound, RstReplyFrame DEF Sound
<1> HIDE DEF reply, done
<1>13. n.passive = e.passive /\ reply.passive = e.passive
  BY <1>7, <1>9, <1>10, <1>12, FieldNames DEF Only, Moving, Queueing, Emitted
<1>14. /\ Sound(done) /\ MayBecome(e.state, done.state)
       /\ done.state \in {"LISTEN", "SYN_RECEIVED"} /\ done.passive = e.passive
  BY <1>3, <1>10, <1>11, <1>12, <1>13 DEF reply, done
<1> QED BY <1>14 DEF done

\* Our SYN is acknowledged and the peer's has come.
LEMMA SynSentOpensSound ==
    ASSUME NEW e, Sound(e), e.state = "SYN_SENT", NEW seg \in SegmentRecords, "SYN" \in seg.flags
    PROVE  LET n == SynSentOpens(e, seg) IN Sound(n) /\ n.state = "ESTABLISHED"
<1> DEFINE moved == SetState(e, "ESTABLISHED")
           told == SendAck(moved)
           n == SendPending(told)
<1>1. SynSentOpens(e, seg) = n
  BY SynIsBare DEF SynSentOpens
<1>2. Typed(e) /\ Bare(e)
  BY DEF Sound, Consistent, Unopened, Bare, Finished
<1>3. Sound(moved) /\ moved.state = "ESTABLISHED" /\ Only(e, moved, Moving)
  <2>1. Ahead(e)
    BY <1>2 DEF Bare, Ahead
  <2>2. /\ "ESTABLISHED" \in States /\ "ESTABLISHED" \notin Unopened
        /\ "ESTABLISHED" \notin Finished /\ e.state \notin Finished
    BY DEF States, Unopened, Finished
  <2> QED BY <2>1, <2>2, SetStateSound
<1> HIDE DEF moved
<1>4. Sound(told) /\ told.state = "ESTABLISHED" /\ told.fin_pending = FALSE
  <2>1. Sound(told) /\ told.state = moved.state
    BY <1>3, SendAckSound
  <2>2. Only(moved, told, Acking)
    BY <1>3, SendAckFrame DEF Sound
  <2>3. told.fin_pending = e.fin_pending
    BY <1>3, <2>2, FieldNames DEF Only, Moving, Acking, Emitted
  <2> QED BY <1>2, <1>3, <2>1, <2>3 DEF Bare
<1> HIDE DEF told
<1>5. Sound(n) /\ n.state = told.state
  BY <1>4, SendPendingSound
<1> QED BY <1>1, <1>4, <1>5

\* Both ends open at once: our SYN goes out again with an ACK.
LEMMA SimultaneousOpenSound ==
    ASSUME NEW e, Sound(e), e.state = "SYN_SENT", NEW seg \in SegmentRecords, "SYN" \in seg.flags
    PROVE  LET n == SimultaneousOpen(e, seg) IN
           Sound(n) /\ n.state = "SYN_RECEIVED" /\ n.passive = e.passive
<1> DEFINE moved == SetState(e, "SYN_RECEIVED")
           queue == WithAck(moved.retx)
           noted == moved.pending_fin
           answer == [moved EXCEPT !.retx = queue, !.pending_fin = noted]
           n == SynAckAgain(answer)
<1>1. SimultaneousOpen(e, seg) = n
  <2>1. seg.payload = <<>> /\ "FIN" \notin seg.flags
    BY SynIsBare
  <2> QED BY <2>1 DEF SimultaneousOpen
<1>2. Typed(e) /\ Bare(e)
  BY DEF Sound, Consistent, Unopened, Bare, Finished
<1>3. Sound(moved) /\ moved.state = "SYN_RECEIVED" /\ Only(e, moved, Moving)
  <2>1. Ahead(e)
    BY <1>2 DEF Bare, Ahead
  <2>2. /\ "SYN_RECEIVED" \in States /\ "SYN_RECEIVED" \notin Unopened
        /\ "SYN_RECEIVED" \notin Finished /\ e.state \notin Finished
    BY DEF States, Unopened, Finished
  <2> QED BY <2>1, <2>2, SetStateSound
<1>4. moved.retx \in Seq(QueueEntries) /\ moved.pending_fin \in Noted
  BY <1>3, Reads DEF Sound
<1> HIDE DEF moved
<1>5. queue \in EngineTypes["retx"] /\ noted \in EngineTypes["pending_fin"]
  <2>1. CASE moved.retx # <<>> /\ "SYN" \in moved.retx[1].flags
    <3> DEFINE o == moved.retx[1]
               p == [o EXCEPT !.flags = @ \cup {"ACK"}]
    <3>1. 1 \in 1 .. Len(moved.retx) /\ o \in QueueEntries
      BY <1>4, <2>1
    <3>2. queue = [moved.retx EXCEPT ![1] = p]
      BY <1>4, <2>1, <3>1 DEF WithAck
    <3> HIDE DEF o
    <3>3. /\ o.seq \in SeqNums /\ o.payload = <<>> /\ o.retransmitted \in BOOLEAN
          /\ o.flags \cup {"ACK"} = {"SYN", "ACK"}
      <4>1. o.flags \in {{"SYN"}, {"SYN", "ACK"}}
        BY <2>1, <3>1 DEF QueueEntries, o
      <4>2. o.flags # {"ACK"}
        BY <4>1
      <4>3. o.payload = <<>>
        BY <3>1, <4>2, EntryTakes
      <4>4. o.flags \cup {"ACK"} = {"SYN", "ACK"}
        BY <4>1
      <4> QED BY <3>1, <4>3, <4>4, EntryTakes
    <3>4. p = [seq |-> o.seq, flags |-> {"SYN", "ACK"}, payload |-> <<>>,
               retransmitted |-> o.retransmitted]
      <4> DEFINE all == o.flags \cup {"ACK"}
      <4>1. o = [seq |-> o.seq, flags |-> o.flags, payload |-> o.payload,
                 retransmitted |-> o.retransmitted]
        BY <3>1 DEF QueueEntries
      <4>2. p = [o EXCEPT !.flags = all]
        OBVIOUS
      <4>3. all = {"SYN", "ACK"} /\ o.payload = <<>>
        BY <3>3
      <4> HIDE DEF all, p
      <4>4. p = [seq |-> o.seq, flags |-> all, payload |-> o.payload,
                 retransmitted |-> o.retransmitted]
        BY <4>1, <4>2
      <4> QED BY <4>3, <4>4
    <3> HIDE DEF p
    <3>5. p \in QueueEntries
      BY <3>3, <3>4 DEF QueueEntries, MayCarry
    <3>6. [moved.retx EXCEPT ![1] = p] \in Seq(QueueEntries)
      BY <1>4, <3>1, <3>5, ExceptSeq
    <3> QED BY <1>4, <3>2, <3>6, FieldTypes
  <2>2. CASE ~(moved.retx # <<>> /\ "SYN" \in moved.retx[1].flags)
    BY <1>4, <2>2, FieldTypes DEF WithAck
  <2> QED BY <2>1, <2>2
<1> HIDE DEF queue, noted
<1>6. Typed(answer)
  BY <1>3, <1>5, FieldNames, Zenon DEF Typed, Sound
<1>7. Only(moved, answer, {"retx", "pending_fin"})
  BY <1>3, FieldNames DEF Only, Typed, Sound
<1> HIDE DEF answer
<1>8. Typed(n) /\ Only(answer, n, Emitted)
  <2>1. answer.iss \in SeqNums /\ <<>> \in Seq(Bytes) /\ {"SYN", "ACK"} \in FlagSets
        /\ MayCarry({"SYN", "ACK"}, <<>>)
    BY <1>6, Reads DEF FlagSets, MayCarry
  <2> QED BY <1>6, <2>1, EmitFrame DEF SynAckAgain
<1> HIDE DEF n
<1> DEFINE S == {"retx", "pending_fin"} \cup Emitted
<1>9. Only(moved, n, S)
  BY <1>7, <1>8 DEF Only
<1>10. S \cap Judged = {}
  BY DEF Emitted, Judged
<1> HIDE DEF S
<1>11. Consistent(n) /\ n.state = moved.state
  BY <1>3, <1>9, <1>10, Undisturbed DEF Sound
<1>12. n.passive = e.passive
  BY <1>3, <1>9, FieldNames DEF Only, Moving, Emitted, S
<1> QED BY <1>1, <1>3, <1>8, <1>11, <1>12 DEF Sound

\* _handle_syn_sent.
LEMMA HandleSynSentSound ==
    ASSUME NEW e, Sound(e), e.state = "SYN_SENT", NEW seg \in SegmentRecords
    PROVE  LET n == HandleSynSent(e, seg) IN
           /\ Sound(n) /\ MayBecome(e.state, n.state)
           /\ n.state \in {"CLOSED", "ESTABLISHED"} \/ n.passive = e.passive
<1> DEFINE next == add(seg.seq, 1)
           heard == [e EXCEPT !.rcv_nxt = next]
           acked == IF "ACK" \in seg.flags THEN ProcessAck(heard, seg.ack) ELSE heard
           wl2 == IF "ACK" \in seg.flags THEN seg.ack ELSE e.snd_una
           told == TakeWindow(acked, seg, wl2)
           n == HandleSynSent(e, seg)
<1>1. seg.ack \in SeqNums /\ seg.seq \in SeqNums /\ wl2 \in SeqNums /\ 0 \in SeqNums
      /\ next \in SeqNums
  <2>1. seg.ack \in SeqNums /\ seg.seq \in SeqNums /\ e.snd_una \in SeqNums
    BY SegmentReads, Reads DEF Sound
  <2>2. 0 \in SeqNums
    BY Halves DEF SeqNums
  <2>3. next \in SeqNums
    BY <2>1, InSeqNums
  <2> QED BY <2>1, <2>2, <2>3
<1> DEFINE reply == EmitRstReply(e, seg.ack, 0, {"RST"})
           gone == EnterClosed(e)
<1>2. \/ n \in {e, gone, reply}
      \/ "SYN" \in seg.flags /\ n \in {SynSentOpens(told, seg), SimultaneousOpen(told, seg)}
  BY DEF HandleSynSent, SynInSynSent
<1>3. Typed(e) /\ Bare(e)
  BY DEF Sound, Consistent, Unopened, Bare, Finished
<1>4. Sound(heard) /\ heard.state = "SYN_SENT" /\ heard.passive = e.passive
  <2>1. next \in EngineTypes["rcv_nxt"]
    BY <1>1, FieldTypes
  <2> HIDE DEF next
  <2>2. Typed(heard)
    BY <1>3, <2>1, FieldNames, Zenon DEF Typed
  <2>3. Only(e, heard, {"rcv_nxt"})
    BY <1>3, FieldNames DEF Only, Typed
  <2> HIDE DEF heard
  <2>4. Bare(heard) /\ heard.state = "SYN_SENT" /\ heard.passive = e.passive
    BY <1>3, <2>3, FieldNames DEF Bare, Only
  <2>5. Consistent(heard)
    BY <2>4, BareConsistent DEF Finished
  <2> QED BY <2>2, <2>4, <2>5 DEF Sound
<1> HIDE DEF heard
<1>5. Sound(acked) /\ acked.state = "SYN_SENT" /\ acked.passive = e.passive
  BY <1>1, <1>4, ProcessAckSound, FieldNames DEF Only, Acknowledging
<1> HIDE DEF acked, wl2
<1>6. Sound(told) /\ told.state = "SYN_SENT" /\ told.passive = e.passive
  <2>1. /\ Sound(told) /\ told.state = "SYN_SENT"
        /\ Only(acked, told, {"snd_wnd", "snd_wl1", "snd_wl2"})
    BY <1>1, <1>5, TakeWindowSound
  <2> HIDE DEF told
  <2>2. told.passive = acked.passive
    BY <2>1, FieldNames DEF Only
  <2> QED BY <1>5, <2>1, <2>2
<1> HIDE DEF told, n
<1>7. /\ MayBecome("SYN_SENT", "SYN_SENT") /\ MayBecome("SYN_SENT", "CLOSED")
      /\ MayBecome("SYN_SENT", "ESTABLISHED") /\ MayBecome("SYN_SENT", "SYN_RECEIVED")
  BY DEF MayBecome, Arcs
<1>8. CASE n \in {e, gone, reply}
  <2>1. Sound(n) /\ (n.state = "CLOSED" \/ (n.state = e.state /\ n.passive = e.passive))
    <3>1. Sound(gone) /\ gone.state = "CLOSED"
      BY <1>3, EnterClosedSound
    <3>2. Sound(reply) /\ reply.state = e.state /\ Only(e, reply, {"out"})
      BY <1>1, RstReplySound, RstReplyFrame DEF Sound
    <3> HIDE DEF gone, reply
    <3>3. reply.passive = e.passive
      BY <3>2, FieldNames DEF Only
    <3> QED BY <1>8, <3>1, <3>2, <3>3
  <2> QED BY <1>7, <2>1 DEF n
<1>9. CASE "SYN" \in seg.flags /\ n = SynSentOpens(told, seg)
  <2>1. Sound(n) /\ n.state = "ESTABLISHED"
    BY <1>6, <1>9, SynSentOpensSound
  <2> QED BY <1>7, <2>1 DEF n
<1>10. CASE "SYN" \in seg.flags /\ n = SimultaneousOpen(told, seg)
  <2>1. Sound(n) /\ n.state = "SYN_RECEIVED" /\ n.passive = e.passive
    BY <1>6, <1>10, SimultaneousOpenSound
  <2> QED BY <1>7, <2>1 DEF n
<1> QED BY <1>2, <1>8, <1>9, <1>10

\* on_segment, whatever state the segment finds the engine in.
LEMMA OnSegmentSound ==
    ASSUME NEW e, Sound(e), NEW seg \in SegmentRecords, NEW iss \in SeqNums
    PROVE  LET n == OnSegment(e, seg, iss) IN Sound(n) /\ MayBecome(e.state, n.state)
<1> DEFINE n == OnSegment(e, seg, iss)
<1>1. e.state \in States /\ Typed(e)
  BY Reads DEF Sound
<1>2. CASE e.state = "CLOSED"
  <2>1. n = HandleClosed(e, seg)
    BY <1>2 DEF OnSegment
  <2> HIDE DEF n
  <2>2. Sound(n) /\ n.state = e.state
    BY <2>1, HandleClosedSound
  <2> QED BY <2>2 DEF n, MayBecome
<1>3. CASE e.state = "LISTEN"
  <2>1. n = HandleListen(e, seg, iss)
    BY <1>3 DEF OnSegment
  <2> HIDE DEF n
  <2>2. Sound(n) /\ MayBecome(e.state, n.state)
    BY <1>3, <2>1, HandleListenSound
  <2> QED BY <2>2 DEF n
<1>4. CASE e.state = "SYN_SENT"
  <2>1. n = HandleSynSent(e, seg)
    BY <1>4 DEF OnSegment
  <2> HIDE DEF n
  <2>2. Sound(n) /\ MayBecome(e.state, n.state)
    BY <1>4, <2>1, HandleSynSentSound
  <2> QED BY <2>2 DEF n
<1>5. CASE e.state \notin Unopened
  <2> DEFINE k == ResetKeepalive(e)
             m == IF e.state = "ESTABLISHED" THEN k ELSE e
  <2>1. n = HandleSynchronized(m, seg)
    BY <1>5 DEF OnSegment, Unopened
  <2>2. Typed(k) /\ Only(e, k, {"ka_timer", "ka_probes"})
    BY <1>1, ResetKeepaliveFrame
  <2> HIDE DEF k
  <2>3. {"ka_timer", "ka_probes"} \cap Judged = {}
    BY DEF Judged
  <2>4. Consistent(k) /\ k.state = e.state
    BY <2>2, <2>3, Undisturbed DEF Sound
  <2>5. Sound(m) /\ m.state = e.state
    BY <2>2, <2>4 DEF Sound
  <2> HIDE DEF m, n
  <2>6. Sound(n) /\ MayBecome(e.state, n.state)
    BY <1>5, <2>1, <2>5, SynchronizedSound
  <2> QED BY <2>6 DEF n
<1> QED BY <1>1, <1>2, <1>3, <1>4, <1>5 DEF Unopened

-------------------------------------------------------------------------------
(* User calls.                                                             *)

\* A change to fields that consistency is not about.
LEMMA Besides ==
    ASSUME NEW e, NEW n, NEW S, Sound(e), Typed(n), Only(e, n, S), S \cap Judged = {}
    PROVE  Sound(n) /\ n.state = e.state
  BY Undisturbed DEF Sound

\* _send_pending moves the state along the diagram, by our FIN only.
LEMMA PendingMoves ==
    ASSUME NEW e, Sound(e)
    PROVE  LET n == SendPending(e) IN
           /\ Sound(n) /\ MayBecome(e.state, n.state)
           /\ n.state \in Own(e.state) /\ n.passive = e.passive
<1> DEFINE n == SendPending(e)
<1>1. /\ Sound(n) /\ Only(e, n, Sending)
      /\ \/ n.state = e.state
         \/ /\ e.state \in {"ESTABLISHED", "CLOSE_WAIT", "SYN_RECEIVED"}
            /\ n.state = AfterOurFin(e.state)
  BY SendPendingSound
<1> HIDE DEF n
<1>2. n.state = e.state \/ <<e.state, n.state>> \in Arcs
  BY <1>1 DEF AfterOurFin, StatesBeforeFin, Arcs
<1>3. n.passive = e.passive
  BY <1>1, FieldNames DEF Only, Sending, Segmenting, Queueing, Emitted, Moving
<1>4. n.state \in Own(e.state)
  BY <1>1 DEF Own
<1>5. Sound(n) /\ MayBecome(e.state, n.state)
  BY <1>1, <1>2 DEF MayBecome
<1> QED BY <1>3, <1>4, <1>5 DEF n

\* active_open.
LEMMA ActiveOpenSound ==
    ASSUME NEW e, Sound(e), e.state \in {"CLOSED", "LISTEN"}, NEW iss \in SeqNums
    PROVE  LET n == ActiveOpen(e, iss) IN
           Sound(n) /\ n.state = "SYN_SENT" /\ n.passive = FALSE
<1> DEFINE fresh == [e EXCEPT !.passive = FALSE, !.iss = iss, !.snd_una = iss,
                              !.snd_nxt = iss, !.snd_wnd = 0]
           moved == SetState(fresh, "SYN_SENT")
           n == QueueAndSend(moved, {"SYN"}, <<>>)
           S == {"passive", "iss", "snd_una", "snd_nxt", "snd_wnd"}
<1>1. Typed(e)
  BY DEF Sound
<1>2. iss \in EngineTypes["iss"] /\ iss \in EngineTypes["snd_una"] /\ iss \in EngineTypes["snd_nxt"]
  BY FieldTypes
<1>3. Typed(fresh)
  BY <1>1, <1>2, Values, FieldNames, Zenon DEF Typed
<1>4. Only(e, fresh, S) /\ fresh.passive = FALSE
  BY <1>1, FieldNames DEF Only, Typed
<1>5. ActiveOpen(e, iss) = n
  BY DEF ActiveOpen
<1>6. S \cap Judged = {}
  BY DEF Judged
<1> HIDE DEF fresh, S
<1>7. Sound(fresh) /\ fresh.state = e.state
  BY <1>3, <1>4, <1>6, Besides
<1>8. Sound(moved) /\ moved.state = "SYN_SENT" /\ Only(fresh, moved, Moving)
  <2>1. /\ "SYN_SENT" \in States /\ "SYN_SENT" \notin Finished /\ "SYN_SENT" \notin Hearing
        /\ fresh.state \in Unopened /\ fresh.state \notin Finished
    BY <1>7 DEF States, Unopened, Hearing, Finished
  <2> QED BY <1>7, <2>1, SetStateSound
<1> HIDE DEF moved
<1>9. Sound(n) /\ n.state = moved.state /\ Only(moved, n, Queueing)
  <2>1. <<>> \in Seq(Bytes) /\ MayCarry({"SYN"}, <<>>) /\ {"SYN"} # {"ACK"}
    BY DEF MayCarry
  <2> QED BY <1>8, <2>1, QueueSound
<1> HIDE DEF n
<1>10. n.passive = FALSE
  BY <1>4, <1>8, <1>9, FieldNames DEF Only, Moving, Queueing, Emitted
<1> QED BY <1>5, <1>8, <1>9, <1>10

\* passive_open.
LEMMA PassiveOpenSound ==
    ASSUME NEW e, Sound(e), e.state = "CLOSED"
    PROVE  LET n == PassiveOpen(e) IN Sound(n) /\ n.state = "LISTEN" /\ n.passive = TRUE
<1> DEFINE m == [e EXCEPT !.passive = TRUE]
<1>1. Typed(m)
  BY Values, FieldNames, Zenon DEF Typed, Sound
<1>2. Only(e, m, {"passive"}) /\ m.passive = TRUE
  BY FieldNames DEF Only, Typed, Sound
<1>3. PassiveOpen(e) = SetState(m, "LISTEN")
  BY DEF PassiveOpen
<1>4. {"passive"} \cap Judged = {}
  BY DEF Judged
<1> HIDE DEF m
<1>5. Sound(m) /\ m.state = "CLOSED"
  BY <1>1, <1>2, <1>4, Besides
<1>6. /\ "LISTEN" \in States /\ "LISTEN" \notin Finished /\ "LISTEN" \notin Hearing
      /\ m.state \in Unopened /\ m.state \notin Finished
  BY <1>5 DEF States, Unopened, Hearing, Finished
<1> DEFINE n == SetState(m, "LISTEN")
<1>7. Sound(n) /\ n.state = "LISTEN" /\ Only(m, n, Moving)
  BY <1>5, <1>6, SetStateSound
<1> HIDE DEF n
<1>8. n.passive = TRUE
  BY <1>2, <1>7, FieldNames DEF Only, Moving
<1> QED BY <1>3, <1>7, <1>8 DEF n

\* send.
LEMMA SendSound ==
    ASSUME NEW e, Sound(e), NEW data \in Seq(Bytes), NEW iss \in SeqNums
    PROVE  LET n == Send(e, data, iss) IN
           /\ Sound(n) /\ MayBecome(e.state, n.state)
           /\ \/ e.state = "LISTEN" /\ n.state = "SYN_SENT" /\ n.passive = FALSE
              \/ n.state \in Own(e.state) /\ n.passive = e.passive
<1> DEFINE all == e.app_buf \o data
           queued == [e EXCEPT !.app_buf = all]
           opened == ActiveOpen(queued, iss)
           pushed == SendPending(queued)
           n == Send(e, data, iss)
<1>1. Typed(e)
  BY DEF Sound
<1>2. all \in EngineTypes["app_buf"]
  <2>1. e.app_buf \in Seq(Bytes)
    BY <1>1, Reads
  <2> QED BY <2>1, ConcatProperties, FieldTypes
<1>3. \/ n = queued
      \/ e.state = "LISTEN" /\ n = opened
      \/ n = pushed
  BY DEF Send
<1> HIDE DEF all
<1>4. Typed(queued)
  BY <1>1, <1>2, FieldNames, Zenon DEF Typed
<1>5. Only(e, queued, {"app_buf"})
  BY <1>1, FieldNames DEF Only, Typed
<1>6. {"app_buf"} \cap Judged = {}
  BY DEF Judged
<1> HIDE DEF n, queued
<1>7. Sound(queued) /\ queued.state = e.state /\ queued.passive = e.passive
  <2>1. queued.passive = e.passive
    BY <1>5, FieldNames DEF Only
  <2> QED BY <1>4, <1>5, <1>6, <2>1, Besides
<1>8. e.state = "LISTEN" => Sound(opened) /\ opened.state = "SYN_SENT" /\ opened.passive = FALSE
  BY <1>7, ActiveOpenSound
<1>9. /\ Sound(pushed) /\ MayBecome(e.state, pushed.state)
      /\ pushed.state \in Own(e.state) /\ pushed.passive = e.passive
  BY <1>7, PendingMoves
<1>10. /\ MayBecome("LISTEN", "SYN_SENT") /\ MayBecome(e.state, e.state)
       /\ e.state \in Own(e.state)
  BY DEF MayBecome, Arcs, Own
<1> HIDE DEF opened, pushed
<1>11. /\ Sound(n) /\ MayBecome(e.state, n.state)
       /\ \/ e.state = "LISTEN" /\ n.state = "SYN_SENT" /\ n.passive = FALSE
          \/ n.state \in Own(e.state) /\ n.passive = e.passive
  BY <1>3, <1>7, <1>8, <1>9, <1>10
<1> QED BY <1>11 DEF n

\* receive: what the reader takes makes room, and moves nothing that is kept.
LEMMA ReceiveSound ==
    ASSUME NEW e, Sound(e), NEW k \in 1 .. Len(e.recv_buf)
    PROVE  LET n == Receive(e, k) IN Sound(n) /\ n.state = e.state /\ n.passive = e.passive
<1> DEFINE rest == SubSeq(e.recv_buf, k + 1, Len(e.recv_buf))
           taken == [e EXCEPT !.recv_buf = rest]
           told == [taken EXCEPT !.zero_win_advertised = FALSE]
           n == Receive(e, k)
<1>1. Typed(e) /\ Consistent(e) /\ e.recv_buf \in Seq(Bytes) /\ Len(e.recv_buf) \in Nat
  BY Reads DEF Sound
<1>2. rest \in Seq(Bytes) /\ Len(rest) \in Nat /\ Len(rest) <= Len(e.recv_buf)
  <2>1. CASE k = Len(e.recv_buf)
    <3>1. rest = <<>>
      BY <1>1, <2>1, SubSeqProperties
    <3> HIDE DEF rest
    <3> QED BY <1>1, <3>1
  <2>2. CASE k < Len(e.recv_buf)
    <3>1. /\ k + 1 \in Int /\ Len(e.recv_buf) \in Int /\ k + 1 <= Len(e.recv_buf)
          /\ \A i \in k + 1 .. Len(e.recv_buf) : e.recv_buf[i] \in Bytes
      BY <1>1, <2>2
    <3>2. rest \in Seq(Bytes) /\ Len(rest) = Len(e.recv_buf) - (k + 1) + 1
      BY <3>1, SubSeqProperties
    <3> HIDE DEF rest
    <3> QED BY <1>1, <2>2, <3>2
  <2> QED BY <1>1, <2>1, <2>2
<1>3. n \in {taken, SendAck(told)}
  BY DEF Receive
<1>4. rest \in EngineTypes["recv_buf"]
  BY <1>2, FieldTypes
<1> HIDE DEF rest, n
<1>5. Typed(taken)
  BY <1>1, <1>4, FieldNames, Zenon DEF Typed
<1>6. Only(e, taken, {"recv_buf"}) /\ taken.recv_buf = rest
  BY <1>1, FieldNames DEF Only, Typed
<1> HIDE DEF taken
<1>7. Sound(taken) /\ taken.state = e.state
  <2>1. /\ taken.state = e.state /\ taken.ooo = e.ooo /\ taken.fin_pending = e.fin_pending
        /\ taken.fin_sent = e.fin_sent /\ taken.fin_acked = e.fin_acked
        /\ taken.rcv_nxt = e.rcv_nxt
    BY <1>6, FieldNames DEF Only
  <2>2. Len(taken.recv_buf) \in Nat /\ Len(taken.recv_buf) <= Len(e.recv_buf)
        /\ Len(taken.recv_buf) <= RCV_WND
    BY <1>1, <1>2, <1>6, Halves DEF Consistent
  <2>3. Ahead(e) => Ahead(taken)
    <3> SUFFICES ASSUME Ahead(e), NEW o \in e.ooo
                 PROVE  /\ sub(o.seq, e.rcv_nxt) >= 1
                        /\ sub(o.seq, e.rcv_nxt) + Len(o.data) <= RCV_WND - Len(taken.recv_buf)
      BY <2>1 DEF Ahead
    <3>1. /\ sub(o.seq, e.rcv_nxt) >= 1
          /\ sub(o.seq, e.rcv_nxt) + Len(o.data) <= RCV_WND - Len(e.recv_buf)
      BY DEF Ahead
    <3>2. sub(o.seq, e.rcv_nxt) \in Nat /\ Len(o.data) \in Nat
      <4>1. o \in KeptRecords /\ e.rcv_nxt \in SeqNums
        BY <1>1, Reads
      <4>2. o.seq \in SeqNums /\ o.data \in Seq(Bytes)
        BY <4>1 DEF KeptRecords
      <4>3. sub(o.seq, e.rcv_nxt) \in SeqNums
        BY <4>1, <4>2, InSeqNums
      <4> QED BY <4>2, <4>3, Numbers
    <3> QED BY <1>1, <2>2, <3>1, <3>2, Halves
  <2>4. e.state \notin Unopened
    BY <1>1 DEF Consistent
  <2> QED BY <1>1, <1>5, <2>1, <2>2, <2>3, <2>4 DEF Sound, Consistent
<1>8. Sound(told) /\ told.state = e.state /\ Only(taken, told, {"zero_win_advertised"})
  <2>1. Typed(told)
    BY <1>5, Values, FieldNames, Zenon DEF Typed
  <2>2. Only(taken, told, {"zero_win_advertised"})
    BY <1>5, FieldNames DEF Only, Typed
  <2>3. {"zero_win_advertised"} \cap Judged = {}
    BY DEF Judged
  <2> HIDE DEF told
  <2> QED BY <1>7, <2>1, <2>2, <2>3, Besides
<1> HIDE DEF told
<1>9. /\ Sound(SendAck(told)) /\ SendAck(told).state = e.state
      /\ SendAck(told).passive = told.passive
  <2>1. Only(told, SendAck(told), Acking)
    BY <1>8, SendAckFrame DEF Sound
  <2>2. SendAck(told).passive = told.passive
    BY <2>1, FieldNames DEF Only, Acking, Emitted
  <2> QED BY <1>8, <2>2, SendAckSound
<1>10. taken.passive = e.passive /\ told.passive = e.passive
  BY <1>6, <1>8, FieldNames DEF Only
<1>11. Sound(n) /\ n.state = e.state /\ n.passive = e.passive
  BY <1>3, <1>7, <1>9, <1>10
<1> QED BY <1>11 DEF n

\* close.
LEMMA CloseSound ==
    ASSUME NEW e, Sound(e), MayClose(e)
    PROVE  LET n == Close(e) IN
           /\ Sound(n) /\ MayBecome(e.state, n.state)
           /\ n.state = "CLOSED" \/ (n.state \in Own(e.state) /\ n.passive = e.passive)
<1> DEFINE closing == [e EXCEPT !.fin_pending = TRUE]
           n == Close(e)
<1>1. Typed(e) /\ Consistent(e)
  BY DEF Sound
<1>2. CASE e.state \in {"LISTEN", "SYN_SENT"}
  <2>1. n = EnterClosed(e)
    BY <1>2 DEF Close
  <2> HIDE DEF n
  <2>2. Sound(n) /\ n.state = "CLOSED"
    BY <1>1, <2>1, EnterClosedSound
  <2> QED BY <2>2 DEF n, MayBecome
<1>3. CASE e.state \notin {"LISTEN", "SYN_SENT"}
  <2>1. n = SendPending(closing)
    BY <1>3 DEF Close
  <2>2. Typed(closing)
    BY <1>1, Values, FieldNames, Zenon DEF Typed
  <2>3. Only(e, closing, {"fin_pending"})
    BY <1>1, FieldNames DEF Only, Typed
  <2> HIDE DEF n, closing
  <2>4. /\ closing.state = e.state /\ closing.recv_buf = e.recv_buf /\ closing.ooo = e.ooo
        /\ closing.fin_sent = e.fin_sent /\ closing.fin_acked = e.fin_acked
        /\ closing.rcv_nxt = e.rcv_nxt /\ closing.passive = e.passive
    BY <2>3, FieldNames DEF Only
  <2>5. e.state \notin Unopened
    BY <1>3 DEF MayClose, Unopened
  <2>6. Ahead(e) => Ahead(closing)
    BY <2>4, Zenon DEF Ahead
  <2>7. Sound(closing)
    BY <1>1, <2>2, <2>4, <2>5, <2>6 DEF Sound, Consistent
  <2>8. /\ Sound(n) /\ MayBecome(e.state, n.state)
        /\ n.state \in Own(e.state) /\ n.passive = e.passive
    BY <2>1, <2>4, <2>7, PendingMoves
  <2> QED BY <2>8 DEF n
<1> QED BY <1>2, <1>3

-------------------------------------------------------------------------------
(* Timers.                                                                 *)

\* A timer goes off: its flag is cleared first.
LEMMA Fires ==
    ASSUME NEW e, Sound(e)
    PROVE  /\ Sound([e EXCEPT !.rt_timer = FALSE])
           /\ Sound([e EXCEPT !.persist_timer = FALSE])
           /\ Sound([e EXCEPT !.tw_timer = FALSE])
           /\ Sound([e EXCEPT !.ka_timer = FALSE])
           /\ Sound([e EXCEPT !.ack_timer = FALSE])
<1> DEFINE rt == [e EXCEPT !.rt_timer = FALSE]
           persist == [e EXCEPT !.persist_timer = FALSE]
           tw == [e EXCEPT !.tw_timer = FALSE]
           ka == [e EXCEPT !.ka_timer = FALSE]
           ack == [e EXCEPT !.ack_timer = FALSE]
<1>1. Typed(rt) /\ Typed(persist) /\ Typed(tw) /\ Typed(ka) /\ Typed(ack)
  BY Values, FieldNames, Zenon DEF Typed, Sound
<1>2. /\ Only(e, rt, {"rt_timer"}) /\ Only(e, persist, {"persist_timer"})
      /\ Only(e, tw, {"tw_timer"}) /\ Only(e, ka, {"ka_timer"}) /\ Only(e, ack, {"ack_timer"})
  BY FieldNames DEF Only, Typed, Sound
<1>3. /\ {"rt_timer"} \cap Judged = {} /\ {"persist_timer"} \cap Judged = {}
      /\ {"tw_timer"} \cap Judged = {} /\ {"ka_timer"} \cap Judged = {}
      /\ {"ack_timer"} \cap Judged = {}
  BY DEF Judged
<1> HIDE DEF rt, persist, tw, ka, ack
<1>4. Sound(rt) /\ Sound(persist) /\ Sound(tw) /\ Sound(ka) /\ Sound(ack)
  BY <1>1, <1>2, <1>3, Besides
<1> QED BY <1>4 DEF rt, persist, tw, ka, ack

\* What a retransmission notes: one more attempt, and no measurement.
LEMMA RetriedSound ==
    ASSUME NEW e, Sound(e), e.retx # <<>>, ~Exhausted(e)
    PROVE  LET n == Retried(e) IN Sound(n) /\ n.state = e.state /\ n.passive = e.passive
<1> DEFINE o == e.retx[1]
           again == [o EXCEPT !.retransmitted = TRUE]
           queue == [e.retx EXCEPT ![1] = again]
           more == e.rto_count + 1
           n == [e EXCEPT !.rto_count = more, !.rtt_pending = None, !.retx = queue]
           S == {"rto_count", "rtt_pending", "retx"}
<1>1. Typed(e) /\ e.retx \in Seq(QueueEntries) /\ e.rto_count \in 0 .. MAX_RETRANSMITS
  BY Reads DEF Sound
<1>2. 1 \in 1 .. Len(e.retx) /\ o \in QueueEntries
  BY <1>1
<1>3. Retried(e) = n
  BY <1>1, <1>2 DEF Retried
<1>4. more \in EngineTypes["rto_count"]
  <2>1. more \in 0 .. MAX_RETRANSMITS
    BY <1>1, EngineAssumption DEF Exhausted
  <2> QED BY <2>1, FieldTypes
<1>5. queue \in EngineTypes["retx"]
  <2> HIDE DEF o
  <2>1. o = [seq |-> o.seq, flags |-> o.flags, payload |-> o.payload,
             retransmitted |-> o.retransmitted]
    BY <1>2 DEF QueueEntries
  <2>2. again = [seq |-> o.seq, flags |-> o.flags, payload |-> o.payload,
                 retransmitted |-> TRUE]
    <3>1. again = [o EXCEPT !.retransmitted = TRUE]
      OBVIOUS
    <3> HIDE DEF again
    <3> QED BY <2>1, <3>1
  <2> HIDE DEF again
  <2>3. again \in QueueEntries
    BY <1>2, <2>2 DEF QueueEntries
  <2>4. queue \in Seq(QueueEntries)
    BY <1>1, <1>2, <2>3, ExceptSeq
  <2> QED BY <2>4, FieldTypes
<1> HIDE DEF queue, more
<1>6. Typed(n)
  BY <1>1, <1>4, <1>5, Values, FieldNames, Zenon DEF Typed
<1>7. Only(e, n, S)
  BY <1>1, FieldNames DEF Only, Typed
<1>8. S \cap Judged = {}
  BY DEF Judged
<1>9. "passive" \notin S
  OBVIOUS
<1> HIDE DEF n, S
<1>10. Sound(n) /\ n.state = e.state
  BY <1>6, <1>7, <1>8, Besides
<1>11. n.passive = e.passive
  BY <1>7, <1>9, FieldNames DEF Only
<1> QED BY <1>3, <1>10, <1>11

\* _on_rto.
LEMMA OnRtoSound ==
    ASSUME NEW e, Sound(e), NEW gave_up \in BOOLEAN
    PROVE  LET n == OnRto(e, gave_up) IN
           /\ Sound(n)
           /\ n.state = "CLOSED" \/ (n.state = e.state /\ n.passive = e.passive)
<1> DEFINE o == Head(e.retx)
           fired == [e EXCEPT !.rt_timer = FALSE]
           over == Abort(fired)
           again == Retried(e)
           sent_again == Emit(again, o.seq, o.flags, o.payload)
           n == OnRto(e, gave_up)
<1>1. \/ n = fired
      \/ n = over
      \/ e.retx # <<>> /\ ~Exhausted(e) /\ n = sent_again
  BY DEF OnRto
<1>2. Sound(fired) /\ fired.state = e.state /\ fired.passive = e.passive
  <2>1. fired.state = e.state /\ fired.passive = e.passive
    BY FieldNames DEF Sound, Typed
  <2> QED BY <2>1, Fires
<1> HIDE DEF fired, n
<1>3. Sound(over) /\ over.state = "CLOSED"
  BY <1>2, AbortSound DEF Sound
<1> HIDE DEF over
<1>4. ASSUME e.retx # <<>>, ~Exhausted(e)
      PROVE  Sound(sent_again) /\ sent_again.state = e.state /\ sent_again.passive = e.passive
  <2>1. o \in QueueEntries
    <3>1. e.retx \in Seq(QueueEntries)
      BY Reads DEF Sound
    <3> QED BY <1>4, <3>1, HeadTailProperties
  <2>2. /\ o.seq \in SeqNums /\ o.payload \in Seq(Bytes) /\ o.flags \in FlagSets
        /\ MayCarry(o.flags, o.payload)
    BY <2>1, EntryTakes
  <2>3. Sound(again) /\ again.state = e.state /\ again.passive = e.passive
    BY <1>4, RetriedSound
  <2> HIDE DEF o, again
  <2>4. Typed(sent_again) /\ Only(again, sent_again, Emitted)
    BY <2>2, <2>3, EmitFrame DEF Sound
  <2>5. Emitted \cap Judged = {}
    BY DEF Emitted, Judged
  <2> HIDE DEF sent_again
  <2>6. sent_again.passive = again.passive
    BY <2>4, FieldNames DEF Only, Emitted
  <2> QED BY <2>3, <2>4, <2>5, <2>6, Besides
<1> HIDE DEF sent_again
<1>5. Sound(n) /\ (n.state = "CLOSED" \/ (n.state = e.state /\ n.passive = e.passive))
  BY <1>1, <1>2, <1>3, <1>4
<1> QED BY <1>5 DEF n

\* A persist timer that is armed again.
LEMMA ArmPersistSound ==
    ASSUME NEW e, Sound(e)
    PROVE  LET n == ArmPersist(e) IN Sound(n) /\ n.state = e.state /\ n.passive = e.passive
<1>1. Typed(ArmPersist(e)) /\ Only(e, ArmPersist(e), {"persist_timer"})
  BY TimerFrames DEF Sound
<1>2. {"persist_timer"} \cap Judged = {}
  BY DEF Judged
<1>3. ArmPersist(e).passive = e.passive
  BY <1>1, FieldNames DEF Only
<1> QED BY <1>1, <1>2, <1>3, Besides

\* _on_persist: what the window now lets out, or a probe of one byte, or the
\* FIN as a probe.
LEMMA OnPersistSound ==
    ASSUME NEW e, Sound(e)
    PROVE  LET n == OnPersist(e) IN
           /\ Sound(n) /\ MayBecome(e.state, n.state)
           /\ n.state \in Own(e.state) /\ n.passive = e.passive
<1> DEFINE fired == [e EXCEPT !.persist_timer = FALSE]
           shorter == [fired EXCEPT !.app_buf = Tail(@)]
           probe == QueueAndSend(shorter, {"ACK"}, <<Head(e.app_buf)>>)
           fin == EmitFin(fired)
           pushed == SendPending(fired)
           n == OnPersist(e)
<1>1. \/ n = pushed
      \/ e.app_buf # <<>> /\ n = ArmPersist(probe)
      \/ e.fin_pending /\ ~e.fin_sent /\ n = ArmPersist(fin)
      \/ n = fired
  BY DEF OnPersist
<1>2. Sound(fired) /\ Only(e, fired, {"persist_timer"})
  <2>1. Only(e, fired, {"persist_timer"})
    BY FieldNames DEF Only, Typed, Sound
  <2> QED BY <2>1, Fires
<1>3. /\ fired.state = e.state /\ fired.passive = e.passive /\ fired.app_buf = e.app_buf
      /\ fired.fin_pending = e.fin_pending /\ fired.fin_sent = e.fin_sent
  BY FieldNames DEF Typed, Sound
<1> HIDE DEF fired, n
<1>4. /\ Sound(pushed) /\ MayBecome(e.state, pushed.state)
      /\ pushed.state \in Own(e.state) /\ pushed.passive = e.passive
  BY <1>2, <1>3, PendingMoves
<1> HIDE DEF pushed
<1>5. ASSUME e.app_buf # <<>>
      PROVE  /\ Sound(ArmPersist(probe)) /\ ArmPersist(probe).state = e.state
             /\ ArmPersist(probe).passive = e.passive
  <2> DEFINE byte == Head(e.app_buf)
             rest == Tail(fired.app_buf)
  <2>1. rest \in Seq(Bytes) /\ byte \in Bytes
    <3>1. e.app_buf \in Seq(Bytes)
      BY Reads DEF Sound
    <3> QED BY <1>3, <1>5, <3>1, HeadTailProperties
  <2>2. rest \in EngineTypes["app_buf"]
    BY <2>1, FieldTypes
  <2>3. shorter = [fired EXCEPT !.app_buf = rest]
    OBVIOUS
  <2> HIDE DEF rest, byte, shorter
  <2>4. Typed(shorter)
    BY <1>2, <2>2, <2>3, FieldNames, Zenon DEF Typed, Sound
  <2>5. Only(fired, shorter, {"app_buf"})
    BY <1>2, <2>3, FieldNames DEF Only, Typed, Sound
  <2>6. {"app_buf"} \cap Judged = {}
    BY DEF Judged
  <2>7. Sound(shorter) /\ shorter.state = e.state /\ shorter.passive = e.passive
    <3>1. shorter.passive = fired.passive
      BY <2>5, FieldNames DEF Only
    <3> QED BY <1>2, <1>3, <2>4, <2>5, <2>6, <3>1, Besides
  <2>8. <<byte>> \in Seq(Bytes) /\ Len(<<byte>>) = 1 /\ <<byte>> # <<>>
    BY <2>1
  <2>9. MayCarry({"ACK"}, <<byte>>)
    BY <2>8, Halves DEF MayCarry
  <2>10. probe = QueueAndSend(shorter, {"ACK"}, <<byte>>)
    BY DEF byte
  <2> HIDE DEF probe
  <2>11. Sound(probe) /\ probe.state = shorter.state /\ Only(shorter, probe, Queueing)
    BY <2>7, <2>8, <2>9, <2>10, QueueSound
  <2>12. probe.passive = shorter.passive
    BY <2>11, FieldNames DEF Only, Queueing, Emitted
  <2> QED BY <2>7, <2>11, <2>12, ArmPersistSound
<1> HIDE DEF probe
<1>6. ASSUME e.fin_pending, ~e.fin_sent
      PROVE  /\ Sound(ArmPersist(fin)) /\ MayBecome(e.state, ArmPersist(fin).state)
             /\ ArmPersist(fin).state \in Own(e.state) /\ ArmPersist(fin).passive = e.passive
  <2>1. e.state \in {"SYN_RECEIVED", "ESTABLISHED", "CLOSE_WAIT"}
    <3>1. e.state \in States /\ e.fin_pending \in BOOLEAN /\ e.fin_sent \in BOOLEAN
      BY Reads DEF Sound
    <3>2. e.state \notin Unopened /\ e.state \notin Finished
      BY <1>6, <3>1 DEF Sound, Consistent
    <3> QED BY <3>1, <3>2 DEF States, Unopened, Finished
  <2>2. /\ Typed(fin) /\ Only(fired, fin, Sending)
        /\ fin.state = AfterOurFin(fired.state) /\ fin.fin_sent = TRUE
    BY <1>2, EmitFinFrame DEF Sound
  <2> HIDE DEF fin
  <2>3. Sound(fin)
    BY <1>2, <1>3, <2>1, <2>2, SentConsistent DEF Sound
  <2>4. MayBecome(e.state, fin.state)
    BY <1>3, <2>1, <2>2 DEF MayBecome, Arcs, AfterOurFin, StatesBeforeFin
  <2>5. fin.state \in Own(e.state)
    BY <1>3, <2>1, <2>2 DEF Own
  <2>6. fin.passive = fired.passive
    BY <2>2, FieldNames DEF Only, Sending, Segmenting, Queueing, Emitted, Moving
  <2> QED BY <1>3, <2>3, <2>4, <2>5, <2>6, ArmPersistSound
<1> HIDE DEF fin
<1>7. MayBecome(e.state, e.state) /\ e.state \in Own(e.state)
  BY DEF MayBecome, Own
<1>8. /\ Sound(n) /\ MayBecome(e.state, n.state)
      /\ n.state \in Own(e.state) /\ n.passive = e.passive
  BY <1>1, <1>2, <1>3, <1>4, <1>5, <1>6, <1>7
<1> QED BY <1>8 DEF n

\* _on_time_wait.
LEMMA OnTimeWaitSound ==
    ASSUME NEW e, Sound(e)
    PROVE  LET n == OnTimeWait(e) IN Sound(n) /\ n.state = "CLOSED"
  BY Fires, EnterClosedSound DEF OnTimeWait, Sound

\* _on_delack.
LEMMA OnDelackSound ==
    ASSUME NEW e, Sound(e)
    PROVE  LET n == OnDelack(e) IN Sound(n) /\ n.state = e.state /\ n.passive = e.passive
<1> DEFINE fired == [e EXCEPT !.ack_timer = FALSE]
<1>1. fired.state = e.state /\ fired.passive = e.passive
  BY FieldNames DEF Sound, Typed
<1>2. Sound(fired)
  BY Fires
<1>3. OnDelack(e) = SendAck(fired)
  BY DEF OnDelack
<1> HIDE DEF fired
<1>4. SendAck(fired).passive = fired.passive
  BY <1>2, SendAckFrame, FieldNames DEF Sound, Only, Acking, Emitted
<1> QED BY <1>1, <1>2, <1>3, <1>4, SendAckSound

\* _on_keepalive.
LEMMA OnKeepaliveSound ==
    ASSUME NEW e, Sound(e)
    PROVE  LET n == OnKeepalive(e) IN
           /\ Sound(n) /\ n.state \in {e.state, "CLOSED"}
           /\ e.state # "ESTABLISHED" => n.passive = e.passive
<1> DEFINE fired == [e EXCEPT !.ka_timer = FALSE]
           over == Abort(fired)
           again == RestartKeepalive(fired)
           probe == Emit(fired, sub(e.snd_una, 1), {"ACK"}, <<>>)
           counted == [probe EXCEPT !.ka_probes = @ + 1]
           probed == RestartKeepalive(counted)
           n == OnKeepalive(e)
<1>1. /\ \/ n = fired \/ n = again \/ n = over
         \/ ~(e.ka_probes >= KEEPALIVE_COUNT) /\ n = probed
      /\ e.state # "ESTABLISHED" => n = fired
  BY DEF OnKeepalive
<1>2. Sound(fired) /\ Only(e, fired, {"ka_timer"})
  <2>1. Only(e, fired, {"ka_timer"})
    BY FieldNames DEF Only, Typed, Sound
  <2> QED BY <2>1, Fires
<1>3. fired.state = e.state /\ fired.passive = e.passive /\ fired.ka_probes = e.ka_probes
  BY FieldNames DEF Sound, Typed
<1> HIDE DEF fired, n
<1>4. Sound(over) /\ over.state = "CLOSED"
  BY <1>2, AbortSound DEF Sound
<1>5. Sound(again) /\ again.state = e.state
  <2>1. Typed(again) /\ Only(fired, again, {"ka_timer"})
    BY <1>2, RestartKeepaliveFrame DEF Sound
  <2>2. {"ka_timer"} \cap Judged = {}
    BY DEF Judged
  <2> HIDE DEF again
  <2> QED BY <1>2, <1>3, <2>1, <2>2, Besides
<1> HIDE DEF over, again
<1>6. ASSUME ~(e.ka_probes >= KEEPALIVE_COUNT)
      PROVE  Sound(probed) /\ probed.state = e.state
  <2> DEFINE more == probe.ka_probes + 1
             S == Emitted \cup {"ka_probes", "ka_timer"}
  <2>1. Typed(probe) /\ Only(fired, probe, Emitted)
    <3>1. e.snd_una \in SeqNums
      BY Reads DEF Sound
    <3>2. sub(e.snd_una, 1) \in SeqNums /\ {"ACK"} \in FlagSets /\ <<>> \in Seq(Bytes)
          /\ MayCarry({"ACK"}, <<>>)
      BY <3>1, InSeqNums DEF FlagSets, MayCarry
    <3> QED BY <1>2, <3>2, EmitFrame DEF Sound
  <2> HIDE DEF probe
  <2>2. probe.ka_probes = e.ka_probes
    BY <1>3, <2>1, FieldNames DEF Only, Emitted
  <2>3. more \in EngineTypes["ka_probes"]
    <3>1. e.ka_probes \in 0 .. KEEPALIVE_COUNT
      BY Reads DEF Sound
    <3>2. more \in 0 .. KEEPALIVE_COUNT
      BY <1>6, <2>2, <3>1, EngineAssumption
    <3> QED BY <3>2, FieldTypes
  <2>4. counted = [probe EXCEPT !.ka_probes = more]
    OBVIOUS
  <2> HIDE DEF more, counted
  <2>5. Typed(counted)
    BY <2>1, <2>3, <2>4, FieldNames, Zenon DEF Typed
  <2>6. Only(probe, counted, {"ka_probes"})
    BY <2>1, <2>4, FieldNames DEF Only, Typed
  <2>7. Typed(probed) /\ Only(counted, probed, {"ka_timer"})
    BY <2>5, RestartKeepaliveFrame
  <2> HIDE DEF probed
  <2>8. Only(fired, probed, S)
    BY <2>1, <2>6, <2>7 DEF Only
  <2>9. S \cap Judged = {}
    BY DEF Emitted, Judged
  <2> HIDE DEF S
  <2> QED BY <1>2, <1>3, <2>7, <2>8, <2>9, Besides
<1> HIDE DEF probed
<1>7. Sound(n) /\ n.state \in {e.state, "CLOSED"}
  BY <1>1, <1>2, <1>3, <1>4, <1>5, <1>6
<1>8. e.state # "ESTABLISHED" => n.passive = e.passive
  BY <1>1, <1>3
<1> QED BY <1>7, <1>8 DEF n

-------------------------------------------------------------------------------
(* What an engine remembers of its open.                                   *)

\* The states before the connection is up.
Opening == {"LISTEN", "SYN_SENT", "SYN_RECEIVED"}

\* Who listens was opened passively, who has sent a SYN actively.
Opened(e) ==
    /\ e.state = "LISTEN" => e.passive = TRUE
    /\ e.state = "SYN_SENT" => e.passive = FALSE

\* A handler that turns e into n keeps that, and its answer to the question in
\* SYN_RECEIVED is the right one.
Remembers(e, n) == Opened(n) /\ KnowsItsOpen(e, n)

\* A handler that leaves the opening behind has nothing to remember.
LEMMA PastOpening ==
    ASSUME NEW e, NEW n, n.state \notin Opening
    PROVE  Remembers(e, n)
  BY DEF Remembers, Opened, KnowsItsOpen, Opening

\* One that the state allows to send our FIN, and that leaves passive alone.
LEMMA OwnRemembers ==
    ASSUME NEW e, Sound(e), Opened(e), NEW n,
           n.state \in Own(e.state), n.passive = e.passive
    PROVE  Remembers(e, n)
<1>1. n.state = e.state \/ n.state \notin Opening
  BY DEF Own, AfterOurFin, StatesBeforeFin, Opening
<1>2. CASE n.state = e.state
  <2>1. e.passive \in BOOLEAN
    BY Reads DEF Sound
  <2> QED BY <1>2, <2>1 DEF Remembers, Opened, KnowsItsOpen
<1> QED BY <1>1, <1>2, PastOpening

\* The diagram does not lead back into the opening but by way of CLOSED.
LEMMA NoWayBack ==
    ASSUME NEW from, from \notin Opening \cup {"CLOSED"}, NEW to, MayBecome(from, to)
    PROVE  to \notin Opening
  BY DEF MayBecome, Arcs, Compositions, Opening

\* A segment that arrives in SYN_RECEIVED.
LEMMA SynReceivedRemembers ==
    ASSUME NEW e, Sound(e), Opened(e), e.state = "SYN_RECEIVED", NEW seg \in SegmentRecords
    PROVE  Remembers(e, HandleSynchronized(e, seg))
<1> DEFINE n == HandleSynchronized(e, seg)
<1>1. n \in {e, SendAck(e), DoReset(e), AckOfSyn(e, seg)}
  BY DEF HandleSynchronized
<1>2. Typed(e) /\ e.passive \in BOOLEAN /\ e.state \in Own(e.state)
  BY Reads DEF Sound, Own
<1> HIDE DEF n
<1>3. CASE n = e
  BY <1>2, <1>3, OwnRemembers DEF n
<1>4. CASE n = SendAck(e)
  <2>1. n.state = e.state /\ n.passive = e.passive
    BY <1>2, <1>4, SendAckSound, SendAckFrame, FieldNames DEF Only, Acking, Emitted
  <2>2. Remembers(e, n)
    BY <1>2, <2>1, OwnRemembers
  <2> QED BY <2>2 DEF n
<1>5. CASE n = DoReset(e)
  <2>1. /\ MayBecome(e.state, n.state)
        /\ n.state # "CLOSED" => BackToListen(e) /\ n.passive = e.passive
    BY <1>2, <1>5, DoResetSound
  <2>2. CASE n.state = "CLOSED"
    <3>1. Remembers(e, n)
      BY <2>2, PastOpening DEF Opening
    <3> QED BY <3>1 DEF n
  <2>3. CASE n.state # "CLOSED"
    <3>1. e.passive = TRUE /\ n.passive = TRUE
      BY <1>2, <2>1, <2>3 DEF BackToListen
    <3>2. n.state # "SYN_SENT"
      BY <2>1 DEF MayBecome, Arcs, Compositions
    <3>3. Remembers(e, n)
      BY <3>1, <3>2 DEF Remembers, Opened, KnowsItsOpen
    <3> QED BY <3>3 DEF n
  <2> QED BY <2>2, <2>3
<1>6. CASE n = AckOfSyn(e, seg)
  <2>1. n.state \in Both("ESTABLISHED") \/ (n.state = e.state /\ n.passive = e.passive)
    BY <1>6, AckOfSynSound
  <2>2. Remembers(e, n)
    <3>1. CASE n.state \in Both("ESTABLISHED")
      <4>1. n.state \notin Opening
        BY <3>1, BothIsLegal, NoWayBack DEF Opening
      <4> QED BY <4>1, PastOpening
    <3>2. CASE n.state = e.state /\ n.passive = e.passive
      BY <1>2, <3>2, OwnRemembers
    <3> QED BY <2>1, <3>1, <3>2
  <2> QED BY <2>2 DEF n
<1> QED BY <1>1, <1>3, <1>4, <1>5, <1>6

\* A segment that arrives in any state.
LEMMA OnSegmentRemembers ==
    ASSUME NEW e, Sound(e), Opened(e), NEW seg \in SegmentRecords, NEW iss \in SeqNums
    PROVE  Remembers(e, OnSegment(e, seg, iss))
<1> DEFINE n == OnSegment(e, seg, iss)
<1>1. Typed(e) /\ e.state \in States /\ e.passive \in BOOLEAN
  BY Reads DEF Sound
<1>2. CASE e.state = "CLOSED"
  <2>1. n = HandleClosed(e, seg)
    BY <1>2 DEF OnSegment
  <2> HIDE DEF n
  <2>2. n.state \notin Opening
    BY <1>2, <2>1, HandleClosedSound DEF Opening
  <2>3. Remembers(e, n)
    BY <2>2, PastOpening
  <2> QED BY <2>3 DEF n
<1>3. CASE e.state = "LISTEN"
  <2>1. n = HandleListen(e, seg, iss)
    BY <1>3 DEF OnSegment
  <2> HIDE DEF n
  <2>2. n.state \in {"LISTEN", "SYN_RECEIVED"} /\ n.passive = e.passive
    BY <1>3, <2>1, HandleListenSound
  <2>3. e.passive = TRUE
    BY <1>3 DEF Opened
  <2>4. Remembers(e, n)
    BY <1>3, <2>2, <2>3 DEF Remembers, Opened, KnowsItsOpen
  <2> QED BY <2>4 DEF n
<1>4. CASE e.state = "SYN_SENT"
  <2>1. n = HandleSynSent(e, seg)
    BY <1>4 DEF OnSegment
  <2> HIDE DEF n
  <2>2. /\ MayBecome("SYN_SENT", n.state)
        /\ n.state \in {"CLOSED", "ESTABLISHED"} \/ n.passive = e.passive
    BY <1>4, <2>1, HandleSynSentSound
  <2>3. e.passive = FALSE
    BY <1>4 DEF Opened
  <2>4. n.state # "LISTEN"
    BY <2>2 DEF MayBecome, Arcs, Compositions
  <2>5. Remembers(e, n)
    BY <1>4, <2>2, <2>3, <2>4 DEF Remembers, Opened, KnowsItsOpen
  <2> QED BY <2>5 DEF n
<1>5. CASE e.state = "SYN_RECEIVED"
  <2>1. n = HandleSynchronized(e, seg)
    BY <1>5 DEF OnSegment
  <2> QED BY <1>5, <2>1, SynReceivedRemembers
<1>6. CASE e.state \notin Opening \cup {"CLOSED"}
  <2> HIDE DEF n
  <2>1. MayBecome(e.state, n.state)
    BY OnSegmentSound DEF n
  <2>2. Remembers(e, n)
    BY <1>6, <2>1, NoWayBack, PastOpening
  <2> QED BY <2>2 DEF n
<1> QED BY <1>2, <1>3, <1>4, <1>5, <1>6 DEF Opening

-------------------------------------------------------------------------------
(* The pair.                                                               *)

EnginesSound ==
    /\ eng = [s \in Sides |-> eng[s]]
    /\ \A s \in Sides : Sound(eng[s]) /\ eng[s].out = <<>>

WireSound ==
    /\ net = [s \in Sides |-> net[s]]
    /\ \A s \in Sides : BagToSet(net[s]) \subseteq SegmentRecords

HistoryTyped ==
    /\ sent \in [Sides -> Nat]
    /\ ended \in [Sides -> BOOLEAN]
    /\ left \in [BudgetKeys -> Nat]

\* The inductive invariant: both engines are sound, and so is what is in
\* flight.
IInv == EnginesSound /\ WireSound /\ HistoryTyped

\* Where a step may take the states of the two.
Moves == \A s \in Sides : MayBecome(eng[s].state, eng'[s].state)

\* A side and its peer.
LEMMA Pairs ==
    ASSUME NEW s \in Sides
    PROVE  Peer(s) \in Sides /\ Peer(s) # s /\ ISS[s] \in SeqNums /\ \A t \in Sides : t \in {s, Peer(s)}
  BY PairAssumption DEF Sides, Peer

\* What an engine transmitted, as a bag.
LEMMA BagOfIs ==
    ASSUME NEW segs \in Seq(SegmentRecords)
    PROVE  BagToSet(BagOf(segs)) \subseteq SegmentRecords
<1>1. Range(segs) \subseteq SegmentRecords
  BY DEF Range
<1> QED BY <1>1 DEF BagToSet, BagOf

\* An engine is replaced, and what it transmitted joins what is in flight.
LEMMA BecomesSound ==
    ASSUME IInv, NEW s \in Sides, NEW e, Sound(e), MayBecome(eng[s].state, e.state),
           NEW taken, BagToSet(taken) \subseteq SegmentRecords, Becomes(s, e, taken),
           HistoryTyped'
    PROVE  IInv' /\ Moves
<1> DEFINE n == [e EXCEPT !.out = <<>>]
           more == net[Peer(s)] (+) BagOf(e.out)
<1>1. eng' = [eng EXCEPT ![s] = n] /\ net' = [net EXCEPT ![s] = taken, ![Peer(s)] = more]
  BY Pairs, Zenon DEF Becomes
<1>2. Sound(n) /\ n.state = e.state /\ n.out = <<>>
  <2>1. Typed(n)
    BY Values, FieldNames, Zenon DEF Typed, Sound
  <2>2. Only(e, n, {"out"}) /\ n.out = <<>>
    BY FieldNames DEF Only, Typed, Sound
  <2>3. {"out"} \cap Judged = {}
    BY DEF Judged
  <2> HIDE DEF n
  <2> QED BY <2>1, <2>2, <2>3, Besides
<1>3. BagToSet(more) \subseteq SegmentRecords
  <2>1. e.out \in Seq(SegmentRecords)
    BY Reads DEF Sound
  <2>2. BagToSet(BagOf(e.out)) \subseteq SegmentRecords
    BY <2>1, BagOfIs
  <2>3. BagToSet(net[Peer(s)]) \subseteq SegmentRecords
    BY Pairs DEF IInv, WireSound
  <2> QED BY <2>2, <2>3 DEF BagToSet, (+)
<1> HIDE DEF n, more
<1>4. EnginesSound' /\ Moves
  <2>1. eng' = [t \in Sides |-> eng'[t]]
    BY <1>1 DEF IInv, EnginesSound
  <2>2. eng'[s] = n /\ \A t \in Sides \ {s} : eng'[t] = eng[t]
    BY <1>1 DEF IInv, EnginesSound
  <2>3. \A t \in Sides \ {s} : MayBecome(eng[t].state, eng'[t].state)
    BY <2>2 DEF MayBecome
  <2>4. MayBecome(eng[s].state, eng'[s].state)
    BY <1>2, <2>2
  <2>5. Moves
    BY <2>3, <2>4 DEF Moves
  <2>6. \A t \in Sides : Sound(eng'[t]) /\ eng'[t].out = <<>>
    BY <1>2, <2>2 DEF IInv, EnginesSound
  <2> QED BY <2>1, <2>5, <2>6 DEF EnginesSound, Sound, Typed, Consistent, Ahead
<1>5. WireSound'
  <2>1. net' = [t \in Sides |-> net'[t]]
    BY <1>1 DEF IInv, WireSound
  <2>2. net'[s] = taken /\ net'[Peer(s)] = more
    BY <1>1, Pairs DEF IInv, WireSound
  <2>3. \A t \in Sides : BagToSet(net'[t]) \subseteq SegmentRecords
    BY <1>3, <2>2, Pairs
  <2> QED BY <2>1, <2>3 DEF WireSound
<1> QED BY <1>4, <1>5 DEF IInv

\* The same when nothing is taken off the wire.
LEMMA EntersSound ==
    ASSUME IInv, NEW s \in Sides, NEW e, Sound(e), MayBecome(eng[s].state, e.state),
           Enters(s, e), HistoryTyped'
    PROVE  IInv' /\ Moves
<1>1. BagToSet(net[s]) \subseteq SegmentRecords
  BY DEF IInv, WireSound
<1>2. Becomes(s, e, net[s])
  BY DEF Enters
<1> QED BY <1>1, <1>2, BecomesSound

\* The histories keep their types.
LEMMA HistoryKept ==
    ASSUME IInv
    PROVE  /\ UNCHANGED <<sent, ended, left>> => HistoryTyped'
           /\ \A k \in BudgetKeys : Spend(k) /\ UNCHANGED <<sent, ended>> => HistoryTyped'
<1>1. HistoryTyped
  BY DEF IInv
<1>2. UNCHANGED <<sent, ended, left>> => HistoryTyped'
  BY <1>1 DEF HistoryTyped
<1>3. ASSUME NEW k \in BudgetKeys, Spend(k), UNCHANGED <<sent, ended>> PROVE HistoryTyped'
  <2>1. left[k] \in Nat /\ left[k] - 1 \in Nat
    BY <1>1, <1>3 DEF HistoryTyped, Spend
  <2>2. left' \in [BudgetKeys -> Nat]
    BY <1>1, <1>3, <2>1 DEF HistoryTyped, Spend
  <2> QED BY <1>1, <1>3, <2>2 DEF HistoryTyped
<1> QED BY <1>2, <1>3

\* The keys of the budget that the actions spend.
LEMMA Keys ==
    /\ "open" \in BudgetKeys /\ "abort" \in BudgetKeys /\ "lose" \in BudgetKeys
    /\ "duplicate" \in BudgetKeys /\ "rto" \in BudgetKeys /\ "persist" \in BudgetKeys
    /\ "keepalive" \in BudgetKeys
  BY DEF BudgetKeys

\* An expiring timer takes from the budget, or takes nothing.
LEMMA ExpiryKept ==
    ASSUME IInv, NEW k \in BudgetKeys, NEW waited, MayExpire(k, waited), UNCHANGED <<sent, ended>>
    PROVE  HistoryTyped'
<1>1. CASE PATIENT
  <2>1. UNCHANGED <<sent, ended, left>>
    BY <1>1 DEF MayExpire
  <2> QED BY <2>1, HistoryKept
<1>2. CASE ~PATIENT
  <2>1. Spend(k)
    BY <1>2 DEF MayExpire
  <2> QED BY <2>1, HistoryKept
<1> QED BY <1>1, <1>2

\* To stay in a state, or to end in CLOSED, is always legal.
LEMMA StayOrClose ==
    ASSUME NEW from, NEW to \in {from, "CLOSED"}
    PROVE  MayBecome(from, to)
  BY DEF MayBecome

\* What a user does.
LEMMA UserStep ==
    ASSUME IInv, NEW s \in Sides, User(s)
    PROVE  IInv' /\ Moves
<1> DEFINE e == eng[s]
<1>1. Sound(e) /\ Typed(e) /\ ISS[s] \in SeqNums
  BY Pairs DEF IInv, EnginesSound, Sound
<1>2. CASE UserActiveOpen(s)
  <2> DEFINE n == ActiveOpen(e, ISS[s])
  <2>1. Enters(s, n) /\ Spend("open") /\ UNCHANGED <<sent, ended>> /\ e.state \in {"CLOSED", "LISTEN"}
    BY <1>2 DEF UserActiveOpen, MayOpen
  <2>2. Sound(n) /\ n.state = "SYN_SENT"
    BY <1>1, <2>1, ActiveOpenSound
  <2> HIDE DEF n, e
  <2>3. MayBecome(e.state, n.state)
    BY <2>1, <2>2 DEF MayBecome, Arcs
  <2> QED BY <2>1, <2>2, <2>3, HistoryKept, Keys, EntersSound DEF e
<1>3. CASE UserPassiveOpen(s)
  <2> DEFINE n == PassiveOpen(e)
  <2>1. Enters(s, n) /\ Spend("open") /\ UNCHANGED <<sent, ended>> /\ e.state = "CLOSED"
    BY <1>3 DEF UserPassiveOpen, MayOpen
  <2>2. Sound(n) /\ n.state = "LISTEN"
    BY <1>1, <2>1, PassiveOpenSound
  <2> HIDE DEF n, e
  <2>3. MayBecome(e.state, n.state)
    BY <2>1, <2>2 DEF MayBecome, Arcs
  <2> QED BY <2>1, <2>2, <2>3, HistoryKept, Keys, EntersSound DEF e
<1>4. CASE UserSend(s)
  <2>1. PICK k \in 1 .. SEND_LIMIT[s] - sent[s] :
           /\ sent' = [sent EXCEPT ![s] = @ + k]
           /\ Enters(s, Send(e, [i \in 1 .. k |-> sent[s] + i], ISS[s]))
           /\ UNCHANGED <<ended, left>>
    BY <1>4 DEF UserSend
  <2> DEFINE data == [i \in 1 .. k |-> sent[s] + i]
             n == Send(e, data, ISS[s])
  <2>2. sent[s] \in Nat /\ SEND_LIMIT[s] \in Nat
    BY PairAssumption DEF IInv, HistoryTyped
  <2>3. k \in Nat
    BY <2>2
  <2>4. data \in Seq(Bytes)
    <3>1. \A i \in 1 .. k : sent[s] + i \in Bytes
      BY <2>2, <2>3 DEF Bytes
    <3> QED BY <2>3, <3>1
  <2>5. HistoryTyped'
    BY <2>1, <2>2, <2>3 DEF IInv, HistoryTyped
  <2> HIDE DEF data, e
  <2>6. Sound(n) /\ MayBecome(e.state, n.state)
    BY <1>1, <2>4, SendSound
  <2>7. Enters(s, n)
    BY <2>1 DEF data
  <2> HIDE DEF n
  <2> QED BY <2>5, <2>6, <2>7, EntersSound DEF e
<1>5. CASE UserReceive(s)
  <2>1. PICK k \in 1 .. Len(e.recv_buf) : Enters(s, Receive(e, k))
    BY <1>5 DEF UserReceive
  <2> DEFINE n == Receive(e, k)
  <2>2. UNCHANGED <<sent, ended, left>>
    BY <1>5 DEF UserReceive
  <2>3. Sound(n) /\ n.state = e.state
    BY <1>1, ReceiveSound
  <2>4. Enters(s, n)
    BY <2>1
  <2> HIDE DEF n, e
  <2> QED BY <2>2, <2>3, <2>4, HistoryKept, StayOrClose, EntersSound DEF e
<1>6. CASE UserClose(s)
  <2> DEFINE n == Close(e)
  <2>1. Enters(s, n) /\ MayClose(e)
    BY <1>6 DEF UserClose
  <2>2. HistoryTyped'
    <3>1. /\ ended' = [ended EXCEPT ![s] = @ \/ eng[s].state \notin {"LISTEN", "SYN_SENT"}]
          /\ UNCHANGED <<sent, left>>
      BY <1>6 DEF UserClose
    <3>2. ended' \in [Sides -> BOOLEAN]
      BY <3>1 DEF IInv, HistoryTyped
    <3> QED BY <3>1, <3>2 DEF IInv, HistoryTyped
  <2>3. Sound(n) /\ MayBecome(e.state, n.state)
    BY <1>1, <2>1, CloseSound
  <2> HIDE DEF n, e
  <2> QED BY <2>1, <2>2, <2>3, EntersSound DEF e
<1>7. CASE UserAbort(s)
  <2> DEFINE n == Abort(e)
  <2>1. Enters(s, n) /\ Spend("abort") /\ UNCHANGED <<sent, ended>>
    BY <1>7 DEF UserAbort
  <2>2. Sound(n) /\ n.state = "CLOSED"
    BY <1>1, AbortSound
  <2> HIDE DEF n, e
  <2> QED BY <2>1, <2>2, HistoryKept, Keys, StayOrClose, EntersSound DEF e
<1> QED BY <1>2, <1>3, <1>4, <1>5, <1>6, <1>7 DEF User

\* What the wire does: a segment arrives, is lost, or is duplicated.
LEMMA WireStep ==
    ASSUME IInv, NEW s \in Sides, Wire(s)
    PROVE  IInv' /\ Moves
<1>1. BagToSet(net[s]) \subseteq SegmentRecords
  BY DEF IInv, WireSound
<1>2. CASE Arrive(s)
  <2> DEFINE e == eng[s]
  <2>1. PICK seg \in BagToSet(net[s]) :
           Becomes(s, OnSegment(e, seg, ISS[s]), net[s] (-) SetToBag({seg}))
    BY <1>2 DEF Arrive
  <2> DEFINE n == OnSegment(e, seg, ISS[s])
             taken == net[s] (-) SetToBag({seg})
  <2>2. Sound(e) /\ ISS[s] \in SeqNums /\ seg \in SegmentRecords
    BY <1>1, Pairs DEF IInv, EnginesSound
  <2>3. BagToSet(taken) \subseteq SegmentRecords
    BY <1>1 DEF BagToSet, (-), SetToBag
  <2>4. Becomes(s, n, taken)
    BY <2>1
  <2>5. HistoryTyped'
    BY <1>2, HistoryKept DEF Arrive
  <2> HIDE DEF e, taken
  <2>6. Sound(n) /\ MayBecome(e.state, n.state)
    BY <2>2, OnSegmentSound
  <2> HIDE DEF n
  <2> QED BY <2>3, <2>4, <2>5, <2>6, BecomesSound DEF e
<1>3. ASSUME NEW bag, BagToSet(bag) \subseteq SegmentRecords,
             net' = [net EXCEPT ![s] = bag], UNCHANGED eng, HistoryTyped'
      PROVE  IInv' /\ Moves
  <2>1. WireSound'
    BY <1>3 DEF IInv, WireSound
  <2>2. EnginesSound'
    BY <1>3 DEF IInv, EnginesSound
  <2>3. Moves
    BY <1>3 DEF Moves, MayBecome
  <2> QED BY <1>3, <2>1, <2>2, <2>3 DEF IInv
<1>4. CASE Lose(s)
  <2>1. PICK seg \in BagToSet(net[s]) : net' = [net EXCEPT ![s] = @ (-) SetToBag({seg})]
    BY <1>4 DEF Lose
  <2>2. HistoryTyped' /\ UNCHANGED eng
    BY <1>4, HistoryKept, Keys DEF Lose
  <2> DEFINE bag == net[s] (-) SetToBag({seg})
  <2>3. BagToSet(bag) \subseteq SegmentRecords
    BY <1>1 DEF BagToSet, (-), SetToBag
  <2>4. net' = [net EXCEPT ![s] = bag]
    BY <2>1
  <2> HIDE DEF bag
  <2> QED BY <1>3, <2>2, <2>3, <2>4
<1>5. CASE Duplicate(s)
  <2>1. PICK seg \in BagToSet(net[s]) : net' = [net EXCEPT ![s] = @ (+) SetToBag({seg})]
    BY <1>5 DEF Duplicate
  <2>2. HistoryTyped' /\ UNCHANGED eng
    BY <1>5, HistoryKept, Keys DEF Duplicate
  <2> DEFINE bag == net[s] (+) SetToBag({seg})
  <2>3. BagToSet(bag) \subseteq SegmentRecords
    BY <1>1 DEF BagToSet, (+), SetToBag
  <2>4. net' = [net EXCEPT ![s] = bag]
    BY <2>1
  <2> HIDE DEF bag
  <2> QED BY <1>3, <2>2, <2>3, <2>4
<1> QED BY <1>2, <1>4, <1>5 DEF Wire

\* What a timer does.
LEMMA TimerStep ==
    ASSUME IInv, NEW s \in Sides, Timers(s)
    PROVE  IInv' /\ Moves
<1> DEFINE e == eng[s]
<1>1. Sound(e)
  BY DEF IInv, EnginesSound
<1>2. CASE RtoExpires(s) \/ UserTimeout(s)
  <2>1. PICK gave_up \in BOOLEAN : Enters(s, OnRto(e, gave_up))
    BY <1>2 DEF RtoExpires, UserTimeout
  <2> DEFINE n == OnRto(e, gave_up)
  <2>2. HistoryTyped'
    BY <1>2, ExpiryKept, HistoryKept, Keys DEF RtoExpires, UserTimeout
  <2>3. Sound(n) /\ n.state \in {e.state, "CLOSED"}
    BY <1>1, OnRtoSound
  <2>4. Enters(s, n)
    BY <2>1
  <2> HIDE DEF n, e
  <2> QED BY <2>2, <2>3, <2>4, StayOrClose, EntersSound DEF e
<1>3. CASE PersistExpires(s)
  <2> DEFINE n == OnPersist(e)
  <2>1. Enters(s, n) /\ HistoryTyped'
    BY <1>3, ExpiryKept, Keys DEF PersistExpires
  <2>2. Sound(n) /\ MayBecome(e.state, n.state)
    BY <1>1, OnPersistSound
  <2> HIDE DEF n, e
  <2> QED BY <2>1, <2>2, EntersSound DEF e
<1>4. CASE KeepaliveExpires(s)
  <2> DEFINE n == OnKeepalive(e)
  <2>1. Enters(s, n) /\ HistoryTyped'
    BY <1>4, ExpiryKept, Keys DEF KeepaliveExpires
  <2>2. Sound(n) /\ n.state \in {e.state, "CLOSED"}
    BY <1>1, OnKeepaliveSound
  <2> HIDE DEF n, e
  <2> QED BY <2>1, <2>2, StayOrClose, EntersSound DEF e
<1>5. CASE DelackExpires(s)
  <2> DEFINE n == OnDelack(e)
  <2>1. Enters(s, n) /\ HistoryTyped'
    BY <1>5, HistoryKept DEF DelackExpires
  <2>2. Sound(n) /\ n.state = e.state
    BY <1>1, OnDelackSound
  <2> HIDE DEF n, e
  <2> QED BY <2>1, <2>2, StayOrClose, EntersSound DEF e
<1>6. CASE TimeWaitExpires(s)
  <2> DEFINE n == OnTimeWait(e)
  <2>1. Enters(s, n) /\ HistoryTyped'
    BY <1>6, HistoryKept DEF TimeWaitExpires
  <2>2. Sound(n) /\ n.state = "CLOSED"
    BY <1>1, OnTimeWaitSound
  <2> HIDE DEF n, e
  <2> QED BY <2>1, <2>2, StayOrClose, EntersSound DEF e
<1> QED BY <1>2, <1>3, <1>4, <1>5, <1>6 DEF Timers

\* Every step keeps the invariant, and moves the states along the diagram.
LEMMA StepKeeps ==
    ASSUME IInv, [Next]_vars
    PROVE  IInv' /\ Moves
<1>1. CASE Next
  BY <1>1, UserStep, WireStep, TimerStep DEF Next
<1>2. CASE UNCHANGED vars
  BY <1>2 DEF vars, IInv, EnginesSound, WireSound, HistoryTyped, Moves, MayBecome
<1> QED BY <1>1, <1>2

\* Both sides remember their opens, and whatever a step turns them into does.
OpensKnown == \A s \in Sides : Opened(eng[s])
OpensKept == \A s \in Sides : KnowsItsOpen(eng[s], eng'[s])

\* An engine that is replaced, and the other one.
LEMMA BecomesRemembers ==
    ASSUME IInv, OpensKnown, NEW s \in Sides, NEW e, Sound(e), Remembers(eng[s], e),
           NEW taken, Becomes(s, e, taken)
    PROVE  OpensKnown' /\ OpensKept
<1> DEFINE n == [e EXCEPT !.out = <<>>]
<1>1. eng'[s] = n /\ \A t \in Sides \ {s} : eng'[t] = eng[t]
  BY DEF Becomes, IInv, EnginesSound
<1>2. n.state = e.state /\ n.passive = e.passive
  BY FieldNames DEF Sound, Typed
<1> HIDE DEF n
<1>3. Remembers(eng[s], n)
  BY <1>2, Zenon DEF Remembers, Opened, KnowsItsOpen
<1>4. \A t \in Sides : Remembers(eng[t], eng'[t])
  <2>1. ASSUME NEW t \in Sides \ {s} PROVE Remembers(eng[t], eng'[t])
    <3>1. Sound(eng[t]) /\ Opened(eng[t]) /\ eng'[t] = eng[t]
      BY <1>1 DEF IInv, EnginesSound, OpensKnown
    <3>2. eng'[t].state \in Own(eng[t].state)
      BY <3>1 DEF Own
    <3> QED BY <3>1, <3>2, OwnRemembers
  <2> QED BY <1>1, <1>3, <2>1
<1> QED BY <1>4 DEF OpensKnown, OpensKept, Remembers, Opened

\* What a user does.
LEMMA UserRemembers ==
    ASSUME IInv, OpensKnown, NEW s \in Sides, User(s)
    PROVE  OpensKnown' /\ OpensKept
<1> DEFINE e == eng[s]
<1>1. Sound(e) /\ Typed(e) /\ Opened(e) /\ ISS[s] \in SeqNums
  BY Pairs DEF IInv, EnginesSound, Sound, OpensKnown
<1> SUFFICES \E n : Sound(n) /\ Remembers(e, n) /\ Becomes(s, n, net[s])
  BY BecomesRemembers
<1>2. CASE UserActiveOpen(s)
  <2> DEFINE n == ActiveOpen(e, ISS[s])
  <2>1. Becomes(s, n, net[s]) /\ e.state \in {"CLOSED", "LISTEN"}
    BY <1>2 DEF UserActiveOpen, MayOpen, Enters
  <2>2. Sound(n) /\ n.state = "SYN_SENT" /\ n.passive = FALSE
    BY <1>1, <2>1, ActiveOpenSound
  <2> HIDE DEF n, e
  <2>3. Remembers(e, n)
    BY <2>2 DEF Remembers, Opened, KnowsItsOpen
  <2> QED BY <2>1, <2>2, <2>3
<1>3. CASE UserPassiveOpen(s)
  <2> DEFINE n == PassiveOpen(e)
  <2>1. Becomes(s, n, net[s]) /\ e.state = "CLOSED"
    BY <1>3 DEF UserPassiveOpen, MayOpen, Enters
  <2>2. Sound(n) /\ n.state = "LISTEN" /\ n.passive = TRUE
    BY <1>1, <2>1, PassiveOpenSound
  <2> HIDE DEF n, e
  <2>3. Remembers(e, n)
    BY <2>1, <2>2 DEF Remembers, Opened, KnowsItsOpen
  <2> QED BY <2>1, <2>2, <2>3
<1>4. CASE UserSend(s)
  <2>1. PICK k \in 1 .. SEND_LIMIT[s] - sent[s] :
           Enters(s, Send(e, [i \in 1 .. k |-> sent[s] + i], ISS[s]))
    BY <1>4 DEF UserSend
  <2> DEFINE data == [i \in 1 .. k |-> sent[s] + i]
             n == Send(e, data, ISS[s])
  <2>2. sent[s] \in Nat /\ SEND_LIMIT[s] \in Nat
    BY PairAssumption DEF IInv, HistoryTyped
  <2>3. k \in Nat
    BY <2>2
  <2>4. data \in Seq(Bytes)
    <3>1. \A i \in 1 .. k : sent[s] + i \in Bytes
      BY <2>2, <2>3 DEF Bytes
    <3> QED BY <2>3, <3>1
  <2>5. Becomes(s, n, net[s])
    BY <2>1 DEF Enters
  <2> HIDE DEF data, e
  <2>6. /\ Sound(n)
        /\ \/ e.state = "LISTEN" /\ n.state = "SYN_SENT" /\ n.passive = FALSE
           \/ n.state \in Own(e.state) /\ n.passive = e.passive
    BY <1>1, <2>4, SendSound
  <2> HIDE DEF n
  <2>7. Remembers(e, n)
    <3>1. CASE e.state = "LISTEN" /\ n.state = "SYN_SENT" /\ n.passive = FALSE
      BY <3>1 DEF Remembers, Opened, KnowsItsOpen
    <3> QED BY <1>1, <2>6, <3>1, OwnRemembers
  <2> QED BY <2>5, <2>6, <2>7
<1>5. CASE UserReceive(s)
  <2>1. PICK k \in 1 .. Len(e.recv_buf) : Enters(s, Receive(e, k))
    BY <1>5 DEF UserReceive
  <2> DEFINE n == Receive(e, k)
  <2>2. Sound(n) /\ n.state = e.state /\ n.passive = e.passive
    BY <1>1, ReceiveSound
  <2>3. Becomes(s, n, net[s])
    BY <2>1 DEF Enters
  <2> HIDE DEF n, e
  <2>4. Remembers(e, n)
    BY <1>1, <2>2, OwnRemembers DEF Own
  <2> QED BY <2>2, <2>3, <2>4
<1>6. CASE UserClose(s)
  <2> DEFINE n == Close(e)
  <2>1. Becomes(s, n, net[s]) /\ MayClose(e)
    BY <1>6 DEF UserClose, Enters
  <2>2. /\ Sound(n)
        /\ n.state = "CLOSED" \/ (n.state \in Own(e.state) /\ n.passive = e.passive)
    BY <1>1, <2>1, CloseSound
  <2> HIDE DEF n, e
  <2>3. Remembers(e, n)
    BY <1>1, <2>2, OwnRemembers, PastOpening DEF Opening
  <2> QED BY <2>1, <2>2, <2>3
<1>7. CASE UserAbort(s)
  <2> DEFINE n == Abort(e)
  <2>1. Becomes(s, n, net[s])
    BY <1>7 DEF UserAbort, Enters
  <2>2. Sound(n) /\ n.state = "CLOSED"
    BY <1>1, AbortSound
  <2> HIDE DEF n, e
  <2>3. Remembers(e, n)
    BY <2>2, PastOpening DEF Opening
  <2> QED BY <2>1, <2>2, <2>3
<1> QED BY <1>2, <1>3, <1>4, <1>5, <1>6, <1>7 DEF User

\* What a timer does.
LEMMA TimerRemembers ==
    ASSUME IInv, OpensKnown, NEW s \in Sides, Timers(s)
    PROVE  OpensKnown' /\ OpensKept
<1> DEFINE e == eng[s]
<1>1. Sound(e) /\ Opened(e)
  BY DEF IInv, EnginesSound, OpensKnown
<1> SUFFICES \E n : Sound(n) /\ Remembers(e, n) /\ Becomes(s, n, net[s])
  BY BecomesRemembers
<1>2. CASE RtoExpires(s) \/ UserTimeout(s)
  <2>1. PICK gave_up \in BOOLEAN : Becomes(s, OnRto(e, gave_up), net[s])
    BY <1>2 DEF RtoExpires, UserTimeout, Enters
  <2> DEFINE n == OnRto(e, gave_up)
  <2>2. /\ Sound(n)
        /\ n.state = "CLOSED" \/ (n.state = e.state /\ n.passive = e.passive)
    BY <1>1, OnRtoSound
  <2>3. Becomes(s, n, net[s])
    BY <2>1
  <2> HIDE DEF n, e
  <2>4. Remembers(e, n)
    BY <1>1, <2>2, OwnRemembers, PastOpening DEF Own, Opening
  <2> QED BY <2>2, <2>3, <2>4
<1>3. CASE PersistExpires(s)
  <2> DEFINE n == OnPersist(e)
  <2>1. Becomes(s, n, net[s])
    BY <1>3 DEF PersistExpires, Enters
  <2>2. Sound(n) /\ n.state \in Own(e.state) /\ n.passive = e.passive
    BY <1>1, OnPersistSound
  <2> HIDE DEF n, e
  <2> QED BY <1>1, <2>1, <2>2, OwnRemembers
<1>4. CASE KeepaliveExpires(s)
  <2> DEFINE n == OnKeepalive(e)
  <2>1. Becomes(s, n, net[s])
    BY <1>4 DEF KeepaliveExpires, Enters
  <2>2. /\ Sound(n) /\ n.state \in {e.state, "CLOSED"}
        /\ e.state # "ESTABLISHED" => n.passive = e.passive
    BY <1>1, OnKeepaliveSound
  <2> HIDE DEF n, e
  <2>3. Remembers(e, n)
    <3>1. CASE n.state \in {"ESTABLISHED", "CLOSED"}
      BY <3>1, PastOpening DEF Opening
    <3>2. CASE n.state \notin {"ESTABLISHED", "CLOSED"}
      BY <1>1, <2>2, <3>2, OwnRemembers DEF Own
    <3> QED BY <3>1, <3>2
  <2> QED BY <2>1, <2>2, <2>3
<1>5. CASE DelackExpires(s)
  <2> DEFINE n == OnDelack(e)
  <2>1. Becomes(s, n, net[s])
    BY <1>5 DEF DelackExpires, Enters
  <2>2. Sound(n) /\ n.state = e.state /\ n.passive = e.passive
    BY <1>1, OnDelackSound
  <2> HIDE DEF n, e
  <2>3. Remembers(e, n)
    BY <1>1, <2>2, OwnRemembers DEF Own
  <2> QED BY <2>1, <2>2, <2>3
<1>6. CASE TimeWaitExpires(s)
  <2> DEFINE n == OnTimeWait(e)
  <2>1. Becomes(s, n, net[s])
    BY <1>6 DEF TimeWaitExpires, Enters
  <2>2. Sound(n) /\ n.state = "CLOSED"
    BY <1>1, OnTimeWaitSound
  <2> HIDE DEF n, e
  <2>3. Remembers(e, n)
    BY <2>2, PastOpening DEF Opening
  <2> QED BY <2>1, <2>2, <2>3
<1> QED BY <1>2, <1>3, <1>4, <1>5, <1>6 DEF Timers

\* Neither side forgets how it was opened, whatever the step.
LEMMA StepRemembers ==
    ASSUME IInv, OpensKnown, [Next]_vars
    PROVE  OpensKnown' /\ OpensKept
<1>1. ASSUME UNCHANGED eng PROVE OpensKnown' /\ OpensKept
  <2>1. ASSUME NEW t \in Sides PROVE Remembers(eng[t], eng'[t])
    <3>1. Sound(eng[t]) /\ Opened(eng[t]) /\ eng'[t] = eng[t]
      BY <1>1 DEF IInv, EnginesSound, OpensKnown
    <3>2. eng'[t].state \in Own(eng[t].state)
      BY <3>1 DEF Own
    <3> QED BY <3>1, <3>2, OwnRemembers
  <2> QED BY <2>1 DEF OpensKnown, OpensKept, Remembers, Opened
<1>2. ASSUME NEW s \in Sides, Wire(s) PROVE OpensKnown' /\ OpensKept
  <2>1. CASE Arrive(s)
    <3> DEFINE e == eng[s]
    <3>1. PICK seg \in BagToSet(net[s]) :
             Becomes(s, OnSegment(e, seg, ISS[s]), net[s] (-) SetToBag({seg}))
      BY <2>1 DEF Arrive
    <3> DEFINE n == OnSegment(e, seg, ISS[s])
               taken == net[s] (-) SetToBag({seg})
    <3>2. Sound(e) /\ Opened(e) /\ ISS[s] \in SeqNums /\ seg \in SegmentRecords
      BY Pairs DEF IInv, EnginesSound, WireSound, OpensKnown
    <3>3. Becomes(s, n, taken)
      BY <3>1
    <3> HIDE DEF e, taken
    <3>4. Sound(n) /\ Remembers(e, n)
      BY <3>2, OnSegmentSound, OnSegmentRemembers
    <3> HIDE DEF n
    <3> QED BY <3>3, <3>4, BecomesRemembers DEF e
  <2>2. CASE Lose(s) \/ Duplicate(s)
    BY <1>1, <2>2 DEF Lose, Duplicate
  <2> QED BY <1>2, <2>1, <2>2 DEF Wire
<1>3. CASE Next
  BY <1>2, <1>3, UserRemembers, TimerRemembers DEF Next
<1>4. CASE UNCHANGED vars
  BY <1>1, <1>4 DEF vars
<1> QED BY <1>3, <1>4

\* A new engine is sound.
LEMMA NewEngineSound ==
    ASSUME NEW known \in BOOLEAN
    PROVE  LET n == NewEngine(known) IN Sound(n) /\ n.state = "CLOSED" /\ n.out = <<>>
<1> DEFINE n == NewEngine(known)
<1>1. n = [f \in Fields |-> n[f]]
  BY DEF NewEngine, Fields, EngineTypes
<1>2. 0 \in SeqNums /\ <<>> \in Seq(Bytes \cup {EOF}) /\ "CLOSED" \in States
  BY Halves DEF SeqNums, States
<1>3. /\ 0 \in EngineTypes["iss"] /\ 0 \in EngineTypes["snd_una"] /\ 0 \in EngineTypes["snd_nxt"]
      /\ 0 \in EngineTypes["snd_wl1"] /\ 0 \in EngineTypes["snd_wl2"]
      /\ 0 \in EngineTypes["rcv_nxt"] /\ 0 \in EngineTypes["fin_seq"]
      /\ <<>> \in EngineTypes["stream"] /\ "CLOSED" \in EngineTypes["state"]
  BY <1>2, FieldTypes
<1>4. \A f \in Fields : n[f] \in EngineTypes[f]
  <2>1. Fields = {"state", "iss", "snd_una", "snd_nxt", "snd_wnd", "snd_wl1", "snd_wl2",
                  "rcv_nxt", "app_buf", "recv_buf", "retx", "ooo", "passive", "remote",
                  "cfg_remote", "fin_pending", "fin_sent", "fin_acked", "fin_seq",
                  "pending_fin", "rtt_pending", "zero_win_advertised", "adv_right",
                  "ack_count", "rto_count", "ka_probes", "rt_timer", "persist_timer",
                  "tw_timer", "ack_timer", "ka_timer", "out", "stream"}
    BY DEF Fields, EngineTypes
  <2>2. /\ n.state = "CLOSED" /\ n.iss = 0 /\ n.snd_una = 0 /\ n.snd_nxt = 0 /\ n.snd_wnd = 0
        /\ n.snd_wl1 = 0 /\ n.snd_wl2 = 0 /\ n.rcv_nxt = 0 /\ n.fin_seq = 0
        /\ n.app_buf = <<>> /\ n.recv_buf = <<>> /\ n.retx = <<>> /\ n.ooo = {}
        /\ n.out = <<>> /\ n.stream = <<>>
        /\ n.pending_fin = None /\ n.rtt_pending = None /\ n.adv_right = None
        /\ n.ack_count = 0 /\ n.rto_count = 0 /\ n.ka_probes = 0
    BY DEF NewEngine
  <2> HIDE DEF n
  <2>3. /\ n.state \in EngineTypes["state"] /\ n.iss \in EngineTypes["iss"]
        /\ n.snd_una \in EngineTypes["snd_una"] /\ n.snd_nxt \in EngineTypes["snd_nxt"]
        /\ n.snd_wnd \in EngineTypes["snd_wnd"] /\ n.snd_wl1 \in EngineTypes["snd_wl1"]
        /\ n.snd_wl2 \in EngineTypes["snd_wl2"] /\ n.rcv_nxt \in EngineTypes["rcv_nxt"]
        /\ n.fin_seq \in EngineTypes["fin_seq"] /\ n.app_buf \in EngineTypes["app_buf"]
        /\ n.recv_buf \in EngineTypes["recv_buf"] /\ n.retx \in EngineTypes["retx"]
        /\ n.ooo \in EngineTypes["ooo"] /\ n.out \in EngineTypes["out"]
        /\ n.stream \in EngineTypes["stream"] /\ n.ack_count \in EngineTypes["ack_count"]
        /\ n.rto_count \in EngineTypes["rto_count"] /\ n.ka_probes \in EngineTypes["ka_probes"]
        /\ n.pending_fin \in EngineTypes["pending_fin"] /\ n.rtt_pending \in EngineTypes["rtt_pending"]
        /\ n.adv_right \in EngineTypes["adv_right"]
    BY <1>3, <2>2, Values
  <2>4. /\ n.passive \in EngineTypes["passive"] /\ n.remote \in EngineTypes["remote"]
        /\ n.cfg_remote \in EngineTypes["cfg_remote"] /\ n.fin_pending \in EngineTypes["fin_pending"]
        /\ n.fin_sent \in EngineTypes["fin_sent"] /\ n.fin_acked \in EngineTypes["fin_acked"]
        /\ n.zero_win_advertised \in EngineTypes["zero_win_advertised"] /\ n.rt_timer \in EngineTypes["rt_timer"]
        /\ n.persist_timer \in EngineTypes["persist_timer"] /\ n.tw_timer \in EngineTypes["tw_timer"]
        /\ n.ack_timer \in EngineTypes["ack_timer"] /\ n.ka_timer \in EngineTypes["ka_timer"]
    <3>1. /\ n.passive \in BOOLEAN /\ n.remote \in BOOLEAN /\ n.cfg_remote \in BOOLEAN
          /\ n.fin_pending \in BOOLEAN /\ n.fin_sent \in BOOLEAN /\ n.fin_acked \in BOOLEAN
          /\ n.zero_win_advertised \in BOOLEAN /\ n.rt_timer \in BOOLEAN /\ n.persist_timer \in BOOLEAN
          /\ n.tw_timer \in BOOLEAN /\ n.ack_timer \in BOOLEAN /\ n.ka_timer \in BOOLEAN
      BY DEF n, NewEngine
    <3> QED BY <3>1, FieldTypes, Zenon
  <2> QED BY <2>1, <2>3, <2>4
<1>5. Bare(n) /\ n.state = "CLOSED" /\ n.out = <<>>
  BY DEF NewEngine, Bare
<1> HIDE DEF n
<1>6. Sound(n)
  BY <1>1, <1>4, <1>5, BareConsistent DEF Sound, Typed, Finished
<1> QED BY <1>5, <1>6 DEF n

\* So is one that is dropped into a connection.
LEMMA SeededSound ==
    ASSUME NEW e, Sound(e), e.state = "CLOSED", e.out = <<>>,
           NEW snd_nxt \in SeqNums, NEW rcv_nxt \in SeqNums
    PROVE  LET n == SeedEstablished(e, snd_nxt, rcv_nxt) IN Sound(n) /\ n.out = <<>>
<1> DEFINE iss == sub(snd_nxt, 1)
           n == [e EXCEPT !.state = "ESTABLISHED", !.iss = iss,
                          !.snd_una = snd_nxt, !.snd_nxt = snd_nxt, !.snd_wnd = RCV_WND,
                          !.rcv_nxt = rcv_nxt, !.snd_wl1 = rcv_nxt, !.snd_wl2 = snd_nxt,
                          !.adv_right = None, !.ka_timer = KEEPALIVE, !.ka_probes = 0]
<1>1. SeedEstablished(e, snd_nxt, rcv_nxt) = n
  BY DEF SeedEstablished
<1>2. /\ iss \in EngineTypes["iss"] /\ snd_nxt \in EngineTypes["snd_una"]
      /\ snd_nxt \in EngineTypes["snd_nxt"] /\ RCV_WND \in EngineTypes["snd_wnd"]
      /\ rcv_nxt \in EngineTypes["rcv_nxt"] /\ rcv_nxt \in EngineTypes["snd_wl1"]
      /\ snd_nxt \in EngineTypes["snd_wl2"] /\ "ESTABLISHED" \in EngineTypes["state"]
  <2>1. iss \in SeqNums /\ RCV_WND \in 0 .. RCV_WND /\ "ESTABLISHED" \in States
    BY InSeqNums, Halves DEF States
  <2> QED BY <2>1, FieldTypes
<1>3. KEEPALIVE \in BOOLEAN
  BY EngineAssumption
<1> HIDE DEF iss
<1>4. Typed(n)
  BY <1>2, <1>3, Values, FieldNames, Zenon DEF Typed, Sound
<1>5. /\ n.recv_buf = e.recv_buf /\ n.ooo = e.ooo /\ n.fin_pending = e.fin_pending
      /\ n.fin_sent = e.fin_sent /\ n.fin_acked = e.fin_acked
      /\ n.state = "ESTABLISHED" /\ n.out = <<>>
  BY FieldNames DEF Typed, Sound
<1> HIDE DEF n
<1>6. Bare(e)
  BY DEF Sound, Consistent, Unopened, Finished, Bare
<1>7. Bare(n) /\ n.state \notin Finished
  BY <1>5, <1>6 DEF Bare, Finished
<1> QED BY <1>1, <1>4, <1>5, <1>7, BareConsistent DEF Sound

\* Both ways to start.
LEMMA StartsSound == Init \/ SeededInit => IInv
<1>1. \A known \in BOOLEAN :
         LET n == NewEngine(known) IN Sound(n) /\ n.state = "CLOSED" /\ n.out = <<>>
  BY NewEngineSound
<1>2. BagToSet(EmptyBag) = {}
  BY DEF BagToSet, EmptyBag, SetToBag
<1>3. ASSUME Init \/ SeededInit PROVE WireSound /\ HistoryTyped
  <2>1. /\ net = [s \in Sides |-> EmptyBag] /\ sent = [s \in Sides |-> 0]
        /\ ended = [s \in Sides |-> FALSE] /\ left = BUDGET
    BY <1>3 DEF Init, SeededInit
  <2>2. WireSound
    BY <1>2, <2>1 DEF WireSound
  <2>3. HistoryTyped
    BY <2>1, PairAssumption DEF HistoryTyped
  <2> QED BY <2>2, <2>3
<1>4. ASSUME Init PROVE EnginesSound
  <2>1. \A s \in Sides : PORT_KNOWN[s] \in BOOLEAN
    BY PairAssumption
  <2> QED BY <1>1, <1>4, <2>1 DEF Init, EnginesSound
<1>5. ASSUME SeededInit PROVE EnginesSound
  <2> DEFINE seed(s) == SeedEstablished(NewEngine(TRUE), add(ISS[s], 1), add(ISS[Peer(s)], 1))
  <2>1. ASSUME NEW s \in Sides PROVE Sound(seed(s)) /\ seed(s).out = <<>>
    <3>1. add(ISS[s], 1) \in SeqNums /\ add(ISS[Peer(s)], 1) \in SeqNums
      BY <2>1, Pairs, InSeqNums
    <3> QED BY <1>1, <3>1, SeededSound
  <2>2. eng = [s \in Sides |-> seed(s)]
    BY <1>5 DEF SeededInit
  <2> HIDE DEF seed
  <2> QED BY <2>1, <2>2 DEF EnginesSound
<1> QED BY <1>3, <1>4, <1>5 DEF IInv

\* The invariant says what the type invariant says.
LEMMA SoundIsOk ==
    ASSUME IInv
    PROVE  TypeOK
<1>1. ASSUME NEW s \in Sides PROVE EngineOk(eng[s])
  <2> DEFINE e == eng[s]
  <2>1. Typed(e) /\ e.out = <<>>
    BY DEF IInv, EnginesSound, Sound
  <2> HIDE DEF e
  <2>2. /\ e.state \in States
        /\ {e.iss, e.snd_una, e.snd_nxt, e.snd_wl1, e.snd_wl2, e.rcv_nxt, e.fin_seq}
             \subseteq SeqNums
        /\ {e.pending_fin, e.rtt_pending, e.adv_right} \subseteq SeqNums \cup {None}
        /\ e.snd_wnd \in 0 .. RCV_WND
        /\ e.app_buf \in Seq(Bytes) /\ e.recv_buf \in Seq(Bytes)
        /\ e.ack_count \in 0 .. 1
        /\ e.rto_count \in 0 .. MAX_RETRANSMITS
        /\ e.ka_probes \in 0 .. KEEPALIVE_COUNT
    BY <2>1, Reads DEF Noted
  <2>3. ASSUME NEW i \in 1 .. Len(e.retx)
        PROVE  /\ e.retx[i].seq \in SeqNums
               /\ e.retx[i].flags \subseteq Flags
               /\ SegLen(e.retx[i]) \in 1 .. MSS
    <3> DEFINE o == e.retx[i]
    <3>1. o \in QueueEntries
      BY <2>1, Reads
    <3> HIDE DEF o
    <3>2. o.seq \in SeqNums /\ o.flags \in FlagSets /\ SegLen(o) \in 1 .. TextMax
      BY <3>1, EntryTakes
    <3>3. o.flags \subseteq Flags
      BY <3>2 DEF FlagSets, Flags
    <3>4. SegLen(o) \in 1 .. MSS
      BY <3>2, Halves
    <3> QED BY <3>2, <3>3, <3>4 DEF o
  <2>4. ASSUME NEW o \in e.ooo PROVE o.seq \in SeqNums /\ o.data \in Seq(Bytes) \ {<<>>}
    <3>1. o \in KeptRecords
      BY <2>1, Reads
    <3> QED BY <3>1 DEF KeptRecords
  <2>5. EngineOk(e)
    BY <2>1, <2>2, <2>3, <2>4 DEF EngineOk
  <2> QED BY <2>5 DEF e
<1>2. ASSUME NEW seg \in SegmentRecords PROVE SegmentOk(seg)
  <2>1. /\ DOMAIN seg = {"seq", "ack", "flags", "window", "payload"}
        /\ seg.seq \in SeqNums /\ seg.ack \in SeqNums /\ seg.flags \in FlagSets
        /\ seg.window \in 0 .. RCV_WND /\ seg.payload \in Seq(Bytes)
        /\ MayCarry(seg.flags, seg.payload)
    BY DEF SegmentRecords
  <2>2. seg.flags \subseteq Flags
    BY <2>1 DEF FlagSets, Flags
  <2>3. Len(seg.payload) <= MSS
    BY <2>1, Halves DEF MayCarry
  <2> QED BY <2>1, <2>2, <2>3 DEF SegmentOk
<1> QED BY <1>1, <1>2 DEF TypeOK, IInv, WireSound, HistoryTyped

-------------------------------------------------------------------------------
(* The theorems.  Each is about a pair that opens its connections and      *)
(* about one that is seeded into a connection.                             *)

\* Both engines stay sound, whatever the users and the timers do and whatever
\* the wire loses, repeats or reorders.
THEOREM Invariant == (Spec => []IInv) /\ (SeededSpec => []IInv)
<1>1. Init => IInv
  BY StartsSound
<1>2. SeededInit => IInv
  BY StartsSound
<1>3. IInv /\ [Next]_vars => IInv'
  BY StepKeeps
<1>4. Spec => []IInv
  BY <1>1, <1>3, PTL DEF Spec
<1>5. SeededSpec => []IInv
  BY <1>2, <1>3, PTL DEF SeededSpec
<1> QED BY <1>4, <1>5

\* Every number stays in the sequence space, every queued segment within the
\* MSS, and the counters of _on_rto and _on_keepalive within their limits.
THEOREM Types == (Spec => []TypeOK) /\ (SeededSpec => []TypeOK)
<1>1. IInv => TypeOK
  BY SoundIsOk
<1>2. Spec => []TypeOK
  BY <1>1, Invariant, PTL
<1>3. SeededSpec => []TypeOK
  BY <1>1, Invariant, PTL
<1> QED BY <1>2, <1>3

\* The state moves along the diagram of docs/ARCHITECTURE.md only, two arcs at
\* most in one handler, and an engine in SYN_RECEIVED remembers how it was
\* opened, so that a reset takes only a listener back to LISTEN (_set_state and
\* all its callers, _passive, _do_reset).
THEOREM Diagram == (Spec => LegalTransitions) /\ (SeededSpec => LegalTransitions)
<1> DEFINE Legal == \A s \in Sides : /\ MayBecome(eng[s].state, eng'[s].state)
                                     /\ KnowsItsOpen(eng[s], eng'[s])
<1>1. Init \/ SeededInit => OpensKnown
  <2>1. ASSUME Init, NEW s \in Sides PROVE eng[s].state = "CLOSED"
    BY <2>1 DEF Init, NewEngine
  <2>2. ASSUME SeededInit, NEW s \in Sides PROVE eng[s].state = "ESTABLISHED"
    BY <2>2 DEF SeededInit, SeedEstablished, NewEngine
  <2> QED BY <2>1, <2>2 DEF OpensKnown, Opened
<1>2. IInv /\ OpensKnown /\ [Next]_vars => OpensKnown'
  BY StepRemembers
<1>3. IInv /\ OpensKnown /\ [Next]_vars => [Legal]_vars
  BY StepKeeps, StepRemembers DEF Moves, OpensKept
<1>4. Spec => [][Legal]_vars
  BY <1>1, <1>2, <1>3, Invariant, PTL DEF Spec
<1>5. SeededSpec => [][Legal]_vars
  BY <1>1, <1>2, <1>3, Invariant, PTL DEF SeededSpec
<1> QED BY <1>4, <1>5 DEF LegalTransitions

\* In the states that take data, what was received in order and what is kept
\* for reassembly never exceed the buffer, and nothing kept is stale: the
\* trimming of _recv_data and the pruning of _merge_reassembly hold against
\* every segment a peer may send.
RoomIsKept ==
    \A s \in Sides : LET e == eng[s] IN
        /\ Len(e.recv_buf) <= RCV_WND
        /\ e.state \in Hearing =>
              \A o \in e.ooo :
                 /\ sub(o.seq, e.rcv_nxt) >= 1
                 /\ sub(o.seq, e.rcv_nxt) + Len(o.data) <= RCV_WND - Len(e.recv_buf)

\* Connections opened, reset and opened again included.
THEOREM RoomKept == (Spec => []RoomIsKept) /\ (SeededSpec => []RoomIsKept)
<1>1. IInv => RoomIsKept
  BY DEF IInv, EnginesSound, Sound, Consistent, Ahead, RoomIsKept
<1>2. Spec => []RoomIsKept
  BY <1>1, Invariant, PTL
<1>3. SeededSpec => []RoomIsKept
  BY <1>1, Invariant, PTL
<1> QED BY <1>2, <1>3
===============================================================================
