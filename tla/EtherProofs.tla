------------------------------ MODULE EtherProofs -----------------------------
(***************************************************************************)
(* The framer marks the last byte of a good frame's payload, and every     *)
(* frame comes out of it as Python built it: for every set of frames and   *)
(* of filler, every check sequence and all limits that fit the framer's    *)
(* counters, and wherever the producer pauses.                             *)
(***************************************************************************)
EXTENDS Ether, TLAPS

Beats == [rst : BOOLEAN, valid : BOOLEAN, data : Octets]

PayloadBeats == [valid : BOOLEAN, data : Octets, last : BOOLEAN]

Results ==
    [dst : Shifters(6), src : Shifters(6), type : Shifters(2), vlan : BOOLEAN,
     tci : Shifters(2), bytes : Nat, fcs_ok : BOOLEAN, runt : BOOLEAN, oversize : BOOLEAN]

Holdbacks == {q \in Seq(Octets) : Len(q) <= 4}

\* The registers, each with what it can hold.
Framers ==
    [state : {"HUNT", "DST", "SRC", "TYPE", "VLAN", "PAYLOAD"}, pre_cnt : Nat,
     hdr_cnt : Nat, pl_cnt : Nat, crc : Seq(Octets), dly : Holdbacks,
     len_mode : BOOLEAN, len_field : Nat, vlan_seen : BOOLEAN, dst_sr : Shifters(6),
     src_sr : Shifters(6), type_sr : Shifters(2), tci_sr : Shifters(2),
     o_pl : PayloadBeats, o_valid : BOOLEAN, result : Results]

\* Ends where the length field says, if it says so.
Marked(d, beats) ==
    \A k \in 1 .. Len(beats) : beats[k].last <=> d.len_mode /\ k = d.len_field

EtherTyped ==
    /\ dut \in Framers /\ bus \in Beats /\ todo \in Seq(Beats) /\ pl \in Seq(PayloadBeats)
    /\ DOMAIN test = {"expected", "sent", "intact", "checked", "matches"} /\ test.sent \in Nat

\* What the monitor has heard of a frame is what the framer has let out of it.
InStep(d, heard) ==
    /\ d.state \in {"DST", "SRC", "TYPE", "VLAN"} =>
          ~d.o_valid /\ d.dly = <<>> /\ d.pl_cnt = 0 /\ heard = <<>>
    /\ d.state = "PAYLOAD" =>
          /\ ~d.o_valid /\ Len(heard) = d.pl_cnt /\ Marked(d, heard)
          /\ Len(d.dly) < 4 => d.pl_cnt = 0
          /\ d.len_mode => d.pl_cnt <= d.len_field
    /\ d.state = "HUNT" /\ ~d.o_valid => heard = <<>>

\* The reset comes before the first byte.
ResetFirst ==
    /\ \A j, k \in 1 .. Len(todo) : j < k /\ todo[k].rst => ~todo[j].valid
    /\ \A k \in 1 .. Len(todo) : todo[k].rst => ~bus.valid /\ Heard = <<>>
    /\ bus.rst => Heard = <<>>
    /\ test.sent = 0 => todo = <<>> /\ ~bus.valid /\ Heard = <<>>

EtherInv == EtherTyped /\ InStep(dut, Heard) /\ ResetFirst /\ LastMarksTheEnd

-------------------------------------------------------------------------------
(* What a byte does to the registers.                                      *)

\* The registers have their types.
LEMMA Registers ==
    ASSUME NEW d \in Framers
    PROVE  /\ d.state \in {"HUNT", "DST", "SRC", "TYPE", "VLAN", "PAYLOAD"}
           /\ d.pre_cnt \in Nat /\ d.hdr_cnt \in Nat /\ d.pl_cnt \in Nat
           /\ d.crc \in Seq(Octets) /\ d.dly \in Holdbacks
           /\ d.len_mode \in BOOLEAN /\ d.len_field \in Nat /\ d.vlan_seen \in BOOLEAN
           /\ d.dst_sr \in Shifters(6) /\ d.src_sr \in Shifters(6)
           /\ d.type_sr \in Shifters(2) /\ d.tci_sr \in Shifters(2) /\ d.result \in Results
           /\ d.o_pl \in PayloadBeats /\ d.o_valid \in BOOLEAN
  BY DEF Framers

\* The pulses fall, and nothing else changes.
LEMMA QuietIs ==
    ASSUME NEW d \in Framers
    PROVE  LET q == Quiet(d) IN
           /\ q \in Framers /\ q.o_pl = NoBeat /\ q.o_valid = FALSE /\ q.state = d.state
           /\ q.dly = d.dly /\ q.pl_cnt = d.pl_cnt
           /\ q.len_mode = d.len_mode /\ q.len_field = d.len_field
<1>1. NoBeat \in PayloadBeats
  BY DEF NoBeat, PayloadBeats, Octets
<1> HIDE DEF NoBeat
<1> QED BY <1>1 DEF Quiet, Framers

\* Between frames; a frame begins with nothing held and nothing counted.
LEMMA HuntIs ==
    ASSUME NEW d \in Framers, NEW byte \in Octets, d.state = "HUNT"
    PROVE  LET h == Hunt(d, byte) IN
           /\ h \in Framers /\ h.o_pl = d.o_pl /\ h.o_valid = d.o_valid
           /\ h.state = "HUNT" \/ (h.state = "DST" /\ h.dly = <<>> /\ h.pl_cnt = 0)
<1> DEFINE h == Hunt(d, byte)
           nil == <<>>
           mid == [d EXCEPT !.state = "DST", !.hdr_cnt = 0, !.pl_cnt = 0, !.dly = nil]
           free == [mid EXCEPT !.crc = nil, !.vlan_seen = FALSE]
           at == [free EXCEPT !.len_mode = FALSE, !.pre_cnt = 0]
           count == IF d.pre_cnt = 7 THEN d.pre_cnt ELSE d.pre_cnt + 1
           more == [d EXCEPT !.pre_cnt = count]
           none == [d EXCEPT !.pre_cnt = 0]
<1>1. h \in {at, more, none}
  <2>1. at = [d EXCEPT !.state = "DST", !.hdr_cnt = 0, !.pl_cnt = 0, !.dly = <<>>,
                       !.crc = <<>>, !.vlan_seen = FALSE, !.len_mode = FALSE, !.pre_cnt = 0]
    BY DEF Framers
  <2> HIDE DEF at
  <2> QED BY <2>1 DEF Hunt
<1>2. at \in Framers /\ at.o_pl = d.o_pl /\ at.o_valid = d.o_valid
      /\ at.state = "DST" /\ at.dly = <<>> /\ at.pl_cnt = 0
  <2>1. nil \in Holdbacks /\ nil \in Seq(Octets)
    BY DEF Holdbacks
  <2> HIDE DEF nil
  <2>2. mid \in Framers /\ mid.o_pl = d.o_pl /\ mid.o_valid = d.o_valid
        /\ mid.state = "DST" /\ mid.dly = nil /\ mid.pl_cnt = 0
    BY <2>1 DEF Framers
  <2> HIDE DEF mid
  <2>3. ASSUME NEW m \in Framers
        PROVE  LET f == [m EXCEPT !.crc = nil, !.vlan_seen = FALSE] IN
               /\ f \in Framers /\ f.o_pl = m.o_pl /\ f.o_valid = m.o_valid
               /\ f.state = m.state /\ f.dly = m.dly /\ f.pl_cnt = m.pl_cnt
    BY <2>1 DEF Framers
  <2>4. ASSUME NEW m \in Framers
        PROVE  LET f == [m EXCEPT !.len_mode = FALSE, !.pre_cnt = 0] IN
               /\ f \in Framers /\ f.o_pl = m.o_pl /\ f.o_valid = m.o_valid
               /\ f.state = m.state /\ f.dly = m.dly /\ f.pl_cnt = m.pl_cnt
    BY DEF Framers
  <2>5. free \in Framers /\ free.o_pl = mid.o_pl /\ free.o_valid = mid.o_valid
        /\ free.state = mid.state /\ free.dly = mid.dly /\ free.pl_cnt = mid.pl_cnt
    BY <2>2, <2>3
  <2> HIDE DEF free
  <2>6. at \in Framers /\ at.o_pl = free.o_pl /\ at.o_valid = free.o_valid
        /\ at.state = free.state /\ at.dly = free.dly /\ at.pl_cnt = free.pl_cnt
    BY <2>4, <2>5
  <2> HIDE DEF at
  <2> QED BY <2>2, <2>5, <2>6 DEF nil
<1>3. more \in Framers /\ more.o_pl = d.o_pl /\ more.o_valid = d.o_valid /\ more.state = "HUNT"
  <2>1. count \in Nat
    BY Registers
  <2> HIDE DEF count
  <2> QED BY <2>1 DEF Framers
<1>4. none \in Framers /\ none.o_pl = d.o_pl /\ none.o_valid = d.o_valid /\ none.state = "HUNT"
  BY DEF Framers
<1> HIDE DEF h, at, more, none
<1> QED BY <1>1, <1>2, <1>3, <1>4 DEF h

\* What is shifted in.
LEMMA ShiftedIs ==
    ASSUME NEW sr \in Seq(Octets), sr # <<>>, NEW byte \in Octets
    PROVE  Shifted(sr, byte) \in Seq(Octets) /\ Len(Shifted(sr, byte)) = Len(sr)
<1>1. Tail(sr) \in Seq(Octets) /\ Len(Tail(sr)) = Len(sr) - 1
  OBVIOUS
<1>2. Append(Tail(sr), byte) \in Seq(Octets) /\ Len(Append(Tail(sr), byte)) = Len(Tail(sr)) + 1
  BY <1>1
<1> QED BY <1>1, <1>2 DEF Shifted

\* What counts through a field leaves the payload alone.
Untouched(d, n) ==
    /\ n.o_pl = d.o_pl /\ n.o_valid = d.o_valid /\ n.dly = d.dly /\ n.pl_cnt = d.pl_cnt

HeaderStates == {"DST", "SRC", "TYPE", "VLAN"}

\* A field of n bytes.
LEMMA CountedIs ==
    ASSUME NEW d \in Framers, NEW n, NEW state \in HeaderStates \cup {"PAYLOAD"}
    PROVE  LET c == Counted(d, n, state) IN
           c \in Framers /\ Untouched(d, c) /\ c.state \in {d.state, state}
<1> DEFINE last == [d EXCEPT !.hdr_cnt = 0, !.state = state]
           count == d.hdr_cnt + 1
           more == [d EXCEPT !.hdr_cnt = count]
           c == Counted(d, n, state)
<1>1. c \in {last, more}
  BY DEF Counted
<1>2. last \in Framers /\ Untouched(d, last) /\ last.state = state
  BY DEF Framers, HeaderStates, Untouched
<1>3. more \in Framers /\ Untouched(d, more) /\ more.state = d.state
  <2>1. count \in Nat
    BY Registers
  <2> HIDE DEF count
  <2> QED BY <2>1 DEF Framers, Untouched
<1> HIDE DEF last, more, c
<1> QED BY <1>1, <1>2, <1>3 DEF c

\* A register takes a byte in.
LEMMA ShifterIs ==
    ASSUME NEW n \in Nat \ {0}, NEW sr \in Shifters(n), NEW byte \in Octets
    PROVE  Shifted(sr, byte) \in Shifters(n)
  BY ShiftedIs DEF Shifters

\* The bytes of a register of two.
LEMMA PairIs ==
    ASSUME NEW pair \in Shifters(2)
    PROVE  pair[1] \in Octets /\ pair[2] \in Octets
<1>1. pair \in Seq(Octets) /\ Len(pair) = 2
  BY DEF Shifters
<1> QED BY <1>1

\* The type field, a tag or a length.
LEMMA TypeByteIs ==
    ASSUME NEW d \in Framers, d.state = "TYPE", NEW byte \in Octets
    PROVE  LET t == TypeByte(d, byte) IN
           t \in Framers /\ Untouched(d, t) /\ t.state \in HeaderStates \cup {"PAYLOAD"}
<1> DEFINE next == Shifted(d.type_sr, byte)
           e == [d EXCEPT !.type_sr = next]
           number == Number(next)
           short == number <= MAX_LEN_FIELD
           tag == Counted(e, 2, "VLAN")
           body == Counted(e, 2, "PAYLOAD")
           tagged == [tag EXCEPT !.vlan_seen = TRUE]
           typed == [body EXCEPT !.len_mode = short, !.len_field = number]
           more == Counted(e, 2, "TYPE")
           t == TypeByte(d, byte)
<1>1. t \in {tagged, typed, more}
  BY DEF TypeByte
<1>2. next \in Shifters(2)
  BY Registers, ShifterIs
<1>3. number \in Nat
  <2> HIDE DEF next
  <2>1. next[1] \in Octets /\ next[2] \in Octets
    BY <1>2, PairIs
  <2>2. next[1] \in Nat /\ next[2] \in Nat
    BY <2>1 DEF Octets
  <2> QED BY <2>2 DEF Number
<1>4. short \in BOOLEAN
  OBVIOUS
<1> HIDE DEF next, number, short
<1>5. e \in Framers /\ Untouched(d, e) /\ e.state = "TYPE"
  BY <1>2 DEF Framers, Untouched
<1> HIDE DEF e
<1>6. tag \in Framers /\ Untouched(e, tag) /\ tag.state \in {"TYPE", "VLAN"}
  BY <1>5, CountedIs DEF HeaderStates
<1>7. body \in Framers /\ Untouched(e, body) /\ body.state \in {"TYPE", "PAYLOAD"}
  BY <1>5, CountedIs DEF HeaderStates
<1>8. more \in Framers /\ Untouched(e, more) /\ more.state = "TYPE"
  BY <1>5, CountedIs DEF HeaderStates
<1> HIDE DEF tag, body
<1>9. tagged \in Framers /\ Untouched(e, tagged) /\ tagged.state \in {"TYPE", "VLAN"}
  BY <1>6 DEF Framers, Untouched
<1>10. typed \in Framers /\ Untouched(e, typed) /\ typed.state \in {"TYPE", "PAYLOAD"}
  BY <1>3, <1>4, <1>7 DEF Framers, Untouched
<1> HIDE DEF tagged, typed, more, t
<1>11. Untouched(d, t) /\ t \in Framers /\ t.state \in {"TYPE", "VLAN", "PAYLOAD"}
  BY <1>1, <1>5, <1>8, <1>9, <1>10 DEF Untouched
<1> QED BY <1>11 DEF t, HeaderStates

\* The header.
LEMMA HeaderIs ==
    ASSUME NEW d \in Framers, d.state \in HeaderStates, NEW byte \in Octets
    PROVE  LET h == InFrame(d, byte) IN
           h \in Framers /\ Untouched(d, h) /\ h.state \in HeaderStates \cup {"PAYLOAD"}
<1>1. ASSUME NEW e \in Framers, Untouched(d, e), e.state = d.state, NEW n,
             NEW state \in HeaderStates, InFrame(d, byte) = Counted(e, n, state)
      PROVE  LET h == InFrame(d, byte) IN
             h \in Framers /\ Untouched(d, h) /\ h.state \in HeaderStates \cup {"PAYLOAD"}
  <2> DEFINE c == Counted(e, n, state)
  <2>1. c \in Framers /\ Untouched(e, c) /\ c.state \in {e.state, state}
    BY <1>1, CountedIs
  <2> HIDE DEF c
  <2>2. Untouched(d, c)
    BY <1>1, <2>1 DEF Untouched
  <2> QED BY <1>1, <2>1, <2>2 DEF c
<1>2. CASE d.state = "DST"
  <2> DEFINE sr == Shifted(d.dst_sr, byte)
             e == [d EXCEPT !.dst_sr = sr]
  <2>1. sr \in Shifters(6)
    BY Registers, ShifterIs
  <2>2. InFrame(d, byte) = Counted(e, 6, "SRC")
    BY <1>2, Zenon DEF InFrame
  <2> HIDE DEF sr
  <2>3. e \in Framers /\ Untouched(d, e) /\ e.state = d.state
    BY <2>1 DEF Framers, Untouched
  <2> HIDE DEF e
  <2> QED BY <1>1, <2>2, <2>3 DEF HeaderStates
<1>3. CASE d.state = "SRC"
  <2> DEFINE sr == Shifted(d.src_sr, byte)
             e == [d EXCEPT !.src_sr = sr]
  <2>1. sr \in Shifters(6)
    BY Registers, ShifterIs
  <2>2. InFrame(d, byte) = Counted(e, 6, "TYPE")
    BY <1>3 DEF InFrame
  <2> HIDE DEF sr
  <2>3. e \in Framers /\ Untouched(d, e) /\ e.state = d.state
    BY <2>1 DEF Framers, Untouched
  <2> HIDE DEF e
  <2> QED BY <1>1, <2>2, <2>3 DEF HeaderStates
<1>4. CASE d.state = "TYPE"
  <2>1. InFrame(d, byte) = TypeByte(d, byte)
    BY <1>4 DEF InFrame
  <2> QED BY <1>4, <2>1, TypeByteIs
<1>5. CASE d.state = "VLAN"
  <2> DEFINE sr == Shifted(d.tci_sr, byte)
             e == [d EXCEPT !.tci_sr = sr]
  <2>1. sr \in Shifters(2)
    BY Registers, ShifterIs
  <2>2. InFrame(d, byte) = Counted(e, 2, "TYPE")
    BY <1>5 DEF InFrame
  <2> HIDE DEF sr
  <2>3. e \in Framers /\ Untouched(d, e) /\ e.state = d.state
    BY <2>1 DEF Framers, Untouched
  <2> HIDE DEF e
  <2> QED BY <1>1, <2>2, <2>3 DEF HeaderStates
<1> QED BY <1>2, <1>3, <1>4, <1>5 DEF HeaderStates

\* A byte of the payload.
PayloadEffect(d, n) ==
    LET hit == CrcHit(d.crc)
        count == d.pl_cnt + (IF Emits(d) THEN 1 ELSE 0)
    IN
    /\ n.pl_cnt = count /\ n.len_mode = d.len_mode /\ n.len_field = d.len_field
    /\ Len(n.dly) < 4 => Len(d.dly) < 3
    /\ Emits(d) => n.o_pl.valid /\ n.o_pl.last = IsLast(d, hit, count)
    /\ ~Emits(d) => ~n.o_pl.valid
    /\ \/ n.state = "PAYLOAD" /\ ~hit /\ n.o_valid = d.o_valid
       \/ n.state = "HUNT" /\ n.o_valid /\ n.result.fcs_ok = hit

\* What fits.
LEMMA FitsIs ==
    ASSUME NEW h \in Seq(Octets), NEW size \in 0 .. 4, Len(h) = size
    PROVE  h \in Holdbacks
<1>1. Len(h) <= 4
  OBVIOUS
<1> QED BY <1>1 DEF Holdbacks

\* What is held back.
LEMMA HeldIs ==
    ASSUME NEW h \in Holdbacks, NEW byte \in Octets
    PROVE  Held(h, byte) \in Holdbacks /\ (Len(Held(h, byte)) < 4 => Len(h) < 3)
<1> DEFINE size == Len(h)
           held == Held(h, byte)
<1>1. h \in Seq(Octets) /\ size <= 4 /\ size \in Nat
  BY DEF Holdbacks
<1>2. CASE size = 4
  <2>1. h # <<>>
    BY <1>1, <1>2
  <2>2. Shifted(h, byte) \in Seq(Octets) /\ Len(Shifted(h, byte)) = 4
    BY <1>1, <1>2, <2>1, ShiftedIs
  <2>3. held = Shifted(h, byte)
    BY <1>2 DEF Held
  <2> HIDE DEF held
  <2>4. held \in Seq(Octets) /\ Len(held) = 4
    BY <2>2, <2>3
  <2>5. held \in Holdbacks
    BY <2>4, FitsIs
  <2> QED BY <2>4, <2>5 DEF held
<1>3. CASE size # 4
  <2>1. Append(h, byte) \in Seq(Octets) /\ Len(Append(h, byte)) = size + 1
    BY <1>1
  <2>2. held = Append(h, byte)
    BY <1>3 DEF Held
  <2> HIDE DEF held, size
  <2>3. held \in Seq(Octets) /\ Len(held) = size + 1 /\ size + 1 \in 0 .. 4
    BY <1>1, <1>3, <2>1, <2>2
  <2>4. held \in Holdbacks
    BY <2>3, FitsIs
  <2>5. Len(held) < 4 => size < 3
    BY <1>1, <2>3
  <2> QED BY <2>4, <2>5 DEF held, size
<1> QED BY <1>2, <1>3

\* It is held back, and another may leave.
LEMMA PayloadIs ==
    ASSUME NEW d \in Framers, d.state = "PAYLOAD", NEW byte \in Octets
    PROVE  PayloadByte(d, byte) \in Framers /\ PayloadEffect(d, PayloadByte(d, byte))
<1> DEFINE hit == CrcHit(d.crc)
           count == d.pl_cnt + (IF Emits(d) THEN 1 ELSE 0)
           out == IF Emits(d) THEN [valid |-> TRUE, data |-> d.dly[1], last |-> IsLast(d, hit, count)]
                  ELSE NoBeat
           held == Held(d.dly, byte)
           e == [d EXCEPT !.dly = held, !.pl_cnt = count, !.o_pl = out]
           n == PayloadByte(d, byte)
<1>1. hit \in BOOLEAN /\ Emits(d) \in BOOLEAN /\ IsLast(d, hit, count) \in BOOLEAN
  BY DEF CrcHit, Emits, IsLast
<1>2. count \in Nat
  BY Registers
<1>3. held \in Holdbacks /\ (Len(held) < 4 => Len(d.dly) < 3)
  BY Registers, HeldIs
<1>4. out \in PayloadBeats /\ (Emits(d) => out.valid /\ out.last = IsLast(d, hit, count))
      /\ (~Emits(d) => ~out.valid)
  <2>1. CASE Emits(d)
    <3>1. d.dly[1] \in Octets
      BY <2>1, Registers DEF Emits, Holdbacks
    <3> QED BY <1>1, <2>1, <3>1 DEF PayloadBeats
  <2>2. CASE ~Emits(d)
    BY <2>2 DEF PayloadBeats, NoBeat, Octets
  <2> QED BY <2>1, <2>2
<1>5. n = IF hit \/ Len(d.crc) > MAX_FRAME_BYTES THEN Retired(e, hit, count) ELSE e
  BY Zenon DEF PayloadByte
<1> HIDE DEF held, out, count, hit
<1>6. e \in Framers /\ e.pl_cnt = count /\ e.len_mode = d.len_mode /\ e.len_field = d.len_field
      /\ e.dly = held /\ e.o_pl = out /\ e.state = "PAYLOAD" /\ e.o_valid = d.o_valid
  BY <1>2, <1>3, <1>4 DEF Framers
<1> HIDE DEF e, n
<1>7. CASE hit \/ Len(d.crc) > MAX_FRAME_BYTES
  <2> DEFINE runt == hit /\ Len(e.crc) < MIN_FRAME_BYTES
             res == [dst |-> e.dst_sr, src |-> e.src_sr, type |-> e.type_sr,
                     vlan |-> e.vlan_seen, tci |-> e.tci_sr, bytes |-> count,
                     fcs_ok |-> hit, oversize |-> ~hit, runt |-> runt]
             r == [e EXCEPT !.o_valid = TRUE, !.state = "HUNT", !.pre_cnt = 0, !.result = res]
  <2>1. n = r
    BY <1>5, <1>7, Zenon DEF Retired
  <2>2. runt \in BOOLEAN
    BY <1>1
  <2> HIDE DEF runt
  <2>3. res \in Results /\ res.fcs_ok = hit
    BY <1>1, <1>2, <1>6, <2>2, Registers DEF Results, hit
  <2> HIDE DEF res
  <2>4. r \in Framers /\ r.o_valid = TRUE /\ r.state = "HUNT" /\ r.result = res
        /\ r.pl_cnt = e.pl_cnt /\ r.len_mode = e.len_mode /\ r.len_field = e.len_field
        /\ r.dly = e.dly /\ r.o_pl = e.o_pl
    BY <1>6, <2>3 DEF Framers
  <2> HIDE DEF r
  <2>5. PayloadEffect(d, r)
    BY <1>3, <1>4, <1>6, <2>3, <2>4 DEF PayloadEffect, hit, count
  <2> QED BY <2>1, <2>4, <2>5 DEF n
<1>8. CASE ~(hit \/ Len(d.crc) > MAX_FRAME_BYTES)
  <2>1. n = e
    BY <1>5, <1>8
  <2>2. PayloadEffect(d, e)
    BY <1>3, <1>4, <1>6, <1>8 DEF PayloadEffect, hit, count
  <2> QED BY <1>6, <2>1, <2>2 DEF n
<1> QED BY <1>7, <1>8

-------------------------------------------------------------------------------
(* What an edge does to the framer and to what the monitor has heard.      *)

Before(d, heard) == IF d.o_valid THEN <<>> ELSE heard

With(d, beats) == IF d.o_pl.valid THEN Append(beats, d.o_pl) ELSE beats

EndMarked(d, heard) ==
    d.o_valid /\ d.result.fcs_ok =>
        \A k \in 1 .. Len(heard) : heard[k].last <=> k = Len(heard)

\* What is held has a length.
LEMMA HoldsIs ==
    ASSUME NEW h \in Holdbacks
    PROVE  Len(h) \in 0 .. 4
<1> DEFINE size == Len(h)
<1>1. h \in Seq(Octets) /\ size <= 4 /\ size \in Nat
  BY DEF Holdbacks
<1> HIDE DEF size
<1>2. size \in 0 .. 4
  BY <1>1
<1> QED BY <1>2 DEF size

\* A beat at the end of the others.
LEMMA AppendIs ==
    ASSUME NEW beats \in Seq(PayloadBeats), NEW beat \in PayloadBeats
    PROVE  LET more == Append(beats, beat) IN
           /\ more \in Seq(PayloadBeats) /\ Len(more) = Len(beats) + 1
           /\ \A k \in 1 .. Len(beats) : more[k] = beats[k]
           /\ more[Len(beats) + 1] = beat
  OBVIOUS

\* A byte of the payload leaves the monitor in step; and when it ends the
\* frame, the last byte of the payload is the one marked.
LEMMA PayloadStep ==
    ASSUME NEW d \in Framers, NEW heard \in Seq(PayloadBeats), NEW n \in Framers,
           d.state = "PAYLOAD", InStep(d, heard), PayloadEffect(d, n)
    PROVE  InStep(n, With(n, heard)) /\ EndMarked(n, With(n, heard))
<1> DEFINE after == With(n, heard)
           hit == CrcHit(d.crc)
           size == Len(heard)
<1>1. /\ ~d.o_valid /\ size = d.pl_cnt /\ Marked(d, heard)
      /\ Len(d.dly) < 4 => d.pl_cnt = 0
      /\ d.len_mode => d.pl_cnt <= d.len_field
  BY DEF InStep
<1>2. /\ d.pl_cnt \in Nat /\ d.len_field \in Nat /\ d.len_mode \in BOOLEAN
      /\ n.o_pl \in PayloadBeats /\ n.o_valid \in BOOLEAN
  BY Registers
<1>3. Len(d.dly) \in 0 .. 4 /\ Len(n.dly) \in 0 .. 4
  <2>1. d.dly \in Holdbacks /\ n.dly \in Holdbacks
    BY Registers
  <2> QED BY <2>1, HoldsIs
<1>4. CASE Emits(d)
  <2>1. n.o_pl.valid /\ after = Append(heard, n.o_pl)
    BY <1>4 DEF PayloadEffect, With
  <2>2. /\ Len(after) = size + 1 /\ after[size + 1] = n.o_pl
        /\ \A k \in 1 .. size : after[k] = heard[k]
    BY <1>2, <2>1, AppendIs
  <2>3. /\ n.pl_cnt = size + 1 /\ n.len_mode = d.len_mode /\ n.len_field = d.len_field
        /\ n.o_pl.last = IsLast(d, hit, size + 1)
    BY <1>1, <1>4 DEF PayloadEffect
  <2>4. Len(d.dly) = 4 /\ (d.len_mode => size < d.len_field)
    BY <1>1, <1>2, <1>4 DEF Emits
  <2>5. n.o_pl.last <=> hit \/ (d.len_mode /\ size + 1 = d.len_field)
    BY <2>3 DEF IsLast
  <2>6. \A k \in 1 .. size : after[k].last <=> d.len_mode /\ k = d.len_field
    BY <1>1, <2>2 DEF Marked
  <2> HIDE DEF after, hit, size
  <2>7. size \in Nat
    BY DEF size
  <2>8. CASE n.state = "PAYLOAD" /\ ~hit /\ n.o_valid = d.o_valid
    <3>1. Marked(n, after)
      <4> SUFFICES ASSUME NEW k \in 1 .. Len(after)
                   PROVE  after[k].last <=> n.len_mode /\ k = n.len_field
        BY DEF Marked
      <4>1. CASE k = size + 1
        BY <2>2, <2>3, <2>5, <2>8, <4>1
      <4>2. CASE k # size + 1
        <5>1. k \in 1 .. size
          BY <2>2, <2>7, <4>2
        <5> QED BY <2>3, <2>6, <5>1
      <4> QED BY <4>1, <4>2
    <3>2. n.len_mode => n.pl_cnt <= n.len_field
      BY <1>2, <2>3, <2>4, <2>7
    <3>3. ~(Len(n.dly) < 4)
      BY <1>3, <2>4 DEF PayloadEffect
    <3> QED BY <1>1, <2>2, <2>3, <2>8, <3>1, <3>2, <3>3 DEF InStep, EndMarked, after
  <2>9. CASE n.state = "HUNT" /\ n.o_valid /\ n.result.fcs_ok = hit
    <3>1. ASSUME hit, NEW k \in 1 .. Len(after)
          PROVE  after[k].last <=> k = Len(after)
      <4>1. CASE k = size + 1
        BY <2>2, <2>5, <3>1, <4>1
      <4>2. CASE k # size + 1
        <5>1. k \in 1 .. size
          BY <2>2, <2>7, <4>2
        <5>2. ~(d.len_mode /\ k = d.len_field)
          BY <1>2, <2>4, <2>7, <5>1
        <5> QED BY <2>2, <2>6, <4>2, <5>1, <5>2
      <4> QED BY <4>1, <4>2
    <3>2. EndMarked(n, after)
      BY <2>9, <3>1 DEF EndMarked
    <3> QED BY <2>9, <3>2 DEF InStep, after
  <2> QED BY <2>8, <2>9 DEF PayloadEffect, hit
<1>5. CASE ~Emits(d)
  <2>1. after = heard
    BY <1>5 DEF PayloadEffect, With
  <2>2. n.pl_cnt = size /\ n.len_mode = d.len_mode /\ n.len_field = d.len_field
    BY <1>1, <1>2, <1>5 DEF PayloadEffect
  <2>3. Len(d.dly) # 4 \/ (d.len_mode /\ size = d.len_field)
    BY <1>1, <1>2, <1>5 DEF Emits
  <2>4. CASE n.state = "PAYLOAD" /\ ~hit /\ n.o_valid = d.o_valid
    <3>1. Len(n.dly) < 4 => n.pl_cnt = 0
      BY <1>1, <1>3, <2>2 DEF PayloadEffect
    <3>2. Marked(n, heard)
      BY <1>1, <2>2 DEF Marked
    <3> QED BY <1>1, <2>1, <2>2, <2>4, <3>1, <3>2 DEF InStep, EndMarked
  <2>5. CASE n.state = "HUNT" /\ n.o_valid /\ n.result.fcs_ok = hit
    <3>1. ASSUME NEW k \in 1 .. size
          PROVE  heard[k].last <=> k = size
      <4>1. size # 0
        BY <3>1
      <4>2. d.len_mode /\ size = d.len_field
        <5>1. CASE Len(d.dly) # 4
          <6> DEFINE held == Len(d.dly)
          <6>1. held \in 0 .. 4 /\ held # 4 /\ (held < 4 => size = 0)
            BY <1>1, <1>3, <5>1
          <6> HIDE DEF held, size
          <6> QED BY <4>1, <6>1
        <5> QED BY <2>3, <5>1
      <4> QED BY <1>1, <4>2 DEF Marked
    <3>2. EndMarked(n, heard)
      BY <3>1 DEF EndMarked
    <3> QED BY <2>1, <2>5, <3>2 DEF InStep
  <2> QED BY <2>4, <2>5 DEF PayloadEffect
<1> QED BY <1>4, <1>5
\* After the reset nothing is in flight.
LEMMA ResetIs ==
    /\ ResetState \in Framers /\ ResetState.state = "HUNT"
    /\ ~ResetState.o_valid /\ ~ResetState.o_pl.valid /\ ResetState.dly = <<>>
    /\ ResetState.pl_cnt = 0 /\ ResetState.len_field = 0
<1>1. Zeros(6) \in Shifters(6) /\ Zeros(2) \in Shifters(2)
  BY DEF Zeros, Shifters, Octets
<1>2. NoBeat \in PayloadBeats /\ ~NoBeat.valid
  BY DEF NoBeat, PayloadBeats, Octets
<1> HIDE DEF Zeros, NoBeat
<1>3. NoResult \in Results
  BY <1>1 DEF NoResult, Results
<1>4. <<>> \in Holdbacks /\ <<>> \in Seq(Octets)
  BY DEF Holdbacks
<1> QED BY <1>1, <1>2, <1>3, <1>4 DEF ResetState, Framers

\* What a byte in a frame does, its check sequence one byte longer.
LEMMA InFrameIs ==
    ASSUME NEW d \in Framers, d.state # "HUNT", NEW byte \in Octets,
           NEW heard \in Seq(PayloadBeats), InStep(d, heard)
    PROVE  LET q == [Quiet(d) EXCEPT !.crc = Append(@, byte)]
               n == InFrame(q, byte)
           IN  n \in Framers /\ InStep(n, With(n, heard)) /\ EndMarked(n, With(n, heard))
<1> DEFINE calm == Quiet(d)
           crc == Append(calm.crc, byte)
           q == [calm EXCEPT !.crc = crc]
           n == InFrame(q, byte)
<1>1. /\ calm \in Framers /\ calm.o_pl = NoBeat /\ calm.o_valid = FALSE /\ calm.state = d.state
      /\ calm.dly = d.dly /\ calm.pl_cnt = d.pl_cnt
      /\ calm.len_mode = d.len_mode /\ calm.len_field = d.len_field
  BY QuietIs
<1> HIDE DEF calm
<1>2. crc \in Seq(Octets)
  BY <1>1, Registers
<1> HIDE DEF crc
<1>3. /\ q \in Framers /\ q.o_pl = NoBeat /\ q.o_valid = FALSE /\ q.state = d.state
      /\ q.dly = d.dly /\ q.pl_cnt = d.pl_cnt
      /\ q.len_mode = d.len_mode /\ q.len_field = d.len_field
  BY <1>1, <1>2 DEF Framers
<1> HIDE DEF q
<1>4. CASE d.state \in HeaderStates
  <2>1. n \in Framers /\ Untouched(q, n) /\ n.state \in HeaderStates \cup {"PAYLOAD"}
    BY <1>3, <1>4, HeaderIs
  <2>2. d.dly = <<>> /\ d.pl_cnt = 0 /\ heard = <<>>
    BY <1>4 DEF InStep, HeaderStates
  <2>3. ~n.o_valid /\ n.dly = <<>> /\ n.pl_cnt = 0 /\ ~n.o_pl.valid
    BY <1>3, <2>1, <2>2 DEF Untouched, NoBeat
  <2> HIDE DEF n
  <2>4. With(n, heard) = <<>>
    BY <2>2, <2>3 DEF With
  <2>5. Marked(n, <<>>) /\ Len(<<>>) = 0
    BY DEF Marked
  <2>6. n.len_mode => 0 <= n.len_field
    BY <2>1, Registers
  <2>7. EndMarked(n, <<>>)
    BY <2>3 DEF EndMarked
  <2>8. InStep(n, <<>>)
    BY <2>1, <2>3, <2>5, <2>6 DEF InStep, HeaderStates
  <2> QED BY <2>1, <2>4, <2>7, <2>8 DEF n, q, calm, crc
<1>5. CASE d.state = "PAYLOAD"
  <2>1. n = PayloadByte(q, byte)
    BY <1>3, <1>5 DEF InFrame
  <2>2. n \in Framers /\ PayloadEffect(q, n)
    BY <1>3, <1>5, <2>1, PayloadIs
  <2> HIDE DEF n
  <2>3. InStep(q, heard)
    <3>1. Marked(q, heard) <=> Marked(d, heard)
      BY <1>3 DEF Marked
    <3> QED BY <1>3, <1>5, <3>1 DEF InStep
  <2>4. InStep(n, With(n, heard)) /\ EndMarked(n, With(n, heard))
    BY <1>3, <1>5, <2>2, <2>3, PayloadStep
  <2> QED BY <2>2, <2>4 DEF n, q, calm, crc
<1>6. d.state \in HeaderStates \cup {"PAYLOAD"}
  BY Registers DEF HeaderStates
<1> QED BY <1>4, <1>5, <1>6

\* An edge, whatever is on the inputs.
LEMMA ClockedIs ==
    ASSUME NEW d \in Framers, NEW i \in Beats, NEW heard \in Seq(PayloadBeats),
           InStep(d, heard), EndMarked(d, heard), i.rst => heard = <<>>
    PROVE  LET n == Clocked(d, i)
               after == With(n, Before(d, heard))
           IN  /\ n \in Framers /\ InStep(n, after) /\ EndMarked(n, after)
               /\ i.rst \/ (~i.valid /\ heard = <<>>) => after = <<>>
<1> DEFINE n == Clocked(d, i)
           rest == Before(d, heard)
           after == With(n, rest)
<1>1. i.rst \in BOOLEAN /\ i.valid \in BOOLEAN /\ i.data \in Octets
  BY DEF Beats
<1>2. rest \in Seq(PayloadBeats) /\ (heard = <<>> => rest = <<>>)
  BY DEF Before
<1>3. CASE i.rst
  <2>1. n = ResetState
    BY <1>3 DEF Clocked
  <2>2. after = <<>>
    BY <1>2, <1>3, <2>1, ResetIs DEF With
  <2> HIDE DEF ResetState
  <2>3. InStep(ResetState, <<>>) /\ EndMarked(ResetState, <<>>)
    BY ResetIs DEF InStep, EndMarked
  <2> QED BY <2>1, <2>2, <2>3, ResetIs
<1>4. CASE ~i.rst /\ ~i.valid
  <2>1. n = Quiet(d)
    BY <1>4 DEF Clocked
  <2>2. /\ n \in Framers /\ n.o_pl = NoBeat /\ n.o_valid = FALSE /\ n.state = d.state
        /\ n.dly = d.dly /\ n.pl_cnt = d.pl_cnt
        /\ n.len_mode = d.len_mode /\ n.len_field = d.len_field
    BY <2>1, QuietIs
  <2> HIDE DEF n
  <2>3. after = rest
    BY <2>2 DEF With, NoBeat
  <2>4. EndMarked(n, rest)
    BY <2>2 DEF EndMarked
  <2>5. InStep(n, rest)
    <3>1. CASE d.o_valid
      <4>1. d.state = "HUNT" /\ rest = <<>>
        BY <3>1, Registers DEF InStep, Before
      <4> QED BY <2>2, <4>1 DEF InStep
    <3>2. CASE ~d.o_valid
      <4>1. rest = heard
        BY <3>2 DEF Before
      <4>2. Marked(n, heard) <=> Marked(d, heard)
        BY <2>2 DEF Marked
      <4> QED BY <2>2, <3>2, <4>1, <4>2 DEF InStep
    <3> QED BY <3>1, <3>2
  <2> QED BY <1>2, <1>4, <2>2, <2>3, <2>4, <2>5 DEF n
<1>5. CASE ~i.rst /\ i.valid /\ d.state = "HUNT"
  <2> DEFINE calm == Quiet(d)
  <2>1. n = Hunt(calm, i.data)
    BY <1>5 DEF Clocked
  <2>2. calm \in Framers /\ calm.o_pl = NoBeat /\ calm.o_valid = FALSE /\ calm.state = "HUNT"
    BY <1>5, QuietIs
  <2> HIDE DEF calm
  <2>3. /\ n \in Framers /\ n.o_pl = NoBeat /\ n.o_valid = FALSE
        /\ n.state = "HUNT" \/ (n.state = "DST" /\ n.dly = <<>> /\ n.pl_cnt = 0)
    BY <1>1, <2>1, <2>2, HuntIs
  <2>4. rest = <<>>
    BY <1>5 DEF InStep, Before
  <2> HIDE DEF n
  <2>5. after = <<>>
    BY <2>3, <2>4 DEF With, NoBeat
  <2>6. InStep(n, <<>>) /\ EndMarked(n, <<>>)
    BY <2>3 DEF InStep, EndMarked
  <2> QED BY <1>5, <2>3, <2>5, <2>6 DEF n
<1>6. CASE ~i.rst /\ i.valid /\ d.state # "HUNT"
  <2>1. n = InFrame([Quiet(d) EXCEPT !.crc = Append(@, i.data)], i.data)
    BY <1>6 DEF Clocked
  <2>2. ~d.o_valid
    BY <1>6, Registers DEF InStep
  <2>3. rest = heard
    BY <2>2 DEF Before
  <2>4. n \in Framers /\ InStep(n, With(n, heard)) /\ EndMarked(n, With(n, heard))
    BY <1>1, <1>6, <2>1, InFrameIs
  <2> QED BY <1>6, <2>3, <2>4
<1> QED BY <1>1, <1>3, <1>4, <1>5, <1>6
-------------------------------------------------------------------------------
(* The driver, and the invariant.                                          *)

\* What the monitor has heard, and the property, of the registers it is about.
LEMMA Views ==
    /\ Heard = With(dut, pl) /\ (LastMarksTheEnd <=> EndMarked(dut, Heard))
    /\ (Monitors => pl' = Before(dut, Heard))
  BY DEF Heard, With, LastMarksTheEnd, EndMarked, Monitors, Before

\* One sequence of cycles after another.
LEMMA ConcatIs ==
    ASSUME NEW r \in Seq(Beats), NEW s \in Seq(Beats)
    PROVE  LET both == r \o s IN
           /\ both \in Seq(Beats) /\ Len(both) = Len(r) + Len(s)
           /\ \A k \in 1 .. Len(both) : both[k] = IF k <= Len(r) THEN r[k] ELSE s[k - Len(r)]
  OBVIOUS

\* The cycles of a stream: bytes and no reset.
LEMMA DrivenIs ==
    ASSUME NEW stream \in Seq(Octets)
    PROVE  LET beats == Driven(stream) IN
           beats \in Seq(Beats) /\ \A k \in 1 .. Len(beats) : ~beats[k].rst
<1> DEFINE front == [k \in 1 .. Len(stream) |-> Beat(stream[k])]
           back == [k \in 1 .. 5 |-> Low]
<1>1. Low \in Beats /\ ~Low.rst
  BY DEF Low, Beats, Octets
<1>2. \A k \in 1 .. Len(stream) : Beat(stream[k]) \in Beats /\ ~Beat(stream[k]).rst
  <2>1. ASSUME NEW byte \in Octets PROVE Beat(byte) \in Beats /\ ~Beat(byte).rst
    BY DEF Beat, Low, Beats
  <2> QED BY <2>1
<1> HIDE DEF Low, Beat
<1>3. front \in Seq(Beats) /\ Len(front) = Len(stream)
      /\ \A k \in 1 .. Len(front) : ~front[k].rst
  BY <1>2
<1>4. back \in Seq(Beats) /\ Len(back) = 5 /\ \A k \in 1 .. Len(back) : ~back[k].rst
  BY <1>1
<1>5. Driven(stream) = front \o back
  BY DEF Driven
<1> HIDE DEF front, back
<1>6. /\ front \o back \in Seq(Beats) /\ Len(front \o back) = Len(front) + Len(back)
      /\ \A k \in 1 .. Len(front \o back) :
            (front \o back)[k] = IF k <= Len(front) THEN front[k] ELSE back[k - Len(front)]
  BY <1>3, <1>4, ConcatIs
<1>7. ASSUME NEW k \in 1 .. Len(front \o back) PROVE ~(front \o back)[k].rst
  <2>1. CASE k <= Len(front)
    BY <1>3, <1>6, <2>1
  <2>2. CASE ~(k <= Len(front))
    <3>1. k - Len(front) \in 1 .. Len(back)
      BY <1>3, <1>4, <1>6, <2>2
    <3> QED BY <1>4, <1>6, <2>2, <3>1
  <2> QED BY <2>1, <2>2
<1> QED BY <1>5, <1>6, <1>7

\* The cycles of the reset: no byte.
LEMMA ResetCyclesAre ==
    ResetCycles \in Seq(Beats) /\ \A k \in 1 .. Len(ResetCycles) : ~ResetCycles[k].valid
<1> DEFINE front == [k \in 1 .. 4 |-> High]
<1>1. Low \in Beats /\ ~Low.valid
  BY DEF Low, Beats, Octets
<1>2. High \in Beats /\ ~High.valid
  BY <1>1 DEF High, Beats
<1>3. front \in Seq(Beats) /\ \A k \in 1 .. Len(front) : ~front[k].valid
  BY <1>2
<1>4. ResetCycles = Append(front, Low)
  BY <1>3 DEF ResetCycles
<1> HIDE DEF front
<1> QED BY <1>1, <1>3, <1>4

\* One after the other.
LEMMA ResetThenStream ==
    ASSUME NEW r \in Seq(Beats), NEW s \in Seq(Beats),
           \A k \in 1 .. Len(r) : ~r[k].valid, \A k \in 1 .. Len(s) : ~s[k].rst
    PROVE  LET both == r \o s IN
           /\ both \in Seq(Beats)
           /\ \A j, k \in 1 .. Len(both) : j < k /\ both[k].rst => ~both[j].valid
<1> DEFINE both == r \o s
<1>1. /\ both \in Seq(Beats) /\ Len(both) = Len(r) + Len(s)
      /\ \A k \in 1 .. Len(both) : both[k] = IF k <= Len(r) THEN r[k] ELSE s[k - Len(r)]
  BY ConcatIs
<1> HIDE DEF both
<1>2. ASSUME NEW j \in 1 .. Len(both), NEW k \in 1 .. Len(both), j < k, both[k].rst
      PROVE  ~both[j].valid
  <2>1. k <= Len(r)
    <3> SUFFICES ASSUME ~(k <= Len(r)) PROVE FALSE
      OBVIOUS
    <3>1. k - Len(r) \in 1 .. Len(s)
      BY <1>1
    <3> QED BY <1>1, <1>2, <3>1
  <2>2. j \in 1 .. Len(r) /\ j <= Len(r)
    BY <1>2, <2>1
  <2> QED BY <1>1, <2>2
<1> QED BY <1>1, <1>2 DEF both

\* Nothing has been sent, and the framer is in any of the states it may wake in.
LEMMA EtherStarts == EtherInit => EtherInv
<1> SUFFICES ASSUME EtherInit PROVE EtherInv
  OBVIOUS
<1> DEFINE mid == [ResetState EXCEPT !.state = "PAYLOAD", !.len_mode = TRUE]
<1>1. bus \in Beats /\ ~bus.valid /\ ~bus.rst
  BY DEF EtherInit, Low, Beats, Octets
<1>2. todo = <<>> /\ pl = <<>> /\ dut \in {ResetState, mid}
  BY DEF EtherInit
<1>3. DOMAIN test = {"expected", "sent", "intact", "checked", "matches"} /\ test.sent = 0
  BY DEF EtherInit
<1>4. ResetState \in Framers /\ ~ResetState.o_valid /\ ~ResetState.o_pl.valid
      /\ InStep(ResetState, <<>>)
  <2> HIDE DEF ResetState
  <2> QED BY ResetIs DEF InStep
<1>5. mid \in Framers /\ ~mid.o_valid /\ ~mid.o_pl.valid /\ InStep(mid, <<>>)
  <2> HIDE DEF ResetState
  <2>1. mid \in Framers /\ ~mid.o_valid /\ ~mid.o_pl.valid /\ mid.pl_cnt = 0
        /\ mid.len_field = 0 /\ mid.state = "PAYLOAD"
    BY ResetIs DEF Framers
  <2> HIDE DEF mid
  <2> QED BY <2>1 DEF InStep, Marked
<1> HIDE DEF mid
<1>6. dut \in Framers /\ ~dut.o_valid /\ ~dut.o_pl.valid /\ InStep(dut, <<>>)
  BY <1>2, <1>4, <1>5
<1>7. Heard = <<>>
  BY <1>2, <1>6 DEF Heard
<1>8. EtherTyped
  BY <1>1, <1>2, <1>3, <1>6 DEF EtherTyped
<1>9. ResetFirst
  BY <1>1, <1>2, <1>3, <1>7 DEF ResetFirst
<1>10. LastMarksTheEnd
  BY <1>6 DEF LastMarksTheEnd
<1> QED BY <1>6, <1>7, <1>8, <1>9, <1>10 DEF EtherInv
-------------------------------------------------------------------------------
(* The steps.                                                              *)

\* A stream is queued, the first behind the reset.
LEMMA SendsFrameStep == EtherInv /\ SendsFrame => EtherInv'
<1> SUFFICES ASSUME EtherInv, SendsFrame PROVE EtherInv'
  OBVIOUS
<1>1. EtherTyped /\ InStep(dut, Heard) /\ ResetFirst /\ LastMarksTheEnd
  BY DEF EtherInv
<1>2. PICK f \in FRAMES, filler \in FILLERS :
         /\ todo' = (IF test.sent = 0 THEN ResetCycles ELSE <<>>) \o Driven(build_stream(f, filler))
         /\ test' = [test EXCEPT !.expected = Serialized(f), !.sent = @ + 1,
                                !.intact = @ + (IF f.damaged THEN 0 ELSE 1)]
  BY DEF SendsFrame
<1> DEFINE stream == build_stream(f, filler)
           beats == Driven(stream)
           reset == IF test.sent = 0 THEN ResetCycles ELSE <<>>
<1>3. stream \in Seq(Octets)
  BY BytesAssumption DEF Octets
<1> HIDE DEF stream
<1>4. beats \in Seq(Beats) /\ \A k \in 1 .. Len(beats) : ~beats[k].rst
  BY <1>3, DrivenIs
<1>5. reset \in Seq(Beats) /\ \A k \in 1 .. Len(reset) : ~reset[k].valid
  BY ResetCyclesAre
<1>6. todo' = reset \o beats
  BY <1>2 DEF stream
<1>7. UNCHANGED <<dut, bus, pl>> /\ Heard' = Heard
  BY DEF SendsFrame, Heard
<1>8. test'.sent = test.sent + 1 /\ DOMAIN test' = DOMAIN test /\ test.sent \in Nat
  <2>1. DOMAIN test = {"expected", "sent", "intact", "checked", "matches"} /\ test.sent \in Nat
    BY <1>1 DEF EtherTyped
  <2> QED BY <1>2, <2>1
<1> HIDE DEF beats
<1>9. /\ todo' \in Seq(Beats)
      /\ \A j, k \in 1 .. Len(todo') : j < k /\ todo'[k].rst => ~todo'[j].valid
  <2> HIDE DEF reset
  <2> QED BY <1>4, <1>5, <1>6, ResetThenStream
<1>10. ASSUME NEW k \in 1 .. Len(todo'), todo'[k].rst PROVE ~bus'.valid /\ Heard' = <<>>
  <2>1. CASE test.sent = 0
    BY <1>1, <1>7, <2>1 DEF ResetFirst
  <2>2. CASE test.sent # 0
    <3>1. todo' = beats
      BY <1>4, <1>6, <2>2
    <3> QED BY <1>4, <1>10, <3>1
  <2> QED BY <2>1, <2>2
<1>11. EtherTyped'
  BY <1>1, <1>7, <1>8, <1>9 DEF EtherTyped
<1>12. InStep(dut, Heard)' /\ LastMarksTheEnd'
  <2>1. LastMarksTheEnd'
    BY <1>1, <1>7 DEF LastMarksTheEnd
  <2>2. InStep(dut, Heard)'
    BY <1>1, <1>7 DEF InStep, Marked
  <2> QED BY <2>1, <2>2
<1>13. ResetFirst'
  BY <1>1, <1>7, <1>8, <1>9, <1>10 DEF ResetFirst
<1> QED BY <1>11, <1>12, <1>13 DEF EtherInv

\* An edge leaves the framer and the monitor in step.
LEMMA EdgeLeaves ==
    ASSUME EtherInv, dut' = Clocked(dut, bus), Monitors
    PROVE  /\ dut' \in Framers /\ pl' \in Seq(PayloadBeats)
           /\ InStep(dut, Heard)' /\ LastMarksTheEnd'
           /\ bus.rst \/ (~bus.valid /\ Heard = <<>>) => Heard' = <<>>
           /\ DOMAIN test' = DOMAIN test /\ test'.sent = test.sent
<1> DEFINE heard == Heard
           n == Clocked(dut, bus)
           rest == Before(dut, heard)
           after == With(n, rest)
<1>1. EtherTyped /\ InStep(dut, heard) /\ ResetFirst /\ EndMarked(dut, heard)
  BY Views DEF EtherInv
<1>2. dut \in Framers /\ bus \in Beats /\ pl \in Seq(PayloadBeats)
  BY <1>1 DEF EtherTyped
<1>3. heard \in Seq(PayloadBeats)
  BY <1>2, Registers DEF Heard
<1>4. bus.rst => heard = <<>>
  BY <1>1 DEF ResetFirst
<1> HIDE DEF heard
<1>5. /\ n \in Framers /\ InStep(n, after) /\ EndMarked(n, after)
      /\ bus.rst \/ (~bus.valid /\ heard = <<>>) => after = <<>>
  BY <1>1, <1>2, <1>3, <1>4, ClockedIs
<1>6. pl' = rest
  BY Views DEF heard
<1>7. rest \in Seq(PayloadBeats)
  BY <1>3 DEF Before
<1>8. Heard' = after
  BY <1>6 DEF Heard, With
<1>9. LastMarksTheEnd'
  BY <1>5, <1>8 DEF LastMarksTheEnd, EndMarked
<1>10. InStep(dut, Heard)'
  BY <1>5, <1>8 DEF InStep, Marked
<1>11. DOMAIN test' = DOMAIN test /\ test'.sent = test.sent
  <2>1. DOMAIN test = {"expected", "sent", "intact", "checked", "matches"}
    BY <1>1 DEF EtherTyped
  <2> QED BY <2>1 DEF Monitors
<1> QED BY <1>5, <1>6, <1>7, <1>8, <1>9, <1>10, <1>11 DEF heard

\* An edge with the next cycle of the stream.
LEMMA EdgeStep == EtherInv /\ Edge => EtherInv'
<1> SUFFICES ASSUME EtherInv, Edge PROVE EtherInv'
  OBVIOUS
<1>1. /\ dut' \in Framers /\ pl' \in Seq(PayloadBeats)
      /\ InStep(dut, Heard)' /\ LastMarksTheEnd'
      /\ bus.rst \/ (~bus.valid /\ Heard = <<>>) => Heard' = <<>>
      /\ DOMAIN test' = DOMAIN test /\ test'.sent = test.sent
  BY EdgeLeaves DEF Edge
<1>2. EtherTyped /\ ResetFirst
  BY DEF EtherInv
<1>3. todo # <<>> /\ bus' = Head(todo) /\ todo' = Tail(todo) /\ todo \in Seq(Beats)
  BY <1>2 DEF Edge, EtherTyped
<1>4. /\ bus' = todo[1] /\ bus' \in Beats /\ todo' \in Seq(Beats)
      /\ Len(todo) \in Nat /\ Len(todo) >= 1 /\ Len(todo') = Len(todo) - 1
      /\ \A k \in 1 .. Len(todo') : todo'[k] = todo[k + 1]
  BY <1>3
<1>5. EtherTyped'
  BY <1>1, <1>2, <1>4 DEF EtherTyped
<1>6. ASSUME NEW j \in 1 .. Len(todo'), NEW k \in 1 .. Len(todo'), j < k, todo'[k].rst
      PROVE  ~todo'[j].valid
  <2>1. j + 1 \in 1 .. Len(todo) /\ k + 1 \in 1 .. Len(todo) /\ j + 1 < k + 1
    BY <1>4, <1>6
  <2>2. todo[k + 1].rst /\ todo'[j] = todo[j + 1]
    BY <1>4, <1>6
  <2> QED BY <1>2, <2>1, <2>2 DEF ResetFirst
<1>7. ASSUME NEW k \in 1 .. Len(todo), todo[k].rst PROVE Heard' = <<>>
  BY <1>1, <1>2, <1>7 DEF ResetFirst
<1>8. ASSUME NEW k \in 1 .. Len(todo'), todo'[k].rst PROVE ~bus'.valid /\ Heard' = <<>>
  <2>1. 1 \in 1 .. Len(todo) /\ k + 1 \in 1 .. Len(todo) /\ 1 < k + 1
    BY <1>4
  <2>2. todo[k + 1].rst
    BY <1>4, <1>8
  <2>3. ~todo[1].valid
    BY <1>2, <2>1, <2>2 DEF ResetFirst
  <2> QED BY <1>4, <1>7, <2>1, <2>2, <2>3
<1>9. bus'.rst => Heard' = <<>>
  <2>1. 1 \in 1 .. Len(todo)
    BY <1>4
  <2> QED BY <1>4, <1>7, <2>1
<1>10. test'.sent # 0
  BY <1>1, <1>2, <1>3 DEF ResetFirst
<1>11. ResetFirst'
  BY <1>6, <1>8, <1>9, <1>10 DEF ResetFirst
<1> QED BY <1>1, <1>5, <1>11 DEF EtherInv

\* A cycle without a byte.
LEMMA PauseStep == EtherInv /\ Pause => EtherInv'
<1> SUFFICES ASSUME EtherInv, Pause PROVE EtherInv'
  OBVIOUS
<1>1. /\ dut' \in Framers /\ pl' \in Seq(PayloadBeats)
      /\ InStep(dut, Heard)' /\ LastMarksTheEnd'
      /\ DOMAIN test' = DOMAIN test /\ test'.sent = test.sent
  BY EdgeLeaves DEF Pause
<1>2. EtherTyped /\ ResetFirst
  BY DEF EtherInv
<1>3. todo # <<>> /\ todo' = todo /\ bus.valid /\ bus' = Low
  BY DEF Pause
<1>4. Low \in Beats /\ ~Low.valid /\ ~Low.rst
  BY DEF Low, Beats, Octets
<1>5. EtherTyped'
  BY <1>1, <1>2, <1>3, <1>4 DEF EtherTyped
<1>6. \A k \in 1 .. Len(todo) : ~todo[k].rst
  BY <1>2, <1>3 DEF ResetFirst
<1>7. test.sent # 0
  BY <1>2, <1>3 DEF ResetFirst
<1>8. ResetFirst'
  BY <1>1, <1>3, <1>4, <1>6, <1>7 DEF ResetFirst
<1> QED BY <1>1, <1>5, <1>8 DEF EtherInv

\* Nothing happens.
LEMMA EtherStutters == EtherInv /\ UNCHANGED etherVars => EtherInv'
<1> SUFFICES ASSUME EtherInv, UNCHANGED etherVars PROVE EtherInv'
  OBVIOUS
<1>1. /\ dut' = dut /\ bus' = bus /\ todo' = todo /\ pl' = pl /\ test' = test
      /\ Heard' = Heard
  BY DEF etherVars, Heard
<1>2. EtherTyped'
  BY <1>1 DEF EtherInv, EtherTyped
<1>3. InStep(dut, Heard)' /\ LastMarksTheEnd'
  BY <1>1 DEF EtherInv, InStep, Marked, LastMarksTheEnd
<1>4. ResetFirst'
  BY <1>1 DEF EtherInv, ResetFirst
<1> QED BY <1>2, <1>3, <1>4 DEF EtherInv

\* The framer marks exactly the last byte of every good frame's payload
\* (o_pl_last in rtl/ether.sv), although it holds four bytes back and learns
\* that the frame is over only when its FCS is in: for every frame that is a
\* sequence of bytes, padded, tagged or damaged, every filler in front of it,
\* every check sequence (an accidental hit included), all limits that fit the
\* 16-bit counters, and wherever the producer pauses.
THEOREM LastIsMarked == EtherSpec => []LastMarksTheEnd
<1>1. EtherInit => EtherInv
  BY EtherStarts
<1>2. EtherInv /\ [EtherNext]_etherVars => EtherInv'
  <2> SUFFICES ASSUME EtherInv, [EtherNext]_etherVars PROVE EtherInv'
    OBVIOUS
  <2>1. CASE SendsFrame
    BY <2>1, SendsFrameStep
  <2>2. CASE Edge
    BY <2>2, EdgeStep
  <2>3. CASE Pause
    BY <2>3, PauseStep
  <2>4. CASE UNCHANGED etherVars
    BY <2>4, EtherStutters
  <2> QED BY <2>1, <2>2, <2>3, <2>4 DEF EtherNext
<1>3. EtherInv => LastMarksTheEnd
  BY DEF EtherInv
<1> QED BY <1>1, <1>2, <1>3, PTL DEF EtherSpec
-------------------------------------------------------------------------------
(* Every frame comes out.                                                  *)

\* The byte the framer lets the frame go at.
End(f) == IF f.damaged THEN MAX_FRAME_BYTES + 1 ELSE Len(Wire(f))

AddressesTaken(d, f) == d.dst_sr = f.dst /\ d.src_sr = f.src

\* The framer in the header of f, c bytes of it taken, field by field.
InDst(d, f, c) ==
    /\ c \in 0 .. 5 /\ d.state = "DST" /\ d.hdr_cnt = c /\ ~d.vlan_seen
    /\ \A k \in 1 .. c : d.dst_sr[6 - c + k] = Wire(f)[k]

InSrc(d, f, c) ==
    /\ c \in 6 .. 11 /\ d.state = "SRC" /\ d.hdr_cnt = c - 6 /\ ~d.vlan_seen
    /\ d.dst_sr = f.dst /\ \A k \in 1 .. c - 6 : d.src_sr[12 - c + k] = Wire(f)[6 + k]

InType(d, f, c) ==
    /\ c \in 12 .. 13 /\ d.state = "TYPE" /\ d.hdr_cnt = c - 12 /\ ~d.vlan_seen
    /\ AddressesTaken(d, f) /\ (c = 13 => d.type_sr[2] = Wire(f)[13])

InTci(d, f, c) ==
    /\ f.vlan /\ c \in 14 .. 15 /\ d.state = "VLAN" /\ d.hdr_cnt = c - 14 /\ d.vlan_seen
    /\ AddressesTaken(d, f) /\ (c = 15 => d.tci_sr[2] = Wire(f)[15])

InTagged(d, f, c) ==
    /\ f.vlan /\ c \in 16 .. 17 /\ d.state = "TYPE" /\ d.hdr_cnt = c - 16 /\ d.vlan_seen
    /\ AddressesTaken(d, f) /\ d.tci_sr = f.tci /\ (c = 17 => d.type_sr[2] = Wire(f)[17])

InHeader(d, f, c) ==
    /\ d.crc = SubSeq(Wire(f), 1, c)
    /\ InDst(d, f, c) \/ InSrc(d, f, c) \/ InType(d, f, c) \/ InTci(d, f, c) \/ InTagged(d, f, c)

HeaderTaken(d, f) ==
    /\ AddressesTaken(d, f) /\ d.type_sr = f.type /\ d.vlan_seen = f.vlan
    /\ f.vlan => d.tci_sr = f.tci

\* How many bytes of the payload have left the holdback.
Out(f, c) ==
    LET passed == c - HeaderLen(f) - 4 IN
    IF passed < 0 THEN 0 ELSE IF Short(f) /\ passed > Number(f.type) THEN Number(f.type) ELSE passed

Heldback(f, c) == IF c - HeaderLen(f) < 4 THEN c - HeaderLen(f) ELSE 4

HeardSoFar(heard, f, count) ==
    Len(heard) = count /\ \A k \in 1 .. count : heard[k].data = Wire(f)[HeaderLen(f) + k]

\* The bytes it has not let out yet, the last that came in.
HoldsBack(d, f, c) ==
    /\ Len(d.dly) = Heldback(f, c)
    /\ \A k \in 1 .. Heldback(f, c) : d.dly[k] = Wire(f)[c - Heldback(f, c) + k]

\* Behind the header.
InPayload(d, heard, f, c) ==
    /\ c \in HeaderLen(f) .. End(f) - 1 /\ d.state = "PAYLOAD"
    /\ d.crc = SubSeq(Wire(f), 1, c) /\ HeaderTaken(d, f)
    /\ d.len_mode = Short(f) /\ d.len_field = Number(f.type)
    /\ HoldsBack(d, f, c) /\ d.pl_cnt = Out(f, c) /\ HeardSoFar(heard, f, Out(f, c))

\* It has let the frame go.
LetGo(d, heard, f) ==
    /\ d.state = "HUNT" /\ d.pre_cnt = 0 /\ d.o_valid
    /\ d.result.dst = f.dst /\ d.result.src = f.src /\ d.result.type = f.type
    /\ d.result.vlan = f.vlan /\ (f.vlan => d.result.tci = f.tci)
    /\ HeardSoFar(heard, f, Out(f, End(f)))

Idle(d) == d.state = "HUNT" /\ d.pre_cnt = 0 /\ ~d.o_valid

\* The framer when p bytes of the stream of f behind filler are in.
Tracks(d, heard, f, filler, p) ==
    LET c == p - Len(filler) - 8 IN
    IF c < 0
    THEN /\ d.state = "HUNT" /\ ~d.o_valid
         /\ d.pre_cnt = IF p <= Len(filler) THEN 0 ELSE p - Len(filler)
    ELSE IF c < HeaderLen(f) THEN InHeader(d, f, c)
    ELSE IF c < End(f) THEN InPayload(d, heard, f, c)
    ELSE LetGo(d, heard, f) \/ Idle(d)

\* Whether Python has counted the frame.
Told == test.checked = test.sent /\ test.matches = test.intact

Awaited(f) ==
    /\ test.checked + 1 = test.sent
    /\ test.matches + (IF f.damaged THEN 0 ELSE 1) = test.intact

\* Where the framer lets the frame go, in its stream.
Ends(f, filler) == Len(filler) + 8 + End(f)

Behind(f, filler, p) == p >= Ends(f, filler) /\ ~dut.o_valid

\* g cycles of a stream are driven and p bytes of it are in: the one on the bus
\* is not, and there need not be one.
Driving(f, filler, g, p) ==
    LET s == build_stream(f, filler) IN
    /\ g \in 0 .. Len(s) + 5 /\ Len(todo) = Len(s) + 5 - g
    /\ \A k \in 1 .. Len(todo) : todo[k] = IF g + k <= Len(s) THEN Beat(s[g + k]) ELSE Low
    /\ \/ g \in 1 .. Len(s) /\ p = g - 1 /\ bus = Beat(s[g])
       \/ p = (IF g <= Len(s) THEN g ELSE Len(s)) /\ bus = Low
    /\ dut.o_valid => g <= Len(s) + 1

Streaming(f, filler, g, p) ==
    /\ Driving(f, filler, g, p) /\ Tracks(dut, Heard, f, filler, p)
    /\ IF Behind(f, filler, p) THEN Told ELSE Awaited(f)

\* r cycles of the reset are driven.
Resetting(f, filler, r) ==
    LET s == build_stream(f, filler) IN
    /\ r \in 0 .. 4 /\ Len(todo) = Len(s) + 10 - r
    /\ \A k \in 1 .. Len(todo) :
          todo[k] = IF k <= 4 - r THEN High
                    ELSE IF k - 5 + r \in 1 .. Len(s) THEN Beat(s[k - 5 + r]) ELSE Low
    /\ bus = (IF r = 0 THEN Low ELSE High) /\ ~dut.o_valid /\ Awaited(f)

InFlight ==
    /\ test.sent > 0
    /\ \E f \in FRAMES, filler \in FILLERS :
         /\ test.expected = Serialized(f)
         /\ \/ \E g, p \in Nat : Streaming(f, filler, g, p)
            \/ \E r \in 0 .. 4 : Resetting(f, filler, r)

CountsTyped == {test.checked, test.matches, test.intact} \subseteq Nat

FrameInv ==
    /\ EtherInv /\ CountsTyped
    /\ IF test.sent = 0 THEN bus = Low /\ ~dut.o_valid /\ test.checked = 0 /\ test.matches = 0 /\ test.intact = 0
       ELSE InFlight
-------------------------------------------------------------------------------
(* Where the bytes of a frame are in its stream.                           *)

\* One sequence of bytes after another.
Joined(both, r, s) ==
    /\ both \in Seq(Octets) /\ Len(both) = Len(r) + Len(s)
    /\ \A k \in 1 .. Len(r) : both[k] = r[k]
    /\ \A k \in 1 .. Len(s) : both[Len(r) + k] = s[k]

\* That is what concatenation makes.
LEMMA JoinIs ==
    ASSUME NEW r \in Seq(Octets), NEW s \in Seq(Octets)
    PROVE  Joined(r \o s, r, s) /\ r \o s \in Seq(Octets)
  BY DEF Joined

\* A sequence of n bytes.
LEMMA ShifterHas ==
    ASSUME NEW n \in Nat, NEW sr \in Shifters(n)
    PROVE  sr \in Seq(Octets) /\ Len(sr) = n
  BY DEF Shifters

\* Two registers with the same bytes are the same.
LEMMA SameShifters ==
    ASSUME NEW n \in Nat, NEW r \in Shifters(n), NEW s \in Shifters(n),
           \A k \in 1 .. n : r[k] = s[k]
    PROVE  r = s
<1>1. r \in Seq(Octets) /\ Len(r) = n /\ s \in Seq(Octets) /\ Len(s) = n
  BY ShifterHas
<1> QED BY <1>1

\* A padding of zeros.
LEMMA ZerosAre == ASSUME NEW n \in Nat PROVE Zeros(n) \in Seq(Octets) /\ Len(Zeros(n)) = n
  BY DEF Zeros, Octets

\* What stands where in a frame as it is serialized.
LEMMA SerializedIs ==
    ASSUME NEW f, WellMade(f)
    PROVE  LET s == Serialized(f) IN
           /\ s \in Seq(Octets) /\ Len(s) = HeaderLen(f) + Len(f.payload)
           /\ \A k \in 1 .. 6 : s[k] = f.dst[k] /\ s[6 + k] = f.src[k]
           /\ f.vlan => /\ s[13] = 129 /\ s[14] = 0
                        /\ \A k \in 1 .. 2 : s[14 + k] = f.tci[k]
           /\ \A k \in 1 .. 2 : s[HeaderLen(f) - 2 + k] = f.type[k]
           /\ \A k \in 1 .. Len(f.payload) : s[HeaderLen(f) + k] = f.payload[k]
<1> DEFINE tag == IF f.vlan THEN VLAN_TPID \o f.tci ELSE <<>>
           s == (((f.dst \o f.src) \o tag) \o f.type) \o f.payload
           t == IF f.vlan THEN 4 ELSE 0
<1>1. /\ f.dst \in Seq(Octets) /\ Len(f.dst) = 6 /\ f.src \in Seq(Octets) /\ Len(f.src) = 6
      /\ f.type \in Seq(Octets) /\ Len(f.type) = 2 /\ f.payload \in Seq(Octets)
      /\ f.vlan \in BOOLEAN
  BY ShifterHas DEF WellMade
<1>2. tag \in Seq(Octets) /\ Len(tag) = t
      /\ (f.vlan => /\ tag[1] = 129 /\ tag[2] = 0
                    /\ \A k \in 1 .. 2 : tag[2 + k] = f.tci[k])
  <2>1. CASE f.vlan
    <3>1. f.tci \in Seq(Octets) /\ Len(f.tci) = 2
      BY <2>1, ShifterHas DEF WellMade
    <3>2. VLAN_TPID \in Seq(Octets) /\ Len(VLAN_TPID) = 2
          /\ VLAN_TPID[1] = 129 /\ VLAN_TPID[2] = 0
      BY DEF VLAN_TPID, Octets
    <3> HIDE DEF VLAN_TPID
    <3>3. /\ VLAN_TPID \o f.tci \in Seq(Octets) /\ Len(VLAN_TPID \o f.tci) = 4
          /\ \A k \in 1 .. 2 : (VLAN_TPID \o f.tci)[k] = VLAN_TPID[k]
          /\ \A k \in 1 .. 2 : (VLAN_TPID \o f.tci)[2 + k] = f.tci[k]
      <4>1. Joined(VLAN_TPID \o f.tci, VLAN_TPID, f.tci) /\ VLAN_TPID \o f.tci \in Seq(Octets)
        BY <3>1, <3>2, JoinIs
      <4> QED BY <3>1, <3>2, <4>1 DEF Joined
    <3>4. tag = VLAN_TPID \o f.tci /\ t = 4
      BY <2>1
    <3> HIDE DEF tag, t
    <3> QED BY <3>2, <3>3, <3>4
  <2>2. CASE ~f.vlan
    BY <2>2
  <2> QED BY <2>1, <2>2
<1>3. t \in {0, 4} /\ HeaderLen(f) = 14 + t /\ (f.vlan => t = 4)
  BY DEF HeaderLen
<1>4. Serialized(f) = s
  BY DEF Serialized
<1> HIDE DEF tag, t
<1>5. /\ s \in Seq(Octets) /\ Len(s) = 14 + t + Len(f.payload)
      /\ \A k \in 1 .. 6 : s[k] = f.dst[k]
      /\ \A k \in 1 .. 6 : s[6 + k] = f.src[k]
      /\ \A k \in 1 .. t : s[12 + k] = tag[k]
      /\ \A k \in 1 .. 2 : s[12 + t + k] = f.type[k]
      /\ \A k \in 1 .. Len(f.payload) : s[14 + t + k] = f.payload[k]
  <2> DEFINE dst == f.dst
             src == f.src
             type == f.type
             payload == f.payload
             addresses == dst \o src
             tagged == addresses \o tag
             head == tagged \o type
             whole == head \o payload
             p == Len(payload)
  <2>1. /\ dst \in Seq(Octets) /\ Len(dst) = 6 /\ src \in Seq(Octets) /\ Len(src) = 6
        /\ type \in Seq(Octets) /\ Len(type) = 2 /\ payload \in Seq(Octets) /\ p \in Nat
    BY <1>1
  <2>2. s = whole
    OBVIOUS
  <2>3. t \in Nat
    BY <1>3
  <2> HIDE DEF dst, src, type, payload, s
  <2>4. Joined(addresses, dst, src) /\ addresses \in Seq(Octets)
    BY <2>1, JoinIs
  <2> HIDE DEF addresses
  <2>5. Joined(tagged, addresses, tag) /\ tagged \in Seq(Octets)
    BY <1>2, <2>4, JoinIs
  <2> HIDE DEF tagged
  <2>6. Joined(head, tagged, type) /\ head \in Seq(Octets)
    BY <2>1, <2>5, JoinIs
  <2> HIDE DEF head
  <2>7. Joined(whole, head, payload)
    BY <2>1, <2>6, JoinIs
  <2>8. Len(payload) = p
    OBVIOUS
  <2> HIDE DEF whole, p
  <2>9. /\ whole \in Seq(Octets) /\ Len(whole) = 14 + t + p
        /\ \A k \in 1 .. 6 : whole[k] = dst[k]
        /\ \A k \in 1 .. 6 : whole[6 + k] = src[k]
        /\ \A k \in 1 .. t : whole[12 + k] = tag[k]
        /\ \A k \in 1 .. 2 : whole[12 + t + k] = type[k]
        /\ \A k \in 1 .. p : whole[14 + t + k] = payload[k]
    <3>1. /\ Len(addresses) = 12
          /\ \A k \in 1 .. 6 : addresses[k] = dst[k]
          /\ \A k \in 1 .. 6 : addresses[6 + k] = src[k]
      BY <2>1, <2>4 DEF Joined
    <3>2. /\ Len(tagged) = 12 + t
          /\ \A k \in 1 .. 12 : tagged[k] = addresses[k]
          /\ \A k \in 1 .. t : tagged[12 + k] = tag[k]
      BY <1>2, <2>3, <2>5, <3>1 DEF Joined
    <3>3. /\ Len(head) = 14 + t
          /\ \A k \in 1 .. 12 + t : head[k] = tagged[k]
          /\ \A k \in 1 .. 2 : head[12 + t + k] = type[k]
      BY <2>1, <2>3, <2>6, <3>2 DEF Joined
    <3>4. /\ Len(whole) = 14 + t + p /\ whole \in Seq(Octets)
          /\ \A k \in 1 .. 14 + t : whole[k] = head[k]
          /\ \A k \in 1 .. p : whole[14 + t + k] = payload[k]
      BY <2>1, <2>3, <2>7, <2>8, <3>3 DEF Joined
    <3>5. \A k \in 1 .. 12 + t : whole[k] = tagged[k]
      BY <2>3, <3>3, <3>4
    <3>6. ASSUME NEW k \in 1 .. 12 PROVE whole[k] = addresses[k]
      <4>1. k \in 1 .. 12 + t
        BY <2>3
      <4> QED BY <3>2, <3>5, <4>1
    <3>7. \A k \in 1 .. 6 : whole[k] = dst[k]
      BY <3>1, <3>6
    <3>8. ASSUME NEW k \in 1 .. 6 PROVE whole[6 + k] = src[k]
      <4>1. 6 + k \in 1 .. 12
        BY <2>3
      <4> QED BY <3>1, <3>6, <4>1
    <3>9. ASSUME NEW k \in 1 .. t PROVE whole[12 + k] = tag[k]
      <4>1. 12 + k \in 1 .. 12 + t
        BY <2>3
      <4> QED BY <3>2, <3>5, <4>1
    <3>10. ASSUME NEW k \in 1 .. 2 PROVE whole[12 + t + k] = type[k]
      <4>1. 12 + t + k \in 1 .. 14 + t
        BY <2>3
      <4> QED BY <3>3, <3>4, <4>1
    <3> QED BY <3>4, <3>7, <3>8, <3>9, <3>10
  <2> QED BY <2>2, <2>8, <2>9 DEF dst, src, type, payload
<1> HIDE DEF s
<1>8. f.vlan => /\ s[13] = 129 /\ s[14] = 0
                /\ \A k \in 1 .. 2 : s[14 + k] = f.tci[k]
  <2> SUFFICES ASSUME f.vlan
               PROVE  s[13] = 129 /\ s[14] = 0 /\ s[15] = f.tci[1] /\ s[16] = f.tci[2]
    OBVIOUS
  <2>1. \A k \in 1 .. 4 : s[12 + k] = tag[k]
    BY <1>3, <1>5
  <2>2. s[12 + 1] = tag[1] /\ s[12 + 2] = tag[2] /\ s[12 + 3] = tag[3] /\ s[12 + 4] = tag[4]
    BY <2>1
  <2>3. tag[1] = 129 /\ tag[2] = 0 /\ tag[2 + 1] = f.tci[1] /\ tag[2 + 2] = f.tci[2]
    BY <1>2
  <2> QED BY <2>2, <2>3
<1>9. \A k \in 1 .. 2 : s[HeaderLen(f) - 2 + k] = f.type[k]
  <2>1. \A k \in 1 .. 2 : HeaderLen(f) - 2 + k = 12 + t + k
    BY <1>3
  <2> QED BY <1>5, <2>1
<1>10. \A k \in 1 .. Len(f.payload) : s[HeaderLen(f) + k] = f.payload[k]
  <2>1. \A k \in 1 .. Len(f.payload) : HeaderLen(f) + k = 14 + t + k
    BY <1>3
  <2> QED BY <1>5, <2>1
<1> QED BY <1>3, <1>4, <1>5, <1>8, <1>9, <1>10
\* The parts of what was joined.
LEMMA PartsAre ==
    ASSUME NEW r \in Seq(Octets), NEW s \in Seq(Octets), NEW both, Joined(both, r, s)
    PROVE  SubSeq(both, 1, Len(r)) = r /\ SubSeq(both, Len(r) + 1, Len(r) + Len(s)) = s
<1> DEFINE m == Len(r)
           n == Len(s)
           front == SubSeq(both, 1, m)
           back == SubSeq(both, m + 1, m + n)
<1>1. /\ m \in Nat /\ n \in Nat /\ both \in Seq(Octets) /\ Len(both) = m + n
      /\ \A k \in 1 .. m : both[k] = r[k]
      /\ \A k \in 1 .. n : both[m + k] = s[k]
  BY DEF Joined
<1>2. Len(r) = m /\ Len(s) = n
  OBVIOUS
<1> HIDE DEF m, n
<1>3. front \in Seq(Octets) /\ Len(front) = m /\ \A k \in 1 .. m : front[k] = both[k]
  BY <1>1
<1>4. back \in Seq(Octets) /\ Len(back) = n /\ \A k \in 1 .. n : back[k] = both[m + k]
  BY <1>1
<1> HIDE DEF front, back
<1>5. front = r
  BY <1>1, <1>2, <1>3
<1>6. back = s
  BY <1>1, <1>2, <1>4
<1> QED BY <1>5, <1>6 DEF front, back, m, n

\* What stands where behind the SFD; an undamaged frame ends with what checks it.
LEMMA WireIs ==
    ASSUME NEW f, WellMade(f)
    PROVE  LET w == Wire(f)
               n == HeaderLen(f) + Len(f.payload)
           IN
           /\ w \in Seq(Octets) /\ HeaderLen(f) \in {14, 18} /\ (f.vlan <=> HeaderLen(f) = 18)
           /\ Len(w) = n + Len(f.pad) + (IF f.damaged THEN MAX_FRAME_BYTES ELSE 4)
           /\ n + Len(f.pad) + 4 <= MAX_FRAME_BYTES
           /\ \A k \in 1 .. n : w[k] = Serialized(f)[k]
           /\ ~f.damaged => CrcHit(w)
<1> DEFINE trailer == IF f.damaged THEN Zeros(MAX_FRAME_BYTES) ELSE Fcs(Body(f))
           size == IF f.damaged THEN MAX_FRAME_BYTES ELSE 4
           s == Serialized(f)
           n == HeaderLen(f) + Len(f.payload)
           b == Body(f)
           w == Wire(f)
<1>1. s \in Seq(Octets) /\ Len(s) = n /\ f.pad \in Seq(Octets) /\ f.damaged \in BOOLEAN
      /\ f.vlan \in BOOLEAN
  BY SerializedIs DEF WellMade
<1>2. trailer \in Seq(Octets) /\ Len(trailer) = size
  <2>1. CASE f.damaged
    <3>1. MAX_FRAME_BYTES \in Nat
      BY EtherAssumption
    <3> QED BY <2>1, <3>1, ZerosAre
  <2>2. CASE ~f.damaged
    <3>1. Fcs(Body(f)) \in Seq(Octets) /\ Len(Fcs(Body(f))) = 4
      BY ShifterHas DEF WellMade
    <3> QED BY <2>2, <3>1
  <2> QED BY <1>1, <2>1, <2>2
<1>3. HeaderLen(f) \in {14, 18} /\ (f.vlan <=> HeaderLen(f) = 18)
  BY <1>1 DEF HeaderLen
<1>4. Joined(b, s, f.pad) /\ b \in Seq(Octets)
  BY <1>1, JoinIs DEF Body
<1>5. w = b \o trailer
  BY DEF Wire
<1>6. Len(b) + 4 <= MAX_FRAME_BYTES
  BY DEF WellMade
<1>7. ~f.damaged => trailer = Fcs(b)
  OBVIOUS
<1>8. n \in Nat /\ Len(f.pad) \in Nat /\ size \in Nat
  <2>1. Len(s) \in Nat /\ Len(trailer) \in Nat /\ Len(f.pad) \in Nat
    BY <1>1, <1>2
  <2> QED BY <1>1, <1>2, <2>1
<1> HIDE DEF s, b, trailer, size, n
<1>9. Joined(b \o trailer, b, trailer) /\ b \o trailer \in Seq(Octets)
  BY <1>2, <1>4, JoinIs
<1>10. Len(b) = n + Len(f.pad) /\ \A k \in 1 .. n : b[k] = s[k]
  BY <1>1, <1>4 DEF Joined
<1>11. ~f.damaged => CrcHit(b \o trailer)
  <2> SUFFICES ASSUME ~f.damaged PROVE CrcHit(b \o trailer)
    OBVIOUS
  <2>1. size = 4
    BY DEF size
  <2>2. trailer \in Seq(Octets) /\ Len(trailer) = 4 /\ b \in Seq(Octets)
    BY <1>2, <1>4, <2>1
  <2> DEFINE both == b \o trailer
             m == Len(b)
  <2>3. Len(both) = m + 4 /\ m \in Nat
    BY <1>9, <2>2 DEF Joined
  <2>4. SubSeq(both, 1, m) = b /\ SubSeq(both, m + 1, m + Len(trailer)) = trailer
    BY <1>9, <2>2, PartsAre
  <2>5. m + Len(trailer) = m + 4
    BY <2>2
  <2> HIDE DEF both, m
  <2>6. Len(both) - 3 = m + 1 /\ Len(both) - 4 = m /\ Len(both) >= 4 /\ Len(both) = m + 4
    BY <2>3
  <2>7. SubSeq(both, Len(both) - 3, Len(both)) = trailer
        /\ SubSeq(both, 1, Len(both) - 4) = b
    BY <2>4, <2>5, <2>6
  <2>8. CrcHit(both)
    BY <1>7, <2>6, <2>7 DEF CrcHit
  <2> QED BY <2>8 DEF both
<1> HIDE DEF w
<1>12. w \in Seq(Octets) /\ Len(w) = n + Len(f.pad) + size
       /\ n + Len(f.pad) + 4 <= MAX_FRAME_BYTES
       /\ (~f.damaged => CrcHit(w))
  BY <1>2, <1>5, <1>6, <1>9, <1>10, <1>11 DEF Joined
<1>13. ASSUME NEW k \in 1 .. n PROVE w[k] = s[k]
  <2>1. k \in 1 .. Len(b)
    BY <1>8, <1>10
  <2>2. w[k] = b[k]
    BY <1>5, <1>9, <2>1 DEF Joined
  <2> QED BY <1>10, <2>2
<1> QED BY <1>3, <1>12, <1>13 DEF w, s, n, size

\* The fields of the header on the wire.
LEMMA FieldsAre ==
    ASSUME NEW f, WellMade(f)
    PROVE  LET w == Wire(f) IN
           /\ \A k \in 1 .. 6 : w[k] = f.dst[k] /\ w[6 + k] = f.src[k]
           /\ f.vlan => w[13] = 129 /\ w[14] = 0 /\ w[15] = f.tci[1] /\ w[16] = f.tci[2]
                        /\ w[17] = f.type[1] /\ w[18] = f.type[2]
           /\ ~f.vlan => w[13] = f.type[1] /\ w[14] = f.type[2]
           /\ \A k \in 1 .. Len(f.payload) : w[HeaderLen(f) + k] = f.payload[k]
<1> DEFINE w == Wire(f)
           s == Serialized(f)
           p == Len(f.payload)
           h == HeaderLen(f)
<1>1. /\ \A k \in 1 .. 6 : s[k] = f.dst[k] /\ s[6 + k] = f.src[k]
      /\ f.vlan => s[13] = 129 /\ s[14] = 0 /\ \A k \in 1 .. 2 : s[14 + k] = f.tci[k]
      /\ \A k \in 1 .. 2 : s[h - 2 + k] = f.type[k]
      /\ \A k \in 1 .. p : s[h + k] = f.payload[k]
  BY SerializedIs
<1>2. /\ h \in {14, 18} /\ (f.vlan <=> h = 18) /\ \A k \in 1 .. h + p : w[k] = s[k]
  BY WireIs
<1>3. p \in Nat /\ f.vlan \in BOOLEAN
  BY DEF WellMade
<1> HIDE DEF w, s, p, h
<1>4. ASSUME NEW k \in 1 .. 6 PROVE w[k] = f.dst[k] /\ w[6 + k] = f.src[k]
  <2>1. k \in 1 .. h + p /\ 6 + k \in 1 .. h + p
    BY <1>2, <1>3
  <2> QED BY <1>1, <1>2, <2>1
<1>5. ASSUME f.vlan
      PROVE  w[13] = 129 /\ w[14] = 0 /\ w[15] = f.tci[1] /\ w[16] = f.tci[2]
             /\ w[17] = f.type[1] /\ w[18] = f.type[2]
  <2>1. /\ 13 \in 1 .. h + p /\ 14 \in 1 .. h + p /\ 15 \in 1 .. h + p
        /\ 16 \in 1 .. h + p /\ 17 \in 1 .. h + p /\ 18 \in 1 .. h + p
    BY <1>2, <1>3, <1>5
  <2>2. s[14 + 1] = f.tci[1] /\ s[14 + 2] = f.tci[2]
    BY <1>1, <1>5
  <2>3. s[18 - 2 + 1] = f.type[1] /\ s[18 - 2 + 2] = f.type[2]
    BY <1>1, <1>2, <1>5
  <2> QED BY <1>1, <1>2, <1>5, <2>1, <2>2, <2>3
<1>6. ASSUME ~f.vlan PROVE w[13] = f.type[1] /\ w[14] = f.type[2]
  <2>1. h = 14 /\ 13 \in 1 .. h + p /\ 14 \in 1 .. h + p
    BY <1>2, <1>3, <1>6
  <2>2. s[14 - 2 + 1] = f.type[1] /\ s[14 - 2 + 2] = f.type[2]
    BY <1>1, <2>1
  <2> QED BY <1>2, <2>1, <2>2
<1>7. ASSUME NEW k \in 1 .. p PROVE w[h + k] = f.payload[k]
  <2>1. h + k \in 1 .. h + p
    BY <1>2, <1>3
  <2> QED BY <1>1, <1>2, <2>1
<1> QED BY <1>4, <1>5, <1>6, <1>7 DEF w, p, h

\* The stream of a frame.
LEMMA StreamIs ==
    ASSUME NEW f \in FRAMES, NEW filler \in FILLERS, CleanStreams
    PROVE  LET s == build_stream(f, filler)
               n == Len(filler)
           IN
           /\ s \in Seq(Octets) /\ n \in Nat /\ Len(s) = n + 8 + Len(Wire(f))
           /\ \A k \in 1 .. n : s[k] = filler[k] /\ s[k] # PREAMBLE_BYTE
           /\ \A k \in 1 .. 7 : s[n + k] = PREAMBLE_BYTE
           /\ s[n + 8] = SFD_BYTE
           /\ \A k \in 1 .. Len(Wire(f)) : s[n + 8 + k] = Wire(f)[k]
<1> DEFINE preamble == [i \in 1 .. 7 |-> PREAMBLE_BYTE]
           sfd == <<SFD_BYTE>>
           b == Body(f)
           trailer == IF f.damaged THEN Zeros(MAX_FRAME_BYTES) ELSE Fcs(b)
           front == filler \o preamble
           start == front \o sfd
           middle == start \o b
           s == middle \o trailer
           n == Len(filler)
           w == Wire(f)
<1>1. WellMade(f) /\ filler \in Seq(Octets) /\ \A k \in 1 .. n : filler[k] # PREAMBLE_BYTE
  BY DEF CleanStreams
<1>2. preamble \in Seq(Octets) /\ Len(preamble) = 7 /\ \A k \in 1 .. 7 : preamble[k] = PREAMBLE_BYTE
  BY DEF PREAMBLE_BYTE, Octets
<1>3. sfd \in Seq(Octets) /\ Len(sfd) = 1 /\ sfd[1] = SFD_BYTE
  BY DEF SFD_BYTE, Octets
<1>4. f.pad \in Seq(Octets) /\ Serialized(f) \in Seq(Octets) /\ f.damaged \in BOOLEAN
  BY <1>1, SerializedIs DEF WellMade
<1>5. b \in Seq(Octets)
  BY <1>4, JoinIs DEF Body
<1>6. trailer \in Seq(Octets)
  <2>1. CASE f.damaged
    <3>1. MAX_FRAME_BYTES \in Nat
      BY EtherAssumption
    <3> QED BY <2>1, <3>1, ZerosAre
  <2>2. CASE ~f.damaged
    <3>1. Fcs(b) \in Seq(Octets)
      BY <1>1, ShifterHas DEF WellMade
    <3> QED BY <2>2, <3>1
  <2> QED BY <1>4, <2>1, <2>2
<1>7. build_stream(f, filler) = s
  BY DEF build_stream, Body
<1>8. w = b \o trailer
  BY DEF Wire
<1> HIDE DEF preamble, sfd, b, trailer
<1>9. Joined(front, filler, preamble) /\ front \in Seq(Octets)
  BY <1>1, <1>2, JoinIs
<1> HIDE DEF front
<1>10. Joined(start, front, sfd) /\ start \in Seq(Octets)
  BY <1>3, <1>9, JoinIs
<1> HIDE DEF start
<1>11. Joined(middle, start, b) /\ middle \in Seq(Octets)
  BY <1>5, <1>10, JoinIs
<1> HIDE DEF middle
<1>12. Joined(s, middle, trailer) /\ s \in Seq(Octets)
  BY <1>6, <1>11, JoinIs
<1>13. Joined(w, b, trailer) /\ w \in Seq(Octets)
  BY <1>5, <1>6, <1>8, JoinIs
<1> HIDE DEF s, w
<1>14. n \in Nat /\ Len(b) \in Nat /\ Len(trailer) \in Nat
  BY <1>1, <1>5, <1>6
<1> HIDE DEF n
<1>15. /\ Len(front) = n + 7 /\ \A k \in 1 .. n : front[k] = filler[k]
       /\ \A k \in 1 .. 7 : front[n + k] = PREAMBLE_BYTE
  BY <1>2, <1>9 DEF Joined, n
<1>16. /\ Len(start) = n + 8 /\ start[n + 8] = SFD_BYTE
       /\ \A k \in 1 .. n + 7 : start[k] = front[k]
  <2>1. 1 \in 1 .. Len(sfd)
    BY <1>3
  <2>2. start[n + 7 + 1] = sfd[1]
    BY <1>10, <1>15, <2>1 DEF Joined
  <2>3. n + 7 + 1 = n + 8
    BY <1>14
  <2>4. Len(start) = n + 8 /\ \A k \in 1 .. n + 7 : start[k] = front[k]
    <3>1. Len(start) = Len(front) + 1 /\ \A k \in 1 .. Len(front) : start[k] = front[k]
      BY <1>3, <1>10 DEF Joined
    <3>2. n + 7 + 1 = n + 8
      BY <1>14
    <3> QED BY <1>15, <3>1, <3>2
  <2> QED BY <1>3, <2>2, <2>3, <2>4
<1>17. /\ Len(middle) = n + 8 + Len(b)
       /\ \A k \in 1 .. n + 8 : middle[k] = start[k]
       /\ \A k \in 1 .. Len(b) : middle[n + 8 + k] = b[k]
  BY <1>11, <1>16 DEF Joined
<1>18. /\ Len(s) = n + 8 + Len(b) + Len(trailer)
       /\ \A k \in 1 .. n + 8 + Len(b) : s[k] = middle[k]
       /\ \A k \in 1 .. Len(trailer) : s[n + 8 + Len(b) + k] = trailer[k]
  BY <1>12, <1>17 DEF Joined
<1>19. /\ Len(w) = Len(b) + Len(trailer)
       /\ \A k \in 1 .. Len(b) : w[k] = b[k]
       /\ \A k \in 1 .. Len(trailer) : w[Len(b) + k] = trailer[k]
  BY <1>13 DEF Joined
<1>20. ASSUME NEW k \in 1 .. n + 8 PROVE s[k] = start[k]
  <2>1. k \in 1 .. n + 8 + Len(b)
    BY <1>14
  <2> QED BY <1>17, <1>18, <2>1
<1>21. ASSUME NEW k \in 1 .. n PROVE s[k] = filler[k] /\ s[k] # PREAMBLE_BYTE
  <2>1. k \in 1 .. n + 8 /\ k \in 1 .. n + 7
    BY <1>14
  <2> QED BY <1>1, <1>15, <1>16, <1>20, <2>1 DEF n
<1>22. ASSUME NEW k \in 1 .. 7 PROVE s[n + k] = PREAMBLE_BYTE
  <2>1. n + k \in 1 .. n + 8 /\ n + k \in 1 .. n + 7
    BY <1>14
  <2> QED BY <1>15, <1>16, <1>20, <2>1
<1>23. s[n + 8] = SFD_BYTE
  <2>1. n + 8 \in 1 .. n + 8
    BY <1>14
  <2> QED BY <1>16, <1>20, <2>1
<1>24. ASSUME NEW k \in 1 .. Len(w) PROVE s[n + 8 + k] = w[k]
  <2>1. CASE k <= Len(b)
    <3>1. k \in 1 .. Len(b) /\ n + 8 + k \in 1 .. n + 8 + Len(b)
      BY <1>14, <2>1
    <3> QED BY <1>17, <1>18, <1>19, <3>1
  <2>2. CASE ~(k <= Len(b))
    <3> DEFINE j == k - Len(b)
    <3>1. j \in 1 .. Len(trailer) /\ Len(b) + j = k /\ n + 8 + Len(b) + j = n + 8 + k
      BY <1>14, <1>19, <2>2
    <3> HIDE DEF j
    <3>2. w[Len(b) + j] = trailer[j] /\ s[n + 8 + Len(b) + j] = trailer[j]
      BY <1>18, <1>19, <3>1
    <3> QED BY <3>1, <3>2
  <2> QED BY <1>14, <2>1, <2>2
<1>25. Len(s) = n + 8 + Len(w)
  BY <1>14, <1>18, <1>19
<1> QED BY <1>7, <1>12, <1>14, <1>21, <1>22, <1>23, <1>24, <1>25 DEF n, w
-------------------------------------------------------------------------------
(* What a byte does to the header.                                         *)

\* What a step leaves of the header.
SameFields(d, n) ==
    /\ n.dst_sr = d.dst_sr /\ n.src_sr = d.src_sr /\ n.type_sr = d.type_sr
    /\ n.tci_sr = d.tci_sr

SameMode(d, n) == n.len_mode = d.len_mode /\ n.len_field = d.len_field

SameCounts(d, n) == n.hdr_cnt = d.hdr_cnt /\ n.pl_cnt = d.pl_cnt /\ n.pre_cnt = d.pre_cnt

\* The pulses fall; the registers stay.
LEMMA QuietKeeps ==
    ASSUME NEW d \in Framers
    PROVE  LET q == Quiet(d) IN
           /\ q \in Framers /\ q.o_pl = NoBeat /\ q.o_valid = FALSE /\ q.state = d.state
           /\ q.crc = d.crc /\ q.dly = d.dly /\ q.vlan_seen = d.vlan_seen
           /\ SameFields(d, q) /\ SameMode(d, q) /\ SameCounts(d, q)
<1>1. NoBeat \in PayloadBeats
  BY DEF NoBeat, PayloadBeats, Octets
<1> HIDE DEF NoBeat
<1>2. /\ Quiet(d) \in Framers /\ Quiet(d).o_pl = NoBeat /\ Quiet(d).o_valid = FALSE
      /\ Quiet(d).state = d.state /\ Quiet(d).crc = d.crc /\ Quiet(d).dly = d.dly
      /\ Quiet(d).vlan_seen = d.vlan_seen
  BY <1>1 DEF Quiet, Framers
<1>3. SameFields(d, Quiet(d))
  BY <1>1 DEF Quiet, Framers, SameFields
<1>4. SameMode(d, Quiet(d)) /\ SameCounts(d, Quiet(d))
  BY <1>1 DEF Quiet, Framers, SameMode, SameCounts
<1> QED BY <1>2, <1>3, <1>4

\* The framer in a frame, the byte in its check sequence already.
Taking(d, byte) == [Quiet(d) EXCEPT !.crc = Append(@, byte)]

\* It leaves all else of the framer alone.
LEMMA TakingIs ==
    ASSUME NEW d \in Framers, NEW byte \in Octets
    PROVE  LET q == Taking(d, byte) IN
           /\ q \in Framers /\ q.o_pl = NoBeat /\ q.o_valid = FALSE /\ q.state = d.state
           /\ q.crc = Append(d.crc, byte) /\ q.dly = d.dly /\ q.vlan_seen = d.vlan_seen
           /\ SameFields(d, q) /\ SameMode(d, q) /\ SameCounts(d, q)
<1> DEFINE calm == Quiet(d)
           crc == Append(calm.crc, byte)
           q == [calm EXCEPT !.crc = crc]
<1>1. /\ calm \in Framers /\ calm.o_pl = NoBeat /\ calm.o_valid = FALSE /\ calm.state = d.state
      /\ calm.crc = d.crc /\ calm.dly = d.dly /\ calm.vlan_seen = d.vlan_seen
      /\ SameFields(d, calm) /\ SameMode(d, calm) /\ SameCounts(d, calm)
  BY QuietKeeps
<1> HIDE DEF calm
<1>2. crc \in Seq(Octets)
  BY <1>1, Registers
<1>3. crc = Append(d.crc, byte)
  BY <1>1
<1> HIDE DEF crc
<1>4. /\ q \in Framers /\ q.o_pl = calm.o_pl /\ q.o_valid = calm.o_valid /\ q.state = calm.state
      /\ q.crc = crc /\ q.dly = calm.dly /\ q.vlan_seen = calm.vlan_seen
  BY <1>1, <1>2 DEF Framers
<1>5. SameFields(calm, q)
  BY <1>1 DEF Framers, SameFields
<1>6. SameMode(calm, q) /\ SameCounts(calm, q)
  BY <1>1 DEF Framers, SameMode, SameCounts
<1>7. Taking(d, byte) = q
  BY DEF Taking, crc, calm
<1> HIDE DEF q
<1> QED BY <1>1, <1>3, <1>4, <1>5, <1>6, <1>7 DEF SameFields, SameMode, SameCounts

\* What the counter of a field leaves, and where it goes.
LEMMA CountedKeeps ==
    ASSUME NEW d \in Framers, NEW n, NEW state \in HeaderStates \cup {"PAYLOAD"}
    PROVE  LET c == Counted(d, n, state) IN
           /\ c \in Framers /\ Untouched(d, c)
           /\ c.crc = d.crc /\ c.vlan_seen = d.vlan_seen
           /\ SameFields(d, c)
           /\ IF d.hdr_cnt = n - 1 THEN c.hdr_cnt = 0 /\ c.state = state
              ELSE c.hdr_cnt = d.hdr_cnt + 1 /\ c.state = d.state
<1> DEFINE last == [d EXCEPT !.hdr_cnt = 0, !.state = state]
           count == d.hdr_cnt + 1
           more == [d EXCEPT !.hdr_cnt = count]
           c == Counted(d, n, state)
<1>1. c = IF d.hdr_cnt = n - 1 THEN last ELSE more
  BY DEF Counted
<1>2. c \in Framers /\ Untouched(d, c)
  BY CountedIs
<1>3. /\ last.crc = d.crc /\ last.vlan_seen = d.vlan_seen /\ last.hdr_cnt = 0
      /\ last.state = state
  BY DEF Framers
<1>4. SameFields(d, last)
  BY DEF Framers, SameFields
<1>5. /\ more.crc = d.crc /\ more.vlan_seen = d.vlan_seen /\ more.hdr_cnt = count
      /\ more.state = d.state
  <2> HIDE DEF count
  <2> QED BY DEF Framers
<1>6. SameFields(d, more)
  <2> HIDE DEF count
  <2> QED BY DEF Framers, SameFields
<1> HIDE DEF last, more, c
<1> QED BY <1>1, <1>2, <1>3, <1>4, <1>5, <1>6 DEF c

\* What a register holds after another byte.
LEMMA ShifterTakes ==
    ASSUME NEW n \in Nat \ {0}, NEW sr \in Shifters(n), NEW byte \in Octets
    PROVE  LET next == Shifted(sr, byte) IN
           /\ next \in Shifters(n) /\ next[n] = byte
           /\ \A k \in 1 .. n - 1 : next[k] = sr[k + 1]
<1> DEFINE next == Shifted(sr, byte)
           tail == Tail(sr)
<1>1. sr \in Seq(Octets) /\ Len(sr) = n
  BY ShifterHas
<1>2. next \in Shifters(n)
  BY ShifterIs
<1>3. /\ tail \in Seq(Octets) /\ Len(tail) = n - 1
      /\ \A k \in 1 .. n - 1 : tail[k] = sr[k + 1]
  BY <1>1
<1>4. next = Append(tail, byte)
  BY DEF Shifted
<1> HIDE DEF tail, next
<1>5. next[n] = byte /\ \A k \in 1 .. n - 1 : next[k] = tail[k]
  BY <1>3, <1>4
<1> QED BY <1>2, <1>3, <1>5 DEF next

\* A prefix of the wire, and one byte more of it.
LEMMA PrefixGrows ==
    ASSUME NEW w \in Seq(Octets), NEW c \in Nat, c < Len(w)
    PROVE  Append(SubSeq(w, 1, c), w[c + 1]) = SubSeq(w, 1, c + 1)
<1> DEFINE s == SubSeq(w, 1, c)
           t == SubSeq(w, 1, c + 1)
           m == Append(s, w[c + 1])
<1>1. s \in Seq(Octets) /\ Len(s) = c /\ \A k \in 1 .. c : s[k] = w[k]
  OBVIOUS
<1>2. t \in Seq(Octets) /\ Len(t) = c + 1 /\ \A k \in 1 .. c + 1 : t[k] = w[k]
  OBVIOUS
<1>3. w[c + 1] \in Octets
  OBVIOUS
<1> HIDE DEF s, t
<1>4. m \in Seq(Octets) /\ Len(m) = c + 1 /\ (\A k \in 1 .. c : m[k] = s[k]) /\ m[c + 1] = w[c + 1]
  BY <1>1, <1>3
<1> HIDE DEF m
<1>5. ASSUME NEW k \in 1 .. c + 1 PROVE m[k] = t[k]
  <2>1. CASE k = c + 1
    BY <1>2, <1>4, <2>1
  <2>2. CASE k # c + 1
    <3>1. k \in 1 .. c
      BY <2>2
    <3> QED BY <1>1, <1>2, <1>4, <3>1
  <2> QED BY <2>1, <2>2
<1>6. m = t
  BY <1>2, <1>4, <1>5
<1> QED BY <1>6 DEF m, s, t

\* The framer after the next byte of the wire of f.
After(d, f, c) == InFrame(Taking(d, Wire(f)[c + 1]), Wire(f)[c + 1])

\* The next byte of the wire, in a frame.
LEMMA NextIs ==
    ASSUME NEW d \in Framers, NEW f, WellMade(f), NEW c \in Nat, c < Len(Wire(f)),
           d.crc = SubSeq(Wire(f), 1, c)
    PROVE  LET q == Taking(d, Wire(f)[c + 1]) IN
           /\ Wire(f)[c + 1] \in Octets
           /\ q \in Framers /\ q.o_pl = NoBeat /\ q.o_valid = FALSE /\ q.state = d.state
           /\ q.crc = SubSeq(Wire(f), 1, c + 1) /\ q.dly = d.dly /\ q.vlan_seen = d.vlan_seen
           /\ SameFields(d, q) /\ SameMode(d, q) /\ SameCounts(d, q)
<1> DEFINE w == Wire(f)
<1>1. w \in Seq(Octets)
  BY WireIs
<1>2. c < Len(w)
  OBVIOUS
<1> HIDE DEF w
<1>3. w[c + 1] \in Octets
  BY <1>1, <1>2
<1>4. Append(SubSeq(w, 1, c), w[c + 1]) = SubSeq(w, 1, c + 1)
  BY <1>1, <1>2, PrefixGrows
<1>5. d.crc = SubSeq(w, 1, c)
  BY DEF w
<1> DEFINE byte == w[c + 1]
<1>6. byte \in Octets
  BY <1>3
<1>7. Append(d.crc, byte) = SubSeq(w, 1, c + 1)
  BY <1>4, <1>5
<1> HIDE DEF byte
<1>8. LET q == Taking(d, byte) IN
      /\ q \in Framers /\ q.o_pl = NoBeat /\ q.o_valid = FALSE /\ q.state = d.state
      /\ q.crc = Append(d.crc, byte) /\ q.dly = d.dly /\ q.vlan_seen = d.vlan_seen
      /\ SameFields(d, q) /\ SameMode(d, q) /\ SameCounts(d, q)
  BY <1>6, TakingIs
<1> QED BY <1>6, <1>7, <1>8 DEF byte, w

\* The destination address.
LEMMA DstByte ==
    ASSUME NEW d \in Framers, NEW f, WellMade(f), NEW c \in Nat, c < Len(Wire(f)),
           d.crc = SubSeq(Wire(f), 1, c), InDst(d, f, c)
    PROVE  InHeader(After(d, f, c), f, c + 1)
<1> DEFINE w == Wire(f)
           byte == w[c + 1]
           q == Taking(d, byte)
           sr == Shifted(q.dst_sr, byte)
           e == [q EXCEPT !.dst_sr = sr]
           n == Counted(e, 6, "SRC")
<1>1. /\ byte \in Octets /\ q \in Framers /\ q.state = "DST" /\ q.crc = SubSeq(w, 1, c + 1)
      /\ ~q.vlan_seen /\ q.hdr_cnt = c /\ q.dst_sr = d.dst_sr /\ q.dst_sr \in Shifters(6)
  <2>1. /\ byte \in Octets /\ q \in Framers /\ q.state = d.state /\ q.crc = SubSeq(w, 1, c + 1)
        /\ q.vlan_seen = d.vlan_seen /\ SameFields(d, q) /\ SameCounts(d, q)
    BY NextIs
  <2> HIDE DEF q, byte, w
  <2>2. q.dst_sr \in Shifters(6)
    BY <2>1, Registers
  <2> QED BY <2>1, <2>2 DEF InDst, SameFields, SameCounts
<1>2. c \in 0 .. 5 /\ \A k \in 1 .. c : d.dst_sr[6 - c + k] = w[k]
  BY DEF InDst
<1>3. \A k \in 1 .. 6 : w[k] = f.dst[k]
  BY FieldsAre
<1>4. f.dst \in Shifters(6)
  BY DEF WellMade
<1>5. After(d, f, c) = n
  BY <1>1, Zenon DEF After, InFrame
<1>6. byte = w[c + 1]
  OBVIOUS
<1> HIDE DEF w, byte, q
<1>7. sr \in Shifters(6) /\ sr[6] = byte /\ \A k \in 1 .. 5 : sr[k] = q.dst_sr[k + 1]
  BY <1>1, ShifterTakes
<1> HIDE DEF sr
<1>8. /\ e \in Framers /\ e.state = "DST" /\ e.crc = q.crc /\ e.vlan_seen = q.vlan_seen
      /\ e.hdr_cnt = c /\ e.dst_sr = sr
  BY <1>1, <1>7 DEF Framers
<1> HIDE DEF e
<1>9. /\ n.crc = e.crc /\ n.vlan_seen = e.vlan_seen /\ n.dst_sr = e.dst_sr
      /\ IF e.hdr_cnt = 6 - 1 THEN n.hdr_cnt = 0 /\ n.state = "SRC"
         ELSE n.hdr_cnt = e.hdr_cnt + 1 /\ n.state = e.state
  <2>1. "SRC" \in HeaderStates \cup {"PAYLOAD"}
    BY DEF HeaderStates
  <2>2. /\ n.crc = e.crc /\ n.vlan_seen = e.vlan_seen /\ SameFields(e, n)
        /\ IF e.hdr_cnt = 6 - 1 THEN n.hdr_cnt = 0 /\ n.state = "SRC"
           ELSE n.hdr_cnt = e.hdr_cnt + 1 /\ n.state = e.state
    BY <1>8, <2>1, CountedKeeps
  <2> QED BY <2>2 DEF SameFields
<1> HIDE DEF n
<1>10. ASSUME NEW k \in 1 .. c + 1 PROVE sr[6 - (c + 1) + k] = w[k]
  <2>1. CASE k = c + 1
    <3>1. 6 - (c + 1) + k = 6
      BY <1>2, <2>1
    <3> QED BY <1>6, <1>7, <2>1, <3>1
  <2>2. CASE k # c + 1
    <3>1. k \in 1 .. c /\ 6 - (c + 1) + k \in 1 .. 5 /\ 6 - (c + 1) + k + 1 = 6 - c + k
      BY <1>2, <2>2
    <3>2. sr[6 - (c + 1) + k] = q.dst_sr[6 - (c + 1) + k + 1]
      BY <1>7, <3>1
    <3> QED BY <1>1, <1>2, <3>1, <3>2
  <2> QED BY <2>1, <2>2
<1>11. CASE c = 5
  <2>1. \A k \in 1 .. 6 : sr[k] = f.dst[k]
    <3> SUFFICES ASSUME NEW k \in 1 .. 6 PROVE sr[k] = f.dst[k]
      OBVIOUS
    <3>1. k \in 1 .. c + 1 /\ 6 - (c + 1) + k = k
      BY <1>11
    <3> QED BY <1>3, <1>10, <3>1
  <2>2. sr = f.dst
    BY <1>4, <1>7, <2>1, SameShifters
  <2>3. InSrc(n, f, 6)
    BY <1>1, <1>8, <1>9, <1>11, <2>2 DEF InSrc
  <2> QED BY <1>1, <1>5, <1>8, <1>9, <1>11, <2>3 DEF InHeader, w
<1>12. CASE c # 5
  <2>1. \A k \in 1 .. c + 1 : n.dst_sr[6 - (c + 1) + k] = Wire(f)[k]
    BY <1>8, <1>9, <1>10 DEF w
  <2>2. c + 1 \in 0 .. 5 /\ n.state = "DST" /\ n.hdr_cnt = c + 1 /\ ~n.vlan_seen
    BY <1>1, <1>2, <1>8, <1>9, <1>12
  <2>3. InDst(n, f, c + 1)
    BY <2>1, <2>2 DEF InDst
  <2> QED BY <1>1, <1>5, <1>8, <1>9, <2>3 DEF InHeader, w
<1> QED BY <1>11, <1>12

\* The source address.
LEMMA SrcByte ==
    ASSUME NEW d \in Framers, NEW f, WellMade(f), NEW c \in Nat, c < Len(Wire(f)),
           d.crc = SubSeq(Wire(f), 1, c), InSrc(d, f, c)
    PROVE  InHeader(After(d, f, c), f, c + 1)
<1> DEFINE w == Wire(f)
           byte == w[c + 1]
           q == Taking(d, byte)
           sr == Shifted(q.src_sr, byte)
           e == [q EXCEPT !.src_sr = sr]
           n == Counted(e, 6, "TYPE")
<1>1. /\ byte \in Octets /\ q \in Framers /\ q.state = "SRC" /\ q.crc = SubSeq(w, 1, c + 1)
      /\ ~q.vlan_seen /\ q.hdr_cnt = c - 6 /\ q.src_sr = d.src_sr /\ q.src_sr \in Shifters(6)
      /\ q.dst_sr = f.dst
  <2>1. /\ byte \in Octets /\ q \in Framers /\ q.state = d.state /\ q.crc = SubSeq(w, 1, c + 1)
        /\ q.vlan_seen = d.vlan_seen /\ SameFields(d, q) /\ SameCounts(d, q)
    BY NextIs
  <2> HIDE DEF q, byte, w
  <2>2. q.src_sr \in Shifters(6)
    BY <2>1, Registers
  <2> QED BY <2>1, <2>2 DEF InSrc, SameFields, SameCounts
<1>2. c \in 6 .. 11 /\ \A k \in 1 .. c - 6 : d.src_sr[12 - c + k] = w[6 + k]
  BY DEF InSrc
<1>3. \A k \in 1 .. 6 : w[6 + k] = f.src[k]
  BY FieldsAre
<1>4. f.src \in Shifters(6)
  BY DEF WellMade
<1>5. After(d, f, c) = n
  BY <1>1, Zenon DEF After, InFrame
<1>6. byte = w[c + 1]
  OBVIOUS
<1> HIDE DEF w, byte, q
<1>7. sr \in Shifters(6) /\ sr[6] = byte /\ \A k \in 1 .. 5 : sr[k] = q.src_sr[k + 1]
  BY <1>1, ShifterTakes
<1> HIDE DEF sr
<1>8. /\ e \in Framers /\ e.state = "SRC" /\ e.crc = q.crc /\ e.vlan_seen = q.vlan_seen
      /\ e.hdr_cnt = c - 6 /\ e.src_sr = sr /\ e.dst_sr = f.dst
  BY <1>1, <1>7 DEF Framers
<1> HIDE DEF e
<1>9. /\ n.crc = e.crc /\ n.vlan_seen = e.vlan_seen /\ n.dst_sr = e.dst_sr /\ n.src_sr = e.src_sr
      /\ IF e.hdr_cnt = 6 - 1 THEN n.hdr_cnt = 0 /\ n.state = "TYPE"
         ELSE n.hdr_cnt = e.hdr_cnt + 1 /\ n.state = e.state
  <2>1. "TYPE" \in HeaderStates \cup {"PAYLOAD"}
    BY DEF HeaderStates
  <2>2. /\ n.crc = e.crc /\ n.vlan_seen = e.vlan_seen /\ SameFields(e, n)
        /\ IF e.hdr_cnt = 6 - 1 THEN n.hdr_cnt = 0 /\ n.state = "TYPE"
           ELSE n.hdr_cnt = e.hdr_cnt + 1 /\ n.state = e.state
    BY <1>8, <2>1, CountedKeeps
  <2> QED BY <2>2 DEF SameFields
<1> HIDE DEF n
<1>10. ASSUME NEW k \in 1 .. c - 5 PROVE sr[12 - (c + 1) + k] = w[6 + k]
  <2>1. CASE k = c - 5
    <3>1. 12 - (c + 1) + k = 6 /\ c + 1 = 6 + k
      BY <1>2, <2>1
    <3> QED BY <1>6, <1>7, <2>1, <3>1
  <2>2. CASE k # c - 5
    <3>1. k \in 1 .. c - 6 /\ 12 - (c + 1) + k \in 1 .. 5 /\ 12 - (c + 1) + k + 1 = 12 - c + k
      BY <1>2, <2>2
    <3>2. sr[12 - (c + 1) + k] = q.src_sr[12 - (c + 1) + k + 1]
      BY <1>7, <3>1
    <3> QED BY <1>1, <1>2, <3>1, <3>2
  <2> QED BY <2>1, <2>2
<1>11. CASE c = 11
  <2>1. \A k \in 1 .. 6 : sr[k] = f.src[k]
    <3> SUFFICES ASSUME NEW k \in 1 .. 6 PROVE sr[k] = f.src[k]
      OBVIOUS
    <3>1. k \in 1 .. c - 5 /\ 12 - (c + 1) + k = k
      BY <1>11
    <3> QED BY <1>3, <1>10, <3>1
  <2>2. sr = f.src
    BY <1>4, <1>7, <2>1, SameShifters
  <2>3. InType(n, f, 12)
    BY <1>1, <1>8, <1>9, <1>11, <2>2 DEF InType, AddressesTaken
  <2> QED BY <1>1, <1>5, <1>8, <1>9, <1>11, <2>3 DEF InHeader, w
<1>12. CASE c # 11
  <2>1. c + 1 - 6 = c - 5
    BY <1>2
  <2>2. \A k \in 1 .. c + 1 - 6 : n.src_sr[12 - (c + 1) + k] = Wire(f)[6 + k]
    BY <1>8, <1>9, <1>10, <2>1 DEF w
  <2>3. /\ c + 1 \in 6 .. 11 /\ n.state = "SRC" /\ n.hdr_cnt = c + 1 - 6 /\ ~n.vlan_seen
        /\ n.dst_sr = f.dst
    BY <1>1, <1>2, <1>8, <1>9, <1>12
  <2>4. InSrc(n, f, c + 1)
    BY <2>2, <2>3 DEF InSrc
  <2> QED BY <1>1, <1>5, <1>8, <1>9, <2>4 DEF InHeader, w
<1> QED BY <1>11, <1>12

\* What a byte of the type field does.
LEMMA TypeByteTakes ==
    ASSUME NEW d \in Framers, d.state = "TYPE", NEW byte \in Octets
    PROVE  LET t == TypeByte(d, byte)
               next == Shifted(d.type_sr, byte)
           IN
           /\ t \in Framers /\ Untouched(d, t) /\ t.crc = d.crc
           /\ t.dst_sr = d.dst_sr /\ t.src_sr = d.src_sr /\ t.tci_sr = d.tci_sr
           /\ t.type_sr = next
           /\ d.hdr_cnt = 0 => t.state = "TYPE" /\ t.hdr_cnt = 1 /\ t.vlan_seen = d.vlan_seen
           /\ d.hdr_cnt = 1 =>
                IF ~d.vlan_seen /\ next = VLAN_TPID
                THEN t.state = "VLAN" /\ t.hdr_cnt = 0 /\ t.vlan_seen
                ELSE /\ t.state = "PAYLOAD" /\ t.vlan_seen = d.vlan_seen
                     /\ t.len_mode = (Number(next) <= MAX_LEN_FIELD)
                     /\ t.len_field = Number(next)
<1> DEFINE next == Shifted(d.type_sr, byte)
           e == [d EXCEPT !.type_sr = next]
           number == Number(next)
           short == number <= MAX_LEN_FIELD
           tag == Counted(e, 2, "VLAN")
           body == Counted(e, 2, "PAYLOAD")
           tagged == [tag EXCEPT !.vlan_seen = TRUE]
           typed == [body EXCEPT !.len_mode = short, !.len_field = number]
           more == Counted(e, 2, "TYPE")
           t == TypeByte(d, byte)
           first == d.hdr_cnt = 1 /\ ~d.vlan_seen /\ next = VLAN_TPID
<1>1. t = IF first THEN tagged ELSE IF d.hdr_cnt = 1 THEN typed ELSE more
  BY DEF TypeByte
<1>2. t \in Framers /\ Untouched(d, t)
  BY TypeByteIs
<1>3. next \in Shifters(2) /\ d.vlan_seen \in BOOLEAN
  BY Registers, ShifterIs
<1>4. first <=> d.hdr_cnt = 1 /\ ~d.vlan_seen /\ next = VLAN_TPID
  OBVIOUS
<1>5. short = (Number(next) <= MAX_LEN_FIELD) /\ number = Number(next)
  OBVIOUS
<1> HIDE DEF next, number, short, t, first
<1>6. e \in Framers /\ e.type_sr = next /\ e.crc = d.crc /\ e.hdr_cnt = d.hdr_cnt
      /\ e.vlan_seen = d.vlan_seen /\ e.state = "TYPE"
  BY <1>3 DEF Framers
<1>7. e.dst_sr = d.dst_sr /\ e.src_sr = d.src_sr /\ e.tci_sr = d.tci_sr
  BY <1>3 DEF Framers
<1> HIDE DEF e
<1>8. {"VLAN", "PAYLOAD", "TYPE"} \subseteq HeaderStates \cup {"PAYLOAD"}
  BY DEF HeaderStates
<1>9. /\ tag \in Framers /\ tag.crc = e.crc /\ SameFields(e, tag)
      /\ d.hdr_cnt = 1 => tag.hdr_cnt = 0 /\ tag.state = "VLAN"
  BY <1>6, <1>8, CountedKeeps
<1>10. /\ body \in Framers /\ body.crc = e.crc /\ SameFields(e, body) /\ body.vlan_seen = e.vlan_seen
       /\ d.hdr_cnt = 1 => body.state = "PAYLOAD"
  BY <1>6, <1>8, CountedKeeps
<1>11. /\ more.crc = e.crc /\ SameFields(e, more) /\ more.vlan_seen = e.vlan_seen
       /\ d.hdr_cnt = 0 => more.state = "TYPE" /\ more.hdr_cnt = 1
  BY <1>6, <1>8, CountedKeeps
<1> HIDE DEF tag, body, more
<1>12. /\ tagged.crc = tag.crc /\ tagged.state = tag.state /\ tagged.hdr_cnt = tag.hdr_cnt
       /\ tagged.vlan_seen = TRUE /\ SameFields(tag, tagged)
  BY <1>9 DEF Framers, SameFields
<1>13. /\ typed.crc = body.crc /\ typed.state = body.state
       /\ typed.vlan_seen = body.vlan_seen /\ SameFields(body, typed)
       /\ typed.len_mode = short /\ typed.len_field = number
  BY <1>10 DEF Framers, SameFields
<1> HIDE DEF tagged, typed
<1>14. CASE first
  BY <1>1, <1>2, <1>3, <1>4, <1>6, <1>7, <1>9, <1>12, <1>14 DEF SameFields, t, next
<1>15. CASE ~first /\ d.hdr_cnt = 1
  BY <1>1, <1>2, <1>4, <1>5, <1>6, <1>7, <1>10, <1>13, <1>15 DEF SameFields, t, next
<1>16. CASE ~first /\ d.hdr_cnt # 1
  BY <1>1, <1>2, <1>6, <1>7, <1>11, <1>16 DEF SameFields, t, next
<1> QED BY <1>14, <1>15, <1>16

\* The tag.
LEMMA TciByte ==
    ASSUME NEW d \in Framers, NEW f, WellMade(f), NEW c \in Nat, c < Len(Wire(f)),
           d.crc = SubSeq(Wire(f), 1, c), InTci(d, f, c)
    PROVE  InHeader(After(d, f, c), f, c + 1)
<1> DEFINE w == Wire(f)
           byte == w[c + 1]
           q == Taking(d, byte)
           sr == Shifted(q.tci_sr, byte)
           e == [q EXCEPT !.tci_sr = sr]
           n == Counted(e, 2, "TYPE")
<1>1. /\ byte \in Octets /\ q \in Framers /\ q.state = "VLAN" /\ q.crc = SubSeq(w, 1, c + 1)
      /\ q.vlan_seen /\ q.hdr_cnt = c - 14 /\ q.tci_sr = d.tci_sr /\ q.tci_sr \in Shifters(2)
      /\ q.dst_sr = f.dst /\ q.src_sr = f.src
  <2>1. /\ byte \in Octets /\ q \in Framers /\ q.state = d.state /\ q.crc = SubSeq(w, 1, c + 1)
        /\ q.vlan_seen = d.vlan_seen /\ SameFields(d, q) /\ SameCounts(d, q)
    BY NextIs
  <2> HIDE DEF q, byte, w
  <2>2. q.tci_sr \in Shifters(2)
    BY <2>1, Registers
  <2> QED BY <2>1, <2>2 DEF InTci, AddressesTaken, SameFields, SameCounts
<1>2. f.vlan /\ c \in 14 .. 15 /\ (c = 15 => d.tci_sr[2] = w[15])
  BY DEF InTci
<1>3. w[15] = f.tci[1] /\ w[16] = f.tci[2]
  BY <1>2, FieldsAre
<1>4. f.tci \in Shifters(2)
  BY <1>2 DEF WellMade
<1>5. After(d, f, c) = n
  BY <1>1, Zenon DEF After, InFrame
<1>6. byte = w[c + 1]
  OBVIOUS
<1> HIDE DEF w, byte, q
<1>7. sr \in Shifters(2) /\ sr[2] = byte /\ \A k \in 1 .. 1 : sr[k] = q.tci_sr[k + 1]
  BY <1>1, ShifterTakes
<1> HIDE DEF sr
<1>8. /\ e \in Framers /\ e.state = "VLAN" /\ e.crc = q.crc /\ e.vlan_seen = q.vlan_seen
      /\ e.hdr_cnt = c - 14 /\ e.tci_sr = sr /\ e.dst_sr = f.dst /\ e.src_sr = f.src
  BY <1>1, <1>7 DEF Framers
<1> HIDE DEF e
<1>9. /\ n.crc = e.crc /\ n.vlan_seen = e.vlan_seen /\ n.dst_sr = e.dst_sr /\ n.src_sr = e.src_sr
      /\ n.tci_sr = e.tci_sr
      /\ IF e.hdr_cnt = 2 - 1 THEN n.hdr_cnt = 0 /\ n.state = "TYPE"
         ELSE n.hdr_cnt = e.hdr_cnt + 1 /\ n.state = e.state
  <2>1. "TYPE" \in HeaderStates \cup {"PAYLOAD"}
    BY DEF HeaderStates
  <2>2. /\ n.crc = e.crc /\ n.vlan_seen = e.vlan_seen /\ SameFields(e, n)
        /\ IF e.hdr_cnt = 2 - 1 THEN n.hdr_cnt = 0 /\ n.state = "TYPE"
           ELSE n.hdr_cnt = e.hdr_cnt + 1 /\ n.state = e.state
    BY <1>8, <2>1, CountedKeeps
  <2> QED BY <2>2 DEF SameFields
<1> HIDE DEF n
<1>10. n.crc = SubSeq(Wire(f), 1, c + 1) /\ n.vlan_seen /\ AddressesTaken(n, f) /\ n.tci_sr = sr
  BY <1>1, <1>8, <1>9 DEF AddressesTaken, w
<1>11. CASE c = 15
  <2>1. \A k \in 1 .. 2 : sr[k] = f.tci[k]
    <3>1. sr[1] = q.tci_sr[1 + 1]
      BY <1>7
    <3>2. sr[1] = f.tci[1] /\ sr[2] = f.tci[2]
      BY <1>1, <1>2, <1>3, <1>6, <1>7, <1>11, <3>1
    <3> QED BY <3>2
  <2>2. sr = f.tci
    BY <1>4, <1>7, <2>1, SameShifters
  <2>3. InTagged(n, f, 16)
    BY <1>2, <1>8, <1>9, <1>10, <1>11, <2>2 DEF InTagged
  <2> QED BY <1>5, <1>10, <1>11, <2>3 DEF InHeader
<1>12. CASE c = 14
  <2>1. sr[2] = Wire(f)[15]
    BY <1>6, <1>7, <1>12 DEF w
  <2>2. InTci(n, f, 15)
    BY <1>2, <1>8, <1>9, <1>10, <1>12, <2>1 DEF InTci
  <2> QED BY <1>5, <1>10, <1>12, <2>2 DEF InHeader
<1> QED BY <1>2, <1>11, <1>12

\* Behind the header nothing is held back and nothing is out.
LEMMA HeaderEnds ==
    ASSUME NEW f, WellMade(f), NEW n \in Framers, n.state = "PAYLOAD",
           n.crc = SubSeq(Wire(f), 1, HeaderLen(f)), HeaderTaken(n, f),
           n.len_mode = Short(f), n.len_field = Number(f.type), n.dly = <<>>, n.pl_cnt = 0
    PROVE  InPayload(n, <<>>, f, HeaderLen(f))
<1> DEFINE h == HeaderLen(f)
           size == Len(f.payload)
           extra == Len(f.pad)
           whole == Len(Wire(f))
<1>1. /\ h \in {14, 18} /\ whole = h + size + extra + (IF f.damaged THEN MAX_FRAME_BYTES ELSE 4)
      /\ h + size + extra + 4 <= MAX_FRAME_BYTES
  BY WireIs
<1>2. size \in Nat /\ extra \in Nat /\ MAX_FRAME_BYTES \in Nat
  <2>1. f.payload \in Seq(Octets) /\ f.pad \in Seq(Octets)
    BY DEF WellMade
  <2> QED BY <2>1, EtherAssumption
<1>3. End(f) = IF f.damaged THEN MAX_FRAME_BYTES + 1 ELSE whole
  BY DEF End
<1>4. Heldback(f, h) = 0 /\ Out(f, h) = 0
  <2> HIDE DEF size, extra, whole
  <2>1. h - HeaderLen(f) = 0 /\ h - HeaderLen(f) - 4 < 0
    BY <1>1
  <2> QED BY <2>1 DEF Heldback, Out
<1> HIDE DEF size, extra, whole, h
<1>5. h \in h .. End(f) - 1
  <2>1. h \in Nat /\ h + size + extra \in Nat /\ h < h + size + extra + 4
    BY <1>1, <1>2
  <2>2. CASE f.damaged
    <3>1. End(f) = MAX_FRAME_BYTES + 1
      BY <1>3, <2>2
    <3>2. h + 4 <= MAX_FRAME_BYTES
      BY <1>1, <1>2, <2>1
    <3> QED BY <1>2, <2>1, <3>1, <3>2
  <2>3. CASE ~f.damaged
    <3>1. End(f) = h + size + extra + 4
      BY <1>1, <1>3, <2>3
    <3> QED BY <2>1, <3>1
  <2> QED BY <2>2, <2>3
<1>6. HeardSoFar(<<>>, f, 0)
  BY DEF HeardSoFar
<1>7. Len(n.dly) = 0 /\ n.crc = SubSeq(Wire(f), 1, h)
  BY DEF h
<1>8. HoldsBack(n, f, HeaderLen(f))
  BY <1>4, <1>7 DEF HoldsBack, h
<1> QED BY <1>4, <1>5, <1>6, <1>7, <1>8 DEF InPayload, h

\* What announces a tag, and the number of a type.
LEMMA TypeRead ==
    ASSUME NEW f, WellMade(f), NEW d \in Framers, NEW byte \in Octets,
           NEW c \in {13, 17}, byte = Wire(f)[c + 1], d.type_sr[2] = Wire(f)[c]
    PROVE  LET next == Shifted(d.type_sr, byte) IN
           /\ next \in Shifters(2)
           /\ c = HeaderLen(f) - 1 => next = f.type
           /\ c = 13 => (f.vlan <=> next = VLAN_TPID)
<1> DEFINE next == Shifted(d.type_sr, byte)
           w == Wire(f)
<1>1. next \in Shifters(2) /\ next[2] = byte /\ \A k \in 1 .. 1 : next[k] = d.type_sr[k + 1]
  BY Registers, ShifterTakes
<1>2. next[1] = d.type_sr[1 + 1]
  BY <1>1
<1>3. next[1] = w[c] /\ next[2] = w[c + 1]
  BY <1>1, <1>2
<1>4. /\ f.vlan => w[13] = 129 /\ w[14] = 0 /\ w[17] = f.type[1] /\ w[18] = f.type[2]
      /\ ~f.vlan => w[13] = f.type[1] /\ w[14] = f.type[2]
  BY FieldsAre
<1>5. f.vlan \in BOOLEAN /\ f.type \in Shifters(2) /\ (~f.vlan => f.type # VLAN_TPID)
  BY DEF WellMade
<1>6. HeaderLen(f) = IF f.vlan THEN 18 ELSE 14
  BY DEF HeaderLen
<1>7. VLAN_TPID \in Shifters(2) /\ VLAN_TPID[1] = 129 /\ VLAN_TPID[2] = 0
  BY DEF VLAN_TPID, Shifters, Octets
<1> HIDE DEF next, w, VLAN_TPID
<1>8. ASSUME c = HeaderLen(f) - 1 PROVE next = f.type
  <2>1. next[1] = f.type[1] /\ next[2] = f.type[2]
    BY <1>3, <1>4, <1>5, <1>6, <1>8
  <2>2. \A k \in 1 .. 2 : next[k] = f.type[k]
    BY <2>1
  <2> QED BY <1>1, <1>5, <2>2, SameShifters
<1>9. ASSUME c = 13, f.vlan PROVE next = VLAN_TPID
  <2>1. next[1] = 129 /\ next[2] = 0
    BY <1>3, <1>4, <1>9
  <2>2. \A k \in 1 .. 2 : next[k] = VLAN_TPID[k]
    BY <1>7, <2>1
  <2> QED BY <1>1, <1>7, <2>2, SameShifters
<1>10. ASSUME c = 13, ~f.vlan PROVE next # VLAN_TPID
  <2>1. next = f.type
    BY <1>6, <1>8, <1>10
  <2> QED BY <1>5, <1>10, <2>1
<1> QED BY <1>1, <1>5, <1>8, <1>9, <1>10 DEF next

\* A byte of the field that tells a tag from a type is in.
TypeTaken(d, f, c) ==
    LET byte == Wire(f)[c + 1]
        next == Shifted(d.type_sr, byte)
        n == After(d, f, c)
    IN
    /\ byte \in Octets /\ n \in Framers
    /\ n.crc = SubSeq(Wire(f), 1, c + 1) /\ AddressesTaken(n, f) /\ n.tci_sr = d.tci_sr
    /\ n.type_sr = next /\ n.dly = d.dly /\ n.pl_cnt = d.pl_cnt
    /\ d.hdr_cnt = 0 => n.state = "TYPE" /\ n.hdr_cnt = 1 /\ n.vlan_seen = d.vlan_seen
    /\ d.hdr_cnt = 1 =>
         IF ~d.vlan_seen /\ next = VLAN_TPID
         THEN n.state = "VLAN" /\ n.hdr_cnt = 0 /\ n.vlan_seen
         ELSE /\ n.state = "PAYLOAD" /\ n.vlan_seen = d.vlan_seen
              /\ n.len_mode = (Number(next) <= MAX_LEN_FIELD)
              /\ n.len_field = Number(next)

\* The type field, in a frame.
LEMMA TypeNext ==
    ASSUME NEW d \in Framers, NEW f, WellMade(f), NEW c \in Nat, c < Len(Wire(f)),
           d.crc = SubSeq(Wire(f), 1, c), d.state = "TYPE", AddressesTaken(d, f)
    PROVE  TypeTaken(d, f, c)
<1> DEFINE w == Wire(f)
           byte == w[c + 1]
           q == Taking(d, byte)
           n == TypeByte(q, byte)
           next == Shifted(q.type_sr, byte)
<1>1. /\ byte \in Octets /\ q \in Framers /\ q.state = "TYPE" /\ q.crc = SubSeq(w, 1, c + 1)
      /\ q.dly = d.dly /\ q.vlan_seen = d.vlan_seen /\ SameFields(d, q) /\ SameCounts(d, q)
  BY NextIs
<1>2. After(d, f, c) = n
  BY <1>1, Zenon DEF After, InFrame
<1> HIDE DEF q, byte
<1>3. /\ n \in Framers /\ Untouched(q, n) /\ n.crc = q.crc
      /\ n.dst_sr = q.dst_sr /\ n.src_sr = q.src_sr /\ n.tci_sr = q.tci_sr
      /\ n.type_sr = next
      /\ q.hdr_cnt = 0 => n.state = "TYPE" /\ n.hdr_cnt = 1 /\ n.vlan_seen = q.vlan_seen
      /\ q.hdr_cnt = 1 =>
           IF ~q.vlan_seen /\ next = VLAN_TPID
           THEN n.state = "VLAN" /\ n.hdr_cnt = 0 /\ n.vlan_seen
           ELSE /\ n.state = "PAYLOAD" /\ n.vlan_seen = q.vlan_seen
                /\ n.len_mode = (Number(next) <= MAX_LEN_FIELD)
                /\ n.len_field = Number(next)
  BY <1>1, TypeByteTakes
<1>4. next = Shifted(d.type_sr, byte)
  BY <1>1 DEF SameFields
<1> HIDE DEF n, next
<1>5. /\ n \in Framers /\ n.crc = SubSeq(w, 1, c + 1) /\ n.dly = d.dly /\ n.pl_cnt = d.pl_cnt
      /\ n.tci_sr = d.tci_sr /\ n.type_sr = next /\ AddressesTaken(n, f)
  BY <1>1, <1>3 DEF Untouched, SameFields, SameCounts, AddressesTaken
<1>6. q.hdr_cnt = d.hdr_cnt /\ q.vlan_seen = d.vlan_seen
  BY <1>1 DEF SameCounts
<1> HIDE DEF VLAN_TPID, w
<1> QED BY <1>1, <1>2, <1>3, <1>4, <1>5, <1>6 DEF TypeTaken, byte, w

\* The field that tells a tag from a type.
LEMMA TypeStep ==
    ASSUME NEW d \in Framers, NEW f, WellMade(f), NEW c \in Nat, c < Len(Wire(f)),
           d.crc = SubSeq(Wire(f), 1, c), InType(d, f, c), d.dly = <<>>, d.pl_cnt = 0
    PROVE  LET n == After(d, f, c) IN
           IF c + 1 < HeaderLen(f) THEN InHeader(n, f, c + 1)
           ELSE n \in Framers /\ InPayload(n, <<>>, f, c + 1)
<1> DEFINE w == Wire(f)
           byte == w[c + 1]
           next == Shifted(d.type_sr, byte)
           n == After(d, f, c)
<1>1. /\ c \in 12 .. 13 /\ d.state = "TYPE" /\ d.hdr_cnt = c - 12 /\ ~d.vlan_seen
      /\ AddressesTaken(d, f) /\ (c = 13 => d.type_sr[2] = w[13])
  BY DEF InType
<1>2. /\ byte \in Octets /\ n \in Framers
      /\ n.crc = SubSeq(w, 1, c + 1) /\ AddressesTaken(n, f)
      /\ n.type_sr = next /\ n.dly = d.dly /\ n.pl_cnt = d.pl_cnt
      /\ d.hdr_cnt = 0 => n.state = "TYPE" /\ n.hdr_cnt = 1 /\ n.vlan_seen = d.vlan_seen
      /\ d.hdr_cnt = 1 =>
           IF ~d.vlan_seen /\ next = VLAN_TPID
           THEN n.state = "VLAN" /\ n.hdr_cnt = 0 /\ n.vlan_seen
           ELSE /\ n.state = "PAYLOAD" /\ n.vlan_seen = d.vlan_seen
                /\ n.len_mode = (Number(next) <= MAX_LEN_FIELD)
                /\ n.len_field = Number(next)
  <2>1. TypeTaken(d, f, c)
    BY <1>1, TypeNext
  <2> QED BY <2>1 DEF TypeTaken
<1>3. f.vlan \in BOOLEAN /\ HeaderLen(f) = IF f.vlan THEN 18 ELSE 14
  BY DEF WellMade, HeaderLen
<1>4. byte = w[c + 1]
  OBVIOUS
<1> HIDE DEF n, byte, w
<1>5. CASE c = 12
  <2>1. d.type_sr \in Shifters(2)
    BY Registers
  <2>2. next[2] = byte
    BY <1>2, <2>1, ShifterTakes
  <2> HIDE DEF next
  <2>3. InType(n, f, 13)
    BY <1>1, <1>2, <1>4, <1>5, <2>2 DEF InType, w
  <2> QED BY <1>2, <1>3, <1>5, <2>3 DEF InHeader, n, w
<1>6. CASE c = 13
  <2>1. next \in Shifters(2) /\ (c = HeaderLen(f) - 1 => next = f.type)
        /\ (c = 13 => (f.vlan <=> next = VLAN_TPID))
    BY <1>1, <1>2, <1>4, <1>6, TypeRead DEF w
  <2> HIDE DEF next, VLAN_TPID
  <2>2. CASE f.vlan
    <3>1. InTci(n, f, 14)
      BY <1>1, <1>2, <1>6, <2>1, <2>2 DEF InTci
    <3> QED BY <1>2, <1>3, <1>6, <2>2, <3>1 DEF InHeader, n, w
  <2>3. CASE ~f.vlan
    <3>1. /\ n.state = "PAYLOAD" /\ n.vlan_seen = FALSE /\ n.type_sr = f.type
          /\ n.len_mode = Short(f) /\ n.len_field = Number(f.type)
          /\ HeaderLen(f) = 14
      <4>1. d.hdr_cnt = 1 /\ HeaderLen(f) = 14 /\ c = HeaderLen(f) - 1
        BY <1>1, <1>3, <1>6, <2>3
      <4>2. next = f.type /\ next # VLAN_TPID
        BY <1>6, <2>1, <2>3, <4>1
      <4> QED BY <1>1, <1>2, <4>1, <4>2 DEF Short
    <3>2. HeaderTaken(n, f)
      BY <1>2, <1>3, <2>3, <3>1 DEF HeaderTaken
    <3>3. n.crc = SubSeq(Wire(f), 1, HeaderLen(f)) /\ n.dly = <<>> /\ n.pl_cnt = 0
      BY <1>2, <1>6, <3>1 DEF w
    <3>4. InPayload(n, <<>>, f, HeaderLen(f))
      BY <1>2, <3>1, <3>2, <3>3, HeaderEnds
    <3> QED BY <1>2, <1>6, <3>1, <3>4 DEF n
  <2> QED BY <1>3, <2>2, <2>3
<1> QED BY <1>1, <1>5, <1>6

\* The type behind a tag.
LEMMA TaggedStep ==
    ASSUME NEW d \in Framers, NEW f, WellMade(f), NEW c \in Nat, c < Len(Wire(f)),
           d.crc = SubSeq(Wire(f), 1, c), InTagged(d, f, c), d.dly = <<>>, d.pl_cnt = 0
    PROVE  LET n == After(d, f, c) IN
           IF c + 1 < HeaderLen(f) THEN InHeader(n, f, c + 1)
           ELSE n \in Framers /\ InPayload(n, <<>>, f, c + 1)
<1> DEFINE w == Wire(f)
           byte == w[c + 1]
           next == Shifted(d.type_sr, byte)
           n == After(d, f, c)
<1>1. /\ c \in 16 .. 17 /\ d.state = "TYPE" /\ d.hdr_cnt = c - 16 /\ d.vlan_seen /\ f.vlan
      /\ AddressesTaken(d, f) /\ (c = 17 => d.type_sr[2] = w[17]) /\ d.tci_sr = f.tci
  BY DEF InTagged
<1>2. /\ byte \in Octets /\ n \in Framers
      /\ n.crc = SubSeq(w, 1, c + 1) /\ AddressesTaken(n, f) /\ n.tci_sr = d.tci_sr
      /\ n.type_sr = next /\ n.dly = d.dly /\ n.pl_cnt = d.pl_cnt
      /\ d.hdr_cnt = 0 => n.state = "TYPE" /\ n.hdr_cnt = 1 /\ n.vlan_seen = d.vlan_seen
      /\ d.hdr_cnt = 1 =>
           IF ~d.vlan_seen /\ next = VLAN_TPID
           THEN n.state = "VLAN" /\ n.hdr_cnt = 0 /\ n.vlan_seen
           ELSE /\ n.state = "PAYLOAD" /\ n.vlan_seen = d.vlan_seen
                /\ n.len_mode = (Number(next) <= MAX_LEN_FIELD)
                /\ n.len_field = Number(next)
  <2>1. TypeTaken(d, f, c)
    BY <1>1, TypeNext
  <2> QED BY <2>1 DEF TypeTaken
<1>3. f.vlan \in BOOLEAN /\ HeaderLen(f) = 18 /\ d.vlan_seen \in BOOLEAN
  BY <1>1, Registers DEF WellMade, HeaderLen
<1>4. byte = w[c + 1]
  OBVIOUS
<1> HIDE DEF n, byte, w
<1>5. CASE c = 16
  <2>1. d.type_sr \in Shifters(2)
    BY Registers
  <2>2. next[2] = byte
    BY <1>2, <2>1, ShifterTakes
  <2> HIDE DEF next
  <2>3. n.state = "TYPE" /\ n.hdr_cnt = 1 /\ n.vlan_seen = d.vlan_seen
    <3>1. d.hdr_cnt = 0
      BY <1>1, <1>5
    <3> QED BY <1>2, <3>1
  <2>4. n.type_sr[2] = w[17] /\ n.tci_sr = f.tci
    BY <1>1, <1>2, <1>4, <1>5, <2>2
  <2>5. InTagged(n, f, 17)
    BY <1>1, <1>2, <2>3, <2>4 DEF InTagged, w
  <2> QED BY <1>2, <1>3, <1>5, <2>5 DEF InHeader, n, w
<1>6. CASE c = 17
  <2>1. next = f.type
    BY <1>1, <1>2, <1>3, <1>4, <1>6, TypeRead DEF w
  <2> HIDE DEF next, VLAN_TPID
  <2>2. /\ n.state = "PAYLOAD" /\ n.vlan_seen = f.vlan /\ n.type_sr = f.type
        /\ n.len_mode = Short(f) /\ n.len_field = Number(f.type)
    <3>1. d.hdr_cnt = 1 /\ ~(~d.vlan_seen /\ next = VLAN_TPID)
      BY <1>1, <1>6
    <3>2. /\ n.state = "PAYLOAD" /\ n.vlan_seen = d.vlan_seen
          /\ n.len_mode = (Number(next) <= MAX_LEN_FIELD) /\ n.len_field = Number(next)
      BY <1>2, <3>1
    <3>3. d.vlan_seen = f.vlan
      BY <1>1, <1>3
    <3> QED BY <1>2, <2>1, <3>2, <3>3 DEF Short
  <2>3. HeaderTaken(n, f)
    BY <1>1, <1>2, <2>2 DEF HeaderTaken
  <2>4. n.crc = SubSeq(Wire(f), 1, HeaderLen(f)) /\ n.dly = <<>> /\ n.pl_cnt = 0
    BY <1>2, <1>3, <1>6 DEF w
  <2>5. InPayload(n, <<>>, f, HeaderLen(f))
    BY <1>2, <2>2, <2>3, <2>4, HeaderEnds
  <2> QED BY <1>2, <1>3, <1>6, <2>5 DEF n
<1> QED BY <1>1, <1>5, <1>6

\* Lengths of the wire, and where the frame ends on it.
LEMMA Lengths ==
    ASSUME NEW f, WellMade(f)
    PROVE  /\ Wire(f) \in Seq(Octets) /\ Len(Wire(f)) \in Nat
           /\ HeaderLen(f) \in {14, 18} /\ End(f) \in Nat /\ HeaderLen(f) < End(f)
           /\ End(f) <= Len(Wire(f)) /\ MAX_FRAME_BYTES \in Nat
           /\ IF f.damaged THEN End(f) = MAX_FRAME_BYTES + 1
              ELSE End(f) = Len(Wire(f)) /\ Len(Wire(f)) <= MAX_FRAME_BYTES
<1> DEFINE h == HeaderLen(f)
           size == Len(f.payload)
           extra == Len(f.pad)
           whole == Len(Wire(f))
<1>1. /\ h \in {14, 18} /\ whole = h + size + extra + (IF f.damaged THEN MAX_FRAME_BYTES ELSE 4)
      /\ h + size + extra + 4 <= MAX_FRAME_BYTES /\ Wire(f) \in Seq(Octets)
  BY WireIs
<1>2. size \in Nat /\ extra \in Nat /\ MAX_FRAME_BYTES \in Nat
  <2>1. f.payload \in Seq(Octets) /\ f.pad \in Seq(Octets)
    BY DEF WellMade
  <2> QED BY <2>1, EtherAssumption
<1>3. End(f) = IF f.damaged THEN MAX_FRAME_BYTES + 1 ELSE whole
  BY DEF End
<1>4. f.damaged \in BOOLEAN
  BY DEF WellMade
<1> HIDE DEF size, extra, whole, h
<1>5. CASE f.damaged
  <2>1. h \in {14, 18} /\ whole \in Nat /\ h < End(f) /\ End(f) <= whole /\ End(f) \in Nat
    BY <1>1, <1>2, <1>3, <1>5
  <2> QED BY <1>1, <1>2, <1>3, <1>5, <2>1 DEF h, whole
<1>6. CASE ~f.damaged
  <2>1. h \in {14, 18} /\ whole \in Nat /\ h < End(f) /\ End(f) <= whole /\ End(f) \in Nat
        /\ whole <= MAX_FRAME_BYTES
    BY <1>1, <1>2, <1>3, <1>6
  <2> QED BY <1>1, <1>2, <1>3, <1>6, <2>1 DEF h, whole
<1> QED BY <1>4, <1>5, <1>6

\* A byte of the header.
LEMMA HeaderStep ==
    ASSUME NEW d \in Framers, NEW f, WellMade(f), NEW c \in Nat, c < HeaderLen(f),
           InHeader(d, f, c), d.dly = <<>>, d.pl_cnt = 0
    PROVE  LET n == After(d, f, c) IN
           IF c + 1 < HeaderLen(f) THEN InHeader(n, f, c + 1)
           ELSE n \in Framers /\ InPayload(n, <<>>, f, c + 1)
<1>1. c < Len(Wire(f)) /\ HeaderLen(f) \in {14, 18} /\ HeaderLen(f) = IF f.vlan THEN 18 ELSE 14
  BY Lengths DEF HeaderLen
<1>2. d.crc = SubSeq(Wire(f), 1, c)
  BY DEF InHeader
<1>3. CASE InDst(d, f, c)
  <2>1. InHeader(After(d, f, c), f, c + 1)
    BY <1>1, <1>2, <1>3, DstByte
  <2>2. c + 1 < HeaderLen(f)
    BY <1>1, <1>3 DEF InDst
  <2> QED BY <2>1, <2>2
<1>4. CASE InSrc(d, f, c)
  <2>1. InHeader(After(d, f, c), f, c + 1)
    BY <1>1, <1>2, <1>4, SrcByte
  <2>2. c + 1 < HeaderLen(f)
    BY <1>1, <1>4 DEF InSrc
  <2> QED BY <2>1, <2>2
<1>5. CASE InType(d, f, c)
  BY <1>1, <1>2, <1>5, TypeStep
<1>6. CASE InTci(d, f, c)
  <2>1. InHeader(After(d, f, c), f, c + 1)
    BY <1>1, <1>2, <1>6, TciByte
  <2>2. c + 1 < HeaderLen(f)
    BY <1>1, <1>6 DEF InTci
  <2> QED BY <2>1, <2>2
<1>7. CASE InTagged(d, f, c)
  BY <1>1, <1>2, <1>7, TaggedStep
<1> QED BY <1>3, <1>4, <1>5, <1>6, <1>7 DEF InHeader

-------------------------------------------------------------------------------
(* What a byte does to the payload.                                        *)

\* Which bytes are held back.
LEMMA HeldTakes ==
    ASSUME NEW h \in Holdbacks, NEW byte \in Octets
    PROVE  LET held == Held(h, byte)
               size == Len(h)
           IN
           IF size = 4
           THEN Len(held) = 4 /\ held[4] = byte /\ \A k \in 1 .. 3 : held[k] = h[k + 1]
           ELSE Len(held) = size + 1 /\ held[size + 1] = byte /\ \A k \in 1 .. size : held[k] = h[k]
<1> DEFINE size == Len(h)
           held == Held(h, byte)
<1>1. h \in Seq(Octets) /\ size \in 0 .. 4
  BY HoldsIs DEF Holdbacks
<1>2. CASE size = 4
  <2>1. h \in Shifters(4)
    BY <1>1, <1>2 DEF Shifters
  <2>2. held = Shifted(h, byte)
    BY <1>2 DEF Held
  <2> HIDE DEF held
  <2>3. held \in Shifters(4) /\ held[4] = byte /\ \A k \in 1 .. 4 - 1 : held[k] = h[k + 1]
    BY <2>1, <2>2, ShifterTakes
  <2>4. Len(held) = 4
    BY <2>3, ShifterHas
  <2>5. \A k \in 1 .. 3 : held[k] = h[k + 1]
    BY <2>3
  <2> QED BY <1>2, <2>3, <2>4, <2>5 DEF held
<1>3. CASE size # 4
  <2>1. held = Append(h, byte)
    BY <1>3 DEF Held
  <2> HIDE DEF held
  <2>2. Len(held) = size + 1 /\ held[size + 1] = byte /\ \A k \in 1 .. size : held[k] = h[k]
    BY <1>1, <2>1
  <2> QED BY <1>3, <2>2 DEF held
<1> QED BY <1>2, <1>3

\* A byte of the payload is in: what the framer has kept, let out and reported.
PayloadTaken(d, byte) ==
    LET n == PayloadByte(d, byte)
        hit == CrcHit(d.crc)
    IN
    /\ n \in Framers /\ n.crc = d.crc /\ n.vlan_seen = d.vlan_seen
    /\ SameFields(d, n) /\ SameMode(d, n)
    /\ n.dly = Held(d.dly, byte)
    /\ n.pl_cnt = d.pl_cnt + (IF Emits(d) THEN 1 ELSE 0)
    /\ Emits(d) => n.o_pl.valid /\ n.o_pl.data = d.dly[1]
    /\ ~Emits(d) => ~n.o_pl.valid
    /\ IF hit \/ Len(d.crc) > MAX_FRAME_BYTES
       THEN /\ n.state = "HUNT" /\ n.pre_cnt = 0 /\ n.o_valid
            /\ n.result.dst = d.dst_sr /\ n.result.src = d.src_sr
            /\ n.result.type = d.type_sr /\ n.result.vlan = d.vlan_seen
            /\ n.result.tci = d.tci_sr
       ELSE n.state = "PAYLOAD" /\ n.o_valid = d.o_valid

\* Everything a byte of the payload does.
LEMMA PayloadTakes ==
    ASSUME NEW d \in Framers, d.state = "PAYLOAD", NEW byte \in Octets
    PROVE  PayloadTaken(d, byte)
<1> DEFINE hit == CrcHit(d.crc)
           emits == Emits(d)
           count == d.pl_cnt + (IF emits THEN 1 ELSE 0)
           last == IsLast(d, hit, count)
           out == IF emits THEN [valid |-> TRUE, data |-> d.dly[1], last |-> last] ELSE NoBeat
           held == Held(d.dly, byte)
           e == [d EXCEPT !.dly = held, !.pl_cnt = count, !.o_pl = out]
           n == PayloadByte(d, byte)
<1>1. n \in Framers
  BY PayloadIs
<1>2. count \in Nat
  BY Registers
<1>3. held \in Holdbacks
  BY Registers, HeldIs
<1>4. emits \in BOOLEAN /\ last \in BOOLEAN
  BY DEF Emits, IsLast, CrcHit
<1>5. out \in PayloadBeats /\ (emits => out.valid /\ out.data = d.dly[1])
      /\ (~emits => ~out.valid)
  <2>1. CASE emits
    <3>1. d.dly[1] \in Octets
      BY <2>1, Registers DEF Emits, Holdbacks
    <3> QED BY <1>4, <2>1, <3>1 DEF PayloadBeats
  <2>2. CASE ~emits
    BY <2>2 DEF PayloadBeats, NoBeat, Octets
  <2> QED BY <2>1, <2>2
<1>6. n = IF hit \/ Len(d.crc) > MAX_FRAME_BYTES THEN Retired(e, hit, count) ELSE e
  BY Zenon DEF PayloadByte
<1> HIDE DEF held, out, hit, last, emits
<1>7. count = d.pl_cnt + (IF emits THEN 1 ELSE 0)
  OBVIOUS
<1> HIDE DEF count
<1>8. /\ e \in Framers /\ e.pl_cnt = count /\ e.dly = held /\ e.o_pl = out
      /\ e.state = "PAYLOAD" /\ e.o_valid = d.o_valid /\ e.crc = d.crc
      /\ e.vlan_seen = d.vlan_seen
  BY <1>2, <1>3, <1>5 DEF Framers
<1>9. SameFields(d, e) /\ SameMode(d, e)
  BY <1>2, <1>3, <1>5 DEF Framers, SameFields, SameMode
<1> HIDE DEF e, n
<1>10. CASE hit \/ Len(d.crc) > MAX_FRAME_BYTES
  <2> DEFINE runt == hit /\ Len(e.crc) < MIN_FRAME_BYTES
             res == [dst |-> e.dst_sr, src |-> e.src_sr, type |-> e.type_sr,
                     vlan |-> e.vlan_seen, tci |-> e.tci_sr, bytes |-> count,
                     fcs_ok |-> hit, oversize |-> ~hit, runt |-> runt]
             r == [e EXCEPT !.o_valid = TRUE, !.state = "HUNT", !.pre_cnt = 0, !.result = res]
  <2>1. n = r
    BY <1>6, <1>10, Zenon DEF Retired
  <2> HIDE DEF runt
  <2>2. /\ res.dst = e.dst_sr /\ res.src = e.src_sr /\ res.type = e.type_sr
        /\ res.vlan = e.vlan_seen /\ res.tci = e.tci_sr
    OBVIOUS
  <2> HIDE DEF res
  <2>3. /\ r.o_valid = TRUE /\ r.state = "HUNT" /\ r.result = res /\ r.pre_cnt = 0
        /\ r.pl_cnt = e.pl_cnt /\ r.dly = e.dly /\ r.o_pl = e.o_pl /\ r.crc = e.crc
        /\ r.vlan_seen = e.vlan_seen
    BY <1>8 DEF Framers
  <2>4. SameFields(e, r) /\ SameMode(e, r)
    BY <1>8 DEF Framers, SameFields, SameMode
  <2> HIDE DEF r
  <2>5. SameFields(d, n) /\ SameMode(d, n)
    BY <1>9, <2>1, <2>4 DEF SameFields, SameMode
  <2>6. /\ n.result.dst = d.dst_sr /\ n.result.src = d.src_sr /\ n.result.type = d.type_sr
        /\ n.result.vlan = d.vlan_seen /\ n.result.tci = d.tci_sr
    BY <1>8, <1>9, <2>1, <2>2, <2>3 DEF SameFields
  <2>7. /\ n.state = "HUNT" /\ n.pre_cnt = 0 /\ n.o_valid /\ n.crc = d.crc
        /\ n.vlan_seen = d.vlan_seen /\ n.dly = held /\ n.pl_cnt = count /\ n.o_pl = out
    BY <1>8, <2>1, <2>3
  <2> QED BY <1>1, <1>5, <1>7, <1>10, <2>5, <2>6, <2>7 DEF PayloadTaken, n, hit, held, emits
<1>11. CASE ~(hit \/ Len(d.crc) > MAX_FRAME_BYTES)
  <2>1. n = e
    BY <1>6, <1>11
  <2> QED BY <1>1, <1>5, <1>7, <1>8, <1>9, <1>11, <2>1 DEF PayloadTaken, n, hit, held, emits
<1> QED BY <1>10, <1>11

\* The number of a type.
LEMMA NumberIs == ASSUME NEW pair \in Shifters(2) PROVE Number(pair) \in Nat
<1>1. pair[1] \in Octets /\ pair[2] \in Octets
  BY PairIs
<1>2. pair[1] \in Nat /\ pair[2] \in Nat
  BY <1>1 DEF Octets
<1> QED BY <1>2 DEF Number

\* A byte leaves when four are held back, until the length field is reached.
Leaves(f, c) == Heldback(f, c) = 4 /\ ~(Short(f) /\ Out(f, c) >= Number(f.type))

\* What is out and what is held back, a byte later.
LEMMA OutGrows ==
    ASSUME NEW f, WellMade(f), NEW c \in Nat, HeaderLen(f) <= c
    PROVE  /\ Out(f, c) \in Nat /\ Heldback(f, c) \in 0 .. 4 /\ Heldback(f, c) <= c
           /\ Out(f, c + 1) = Out(f, c) + (IF Leaves(f, c) THEN 1 ELSE 0)
           /\ Leaves(f, c) => HeaderLen(f) + Out(f, c) + 1 = c - 3
           /\ Heldback(f, c + 1) = IF Heldback(f, c) = 4 THEN 4 ELSE Heldback(f, c) + 1
<1> DEFINE h == HeaderLen(f)
           number == Number(f.type)
           short == Short(f)
<1>1. h \in {14, 18}
  BY Lengths
<1>2. number \in Nat
  BY NumberIs DEF WellMade
<1>3. short \in BOOLEAN
  BY DEF Short
<1>4. h <= c
  OBVIOUS
<1> HIDE DEF h, number, short
<1>5. Out(f, c) = IF c - h - 4 < 0 THEN 0 ELSE IF short /\ c - h - 4 > number THEN number ELSE c - h - 4
  BY DEF Out, h, number, short
<1>6. ASSUME NEW next \in Nat
      PROVE  /\ Out(f, next) = IF next - h - 4 < 0 THEN 0
                               ELSE IF short /\ next - h - 4 > number THEN number ELSE next - h - 4
             /\ Heldback(f, next) = IF next - h < 4 THEN next - h ELSE 4
  BY DEF Out, Heldback, h, number, short
<1> DEFINE next == c + 1
<1>7. /\ next \in Nat /\ Heldback(f, c) = IF c - h < 4 THEN c - h ELSE 4
      /\ Heldback(f, next) = IF next - h < 4 THEN next - h ELSE 4
      /\ Out(f, next) = IF next - h - 4 < 0 THEN 0
                        ELSE IF short /\ next - h - 4 > number THEN number ELSE next - h - 4
  <2>1. next \in Nat
    OBVIOUS
  <2> HIDE DEF next
  <2> QED BY <1>6, <2>1
<1>8. Leaves(f, c) <=> Heldback(f, c) = 4 /\ ~(short /\ Out(f, c) >= number)
  BY DEF Leaves, short, number
<1> DEFINE held == Heldback(f, c)
           out == Out(f, c)
           leaves == Leaves(f, c)
<1>9. leaves \in BOOLEAN
  BY DEF Leaves
<1> HIDE DEF leaves
<1>10. out \in Nat /\ held \in 0 .. 4 /\ held <= c
       /\ Heldback(f, c + 1) = IF held = 4 THEN 4 ELSE held + 1
  BY <1>1, <1>2, <1>3, <1>4, <1>5, <1>7
<1>11. CASE leaves
  <2>1. held = 4 /\ ~(short /\ out >= number)
    BY <1>8, <1>11 DEF leaves
  <2>2. Out(f, c + 1) = out + 1 /\ h + out + 1 = c - 3
    BY <1>1, <1>2, <1>3, <1>4, <1>5, <1>7, <2>1
  <2> QED BY <1>10, <1>11, <2>2 DEF leaves, h
<1>12. CASE ~leaves
  <2>1. held # 4 \/ (short /\ out >= number)
    BY <1>8, <1>12 DEF leaves
  <2>2. Out(f, c + 1) = out
    BY <1>1, <1>2, <1>3, <1>4, <1>5, <1>7, <2>1
  <2> QED BY <1>10, <1>12, <2>2 DEF leaves
<1> QED BY <1>9, <1>11, <1>12

\* The framer lets the frame go where it ends and nowhere else.
LEMMA HitsAtEnd ==
    ASSUME NEW f, WellMade(f), NEW c \in Nat, HeaderLen(f) <= c, c < End(f)
    PROVE  LET crc == SubSeq(Wire(f), 1, c + 1) IN
           CrcHit(crc) \/ Len(crc) > MAX_FRAME_BYTES <=> c + 1 = End(f)
<1> DEFINE w == Wire(f)
           crc == SubSeq(w, 1, c + 1)
           h == HeaderLen(f)
<1>1. /\ w \in Seq(Octets) /\ Len(w) \in Nat /\ h \in {14, 18} /\ End(f) \in Nat /\ End(f) <= Len(w)
      /\ MAX_FRAME_BYTES \in Nat
      /\ IF f.damaged THEN End(f) = MAX_FRAME_BYTES + 1 ELSE End(f) = Len(w) /\ Len(w) <= MAX_FRAME_BYTES
  BY Lengths
<1>2. \A k \in h + 1 .. Len(w) : CrcHit(SubSeq(w, 1, k)) => ~f.damaged /\ k = Len(w)
  BY DEF WellMade
<1>3. ~f.damaged => CrcHit(w)
  BY WireIs
<1>4. h <= c /\ c < End(f) /\ f.damaged \in BOOLEAN
  BY DEF WellMade
<1> HIDE DEF w, h
<1>5. c + 1 \in h + 1 .. Len(w)
  BY <1>1, <1>4
<1>6. Len(crc) = c + 1
  BY <1>1, <1>5
<1>7. CrcHit(crc) => ~f.damaged /\ c + 1 = Len(w)
  BY <1>2, <1>5
<1>8. ~f.damaged /\ c + 1 = Len(w) => CrcHit(crc)
  <2> SUFFICES ASSUME ~f.damaged, c + 1 = Len(w) PROVE CrcHit(crc)
    OBVIOUS
  <2>1. SubSeq(w, 1, Len(w)) = w
    BY <1>1
  <2> QED BY <1>3, <2>1
<1> HIDE DEF crc
<1>9. CASE f.damaged
  BY <1>1, <1>4, <1>6, <1>7, <1>9 DEF crc, w
<1>10. CASE ~f.damaged
  BY <1>1, <1>4, <1>6, <1>7, <1>8, <1>10 DEF crc, w
<1> QED BY <1>4, <1>9, <1>10

\* What the monitor hears of a byte that leaves.
LEMMA HearsNext ==
    ASSUME NEW f, NEW heard \in Seq(PayloadBeats), NEW out \in Nat, NEW n \in Framers,
           HeardSoFar(heard, f, out),
           n.o_pl.valid => n.o_pl.data = Wire(f)[HeaderLen(f) + (out + 1)]
    PROVE  HeardSoFar(With(n, heard), f, IF n.o_pl.valid THEN out + 1 ELSE out)
<1> DEFINE after == With(n, heard)
           h == HeaderLen(f)
           w == Wire(f)
<1>1. Len(heard) = out /\ \A k \in 1 .. out : heard[k].data = w[h + k]
  BY DEF HeardSoFar
<1>2. CASE n.o_pl.valid
  <2>1. after = Append(heard, n.o_pl) /\ n.o_pl \in PayloadBeats
    BY <1>2, Registers DEF With
  <2> HIDE DEF after
  <2>2. Len(after) = out + 1 /\ after[out + 1] = n.o_pl
        /\ \A k \in 1 .. out : after[k] = heard[k]
    BY <1>1, <2>1, AppendIs
  <2>3. n.o_pl.data = w[h + (out + 1)]
    BY <1>2
  <2> HIDE DEF w, h
  <2>4. ASSUME NEW k \in 1 .. out + 1 PROVE after[k].data = w[h + k]
    <3>1. CASE k = out + 1
      <4>1. h + k = h + (out + 1)
        BY <3>1
      <4> QED BY <2>2, <2>3, <3>1, <4>1
    <3>2. CASE k # out + 1
      <4>1. k \in 1 .. out
        BY <3>2
      <4> QED BY <1>1, <2>2, <4>1
    <3> QED BY <3>1, <3>2
  <2> QED BY <1>2, <2>2, <2>4 DEF HeardSoFar, after, w, h
<1>3. CASE ~n.o_pl.valid
  BY <1>3 DEF With
<1> QED BY <1>2, <1>3

\* A byte of the payload, the padding or the FCS.
LEMMA PayloadTracked ==
    ASSUME NEW d \in Framers, NEW heard \in Seq(PayloadBeats), NEW f, WellMade(f),
           NEW c \in Nat, InPayload(d, heard, f, c)
    PROVE  LET n == After(d, f, c)
               after == With(n, heard)
           IN
           /\ n \in Framers
           /\ IF c + 1 = End(f) THEN LetGo(n, after, f) ELSE InPayload(n, after, f, c + 1)
<1> DEFINE w == Wire(f)
           h == HeaderLen(f)
           byte == w[c + 1]
           q == Taking(d, byte)
           n == After(d, f, c)
           after == With(n, heard)
           held == Heldback(f, c)
           out == Out(f, c)
           leaves == Leaves(f, c)
           number == Number(f.type)
<1>1. /\ c \in h .. End(f) - 1 /\ d.state = "PAYLOAD" /\ d.crc = SubSeq(w, 1, c)
      /\ HeaderTaken(d, f) /\ d.len_mode = Short(f) /\ d.len_field = number
      /\ Len(d.dly) = held /\ (\A k \in 1 .. held : d.dly[k] = w[c - held + k])
      /\ d.pl_cnt = out /\ HeardSoFar(heard, f, out)
  BY DEF InPayload, HoldsBack
<1>2. /\ w \in Seq(Octets) /\ Len(w) \in Nat /\ h \in {14, 18} /\ End(f) \in Nat /\ End(f) <= Len(w)
  BY Lengths
<1> HIDE DEF h, w
<1>3. h <= c /\ c < End(f) /\ c < Len(w)
  BY <1>1, <1>2
<1>4. /\ byte \in Octets /\ q \in Framers /\ q.o_valid = FALSE /\ q.state = "PAYLOAD"
      /\ q.crc = SubSeq(w, 1, c + 1) /\ q.dly = d.dly /\ q.vlan_seen = d.vlan_seen
      /\ SameFields(d, q) /\ SameMode(d, q) /\ SameCounts(d, q)
  BY <1>1, <1>3, NextIs DEF w
<1>5. CrcHit(q.crc) \/ Len(q.crc) > MAX_FRAME_BYTES <=> c + 1 = End(f)
  BY <1>3, <1>4, HitsAtEnd DEF w, h
<1>6. n = PayloadByte(q, byte)
  BY <1>4 DEF After, InFrame, q, byte, w
<1> HIDE DEF q, byte, n
<1>7. /\ n \in Framers /\ n.crc = q.crc /\ n.vlan_seen = q.vlan_seen
      /\ SameFields(q, n) /\ SameMode(q, n)
      /\ n.dly = Held(q.dly, byte)
      /\ n.pl_cnt = q.pl_cnt + (IF Emits(q) THEN 1 ELSE 0)
      /\ Emits(q) => n.o_pl.valid /\ n.o_pl.data = q.dly[1]
      /\ ~Emits(q) => ~n.o_pl.valid
      /\ IF CrcHit(q.crc) \/ Len(q.crc) > MAX_FRAME_BYTES
         THEN /\ n.state = "HUNT" /\ n.pre_cnt = 0 /\ n.o_valid
              /\ n.result.dst = q.dst_sr /\ n.result.src = q.src_sr
              /\ n.result.type = q.type_sr /\ n.result.vlan = q.vlan_seen
              /\ n.result.tci = q.tci_sr
         ELSE n.state = "PAYLOAD" /\ n.o_valid = q.o_valid
  <2>1. byte \in Octets /\ q \in Framers /\ q.state = "PAYLOAD"
    BY <1>4
  <2>2. PayloadTaken(q, byte)
    BY <2>1, PayloadTakes
  <2> QED BY <1>6, <2>2 DEF PayloadTaken
<1>8. /\ out \in Nat /\ held \in 0 .. 4 /\ held <= c
      /\ Out(f, c + 1) = out + (IF leaves THEN 1 ELSE 0)
      /\ leaves => h + out + 1 = c - 3
      /\ Heldback(f, c + 1) = IF held = 4 THEN 4 ELSE held + 1
  BY <1>3, OutGrows DEF h
<1>9. leaves <=> held = 4 /\ ~(Short(f) /\ out >= number)
  BY DEF Leaves
<1> HIDE DEF held, out, leaves, number
<1>10. Emits(q) <=> leaves
  BY <1>1, <1>4, <1>9 DEF Emits, SameMode, SameCounts
<1>11. n.pl_cnt = Out(f, c + 1)
  BY <1>1, <1>4, <1>7, <1>8, <1>10 DEF SameCounts
<1>12. HeardSoFar(after, f, Out(f, c + 1))
  <2>1. n.o_pl.valid <=> leaves
    BY <1>7, <1>10
  <2>2. ASSUME n.o_pl.valid PROVE n.o_pl.data = w[h + (out + 1)]
    <3>1. leaves /\ held = 4
      BY <1>9, <2>1, <2>2
    <3>2. 1 \in 1 .. held /\ c - held + 1 = c - 3 /\ h + (out + 1) = c - 3
      BY <1>2, <1>8, <3>1
    <3>3. n.o_pl.data = d.dly[1]
      BY <1>4, <1>7, <1>10, <3>1
    <3>4. d.dly[1] = w[c - held + 1]
      BY <1>1, <3>2
    <3> QED BY <3>2, <3>3, <3>4
  <2>3. HeardSoFar(after, f, IF n.o_pl.valid THEN out + 1 ELSE out)
    BY <1>1, <1>7, <1>8, <2>2, HearsNext DEF w, h
  <2>4. Out(f, c + 1) = IF n.o_pl.valid THEN out + 1 ELSE out
    BY <1>8, <2>1
  <2> QED BY <2>3, <2>4
<1>13. HeaderTaken(n, f)
  BY <1>1, <1>4, <1>7 DEF HeaderTaken, AddressesTaken, SameFields
<1>14. CASE c + 1 = End(f)
  <2>1. /\ n.state = "HUNT" /\ n.pre_cnt = 0 /\ n.o_valid
        /\ n.result.dst = q.dst_sr /\ n.result.src = q.src_sr
        /\ n.result.type = q.type_sr /\ n.result.vlan = q.vlan_seen
        /\ n.result.tci = q.tci_sr
    BY <1>5, <1>7, <1>14
  <2>2. /\ n.result.dst = n.dst_sr /\ n.result.src = n.src_sr /\ n.result.type = n.type_sr
        /\ n.result.vlan = n.vlan_seen /\ n.result.tci = n.tci_sr
    BY <1>7, <2>1 DEF SameFields
  <2>3. HeardSoFar(after, f, Out(f, End(f)))
    BY <1>12, <1>14
  <2>4. LetGo(n, after, f)
    BY <1>13, <2>1, <2>2, <2>3 DEF LetGo, HeaderTaken, AddressesTaken
  <2> QED BY <1>7, <1>14, <2>4 DEF n
<1>15. CASE c + 1 # End(f)
  <2>1. n.state = "PAYLOAD"
    BY <1>5, <1>7, <1>15
  <2>2. c + 1 \in h .. End(f) - 1
    BY <1>2, <1>3, <1>15
  <2>3. n.len_mode = Short(f) /\ n.len_field = number /\ n.crc = SubSeq(w, 1, c + 1)
    BY <1>1, <1>4, <1>7 DEF SameMode
  <2> DEFINE more == Heldback(f, c + 1)
  <2>4. d.dly \in Holdbacks /\ n.dly = Held(d.dly, byte)
    BY <1>4, <1>7, Registers
  <2>5. byte = w[c + 1]
    BY DEF byte
  <2>6. Len(n.dly) = more /\ \A k \in 1 .. more : n.dly[k] = w[c + 1 - more + k]
    <3> DEFINE now == n.dly
               was == d.dly
    <3>1. IF Len(was) = 4
          THEN Len(now) = 4 /\ now[4] = byte /\ \A k \in 1 .. 3 : now[k] = was[k + 1]
          ELSE /\ Len(now) = Len(was) + 1 /\ now[Len(was) + 1] = byte
               /\ \A k \in 1 .. Len(was) : now[k] = was[k]
      <4>1. byte \in Octets
        BY <1>4
      <4> QED BY <2>4, <4>1, HeldTakes
    <3>2. Len(was) = held /\ \A k \in 1 .. held : was[k] = w[c - held + k]
      BY <1>1
    <3> HIDE DEF now, was
    <3>3. CASE held = 4
      <4>1. more = 4 /\ Len(now) = 4 /\ now[4] = byte /\ \A k \in 1 .. 3 : now[k] = was[k + 1]
        BY <1>8, <3>1, <3>2, <3>3
      <4> HIDE DEF more
      <4>2. ASSUME NEW k \in 1 .. 4 PROVE now[k] = w[c + 1 - 4 + k]
        <5>1. CASE k = 4
          <6>1. c + 1 - 4 + k = c + 1
            BY <5>1
          <6> QED BY <2>5, <4>1, <5>1, <6>1
        <5>2. CASE k # 4
          <6>1. k \in 1 .. 3 /\ k + 1 \in 1 .. held /\ c - held + (k + 1) = c + 1 - 4 + k
            BY <3>3, <5>2
          <6>2. was[k + 1] = w[c - held + (k + 1)]
            BY <3>2, <6>1
          <6> QED BY <4>1, <6>1, <6>2
        <5> QED BY <5>1, <5>2
      <4> QED BY <4>1, <4>2 DEF now, more
    <3>4. CASE held # 4
      <4>1. more = held + 1 /\ Len(now) = held + 1 /\ now[held + 1] = byte
            /\ \A k \in 1 .. held : now[k] = was[k]
        BY <1>8, <3>1, <3>2, <3>4
      <4> HIDE DEF more
      <4>2. ASSUME NEW k \in 1 .. held + 1 PROVE now[k] = w[c + 1 - (held + 1) + k]
        <5>1. CASE k = held + 1
          <6>1. c + 1 - (held + 1) + k = c + 1
            BY <1>8, <5>1
          <6> QED BY <2>5, <4>1, <5>1, <6>1
        <5>2. CASE k # held + 1
          <6>1. k \in 1 .. held /\ c + 1 - (held + 1) + k = c - held + k
            BY <1>8, <5>2
          <6> QED BY <3>2, <4>1, <6>1
        <5> QED BY <5>1, <5>2
      <4> QED BY <4>1, <4>2 DEF now, more
    <3> QED BY <3>3, <3>4
  <2>7. InPayload(n, after, f, c + 1)
    <3>1. c + 1 \in HeaderLen(f) .. End(f) - 1
      BY <2>2 DEF h
    <3>2. n.len_field = Number(f.type) /\ n.crc = SubSeq(Wire(f), 1, c + 1)
      BY <2>3 DEF w, number
    <3>3. HoldsBack(n, f, c + 1)
      BY <2>6 DEF HoldsBack, w
    <3> QED BY <1>11, <1>12, <1>13, <2>1, <2>3, <3>1, <3>2, <3>3 DEF InPayload
  <2> QED BY <1>7, <1>15, <2>7 DEF n
<1> QED BY <1>14, <1>15

-------------------------------------------------------------------------------
(* What a cycle does to the framer that follows a stream.                  *)

\* Between frames, byte by byte.
LEMMA HuntTakes ==
    ASSUME NEW d \in Framers, NEW byte \in Octets, d.state = "HUNT"
    PROVE  LET n == Hunt(d, byte) IN
           IF byte = SFD_BYTE /\ d.pre_cnt >= MIN_PREAMBLE_LEN
           THEN /\ n.state = "DST" /\ n.hdr_cnt = 0 /\ n.crc = <<>> /\ ~n.vlan_seen
           ELSE /\ n.state = "HUNT"
                /\ n.pre_cnt = IF byte = PREAMBLE_BYTE
                               THEN IF d.pre_cnt = 7 THEN 7 ELSE d.pre_cnt + 1
                               ELSE 0
<1> DEFINE n == Hunt(d, byte)
           nil == <<>>
           mid == [d EXCEPT !.state = "DST", !.hdr_cnt = 0, !.pl_cnt = 0, !.dly = nil]
           free == [mid EXCEPT !.crc = nil, !.vlan_seen = FALSE]
           at == [free EXCEPT !.len_mode = FALSE, !.pre_cnt = 0]
           count == IF d.pre_cnt = 7 THEN d.pre_cnt ELSE d.pre_cnt + 1
           more == [d EXCEPT !.pre_cnt = count]
           none == [d EXCEPT !.pre_cnt = 0]
           starts == byte = SFD_BYTE /\ d.pre_cnt >= MIN_PREAMBLE_LEN
<1>1. n = IF starts THEN at ELSE IF byte = PREAMBLE_BYTE THEN more ELSE none
  <2>1. at = [d EXCEPT !.state = "DST", !.hdr_cnt = 0, !.pl_cnt = 0, !.dly = <<>>,
                       !.crc = <<>>, !.vlan_seen = FALSE, !.len_mode = FALSE, !.pre_cnt = 0]
    BY DEF Framers
  <2> HIDE DEF at
  <2> QED BY <2>1 DEF Hunt
<1>2. at.state = "DST" /\ at.hdr_cnt = 0 /\ at.crc = nil /\ at.vlan_seen = FALSE
  <2>1. nil \in Holdbacks /\ nil \in Seq(Octets)
    BY DEF Holdbacks
  <2> HIDE DEF nil
  <2>2. mid \in Framers /\ mid.state = "DST" /\ mid.hdr_cnt = 0
    BY <2>1 DEF Framers
  <2> HIDE DEF mid
  <2>3. /\ free \in Framers /\ free.state = mid.state /\ free.hdr_cnt = mid.hdr_cnt
        /\ free.crc = nil /\ free.vlan_seen = FALSE
    BY <2>1, <2>2 DEF Framers
  <2> HIDE DEF free
  <2>4. /\ at.state = free.state /\ at.hdr_cnt = free.hdr_cnt /\ at.crc = free.crc
        /\ at.vlan_seen = free.vlan_seen
    BY <2>3 DEF Framers
  <2> HIDE DEF at
  <2> QED BY <2>2, <2>3, <2>4
<1>3. more.state = "HUNT" /\ more.pre_cnt = count
  <2> HIDE DEF count
  <2> QED BY DEF Framers
<1>4. none.state = "HUNT" /\ none.pre_cnt = 0
  BY DEF Framers
<1> HIDE DEF n, at, more, none, starts
<1>5. CASE starts
  BY <1>1, <1>2, <1>5 DEF starts, n
<1>6. CASE ~starts
  BY <1>1, <1>3, <1>4, <1>6 DEF starts, n
<1> QED BY <1>5, <1>6

\* A damaged frame ends in zeros.
LEMMA TailIs ==
    ASSUME NEW f, WellMade(f), f.damaged, NEW k \in MAX_FRAME_BYTES + 1 .. Len(Wire(f))
    PROVE  Wire(f)[k] = 0
<1> DEFINE b == Body(f)
           z == Zeros(MAX_FRAME_BYTES)
           w == Wire(f)
<1>1. MAX_FRAME_BYTES \in Nat
  BY EtherAssumption
<1>2. z \in Seq(Octets) /\ Len(z) = MAX_FRAME_BYTES
  BY <1>1, ZerosAre
<1>3. \A j \in 1 .. MAX_FRAME_BYTES : z[j] = 0
  BY DEF Zeros
<1>4. b \in Seq(Octets)
  <2>1. f.pad \in Seq(Octets) /\ Serialized(f) \in Seq(Octets)
    BY SerializedIs DEF WellMade
  <2> QED BY <2>1, JoinIs DEF Body
<1>5. Len(b) + 4 <= MAX_FRAME_BYTES
  BY DEF WellMade
<1>6. w = b \o z
  BY DEF Wire
<1> HIDE DEF b, z, w
<1>7. Joined(w, b, z)
  BY <1>2, <1>4, <1>6, JoinIs
<1>8. Len(w) = Len(b) + MAX_FRAME_BYTES /\ Len(b) \in Nat
  BY <1>2, <1>4, <1>7 DEF Joined
<1>9. k \in MAX_FRAME_BYTES + 1 .. Len(w)
  BY DEF w
<1> DEFINE j == k - Len(b)
<1>10. j \in 1 .. MAX_FRAME_BYTES /\ Len(b) + j = k
  BY <1>1, <1>5, <1>8, <1>9
<1> HIDE DEF j
<1>11. w[Len(b) + j] = z[j]
  BY <1>2, <1>7, <1>10 DEF Joined
<1> QED BY <1>3, <1>10, <1>11 DEF w

\* A cycle with a byte.
LEMMA BeatIs ==
    ASSUME NEW byte \in Octets
    PROVE  Beat(byte) \in Beats /\ ~Beat(byte).rst /\ Beat(byte).valid /\ Beat(byte).data = byte
  BY DEF Beat, Low, Beats

\* A cycle without.
LEMMA LowIs == Low \in Beats /\ ~Low.rst /\ ~Low.valid
  BY DEF Low, Beats, Octets

\* The preamble is counted and the filler is not: p bytes are in, n of filler.
Hunting(d, n, p) == d.state = "HUNT" /\ d.pre_cnt = IF p <= n THEN 0 ELSE p - n

InFront(byte, n, p) ==
    /\ p < n + 8 /\ (p < n => byte # PREAMBLE_BYTE)
    /\ p >= n /\ p < n + 7 => byte = PREAMBLE_BYTE
    /\ p = n + 7 => byte = SFD_BYTE

\* The preamble is counted, and its end begins a frame.
LEMMA HuntTracked ==
    ASSUME NEW d \in Framers, NEW byte \in Octets, NEW p \in Nat, NEW n \in Nat,
           Hunting(d, n, p), InFront(byte, n, p)
    PROVE  LET h == Hunt(d, byte) IN
           /\ p = n + 7 => h.state = "DST" /\ h.hdr_cnt = 0 /\ h.crc = <<>> /\ ~h.vlan_seen
           /\ p # n + 7 => Hunting(h, n, p + 1)
<1> DEFINE h == Hunt(d, byte)
           cnt == d.pre_cnt
<1>1. d.state = "HUNT" /\ cnt = IF p <= n THEN 0 ELSE p - n
  BY DEF Hunting
<1>2. IF byte = SFD_BYTE /\ cnt >= MIN_PREAMBLE_LEN
      THEN /\ h.state = "DST" /\ h.hdr_cnt = 0 /\ h.crc = <<>> /\ ~h.vlan_seen
      ELSE /\ h.state = "HUNT"
           /\ h.pre_cnt = IF byte = PREAMBLE_BYTE THEN IF cnt = 7 THEN 7 ELSE cnt + 1 ELSE 0
  BY <1>1, HuntTakes
<1>3. MIN_PREAMBLE_LEN \in 1 .. 7 /\ PREAMBLE_BYTE # SFD_BYTE
  BY EtherAssumption DEF PREAMBLE_BYTE, SFD_BYTE
<1> HIDE DEF h, cnt
<1>4. CASE p < n
  <2>1. h.state = "HUNT" /\ h.pre_cnt = 0
    BY <1>1, <1>2, <1>3, <1>4 DEF InFront
  <2> QED BY <1>4, <2>1 DEF Hunting, h
<1>5. CASE p >= n /\ p < n + 7
  <2>1. h.state = "HUNT" /\ h.pre_cnt = p + 1 - n
    BY <1>1, <1>2, <1>3, <1>5 DEF InFront
  <2> QED BY <1>5, <2>1 DEF Hunting, h
<1>6. CASE p = n + 7
  BY <1>1, <1>2, <1>3, <1>6 DEF InFront, h
<1>7. p < n + 8
  BY DEF InFront
<1> QED BY <1>4, <1>5, <1>6, <1>7

\* The framer follows a stream through a byte of it, and says so where the
\* frame ends.
LEMMA ByteTracked ==
    ASSUME NEW d \in Framers, NEW heard \in Seq(PayloadBeats), InStep(d, heard),
           NEW f \in FRAMES, NEW filler \in FILLERS, CleanStreams,
           NEW p \in Nat, p < Len(build_stream(f, filler)), Tracks(d, heard, f, filler, p)
    PROVE  LET n == Clocked(d, Beat(build_stream(f, filler)[p + 1])) IN
           /\ Tracks(n, With(n, Before(d, heard)), f, filler, p + 1)
           /\ n.o_valid <=> p + 1 = Ends(f, filler)
<1> DEFINE s == build_stream(f, filler)
           m == Len(filler)
           w == Wire(f)
           h == HeaderLen(f)
           byte == s[p + 1]
           n == Clocked(d, Beat(byte))
           calm == Quiet(d)
           rest == Before(d, heard)
           after == With(n, rest)
           c == p - m - 8
           ends == End(f)
<1>1. WellMade(f)
  BY DEF CleanStreams
<1>2. /\ s \in Seq(Octets) /\ m \in Nat /\ Len(s) = m + 8 + Len(w)
      /\ \A k \in 1 .. m : s[k] # PREAMBLE_BYTE
      /\ \A k \in 1 .. 7 : s[m + k] = PREAMBLE_BYTE
      /\ s[m + 8] = SFD_BYTE
      /\ \A k \in 1 .. Len(w) : s[m + 8 + k] = w[k]
  BY StreamIs
<1>3. /\ Len(w) \in Nat /\ h \in {14, 18} /\ ends \in Nat /\ h < ends /\ ends <= Len(w)
      /\ MAX_FRAME_BYTES \in Nat
      /\ IF f.damaged THEN ends = MAX_FRAME_BYTES + 1 ELSE ends = Len(w)
  BY <1>1, Lengths
<1>4. p < Len(s) /\ p \in Nat
  OBVIOUS
<1>5. /\ calm \in Framers /\ calm.o_pl = NoBeat /\ calm.o_valid = FALSE /\ calm.state = d.state
      /\ calm.pre_cnt = d.pre_cnt
  BY QuietKeeps DEF SameCounts
<1>6. IF c < 0
      THEN /\ d.state = "HUNT" /\ ~d.o_valid
           /\ d.pre_cnt = IF p <= m THEN 0 ELSE p - m
      ELSE IF c < h THEN InHeader(d, f, c)
      ELSE IF c < ends THEN InPayload(d, heard, f, c)
      ELSE LetGo(d, heard, f) \/ Idle(d)
  BY DEF Tracks
<1>7. Ends(f, filler) = m + 8 + ends
  BY DEF Ends
<1>8. ASSUME NEW q \in Nat
      PROVE  Tracks(n, after, f, filler, q) <=>
               LET e == q - m - 8 IN
               IF e < 0
               THEN /\ n.state = "HUNT" /\ ~n.o_valid
                    /\ n.pre_cnt = IF q <= m THEN 0 ELSE q - m
               ELSE IF e < h THEN InHeader(n, f, e)
               ELSE IF e < ends THEN InPayload(n, after, f, e)
               ELSE LetGo(n, after, f) \/ Idle(n)
  BY DEF Tracks
<1>9. calm = Quiet(d) /\ n = Clocked(d, Beat(byte)) /\ after = With(n, rest)
  OBVIOUS
<1> HIDE DEF s, m, w, h, calm, ends, after, n
<1>10. byte \in Octets
  <2>1. p + 1 \in 1 .. Len(s)
    BY <1>2, <1>4
  <2> QED BY <1>2, <2>1
<1> DEFINE next == p + 1
<1>11. next \in Nat /\ next = p + 1
  BY <1>4
<1>12. byte = s[next]
  OBVIOUS
<1>20. m \in Nat /\ p \in Nat /\ next \in Nat /\ next = p + 1
  BY <1>2, <1>11
<1> HIDE DEF next, byte
<1>13. ~Beat(byte).rst /\ Beat(byte).valid /\ Beat(byte).data = byte
  BY <1>10, BeatIs
<1>14. d.state = "HUNT" => n = Hunt(calm, byte)
  BY <1>9, <1>13 DEF Clocked
<1>15. d.state # "HUNT" => n = InFrame(Taking(d, byte), byte)
  BY <1>9, <1>13 DEF Clocked, Taking
<1>16. d.state = "HUNT" => n.o_valid = FALSE
  BY <1>5, <1>10, <1>14, HuntIs
<1>17. CASE c < 0
  <2>1. d.state = "HUNT" /\ d.pre_cnt = IF p <= m THEN 0 ELSE p - m
    BY <1>6, <1>17
  <2>2. p < m + 8
    BY <1>2, <1>4, <1>17
  <2>3. p < m => byte # PREAMBLE_BYTE
    <3>1. p < m => next \in 1 .. m
      BY <1>2, <1>4, <1>11
    <3> QED BY <1>2, <1>12, <3>1
  <2>4. p >= m /\ p < m + 7 => byte = PREAMBLE_BYTE
    <3> SUFFICES ASSUME p >= m, p < m + 7 PROVE byte = PREAMBLE_BYTE
      OBVIOUS
    <3> DEFINE k == next - m
    <3>1. k \in 1 .. 7 /\ m + k = next
      BY <1>20
    <3> HIDE DEF k
    <3>2. s[m + k] = PREAMBLE_BYTE
      BY <1>2, <3>1
    <3> QED BY <1>12, <3>1, <3>2
  <2>5. p = m + 7 => byte = SFD_BYTE
    <3>1. p = m + 7 => next = m + 8
      BY <1>2, <1>11
    <3> QED BY <1>2, <1>12, <3>1
  <2>6. n = Hunt(calm, byte) /\ calm.state = "HUNT" /\ ~n.o_valid
    BY <1>5, <1>14, <1>16, <2>1
  <2>7. /\ p = m + 7 => n.state = "DST" /\ n.hdr_cnt = 0 /\ n.crc = <<>> /\ ~n.vlan_seen
        /\ p # m + 7 => Hunting(n, m, p + 1)
    <3>1. calm \in Framers /\ Hunting(calm, m, p)
      BY <1>5, <2>1, <2>6 DEF Hunting
    <3>2. InFront(byte, m, p)
      BY <2>2, <2>3, <2>4, <2>5 DEF InFront
    <3> QED BY <1>10, <1>20, <2>6, <3>1, <3>2, HuntTracked
  <2>8. next # Ends(f, filler)
    BY <1>2, <1>3, <1>4, <1>7, <1>11, <2>2
  <2>9. CASE p = m + 7
    <3>1. SubSeq(Wire(f), 1, 0) = <<>>
      <4>1. Wire(f) \in Seq(Octets)
        BY <1>1, Lengths
      <4> QED BY <4>1
    <3>2. InDst(n, f, 0)
      BY <2>7, <2>9 DEF InDst
    <3>3. InHeader(n, f, 0)
      BY <2>7, <2>9, <3>1, <3>2 DEF InHeader
    <3>4. next - m - 8 = 0
      BY <1>2, <1>11, <2>9
    <3>5. Tracks(n, after, f, filler, next)
      BY <1>3, <1>8, <1>11, <3>3, <3>4
    <3> QED BY <1>9, <1>11, <2>6, <2>8, <3>5 DEF byte, next, s
  <2>10. CASE p # m + 7
    <3>1. next - m - 8 < 0
      BY <1>20, <2>2, <2>10
    <3>2. n.state = "HUNT" /\ n.pre_cnt = IF next <= m THEN 0 ELSE next - m
      BY <1>20, <2>7, <2>10 DEF Hunting
    <3>3. Tracks(n, after, f, filler, next)
      BY <1>8, <1>11, <2>6, <3>1, <3>2
    <3> QED BY <1>9, <1>11, <2>6, <2>8, <3>3 DEF byte, next, s
  <2> QED BY <2>9, <2>10
<1>18. CASE c >= 0
  <2>1. c \in Nat /\ p = m + 8 + c /\ c < Len(w) /\ next - m - 8 = c + 1 /\ c + 1 \in 1 .. Len(w)
        /\ (next = Ends(f, filler) <=> c + 1 = ends)
    <3>1. c \in Nat /\ p = m + 8 + c
      BY <1>18, <1>20
    <3>2. p < m + 8 + Len(w)
      BY <1>2, <1>4
    <3> HIDE DEF c
    <3>3. c < Len(w) /\ c + 1 \in 1 .. Len(w)
      BY <1>3, <1>20, <3>1, <3>2
    <3>4. next = m + 8 + (c + 1) /\ next - m - 8 = c + 1
      BY <1>20, <3>1
    <3>5. next = Ends(f, filler) <=> c + 1 = ends
      BY <1>3, <1>7, <1>20, <3>1, <3>4
    <3> QED BY <3>1, <3>3, <3>4, <3>5
  <2> HIDE DEF c
  <2>2. byte = w[c + 1]
    <3>1. m + 8 + (c + 1) = next
      <4>1. c \in Nat /\ p = m + 8 + c
        BY <2>1
      <4> QED BY <1>20, <4>1
    <3>2. s[m + 8 + (c + 1)] = w[c + 1]
      BY <1>2, <2>1
    <3> QED BY <1>12, <3>1, <3>2
  <2>3. CASE c < h
    <3>1. InHeader(d, f, c)
      BY <1>6, <2>1, <2>3
    <3>2. d.state \in {"DST", "SRC", "TYPE", "VLAN"}
      BY <3>1 DEF InHeader, InDst, InSrc, InType, InTci, InTagged
    <3>3. d.dly = <<>> /\ d.pl_cnt = 0 /\ heard = <<>> /\ ~d.o_valid /\ d.state # "HUNT"
      BY <3>2 DEF InStep
    <3>4. n = After(d, f, c)
      BY <1>15, <2>2, <3>3 DEF After, w
    <3>5. /\ c + 1 < HeaderLen(f) => InHeader(n, f, c + 1)
          /\ ~(c + 1 < HeaderLen(f)) => n \in Framers /\ InPayload(n, <<>>, f, c + 1)
      BY <1>1, <2>1, <2>3, <3>1, <3>3, <3>4, HeaderStep DEF h
    <3>6. ~n.o_valid /\ after = <<>>
      <4> DEFINE q == Taking(d, byte)
      <4>1. q \in Framers /\ q.o_pl = NoBeat /\ q.o_valid = FALSE /\ q.state = d.state
        BY <1>10, TakingIs
      <4> HIDE DEF q
      <4>2. n = InFrame(q, byte)
        BY <1>15, <3>3 DEF q
      <4>3. Untouched(q, n)
        BY <1>10, <3>2, <4>1, <4>2, HeaderIs DEF HeaderStates
      <4>4. n.o_valid = FALSE /\ n.o_pl = NoBeat
        BY <4>1, <4>3 DEF Untouched
      <4>5. rest = <<>>
        BY <3>3 DEF Before
      <4> QED BY <1>9, <4>4, <4>5 DEF With, NoBeat
    <3>7. c + 1 < ends /\ c + 1 >= 0 /\ ~(c + 1 < 0)
      BY <1>3, <2>1, <2>3
    <3>8. Tracks(n, after, f, filler, next)
      BY <1>8, <1>11, <2>1, <3>5, <3>6, <3>7 DEF h
    <3> QED BY <1>9, <1>11, <2>1, <3>6, <3>7, <3>8 DEF byte, next, s
  <2>4. CASE ~(c < h) /\ c < ends
    <3>1. InPayload(d, heard, f, c)
      BY <1>6, <2>1, <2>4
    <3>2. d.state = "PAYLOAD"
      BY <3>1 DEF InPayload
    <3>3. ~d.o_valid /\ rest = heard
      BY <3>2 DEF InStep, Before
    <3>4. n = After(d, f, c)
      BY <1>15, <2>2, <3>2 DEF After, w
    <3>5. IF c + 1 = ends THEN LetGo(n, after, f) ELSE InPayload(n, after, f, c + 1)
      BY <1>1, <1>9, <2>1, <3>1, <3>3, <3>4, PayloadTracked DEF ends
    <3>6. CASE c + 1 = ends
      <4>1. n.o_valid
        BY <3>5, <3>6 DEF LetGo
      <4>2. ~(c + 1 < 0) /\ ~(c + 1 < h) /\ ~(c + 1 < ends)
        BY <1>3, <2>1, <2>4, <3>6
      <4>3. Tracks(n, after, f, filler, next)
        BY <1>8, <1>11, <2>1, <3>5, <3>6, <4>2
      <4> QED BY <1>9, <1>11, <2>1, <3>6, <4>1, <4>3 DEF byte, next, s
    <3>7. CASE c + 1 # ends
      <4>1. InPayload(n, after, f, c + 1)
        BY <3>5, <3>7
      <4>2. ~n.o_valid
        <5> DEFINE q == Taking(d, byte)
        <5>1. q \in Framers /\ q.o_valid = FALSE /\ q.state = "PAYLOAD"
          BY <1>10, <3>2, TakingIs
        <5> HIDE DEF q
        <5>2. n = PayloadByte(q, byte)
          BY <1>15, <3>2, <5>1 DEF q, InFrame
        <5>3. n.state = "HUNT" \/ n.o_valid = q.o_valid
          BY <1>10, <5>1, <5>2, PayloadTakes DEF PayloadTaken
        <5>4. n.state = "PAYLOAD"
          BY <4>1 DEF InPayload
        <5> QED BY <5>1, <5>3, <5>4
      <4>3. ~(c + 1 < 0) /\ ~(c + 1 < h) /\ c + 1 < ends
        BY <1>3, <2>1, <2>4, <3>7
      <4>4. Tracks(n, after, f, filler, next)
        BY <1>8, <1>11, <2>1, <4>1, <4>3
      <4> QED BY <1>9, <1>11, <2>1, <3>7, <4>2, <4>4 DEF byte, next, s
    <3> QED BY <3>6, <3>7
  <2>5. CASE ~(c < ends)
    <3>1. d.state = "HUNT" /\ d.pre_cnt = 0
      BY <1>3, <1>6, <2>1, <2>5 DEF LetGo, Idle
    <3>2. f.damaged /\ c + 1 \in MAX_FRAME_BYTES + 1 .. Len(w)
      BY <1>3, <2>1, <2>5
    <3>3. byte = 0
      BY <1>1, <2>2, <3>2, TailIs DEF w
    <3>4. n = Hunt(calm, byte) /\ calm.state = "HUNT" /\ ~n.o_valid
      BY <1>5, <1>14, <1>16, <3>1
    <3>5. n.state = "HUNT" /\ n.pre_cnt = 0
      <4>1. byte # SFD_BYTE /\ byte # PREAMBLE_BYTE
        BY <3>3 DEF SFD_BYTE, PREAMBLE_BYTE
      <4> QED BY <1>5, <1>10, <3>4, <4>1, HuntTakes
    <3>6. ~(c + 1 < 0) /\ ~(c + 1 < h) /\ ~(c + 1 < ends) /\ c + 1 # ends
      BY <1>3, <2>1, <2>5
    <3>7. Tracks(n, after, f, filler, next)
      BY <1>8, <1>11, <2>1, <3>4, <3>5, <3>6 DEF Idle
    <3> QED BY <1>9, <1>11, <2>1, <3>4, <3>6, <3>7 DEF byte, next, s
  <2> QED BY <2>3, <2>4, <2>5
<1>19. c < 0 \/ c >= 0
  BY <1>2, <1>4
<1> QED BY <1>17, <1>18, <1>19

\* A cycle without a byte: the parser stalls.
LEMMA QuietTracked ==
    ASSUME NEW d \in Framers, NEW heard \in Seq(PayloadBeats), InStep(d, heard),
           NEW f, NEW filler, NEW p \in Nat, Tracks(d, heard, f, filler, p)
    PROVE  LET n == Quiet(d) IN
           Tracks(n, With(n, Before(d, heard)), f, filler, p) /\ ~n.o_valid
<1> DEFINE n == Quiet(d)
           rest == Before(d, heard)
           after == With(n, rest)
           c == p - Len(filler) - 8
<1>1. /\ n.o_pl = NoBeat /\ n.o_valid = FALSE /\ n.state = d.state
      /\ n.crc = d.crc /\ n.dly = d.dly /\ n.vlan_seen = d.vlan_seen
      /\ SameFields(d, n) /\ SameMode(d, n) /\ SameCounts(d, n)
  BY QuietKeeps
<1> HIDE DEF n
<1>2. after = rest
  BY <1>1 DEF With, NoBeat
<1>3. n.hdr_cnt = d.hdr_cnt /\ n.pl_cnt = d.pl_cnt /\ n.pre_cnt = d.pre_cnt
      /\ n.dst_sr = d.dst_sr /\ n.src_sr = d.src_sr /\ n.type_sr = d.type_sr /\ n.tci_sr = d.tci_sr
      /\ n.len_mode = d.len_mode /\ n.len_field = d.len_field
  BY <1>1 DEF SameFields, SameMode, SameCounts
<1> HIDE DEF after
<1>4. IF c < 0
      THEN /\ d.state = "HUNT" /\ ~d.o_valid
           /\ d.pre_cnt = IF p <= Len(filler) THEN 0 ELSE p - Len(filler)
      ELSE IF c < HeaderLen(f) THEN InHeader(d, f, c)
      ELSE IF c < End(f) THEN InPayload(d, heard, f, c)
      ELSE LetGo(d, heard, f) \/ Idle(d)
  BY DEF Tracks
<1> HIDE DEF c
<1>5. InHeader(d, f, c) => InHeader(n, f, c)
  <2>1. InDst(d, f, c) => InDst(n, f, c)
    BY <1>1, <1>3 DEF InDst
  <2>2. InSrc(d, f, c) => InSrc(n, f, c)
    BY <1>1, <1>3 DEF InSrc
  <2>3. InType(d, f, c) => InType(n, f, c)
    BY <1>1, <1>3 DEF InType, AddressesTaken
  <2>4. InTci(d, f, c) => InTci(n, f, c)
    BY <1>1, <1>3 DEF InTci, AddressesTaken
  <2>5. InTagged(d, f, c) => InTagged(n, f, c)
    BY <1>1, <1>3 DEF InTagged, AddressesTaken
  <2> QED BY <1>1, <2>1, <2>2, <2>3, <2>4, <2>5 DEF InHeader
<1>6. InPayload(d, heard, f, c) => InPayload(n, after, f, c)
  <2> SUFFICES ASSUME InPayload(d, heard, f, c) PROVE InPayload(n, after, f, c)
    OBVIOUS
  <2>1. d.state = "PAYLOAD"
    BY DEF InPayload
  <2>2. after = heard
    BY <1>2, <2>1 DEF InStep, Before
  <2> QED BY <1>1, <1>3, <2>2 DEF InPayload, HoldsBack, HeaderTaken, AddressesTaken
<1>7. LetGo(d, heard, f) \/ Idle(d) => Idle(n)
  BY <1>1, <1>3 DEF LetGo, Idle
<1>8. Tracks(n, after, f, filler, p)
  BY <1>1, <1>3, <1>4, <1>5, <1>6, <1>7 DEF Tracks, c
<1> QED BY <1>1, <1>8 DEF n, after

\* It reports a frame only where it lets it go.
LEMMA SaysWhen ==
    ASSUME NEW d \in Framers, NEW heard, InStep(d, heard), NEW f, WellMade(f), NEW filler,
           Len(filler) \in Nat, NEW p \in Nat, Tracks(d, heard, f, filler, p), d.o_valid
    PROVE  LetGo(d, heard, f) /\ p >= Ends(f, filler)
<1> DEFINE m == Len(filler)
           c == p - m - 8
           h == HeaderLen(f)
           ends == End(f)
<1>1. IF c < 0
      THEN /\ d.state = "HUNT" /\ ~d.o_valid
           /\ d.pre_cnt = IF p <= m THEN 0 ELSE p - m
      ELSE IF c < h THEN InHeader(d, f, c)
      ELSE IF c < ends THEN InPayload(d, heard, f, c)
      ELSE LetGo(d, heard, f) \/ Idle(d)
  BY DEF Tracks
<1>2. ~InHeader(d, f, c)
  BY DEF InHeader, InDst, InSrc, InType, InTci, InTagged, InStep
<1>3. ~InPayload(d, heard, f, c)
  BY DEF InPayload, InStep
<1>4. h \in Nat /\ ends \in Nat /\ m \in Nat
  BY Lengths
<1>5. Ends(f, filler) = m + 8 + ends
  BY DEF Ends
<1> HIDE DEF m, h, ends
<1>6. ~(c < ends) /\ (LetGo(d, heard, f) \/ Idle(d))
  BY <1>1, <1>2, <1>3
<1>7. p >= m + 8 + ends
  BY <1>4, <1>6
<1> QED BY <1>5, <1>6, <1>7 DEF Idle

-------------------------------------------------------------------------------
(* What Python makes of it.                                                *)

\* A frame in front of its payload.
Lead(f) == f.dst \o f.src \o (IF f.vlan THEN VLAN_TPID \o f.tci ELSE <<>>) \o f.type

\* It is made of bytes.
LEMMA LeadIs ==
    ASSUME NEW f, WellMade(f)
    PROVE  Lead(f) \in Seq(Octets)
<1> DEFINE dst == f.dst
           src == f.src
           type == f.type
           tci == f.tci
           tag == IF f.vlan THEN VLAN_TPID \o tci ELSE <<>>
<1>1. dst \in Seq(Octets) /\ src \in Seq(Octets) /\ type \in Seq(Octets) /\ f.vlan \in BOOLEAN
  BY ShifterHas DEF WellMade
<1>2. tag \in Seq(Octets)
  <2>1. CASE f.vlan
    <3>1. tci \in Seq(Octets) /\ VLAN_TPID \in Seq(Octets)
      BY <2>1, ShifterHas DEF WellMade, VLAN_TPID, Octets
    <3> HIDE DEF VLAN_TPID, tci
    <3>2. VLAN_TPID \o tci \in Seq(Octets)
      BY <3>1, JoinIs
    <3> QED BY <2>1, <3>2
  <2>2. CASE ~f.vlan
    BY <2>2
  <2> QED BY <1>1, <2>1, <2>2
<1>3. Lead(f) = dst \o src \o tag \o type
  BY DEF Lead
<1> HIDE DEF dst, src, type, tag
<1>4. dst \o src \in Seq(Octets)
  BY <1>1, JoinIs
<1> DEFINE addresses == dst \o src
<1> HIDE DEF addresses
<1>5. addresses \o tag \in Seq(Octets)
  BY <1>2, <1>4, JoinIs DEF addresses
<1> DEFINE tagged == addresses \o tag
<1> HIDE DEF tagged
<1>6. tagged \o type \in Seq(Octets)
  BY <1>1, <1>5, JoinIs DEF tagged
<1> QED BY <1>3, <1>6 DEF tagged, addresses

\* What is out when the frame is let go.
LEMMA OutAtEnd ==
    ASSUME NEW f, WellMade(f)
    PROVE  IF f.damaged THEN Out(f, End(f)) > Len(f.payload) ELSE Out(f, End(f)) = Len(f.payload)
<1> DEFINE h == HeaderLen(f)
           size == Len(f.payload)
           extra == Len(f.pad)
           whole == Len(Wire(f))
           ends == End(f)
           number == Number(f.type)
           short == Short(f)
<1>1. /\ h \in {14, 18} /\ whole = h + size + extra + (IF f.damaged THEN MAX_FRAME_BYTES ELSE 4)
      /\ h + size + extra + 4 <= MAX_FRAME_BYTES
  BY WireIs
<1>2. size \in Nat /\ extra \in Nat /\ MAX_FRAME_BYTES \in Nat
  <2>1. f.payload \in Seq(Octets) /\ f.pad \in Seq(Octets)
    BY DEF WellMade
  <2> QED BY <2>1, EtherAssumption
<1>3. IF f.damaged THEN ends = MAX_FRAME_BYTES + 1 ELSE ends = whole
  BY Lengths
<1>4. IF short THEN number = size /\ ~f.damaged ELSE extra = 0
  BY DEF WellMade
<1>5. f.damaged \in BOOLEAN /\ short \in BOOLEAN
  BY DEF WellMade, Short
<1>6. Out(f, ends) = IF ends - h - 4 < 0 THEN 0
                     ELSE IF short /\ ends - h - 4 > number THEN number ELSE ends - h - 4
  BY DEF Out
<1> HIDE DEF h, size, extra, whole, ends, number, short
<1>7. CASE f.damaged
  <2>1. Out(f, ends) > size
    BY <1>1, <1>2, <1>3, <1>4, <1>5, <1>6, <1>7
  <2> QED BY <1>7, <2>1 DEF ends, size
<1>8. CASE ~f.damaged
  <2>1. ends - h - 4 = size + extra
    BY <1>1, <1>2, <1>3, <1>8
  <2>2. Out(f, ends) = size
    BY <1>2, <1>4, <1>5, <1>6, <2>1
  <2> QED BY <1>8, <2>2 DEF ends, size
<1> QED BY <1>5, <1>7, <1>8

\* Python rebuilds the very frame it sent, unless that was damaged.
LEMMA RebuiltIs ==
    ASSUME NEW f, WellMade(f), LetGo(dut, Heard, f)
    PROVE  Rebuilt = Serialized(f) <=> ~f.damaged
<1> DEFINE heard == Heard
           data == [k \in 1 .. Len(heard) |-> heard[k].data]
           front == Lead(f)
           payload == f.payload
           w == Wire(f)
           h == HeaderLen(f)
           out == Out(f, End(f))
           whole == [dst |-> dut.result.dst, src |-> dut.result.src, vlan |-> dut.result.vlan,
                     tci |-> dut.result.tci, type |-> dut.result.type, payload |-> data]
<1>1. /\ dut.result.dst = f.dst /\ dut.result.src = f.src /\ dut.result.type = f.type
      /\ dut.result.vlan = f.vlan /\ (f.vlan => dut.result.tci = f.tci)
      /\ Len(heard) = out /\ \A k \in 1 .. out : heard[k].data = w[h + k]
  BY DEF LetGo, HeardSoFar
<1>2. Rebuilt = Serialized(whole)
  BY DEF Rebuilt
<1>3. Serialized(f) = front \o payload
  BY DEF Serialized, Lead
<1>4. Serialized(whole) = Lead(whole) \o whole.payload
  BY DEF Serialized, Lead
<1>5. Lead(whole) = front
  BY <1>1 DEF Lead
<1>6. whole.payload = data
  OBVIOUS
<1>7. IF f.damaged THEN out > Len(payload) ELSE out = Len(payload)
  BY OutAtEnd
<1>8. w \in Seq(Octets) /\ h + Len(payload) <= Len(w) /\ payload \in Seq(Octets) /\ h \in Nat
      /\ \A k \in 1 .. Len(payload) : w[h + k] = payload[k]
  <2>1. \A k \in 1 .. Len(f.payload) : Wire(f)[HeaderLen(f) + k] = f.payload[k]
    BY FieldsAre
  <2>2. /\ Wire(f) \in Seq(Octets) /\ HeaderLen(f) \in {14, 18}
        /\ Len(Wire(f)) = HeaderLen(f) + Len(f.payload) + Len(f.pad)
                            + (IF f.damaged THEN MAX_FRAME_BYTES ELSE 4)
    BY WireIs
  <2>3. f.payload \in Seq(Octets) /\ f.pad \in Seq(Octets) /\ MAX_FRAME_BYTES \in Nat
        /\ f.damaged \in BOOLEAN
    BY EtherAssumption DEF WellMade
  <2> DEFINE extra == Len(f.pad)
             size == Len(payload)
             tail == IF f.damaged THEN MAX_FRAME_BYTES ELSE 4
  <2>4. extra \in Nat /\ size \in Nat /\ tail \in Nat /\ Len(w) = h + size + extra + tail /\ h \in Nat
    BY <2>2, <2>3
  <2> HIDE DEF extra, size, tail, h, w
  <2>5. h + size <= Len(w)
    BY <2>4
  <2> QED BY <2>1, <2>2, <2>3, <2>5 DEF size, h, w
<1>9. front \in Seq(Octets)
  BY LeadIs
<1>10. Rebuilt = front \o data
  BY <1>2, <1>4, <1>5, <1>6
<1> HIDE DEF w, h, front, payload, heard, out
<1>11. CASE ~f.damaged
  <2>1. out = Len(payload)
    BY <1>7, <1>11
  <2>2. data = [k \in 1 .. Len(payload) |-> payload[k]]
    BY <1>1, <1>8, <2>1
  <2>3. payload = [k \in 1 .. Len(payload) |-> payload[k]]
    BY <1>8
  <2> QED BY <1>3, <1>10, <1>11, <2>2, <2>3
<1>12. CASE f.damaged
  <2>1. out > Len(payload) /\ out \in Nat /\ Len(payload) \in Nat
    <3>1. Out(f, End(f)) \in Nat
      BY Lengths, OutGrows
    <3> QED BY <1>7, <1>8, <1>12, <3>1 DEF out
  <2>2. front \o data # front \o payload
    <3> SUFFICES ASSUME front \o data = front \o payload PROVE FALSE
      OBVIOUS
    <3>1. Len(front \o payload) = Len(front) + Len(payload)
      BY <1>8, <1>9
    <3>2. data \in Seq({data[k] : k \in 1 .. out}) /\ Len(data) = out
      BY <1>1, <2>1
    <3>3. Len(front \o data) = Len(front) + out
      BY <1>9, <3>2
    <3> QED BY <1>9, <2>1, <3>1, <3>3
  <2> QED BY <1>3, <1>10, <1>12, <2>2
<1>13. f.damaged \in BOOLEAN
  BY DEF WellMade
<1> QED BY <1>11, <1>12, <1>13

-------------------------------------------------------------------------------
(* The driver and the counts.                                              *)

\* Python counts a frame when the framer lets it go, and not before: p bytes of
\* the stream were in before the edge, q are after it.
LEMMA CountsKept ==
    ASSUME EtherTyped, CountsTyped, InStep(dut, Heard), Monitors,
           NEW f, WellMade(f), NEW filler, Len(filler) \in Nat, NEW p \in Nat, NEW q \in Nat,
           Tracks(dut, Heard, f, filler, p), test.expected = Serialized(f),
           IF Behind(f, filler, p) THEN Told ELSE Awaited(f),
           \/ q = p /\ ~dut'.o_valid
           \/ q = p + 1 /\ (dut'.o_valid <=> q = Ends(f, filler))
    PROVE  /\ IF Behind(f, filler, q)' THEN Told' ELSE Awaited(f)'
           /\ CountsTyped' /\ test'.expected = Serialized(f)
<1> DEFINE ends == Ends(f, filler)
           good == IF f.damaged THEN 0 ELSE 1
<1>1. ends \in Nat
  <2>1. End(f) \in Nat
    BY Lengths
  <2> QED BY <2>1 DEF Ends
<1>2. /\ Behind(f, filler, p) <=> p >= ends /\ ~dut.o_valid
      /\ Behind(f, filler, q)' <=> q >= ends /\ ~dut'.o_valid
  BY DEF Behind
<1>3. /\ test.checked \in Nat /\ test.matches \in Nat /\ test.intact \in Nat /\ test.sent \in Nat
      /\ DOMAIN test = {"expected", "sent", "intact", "checked", "matches"}
  BY DEF CountsTyped, EtherTyped
<1>4. dut \in Framers
  BY DEF EtherTyped
<1>5. f.damaged \in BOOLEAN
  BY DEF WellMade
<1> HIDE DEF ends
<1>6. CASE dut.o_valid
  <2>1. LetGo(dut, Heard, f) /\ p >= ends
    BY <1>4, <1>6, SaysWhen DEF ends
  <2>2. Rebuilt = test.expected <=> ~f.damaged
    BY <2>1, RebuiltIs
  <2>3. test' = [test EXCEPT !.checked = @ + 1, !.matches = @ + good]
    BY <1>5, <1>6, <2>2 DEF Monitors
  <2>4. /\ test'.checked = test.checked + 1 /\ test'.matches = test.matches + good
        /\ test'.intact = test.intact /\ test'.sent = test.sent /\ test'.expected = test.expected
    BY <1>3, <2>3
  <2>5. Awaited(f)
    BY <1>2, <1>6
  <2>6. Behind(f, filler, q)'
    <3>1. q >= ends /\ ~dut'.o_valid
      BY <1>1, <2>1 DEF ends
    <3> QED BY <1>2, <3>1
  <2>7. Told'
    BY <2>4, <2>5 DEF Told, Awaited
  <2>8. CountsTyped'
    BY <1>3, <2>4 DEF CountsTyped
  <2> QED BY <2>4, <2>6, <2>7, <2>8
<1>7. CASE ~dut.o_valid
  <2>1. test' = test
    BY <1>7 DEF Monitors
  <2>2. Behind(f, filler, q)' <=> Behind(f, filler, p)
    <3>1. CASE p >= ends
      <4>1. q >= ends /\ ~dut'.o_valid
        BY <1>1, <3>1 DEF ends
      <4> QED BY <1>2, <1>7, <3>1, <4>1
    <3>2. CASE ~(p >= ends)
      <4>1. ~(q >= ends) \/ dut'.o_valid
        BY <1>1, <3>2 DEF ends
      <4> QED BY <1>2, <3>2, <4>1
    <3> QED BY <3>1, <3>2
  <2>3. (Told' <=> Told) /\ (Awaited(f)' <=> Awaited(f)) /\ (CountsTyped' <=> CountsTyped)
    BY <2>1 DEF Told, Awaited, CountsTyped
  <2> QED BY <2>1, <2>2, <2>3
<1> QED BY <1>6, <1>7

\* A rising edge and the stream: the framer follows it, byte or no byte.
LEMMA StreamClocked ==
    ASSUME EtherInv, CountsTyped, CleanStreams, dut' = Clocked(dut, bus), Monitors,
           NEW f \in FRAMES, NEW filler \in FILLERS, NEW g \in Nat, NEW p \in Nat,
           test.expected = Serialized(f), Streaming(f, filler, g, p)
    PROVE  LET s == build_stream(f, filler)
               q == IF g <= Len(s) THEN g ELSE Len(s)
           IN
           /\ q \in Nat /\ Tracks(dut, Heard, f, filler, q)'
           /\ IF Behind(f, filler, q)' THEN Told' ELSE Awaited(f)'
           /\ CountsTyped' /\ test'.expected = Serialized(f)
           /\ dut'.o_valid => g <= Len(s)
<1> DEFINE s == build_stream(f, filler)
           q == IF g <= Len(s) THEN g ELSE Len(s)
           n == Clocked(dut, bus)
           heard == Heard
           rest == Before(dut, heard)
           after == With(n, rest)
<1>1. WellMade(f) /\ s \in Seq(Octets) /\ Len(filler) \in Nat
  BY StreamIs DEF CleanStreams
<1>2. EtherTyped /\ InStep(dut, heard) /\ dut \in Framers /\ pl \in Seq(PayloadBeats)
  BY DEF EtherInv, EtherTyped
<1>3. heard \in Seq(PayloadBeats)
  BY <1>2, Registers DEF Heard
<1>4. Tracks(dut, heard, f, filler, p) /\ Driving(f, filler, g, p)
      /\ IF Behind(f, filler, p) THEN Told ELSE Awaited(f)
  BY DEF Streaming
<1>5. Heard' = after
  <2>1. pl' = rest
    BY Views
  <2> QED BY <2>1 DEF Heard, With
<1>6. q \in Nat /\ Len(s) \in Nat
  BY <1>1
<1>7. CASE g \in 1 .. Len(s) /\ p = g - 1 /\ bus = Beat(s[g])
  <2>1. q = g /\ p + 1 = g /\ p < Len(s)
    BY <1>6, <1>7
  <2>2. n = Clocked(dut, Beat(s[p + 1]))
    BY <1>7, <2>1
  <2> HIDE DEF q, n, heard
  <2>3. /\ Tracks(n, With(n, Before(dut, heard)), f, filler, p + 1)
        /\ n.o_valid <=> p + 1 = Ends(f, filler)
    BY <1>1, <1>2, <1>3, <1>4, <2>1, <2>2, ByteTracked
  <2>4. Tracks(dut, Heard, f, filler, q)'
    BY <1>5, <2>1, <2>3 DEF n
  <2>5. q = p + 1 /\ (dut'.o_valid <=> q = Ends(f, filler))
    BY <2>1, <2>3 DEF n
  <2>6. /\ IF Behind(f, filler, q)' THEN Told' ELSE Awaited(f)'
        /\ CountsTyped' /\ test'.expected = Serialized(f)
    BY <1>1, <1>2, <1>4, <1>6, <2>5, CountsKept DEF heard
  <2> QED BY <1>6, <1>7, <2>4, <2>6 DEF q
<1>8. CASE p = q /\ bus = Low
  <2>1. n = Quiet(dut)
    BY <1>8, LowIs DEF Clocked
  <2> HIDE DEF q, n, heard
  <2>2. Tracks(n, With(n, Before(dut, heard)), f, filler, p) /\ ~n.o_valid
    BY <1>2, <1>3, <1>4, <2>1, QuietTracked
  <2>3. Tracks(dut, Heard, f, filler, q)'
    BY <1>5, <1>8, <2>2 DEF n
  <2>4. q = p /\ ~dut'.o_valid
    BY <1>8, <2>2 DEF n
  <2>5. /\ IF Behind(f, filler, q)' THEN Told' ELSE Awaited(f)'
        /\ CountsTyped' /\ test'.expected = Serialized(f)
    BY <1>1, <1>2, <1>4, <1>6, <2>4, CountsKept DEF heard
  <2> QED BY <1>6, <2>3, <2>4, <2>5 DEF q
<1> QED BY <1>4, <1>7, <1>8 DEF Driving

\* The next cycle of a stream.
LEMMA StreamEdge ==
    ASSUME EtherInv, CountsTyped, CleanStreams, Edge,
           NEW f \in FRAMES, NEW filler \in FILLERS, NEW g \in Nat, NEW p \in Nat,
           test.expected = Serialized(f), Streaming(f, filler, g, p)
    PROVE  /\ \E q \in Nat : Streaming(f, filler, g + 1, q)'
           /\ CountsTyped' /\ test'.expected = Serialized(f)
<1> DEFINE s == build_stream(f, filler)
           size == Len(s)
           q == IF g <= size THEN g ELSE size
           next == g + 1
<1>1. /\ q \in Nat /\ Tracks(dut, Heard, f, filler, q)'
      /\ IF Behind(f, filler, q)' THEN Told' ELSE Awaited(f)'
      /\ CountsTyped' /\ test'.expected = Serialized(f)
      /\ dut'.o_valid => g <= size
  BY StreamClocked DEF Edge
<1>2. size \in Nat
  BY StreamIs
<1>3. g \in 0 .. size + 5 /\ Len(todo) = size + 5 - g
      /\ \A k \in 1 .. Len(todo) : todo[k] = IF g + k <= size THEN Beat(s[g + k]) ELSE Low
  BY DEF Streaming, Driving
<1>4. todo # <<>> /\ todo \in Seq(Beats) /\ bus' = Head(todo) /\ todo' = Tail(todo)
  BY DEF Edge, EtherInv, EtherTyped
<1>5. /\ bus' = todo[1] /\ Len(todo) \in Nat /\ Len(todo) >= 1 /\ Len(todo') = Len(todo) - 1
      /\ \A k \in 1 .. Len(todo') : todo'[k] = todo[k + 1]
  BY <1>4
<1>6. next \in Nat /\ next = g + 1
  OBVIOUS
<1> HIDE DEF size, s, next
<1>7. next \in 0 .. size + 5 /\ Len(todo') = size + 5 - next
  BY <1>2, <1>3, <1>5, <1>6
<1>8. ASSUME NEW k \in 1 .. Len(todo')
      PROVE  todo'[k] = IF next + k <= size THEN Beat(s[next + k]) ELSE Low
  <2> DEFINE j == k + 1
  <2>1. j \in 1 .. Len(todo) /\ g + j = next + k
    BY <1>3, <1>5, <1>6
  <2>2. todo'[k] = todo[j]
    BY <1>5
  <2> HIDE DEF j
  <2>3. todo[j] = IF g + j <= size THEN Beat(s[g + j]) ELSE Low
    BY <1>3, <2>1
  <2> QED BY <2>1, <2>2, <2>3
<1>9. bus' = IF next <= size THEN Beat(s[next]) ELSE Low
  <2>1. 1 \in 1 .. Len(todo)
    BY <1>5
  <2>2. todo[1] = IF g + 1 <= size THEN Beat(s[g + 1]) ELSE Low
    BY <1>3, <2>1
  <2> QED BY <1>5, <1>6, <2>2
<1>10. \/ next \in 1 .. size /\ q = next - 1 /\ bus' = Beat(s[next])
       \/ q = (IF next <= size THEN next ELSE size) /\ bus' = Low
  <2>1. CASE next <= size
    <3>1. next \in 1 .. size /\ q = next - 1
      BY <1>2, <1>6, <2>1
    <3> QED BY <1>9, <2>1, <3>1
  <2>2. CASE ~(next <= size)
    <3>1. q = size
      BY <1>2, <1>6, <2>2
    <3> QED BY <1>9, <2>2, <3>1
  <2> QED BY <2>1, <2>2
<1>11. dut'.o_valid => next <= size + 1
  BY <1>1, <1>2, <1>6
<1> HIDE DEF q
<1>12. Driving(f, filler, next, q)'
  BY <1>7, <1>8, <1>10, <1>11 DEF Driving, size, s
<1>13. Streaming(f, filler, next, q)'
  BY <1>1, <1>12 DEF Streaming
<1> QED BY <1>1, <1>13 DEF next

\* A cycle without a byte, in the middle of a stream.
LEMMA StreamPause ==
    ASSUME EtherInv, CountsTyped, CleanStreams, Pause,
           NEW f \in FRAMES, NEW filler \in FILLERS, NEW g \in Nat, NEW p \in Nat,
           test.expected = Serialized(f), Streaming(f, filler, g, p)
    PROVE  /\ \E q \in Nat : Streaming(f, filler, g, q)'
           /\ CountsTyped' /\ test'.expected = Serialized(f)
<1> DEFINE s == build_stream(f, filler)
           size == Len(s)
           q == IF g <= size THEN g ELSE size
<1>1. /\ q \in Nat /\ Tracks(dut, Heard, f, filler, q)'
      /\ IF Behind(f, filler, q)' THEN Told' ELSE Awaited(f)'
      /\ CountsTyped' /\ test'.expected = Serialized(f)
      /\ dut'.o_valid => g <= size
  BY StreamClocked DEF Pause
<1>2. size \in Nat
  BY StreamIs
<1>3. g \in 0 .. size + 5 /\ Len(todo) = size + 5 - g
      /\ \A k \in 1 .. Len(todo) : todo[k] = IF g + k <= size THEN Beat(s[g + k]) ELSE Low
  BY DEF Streaming, Driving
<1>4. todo' = todo /\ bus' = Low
  BY DEF Pause
<1> HIDE DEF size, s
<1>5. q = (IF g <= size THEN g ELSE size)
  OBVIOUS
<1>6. dut'.o_valid => g <= size + 1
  BY <1>1, <1>2
<1> HIDE DEF q
<1>7. Driving(f, filler, g, q)'
  BY <1>3, <1>4, <1>5, <1>6 DEF Driving, size, s
<1>8. Streaming(f, filler, g, q)'
  BY <1>1, <1>7 DEF Streaming
<1> QED BY <1>1, <1>8

\* A cycle of the reset, or of the stream's start behind it.
LEMMA ResetEdge ==
    ASSUME EtherInv, CountsTyped, CleanStreams, Edge,
           NEW f \in FRAMES, NEW filler \in FILLERS, NEW r \in 0 .. 4,
           test.expected = Serialized(f), Resetting(f, filler, r)
    PROVE  /\ Streaming(f, filler, 0, 0)' \/ \E q \in 0 .. 4 : Resetting(f, filler, q)'
           /\ CountsTyped' /\ test'.expected = Serialized(f)
<1> DEFINE s == build_stream(f, filler)
           size == Len(s)
           next == r + 1
<1>1. size \in Nat /\ Len(filler) \in Nat
  BY StreamIs
<1>2. /\ Len(todo) = size + 10 - r
      /\ \A k \in 1 .. Len(todo) :
            todo[k] = IF k <= 4 - r THEN High
                      ELSE IF k - 5 + r \in 1 .. size THEN Beat(s[k - 5 + r]) ELSE Low
      /\ bus = (IF r = 0 THEN Low ELSE High) /\ ~dut.o_valid /\ Awaited(f)
  BY DEF Resetting
<1>3. /\ todo # <<>> /\ todo \in Seq(Beats) /\ bus' = Head(todo) /\ todo' = Tail(todo)
      /\ dut' = Clocked(dut, bus) /\ Monitors /\ dut \in Framers
  BY DEF Edge, EtherInv, EtherTyped
<1>4. /\ bus' = todo[1] /\ Len(todo) \in Nat /\ Len(todo) >= 1 /\ Len(todo') = Len(todo) - 1
      /\ \A k \in 1 .. Len(todo') : todo'[k] = todo[k + 1]
  BY <1>3
<1>5. test' = test
  BY <1>2, <1>3 DEF Monitors
<1>6. CountsTyped' /\ test'.expected = Serialized(f) /\ Awaited(f)'
  BY <1>2, <1>5 DEF CountsTyped, Awaited
<1>7. High.rst /\ ~High.valid
  BY DEF High, Low
<1>8. IF r = 0 THEN dut' = Quiet(dut) ELSE dut' = ResetState
  <2>1. CASE r = 0
    <3>1. bus = Low
      BY <1>2, <2>1
    <3> QED BY <1>3, <2>1, <3>1, LowIs DEF Clocked
  <2>2. CASE r # 0
    <3>1. bus = High
      BY <1>2, <2>2
    <3> QED BY <1>3, <1>7, <2>2, <3>1 DEF Clocked
  <2> QED BY <2>1, <2>2
<1>9. ~dut'.o_valid
  BY <1>3, <1>8, QuietKeeps, ResetIs
<1> HIDE DEF size, s, next
<1>10. bus' = IF r < 4 THEN High ELSE Low
  <2>1. 1 \in 1 .. Len(todo) /\ (1 <= 4 - r <=> r < 4) /\ (r = 4 => ~(1 - 5 + r \in 1 .. size))
    BY <1>1, <1>4
  <2>2. todo[1] = IF 1 <= 4 - r THEN High
                  ELSE IF 1 - 5 + r \in 1 .. size THEN Beat(s[1 - 5 + r]) ELSE Low
    BY <1>2, <2>1
  <2>3. r < 4 \/ r = 4
    OBVIOUS
  <2> QED BY <1>4, <2>1, <2>2, <2>3
<1>11. CASE r < 4
  <2>1. next \in 0 .. 4 /\ next = r + 1 /\ next # 0
    BY <1>11 DEF next
  <2>2. Len(todo') = size + 10 - next
    BY <1>1, <1>2, <1>4, <2>1
  <2>3. ASSUME NEW k \in 1 .. Len(todo')
        PROVE  todo'[k] = IF k <= 4 - next THEN High
                          ELSE IF k - 5 + next \in 1 .. size THEN Beat(s[k - 5 + next]) ELSE Low
    <3> DEFINE j == k + 1
    <3>1. j \in 1 .. Len(todo) /\ (j <= 4 - r <=> k <= 4 - next) /\ j - 5 + r = k - 5 + next
      BY <1>4, <2>1
    <3>2. todo'[k] = todo[j]
      BY <1>4
    <3> HIDE DEF j
    <3>3. todo[j] = IF j <= 4 - r THEN High
                    ELSE IF j - 5 + r \in 1 .. size THEN Beat(s[j - 5 + r]) ELSE Low
      BY <1>2, <3>1
    <3> QED BY <3>1, <3>2, <3>3
  <2>4. bus' = IF next = 0 THEN Low ELSE High
    BY <1>10, <1>11, <2>1
  <2>5. Resetting(f, filler, next)'
    BY <1>6, <1>9, <2>1, <2>2, <2>3, <2>4 DEF Resetting, size, s
  <2> QED BY <1>6, <2>1, <2>5
<1>12. CASE r = 4
  <2>1. Len(todo') = size + 5 - 0
    BY <1>1, <1>2, <1>4, <1>12
  <2>2. ASSUME NEW k \in 1 .. Len(todo')
        PROVE  todo'[k] = IF 0 + k <= size THEN Beat(s[0 + k]) ELSE Low
    <3> DEFINE j == k + 1
    <3>1. /\ j \in 1 .. Len(todo) /\ ~(j <= 4 - r) /\ j - 5 + r = 0 + k
          /\ (0 + k \in 1 .. size <=> 0 + k <= size)
      BY <1>1, <1>4, <1>12
    <3>2. todo'[k] = todo[j]
      BY <1>4
    <3> HIDE DEF j
    <3>3. todo[j] = IF j <= 4 - r THEN High
                    ELSE IF j - 5 + r \in 1 .. size THEN Beat(s[j - 5 + r]) ELSE Low
      BY <1>2, <3>1
    <3> QED BY <3>1, <3>2, <3>3
  <2>3. bus' = Low /\ 0 \in 0 .. size + 5 /\ 0 = (IF 0 <= size THEN 0 ELSE size)
    BY <1>1, <1>10, <1>12
  <2>4. Driving(f, filler, 0, 0)'
    BY <1>9, <2>1, <2>2, <2>3 DEF Driving, size, s
  <2>5. dut' = ResetState /\ ResetState.pre_cnt = 0 /\ dut'.state = "HUNT"
    BY <1>8, <1>12, ResetIs DEF ResetState
  <2>6. Tracks(dut, Heard, f, filler, 0)'
    <3> DEFINE m == Len(filler)
    <3>1. m \in Nat
      BY <1>1
    <3> HIDE DEF m
    <3>2. 0 - m - 8 < 0 /\ 0 <= m
      BY <3>1
    <3> QED BY <1>9, <2>5, <3>2 DEF Tracks, m
  <2>7. ~Behind(f, filler, 0)'
    <3>1. End(f) \in Nat
      BY Lengths DEF CleanStreams
    <3> DEFINE m == Len(filler)
               ends == End(f)
    <3>2. m \in Nat /\ ends \in Nat
      BY <1>1, <3>1
    <3> HIDE DEF m, ends
    <3>3. ~(0 >= m + 8 + ends)
      BY <3>2
    <3> QED BY <3>3 DEF Behind, Ends, m, ends
  <2>8. Streaming(f, filler, 0, 0)'
    BY <1>6, <2>4, <2>6, <2>7 DEF Streaming
  <2> QED BY <1>6, <2>8
<1> QED BY <1>11, <1>12
\* The cycles of a stream, and of the reset in front of the first.
LEMMA CyclesAre ==
    ASSUME NEW stream \in Seq(Octets)
    PROVE  LET size == Len(stream)
               after == Driven(stream)
               both == ResetCycles \o Driven(stream)
           IN
           /\ Len(after) = size + 5
           /\ \A k \in 1 .. size + 5 : after[k] = IF k <= size THEN Beat(stream[k]) ELSE Low
           /\ Len(both) = size + 10
           /\ \A k \in 1 .. size + 10 :
                 both[k] = IF k <= 4 THEN High
                           ELSE IF k - 5 \in 1 .. size THEN Beat(stream[k - 5]) ELSE Low
<1> DEFINE size == Len(stream)
           beats == [k \in 1 .. size |-> Beat(stream[k])]
           lows == [k \in 1 .. 5 |-> Low]
           highs == [k \in 1 .. 4 |-> High]
           low == <<Low>>
           after == Driven(stream)
           reset == ResetCycles
           both == reset \o after
<1>1. size \in Nat
  OBVIOUS
<1>2. Low \in Beats /\ High \in Beats
  <2>1. Low \in Beats
    BY DEF Low, Beats, Octets
  <2> QED BY <2>1 DEF High, Beats
<1>3. \A k \in 1 .. size : Beat(stream[k]) \in Beats
  <2>1. \A k \in 1 .. size : stream[k] \in Octets
    OBVIOUS
  <2> QED BY <2>1, BeatIs
<1> HIDE DEF size
<1>4. beats \in Seq(Beats) /\ Len(beats) = size /\ \A k \in 1 .. size : beats[k] = Beat(stream[k])
  <2> HIDE DEF Low
  <2> QED BY <1>1, <1>3
<1>5. lows \in Seq(Beats) /\ Len(lows) = 5 /\ \A k \in 1 .. 5 : lows[k] = Low
  <2> HIDE DEF Low
  <2> QED BY <1>2
<1>6. highs \in Seq(Beats) /\ Len(highs) = 4 /\ \A k \in 1 .. 4 : highs[k] = High
  <2> HIDE DEF High
  <2> QED BY <1>2
<1>7. low \in Seq(Beats) /\ Len(low) = 1 /\ low[1] = Low
  <2> HIDE DEF Low
  <2> QED BY <1>2
<1>8. after = beats \o lows /\ reset = highs \o low
  BY DEF Driven, ResetCycles, size
<1> HIDE DEF beats, lows, highs, low, after, reset
<1>9. /\ after \in Seq(Beats) /\ Len(after) = size + 5
      /\ \A k \in 1 .. size + 5 : after[k] = IF k <= size THEN beats[k] ELSE lows[k - size]
  <2>1. beats \in Seq(Beats) /\ lows \in Seq(Beats) /\ Len(beats) = size /\ Len(lows) = 5 /\ after = beats \o lows
    BY <1>4, <1>5, <1>8
  <2>2. /\ beats \o lows \in Seq(Beats) /\ Len(beats \o lows) = Len(beats) + Len(lows)
        /\ \A k \in 1 .. Len(beats \o lows) :
              (beats \o lows)[k] = IF k <= Len(beats) THEN beats[k] ELSE lows[k - Len(beats)]
    BY <2>1, ConcatIs
  <2> QED BY <2>1, <2>2
<1>10. /\ reset \in Seq(Beats) /\ Len(reset) = 5
       /\ \A k \in 1 .. 5 : reset[k] = IF k <= 4 THEN highs[k] ELSE low[k - 4]
  <2>1. highs \in Seq(Beats) /\ low \in Seq(Beats) /\ Len(highs) = 4 /\ Len(low) = 1 /\ reset = highs \o low
    BY <1>6, <1>7, <1>8
  <2>2. /\ highs \o low \in Seq(Beats) /\ Len(highs \o low) = Len(highs) + Len(low)
        /\ \A k \in 1 .. Len(highs \o low) :
              (highs \o low)[k] = IF k <= Len(highs) THEN highs[k] ELSE low[k - Len(highs)]
    BY <2>1, ConcatIs
  <2>3. 4 + 1 = 5
    OBVIOUS
  <2> QED BY <2>1, <2>2, <2>3
<1>11. /\ Len(both) = size + 10
       /\ \A k \in 1 .. size + 10 : both[k] = IF k <= 5 THEN reset[k] ELSE after[k - 5]
  <2>1. reset \in Seq(Beats) /\ after \in Seq(Beats) /\ Len(reset) = 5 /\ Len(after) = size + 5 /\ both = reset \o after
    BY <1>9, <1>10
  <2>2. /\ reset \o after \in Seq(Beats) /\ Len(reset \o after) = Len(reset) + Len(after)
        /\ \A k \in 1 .. Len(reset \o after) :
              (reset \o after)[k] = IF k <= Len(reset) THEN reset[k] ELSE after[k - Len(reset)]
    BY <2>1, ConcatIs
  <2>3. 5 + (size + 5) = size + 10
    BY <1>1
  <2> HIDE DEF both
  <2> QED BY <2>1, <2>2, <2>3
<1> HIDE DEF both
<1>12. ASSUME NEW k \in 1 .. size + 5
       PROVE  after[k] = IF k <= size THEN Beat(stream[k]) ELSE Low
  <2>1. CASE k <= size
    <3>1. k \in 1 .. size
      BY <1>1, <2>1
    <3> QED BY <1>4, <1>9, <2>1, <3>1
  <2>2. CASE ~(k <= size)
    <3>1. k - size \in 1 .. 5
      BY <1>1, <2>2
    <3> QED BY <1>5, <1>9, <2>2, <3>1
  <2> QED BY <2>1, <2>2
<1>13. ASSUME NEW k \in 1 .. size + 10
       PROVE  both[k] = IF k <= 4 THEN High
                        ELSE IF k - 5 \in 1 .. size THEN Beat(stream[k - 5]) ELSE Low
  <2>1. CASE k <= 4
    <3>1. k \in 1 .. 4 /\ k \in 1 .. 5 /\ k <= 5
      BY <2>1
    <3> QED BY <1>6, <1>10, <1>11, <2>1, <3>1
  <2>2. CASE k = 5
    <3>1. k \in 1 .. 5 /\ ~(k <= 4) /\ k - 4 = 1 /\ ~(k - 5 \in 1 .. size)
      BY <2>2
    <3> QED BY <1>7, <1>10, <1>11, <3>1
  <2>3. CASE k > 5
    <3> DEFINE j == k - 5
    <3>1. j \in 1 .. size + 5 /\ ~(k <= 5) /\ ~(k <= 4) /\ (j <= size <=> j \in 1 .. size)
      BY <1>1, <2>3
    <3>2. both[k] = after[j]
      BY <1>11, <3>1
    <3> HIDE DEF j
    <3>3. after[j] = IF j <= size THEN Beat(stream[j]) ELSE Low
      BY <1>12, <3>1
    <3> QED BY <3>1, <3>2, <3>3 DEF j
  <2> QED BY <2>1, <2>2, <2>3
<1> QED BY <1>9, <1>11, <1>12, <1>13 DEF after, both, reset, size

\* When the driver is done with a stream, the framer is idle and Python has
\* counted the frame.
LEMMA DoneWith ==
    ASSUME FrameInv, CleanStreams, todo = <<>>
    PROVE  Told /\ bus = Low /\ ~dut.o_valid /\ (test.sent # 0 => Idle(dut))
<1>1. CASE test.sent = 0
  BY <1>1 DEF FrameInv, Told
<1>2. CASE test.sent # 0
  <2>1. PICK f \in FRAMES, filler \in FILLERS :
           \/ \E g, p \in Nat : Streaming(f, filler, g, p)
           \/ \E r \in 0 .. 4 : Resetting(f, filler, r)
    BY <1>2 DEF FrameInv, InFlight
  <2> DEFINE size == Len(build_stream(f, filler))
  <2>2. size \in Nat /\ Len(filler) \in Nat /\ size = Len(filler) + 8 + Len(Wire(f))
    BY StreamIs
  <2>3. Len(todo) = 0
    OBVIOUS
  <2>4. ~\E r \in 0 .. 4 : Resetting(f, filler, r)
    <3> SUFFICES ASSUME NEW r \in 0 .. 4, Resetting(f, filler, r) PROVE FALSE
      OBVIOUS
    <3>1. Len(todo) = size + 10 - r
      BY DEF Resetting
    <3> HIDE DEF size
    <3> QED BY <2>2, <2>3, <3>1
  <2>5. PICK g \in Nat, p \in Nat : Streaming(f, filler, g, p)
    BY <2>1, <2>4
  <2>6. /\ g \in 0 .. size + 5 /\ Len(todo) = size + 5 - g
        /\ \/ g \in 1 .. size
           \/ p = (IF g <= size THEN g ELSE size) /\ bus = Low
        /\ dut.o_valid => g <= size + 1
        /\ Tracks(dut, Heard, f, filler, p)
        /\ IF Behind(f, filler, p) THEN Told ELSE Awaited(f)
    BY <2>5 DEF Streaming, Driving
  <2> DEFINE m == Len(filler)
             h == HeaderLen(f)
             ends == End(f)
             whole == Len(Wire(f))
  <2>7. /\ whole \in Nat /\ h \in {14, 18} /\ ends \in Nat /\ h < ends /\ ends <= whole
    BY Lengths DEF CleanStreams
  <2> HIDE DEF size, m, h, ends, whole
  <2>8. p = size /\ bus = Low /\ ~dut.o_valid
    BY <2>2, <2>3, <2>6
  <2>9. p >= m + 8 + ends /\ ~(p - m - 8 < 0) /\ ~(p - m - 8 < h) /\ ~(p - m - 8 < ends)
    BY <2>2, <2>7, <2>8 DEF m, whole
  <2>10. LetGo(dut, Heard, f) \/ Idle(dut)
    BY <2>6, <2>9 DEF Tracks, m, h, ends
  <2>11. Behind(f, filler, p)
    BY <2>8, <2>9 DEF Behind, Ends, m, ends
  <2> QED BY <2>6, <2>8, <2>10, <2>11 DEF LetGo
<1> QED BY <1>1, <1>2

\* A stream is queued.
LEMMA SendsFrameTracked ==
    ASSUME FrameInv, CleanStreams, SendsFrame
    PROVE  CountsTyped' /\ test'.sent # 0 /\ InFlight'
<1>1. PICK f \in FRAMES, filler \in FILLERS :
         /\ todo' = (IF test.sent = 0 THEN ResetCycles ELSE <<>>) \o Driven(build_stream(f, filler))
         /\ test' = [test EXCEPT !.expected = Serialized(f), !.sent = @ + 1,
                                !.intact = @ + (IF f.damaged THEN 0 ELSE 1)]
  BY DEF SendsFrame
<1> DEFINE s == build_stream(f, filler)
           size == Len(s)
           good == IF f.damaged THEN 0 ELSE 1
<1>2. todo = <<>> /\ dut' = dut /\ bus' = bus /\ Heard' = Heard
  BY DEF SendsFrame, Heard
<1>3. Told /\ bus = Low /\ ~dut.o_valid /\ (test.sent # 0 => Idle(dut))
  BY <1>2, DoneWith
<1>4. s \in Seq(Octets) /\ size \in Nat /\ Len(filler) \in Nat
  BY StreamIs
<1>5. good \in {0, 1}
  OBVIOUS
<1>6. /\ test.sent \in Nat /\ test.checked \in Nat /\ test.matches \in Nat /\ test.intact \in Nat
      /\ DOMAIN test = {"expected", "sent", "intact", "checked", "matches"}
  BY DEF FrameInv, EtherInv, EtherTyped, CountsTyped
<1> HIDE DEF s, size
<1>7. /\ test'.sent = test.sent + 1 /\ test'.intact = test.intact + good
      /\ test'.checked = test.checked /\ test'.matches = test.matches
      /\ test'.expected = Serialized(f)
  BY <1>1, <1>6
<1>8. Awaited(f)'
  BY <1>3, <1>7 DEF Awaited, Told
<1> HIDE DEF good
<1>9. CountsTyped' /\ test'.sent # 0 /\ test'.sent > 0
  BY <1>5, <1>6, <1>7 DEF CountsTyped
<1>10. ~dut'.o_valid /\ bus' = Low
  BY <1>2, <1>3
<1>11. CASE test.sent = 0
  <2>1. todo' = ResetCycles \o Driven(s)
    BY <1>1, <1>11 DEF s
  <2>2. /\ Len(todo') = size + 10
        /\ \A k \in 1 .. size + 10 :
              todo'[k] = IF k <= 4 THEN High
                         ELSE IF k - 5 \in 1 .. size THEN Beat(s[k - 5]) ELSE Low
    BY <1>4, <2>1, CyclesAre DEF size
  <2>3. /\ Len(todo') = size + 10 - 0 /\ 0 \in 0 .. 4
        /\ \A k \in 1 .. Len(todo') :
              todo'[k] = IF k <= 4 - 0 THEN High
                         ELSE IF k - 5 + 0 \in 1 .. size THEN Beat(s[k - 5 + 0]) ELSE Low
    <3>1. \A k \in 1 .. size + 10 : k - 5 + 0 = k - 5 /\ 4 - 0 = 4
      BY <1>4
    <3>2. size + 10 - 0 = size + 10
      BY <1>4
    <3> QED BY <2>2, <3>1, <3>2
  <2>4. Resetting(f, filler, 0)'
    BY <1>8, <1>10, <2>3 DEF Resetting, size, s
  <2> QED BY <1>7, <1>9, <2>3, <2>4 DEF InFlight
<1>12. CASE test.sent # 0
  <2>1. todo' = Driven(s)
    <3>1. Driven(s) \in Seq(Beats)
      BY <1>4, DrivenIs
    <3> QED BY <1>1, <1>12, <3>1 DEF s
  <2>2. /\ Len(todo') = size + 5
        /\ \A k \in 1 .. size + 5 : todo'[k] = IF k <= size THEN Beat(s[k]) ELSE Low
    BY <1>4, <2>1, CyclesAre DEF size
  <2>3. /\ Len(todo') = size + 5 - 0 /\ 0 \in 0 .. size + 5 /\ 0 = (IF 0 <= size THEN 0 ELSE size)
        /\ \A k \in 1 .. Len(todo') : todo'[k] = IF 0 + k <= size THEN Beat(s[0 + k]) ELSE Low
    <3>1. \A k \in 1 .. size + 5 : 0 + k = k
      BY <1>4
    <3>2. size + 5 - 0 = size + 5 /\ 0 \in 0 .. size + 5 /\ 0 <= size
      BY <1>4
    <3> QED BY <2>2, <3>1, <3>2
  <2>4. Driving(f, filler, 0, 0)'
    BY <1>10, <2>3 DEF Driving, size, s
  <2> DEFINE m == Len(filler)
             ends == End(f)
  <2>5. m \in Nat /\ ends \in Nat
    BY <1>4, Lengths DEF CleanStreams
  <2> HIDE DEF m, ends
  <2>6. 0 - m - 8 < 0 /\ 0 <= m /\ ~(0 >= m + 8 + ends)
    BY <2>5
  <2>7. Tracks(dut, Heard, f, filler, 0)'
    BY <1>2, <1>3, <1>12, <2>6 DEF Tracks, Idle, m
  <2>8. ~Behind(f, filler, 0)'
    BY <2>6 DEF Behind, Ends, m, ends
  <2>9. Streaming(f, filler, 0, 0)'
    BY <1>8, <2>4, <2>7, <2>8 DEF Streaming
  <2> QED BY <1>7, <1>9, <2>9 DEF InFlight
<1> QED BY <1>11, <1>12

\* A rising edge.
LEMMA CycleTracked ==
    ASSUME FrameInv, CleanStreams, Edge \/ Pause
    PROVE  CountsTyped' /\ test'.sent # 0 /\ InFlight'
<1>1. EtherInv /\ CountsTyped
  BY DEF FrameInv
<1>2. test.sent # 0 /\ test.sent \in Nat
  BY <1>1 DEF EtherInv, ResetFirst, EtherTyped, Edge, Pause
<1>3. PICK f \in FRAMES, filler \in FILLERS :
         /\ test.expected = Serialized(f)
         /\ \/ \E g, p \in Nat : Streaming(f, filler, g, p)
            \/ \E r \in 0 .. 4 : Resetting(f, filler, r)
  BY <1>2 DEF FrameInv, InFlight
<1>4. test'.sent = test.sent
  BY <1>1, EdgeLeaves DEF Edge, Pause
<1>5. test'.sent # 0 /\ test'.sent > 0
  BY <1>2, <1>4
<1>6. ASSUME NEW g \in Nat, NEW p \in Nat, Streaming(f, filler, g, p)
      PROVE  CountsTyped' /\ InFlight'
  <2>1. CASE Edge
    <3>1. PICK q \in Nat : Streaming(f, filler, g + 1, q)'
      BY <1>1, <1>3, <1>6, <2>1, StreamEdge
    <3>2. CountsTyped' /\ test'.expected = Serialized(f)
      BY <1>1, <1>3, <1>6, <2>1, StreamEdge
    <3>3. g + 1 \in Nat
      OBVIOUS
    <3> QED BY <1>5, <3>1, <3>2, <3>3 DEF InFlight
  <2>2. CASE Pause
    <3>1. PICK q \in Nat : Streaming(f, filler, g, q)'
      BY <1>1, <1>3, <1>6, <2>2, StreamPause
    <3>2. CountsTyped' /\ test'.expected = Serialized(f)
      BY <1>1, <1>3, <1>6, <2>2, StreamPause
    <3> QED BY <1>5, <3>1, <3>2 DEF InFlight
  <2> QED BY <2>1, <2>2
<1>7. ASSUME NEW r \in 0 .. 4, Resetting(f, filler, r)
      PROVE  CountsTyped' /\ InFlight'
  <2>1. ~bus.valid
    BY <1>7 DEF Resetting, High, Low
  <2>2. Edge
    BY <2>1 DEF Pause
  <2>3. /\ Streaming(f, filler, 0, 0)' \/ \E q \in 0 .. 4 : Resetting(f, filler, q)'
        /\ CountsTyped' /\ test'.expected = Serialized(f)
    BY <1>1, <1>3, <1>7, <2>2, ResetEdge
  <2> QED BY <1>5, <2>3 DEF InFlight
<1> QED BY <1>3, <1>5, <1>6, <1>7

\* At the start.
LEMMA FrameStarts == EtherInit => FrameInv
<1> SUFFICES ASSUME EtherInit PROVE FrameInv
  OBVIOUS
<1>1. EtherInv
  BY EtherStarts
<1>2. test = [expected |-> <<>>, sent |-> 0, intact |-> 0, checked |-> 0, matches |-> 0] /\ bus = Low
  BY DEF EtherInit
<1>3. ~dut.o_valid
  <2> DEFINE odd == [ResetState EXCEPT !.state = "PAYLOAD", !.len_mode = TRUE]
  <2>1. odd.o_valid = ResetState.o_valid
    BY ResetIs DEF Framers
  <2>2. dut \in {ResetState, odd}
    BY DEF EtherInit
  <2> HIDE DEF odd
  <2> QED BY <2>1, <2>2, ResetIs
<1>4. CountsTyped
  BY <1>2 DEF CountsTyped
<1> QED BY <1>1, <1>2, <1>3, <1>4 DEF FrameInv

\* When the driver is done with a stream, Python has seen one frame for it, and
\* the very bytes it built if they went out undamaged (check_packet, and the
\* counts start_test ends with), however long the frame and its filler, tagged or
\* not, padded, short or longer than the framer accepts, and wherever the
\* producer pauses: as long as the frames are well made, nothing in front of the
\* end of one checks as if it were the end, and the filler holds no preamble.
THEOREM FramesComeOut == CleanStreams => (EtherSpec => []EveryFrameComesOut)
<1> SUFFICES ASSUME CleanStreams PROVE EtherSpec => []EveryFrameComesOut
  OBVIOUS
<1>1. EtherInit => FrameInv
  BY FrameStarts
<1>2. FrameInv /\ [EtherNext]_etherVars => FrameInv'
  <2> SUFFICES ASSUME FrameInv, [EtherNext]_etherVars PROVE FrameInv'
    OBVIOUS
  <2>1. EtherInv
    BY DEF FrameInv
  <2>2. CASE SendsFrame
    <3>1. EtherInv'
      BY <2>1, <2>2, SendsFrameStep
    <3> QED BY <2>2, <3>1, SendsFrameTracked DEF FrameInv
  <2>3. CASE Edge
    <3>1. EtherInv'
      BY <2>1, <2>3, EdgeStep
    <3> QED BY <2>3, <3>1, CycleTracked DEF FrameInv
  <2>4. CASE Pause
    <3>1. EtherInv'
      BY <2>1, <2>4, PauseStep
    <3> QED BY <2>4, <3>1, CycleTracked DEF FrameInv
  <2>5. CASE UNCHANGED etherVars
    <3>1. EtherInv'
      BY <2>1, <2>5, EtherStutters
    <3>2. /\ dut' = dut /\ bus' = bus /\ todo' = todo /\ pl' = pl /\ test' = test
          /\ Heard' = Heard
      BY <2>5 DEF etherVars, Heard
    <3>3. InFlight' <=> InFlight
      <4>1. ASSUME NEW f, NEW filler, NEW g, NEW p
            PROVE  Streaming(f, filler, g, p)' <=> Streaming(f, filler, g, p)
        BY <3>2 DEF Streaming, Driving, Tracks, Behind, Told, Awaited
      <4>2. ASSUME NEW f, NEW filler, NEW r
            PROVE  Resetting(f, filler, r)' <=> Resetting(f, filler, r)
        BY <3>2 DEF Resetting, Awaited
      <4> QED BY <3>2, <4>1, <4>2 DEF InFlight
    <3> QED BY <3>1, <3>2, <3>3 DEF FrameInv, CountsTyped
  <2> QED BY <2>2, <2>3, <2>4, <2>5 DEF EtherNext
<1>3. FrameInv => EveryFrameComesOut
  <2> SUFFICES ASSUME FrameInv, todo = <<>> PROVE test.checked = test.sent /\ test.matches = test.intact
    BY DEF EveryFrameComesOut
  <2> QED BY DoneWith DEF Told
<1> QED BY <1>1, <1>2, <1>3, PTL DEF EtherSpec
===============================================================================
