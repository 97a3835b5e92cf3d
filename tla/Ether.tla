--------------------------------- MODULE Ether ---------------------------------
(***************************************************************************)
(* The Ethernet frame extractor (rtl/ether.sv) in its testbench            *)
(* (verif/pyhdl/ether): a driver that streams the bytes Python built, the  *)
(* framer, a monitor that rebuilds each frame, and Python's comparison.    *)
(* A step is one rising edge of the clock, or Python's next stream.        *)
(*                                                                         *)
(* The CRC register is kept as what it depends on, the bytes since the     *)
(* SFD: its residue is reached exactly when the last four are their FCS.   *)
(***************************************************************************)
EXTENDS Integers, Sequences, SequencesExt

CONSTANTS
    MAX_FRAME_BYTES, MIN_FRAME_BYTES, MIN_PREAMBLE_LEN,
    Fcs(_),        \* the four bytes of the check sequence of some bytes
    FRAMES,        \* the frames Python draws from
    FILLERS,       \* the filler in front of them
    NUM_PACKETS    \* how many streams it sends

\* The counters of the framer have 16 bits.  A frame is let go as soon as it is
\* longer than MAX_FRAME_BYTES, so below the last value they never wrap, and the
\* casts of the limits lose nothing.
ASSUME EtherAssumption ==
    /\ {MAX_FRAME_BYTES, MIN_FRAME_BYTES, NUM_PACKETS} \subseteq Nat
    /\ MAX_FRAME_BYTES <= 65534 /\ MIN_FRAME_BYTES <= 65535
    /\ MIN_PREAMBLE_LEN \in 1 .. 7

VARIABLES
    dut,    \* the registers of the framer, its outputs among them
    bus,    \* what the driver puts on the inputs: rst, valid, data
    todo,   \* the driver: what it still has to put there, cycle by cycle
    pl,     \* the monitor: the payload beats since the last frame
    test    \* Python: the frame it expects and its counts; history: intact, the
            \* undamaged streams among those sent

etherVars == <<dut, bus, todo, pl, test>>

PREAMBLE_BYTE == 85
SFD_BYTE == 213
VLAN_TPID == <<129, 0>>
MAX_LEN_FIELD == 1500

Octets == 0 .. 255

\* What a register of n bytes holds.
Shifters(n) == {sr \in Seq(Octets) : Len(sr) = n}

Low == [rst |-> FALSE, valid |-> FALSE, data |-> 0]
High == [Low EXCEPT !.rst = TRUE]
Beat(byte) == [Low EXCEPT !.valid = TRUE, !.data = byte]

-------------------------------------------------------------------------------
(* The framer.                                                             *)

Zeros(n) == [i \in 1 .. n |-> 0]

NoBeat == [valid |-> FALSE, data |-> 0, last |-> FALSE]

NoResult == [dst |-> Zeros(6), src |-> Zeros(6), type |-> Zeros(2), vlan |-> FALSE,
             tci |-> Zeros(2), bytes |-> 0, fcs_ok |-> FALSE, runt |-> FALSE,
             oversize |-> FALSE]

ResetState ==
    [state |-> "HUNT", pre_cnt |-> 0, hdr_cnt |-> 0, pl_cnt |-> 0, crc |-> <<>>, dly |-> <<>>,
     len_mode |-> FALSE, len_field |-> 0, vlan_seen |-> FALSE, dst_sr |-> Zeros(6),
     src_sr |-> Zeros(6), type_sr |-> Zeros(2), tci_sr |-> Zeros(2),
     o_pl |-> NoBeat, o_valid |-> FALSE, result |-> NoResult]

\* The single-cycle pulses, low unless the state says otherwise.
Quiet(d) == [d EXCEPT !.o_pl = NoBeat, !.o_valid = FALSE]

Hunt(d, byte) ==
    IF byte = SFD_BYTE /\ d.pre_cnt >= MIN_PREAMBLE_LEN
    THEN [d EXCEPT !.state = "DST", !.hdr_cnt = 0, !.pl_cnt = 0, !.dly = <<>>, !.crc = <<>>,
                   !.vlan_seen = FALSE, !.len_mode = FALSE, !.pre_cnt = 0]
    ELSE IF byte = PREAMBLE_BYTE
    THEN [d EXCEPT !.pre_cnt = IF @ = 7 THEN @ ELSE @ + 1]
    ELSE [d EXCEPT !.pre_cnt = 0]

Shifted(sr, byte) == Append(Tail(sr), byte)

\* A header field of n bytes is counted through, then comes the next state.
Counted(d, n, state) ==
    IF d.hdr_cnt = n - 1 THEN [d EXCEPT !.hdr_cnt = 0, !.state = state]
                         ELSE [d EXCEPT !.hdr_cnt = @ + 1]

Number(pair) == (pair[1] * 256) + pair[2]

\* The type field: a tag announces itself once, anything else is a length or
\* the type of the payload.
TypeByte(d, byte) ==
    LET type_nxt == Shifted(d.type_sr, byte)
        e == [d EXCEPT !.type_sr = type_nxt]
    IN  IF d.hdr_cnt = 1 /\ ~d.vlan_seen /\ type_nxt = VLAN_TPID
        THEN [Counted(e, 2, "VLAN") EXCEPT !.vlan_seen = TRUE]
        ELSE IF d.hdr_cnt = 1
        THEN [Counted(e, 2, "PAYLOAD") EXCEPT !.len_mode = Number(type_nxt) <= MAX_LEN_FIELD,
                                              !.len_field = Number(type_nxt)]
        ELSE Counted(e, 2, "TYPE")

\* The residue is reached: the last four bytes check what is in front of them.
CrcHit(crc) ==
    Len(crc) >= 4 /\ SubSeq(crc, Len(crc) - 3, Len(crc)) = Fcs(SubSeq(crc, 1, Len(crc) - 4))

Mut_Emits(d) == Len(d.dly) = 4

\* A byte leaves the holdback: payload for certain, unless it is padding.
Emits(d) == Len(d.dly) = 4 /\ ~(d.len_mode /\ d.pl_cnt >= d.len_field)

Held(dly, byte) == IF Len(dly) = 4 THEN Shifted(dly, byte) ELSE Append(dly, byte)

Retired(d, hit, count) ==
    [d EXCEPT !.o_valid = TRUE, !.state = "HUNT", !.pre_cnt = 0,
              !.result = [dst |-> d.dst_sr, src |-> d.src_sr, type |-> d.type_sr,
                          vlan |-> d.vlan_seen, tci |-> d.tci_sr, bytes |-> count,
                          fcs_ok |-> hit, oversize |-> ~hit,
                          runt |-> hit /\ Len(d.crc) < MIN_FRAME_BYTES]]

Mut_IsLast(d, hit, count) == hit

IsLast(d, hit, count) == hit \/ (d.len_mode /\ count = d.len_field)

\* d.crc holds this byte already.
PayloadByte(d, byte) ==
    LET hit == CrcHit(d.crc)
        count == d.pl_cnt + (IF Emits(d) THEN 1 ELSE 0)
        e == [d EXCEPT !.dly = Held(@, byte), !.pl_cnt = count,
                       !.o_pl = IF Emits(d)
                                THEN [valid |-> TRUE, data |-> d.dly[1],
                                      last |-> IsLast(d, hit, count)]
                                ELSE NoBeat]
    IN  IF hit \/ Len(d.crc) > MAX_FRAME_BYTES THEN Retired(e, hit, count) ELSE e

InFrame(d, byte) ==
    CASE d.state = "DST"     -> Counted([d EXCEPT !.dst_sr = Shifted(@, byte)], 6, "SRC")
      [] d.state = "SRC"     -> Counted([d EXCEPT !.src_sr = Shifted(@, byte)], 6, "TYPE")
      [] d.state = "TYPE"    -> TypeByte(d, byte)
      [] d.state = "VLAN"    -> Counted([d EXCEPT !.tci_sr = Shifted(@, byte)], 2, "TYPE")
      [] d.state = "PAYLOAD" -> PayloadByte(d, byte)

\* A rising edge; without i_valid the parser stalls.
Clocked(d, i) ==
    IF i.rst THEN ResetState
    ELSE IF ~i.valid THEN Quiet(d)
    ELSE IF d.state = "HUNT" THEN Hunt(Quiet(d), i.data)
    ELSE InFrame([Quiet(d) EXCEPT !.crc = Append(@, i.data)], i.data)

-------------------------------------------------------------------------------
(* The testbench.                                                          *)

\* A frame as scapy serializes it: a record of its fields, pad beside them.
Serialized(f) ==
    f.dst \o f.src \o (IF f.vlan THEN VLAN_TPID \o f.tci ELSE <<>>) \o f.type \o f.payload

\* The stream of a frame, a damaged one followed by enough filler to end it.
build_stream(f, filler) ==
    LET body == Serialized(f) \o f.pad IN
    filler \o [i \in 1 .. 7 |-> PREAMBLE_BYTE] \o <<SFD_BYTE>> \o body
      \o (IF f.damaged THEN Zeros(MAX_FRAME_BYTES) ELSE Fcs(body))

\* What is sent are bytes.
ASSUME BytesAssumption ==
    \A f \in FRAMES, filler \in FILLERS : build_stream(f, filler) \in Seq(Octets)

\* The first stream waits for the reset.
Driven(stream) == [k \in 1 .. Len(stream) |-> Beat(stream[k])] \o [k \in 1 .. 5 |-> Low]

ResetCycles == [k \in 1 .. 4 |-> High] \o <<Low>>

\* Registers that nothing has reset yet.
EtherInit ==
    /\ dut \in {ResetState, [ResetState EXCEPT !.state = "PAYLOAD", !.len_mode = TRUE]}
    /\ bus = Low /\ todo = <<>> /\ pl = <<>>
    /\ test = [expected |-> <<>>, sent |-> 0, intact |-> 0, checked |-> 0, matches |-> 0]

SendsFrame ==
    /\ todo = <<>> /\ test.sent < NUM_PACKETS
    /\ \E f \in FRAMES, filler \in FILLERS :
          /\ todo' = (IF test.sent = 0 THEN ResetCycles ELSE <<>>) \o Driven(build_stream(f, filler))
          /\ test' = [test EXCEPT !.expected = Serialized(f), !.sent = @ + 1,
                                 !.intact = @ + (IF f.damaged THEN 0 ELSE 1)]
    /\ UNCHANGED <<dut, bus, pl>>

Heard == IF dut.o_pl.valid THEN Append(pl, dut.o_pl) ELSE pl

Rebuilt ==
    Serialized([dst |-> dut.result.dst, src |-> dut.result.src, vlan |-> dut.result.vlan,
                tci |-> dut.result.tci, type |-> dut.result.type,
                payload |-> [k \in 1 .. Len(Heard) |-> Heard[k].data]])

\* The monitor samples what the framer put out at the edge before; so does
\* the framer what the driver did.
Monitors ==
    /\ pl' = IF dut.o_valid THEN <<>> ELSE Heard
    /\ test' = IF ~dut.o_valid THEN test
               ELSE [test EXCEPT !.checked = @ + 1,
                                 !.matches = @ + (IF Rebuilt = test.expected THEN 1 ELSE 0)]

Edge ==
    /\ todo # <<>>
    /\ bus' = Head(todo) /\ todo' = Tail(todo)
    /\ dut' = Clocked(dut, bus)
    /\ Monitors

\* A bursty producer: no byte in this cycle, between two of a stream.
Pause ==
    /\ todo # <<>> /\ bus.valid /\ Head(todo).valid
    /\ bus' = Low /\ dut' = Clocked(dut, bus)
    /\ Monitors /\ UNCHANGED todo

EtherNext == SendsFrame \/ Edge \/ Pause

EtherSpec == EtherInit /\ [][EtherNext]_etherVars

-------------------------------------------------------------------------------
(* The frames that are sent.                                               *)

\* What follows the SFD.
Body(f) == Serialized(f) \o f.pad

Wire(f) == Body(f) \o (IF f.damaged THEN Zeros(MAX_FRAME_BYTES) ELSE Fcs(Body(f)))

HeaderLen(f) == IF f.vlan THEN 18 ELSE 14

Short(f) == Number(f.type) <= MAX_LEN_FIELD

\* A frame of one of build_stream's flavours, short enough for the framer: a
\* length field gives the length of the payload, and without one there is no
\* padding. A damaged frame has no length field, by which its payload would come
\* out right all the same. Nothing in a frame but its end checks as its end does.
WellMade(f) ==
    /\ f.dst \in Shifters(6) /\ f.src \in Shifters(6) /\ f.type \in Shifters(2)
    /\ f.vlan \in BOOLEAN /\ f.damaged \in BOOLEAN
    /\ IF f.vlan THEN f.tci \in Shifters(2) ELSE f.type # VLAN_TPID
    /\ f.payload \in Seq(Octets) /\ f.pad \in Seq(Octets)
    /\ IF Short(f) THEN Number(f.type) = Len(f.payload) /\ ~f.damaged ELSE f.pad = <<>>
    /\ Fcs(Body(f)) \in Shifters(4) /\ Len(Body(f)) + 4 <= MAX_FRAME_BYTES
    /\ \A k \in HeaderLen(f) + 1 .. Len(Wire(f)) :
          CrcHit(SubSeq(Wire(f), 1, k)) => ~f.damaged /\ k = Len(Wire(f))

\* And no filler has a byte that could be mistaken for a preamble.
CleanStreams ==
    /\ \A f \in FRAMES : WellMade(f)
    /\ \A filler \in FILLERS :
          filler \in Seq(Octets) /\ \A k \in 1 .. Len(filler) : filler[k] # PREAMBLE_BYTE

-------------------------------------------------------------------------------
(* What the framer guarantees.                                             *)

\* When the driver is done with a stream, Python has seen one frame for it,
\* and the very bytes it built if they went out undamaged: nothing of the
\* filler, the padding, the FCS or an abandoned frame, nothing missing
\* (check_packet, and the counts start_test ends with).
EveryFrameComesOut ==
    todo = <<>> => test.checked = test.sent /\ test.matches = test.intact

\* Of a good frame's payload exactly the last byte is marked o_pl_last, although
\* the framer learns that the frame is over only when the FCS is in.
LastMarksTheEnd ==
    dut.o_valid /\ dut.result.fcs_ok =>
        \A k \in 1 .. Len(Heard) : Heard[k].last <=> k = Len(Heard)
===============================================================================
