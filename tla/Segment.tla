-------------------------------- MODULE Segment --------------------------------
(***************************************************************************)
(* The segment codec (tcp_model/core/segment.py).                          *)
(*                                                                         *)
(* The fixed header is kept as its fields, each as wide as on the wire;    *)
(* what follows it, options and payload, is kept byte by byte, for parse   *)
(* has only the data offset to tell them apart.  The width of a sequence   *)
(* number is MOD (SeqNum), all other numbers are the code's.               *)
(***************************************************************************)
EXTENDS SeqNum, Sequences, SequencesExt

OPT_EOL == 0
OPT_NOP == 1
OPT_MSS == 2
OPT_WSCALE == 3

Absent == -1                \* None
Malformed == [raises |-> "ValueError"]    \* or struct.error

Width == [src_port |-> 65536, dst_port |-> 65536, seq |-> MOD, ack |-> MOD, flags |-> 256,
          window |-> 65536, checksum |-> 65536, urgent_ptr |-> 65536]

Fields == DOMAIN Width

\* A segment is [header, payload, mss, wscale, raw_options]; an image is
\* [header, offset, tail], offset being the upper nibble of its thirteenth
\* byte, or Malformed when it has fewer than 20 bytes.

Mut_Padded(bytes) == bytes

\* NOPs up to a multiple of four.
Padded(bytes) == bytes \o [i \in 1 .. (4 - (Len(bytes) % 4)) % 4 |-> OPT_NOP]

build_options(s) ==
    Padded((IF s.mss = Absent THEN <<>> ELSE <<OPT_MSS, 4, s.mss \div 256, s.mss % 256>>)
             \o (IF s.wscale = Absent THEN <<>> ELSE <<OPT_WSCALE, 3, s.wscale>>)
             \o s.raw_options)

\* struct.pack takes what fits in an option.
Packable(s) == s.mss \in Absent .. 65535 /\ s.wscale \in Absent .. 255

ImageOf(s, options) ==
    [header |-> [f \in Fields |-> s.header[f] % Width[f]],
     offset |-> ((20 + Len(options)) \div 4) % 16,
     tail   |-> options \o s.payload]

build(s) == IF Packable(s) THEN ImageOf(s, build_options(s)) ELSE Malformed

NoOptions == [mss |-> Absent, wscale |-> Absent, raw_options |-> <<>>]

Unless(later, value) == IF later = Absent THEN value ELSE later

\* An option in front of those decoded behind it, the last of a kind winning.
InFront(kind, body, option, rest) ==
    IF kind = OPT_MSS /\ Len(body) = 2
    THEN [rest EXCEPT !.mss = Unless(@, (body[1] * 256) + body[2])]
    ELSE IF kind = OPT_WSCALE /\ Len(body) = 1
    THEN [rest EXCEPT !.wscale = Unless(@, body[1])]
    ELSE [rest EXCEPT !.raw_options = option \o @]

Mut_Whole(bytes, i) ==
    /\ i < Len(bytes)
    /\ bytes[i + 1] >= 2 /\ i + bytes[i + 1] <= Len(bytes)

\* The option at i says how long it is, and all of it is there.
Whole(bytes, i) ==
    /\ i < Len(bytes)
    /\ bytes[i + 1] >= 2 /\ i + bytes[i + 1] - 1 <= Len(bytes)

parse_options(bytes) ==
    LET from[i \in 1 .. Len(bytes) + 1] ==
          IF i > Len(bytes) THEN NoOptions
          ELSE IF bytes[i] = OPT_EOL THEN NoOptions
          ELSE IF bytes[i] = OPT_NOP THEN from[i + 1]
          ELSE IF ~Whole(bytes, i) THEN NoOptions
          ELSE InFront(bytes[i], SubSeq(bytes, i + 2, i + bytes[i + 1] - 1),
                       SubSeq(bytes, i, i + bytes[i + 1] - 1), from[i + bytes[i + 1]])
    IN  from[1]

Decoded(image, hdr_len, options) ==
    [header |-> image.header,
     payload |-> SubSeq(image.tail, hdr_len - 19, Len(image.tail)),
     mss |-> options.mss, wscale |-> options.wscale, raw_options |-> options.raw_options]

\* The data offset names a header of 20 bytes at least that the image holds;
\* tcp_item.from_bytes accepts the same images.
WellFormed(image) ==
    image # Malformed /\ image.offset * 4 \in 20 .. 20 + Len(image.tail)

parse(image) ==
    IF ~WellFormed(image) THEN Malformed
    ELSE Decoded(image, image.offset * 4,
                 parse_options(SubSeq(image.tail, 1, (image.offset * 4) - 20)))
===============================================================================
