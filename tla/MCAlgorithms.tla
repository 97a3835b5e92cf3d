---------------------------- MODULE MCAlgorithms ----------------------------
(***************************************************************************)
(* The parts that can be checked by themselves, one at a time: sequence    *)
(* arithmetic (MCSeqNum), the segment codec, the round-trip estimator and  *)
(* the Ethernet framer.  Which one a behaviour is about is chosen at the   *)
(* start; the variables of the others keep the values they have there.      *)
(***************************************************************************)
EXTENDS MCSeqNum, Segment, Rtt, Ether, FiniteSets, FiniteSetsExt

VARIABLES
    part,       \* the part this behaviour is about
    message     \* the codec: what is encoded

allVars == <<part, message, vars, rttVars, etherVars>>

-------------------------------------------------------------------------------
(* The codec, on lists of options and on segments.                         *)

\* Options by their encoding: what parse_options knows, an unknown kind, a
\* known kind of the wrong length, and a length no option can have.
Options ==
    {<<OPT_EOL>>, <<OPT_NOP>>, <<OPT_MSS, 4, 5, 180>>, <<OPT_MSS, 4, 0, 1>>,
     <<OPT_WSCALE, 3, 7>>, <<5, 4, OPT_MSS, 4>>, <<OPT_MSS, 3, 9>>, <<8, 1>>}

NoHeader == [f \in Fields |-> 0]

NoSegment == [header |-> NoHeader, payload |-> <<>>, mss |-> Absent, wscale |-> Absent,
              raw_options |-> <<>>]

NoMessage == [options |-> <<>>, cut |-> 0, segment |-> NoSegment]

\* Up to three options, cut off after any byte.
OptionLists ==
    {m \in [options : UNION {[1 .. n -> Options] : n \in 0 .. 3}, cut : 0 .. 12,
            segment : {NoSegment}] : m.cut <= Len(FlattenSeq(m.options))}

\* Unknown options of n bytes in all, none longer than 20.
Raw(n) == FlattenSeq([k \in 1 .. n \div 20 |-> <<9, 20>> \o [i \in 1 .. 18 |-> 2]])
            \o (IF n % 20 < 2 THEN <<>> ELSE <<9, n % 20>> \o [i \in 1 .. (n % 20) - 2 |-> 3])

\* Fields narrower and wider than on the wire, options up to the 40 bytes the
\* data offset can name, a payload that looks like options.
Segments ==
    {[NoMessage EXCEPT !.segment =
        [header |-> [NoHeader EXCEPT !.seq = s, !.window = w, !.flags = 24],
         payload |-> p, mss |-> m, wscale |-> ws, raw_options |-> Raw(n)]] :
        s \in {0, MOD + 3}, w \in {0, 65535, 70000}, p \in {<<>>, <<2, 4, 1>>},
        m \in {Absent, 0, 1460, 65535}, ws \in {Absent, 0, 14},
        n \in {0, 2, 3, 5, 30, 33, 36, 40}}

EncodingOf(list) == FlattenSeq(list)

\* The options of a list that parse sees: whole ones, as far as the cut and the
\* first that ends the list.
Seen(list, cut) ==
    LET ends(k) == list[k] \in {<<OPT_EOL>>, <<8, 1>>}
        seen(k) == /\ Len(EncodingOf(SubSeq(list, 1, k))) <= cut
                   /\ \A j \in 1 .. k : ~ends(j)
    IN  SubSeq(list, 1, Max({k \in 0 .. Len(list) : seen(k)}))

LastOr(seq, default) == IF seq = <<>> THEN default ELSE Last(seq)

\* parse_options, whatever it is given: of the whole options in front of an
\* end of list, a truncation or an impossible length, the last MSS and the
\* last window scale count and every other is kept as it was, in order
\* (segment.py, _parse_options).
OptionsMean ==
    part = "codec" =>
        LET seen == Seen(message.options, message.cut)
            isMss(o) == o[1] = OPT_MSS /\ Len(o) = 4
            isScale(o) == o[1] = OPT_WSCALE
            other(o) == ~isMss(o) /\ ~isScale(o) /\ o # <<OPT_NOP>>
            parsed == parse_options(SubSeq(EncodingOf(message.options), 1, message.cut))
            mss == LastOr(SelectSeq(seen, isMss), <<>>)
            scale == LastOr(SelectSeq(seen, isScale), <<>>)
        IN  /\ parsed.mss = IF mss = <<>> THEN Absent ELSE (mss[3] * 256) + mss[4]
            /\ parsed.wscale = IF scale = <<>> THEN Absent ELSE scale[3]
            /\ parsed.raw_options = FlattenSeq(SelectSeq(seen, other))

OnWire(s) == [s EXCEPT !.header = [f \in Fields |-> @[f] % Width[f]]]

\* What is built is parsed as it was, its fields cut to their width, as long as
\* the options fit the data offset; and what was parsed from any image that is
\* well formed is built and parsed again without a change (build, parse).
BuildThenParse ==
    part = "codec" =>
        /\ Len(build_options(message.segment)) <= 40 =>
              parse(build(message.segment)) = OnWire(message.segment)
        /\ message.cut % 4 = 0 =>
              LET image == [header |-> NoHeader, offset |-> 5 + (message.cut \div 4),
                            tail |-> EncodingOf(message.options)]
              IN  parse(build(parse(image))) = parse(image)

-------------------------------------------------------------------------------
(* The framer's frames.                                                    *)

\* A check sequence that no other prefix of the frames below ends with.
MCFcs(bytes) == <<Len(bytes) % 256, FoldLeft(+, 0, bytes) % 256, 171, 205>>

\* An address with a preamble and an SFD inside.
Mac(last) == <<85, 85, 85, 85, 213, last>>

Frame(type, vlan, payload, pad, damaged) ==
    [dst |-> Mac(1), src |-> Mac(85), vlan |-> vlan, tci |-> IF vlan THEN <<85, 7>> ELSE <<>>,
     type |-> type, payload |-> payload, pad |-> pad, damaged |-> damaged]

Payloads == {<<>>, <<9>>, <<85, 213>>, <<129, 0, 3>>}

\* Ethernet II, tagged or not, intact or not; 802.3 with its padding.
MCFrames ==
    {Frame(<<8, 0>>, vlan, p, <<>>, damaged) : vlan, damaged \in BOOLEAN, p \in Payloads}
      \cup {Frame(<<0, Len(p)>>, FALSE, p, [k \in 1 .. n |-> 85], FALSE) :
               p \in Payloads, n \in 0 .. 2}

MCFillers == {<<>>, <<SFD_BYTE, 3>>}

ASSUME MCCleanStreams == CleanStreams

MCRoundTrips == {0, 3, 8, 20}

-------------------------------------------------------------------------------

SeqNumParked == next = MOD /\ start = MOD /\ len = 0 /\ wnd = 0

EtherParked == EtherInit /\ dut = ResetState

AlgorithmsInit ==
    \/ /\ part = "seqnum" /\ Init
       /\ message = NoMessage /\ RttInit /\ EtherParked
    \/ /\ part = "codec" /\ message \in OptionLists \cup Segments
       /\ SeqNumParked /\ RttInit /\ EtherParked
    \/ /\ part = "rtt" /\ RttInit
       /\ SeqNumParked /\ message = NoMessage /\ EtherParked
    \/ /\ part = "ether" /\ EtherInit
       /\ SeqNumParked /\ message = NoMessage /\ RttInit

AlgorithmsNext ==
    /\ \/ part = "seqnum" /\ Slide /\ UNCHANGED <<rttVars, etherVars>>
       \/ part = "rtt" /\ RttNext /\ UNCHANGED <<vars, etherVars>>
       \/ part = "ether" /\ EtherNext /\ UNCHANGED <<vars, rttVars>>
    /\ UNCHANGED <<part, message>>

AlgorithmsSpec == AlgorithmsInit /\ [][AlgorithmsNext]_allVars
===============================================================================
