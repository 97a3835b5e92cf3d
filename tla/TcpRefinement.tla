----------------------------- MODULE TcpRefinement -----------------------------
(***************************************************************************)
(* Each direction of a seeded connection implements TcpStream.  The        *)
(* mapping reads the wrapped sequence numbers of the engines as counts     *)
(* from the first byte of the direction.                                   *)
(***************************************************************************)
EXTENDS TcpProperties

\* The number of items of the direction that leaves s before sequence number x.
Before(s, x) == sub(x, add(ISS[s], 1))

\* The items of that direction which seq numbers, a payload and a FIN stand for.
ItemsOf(s, seq, payload, fin) ==
    {<<Before(s, seq) + i, payload[i]>> : i \in DOMAIN payload}
      \cup (IF fin THEN {<<Before(s, seq) + Len(payload) + 1, EOF>>} ELSE {})

\* RSTs carry neither items nor acknowledgments.
InFlight(s) == {seg \in BagToSet(net[s]) : "RST" \notin seg.flags}

OnWire(s) ==
    UNION {ItemsOf(s, seg.seq, seg.payload, "FIN" \in seg.flags) :
              seg \in InFlight(Peer(s))}

AcksOnWire(s) == {Before(s, seg.ack) : seg \in {g \in InFlight(s) : "ACK" \in g.flags}}

\* Out-of-order segments, and a FIN noted ahead of a gap.
Held(s) ==
    LET e == eng[Peer(s)] IN
    (UNION {ItemsOf(s, o.seq, o.data, FALSE) : o \in e.ooo})
      \cup (IF e.pending_fin = None THEN {} ELSE ItemsOf(s, e.pending_fin, <<>>, TRUE))

Offered(s) ==
    {[i \in 1 .. n |-> k + i] : n \in 1 .. SEND_LIMIT[s], k \in 0 .. SEND_LIMIT[s]}
      \cup {<<EOF>>}

AToB ==
    INSTANCE TcpStream WITH
        Item     <- 1 .. SEND_LIMIT["A"] \cup {EOF},
        Offers   <- Offered("A"),
        LIMIT    <- SEND_LIMIT["A"] + 1,
        accepted <- Accepted("A"),
        una      <- Before("A", eng["A"].snd_una),
        nxt      <- Before("A", eng["A"].snd_nxt),
        data     <- OnWire("A"),
        acks     <- AcksOnWire("A"),
        rcvd     <- eng["B"].stream,
        held     <- Held("A")

\* The direction that leaves A: each step of the two engines and the wire is a
\* step of TcpStream or leaves it alone, so data, FIN and acknowledgments obey
\* the theorems of TcpStreamProofs (on_segment, send, close, _on_rto,
\* _on_persist and the Wire).
AToBIsAStream == AToB!Spec
===============================================================================
