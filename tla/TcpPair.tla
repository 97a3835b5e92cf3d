-------------------------------- MODULE TcpPair --------------------------------
(***************************************************************************)
(* Two TCP engines joined by a wire (tcp_model/ports/net_port.py, Wire)    *)
(* that may drop, duplicate and reorder what it carries, each driven by a  *)
(* user and by its timers.  Every step is one entry into one engine, run   *)
(* to completion, or one act of the wire.                                  *)
(*                                                                         *)
(* A side's user hands the bytes 1, 2, 3, ... to SEND in that order, so a  *)
(* byte's value is its position in the stream.                             *)
(***************************************************************************)
EXTENDS TcpEngine, Bags

CONSTANTS
    ISS,           \* ISS[s]: the initial sequence number of side s
    PORT_KNOWN,    \* PORT_KNOWN[s]: s is constructed with a remote port
    SEND_LIMIT,    \* SEND_LIMIT[s]: bytes the user of s hands to SEND in all
    OPENERS,       \* sides that may OPEN actively
    LISTENERS,     \* sides that may OPEN passively
    CLOSERS,       \* sides that may CLOSE
    BUDGET,        \* bounds on the events a run could repeat without end
    PATIENT        \* timers wait for the wire and the readers to be idle

Sides == {"A", "B"}

Peer(s) == IF s = "A" THEN "B" ELSE "A"

BudgetKeys == {"open", "abort", "lose", "duplicate", "rto", "persist", "keepalive"}

ASSUME PairAssumption ==
    /\ ISS \in [Sides -> SeqNums]
    /\ PORT_KNOWN \in [Sides -> BOOLEAN]
    /\ SEND_LIMIT \in [Sides -> Nat]
    /\ \A s \in Sides : 2 * RCV_WND + 2 < HALF /\ SEND_LIMIT[s] + 2 < MOD
    /\ OPENERS \cup LISTENERS \cup CLOSERS \subseteq Sides
    /\ BUDGET \in [BudgetKeys -> Nat]
    /\ PATIENT \in BOOLEAN

VARIABLES
    eng,     \* eng[s]: the engine of side s
    net,     \* net[s]: the bag of segments in flight to side s
    sent,    \* history: sent[s] bytes were handed to SEND by the user of s
    ended,   \* history: ended[s], the user of s closed a connection it had
    left     \* what remains of BUDGET

vars == <<eng, net, sent, ended, left>>

Init ==
    /\ eng = [s \in Sides |-> NewEngine(PORT_KNOWN[s])]
    /\ net = [s \in Sides |-> EmptyBag]
    /\ sent = [s \in Sides |-> 0]
    /\ ended = [s \in Sides |-> FALSE]
    /\ left = BUDGET

\* Both engines dropped into ESTABLISHED at matching positions.
SeededInit ==
    /\ eng = [s \in Sides |-> SeedEstablished(NewEngine(TRUE), add(ISS[s], 1),
                                              add(ISS[Peer(s)], 1))]
    /\ net = [s \in Sides |-> EmptyBag]
    /\ sent = [s \in Sides |-> 0]
    /\ ended = [s \in Sides |-> FALSE]
    /\ left = BUDGET

-------------------------------------------------------------------------------
(* The step shapes.                                                        *)

BagOf(segs) ==
    [seg \in Range(segs) |-> Cardinality({i \in 1 .. Len(segs) : segs[i] = seg})]

\* Side s becomes e; what it transmitted joins what is in flight to its peer.
Becomes(s, e, taken) ==
    /\ eng' = [eng EXCEPT ![s] = [e EXCEPT !.out = <<>>]]
    /\ net' = [net EXCEPT ![s] = taken,
                          ![Peer(s)] = @ (+) BagOf(e.out)]

Enters(s, e) == Becomes(s, e, net[s])

Spend(k) == left[k] > 0 /\ left' = [left EXCEPT ![k] = @ - 1]

-------------------------------------------------------------------------------
(* The users.                                                              *)

UserActiveOpen(s) ==
    /\ s \in OPENERS /\ MayOpen(eng[s], TRUE)
    /\ Spend("open")
    /\ Enters(s, ActiveOpen(eng[s], ISS[s]))
    /\ UNCHANGED <<sent, ended>>

UserPassiveOpen(s) ==
    /\ s \in LISTENERS /\ MayOpen(eng[s], FALSE)
    /\ Spend("open")
    /\ Enters(s, PassiveOpen(eng[s]))
    /\ UNCHANGED <<sent, ended>>

UserSend(s) ==
    /\ MaySendCall(eng[s])
    /\ \E n \in 1 .. SEND_LIMIT[s] - sent[s] :
          /\ sent' = [sent EXCEPT ![s] = @ + n]
          /\ Enters(s, Send(eng[s], [i \in 1 .. n |-> sent[s] + i], ISS[s]))
    /\ UNCHANGED <<ended, left>>

UserReceive(s) ==
    /\ MayReceive(eng[s])
    /\ \E n \in 1 .. Len(eng[s].recv_buf) : Enters(s, Receive(eng[s], n))
    /\ UNCHANGED <<sent, ended, left>>

UserClose(s) ==
    /\ s \in CLOSERS /\ MayClose(eng[s])
    /\ Enters(s, Close(eng[s]))
    /\ ended' = [ended EXCEPT ![s] = @ \/ eng[s].state \notin {"LISTEN", "SYN_SENT"}]
    /\ UNCHANGED <<sent, left>>

UserAbort(s) ==
    /\ eng[s].state # "CLOSED"
    /\ Spend("abort")
    /\ Enters(s, Abort(eng[s]))
    /\ UNCHANGED <<sent, ended>>

-------------------------------------------------------------------------------
(* The wire.                                                               *)

Arrive(s) ==
    /\ \E seg \in BagToSet(net[s]) :
          Becomes(s, OnSegment(eng[s], seg, ISS[s]), net[s] (-) SetToBag({seg}))
    /\ UNCHANGED <<sent, ended, left>>

Lose(s) ==
    /\ Spend("lose")
    /\ \E seg \in BagToSet(net[s]) : net' = [net EXCEPT ![s] = @ (-) SetToBag({seg})]
    /\ UNCHANGED <<eng, sent, ended>>

Duplicate(s) ==
    /\ Spend("duplicate")
    /\ \E seg \in BagToSet(net[s]) : net' = [net EXCEPT ![s] = @ (+) SetToBag({seg})]
    /\ UNCHANGED <<eng, sent, ended>>

-------------------------------------------------------------------------------
(* The timers.  An armed timer may expire at any moment, as often as the   *)
(* budget allows.  When PATIENT it may expire without a bound, but the     *)
(* periods count for something: retransmission and probing outlast the     *)
(* wire and the reader, two retransmission timers, which back off alike,   *)
(* expire in turn, and keepalive_idle outlasts every other period.         *)

Idle ==
    \A s \in Sides :
        net[s] = EmptyBag /\ (eng[s].recv_buf = <<>> \/ ~MayReceive(eng[s]))

InTurn(s) == eng[Peer(s)].rt_timer => eng[s].rto_count <= eng[Peer(s)].rto_count

AtRest ==
    \A s \in Sides : LET e == eng[s] IN
        ~(e.rt_timer \/ e.persist_timer \/ e.ack_timer \/ e.tw_timer)

MayExpire(k, waited) == IF PATIENT THEN Idle /\ waited /\ UNCHANGED left ELSE Spend(k)

RtoExpires(s) ==
    /\ eng[s].rt_timer
    /\ MayExpire("rto", InTurn(s))
    /\ Enters(s, OnRto(eng[s], FALSE))
    /\ UNCHANGED <<sent, ended>>

\* The user timeout has passed by the time the retransmission timer expires.
UserTimeout(s) ==
    /\ eng[s].rt_timer
    /\ Spend("abort")
    /\ Enters(s, OnRto(eng[s], TRUE))
    /\ UNCHANGED <<sent, ended>>

PersistExpires(s) ==
    /\ eng[s].persist_timer
    /\ MayExpire("persist", TRUE)
    /\ Enters(s, OnPersist(eng[s]))
    /\ UNCHANGED <<sent, ended>>

KeepaliveExpires(s) ==
    /\ eng[s].ka_timer
    /\ MayExpire("keepalive", AtRest)
    /\ Enters(s, OnKeepalive(eng[s]))
    /\ UNCHANGED <<sent, ended>>

DelackExpires(s) ==
    /\ eng[s].ack_timer
    /\ Enters(s, OnDelack(eng[s]))
    /\ UNCHANGED <<sent, ended, left>>

TimeWaitExpires(s) ==
    /\ eng[s].tw_timer
    /\ Enters(s, OnTimeWait(eng[s]))
    /\ UNCHANGED <<sent, ended, left>>

-------------------------------------------------------------------------------

User(s) ==
    \/ UserActiveOpen(s) \/ UserPassiveOpen(s)
    \/ UserSend(s) \/ UserReceive(s) \/ UserClose(s) \/ UserAbort(s)

Wire(s) == Arrive(s) \/ Lose(s) \/ Duplicate(s)

Timers(s) ==
    \/ RtoExpires(s) \/ UserTimeout(s) \/ PersistExpires(s)
    \/ KeepaliveExpires(s) \/ DelackExpires(s) \/ TimeWaitExpires(s)

Next == \E s \in Sides : User(s) \/ Wire(s) \/ Timers(s)

Spec == Init /\ [][Next]_vars

SeededSpec == SeededInit /\ [][Next]_vars

\* The segments in flight to s that carry a FIN, text, or neither.
InFlightOf(s, kind) ==
    {seg \in BagToSet(net[s]) :
        kind = IF "FIN" \in seg.flags THEN "fin"
               ELSE IF seg.payload # <<>> THEN "text" ELSE "bare"}

\* One of them leaves the wire: it arrives, or it is lost, which the budget
\* allows finitely often.
Leaves(s, kind) ==
    \E seg \in InFlightOf(s, kind) : net'[s] = net[s] (-) SetToBag({seg})

\* Weak fairness of the wire, kind by kind, its enabling condition written
\* out: no kind of segment overtakes the others for ever.
WireDelivers(s) ==
    \A kind \in {"fin", "text", "bare"} :
        []<>(InFlightOf(s, kind) = {}) \/ []<><<Leaves(s, kind)>>_vars

\* What is in flight arrives, the scheduler runs what is due, readers read.
TimerFires(s) ==
    \/ RtoExpires(s) \/ PersistExpires(s) \/ KeepaliveExpires(s)
    \/ DelackExpires(s) \/ TimeWaitExpires(s)

Fairness ==
    \A s \in Sides :
        WireDelivers(s) /\ WF_vars(TimerFires(s)) /\ WF_vars(UserReceive(s))

FairSeededSpec == SeededSpec /\ Fairness
===============================================================================
