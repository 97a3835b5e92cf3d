------------------------------- MODULE TcpStream -------------------------------
(***************************************************************************)
(* What one direction of an established connection promises its users      *)
(* (the byte stream of tcp_model/core/engine.py, told as if sequence       *)
(* numbers never wrapped): a sender, a receiver and a wire that keeps, for *)
(* as long as it likes, any of the items and acknowledgments put on it.    *)
(*                                                                         *)
(* Item i of the stream is accepted[i]; the last may be the FIN.  The      *)
(* engines refine this module through the mapping in TcpRefinement.        *)
(***************************************************************************)
EXTENDS Naturals, Sequences

CONSTANTS
    Item,       \* what the stream is made of: bytes, and the mark of a FIN
    Offers,     \* the sequences of items a user may hand over in one step
    LIMIT       \* bound on the length of the stream

ASSUME StreamAssumption == Offers \subseteq Seq(Item) /\ LIMIT \in Nat

VARIABLES
    accepted,   \* the items the sender's user has handed over, all of them
    una,        \* items 1 .. una are acknowledged
    nxt,        \* items 1 .. nxt have been transmitted at least once
    data,       \* items on the wire: pairs <<position, item>>
    acks,       \* acknowledgments on the wire: counts of items
    rcvd,       \* the items the receiver has taken, in order
    held        \* items kept by the receiver until the gap before them closes

vars == <<accepted, una, nxt, data, acks, rcvd, held>>

Init ==
    /\ accepted = <<>> /\ rcvd = <<>>
    /\ una = 0 /\ nxt = 0
    /\ data = {} /\ acks = {} /\ held = {}

\* An operator named Mut_... is the one that follows it with a plausible bug.

Mut_OutstandingUnsent(from, to, items) == {<<i, items[i]>> : i \in (from + 1) .. Len(items)}

\* The items a sender may put on the wire: sent before and not acknowledged,
\* or next in the stream.
Outstanding(from, to, items) == {<<i, items[i]>> : i \in (from + 1) .. to}

Mut_Acceptable == (una + 1) .. nxt

\* The acknowledgments a sender may act on.
Acceptable == {a \in acks : una < a /\ a <= nxt}

\* One entry into the sending engine: it may accept items, take one
\* acknowledgment, and transmit or retransmit some of what is outstanding.
SenderStep ==
    /\ \E more \in Offers \cup {<<>>} : accepted' = accepted \o more
    /\ Len(accepted') <= LIMIT
    /\ una' \in {una} \cup Acceptable
    /\ nxt' \in nxt .. Len(accepted')
    /\ \E out \in SUBSET Outstanding(una', nxt', accepted') : data' = data \cup out
    /\ acks' \in SUBSET acks
    /\ UNCHANGED <<rcvd, held>>

\* What the receiver can see: items it kept and items arriving.
Reachable == held \cup data

InSight(i) == \E item \in Item : <<i, item>> \in Reachable

Mut_ItemAt(i) == CHOOSE item \in Item : \E x \in Reachable : x[2] = item

ItemAt(i) == CHOOSE item \in Item : <<i, item>> \in Reachable

\* One entry into the receiving engine: it may take a run of items that
\* continues the stream, keep others, and acknowledge what it has taken.
ReceiverStep ==
    /\ \E n \in 0 .. LIMIT :
          /\ \A i \in 1 .. n : InSight(Len(rcvd) + i)
          /\ rcvd' = rcvd \o [i \in 1 .. n |-> ItemAt(Len(rcvd) + i)]
    /\ held' \in SUBSET Reachable
    /\ \E out \in SUBSET (Len(rcvd) .. Len(rcvd')) : acks' = acks \cup out
    /\ data' \in SUBSET data
    /\ UNCHANGED <<accepted, una, nxt>>

\* The wire drops, or stops repeating, some of what it carries.
Lose ==
    /\ data' \in SUBSET data
    /\ acks' \in SUBSET acks
    /\ UNCHANGED <<accepted, una, nxt, rcvd, held>>

Next == SenderStep \/ ReceiverStep \/ Lose

Spec == Init /\ [][Next]_vars

-------------------------------------------------------------------------------

TypeOK ==
    /\ accepted \in Seq(Item) /\ rcvd \in Seq(Item)
    /\ una \in Nat /\ nxt \in Nat
    /\ data \subseteq (Nat \ {0}) \X Item
    /\ held \subseteq (Nat \ {0}) \X Item
    /\ acks \subseteq Nat

\* What the receiver has taken is a prefix of what the sender's user handed
\* over, however the wire repeated, dropped and reordered it (_recv_data,
\* _merge_reassembly).
Delivered ==
    /\ Len(rcvd) <= Len(accepted)
    /\ \A i \in 1 .. Len(rcvd) : rcvd[i] = accepted[i]

\* The four counts never cross: an item is acknowledged only after it was
\* taken, taken only after it was sent, sent only after it was accepted
\* (_process_ack, _queue_and_send).
CountsOrdered == una <= Len(rcvd) /\ Len(rcvd) <= nxt /\ nxt <= Len(accepted)

\* Everything on the wire or kept for reassembly is an item of the stream, at
\* its position, and was sent.
Genuine ==
    \A x \in data \cup held : x[1] \in 1 .. nxt /\ x[2] = accepted[x[1]]

\* No acknowledgment on the wire claims more than was taken.
AcksHonest == \A a \in acks : a <= Len(rcvd)

\* The inductive invariant: Delivered needs Genuine, and CountsOrdered needs
\* AcksHonest, to survive a step.
IInv == TypeOK /\ Delivered /\ CountsOrdered /\ Genuine /\ AcksHonest
===============================================================================
