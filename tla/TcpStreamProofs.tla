---------------------------- MODULE TcpStreamProofs ----------------------------
(***************************************************************************)
(* TcpStream keeps its promise for every set of items, every set of offers *)
(* and every length of stream.                                             *)
(***************************************************************************)
EXTENDS TcpStream, TLAPS

\* Appending to a sequence adds elements after those it had and changes none.
LEMMA AppendKeeps ==
  ASSUME NEW S, NEW s \in Seq(S), NEW t \in Seq(S)
  PROVE  /\ s \o t \in Seq(S)
         /\ Len(s \o t) = Len(s) + Len(t)
         /\ \A i \in 1 .. Len(s) : (s \o t)[i] = s[i]
         /\ \A i \in 1 .. Len(t) : (s \o t)[Len(s) + i] = t[i]
  OBVIOUS

\* What a sender may put on the wire is in the stream, at its position.
LEMMA OutstandingGenuine ==
  ASSUME NEW items \in Seq(Item), NEW from \in Nat, NEW to \in 0 .. Len(items),
         NEW x \in Outstanding(from, to, items)
  PROVE  x \in (Nat \ {0}) \X Item /\ x[1] \in 1 .. to /\ x[2] = items[x[1]]
<1>1. PICK i \in (from + 1) .. to : x = <<i, items[i]>>
  BY DEF Outstanding
<1>2. i \in Nat \ {0} /\ i \in 1 .. to /\ i \in 1 .. Len(items)
  OBVIOUS
<1> QED BY <1>1, <1>2

\* The initial state satisfies the inductive invariant.
LEMMA InitIInv == Init => IInv
  BY StreamAssumption DEF Init, IInv, TypeOK, Delivered, CountsOrdered, Genuine, AcksHonest

\* A sender may accept, transmit and take acknowledgments in one step without
\* touching what the receiver relies on.
LEMMA SenderKeepsIInv == ASSUME IInv, SenderStep PROVE IInv'
<1>1. PICK more \in Offers \cup {<<>>} : accepted' = accepted \o more
  BY DEF SenderStep
<1>2. more \in Seq(Item) /\ accepted \in Seq(Item)
  <2>1. CASE more = <<>>
    BY <2>1 DEF IInv, TypeOK
  <2>2. CASE more \in Offers
    BY <2>2, StreamAssumption DEF IInv, TypeOK
  <2> QED BY <2>1, <2>2
<1>3. /\ accepted' \in Seq(Item)
      /\ Len(accepted') >= Len(accepted)
      /\ \A i \in 1 .. Len(accepted) : accepted'[i] = accepted[i]
  BY <1>1, <1>2, AppendKeeps
<1>4. una' \in Nat /\ una' <= Len(rcvd)
  BY DEF SenderStep, Acceptable, IInv, TypeOK, CountsOrdered, AcksHonest
<1>5. nxt' \in Nat /\ nxt <= nxt' /\ nxt' <= Len(accepted')
  BY <1>3 DEF SenderStep, IInv, TypeOK
<1>6. PICK out \in SUBSET Outstanding(una', nxt', accepted') : data' = data \cup out
  BY DEF SenderStep
<1>7. \A x \in out : x \in (Nat \ {0}) \X Item /\ x[1] \in 1 .. nxt' /\ x[2] = accepted'[x[1]]
  <2> SUFFICES ASSUME NEW x \in out
               PROVE  x \in (Nat \ {0}) \X Item /\ x[1] \in 1 .. nxt' /\ x[2] = accepted'[x[1]]
    OBVIOUS
  <2>1. accepted' \in Seq(Item) /\ una' \in Nat /\ nxt' \in 0 .. Len(accepted')
    BY <1>3, <1>4, <1>5
  <2>2. x \in Outstanding(una', nxt', accepted')
    BY <1>6
  <2> QED BY <2>1, <2>2, OutstandingGenuine
<1>8. \A x \in data \cup held : x[1] \in 1 .. nxt' /\ x[2] = accepted'[x[1]]
  <2> SUFFICES ASSUME NEW x \in data \cup held
               PROVE  x[1] \in 1 .. nxt' /\ x[2] = accepted'[x[1]]
    OBVIOUS
  <2>1. x[1] \in 1 .. nxt /\ x[2] = accepted[x[1]]
    BY DEF IInv, Genuine
  <2>2. x[1] \in 1 .. nxt' /\ x[1] \in 1 .. Len(accepted)
    BY <1>2, <1>5, <2>1 DEF IInv, TypeOK, CountsOrdered
  <2> QED BY <1>3, <2>1, <2>2
<1>9. UNCHANGED <<rcvd, held>> /\ acks' \subseteq acks
  BY DEF SenderStep
<1>10. TypeOK'
  BY <1>3, <1>4, <1>5, <1>6, <1>7, <1>9 DEF IInv, TypeOK
<1>11. Delivered'
  <2>1. Len(rcvd) \in Nat /\ Len(accepted) \in Nat /\ Len(accepted') \in Nat
    BY <1>2, <1>3 DEF IInv, TypeOK
  <2> QED BY <1>3, <1>9, <2>1 DEF IInv, Delivered
<1>12. CountsOrdered'
  BY <1>4, <1>5, <1>9 DEF IInv, TypeOK, CountsOrdered
<1>13. Genuine'
  BY <1>6, <1>7, <1>8, <1>9 DEF Genuine
<1>14. AcksHonest'
  BY <1>9 DEF IInv, AcksHonest
<1> QED BY <1>10, <1>11, <1>12, <1>13, <1>14 DEF IInv

\* A receiver that only takes items in sequence, from what it can see, extends
\* a prefix of the stream by a prefix of the rest.
LEMMA ReceiverKeepsIInv == ASSUME IInv, ReceiverStep PROVE IInv'
<1>1. PICK n \in 0 .. LIMIT :
          /\ \A i \in 1 .. n : InSight(Len(rcvd) + i)
          /\ rcvd' = rcvd \o [i \in 1 .. n |-> ItemAt(Len(rcvd) + i)]
  BY DEF ReceiverStep
<1>2. PICK run :
          /\ run = [i \in 1 .. n |-> ItemAt(Len(rcvd) + i)]
          /\ run \in [1 .. n -> Item]
          /\ \A i \in 1 .. n : <<Len(rcvd) + i, run[i]>> \in Reachable
          /\ rcvd' = rcvd \o run
  <2> DEFINE r == [i \in 1 .. n |-> ItemAt(Len(rcvd) + i)]
  <2>1. ASSUME NEW i \in 1 .. n
        PROVE  /\ ItemAt(Len(rcvd) + i) \in Item
               /\ <<Len(rcvd) + i, ItemAt(Len(rcvd) + i)>> \in Reachable
    BY <1>1 DEF InSight, ItemAt
  <2>2. r \in [1 .. n -> Item] /\ \A i \in 1 .. n : <<Len(rcvd) + i, r[i]>> \in Reachable
    BY <2>1
  <2> QED BY <1>1, <2>2
<1>3. n \in Nat /\ run \in Seq(Item) /\ Len(run) = n
  <2>1. n \in Nat
    BY StreamAssumption
  <2>2. run \in [1 .. n -> Item]
    BY <1>2
  <2> QED BY <2>1, <2>2
<1>4. rcvd \in Seq(Item) /\ accepted \in Seq(Item) /\ nxt \in Nat /\ una \in Nat
  BY DEF IInv, TypeOK
<1>5. /\ rcvd' \in Seq(Item)
      /\ Len(rcvd') = Len(rcvd) + n
      /\ \A i \in 1 .. Len(rcvd) : rcvd'[i] = rcvd[i]
      /\ \A i \in 1 .. n : rcvd'[Len(rcvd) + i] = run[i]
  <2>1. /\ rcvd \o run \in Seq(Item)
        /\ Len(rcvd \o run) = Len(rcvd) + Len(run)
        /\ \A i \in 1 .. Len(rcvd) : (rcvd \o run)[i] = rcvd[i]
        /\ \A i \in 1 .. Len(run) : (rcvd \o run)[Len(rcvd) + i] = run[i]
    <3>1. rcvd \in Seq(Item) /\ run \in Seq(Item)
      BY <1>3, <1>4
    <3> QED BY <3>1, AppendKeeps
  <2>2. rcvd' = rcvd \o run
    BY <1>2
  <2> QED BY <2>1, <2>2, <1>3
<1>6. \A i \in 1 .. n : Len(rcvd) + i \in 1 .. nxt /\ run[i] = accepted[Len(rcvd) + i]
  <2> SUFFICES ASSUME NEW i \in 1 .. n
               PROVE  Len(rcvd) + i \in 1 .. nxt /\ run[i] = accepted[Len(rcvd) + i]
    OBVIOUS
  <2>1. <<Len(rcvd) + i, run[i]>> \in data \cup held
    BY <1>2 DEF Reachable
  <2> QED BY <2>1 DEF IInv, Genuine
<1>7. Len(rcvd') <= nxt
  <2>1. CASE n = 0
    BY <2>1, <1>4, <1>5 DEF IInv, CountsOrdered
  <2>2. CASE n # 0
    <3>1. n \in 1 .. n
      BY <2>2, <1>3
    <3>2. Len(rcvd) + n \in 1 .. nxt
      BY <3>1, <1>6
    <3> QED BY <3>2, <1>4, <1>5
  <2> QED BY <2>1, <2>2
<1>8. UNCHANGED <<accepted, una, nxt>> /\ held' \subseteq Reachable /\ data' \subseteq data
  BY DEF ReceiverStep
<1>9. PICK out \in SUBSET (Len(rcvd) .. Len(rcvd')) : acks' = acks \cup out
  BY DEF ReceiverStep
<1>10. TypeOK'
  BY <1>4, <1>5, <1>8, <1>9 DEF IInv, TypeOK, Reachable
<1>11. Delivered'
  <2>1. Len(rcvd') <= Len(accepted')
    BY <1>4, <1>5, <1>7, <1>8 DEF IInv, CountsOrdered
  <2>2. ASSUME NEW i \in 1 .. Len(rcvd') PROVE rcvd'[i] = accepted'[i]
    <3>1. CASE i <= Len(rcvd)
      <4>1. i \in 1 .. Len(rcvd)
        BY <3>1, <1>4, <1>5
      <4> QED BY <4>1, <1>5, <1>8 DEF IInv, Delivered
    <3>2. CASE ~(i <= Len(rcvd))
      <4>1. i - Len(rcvd) \in 1 .. n /\ Len(rcvd) + (i - Len(rcvd)) = i
        BY <3>2, <1>3, <1>4, <1>5
      <4> QED BY <4>1, <1>5, <1>6, <1>8
    <3> QED BY <3>1, <3>2
  <2> QED BY <2>1, <2>2 DEF Delivered
<1>12. CountsOrdered'
  BY <1>4, <1>5, <1>7, <1>8, <1>3 DEF IInv, CountsOrdered
<1>13. Genuine'
  BY <1>8 DEF IInv, Genuine, Reachable
<1>14. AcksHonest'
  <2> SUFFICES ASSUME NEW a \in acks' PROVE a <= Len(rcvd')
    BY DEF AcksHonest
  <2>1. CASE a \in acks
    BY <2>1, <1>3, <1>4, <1>5 DEF IInv, TypeOK, AcksHonest
  <2>2. CASE a \in out
    BY <2>2, <1>9, <1>4, <1>5
  <2> QED BY <1>9, <2>1, <2>2
<1> QED BY <1>10, <1>11, <1>12, <1>13, <1>14 DEF IInv

\* Losing what is on the wire leaves less to be wrong.
LEMMA LoseKeepsIInv == ASSUME IInv, Lose PROVE IInv'
<1>1. /\ UNCHANGED <<accepted, una, nxt, rcvd, held>>
      /\ data' \subseteq data /\ acks' \subseteq acks
  BY DEF Lose
<1> QED BY <1>1 DEF IInv, TypeOK, Delivered, CountsOrdered, Genuine, AcksHonest

\* The invariant is inductive, so it holds throughout every behaviour.
THEOREM Invariant == Spec => []IInv
<1>1. IInv /\ [Next]_vars => IInv'
  <2> SUFFICES ASSUME IInv, [Next]_vars PROVE IInv'
    OBVIOUS
  <2>1. CASE SenderStep
    BY <2>1, SenderKeepsIInv
  <2>2. CASE ReceiverStep
    BY <2>2, ReceiverKeepsIInv
  <2>3. CASE Lose
    BY <2>3, LoseKeepsIInv
  <2>4. CASE UNCHANGED vars
    BY <2>4 DEF vars, IInv, TypeOK, Delivered, CountsOrdered, Genuine, AcksHonest
  <2> QED BY <2>1, <2>2, <2>3, <2>4 DEF Next
<1> QED BY <1>1, InitIInv, PTL DEF Spec

\* Every variable keeps its type.
THEOREM TypeCorrect == Spec => []TypeOK
<1>1. IInv => TypeOK
  BY DEF IInv
<1> QED BY <1>1, Invariant, PTL

\* The receiver's user is told a prefix of what the sender's user sent.
THEOREM StreamDelivered == Spec => []Delivered
<1>1. IInv => Delivered
  BY DEF IInv
<1> QED BY <1>1, Invariant, PTL

\* Acknowledged, taken, transmitted and accepted never overtake one another.
THEOREM CountsStayOrdered == Spec => []CountsOrdered
<1>1. IInv => CountsOrdered
  BY DEF IInv
<1> QED BY <1>1, Invariant, PTL
===============================================================================
