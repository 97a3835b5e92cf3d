------------------------------ MODULE CoSimProofs ------------------------------
(***************************************************************************)
(* The co-simulation keeps its four safety properties whatever the tests,  *)
(* the engines, and the bounds on segments, phases, time and exceptions.   *)
(***************************************************************************)
EXTENDS CoSim, SequenceTheorems, TLAPS

Image == [n : Nat, ok : BOOLEAN]

\* Where a body may stand.  B is never at A's places, nor A at B's.
AtCall == {"lock", "item", "gap"}
PlacesOf(s) ==
    {"start", "drain", "last", "ended"} \cup AtCall
      \cup (IF s = "A" THEN {"head", "turn", "wait", "woke", "finally"} ELSE {"top", "parked"})

TypeOK ==
    /\ test \in {"engines", "transport", "raw"}
    /\ pc \in [Sides -> PlacesOf("A") \cup PlacesOf("B")]
    /\ \A s \in Sides : pc[s] \in PlacesOf(s)
    /\ back \in [Sides -> {"drain", "last"}]
    /\ txq \in [Sides -> Seq(Image)] /\ sent \in [Sides -> Seq(Image)]
    /\ rcvd \in [Sides -> Seq(Image)]
    /\ image \in [Sides -> Image] /\ proxy \in [Sides -> Image]
    /\ event \in BOOLEAN /\ done \in BOOLEAN
    /\ emitted \in [Sides -> Nat]
    /\ errors \in Nat /\ raised \in Nat /\ dropped \in Nat
    /\ verdict \in {"none", "pass", "fail"}

\* Without engines the bodies only drive what they were given; in a raw test B
\* has nothing to do.
Shape ==
    /\ ~Engines => \A s \in Sides : /\ pc[s] \in {"last", "ended"} \cup AtCall
                                    /\ back[s] = "last"
    /\ test = "raw" => pc["B"] = "ended"
    /\ Engines => (done <=> pc["A"] = "ended")

\* A body is in the lock's queue, once, from asking to giving back.
Asks(s) == pc[s] \in AtCall \cup {"turn", "wait"}

LockOK ==
    /\ lock \in IF Asks("A") THEN IF Asks("B") THEN {<<"A", "B">>, <<"B", "A">>} ELSE {<<"A">>}
                ELSE IF Asks("B") THEN {<<"B">>} ELSE {<<>>}
    /\ \A s \in Sides : InSimulator(s) => Holds(s)

\* What is still to be told B: segments queued while it sleeps or is about to,
\* or the end.  It runs its last drain only after A's body has ended.
WakeOK ==
    /\ pc["B"] \in {"start", "top", "parked"} /\ ~event => txq["B"] = <<>>
    /\ pc["B"] = "parked" /\ ~event => ~done
    /\ Engines /\ (pc["B"] = "last" \/ (pc["B"] \in AtCall /\ back["B"] = "last")) => done
    /\ Engines /\ pc["B"] = "ended" /\ errors = 0 => done /\ txq["B"] = <<>>
    /\ test = "transport" /\ errors = 0 =>
          \A s \in Sides : pc[s] = "ended" => txq[s] = <<>>

\* Only well-formed images are recorded, and outside raw tests there is no other.
AllOk(q) == \A i \in 1 .. Len(q) : q[i].ok

WellFormed ==
    /\ \A s \in Sides : AllOk(sent[s])
    /\ test # "raw" =>
          \A s \in Sides : /\ AllOk(txq[s])
                           /\ pc[s] = "lock" => image[s].ok
                           /\ pc[s] = "item" => proxy[s].ok

\* A body is one item ahead of the far monitor while it drives it, or for ever
\* once the sending raised.
Driving(s) == pc[s] = "item" /\ proxy[s] # None

LeftAhead(s) == raised > 0 /\ pc[s] \in {"finally", "ended"}

AheadOf(s) ==
    /\ \A i \in 1 .. Len(rcvd[Peer(s)]) : rcvd[Peer(s)][i] = sent[s][i]
    /\ Len(sent[s]) = Len(rcvd[Peer(s)])
          \/ (Len(sent[s]) = Len(rcvd[Peer(s)]) + 1 /\ (Driving(s) \/ LeftAhead(s)))
    /\ Driving(s) => Len(sent[s]) = Len(rcvd[Peer(s)]) + 1 /\ sent[s][Len(sent[s])] = proxy[s]

AheadOK == \A s \in Sides : AheadOf(s)

\* Until something goes wrong, what was emitted or given is queued, in hand,
\* arrived or, on A's side, dropped.
InHand(s) == IF pc[s] \in {"lock", "item"} THEN 1 ELSE 0

Stock(s) == Len(txq[s]) + InHand(s) + Len(rcvd[Peer(s)])

Accounted ==
    /\ raised <= errors
    /\ errors = 0 =>
          /\ Engines => emitted["A"] = Stock("A") + dropped /\ emitted["B"] = Stock("B")
          /\ test = "transport" => \A s \in Sides : Stock(s) = IMAGES

Settled ==
    verdict # "none" =>
        /\ \A s \in Sides : pc[s] = "ended"
        /\ verdict = "pass" <=> errors = 0

IInv == TypeOK /\ Shape /\ LockOK /\ WakeOK /\ WellFormed /\ AheadOK /\ Accounted /\ Settled
-------------------------------------------------------------------------------
USE DEF Goto, Holds, Asks, AtCall, Sides, Engines, engines, items, clock, outcome, simVars

\* Taking the first image of a queue, and adding one at its end.
LEMMA Queues ==
  ASSUME NEW q \in Seq(Image), NEW x \in Image
  PROVE  /\ Append(q, x) \in Seq(Image) /\ Len(Append(q, x)) = Len(q) + 1
         /\ \A i \in 1 .. Len(q) : Append(q, x)[i] = q[i]
         /\ Append(q, x)[Len(q) + 1] = x
         /\ Len(q) \in Nat
         /\ q # <<>> => /\ Head(q) \in Image /\ Head(q) = q[1] /\ Len(q) > 0
                        /\ Tail(q) \in Seq(Image) /\ Len(Tail(q)) = Len(q) - 1
                        /\ \A i \in 1 .. Len(Tail(q)) : Tail(q)[i] = q[i + 1]
         /\ q = <<>> <=> Len(q) = 0
  OBVIOUS

\* Well-formed images stay so in the queue, and come well-formed out of it.
LEMMA OkQueues ==
  ASSUME NEW q \in Seq(Image), AllOk(q)
  PROVE  /\ \A x \in Image : x.ok => AllOk(Append(q, x))
         /\ q # <<>> => AllOk(Tail(q)) /\ Head(q).ok
<1>1. ASSUME NEW x \in Image, x.ok PROVE AllOk(Append(q, x))
  BY <1>1, Queues DEF AllOk
<1>2. ASSUME q # <<>> PROVE AllOk(Tail(q)) /\ Head(q).ok
  <2>1. Head(q) = q[1] /\ Len(q) > 0 /\ Len(q) \in Nat /\ Len(Tail(q)) = Len(q) - 1
        /\ \A i \in 1 .. Len(Tail(q)) : Tail(q)[i] = q[i + 1]
    BY <1>2
  <2> QED BY <2>1 DEF AllOk
<1> QED BY <1>1, <1>2

\* Entering the lock's queue and leaving it from the front.
LEMMA LockQueue ==
  ASSUME NEW s \in Sides, NEW t \in Sides
  PROVE  /\ Append(<<>>, s) = <<s>> /\ Append(<<s>>, t) = <<s, t>>
         /\ Tail(<<s>>) = <<>> /\ Tail(<<s, t>>) = <<t>>
         /\ <<s>> # <<>> /\ <<s, t>> # <<>> /\ <<s>>[1] = s /\ <<s, t>>[1] = s
<1>1. <<s>> \in Seq(Sides) /\ <<s, t>> \in Seq(Sides) /\ <<t>> \in Seq(Sides)
  OBVIOUS
<1>2. Append(<<>>, s) = <<s>> /\ Append(<<s>>, t) = <<s, t>>
  <2>1. Append(<<>>, s) = <<s>>
    OBVIOUS
  <2>2. /\ Append(<<s>>, t) \in Seq(Sides) /\ Len(Append(<<s>>, t)) = 2
        /\ Append(<<s>>, t)[1] = s /\ Append(<<s>>, t)[2] = t
        /\ Len(<<s, t>>) = 2 /\ <<s, t>>[1] = s /\ <<s, t>>[2] = t
    BY <1>1
  <2>3. \A i \in 1 .. 2 : Append(<<s>>, t)[i] = <<s, t>>[i]
    BY <2>2
  <2>4. Append(<<s>>, t) = <<s, t>>
    BY <1>1, <2>2, <2>3, SeqEqual
  <2> QED BY <2>1, <2>4
<1>3. Tail(<<s>>) = <<>> /\ Tail(<<s, t>>) = <<t>>
  OBVIOUS
<1>4. <<s>> # <<>> /\ <<s, t>> # <<>> /\ <<s>>[1] = s /\ <<s, t>>[1] = s
  OBVIOUS
<1> QED BY <1>2, <1>3, <1>4

\* A body that asks for the lock joins its queue.
LEMMA LockJoined ==
  ASSUME LockOK, NEW s \in Sides, Ask(s), ~Asks(s), Asks(s)', ~InSimulator(s)',
         \A t \in Sides \ {s} : pc'[t] = pc[t]
  PROVE  LockOK'
<1>1. CASE s = "A"
  <2>1. (lock = <<>> /\ ~Asks("B")) \/ (lock = <<"B">> /\ Asks("B"))
    BY <1>1 DEF LockOK
  <2>2. (lock' = <<"A">> /\ ~Asks("B")) \/ (lock' = <<"B", "A">> /\ Asks("B"))
    BY <1>1, <2>1, LockQueue DEF Ask
  <2> QED BY <1>1, <2>1, <2>2, LockQueue DEF LockOK, InSimulator
<1>2. CASE s = "B"
  <2>1. (lock = <<>> /\ ~Asks("A")) \/ (lock = <<"A">> /\ Asks("A"))
    BY <1>2 DEF LockOK
  <2>2. (lock' = <<"B">> /\ ~Asks("A")) \/ (lock' = <<"A", "B">> /\ Asks("A"))
    BY <1>2, <2>1, LockQueue DEF Ask
  <2> QED BY <1>2, <2>1, <2>2, LockQueue DEF LockOK, InSimulator
<1> QED BY <1>1, <1>2

\* Its owner leaves it to the next.
LEMMA LockLeft ==
  ASSUME LockOK, NEW s \in Sides, Release, Asks(s), Holds(s), ~Asks(s)',
         \A t \in Sides \ {s} : pc'[t] = pc[t]
  PROVE  LockOK'
<1>1. CASE s = "A"
  <2>1. (lock = <<"A">> /\ ~Asks("B")) \/ (lock = <<"A", "B">> /\ Asks("B"))
    BY <1>1, LockQueue DEF LockOK
  <2>2. (lock' = <<>> /\ ~Asks("B")) \/ (lock' = <<"B">> /\ Asks("B"))
    BY <2>1, LockQueue DEF Release
  <2> QED BY <1>1, <2>1, <2>2, LockQueue DEF LockOK, InSimulator
<1>2. CASE s = "B"
  <2>1. (lock = <<"B">> /\ ~Asks("A")) \/ (lock = <<"B", "A">> /\ Asks("A"))
    BY <1>2, LockQueue DEF LockOK
  <2>2. (lock' = <<>> /\ ~Asks("A")) \/ (lock' = <<"A">> /\ Asks("A"))
    BY <2>1, LockQueue DEF Release
  <2> QED BY <1>2, <2>1, <2>2, LockQueue DEF LockOK, InSimulator
<1> QED BY <1>1, <1>2

\* Two queues joined.
LEMMA Joined ==
  ASSUME NEW q \in Seq(Image), NEW new \in Seq(Image)
  PROVE  /\ q \o new \in Seq(Image) /\ Len(q \o new) = Len(q) + Len(new) /\ Len(q) \in Nat
         /\ \A i \in 1 .. Len(q) : (q \o new)[i] = q[i]
         /\ \A i \in 1 .. Len(new) : (q \o new)[Len(q) + i] = new[i]
<1>1. /\ q \o new \in Seq(Image) /\ Len(q \o new) = Len(q) + Len(new)
      /\ Len(q) \in Nat /\ Len(new) \in Nat
  OBVIOUS
<1>2. ASSUME NEW i \in 1 .. Len(q) PROVE (q \o new)[i] = q[i]
  OBVIOUS
<1>3. ASSUME NEW i \in 1 .. Len(new) PROVE (q \o new)[Len(q) + i] = new[i]
  <2>1. Len(q) + i \in 1 .. Len(q) + Len(new) /\ Len(q) + i > Len(q) /\ (Len(q) + i) - Len(q) = i
    BY <1>1
  <2> QED BY <2>1
<1> QED BY <1>1, <1>2, <1>3

\* What an emission changes: some of the sides get more segments in their
\* queues, and B's are rung for.
LEMMA Emission ==
  ASSUME TypeOK, NEW sides \in SUBSET Sides, Emit(sides)
  PROVE  /\ txq' \in [Sides -> Seq(Image)] /\ emitted' \in [Sides -> Nat] /\ event' \in BOOLEAN
         /\ \A s \in Sides :
               /\ Len(txq'[s]) + emitted[s] = Len(txq[s]) + emitted'[s]
               /\ AllOk(txq[s]) => AllOk(txq'[s])
               /\ s \notin sides \/ ~Engines => txq'[s] = txq[s] /\ emitted'[s] = emitted[s]
         /\ event => event'
         /\ event' \/ txq'["B"] = txq["B"]
<1> DEFINE New(k, m) == [i \in 1 .. m |-> [n |-> k + i, ok |-> TRUE]]
<1>1. PICK more \in [Sides -> 0 .. EMITS] :
        /\ \A s \in Sides : more[s] > 0 => Engines /\ s \in sides /\ emitted[s] + more[s] <= EMITS
        /\ txq' = [s \in Sides |-> txq[s] \o New(emitted[s], more[s])]
        /\ emitted' = [s \in Sides |-> emitted[s] + more[s]]
        /\ event' = (event \/ \E s \in Sides : more[s] > 0 /\ Rings(s))
  BY DEF Emit
<1>2. ASSUME NEW s \in Sides
      PROVE  /\ txq'[s] \in Seq(Image) /\ emitted'[s] \in Nat
             /\ Len(txq'[s]) + emitted[s] = Len(txq[s]) + emitted'[s]
             /\ AllOk(txq[s]) => AllOk(txq'[s])
             /\ more[s] = 0 => txq'[s] = txq[s] /\ emitted'[s] = emitted[s]
  <2> DEFINE q == txq[s]
             m == more[s]
             new == New(emitted[s], m)
  <2>1. q \in Seq(Image) /\ emitted[s] \in Nat /\ m \in Nat
    BY CoSimAssumption DEF TypeOK
  <2>2. txq'[s] = q \o new /\ emitted'[s] = emitted[s] + m
    BY <1>1
  <2>3. new \in Seq(Image) /\ Len(new) = m /\ \A i \in 1 .. m : new[i].ok
    <3>1. \A i \in 1 .. m : [n |-> emitted[s] + i, ok |-> TRUE] \in Image
      BY <2>1 DEF Image
    <3> QED BY <2>1, <3>1
  <2> HIDE DEF new, q, m
  <2>4. /\ q \o new \in Seq(Image) /\ Len(q \o new) = Len(q) + m /\ Len(q) \in Nat
        /\ \A i \in 1 .. Len(q) : (q \o new)[i] = q[i]
        /\ \A i \in 1 .. m : (q \o new)[Len(q) + i] = new[i]
    BY <2>1, <2>3, Joined
  <2>5. AllOk(q) => AllOk(q \o new)
    <3> SUFFICES ASSUME AllOk(q), NEW i \in 1 .. Len(q) + m
                 PROVE  (q \o new)[i].ok
      BY <2>1, <2>4 DEF AllOk
    <3>1. CASE i <= Len(q)
      BY <2>4, <3>1 DEF AllOk
    <3>2. CASE i > Len(q)
      <4>1. i - Len(q) \in 1 .. m /\ i = Len(q) + (i - Len(q))
        BY <2>1, <2>4, <3>2
      <4> QED BY <2>3, <2>4, <4>1
    <3> QED BY <2>1, <2>4, <3>1, <3>2
  <2>6. m = 0 => q \o new = q
    BY <2>1, <2>3
  <2>7. Len(txq'[s]) + emitted[s] = Len(q) + emitted'[s]
    BY <2>1, <2>2, <2>4
  <2>8. m = 0 => emitted'[s] = emitted[s]
    BY <2>1, <2>2
  <2> QED BY <2>1, <2>2, <2>4, <2>5, <2>6, <2>7, <2>8 DEF q, m
<1> HIDE DEF New
<1>3. txq' \in [Sides -> Seq(Image)] /\ emitted' \in [Sides -> Nat]
  <2>1. txq' = [s \in Sides |-> txq'[s]] /\ emitted' = [s \in Sides |-> emitted'[s]]
    BY <1>1
  <2> QED BY <1>2, <2>1
<1>4. event' \in BOOLEAN /\ (event => event')
  BY <1>1 DEF TypeOK
<1>5. event' \/ txq'["B"] = txq["B"]
  <2>1. CASE more["B"] = 0
    BY <1>2, <2>1
  <2>2. CASE more["B"] # 0
    <3>1. more["B"] > 0
      BY <1>1, <2>2, CoSimAssumption
    <3> QED BY <1>1, <3>1 DEF Rings
  <2> QED BY <2>1, <2>2
<1>6. \A s \in Sides : s \notin sides \/ ~Engines => txq'[s] = txq[s] /\ emitted'[s] = emitted[s]
  <2> SUFFICES ASSUME NEW s \in Sides, s \notin sides \/ ~Engines
               PROVE  more[s] = 0
    BY <1>2
  <2>1. more[s] \in Nat /\ ~(more[s] > 0)
    BY <1>1, CoSimAssumption
  <2> QED BY <2>1
<1> QED BY <1>2, <1>3, <1>4, <1>5, <1>6

\* Nothing is recorded and nothing arrives: who was ahead still is.
LEMMA AheadFrame ==
  ASSUME AheadOK, UNCHANGED <<sent, rcvd>>,
         \A s \in Sides : /\ Driving(s)' <=> Driving(s)
                          /\ Driving(s) => proxy'[s] = proxy[s]
                          /\ LeftAhead(s) => LeftAhead(s)'
  PROVE  AheadOK'
  BY DEF AheadOK, AheadOf, Peer

\* The counts of the accounts are numbers.
LEMMA StockCounts ==
  ASSUME TypeOK, NEW s \in Sides
  PROVE  /\ Len(txq[s]) \in Nat /\ Len(rcvd[s]) \in Nat /\ Len(rcvd[Peer(s)]) \in Nat
         /\ emitted[s] \in Nat /\ InHand(s) \in Nat /\ Stock(s) \in Nat
<1>1. /\ Peer(s) \in Sides /\ \A t \in Sides : txq[t] \in Seq(Image) /\ rcvd[t] \in Seq(Image)
      /\ emitted[s] \in Nat
  BY DEF TypeOK, Peer
<1>2. Len(txq[s]) \in Nat /\ Len(rcvd[s]) \in Nat /\ Len(rcvd[Peer(s)]) \in Nat
  BY <1>1
<1>3. InHand(s) \in Nat
  BY DEF InHand
<1> QED BY <1>1, <1>2, <1>3 DEF Stock

\* The stock of a direction and its demands are numbers after a step, too.
LEMMA StockCountsAfter ==
  ASSUME TypeOK', NEW s \in Sides
  PROVE  Stock(s)' \in Nat /\ emitted'[s] \in Nat
<1>1. Peer(s) \in Sides /\ \A t \in Sides : txq'[t] \in Seq(Image) /\ rcvd'[t] \in Seq(Image)
  BY DEF TypeOK, Peer
<1>2. Len(txq'[s]) \in Nat /\ Len(rcvd'[Peer(s)]) \in Nat
  BY <1>1
<1>3. InHand(s)' \in Nat /\ emitted'[s] \in Nat
  BY DEF InHand, TypeOK
<1> QED BY <1>2, <1>3 DEF Stock, Peer

\* Nothing goes wrong, and nothing is lost or made up: what was accounted for is.
LEMMA AccountFrame ==
  ASSUME TypeOK, TypeOK', Accounted, UNCHANGED <<test, dropped, raised>>,
         errors' = errors \/ errors' = errors + 1,
         \A s \in Sides : /\ Stock(s)' + emitted[s] = Stock(s) + emitted'[s]
                          /\ ~Engines => Stock(s)' = Stock(s)
  PROVE  Accounted'
<1>1. /\ Stock("A") \in Nat /\ emitted["A"] \in Nat /\ Stock("B") \in Nat /\ emitted["B"] \in Nat
  BY StockCounts
<1>2. Stock("A")' \in Nat /\ emitted'["A"] \in Nat /\ Stock("B")' \in Nat /\ emitted'["B"] \in Nat
  BY StockCountsAfter
<1>3. /\ Stock("A")' + emitted["A"] = Stock("A") + emitted'["A"]
      /\ Stock("B")' + emitted["B"] = Stock("B") + emitted'["B"]
  OBVIOUS
<1>4. errors' = 0 => errors = 0
  BY DEF TypeOK
<1>5. dropped \in Nat /\ raised \in Nat /\ errors \in Nat
  BY DEF TypeOK
<1> QED BY <1>1, <1>2, <1>3, <1>4, <1>5 DEF Accounted

\* What is emitted is queued; what is in hand stays there or arrives.
LEMMA StockChange ==
  ASSUME TypeOK, TypeOK', NEW s \in Sides,
         Len(txq'[s]) + emitted[s] = Len(txq[s]) + emitted'[s],
         InHand(s)' + Len(rcvd'[Peer(s)]) = InHand(s) + Len(rcvd[Peer(s)])
  PROVE  Stock(s)' + emitted[s] = Stock(s) + emitted'[s]
<1> DEFINE a == Len(txq'[s])
<1> DEFINE b == emitted[s]
<1> DEFINE c == Len(txq[s])
<1> DEFINE d == emitted'[s]
<1> DEFINE e == InHand(s)
<1> DEFINE f == Len(rcvd[Peer(s)])
<1> DEFINE g == InHand(s)'
<1> DEFINE h == Len(rcvd'[Peer(s)])
<1>1. b \in Nat /\ c \in Nat /\ e \in Nat /\ f \in Nat
  BY StockCounts
<1>2. a \in Nat /\ d \in Nat /\ g \in Nat /\ h \in Nat
  <2>1. Peer(s) \in Sides /\ \A t \in Sides : txq'[t] \in Seq(Image) /\ rcvd'[t] \in Seq(Image)
    BY DEF TypeOK, Peer
  <2>2. a \in Nat /\ h \in Nat
    BY <2>1
  <2>3. d \in Nat /\ g \in Nat
    BY DEF TypeOK, InHand
  <2> QED BY <2>2, <2>3
<1>3. a + b = c + d /\ g + h = e + f
  OBVIOUS
<1>4. Stock(s)' = a + g + h /\ Stock(s) = c + e + f
  BY DEF Stock, Peer
<1> HIDE DEF a, b, c, d, e, f, g, h
<1>5. Stock(s)' + b = Stock(s) + d
  BY <1>1, <1>2, <1>3, <1>4
<1> QED BY <1>5 DEF b, d

\* In particular when nobody takes a segment in hand and none arrives.
LEMMA AccountAside ==
  ASSUME TypeOK, TypeOK', Accounted, UNCHANGED <<test, dropped, raised, rcvd>>,
         errors' = errors \/ errors' = errors + 1,
         \A s \in Sides : /\ InHand(s)' = InHand(s)
                          /\ Len(txq'[s]) + emitted[s] = Len(txq[s]) + emitted'[s]
                          /\ ~Engines => txq'[s] = txq[s]
  PROVE  Accounted'
<1>1. ASSUME NEW s \in Sides
      PROVE  /\ Stock(s)' + emitted[s] = Stock(s) + emitted'[s]
             /\ ~Engines => Stock(s)' = Stock(s)
  <2>1. InHand(s)' + Len(rcvd'[Peer(s)]) = InHand(s) + Len(rcvd[Peer(s)])
    BY DEF InHand
  <2>2. Stock(s)' + emitted[s] = Stock(s) + emitted'[s]
    BY <2>1, StockChange
  <2>3. ~Engines => Stock(s)' = Stock(s)
    BY DEF Stock, InHand
  <2> QED BY <2>2, <2>3
<1> QED BY <1>1, AccountFrame

\* Taking a segment moves it from the queue into the body's hand, and the body
\* into the lock's queue.
LEMMA TakesKeeps == ASSUME IInv, NEW s \in Sides, Takes(s) PROVE IInv'
<1> USE DEF Takes
<1>0. TypeOK /\ Shape /\ LockOK /\ WakeOK /\ WellFormed /\ AheadOK /\ Accounted /\ Settled
  BY DEF IInv
<1>1. TypeOK'
  BY <1>0, Queues DEF TypeOK, PlacesOf, Image
<1>2. Shape' /\ Settled'
  BY <1>0 DEF Shape, TypeOK, PlacesOf, Settled
<1>3. LockOK'
  BY <1>0, LockJoined DEF InSimulator, TypeOK, Shape
<1>4. WakeOK'
  BY <1>0 DEF WakeOK, TypeOK, Shape
<1>5. WellFormed'
  BY <1>0, OkQueues DEF WellFormed, TypeOK
<1>6. AheadOK'
  BY <1>0, AheadFrame DEF TypeOK, Driving, LeftAhead, Shape
<1>7. Accounted'
  <2>1. Len(txq'[s]) = Len(txq[s]) - 1 /\ InHand(s)' = 1 /\ InHand(s) = 0 /\ rcvd' = rcvd
    BY <1>0 DEF TypeOK, InHand
  <2>2. \A t \in Sides \ {s} : txq'[t] = txq[t] /\ InHand(t)' = InHand(t)
    BY <1>0 DEF TypeOK, InHand
  <2>3. ASSUME NEW t \in Sides PROVE Stock(t)' = Stock(t)
    <3>1. /\ Stock(t) = Len(txq[t]) + InHand(t) + Len(rcvd[Peer(t)])
          /\ Stock(t)' = Len(txq'[t]) + InHand(t)' + Len(rcvd[Peer(t)])
      BY <2>1 DEF Stock
    <3>2. Len(txq[t]) \in Nat /\ Len(rcvd[Peer(t)]) \in Nat /\ InHand(t) \in Nat
      BY <1>0, StockCounts
    <3>3. CASE t # s
      BY <2>2, <3>1, <3>3 DEF InHand
    <3>4. CASE t = s
      <4> DEFINE a == Len(txq[s])
      <4> DEFINE f == Len(rcvd[Peer(s)])
      <4>1. Stock(s) = a + 0 + f /\ Stock(s)' = (a - 1) + 1 + f /\ a \in Nat /\ f \in Nat
        BY <2>1, <3>1, <3>2, <3>4
      <4> HIDE DEF a, f
      <4> QED BY <3>4, <4>1
    <3> QED BY <3>3, <3>4
  <2> QED BY <1>0, <1>1, <2>3, AccountFrame
<1> QED BY <1>1, <1>2, <1>3, <1>4, <1>5, <1>6, <1>7 DEF IInv

\* A dropped segment leaves A's queue for the count of the dropped.
LEMMA DropsKeeps == ASSUME IInv, Drops PROVE IInv'
<1> USE DEF Drops
<1>0. TypeOK /\ Shape /\ LockOK /\ WakeOK /\ WellFormed /\ AheadOK /\ Accounted /\ Settled
  BY DEF IInv
<1>1. TypeOK'
  BY <1>0 DEF TypeOK, PlacesOf, Image
<1>2. Shape' /\ Settled'
  BY <1>0 DEF Shape, TypeOK, PlacesOf, Settled
<1>3. LockOK'
  BY <1>0 DEF InSimulator, LockOK, TypeOK, Shape
<1>4. WakeOK'
  BY <1>0 DEF WakeOK, TypeOK, Shape
<1>5. WellFormed'
  BY <1>0, OkQueues DEF WellFormed, TypeOK
<1>6. AheadOK'
  BY <1>0, AheadFrame DEF TypeOK, Driving, LeftAhead, Shape
<1>7. Accounted'
  <2>1. Len(txq'["A"]) = Len(txq["A"]) - 1 /\ txq'["B"] = txq["B"]
    BY <1>0 DEF TypeOK
  <2>2. \A s \in Sides : InHand(s)' = InHand(s) /\ rcvd' = rcvd
    BY DEF InHand
  <2>3. Stock("A")' = Stock("A") - 1 /\ Stock("B")' = Stock("B") /\ Stock("A") \in Nat
    BY <1>0, <2>1, <2>2, StockCounts DEF Stock, InHand, Peer, TypeOK
  <2> QED BY <1>0, <2>3 DEF Accounted, TypeOK
<1> QED BY <1>1, <1>2, <1>3, <1>4, <1>5, <1>6, <1>7 DEF IInv

\* The owner of the lock gets one image ahead of the monitor, if it is well-formed.
LEMMA StartsKeeps == ASSUME IInv, NEW s \in Sides, Starts(s) PROVE IInv'
<1> USE DEF Starts
<1>0. TypeOK /\ Shape /\ LockOK /\ WakeOK /\ WellFormed /\ AheadOK /\ Accounted /\ Settled
  BY DEF IInv
<1>1. TypeOK'
  <2>1. Append(sent[s], image[s]) \in Seq(Image) /\ None \in Image
    <3>1. sent[s] \in Seq(Image) /\ image[s] \in Image
      BY <1>0 DEF TypeOK
    <3>2. None \in Image
      BY DEF Image, None
    <3> QED BY <3>1, <3>2, Queues
  <2> QED BY <1>0, <2>1 DEF TypeOK, PlacesOf
<1>2. Shape' /\ Settled'
  BY <1>0 DEF Shape, TypeOK, PlacesOf, Settled
<1>3. LockOK'
  BY <1>0 DEF InSimulator, LockOK, TypeOK, Shape
<1>4. WakeOK'
  BY <1>0 DEF WakeOK, TypeOK, Shape
<1>5. WellFormed'
  BY <1>0, OkQueues DEF WellFormed, TypeOK, Decodes
<1>6. AheadOK'
  <2>1. /\ sent[s] \in Seq(Image) /\ rcvd[Peer(s)] \in Seq(Image) /\ image[s] \in Image
        /\ Len(sent[s]) \in Nat /\ Len(rcvd[Peer(s)]) \in Nat
    BY <1>0 DEF TypeOK, Peer
  <2>2. Len(sent[s]) = Len(rcvd[Peer(s)])
    BY <1>0, <2>1 DEF AheadOK, AheadOf, Driving, LeftAhead
  <2>3. ASSUME NEW t \in Sides \ {s} PROVE AheadOf(t)'
    BY <1>0 DEF AheadOK, AheadOf, Driving, LeftAhead, TypeOK, Peer
  <2>4. CASE image[s].ok
    <3>1. /\ sent'[s] = Append(sent[s], image[s]) /\ rcvd'[Peer(s)] = rcvd[Peer(s)]
          /\ proxy'[s] = image[s] /\ pc'[s] = "item" /\ image[s] # None
      BY <1>0, <2>4 DEF TypeOK, Decodes, None
    <3>2. /\ Len(sent'[s]) = Len(sent[s]) + 1 /\ sent'[s][Len(sent[s]) + 1] = image[s]
          /\ \A i \in 1 .. Len(sent[s]) : sent'[s][i] = sent[s][i]
      BY <2>1, <3>1, Queues
    <3>3. AheadOf(s)'
      BY <1>0, <2>1, <2>2, <3>1, <3>2 DEF AheadOK, AheadOf, Driving
    <3> QED BY <2>3, <3>3 DEF AheadOK
  <2>5. CASE ~image[s].ok
    <3>1. sent' = sent /\ proxy'[s] = None
      BY <1>0, <2>5 DEF TypeOK, Decodes
    <3>2. AheadOf(s)'
      BY <1>0, <2>2, <3>1 DEF AheadOK, AheadOf, Driving
    <3> QED BY <2>3, <3>2 DEF AheadOK
  <2> QED BY <2>4, <2>5
<1>7. Accounted'
  <2>1. \A t \in Sides : InHand(t)' = InHand(t)
    BY <1>0 DEF InHand, TypeOK
  <2> QED BY <1>0, <1>1, <2>1, AccountAside
<1> QED BY <1>1, <1>2, <1>3, <1>4, <1>5, <1>6, <1>7 DEF IInv

\* An exception gives the lock back and counts as an error.
LEMMA RaisesKeeps == ASSUME IInv, NEW s \in Sides, Raises(s) PROVE IInv'
<1> USE DEF Raises
<1>0. TypeOK /\ Shape /\ LockOK /\ WakeOK /\ WellFormed /\ AheadOK /\ Accounted /\ Settled
  BY DEF IInv
<1>1. TypeOK'
  <2>1. Append(sent[s], image[s]) \in Seq(Image)
    <3>1. sent[s] \in Seq(Image) /\ image[s] \in Image
      BY <1>0 DEF TypeOK
    <3> QED BY <3>1, Queues
  <2> QED BY <1>0, <2>1 DEF TypeOK, PlacesOf
<1>2. Shape' /\ Settled'
  BY <1>0 DEF Shape, TypeOK, PlacesOf, Settled
<1>3. LockOK'
  BY <1>0, LockLeft DEF InSimulator, TypeOK, Shape
<1>4. WakeOK'
  BY <1>0 DEF WakeOK, TypeOK, Shape, Accounted
<1>5. WellFormed'
  BY <1>0, OkQueues DEF WellFormed, TypeOK
<1>6. AheadOK'
  <2>1. /\ sent[s] \in Seq(Image) /\ rcvd[Peer(s)] \in Seq(Image) /\ image[s] \in Image
        /\ Len(sent[s]) \in Nat /\ Len(rcvd[Peer(s)]) \in Nat
    BY <1>0 DEF TypeOK, Peer
  <2>2. /\ Len(sent[s]) = Len(rcvd[Peer(s)]) \/ Len(sent[s]) = Len(rcvd[Peer(s)]) + 1
        /\ pc[s] = "lock" => Len(sent[s]) = Len(rcvd[Peer(s)])
        /\ \A i \in 1 .. Len(rcvd[Peer(s)]) : rcvd[Peer(s)][i] = sent[s][i]
    <3>1. AheadOf(s) /\ pc[s] \in {"lock", "item", "gap"}
      BY <1>0 DEF AheadOK
    <3> QED BY <3>1 DEF AheadOf, Driving, LeftAhead
  <2>3. ASSUME NEW t \in Sides \ {s} PROVE AheadOf(t)'
    <3>1. /\ AheadOf(t) /\ pc'[t] = pc[t] /\ sent'[t] = sent[t] /\ proxy' = proxy
          /\ rcvd' = rcvd /\ (raised > 0 => raised' > 0)
      BY <1>0 DEF AheadOK, TypeOK
    <3> QED BY <3>1 DEF AheadOf, Driving, LeftAhead, Peer
  <2>4. CASE pc[s] = "lock" /\ test = "raw" /\ image[s].ok
    <3>1. /\ sent'[s] = Append(sent[s], image[s]) /\ rcvd'[Peer(s)] = rcvd[Peer(s)]
          /\ LeftAhead(s)' /\ ~Driving(s)'
      BY <1>0, <2>4 DEF TypeOK, LeftAhead, Driving
    <3>2. /\ Len(sent'[s]) = Len(sent[s]) + 1
          /\ \A i \in 1 .. Len(sent[s]) : sent'[s][i] = sent[s][i]
      BY <2>1, <3>1, Queues
    <3>3. AheadOf(s)'
      BY <1>0, <2>1, <2>2, <3>1, <3>2 DEF AheadOK, AheadOf
    <3> QED BY <2>3, <3>3 DEF AheadOK
  <2>5. CASE ~(pc[s] = "lock" /\ test = "raw" /\ image[s].ok)
    <3>1. sent' = sent /\ rcvd' = rcvd /\ ~Driving(s)' /\ LeftAhead(s)'
      BY <1>0, <2>5 DEF TypeOK, Driving, LeftAhead
    <3>2. AheadOf(s)'
      BY <2>2, <3>1 DEF AheadOf, Peer
    <3> QED BY <2>3, <3>2 DEF AheadOK
  <2> QED BY <2>4, <2>5
<1>7. Accounted'
  <2>1. raised' <= errors' /\ errors' # 0
    BY <1>0 DEF Accounted, TypeOK
  <2> QED BY <2>1 DEF Accounted
<1> QED BY <1>1, <1>2, <1>3, <1>4, <1>5, <1>6, <1>7 DEF IInv

\* What is driven arrives: the body is ahead no more, and the far engine may emit.
LEMMA DrivesKeeps == ASSUME IInv, NEW s \in Sides, Drives(s) PROVE IInv'
<1> USE DEF Drives
<1>0. TypeOK /\ Shape /\ LockOK /\ WakeOK /\ WellFormed /\ AheadOK /\ Accounted /\ Settled
  BY DEF IInv
<1>1. TypeOK'
  <2>1. Append(rcvd[Peer(s)], proxy[s]) \in Seq(Image) /\ {Peer(s)} \in SUBSET Sides
    BY <1>0 DEF TypeOK, Peer
  <2>2. /\ txq' \in [Sides -> Seq(Image)] /\ emitted' \in [Sides -> Nat] /\ event' \in BOOLEAN
    BY <1>0, <2>1, Emission
  <2> QED BY <1>0, <2>1, <2>2 DEF TypeOK, PlacesOf
<1>2. Shape' /\ Settled'
  BY <1>0 DEF Shape, TypeOK, PlacesOf, Settled
<1>3. LockOK'
  BY <1>0, Emission DEF InSimulator, LockOK, TypeOK, Shape
<1>4. WakeOK'
  <2>1. {Peer(s)} \in SUBSET Sides
    BY DEF Peer
  <2>2. /\ event => event'
        /\ event' \/ txq'["B"] = txq["B"]
        /\ \A t \in Sides : t # Peer(s) \/ ~Engines => txq'[t] = txq[t]
    BY <1>0, <2>1, Emission
  <2> QED BY <1>0, <2>2 DEF WakeOK, TypeOK, Shape, Peer, Accounted
<1>5. WellFormed'
  <2>1. {Peer(s)} \in SUBSET Sides
    BY DEF Peer
  <2>2. \A t \in Sides : AllOk(txq[t]) => AllOk(txq'[t])
    BY <1>0, <2>1, Emission
  <2> QED BY <1>0, <2>2 DEF WellFormed, TypeOK
<1>6. AheadOK'
  <2>1. /\ sent[s] \in Seq(Image) /\ rcvd[Peer(s)] \in Seq(Image) /\ proxy[s] \in Image
        /\ Len(sent[s]) \in Nat /\ Len(rcvd[Peer(s)]) \in Nat
    BY <1>0 DEF TypeOK, Peer
  <2>2. Len(sent[s]) = Len(rcvd[Peer(s)]) + 1 /\ sent[s][Len(sent[s])] = proxy[s]
    BY <1>0 DEF AheadOK, AheadOf, Driving
  <2>3. ASSUME NEW t \in Sides \ {s} PROVE AheadOf(t)'
    BY <1>0 DEF AheadOK, AheadOf, Driving, LeftAhead, TypeOK, Peer
  <2>4. /\ rcvd'[Peer(s)] = Append(rcvd[Peer(s)], proxy[s]) /\ sent' = sent
        /\ ~Driving(s)'
    BY <1>0 DEF TypeOK, Peer, Driving
  <2>5. /\ Len(rcvd'[Peer(s)]) = Len(sent[s])
        /\ rcvd'[Peer(s)][Len(sent[s])] = proxy[s]
        /\ \A i \in 1 .. Len(rcvd[Peer(s)]) : rcvd'[Peer(s)][i] = rcvd[Peer(s)][i]
    BY <2>1, <2>2, <2>4, Queues
  <2>6. AheadOf(s)'
    BY <1>0, <2>1, <2>2, <2>4, <2>5 DEF AheadOK, AheadOf
  <2> QED BY <2>3, <2>6 DEF AheadOK
<1>7. Accounted'
  <2>1. {Peer(s)} \in SUBSET Sides
    BY DEF Peer
  <2>2. ASSUME NEW t \in Sides
        PROVE  /\ Stock(t)' + emitted[t] = Stock(t) + emitted'[t]
               /\ ~Engines => Stock(t)' = Stock(t)
    <3>1. /\ Len(txq'[t]) + emitted[t] = Len(txq[t]) + emitted'[t]
          /\ ~Engines => txq'[t] = txq[t]
      BY <1>0, <2>1, Emission
    <3>2. InHand(t)' + Len(rcvd'[Peer(t)]) = InHand(t) + Len(rcvd[Peer(t)])
      <4>1. CASE t = s
        <5>1. /\ Len(rcvd'[Peer(s)]) = Len(rcvd[Peer(s)]) + 1 /\ Len(rcvd[Peer(s)]) \in Nat
              /\ InHand(s) = 1 /\ InHand(s)' = 0
          BY <1>0 DEF TypeOK, InHand, Peer
        <5> QED BY <4>1, <5>1
      <4>2. CASE t # s
        BY <1>0, <4>2 DEF TypeOK, InHand, Peer
      <4> QED BY <4>1, <4>2
    <3>3. Stock(t)' + emitted[t] = Stock(t) + emitted'[t]
      BY <1>0, <1>1, <3>1, <3>2, StockChange
    <3>4. ~Engines => emitted'[t] = emitted[t]
      BY <1>0, <2>1, Emission
    <3>5. /\ Stock(t) \in Nat /\ emitted[t] \in Nat /\ Stock(t)' \in Nat
      BY <1>0, <1>1, StockCounts, StockCountsAfter
    <3> QED BY <3>3, <3>4, <3>5
  <2> QED BY <1>0, <1>1, <2>2, AccountFrame
<1> QED BY <1>1, <1>2, <1>3, <1>4, <1>5, <1>6, <1>7 DEF IInv

\* The lock goes to the next, and the body on with its loop.
LEMMA FinishesKeeps == ASSUME IInv, NEW s \in Sides, Finishes(s) PROVE IInv'
<1> USE DEF Finishes
<1>0. TypeOK /\ Shape /\ LockOK /\ WakeOK /\ WellFormed /\ AheadOK /\ Accounted /\ Settled
  BY DEF IInv
<1>1. TypeOK'
  <2>1. None \in Image
    BY DEF Image, None
  <2> QED BY <1>0, <2>1 DEF TypeOK, PlacesOf, AfterItem
<1>2. Shape' /\ Settled'
  BY <1>0 DEF Shape, TypeOK, PlacesOf, Settled, AfterItem
<1>3. LockOK'
  <2>1. Holds(s) /\ Asks(s) /\ ~Asks(s)' /\ \A t \in Sides \ {s} : pc'[t] = pc[t]
    BY <1>0 DEF LockOK, InSimulator, TypeOK, AfterItem, None, Shape
  <2> QED BY <1>0, <2>1, LockLeft
<1>4. WakeOK'
  BY <1>0 DEF WakeOK, TypeOK, Shape, AfterItem, Accounted
<1>5. WellFormed'
  BY <1>0 DEF WellFormed, TypeOK, AfterItem
<1>6. AheadOK'
  BY <1>0, AheadFrame DEF TypeOK, Driving, LeftAhead, None, AfterItem, Shape
<1>7. Accounted'
  <2>1. test = "raw" \/ \A t \in Sides : InHand(t)' = InHand(t)
    BY <1>0 DEF WellFormed, None, InHand, TypeOK, AfterItem
  <2>2. CASE test = "raw"
    BY <1>0, <2>2 DEF Accounted
  <2>3. CASE test # "raw"
    BY <1>0, <1>1, <2>1, <2>3, AccountAside
  <2> QED BY <2>2, <2>3
<1> QED BY <1>1, <1>2, <1>3, <1>4, <1>5, <1>6, <1>7 DEF IInv

\* A body that drives a program ends with its queue empty.
LEMMA ProgramEndsKeeps == ASSUME IInv, NEW s \in Sides, ProgramEnds(s) PROVE IInv'
<1> USE DEF ProgramEnds
<1>0. TypeOK /\ Shape /\ LockOK /\ WakeOK /\ WellFormed /\ AheadOK /\ Accounted /\ Settled
  BY DEF IInv
<1>1. TypeOK' /\ Shape' /\ Settled'
  BY <1>0 DEF TypeOK, Shape, PlacesOf, Settled
<1>2. LockOK' /\ WellFormed'
  BY <1>0 DEF TypeOK, Shape, LockOK, InSimulator, WellFormed
<1>3. WakeOK'
  BY <1>0 DEF TypeOK, Shape, WakeOK
<1>4. AheadOK'
  BY <1>0, AheadFrame DEF TypeOK, Driving, LeftAhead
<1>5. Accounted'
  BY <1>0, <1>1, AccountAside DEF InHand, TypeOK
<1> QED BY <1>1, <1>2, <1>3, <1>4, <1>5 DEF IInv

\* Opening the connections may emit on A's side.
LEMMA AStartsKeeps == ASSUME IInv, AStarts PROVE IInv'
<1> USE DEF AStarts
<1>0. TypeOK /\ Shape /\ LockOK /\ WakeOK /\ WellFormed /\ AheadOK /\ Accounted /\ Settled
  BY DEF IInv
<1>1. TypeOK'
  BY <1>0, Emission DEF TypeOK, PlacesOf
<1>2. Shape' /\ Settled'
  BY <1>0 DEF Shape, TypeOK, PlacesOf, Settled
<1>3. LockOK'
  BY <1>0, Emission DEF InSimulator, LockOK, TypeOK, Shape
<1>4. WakeOK'
  BY <1>0, Emission DEF WakeOK, TypeOK, Shape
<1>5. WellFormed'
  BY <1>0, Emission DEF WellFormed, TypeOK
<1>6. AheadOK'
  BY <1>0, AheadFrame DEF TypeOK, Driving, LeftAhead, Shape
<1>7. Accounted'
  <2>1. \A t \in Sides : /\ Len(txq'[t]) + emitted[t] = Len(txq[t]) + emitted'[t]
                         /\ ~Engines => txq'[t] = txq[t]
    BY <1>0, Emission
  <2>2. \A t \in Sides : InHand(t)' = InHand(t)
    BY <1>0 DEF InHand, TypeOK
  <2> QED BY <1>0, <1>1, <2>1, <2>2, AccountAside
<1> QED BY <1>1, <1>2, <1>3, <1>4, <1>5, <1>6, <1>7 DEF IInv

\* The head of A's loop looks at the time only.
LEMMA AHeadKeeps == ASSUME IInv, AHead PROVE IInv'
<1> USE DEF AHead
<1>0. TypeOK /\ Shape /\ LockOK /\ WakeOK /\ WellFormed /\ AheadOK /\ Accounted /\ Settled
  BY DEF IInv
<1>1. TypeOK' /\ Shape' /\ Settled'
  BY <1>0 DEF TypeOK, Shape, PlacesOf, Settled
<1>2. LockOK' /\ WellFormed'
  BY <1>0 DEF TypeOK, Shape, LockOK, InSimulator, WellFormed
<1>3. WakeOK'
  BY <1>0 DEF TypeOK, Shape, WakeOK
<1>4. AheadOK'
  BY <1>0, AheadFrame DEF TypeOK, Driving, LeftAhead
<1>5. Accounted'
  BY <1>0, <1>1, AccountAside DEF InHand, TypeOK
<1> QED BY <1>1, <1>2, <1>3, <1>4, <1>5 DEF IInv

\* The next phase's application calls may emit on both sides.
LEMMA ASucceedsKeeps == ASSUME IInv, ASucceeds PROVE IInv'
<1> USE DEF ASucceeds
<1>0. TypeOK /\ Shape /\ LockOK /\ WakeOK /\ WellFormed /\ AheadOK /\ Accounted /\ Settled
  BY DEF IInv
<1>1. TypeOK'
  <2>1. CASE phase < PHASES
    <3>1. txq' \in [Sides -> Seq(Image)] /\ emitted' \in [Sides -> Nat] /\ event' \in BOOLEAN
      BY <1>0, <2>1, Emission
    <3> QED BY <1>0, <2>1, <3>1 DEF TypeOK, PlacesOf
  <2>2. CASE ~(phase < PHASES)
    BY <1>0, <2>2 DEF TypeOK, PlacesOf
  <2> QED BY <2>1, <2>2
<1>2. Shape' /\ Settled'
  BY <1>0 DEF Shape, TypeOK, PlacesOf, Settled
<1>3. LockOK'
  BY <1>0, Emission DEF InSimulator, LockOK, TypeOK, Shape
<1>4. WakeOK'
  <2>1. CASE phase < PHASES
    <3>1. /\ event => event'
          /\ event' \/ txq'["B"] = txq["B"]
      BY <1>0, <2>1, Emission
    <3> QED BY <1>0, <2>1, <3>1 DEF WakeOK, TypeOK, Shape
  <2>2. CASE ~(phase < PHASES)
    BY <1>0, <2>2 DEF WakeOK, TypeOK, Shape
  <2> QED BY <2>1, <2>2
<1>5. WellFormed'
  BY <1>0, Emission DEF WellFormed, TypeOK
<1>6. AheadOK'
  BY <1>0, AheadFrame DEF TypeOK, Driving, LeftAhead, Shape
<1>7. Accounted'
  <2>1. \A t \in Sides : /\ Len(txq'[t]) + emitted[t] = Len(txq[t]) + emitted'[t]
                         /\ ~Engines => txq'[t] = txq[t]
    BY <1>0, Emission
  <2>2. \A t \in Sides : InHand(t)' = InHand(t)
    BY <1>0 DEF InHand, TypeOK
  <2> QED BY <1>0, <1>1, <2>1, <2>2, AccountAside
<1> QED BY <1>1, <1>2, <1>3, <1>4, <1>5, <1>6, <1>7 DEF IInv

\* Giving up is an error.
LEMMA AGivesUpKeeps == ASSUME IInv, AGivesUp PROVE IInv'
<1> USE DEF AGivesUp
<1>0. TypeOK /\ Shape /\ LockOK /\ WakeOK /\ WellFormed /\ AheadOK /\ Accounted /\ Settled
  BY DEF IInv
<1>1. TypeOK' /\ Shape' /\ Settled'
  BY <1>0 DEF TypeOK, Shape, PlacesOf, Settled
<1>2. LockOK' /\ WellFormed'
  BY <1>0 DEF TypeOK, Shape, LockOK, InSimulator, WellFormed
<1>3. WakeOK'
  BY <1>0 DEF TypeOK, Shape, WakeOK
<1>4. AheadOK'
  BY <1>0, AheadFrame DEF TypeOK, Driving, LeftAhead
<1>5. Accounted'
  BY <1>0, <1>1, AccountAside DEF InHand, TypeOK
<1> QED BY <1>1, <1>2, <1>3, <1>4, <1>5 DEF IInv

\* The handshake may end with an error or without.
LEMMA ALeavesKeeps == ASSUME IInv, ALeaves PROVE IInv'
<1> USE DEF ALeaves
<1>0. TypeOK /\ Shape /\ LockOK /\ WakeOK /\ WellFormed /\ AheadOK /\ Accounted /\ Settled
  BY DEF IInv
<1>1. TypeOK' /\ Shape' /\ Settled'
  BY <1>0 DEF TypeOK, Shape, PlacesOf, Settled
<1>2. LockOK' /\ WellFormed'
  BY <1>0 DEF TypeOK, Shape, LockOK, InSimulator, WellFormed
<1>3. WakeOK'
  BY <1>0 DEF TypeOK, Shape, WakeOK
<1>4. AheadOK'
  BY <1>0, AheadFrame DEF TypeOK, Driving, LeftAhead
<1>5. Accounted'
  BY <1>0, <1>1, AccountAside DEF InHand, TypeOK
<1> QED BY <1>1, <1>2, <1>3, <1>4, <1>5 DEF IInv

\* Before A asks for the simulator, timers may emit on both sides.
LEMMA AStepsKeeps == ASSUME IInv, ASteps PROVE IInv'
<1> USE DEF ASteps
<1>0. TypeOK /\ Shape /\ LockOK /\ WakeOK /\ WellFormed /\ AheadOK /\ Accounted /\ Settled
  BY DEF IInv
<1>1. TypeOK'
  BY <1>0, Emission DEF TypeOK, PlacesOf
<1>2. Shape' /\ Settled'
  BY <1>0 DEF Shape, TypeOK, PlacesOf, Settled
<1>3. LockOK'
  BY <1>0, Emission, LockJoined DEF InSimulator, TypeOK, Shape
<1>4. WakeOK'
  BY <1>0, Emission DEF WakeOK, TypeOK, Shape
<1>5. WellFormed'
  BY <1>0, Emission DEF WellFormed, TypeOK
<1>6. AheadOK'
  BY <1>0, AheadFrame DEF TypeOK, Driving, LeftAhead, Shape
<1>7. Accounted'
  <2>1. \A t \in Sides : /\ Len(txq'[t]) + emitted[t] = Len(txq[t]) + emitted'[t]
                         /\ ~Engines => txq'[t] = txq[t]
    BY <1>0, Emission
  <2>2. \A t \in Sides : InHand(t)' = InHand(t)
    BY <1>0 DEF InHand, TypeOK
  <2> QED BY <1>0, <1>1, <2>1, <2>2, AccountAside
<1> QED BY <1>1, <1>2, <1>3, <1>4, <1>5, <1>6, <1>7 DEF IInv

\* A is called into the simulator only when the lock is its own.
LEMMA AWaitsKeeps == ASSUME IInv, AWaits PROVE IInv'
<1> USE DEF AWaits
<1>0. TypeOK /\ Shape /\ LockOK /\ WakeOK /\ WellFormed /\ AheadOK /\ Accounted /\ Settled
  BY DEF IInv
<1>1. TypeOK' /\ Shape' /\ Settled'
  BY <1>0 DEF TypeOK, Shape, PlacesOf, Settled
<1>2. LockOK' /\ WellFormed'
  BY <1>0 DEF TypeOK, Shape, LockOK, InSimulator, WellFormed
<1>3. WakeOK'
  BY <1>0 DEF TypeOK, Shape, WakeOK
<1>4. AheadOK'
  BY <1>0, AheadFrame DEF TypeOK, Driving, LeftAhead
<1>5. Accounted'
  BY <1>0, <1>1, AccountAside DEF InHand, TypeOK
<1> QED BY <1>1, <1>2, <1>3, <1>4, <1>5 DEF IInv

\* Back from the simulator, A gives up the lock.
LEMMA AWakesKeeps == ASSUME IInv, AWakes PROVE IInv'
<1> USE DEF AWakes
<1>0. TypeOK /\ Shape /\ LockOK /\ WakeOK /\ WellFormed /\ AheadOK /\ Accounted /\ Settled
  BY DEF IInv
<1>1. TypeOK'
  BY <1>0 DEF TypeOK, PlacesOf
<1>2. Shape' /\ Settled'
  BY <1>0 DEF Shape, TypeOK, PlacesOf, Settled
<1>3. LockOK'
  <2>1. Holds("A") /\ Asks("A") /\ ~Asks("A")' /\ \A t \in Sides \ {"A"} : pc'[t] = pc[t]
    BY <1>0 DEF LockOK, InSimulator, TypeOK
  <2> QED BY <1>0, <2>1, LockLeft
<1>4. WakeOK'
  BY <1>0 DEF WakeOK, TypeOK, Shape
<1>5. WellFormed'
  BY <1>0 DEF WellFormed, TypeOK
<1>6. AheadOK'
  BY <1>0, AheadFrame DEF TypeOK, Driving, LeftAhead, Shape
<1>7. Accounted'
  BY <1>0, <1>1, AccountAside DEF InHand, Peer, TypeOK, Shape
<1> QED BY <1>1, <1>2, <1>3, <1>4, <1>5, <1>6, <1>7 DEF IInv

\* The timers that came due may emit on both sides.
LEMMA AFiresKeeps == ASSUME IInv, AFires PROVE IInv'
<1> USE DEF AFires
<1>0. TypeOK /\ Shape /\ LockOK /\ WakeOK /\ WellFormed /\ AheadOK /\ Accounted /\ Settled
  BY DEF IInv
<1>1. TypeOK'
  BY <1>0, Emission DEF TypeOK, PlacesOf
<1>2. Shape' /\ Settled'
  BY <1>0 DEF Shape, TypeOK, PlacesOf, Settled
<1>3. LockOK'
  BY <1>0, Emission DEF InSimulator, LockOK, TypeOK, Shape
<1>4. WakeOK'
  BY <1>0, Emission DEF WakeOK, TypeOK, Shape
<1>5. WellFormed'
  BY <1>0, Emission DEF WellFormed, TypeOK
<1>6. AheadOK'
  BY <1>0, AheadFrame DEF TypeOK, Driving, LeftAhead, Shape
<1>7. Accounted'
  <2>1. \A t \in Sides : /\ Len(txq'[t]) + emitted[t] = Len(txq[t]) + emitted'[t]
                         /\ ~Engines => txq'[t] = txq[t]
    BY <1>0, Emission
  <2>2. \A t \in Sides : InHand(t)' = InHand(t)
    BY <1>0 DEF InHand, TypeOK
  <2> QED BY <1>0, <1>1, <2>1, <2>2, AccountAside
<1> QED BY <1>1, <1>2, <1>3, <1>4, <1>5, <1>6, <1>7 DEF IInv

\* Once A has ended, B is told and rung for.
LEMMA AFinallyKeeps == ASSUME IInv, AFinally PROVE IInv'
<1> USE DEF AFinally
<1>0. TypeOK /\ Shape /\ LockOK /\ WakeOK /\ WellFormed /\ AheadOK /\ Accounted /\ Settled
  BY DEF IInv
<1>1. TypeOK' /\ Shape' /\ Settled'
  BY <1>0 DEF TypeOK, Shape, PlacesOf, Settled
<1>2. LockOK' /\ WellFormed'
  BY <1>0 DEF TypeOK, Shape, LockOK, InSimulator, WellFormed
<1>3. WakeOK'
  BY <1>0 DEF TypeOK, Shape, WakeOK
<1>4. AheadOK'
  BY <1>0, AheadFrame DEF TypeOK, Driving, LeftAhead
<1>5. Accounted'
  BY <1>0, <1>1, AccountAside DEF InHand, TypeOK
<1> QED BY <1>1, <1>2, <1>3, <1>4, <1>5 DEF IInv

\* B's body starts with whatever was queued meanwhile.
LEMMA BStartsKeeps == ASSUME IInv, BStarts PROVE IInv'
<1> USE DEF BStarts
<1>0. TypeOK /\ Shape /\ LockOK /\ WakeOK /\ WellFormed /\ AheadOK /\ Accounted /\ Settled
  BY DEF IInv
<1>1. TypeOK' /\ Shape' /\ Settled'
  BY <1>0 DEF TypeOK, Shape, PlacesOf, Settled
<1>2. LockOK' /\ WellFormed'
  BY <1>0 DEF TypeOK, Shape, LockOK, InSimulator, WellFormed
<1>3. WakeOK'
  BY <1>0 DEF TypeOK, Shape, WakeOK
<1>4. AheadOK'
  BY <1>0, AheadFrame DEF TypeOK, Driving, LeftAhead
<1>5. Accounted'
  BY <1>0, <1>1, AccountAside DEF InHand, TypeOK
<1> QED BY <1>1, <1>2, <1>3, <1>4, <1>5 DEF IInv

\* B goes to sleep only while A's body runs, and drains once more when it has ended.
LEMMA BTopKeeps == ASSUME IInv, BTop PROVE IInv'
<1> USE DEF BTop
<1>0. TypeOK /\ Shape /\ LockOK /\ WakeOK /\ WellFormed /\ AheadOK /\ Accounted /\ Settled
  BY DEF IInv
<1>1. TypeOK' /\ Shape' /\ Settled'
  BY <1>0 DEF TypeOK, Shape, PlacesOf, Settled
<1>2. LockOK' /\ WellFormed'
  BY <1>0 DEF TypeOK, Shape, LockOK, InSimulator, WellFormed
<1>3. WakeOK'
  BY <1>0 DEF TypeOK, Shape, WakeOK
<1>4. AheadOK'
  BY <1>0, AheadFrame DEF TypeOK, Driving, LeftAhead
<1>5. Accounted'
  BY <1>0, <1>1, AccountAside DEF InHand, TypeOK
<1> QED BY <1>1, <1>2, <1>3, <1>4, <1>5 DEF IInv

\* B wakes with its event cleared, and drains.
LEMMA BWakesKeeps == ASSUME IInv, BWakes PROVE IInv'
<1> USE DEF BWakes
<1>0. TypeOK /\ Shape /\ LockOK /\ WakeOK /\ WellFormed /\ AheadOK /\ Accounted /\ Settled
  BY DEF IInv
<1>1. TypeOK' /\ Shape' /\ Settled'
  BY <1>0 DEF TypeOK, Shape, PlacesOf, Settled
<1>2. LockOK' /\ WellFormed'
  BY <1>0 DEF TypeOK, Shape, LockOK, InSimulator, WellFormed
<1>3. WakeOK'
  BY <1>0 DEF TypeOK, Shape, WakeOK
<1>4. AheadOK'
  BY <1>0, AheadFrame DEF TypeOK, Driving, LeftAhead
<1>5. Accounted'
  BY <1>0, <1>1, AccountAside DEF InHand, TypeOK
<1> QED BY <1>1, <1>2, <1>3, <1>4, <1>5 DEF IInv

\* B's queue is empty when it goes back to the head of its loop, or ends.
LEMMA BDrainedKeeps == ASSUME IInv, BDrained PROVE IInv'
<1> USE DEF BDrained
<1>0. TypeOK /\ Shape /\ LockOK /\ WakeOK /\ WellFormed /\ AheadOK /\ Accounted /\ Settled
  BY DEF IInv
<1>1. TypeOK' /\ Shape' /\ Settled'
  BY <1>0 DEF TypeOK, Shape, PlacesOf, Settled
<1>2. LockOK' /\ WellFormed'
  BY <1>0 DEF TypeOK, Shape, LockOK, InSimulator, WellFormed
<1>3. WakeOK'
  BY <1>0 DEF TypeOK, Shape, WakeOK
<1>4. AheadOK'
  BY <1>0, AheadFrame DEF TypeOK, Driving, LeftAhead
<1>5. Accounted'
  BY <1>0, <1>1, AccountAside DEF InHand, TypeOK
<1> QED BY <1>1, <1>2, <1>3, <1>4, <1>5 DEF IInv

\* The verdict is passed when both have ended, by what was counted.
LEMMA ReportKeeps == ASSUME IInv, Report PROVE IInv'
<1> USE DEF Report
<1>0. TypeOK /\ Shape /\ LockOK /\ WakeOK /\ WellFormed /\ AheadOK /\ Accounted /\ Settled
  BY DEF IInv
<1>1. TypeOK'
  BY <1>0 DEF TypeOK, PlacesOf
<1>2. Shape'
  BY <1>0 DEF Shape, TypeOK
<1>3. LockOK'
  BY <1>0 DEF InSimulator, LockOK, TypeOK, Shape
<1>4. WakeOK'
  BY <1>0 DEF WakeOK, TypeOK, Shape
<1>5. WellFormed'
  BY <1>0 DEF WellFormed, TypeOK
<1>6. AheadOK'
  BY <1>0, AheadFrame DEF TypeOK, Driving, LeftAhead, Shape
<1>7. Accounted'
  BY <1>0, <1>1, AccountAside DEF InHand, Peer, TypeOK, Shape
<1>8. Settled'
  <2>1. errors = 0 => \A s \in Sides : sent[s] = rcvd[Peer(s)]
    <3> SUFFICES ASSUME errors = 0, NEW s \in Sides PROVE sent[s] = rcvd[Peer(s)]
      OBVIOUS
    <3>1. sent[s] \in Seq(Image) /\ rcvd[Peer(s)] \in Seq(Image)
      BY <1>0 DEF TypeOK, Peer
    <3>2. raised = 0 /\ pc[s] = "ended" /\ AheadOf(s)
      BY <1>0 DEF Accounted, TypeOK, AheadOK
    <3>3. Len(sent[s]) = Len(rcvd[Peer(s)])
      BY <3>2 DEF AheadOf, Driving, LeftAhead
    <3> QED BY <3>1, <3>2, <3>3 DEF AheadOf
  <2> QED BY <2>1 DEF Settled
<1> QED BY <1>1, <1>2, <1>3, <1>4, <1>5, <1>6, <1>7, <1>8 DEF IInv

\* The initial states, with the images a transport or raw test was given.
LEMMA InitIInv == Init => IInv
<1> SUFFICES ASSUME Init PROVE IInv
  OBVIOUS
<1> USE DEF Init
<1>1. test \in {"engines", "transport", "raw"} /\ IMAGES \in Nat
  BY CoSimAssumption
<1>2. ASSUME NEW q \in Programs(test)
      PROVE  q \in Seq(Image) /\ Len(q) = IMAGES /\ (test # "raw" => AllOk(q))
  <2>1. /\ q \in [1 .. IMAGES -> [n : 1 .. IMAGES, ok : BOOLEAN]]
        /\ test # "raw" => \A i \in 1 .. IMAGES : q[i].ok
    BY DEF Programs
  <2>2. q \in [1 .. IMAGES -> Image]
    BY <1>1, <2>1 DEF Image
  <2>3. q \in Seq(Image) /\ Len(q) = IMAGES
    BY <1>1, <2>2
  <2> QED BY <2>1, <2>3 DEF AllOk
<1>3. PICK a, b \in Programs(test) :
        txq = [s \in Sides |-> IF Engines \/ (test = "raw" /\ s = "B") THEN <<>>
                               ELSE IF s = "A" THEN a ELSE b]
  OBVIOUS
<1>4. <<>> \in Seq(Image) /\ Len(<<>>) = 0 /\ AllOk(<<>>) /\ None \in Image
  BY DEF AllOk, Image, None
<1>5. TypeOK
  BY <1>1, <1>2, <1>3, <1>4 DEF TypeOK, PlacesOf
<1>6. Shape /\ LockOK /\ WakeOK /\ Settled
  BY <1>1, <1>3 DEF Shape, LockOK, InSimulator, WakeOK, Settled
<1>7. WellFormed /\ AheadOK
  BY <1>1, <1>2, <1>3, <1>4 DEF WellFormed, AheadOK, AheadOf, Driving, Peer
<1>8. Accounted
  BY <1>1, <1>2, <1>3, <1>4 DEF Accounted, Stock, InHand, Peer
<1> QED BY <1>5, <1>6, <1>7, <1>8 DEF IInv

\* The invariant is inductive, so it holds throughout every test.
THEOREM Invariant == Spec => []IInv
<1>1. IInv /\ [Next]_vars => IInv'
  <2> SUFFICES ASSUME IInv, [Next]_vars PROVE IInv'
    OBVIOUS
  <2>1. CASE UNCHANGED vars
    <3>1. TypeOK' /\ Shape' /\ Settled'
      BY <2>1 DEF vars, IInv, TypeOK, Shape, Settled
    <3>2. LockOK' /\ WakeOK' /\ WellFormed'
      BY <2>1 DEF vars, IInv, LockOK, InSimulator, WakeOK, WellFormed
    <3>3. AheadOK' /\ Accounted'
      BY <2>1 DEF vars, IInv, AheadOK, AheadOf, Driving, LeftAhead, Accounted, Stock, InHand
    <3> QED BY <3>1, <3>2, <3>3 DEF IInv
  <2>2. CASE SideA
    BY <2>2, TakesKeeps, DropsKeeps, StartsKeeps, RaisesKeeps, DrivesKeeps, FinishesKeeps,
       ProgramEndsKeeps, AStartsKeeps, AHeadKeeps, ASucceedsKeeps, AGivesUpKeeps, ALeavesKeeps,
       AStepsKeeps, AWaitsKeeps, AWakesKeeps, AFiresKeeps, AFinallyKeeps DEF SideA
  <2>3. CASE SideB
    BY <2>3, TakesKeeps, StartsKeeps, RaisesKeeps, DrivesKeeps, FinishesKeeps,
       ProgramEndsKeeps, BStartsKeeps, BTopKeeps, BWakesKeeps, BDrainedKeeps DEF SideB
  <2>4. CASE Report
    BY <2>4, ReportKeeps
  <2> QED BY <2>1, <2>2, <2>3, <2>4 DEF Next, Over
<1> QED BY <1>1, InitIInv, PTL DEF Spec

\* At most one blocking call into the simulator is under way, and whoever made
\* it owns the lock (sv_lock, send_segment and TimeMux.step).
THEOREM OneCallAtATime == Spec => []OneActivation
<1>1. IInv => OneActivation
  BY DEF IInv, LockOK, OneActivation
<1> QED BY <1>1, Invariant, PTL

\* B never sleeps on segments it should drive, nor past the end of the test.
THEOREM WakeupsAreKept == Spec => []NoLostWakeup
<1>1. IInv => NoLostWakeup
  BY DEF IInv, WakeOK, NoLostWakeup
<1> QED BY <1>1, Invariant, PTL

\* What the far monitor saw is what was recorded as sent, but for the one item
\* being driven, or the one whose sending raised.
THEOREM MonitorInStep == Spec => []InStep
<1>1. IInv => InStep
  <2> SUFFICES ASSUME IInv, NEW s \in Sides
               PROVE  /\ IsPrefix(rcvd[Peer(s)], sent[s])
                      /\ Len(sent[s]) - Len(rcvd[Peer(s)]) \in
                            IF pc[s] = "item" /\ proxy[s] # None THEN {1}
                            ELSE IF raised > 0 /\ pc[s] \in {"finally", "ended"} THEN {0, 1} ELSE {0}
    BY DEF InStep
  <2>1. AheadOf(s) /\ rcvd[Peer(s)] \in Seq(Image) /\ sent[s] \in Seq(Image)
    BY DEF IInv, AheadOK, TypeOK, Peer
  <2> DEFINE r == rcvd[Peer(s)]
  <2>2. Len(r) \in Nat /\ Len(sent[s]) \in Nat /\ Len(r) <= Len(sent[s])
    BY <2>1 DEF AheadOf
  <2>3. IsPrefix(r, sent[s])
    <3>1. SubSeq(r, 1, Len(r)) = SubSeq(sent[s], 1, Len(r))
      BY <2>1, <2>2 DEF AheadOf
    <3> QED BY <2>2, <3>1 DEF IsPrefix
  <2>4. Len(sent[s]) - Len(rcvd[Peer(s)]) \in
           IF pc[s] = "item" /\ proxy[s] # None THEN {1}
           ELSE IF raised > 0 /\ pc[s] \in {"finally", "ended"} THEN {0, 1} ELSE {0}
    <3> DEFINE m == Len(sent[s])
    <3> DEFINE n == Len(r)
    <3>1. /\ n \in Nat
          /\ m = n \/ (m = n + 1 /\ (Driving(s) \/ LeftAhead(s)))
          /\ Driving(s) => m = n + 1
      BY <2>1, <2>2 DEF AheadOf
    <3> HIDE DEF m, n
    <3>2. /\ Driving(s) => m - n = 1
          /\ m - n = 0 \/ (m - n = 1 /\ (Driving(s) \/ LeftAhead(s)))
      BY <3>1
    <3> QED BY <3>2 DEF m, n, Driving, LeftAhead
  <2> QED BY <2>3, <2>4
<1> QED BY <1>1, Invariant, PTL

\* The verdict passes if and only if nothing went wrong, and then all that was
\* emitted or given was driven and arrived, and nothing malformed did.
THEOREM VerdictTells == Spec => []VerdictIsRight
<1>1. IInv => VerdictIsRight
  <2> SUFFICES ASSUME IInv, verdict # "none"
               PROVE  /\ verdict = "pass" <=> errors = 0
                      /\ verdict = "pass" =>
                           /\ Engines => /\ txq["B"] = <<>> /\ Len(rcvd["A"]) = emitted["B"]
                                         /\ Len(rcvd["B"]) + Len(txq["A"]) + dropped = emitted["A"]
                           /\ \A s \in Sides : \A i \in DOMAIN rcvd[s] : rcvd[s][i].ok
                           /\ test = "transport" => \A s \in Sides : Len(rcvd[s]) = IMAGES
    BY DEF VerdictIsRight
  <2>1. (verdict = "pass" <=> errors = 0) /\ \A s \in Sides : pc[s] = "ended"
    BY DEF IInv, Settled
  <2> SUFFICES ASSUME errors = 0
               PROVE  /\ Engines => /\ txq["B"] = <<>> /\ Len(rcvd["A"]) = emitted["B"]
                                    /\ Len(rcvd["B"]) + Len(txq["A"]) + dropped = emitted["A"]
                      /\ \A s \in Sides : \A i \in DOMAIN rcvd[s] : rcvd[s][i].ok
                      /\ test = "transport" => \A s \in Sides : Len(rcvd[s]) = IMAGES
    BY <2>1
  <2>2. \A s \in Sides : InHand(s) = 0
    BY <2>1 DEF InHand
  <2>3. \A s \in Sides : /\ Len(txq[s]) \in Nat /\ Len(rcvd[s]) \in Nat
                         /\ Len(rcvd[Peer(s)]) \in Nat /\ emitted[s] \in Nat
    BY StockCounts DEF IInv
  <2>4. Engines => /\ txq["B"] = <<>> /\ Len(rcvd["A"]) = emitted["B"]
                   /\ Len(rcvd["B"]) + Len(txq["A"]) + dropped = emitted["A"]
    BY <2>1, <2>2, <2>3 DEF IInv, TypeOK, WakeOK, Accounted, Stock, Peer
  <2>5. ASSUME NEW s \in Sides PROVE \A i \in DOMAIN rcvd[s] : rcvd[s][i].ok
    <3>1. /\ Peer(s) \in Sides /\ Peer(Peer(s)) = s
      BY DEF Peer
    <3>2. AheadOf(Peer(s)) /\ AllOk(sent[Peer(s)])
      BY <3>1 DEF IInv, AheadOK, WellFormed
    <3>3. /\ rcvd[s] \in Seq(Image) /\ Len(rcvd[s]) \in Nat
          /\ Len(sent[Peer(s)]) \in Nat /\ DOMAIN rcvd[s] = 1 .. Len(rcvd[s])
      BY <3>1 DEF IInv, TypeOK
    <3> QED BY <3>1, <3>2, <3>3 DEF AheadOf, AllOk
  <2>6. test = "transport" => \A s \in Sides : Len(rcvd[s]) = IMAGES
    BY <2>1, <2>2, <2>3 DEF IInv, TypeOK, WakeOK, Accounted, Stock, Peer
  <2> QED BY <2>4, <2>5, <2>6
<1> QED BY <1>1, Invariant, PTL
================================================================================
