---------------------------- MODULE ArithmeticProofs ----------------------------
(***************************************************************************)
(* The two parts that compute.  The wrapped comparisons and the            *)
(* acceptability test of seqnum.py mean what they should for every even    *)
(* modulus, hence for 2^32, wherever the numbers wrap.  The timeout of     *)
(* rtt.py is prudent for every choice of its limits, of the clock's        *)
(* granularity and of the round trips measured.                            *)
(***************************************************************************)
EXTENDS MCSeqNum, Rtt, TLAPS

-------------------------------------------------------------------------------
(* Remainders.  Multiplication by the modulus is not linear arithmetic: it *)
(* is confined to the first four lemmas.                                   *)

\* A remainder is a sequence number.
LEMMA ModRange == ASSUME NEW x \in Int PROVE x % MOD \in 0 .. MOD - 1
  BY ModAssumption

\* A number is a multiple of the modulus and its remainder.
LEMMA ModDivides ==
  ASSUME NEW x \in Int PROVE \E q \in Int : x = (MOD * q) + (x % MOD)
<1>1. x \div MOD \in Int /\ x = (MOD * (x \div MOD)) + (x % MOD)
  BY ModAssumption
<1> QED BY <1>1

\* And there is no other way to write it so.
LEMMA ModUnique ==
  ASSUME NEW q \in Int, NEW r \in 0 .. MOD - 1 PROVE ((MOD * q) + r) % MOD = r
  BY ModAssumption

\* Multiplication distributes, stated apart because the solver needs telling.
LEMMA Distributes ==
  ASSUME NEW m \in Int, NEW a \in Int, NEW b \in Int
  PROVE  /\ m * (a + b) = (m * a) + (m * b)
         /\ m * (a - b) = (m * a) - (m * b)
         /\ m * a \in Int /\ m * b \in Int
OBVIOUS

\* Whole turns of the sequence space do not matter.
LEMMA ModTurns ==
  ASSUME NEW x \in Int, NEW k \in Int PROVE (x + MOD * k) % MOD = x % MOD
<1>1. PICK q \in Int : x = (MOD * q) + (x % MOD)
  BY ModDivides
<1>2. x + MOD * k = (MOD * (q + k)) + (x % MOD)
  <2> DEFINE r == x % MOD
  <2>1. r \in Int
    BY ModRange, ModAssumption
  <2>2. MOD * (q + k) = (MOD * q) + (MOD * k) /\ MOD * q \in Int /\ MOD * k \in Int
    BY Distributes, ModAssumption
  <2>3. x = (MOD * q) + r
    BY <1>1
  <2> HIDE DEF r
  <2>4. x + MOD * k = (MOD * (q + k)) + r
    BY <2>1, <2>2, <2>3
  <2> QED BY <2>4 DEF r
<1>3. ((MOD * (q + k)) + (x % MOD)) % MOD = x % MOD
  BY ModUnique, ModRange
<1> QED BY <1>2, <1>3

\* The remainder of a difference can be taken from wrapped numbers.
LEMMA ModDifference ==
  ASSUME NEW x \in Int, NEW y \in Int
  PROVE  ((x % MOD) - (y % MOD)) % MOD = (x - y) % MOD
<1>1. PICK p \in Int : x = (MOD * p) + (x % MOD)
  BY ModDivides
<1>2. PICK q \in Int : y = (MOD * q) + (y % MOD)
  BY ModDivides
<1>3. (x % MOD) - (y % MOD) = (x - y) + MOD * (q - p)
  <2> DEFINE r == x % MOD
             s == y % MOD
  <2>1. r \in Int /\ s \in Int
    BY ModRange, ModAssumption
  <2>2. MOD * (q - p) = (MOD * q) - (MOD * p) /\ MOD * q \in Int /\ MOD * p \in Int
    BY Distributes, ModAssumption
  <2>3. x = (MOD * p) + r /\ y = (MOD * q) + s
    BY <1>1, <1>2
  <2> HIDE DEF r, s
  <2>4. r - s = (x - y) + MOD * (q - p)
    BY <2>1, <2>2, <2>3
  <2> QED BY <2>4 DEF r, s
<1> QED BY <1>3, ModTurns

\* And so can that of a sum.
LEMMA ModSum ==
  ASSUME NEW x \in Int, NEW n \in Int PROVE ((x % MOD) + n) % MOD = (x + n) % MOD
<1>1. PICK q \in Int : x = (MOD * q) + (x % MOD)
  BY ModDivides
<1>2. x + n = ((x % MOD) + n) + MOD * q
  <2> DEFINE r == x % MOD
  <2>1. r \in Int /\ MOD * q \in Int
    BY ModRange, ModAssumption
  <2>2. x = (MOD * q) + r
    BY <1>1
  <2> HIDE DEF r
  <2>3. x + n = (r + n) + MOD * q
    BY <2>1, <2>2
  <2> QED BY <2>3 DEF r
<1>3. (((x % MOD) + n) + MOD * q) % MOD = ((x % MOD) + n) % MOD
  <2> DEFINE r == (x % MOD) + n
  <2>1. r \in Int
    BY ModRange, ModAssumption
  <2> HIDE DEF r
  <2>2. (r + MOD * q) % MOD = r % MOD
    BY <2>1, ModTurns
  <2> QED BY <2>2 DEF r
<1> QED BY <1>2, <1>3

-------------------------------------------------------------------------------
(* The operators of seqnum.py.                                             *)

Near(p, q) == p - q \in -(HALF - 1) .. HALF - 1

\* s32 gives a difference back when it is below half the space.
LEMMA SignedReading == ASSUME NEW d \in -(HALF - 1) .. HALF - 1 PROVE s32(d) = d
<1>1. CASE d >= 0
  BY <1>1, ModAssumption DEF s32, HALF
<1>2. CASE d < 0
  <2>1. d % MOD = d + MOD
    BY <1>2, ModAssumption DEF HALF
  <2> QED BY <2>1, <1>2, ModAssumption DEF s32, HALF
<1> QED BY <1>1, <1>2, ModAssumption DEF HALF

\* The signed difference of two wrapped positions that are near each other is
\* their true distance (s32, the heart of every comparison).
LEMMA DistanceKept ==
  ASSUME NEW p \in Int, NEW q \in Int, Near(p, q)
  PROVE  s32((p % MOD) - (q % MOD)) = p - q
<1>1. s32((p % MOD) - (q % MOD)) = s32(p - q)
  BY ModDifference DEF s32
<1>2. s32(p - q) = p - q
  BY SignedReading DEF Near
<1> QED BY <1>1, <1>2

\* add advances a wrapped position.
LEMMA Advance ==
  ASSUME NEW p \in Int, NEW n \in Int PROVE add(p % MOD, n) = (p + n) % MOD
  BY ModSum DEF add

\* in_win decides membership in the window, wherever it wraps.
LEMMA InWindow ==
  ASSUME NEW p \in Int, NEW q \in Int, NEW w \in Nat, Near(p, q), Near(p, q + w)
  PROVE  in_win(p % MOD, q % MOD, w) <=> p \in q .. q + w - 1
<1>1. s32((q % MOD) - (p % MOD)) = q - p
  <2>1. Near(q, p)
    BY ModAssumption DEF Near, HALF
  <2> QED BY <2>1, DistanceKept
<1>2. s32((p % MOD) - add(q % MOD, w)) = p - (q + w)
  BY DistanceKept, Advance
<1> QED BY <1>1, <1>2 DEF in_win, seq_leq, seq_lt

-------------------------------------------------------------------------------
(* The slide of a segment and a window through the sequence space.         *)

\* The positions are integers and stay within half the space of each other.
Placed ==
    /\ next \in Int /\ start \in Int
    /\ Near(start, next)
    /\ len \in Nat /\ wnd \in Nat

LEMMA AlwaysPlaced == Spec => []Placed
<1>1. Init => Placed
  BY ModAssumption, BoundsAssumption DEF Init, Placed, Near, HALF
<1>2. Placed /\ [Slide]_vars => Placed'
  <2> SUFFICES ASSUME Placed, [Slide]_vars PROVE Placed'
    OBVIOUS
  <2>1. CASE Slide
    BY <2>1, ModAssumption DEF Slide, Placed, Near, HALF
  <2>2. CASE UNCHANGED vars
    BY <2>2 DEF vars, Placed, Near
  <2> QED BY <2>1, <2>2
<1> QED BY <1>1, <1>2, PTL DEF Spec

\* The theorem behind every comparison of the engine: for each even modulus,
\* s32, sub and seq_lt .. seq_geq on wrapped numbers answer for the positions.
THEOREM OrderIsDistance == Spec => []OrderFollowsDistance
<1>1. Placed => OrderFollowsDistance
  <2> SUFFICES ASSUME Placed PROVE OrderFollowsDistance
    OBVIOUS
  <2> DEFINE x == Wrapped(start)
             y == Wrapped(next)
  <2>1. s32(x - y) = start - next
    BY DistanceKept DEF Placed, Wrapped
  <2>2. start >= next => sub(x, y) = start - next
    <3>1. sub(x, y) = (start - next) % MOD
      BY ModDifference DEF sub, Placed, Wrapped
    <3>2. start >= next => (start - next) % MOD = start - next
      BY ModAssumption DEF Placed, Near, HALF
    <3> QED BY <3>1, <3>2
  <2> HIDE DEF x, y
  <2>3. /\ s32(x - y) = start - next
        /\ seq_lt(x, y) <=> start < next
        /\ seq_leq(x, y) <=> start <= next
        /\ seq_gt(x, y) <=> start > next
        /\ seq_geq(x, y) <=> start >= next
    BY <2>1 DEF Placed, seq_lt, seq_leq, seq_gt, seq_geq
  <2> QED BY <2>2, <2>3 DEF OrderFollowsDistance, x, y
<1> QED BY <1>1, AlwaysPlaced, PTL

\* The acceptability test of an arriving segment asks exactly whether it
\* touches the window, for each even modulus.
THEOREM AcceptableIsWindow == Spec => []AcceptableFollowsWindow
<1>1. Placed => AcceptableFollowsWindow
  <2> SUFFICES ASSUME Placed,
                      start - next < HALF - len - wnd,
                      next - start < HALF - len - wnd
               PROVE  acceptable(Wrapped(start), len, Wrapped(next), wnd)
                        <=> IF wnd = 0 THEN len = 0 /\ start = next
                            ELSE {start, IF len = 0 THEN start ELSE start + len - 1}
                                   \cap (next .. next + wnd - 1) # {}
    BY DEF AcceptableFollowsWindow
  <2> DEFINE x == Wrapped(start)
             y == Wrapped(next)
             last == start + (len - 1)
  <2>1. HALF \in Int /\ start \in Int /\ next \in Int /\ len \in Nat /\ wnd \in Nat
    BY ModAssumption DEF HALF, Placed
  <2>2. x = y <=> start = next
    <3>1. s32(x - y) = start - next
      BY DistanceKept DEF Placed, Wrapped
    <3>2. s32(0) = 0
      BY ModAssumption DEF s32, HALF
    <3>3. x \in Int /\ y \in Int
      BY ModRange, ModAssumption DEF Placed, Wrapped
    <3>4. ASSUME x = y PROVE start = next
      <4>1. x - y = 0
        BY <3>3, <3>4
      <4> QED BY <4>1, <3>1, <3>2, <2>1
    <3> QED BY <3>4 DEF Wrapped
  <2>3. in_win(x, y, wnd) <=> start \in next .. next + wnd - 1
    <3>1. Near(start, next + wnd)
      BY <2>1 DEF Near
    <3> QED BY <3>1, InWindow DEF Placed, Wrapped
  <2>4. ASSUME len > 0
        PROVE  in_win(add(x, len - 1), y, wnd) <=> last \in next .. next + wnd - 1
    <3>1. add(x, len - 1) = last % MOD
      BY <2>1, Advance DEF Wrapped
    <3>2. last \in Int /\ Near(last, next) /\ Near(last, next + wnd)
      BY <2>1, <2>4 DEF Near
    <3> QED BY <2>1, <3>1, <3>2, InWindow DEF Wrapped
  <2> HIDE DEF x, y
  <2>5. CASE wnd = 0
    BY <2>1, <2>2, <2>3, <2>5 DEF acceptable, x, y
  <2>6. CASE wnd > 0 /\ len = 0
    BY <2>1, <2>3, <2>6 DEF acceptable, x, y
  <2>7. CASE wnd > 0 /\ len > 0
    BY <2>1, <2>3, <2>4, <2>7 DEF acceptable, x, y
  <2> QED BY <2>1, <2>5, <2>6, <2>7
<1> QED BY <1>1, AlwaysPlaced, PTL

-------------------------------------------------------------------------------
(* The round-trip estimator.                                               *)

\* What has been measured, or nothing yet.
Measurements ==
    \/ latest = Unmeasured /\ rtt.srtt = Unmeasured /\ greatest = Unmeasured
    \/ /\ {latest, least, greatest, rtt.srtt, rtt.var4} \subseteq Nat
       /\ least <= rtt.srtt /\ rtt.srtt <= greatest
       /\ rtt.rto >= latest \/ rtt.rto = RTO_MAX

RttTypeOK ==
    rtt \in [srtt : Nat \cup {Unmeasured}, var4 : Nat \cup {Unmeasured}, rto : RTO_MIN .. RTO_MAX]

RttInv == RttTypeOK /\ Measurements

\* The smoothed round trip lies between the old one and the measurement, and
\* with the new spread it reaches the measurement: what the spread gains is as
\* much as the smoothing holds back.
LEMMA SmoothingReaches ==
    ASSUME NEW s \in Nat, NEW v \in Nat, NEW r \in Nat
    PROVE  /\ Smoothed(s, r) \in Nat /\ Spread(v, s, r) \in Nat
           /\ s <= r => s <= Smoothed(s, r) /\ Smoothed(s, r) <= r
           /\ r <= s => r <= Smoothed(s, r) /\ Smoothed(s, r) <= s
           /\ Smoothed(s, r) + Spread(v, s, r) >= r
  BY SMT DEF Smoothed, Spread, Distance

\* The timeout of an estimate is within the limits, and not below the estimate
\* with its spread unless the upper limit cuts it.
LEMMA EstimateCovers ==
    ASSUME NEW s \in Nat, NEW v \in Nat
    PROVE  /\ Estimate(s, v).srtt = s /\ Estimate(s, v).var4 = v
           /\ Estimate(s, v) \in [srtt : Nat \cup {Unmeasured}, var4 : Nat \cup {Unmeasured},
                                  rto : RTO_MIN .. RTO_MAX]
           /\ Estimate(s, v).rto >= s + v \/ Estimate(s, v).rto = RTO_MAX
  BY RttAssumption, SMT DEF Estimate, Clamp, Greater

LEMMA RttStarts == RttInit => RttInv
  BY RttAssumption, SMT DEF RttInit, RttInv, RttTypeOK, Measurements, NewEstimator, Unmeasured

\* A measurement keeps the invariant: the first one sets the estimate to itself.
LEMMA MeasuredKeeps ==
    ASSUME RttInv, NEW r \in ROUND_TRIPS, Measured(r)
    PROVE  RttInv'
  <1>1. r \in Nat
    BY RttAssumption
  <1>2. CASE latest = Unmeasured
    <2>1. rtt.srtt = Unmeasured /\ greatest = Unmeasured
      BY <1>2, SMT DEF RttInv, Measurements, Unmeasured
    <2>2. rtt' = Estimate(r, 2 * r) /\ latest' = r /\ least' = r /\ greatest' = r
      BY <1>1, <1>2, <2>1, SMT DEF Measured, sample, Greater, Unmeasured
    <2>3. 2 * r \in Nat /\ r + 2 * r >= r
      BY <1>1, SMT
    <2> QED
      BY <1>1, <2>2, <2>3, EstimateCovers, SMT DEF RttInv, RttTypeOK, Measurements
  <1>3. CASE latest # Unmeasured
    <2> DEFINE s == Smoothed(rtt.srtt, r)
               v == Spread(rtt.var4, rtt.srtt, r)
    <2>1. /\ {latest, least, greatest, rtt.srtt, rtt.var4} \subseteq Nat
          /\ least <= rtt.srtt /\ rtt.srtt <= greatest
      BY <1>3 DEF RttInv, Measurements
    <2>2. rtt' = Estimate(s, v) /\ latest' = r
      BY <2>1, SMT DEF Measured, sample, Unmeasured
    <2>3. /\ least' \in Nat /\ least' <= least /\ least' <= r
          /\ greatest' \in Nat /\ greatest' >= greatest /\ greatest' >= r
      BY <1>1, <1>3, <2>1, SMT DEF Measured, Greater
    <2>4. /\ s \in Nat /\ v \in Nat /\ s + v >= r
          /\ (rtt.srtt <= s /\ s <= r) \/ (r <= s /\ s <= rtt.srtt)
      <3>1. rtt.srtt <= r \/ r <= rtt.srtt
        BY <1>1, <2>1, SMT
      <3> QED
        BY <1>1, <2>1, <3>1, SmoothingReaches
    <2>5. least' <= s /\ s <= greatest'
      <3> HIDE DEF s
      <3> QED BY <1>1, <2>1, <2>3, <2>4, SMT
    <2> HIDE DEF s, v
    <2> QED
      <3>1. /\ rtt'.srtt = s /\ rtt'.var4 = v
            /\ rtt' \in [srtt : Nat \cup {Unmeasured}, var4 : Nat \cup {Unmeasured},
                         rto : RTO_MIN .. RTO_MAX]
            /\ rtt'.rto >= s + v \/ rtt'.rto = RTO_MAX
        BY <2>2, <2>4, EstimateCovers
      <3>2. rtt'.rto >= latest' \/ rtt'.rto = RTO_MAX
        BY <1>1, <2>2, <2>4, <3>1, RttAssumption, SMT
      <3> QED
        BY <1>1, <2>2, <2>3, <2>4, <2>5, <3>1, <3>2 DEF RttInv, RttTypeOK, Measurements
  <1> QED
    BY <1>2, <1>3

\* Backing off only lengthens the timeout, and not past the upper limit.
LEMMA BackoffKeeps ==
    ASSUME RttInv, TimedOut
    PROVE  RttInv'
  <1>1. rtt'.rto \in RTO_MIN .. RTO_MAX /\ (rtt'.rto >= rtt.rto \/ rtt'.rto = RTO_MAX)
    BY RttAssumption, SMT DEF RttInv, RttTypeOK, TimedOut, backoff
  <1>2. rtt'.srtt = rtt.srtt /\ rtt'.var4 = rtt.var4
    BY SMT DEF RttInv, RttTypeOK, TimedOut, backoff
  <1>3. RttTypeOK'
    BY <1>1, <1>2, SMT DEF RttInv, RttTypeOK, TimedOut, backoff
  <1>4. Measurements'
    BY <1>1, <1>2, RttAssumption, SMT DEF RttInv, RttTypeOK, Measurements, TimedOut
  <1> QED
    BY <1>3, <1>4 DEF RttInv

\* Whatever is measured and however often the timer expires, the timeout stays
\* between its limits and below the upper one covers the latest round trip
\* (RttEstimator).
THEOREM TimeoutIsPrudent == RttSpec => []RtoIsPrudent
  <1>1. RttInv /\ [RttNext]_rttVars => RttInv'
    <2> SUFFICES ASSUME RttInv, [RttNext]_rttVars
                 PROVE  RttInv'
      OBVIOUS
    <2>1. ASSUME NEW r \in ROUND_TRIPS, Measured(r)
          PROVE  RttInv'
      BY <2>1, MeasuredKeeps
    <2>2. CASE TimedOut
      BY <2>2, BackoffKeeps
    <2>3. CASE UNCHANGED rttVars
      BY <2>3 DEF rttVars, RttInv, RttTypeOK, Measurements
    <2> QED
      BY <2>1, <2>2, <2>3 DEF RttNext
  <1>2. RttInv => RtoIsPrudent
    BY RttAssumption, SMT DEF RttInv, RttTypeOK, Measurements, RtoIsPrudent, Unmeasured
  <1> QED
    BY <1>1, <1>2, RttStarts, PTL DEF RttSpec
=================================================================================
