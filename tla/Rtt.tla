----------------------------------- MODULE Rtt -----------------------------------
(***************************************************************************)
(* The round-trip estimator of RFC 6298 (tcp_model/core/rtt.py).           *)
(*                                                                         *)
(* Times are integers of a unit as small as one likes; var4 is four times  *)
(* rttvar, so that the weights of the code divide by eight and four only.  *)
(***************************************************************************)
EXTENDS Integers

CONSTANTS
    RTO_INITIAL, RTO_MIN, RTO_MAX,
    RTT_G,              \* the granularity of the clock
    ROUND_TRIPS         \* the round trips that may be measured

ASSUME RttAssumption ==
    /\ {RTO_INITIAL, RTO_MIN, RTO_MAX, RTT_G} \subseteq Nat
    /\ RTO_MIN <= RTO_INITIAL /\ RTO_INITIAL <= RTO_MAX
    /\ ROUND_TRIPS \subseteq Nat

VARIABLES
    rtt,              \* the estimator
    latest,           \* history: the latest measurement
    least, greatest   \* history: the bounds of all of them

rttVars == <<rtt, latest, least, greatest>>

Unmeasured == -1        \* None

NewEstimator == [srtt |-> Unmeasured, var4 |-> Unmeasured, rto |-> RTO_INITIAL]

Distance(x, y) == IF x < y THEN y - x ELSE x - y

Greater(x, y) == IF x < y THEN y ELSE x

Clamp(v) == IF Greater(v, RTO_MIN) < RTO_MAX THEN Greater(v, RTO_MIN) ELSE RTO_MAX

Smoothed(srtt, r) == ((7 * srtt) + r) \div 8

Mut_Spread(var4, srtt, r) == ((3 * var4) + Distance(srtt, r)) \div 4

Spread(var4, srtt, r) == ((3 * var4) \div 4) + Distance(srtt, r)

Estimate(srtt, var4) ==
    [srtt |-> srtt, var4 |-> var4, rto |-> Clamp(srtt + Greater(RTT_G, var4))]

\* A measurement: the first one sets the estimate, the others smooth it, the
\* spread by the estimate before them.
sample(e, r) ==
    IF e.srtt = Unmeasured THEN Estimate(r, 2 * r)
    ELSE Estimate(Smoothed(e.srtt, r), Spread(e.var4, e.srtt, r))

backoff(e) == [e EXCEPT !.rto = IF 2 * @ < RTO_MAX THEN 2 * @ ELSE RTO_MAX]

-------------------------------------------------------------------------------
(* The estimator in use: the engine samples what it timed (Karn's rule     *)
(* chooses, in TcpEngine) and backs off when the timer expires.            *)

RttInit ==
    rtt = NewEstimator /\ latest = Unmeasured /\ least = Unmeasured /\ greatest = Unmeasured

Measured(r) ==
    /\ rtt' = sample(rtt, r) /\ latest' = r
    /\ least' = (IF latest = Unmeasured \/ r < least THEN r ELSE least)
    /\ greatest' = Greater(greatest, r)

TimedOut == rtt' = backoff(rtt) /\ UNCHANGED <<latest, least, greatest>>

RttNext == (\E r \in ROUND_TRIPS : Measured(r)) \/ TimedOut

RttSpec == RttInit /\ [][RttNext]_rttVars

\* The timeout stays between its limits and, below the upper one, is never
\* shorter than the latest measured round trip: a path that stays as slow as
\* it just was causes no retransmission.  The estimate lies among what was
\* measured (RttEstimator.sample, backoff).
RtoIsPrudent ==
    /\ rtt.rto \in RTO_MIN .. RTO_MAX
    /\ latest # Unmeasured =>
          /\ rtt.srtt \in least .. greatest
          /\ rtt.rto >= latest \/ rtt.rto = RTO_MAX
==================================================================================
