------------------------------- MODULE MCSeqNum -------------------------------
(***************************************************************************)
(* The wrapped comparisons of SeqNum against the positions they stand for. *)
(* A segment and a receive window slide together through two turns of the  *)
(* sequence space, at every distance the comparisons are good for.         *)
(***************************************************************************)
EXTENDS SeqNum

CONSTANTS MAX_LEN, MAX_WND     \* bounds on the segment and the window

ASSUME BoundsAssumption == MAX_LEN \in Nat /\ MAX_WND \in Nat /\ MAX_LEN + MAX_WND < HALF

VARIABLES
    next,     \* the position the receiver expects
    start,    \* the position at which the segment starts
    len, wnd  \* the length of the segment, the size of the window

vars == <<next, start, len, wnd>>

Init ==
    /\ next = MOD
    /\ start \in MOD - (HALF - 1) .. MOD + (HALF - 1)
    /\ len \in 0 .. MAX_LEN /\ wnd \in 0 .. MAX_WND

Slide ==
    /\ next < 3 * MOD
    /\ next' = next + 1 /\ start' = start + 1
    /\ UNCHANGED <<len, wnd>>

Spec == Init /\ [][Slide]_vars

Wrapped(p) == p % MOD

\* Less than half the space apart, numbers compare as the positions do,
\* wherever the space wraps between them (s32, sub, seq_lt .. seq_geq).
OrderFollowsDistance ==
    LET x == Wrapped(start) y == Wrapped(next) IN
    /\ s32(x - y) = start - next
    /\ seq_lt(x, y) <=> start < next
    /\ seq_leq(x, y) <=> start <= next
    /\ seq_gt(x, y) <=> start > next
    /\ seq_geq(x, y) <=> start >= next
    /\ start >= next => sub(x, y) = start - next

\* A segment is acceptable when it occupies nothing and lies in the window, or
\* starts or ends in it; into a closed window only an empty segment at the
\* expected position goes (acceptable, the four cases of RFC 9293).
AcceptableFollowsWindow ==
    LET window == next .. next + wnd - 1
        inside == IF wnd = 0 THEN len = 0 /\ start = next
                  ELSE {start, IF len = 0 THEN start ELSE start + len - 1} \cap window # {}
        nearby == start - next < HALF - len - wnd /\ next - start < HALF - len - wnd
    IN  nearby => (acceptable(Wrapped(start), len, Wrapped(next), wnd) <=> inside)
===============================================================================
