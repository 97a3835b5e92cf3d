-------------------------------- MODULE SeqNum --------------------------------
(***************************************************************************)
(* Modular sequence-number arithmetic (tcp_model/core/seqnum.py).          *)
(*                                                                         *)
(* The code works modulo 2^32.  Here the modulus is the constant MOD, so   *)
(* that small instances wrap quickly and theorems hold for every even      *)
(* modulus, 2^32 included.  The names are the code's.                      *)
(***************************************************************************)
EXTENDS Integers

CONSTANT MOD    \* size of the sequence space, 2^32 in the code

ASSUME ModAssumption == MOD \in Nat /\ MOD >= 4 /\ MOD % 2 = 0

HALF == MOD \div 2

SeqNums == 0 .. MOD - 1

\* An operator named Mut_... is no part of the arithmetic: it is the operator
\* that follows it with a plausible bug, which a property must catch.

Mut_s32(x) == IF x >= HALF THEN x - MOD ELSE x

\* The signed reading of an unsigned difference, in -HALF .. HALF - 1.
s32(x) == IF x % MOD >= HALF THEN (x % MOD) - MOD ELSE x % MOD

Mut_add(a, n) == a + n

add(a, n) == (a + n) % MOD

sub(a, b) == (a - b) % MOD

seq_lt(a, b)  == s32(a - b) < 0
seq_leq(a, b) == s32(a - b) <= 0
seq_gt(a, b)  == s32(a - b) > 0
seq_geq(a, b) == s32(a - b) >= 0

between(lo, x, hi) == seq_leq(lo, x) /\ seq_leq(x, hi)

Mut_in_win(x, rcv_nxt, wnd) == seq_leq(rcv_nxt, x) /\ seq_leq(x, add(rcv_nxt, wnd))

\* x lies in the window of wnd numbers that starts at rcv_nxt.
in_win(x, rcv_nxt, wnd) == seq_leq(rcv_nxt, x) /\ seq_lt(x, add(rcv_nxt, wnd))

\* The four-case acceptability test of an incoming segment.
acceptable(seg_seq, seg_len, rcv_nxt, rcv_wnd) ==
  \/ seg_len = 0 /\ rcv_wnd = 0 /\ seg_seq = rcv_nxt
  \/ seg_len = 0 /\ rcv_wnd > 0 /\ in_win(seg_seq, rcv_nxt, rcv_wnd)
  \/ /\ seg_len > 0
     /\ rcv_wnd > 0
     /\ \/ in_win(seg_seq, rcv_nxt, rcv_wnd)
        \/ in_win(add(seg_seq, seg_len - 1), rcv_nxt, rcv_wnd)
===============================================================================
