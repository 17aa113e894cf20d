----------------------------- MODULE RingIndex ------------------------------
(***************************************************************************)
(* The index arithmetic of telemetry.RingBuffer, bit by bit: the guard of  *)
(* NewRingBuffer and the masking of a counter.  Module SpscRing takes for  *)
(* granted that n & mask is n % Cap and that Cap divides the range of a    *)
(* counter; MaskedAsRemainder says so of every capacity that is accepted.  *)
(***************************************************************************)
EXTENDS Naturals, Bitwise

CapAccepted(cap) == cap # 0 /\ (cap & (cap - 1)) = 0    \* else NewRingBuffer panics

MaskedIndex(cap, n) == n & (cap - 1)                    \* r.buf[n & r.mask]

MaskedAsRemainder(width, maxCap) ==
  \A cap \in 1 .. maxCap :
    CapAccepted(cap) <=>
      /\ 2^width % cap = 0
      /\ \A n \in 0 .. 2^width - 1 : MaskedIndex(cap, n) = n % cap
=============================================================================
