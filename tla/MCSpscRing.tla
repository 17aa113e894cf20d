----------------------------- MODULE MCSpscRing -----------------------------
(* With the facts of the index arithmetic that SpscRing builds on, on      *)
(* counters of 6 bits and every capacity up to 33.                         *)
EXTENDS SpscRing, RingIndex

ASSUME IndexAssumption == CapAccepted(Cap) /\ MaskedAsRemainder(6, 33)
=============================================================================
