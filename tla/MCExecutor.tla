----------------------------- MODULE MCExecutor -----------------------------
(* A word of 7 bits: a table of 16 iovecs, one of 3 subscriptions and two  *)
(* buffers of 100 bytes wrap.  The places: in and out apart, in after out, *)
(* one and the same, overlapping, and out past the end of the memory.  The *)
(* results: in the first unit, in the last but one, past the end.          *)
EXTENDS Executor

MCPlaces == {<<0, 6>>, <<4, 0>>, <<0, 0>>, <<0, 3>>, <<0, 8>>}
=============================================================================
