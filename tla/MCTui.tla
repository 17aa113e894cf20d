------------------------------- MODULE MCTui -------------------------------
(* One goroutine of F3 at a time.                                          *)
EXTENDS Tui

MCDumpers == {"dump"}
=============================================================================
