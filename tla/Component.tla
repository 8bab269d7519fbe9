------------------------------- MODULE Component -------------------------------
(***************************************************************************)
(* Which of the components that share no state moves.  The others rest in  *)
(* their initial state, so that in one run of TLC their state spaces add   *)
(* up instead of multiplying.                                              *)
(***************************************************************************)
VARIABLE component

Is(c) == component = c
=============================================================================
