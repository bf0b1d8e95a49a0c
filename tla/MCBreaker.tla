------------------------------ MODULE MCBreaker ------------------------------
(***************************************************************************)
(* Three overlapping attempts against one breaker: a configured failure    *)
(* threshold, a success threshold left to its default, two ticks open.     *)
(***************************************************************************)
EXTENDS Breaker
=============================================================================
