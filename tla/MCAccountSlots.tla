---------------------------- MODULE MCAccountSlots ----------------------------
(***************************************************************************)
(* Concurrent attempts on one account whose limit the operator changes,    *)
(* and which the operator may delete and create again.                     *)
(***************************************************************************)
EXTENDS AccountSlots, TLC

AttemptSymmetry == Permutations(Attempts)
=============================================================================
