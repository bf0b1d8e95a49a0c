------------------------------ MODULE MCKeyUsage ------------------------------
(***************************************************************************)
(* Two requests and two reloads, a key that may be rotated, limited or     *)
(* deleted, one or two months.                                             *)
(***************************************************************************)
EXTENDS KeyUsage, TLC

Symmetry == Permutations(Requests) \cup Permutations(Reloads)
=============================================================================
