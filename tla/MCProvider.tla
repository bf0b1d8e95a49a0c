------------------------------ MODULE MCProvider ------------------------------
(* An instance of Provider for TLC. *)
EXTENDS Provider, TLC

\* Of two texts of the upstream, one may repeat, begin or end the other.
TextsThatOverlap == {<<1>>, <<2>>, <<1, 2>>}

PartSymmetry == Permutations(Parts)
=============================================================================
