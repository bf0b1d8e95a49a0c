----------------------------- MODULE MCRouterLock -----------------------------
(***************************************************************************)
(* A selection in each of two groups and two writers on one RWMutex.       *)
(***************************************************************************)
EXTENDS RouterLock, TLC

CONSTANTS s1, s2

\* One group balanced round robin, one by least connections.
MCStrategy == s1 :> "round_robin" @@ s2 :> "least_connections"
=============================================================================
