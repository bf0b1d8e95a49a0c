----------------------------- MODULE CircuitGate -----------------------------
(***************************************************************************)
(* What a circuit breaker promises to the router, with the counting of     *)
(* failures and successes abstracted away.  An account's gate lets traffic *)
(* flow, blocks it for a full cooldown after every trip, then lets probes  *)
(* through; only a probe result or the operator opens it again.            *)
(***************************************************************************)
EXTENDS Naturals

CONSTANT Cooldown        \* ticks an account stays blocked after a trip, a Nat

VARIABLES gate, remaining

gateVars == <<gate, remaining>>

GateTypeOK ==
    /\ gate \in {"flow", "blocked", "probing"}
    /\ remaining \in 0..Cooldown

GateInit == gate = "flow" /\ remaining = 0

\* Enough failures while traffic flows, or one failure while probing.
Trip ==
    /\ gate \in {"flow", "probing"}
    /\ gate' = "blocked"
    /\ remaining' = Cooldown

Cool ==
    /\ remaining > 0
    /\ remaining' = remaining - 1
    /\ UNCHANGED gate

\* The first request after the cooldown turns the gate to probing.
StartProbing ==
    /\ gate = "blocked" /\ remaining = 0
    /\ gate' = "probing"
    /\ UNCHANGED remaining

\* Enough successful probes.
Restore ==
    /\ gate = "probing"
    /\ gate' = "flow"
    /\ UNCHANGED remaining

\* POST /admin/accounts/{id}/reset-breaker.
OperatorReset ==
    /\ gate' = "flow"
    /\ remaining' = 0

GateNext == Trip \/ Cool \/ StartProbing \/ Restore \/ OperatorReset

GateSpec == GateInit /\ [][GateNext]_gateVars

=============================================================================
