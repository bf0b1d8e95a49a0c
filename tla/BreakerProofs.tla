---------------------------- MODULE BreakerProofs ----------------------------
(***************************************************************************)
(* What holds of the breaker for every configuration and every set of      *)
(* attempts.  The inductive invariant is TypeOK with the three counting    *)
(* invariants; none of them is inductive without TypeOK, and TypeOK is not *)
(* inductive without them: consecutiveFailures stays in its range only     *)
(* because a closed breaker is always below the threshold.                 *)
(***************************************************************************)
EXTENDS Breaker, TLAPS

IInv ==
    /\ TypeOK
    /\ ClosedCountsFailureRun
    /\ HalfOpenCountsSuccessRun
    /\ ProbesOnlyAfterCooldown

\* New never builds a breaker that trips on nothing, closes on nothing or
\* does not cool down: every parameter is at least one after the defaults.
LEMMA EffectiveConfig ==
    /\ FailureThreshold \in Nat \ {0}
    /\ SuccessThreshold \in Nat \ {0}
    /\ OpenDuration \in Nat \ {0}
BY ConfigAssumption
   DEF FailureThreshold, SuccessThreshold, OpenDuration, OrDefault

\* The initial breaker satisfies the invariant.
LEMMA InitEstablishes == Init => IInv
BY EffectiveConfig
   DEF Init, IInv, TypeOK, States, ClosedCountsFailureRun,
       HalfOpenCountsSuccessRun, ProbesOnlyAfterCooldown

\* Every method of the breaker, and the passing of time, preserves it.
LEMMA StepPreserves == IInv /\ [Next]_vars => IInv'
<1> SUFFICES ASSUME IInv, [Next]_vars PROVE IInv'
  OBVIOUS
<1> USE EffectiveConfig
    DEF IInv, TypeOK, States, ClosedCountsFailureRun, HalfOpenCountsSuccessRun,
        ProbesOnlyAfterCooldown, breakerVars, historyVars
<1>1. ASSUME NEW a \in Attempts, AllowFlowing(a) PROVE IInv'
  BY <1>1 DEF AllowFlowing
<1>2. ASSUME NEW a \in Attempts, AllowProbe(a) PROVE IInv'
  BY <1>2 DEF AllowProbe
<1>3. ASSUME NEW a \in Attempts, Abandon(a) PROVE IInv'
  BY <1>3 DEF Abandon
<1>4. ASSUME NEW a \in Attempts, SuccessWhileClosed(a) PROVE IInv'
  BY <1>4 DEF SuccessWhileClosed, SuccessReported, Capped
<1>5. ASSUME NEW a \in Attempts, SuccessWhileHalfOpen(a) PROVE IInv'
  BY <1>5 DEF SuccessWhileHalfOpen, SuccessReported, SuccessCloses, Capped
<1>6. ASSUME NEW a \in Attempts, SuccessWhileOpen(a) PROVE IInv'
  BY <1>6 DEF SuccessWhileOpen, SuccessReported, Capped
<1>7. ASSUME NEW a \in Attempts, FailureWhileClosed(a) PROVE IInv'
  BY <1>7 DEF FailureWhileClosed, FailureReported, FailureTrips, Capped
<1>8. ASSUME NEW a \in Attempts, FailureWhileHalfOpen(a) PROVE IInv'
  BY <1>8 DEF FailureWhileHalfOpen, FailureReported, Capped
<1>9. ASSUME NEW a \in Attempts, FailureWhileOpen(a) PROVE IInv'
  BY <1>9 DEF FailureWhileOpen, FailureReported, Capped
<1>10. CASE Reset
  BY <1>10 DEF Reset
<1>11. CASE Tick
  BY <1>11 DEF Tick, Capped
<1>12. CASE UNCHANGED vars
  BY <1>12 DEF vars
<1> QED
  BY <1>1, <1>2, <1>3, <1>4, <1>5, <1>6, <1>7, <1>8, <1>9, <1>10, <1>11, <1>12
  DEF Next, Allow, Report, RecordSuccess, RecordFailure

\* The inductive invariant holds throughout.
THEOREM BreakerInvariant == Spec => []IInv
BY InitEstablishes, StepPreserves, PTL DEF Spec

\* Types, thresholds and clock stay in range for every configuration.
THEOREM TypeCorrect == Spec => []TypeOK
<1>1. IInv => TypeOK
  BY DEF IInv
<1> QED
  BY <1>1, BreakerInvariant, PTL

\* A closed breaker counts exactly the current run of failures, and is below
\* its threshold (RecordSuccess, RecordFailure and Reset together).
THEOREM FailureCountIsExact == Spec => []ClosedCountsFailureRun
<1>1. IInv => ClosedCountsFailureRun
  BY DEF IInv
<1> QED
  BY <1>1, BreakerInvariant, PTL

\* A half-open breaker never credits a success that was not reported.
THEOREM SuccessCountIsEarned == Spec => []HalfOpenCountsSuccessRun
<1>1. IInv => HalfOpenCountsSuccessRun
  BY DEF IInv
<1> QED
  BY <1>1, BreakerInvariant, PTL

\* Allow lets no probe out before the cooldown after the latest trip ended.
THEOREM CooldownIsServed == Spec => []ProbesOnlyAfterCooldown
<1>1. IInv => ProbesOnlyAfterCooldown
  BY DEF IInv
<1> QED
  BY <1>1, BreakerInvariant, PTL

\* A transition to open or to closed has been earned by a full run of
\* outcomes, or was ordered by the operator.
THEOREM TransitionsEarned == Spec => TransitionsAreEarned
<1>1. ASSUME IInv, IInv', [Next]_vars
      PROVE  [/\ state = "closed" /\ state' = "open" => failureRun' = FailureThreshold
              /\ state = "half_open" /\ state' = "closed" =>
                   Reset \/ successRun' = SuccessThreshold]_vars
  <2> USE <1>1, EffectiveConfig
      DEF IInv, TypeOK, States, ClosedCountsFailureRun, HalfOpenCountsSuccessRun,
          breakerVars, historyVars, vars
  <2>1. ASSUME state = "closed", state' = "open"
        PROVE  failureRun' = FailureThreshold
    <3>1. PICK a \in Attempts : FailureWhileClosed(a)
      BY <2>1 DEF Next, Allow, AllowFlowing, AllowProbe, Abandon, Report,
                  RecordSuccess, SuccessWhileClosed, SuccessWhileHalfOpen,
                  SuccessWhileOpen, RecordFailure, FailureWhileHalfOpen,
                  FailureWhileOpen, Reset, Tick
    <3> QED
      BY <2>1, <3>1 DEF FailureWhileClosed, FailureTrips, FailureReported, Capped
  <2>2. ASSUME state = "half_open", state' = "closed", ~Reset
        PROVE  successRun' = SuccessThreshold
    <3>1. PICK a \in Attempts : SuccessWhileHalfOpen(a)
      BY <2>2 DEF Next, Allow, AllowFlowing, AllowProbe, Abandon, Report,
                  RecordSuccess, SuccessWhileClosed, SuccessWhileOpen,
                  RecordFailure, FailureWhileClosed, FailureWhileHalfOpen,
                  FailureWhileOpen, Tick
    <3> QED
      BY <2>2, <3>1 DEF SuccessWhileHalfOpen, SuccessCloses, SuccessReported, Capped
  <2> QED
    BY <2>1, <2>2
<1> QED
  BY <1>1, BreakerInvariant, PTL DEF Spec, TransitionsAreEarned

-----------------------------------------------------------------------------
(* The breaker implements CircuitGate.                                     *)

\* A step of the breaker is a step of the gate, or the gate does not notice.
LEMMA StepImplementsGate ==
    IInv /\ [Next]_vars => [Gate!GateNext]_(Gate!gateVars)
<1> SUFFICES ASSUME IInv, [Next]_vars
             PROVE  [Gate!GateNext]_(Gate!gateVars)
  OBVIOUS
<1> USE EffectiveConfig
    DEF IInv, TypeOK, States, ProbesOnlyAfterCooldown, breakerVars, historyVars,
        Gate!gateVars, Gate!GateNext
<1>1. ASSUME NEW a \in Attempts, AllowFlowing(a) \/ Abandon(a)
      PROVE  UNCHANGED Gate!gateVars
  BY <1>1 DEF AllowFlowing, Abandon
<1>2. ASSUME NEW a \in Attempts, AllowProbe(a) PROVE Gate!StartProbing
  BY <1>2 DEF AllowProbe, Gate!StartProbing
<1>3. ASSUME NEW a \in Attempts, SuccessWhileClosed(a) \/ SuccessWhileOpen(a)
      PROVE  UNCHANGED Gate!gateVars
  BY <1>3 DEF SuccessWhileClosed, SuccessWhileOpen, SuccessReported
<1>4. ASSUME NEW a \in Attempts, SuccessWhileHalfOpen(a)
      PROVE  Gate!Restore \/ UNCHANGED Gate!gateVars
  BY <1>4 DEF SuccessWhileHalfOpen, SuccessReported, Gate!Restore
<1>5. ASSUME NEW a \in Attempts, FailureWhileClosed(a)
      PROVE  Gate!Trip \/ UNCHANGED Gate!gateVars
  BY <1>5 DEF FailureWhileClosed, FailureReported, Gate!Trip
<1>6. ASSUME NEW a \in Attempts, FailureWhileHalfOpen(a) PROVE Gate!Trip
  BY <1>6 DEF FailureWhileHalfOpen, FailureReported, Gate!Trip
<1>7. ASSUME NEW a \in Attempts, FailureWhileOpen(a)
      PROVE  UNCHANGED Gate!gateVars
  BY <1>7 DEF FailureWhileOpen, FailureReported
<1>8. CASE Reset
  BY <1>8 DEF Reset, Gate!OperatorReset
<1>9. CASE Tick
  <2>1. Gate!Cool \/ UNCHANGED Gate!gateVars
    BY <1>9 DEF Tick, Capped, Gate!Cool
  <2> QED
    BY <2>1
<1>10. CASE UNCHANGED vars
  BY <1>10 DEF vars
<1> QED
  BY <1>1, <1>2, <1>3, <1>4, <1>5, <1>6, <1>7, <1>8, <1>9, <1>10
  DEF Next, Allow, Report, RecordSuccess, RecordFailure

\* Allow, RecordSuccess, RecordFailure and Reset refine the abstract gate.
THEOREM Refinement == Spec => ImplementsGate
<1>1. Init => Gate!GateInit
  BY DEF Init, Gate!GateInit
<1> QED
  BY <1>1, BreakerInvariant, StepImplementsGate, PTL
  DEF Spec, ImplementsGate, Gate!GateSpec

=============================================================================
