------------------------------- MODULE Breaker -------------------------------
(***************************************************************************)
(* internal/breaker/breaker.go: the circuit breaker of one upstream        *)
(* account, together with the attempts that consult it.                    *)
(*                                                                         *)
(* The breaker is one object under one mutex, so each method is one        *)
(* action.  What interleaves is the attempts: the proxy asks Allow, talks  *)
(* to the upstream for an arbitrary time without holding anything, and     *)
(* reports the outcome into whatever state the breaker is in by then.      *)
(*                                                                         *)
(* The clock is the distance to openedAt: the code only ever compares      *)
(* time.Since(openedAt) with OpenDuration, so `elapsed' is that distance   *)
(* in ticks, capped at OpenDuration, and the model needs no bound on time. *)
(* lastFailureAt is written by the code and read by nothing; it is not     *)
(* part of the model.                                                      *)
(***************************************************************************)
EXTENDS Integers

CONSTANTS
    Attempts,                    \* upstream attempts that may be in progress
    ConfiguredFailureThreshold,  \* breaker.Config as the router passes it
    ConfiguredSuccessThreshold,
    ConfiguredOpenDuration       \* in ticks

ASSUME ConfigAssumption ==
    /\ ConfiguredFailureThreshold \in Int
    /\ ConfiguredSuccessThreshold \in Int
    /\ ConfiguredOpenDuration \in Int

-----------------------------------------------------------------------------
(* New: values that are not positive are replaced by the defaults.         *)

OrDefault(value, default) == IF value <= 0 THEN default ELSE value

FailureThreshold == OrDefault(ConfiguredFailureThreshold, 5)
SuccessThreshold == OrDefault(ConfiguredSuccessThreshold, 2)
OpenDuration     == OrDefault(ConfiguredOpenDuration, 60)

-----------------------------------------------------------------------------
VARIABLES
    state,                 \* "closed", "open" or "half_open"
    consecutiveFailures,
    consecutiveSuccesses,
    elapsed,               \* time.Since(openedAt), capped at OpenDuration
    attempt,               \* attempt[a]: "idle" or "admitted"
    \* History, read by the properties only.
    failureRun,            \* failure reports since the last success report
    successRun,            \* success reports since the last failure report
    sinceTrip              \* ticks since the breaker last opened, capped

breakerVars == <<state, consecutiveFailures, consecutiveSuccesses, elapsed>>
historyVars == <<failureRun, successRun, sinceTrip>>
vars == <<breakerVars, attempt, historyVars>>

States == {"closed", "open", "half_open"}

TypeOK ==
    /\ state \in States
    /\ consecutiveFailures \in 0..FailureThreshold
    /\ consecutiveSuccesses \in 0..SuccessThreshold
    /\ elapsed \in 0..OpenDuration
    /\ attempt \in [Attempts -> {"idle", "admitted"}]
    /\ failureRun \in 0..FailureThreshold
    /\ successRun \in 0..SuccessThreshold
    /\ sinceTrip \in 0..OpenDuration

\* openedAt is the zero time: any cooldown has long passed.
Init ==
    /\ state = "closed"
    /\ consecutiveFailures = 0
    /\ consecutiveSuccesses = 0
    /\ elapsed = OpenDuration
    /\ attempt = [a \in Attempts |-> "idle"]
    /\ failureRun = 0
    /\ successRun = 0
    /\ sinceTrip = OpenDuration

\* One more, up to the cap the properties compare with.
Capped(n, cap) == IF n < cap THEN n + 1 ELSE cap

-----------------------------------------------------------------------------
(* Allow.  A refused call changes nothing.                                 *)

\* closed, or half-open: admitted, however many are already in progress.
AllowFlowing(a) ==
    /\ attempt[a] = "idle"
    /\ state \in {"closed", "half_open"}
    /\ attempt' = [attempt EXCEPT ![a] = "admitted"]
    /\ UNCHANGED <<breakerVars, historyVars>>

\* Variants with a fault, for checking that the properties notice: the
\* cooldown is not awaited; the lazy transition is missing.
AllowProbeTooEarly(a) ==
    /\ attempt[a] = "idle"
    /\ state = "open"
    /\ state' = "half_open"
    /\ consecutiveSuccesses' = 0
    /\ attempt' = [attempt EXCEPT ![a] = "admitted"]
    /\ UNCHANGED <<consecutiveFailures, elapsed, historyVars>>

AllowProbeMissing(a) == FALSE

\* open and cooled down: the caller turns the breaker half-open.
AllowProbe(a) ==
    /\ attempt[a] = "idle"
    /\ state = "open" /\ elapsed >= OpenDuration
    /\ state' = "half_open"
    /\ consecutiveSuccesses' = 0
    /\ attempt' = [attempt EXCEPT ![a] = "admitted"]
    /\ UNCHANGED <<consecutiveFailures, elapsed, historyVars>>

Allow(a) == AllowFlowing(a) \/ AllowProbe(a)

\* The caller never reports: the balancer preferred another candidate, the
\* account cannot serve the model or has no free slot, or the client went
\* away during the retry backoff.
Abandon(a) ==
    /\ attempt[a] = "admitted"
    /\ attempt' = [attempt EXCEPT ![a] = "idle"]
    /\ UNCHANGED <<breakerVars, historyVars>>

-----------------------------------------------------------------------------
(* RecordSuccess, by the state it finds.                                   *)

\* Faulty variant: one success too many.
SuccessClosesLate == consecutiveSuccesses + 1 > SuccessThreshold

SuccessCloses == consecutiveSuccesses + 1 >= SuccessThreshold

\* The caller's part of a success report, and the history of outcomes.
SuccessReported(a) ==
    /\ attempt[a] = "admitted"
    /\ attempt' = [attempt EXCEPT ![a] = "idle"]
    /\ failureRun' = 0
    /\ successRun' = Capped(successRun, SuccessThreshold)
    /\ UNCHANGED <<elapsed, sinceTrip>>

SuccessWhileClosed(a) ==
    /\ state = "closed"
    /\ consecutiveFailures' = 0
    /\ UNCHANGED <<state, consecutiveSuccesses>>
    /\ SuccessReported(a)

SuccessWhileHalfOpen(a) ==
    /\ state = "half_open"
    /\ IF SuccessCloses
       THEN state' = "closed" /\ consecutiveFailures' = 0 /\ consecutiveSuccesses' = 0
       ELSE /\ consecutiveSuccesses' = consecutiveSuccesses + 1
            /\ UNCHANGED <<state, consecutiveFailures>>
    /\ SuccessReported(a)

\* An attempt admitted before the trip succeeds: the breaker ignores it.
SuccessWhileOpen(a) ==
    /\ state = "open"
    /\ UNCHANGED <<state, consecutiveFailures, consecutiveSuccesses>>
    /\ SuccessReported(a)

RecordSuccess(a) ==
    SuccessWhileClosed(a) \/ SuccessWhileHalfOpen(a) \/ SuccessWhileOpen(a)

-----------------------------------------------------------------------------
(* RecordFailure, by the state it finds.                                   *)

\* Faulty variant: the breaker never trips.
FailureTripsNever == FALSE

FailureTrips == consecutiveFailures + 1 >= FailureThreshold

FailureReported(a) ==
    /\ attempt[a] = "admitted"
    /\ attempt' = [attempt EXCEPT ![a] = "idle"]
    /\ failureRun' = Capped(failureRun, FailureThreshold)
    /\ successRun' = 0
    /\ sinceTrip' = IF state # "open" /\ state' = "open" THEN 0 ELSE sinceTrip

FailureWhileClosed(a) ==
    /\ state = "closed"
    /\ consecutiveFailures' = consecutiveFailures + 1
    /\ IF FailureTrips THEN state' = "open" /\ elapsed' = 0
                       ELSE UNCHANGED <<state, elapsed>>
    /\ UNCHANGED consecutiveSuccesses
    /\ FailureReported(a)

\* Faulty variant: re-opening keeps the old openedAt.
FailureWhileHalfOpenStale(a) ==
    /\ state = "half_open"
    /\ state' = "open"
    /\ consecutiveSuccesses' = 0
    /\ UNCHANGED <<consecutiveFailures, elapsed>>
    /\ FailureReported(a)

FailureWhileHalfOpen(a) ==
    /\ state = "half_open"
    /\ state' = "open"
    /\ elapsed' = 0
    /\ consecutiveSuccesses' = 0
    /\ UNCHANGED consecutiveFailures
    /\ FailureReported(a)

\* A late failure does not prolong the cooldown.
FailureWhileOpen(a) ==
    /\ state = "open"
    /\ UNCHANGED breakerVars
    /\ FailureReported(a)

RecordFailure(a) ==
    FailureWhileClosed(a) \/ FailureWhileHalfOpen(a) \/ FailureWhileOpen(a)

-----------------------------------------------------------------------------
(* Reset, by the operator; openedAt is left as it is.                      *)

\* Faulty variant: the failure count survives the operator's reset.
ResetKeepsFailures ==
    /\ state' = "closed"
    /\ consecutiveSuccesses' = 0
    /\ failureRun' = 0
    /\ successRun' = 0
    /\ UNCHANGED <<consecutiveFailures, elapsed, attempt, sinceTrip>>

Reset ==
    /\ state' = "closed"
    /\ consecutiveFailures' = 0
    /\ consecutiveSuccesses' = 0
    /\ failureRun' = 0
    /\ successRun' = 0
    /\ UNCHANGED <<elapsed, attempt, sinceTrip>>

\* The clock.  `elapsed' and `sinceTrip' stop at OpenDuration.
Tick ==
    /\ elapsed < OpenDuration \/ sinceTrip < OpenDuration
    /\ elapsed' = Capped(elapsed, OpenDuration)
    /\ sinceTrip' = Capped(sinceTrip, OpenDuration)
    /\ UNCHANGED <<state, consecutiveFailures, consecutiveSuccesses, attempt,
                   failureRun, successRun>>

-----------------------------------------------------------------------------
Report(a) == RecordSuccess(a) \/ RecordFailure(a)

Next ==
    \/ \E a \in Attempts : Allow(a) \/ Abandon(a) \/ Report(a)
    \/ Reset
    \/ Tick

Spec == Init /\ [][Next]_vars

\* The clock advances, clients keep coming, and an upstream that is asked
\* again and again answers now and then.  Only the clock is the code's own;
\* the other two describe the traffic under which recovery can be expected.
Fairness ==
    /\ WF_vars(Tick)
    /\ \A a \in Attempts : WF_vars(Allow(a)) /\ SF_vars(RecordSuccess(a))

FairSpec == Spec /\ Fairness

-----------------------------------------------------------------------------
(* Properties.                                                             *)

\* A closed breaker has counted exactly the failures reported since the last
\* success, whatever happened in between (trips, probes, late reports into an
\* open breaker, resets), and they are fewer than the threshold: it can
\* neither trip early nor stay closed past the threshold.
ClosedCountsFailureRun ==
    state = "closed" =>
        /\ consecutiveFailures = failureRun
        /\ consecutiveFailures < FailureThreshold

\* A half-open breaker never credits more successes than were reported in a
\* row, and never reaches the threshold without closing.
HalfOpenCountsSuccessRun ==
    state = "half_open" =>
        /\ consecutiveSuccesses <= successRun
        /\ consecutiveSuccesses < SuccessThreshold

\* No probe goes out before a full OpenDuration has passed since the latest
\* trip, be it from closed or from half-open, and also when an operator reset
\* (which does not touch openedAt) came in between.
ProbesOnlyAfterCooldown ==
    /\ state = "half_open" => sinceTrip = OpenDuration
    /\ state = "open" => elapsed = sinceTrip

\* The breaker opens from closed only on FailureThreshold failures in a row,
\* and closes from half-open only by the operator or on SuccessThreshold
\* successes in a row.
TransitionsAreEarned ==
    [][/\ state = "closed" /\ state' = "open" => failureRun' = FailureThreshold
       /\ state = "half_open" /\ state' = "closed" =>
            Reset \/ successRun' = SuccessThreshold]_vars

\* If failures cease, the account is eventually back in service for good: no
\* state of the breaker locks a healthy account out.
HealthyAccountRecovers ==
    <>[][\A a \in Attempts : ~RecordFailure(a)]_vars => <>[](state = "closed")

-----------------------------------------------------------------------------
(* The breaker implements the gate the router relies on.                   *)

Gate == INSTANCE CircuitGate
          WITH Cooldown  <- OpenDuration,
               gate      <- [closed    |-> "flow",
                             open      |-> "blocked",
                             half_open |-> "probing"][state],
               remaining <- IF state = "open" THEN OpenDuration - elapsed ELSE 0

\* Every behaviour of the breaker is one of the abstract gate.
ImplementsGate == Gate!GateSpec

=============================================================================
