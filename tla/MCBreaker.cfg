SPECIFICATION FairSpec

CONSTANTS
    Attempts = {a1, a2, a3}
    ConfiguredFailureThreshold = 3
    ConfiguredSuccessThreshold = 0
    ConfiguredOpenDuration = 2

INVARIANTS
    TypeOK
    ClosedCountsFailureRun
    HalfOpenCountsSuccessRun
    ProbesOnlyAfterCooldown

PROPERTIES
    HealthyAccountRecovers
    ImplementsGate
