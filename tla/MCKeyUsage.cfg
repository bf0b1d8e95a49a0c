SPECIFICATION Spec

CONSTANTS
    Requests = {r1, r2}
    Secrets = {1, 2}
    Limits = {0, 1}
    Quotas = {1}
    Months = {1, 2}
    Reloads = {h1, h2}
    MaxTokens = 1
    MaxEvents = 3

SYMMETRY Symmetry

INVARIANTS
    TypeOK
    DatabaseConserves
    QuotaCounterExact
    KeySlotsExact
    KeyLimitHolds

PROPERTIES
    UnchangedKeyAccepted
