SPECIFICATION Spec

CONSTANTS
    Attempts = {r1, r2}
    Accounts = {a1}
    Limits = {0, 1, 2}
    MaxReloads = 2

SYMMETRY AttemptSymmetry

INVARIANTS
    TypeOK
    SlotsExact
    WithinLargestLimit
    CounterExact

\* With every account deleted and the reloads used up nothing is left to do.
CHECK_DEADLOCK FALSE
