SPECIFICATION Spec

CONSTANTS
    Attempts = {r1, r2}
    Accounts = {a1}
    Limits = {0, 1}
    MaxReloads = 2

INVARIANT
    MaxConcurrentRespected

\* With every account deleted and the reloads used up nothing is left to do.
CHECK_DEADLOCK FALSE
