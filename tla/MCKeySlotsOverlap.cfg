SPECIFICATION Spec

CONSTANTS
    Requests = {r1, r2}
    Secrets = {1, 2}
    Limits = {1}
    Quotas = {0}
    Months = {1}
    Reloads = {h1, h2}
    MaxTokens = 0
    MaxEvents = 3

SYMMETRY Symmetry

INVARIANT
    KeyMaxConcurrent
