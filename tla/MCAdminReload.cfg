SPECIFICATION Spec
CONSTANTS
    Handlers = {h1, h2}
    Accounts = {a1}
    Key = k1
    MaxOps = 3
SYMMETRY HandlerSymmetry
INVARIANTS
    TypeOK
    MemoryIsDatabase
    RetiredSecretRejected
    ReferencesHold
    UpdatesStick
\* The admin may stop sending requests.
CHECK_DEADLOCK FALSE
