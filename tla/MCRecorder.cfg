SPECIFICATION Spec
CONSTANTS
    Requests = {r1, r2, r3, r4}
    Capacity = 2
INVARIANTS
    TypeOK
    OneFate
    GracefulExitKeepsRecords
PROPERTIES
    ShutdownEnds
\* The process exits.
CHECK_DEADLOCK FALSE
