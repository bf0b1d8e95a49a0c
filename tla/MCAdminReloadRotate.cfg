SPECIFICATION Spec
CONSTANTS
    Handlers = {h1, h2}
    Accounts = {a1}
    Key = k1
    MaxOps = 3
SYMMETRY HandlerSymmetry
INVARIANT
    RotatedKeyRejected
CHECK_DEADLOCK FALSE
