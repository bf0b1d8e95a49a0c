SPECIFICATION Spec

CONSTANTS
    s1 = s1
    s2 = s2
    Selectors = {s1, s2}
    Writers = {w1, w2}
    MaxCandidates = 2
    Strategy <- MCStrategy

PROPERTY
    ReloadCompletes

CHECK_DEADLOCK FALSE
