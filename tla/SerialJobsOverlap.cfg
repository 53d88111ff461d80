SPECIFICATION Spec
CONSTANTS
    j1 = j1
    j2 = j2
    j3 = j3
    w1 = w1
    w2 = w2
    w3 = w3
    c1 = c1
    c2 = c2
    None = None
    Jobs = {j1, j2}
    Workers = {w1, w2}
    Cancels = {c1}
CHECK_DEADLOCK FALSE
INVARIANTS
    OneAtATime
