SPECIFICATION FairSpec
CONSTANTS
    j1 = j1
    j2 = j2
    j3 = j3
    w1 = w1
    w2 = w2
    w3 = w3
    c1 = c1
    c2 = c2
    None = None
    Jobs = {j1, j2, j3}
    Workers = {w1, w2, w3}
    Cancels = {c1, c2}
CHECK_DEADLOCK FALSE
INVARIANTS
    StartsInOrder
    CancelClears
PROPERTIES
    JobsAreServed
