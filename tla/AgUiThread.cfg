SPECIFICATION FairSpec
CONSTANTS
    r1 = r1
    r2 = r2
    x1 = x1
    NoRun = NoRun
    Runs = {r1, r2}
    Emits = {x1}
    MaxContent = 1
    MaxEvents = 2
CHECK_DEADLOCK FALSE
INVARIANTS
    OneRun
    
    SentInOrder
    ClosesOnce
PROPERTIES
    ThreadIsReleased
