SPECIFICATION TabsSpec
CONSTANTS
    r1 = r1
    r2 = r2
    x1 = x1
    a = a
    NoRun = NoRun
    Runs = {r1, r2}
    Emits = {x1}
    MaxContent = 0
    MaxEvents = 10
    Tabs = {a}
    ReplayFirst = TRUE
    MaxJoins = 2
CHECK_DEADLOCK FALSE
SYMMETRY TabSymmetry
INVARIANTS
    AppliedInOrder
    InStep
