SPECIFICATION FairSpec
CONSTANTS
    Chunks <- TwoThenOne
    Prebuffer = 2
    MaxReports = 1
    MaxDrops = 1
    MaxStops = 1
INVARIANTS HonestMarks 
PROPERTIES PlaysForward EndsPlayOut
CHECK_DEADLOCK FALSE
