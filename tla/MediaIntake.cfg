SPECIFICATION FairSpec
CONSTANTS
    MaxChunks = 2
    ReadyWins = TRUE
    MaxFed = 5
CHECK_DEADLOCK FALSE
INVARIANTS
    KeepsNewest
PROPERTIES
    StreamEnds
    
