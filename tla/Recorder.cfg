SPECIFICATION FairSpec
CONSTANTS
    MaxBlocks <- Blocks
    MaxDrops = 1
    Block = 4
    From = 5
    To = 3
    Size = 3
INVARIANTS   FedInOrder
PROPERTIES CancelledStartsRelease DeafRecordingsEnd
CHECK_DEADLOCK FALSE
