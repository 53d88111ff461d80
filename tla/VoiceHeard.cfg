SPECIFICATION Spec
CONSTANTS
    Words = {"no", "yes"}
    Limit = 2
    MaxFrames = 4
    MaxLosses = 1
    MaxBlocks <- Blocks
    Block = 4
    From = 5
    To = 3
    Size = 3
    MaxDrops = 1
    MaxUnits <- TwoThenOne
    Prebuffer = 2
    MaxReports = 1
    BacklogLimit = 2
    MaxPosts = 3
    MaxReads = 3
    Ids = {1, 2, 3}
    Topics = {"mine", "all"}
    FeedLimit = 2
    MaxCopies = 4
    Conns = {1, 2, 3}
    Owner <- Owners
    MaxVisits = 3
    MaxThreadRuns = 2
    MaxSeq = 5
    MaxAsks = 1
    MaxAways = 1
    CallsFirst = FALSE
    Resumes = FALSE
    MaxRuns = 2
    MaxTurns = 2
    MaxSentences = 2
    MaxStops = 1
INVARIANT RemembersTheHeard
CHECK_DEADLOCK FALSE
