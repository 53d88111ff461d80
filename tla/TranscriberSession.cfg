SPECIFICATION BoundedSpec
CONSTANTS
    Topics = {t1, t2}
    Sessions = {s1, s2}
    Users = {u1}
    User <- SameUser
    t1 = t1
    t2 = t2
    s1 = s1
    s2 = s2
    s3 = s3
    u1 = u1
    Limit = 1
    HookRaises = TRUE
    NoSession = NoSession
CHECK_DEADLOCK FALSE
INVARIANTS
    NoRival
    NoOrphan
    ClaimsCovered
PROPERTIES
    
    StreamsEnd
