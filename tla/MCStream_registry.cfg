CONSTANTS
    k1 = k1
    p1 = p1
    p2 = p2
    v1 = v1
    None = None
    Keys = {k1}
    Publishers = {p1, p2}
    Viewers = {v1}
    KeyOf <- OneKey
    QueueCap = 1
    AllowTemporary = TRUE
    DatabaseMayFail = TRUE
SPECIFICATION FairSpec
INVARIANTS TypeOK NoOrphanEntry NoChannelPanic GoneWithItsPublisher NotLeftActive
 
