SPECIFICATION MCSpec
CONSTANTS
    MaxRows = 4
    ListLimit = 3
    CriticalRows = {2, 4}
    TimeOf <- MCTimeOf
    MaxEventIds = 5
    RingLimit = 3
    EventBatch = 2
    FeedLimit = 2
    Silent = {3}
    Channels = {"sound", "desktop"}
INVARIANTS
    CriticalRaisesLevel
    FeedFollowsEvents
