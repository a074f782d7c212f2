SPECIFICATION HookSpec
CONSTANTS
    MaxConns = 4
    MaxEvents = 3
    RingSize = 2
    MaxReconnects = 1
INVARIANTS
    OneListener
PROPERTIES
    EventsReachList
