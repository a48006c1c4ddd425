CONSTANTS
    s1 = s1
    s2 = s2
    t1 = t1
    None = None
    Sessions = {s1, s2}
    Threads = {t1}
    ThreadOf <- OneThread
    Blocked = {}
    MaxId = 2
    Threshold = 0
    MaxConnections = 0
    MaxSends <- TwoAndOne
    MaxCloses = 1
    MaxReads = 1
SPECIFICATION FairSpec
INVARIANTS
 KeptAlive
 MessagesInOrder
 CloseFlushes
PROPERTIES
 IdsImplemented
 CloseNotifies
CHECK_DEADLOCK FALSE
