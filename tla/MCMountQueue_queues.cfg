SPECIFICATION FairSpec
CONSTANTS
    p1 = p1
    p2 = p2
    mount = mount
    Publisher = {p1, p2}
    Poller = mount
    Key = {k1, k2}
    MaxEvents = 6
    Setup <- PassSetups
CHECK_DEADLOCK FALSE
INVARIANTS HandledInOrder NothingIsLost QueueIsSound
PROPERTIES PostedIsHandled WaitersGoOn
