SPECIFICATION FairSpec
CONSTANTS
    r1 = r1
    r2 = r2
    r3 = r3
    t1 = t1
    t2 = t2
    Requests <- MCRequests
    Timers <- MCTimers
CHECK_DEADLOCK FALSE
INVARIANTS TypeOK OneFlusher QueueServed InOnePlace
PROPERTIES EveryRequestServed ImplementsRequestReply
