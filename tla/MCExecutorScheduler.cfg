\* Three keys, one of them with three turns in flight, one slot, queues of 2 per
\* key and 3 in total, and a session store that may fail while a request is
\* queued.
SPECIFICATION FairSchedulerSpec
CONSTANTS
    a = a
    b = b
    c = c
    a1 = a1
    a2 = a2
    a3 = a3
    b1 = b1
    c1 = c1
    Requests <- MCRequests
    Keys <- MCKeys
    KeyOf <- MCKeyOf
    MaxLocal = 1
    SameKeyMax = 2
    TotalMax = 3
    StoreFails = TRUE
INVARIANTS
    ViewsAgree
    NoIdleSlotWhileQueued
    NoOrphanPin
PROPERTIES
    PerKeyFifo
    WaitersAnswered
    ImplementsPool
