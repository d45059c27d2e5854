\* Two turns of one key, one slot, ON and OFF, the idle scheduler, clients that
\* disconnect during admission, restarts, no driver faults.  One of the turns may
\* be served by the remote Executor too, and then keeps continuations as well.
SPECIFICATION FairControlSpec
CONSTANTS
    r1 = r1
    r2 = r2
    key = key
    Console = Console
    PinDrain = PinDrain
    Requests = {r1, r2}
    Operators = {Console, PinDrain}
    Keys = {key}
    KeyOf <- MCKeyOf
    MaxLocal = 1
    SameKeyMax = 1
    TotalMax = 1
    StoreFails = FALSE
    Observe = FALSE
    IdleUnload = TRUE
    GuardKinds = {}
    RemoteTurns = {r1}
    Faults = FALSE
    Crashes = TRUE
    Closes = FALSE
    MaxRetries = 1
    FailureLimit = 2
    Disconnects = TRUE
INVARIANTS
    LocalWorkIsPinned
    OffStopsOnlyUnused
    RecordsAgree
PROPERTIES
    WorkEnds
