\* Safety under faults: driver calls and probes fail, the unit dies, the latch
\* opens, the gateway restarts; a serialised operator, remote turns, profile
\* switches and reviews.  Two roles, one of them under the idle policy, two
\* turns and a switch that take the locks.
SPECIFICATION BothSpec
CONSTANTS
    r1 = r1
    o1 = o1
    t1 = t1
    t2 = t2
    s1 = s1
    Requests = {r1}
    Operators = {o1}
    Observe = FALSE
    IdleUnload = TRUE
    GuardKinds = {"profile", "evaluation"}
    RemoteTurns = {r1}
    Faults = TRUE
    Crashes = TRUE
    Closes = TRUE
    MaxRetries = 2
    FailureLimit = 2
    RoleCount = 2
    Unloadable = {2}
    Turns = {t1, t2}
    Switches = {s1}
    Thresholds = {1}
    Residency = 1
    Cooldown = 1
    MaxClock = 5
SYMMETRY Symmetry
INVARIANTS
    UnloadsAreSafe
    WorkIsOwned
    LeasesAreJoint
    IdleIsConfirmed
PROPERTIES
    AutomationObeys
