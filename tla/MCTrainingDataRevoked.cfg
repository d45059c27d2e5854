CONSTANTS
    r1 = r1
    r2 = r2
    Requests <- MCRequests
    MaxRows = 2
    MaxBuilds = 2
    MaxOps = 2
SPECIFICATION Spec

PROPERTIES RevokedStaysRevoked
SYMMETRY MCSymmetry
CHECK_DEADLOCK FALSE
