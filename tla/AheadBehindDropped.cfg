SPECIFICATION Spec
CONSTANTS
    Keys = {k1, k2}
    Requests = {r1, r2, r3}
    MaxCache = 1
PROPERTIES NoWaiterDropped
CHECK_DEADLOCK FALSE
