SPECIFICATION FairSpec
CONSTANTS
    Keys = {k1, k2, k3}
    Requests = {r1, r2, r3, r4}
    MaxCache = 2
INVARIANTS TypeOK OneLookup NoOrphanList NoLookupOfCachedKey AnsweredAtMostOnce
PROPERTIES SilentAfterCancel EveryListIsServed
CHECK_DEADLOCK FALSE
