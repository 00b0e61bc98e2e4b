SPECIFICATION Spec
CONSTANTS
    MaxMessages = 2
    MaxText = 1
    MaxBackends = 2
    NativeLoop = FALSE
    MaxDowns = 2
\* Bounds reached, calls done, application down for good: it really stops.
CHECK_DEADLOCK FALSE
INVARIANTS
    TypeOK
    StoredOnce
    UserBeforeAnswer
    AckedIsKept
PROPERTIES DurableStays SnapshotIsRecovered
