SPECIFICATION Spec
CONSTANTS
    c1 = c1
    c2 = c2
    Callers <- MCCallers
    NoCaller = NoCaller
    OutputCap = 1
    PipeCap = 1
    StdinCap = 1
    MaxLines = 3
    MaxSends = 2
\* The child may exit, the callers may be done: the system really stops.
CHECK_DEADLOCK FALSE
INVARIANTS
    TypeOK
    ShutdownOrder
    StreamOrder
    LossIsCounted
    StopHasOneOwner
PROPERTIES
    NoInputAfterStop
    ImplementsContract
