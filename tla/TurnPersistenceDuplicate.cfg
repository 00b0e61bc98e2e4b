SPECIFICATION Spec
CONSTANTS
    MaxMessages = 2
    MaxText = 2
    MaxBackends = 2
    NativeLoop = FALSE
    MaxDowns = 1
\* Bounds reached, calls done, application down for good: it really stops.
CHECK_DEADLOCK FALSE
INVARIANT AnswerOnce
