SPECIFICATION Spec
CONSTANTS
    MaxMessages = 1
    MaxText = 1
    MaxBackends = 1
    NativeLoop = TRUE
    MaxDowns = 1
\* Bounds reached, calls done, application down for good: it really stops.
CHECK_DEADLOCK FALSE
PROPERTY PartialAnswerIsRecovered
