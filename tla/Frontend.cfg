SPECIFICATION Spec
CONSTANTS
    \* the feed
    MaxText = 2
    MaxUser = 3
    MaxAsks = 2
    MaxFaults = 2
    MaxAll = 4
    \* the files
    Files = {a, b}
    MAX_FILE_TABS = 1
    MaxVersion = 2
    MaxMoves = 4
    MaxJobs = 2
    \* navigation
    Conversations <- Convs
    NoId = "null"
    Absent = "absent"
    MAX_HISTORY_SIZE = 3
    MAX_TABS = 2
    MaxTabIds = 2
    MaxSteps = 4
    \* the connection
    MAX_AUTO_RESTART_ATTEMPTS = 1
    WEBSOCKET_RECONNECT_MAX_ATTEMPTS = 2
    MaxSockets = 3
    MaxUpsets = 2
    \* the pages of messages
    PAGE_SIZE = 1
    MESSAGE_EVICTION_THRESHOLD = 3
    MESSAGE_EVICTION_KEEP = 2
    OldMessages = 3
    MaxStored = 4
    MaxLocal = 1
    MaxReads = 2
\* The user may stop, and the backend fail for good: it really stops.
CHECK_DEADLOCK FALSE
INVARIANTS
    TypeOK
    ShownInOrder
    SentOnce
    ShownIsStored
    EditsKept
    CleanShowsDisk
    HistoryIsABrowsers
    SelectionConsistent
    
PROPERTIES
    StreamingSettles
    ConnectionRestored
