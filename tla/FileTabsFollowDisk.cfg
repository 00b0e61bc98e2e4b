SPECIFICATION FilesSpec
CONSTANTS
    Files = {a, b}
    MAX_FILE_TABS = 1
    MaxVersion = 2
    MaxMoves = 6
    MaxJobs = 2
CHECK_DEADLOCK FALSE
INVARIANT TabsFollowDisk
