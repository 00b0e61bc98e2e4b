SPECIFICATION Spec
CONSTANTS
    \* the main loop
    Tools = {t1}
    MaxMessages = 2
    MaxEvents = 3
    MaxEnds = 2
    MaxCrashes = 2
    MAX_CLI_RECOVERY = 1
    \* the approvals
    Questions = {"q1"}
    ToolUses = {"write", "mcp"}
    EditTools = {"write"}
    PLAN_MODE_DENIED_TOOLS = {"write"}
    DenyRules = {"mcp"}
    AskRules = {}
    AllowRules = {"mcp"}
    InitialMode = "bypassPermissions"
    UserModes = {"default", "plan"}
    MaxRequests = 1
    MaxCalls = 1
    MaxRestarts = 1
    \* the rules
    Chars = {"a", "b"}
    Star = "*"
    MaxPattern = 4
    MaxValue = 3
\* The runner exits and a match ends: it really stops.
CHECK_DEADLOCK FALSE
INVARIANTS
    TypeOK
    MailboxKept
    OutInOrder
    ToolsEndOnce
    ModesAgree
    WildcardCorrect
PROPERTIES
    MessagesSettle
    StopEndsLoop
    RequestsSettle
