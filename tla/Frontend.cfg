SPECIFICATION FairSpec
CONSTANTS
    NoName = NoName
    Words = {"foo", "bar", "echo", "get_tool_schema", "invoke_tool", "list_tools"}
    Configs <- StartConfigs
INVARIANTS
    ServesWhole
    WrappersReachTheirBackend
    WaysInAgree
    RoadsAgree
PROPERTIES
    FailureLeavesNone
    StartEnds
\* A start ends: it serves or it has failed.
CHECK_DEADLOCK FALSE
