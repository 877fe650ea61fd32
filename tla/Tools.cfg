SPECIFICATION ToolsSpec
CONSTANTS
    Limit = 2
    Grace = 1
    Buffer = 2
    MaxFaults = 2
    Addresses = {good, bad}
    Blocked = {bad}
    Pages <- MCPages
    MaxRedirects = 2
    MaxBytes = 6
    MaxText = 2
    Found <- MCFound
    MaxResults = 2
    MaxCalls = 2
INVARIANTS
    SuccessIsVouched
    LauncherIsEnough
    OnlyVettedPeers
    LeavesOutOpenly
PROPERTIES
    CallsComeBack
CHECK_DEADLOCK FALSE
