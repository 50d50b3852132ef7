CONSTANTS
    PullRequests <- MCPullRequests
    Wildcards <- MCWildcards
    Above <- MCAbove
    Undefined = Undefined
    NoRule = NoRule
    NoEdit = NoEdit
    InvalidEdit = InvalidEdit
    Slots = {s1, s2}
    Ops = {"intercept", "forward", "drop"}
    Actions <- Captures
    ActionIds = {"a1"}
    Held <- OnePush
    Words <- NeverThis
    Edits = {NoEdit}
    ModesUsed = {"learned"}
    Scopes <- Unscoped
    Rewrites <- OneRewrite
    Unreliable = {"rules", "queue"}
    PidMayRepeat = TRUE
    FaultyRequests = {2}
    MaxRequests = 2
    MaxRestarts = 1
    Shims = {p1}
    Commands <- MCCommands
SPECIFICATION ShimmedSpec
CHECK_DEADLOCK FALSE
INVARIANTS RunsAreAccountedFor NothingUnaudited
