CONSTANTS
    PullRequests <- MCPullRequests
    Wildcards <- MCWildcards
    Above <- MCAbove
    Undefined = Undefined
    NoRule = NoRule
    NoEdit = NoEdit
    InvalidEdit = InvalidEdit
    Slots = {s1, s2}
    Ops = {"intercept", "forward", "drop"}
    Actions <- Merges
    ActionIds = {"a1"}
    Held <- BothMerges
    Words <- OneCorrection
    Edits = {NoEdit}
    ModesUsed = {"learned"}
    Scopes <- Unscoped
    Rewrites <- Unrewritten
    Unreliable = {"rules", "queue", "history"}
    PidMayRepeat = FALSE
    FaultyRequests = {}
    MaxRequests = 2
    MaxRestarts = 0
SPECIFICATION Spec
INVARIANT ConfirmedRuleStaysActive
