CONSTANTS
    PullRequests <- MCPullRequests
    Wildcards <- MCWildcards
    Above <- MCAbove
    Undefined = Undefined
    NoRule = NoRule
    NoEdit = NoEdit
    InvalidEdit = InvalidEdit
    Slots = {s1}
    Ops = {"intercept", "drop"}
    Actions <- Merges
    ActionIds = {"a1"}
    Held <- OneMerge
    Words <- SomeCorrections
    Edits = {NoEdit}
    ModesUsed = {"learned"}
    Scopes <- Unscoped
    Rewrites <- Unrewritten
    Unreliable = {}
    PidMayRepeat = FALSE
    FaultyRequests = {}
    MaxRequests = 2
    MaxRestarts = 0
SPECIFICATION Spec
INVARIANT RejectedVerdictCanBeRetried
