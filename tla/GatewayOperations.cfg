CONSTANTS
    PullRequests <- MCPullRequests
    Wildcards <- MCWildcards
    Above <- MCAbove
    Undefined = Undefined
    NoRule = NoRule
    NoEdit = NoEdit
    InvalidEdit = InvalidEdit
    Slots = {s1}
    Ops = {"intercept", "repeater", "forward", "drop", "forward-all", "drop-all", "outcome"}
    Actions <- Merges
    ActionIds = {"a1", "a2"}
    Held <- OneMerge
    Words <- SomeCorrections
    Edits <- SomeEdits
    ModesUsed = {"learned", "shadow"}
    Scopes <- SomeScopes
    Rewrites <- SomeRewrites
    Unreliable = {"rules", "queue", "history"}
    PidMayRepeat = FALSE
    FaultyRequests = {2}
    MaxRequests = 2
    MaxRestarts = 0
SPECIFICATION Spec
INVARIANT NothingUnaudited
PROPERTIES EveryRequestAnswered
