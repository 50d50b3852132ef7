CONSTANTS
    PullRequests <- MCPullRequests
    Wildcards <- MCWildcards
    Above <- MCAbove
    Undefined = Undefined
    NoRule = NoRule
    NoEdit = NoEdit
    InvalidEdit = InvalidEdit
    Slots = {s1}
    Ops = {"intercept", "forward", "drop"}
    Actions <- Merges
    ActionIds = {"a1"}
    Held <- BothMerges
    Words <- Corrections
    Edits = {NoEdit}
    ModesUsed = {"learned"}
    Scopes <- Unscoped
    Rewrites <- Unrewritten
    Unreliable = {"rules", "queue", "history"}
    PidMayRepeat = FALSE
    FaultyRequests = {2, 3}
    MaxRequests = 3
    MaxRestarts = 1
SPECIFICATION Spec
INVARIANTS TypeOK AuditMatchesStore HeldActionIsPendingOrTaken OneVerdictPerItem
    ConfirmedRuleStaysActive LearnedDenySticks AllowTracesToApproval
PROPERTY ImplementsPolicyLearning
