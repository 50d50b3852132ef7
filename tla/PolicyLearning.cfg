CONSTANTS
    PullRequests <- MCPullRequests
    Wildcards <- MCWildcards
    Actions <- MCActions
    Atoms <- MCAtoms
    Exceptions <- MCExceptions
    NoRule = NoRule
    RuleIds = {r1, r2, r3}
    Corrections = {c1}
SYMMETRY Symmetry
SPECIFICATION Spec
INVARIANTS TypeOK AllowedOnlyByTheMostSpecificRule
PROPERTIES ApprovalOpensItsClassOnly ProposalChangesNoAnswer RejectionRuleIsExact
CHECK_DEADLOCK FALSE
