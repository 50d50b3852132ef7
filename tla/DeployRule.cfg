CONSTANTS
    PullRequests <- MCPullRequests
    Wildcards <- MCWildcards
    Actions <- DeployActions
    Atoms <- MCAtoms
    Exceptions <- MCExceptions
    NoRule = NoRule
    RuleIds = {r1, r2}
    Corrections = {c1}
SPECIFICATION Spec
PROPERTY DeployRuleGovernsDeploys
