CONSTANTS
    None = None
    InvalidJson = InvalidJson
    Malformed = Malformed
    Torn = Torn
    Requirements <- MCRequirements
    RequirementWords <- MCRequirementWords
    CriterionRank <- MCCriterionRank
    Outputs <- MCOutputs
    Deals = {acme}
    Transcripts = {call}
    Keys = {TRUE, FALSE}
    MaxRequests = 2
    MaxRegistrations = 1
    MaxFailures = 1
SPECIFICATION Spec
INVARIANTS TypeOK EnforcementsAreGated ReturnedCallsReplay TableShowsTheCorrection OneOutcomePerRequest
PROPERTIES NoSendAfterEnforcement CallsEndOrAwaitTheModel
CHECK_DEADLOCK FALSE
