CONSTANTS
    None = None
    Names <- MCNames
    Includes <- MCIncludes
    Length <- MCLength
    Objectives <- MCObjectives
    Ids <- MCIds
    InitialCalls <- MCCalls
    InitialPolicies <- MCPolicies
    Streams <- MCStreams
    LiveAnswers <- MCAnswers
    Templates <- MCTemplates
    FieldsOf <- MCFields
    RequiredOf <- MCRequired
    MaxRuns = 1
    MaxEffort = 3
    MaxCaptures = 2
SPECIFICATION Spec
INVARIANTS TypeOK ShownProposalsAreCurrent MicrophoneIsShown
PROPERTIES RatifiedProposalGoverns
