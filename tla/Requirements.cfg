SPECIFICATION Spec
CONSTANTS
    None = None
    NoText = {}
    NoApprover = NoApprover
    Approvers = {vp}
    Alike <- MCAlike
    NameWords <- MCNameWords
    FixtureBundle <- MCFixtureBundle
    Folders <- MCFolders
    IngestOptions <- MCIngestOptions
    Subjects <- MCSubjects
    OperatorDrafts <- MCOperatorDrafts
    Amendments <- MCAmendments
    OwnerPanels <- MCOwnerPanels
    MaxVersions = 4
    MaxCases = 2
    MaxReports = 2
    MaxRequests = 6
    MaxFailures = 1
INVARIANTS
    TypeOK
    DuplicateCasesOverlap
    CasesCiteAnActiveVersion
    ProposalsQuoteTheirSource
    FilingsArePrefixes
PROPERTIES
    AnsweredReportsAreCovered
    RefinesLifecycle
CHECK_DEADLOCK FALSE
