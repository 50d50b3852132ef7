------------------------ MODULE RequirementGovernance ------------------------
(***************************************************************************)
(* From evidence to remediation: drafts extracted from ingested evidence   *)
(* are staged in the requirement store, operators decide and amend them,   *)
(* reports are graded against them, violations open governance cases, and  *)
(* remediation issues are filed in an external tracker.  Reports may run   *)
(* at the same time, and each await of the code ends a step; the case      *)
(* store and the tracker may fail, with or without having done the work.   *)
(***************************************************************************)
EXTENDS RequirementStore, RequirementChecker, EvidenceIngest, Functions

CONSTANTS Folders, IngestOptions,      \* what `ingest` is run on
          Subjects,                    \* the subjects that are graded
          OperatorDrafts, Amendments,  \* what operators enter
          Approvers,
          OwnerPanels,                 \* the owners the workstream panel may require
          MaxVersions, MaxCases, MaxReports, MaxRequests, MaxFailures

ASSUME GovernanceAssumptions ==
    /\ {MaxVersions, MaxCases, MaxReports, MaxRequests, MaxFailures} \subseteq Nat
    /\ \A changes \in Amendments : DOMAIN changes \subseteq RequirementAmendment
    /\ \A draft \in OperatorDrafts : draft.createdBy \in {"operator", "import"}
    /\ \A folder \in Folders :
          /\ folder.files \in Seq(Range(folder.files))
          /\ \A file \in Range(folder.files) : file.raw.items \in Seq(Range(file.raw.items))
    /\ FixtureBundle.chunks \in Seq(Range(FixtureBundle.chunks))
    /\ \A panel \in OwnerPanels : panel \in Seq(Range(panel))

VARIABLES log,       \* the requirement store
          staging,   \* drafts still to be stored
          cases,     \* the governance cases, in the order they were opened
          grader,    \* the state of each report, in the order they start
          filings,   \* the remediations requested, the last one possibly running
          issues,    \* the tracker: the issues it holds, in the order it created them
          failures   \* how often the case store or the tracker failed

vars == <<log, staging, cases, grader, filings, issues, failures>>

\* Bounds what is asked of the system as a whole: calls of the store, reports and filings.
MayRequest ==
    Len(log) + Len(filings) + Cardinality({g \in 1..MaxReports : grader[g].pc # "idle"}) < MaxRequests

(* --- evidence and drafts --- *)

\* What the resolver of quotes may answer for a chunk: its text, another one, or nothing.
Resolutions(b) ==
    [DOMAIN b.chunks -> {"exact", "edited", "unresolved"}]

Resolved(b, answers) ==
    [k \in DOMAIN b.chunks |->
        CASE answers[k] = "exact" -> b.chunks[k].hash
          [] answers[k] = "edited" -> b.chunks[k].hash \cup {"must"}
          [] answers[k] = "unresolved" -> {}]

\* The drafts that some folder's bundle yields; a candidate needs a goal and a deal.
Drafted ==
    LET bundles == {IngestFolder(folder, opts) : folder \in Folders, opts \in IngestOptions} \ {None}
    IN  UNION {{Proposals(b, Resolved(b, answers)) : answers \in Resolutions(b)} :
                  b \in {c \in bundles : c.deal # None /\ c.goal # None}}

Propose ==
    /\ staging = <<>>
    /\ staging' \in Drafted \ {<<>>}
    /\ UNCHANGED <<log, cases, grader, filings, issues, failures>>

\* The injected generator never repeats an id.
NewId == Len(log) + 1

\* Each candidate is stored on its own; one the store refuses is reported and the next is tried.
StageProposal ==
    /\ staging # <<>> /\ Len(log) < MaxVersions /\ MayRequest
    /\ staging' = Tail(staging)
    /\ \/ log' = Create(log, Head(staging), NewId) /\ UNCHANGED failures
       \/ failures < MaxFailures /\ failures' = failures + 1 /\ UNCHANGED log
    /\ UNCHANGED <<cases, grader, filings, issues>>

\* A call that is refused changes nothing.
Store(next) ==
    /\ Len(log) < MaxVersions /\ MayRequest /\ next # log
    /\ log' = next
    /\ UNCHANGED <<staging, cases, grader, filings, issues, failures>>

CreateRequirement == \E draft \in OperatorDrafts : Store(Create(log, draft, NewId))

Decide ==
    \E i \in DOMAIN log : IsCurrent(log, i) /\
        \/ \E by \in Approvers : Store(Approve(log, i, by))
        \/ Store(Reject(log, i))
        \/ Store(Retire(log, i))
        \/ \E changes \in Amendments : Store(Amend(log, i, changes))

(* --- reports and cases --- *)

NotGrading == [pc |-> "idle", seen |-> [d \in {} |-> 0], requirements |-> <<>>,
               report |-> <<>>, todo |-> <<>>, index |-> {}]

Grading(g) == grader[g].pc = "grading"

\* A mistake: a corrected case no longer counts as live.
UncorrectedStatuses == {"open", "enforced", "reopened"}

ActiveCaseStatuses == {"open", "corrected", "enforced", "reopened"}

\* The live cases of a deal by the statement they cite, the first one for each.
LiveCases(deal) ==
    LET Live(i) == cases[i].deal = deal /\ cases[i].status \in ActiveCaseStatuses
    IN  {[deal |-> deal, text |-> cases[i].missedRequirement, case |-> cases[i].id] :
            i \in {k \in DOMAIN cases : Live(k) /\ \A j \in 1..(k - 1) :
                      Live(j) => cases[j].missedRequirement # cases[k].missedRequirement}}

\* A report is graded at once against the requirements handed to it; reports start in order.
StartReport(g) ==
    /\ MayRequest
    /\ grader[g].pc = "idle" /\ \A h \in 1..(g - 1) : grader[h].pc # "idle"
    /\ \E subject \in Subjects :
          LET findings == CaseOpeningFindings(Currents(log), subject)
          IN  /\ findings # <<>>
              /\ grader' = [grader EXCEPT ![g] =
                    [NotGrading EXCEPT !.pc = "grading", !.requirements = Currents(log),
                                       !.report = findings, !.todo = findings]]
    /\ UNCHANGED <<log, staging, cases, filings, issues, failures>>

\* The requirement a report's next finding is about, as it was handed to the report.
Concerned(g) ==
    CHOOSE r \in Range(grader[g].requirements) : r.id = Head(grader[g].todo).requirementId

\* The first finding of a deal reads that deal's cases; they are not read again.
ReadLiveCases(g) ==
    /\ Grading(g) /\ grader[g].todo # <<>>
    /\ LET deal == Concerned(g).deal
       IN  /\ deal \notin DOMAIN grader[g].seen
           /\ grader' = [grader EXCEPT
                 ![g].seen = [d \in DOMAIN @ \cup {deal} |-> IF d = deal THEN Len(cases) ELSE @[d]],
                 ![g].index = @ \cup LiveCases(deal)]
    /\ UNCHANGED <<log, staging, cases, filings, issues, failures>>

Category ==
    [missing |-> "requirement-missing", contradicted |-> "requirement-contradicted",
     unsupported_on_track_claim |-> "unsupported-on-track-claim",
     missing_owner_or_workstream |-> "missing-owner-or-workstream"]

\* A mistake: the case takes the id of the last one.
CaseWithTakenId(g, r, finding) ==
    [id |-> Len(cases), deal |-> r.deal, requirement |-> r.id, missedRequirement |-> r.text,
     evidenceIds |-> r.evidenceRefs, category |-> Category[finding.status], status |-> "open",
     run |-> g, seen |-> grader[g].seen[r.deal]]

\* The case of a finding; seen is how many cases there were when its report read them.
GovernanceCaseForFinding(g, r, finding) ==
    [id |-> Len(cases) + 1, deal |-> r.deal, requirement |-> r.id, missedRequirement |-> r.text,
     evidenceIds |-> r.evidenceRefs, category |-> Category[finding.status], status |-> "open",
     run |-> g, seen |-> grader[g].seen[r.deal]]

\* A mistake: any live case of the deal counts.
KnownDeal(g, r) == \E entry \in grader[g].index : entry.deal = r.deal

Known(g, r) == \E entry \in grader[g].index : entry.deal = r.deal /\ entry.text = r.text

\* A statement that has a live case, as far as the report knows, gets no second one.
Dedupe(g) ==
    /\ Grading(g) /\ grader[g].todo # <<>>
    /\ Concerned(g).deal \in DOMAIN grader[g].seen
    /\ Known(g, Concerned(g))
    /\ grader' = [grader EXCEPT ![g].todo = Tail(@)]
    /\ UNCHANGED <<log, staging, cases, filings, issues, failures>>

\* What a report knows once it has opened the case of a requirement.
Recorded(g, r) == grader[g].index \cup {[deal |-> r.deal, text |-> r.text, case |-> Len(cases) + 1]}

\* The case store answers, or fails with or without the case; a failure ends the report.
OpenCase(g) ==
    /\ Grading(g) /\ grader[g].todo # <<>> /\ Len(cases) < MaxCases
    /\ LET r == Concerned(g)
           case == GovernanceCaseForFinding(g, r, Head(grader[g].todo))
       IN  /\ r.deal \in DOMAIN grader[g].seen
           /\ ~Known(g, r)
           /\ \/ /\ cases' = Append(cases, case)
                 /\ grader' = [grader EXCEPT ![g].todo = Tail(@), ![g].index = Recorded(g, r)]
                 /\ UNCHANGED failures
              \/ /\ failures < MaxFailures /\ failures' = failures + 1
                 /\ cases' \in {cases, Append(cases, case)}
                 /\ grader' = [grader EXCEPT ![g] = [NotGrading EXCEPT !.pc = "failed"]]
    /\ UNCHANGED <<log, staging, filings, issues>>

AnswerReport(g) ==
    /\ Grading(g) /\ grader[g].todo = <<>>
    /\ grader' = [grader EXCEPT ![g] = [NotGrading EXCEPT !.pc = "answered"]]
    /\ UNCHANGED <<log, staging, cases, filings, issues, failures>>

CorrectCase ==
    /\ \E i \in DOMAIN cases :
          cases[i].status = "open" /\ cases' = [cases EXCEPT ![i].status = "corrected"]
    /\ UNCHANGED <<log, staging, grader, filings, issues, failures>>

(* --- remediation --- *)

\* A mistake: a role that the panel names twice gets two issues.
AllRoles(roles) == [n \in DOMAIN roles |-> roles[n]]

\* The owners of the panel and the accountable one, each role once, in the order given.
DedupeRoles(roles) ==
    Selected(roles, {k \in DOMAIN roles : \A j \in 1..(k - 1) : roles[j] # roles[k]})

Qualifies(r) == r.status = "active" /\ r.severity = "hard"

Filing == filings[Len(filings)]
IsFiling == filings # <<>> /\ Filing.pc = "filing"

\* The adapter an environment yields, None when it is refused: dry-run unless live is asked for.
AdapterFromEnv(env) ==
    IF ~env.teamId THEN None
    ELSE IF ~env.live THEN "dry-run"
    ELSE IF env.apiKey THEN "live" ELSE None

AdapterModes == {AdapterFromEnv(env) : env \in [teamId : BOOLEAN, live : BOOLEAN, apiKey : BOOLEAN]} \ {None}

StartFiling ==
    /\ ~IsFiling /\ MayRequest
    /\ \E case \in Range(cases), r \in Range(Currents(log)), panel \in OwnerPanels, mode \in AdapterModes :
          /\ r.id = case.requirement /\ Qualifies(r)
          /\ filings' = Append(filings, [pc |-> "filing", mode |-> mode, case |-> case.id, requirement |-> r,
                                         owners |-> DedupeRoles(panel \o <<r.ownerRole>>), done |-> 0])
    /\ UNCHANGED <<log, staging, cases, grader, issues, failures>>

NextIssue ==
    [filing |-> Len(filings), requirement |-> Filing.requirement.id, case |-> Filing.case,
     owner |-> Filing.owners[Filing.done + 1],
     accountable |-> Filing.owners[Filing.done + 1] = Filing.requirement.ownerRole]

\* A call of the tracker: an issue and its answer, an error and no issue, or a time-out or an
\* unreadable answer after the issue was made.
HttpOutcomes == {"created", "refused", "unanswered"}

TrackerAfter(outcome) == IF outcome = "refused" THEN issues ELSE Append(issues, NextIssue)

\* In dry-run mode an issue is only printed.  In live mode an error ends the filing, and the
\* results so far are lost.
CreateIssue ==
    /\ IsFiling /\ Filing.done < Len(Filing.owners)
    /\ IF Filing.mode = "dry-run"
       THEN /\ filings' = [filings EXCEPT ![Len(filings)].done = @ + 1]
            /\ UNCHANGED <<issues, failures>>
       ELSE \E outcome \in HttpOutcomes :
              /\ issues' = TrackerAfter(outcome)
              /\ IF outcome = "created"
                 THEN /\ filings' = [filings EXCEPT ![Len(filings)].done = @ + 1]
                      /\ UNCHANGED failures
                 ELSE /\ failures < MaxFailures /\ failures' = failures + 1
                      /\ filings' = [filings EXCEPT ![Len(filings)].pc = "failed"]
    /\ UNCHANGED <<log, staging, cases, grader>>

FilingDone ==
    /\ IsFiling /\ Filing.done = Len(Filing.owners)
    /\ filings' = [filings EXCEPT ![Len(filings)].pc = "answered"]
    /\ UNCHANGED <<log, staging, cases, grader, issues, failures>>

Init ==
    /\ log = <<>> /\ staging = <<>> /\ cases = <<>> /\ filings = <<>> /\ issues = <<>>
    /\ grader = [g \in 1..MaxReports |-> NotGrading]
    /\ failures = 0

Report(g) ==
    StartReport(g) \/ ReadLiveCases(g) \/ Dedupe(g) \/ OpenCase(g) \/ AnswerReport(g)

Next ==
    \/ Propose \/ StageProposal \/ CreateRequirement \/ Decide
    \/ \E g \in 1..MaxReports : Report(g)
    \/ CorrectCase \/ StartFiling \/ CreateIssue \/ FilingDone

Spec == Init /\ [][Next]_vars

(* --- properties --- *)

TypeOK ==
    /\ \A i \in DOMAIN log : log[i].status \in {"proposed", "active", "rejected", "retired"}
    /\ \A i \in DOMAIN cases : cases[i].id = i /\ cases[i].status \in {"open", "corrected"}
    /\ DOMAIN grader = 1..MaxReports
    /\ \A g \in DOMAIN grader : grader[g].pc \in {"idle", "grading", "failed", "answered"}
    /\ failures \in 0..MaxFailures
    /\ \A n \in DOMAIN issues : issues[n].filing \in DOMAIN filings

\* A statement gets a second live case on its deal only from a report that read the deal's
\* cases before the first one was there: reports that do not overlap never open a duplicate,
\* whatever was amended, corrected, failed or retried in between (openCasesFromReport's dedup).
DuplicateCasesOverlap ==
    \A i, j \in DOMAIN cases :
        /\ i < j
        /\ cases[i].deal = cases[j].deal
        /\ cases[i].missedRequirement = cases[j].missedRequirement
        => cases[i].run # cases[j].run /\ cases[j].seen < i

\* Every case is about a requirement that some operator approved, and cites the words it had in
\* a version that was active and hard, even when it was amended, retired or read long before.
CasesCiteAnActiveVersion ==
    \A i \in DOMAIN cases : \E v \in Range(log) :
        /\ v.id = cases[i].requirement /\ v.deal = cases[i].deal
        /\ v.text = cases[i].missedRequirement
        /\ v.status = "active" /\ v.severity = "hard" /\ v.approvedBy \in Approvers

Covered(g, finding) ==
    \E r \in Range(grader[g].requirements), i \in DOMAIN cases :
        /\ r.id = finding.requirementId
        /\ cases[i].deal = r.deal /\ cases[i].missedRequirement = r.text

\* A report that answers leaves no violation behind: each case-opening finding has a case, opened
\* by it or found by it, with the words the requirement had when the report was graded.
AnsweredReportsAreCovered ==
    [][\A g \in 1..MaxReports :
        grader[g].pc = "grading" /\ grader'[g].pc = "answered" =>
            \A n \in DOMAIN grader[g].report : Covered(g, grader[g].report[n])]_vars

\* What a proposal says, its source says: the first version of a requirement drafted from
\* evidence is the exact text of a passage of a file it cites (the resolver's quotes are checked
\* against the hashes of the bundle), and it states an obligation.
ProposalsQuoteTheirSource ==
    \A i \in DOMAIN log :
        log[i].createdBy = "proposal" /\ (\A j \in 1..(i - 1) : log[j].id # log[i].id) =>
            \/ \E folder \in Folders : \E f \in Range(folder.files) :
                  /\ log[i].evidenceRefs = {f.path} /\ log[i].text \in Range(Load(f))
                  /\ log[i].text \cap (HardModals \cup SoftModals) # {}
            \/ \E c \in Range(FixtureBundle.chunks) :
                  log[i].evidenceRefs = {c.sourceId} /\ log[i].text = c.hash

Filed(f) == Selected(issues, {n \in DOMAIN issues : issues[n].filing = f})

\* A filing, however it ended, left the issues of the first owners of its list in the tracker, one
\* for each, all of them when it answered in live mode and none in dry-run mode; the list names the
\* accountable owner exactly once.  So what a retry can duplicate is a prefix, and nothing else.
FilingsArePrefixes ==
    \A f \in DOMAIN filings :
        LET filing == filings[f]
            filed == [n \in DOMAIN Filed(f) |-> Filed(f)[n].owner]
        IN  /\ filed = SubSeq(filing.owners, 1, Len(filed))
            /\ Cardinality(Range(filing.owners)) = Len(filing.owners)
            /\ Cardinality({n \in DOMAIN filing.owners :
                              filing.owners[n] = filing.requirement.ownerRole}) = 1
            /\ filing.mode = "dry-run" => filed = <<>>
            /\ filing.mode = "live" => Len(filed) \in filing.done..(filing.done + 1)
            /\ filing.mode = "live" /\ filing.pc = "answered" => Len(filed) = Len(filing.owners)

\* The life each requirement has led, read off the store's log.
Life ==
    {[id |-> log[i].id, status |-> log[i].status, approver |-> log[i].approvedBy] :
        i \in {k \in DOMAIN log : IsCurrent(log, k)}}

Lifecycle == INSTANCE RequirementLifecycle WITH life <- Life, Ids <- 1..MaxVersions

\* Whatever is staged, entered, amended and decided, in any order, a requirement is proposed once,
\* decided once, and keeps the approver of that decision (the store implements the life cycle).
RefinesLifecycle == Lifecycle!Spec
===============================================================================
