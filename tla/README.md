# A TLA+ model of Liminal Engine

Liminal Engine governs AI agents. Its two halves are a *proxy control plane*
(agents' consequential actions pass through a gateway, operators approve or
reject them, and the verdicts become policy rules) and a *governance loop*
(requirements are drafted from evidence and decided by operators; agents'
reports are graded against them, violations open cases, cases are corrected,
enforced, audited and turned into evals). A desktop app shows both to an
operator. This directory models them. Paths are relative to `src/packages/`
unless they say otherwise.

## Inventory

| Component | State | Operations | Interacts with | What makes it correct |
| --- | --- | --- | --- | --- |
| Intercept gateway (`integrations/intercept-gateway`: gateway, server, runtime, history) | mode, scope, match-replace rules, ledger in memory; traffic history on file | intercept, repeater, forward, drop, forward-all, drop-all, verdict, outcome, mode, scope, match-replace | policy engine, stores, ledger, correction compiler; agents' shims and operators over HTTP | nothing allowed without approval; nothing answered unaudited; a held action is taken once; a confirmed rule stays |
| Policy store, intercept queue (`integrations/policy-store`) | rules, held actions: Maps, or JSON files rewritten as a whole | putRule, updateRule, activeRules; enqueue, pending, remove | gateway | ids unique; no update lost |
| Policy engine (`policy`) | none | decide, decideFromStore, evaluateScope, narrowPolicy | gateway, metrics | the most specific rule decides, the strictest among equals; closed when it fails |
| Correction compiler (`governance/src/compile-correction.ts`) | none | compileCorrection | gateway | a rule governs what the words name, and nothing else |
| Match-replace (`intercept-gateway/src/match-replace.ts`) | none | applyMatchReplaceRules | gateway | rewrites in place, before the decision; a broken rule refuses |
| Shims and classifier (`intercept-gateway/src/shim-*.ts`) | none: a process per command | classify a command, ask, run, report | gateway | nothing consequential runs unanswered |
| Audit ledger (`governance/src/audit-ledger.ts`, `audit-reconstruction.ts`, `policy-audit.ts`, `redact.ts`) | the chain | append, events, fromEvents, verifyChain, reconstruct | every writer; stores that keep copies | alterations show; no raw sensitive data |
| Metrics, policy questions (`metrics.ts`, `policy/src/nl-query.ts`, `escalation-metric.ts`) | none | read | history, rules, ledger | answers rest on events that are there |
| Requirements ingest and proposals (`src/tools/requirements`, `governance/src/propose-requirements.ts`) | files | ingest a folder, extract drafts | evidence, requirement store | a proposal quotes its source |
| Requirement store (`integrations/requirement-store`) | append-only log of versions | create, approve, reject, retire, amend | checker, remediation | legal transitions; the approver stays |
| Requirement checker and cases (`active-requirement-checker.ts`, `requirement-case.ts`, `integrations/governance-case-store`) | cases by id | grade, openCasesFromReport, correct | requirement and case stores | one live case per statement; every violation covered |
| Remediation (`remediation.ts`, `integrations/linear`) | an external tracker | fileRemediationIssues | cases, requirements, Linear | one issue per owner, also after failures |
| Governance loop (`use-cases.ts`, `detect-miss.ts`, `enforce.ts`, `approve-enforce.ts`, `proxy-gate.ts`, `second-pass.ts`; the gate, audit and eval stores) | cases, audit events, gates, eval results | runGovernanceLoop, approveAndEnforce, evaluateDownstreamAction | output sources, stores, HTTP API | what is enforced is gated, whatever fails; what is graded was detected |
| Agent output sources (`integrations/gemini`) | registered inputs, cache files, receipts | getOutput: replay, capture, REST request | the loop, a model | replays what was used; one outcome per request |
| HTTP API (`src/apps/api`) | stores per request | detect, enforce, eval, loop | the loop's functions | answers what the loop would do |
| Eval harness, eval library (`eval-harness`, `eval-library`) | eval results; archived cases | runEvals, tables; add, query, export, import | the loop, files | a shown correction is one |
| Correction pipeline, policy router, signal harness | none | pure functions | contracts | see "Pure components" |
| Desktop app (`src/apps/desktop-demo`) | what is mounted; console, form, voice control | edit calls and policies, propose, ratify, seal; correct; speak | inference proxy, LiveKit, the loop | the screen tells the truth |
| Contracts, substrate, predication, goal alignment, tools, UI | none | parsers, fixtures, presentation | | |

Hard behaviours: JavaScript handlers interleave at every `await`, and the file
stores read, compute and rename with nothing to stop another handler in
between; every step of a verdict may fail after the item has left the queue;
the process may die between any two steps, and the ledger dies with it while
the files stay; ids start again after a restart; rules learned in any order
compete; copies of the ledger are kept by others. In the governance loop,
reports and calls run together over stores that fail between two writes, an
external tracker may have done what it says has failed, a model answers late,
twice or never, and retries start over. In the app, answers arrive on screens
that have changed or gone. `PROJECT.json` lists each hazard at its line, with
the properties that would catch it.

## Modules

The gateway and learning:

* `PolicyEngine`: the decision functions, as operators. An action is a record
  of tool, action, target and the structured fields it carries; a rule adds a
  verdict, a status, a target pattern and at most one condition. A target is
  taken over into a rule as the agent wrote it, and each `*` in it is then a
  wildcard: the constant `Wildcards` says, for the texts that hold one, what they
  match. The sort of
  `bestMatchingRule` is a relation, `Outranks`; its last three keys (version,
  time, id) only choose the rule that is cited, so a `CHOOSE` stands for them.
* `CorrectionCompiler`: an atom of a correction is the set of phrases the
  compiler finds in it; the templates, the inferred scope and the verdict
  follow. `SameApprovedClass` says what an approval opens: the targets that fit
  an approved one with a `*` in it, too.
* `PolicyLearning` (extends both): the abstract specification of learning. Its
  state is the rule base, and one step approves, proposes, activates or
  narrows. It is exact for the in-memory store, whose operations are atomic.
* `InterceptGateway` (extends `CorrectionCompiler`): the program. `slot` holds
  the handlers in flight; `pc` names the continuation a handler waits for. A
  step is a continuation up to its next `await`, or the effect of one file
  operation: reading (`...Read`, `ReadRules`) copies the file into the handler,
  writing (`...Write`) renames what was computed from that copy over the file.
  A file in `Unreliable` may fail at either, and the code's `catch` blocks
  decide what follows. `Restart` kills the process: files stay, handlers,
  settings and ledger do not. `archive`, `confirmed` and `taken` observe what
  the code does not remember: sealed events of dead processes, rules operators
  were told are active, items taken off the queue.
* `MatchReplace`: the rewriting rules behind the gateway's `rewrite` setting,
  which are stored as they were posted: one without a match matches an argument
  that is not there, and writes it. The paths of arguments nest (`Above`).
  The instances of `InterceptGateway` take their rewritings from it.
* `ShimmedGateway` (extends `InterceptGateway`): the shims in front of `gh`,
  `git` and `deploy`, one process per command, composed with the gateway. An
  answer may be lost while the gateway goes on; the gateway may die while a shim
  waits or its command runs; the outcome may not arrive. An action's id comes
  from the environment, so commands may share it; outcomes go by the id.

Requirements:

* `RequirementLifecycle`: the abstract specification of a requirement's life.
* `RequirementStore`: the store's operations on its log of versions.
* `EvidenceIngest`: a folder becomes a bundle or an error, a bundle becomes
  drafts. A file is a sequence of items, a text the set of its words.
* `RequirementChecker`: grading; a text is a set of words, and `Alike` says
  which different words the code takes for one.
* `RequirementGovernance` (extends the three): proposals staged one by one,
  operators' decisions and amendments, reports that interleave at the awaits of
  `openCasesFromReport`, filings of issues. `seen` and `run` in a case observe
  what its report knew.

The loop:

* `EvalHarness`: the Fail to Pass table and rule health.
* `GovernanceApi` (extends it): what the phases of the loop compute, and what
  the four POST routes answer for a body.
* `EnforcementLoop` (extends it): runs of the loop, detections, Approve +
  Enforce and evaluations as calls that interleave at their awaits, over stores
  that fail, the cached source with its files (a file is emptied before it is
  written) and the REST source with its timer and receipts; `Crash` empties
  what is in memory. `disturbed` observes the files that two calls captured at
  once.

The app:

* `InferenceProxy`: which policy governs a captured call, what the gate
  answers, which policies the proposer suggests.
* `DesktopApp` (extends it): the mounted surface, the console, the correction
  form, the voice control, and the awaits that outlive them. A component that is
  unmounted loses its state and its awaits go on without it.

Pure components, as operators: `GatewayReadings` and `AuditReadings` (what
operators read off history and ledger), `SignalHarness`, `PolicyRouter`,
`CorrectionPipeline`, `EvalLibrary`.

The ledger: `AuditLedger` is the chain, one stored copy, and what may happen to
the copy (the failure model of `docs/technical/hash-chained-audit-ledger.md`).
The hash is ideal: it is the pair of what is hashed. A payload tells its case,
what it says of the status, and whether a snapshot shows sensitive data as it is,
which an altered copy may do. The alterations are not code of the repository;
they are modelled from what the document lists.

`...Proofs` hold the theorems, those about `ShimmedGateway` at the end of
`InterceptGatewayProofs` and those about pure components at the end of the
others; `PolicyProofs` holds the lemmas on rules and decisions
that two of them share, `DataLemmas` those on naturals, on recursive functions
and on selections. `Selection` has the one operator that stands for the code's
`filter`: `Selected` is a recursive function, so that something can be proved of
what it keeps. `MC...` are the small worlds for TLC.

Operators commented "Mutant" or "A mistake" change one definition the way a
plausible bug would. Every property of a passing run is violated when its
mutant replaces the definition it mutates (`PROJECT.json`, "mutants"). No
specification uses them.

## Runs

| Run | Question | Result |
| --- | --- | --- |
| `policy_learning` | Does every history of the rule base give the answers that learning promises? | holds |
| `gateway_serial` | One request at a time, any file failing and a crash anywhere: do rules, queue, history, ledger and what operators were told agree, and does the file implement `PolicyLearning`? | holds |
| `gateway_operations` | The same over all operations and settings; is every request answered? | holds |
| `shimmed_gateway` | Shims, operators and two requests interleaved, answers lost, a crash, a process id that repeats: what has run, was it allowed, approved and audited? | holds |
| `requirements` | Evidence, decisions, two reports at once and filings, over stores that fail: are cases, proposals and issues traceable, and does the store implement the life cycle? | holds |
| `enforcement` | Calls interleaved over failing stores and sources, with retries and a crash: is what is enforced gated, is what is graded what was detected, does every call end? | holds |
| `desktop_app` | Three surfaces and answers that arrive late: does the screen tell the truth? | holds |
| `audit_ledger` | What does `verifyChain` find, after any alterations of a copy? | everything but a change of the last event |
| `lost_rule` | Two requests interleaved: does a confirmed rule stay? | violated |
| `verdict_retry` | Can a verdict be sent again after the compiler rejected its words? | violated |
| `deploy_rule` | Does a correction about deployments govern deployments? | violated |
| `ledger_rehash` | Is an edit with a new hash always found? | violated, for the last event |

The properties, each stated with the definition:

* `AllowTracesToApproval`: outside shadow mode and for actions in scope, no
  agent is told to go ahead unless an operator approved an action of the same
  class and the ledger says so. The class of an action whose target holds a `*`
  is every target that fits. It holds with lost updates too, because a lost
  update removes rules and never invents one.
* `RunsAreAccountedFor`: the same of the commands that shims have run, whatever
  answers were lost. It speaks of the action as the gateway judged it: a
  rewritten action may differ from the command, by design of the code. And an
  entry of the history has an outcome only if an action of its id was allowed.
* `NothingUnaudited`: every answer and every entry of the traffic history has
  its verdict sealed.
* `AuditMatchesStore`, `HeldActionIsPendingOrTaken`, `OneVerdictPerItem`,
  `ConfirmedRuleStaysActive`, `LearnedDenySticks`: agreement of the files, the
  ledger and what people were told. They need one request at a time:
  `lost_rule` shows why. What two verdicts on one item, two items held at once,
  or a correction confirmed during a decision do to each other is therefore in
  the model (`Slots`) and in no property; the hazards say so.
* `ImplementsPolicyLearning`: under one request at a time, each change of the
  rules file is one step of `PolicyLearning`, crashes and failures included.
  The mapping forgets which correction a rule comes from. It is written so that
  TLC looks for an abstract step only where the file changes, which is
  `RuleBase!Spec` without the stutters.
* `AllowedOnlyByTheMostSpecificRule`, `ApprovalOpensItsClassOnly`,
  `ProposalChangesNoAnswer`, `RejectionRuleIsExact`: the learning loop.
* `RefinesLifecycle`: the log of versions implements `RequirementLifecycle`; a
  requirement's life is read off the log. `CasesCiteAnActiveVersion`: a case
  quotes words that an approved, active, hard version once had, though reports
  hold requirements that were amended or retired since.
* `DuplicateCasesOverlap`, `AnsweredReportsAreCovered`: two live cases for one
  statement come from reports that overlap and from nothing else; a report that
  answers has a case for each of its violations.
* `ProposalsQuoteTheirSource`: a draft is the exact text of a passage of a file
  it cites, though the resolver reads the file again.
* `FilingsArePrefixes`: whatever the tracker did, a filing left the issues of
  the first owners of its list, so a retry duplicates these and no others.
* `EnforcementsAreGated`: Approve + Enforce never leaves an enforcement without
  a gate; the loop does so only between its two writes, or when it failed there.
  `NoSendAfterEnforcement`: later evaluations are denied, also failing ones.
* `ReturnedCallsReplay`: a loop on the cached source has left in the stores
  exactly what the API computes from the two outputs in the cache, though it
  asks for the first one twice. `TableShowsTheCorrection`: the eval table says
  "improved" for a second pass that honoured the requirement only, also when
  loops failed half way. Both except files that two calls captured at once,
  where they do not hold.
* `OneOutcomePerRequest`: every request of the REST source has one outcome.
* `ShownProposalsAreCurrent`, `RatifiedProposalGoverns`, `MicrophoneIsShown`:
  proposals on screen fit what is on screen unless their run was overtaken; a
  ratified one governs at once; a live microphone is shown, but for two windows
  in which the screen was left.
* `AlterationsShowBeforeTheTail`, `ReconstructionIsAPastState`,
  `UnalteredLedgerVerifies`, `AppendDoesNotHeal`: the ledger. Its `TypeOK` says
  that the ledger is what was exported or loaded last, followed by events without
  raw sensitive data; a copy may be altered to hold some, which loading keeps.
* `EveryRequestAnswered`, `CallsEndOrAwaitTheModel`: liveness, see below.

### Pure components

Functions without state are checked by assumptions that TLC evaluates over every
small input before it starts a run: `MCSignalHarness` (extended by
`MCRequirementGovernance`), `MCGovernanceArtifacts` (by `MCEnforcementLoop`) and
`MCReadings` (by `MCShimmedGateway`). They compare the operators with reference
definitions or state what no input can make them do; each is commented in its
module. Some claims are also proved for every input: see the end of "What is
proved". Some record what a reader of the code would not expect:

* `RepeatedIdsReviveExpiredRules`: the router finds rules by id among all of a
  store, so an expired rule with the id of an active one is compiled in its
  place.
* `LatestIsByText`: the eval library takes v0.0.10 for older than v0.0.9.
* `AnAtSignTakesAPlace`: its keys are texts, caseId@version; an id with an @ in
  it may share one with another case, and takes its place.
* `GatesWithoutApproversAreRefused`: an empty list of approvers is not replaced
  by the default ones; only the contract refuses the gate.
* `WorkWithoutACase`: owners are allocated to a hard requirement of which the
  report covers more than 20.5 and less than 35 per cent, without a case.
* `RedactionMissesCopies`, `OnlyCirclesThrow`: redaction reaches one field; a
  document mapped into itself ends the call.
* `RedundantRulesLookUnhealthy`, `SnapshotsAreSummed`, `AnswersIgnoreRelease`:
  two rules that each suffice are both shown as not healthy; an allocation
  recorded twice is spent twice; an action that was let through is still named
  as held.
* `RefusalsNameABrokenRule`: a rewriting rule is stored unchecked, and refuses
  the first action that meets it.

### Bounds

`MaxRequests` requests are accepted in all, in `Slots` slots, and `MaxRestarts`
crashes happen; files fail only during the requests in `FaultyRequests`, the
later ones, so that earlier requests leave something behind. Three requests are
one that teaches, one that interferes or fails and one that is judged by what
was taught; a held action (`Held`) left by an earlier process saves the request
that would have held it. Two slots show every interleaving of two
read-modify-writes of one file, which is all that updates of one file can do to
each other pairwise. The actions are two merges with different review counts,
sent under
one id; `gateway_operations` also posts outcomes for an id that no action has.
`policy_learning` has the merges of a number and of a branch, a forced push
that names no target, one to all tags and one to a tag, and allows three rules,
which is one more than any of its properties compares. `shimmed_gateway` has a
forced push to all branches, held from before, the approval of which opens the
one to a single branch, a plain push, and a rewriting rule in force throughout
(`gateway_operations` changes it) that has a shim's push to all judged as the one
to one.
Chains of four events have a first, a last and two events in between; of the
statuses, two are enough to tell which event was folded last.
`policy_learning` does not check deadlock: rule ids run out.

`requirements`: four versions are a requirement proposed, amended, approved and
amended again, or two requirements that state the same; two cases and two
reports are what a duplicate needs; six requests let an amendment come between
the two. `MaxFailures` is one: a report or a filing that failed is over, and a
second failure meets the same states. `enforcement`: two calls at once show what
calls on one cache file and one case can do to each other, the second being the
retry of the first (a retried approval would be a third call: only the theorem
covers it); the three outputs drop nothing, one requirement, or that one
after another, as only the first is looked at. `desktop_app`: two voice captures
are the one that was left and the one that is shown; one proposer run waits
while three changes (`MaxEffort`) overtake it. `requirements` and `enforcement`
do not check deadlock: their requests run out, and a call may wait for good.

### Fairness

Each slot's steps are weakly fair: the event loop runs every continuation that
is ready, and every file operation succeeds or fails. Nothing is assumed of
clients, operators, settings and crashes. `EveryRequestAnswered` needs no more,
since no handler waits for another. In `EnforcementLoop` each call's own steps
are weakly fair, its timer included; nothing is assumed of the model.
`CallsEndOrAwaitTheModel` therefore says which waits may last for ever: the
cached source sets no timer, and the REST source clears its own when the headers
of the response are there. The other specifications state safety only.

## What is proved

Every theorem holds for any values of the constants that satisfy the named
assumptions of the module; TLC evaluates those assumptions in the runs.

**`InterceptGatewayProofs`**: `AllowsTraceToApprovals`, that is `Spec =>
[]AllowTracesToApproval`, for any number of requests in flight, any actions,
corrections, edits, scopes, rewrites and held items, any file failing at any
access, any number of restarts and process ids that repeat. It assumes
`GatewayAssumptions` (settings are what their names say, bounds are naturals)
and `WildcardsAssumption` (a pattern matches itself, and `PR#*` every target
`PR#<number>`); targets may hold any wildcards.

`AllowTracesToApproval` is not inductive: it speaks of answers, and an answer
rests on a copy of the rules that may be old by then, in a handler whose
request was accepted before. `ApprovalInvariant` says what every copy is worth.
A rule is `Covered` by the approved actions when everything it allows is in the
class of one of them; every rule in the file, in a handler's copy of the file and
among those it still has to store is covered by the approvals the ledger (of this
process or an earlier one) holds. Approvals are never taken back
(`ApprovalsAreKept`, `HandlerFitsMonotonic`), so a copy cannot become worse by
growing old, and a rename that loses an update writes covered rules too. What
remains is local: an approval's rule is covered by the action it approves, which
was sealed two continuations before (`ApprovalRuleIsNarrow`, `SealedApproval`); a
correction's rule allows nothing (`ProposedRuleDoesNotAllow`); the engine allows
only by a rule that says so (`DecideNeedsAnAllowRule`). `OpFits` tells which
operation a continuation can belong to; without it a verdict's continuation could
overwrite an intercept's decision. There is one lemma per action.

`NothingGoesUnaudited` (`NothingUnaudited`) needs no more than that either. A
handler seals its verdict a few continuations before the history and the answer
show it, so `AuditInvariant` gives each continuation what is sealed by then
(`AuditFits`), the entries it has read from the history included, since it will
write them back.

`TypeCorrect` (`TypeOK`) holds for any number of slots as well, though files lose
updates: a rename that loses one still writes a file that was well formed when it
was read, and the id that it adds was not in it then. `TypeInvariant` says so of
each handler's copy (`HandlerTyped`), and that every id anywhere was given by a
process so far (`GivenIds`).

`RunsAreAccounted` and `ShimsAreAudited` are `RunsAreAccountedFor` and
`NothingUnaudited` for `ShimmedSpec`: any number of shims, any commands, answers
and outcomes that are lost, gateways that die while a shim waits or its command
runs, under the same two assumptions. Posting an outcome is the one step of the
composition that takes a slot for something other than a request of the
gateway's own specification; all other steps are the gateway's or leave it alone,
so that `ApprovalInvariant` and `AuditInvariant` carry over. `RunInvariant` adds
what lies between the ledger and a command that runs. An outcome, in the
history or in the copy of it that a handler will write back, was earned by an
`allow` that was sealed for an action of the id (`OutcomesEarned`). A shim waits
for an intercept in
flight, and no two wait for the same one (`Waiting`): without it the end of one
request could answer another's shim. What a shim was told, and what has run,
was sealed and approved then, and both only grow (`RunsGranted`), so that a shim
may act on an answer of a gateway that has died since.

The other six theorems of this module assume `OneRequestAtATime`: any two slots
are the same one, so requests do not overlap; failures and restarts stay, and
where nothing else is said repeated process ids too. `lost_rule` shows that
`ConfirmedRuleStaysActive` is false without it.

* `ConfirmedRulesStay` (`ConfirmedRuleStaysActive`) and `LearnedDeniesStick`
  (`LearnedDenySticks`): `SerialRules` says that a handler about to write the
  rules back holds the file itself, so that a rename cannot lose what was
  confirmed (`RulesFit`), and that an answer which goes ahead was decided with
  every confirmed correction in sight (`DenyFits`). The second needs the
  engine's order of rules: `DecideNeedsAnAllowRule` alone does not say which
  rules the winner beat.
* `HeldActionsStay` (`HeldActionIsPendingOrTaken`): the history is written after
  the queue, by a continuation that has let go of the queue. `HeldInvariant`
  carries the fact across the two writes: an `ask` that is about to be answered
  or entered has its item on the queue or with an operator, or none because the
  queue failed and the gateway closed.
* `ItemsAreJudgedOnce` (`OneVerdictPerItem`), with `~PidMayRepeat`, as a repeated
  process id gives a second item the id of a judged one. An item is drawn, held,
  taken and judged, and never goes back: `ItemInvariant` says at each
  continuation which ids the handler has drawn and which it may still judge, and
  that an id not yet drawn is nowhere in the files.
* `LedgerTellsTheFile` (`AuditMatchesStore`), with `~PidMayRepeat`. `Agreement`:
  the
  last event about each rule of this process is the file's, or a handler has just
  renamed that rule and seals its event next. It needs `SerialRules`, since an
  overwritten rule would make an event wrong afterwards, and `TypeInvariant`,
  since an event tells one rule by its id.
* `FileImplementsLearning`: the gateway implements `PolicyLearning` under the
  mapping of `ImplementsPolicyLearning`, but over all ids (`Learning`), where the
  run needs a bound. `TaughtInvariant` says that what waits to be stored is an
  approval of an action or a proposal from an atom of an operator's words
  (`Taught`), and that a handler about to activate a rule changes a proposal that
  is on file. `WritesAreTaught` then gives the two writes of the file: a rule with
  a new id joins it (`RuleJoins`), or a proposal becomes active
  (`ProposalActivated`); all other steps stutter.

**`PolicyLearningProofs`**: all five properties of `policy_learning`, for any
actions, corrections and exceptions and rule bases of any size, under
`WildcardsAssumption`. The inductive invariant adds to `TypeOK` that every rule
has
the fields of one (`RuleInvariant`), as narrowing copies a rule.
`AllowedIffMostSpecific` shows that the order of `bestMatchingRule` has a best
element in every set of rules, finite or not, and that all best elements agree in
specificity and verdict, so that the `CHOOSE` in `Decide` does not matter.

**`AuditLedgerProofs`**, for any cases, statuses and bounds, chains of any
length and any number of alterations: `AuditLedger` keeps its type invariant
(what append adds to what was exported or loaded is redacted, and without
alterations nothing raw is anywhere), an unaltered ledger verifies, alterations
before
the tail show, appending never heals a broken chain, and what is reconstructed
from a copy that verifies up to a genuine last event is a state that the
lifecycle has been in (`ReconstructionIsSound`). Assumptions:
`LedgerAssumptions` (the bounds are naturals), and the ideal hash, in the
definition of `Hash`.

The inductive invariant is `LedgerInvariant`. "A copy that verifies is a prefix
of the original, up to its last event" is not inductive: a copy may verify,
stop verifying and verify again. What every alteration keeps, verifying or not,
is `IsAltered`: the copy is no longer than the original, and each of its
links, the `prevHash` values, is one of the original's. From it
`SoundCopyDiffersAtItsEndOnly` takes the first event that differs: the link
after it is a hash of that event, and also a link of the original; links of a
sound chain are distinct (`LinksAreDistinct`) and the hash is injective
(`HashIsInjective`), so the event does not differ. A copy whose last event is
genuine too is therefore a prefix of the original, which is all that
`ReconstructionIsAPastState` needs, whatever is folded over it.

**`RequirementGovernanceProofs`**, for any drafts, amendments, subjects, panels
and bounds, under `GovernanceAssumptions`: all of the run's
properties. For `StoreRefinesLifecycle`, `StepsOfTheLog` sorts the
steps by what they do to the log: nothing, a creation under a new id, or a
version on top of a current one whose status changed legally or not at all; each
of these is a step of the life cycle or stutters. For `DuplicatesOverlap`,
`DuplicateCasesOverlap` is not inductive: nothing in it keeps a running report
from opening a case that is there. `GovernanceInv` adds what a report knows of
the cases (`KnowsItsCases`): of a deal it has read, it knows the statement of
every case that was there then and of every case it opened itself.

* `CitationsAreApproved` (`CasesCiteAnActiveVersion`): a report holds versions
  that may be superseded when it opens a case. `CitationInv` says that the log
  keeps what was ever in it, that a version only becomes active with an approver,
  and that a report grades versions of the log, each requirement once
  (`CurrentsAreVersions`), and finds violations in active, hard ones.
* `AnswersAreCovered` (`AnsweredReportsAreCovered`) follows from the same
  invariant and `KnowsItsCases`: a violation that a report passed over was in its
  list of statements, and each of these has a case by then.
* `FilingsLeavePrefixes` (`FilingsArePrefixes`): `FilingInv` relates the issues of
  a filing to its counter, which is one behind where the tracker did what it
  says has failed; the list names each owner once.
* `ProposalsAreQuotes` (`ProposalsQuoteTheirSource`): `QuoteInv` says it of what
  waits to be staged and of the first version of each proposal; amendments add
  versions with other words on top and never a first one.

**`EnforcementLoopProofs`**, for any deals, outputs, number of calls and
failures: every safety property of the run. It assumes `LoopAssumption` and
`MarksAssumption` (bounds are naturals, and the values that mark "none" or "not
valid" are no data), and for the eval table `RankIsInjective` (criteria are
sorted by a total order of finitely many) and `WordsAreFinite`.

For `EnforcementsGated` and `GatedActionsAreDenied`, `LoopInv` says of each
place a call may be at what it has left in the stores by then (`Backed`): an
approval that is about to record its enforcement has its gate, a loop that
grades has both. An evaluation reads the gates in one step, so
`GatedActionsAreDenied` follows from `Backed` for the call that has returned; a
crash takes the gates and the calls together.

* `OutcomesAreRecordedOnce` (`OneOutcomePerRequest`): in `ReceiptsInv`, the
  receipts
  of a call alternate between request and outcome, and their number is odd
  exactly while a request of that call is in flight. A late answer or a
  timer finds the call elsewhere.
* `ReturnedCallsAreReplayed` (`ReturnedCallsReplay`): the loop returns long
  after it
  read its files, and asks for the first one twice. `CacheInv` says that a file
  that is not `disturbed` is captured by one call at a time, and only while it
  is not valid; hence what was valid stays as it is (`CacheKeeps`), and every
  call that has used an output still finds it there (`Reads`). `KeptInv` says
  what each call has left in the stores by then, and that a case is, but for its
  status, what its call would open again (`OpenedBy`). A loop and a detection
  agree with the API since both go on from `Missed` of one output
  (`UsedIsGoingOn`).
* `TablesShowTheCorrection` (`TableShowsTheCorrection`): `EvalsInv` says that the
  evals of a loop are its passes in order, as many as it has graded, and each
  is the grade of what its file holds (`GradedBy`), whatever other loops recorded
  in between or left half done. What remains is about the table: sorting by
  criterion leaves a criterion's results in their order, and sorting by pass
  moves results and loses none, so that the row compares the loop's own two.

**`DesktopAppProofs`**, for any calls, policies, answers, templates and number
of captures, under `DesktopAssumptions` and `ProxyAssumptions`:
`MicrophonesShown`, `ShownProposalsCurrent`, `RatifyingGoverns` and
`TypeCorrect`. `VoiceInv` ties the control to its latest capture and says that
a capture which is neither over nor left is that one; without it a control could
forget a live microphone by starting another capture. `ConsoleInv` gives each
run the calls and policies it was asked about, which are still those on screen
if nothing changed since. `RatifyingGoverns` rests on when a proposal is made:
one to route where no active policy matches a call of its workstream, so that
the ratified policy is the only match; one to hold where the calls are off the
mission, which are denied anyway.

**Pure components**, for every input rather than for small ones. The rules,
events and documents are of any type and number; what is assumed of them is in
each theorem.

* Traffic history (`PolicyLearningProofs`): `RatesRiseWithALateEscalation` says
  that the rate of escalations never rises exactly when all escalations of the
  history come first: the chart tells when agents were asked, and not why.
  `HealthyRulesDecide`, for rules with distinct ids and eval cases, says that a
  healthy row stands for a rule which keeps an action from the operator: the
  engine cites that rule for it, and asks without it (`RuleInTheWayDecides`).
* Rewriting rules (`PolicyLearningProofs`): `RewritingKeepsTheShape`,
  `RefusalsNameABrokenRule` and `RewritingSettles`, for lists of any length,
  under `AboveAssumption` (paths nest). A replacement may be any value but the
  mark for a missing name. Arguments appear only by a rule without a match, and
  are lost only where one puts an object in their place. The last theorem rests
  on `RulesComeToRest`: a rule disturbs no rule that does not match what it
  writes.
* Lives of cases (`AuditLedgerProofs`): `LivesAreToldInOrder`, that a
  reconstruction ends with the current status and tells each change once;
  `InnerGapsShow`, which missing events the snapshots betray: the inner ones,
  unless the next event undid them.
* Eval library (`EnforcementLoopProofs`): `TheLastCaseIsFound`, that loading
  keeps, under each key, the last case of the file, however the file came about
  and whichever ids share a key; `RegistriesSurviveTheirFile`, that writing and
  loading is the
  identity. Router: `RoutedActionsAreInForce`, if no two rules of the workstream
  share an id; `RepeatedIdsReviveExpiredRules` is the example without.
  Corrections: `ApprovedByEveryone` and `StoppedGatesStayStopped`, though roles
  are counted and not compared, and the first stop is searched for again with
  each approval.
* Documents (`RequirementGovernanceProofs`): `FieldsAreWrittenInPlace`, that a
  field reads as what was written and every field apart from it as before;
  `RulesKeepToTheirFields`, that a transform rule of any operation touches its
  source and its target only. A document is a set of paths none of which begins
  another.

## What is only model-checked

* Liveness: `EveryRequestAnswered` and `CallsEndOrAwaitTheModel`. The provers
  reach neither fairness nor `ENABLED`.
* `ImplementsPolicyLearning` as the run states it, with a bound on the ids of
  rules. `FileImplementsLearning` proves the same mapping without the bound.
* The claims about pure components that are not named under "What is proved",
  which TLC evaluates over small inputs: grading, parsing of evidence, drift and
  routing of signals, spending. A list of transform rules as a whole is one of
  them, since a rule in it may end the call; each rule of the list is proved.
* The four runs that show a disagreement: a counterexample is its own proof.

What a recursive definition computes for every input is proved only where an
induction over naturals reaches it (`UpToInduction` in `DataLemmas`, from the
least
element of a set): what `Selected` keeps, in which order, and how many, what a
registry holds after loading, and what a list of rewriting rules makes of an
action.

## Findings

* *Lost updates.* `putRule` and `updateRule` of the file store are not
  serialised; two verdicts at once lose a confirmed rule (`lost_rule`). Queue
  and history are written the same way.
* *Verdicts are not retriable.* `operatorVerdict` takes the item before it
  compiles the words (`verdict_retry`).
* *A rule that matches nothing.* A correction whose words name another subject
  than the action it is given on keeps that action's target (`deploy_rule`).
* *The last event.* The document's table promises more than a chain without an
  anchored tail can keep (`ledger_rehash`).

What the model makes plain, and no document denies:

* *Wildcards come from agents.* `approvalScopeFor` (`gateway.ts:481-499`) takes
  the attempted target over as it is, and `wildcardMatch`
  (`policy-engine.ts:249-254`) reads each `*` in it as any text. The shim
  captures such targets (`shim-classifier.ts:79-83`): approving one forced push
  to `refs/heads/*` lets the forced push of any branch through. `PR#*`, which an
  approval of a numbered pull request becomes, opens `PR#<branch>` too.
* *Outcomes go by the action's id* (`history.ts:95`): a second action with the
  same id, denied as it may be, gets the outcome of the first.
* *Rewriting rules may add arguments*: one posted without a match is stored
  unchecked (`server.ts:93-99`) and compares `undefined` with `undefined`
  (`match-replace.ts:59-60`), so it writes an argument that was not there.
* *Loading trusts its copy*: `fromEvents` (`audit-ledger.ts:128`) neither
  verifies nor redacts.
* *A broken pattern redacts nothing*: a transform rule whose pattern is no
  regular expression records an error and leaves the text as it is
  (`signal-harness/src/index.ts:269`).

Where code and comments differ in what the other runs check, the properties say
what the code does:

* `requirement-case.ts:23-26` says that a re-run opens nothing new; reports that
  overlap may (`DuplicateCasesOverlap`).
* `proxy-gate.ts:39` and `approve-enforce.ts:10` gate "until the case is
  corrected"; no code lifts a gate, and correcting a case leaves it.
* Only the first dropped requirement of a report opens a case (`detect-miss.ts`).
* The loop enforces with the literal status "on-track" (`use-cases.ts:101`),
  whatever the agent reported.
* Document text above the first heading is in no chunk
  (`tools/requirements/src/loaders/document.ts:61`), so nothing is proposed from
  it.
* The voice control is not told when the server closes its room; the audit ids
  of the console repeat for a call that is sealed twice
  (`proxy-surface.ts:287`).
* `signal-harness` and `eval-harness` have stop words of their own, so they may
  grade one text differently.

## Not modelled, and why

Formatting, wording, time stamps (they order batches: any order is allowed) and
schema validation, but for the inputs that are refused after something was done.
`contains` and `matches` conditions, which the program never writes. GET routes.
Parsing of file formats, Linear's
GraphQL, the workstream payloads, prompts and the model's text, token signing.
The components marked `not_modelled` in `PROJECT.json`: the MCP classifier
(nothing calls it) and the gateway's command line; schemas and canonical JSON;
fixtures behind interfaces; goal alignment and predication, single expressions;
screens that render what they are given; tools that check the repository's files
once in continuous integration.

A rewriting rule that throws refuses its action before anything is recorded; the
gateway's model leaves such rules out of `Rewrites`, as a refused request changes
nothing.

## Plan

The workspace surface of the app, and the Linear client's retries once it has
any. Theorems about the pure components that are left: that signals are routed
by the rules that name them and by no others, that work is allocated to each
actionable signal and each owner role once, that a day's spending is what its
grants say.
