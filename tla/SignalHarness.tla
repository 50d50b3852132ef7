---------------------------- MODULE SignalHarness ----------------------------
(***************************************************************************)
(* packages/signal-harness: an agent's output is compared with the active  *)
(* requirements, the drift signals found are routed to endpoints and give  *)
(* the owner roles work, and documents are rewritten on their way.  It     *)
(* keeps no state.                                                         *)
(*                                                                         *)
(* A text is the set of its words of at least three letters; an optional   *)
(* field is a set of at most one element.  A JSON value is the function    *)
(* that gives every path to a leaf the scalar found there, [is |-> type,   *)
(* ...]; a scalar is then a function of the empty path only, and Absent a  *)
(* function of nothing.  Arrays and empty objects count as scalars.        *)
(***************************************************************************)
EXTENDS Integers, FiniteSets, SequencesExt, TLC

CONSTANTS
    Rank,             \* the place of every id in the order of localeCompare
    EmptyString,
    IsPattern(_),     \* whether a text is a regular expression
    Replace(_, _, _), \* text.replace(pattern, replacement)
    Match(_, _),      \* what a pattern captures of a text, optional
    Normal(_),        \* trimmed, single spaces, lower case
    Render(_, _),     \* a template filled with a JSON value
    Mentions(_, _)    \* whether a text has a label in it, in any case

Only(option) == CHOOSE x \in option : TRUE

StopWords ==
    {"all", "and", "are", "before", "for", "into", "must", "shall", "the", "with"}

Tokens(words) == words \ StopWords

Hits(needle, haystack) == Cardinality(needle \cap haystack)

\* tokenOverlap(needle, haystack) >= percent / 100.  Nothing overlaps with anything.
Overlaps(needle, haystack, percent) ==
    needle = {} \/ 100 * Hits(needle, haystack) >= percent * Cardinality(needle)

(***************************************************************************)
(* Detection.                                                              *)
(***************************************************************************)
ExplicitDrop(output, r) ==
    \E d \in output.droppedRequirements : Overlaps(Tokens(d), Tokens(r.text), 50)

OutputTokens(output) == Tokens(output.summary \cup UNION output.droppedRequirements)

Missing(output, r) ==
    ExplicitDrop(output, r) \/ ~Overlaps(Tokens(r.text), OutputTokens(output), 35)

\* In hundredths, rounded to the nearest.
DriftScore(output, r) ==
    LET words == Cardinality(Tokens(r.text))
        absent == words - Hits(Tokens(r.text), OutputTokens(output))
    IN  IF ExplicitDrop(output, r) THEN 98 ELSE (200 * absent + words) \div (2 * words)

DriftSeverity(score, r) ==
    IF r.severity = "hard" THEN (IF score >= 80 THEN "critical" ELSE "high")
    ELSE (IF score >= 80 THEN "high" ELSE "medium")

DriftSignal(output, r) ==
    [id |-> r.id, kind |-> "requirement_dropped", score |-> DriftScore(output, r),
     severity |-> DriftSeverity(DriftScore(output, r), r), evidenceIds |-> r.evidenceRefs,
     status |-> "open", linkedCaseId |-> {}]

Watched(r) == r.status = "active" /\ r.severity # "info"

DetectRequirementDrift(output, requirements) ==
    LET dropped == SelectSeq(requirements, LAMBDA r : Watched(r) /\ Missing(output, r))
        signals == [n \in DOMAIN dropped |-> DriftSignal(output, dropped[n])]
    IN  SortSeq(signals, LAMBDA s, t : \/ s.score > t.score
                                       \/ s.score = t.score /\ Rank[s.id] < Rank[t.id])

ShouldOpenGovernanceCase(signal) ==
    signal.status = "open" /\ signal.score >= 80 /\ signal.severity \in {"critical", "high"}

(***************************************************************************)
(* Routing, of rules and endpoints that their contracts accept: the call   *)
(* throws on any other.                                                    *)
(***************************************************************************)
ValidEndpoint(e) == (e.auth = "none") <=> (e.secretRef = {})

ValidRoutingRule(r) ==
    /\ r.intentTypes # {} \/ r.signalKinds # {}
    /\ r.endpointConfigIds # <<>>
    /\ r.disposition # "fanout" => Len(r.endpointConfigIds) = 1

ByPriority(rules) ==
    SortSeq(rules, LAMBDA r, s : \/ r.priority < s.priority
                                 \/ r.priority = s.priority /\ Rank[r.id] < Rank[s.id])

TargetEndpointIds(rule, endpoints) ==
    SelectSeq(rule.endpointConfigIds, LAMBDA id : \E e \in endpoints : e.id = id /\ e.enabled)

\* What is decided about one signal or intent, by the rules that name its kind.
Decisions(about, rules, endpoints) ==
    FlattenSeq([n \in DOMAIN rules |->
        LET targets == TargetEndpointIds(rules[n], endpoints)
        IN  [t \in DOMAIN targets |->
                [ruleId |-> rules[n].id, endpointConfigId |-> targets[t],
                 disposition |-> rules[n].disposition, about |-> about]]])

Routable(rules, endpoints) ==
    (\A r \in ToSet(rules) : ValidRoutingRule(r)) /\ \A e \in endpoints : ValidEndpoint(e)

RouteSignalsAndIntents(signals, intents, rules, endpoints) ==
    LET enabled == ByPriority(SelectSeq(rules, LAMBDA r : r.enabled))
        ForSignal(s) == SelectSeq(enabled, LAMBDA r : s.kind \in r.signalKinds)
        ForIntent(i) == SelectSeq(enabled, LAMBDA r : i.intentType \in r.intentTypes)
    IN  FlattenSeq([n \in DOMAIN signals |-> Decisions(signals[n].id, ForSignal(signals[n]), endpoints)])
        \o FlattenSeq([n \in DOMAIN intents |-> Decisions(intents[n].id, ForIntent(intents[n]), endpoints)])

(***************************************************************************)
(* Allocation.                                                             *)
(***************************************************************************)
Actionable(signal) == signal.status = "open" /\ signal.severity \in {"critical", "high"}

WorkItem(signal) == IF signal.linkedCaseId = {} THEN signal.id ELSE Only(signal.linkedCaseId)

AllocateResourcesForSignals(signals, ownerRoles) ==
    LET actionable == SelectSeq(signals, Actionable)
    IN  FlattenSeq([n \in DOMAIN actionable |->
            [role \in DOMAIN ownerRoles |->
                [workItem |-> WorkItem(actionable[n]), ownerRole |-> ownerRoles[role],
                 status |-> "allocated",
                 evidenceIds |-> <<actionable[n].id>> \o actionable[n].evidenceIds]]])

Process(output, requirements, intents, rules, endpoints, ownerRoles) ==
    LET signals == DetectRequirementDrift(output, requirements)
    IN  [signals |-> signals,
         routes |-> RouteSignalsAndIntents(signals, intents, rules, endpoints),
         allocations |-> AllocateResourcesForSignals(signals, ownerRoles)]

(***************************************************************************)
(* Transformation.                                                         *)
(***************************************************************************)
Text(text) == [is |-> "string", text |-> text]
Null == [is |-> "null"]

Absent == [path \in {} |-> Null]
Scalar(value) == [path \in {<<>>} |-> value]

GetPath(json, path) ==
    LET below == {p \in DOMAIN json : IsPrefix(path, p)}
    IN  [p \in {SubSeq(q, Len(path) + 1, Len(q)) : q \in below} |-> json[path \o p]]

\* The field takes the place of what was there, and of the scalars in its way.
SetPath(json, path, value) ==
    LET kept == {p \in DOMAIN json : ~IsPrefix(path, p) /\ ~IsPrefix(p, path)}
        written == {path \o p : p \in DOMAIN value}
    IN  IF path = <<>> THEN json
        ELSE [p \in kept \cup written |->
                 IF p \in kept THEN json[p] ELSE value[SubSeq(p, Len(path) + 1, Len(p))]]

IsScalar(json) == DOMAIN json = {<<>>}

IsString(json) == IsScalar(json) /\ json[<<>>].is = "string"

\* The text of a string, and that of everything else.
TextOf(json) == IF IsString(json) THEN json[<<>>].text ELSE EmptyString

Outcome(rule, output, changed) ==
    [ruleId |-> rule.id, changed |-> changed, output |-> output, failed |-> FALSE]

Untouched(input, rule) == Outcome(rule, input, FALSE)

Failed(input, rule) == [Untouched(input, rule) EXCEPT !.failed = TRUE]

\* Noticed only when there is a text to look at.
PatternFails(rule) == \E pattern \in rule.pattern : ~IsPattern(pattern)

Mapped(input, rule, source) ==
    Outcome(rule, SetPath(input, Only(rule.targetField),
                          IF source = Absent THEN Scalar(Null) ELSE source), TRUE)

Redacted(input, rule, source) ==
    LET replacement == IF rule.replacement = {} THEN EmptyString ELSE Only(rule.replacement)
        next == IF rule.pattern = {} THEN replacement
                ELSE Replace(TextOf(source), Only(rule.pattern), replacement)
    IN  IF ~IsString(source) THEN Untouched(input, rule)
        ELSE IF PatternFails(rule) THEN Failed(input, rule)
        ELSE Outcome(rule, SetPath(input, rule.fieldPath, Scalar(Text(next))), next # TextOf(source))

Normalized(input, rule, source) ==
    LET next == Normal(TextOf(source))
        place == IF rule.targetField = {} THEN rule.fieldPath ELSE Only(rule.targetField)
    IN  IF IsString(source)
        THEN Outcome(rule, SetPath(input, place, Scalar(Text(next))),
                     next # TextOf(source) \/ rule.targetField # {})
        ELSE Untouched(input, rule)

Extracted(input, rule, source) ==
    LET captured == Match(TextOf(source), Only(rule.pattern))
    IN  IF ~IsString(source) \/ rule.pattern = {} THEN Untouched(input, rule)
        ELSE IF PatternFails(rule) THEN Failed(input, rule)
        ELSE Outcome(rule, SetPath(input, Only(rule.targetField),
                 Scalar(IF captured = {} THEN Null ELSE Text(Only(captured)))), TRUE)

Mentioned(rule, source) == SelectSeq(rule.labels, LAMBDA l : Mentions(TextOf(source), l))

\* The first label that the text mentions.
Classified(input, rule, source) ==
    LET found == Mentioned(rule, source)
    IN  Outcome(rule, SetPath(input, Only(rule.targetField),
                              Scalar(Text(IF found = <<>> THEN "unclassified" ELSE Head(found)))), TRUE)

\* The share of the labels that the text mentions.
Scored(input, rule, source) ==
    LET share == [is |-> "number", hits |-> Len(Mentioned(rule, source)), of |-> Len(rule.labels)]
    IN  Outcome(rule, SetPath(input, Only(rule.targetField), Scalar(share)), TRUE)

Templated(input, rule, source) ==
    LET template == IF rule.replacement = {} THEN EmptyString ELSE Only(rule.replacement)
    IN  Outcome(rule, SetPath(input, Only(rule.targetField), Scalar(Text(Render(template, source)))), TRUE)

NeedsTarget == {"map", "extract", "classify", "score", "template"}

ValidTransformRule(rule) ==
    /\ rule.fieldPath # <<>>
    /\ rule.operation \in {"map", "extract"} => rule.targetField # {}
    /\ rule.operation = "redact" => rule.replacement # {}
    /\ rule.operation = "classify" => rule.labels # <<>>

\* A rule that has no place to write to fails, as one whose pattern is none does,
\* and leaves its input as it is.
ApplyTransformRule(input, rule) ==
    LET source == GetPath(input, rule.fieldPath)
    IN  CASE rule.operation \in NeedsTarget /\ rule.targetField = {} ->
                 Failed(input, rule)
          [] rule.operation = "redact" -> Redacted(input, rule, source)
          [] rule.operation = "normalize" -> Normalized(input, rule, source)
          [] OTHER ->
                 CASE rule.operation = "map" -> Mapped(input, rule, source)
                   [] rule.operation = "extract" -> Extracted(input, rule, source)
                   [] rule.operation = "classify" -> Classified(input, rule, source)
                   [] rule.operation = "score" -> Scored(input, rule, source)
                   [] rule.operation = "template" -> Templated(input, rule, source)

\* An object that is mapped into itself becomes circular, and cannot be cloned.
MapsIntoItself(input, rule) ==
    LET source == GetPath(input, rule.fieldPath)
    IN  /\ rule.enabled /\ rule.operation = "map" /\ source # Absent /\ ~IsScalar(source)
        /\ IsStrictPrefix(rule.fieldPath, Only(rule.targetField))

\* Each rule works on what the one before it left; a disabled one reports no change.
\* A call that throws has no results.
ApplyTransformRules(input, rules) ==
    LET Current(results) == IF results = <<>> THEN input ELSE Last(results).output
        Throws(results, rule) == ~ValidTransformRule(rule) \/ MapsIntoItself(Current(results), rule)
        Apply(results, rule) ==
            Append(results, IF rule.enabled THEN ApplyTransformRule(Current(results), rule)
                            ELSE Untouched(Current(results), rule))
        Step(given, rule) ==
            {Apply(results, rule) : results \in {kept \in given : ~Throws(kept, rule)}}
    IN  FoldLeft(Step, {<<>>}, ByPriority(rules))
===============================================================================
