--------------------------- MODULE MCSignalHarness ---------------------------
(***************************************************************************)
(* What SignalHarness computes, checked over every small input: reports on *)
(* two requirements, routing by three rules, and rewritings of a document  *)
(* by up to two rules.                                                     *)
(***************************************************************************)
EXTENDS Integers, FiniteSets, Sequences

PathPlaces == [a |-> 1, b |-> 2, c |-> 3]
PlainText == {"Name ", "name", "*", ""}

Replacing(text, pattern, replacement) == IF text \in {"Name ", "name"} THEN replacement ELSE text
Regular(text) == text # "("
Capturing(text, pattern) == IF text \in {"Name ", "name"} THEN {"name"} ELSE {}
Normalizing(text) == IF text = "Name " THEN "name" ELSE text
Rendering(template, json) == "*"
Mentioning(text, label) == text \in {"Name ", "name"} /\ label = "name"

Harness == INSTANCE SignalHarness
    WITH Rank <- PathPlaces, EmptyString <- "", IsPattern <- Regular, Replace <- Replacing, Match <- Capturing,
         Normal <- Normalizing, Render <- Rendering, Mentions <- Mentioning

Vocabulary == {"data", "residency", "europe", "owner", "signed"}

Asked(id, words, severity) ==
    [id |-> id, text |-> words, status |-> "active", severity |-> severity, evidenceRefs |-> <<"call">>]

AskedRequirements ==
    {Asked("a", words, severity) : words \in SUBSET Vocabulary, severity \in {"hard", "soft", "info"}}

Reports ==
    {[summary |-> summary, droppedRequirements |-> dropped] :
        summary \in SUBSET {"data", "residency", "owner"},
        dropped \in {{}, {{"data", "price"}}, {{"europe", "owner", "the"}}, {{"the"}}}}

SignalsOf(output, r) == Harness!DetectRequirementDrift(output, <<r>>)

(* A requirement that is watched gives at most one signal, and gives one   *)
(* when the report admits, in at least half of its words, to have dropped  *)
(* it: for a hard one it opens a case and each role is given work.         *)
AdmittedDropsAreActedOn ==
    \A output \in Reports, r \in AskedRequirements :
        LET signals == SignalsOf(output, r)
            allocations == Harness!AllocateResourcesForSignals(signals, <<"Security", "Product">>)
        IN  /\ Len(signals) <= 1
            /\ r.severity = "hard" /\ Harness!ExplicitDrop(output, r) =>
                  /\ Len(allocations) = 2
                  /\ \A n \in DOMAIN signals : /\ Harness!ShouldOpenGovernanceCase(signals[n])
                                               /\ signals[n].severity = "critical"

(* Allocation does not look at the score: owners are allocated to a hard   *)
(* requirement of which the report covers more than 20.5 per cent but not  *)
(* 35, although no case is opened about it, and to none other without one. *)
WorkWithoutACase ==
    \A output \in Reports, r \in AskedRequirements : \A n \in DOMAIN SignalsOf(output, r) :
        LET signal == SignalsOf(output, r)[n]
            words == Cardinality(r.text)
            hits == Cardinality(r.text \cap (output.summary \cup UNION output.droppedRequirements))
        IN  (Harness!Actionable(signal) /\ ~Harness!ShouldOpenGovernanceCase(signal))
            <=> /\ r.severity = "hard" /\ ~Harness!ExplicitDrop(output, r)
                /\ 1000 * hits > 205 * words /\ 100 * hits < 35 * words

(* A phrase without a word that counts drops every watched requirement.    *)
EmptyPhrasesDropAll ==
    \A output \in Reports, r \in AskedRequirements :
        {"the"} \in output.droppedRequirements /\ Harness!Watched(r) => Len(SignalsOf(output, r)) = 1

(* The signals of two requirements come by score, the highest first, and   *)
(* then by id, whatever the order of the requirements.                     *)
SignalsAreOrdered ==
    \A output \in Reports, first \in {"hard", "soft"}, words \in SUBSET {"data", "owner", "signed"} :
        LET r == Asked("a", words, first)
            s == Asked("b", {"data", "europe", "signed"}, "hard")
            signals == Harness!DetectRequirementDrift(output, <<s, r>>)
        IN  /\ signals = Harness!DetectRequirementDrift(output, <<r, s>>)
            /\ \A n \in 2..Len(signals) :
                  \/ signals[n - 1].score > signals[n].score
                  \/ signals[n - 1].score = signals[n].score /\ signals[n - 1].id = "a"

ASSUME AdmittedDropsAreActedOn
ASSUME WorkWithoutACase
ASSUME EmptyPhrasesDropAll
ASSUME SignalsAreOrdered

Route(id, priority, disposition, targets) ==
    [id |-> id, priority |-> priority, enabled |-> TRUE, intentTypes |-> {"policy"},
     signalKinds |-> {"requirement_dropped"}, endpointConfigIds |-> targets, disposition |-> disposition]

Endpoint(id, enabled) == [id |-> id, auth |-> "api-key", secretRef |-> {"env"}, enabled |-> enabled]

Routes(p, q, r) ==
    <<Route("a", p, "deny", <<"gemini">>), Route("b", q, "send", <<"gemini">>),
      [Route("c", r, "fanout", <<"gemini", "linear">>) EXCEPT !.intentTypes = {}]>>

Drifted == <<[id |-> "s", kind |-> "requirement_dropped"]>>
Asking == <<[id |-> "i", intentType |-> "policy"]>>

(* Every rule that names the kind is heard, in the order of the priorities *)
(* and whatever the ones before it said: a rule that denies keeps none     *)
(* that sends from sending.  Only an endpoint that is off is left out.     *)
EveryRuleIsHeard ==
    \A p, q, r \in 1..2, on \in BOOLEAN :
        LET endpoints == {Endpoint("gemini", on), Endpoint("linear", TRUE)}
            routes == Harness!RouteSignalsAndIntents(Drifted, Asking, Routes(p, q, r), endpoints)
            Place(id) == IF id = "a" THEN 10 * p + 1 ELSE IF id = "b" THEN 10 * q + 2 ELSE 10 * r + 3
        IN  /\ Harness!Routable(Routes(p, q, r), endpoints)
            /\ {<<routes[n].about, routes[n].ruleId, routes[n].endpointConfigId>> : n \in DOMAIN routes}
               = (IF on THEN {<<s, id, "gemini">> : s \in {"s", "i"}, id \in {"a", "b"}}
                             \cup {<<"s", "c", "gemini">>} ELSE {})
                 \cup {<<"s", "c", "linear">>}
            /\ \A n \in 2..Len(routes) : routes[n - 1].about = routes[n].about
                  => Place(routes[n - 1].ruleId) <= Place(routes[n].ruleId)

ASSUME EveryRuleIsHeard

Paths == {<<"x">>, <<"y">>, <<"x", "u">>, <<"y", "u">>, <<"x", "u", "v">>}

Json == UNION {[paths -> {Harness!Text("Name "), Harness!Null}] : paths \in
                 {{<<"x">>}, {<<"x">>, <<"y">>}, {<<"x", "u">>, <<"y">>}, {<<"x", "u">>, <<"x", "w">>}}}

(* What is put at a place is found there, and every field that is neither  *)
(* there, nor below, nor a scalar on the way, is as before.                *)
FieldsAreWrittenInPlace ==
    \A json \in Json, path \in Paths, text \in PlainText :
        LET after == Harness!SetPath(json, path, Harness!Scalar(Harness!Text(text)))
        IN  /\ Harness!GetPath(after, path) = Harness!Scalar(Harness!Text(text))
            /\ \A other \in DOMAIN json : ~Harness!IsPrefix(path, other) /\ ~Harness!IsPrefix(other, path)
                  => other \in DOMAIN after /\ after[other] = json[other]
            /\ \A p, q \in DOMAIN after : ~Harness!IsStrictPrefix(p, q)

Operations == {"extract", "map", "redact", "normalize", "classify", "score", "template"}

Transform(id, operation, from, to, pattern) ==
    [id |-> id, operation |-> operation, fieldPath |-> from, targetField |-> to, pattern |-> {pattern},
     replacement |-> {"*"}, labels |-> <<"price", "name">>, priority |-> 1, enabled |-> TRUE]

SomeTransforms(id) ==
    {Transform(id, operation, from, to, pattern) :
        operation \in Operations, from \in {<<"x">>, <<"y">>}, to \in {{}, {<<"x", "u">>}, {<<"y">>}},
        pattern \in {"name", "("}}

(* A failed rule changes nothing; a rule writes to one place only; and a   *)
(* text that was redacted is not in its field any more, while one that a   *)
(* rule without a sound pattern was to redact is passed on as it is.       *)
RulesKeepToTheirField ==
    \A json \in Json, rule \in SomeTransforms("a") :
        LET result == Harness!ApplyTransformRule(json, rule)
            place == IF rule.operation = "redact" \/ rule.targetField = {} THEN rule.fieldPath
                     ELSE Harness!Only(rule.targetField)
        IN  /\ result.failed \/ ~result.changed => result.output = json
            /\ \A other \in DOMAIN json :
                  ~Harness!IsPrefix(place, other) /\ ~Harness!IsPrefix(other, place)
                  => other \in DOMAIN result.output /\ result.output[other] = json[other]
            /\ rule.operation = "redact" /\ rule.pattern = {"name"}
                  => Harness!GetPath(result.output, rule.fieldPath) # Harness!Scalar(Harness!Text("Name "))
            /\ rule.operation = "redact" /\ rule.pattern = {"("}
                  => (result.failed <=> Harness!IsString(Harness!GetPath(json, rule.fieldPath)))

(* Redaction reaches one field.  A text that another field holds after a   *)
(* text was redacted was there before, or a rule that ran earlier copied   *)
(* it; so what is copied before it is redacted stays readable.             *)
RedactionMissesCopies ==
    \A json \in Json, first \in SomeTransforms("a") :
        LET redact == Transform("b", "redact", <<"x">>, {}, "name")
            runs == Harness!ApplyTransformRules(json, <<redact, first>>)
            Readable(document) == {p \in DOMAIN document : document[p] = Harness!Text("Name ")}
        IN  \A results \in runs :
                Readable(results[2].output) \ Readable(json) # {}
                => first.operation = "map"

(* An object copied into itself ends the call, and nothing else does that  *)
(* the contracts let pass.                                                 *)
OnlyCirclesThrow ==
    \A json \in Json, first \in SomeTransforms("a") :
        Harness!ValidTransformRule(first) =>
            (Harness!ApplyTransformRules(json, <<first>>) = {}
             <=> /\ first.operation = "map" /\ first.fieldPath = <<"x">>
                 /\ first.targetField = {<<"x", "u">>} /\ <<"x">> \notin DOMAIN json)

ASSUME FieldsAreWrittenInPlace
ASSUME RulesKeepToTheirField
ASSUME RedactionMissesCopies
ASSUME OnlyCirclesThrow
===============================================================================
