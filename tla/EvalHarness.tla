----------------------------- MODULE EvalHarness -----------------------------
(***************************************************************************)
(* The eval harness as operators on sequences of eval results, in the      *)
(* order a store returns them.  A criterion is the requirement it is about *)
(* and a text is the set of its tokens that are not stop words.            *)
(***************************************************************************)
EXTENDS Selection, FiniteSets, SequencesExt

CONSTANTS Requirements,       \* the requirements a deal may drop
          RequirementWords,   \* the tokens of each
          CriterionRank       \* the place of each in the order of localeCompare

ASSUME RankIsInjective ==
    /\ IsFiniteSet(Requirements)
    /\ CriterionRank \in [Requirements -> 1..Cardinality(Requirements)]
    /\ \A r, s \in Requirements : CriterionRank[r] = CriterionRank[s] => r = s

ASSUME WordsAreFinite == \A r \in Requirements : IsFiniteSet(RequirementWords[r])

Passes == 1..2

\* The results of one pass, by criterion; results that tie keep their order.
ByCriterion(results) ==
    FlattenSeq([k \in 1..Cardinality(Requirements) |->
                   Selected(results, {i \in DOMAIN results : CriterionRank[results[i].criterion] = k})])

ByPass(results) ==
    FlattenSeq([p \in Passes |-> Selected(results, {i \in DOMAIN results : results[i].passNumber = p})])

OfDeal(results, deal) == Selected(results, {i \in DOMAIN results : results[i].deal = deal})

RunEvals(results, deal) == ByPass(ByCriterion(OfDeal(results, deal)))

WentFromFailToPass(results) ==
    results # <<>> /\ Head(results).result = "fail" /\ Last(results).result = "pass"

OfCriterion(table, c) == Selected(table, {i \in DOMAIN table : table[i].criterion = c})

OfEvalCase(results, evalCase) == Selected(results, {i \in DOMAIN results : results[i].evalCase = evalCase})

\* A mistake: the last result on record is taken for the last pass.
ImprovedAsRecorded(table) ==
    \E c \in Requirements : WentFromFailToPass(OfCriterion(table, c))

Improved(table) ==
    \E c \in Requirements :
        WentFromFailToPass(ByPass(OfCriterion(table, c)))

Graded(table, result) == Cardinality({i \in DOMAIN table : table[i].result = result})

SummarizeEvalTable(table) ==
    [total |-> Len(table), pass |-> Graded(table, "pass"), fail |-> Graded(table, "fail"),
     improved |-> Improved(table)]

\* A row of the rule health table, for a rule that carries the eval case it was made for.
RuleHealth(evalCase, results) ==
    LET own == ByPass(OfEvalCase(results, evalCase))
        Result(Of(_)) == IF own = <<>> THEN "missing" ELSE Of(own).result
    IN  [before |-> Result(Head), after |-> Result(Last), healthy |-> WentFromFailToPass(own)]

Overlap(needle, haystack) == Cardinality(needle \cap haystack)

\* At least half of the requirement's wording is among what the output says it dropped.
ExplicitlyDropped(output, requirement) ==
    \E d \in ToSet(output.droppedRequirements) :
        2 * Overlap(RequirementWords[d], RequirementWords[requirement])
            >= Cardinality(RequirementWords[d])

\* At least 35 per cent of the requirement's words are in the output's text.
Covered(output, requirement) ==
    100 * Overlap(RequirementWords[requirement], output.words)
        >= 35 * Cardinality(RequirementWords[requirement])

\* The second grader: by the words of the output, and not only by what it admits to have dropped.
GradeRequirementCoverage(output, requirement) ==
    IF ~ExplicitlyDropped(output, requirement) /\ Covered(output, requirement) THEN "pass" ELSE "fail"
===============================================================================
