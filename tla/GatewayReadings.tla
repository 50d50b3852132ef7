---------------------------- MODULE GatewayReadings ----------------------------
(***************************************************************************)
(* What the gateway's operators read off its traffic history and its       *)
(* active rules: a filtered history, how often agents' actions went to the *)
(* operator, and whether each rule is what keeps its class of actions from *)
(* going there.  A history is a sequence of entries [action, decision]; a  *)
(* rule carries its evalCase.                                              *)
(***************************************************************************)
EXTENDS PolicyEngine, FiniteSets, SequencesExt

\* A filter's optional fields are sets of at most one element.
MatchesFilter(entry, filter) ==
    /\ filter.tool # {} => entry.action.tool \in filter.tool
    /\ filter.action # {} => entry.action.action \in filter.action
    /\ filter.verdict # {} => entry.decision.verdict \in filter.verdict
    /\ filter.inScopeOnly => entry.decision.source # "scope"

FilteredHistory(history, filter) == SelectSeq(history, LAMBDA e : MatchesFilter(e, filter))

\* The rate after the n-th decision is asks / total.
EscalationSeries(decisions) ==
    [n \in DOMAIN decisions |->
        [asks |-> Cardinality({m \in 1..n : decisions[m].verdict = "ask"}), total |-> n]]

FinalEscalationRate(decisions) ==
    IF decisions = <<>> THEN [asks |-> 0, total |-> 1] ELSE Last(EscalationSeries(decisions))

IsMonotonicNonIncreasing(samples) ==
    \A n \in DOMAIN samples \ {1} :
        samples[n].asks * samples[n - 1].total <= samples[n - 1].asks * samples[n].total

CountSafetyRegressions(decisions, expected) ==
    Cardinality({n \in DOMAIN decisions \cap DOMAIN expected :
                    expected[n] = "deny" /\ decisions[n].verdict = "allow"})

\* What an operator did about an escalated action is not an action that was governed.
GovernedDecisions(history) ==
    LET governed == SelectSeq(history, LAMBDA e : e.decision.source # "operator")
    IN  [n \in DOMAIN governed |-> governed[n].decision]

Judged(a, rules) == Decide(a, rules, "intercept", NoScope)

RuleGoverns(r, a) == Judged(a, {r}).rule = r.id

IsAutonomous(decision) == decision.verdict # "ask"

WithoutRule(rules, r) == {s \in rules : s.id # r.id}

\* The first action of the history that the rule governs alone.
Origin(history, r) ==
    LET seen == {n \in DOMAIN history : RuleGoverns(r, history[n].action)}
    IN  {history[n].action : n \in {m \in seen : \A k \in seen : m <= k}}

\* The origin is judged without the rule (pass 1) and with it (pass 2).
EvalResults(history, rules) ==
    UNION {{[evalCase |-> r.evalCase, pass |-> pass,
             result |-> IF IsAutonomous(Judged(a, IF pass = 1 THEN WithoutRule(rules, r) ELSE rules))
                        THEN "pass" ELSE "fail"] :
                a \in Origin(history, r), pass \in {1, 2}} : r \in rules}

\* Of eval cases that only one rule carries.
ResultOf(results, r, pass) ==
    LET own == {x \in results : x.evalCase = r.evalCase /\ x.pass = pass}
    IN  IF own = {} THEN "missing" ELSE (CHOOSE x \in own : TRUE).result

RuleHealthTable(rules, results) ==
    {[ruleId |-> r.id, before |-> ResultOf(results, r, 1), after |-> ResultOf(results, r, 2),
      healthy |-> ResultOf(results, r, 1) = "fail" /\ ResultOf(results, r, 2) = "pass"] : r \in rules}

ComputeGatewayMetrics(history, rules) ==
    LET health == RuleHealthTable(rules, EvalResults(history, rules))
    IN  [escalation |-> FinalEscalationRate(GovernedDecisions(history)),
         series |-> EscalationSeries(GovernedDecisions(history)),
         activeRuleCount |-> Cardinality(rules),
         ruleHealth |-> health,
         healthy |-> Cardinality({row \in health : row.healthy})]
===============================================================================
