------------------------ MODULE PolicyLearningProofs ------------------------
(***************************************************************************)
(* Theorems of PolicyLearning, for any actions, corrections, exceptions    *)
(* and rule ids, and rule bases of any size; of what is read off the       *)
(* traffic history, and of rewriting rules.                                *)
(***************************************************************************)
EXTENDS PolicyLearning, PolicyProofs, FiniteSetTheorems

(* Narrowing copies a rule, and a copy of anything else than a rule could  *)
(* be anything.                                                            *)
RuleInvariant == TypeOK /\ \A r \in rules : IsRule(r)

LEMMA CompiledRuleFits ==
    ASSUME NEW id \in RuleIds, NEW from, NEW a, NEW atom,
           NEW r \in {ApprovalRule(id, from, a), ProposedRule(id, from, atom, a)}
    PROVE  /\ IsRule(r) /\ r.id = id /\ r.verdict \in Verdicts
           /\ r.status \in {"proposed", "active"}
BY DEF ApprovalRule, ProposedRule, RuleOf, CompiledVerdict, IsRule, Verdicts

(* A rule joins the base under an id of its own.                           *)
LEMMA JoinKeepsInvariant ==
    ASSUME RuleInvariant, NEW r, IsRule(r), r.id \in RuleIds, r.id \notin UsedIds,
           r.verdict \in Verdicts, r.status \in {"proposed", "active"},
           rules' = rules \cup {r}
    PROVE  RuleInvariant'
BY DEF RuleInvariant, TypeOK, UsedIds

(* A rule keeps its id and its verdict when its status changes.            *)
LEMMA StatusOf ==
    ASSUME NEW r, IsRule(r), NEW status
    PROVE  LET q == [r EXCEPT !.status = status] IN
           IsRule(q) /\ q.id = r.id /\ q.verdict = r.verdict /\ q.status = status
BY DEF IsRule

LEMMA NextKeepsInvariant == RuleInvariant /\ [Next]_rules => RuleInvariant'
<1> SUFFICES ASSUME RuleInvariant, [Next]_rules PROVE RuleInvariant'
  OBVIOUS
<1>1. ASSUME NEW id \in RuleIds, NEW from, NEW a, Approve(id, from, a)
      PROVE  RuleInvariant'
  BY <1>1, CompiledRuleFits, JoinKeepsInvariant DEF Approve
<1>2. ASSUME NEW id \in RuleIds, NEW from, NEW a, NEW atom, Propose(id, from, atom, a)
      PROVE  RuleInvariant'
  BY <1>2, CompiledRuleFits, JoinKeepsInvariant DEF Propose
<1>3. ASSUME NEW r \in rules, Activate(r)
      PROVE  RuleInvariant'
  <2> DEFINE q == [r EXCEPT !.status = "active"]
  <2>1. IsRule(q) /\ q.id = r.id /\ q.verdict = r.verdict /\ q.status = "active"
    BY StatusOf DEF RuleInvariant
  <2>2. rules' = (rules \ {r}) \cup {q}
    BY <1>3 DEF Activate
  <2> HIDE DEF q
  <2> QED
    BY <2>1, <2>2 DEF RuleInvariant, TypeOK
<1>4. ASSUME NEW r \in rules, NEW id \in RuleIds, NEW exception, Narrow(r, id, exception)
      PROVE  RuleInvariant'
  <2> DEFINE q == [r EXCEPT !.status = "retired"]
             n == NarrowedRule(id, r, exception)
  <2>1. IsRule(q) /\ q.id = r.id /\ q.verdict = r.verdict /\ q.status = "retired"
    BY StatusOf DEF RuleInvariant
  <2>2. IsRule(n) /\ n.id = id /\ n.verdict = r.verdict /\ n.status = "narrowed"
    <3> DEFINE cond == CombinedCondition(r.cond, exception)
    <3>1. IsRule(r) /\ n = [r EXCEPT !.id = id, !.cond = cond, !.status = "narrowed"]
      BY DEF RuleInvariant, NarrowedRule
    <3> HIDE DEF n, cond
    <3> QED
      BY <3>1 DEF IsRule
  <2>3. id \notin UsedIds /\ rules' = (rules \ {r}) \cup {q, n}
    BY <1>4 DEF Narrow
  <2> HIDE DEF q, n
  <2> QED
    BY <2>1, <2>2, <2>3 DEF RuleInvariant, TypeOK, UsedIds
<1>5. CASE UNCHANGED rules
  BY <1>5 DEF RuleInvariant, TypeOK
<1> QED
  BY <1>1, <1>2, <1>3, <1>4, <1>5 DEF Next

LEMMA InitEstablishesInvariant == Init => RuleInvariant
BY DEF Init, RuleInvariant, TypeOK

(* The store keeps one rule per id, with the statuses and verdicts of the  *)
(* contract, however rules were approved, proposed, activated and narrowed.*)
THEOREM RulesAreWellFormed == Spec => []TypeOK
<1>1. RuleInvariant => TypeOK
  BY DEF RuleInvariant
<1> QED
  BY <1>1, InitEstablishesInvariant, NextKeepsInvariant, PTL DEF Spec

(* However many rules were learned, in whatever order, an action is        *)
(* allowed exactly when an active allow rule for it is more specific than  *)
(* every active rule that would hold it back.                              *)
THEOREM ApprovalsNeverWinTies == Spec => []AllowedOnlyByTheMostSpecificRule
<1>1. RuleInvariant => AllowedOnlyByTheMostSpecificRule
  <2>1. SUFFICES ASSUME RuleInvariant, NEW a \in Actions
                 PROVE  Answer(a).allowed <=>
                           \E r \in rules :
                               /\ r.verdict = "allow" /\ r.status = "active" /\ Matches(a, r)
                               /\ \A s \in rules :
                                     s.status = "active" /\ s.verdict # "allow" /\ Matches(a, s)
                                         => Specificity(r) > Specificity(s)
    BY DEF AllowedOnlyByTheMostSpecificRule
  <2>2. HaveVerdicts(rules)
    BY <2>1 DEF RuleInvariant, TypeOK, HaveVerdicts
  <2> QED
    BY <2>2, AllowedIffMostSpecific DEF Answer, Candidates
<1> QED
  BY <1>1, InitEstablishesInvariant, NextKeepsInvariant, PTL DEF Spec

(* Approving an action opens its own class and nothing else.               *)
THEOREM ApprovalsAreNarrow == Spec => ApprovalOpensItsClassOnly
<1>1. ASSUME NEW id \in RuleIds, NEW from \in Corrections, NEW a \in Actions, NEW b \in Actions,
             Approve(id, from, a), NowAllowed(b), ~WasAllowed(b)
      PROVE  SameApprovedClass(a, b)
  <2> DEFINE r == ApprovalRule(id, from, a)
  <2>1. rules' = rules \cup {r}
    BY <1>1 DEF Approve
  <2>2. CASE Matches(b, r)
    BY <2>2, ApprovalRuleIsNarrow
  <2>3. CASE ~Matches(b, r)
    <3>1. Candidates(b, rules) = Candidates(b, rules')
      BY <2>1, <2>3 DEF Candidates
    <3>2. Decide(b, rules, "learned", NoScope) = Decide(b, rules', "learned", NoScope)
      BY <3>1, OnlyCandidatesDecide
    <3> QED
      BY <1>1, <3>2 DEF NowAllowed, WasAllowed, Answer
  <2> QED
    BY <2>2, <2>3
<1>2. \A id \in RuleIds, from \in Corrections, a, b \in Actions :
          Approve(id, from, a) /\ NowAllowed(b) /\ ~WasAllowed(b)
              => SameApprovedClass(a, b)
  BY <1>1
<1> QED
  BY <1>2, PTL DEF ApprovalOpensItsClassOnly

(* A correction that only proposes a rule changes no answer.               *)
THEOREM ProposalsWait == Spec => ProposalChangesNoAnswer
<1>1. ASSUME NEW id \in RuleIds, NEW from \in Corrections, NEW atom \in Atoms,
             NEW a \in Actions, NEW b \in Actions, Propose(id, from, atom, a)
      PROVE  Decide(b, rules', "learned", NoScope) = Answer(b)
  <2> DEFINE r == ProposedRule(id, from, atom, a)
  <2>1. rules' = rules \cup {r} /\ r.status = "proposed"
    BY <1>1 DEF Propose, ProposedRule, RuleOf
  <2> HIDE DEF r
  <2>2. Candidates(b, rules) = Candidates(b, rules')
    BY <2>1 DEF Candidates
  <2> QED
    BY <2>2, OnlyCandidatesDecide DEF Answer
<1>2. \A id \in RuleIds, from \in Corrections, atom \in Atoms, a, b \in Actions :
          Propose(id, from, atom, a)
              => Decide(b, rules', "learned", NoScope) = Answer(b)
  BY <1>1
<1> QED
  BY <1>2, PTL DEF ProposalChangesNoAnswer

(* A correction about rejecting reviews governs the merges of PR# targets  *)
(* that have one, and no other action.                                     *)
LEMMA RejectionRuleMatches ==
    ASSUME NEW id, NEW from, NEW a, NEW b \in Actions, NEW atom,
           {"merge", "rejection"} \subseteq atom, "both" \notin atom
    PROVE  Matches(b, ProposedRule(id, from, atom, a)) <=>
              /\ b.tool = "gh" /\ b.action = "pr-merge" /\ b.target \in Wildcards["PR#*"]
              /\ "reviews.rejected" \in DOMAIN b.args
              /\ b.args["reviews.rejected"] >= 1
<1> DEFINE r == ProposedRule(id, from, atom, a)
<1>1. OnReviews(atom) /\ ReviewCondition(atom) = Condition("reviews.rejected", ">=", 1)
  BY DEF OnReviews, ReviewCondition
<1>2. /\ r.tool = "gh" /\ r.action = "pr-merge" /\ r.target = "PR#*"
      /\ r.cond = Condition("reviews.rejected", ">=", 1)
  BY <1>1 DEF ProposedRule, RuleOf, CompiledScope, Override, OriginScope, PullRequestMerge
<1> HIDE DEF r
<1>3. /\ r.cond.field = "reviews.rejected" /\ r.cond.op = ">=" /\ r.cond.value = 1
  BY <1>2 DEF Condition
<1>4. HasCondition(r)
  BY <1>3 DEF HasCondition, None
<1>5. ConditionMatches(b, r.cond) <=>
          "reviews.rejected" \in DOMAIN b.args /\ b.args["reviews.rejected"] >= 1
  BY <1>3 DEF ConditionMatches
<1>6. TargetMatches(r.target, b.target) <=> b.target \in Wildcards["PR#*"]
  BY <1>2, WildcardsAssumption DEF TargetMatches, WildcardMatch, None
<1> QED
  BY <1>2, <1>4, <1>5, <1>6 DEF Matches, r

THEOREM RejectionRulesAreExact == Spec => RejectionRuleIsExact
<1>1. ASSUME NEW id \in RuleIds, NEW from \in Corrections, NEW atom \in Atoms,
             NEW a \in Actions, NEW b \in Actions, Propose(id, from, atom, a),
             {"merge", "rejection"} \subseteq atom, "both" \notin atom
      PROVE  LET learned == CHOOSE r \in rules' : r.id = id IN
             Matches(b, learned) <=>
                 /\ b.tool = "gh" /\ b.action = "pr-merge" /\ b.target \in Wildcards["PR#*"]
                 /\ "reviews.rejected" \in DOMAIN b.args
                 /\ b.args["reviews.rejected"] >= 1
  <2> DEFINE r == ProposedRule(id, from, atom, a)
  <2>1. id \notin UsedIds /\ rules' = rules \cup {r} /\ r.id = id
    BY <1>1 DEF Propose, ProposedRule, RuleOf
  <2> HIDE DEF r
  <2>2. (CHOOSE q \in rules' : q.id = id) = r
    BY <2>1 DEF UsedIds
  <2> QED
    BY <1>1, <2>2, RejectionRuleMatches DEF r
<1>2. \A id \in RuleIds, from \in Corrections, atom \in Atoms, a, b \in Actions :
          /\ Propose(id, from, atom, a)
          /\ {"merge", "rejection"} \subseteq atom /\ "both" \notin atom
          => LET learned == CHOOSE r \in rules' : r.id = id IN
             Matches(b, learned) <=>
                 /\ b.tool = "gh" /\ b.action = "pr-merge" /\ b.target \in Wildcards["PR#*"]
                 /\ "reviews.rejected" \in DOMAIN b.args
                 /\ b.args["reviews.rejected"] >= 1
  BY <1>1
<1> QED
  BY <1>2, PTL DEF RejectionRuleIsExact

-----------------------------------------------------------------------------
(***************************************************************************)
(* What operators read off the traffic history (GatewayReadings).          *)
(***************************************************************************)
Readings == INSTANCE GatewayReadings

AsksUpTo(decisions, n) == {m \in 1..n : decisions[m].verdict = "ask"}

LEMMA AsksAreCounted ==
    ASSUME NEW decisions, NEW n \in Nat, n > 0
    PROVE  LET asks == Cardinality(AsksUpTo(decisions, n))
               before == Cardinality(AsksUpTo(decisions, n - 1))
           IN  /\ before \in 0..(n - 1)
               /\ asks = before + (IF decisions[n].verdict = "ask" THEN 1 ELSE 0)
               /\ before = n - 1 <=> \A m \in 1..(n - 1) : decisions[m].verdict = "ask"
<1> DEFINE earlier == AsksUpTo(decisions, n - 1)
<1>1. IsFiniteSet(1..(n - 1)) /\ Cardinality(1..(n - 1)) = n - 1
  <2>1. /\ IsFiniteSet(1..(n - 1))
        /\ Cardinality(1..(n - 1)) = IF 1 > n - 1 THEN 0 ELSE (n - 1) - 1 + 1
    BY FS_Interval
  <2> QED
    BY <2>1
<1>2. earlier \in SUBSET (1..(n - 1))
  BY DEF AsksUpTo
<1>3. /\ IsFiniteSet(earlier) /\ Cardinality(earlier) <= n - 1
      /\ Cardinality(earlier) = n - 1 => earlier = 1..(n - 1)
  BY <1>1, <1>2, FS_Subset
<1>4. Cardinality(earlier) \in Nat
  BY <1>3, FS_CardinalityType
<1>5. n \notin earlier
  BY <1>2
<1>6. AsksUpTo(decisions, n) = IF decisions[n].verdict = "ask" THEN earlier \cup {n} ELSE earlier
  BY DEF AsksUpTo
<1>7. Cardinality(earlier \cup {n}) = Cardinality(earlier) + 1
  BY <1>3, <1>5, FS_AddElement
<1>8. earlier = 1..(n - 1) <=> \A m \in 1..(n - 1) : decisions[m].verdict = "ask"
  BY DEF AsksUpTo
<1> QED
  BY <1>1, <1>3, <1>4, <1>6, <1>7, <1>8

(* The rate rises with an escalation that comes after an action which did  *)
(* not go to the operator, and with nothing else: agents are asked less    *)
(* and less, for any history, exactly when all escalations come first.     *)
THEOREM RatesRiseWithALateEscalation ==
    ASSUME NEW T, NEW decisions \in Seq(T)
    PROVE  Readings!IsMonotonicNonIncreasing(Readings!EscalationSeries(decisions))
           <=> \A m, n \in DOMAIN decisions :
                  m < n /\ decisions[n].verdict = "ask" => decisions[m].verdict = "ask"
<1> DEFINE N == Len(decisions)
           asks(n) == Cardinality(AsksUpTo(decisions, n))
           series == Readings!EscalationSeries(decisions)
           Late(n) == decisions[n].verdict = "ask" /\ \E m \in 1..(n - 1) : decisions[m].verdict # "ask"
<1>1. N \in Nat /\ DOMAIN decisions = 1..N
  BY LenProperties
<1>2. /\ DOMAIN series = 1..N
      /\ \A n \in 1..N : series[n].asks = asks(n) /\ series[n].total = n
  BY <1>1 DEF Readings!EscalationSeries, AsksUpTo, Readings!Cardinality, Cardinality
<1>3. ASSUME NEW n \in 2..N
      PROVE  asks(n) * (n - 1) <= asks(n - 1) * n <=> ~Late(n)
  <2> DEFINE a == asks(n - 1)
             d == IF decisions[n].verdict = "ask" THEN 1 ELSE 0
  <2>1. n \in Nat /\ n > 0
    BY <1>1
  <2>2. a \in 0..(n - 1) /\ asks(n) = a + d
    BY <2>1, AsksAreCounted
  <2>3. a = n - 1 <=> \A m \in 1..(n - 1) : decisions[m].verdict = "ask"
    BY <2>1, AsksAreCounted
  <2>a. n \in Int /\ a = asks(n - 1)
    BY <2>1
  <2> HIDE DEF a, asks
  <2>4. a * n = a * (n - 1) + a
    BY <2>1, <2>2
  <2>5. CASE decisions[n].verdict = "ask"
    <3> DEFINE p == a * (n - 1)
    <3>1. (a + 1) * (n - 1) = a * (n - 1) + (n - 1)
      BY <2>1, <2>2
    <3>2. asks(n) * (n - 1) = p + (n - 1) /\ asks(n - 1) * n = p + a
      BY <2>2, <2>4, <2>5, <2>a, <3>1
    <3>3. p \in Int
      BY <2>a, <2>2
    <3> HIDE DEF p
    <3>4. asks(n) * (n - 1) <= asks(n - 1) * n <=> a = n - 1
      BY <2>a, <2>2, <3>2, <3>3
    <3> QED
      BY <2>3, <2>5, <3>4
  <2>6. CASE decisions[n].verdict # "ask"
    BY <2>1, <2>a, <2>2, <2>4, <2>6
  <2> QED
    BY <2>5, <2>6
<1>4. Readings!IsMonotonicNonIncreasing(series) <=> \A n \in 2..N : ~Late(n)
  <2>1. Readings!IsMonotonicNonIncreasing(series)
        <=> \A n \in 2..N : series[n].asks * series[n - 1].total <= series[n - 1].asks * series[n].total
    <3>1. (DOMAIN series) \ {1} = 2..N
      BY <1>1, <1>2
    <3> HIDE DEF series
    <3> QED
      BY <3>1 DEF Readings!IsMonotonicNonIncreasing
  <2>2. \A n \in 2..N : /\ series[n].asks = asks(n) /\ series[n].total = n
                        /\ series[n - 1].asks = asks(n - 1) /\ series[n - 1].total = n - 1
    BY <1>1, <1>2
  <2> HIDE DEF series, asks, Late
  <2> QED
    BY <1>3, <2>1, <2>2
<1>5. (\A n \in 2..N : ~Late(n))
      <=> \A m, n \in 1..N : m < n /\ decisions[n].verdict = "ask" => decisions[m].verdict = "ask"
  <2>1. \A m, n \in 1..N : m < n => n \in 2..N /\ m \in 1..(n - 1)
    BY <1>1
  <2>2. \A n \in 2..N : \A m \in 1..(n - 1) : n \in 1..N /\ m \in 1..N /\ m < n
    BY <1>1
  <2> QED
    BY <2>1, <2>2
<1> QED
  BY <1>1, <1>4, <1>5

(* The readings judge with the engine's own functions.                     *)
LEMMA ReadingsJudgeAlike ==
    ASSUME NEW a, NEW known
    PROVE  Readings!Judged(a, known) = Decide(a, known, "intercept", NoScope)
<1>1. \A r : Readings!Matches(a, r) = Matches(a, r)
  BY DEF Readings!Matches, Matches, Readings!TargetMatches, TargetMatches, Readings!WildcardMatch, WildcardMatch,
         Readings!HasCondition, HasCondition, Readings!ConditionMatches, ConditionMatches, Readings!None, None
<1>2. \A r, s : Readings!Outranks(r, s) = Outranks(r, s)
  BY DEF Readings!Outranks, Outranks, Readings!Specificity, Specificity, Readings!VerdictRank, VerdictRank,
         Readings!HasCondition, HasCondition, Readings!None, None
<1>3. Readings!BestMatchingRules(a, known) = BestMatchingRules(a, known)
  BY <1>1, <1>2 DEF Readings!BestMatchingRules, BestMatchingRules, Readings!Candidates, Candidates
<1>4. Readings!InScope(a, Readings!NoScope) /\ InScope(a, NoScope)
  BY DEF Readings!InScope, InScope, Readings!NoScope, NoScope
<1> QED
  BY <1>3, <1>4 DEF Readings!Judged, Readings!Decide, Decide, Readings!DecisionFromRule, DecisionFromRule,
                    Readings!Decision, Decision

(* A rule whose removal sends an action to the operator is the one that    *)
(* decides the action.                                                     *)
LEMMA RuleInTheWayDecides ==
    ASSUME NEW a, NEW known, HaveVerdicts(known), NEW r,
           LET Verdict(held) == Decide(a, held, "intercept", NoScope).verdict
           IN  Verdict(known) # "ask" /\ Verdict(known \ {r}) = "ask"
    PROVE  /\ r \in BestMatchingRules(a, known)
           /\ Decide(a, known, "intercept", NoScope) = DecisionFromRule(r, "intercept")
           /\ r.verdict # "ask"
<1> DEFINE others == known \ {r}
           Best(held) == CHOOSE s \in BestMatchingRules(a, held) : TRUE
<1>1. InScope(a, NoScope)
  BY DEF InScope, NoScope
<1>2. ASSUME NEW held, BestMatchingRules(a, held) # {}
      PROVE  /\ Best(held) \in BestMatchingRules(a, held)
             /\ Decide(a, held, "intercept", NoScope) = DecisionFromRule(Best(held), "intercept")
             /\ Decide(a, held, "intercept", NoScope).verdict = Best(held).verdict
  <2>1. Best(held) \in BestMatchingRules(a, held)
    BY <1>2
  <2>2. Decide(a, held, "intercept", NoScope) = DecisionFromRule(Best(held), "intercept")
    BY <1>1, <1>2 DEF Decide
  <2> HIDE DEF Best
  <2>3. DecisionFromRule(Best(held), "intercept").verdict = Best(held).verdict
    BY DEF DecisionFromRule, Decision
  <2> QED
    BY <2>1, <2>2, <2>3
<1>3. BestMatchingRules(a, known) # {}
  <2> SUFFICES ASSUME BestMatchingRules(a, known) = {} PROVE FALSE
    OBVIOUS
  <2>1. Decide(a, known, "intercept", NoScope).verdict = "ask"
    BY <1>1 DEF Decide, Decision
  <2> QED
    BY <2>1
<1>4. Best(known).verdict # "ask"
  <2> HIDE DEF Best
  <2> QED
    BY <1>2, <1>3
<1>5. Best(known) = r
  <2> SUFFICES ASSUME Best(known) # r PROVE FALSE
    OBVIOUS
  <2> HIDE DEF Best
  <2>1. Best(known) \in BestMatchingRules(a, known)
    BY <1>2, <1>3
  <2>2. Best(known) \in BestMatchingRules(a, others)
    BY <2>1 DEF BestMatchingRules, Candidates
  <2>3. HaveVerdicts(others)
    BY DEF HaveVerdicts
  <2>4. Best(others) \in BestMatchingRules(a, others)
    BY <1>2, <2>2
  <2>5. Best(others).verdict = Best(known).verdict
    <3> HIDE DEF others
    <3> QED
      BY <2>2, <2>3, <2>4, BestRulesAgree
  <2> QED
    BY <1>2, <1>4, <2>2, <2>5
<1> HIDE DEF Best
<1> QED
  BY <1>2, <1>3, <1>4, <1>5

DistinctRules(known) ==
    \A r, s \in known : r.id = s.id \/ r.evalCase = s.evalCase => r = s

(* A rule that the health table shows as healthy is what keeps an action   *)
(* of the traffic history from the operator: the engine cites that rule    *)
(* for it, and without the rule the operator would be asked.  For any      *)
(* history and any rules whose ids and eval cases tell them apart.         *)
THEOREM HealthyRulesDecide ==
    ASSUME NEW T, NEW history \in Seq(T), NEW known, HaveVerdicts(known), DistinctRules(known),
           NEW row \in Readings!RuleHealthTable(known, Readings!EvalResults(history, known)), row.healthy
    PROVE  \E r \in known : \E n \in DOMAIN history :
              /\ row.ruleId = r.id /\ r.verdict # "ask"
              /\ Decide(history[n].action, known, "intercept", NoScope).rule = r.id
              /\ Decide(history[n].action, known \ {r}, "intercept", NoScope).verdict = "ask"
<1> DEFINE results == Readings!EvalResults(history, known)
           Judge(a, held) == Decide(a, held, "intercept", NoScope)
           Result(r, pass, a) ==
               [evalCase |-> r.evalCase, pass |-> pass,
                result |-> IF Judge(a, IF pass = 1 THEN known \ {r} ELSE known).verdict # "ask"
                           THEN "pass" ELSE "fail"]
<1>1. PICK r \in known : /\ row.ruleId = r.id
                         /\ Readings!ResultOf(results, r, 1) = "fail"
                         /\ Readings!ResultOf(results, r, 2) = "pass"
  <2> DEFINE Healthy(r) == /\ Readings!ResultOf(results, r, 1) = "fail"
                           /\ Readings!ResultOf(results, r, 2) = "pass"
             Row(r) == [ruleId |-> r.id, before |-> Readings!ResultOf(results, r, 1),
                        after |-> Readings!ResultOf(results, r, 2), healthy |-> Healthy(r)]
  <2>1. PICK r \in known : row = Row(r)
    <3> HIDE DEF results
    <3> QED
      BY DEF Readings!RuleHealthTable, results
  <2> HIDE DEF results, Healthy
  <2>2. row.ruleId = r.id /\ row.healthy = Healthy(r)
    BY <2>1
  <2>3. Healthy(r)
    BY <2>2
  <2> QED
    BY <2>2, <2>3 DEF Healthy
<1>2. \A s \in known : Readings!WithoutRule(known, s) = known \ {s}
  BY DEF Readings!WithoutRule, DistinctRules
<1>3. results = UNION {{Result(s, pass, a) : a \in Readings!Origin(history, s), pass \in {1, 2}} : s \in known}
  <2>1. ASSUME NEW s \in known, NEW a, NEW pass
        PROVE  [evalCase |-> s.evalCase, pass |-> pass,
                result |-> IF Readings!IsAutonomous(Readings!Judged(a,
                                  IF pass = 1 THEN Readings!WithoutRule(known, s) ELSE known))
                           THEN "pass" ELSE "fail"] = Result(s, pass, a)
    BY <1>2, ReadingsJudgeAlike DEF Readings!IsAutonomous
  <2> HIDE DEF Result
  <2> QED
    BY <2>1 DEF Readings!EvalResults
<1>4. ASSUME NEW pass \in {1, 2}, Readings!ResultOf(results, r, pass) # "missing"
      PROVE  \E a \in Readings!Origin(history, r) :
                Readings!ResultOf(results, r, pass) = Result(r, pass, a).result
  <2> DEFINE own == {x \in results : x.evalCase = r.evalCase /\ x.pass = pass}
             x == CHOOSE y \in own : TRUE
  <2>1. own # {} /\ Readings!ResultOf(results, r, pass) = x.result
    <3> HIDE DEF results
    <3> QED
      BY <1>4 DEF Readings!ResultOf
  <2>2. x \in own
    BY <2>1
  <2> HIDE DEF x
  <2>3. PICK s \in known : \E a \in Readings!Origin(history, s), p \in {1, 2} : x = Result(s, p, a)
    <3> HIDE DEF Result, results
    <3> QED
      BY <1>3, <2>2
  <2>c. PICK a \in Readings!Origin(history, s), p \in {1, 2} : x = Result(s, p, a)
    BY <2>3
  <2>4. p = pass /\ s.evalCase = r.evalCase
    BY <2>2, <2>c
  <2>5. s = r
    BY <2>4 DEF DistinctRules
  <2> HIDE DEF Result
  <2> QED
    BY <2>1, <2>c, <2>4, <2>5
<1>5. ASSUME NEW a \in Readings!Origin(history, r), NEW b \in Readings!Origin(history, r)
      PROVE  a = b /\ \E n \in DOMAIN history : a = history[n].action
  <2> DEFINE seen == {n \in DOMAIN history : Readings!RuleGoverns(r, history[n].action)}
  <2>1. seen \subseteq Nat
    BY LenProperties
  <2>2. Readings!Origin(history, r) = {history[n].action : n \in {m \in seen : \A k \in seen : m <= k}}
    BY DEF Readings!Origin
  <2> HIDE DEF seen
  <2>3. PICK i \in seen, j \in seen : /\ \A k \in seen : i <= k /\ j <= k
                                      /\ a = history[i].action /\ b = history[j].action
    BY <2>2
  <2>4. i = j
    BY <2>1, <2>3
  <2> QED
    BY <2>3, <2>4 DEF seen
<1>6. PICK a \in Readings!Origin(history, r) :
          Judge(a, known \ {r}).verdict = "ask" /\ Judge(a, known).verdict # "ask"
  <2>1. \A a : /\ Result(r, 1, a).result = "fail" <=> Judge(a, known \ {r}).verdict = "ask"
               /\ Result(r, 2, a).result = "pass" <=> Judge(a, known).verdict # "ask"
    BY DEF Judge
  <2> HIDE DEF Result, results, Judge
  <2>2. PICK a \in Readings!Origin(history, r) : Result(r, 1, a).result = "fail"
    BY <1>1, <1>4
  <2>3. PICK b \in Readings!Origin(history, r) : Result(r, 2, b).result = "pass"
    BY <1>1, <1>4
  <2> QED
    BY <1>5, <2>1, <2>2, <2>3
<1>7. PICK n \in DOMAIN history : a = history[n].action
  BY <1>5
<1>8. /\ Judge(a, known) = DecisionFromRule(r, "intercept")
      /\ r.verdict # "ask"
  BY <1>6, RuleInTheWayDecides
<1>9. Judge(a, known).rule = r.id
  BY <1>8 DEF DecisionFromRule, Decision
<1> QED
  BY <1>1, <1>6, <1>7, <1>8, <1>9

-----------------------------------------------------------------------------
(***************************************************************************)
(* What rewriting rules make of an action (MatchReplace).                  *)
(***************************************************************************)
CONSTANTS Above, Undefined

Proxy == INSTANCE MatchReplace

(* The assumption that MatchReplace makes of its paths.                    *)
PathsNest == Proxy!AboveAssumption

\* No value is at the path of an object.
Arguments(V) ==
    {g \in UNION {[S -> V] : S \in SUBSET DOMAIN Above} : \A p, q \in DOMAIN g : p \notin Above[q]}

\* Actions with values of V.
Captured(V) == [id : V, tool : V, action : V, target : V, args : Arguments(V)]

IsRewriting(V, r) ==
    r.path \in DOMAIN Above \cup {None} /\ r.replace \in V /\ r.replace # None

\* Rules on the arguments, and those of them that match what is not there.
Argues(r) == r.enabled /\ r.field \notin Proxy!NamedFields
Bare(r) == Argues(r) /\ Undefined \in r.matching

LEMMA ArgumentsAre ==
    ASSUME NEW V, NEW g
    PROVE  g \in Arguments(V) <=>
               /\ g = [p \in DOMAIN g |-> g[p]] /\ DOMAIN g \subseteq DOMAIN Above
               /\ \A p \in DOMAIN g : g[p] \in V
               /\ \A p, q \in DOMAIN g : p \notin Above[q]
<1>1. ASSUME g = [p \in DOMAIN g |-> g[p]], \A p \in DOMAIN g : g[p] \in V
      PROVE  g \in [DOMAIN g -> V]
  BY <1>1
<1> QED
  BY <1>1 DEF Arguments

(* The arguments after one of them is written are arguments again; there   *)
(* is one more only if there was none at the path, and others are gone     *)
(* only then.                                                              *)
LEMMA WhatIsWritten ==
    ASSUME PathsNest, NEW V, NEW g \in Arguments(V), NEW v \in V,
           NEW r, r.path \in DOMAIN Above, Proxy!ArgumentMatches(g, r),
           NEW h, h = Proxy!WritePath(g, r.path, v)
    PROVE  /\ h \in Arguments(V)
           /\ \A p \in DOMAIN h \ DOMAIN g : p = r.path /\ Undefined \in r.matching
           /\ \A p \in DOMAIN g \ DOMAIN h : p \in Above[r.path] /\ Undefined \in r.matching
<1>1. /\ DOMAIN g \subseteq DOMAIN Above /\ \A p \in DOMAIN g : g[p] \in V
      /\ \A p, q \in DOMAIN g : p \notin Above[q]
  BY ArgumentsAre
<1>2. /\ h = [p \in DOMAIN h |-> h[p]]
      /\ DOMAIN h = (DOMAIN g \ Above[r.path]) \cup {r.path}
      /\ \A p \in DOMAIN h : h[p] = IF p = r.path THEN v ELSE g[p]
  BY DEF Proxy!WritePath
<1>3. \A p \in DOMAIN g : r.path \notin Above[p]
  BY DEF Proxy!ArgumentMatches
<1>4. r.path \notin Above[r.path]
  BY DEF PathsNest
<1>5. h \in Arguments(V)
  <2>1. DOMAIN h \subseteq DOMAIN Above /\ \A p \in DOMAIN h : h[p] \in V
    BY <1>1, <1>2
  <2>2. \A p, q \in DOMAIN h : p \notin Above[q]
    BY <1>1, <1>2, <1>3, <1>4
  <2> QED
    BY <1>2, <2>1, <2>2, ArgumentsAre
<1>6. r.path \notin DOMAIN g => Undefined \in r.matching
  BY DEF Proxy!ArgumentMatches, Proxy!ReadPath
<1> QED
  BY <1>1, <1>2, <1>5, <1>6

(* One rule writes one field, and writes no name that it does not find.    *)
LEMMA RuleWritesItsField ==
    ASSUME PathsNest, NEW V, NEW a \in Captured(V), NEW r, IsRewriting(V, r),
           NEW b \in Proxy!ApplyRule(a, r)
    PROVE  /\ b \in Captured(V) /\ b.id = a.id
           /\ \A field \in Proxy!NamedFields : b[field] = None <=> a[field] = None
           /\ \A field \in Proxy!NamedFields : b[field] # a[field] => r.enabled /\ r.field = field
           /\ b.args # a.args => Argues(r)
           /\ \A p \in DOMAIN b.args \ DOMAIN a.args : Bare(r) /\ r.path = p
           /\ \A p \in DOMAIN a.args \ DOMAIN b.args : Bare(r) /\ p \in Above[r.path]
<1>1. CASE b = a
  BY <1>1
<1>2. CASE r.enabled /\ r.field \in Proxy!NamedFields /\ b # a
  <2>1. b = [a EXCEPT ![r.field] = r.replace] /\ a[r.field] # None
    <3>1. Proxy!ApplyRule(a, r) =
              IF a[r.field] = None \/ a[r.field] \notin r.matching THEN {a}
              ELSE {c \in {[a EXCEPT ![r.field] = r.replace]} : Proxy!Replaceable(r)}
      BY <1>2 DEF Proxy!ApplyRule, Proxy!None, None
    <3> QED
      BY <1>2, <3>1
  <2>2. r.field # "id" /\ r.field # "args"
    BY <1>2 DEF Proxy!NamedFields
  <2>3. b.id = a.id /\ b.args = a.args
    BY <2>1, <2>2 DEF Captured
  <2>4. CASE r.field = "tool"
    BY <1>2, <2>1, <2>3, <2>4 DEF Captured, IsRewriting, Proxy!NamedFields
  <2>5. CASE r.field = "action"
    BY <1>2, <2>1, <2>3, <2>5 DEF Captured, IsRewriting, Proxy!NamedFields
  <2>6. CASE r.field = "target"
    BY <1>2, <2>1, <2>3, <2>6 DEF Captured, IsRewriting, Proxy!NamedFields
  <2> QED
    BY <1>2, <2>4, <2>5, <2>6 DEF Proxy!NamedFields
<1>3. CASE r.enabled /\ r.field \notin Proxy!NamedFields /\ b # a
  <2> DEFINE h == Proxy!WritePath(a.args, r.path, r.replace)
  <2>1. Proxy!ApplyRule(a, r) =
            IF r.path = None THEN {}
            ELSE IF Proxy!ArgumentMatches(a.args, r) THEN {[a EXCEPT !.args = h]} ELSE {a}
    BY <1>3 DEF Proxy!ApplyRule, Proxy!None, None
  <2>2. b = [a EXCEPT !.args = h] /\ r.path # None /\ Proxy!ArgumentMatches(a.args, r)
    BY <1>3, <2>1
  <2>3. a.args \in Arguments(V) /\ r.replace \in V /\ r.path \in DOMAIN Above
    BY <2>2 DEF Captured, IsRewriting
  <2>4. /\ h \in Arguments(V)
        /\ \A p \in DOMAIN h \ DOMAIN a.args : p = r.path /\ Undefined \in r.matching
        /\ \A p \in DOMAIN a.args \ DOMAIN h : p \in Above[r.path] /\ Undefined \in r.matching
    BY <2>2, <2>3, WhatIsWritten
  <2> HIDE DEF h
  <2>5. /\ b \in Captured(V) /\ b.args = h
        /\ b.id = a.id /\ b.tool = a.tool /\ b.action = a.action /\ b.target = a.target
    BY <2>2, <2>4 DEF Captured
  <2>6. \A field \in Proxy!NamedFields : b[field] = a[field]
    BY <2>5 DEF Proxy!NamedFields
  <2> QED
    BY <1>3, <2>4, <2>5, <2>6 DEF Argues, Bare
<1>4. ~r.enabled => b = a
  BY DEF Proxy!ApplyRule
<1> QED
  BY <1>1, <1>2, <1>3, <1>4

AfterRule(given, r) == UNION {Proxy!ApplyRule(b, r) : b \in given}

RewritesBy(f, a, held) ==
    /\ f[0] = {a} /\ Proxy!Rewritten(a, held) = f[Len(held)]
    /\ \A n \in 1..Len(held) : f[n] = AfterRule(f[n - 1], held[n])

(* Rules are applied one after another.                                    *)
LEMMA RewritingSteps ==
    ASSUME PathsNest, NEW V, NEW a \in Captured(V), NEW T, NEW held \in Seq(T),
           \A n \in DOMAIN held : IsRewriting(V, held[n])
    PROVE  \E f \in [0..Len(held) -> SUBSET Captured(V)] : RewritesBy(f, a, held)
<1> DEFINE N == Len(held)
           R == SUBSET Captured(V)
           After(given, n) == AfterRule(given, held[n])
           next == [n \in 1..N |-> [given \in R |-> After(given, n)]]
           Solved(f) == f = [n \in 0..N |-> IF n = 0 THEN {a} ELSE After(f[n - 1], n)]
           after == CHOOSE f : Solved(f)
<1>1. N \in Nat /\ DOMAIN held = 1..N
  BY LenProperties
<1>2. {a} \in R
  OBVIOUS
<1>3. \A n \in 1..N : next[n] \in [R -> R]
  <2> TAKE n \in 1..N
  <2>1. \A given \in R : After(given, n) \in R
    BY <1>1, RuleWritesItsField DEF AfterRule
  <2> QED
    BY <2>1
<1>4. Proxy!Rewritten(a, held) = after[N]
  BY DEF Proxy!Rewritten, AfterRule
<1> HIDE DEF R, After
<1>5. PICK f \in [0..N -> R] : Iterates(f, {a}, next, N)
  <2> HIDE DEF next, N
  <2> QED
    BY <1>1, <1>2, <1>3, IterationExists
<1>6. Solved(f)
  <2>1. f = [k \in 0..N |-> IF k = 0 THEN {a} ELSE next[k][f[k - 1]]]
    BY <1>5 DEF Iterates
  <2>2. ASSUME NEW k \in 0..N, k # 0
        PROVE  next[k][f[k - 1]] = After(f[k - 1], k)
    <3>1. k \in 1..N /\ k - 1 \in 0..N
      BY <1>1, <2>2
    <3>2. f[k - 1] \in R
      BY <3>1
    <3> QED
      BY <3>1, <3>2
  <2> HIDE DEF next
  <2> QED
    BY <2>1, <2>2
<1>7. Solved(after)
  BY <1>6
<1> HIDE DEF after
<1>8. /\ after[0] = {a}
      /\ \A n \in 1..N : after[n] = After(after[n - 1], n)
      /\ after = [n \in 0..N |-> after[n]]
  <2>1. 0 \in 0..N /\ \A n \in 1..N : n \in 0..N /\ n # 0
    BY <1>1
  <2>2. \A n \in 0..N : after[n] = IF n = 0 THEN {a} ELSE After(after[n - 1], n)
    BY <1>7
  <2>3. after = [n \in 0..N |-> after[n]]
    BY <1>7
  <2> QED
    BY <2>1, <2>2, <2>3
<1>9. \A n \in 0..N : after[n] \in R
  <2> DEFINE G == {n \in 0..N : after[n] \in R}
  <2>1. 0 \in G
    BY <1>1, <1>2, <1>8
  <2>2. ASSUME NEW n \in 1..N, n - 1 \in G
        PROVE  n \in G
    <3>1. After(after[n - 1], n) \in R
      BY <1>3, <2>2
    <3>2. n \in 0..N
      BY <1>1
    <3> QED
      BY <1>8, <3>1, <3>2
  <2> HIDE DEF G
  <2>3. 0..N \subseteq G
    BY <1>1, <2>1, <2>2, UpToInduction
  <2> QED
    BY <2>3 DEF G
<1>10. after \in [0..N -> R]
  BY <1>8, <1>9
<1> QED
  BY <1>4, <1>8, <1>10 DEF R, After, RewritesBy

(* An action that rules rewrite keeps its id, gets no name that it did not *)
(* have and loses none, and is changed only where an enabled rule is about *)
(* the field.  An argument appears only at the path of a rule that matches *)
(* what is not there, as one posted without a match does, and is lost only *)
(* above the path of one: for any action, however many rules were posted.  *)
THEOREM RewritingKeepsTheShape ==
    ASSUME PathsNest, NEW V, NEW a \in Captured(V), NEW T, NEW held \in Seq(T),
           \A n \in DOMAIN held : IsRewriting(V, held[n]),
           NEW b \in Proxy!Rewritten(a, held)
    PROVE  /\ b.id = a.id
           /\ \A field \in Proxy!NamedFields : b[field] = None <=> a[field] = None
           /\ \A field \in Proxy!NamedFields : b[field] # a[field] =>
                  \E n \in DOMAIN held : held[n].enabled /\ held[n].field = field
           /\ b.args # a.args => \E n \in DOMAIN held : Argues(held[n])
           /\ \A p \in DOMAIN b.args \ DOMAIN a.args :
                  \E n \in DOMAIN held : Bare(held[n]) /\ held[n].path = p
           /\ \A p \in DOMAIN a.args \ DOMAIN b.args :
                  \E n \in DOMAIN held : Bare(held[n]) /\ p \in Above[held[n].path]
<1> DEFINE N == Len(held)
           Named(c) == /\ c.id = a.id
                       /\ \A field \in Proxy!NamedFields : c[field] = None <=> a[field] = None
                       /\ \A field \in Proxy!NamedFields : c[field] # a[field] =>
                              \E n \in DOMAIN held : held[n].enabled /\ held[n].field = field
           Argued(c) == /\ c.args # a.args => \E n \in DOMAIN held : Argues(held[n])
                        /\ \A p \in DOMAIN c.args \ DOMAIN a.args :
                               \E n \in DOMAIN held : Bare(held[n]) /\ held[n].path = p
                        /\ \A p \in DOMAIN a.args \ DOMAIN c.args :
                               \E n \in DOMAIN held : Bare(held[n]) /\ p \in Above[held[n].path]
           Kept(c) == Named(c) /\ Argued(c)
<1>1. N \in Nat /\ DOMAIN held = 1..N
  BY LenProperties
<1>0. PICK f \in [0..N -> SUBSET Captured(V)] : RewritesBy(f, a, held)
  BY RewritingSteps
<1>2. /\ f \in [0..N -> SUBSET Captured(V)]
      /\ f[0] = {a} /\ Proxy!Rewritten(a, held) = f[N]
      /\ \A n \in 1..N : f[n] = AfterRule(f[n - 1], held[n])
  BY <1>0 DEF RewritesBy
<1> HIDE DEF N
<1> DEFINE G == {n \in 0..N : \A c \in f[n] : Kept(c)}
<1>3. 0 \in G
  BY <1>1, <1>2
<1>4. ASSUME NEW n \in 1..N, n - 1 \in G
      PROVE  n \in G
  <2>1. n \in 0..N /\ n - 1 \in 0..N
    BY <1>1
  <2>2. ASSUME NEW d \in f[n]
        PROVE  Kept(d)
    <3>1. PICK c \in f[n - 1] : d \in Proxy!ApplyRule(c, held[n])
      BY <1>2, <2>2 DEF AfterRule
    <3>2. c \in Captured(V) /\ Kept(c)
      BY <1>2, <1>4, <2>1
    <3>3. IsRewriting(V, held[n])
      BY <1>1
    <3>4. /\ d.id = c.id
          /\ \A field \in Proxy!NamedFields : d[field] = None <=> c[field] = None
          /\ \A field \in Proxy!NamedFields :
                 d[field] # c[field] => held[n].enabled /\ held[n].field = field
          /\ d.args # c.args => Argues(held[n])
          /\ \A p \in DOMAIN d.args \ DOMAIN c.args : Bare(held[n]) /\ held[n].path = p
          /\ \A p \in DOMAIN c.args \ DOMAIN d.args : Bare(held[n]) /\ p \in Above[held[n].path]
      BY <3>1, <3>2, <3>3, RuleWritesItsField
    <3>5. n \in DOMAIN held
      BY <1>1
    <3>6. Named(d)
      BY <3>2, <3>4, <3>5
    <3>7. Argued(d)
      BY <3>2, <3>4, <3>5
    <3> QED
      BY <3>6, <3>7
  <2> HIDE DEF Kept
  <2> QED
    BY <2>1, <2>2
<1>5. 0..N \subseteq G
  <2> HIDE DEF G
  <2> QED
    BY <1>1, <1>3, <1>4, UpToInduction
<1>6. N \in 0..N /\ b \in f[N]
  BY <1>1, <1>2
<1>7. Kept(b)
  BY <1>5, <1>6
<1> QED
  BY <1>7

(* What the first rules of a list make of an action is what the list has   *)
(* made of it by then.                                                     *)
LEMMA RewrittenSoFar ==
    ASSUME PathsNest, NEW V, NEW a \in Captured(V), NEW T, NEW held \in Seq(T),
           \A n \in DOMAIN held : IsRewriting(V, held[n]),
           NEW f, RewritesBy(f, a, held),
           NEW m \in 0..Len(held)
    PROVE  Proxy!Rewritten(a, SubSeq(held, 1, m)) = f[m]
<1> DEFINE first == SubSeq(held, 1, m)
<1>1. m \in Nat /\ DOMAIN held = 1..Len(held) /\ Len(held) \in Nat
  BY LenProperties
<1>2. first \in Seq(T) /\ Len(first) = m /\ \A n \in 1..m : first[n] = held[n]
  BY <1>1
<1> HIDE DEF first
<1>3. \A n \in 1..m : n \in 1..Len(held)
  BY <1>1
<1>4. DOMAIN first = 1..m /\ \A n \in DOMAIN first : IsRewriting(V, first[n])
  BY <1>1, <1>2, <1>3, LenProperties
<1>0. PICK g \in [0..Len(first) -> SUBSET Captured(V)] : RewritesBy(g, a, first)
  BY <1>2, <1>4, RewritingSteps
<1>5. /\ g[0] = {a} /\ Proxy!Rewritten(a, first) = g[m] /\ f[0] = {a}
      /\ \A n \in 1..m : g[n] = AfterRule(g[n - 1], first[n])
      /\ \A n \in 1..Len(held) : f[n] = AfterRule(f[n - 1], held[n])
  BY <1>0, <1>2 DEF RewritesBy
<1> DEFINE G == {n \in 0..m : g[n] = f[n]}
<1>6. 0 \in G
  <2>1. 0 \in 0..m /\ g[0] = f[0]
    BY <1>1, <1>5
  <2> QED
    BY <2>1
<1>7. ASSUME NEW n \in 1..m, n - 1 \in G
      PROVE  n \in G
  <2>1. n \in 0..m /\ g[n - 1] = f[n - 1] /\ first[n] = held[n]
    BY <1>1, <1>2, <1>7
  <2>2. g[n] = f[n]
    BY <1>3, <1>5, <2>1
  <2> QED
    BY <2>1, <2>2
<1>8. 0..m \subseteq G
  <2> HIDE DEF G
  <2> QED
    BY <1>1, <1>6, <1>7, UpToInduction
<1>9. m \in 0..m
  BY <1>1
<1> QED
  BY <1>5, <1>8, <1>9 DEF first

(* An action is refused only by an enabled rule that is broken: one on the *)
(* arguments without a path, whatever it matches, or one whose replacement *)
(* is no name, on a name that the action has by then.                      *)
THEOREM RefusalsNameABrokenRule ==
    ASSUME PathsNest, NEW V, NEW a \in Captured(V), NEW T, NEW held \in Seq(T),
           \A n \in DOMAIN held : IsRewriting(V, held[n])
    PROVE  Proxy!Rewritten(a, held) = {} <=>
               \E n \in DOMAIN held :
                   LET r == held[n]
                   IN  /\ r.enabled
                       /\ \/ r.field \notin Proxy!NamedFields /\ r.path = None
                          \/ /\ r.field \in Proxy!NamedFields /\ ~Proxy!Replaceable(r)
                             /\ \A b \in Proxy!Rewritten(a, SubSeq(held, 1, n - 1)) :
                                   b[r.field] # None /\ b[r.field] \in r.matching
<1> DEFINE N == Len(held)
           Throws(b, r) == /\ r.enabled
                           /\ \/ r.field \notin Proxy!NamedFields /\ r.path = None
                              \/ /\ r.field \in Proxy!NamedFields /\ ~Proxy!Replaceable(r)
                                 /\ b[r.field] # None /\ b[r.field] \in r.matching
<1>1. N \in Nat /\ DOMAIN held = 1..N
  BY LenProperties
<1>0. PICK f \in [0..N -> SUBSET Captured(V)] : RewritesBy(f, a, held)
  BY RewritingSteps
<1>2. /\ f \in [0..N -> SUBSET Captured(V)]
      /\ f[0] = {a} /\ Proxy!Rewritten(a, held) = f[N]
      /\ \A n \in 1..N : f[n] = AfterRule(f[n - 1], held[n])
  BY <1>0 DEF RewritesBy
<1>3. \A n \in 0..N : Proxy!Rewritten(a, SubSeq(held, 1, n)) = f[n]
  BY <1>0, RewrittenSoFar
<1>4. ASSUME NEW b, NEW r, IsRewriting(V, r)
      PROVE  Proxy!ApplyRule(b, r) = {} <=> Throws(b, r)
  <2>1. CASE ~r.enabled
    BY <2>1 DEF Proxy!ApplyRule
  <2>2. CASE r.enabled /\ r.field \in Proxy!NamedFields
    <3>1. Proxy!ApplyRule(b, r) =
              IF b[r.field] = None \/ b[r.field] \notin r.matching THEN {b}
              ELSE {c \in {[b EXCEPT ![r.field] = r.replace]} : Proxy!Replaceable(r)}
      BY <2>2 DEF Proxy!ApplyRule, Proxy!NamedFields, Proxy!None, None
    <3> QED
      BY <2>2, <3>1
  <2>3. CASE r.enabled /\ r.field \notin Proxy!NamedFields
    <3>1. Proxy!ApplyRule(b, r) =
              IF r.path = None THEN {}
              ELSE IF Proxy!ArgumentMatches(b.args, r)
                   THEN {[b EXCEPT !.args = Proxy!WritePath(b.args, r.path, r.replace)]}
                   ELSE {b}
      BY <2>3 DEF Proxy!ApplyRule, Proxy!None, None
    <3> QED
      BY <2>3, <3>1
  <2> QED
    BY <1>4, <2>1, <2>2, <2>3 DEF IsRewriting
<1> HIDE DEF N
<1>5. \A n \in 1..N : f[n] = {} <=> \A b \in f[n - 1] : Throws(b, held[n])
  <2> TAKE n \in 1..N
  <2>1. IsRewriting(V, held[n])
    BY <1>1
  <2>2. \A b : Proxy!ApplyRule(b, held[n]) = {} <=> Throws(b, held[n])
    BY <1>4, <2>1
  <2> HIDE DEF Throws
  <2>3. AfterRule(f[n - 1], held[n]) = {} <=> \A b \in f[n - 1] : Throws(b, held[n])
    BY <2>2 DEF AfterRule
  <2> QED
    BY <1>2, <2>3
<1>6. ASSUME NEW n \in 1..N, \A b \in f[n - 1] : Throws(b, held[n])
      PROVE  f[N] = {}
  <2> DEFINE G == {k \in 0..N : k >= n => f[k] = {}}
  <2>1. 0 \in G
    BY <1>1
  <2>2. ASSUME NEW k \in 1..N, k - 1 \in G
        PROVE  k \in G
    <3>1. k \in 0..N
      BY <1>1
    <3>2. k < n \/ k = n \/ f[k - 1] = {}
      BY <1>1, <2>2
    <3>3. f[k - 1] = {} => f[k] = {}
      BY <1>5
    <3>4. f[n] = {}
      BY <1>5, <1>6
    <3> QED
      BY <1>1, <3>1, <3>2, <3>3, <3>4
  <2>3. 0..N \subseteq G
    <3> HIDE DEF G
    <3> QED
      BY <1>1, <2>1, <2>2, UpToInduction
  <2> QED
    BY <1>1, <2>3
<1>7. ASSUME f[N] = {}
      PROVE  \E n \in 1..N : f[n - 1] # {} /\ \A b \in f[n - 1] : Throws(b, held[n])
  <2> DEFINE G == {k \in 0..N : f[k] # {}}
  <2>1. SUFFICES ASSUME \A n \in 1..N : f[n - 1] # {} => f[n] # {}
                 PROVE  FALSE
    BY <1>5
  <2>2. 0 \in G
    <3>1. 0 \in 0..N /\ f[0] # {}
      BY <1>1, <1>2
    <3> QED
      BY <3>1
  <2>3. ASSUME NEW k \in 1..N, k - 1 \in G
        PROVE  k \in G
    BY <1>1, <2>1, <2>3
  <2>4. 0..N \subseteq G
    <3> HIDE DEF G
    <3> QED
      BY <1>1, <2>2, <2>3, UpToInduction
  <2> QED
    BY <1>1, <1>7, <2>4
<1> DEFINE Breaks(r, given) ==
               /\ r.enabled
               /\ \/ r.field \notin Proxy!NamedFields /\ r.path = None
                  \/ /\ r.field \in Proxy!NamedFields /\ ~Proxy!Replaceable(r)
                     /\ \A b \in given : b[r.field] # None /\ b[r.field] \in r.matching
<1>8. ASSUME NEW r, NEW given
      PROVE  (\A b \in given : Throws(b, r)) <=> given = {} \/ Breaks(r, given)
  OBVIOUS
<1>9. \A n \in 1..N : Proxy!Rewritten(a, SubSeq(held, 1, n - 1)) = f[n - 1]
  <2> TAKE n \in 1..N
  <2>1. n - 1 \in 0..N
    BY <1>1
  <2> QED
    BY <1>3, <2>1
<1>10. f[N] = {} <=> \E n \in 1..N : Breaks(held[n], f[n - 1])
  <2> HIDE DEF Throws, Breaks
  <2> QED
    BY <1>6, <1>7, <1>8
<1> QED
  BY <1>1, <1>2, <1>9, <1>10

AtRest(b, r) ==
    \/ ~r.enabled
    \/ r.field \in Proxy!NamedFields /\ (b[r.field] = None \/ b[r.field] \notin r.matching)
    \/ r.field \notin Proxy!NamedFields /\ r.path # None /\ ~Proxy!ArgumentMatches(b.args, r)

(* What one rule writes: nothing, or its replacement at the place it names.*)
WroteName(b, r, c) ==
    /\ r.field \in Proxy!NamedFields /\ c[r.field] = r.replace /\ c.args = b.args
    /\ \A field \in Proxy!NamedFields : field # r.field => c[field] = b[field]

WroteArgument(b, r, c) ==
    /\ r.field \notin Proxy!NamedFields /\ r.path # None /\ r.path \in DOMAIN Above
    /\ \A field \in Proxy!NamedFields : c[field] = b[field]
    /\ c.args = Proxy!WritePath(b.args, r.path, r.replace)

LEMMA WhatARuleWrites ==
    ASSUME NEW V, NEW b \in Captured(V), NEW r, IsRewriting(V, r), NEW c \in Proxy!ApplyRule(b, r)
    PROVE  (c = b /\ AtRest(b, r)) \/ WroteName(b, r, c) \/ WroteArgument(b, r, c)
<1>1. CASE ~r.enabled
  BY <1>1 DEF Proxy!ApplyRule, AtRest
<1>2. CASE r.enabled /\ r.field \in Proxy!NamedFields
  <2>1. Proxy!ApplyRule(b, r) =
            IF b[r.field] = None \/ b[r.field] \notin r.matching THEN {b}
            ELSE {d \in {[b EXCEPT ![r.field] = r.replace]} : Proxy!Replaceable(r)}
    BY <1>2 DEF Proxy!ApplyRule, Proxy!None, None
  <2>2. CASE b[r.field] = None \/ b[r.field] \notin r.matching
    BY <1>2, <2>1, <2>2 DEF AtRest
  <2>3. CASE c = [b EXCEPT ![r.field] = r.replace]
    <3>1. CASE r.field = "tool"
      BY <2>3, <3>1 DEF Captured, Proxy!NamedFields, WroteName
    <3>2. CASE r.field = "action"
      BY <2>3, <3>2 DEF Captured, Proxy!NamedFields, WroteName
    <3>3. CASE r.field = "target"
      BY <2>3, <3>3 DEF Captured, Proxy!NamedFields, WroteName
    <3> QED
      BY <1>2, <3>1, <3>2, <3>3 DEF Proxy!NamedFields
  <2> QED
    BY <2>1, <2>2, <2>3
<1>3. CASE r.enabled /\ r.field \notin Proxy!NamedFields
  <2> DEFINE h == Proxy!WritePath(b.args, r.path, r.replace)
  <2>1. Proxy!ApplyRule(b, r) =
            IF r.path = None THEN {}
            ELSE IF Proxy!ArgumentMatches(b.args, r) THEN {[b EXCEPT !.args = h]} ELSE {b}
    BY <1>3 DEF Proxy!ApplyRule, Proxy!None, None
  <2>2. CASE ~Proxy!ArgumentMatches(b.args, r)
    BY <1>3, <2>1, <2>2 DEF AtRest
  <2>3. CASE r.path # None /\ c = [b EXCEPT !.args = h]
    <3> HIDE DEF h
    <3>1. c.args = h /\ c.tool = b.tool /\ c.action = b.action /\ c.target = b.target
      BY <2>3 DEF Captured
    <3> QED
      BY <1>3, <2>3, <3>1 DEF Proxy!NamedFields, IsRewriting, WroteArgument, h
  <2> QED
    BY <2>1, <2>2, <2>3
<1> QED
  BY <1>1, <1>2, <1>3

(* What is written at a path disturbs no rule on the arguments that does   *)
(* not match it: what it takes the place of lies above the path, where     *)
(* there is an object now.                                                 *)
LEMMA WritingDisturbsNoOther ==
    ASSUME PathsNest, NEW g, NEW path \in DOMAIN Above, NEW v,
           NEW h, h = Proxy!WritePath(g, path, v),
           NEW q, v \notin q.matching, q.path = path \/ ~Proxy!ArgumentMatches(g, q)
    PROVE  ~Proxy!ArgumentMatches(h, q)
<1>1. /\ DOMAIN h = (DOMAIN g \ Above[path]) \cup {path}
      /\ \A p \in DOMAIN h : h[p] = IF p = path THEN v ELSE g[p]
  BY DEF Proxy!WritePath
<1>2. CASE q.path = path
  BY <1>1, <1>2 DEF Proxy!ArgumentMatches, Proxy!ReadPath
<1>3. CASE q.path \in Above[path]
  BY <1>1, <1>3 DEF Proxy!ArgumentMatches
<1>4. CASE q.path # path /\ q.path \notin Above[path]
  <2>1. CASE Proxy!ReadPath(g, q.path) \notin q.matching
    BY <1>1, <1>4, <2>1 DEF Proxy!ArgumentMatches, Proxy!ReadPath
  <2>2. ASSUME NEW p \in DOMAIN g, q.path \in Above[p]
        PROVE  ~Proxy!ArgumentMatches(h, q)
    <3>1. p \notin Above[path]
      BY <1>4, <2>2 DEF PathsNest
    <3> QED
      BY <1>1, <2>2, <3>1 DEF Proxy!ArgumentMatches
  <2> QED
    BY <1>4, <2>1, <2>2 DEF Proxy!ArgumentMatches
<1> QED
  BY <1>2, <1>3, <1>4

(* A rule leaves what it wrote alone, and disturbs no rule that does not   *)
(* match what it writes.                                                   *)
LEMMA RulesComeToRest ==
    ASSUME PathsNest, NEW V, NEW b \in Captured(V),
           NEW r, IsRewriting(V, r), NEW q, IsRewriting(V, q),
           r.replace \notin q.matching, q = r \/ AtRest(b, q),
           NEW c \in Proxy!ApplyRule(b, r)
    PROVE  AtRest(c, q)
<1>1. (c = b /\ AtRest(b, r)) \/ WroteName(b, r, c) \/ WroteArgument(b, r, c)
  BY WhatARuleWrites
<1>2. CASE c = b /\ AtRest(b, r)
  BY <1>2
<1>3. CASE WroteName(b, r, c)
  BY <1>3 DEF AtRest, WroteName
<1>4. CASE WroteArgument(b, r, c)
  <2>1. CASE q.field \in Proxy!NamedFields
    BY <1>4, <2>1 DEF AtRest, WroteArgument
  <2>2. CASE q.enabled /\ q.field \notin Proxy!NamedFields
    <3>1. q.path # None
      <4>1. r.path # None
        BY <1>4 DEF WroteArgument
      <4> QED
        BY <2>2, <4>1 DEF AtRest
    <3>2. q.path = r.path \/ ~Proxy!ArgumentMatches(b.args, q)
      BY <2>2 DEF AtRest
    <3>3. ~Proxy!ArgumentMatches(c.args, q)
      BY <1>4, <3>2, WritingDisturbsNoOther DEF WroteArgument
    <3> QED
      BY <2>2, <3>1, <3>3 DEF AtRest
  <2> QED
    BY <2>1, <2>2 DEF AtRest
<1> QED
  BY <1>1, <1>2, <1>3, <1>4

LEMMA AtRestIsLeft ==
    ASSUME NEW b, NEW r, AtRest(b, r)
    PROVE  Proxy!ApplyRule(b, r) = {b}
BY DEF AtRest, Proxy!ApplyRule, Proxy!None, None

(* What a list of rules made of an action, it leaves alone the next time,  *)
(* as when the repeater sends a rewritten action again, unless a rule      *)
(* matches what another one at or after it writes.                         *)
THEOREM RewritingSettles ==
    ASSUME PathsNest, NEW V, NEW a \in Captured(V), NEW T, NEW held \in Seq(T),
           \A n \in DOMAIN held : IsRewriting(V, held[n]),
           \A m, n \in DOMAIN held : m <= n => held[n].replace \notin held[m].matching,
           NEW b \in Proxy!Rewritten(a, held)
    PROVE  Proxy!Rewritten(b, held) = {b}
<1> DEFINE N == Len(held)
<1>1. N \in Nat /\ DOMAIN held = 1..N
  BY LenProperties
<1>2. PICK f \in [0..N -> SUBSET Captured(V)] : RewritesBy(f, a, held)
  BY RewritingSteps
<1>3. /\ f[0] = {a} /\ b \in f[N]
      /\ \A n \in 1..N : f[n] = AfterRule(f[n - 1], held[n])
  BY <1>2 DEF RewritesBy
<1>4. b \in Captured(V)
  BY <1>1, <1>3
<1>5. PICK g \in [0..N -> SUBSET Captured(V)] : RewritesBy(g, b, held)
  BY <1>4, RewritingSteps
<1>6. /\ g[0] = {b} /\ Proxy!Rewritten(b, held) = g[N]
      /\ \A n \in 1..N : g[n] = AfterRule(g[n - 1], held[n])
  BY <1>5 DEF RewritesBy
<1> HIDE DEF N
<1> DEFINE G == {n \in 0..N : \A c \in f[n] : \A m \in 1..n : AtRest(c, held[m])}
<1>7. 0 \in G
  BY <1>1
<1>8. ASSUME NEW n \in 1..N, n - 1 \in G
      PROVE  n \in G
  <2>1. n \in 0..N /\ n - 1 \in 0..N /\ \A m \in 1..n : m \in 1..N /\ m <= n /\ (m = n \/ m \in 1..(n - 1))
    BY <1>1
  <2>2. ASSUME NEW d \in f[n], NEW m \in 1..n
        PROVE  AtRest(d, held[m])
    <3>1. PICK c \in f[n - 1] : d \in Proxy!ApplyRule(c, held[n])
      BY <1>3, <2>2 DEF AfterRule
    <3>2. c \in Captured(V) /\ IsRewriting(V, held[n]) /\ IsRewriting(V, held[m])
      BY <1>1, <2>1
    <3>3. held[n].replace \notin held[m].matching
      BY <1>1, <2>1
    <3>4. held[m] = held[n] \/ AtRest(c, held[m])
      BY <1>8, <2>1
    <3> QED
      BY <3>1, <3>2, <3>3, <3>4, RulesComeToRest
  <2> QED
    BY <2>1, <2>2
<1>9. 0..N \subseteq G
  <2> HIDE DEF G
  <2> QED
    BY <1>1, <1>7, <1>8, UpToInduction
<1>10. \A m \in 1..N : AtRest(b, held[m])
  <2>1. N \in G
    BY <1>1, <1>9
  <2> QED
    BY <1>3, <2>1
<1> DEFINE H == {n \in 0..N : g[n] = {b}}
<1>11. 0 \in H
  <2>1. 0 \in 0..N /\ g[0] = {b}
    BY <1>1, <1>6
  <2> QED
    BY <2>1
<1>12. ASSUME NEW n \in 1..N, n - 1 \in H
       PROVE  n \in H
  <2>1. Proxy!ApplyRule(b, held[n]) = {b}
    <3>1. IsRewriting(V, held[n]) /\ AtRest(b, held[n])
      BY <1>1, <1>10
    <3> QED
      BY <3>1, AtRestIsLeft
  <2>2. AfterRule({b}, held[n]) = {b}
    BY <2>1 DEF AfterRule
  <2>3. n \in 0..N /\ g[n - 1] = {b}
    BY <1>1, <1>12
  <2>4. g[n] = {b}
    BY <1>6, <2>2, <2>3
  <2> QED
    BY <2>3, <2>4
<1>13. 0..N \subseteq H
  <2> HIDE DEF H
  <2> QED
    BY <1>1, <1>11, <1>12, UpToInduction
<1>14. N \in H
  BY <1>1, <1>13
<1> QED
  BY <1>6, <1>14
===============================================================================
