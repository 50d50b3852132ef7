---------------------------- MODULE PolicyProofs ----------------------------
(***************************************************************************)
(* Lemmas on the decision functions and the compiled rules, for any        *)
(* actions and any set of rules.                                           *)
(***************************************************************************)
EXTENDS CorrectionCompiler, DataLemmas

(* A record with the fields of a rule.                                     *)
IsRule(r) ==
    r = [id |-> r.id, from |-> r.from, tool |-> r.tool, action |-> r.action,
         target |-> r.target, cond |-> r.cond, verdict |-> r.verdict, status |-> r.status]

(***************************************************************************)
(* What a rule lets through.                                               *)
(***************************************************************************)
(* An approved action's rule matches nothing outside the action's class.   *)
LEMMA ApprovalRuleIsNarrow ==
    ASSUME NEW a, NEW b, NEW id, NEW from,
           Matches(b, ApprovalRule(id, from, a))
    PROVE  SameApprovedClass(a, b)
<1> DEFINE r == ApprovalRule(id, from, a)
           counted == a.tool = "gh" /\ a.action = "pr-merge" /\ "reviews.approved" \in DOMAIN a.args
<1>1. /\ r.tool = a.tool /\ r.action = a.action
      /\ r.target = TargetPatternFor(a.target)
      /\ counted => r.cond = Condition("reviews.approved", ">=", a.args["reviews.approved"])
  BY DEF ApprovalRule, RuleOf, ApprovalScope, Override, OriginScope
<1> HIDE DEF r
<1>2. /\ r.tool \in {"*", b.tool} /\ r.action \in {"*", b.action}
      /\ TargetMatches(r.target, b.target)
      /\ HasCondition(r) => ConditionMatches(b, r.cond)
  BY DEF Matches, r
<1>3. a.tool \in {"*", b.tool} /\ a.action \in {"*", b.action}
  BY <1>1, <1>2
<1>4. \/ a.target \in {None, b.target}
      \/ a.target \in PullRequests /\ b.target \in Wildcards["PR#*"]
      \/ a.target \in DOMAIN Wildcards /\ b.target \in Wildcards[a.target]
  BY <1>1, <1>2, WildcardsAssumption DEF TargetMatches, WildcardMatch, TargetPatternFor, None
<1>5. ASSUME counted
      PROVE  /\ "reviews.approved" \in DOMAIN b.args
             /\ b.args["reviews.approved"] >= a.args["reviews.approved"]
  <2>1. r.cond = [field |-> "reviews.approved", op |-> ">=", value |-> a.args["reviews.approved"]]
    BY <1>1, <1>5 DEF Condition
  <2>2. HasCondition(r)
    BY <2>1 DEF HasCondition, None
  <2> QED
    BY <1>2, <2>1, <2>2 DEF ConditionMatches
<1> QED
  BY <1>3, <1>4, <1>5 DEF SameApprovedClass

(* A correction never compiles to a rule that allows.                      *)
LEMMA ProposedRuleDoesNotAllow ==
    ASSUME NEW id, NEW from, NEW atom, NEW a
    PROVE  ProposedRule(id, from, atom, a).verdict # "allow"
BY DEF ProposedRule, RuleOf, CompiledVerdict

(* The engine goes ahead only on a rule that says so.                      *)
LEMMA DecideNeedsAnAllowRule ==
    ASSUME NEW a, NEW known, NEW mode, NEW scope,
           mode # "shadow", InScope(a, scope), Decide(a, known, mode, scope).allowed
    PROVE  \E r \in known : r.verdict = "allow" /\ Matches(a, r)
<1> DEFINE best == CHOOSE r \in BestMatchingRules(a, known) : TRUE
<1>1. BestMatchingRules(a, known) # {}
  BY DEF Decide, Decision
<1>2. best \in known /\ Matches(a, best)
  BY <1>1 DEF BestMatchingRules, Candidates
<1>3. Decide(a, known, mode, scope) = DecisionFromRule(best, mode)
  BY <1>1 DEF Decide
<1>4. best.verdict = "allow"
  <2> HIDE DEF best
  <2>1. DecisionFromRule(best, mode).allowed = (best.verdict = "allow")
    BY DEF DecisionFromRule, Decision
  <2> QED
    BY <1>3, <2>1
<1> QED
  BY <1>2, <1>4

(***************************************************************************)
(* The order of bestMatchingRule.                                          *)
(***************************************************************************)
HaveVerdicts(known) == \A r \in known : r.verdict \in Verdicts

LEMMA RankBounds ==
    ASSUME NEW r, r.verdict \in Verdicts
    PROVE  Specificity(r) \in 0..15 /\ VerdictRank(r.verdict) \in 1..3
BY DEF Specificity, VerdictRank, Verdicts

LEMMA RankIsFaithful ==
    ASSUME NEW v \in Verdicts, NEW w \in Verdicts, VerdictRank(v) = VerdictRank(w)
    PROVE  v = w
BY DEF VerdictRank, Verdicts

(* Where some active rule matches, one of them is outranked by none.       *)
LEMMA BestRuleExists ==
    ASSUME NEW a, NEW known, HaveVerdicts(known), Candidates(a, known) # {}
    PROVE  BestMatchingRules(a, known) # {}
<1> DEFINE C == Candidates(a, known)
           gap(r) == 63 - (4 * Specificity(r) + VerdictRank(r.verdict))
           gaps == {gap(r) : r \in C}
<1>1. \A r \in C : Specificity(r) \in 0..15 /\ VerdictRank(r.verdict) \in 1..3
  BY RankBounds DEF Candidates, HaveVerdicts
<1>2. gaps \in SUBSET Nat /\ gaps # {}
  <2>1. \A r \in C : gap(r) \in Nat
    BY <1>1
  <2> QED
    BY <2>1
<1> HIDE DEF gaps
<1>3. PICK m \in gaps : \A n \in gaps : m <= n
  BY <1>2, LeastElement
<1>4. PICK r \in C : m = gap(r)
  BY <1>3 DEF gaps
<1>5. \A s \in C : gap(r) <= gap(s)
  BY <1>3, <1>4 DEF gaps
<1> HIDE DEF C
<1>6. \A s \in C : ~Outranks(s, r)
  BY <1>1, <1>4, <1>5 DEF Outranks
<1> QED
  BY <1>4, <1>6 DEF BestMatchingRules, C

(* The rules that are outranked by none agree.                             *)
LEMMA BestRulesAgree ==
    ASSUME NEW a, NEW known, HaveVerdicts(known),
           NEW r \in BestMatchingRules(a, known), NEW s \in BestMatchingRules(a, known)
    PROVE  Specificity(r) = Specificity(s) /\ r.verdict = s.verdict
<1>1. /\ r \in Candidates(a, known) /\ s \in Candidates(a, known)
      /\ ~Outranks(r, s) /\ ~Outranks(s, r)
  BY DEF BestMatchingRules
<1>2. r.verdict \in Verdicts /\ s.verdict \in Verdicts
  BY <1>1 DEF Candidates, HaveVerdicts
<1>3. /\ Specificity(r) \in 0..15 /\ VerdictRank(r.verdict) \in 1..3
      /\ Specificity(s) \in 0..15 /\ VerdictRank(s.verdict) \in 1..3
  BY <1>2, RankBounds
<1>4. Specificity(r) = Specificity(s) /\ VerdictRank(r.verdict) = VerdictRank(s.verdict)
  BY <1>1, <1>3 DEF Outranks
<1> QED
  BY <1>2, <1>4, RankIsFaithful

(* In learned mode, in scope, an action is allowed exactly when an active  *)
(* allow rule for it is more specific than all that would hold it back.    *)
LEMMA AllowedIffMostSpecific ==
    ASSUME NEW a, NEW known, HaveVerdicts(known)
    PROVE  Decide(a, known, "learned", NoScope).allowed <=>
              \E r \in Candidates(a, known) :
                  /\ r.verdict = "allow"
                  /\ \A s \in Candidates(a, known) :
                        s.verdict # "allow" => Specificity(r) > Specificity(s)
<1> DEFINE C == Candidates(a, known)
           d == Decide(a, known, "learned", NoScope)
           best == CHOOSE r \in BestMatchingRules(a, known) : TRUE
           Wins(r) == /\ r.verdict = "allow"
                      /\ \A s \in C : s.verdict # "allow" => Specificity(r) > Specificity(s)
<1>1. InScope(a, NoScope)
  BY DEF InScope, NoScope
<1>2. CASE BestMatchingRules(a, known) = {}
  <2>1. d.allowed = ("ask" = "allow")
    BY <1>1, <1>2 DEF Decide, Decision
  <2>2. C = {}
    BY <1>2, BestRuleExists
  <2> QED
    BY <2>1, <2>2
<1>3. CASE BestMatchingRules(a, known) # {}
  <2>1. best \in BestMatchingRules(a, known)
    BY <1>3
  <2>2. d.allowed = (best.verdict = "allow")
    <3>1. d = DecisionFromRule(best, "learned")
      BY <1>1, <1>3 DEF Decide
    <3> HIDE DEF best
    <3>2. DecisionFromRule(best, "learned").allowed = (best.verdict = "allow")
      BY DEF DecisionFromRule, Decision
    <3> QED
      BY <3>1, <3>2
  <2> HIDE DEF best, d
  <2>3. best \in C /\ \A s \in C : ~Outranks(s, best)
    BY <2>1 DEF BestMatchingRules
  <2>4. \A s \in C : /\ Specificity(s) \in 0..15 /\ VerdictRank(s.verdict) \in 1..3
                     /\ s.verdict \in Verdicts
    BY RankBounds DEF Candidates, HaveVerdicts
  <2> HIDE DEF C
  <2>5. \A s \in C : s.verdict # "allow" => VerdictRank(s.verdict) > VerdictRank("allow")
    BY <2>4 DEF VerdictRank, Verdicts
  <2>6. ASSUME best.verdict = "allow" PROVE Wins(best)
    BY <2>3, <2>4, <2>5, <2>6 DEF Outranks
  <2>7. ASSUME NEW r \in C, Wins(r) PROVE best.verdict = "allow"
    BY <2>3, <2>4, <2>7 DEF Outranks
  <2>8. (best.verdict = "allow") <=> \E r \in C : Wins(r)
    BY <2>3, <2>6, <2>7
  <2> HIDE DEF Wins
  <2>9. d.allowed <=> \E r \in C : Wins(r)
    BY <2>2, <2>8
  <2> QED
    BY <2>9 DEF C, d, Wins
<1> QED
  BY <1>2, <1>3

(* Rules that are not active decide nothing.                               *)
LEMMA OnlyCandidatesDecide ==
    ASSUME NEW a, NEW known, NEW more, NEW mode, NEW scope,
           Candidates(a, known) = Candidates(a, more)
    PROVE  Decide(a, known, mode, scope) = Decide(a, more, mode, scope)
BY DEF Decide, BestMatchingRules
=============================================================================
