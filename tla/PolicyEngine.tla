---------------------------- MODULE PolicyEngine ----------------------------
(***************************************************************************)
(* The pure decision functions of packages/policy: which learned rule      *)
(* governs an intercepted action, and what the proxy answers.  Nothing     *)
(* here keeps state; PolicyLearning and InterceptGateway are built on it.  *)
(*                                                                         *)
(* An action is [tool, action, target, args]: target is None when the      *)
(* action has none, args maps each structured field it carries to a value. *)
(* A numeric field holding something else than a number is left out of     *)
(* args: the engine treats both alike.  A flag is 0 or 1.  A rule is       *)
(* [id, from, tool, action, target, cond, verdict, status], target a       *)
(* pattern or None, cond a condition or NoCondition.                       *)
(***************************************************************************)
EXTENDS Integers

CONSTANTS
    PullRequests,   \* the targets of the form PR#<number>
    Wildcards,      \* for each text with a * in it, the texts it matches as a pattern
    NoRule          \* cited by a decision that no rule made

None == "none"

(* A * matches itself.  PR#* matches every target that begins with PR#, be *)
(* it a number, a branch or an address; none of the numbers has a * in it. *)
ASSUME WildcardsAssumption ==
    /\ \A pattern \in DOMAIN Wildcards :
          pattern \in Wildcards[pattern] /\ None \notin Wildcards[pattern]
    /\ "PR#*" \in DOMAIN Wildcards
    /\ PullRequests \subseteq Wildcards["PR#*"] \ DOMAIN Wildcards

NoCondition == [field |-> None, op |-> None, value |-> 0]
NoScope == [configured |-> FALSE, include |-> {}, exclude |-> {}]

Verdicts == {"allow", "ask", "deny"}
Modes == {"shadow", "intercept", "learned"}
Sources == {"operator", "policy", "scope", "default-deny"}

VerdictRank(verdict) ==
    CASE verdict = "deny"  -> 3
      [] verdict = "ask"   -> 2
      [] verdict = "allow" -> 1

(* Every * of a pattern stands for any text, whoever wrote it there: a     *)
(* rule's target is a target that an agent attempted, taken over as it is. *)
WildcardMatch(pattern, value) ==
    IF pattern \in DOMAIN Wildcards THEN value \in Wildcards[pattern] ELSE value = pattern

TargetPatternFor(target) == IF target \in PullRequests THEN "PR#*" ELSE target

TargetMatches(pattern, target) ==
    pattern # None => target # None /\ WildcardMatch(pattern, target)

HasCondition(r) == r.cond.field # None

(* An absent field equals nothing, and is different from everything.       *)
ConditionMatches(a, c) ==
    IF c.field \notin DOMAIN a.args
    THEN c.op = "!="
    ELSE LET actual == a.args[c.field] IN
         CASE c.op = "<"  -> actual < c.value
           [] c.op = "<=" -> actual <= c.value
           [] c.op = ">"  -> actual > c.value
           [] c.op = ">=" -> actual >= c.value
           [] c.op = "==" -> actual = c.value
           [] c.op = "!=" -> actual # c.value

(* matchSpecificity returns null for a rule that does not match, else the  *)
(* sum of the weights of what the rule constrains.                         *)
Matches(a, r) ==
    /\ r.tool \in {"*", a.tool}
    /\ r.action \in {"*", a.action}
    /\ TargetMatches(r.target, a.target)
    /\ HasCondition(r) => ConditionMatches(a, r.cond)

Specificity(r) ==
      (IF r.tool   # "*"         THEN 1 ELSE 0)
    + (IF r.action # "*"         THEN 2 ELSE 0)
    + (IF r.target # None        THEN 4 ELSE 0)
    + (IF HasCondition(r)        THEN 8 ELSE 0)

(* Mutant: among rules of one specificity the most permissive wins.        *)
OutranksPermissively(r, s) ==
    \/ Specificity(r) > Specificity(s)
    \/ /\ Specificity(r) = Specificity(s)
       /\ VerdictRank(r.verdict) < VerdictRank(s.verdict)

Outranks(r, s) ==
    \/ Specificity(r) > Specificity(s)
    \/ /\ Specificity(r) = Specificity(s)
       /\ VerdictRank(r.verdict) > VerdictRank(s.verdict)

(* Mutant: rules that were only proposed, or have retired, decide too.     *)
CandidatesOfAnyStatus(a, rules) == {r \in rules : Matches(a, r)}

Candidates(a, rules) == {r \in rules : r.status = "active" /\ Matches(a, r)}

(* Rules of one specificity and verdict are ordered by version, creation   *)
(* time and id.  That order only picks the rule that is cited.             *)
BestMatchingRules(a, rules) ==
    {r \in Candidates(a, rules) : \A s \in Candidates(a, rules) : ~Outranks(s, r)}

(***************************************************************************)
(* Proxy scope: a set of scope rules to include and one to exclude.  A     *)
(* scope rule is [tool, action, target] with "*" and None for what it      *)
(* leaves open.                                                            *)
(***************************************************************************)
ScopeRuleMatches(a, s) ==
    /\ s.tool \in {"*", a.tool}
    /\ s.action \in {"*", a.action}
    /\ TargetMatches(s.target, a.target)

InScope(a, scope) ==
    scope.configured =>
        /\ \A s \in scope.exclude : ~ScopeRuleMatches(a, s)
        /\ \E s \in scope.include : ScopeRuleMatches(a, s)

Decision(verdict, source, rule) ==
    [verdict |-> verdict, allowed |-> verdict = "allow", source |-> source, rule |-> rule]

DecisionFromRule(r, mode) ==
    Decision(IF mode = "shadow" THEN "allow" ELSE r.verdict, "policy", r.id)

Decide(a, rules, mode, scope) ==
    IF ~InScope(a, scope)
    THEN Decision("allow", "scope", NoRule)
    ELSE IF BestMatchingRules(a, rules) # {}
    THEN DecisionFromRule(CHOOSE r \in BestMatchingRules(a, rules) : TRUE, mode)
    ELSE Decision(IF mode = "shadow" THEN "allow" ELSE "ask", "default-deny", NoRule)

(* Mutant: an unreadable store lets the action through.                    *)
FailedOpen == Decision("allow", "default-deny", NoRule)

(* What decideFromStore answers when the policy store throws.              *)
FailedClosed == Decision("deny", "default-deny", NoRule)
=============================================================================
