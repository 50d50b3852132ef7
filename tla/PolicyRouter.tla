----------------------------- MODULE PolicyRouter -----------------------------
(***************************************************************************)
(* packages/policy-router: which of the rules of a store speak about a     *)
(* workstream at a stage, and the actions that are compiled from them.     *)
(* The store is a sequence of rules, read as it is and never checked.      *)
(*                                                                         *)
(* An optional field is a set of at most one element.  A condition is      *)
(* [requirementDropped, missingOwners, statusFrom], each optional: a key   *)
(* that the matcher does not know asks for nothing.                        *)
(***************************************************************************)
EXTENDS Integers, Sequences

Stages == {"detect", "enforce", "audit", "improve"}

ActionTypes ==
    {"change_status", "create_linear_workstream", "assign_owner", "block_agent_action",
     "require_approval", "generate_eval", "activate_policy", "record_audit_event"}

Expired(rule, now) == \E t \in rule.expiresAt : t < now

\* An owner is missing also when the output names none at all.
OwnersAreMissing(owners, context) ==
    \E owner \in owners : \A named \in context.owners : owner \notin named

ConditionHolds(condition, context) ==
    /\ \A r \in condition.requirementDropped : r \in context.missingRequirements
    /\ \A owners \in condition.missingOwners : OwnersAreMissing(owners, context)
    /\ \A status \in condition.statusFrom : context.currentStatus = {status}

\* createDefaultMatcher.  The status that a flip goes to is not looked at.
MatcherAccepts(rule, context, now) ==
    /\ ~Expired(rule, now)
    /\ rule.stage = context.stage
    /\ rule.scope = context.workstreamId
    /\ ConditionHolds(rule.condition, context)

\* The places in the store of the rules of a scope.
RulesByScope(rules, scope) == {n \in DOMAIN rules : rules[n].scope = scope}

FirstPlace(places) == CHOOSE n \in places : \A m \in places : n <= m

RuleById(rules, places, id) == rules[FirstPlace({n \in places : rules[n].id = id})]

\* One result for every rule of the scope, matched or not, in the order of the store.
MatchedRules(rules, context, now) ==
    [n \in RulesByScope(rules, context.workstreamId) |->
        [ruleId |-> rules[n].id, matched |-> MatcherAccepts(rules[n], context, now)]]

\* The action of a result that matched is that of the first rule with its id.
CompiledActions(rules, context, now) ==
    LET results == MatchedRules(rules, context, now)
    IN  [n \in {m \in DOMAIN results : results[m].matched} |->
            RuleById(rules, DOMAIN results, results[n].ruleId).action]

\* Nothing, for the response its contract refuses: the rules were never checked.
Route(rules, context, now) ==
    LET actions == CompiledActions(rules, context, now)
    IN  IF context.stage \notin Stages \/ \E n \in DOMAIN actions : actions[n] \notin ActionTypes
        THEN {}
        ELSE {[workstreamId |-> context.workstreamId, stage |-> context.stage,
               matchedRules |-> MatchedRules(rules, context, now), compiledActions |-> actions]}

GetActiveRules(rules, scope, now) ==
    {n \in RulesByScope(rules, scope) : \A t \in rules[n].expiresAt : t >= now}
===============================================================================
