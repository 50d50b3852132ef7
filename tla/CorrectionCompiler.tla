------------------------- MODULE CorrectionCompiler -------------------------
(***************************************************************************)
(* How an operator's verdict on a held action becomes rules:               *)
(* compileCorrection (packages/governance) for a disapproval,              *)
(* compileApprovalRule (the gateway) for an approval.                      *)
(*                                                                         *)
(* compileCorrection splits the operator's words into atoms and looks for  *)
(* phrases in each.  An atom is the set of the phrases found in it:        *)
(*   "vague"                 fewer than three words, or a phrase like "do  *)
(*                           better"                                       *)
(*   "never" "ask" "include" "shape" "hard"      the verb of a template    *)
(*   "both" "rejection"                          a review condition        *)
(*   "force" "fork" "visibility" "deploy" "merge"   the subject            *)
(* and a correction is the sequence of its atoms.                          *)
(***************************************************************************)
EXTENDS PolicyEngine, Sequences

Condition(field, op, value) == [field |-> field, op |-> op, value |-> value]

(* The spread { ...scope, ...with } of two scopes.                         *)
Override(scope, with) ==
    [k \in DOMAIN scope |-> IF k \in DOMAIN with THEN with[k] ELSE scope[k]]

OriginScope(a) ==
    [tool |-> a.tool, action |-> a.action,
     target |-> TargetPatternFor(a.target), cond |-> NoCondition]

PullRequestMerge == [tool |-> "gh", action |-> "pr-merge", target |-> "PR#*"]

ForcePush ==
    [tool |-> "git", action |-> "push", cond |-> Condition("args.force", "==", 1)]

(* inferScopeFromText: the first subject found decides.  A subject that    *)
(* names no target leaves the target of the held action in place.          *)
InferredScope(atom) ==
    IF "force" \in atom THEN ForcePush
    ELSE IF "fork" \in atom THEN [tool |-> "gh", action |-> "repo-fork"]
    ELSE IF "visibility" \in atom THEN [tool |-> "gh", action |-> "repo-edit-visibility"]
    ELSE IF "deploy" \in atom THEN [tool |-> "deploy", action |-> "deploy"]
    ELSE IF "merge" \in atom THEN PullRequestMerge
    ELSE <<>>

Templates == {"never", "ask", "include", "shape", "hard"}

ReviewCondition(atom) ==
    IF "both" \in atom
    THEN Condition("reviews.approved", "<", 2)
    ELSE Condition("reviews.rejected", ">=", 1)

(* Mutant: the phrase table does not know rejecting reviews.               *)
OnApprovalsOnly(atom) == {"merge", "both"} \subseteq atom

OnReviews(atom) == "merge" \in atom /\ atom \cap {"both", "rejection"} # {}

(* templateFor throws on every other atom.                                 *)
Compiles(atom) == "vague" \notin atom /\ (OnReviews(atom) \/ atom \cap Templates # {})

CompiledScope(atom, a) ==
    IF OnReviews(atom)
    THEN Override(Override(OriginScope(a), PullRequestMerge),
                  [cond |-> ReviewCondition(atom)])
    ELSE Override(OriginScope(a), InferredScope(atom))

CompiledVerdict(atom) ==
    IF OnReviews(atom) \/ atom \cap {"never", "include"} # {} THEN "deny" ELSE "ask"

RuleOf(id, from, scope, verdict, status) ==
    [id |-> id, from |-> from, tool |-> scope.tool, action |-> scope.action,
     target |-> scope.target, cond |-> scope.cond, verdict |-> verdict, status |-> status]

ProposedRule(id, from, atom, a) ==
    RuleOf(id, from, CompiledScope(atom, a), CompiledVerdict(atom), "proposed")

(* Mutant: an approved merge is preserved without its review count.        *)
UnconditionalApprovalScope(a) == OriginScope(a)

(* approvalScopeFor: an approved merge is preserved at the review count it *)
(* had; every other approved action is preserved as it is.                 *)
ApprovalScope(a) ==
    IF a.tool = "gh" /\ a.action = "pr-merge" /\ "reviews.approved" \in DOMAIN a.args
    THEN Override(OriginScope(a),
                  [cond |-> Condition("reviews.approved", ">=", a.args["reviews.approved"])])
    ELSE OriginScope(a)

ApprovalRule(id, from, a) == RuleOf(id, from, ApprovalScope(a), "allow", "active")

(* narrowPolicy: the rule retires, and a copy of it, one version on,       *)
(* carries the exception.                                                  *)
CombinedCondition(original, exception) ==
    IF original.field = None THEN exception
    ELSE IF /\ original.field = "reviews.approved" /\ original.op = "<"
            /\ exception.field = "reviews.approved" /\ exception.op = ">="
         THEN [original EXCEPT !.value = IF @ < exception.value THEN @ ELSE exception.value]
         ELSE original

NarrowedRule(id, r, exception) ==
    [r EXCEPT !.id = id, !.cond = CombinedCondition(@, exception), !.status = "narrowed"]

(* What an approval opens: the tool and action on the same target, on any  *)
(* PR# for a pull request, on every target that fits for a target with a * *)
(* in it, on every target for an action that names none; a * for a tool or *)
(* an action is any; and for a merge whose approving reviews were counted, *)
(* no fewer of them.                                                       *)
SameApprovedClass(a, b) ==
    /\ a.tool \in {"*", b.tool} /\ a.action \in {"*", b.action}
    /\ \/ a.target \in {None, b.target}
       \/ a.target \in PullRequests /\ b.target \in Wildcards["PR#*"]
       \/ a.target \in DOMAIN Wildcards /\ b.target \in Wildcards[a.target]
    /\ a.tool = "gh" /\ a.action = "pr-merge" /\ "reviews.approved" \in DOMAIN a.args
           => /\ "reviews.approved" \in DOMAIN b.args
              /\ b.args["reviews.approved"] >= a.args["reviews.approved"]
=============================================================================
