--------------------------- MODULE PolicyLearning ---------------------------
(***************************************************************************)
(* The rule base of the proxy control plane, and the ways it may change:   *)
(* what the gateway promises about learning, whatever its stores are.  A   *)
(* rule enters as an approval (active at once) or as a proposal, a         *)
(* proposal may be activated, and a rule may be narrowed.  Each change is  *)
(* one step: this is the rule base one operator at a time, behind an       *)
(* in-memory store.  InterceptGateway is the concurrent program.           *)
(***************************************************************************)
EXTENDS CorrectionCompiler

CONSTANTS
    Actions,      \* the actions agents attempt
    Atoms,        \* the atoms of operators' corrections
    Exceptions,   \* the conditions a rule may be narrowed by
    RuleIds,      \* rule ids
    Corrections   \* ids of operators' corrections

ASSUME RuleIdsAssumption == NoRule \notin RuleIds

VARIABLE rules

UsedIds == {r.id : r \in rules}

Approve(id, from, a) ==
    /\ id \notin UsedIds
    /\ rules' = rules \cup {ApprovalRule(id, from, a)}

Propose(id, from, atom, a) ==
    /\ id \notin UsedIds
    /\ Compiles(atom)
    /\ rules' = rules \cup {ProposedRule(id, from, atom, a)}

(* Mutant: the rule as proposed stays beside the active one.               *)
ActivateAppends(r) ==
    /\ r.status = "proposed"
    /\ rules' = rules \cup {[r EXCEPT !.status = "active"]}

Activate(r) ==
    /\ r.status = "proposed"
    /\ rules' = (rules \ {r}) \cup {[r EXCEPT !.status = "active"]}

Narrow(r, id, exception) ==
    /\ r.status = "active"
    /\ id \notin UsedIds
    /\ rules' = (rules \ {r})
                  \cup {[r EXCEPT !.status = "retired"], NarrowedRule(id, r, exception)}

Init == rules = {}

Next ==
    \/ \E id \in RuleIds, from \in Corrections, a \in Actions :
          \/ Approve(id, from, a)
          \/ \E atom \in Atoms : Propose(id, from, atom, a)
    \/ \E r \in rules :
          \/ Activate(r)
          \/ \E id \in RuleIds, exception \in Exceptions : Narrow(r, id, exception)

Spec == Init /\ [][Next]_rules
-----------------------------------------------------------------------------
Answer(a) == Decide(a, rules, "learned", NoScope)
WasAllowed(a) == Answer(a).allowed
NowAllowed(a) == Decide(a, rules', "learned", NoScope).allowed

(* The store keeps one rule per id, with the statuses and verdicts of the  *)
(* contract.                                                               *)
TypeOK ==
    /\ \A r \in rules :
          /\ r.id \in RuleIds
          /\ r.verdict \in Verdicts
          /\ r.status \in {"proposed", "active", "narrowed", "retired"}
    /\ \A r, s \in rules : r.id = s.id => r = s

(* Whatever was learned, in whatever order, an action is allowed exactly   *)
(* when some active allow rule for it is strictly more specific than every *)
(* active deny and ask rule for it: bestMatchingRule's order never lets an *)
(* approval tie with a correction and win.                                 *)
AllowedOnlyByTheMostSpecificRule ==
    \A a \in Actions :
        Answer(a).allowed <=>
            \E r \in rules :
                /\ r.verdict = "allow" /\ r.status = "active" /\ Matches(a, r)
                /\ \A s \in rules :
                      s.status = "active" /\ s.verdict # "allow" /\ Matches(a, s)
                          => Specificity(r) > Specificity(s)

(* Approving one held action opens its own class and nothing else: the     *)
(* same tool and action on a target that its own stands for (any PR# for a *)
(* pull request), with at least as many approving reviews.                 *)
ApprovalOpensItsClassOnly ==
    [][\A id \in RuleIds, from \in Corrections, a, b \in Actions :
          Approve(id, from, a) /\ NowAllowed(b) /\ ~WasAllowed(b)
              => SameApprovedClass(a, b)]_rules

(* A correction that only proposes a rule changes no answer: the rule      *)
(* waits for its activation.                                               *)
ProposalChangesNoAnswer ==
    [][\A id \in RuleIds, from \in Corrections, atom \in Atoms, a, b \in Actions :
          Propose(id, from, atom, a)
              => Decide(b, rules', "learned", NoScope) = Answer(b)]_rules

(* LIM-1375: a correction about rejecting reviews compiles to a rule for   *)
(* the merges of PR# targets that have one, and for no other action.       *)
RejectionRuleIsExact ==
    [][\A id \in RuleIds, from \in Corrections, atom \in Atoms, a, b \in Actions :
          /\ Propose(id, from, atom, a)
          /\ {"merge", "rejection"} \subseteq atom /\ "both" \notin atom
          => LET learned == CHOOSE r \in rules' : r.id = id IN
             Matches(b, learned) <=>
                 /\ b.tool = "gh" /\ b.action = "pr-merge" /\ b.target \in Wildcards["PR#*"]
                 /\ "reviews.rejected" \in DOMAIN b.args
                 /\ b.args["reviews.rejected"] >= 1]_rules

(* A correction that names deployments governs deployments, whatever       *)
(* action it was given on: compile-correction.test.ts:104 compiles "never  *)
(* fork repositories; ask before deploy" on a merge and expects the second *)
(* rule to be one for deploy deploy.                                       *)
DeployRuleGovernsDeploys ==
    [][\A id \in RuleIds, from \in Corrections, atom \in Atoms, a, b \in Actions :
          /\ Propose(id, from, atom, a)
          /\ "deploy" \in atom /\ atom \cap {"force", "fork", "visibility", "merge"} = {}
          /\ b.tool = "deploy" /\ b.action = "deploy"
          => Matches(b, CHOOSE r \in rules' : r.id = id)]_rules
=============================================================================
