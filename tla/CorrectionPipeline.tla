-------------------------- MODULE CorrectionPipeline --------------------------
(***************************************************************************)
(* packages/correction-pipeline: a correction compiled into enforcement    *)
(* actions, a policy rule and its approval gate; and the status that       *)
(* packages/contracts derives from the approvals a gate has received.      *)
(*                                                                         *)
(* A correction's text is a sequence of clauses, each the set of the terms *)
(* it mentions: a text without a full stop, colon or semicolon has one.    *)
(* The context may name the approvers: a set of at most one sequence.  Ids *)
(* are the numbers an id generator hands out, from next on.                *)
(***************************************************************************)
EXTENDS Integers, Sequences, FiniteSets

DefaultApprovers == <<"Product", "Security", "Engineering">>

RequiredApprovers(context) ==
    IF context.requiredApprovers = {} THEN DefaultApprovers
    ELSE CHOOSE approvers \in context.requiredApprovers : TRUE

Mentions(text, term) == \E n \in DOMAIN text : term \in text[n]

\* Most specific first.
Categories == <<"data residency", "compliance", "security", "privacy", "audit">>

ExtractPolicyName(text) ==
    LET found == {n \in DOMAIN Categories : Mentions(text, Categories[n])}
    IN  IF found = {} THEN "governance-requirement"
        ELSE Categories[CHOOSE n \in found : \A m \in found : n <= m]

ExtractRequirement(text) == Head(text)

NeedsWorkstream(text) == Mentions(text, "workstream") \/ Mentions(text, "workflow")

\* What the actions are to do, in their order; all of them move the deal to at-risk.
ActionPayloads(correction, context) ==
    LET approvers == RequiredApprovers(context)
        Act(type, owners) == [actionType |-> type, owners |-> owners]
        Assign(n) == Act("assign_owner", <<approvers[n]>>)
    IN  <<Act("change_status", <<>>)>>
        \o (IF NeedsWorkstream(correction.text) THEN <<Act("create_linear_workstream", <<>>)>> ELSE <<>>)
        \o [n \in DOMAIN approvers |-> Assign(n)]
        \o <<Act("activate_policy", <<>>), Act("require_approval", approvers), Act("generate_eval", <<>>)>>

CompileToEnforcementActions(correction, context, next) ==
    LET payloads == ActionPayloads(correction, context)
    IN  [n \in DOMAIN payloads |->
            [id |-> next + n - 1, caseId |-> correction.caseId, dealId |-> correction.dealId,
             fromStatus |-> "on-track", toStatus |-> "at-risk",
             actionType |-> payloads[n].actionType, owners |-> payloads[n].owners]]

\* One rule, with a step for every approver; the steps draw their ids first.
CompileToRule(correction, context, next) ==
    LET approvers == RequiredApprovers(context)
    IN  [id |-> next + Len(approvers), caseId |-> correction.caseId, dealId |-> correction.dealId,
         requirement |-> ExtractRequirement(correction.text), severity |-> "critical",
         category |-> ExtractPolicyName(correction.text),
         remediationSteps |-> [n \in DOMAIN approvers |->
             [id |-> next + n - 1, owner |-> approvers[n], status |-> "open"]]]

CompileToApprovalGate(correction, rule, next) ==
    [id |-> next, caseId |-> correction.caseId, dealId |-> correction.dealId, policyRuleId |-> rule.id,
     requiredApprovers |-> [n \in DOMAIN rule.remediationSteps |-> rule.remediationSteps[n].owner],
     approvals |-> <<>>]

CompileCorrectionFull(correction, context, next) ==
    LET actions == CompileToEnforcementActions(correction, context, next)
        rule == CompileToRule(correction, context, next + Len(actions))
        gate == CompileToApprovalGate(correction, rule, rule.id + 1)
    IN  [actions |-> actions, rule |-> rule, gate |-> gate]

(***************************************************************************)
(* Approval gates.  An approval is [approver, status].                     *)
(***************************************************************************)
ApprovalStatuses == {"pending", "approved", "rejected", "escalated"}

Required(gate) == {gate.requiredApprovers[n] : n \in DOMAIN gate.requiredApprovers}

\* What the contract lets pass: a gate has approvers, and approvals of theirs only.
ValidGate(gate) ==
    /\ gate.requiredApprovers # <<>>
    /\ \A n \in DOMAIN gate.approvals : gate.approvals[n].approver \in Required(gate)

\* The first approval, if any, that stops the gate.
Stops(gate) == {n \in DOMAIN gate.approvals : gate.approvals[n].status \in {"rejected", "escalated"}}

FirstStop(gate) == CHOOSE n \in Stops(gate) : \A m \in Stops(gate) : n <= m

ApprovedRoles(gate) ==
    {gate.approvals[n].approver :
        n \in {m \in DOMAIN gate.approvals : gate.approvals[m].status = "approved"}}

\* Roles are counted, not compared.
DeriveApprovalGateStatus(gate) ==
    IF gate.approvals = <<>> THEN "pending"
    ELSE IF Stops(gate) # {} THEN gate.approvals[FirstStop(gate)].status
    ELSE IF Cardinality(ApprovedRoles(gate)) = Cardinality(Required(gate)) THEN "approved"
    ELSE "pending"

IsFullyApproved(gate) == DeriveApprovalGateStatus(gate) = "approved"
===============================================================================
