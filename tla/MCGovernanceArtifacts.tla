------------------------ MODULE MCGovernanceArtifacts ------------------------
(***************************************************************************)
(* What PolicyRouter, CorrectionPipeline and EvalLibrary compute, checked  *)
(* over every small input: stores of two rules, corrections that name up   *)
(* to two approvers, gates with up to three approvals, registries of up to *)
(* three additions.                                                        *)
(***************************************************************************)
EXTENDS Integers, FiniteSets, Sequences, TLC

VersionPlaces == ("v0.0.10" :> 1) @@ ("v0.0.8" :> 2) @@ ("v0.0.8@v0.0.9" :> 3) @@ ("v0.0.9" :> 4)

\* Both are the text a@v0.0.8@v0.0.9.
TextKey(caseId, version) ==
    IF caseId = "a" /\ version = "v0.0.8@v0.0.9" THEN <<"a@v0.0.8", "v0.0.9">> ELSE <<caseId, version>>

Router == INSTANCE PolicyRouter
Pipeline == INSTANCE CorrectionPipeline
Library == INSTANCE EvalLibrary WITH VersionRank <- VersionPlaces, KeyOf <- TextKey

NoCondition == [requirementDropped |-> {}, missingOwners |-> {}, statusFrom |-> {}]

RouterConditions ==
    {NoCondition, [NoCondition EXCEPT !.requirementDropped = {"residency"}],
     [NoCondition EXCEPT !.missingOwners = {{"Security"}}], [NoCondition EXCEPT !.missingOwners = {{}}],
     [NoCondition EXCEPT !.statusFrom = {"on-track"}]}

RouterRules ==
    {[id |-> id, scope |-> scope, stage |-> stage, condition |-> condition, action |-> action,
      expiresAt |-> expiry] :
        id \in {"a", "b"}, scope \in {"acme", "other"}, stage \in {"detect", "enforce"},
        condition \in RouterConditions, action \in {"assign_owner", "require_approval"},
        expiry \in {{}, {1}, {2}}}

Contexts ==
    {[workstreamId |-> "acme", stage |-> "enforce", currentStatus |-> {"on-track"},
      missingRequirements |-> missing, owners |-> owners] :
        missing \in {{}, {"residency"}}, owners \in {{}, {{}}, {{"Security"}}}}

Now == 2

FirstRule == [id |-> "a", scope |-> "acme", stage |-> "enforce", condition |-> NoCondition,
              action |-> "assign_owner", expiresAt |-> {1}]

(* With distinct ids, what is compiled is the action of a rule of the      *)
(* workstream and the stage that has not expired, one for each that holds. *)
RoutedActionsAreInForce ==
    \A rule \in RouterRules, context \in Contexts : rule.id # FirstRule.id =>
        LET rules == <<FirstRule, rule>>
            actions == Router!CompiledActions(rules, context, Now)
        IN  /\ DOMAIN actions = {n \in {2} : Router!MatcherAccepts(rule, context, Now)}
            /\ {r.compiledActions : r \in Router!Route(rules, context, Now)} = {actions}
            /\ \A n \in DOMAIN actions :
                  /\ actions[n] = rule.action /\ rule.stage = context.stage
                  /\ n \in Router!GetActiveRules(rules, context.workstreamId, Now)

(* Nothing keeps two rules of a store from having one id, and then the one *)
(* that comes first lends its action to the other, expired as it may be.   *)
RepeatedIdsReviveExpiredRules ==
    \E rule \in RouterRules, context \in Contexts :
        LET actions == Router!CompiledActions(<<FirstRule, rule>>, context, Now)
        IN  /\ rule.action # FirstRule.action
            /\ \E n \in DOMAIN actions : actions[n] = FirstRule.action

\* An empty list of missing owners never holds; an output that names no owner misses them all.
MissingOwnersAreRead ==
    \A context \in Contexts :
        /\ ~Router!OwnersAreMissing({}, context)
        /\ Router!OwnersAreMissing({"Security"}, context) <=> context.owners # {{"Security"}}

ASSUME RoutedActionsAreInForce
ASSUME RepeatedIdsReviveExpiredRules
ASSUME MissingOwnersAreRead

Corrections ==
    {[caseId |-> "case", dealId |-> "acme", text |-> text] :
        text \in {<<{"data residency", "security"}>>, <<{}, {"workflow", "audit"}>>, <<{}>>}}

CaseContexts ==
    {[requiredApprovers |-> approvers] :
        approvers \in {{}, {<<>>}, {<<"Legal">>}, {<<"Legal", "Product">>}, {<<"Legal", "Legal">>}}}

Compiled(correction, context) == Pipeline!CompileCorrectionFull(correction, context, 1)

(* No two things that one correction compiles to share an id, and none of  *)
(* the ids that were drawn is left unused.                                 *)
CompiledIdsAreDistinct ==
    \A correction \in Corrections, context \in CaseContexts :
        LET c == Compiled(correction, context)
            ids == {c.actions[n].id : n \in DOMAIN c.actions}
                   \cup {c.rule.remediationSteps[n].id : n \in DOMAIN c.rule.remediationSteps}
                   \cup {c.rule.id, c.gate.id}
        IN  /\ ids = 1..c.gate.id
            /\ Cardinality(ids) = Len(c.actions) + Len(c.rule.remediationSteps) + 2

(* Who is assigned, who has a step to take, who is named in the request    *)
(* for approval and whom the gate waits for are the same.                  *)
OneListOfApprovers ==
    \A correction \in Corrections, context \in CaseContexts :
        LET c == Compiled(correction, context)
            Owners(type) == {c.actions[n].owners : n \in {m \in DOMAIN c.actions : c.actions[m].actionType = type}}
        IN  /\ c.gate.policyRuleId = c.rule.id /\ c.gate.caseId = correction.caseId
            /\ Owners("require_approval") = {c.gate.requiredApprovers}
            /\ Owners("assign_owner") = {<<role>> : role \in Pipeline!Required(c.gate)}

ASSUME CompiledIdsAreDistinct
ASSUME OneListOfApprovers

Approvals ==
    UNION {[1..n -> [approver : {"Legal", "Product"}, status : Pipeline!ApprovalStatuses]] : n \in 0..3}

Gates ==
    {[requiredApprovers |-> required, approvals |-> approvals] :
        required \in {<<>>, <<"Legal">>, <<"Legal", "Product">>, <<"Legal", "Legal">>}, approvals \in Approvals}

(* A gate that its contract accepts is approved exactly when nobody has    *)
(* rejected or escalated it and everybody who must approve it has.         *)
ApprovedByEveryone ==
    \A gate \in Gates : Pipeline!ValidGate(gate) =>
        (Pipeline!IsFullyApproved(gate)
         <=> Pipeline!Stops(gate) = {} /\ Pipeline!Required(gate) = Pipeline!ApprovedRoles(gate))

(* Another approval changes nothing for a gate that was stopped.           *)
StoppedGatesStayStopped ==
    \A gate \in Gates : Pipeline!Stops(gate) # {} =>
        \A approval \in [approver : {"Legal"}, status : Pipeline!ApprovalStatuses] :
            LET after == [gate EXCEPT !.approvals = Append(@, approval)]
            IN  Pipeline!DeriveApprovalGateStatus(after) = Pipeline!DeriveApprovalGateStatus(gate)

(* A context with an empty list of approvers is not replaced by the        *)
(* default, and compiles to a gate that its contract refuses.  Only that   *)
(* keeps it shut: counted, nobody has approved it as soon as somebody has  *)
(* taken note of it.                                                       *)
GatesWithoutApproversAreRefused ==
    \A correction \in Corrections :
        LET gate == Compiled(correction, [requiredApprovers |-> {<<>>}]).gate
            Noted == [gate EXCEPT !.approvals = <<[approver |-> "Legal", status |-> "pending"]>>]
        IN  /\ ~Pipeline!ValidGate(gate) /\ ~Pipeline!IsFullyApproved(gate)
            /\ ~Pipeline!ValidGate(Noted) /\ Pipeline!IsFullyApproved(Noted)

ASSUME ApprovedByEveryone
ASSUME StoppedGatesStayStopped
ASSUME GatesWithoutApproversAreRefused

Additions ==
    UNION {[1..n -> [caseId : {"a", "a@v0.0.8"}, version : DOMAIN VersionPlaces, rule : {{}, {"eu"}}, case : {1, 2}]] :
        n \in 0..2}

RECURSIVE Registry(_)
Registry(additions) ==
    IF additions = <<>> THEN <<>>
    ELSE Library!Put(Registry(SubSeq(additions, 1, Len(additions) - 1)), additions[Len(additions)])

(* However a registry came about, no two of its entries share a key, the   *)
(* last case added under a key is the one that is found, and writing the   *)
(* registry to a file and loading it gives the same registry.              *)
RegistrySurvivesItsFile ==
    \A additions \in Additions :
        LET entries == Registry(additions)
        IN  /\ \A m, n \in DOMAIN entries : Library!SameKey(entries[m], entries[n]) => m = n
            /\ \A n \in DOMAIN additions :
                  (\A m \in (n + 1)..Len(additions) : ~Library!SameKey(additions[m], additions[n]))
                  => Library!GetByIdAndVersion(entries, additions[n].caseId, additions[n].version)
                     = {additions[n]}
            /\ Library!FromJSON(Library!ToJSON(entries)) = entries
            /\ Library!FromJSON(additions) = entries

(* The latest version of a case is one, and newer than every other one of  *)
(* the same length; but the tenth version is taken to be older than the    *)
(* ninth.                                                                  *)
LatestIsByText ==
    \A additions \in Additions :
        LET entries == Registry(additions)
            latest == Library!GetByCaseId(entries, "a")
            versions == {entries[n].version : n \in {m \in DOMAIN entries : entries[m].caseId = "a"}}
        IN  /\ Cardinality(latest) = IF versions = {} THEN 0 ELSE 1
            /\ \A e \in latest : /\ {"v0.0.8", "v0.0.9"} \subseteq versions => e.version = "v0.0.9"
                                 /\ {"v0.0.9", "v0.0.10"} \subseteq versions => e.version = "v0.0.9"

(* A filter with a case id takes no notice of the rest of the filter.      *)
CaseIdSettlesTheQuery ==
    \A additions \in Additions, version, rule \in {{}, {"v0.0.8"}} :
        LET entries == Registry(additions)
            found == Library!Query(entries, [caseId |-> {"a"}, version |-> version, rule |-> rule])
        IN  {found[n] : n \in DOMAIN found} = {e \in {entries[n] : n \in DOMAIN entries} : e.caseId = "a"}

(* An id that holds an @ may share its key with another case: the one that *)
(* is added last takes the other's place, and is found under either.       *)
AnAtSignTakesAPlace ==
    \E additions \in Additions :
        LET entries == Registry(additions)
        IN  /\ {additions[n].caseId : n \in DOMAIN additions} = {"a", "a@v0.0.8"}
            /\ Library!GetByCaseId(entries, additions[1].caseId) = {}
            /\ Library!GetByIdAndVersion(entries, additions[1].caseId, additions[1].version)
               = {additions[2]}

ASSUME RegistrySurvivesItsFile
ASSUME AnAtSignTakesAPlace
ASSUME LatestIsByText
ASSUME CaseIdSettlesTheQuery
===============================================================================
