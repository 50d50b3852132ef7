--------------------------- MODULE MCEnforcementLoop ---------------------------
(* One deal, one transcript, and three answers the model may give: none    *)
(* dropped, one requirement dropped, and that one dropped after another.   *)
EXTENDS EnforcementLoop, MCGovernanceArtifacts

Residency == "EU data residency"
Owners == "owners assigned"

MCRequirements == {Residency, Owners}
MCRequirementWords == (Residency :> {"data", "residency"}) @@ (Owners :> {"owners", "assigned"})
MCCriterionRank == (Residency :> 1) @@ (Owners :> 2)

Output(dropped, words) == [droppedRequirements |-> dropped, words |-> words]

Clean == Output(<<>>, {"data", "residency", "owners"})
FalseGreen == Output(<<Residency>>, {"track"})
TwoDropped == Output(<<Owners, Residency>>, {"track", "data"})

MCOutputs == {Clean, FalseGreen, TwoDropped}
===============================================================================
