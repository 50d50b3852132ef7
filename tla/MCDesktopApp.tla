---------------------------- MODULE MCDesktopApp ----------------------------
(* Two captured calls, one operator policy, and a name of each sort: the   *)
(* policy's, an ungoverned objective, a part of that, an off-mission one   *)
(* and the empty name.                                                     *)
EXTENDS DesktopApp, TLC

MCNames == {"calendar", "docs", "docs site", "crypto", ""}
MCIncludes == {<<n, n>> : n \in MCNames} \cup {<<n, "">> : n \in MCNames}
                  \cup {<<"docs site", "docs">>}
MCLength == [n \in MCNames |-> CASE n = "" -> 0 [] n = "docs" -> 1 [] n = "docs site" -> 3 [] OTHER -> 2]
MCObjectives == {"calendar", "docs"}

MCIds == {1, 2}
MCCalls == (1 :> [workstream |-> "calendar", model |-> "opus", low |-> TRUE])
        @@ (2 :> [workstream |-> "docs", model |-> "opus", low |-> TRUE])
MCPolicies == <<Policy(<<"operator", "calendar">>, "calendar", {"haiku"}, "active")>>
MCStreams == {"docs", "docs site", "crypto", ""}
MCAnswers == {{Proposed("model-routing", "docs", {"sonnet"})}}

MCTemplates == {"require-fields", "generate-eval"}
MCFields == ("require-fields" :> {"field-name", "field-description"})
         @@ ("generate-eval" :> {"eval-criteria"})
MCRequired == ("require-fields" :> {"field-name"}) @@ ("generate-eval" :> {"eval-criteria"})
=============================================================================
