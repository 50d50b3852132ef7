------------------------- MODULE MCInterceptGateway -------------------------
(* A small world for InterceptGateway: a merge with one approving review   *)
(* and a merge of another pull request with two, both from clients that    *)
(* were given the same action id.                                          *)
EXTENDS InterceptGateway, MatchReplace, TLC

Reviews(approved, rejected) ==
    ("reviews.approved" :> approved) @@ ("reviews.rejected" :> rejected)

HastyMerge ==
    [id |-> "a1", tool |-> "gh", action |-> "pr-merge", target |-> "PR#20", args |-> Reviews(1, 0)]
ReviewedMerge ==
    [id |-> "a1", tool |-> "gh", action |-> "pr-merge", target |-> "PR#35", args |-> Reviews(2, 0)]

MCPullRequests == {"PR#20", "PR#35"}
MCWildcards == "PR#*" :> (MCPullRequests \cup {"PR#*"})
Merges == {HastyMerge, ReviewedMerge}

BothMerges == <<HastyMerge, ReviewedMerge>>
OneMerge == <<HastyMerge>>

SomeEdits == {NoEdit, InvalidEdit, HastyMerge}

Both == {"never", "merge", "both"}
NeverThis == {"never"}
Vague == {"vague"}

Corrections == {<<Both>>, <<NeverThis>>, <<Both, Vague>>}
SomeCorrections == {<<>>, <<Both>>, <<NeverThis, Vague>>}
OneCorrection == {<<Both>>}

Unscoped == {NoScope}
MergesOnly == [configured |-> TRUE, exclude |-> {},
               include |-> {[tool |-> "gh", action |-> "*", target |-> None]}]
SomeScopes == {NoScope, MergesOnly}

Rewriting(list) == [a \in Actions |-> CHOOSE b \in Rewritten(a, list) : TRUE]

MCAbove ==
    [path \in {"reviews", "reviews.approved", "reviews.rejected"} |-> {"reviews"} \ {path}]

\* Hasty merges are sent on as the reviewed one.
Promotion ==
    <<[enabled |-> TRUE, field |-> "target", path |-> None, matching |-> {"PR#20"},
       replace |-> "PR#35", textual |-> TRUE],
      [enabled |-> TRUE, field |-> "args", path |-> "reviews.approved", matching |-> {1},
       replace |-> 2, textual |-> FALSE]>>

Unrewritten == {Rewriting(<<>>)}
SomeRewrites == {Rewriting(list) : list \in {<<>>, Promotion}}
=============================================================================
