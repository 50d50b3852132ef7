-------------------------- MODULE MCPolicyLearning --------------------------
(* A small world for PolicyLearning: the merges of a pull request and of a *)
(* branch, a deployment, a forced push that names no target, one to all    *)
(* tags and one to a tag, and atoms of each template.                      *)
EXTENDS PolicyLearning, TLC

Reviews(approved, rejected) ==
    ("reviews.approved" :> approved) @@ ("reviews.rejected" :> rejected)

SplitMerge == [tool |-> "gh", action |-> "pr-merge", target |-> "PR#20", args |-> Reviews(2, 1)]
BranchMerge == [tool |-> "gh", action |-> "pr-merge", target |-> "PR#hotfix", args |-> Reviews(0, 0)]
Deploy == [tool |-> "deploy", action |-> "deploy", target |-> "production", args |-> <<>>]

Push(target, force) ==
    [tool |-> "git", action |-> "push", target |-> target, args |-> "args.force" :> force]
ForcedPush == Push(None, 1)
AllTagsPush == Push("refs/tags/*", 1)
TagPush == Push("refs/tags/v1", 0)

MCActions == {SplitMerge, BranchMerge, ForcedPush, AllTagsPush, TagPush}
DeployActions == {SplitMerge, Deploy}
MCPullRequests == {"PR#20"}
MCWildcards ==
    ("PR#*" :> {"PR#*", "PR#20", "PR#hotfix"})
        @@ ("refs/tags/*" :> {"refs/tags/*", "refs/tags/v1"})

MCAtoms ==
    {{"never", "merge"}, {"never", "merge", "both"}, {"never", "merge", "rejection"},
     {"ask"}, {"ask", "deploy"}, {"include", "force"}, {"vague"}}

MCExceptions == {Condition("reviews.approved", ">=", 2)}

Symmetry == Permutations(RuleIds)
=============================================================================
