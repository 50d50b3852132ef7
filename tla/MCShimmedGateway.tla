-------------------------- MODULE MCShimmedGateway --------------------------
(* A small world for ShimmedGateway: a forced push to every branch, one to *)
(* a single branch, and a plain push, in one environment.                  *)
EXTENDS ShimmedGateway, MatchReplace, MCReadings

Command(tool, verb, operand, flags) ==
    [tool |-> tool, verb |-> verb, operand |-> operand, flags |-> flags]

PushOfAll == Command("git", "push", "origin refs/heads/*", {"-f"})
PushOfOne == Command("git", "push", "origin refs/heads/main", {"--force"})
PlainPush == Command("git", "push", "origin refs/heads/main", {})

MCPullRequests == {"PR#20"}
MCWildcards ==
    [pattern \in {"PR#*", "origin refs/heads/*"} |->
        IF pattern = "PR#*" THEN {"PR#*", "PR#20"} ELSE {PushOfAll.operand, PushOfOne.operand}]

MCCommands == {PushOfAll, PushOfOne, PlainPush}
Captures ==
    {ToInterceptedAction(id, ClassifyCommand(c)) : id \in ActionIds, c \in {PushOfAll, PushOfOne}}
OnePush == <<ToInterceptedAction("a1", ClassifyCommand(PushOfAll))>>

NeverThis == {<<{"never"}>>}
Unscoped == {NoScope}

MCAbove == [path \in {"args.force"} |-> {}]

\* What is pushed to every branch is judged as if it went to one; the push on the queue was not.
AllToOne ==
    <<[enabled |-> TRUE, field |-> "target", path |-> None, matching |-> {PushOfAll.operand},
       replace |-> PushOfOne.operand, textual |-> TRUE]>>

OneRewrite == {[a \in Actions |-> CHOOSE b \in Rewritten(a, AllToOne) : TRUE]}
=============================================================================
