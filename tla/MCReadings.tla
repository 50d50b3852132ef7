------------------------------ MODULE MCReadings ------------------------------
(***************************************************************************)
(* What AuditReadings, GatewayReadings and MatchReplace compute, checked   *)
(* over every small input: histories of up to four decisions, stores of    *)
(* two rules, lists of two rewriting rules, and the events of a case with  *)
(* three changes.                                                          *)
(***************************************************************************)
EXTENDS Integers, FiniteSets, Sequences

Gateway == INSTANCE GatewayReadings WITH
    PullRequests <- {"PR#20"}, Wildcards <- [pattern \in {"PR#*"} |-> {"PR#*", "PR#20"}], NoRule <- "no rule"
Audit == INSTANCE AuditReadings
Paths == [path \in {"deploy", "deploy.environment"} |-> {"deploy"} \ {path}]
Proxy == INSTANCE MatchReplace WITH
    Above <- Paths, Undefined <- "undefined",
    PullRequests <- {"PR#20"}, Wildcards <- [pattern \in {"PR#*"} |-> {"PR#*", "PR#20"}], NoRule <- "no rule"

AllVerdicts == {"allow", "ask", "deny"}

Tuples(S, n) == UNION {[1..k -> S] : k \in 0..n}

DecisionLists == Tuples({Gateway!Decision(v, "policy", "no rule") : v \in AllVerdicts}, 4)

(* The escalation rate falls, or stays, as long as no action goes to the   *)
(* operator after one that did not: with the first late escalation it      *)
(* rises, so that a series that never rises has its escalations first.     *)
RatesRiseWithALateEscalation ==
    \A decisions \in DecisionLists :
        Gateway!IsMonotonicNonIncreasing(Gateway!EscalationSeries(decisions))
        <=> \A m, n \in DOMAIN decisions :
               m < n /\ decisions[n].verdict = "ask" => decisions[m].verdict = "ask"

MergeAction == [tool |-> "gh", action |-> "pr-merge", target |-> "PR#20", args |-> <<>>]
PushAction == [tool |-> "git", action |-> "push", target |-> "main", args |-> <<>>]

LearnedRules ==
    {[id |-> id, tool |-> tool, action |-> action, target |-> target, cond |-> Gateway!NoCondition,
      verdict |-> verdict, status |-> "active", evalCase |-> id] :
        id \in {"r", "s"}, tool \in {"gh", "*"}, action \in {"pr-merge", "*"},
        target \in {"none", "PR#*"}, verdict \in AllVerdicts}

RulePairs == {{r, s} : r \in {x \in LearnedRules : x.id = "r"}, s \in {x \in LearnedRules : x.id = "s"}}

Entries ==
    {[action |-> a, decision |-> Gateway!Decision("ask", source, "no rule")] :
        a \in {MergeAction, PushAction}, source \in {"default-deny", "operator"}}

RowOf(history, rules, id) ==
    CHOOSE row \in Gateway!ComputeGatewayMetrics(history, rules).ruleHealth : row.ruleId = id

(* A rule whose class still goes to the operator has been outranked by     *)
(* another that asks, or asks itself; and a rule is missing from the table *)
(* of results only when nothing in the history is of its class.            *)
HealthIsExplained ==
    \A rules \in RulePairs, history \in Tuples(Entries, 1) : \A r \in rules :
        LET row == RowOf(history, rules, r.id)
        IN  /\ row.after = "fail" => \E s \in rules : s.verdict = "ask" /\ ~Gateway!Outranks(r, s)
            /\ row.before = "missing" <=>
                  ~\E n \in DOMAIN history : Gateway!Matches(history[n].action, r)
            /\ row.healthy => r.verdict # "ask"

(* Two rules that each keep a class from the operator are both shown as    *)
(* not healthy, though without the two of them it would go there.          *)
RedundantRulesLookUnhealthy ==
    \E rules \in RulePairs :
        /\ Gateway!ComputeGatewayMetrics(<<[action |-> MergeAction, decision |-> Gateway!FailedClosed]>>,
                                         rules).healthy = 0
        /\ Gateway!IsAutonomous(Gateway!Judged(MergeAction, rules))
        /\ ~Gateway!IsAutonomous(Gateway!Judged(MergeAction, {}))

(* What operators did about held actions leaves the rate as it is.         *)
OperatorsDoNotEscalate ==
    \A history \in Tuples(Entries, 3) :
        LET Agents(n) == {m \in DOMAIN history : history[m].decision.source # "operator"}
            rate == Gateway!ComputeGatewayMetrics(history, {}).escalation
        IN  Agents(0) # {} => rate.asks = Cardinality(Agents(0)) /\ rate.total = Cardinality(Agents(0))

ASSUME RatesRiseWithALateEscalation
ASSUME HealthIsExplained
ASSUME RedundantRulesLookUnhealthy
ASSUME OperatorsDoNotEscalate

CaseIn(status) == {[id |-> "case", deal |-> "acme", status |-> status]}

Ids == <<"e1", "e2", "e3", "e4">>

Event(n, from, to) ==
    [id |-> Ids[n], at |-> n, day |-> 1, case |-> "case", deal |-> "acme", before |-> from, after |-> to,
     rule |-> {}, verdict |-> {}, action |-> {}, allocation |-> {}, actionIds |-> {n}, evalIds |-> {}]

States == {"open", "corrected", "closed"}

Lives ==
    {<<Event(1, {}, CaseIn(p)), Event(2, CaseIn(p), CaseIn(q)), Event(3, CaseIn(q), CaseIn(r)),
       Event(4, CaseIn(r), CaseIn(s))>> : p, q, r, s \in States}

Rebuilt(events) == Audit!ReconstructCaseLifecycleFromEvents(events, "case")

WithoutEvent(events, n) == SubSeq(events, 1, n - 1) \o SubSeq(events, n + 1, Len(events))

(* The snapshots tell when an event between two others is gone, even from  *)
(* a chain that was sealed anew: unless it changed nothing, or what it did *)
(* has been undone.  They do not tell that the first or the last is gone.  *)
InnerGapsShow ==
    \A life \in Lives :
        /\ Rebuilt(life) # {}
        /\ \A n \in 1..4 :
              Rebuilt(WithoutEvent(life, n)) # {}
              <=> n \in {1, 4} \/ life[n - 1].after = life[n + 1].before

(* The last of the statuses listed is the current one, no status is listed *)
(* twice in a row, and what a shorter chain tells is how a longer begins.  *)
LivesAreToldInOrder ==
    \A life \in Lives, k \in 1..4 :
        LET whole == Audit!Only(Rebuilt(life))
            part == Audit!Only(Rebuilt(SubSeq(life, 1, k)))
        IN  /\ part.lifecycleStatuses[Len(part.lifecycleStatuses)] = part.current.status
            /\ Audit!IsPrefix(part.lifecycleStatuses, whole.lifecycleStatuses)
            /\ \A n \in 2..Len(part.lifecycleStatuses) :
                  part.lifecycleStatuses[n] # part.lifecycleStatuses[n - 1]

(* The status of a rule that another supersedes is that of whichever of    *)
(* the two was written about last.                                         *)
SuccessorsSpeakForTheRule ==
    \A first, second \in {"proposed", "active", "retired"} :
        LET Version(n, id, supersedes, status) ==
                [Event(n, {}, {}) EXCEPT
                    !.rule = {[id |-> id, supersedes |-> supersedes, status |-> status]}]
            Shown(events) == {x.currentStatus : x \in Audit!ReconstructPolicyRuleLifecycle(events, "r1")}
            old == Version(1, "r1", "none", first)
            new == Version(2, "r2", "r1", second)
        IN  /\ Shown(<<old, new>>) = {second} /\ Shown(<<new, old>>) = {first}
            /\ Audit!ReconstructPolicyRuleLifecycle(<<old, new>>, "r3") = {}

ASSUME InnerGapsShow
ASSUME LivesAreToldInOrder
ASSUME SuccessorsSpeakForTheRule

Judgement(n, verdict) ==
    [Event(n, {}, {}) EXCEPT !.action = {"PR#20"},
        !.verdict = {[verdict |-> verdict, rule |-> {"r1"}, reasons |-> <<"never">>]}]

Allocated(n, day, type, amount) ==
    [Event(n, {}, {}) EXCEPT !.day = day, !.allocation = {[type |-> type, amount |-> amount]}]

Spent(n, day, value) == Allocated(n, day, "budget", {[unit |-> "USD", value |-> value]})

Why == [terms |-> {"why"}, mentions |-> {"PR#20"}, today |-> FALSE]
HowMuch(today) == [terms |-> {"spent", "stop"}, mentions |-> {}, today |-> today]

(* The answer about an action that was held does not change when the       *)
(* action is let through later: only denials and holds are looked at.      *)
AnswersIgnoreRelease ==
    \A verdicts \in Tuples(AllVerdicts, 2) :
        LET events == [n \in DOMAIN verdicts |-> Judgement(n, verdicts[n])]
            later == Append(events, Judgement(3, "allow"))
        IN  Audit!Resolve(Why, later, {}, 1) = Audit!Resolve(Why, events, {}, 1)

(* An answer cites what it was found in: an answer that cites nothing      *)
(* states nothing, and every cited event is one that counts.               *)
AnswersAreGrounded ==
    \A verdicts \in Tuples(AllVerdicts, 2), day \in 1..2, today \in BOOLEAN :
        LET events == [n \in DOMAIN verdicts |-> Judgement(n, verdicts[n])] \o <<Spent(3, day, 5), Spent(4, 1, 2)>>
            blocked == Audit!Resolve(Why, events, {}, 1)
            spent == Audit!Resolve(HowMuch(today), events, {}, 1)
        IN  /\ blocked.citations = <<>> <=> blocked.about = "nothing held"
            /\ blocked.about = "held" => \E n \in DOMAIN verdicts :
                  /\ blocked.citations = <<Ids[n], "r1">> /\ blocked.verdict = verdicts[n]
                  /\ \A m \in (n + 1)..Len(verdicts) : verdicts[m] = "allow"
            /\ spent.citations = (IF today /\ day = 2 THEN <<"e4">> ELSE <<"e3", "e4">>)
            /\ spent.totals["USD"] = (IF today /\ day = 2 THEN 2 ELSE 7)

(* The meter counts snapshots and not allocations: one that is recorded    *)
(* when it is requested and again when it is granted is spent twice.  Time *)
(* on a calendar, and a budget without an amount, cost nothing.            *)
SnapshotsAreSummed ==
    LET hours == Allocated(3, 1, "calendar", {[unit |-> "hours", value |-> 3]})
        open == Allocated(4, 1, "budget", {})
        meter == Audit!MeterSpend(<<Spent(1, 1, 5), hours, Spent(2, 1, 5), open>>, {})
    IN  /\ meter.totals["USD"] = 10 /\ DOMAIN meter.totals = {"USD"}
        /\ meter.citations = <<"e1", "e2">>

ASSUME AnswersIgnoreRelease
ASSUME AnswersAreGrounded
ASSUME SnapshotsAreSummed

Deployments ==
    {[tool |-> "deploy", action |-> "deploy", target |-> target, args |-> args] :
        target \in {"none", "prod", "staging"},
        args \in {<<>>} \cup {[field \in {path} |-> "prod"] : path \in DOMAIN Paths}}

Rewriting(enabled, field, path, matching, replace, textual) ==
    [enabled |-> enabled, field |-> field, path |-> path, matching |-> matching,
     replace |-> replace, textual |-> textual]

Matchings == {{"prod"}, {"prod", "staging"}, {"undefined"}}

RewritingRules ==
    {Rewriting(enabled, "target", "none", matching, replace, textual) :
        enabled \in BOOLEAN, matching \in Matchings, replace \in {"", "prod", "staging"},
        textual \in BOOLEAN}
    \cup {Rewriting(TRUE, field, path, matching, replace, TRUE) :
             field \in {"args", "arg"}, path \in {"none"} \cup DOMAIN Paths,
             matching \in Matchings, replace \in {"prod", "staging"}}

(* Rewriting never adds or takes a target, and touches no field that no    *)
(* enabled rule is about.  An argument appears only at the path of a rule  *)
(* that was posted without a match, and is lost only above one.            *)
RewritingKeepsTheShape ==
    \A a \in Deployments, rules \in Tuples(RewritingRules, 2) : \A b \in Proxy!Rewritten(a, rules) :
        LET On(field) == {n \in DOMAIN rules : rules[n].enabled /\ (rules[n].field = "target" <=> field = "target")}
            Bare == {rules[n].path : n \in {m \in On("args") : "undefined" \in rules[m].matching}}
        IN  /\ b.target = "none" <=> a.target = "none"
            /\ \A field \in {"target", "args"} : b[field] # a[field] => On(field) # {}
            /\ DOMAIN b.args \ DOMAIN a.args \subseteq Bare
            /\ DOMAIN a.args \ DOMAIN b.args \subseteq UNION {Paths[path] : path \in Bare \cap DOMAIN Paths}

(* An action is refused only by an enabled rule that is broken: one on the *)
(* arguments without a path, whatever it matches, or one on a name that    *)
(* the action has by then, though it may not have had it when captured.    *)
RefusalsNameABrokenRule ==
    \A a \in Deployments, rules \in Tuples(RewritingRules, 2) :
        Proxy!Rewritten(a, rules) = {} <=>
            \E n \in DOMAIN rules :
                /\ rules[n].enabled
                /\ \/ rules[n].field # "target" /\ rules[n].path = "none"
                   \/ /\ rules[n].field = "target" /\ ~Proxy!Replaceable(rules[n])
                      /\ \A b \in Proxy!Rewritten(a, SubSeq(rules, 1, n - 1)) :
                            b.target # "none" /\ b.target \in rules[n].matching

(* What a list of rules made of an action, it leaves alone the next time,  *)
(* as when the repeater sends a rewritten action again, unless a rule      *)
(* matches what another one at or after it writes.                         *)
RewritingSettles ==
    \A a \in Deployments, rules \in Tuples(RewritingRules, 2) : \A b \in Proxy!Rewritten(a, rules) :
        \/ Proxy!Rewritten(b, rules) = {b}
        \/ \E m, n \in DOMAIN rules : m <= n /\ rules[n].replace \in rules[m].matching

ASSUME RewritingKeepsTheShape
ASSUME RefusalsNameABrokenRule
ASSUME RewritingSettles
===============================================================================
