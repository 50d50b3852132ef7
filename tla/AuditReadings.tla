----------------------------- MODULE AuditReadings -----------------------------
(***************************************************************************)
(* What is read off a sequence of audit events: the life of a governance   *)
(* case and of a policy rule (packages/governance), what the fleet has     *)
(* spent, and why an action was held (packages/policy, nl-query).          *)
(*                                                                         *)
(* An event is [id, at, day, case, deal, before, after, rule, verdict,     *)
(* action, allocation, actionIds, evalIds].  Its snapshots are optional,   *)
(* sets of at most one element: before and after a governance case [id,    *)
(* deal, status]; a rule [id, supersedes, status]; a verdict [verdict,     *)
(* rule, reasons]; the names of the action; an allocation [type, amount],  *)
(* whose amount [unit, value] is optional itself.                          *)
(* The hash of a snapshot is the snapshot.                                 *)
(***************************************************************************)
EXTENDS Integers, FiniteSets, SequencesExt, FiniteSetsExt, Selection

Only(option) == CHOOSE x \in option : TRUE

(***************************************************************************)
(* reconstructCaseLifecycleFromEvents, of a chain that verifies.           *)
(***************************************************************************)
OfCase(events, case) == Selected(events, {n \in DOMAIN events : events[n].case = case})

BelongsTo(event, case) ==
    \E snapshot \in event.after : snapshot.id = case /\ snapshot.deal = event.deal

\* The first event may start from any state: nothing is known before it.
Coherent(events, case) ==
    /\ events # <<>>
    /\ \A n \in DOMAIN events :
          /\ BelongsTo(events[n], case) /\ events[n].deal = events[1].deal
          /\ n > 1 => events[n].before = events[n - 1].after

StatusOf(snapshots) == {s.status : s \in snapshots}

\* A status is listed again only when it has changed.
LifecycleStatuses(events) ==
    LET changes == Selected([n \in DOMAIN events |-> n],
                       {n \in DOMAIN events :
                           n = 1 \/ StatusOf(events[n].after) # StatusOf(events[n - 1].after)})
    IN  [n \in DOMAIN changes |-> Only(events[changes[n]].after).status]

\* Nothing, when a snapshot is missing, another case's, or not what the one before it led to.
ReconstructCaseLifecycleFromEvents(events, case) ==
    LET own == OfCase(events, case)
    IN  IF ~Coherent(own, case) THEN {}
        ELSE {[current |-> Only(Last(own).after), lifecycleStatuses |-> LifecycleStatuses(own),
               transitions |-> [n \in DOMAIN own |->
                   [from |-> StatusOf(own[n].before), to |-> StatusOf(own[n].after)]],
               eventIds |-> [n \in DOMAIN own |-> own[n].id],
               actionIds |-> UNION {own[n].actionIds : n \in DOMAIN own},
               evalIds |-> UNION {own[n].evalIds : n \in DOMAIN own},
               chainHead |-> Last(events).id]}

\* A successor's versions count as the rule's own.
ReconstructPolicyRuleLifecycle(events, ruleId) ==
    LET timeline == Selected(events, {n \in DOMAIN events :
                        \E r \in events[n].rule : r.id = ruleId \/ r.supersedes = ruleId})
    IN  IF timeline = <<>> THEN {}
        ELSE {[currentStatus |-> Only(Last(timeline).rule).status, timeline |-> timeline]}

(***************************************************************************)
(* nl-query.  A question is [terms, mentions, today]: the terms of the two *)
(* lists and the identifiers that occur in it.                             *)
(***************************************************************************)
SpendResourceTypes == {"budget", "compute"}

SpendAmount(event) ==
    UNION {a.amount : a \in {b \in event.allocation : b.type \in SpendResourceTypes}}

Metered(events, window) ==
    SelectSeq(events, LAMBDA e : SpendAmount(e) # {} /\ \A day \in window : e.day = day)

SpendTotals(metered) ==
    LET units == {Only(SpendAmount(metered[n])).unit : n \in DOMAIN metered}
        Places(unit) == {n \in DOMAIN metered : Only(SpendAmount(metered[n])).unit = unit}
    IN  [unit \in units |-> FoldSet(LAMBDA n, sum : sum + Only(SpendAmount(metered[n])).value, 0, Places(unit))]

\* Every recorded budget or compute allocation counts, those of one resource each time.
MeterSpend(events, window) ==
    LET metered == Metered(events, window)
    IN  [totals |-> SpendTotals(metered), entryCount |-> Len(metered),
         citations |-> [n \in DOMAIN metered |-> metered[n].id]]

SpendTerms == {"spend", "spent", "spending", "cost", "budget", "burn", "how much"}
BlockedTerms == {"block", "held", "hold", "deny", "denied", "reject", "stopped", "stop", "why"}

NoData == [about |-> "no data", citations |-> <<>>]

AnswerSpend(question, events, today) ==
    LET reading == MeterSpend(events, IF question.today THEN {today} ELSE {})
    IN  IF reading.entryCount = 0 THEN [NoData EXCEPT !.about = "no spend"]
        ELSE [about |-> "spend", totals |-> reading.totals, citations |-> reading.citations]

FindHeldActions(events) ==
    {e \in ToSet(events) : \E v \in e.verdict : v.verdict \in {"deny", "ask"}}

MentionsSubject(question, event) ==
    question.mentions \cap (event.action \cup {event.case, event.deal, event.id}) # {}

\* By time, then by id: at is the place of both in that order.
MostRecent(held) == CHOOSE e \in held : \A f \in held : f.at <= e.at

\* The reason is that of the rule as it is now, or the one that was recorded.
ReasonOf(event, policyRules) ==
    LET verdict == Only(event.verdict)
        rules == {r \in policyRules : r.id \in verdict.rule /\ r.reasons # <<>>}
    IN  IF rules # {} THEN {Only(rules).reasons[1]}
        ELSE IF verdict.reasons # <<>> THEN {verdict.reasons[1]} ELSE {}

AnswerBlocked(question, events, policyRules) ==
    LET held == FindHeldActions(events)
        named == {e \in held : MentionsSubject(question, e)}
        candidates == IF named # {} THEN named ELSE IF Cardinality(held) = 1 THEN held ELSE {}
        chosen == MostRecent(candidates)
    IN  IF held = {} THEN [NoData EXCEPT !.about = "nothing held"]
        ELSE IF candidates = {} THEN [NoData EXCEPT !.about = "which one"]
        ELSE [about |-> "held", event |-> chosen.id, verdict |-> Only(chosen.verdict).verdict,
              reason |-> ReasonOf(chosen, policyRules),
              citations |-> <<chosen.id>> \o SetToSeq(Only(chosen.verdict).rule)]

\* A question about spend is not one about what was blocked, whatever else it says.
Resolve(question, events, policyRules, today) ==
    IF question.terms \cap SpendTerms # {} THEN AnswerSpend(question, events, today)
    ELSE IF question.terms \cap BlockedTerms # {} THEN AnswerBlocked(question, events, policyRules)
    ELSE NoData
===============================================================================
