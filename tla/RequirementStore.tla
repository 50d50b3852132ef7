--------------------------- MODULE RequirementStore ---------------------------
(***************************************************************************)
(* The append-only requirement store as operators on its log: a sequence   *)
(* of snapshots, of which the last one of an id is the current one.  Every *)
(* call runs to its end without an await, so a call is one step; a refused *)
(* call (unknown id, wrong status, a record that breaks its contract)      *)
(* returns an error and leaves the log alone.                              *)
(***************************************************************************)
EXTENDS Selection

CONSTANTS NoApprover, NoText

\* The latest snapshot of its id stands at place i of the log.
IsCurrent(log, i) ==
    /\ i \in DOMAIN log
    /\ \A j \in DOMAIN log : log[j].id = log[i].id => j <= i

\* What the contract asks of a record: no empty statement, and nothing active without an approver.
Valid(r) == r.text # NoText /\ (r.status = "active" => r.approvedBy # NoApprover)

AppendVersion(log, r) == IF Valid(r) THEN Append(log, r) ELSE log

\* The fields a requirement starts with; the store draws the id and forces the status.
Created(draft, id) ==
    [id |-> id, deal |-> draft.deal, text |-> draft.text, ownerRole |-> draft.ownerRole,
     severity |-> draft.severity, scope |-> draft.scope, evidenceRefs |-> draft.evidenceRefs,
     createdBy |-> draft.createdBy, status |-> "proposed", approvedBy |-> NoApprover]

Create(log, draft, id) ==
    IF \E i \in DOMAIN log : log[i].id = id THEN log ELSE AppendVersion(log, Created(draft, id))

Approve(log, i, by) ==
    IF log[i].status = "proposed"
    THEN AppendVersion(log, [log[i] EXCEPT !.status = "active", !.approvedBy = by])
    ELSE log

\* A mistake: an active requirement can be rejected.
RejectUndecided(log, i) ==
    IF log[i].status \in {"proposed", "active"}
    THEN AppendVersion(log, [log[i] EXCEPT !.status = "rejected"]) ELSE log

Reject(log, i) ==
    IF log[i].status = "proposed" THEN AppendVersion(log, [log[i] EXCEPT !.status = "rejected"]) ELSE log

Retire(log, i) ==
    IF log[i].status = "active" THEN AppendVersion(log, [log[i] EXCEPT !.status = "retired"]) ELSE log

Terminal == {"rejected", "retired"}

\* The content fields an operator may change: never who decided, what was decided, or on what.
RequirementAmendment == {"text", "ownerRole", "severity", "scope", "evidenceRefs"}

\* A field that is not given keeps its value.
Amended(r, changes) ==
    [f \in DOMAIN r |-> IF f \in DOMAIN changes THEN changes[f] ELSE r[f]]

Amend(log, i, changes) ==
    IF log[i].status \in Terminal THEN log ELSE AppendVersion(log, Amended(log[i], changes))

\* The current snapshot of every requirement, in the order they were created.
Currents(log) ==
    LET firsts == Selected(log, {k \in DOMAIN log : \A j \in 1..(k - 1) : log[j].id # log[k].id})
        Latest(id) == log[CHOOSE i \in DOMAIN log : log[i].id = id /\ IsCurrent(log, i)]
    IN  [n \in DOMAIN firsts |-> Latest(firsts[n].id)]
===============================================================================
