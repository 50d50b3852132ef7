---------------------------- MODULE GovernanceApi ----------------------------
(***************************************************************************)
(* What the phases of the governance loop compute, and the answers of the  *)
(* HTTP routes that run them on stores made for one request.  Artifacts    *)
(* carry the number of the call that made them in place of the ids that    *)
(* the injected generator draws for it.                                    *)
(***************************************************************************)
EXTENDS EvalHarness

CONSTANTS None, InvalidJson, Malformed   \* no value; a body; a field that breaks its contract

DealStatus == {"on-track", "at-risk"}

GatedCustomerAction == "customer-facing status update"

(* --- the phases --- *)

\* Only the first requirement an output dropped opens a case.
Missed(output) == IF output.droppedRequirements = <<>> THEN None ELSE Head(output.droppedRequirements)

CaseOf(n, deal, missed) == [by |-> n, deal |-> deal, missed |-> missed, status |-> "open"]

CanEnforce(status) == status = "on-track"

AuditOf(n, case, status) ==
    [by |-> n, case |-> case, previousStatus |-> status, newStatus |-> "at-risk"]

GateOf(n, case, action) == [by |-> n, case |-> case, action |-> action, verdict |-> "deny"]

\* The criterion of the eval case is the requirement the case is about.
GradeOf(n, deal, missed, pass, output) ==
    [deal |-> deal, evalCase |-> n, passNumber |-> pass, criterion |-> missed,
     result |-> IF missed \in ToSet(output.droppedRequirements) THEN "fail" ELSE "pass"]

Grades(n, deal, missed, p1, p2) ==
    <<GradeOf(n, deal, missed, 1, p1), GradeOf(n, deal, missed, 2, p2)>>

(* --- the routes --- *)

Answer(status, result) == [status |-> status, result |-> result]

\* A field that was not posted breaks its contract.
Posted(body, field) == IF field \in DOMAIN body THEN body[field] ELSE Malformed

DetectResponse(n, body) ==
    LET posted == Posted(body, "agentOutput")
    IN  IF body = InvalidJson THEN Answer(500, None)
        ELSE IF posted = Malformed THEN Answer(400, None)
        ELSE IF Missed(posted.output) = None THEN Answer(404, None)
        ELSE Answer(200, CaseOf(n, posted.deal, Missed(posted.output)))

EnforceResponse(n, body) ==
    LET ids == {Posted(body, "governanceCaseId"), Posted(body, "dealId")}
        status == Posted(body, IF "currentStatus" \in DOMAIN body THEN "currentStatus" ELSE "fromStatus")
    IN  IF body = InvalidJson THEN Answer(500, None)
        ELSE IF Malformed \in ids \/ status \notin DealStatus THEN Answer(400, None)
        ELSE IF ~CanEnforce(status) THEN Answer(422, None)
        ELSE Answer(200, AuditOf(n, body.governanceCaseId, status))

\* Both passes are filed under the deal of the first one.
OnBothPasses(body, Result(_, _, _, _)) ==
    LET p1 == Posted(body, "agentOutputPass1")
        p2 == Posted(body, "agentOutputPass2")
    IN  IF body = InvalidJson THEN Answer(500, None)
        ELSE IF Malformed \in {p1, p2} THEN Answer(400, None)
        ELSE IF Missed(p1.output) = None THEN Answer(422, None)
        ELSE Answer(200, Result(p1.deal, Missed(p1.output), p1.output, p2.output))

EvalResponse(n, body) ==
    OnBothPasses(body, LAMBDA deal, missed, p1, p2 : RunEvals(Grades(n, deal, missed, p1, p2), deal))

\* The status enforced from is always on-track, whatever the first pass reported.
LoopResponse(n, body) ==
    OnBothPasses(body, LAMBDA deal, missed, p1, p2 :
        [governanceCase |-> CaseOf(n, deal, missed), auditEvent |-> AuditOf(n, n, "on-track"),
         gate |-> GateOf(n, n, GatedCustomerAction), evals |-> Grades(n, deal, missed, p1, p2)])
===============================================================================
