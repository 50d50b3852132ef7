---------------------------- MODULE EnforcementLoop ----------------------------
(***************************************************************************)
(* The governance loop and the operator's Approve + Enforce over shared    *)
(* stores and the two live sources of agent output: the cached source,     *)
(* which replays what it captured once, and the REST source, which asks    *)
(* the model each time and keeps receipts.  A call is split at its awaits; *)
(* calls run at the same time, a store, a file or the model may fail, and  *)
(* the process may crash: then the stores and the receipts are gone, the   *)
(* cache files are not.                                                    *)
(***************************************************************************)
EXTENDS GovernanceApi

CONSTANTS Deals, Transcripts,   \* the deals, and the inputs that can be bound to one
          Outputs,              \* what the model may answer
          Torn,                 \* the content of a cache file that was not written to its end
          Keys,                 \* whether GEMINI_API_KEY is set: yes, no, or either
          MaxRequests, MaxRegistrations, MaxFailures

ASSUME LoopAssumption ==
    /\ Keys \subseteq BOOLEAN
    /\ {MaxRequests, MaxRegistrations, MaxFailures} \subseteq Nat
    /\ None \notin Deals /\ None \notin Transcripts /\ None \notin Outputs /\ None \notin Requirements
    /\ Torn \notin Outputs /\ Torn # None
    /\ \A output \in Outputs : output.droppedRequirements \in Seq(Requirements)

Requests == 1..MaxRequests

\* What the routes are posted and answer is none of the marks for a value that is not there.
Posts == [deal : Deals, output : Outputs]

ASSUME MarksAssumption ==
    /\ None \notin [by : Requests, deal : Deals, missed : Requirements, status : {"open"}]
    /\ Malformed \notin Posts /\ Malformed \notin Requests /\ Malformed \notin Deals
    /\ InvalidJson \notin [agentOutput : Posts]
    /\ InvalidJson \notin [agentOutputPass1 : Posts, agentOutputPass2 : Posts]
    /\ InvalidJson \notin [governanceCaseId : Requests, dealId : Deals, currentStatus : DealStatus]

Sources == {"cache", "rest"}

Actions == {GatedCustomerAction, "internal note"}

VARIABLES inputs,     \* the transcript registered for each deal
          cache,      \* the cache file of each transcript and pass
          disturbed,  \* the cache files that two calls captured at once
          cases, audits, gates,   \* the stores: one artifact of a call each
          evals,      \* the eval store, in the order of the records
          receipts,   \* what the REST source recorded for each call
          calls,      \* the state of each call, in the order they start
          registrations, failures

stores == <<cases, audits, gates, evals>>
vars == <<inputs, cache, disturbed, stores, receipts, calls, registrations, failures>>

Ended == {"returned", "failed", "lost"}

\* The awaits a call may be at, those of getOutput first.
Running == {"lookup", "model", "truncate", "write", "body", "errorBody", "open", "audit", "gate", "record"}

\* stage: which output a call is after; of: the case it enforces; got: an output, or a decision.
NoCall ==
    [pc |-> "idle", op |-> "none", source |-> "cache", deal |-> None, action |-> GatedCustomerAction,
     stage |-> "detect", of |-> 0, missed |-> None, transcript |-> None, got |-> None]

Returned(n) == [calls[n] EXCEPT !.pc = "returned", !.got = None]
Failed(n) == [calls[n] EXCEPT !.pc = "failed", !.got = None]
At(n, pc) == [calls[n] EXCEPT !.pc = pc]

Become(n, call) == calls' = [calls EXCEPT ![n] = call]

MayFail == failures < MaxFailures /\ failures' = failures + 1

(* --- the sources of agent output --- *)

PassOf(stage) == IF stage = "grade2" THEN 2 ELSE 1

Key(call) == <<call.transcript, PassOf(call.stage)>>

Capturing(n, key) == calls[n].pc \in {"model", "truncate", "write"} /\ Key(calls[n]) = key

\* A mistake: a case is opened though nothing was dropped.
UsedUnchecked(n, output) ==
    IF calls[n].stage # "detect" THEN [At(n, "record") EXCEPT !.got = output]
    ELSE [At(n, "open") EXCEPT !.missed = Missed(output), !.got = None]

\* Where a call goes on when getOutput has answered.
Used(n, output) ==
    CASE calls[n].stage # "detect" -> [At(n, "record") EXCEPT !.got = output]
      [] calls[n].stage = "detect" /\ Missed(output) # None ->
            [At(n, "open") EXCEPT !.missed = Missed(output), !.got = None]
      [] calls[n].stage = "detect" /\ Missed(output) = None ->
            IF calls[n].op = "detect" THEN Returned(n) ELSE Failed(n)

\* Register binds an input to a deal, before calls run on it.
Register(deal, transcript) ==
    /\ registrations < MaxRegistrations
    /\ \A n \in Requests : calls[n].pc \in Running => calls[n].deal # deal
    /\ registrations' = registrations + 1
    /\ inputs' = [inputs EXCEPT ![deal] = transcript]
    /\ UNCHANGED <<cache, disturbed, stores, receipts, calls, failures>>

\* The input is taken from a map in memory (Register leaves a running call's alone), and only
\* the file is awaited: one absent or not valid is a miss, and a miss without a key an error.
LookUp(n) ==
    /\ calls[n].pc = "lookup" /\ calls[n].source = "cache"
    /\ LET call == [calls[n] EXCEPT !.transcript = inputs[calls[n].deal]]
           key == Key(call)
       IN  IF call.transcript = None THEN Become(n, Failed(n)) /\ UNCHANGED disturbed
           ELSE IF cache[key] \in Outputs
                THEN /\ Become(n, [Used(n, cache[key]) EXCEPT !.transcript = call.transcript])
                     /\ UNCHANGED disturbed
                ELSE \E hasKey \in Keys :
                        /\ Become(n, [call EXCEPT !.pc = IF hasKey THEN "model" ELSE "failed"])
                        /\ disturbed' = IF hasKey /\ \E k \in Requests \ {n} : Capturing(k, key)
                                        THEN disturbed \cup {key} ELSE disturbed
    /\ UNCHANGED <<inputs, cache, stores, receipts, registrations, failures>>

\* captureLive: the model answers, and its answer keeps to the contract.
Capture(n) ==
    /\ calls[n].pc = "model" /\ calls[n].source = "cache"
    /\ \E output \in Outputs : Become(n, [At(n, "truncate") EXCEPT !.got = output])
    /\ UNCHANGED <<inputs, cache, disturbed, stores, receipts, registrations, failures>>

\* writeCache opens the file, which empties it, and then writes it.
Truncate(n) ==
    /\ calls[n].pc = "truncate"
    /\ cache' = [cache EXCEPT ![Key(calls[n])] = Torn]
    /\ Become(n, At(n, "write"))
    /\ UNCHANGED <<inputs, disturbed, stores, receipts, registrations, failures>>

\* A mistake: what was captured is not kept.
ForgetCapture(n) ==
    /\ calls[n].pc = "write"
    /\ Become(n, Used(n, calls[n].got))
    /\ UNCHANGED <<inputs, cache, disturbed, stores, receipts, registrations, failures>>

\* Over the file of another call, the end of a longer text may stay.
WriteCache(n) ==
    /\ calls[n].pc = "write"
    /\ \E content \in {calls[n].got} \cup (IF cache[Key(calls[n])] = Torn THEN {} ELSE {Torn}) :
          cache' = [cache EXCEPT ![Key(calls[n])] = content]
    /\ Become(n, Used(n, calls[n].got))
    /\ UNCHANGED <<inputs, disturbed, stores, receipts, registrations, failures>>

\* An error of the model or of the file; a file that was opened stays torn.
CaptureFails(n) ==
    /\ calls[n].pc \in {"model", "truncate", "write"} /\ calls[n].source = "cache" /\ MayFail
    /\ Become(n, Failed(n))
    /\ UNCHANGED <<inputs, cache, disturbed, stores, receipts, registrations>>

Record(n, what) == receipts' = [receipts EXCEPT ![n] = Append(@, what)]

RequestOutput(n) ==
    /\ calls[n].pc = "lookup" /\ calls[n].source = "rest"
    /\ Record(n, "request")
    /\ Become(n, At(n, "model"))
    /\ UNCHANGED <<inputs, cache, disturbed, stores, registrations, failures>>

\* The headers of the response: from here on no timer runs.
Respond(n) ==
    /\ calls[n].pc = "model" /\ calls[n].source = "rest"
    /\ \/ Become(n, At(n, "body")) /\ UNCHANGED failures
       \/ MayFail /\ Become(n, At(n, "errorBody"))
    /\ UNCHANGED <<inputs, cache, disturbed, stores, receipts, registrations>>

ReadBody(n) ==
    /\ calls[n].pc = "body"
    /\ \E output \in Outputs : Become(n, Used(n, output))
    /\ Record(n, "success")
    /\ UNCHANGED <<inputs, cache, disturbed, stores, registrations, failures>>

\* The request fails or its body is no valid output.
RequestFails(n) ==
    /\ calls[n].pc \in {"model", "body"} /\ calls[n].source = "rest" /\ MayFail
    /\ Record(n, "error")
    /\ Become(n, Failed(n))
    /\ UNCHANGED <<inputs, cache, disturbed, stores, registrations>>

\* A mistake: the catch block records the error of a response a second time.
ReadErrorBodyTwice(n) ==
    /\ calls[n].pc = "errorBody"
    /\ receipts' = [receipts EXCEPT ![n] = @ \o <<"error", "error">>]
    /\ Become(n, Failed(n))
    /\ UNCHANGED <<inputs, cache, disturbed, stores, registrations, failures>>

ReadErrorBody(n) ==
    /\ calls[n].pc = "errorBody"
    /\ Record(n, "error")
    /\ Become(n, Failed(n))
    /\ UNCHANGED <<inputs, cache, disturbed, stores, registrations, failures>>

\* A mistake: the timer is set and nobody listens to it.
NeverTimesOut(n) == FALSE /\ UNCHANGED vars

TimeOut(n) ==
    /\ calls[n].pc = "model" /\ calls[n].source = "rest"
    /\ Record(n, "error")
    /\ Become(n, Failed(n))
    /\ UNCHANGED <<inputs, cache, disturbed, stores, registrations, failures>>

(* --- the stores --- *)

\* detectMiss opens the case; on its own it is done then.
OpenCase(n) ==
    /\ calls[n].pc = "open"
    /\ cases' = cases \cup {CaseOf(n, calls[n].deal, calls[n].missed)}
    /\ Become(n, IF calls[n].op = "detect" THEN Returned(n) ELSE At(n, "audit"))
    /\ UNCHANGED <<inputs, cache, disturbed, audits, gates, evals, receipts, registrations, failures>>

\* The loop records the enforcement before its gate, Approve + Enforce after it.
RecordAudit(n) ==
    /\ calls[n].pc = "audit"
    /\ audits' = audits \cup {AuditOf(n, calls[n].of, "on-track")}
    /\ Become(n, IF calls[n].op = "approve" THEN Returned(n) ELSE At(n, "gate"))
    /\ UNCHANGED <<inputs, cache, disturbed, cases, gates, evals, receipts, registrations, failures>>

\* The loop then asks for the output of the first pass once more.
OpenGate(n) ==
    /\ calls[n].pc = "gate"
    /\ gates' = gates \cup {GateOf(n, calls[n].of, calls[n].action)}
    /\ Become(n, IF calls[n].op = "approve" THEN At(n, "audit")
                 ELSE [At(n, "lookup") EXCEPT !.stage = "grade1"])
    /\ UNCHANGED <<inputs, cache, disturbed, cases, audits, evals, receipts, registrations, failures>>

RecordEval(n) ==
    /\ calls[n].pc = "record"
    /\ evals' = Append(evals, GradeOf(calls[n].of, calls[n].deal, calls[n].missed,
                                      PassOf(calls[n].stage), calls[n].got))
    /\ Become(n, IF calls[n].stage = "grade2" THEN Returned(n)
                 ELSE [At(n, "lookup") EXCEPT !.stage = "grade2", !.got = None])
    /\ UNCHANGED <<inputs, cache, disturbed, cases, audits, gates, receipts, registrations, failures>>

StoreFails(n) ==
    /\ calls[n].pc \in {"open", "audit", "gate", "record"} /\ MayFail
    /\ Become(n, Failed(n))
    /\ UNCHANGED <<inputs, cache, disturbed, stores, receipts, registrations>>

Correct ==
    \E case \in cases :
        /\ case.status = "open"
        /\ cases' = (cases \ {case}) \cup {[case EXCEPT !.status = "corrected"]}
        /\ UNCHANGED <<inputs, cache, disturbed, audits, gates, evals, receipts, calls,
                       registrations, failures>>

(* --- calls --- *)

Start(n, call) ==
    /\ calls[n].pc = "idle" /\ \A k \in 1..(n - 1) : calls[k].pc # "idle"
    /\ Become(n, call)
    /\ UNCHANGED <<inputs, cache, disturbed, stores, receipts, registrations>>

\* runGovernanceLoop, or detectMiss on its own.
StartLoop(n) ==
    \E deal \in Deals, source \in Sources, op \in {"loop", "detect"} :
        /\ Start(n, [NoCall EXCEPT !.pc = "lookup", !.op = op, !.deal = deal, !.source = source, !.of = n])
        /\ UNCHANGED failures

\* A mistake: the gate is left to the caller.
ApproveUngated(n) ==
    \E case \in cases, action \in Actions :
        /\ Start(n, [NoCall EXCEPT !.pc = "audit", !.op = "approve", !.deal = case.deal, !.action = action,
                                   !.of = case.by])
        /\ UNCHANGED failures

\* approveAndEnforce builds all its effects first, and refuses a deal that is at risk.
StartApprove(n) ==
    \E case \in cases, status \in DealStatus, action \in Actions :
        /\ Start(n, [NoCall EXCEPT !.pc = IF CanEnforce(status) THEN "gate" ELSE "failed",
                                   !.op = "approve", !.deal = case.deal, !.action = action, !.of = case.by])
        /\ UNCHANGED failures

DecisionFor(action) ==
    IF \E g \in gates : g.action = action /\ g.verdict = "deny" THEN "denied" ELSE "allowed"

\* A mistake: an evaluation that fails lets the action through.
EvaluateFailOpen(n) ==
    \E action \in Actions : \E decision \in {DecisionFor(action), "allowed"} :
        /\ Start(n, [NoCall EXCEPT !.pc = "returned", !.op = "evaluate", !.action = action, !.got = decision])
        /\ IF decision = DecisionFor(action) THEN UNCHANGED failures ELSE MayFail

\* evaluateDownstreamAction denies when the store throws.
Evaluate(n) ==
    \E action \in Actions : \E decision \in {DecisionFor(action), "denied"} :
        /\ Start(n, [NoCall EXCEPT !.pc = "returned", !.op = "evaluate", !.action = action, !.got = decision])
        /\ IF decision = DecisionFor(action) THEN UNCHANGED failures ELSE MayFail

\* What the process held in memory is gone, and its callers get no answer.
Crash ==
    /\ \E n \in Requests : calls[n].pc \in Running
    /\ MayFail
    /\ inputs' = [d \in Deals |-> None]
    /\ cases' = {} /\ audits' = {} /\ gates' = {} /\ evals' = <<>>
    /\ receipts' = [n \in Requests |-> <<>>]
    /\ calls' = [n \in Requests |-> IF calls[n].pc = "idle" THEN NoCall ELSE [NoCall EXCEPT !.pc = "lost"]]
    /\ UNCHANGED <<cache, disturbed, registrations>>

Init ==
    /\ inputs = [d \in Deals |-> None]
    /\ cache = [key \in Transcripts \X Passes |-> None]
    /\ disturbed = {}
    /\ cases = {} /\ audits = {} /\ gates = {} /\ evals = <<>>
    /\ receipts = [n \in Requests |-> <<>>]
    /\ calls = [n \in Requests |-> NoCall]
    /\ registrations = 0 /\ failures = 0

\* The steps the event loop takes for a call, or a timer of its own.
Progress(n) ==
    \/ LookUp(n) \/ Truncate(n) \/ WriteCache(n) \/ RequestOutput(n) \/ TimeOut(n)
    \/ OpenCase(n) \/ RecordAudit(n) \/ OpenGate(n) \/ RecordEval(n)

\* What the model does, in its own time or never.
Model(n) == Capture(n) \/ Respond(n) \/ ReadBody(n) \/ ReadErrorBody(n)

Faults(n) == CaptureFails(n) \/ RequestFails(n) \/ StoreFails(n)

Next ==
    \/ \E n \in Requests : \/ StartLoop(n) \/ StartApprove(n) \/ Evaluate(n)
                           \/ Progress(n) \/ Model(n) \/ Faults(n)
    \/ \E deal \in Deals, transcript \in Transcripts : Register(deal, transcript)
    \/ Correct
    \/ Crash

Spec == Init /\ [][Next]_vars /\ \A n \in Requests : WF_vars(Progress(n))

(* --- properties --- *)

TypeOK ==
    /\ inputs \in [Deals -> Transcripts \cup {None}]
    /\ cache \in [Transcripts \X Passes -> Outputs \cup {None, Torn}]
    /\ disturbed \subseteq Transcripts \X Passes
    /\ \A n \in Requests :
          /\ calls[n].pc \in Running \cup Ended \cup {"idle"}
          /\ calls[n].pc \in {"open", "audit"} /\ calls[n].op = "loop" =>
                calls[n].missed \in Requirements
          /\ calls[n].pc = "record" => calls[n].got \in Outputs
    /\ \A case \in cases : case.by \in Requests /\ case.missed \in Requirements
    /\ \A a \in audits : \E case \in cases : case.by = a.case
    /\ \A g \in gates : \E case \in cases : case.by = g.case
    /\ failures \in 0..MaxFailures

\* An enforcement on record has a gate of its case, unless the loop that recorded it is still to open
\* the gate or failed there: approveAndEnforce opens its gate first and never leaves one without.
EnforcementsAreGated ==
    \A a \in audits :
        \/ \E g \in gates : g.case = a.case
        \/ calls[a.by].op = "loop" /\ calls[a.by].pc \in {"gate", "failed"}

Undisturbed(n) == <<calls[n].transcript, 1>> \notin disturbed /\ <<calls[n].transcript, 2>> \notin disturbed

Post(n, pass) == [deal |-> calls[n].deal, output |-> cache[<<calls[n].transcript, pass>>]]

\* A loop on the cached source that has returned left in the stores what the API computes from the
\* two outputs that are in the cache, though it asked for the first one twice: what it detected is
\* what it graded, and the coverage grader passes no output that failed.  A detect call left what
\* /governance/detect answers, an approval the event that /governance/enforce answers.
ReturnedCallsReplay ==
    \A n \in Requests :
        calls[n].pc = "returned" /\ calls[n].source = "cache" /\ Undisturbed(n) =>
            /\ calls[n].op = "loop" =>
                  LET body == [agentOutputPass1 |-> Post(n, 1), agentOutputPass2 |-> Post(n, 2)]
                      answer == LoopResponse(n, body)
                      own == OfEvalCase(evals, n)
                  IN  /\ {body.agentOutputPass1.output, body.agentOutputPass2.output} \subseteq Outputs
                      /\ answer.status = 200
                      /\ \E case \in cases :
                            case = [answer.result.governanceCase EXCEPT !.status = case.status]
                      /\ answer.result.auditEvent \in audits
                      /\ answer.result.gate \in gates
                      /\ own = answer.result.evals
                      /\ EvalResponse(n, body).result = RunEvals(own, calls[n].deal)
                      /\ \A i \in DOMAIN own :
                            GradeRequirementCoverage(Post(n, i).output, own[i].criterion) = "pass"
                               => own[i].result = "pass"
            /\ calls[n].op = "detect" =>
                  LET answer == DetectResponse(n, [agentOutput |-> Post(n, 1)])
                  IN  /\ Post(n, 1).output \in Outputs
                      /\ {[case EXCEPT !.status = "open"] : case \in {c \in cases : c.by = n}}
                            = {answer.result} \ {None}
            /\ calls[n].op = "approve" =>
                  EnforceResponse(n, [governanceCaseId |-> calls[n].of, dealId |-> calls[n].deal,
                                      currentStatus |-> "on-track"]).result \in audits

\* The eval table shows a correction exactly when some second pass honoured its requirement, and a
\* healthy row of the rule health table is such a correction, when the deal's loops ran on one input
\* of the cached source that was captured once: also with loops that failed half way.
TableShowsTheCorrection ==
    \A deal \in Deals :
        LET graders == {n \in Requests : \E i \in DOMAIN evals : evals[i].evalCase = n /\ evals[i].deal = deal}
            table == OfDeal(evals, deal)
            summary == SummarizeEvalTable(table)
        IN  ((\A n \in graders : calls[n].source = "cache" /\ Undisturbed(n))
             /\ Cardinality({calls[n].transcript : n \in graders}) = 1) =>
                /\ summary.improved <=> \E i \in DOMAIN table : table[i].passNumber = 2 /\ table[i].result = "pass"
                /\ \A n \in graders : RuleHealth(n, evals).healthy => summary.improved
                /\ summary.fail >= Cardinality(graders)
                /\ summary.pass + summary.fail = summary.total
                /\ summary = SummarizeEvalTable(RunEvals(evals, deal))

\* Once a loop or an approval has answered, its gated action is denied to every later evaluation,
\* also to one that fails.
NoSendAfterEnforcement ==
    [][\A n, m \in Requests :
          (/\ calls[n].pc = "idle" /\ calls'[n].op = "evaluate" /\ calls'[n].got = "allowed"
           /\ calls[m].pc = "returned" /\ calls[m].op \in {"loop", "approve"})
             => calls[m].action # calls'[n].action]_vars

\* Every request of the REST source has one outcome, a success for each output that was used: none
\* while the request runs, and no second one, whichever of its four ways of failing it took.
OneOutcomePerRequest ==
    \A n \in Requests :
        /\ \A i \in DOMAIN receipts[n] : receipts[n][i] = "request" <=> i % 2 = 1
        /\ calls[n].pc \in {"returned", "failed"} => Len(receipts[n]) % 2 = 0
        /\ calls[n].pc = "returned" /\ calls[n].source = "rest" /\ calls[n].op = "loop" =>
              Cardinality({i \in DOMAIN receipts[n] : receipts[n][i] = "success"}) = 3

\* A call ends, or it waits for good for an answer of the model on which no timer runs: captureLive
\* has none, and the timer of the REST source is cleared when the headers are there.
CallsEndOrAwaitTheModel ==
    \A n \in Requests :
        <>[](\/ calls[n].pc \in Ended \cup {"idle", "body", "errorBody"}
             \/ calls[n].pc = "model" /\ calls[n].source = "cache")
===============================================================================
