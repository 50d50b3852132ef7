------------------------- MODULE EnforcementLoopProofs -------------------------
(***************************************************************************)
(* Theorems of EnforcementLoop, for any deals, transcripts, outputs and    *)
(* bounds, and with any number of store, file and model failures and of    *)
(* crashes among them; of the eval library, the policy router and the      *)
(* approval of corrections.                                                *)
(***************************************************************************)
EXTENDS EnforcementLoop, DataLemmas, FiniteSetTheorems, FunctionTheorems

CallFields == {"pc", "op", "source", "deal", "action", "stage", "of", "missed", "transcript", "got"}

Awaiting == {"lookup", "model", "truncate", "write", "body", "errorBody", "open"}

(* The n-th call on its own.                                               *)
Shaped(n, c) ==
    /\ c = [f \in CallFields |-> c[f]]
    /\ c.pc \in Running \cup Ended \cup {"idle"}
    /\ c.stage \in {"detect", "grade1", "grade2"}
    /\ c.transcript \in Transcripts \cup {None}
    /\ c.pc = "idle" => c.op = "none"
    /\ c.op = "loop" => c.of = n
    /\ c.pc \in {"truncate", "write"} => c.source = "cache" /\ c.got \in Outputs
    /\ c.pc \in {"model", "truncate", "write"} /\ c.source = "cache" => c.transcript \in Transcripts
    /\ c.pc \in Awaiting => c.op \in {"loop", "detect"}
    /\ c.op \in {"loop", "detect"} => c.deal \in Deals
    /\ c.pc = "record" => c.got \in Outputs /\ c.op = "loop" /\ c.stage # "detect"
    /\ c.pc = "open" => c.missed \in Requirements /\ c.stage = "detect"
    /\ c.pc \in {"audit", "gate"} => c.op \in {"loop", "approve"}
    /\ c.pc \in {"audit", "gate"} /\ c.op = "loop" => c.missed \in Requirements /\ c.stage = "detect"
    /\ c.op = "loop" /\ c.pc = "returned" => c.stage = "grade2"
    /\ c.op # "loop" => c.stage = "detect"

(* Its case is there before it is enforced; a loop that went on to grade,  *)
(* and an approval that is about to record or done, have opened a gate.    *)
HasCase(c, cs) == \E case \in cs : case.by = c.of

HasGate(c, gs) == \E g \in gs : g.case = c.of /\ g.action = c.action /\ g.verdict = "deny"

Backed(c, cs, gs) ==
    /\ c.pc \in {"audit", "gate"} => HasCase(c, cs)
    /\ c.op = "approve" /\ c.pc \in {"audit", "returned"} => HasGate(c, gs)
    /\ c.op = "loop" /\ c.stage # "detect" => HasGate(c, gs)

IsCase(case) ==
    /\ case = [f \in {"by", "deal", "missed", "status"} |-> case[f]]
    /\ case.by \in Requests /\ case.missed \in Requirements

(* An enforcement is of the case its call enforces, and gated or about to  *)
(* be, unless its loop failed there.                                       *)
AuditInv(a) ==
    /\ a.by \in Requests /\ calls[a.by].pc # "idle"
    /\ a.case = calls[a.by].of
    /\ \E case \in cases : case.by = a.case
    /\ \/ \E g \in gates : g.case = a.case
       \/ calls[a.by].op = "loop" /\ calls[a.by].pc \in {"gate", "failed"}

CallsInv ==
    /\ calls = [n \in Requests |-> calls[n]]
    /\ \A n \in Requests : Shaped(n, calls[n]) /\ Backed(calls[n], cases, gates)

StoresInv ==
    /\ \A case \in cases : IsCase(case)
    /\ \A a \in audits : AuditInv(a)
    /\ \A g \in gates : \E case \in cases : case.by = g.case

FilesInv ==
    /\ inputs \in [Deals -> Transcripts \cup {None}]
    /\ cache \in [Transcripts \X Passes -> Outputs \cup {None, Torn}]
    /\ disturbed \subseteq Transcripts \X Passes
    /\ failures \in 0..MaxFailures

LoopInv == CallsInv /\ StoresInv /\ FilesInv

(***************************************************************************)
(* The forms a call takes.                                                 *)
(***************************************************************************)
Same(c, d) == c.op = d.op /\ c.of = d.of /\ c.action = d.action

AsIs(c, d) ==
    /\ Same(c, d)
    /\ c.source = d.source /\ c.deal = d.deal /\ c.stage = d.stage
    /\ c.missed = d.missed /\ c.transcript = d.transcript

LEMMA AtFields ==
    ASSUME NEW n, calls[n] = [f \in CallFields |-> calls[n][f]], NEW pc
    PROVE  /\ At(n, pc) = [f \in CallFields |-> At(n, pc)[f]]
           /\ At(n, pc).pc = pc /\ At(n, pc).got = calls[n].got
           /\ AsIs(At(n, pc), calls[n])
BY DEF At, AsIs, Same, CallFields

LEMMA EndFields ==
    ASSUME NEW n, calls[n] = [f \in CallFields |-> calls[n][f]]
    PROVE  /\ Returned(n) = [f \in CallFields |-> Returned(n)[f]]
           /\ Returned(n).pc = "returned" /\ AsIs(Returned(n), calls[n])
           /\ Failed(n) = [f \in CallFields |-> Failed(n)[f]]
           /\ Failed(n).pc = "failed" /\ AsIs(Failed(n), calls[n])
BY DEF Returned, Failed, AsIs, Same, CallFields

(* A call that fails keeps what it is.                                     *)
LEMMA FailedIsShaped ==
    ASSUME NEW n, Shaped(n, calls[n])
    PROVE  Shaped(n, Failed(n)) /\ Failed(n).pc = "failed" /\ Same(Failed(n), calls[n])
           /\ Failed(n).stage = calls[n].stage
<1>1. calls[n] = [f \in CallFields |-> calls[n][f]]
  BY DEF Shaped
<1>2. /\ Failed(n) = [f \in CallFields |-> Failed(n)[f]]
      /\ Failed(n).pc = "failed" /\ AsIs(Failed(n), calls[n])
  BY <1>1, EndFields
<1> QED
  BY <1>2 DEF Shaped, AsIs, Same, Running, Ended, Awaiting

LEMMA MissedIsARequirement ==
    ASSUME NEW output \in Outputs, Missed(output) # None
    PROVE  Missed(output) \in Requirements
<1>1. output.droppedRequirements \in Seq(Requirements)
  BY LoopAssumption
<1>2. output.droppedRequirements # <<>> /\ Missed(output) = Head(output.droppedRequirements)
  BY DEF Missed
<1> QED
  BY <1>1, <1>2, HeadTailProperties

(* Where a call goes on with an output.                                    *)
LEMMA UsedIsShaped ==
    ASSUME NEW n, Shaped(n, calls[n]), calls[n].pc \in {"lookup", "write", "body"},
           NEW output \in Outputs
    PROVE  LET c == Used(n, output) IN
           /\ Shaped(n, c) /\ Same(c, calls[n]) /\ c.stage = calls[n].stage
           /\ c.pc \in {"record", "open", "returned", "failed"}
<1>1. calls[n] = [f \in CallFields |-> calls[n][f]] /\ calls[n].op \in {"loop", "detect"}
  BY DEF Shaped, Awaiting
<1>2. CASE calls[n].stage # "detect"
  <2> DEFINE c == [At(n, "record") EXCEPT !.got = output]
  <2>1. /\ c = [f \in CallFields |-> c[f]]
        /\ c.pc = "record" /\ c.got = output /\ AsIs(c, calls[n])
    BY <1>1, AtFields DEF CallFields, AsIs, Same
  <2>2. Used(n, output) = c
    BY <1>2 DEF Used
  <2> HIDE DEF c
  <2>3. Shaped(n, c)
    BY <1>1, <1>2, <2>1 DEF Shaped, AsIs, Same, Running, Ended, Awaiting
  <2> QED
    BY <2>1, <2>2, <2>3 DEF AsIs
<1>3. CASE calls[n].stage = "detect" /\ Missed(output) # None
  <2> DEFINE opening == At(n, "open")
             c == [opening EXCEPT !.missed = Missed(output), !.got = None]
  <2>1. Used(n, output) = c
    BY <1>3 DEF Used
  <2>2. /\ opening = [f \in CallFields |-> opening[f]]
        /\ opening.pc = "open" /\ AsIs(opening, calls[n])
    BY <1>1, AtFields
  <2> HIDE DEF opening
  <2>3. /\ c = [f \in CallFields |-> c[f]]
        /\ c.pc = "open" /\ c.missed = Missed(output) /\ c.deal = calls[n].deal
        /\ Same(c, calls[n]) /\ c.stage = calls[n].stage /\ c.transcript = calls[n].transcript
    BY <2>2 DEF CallFields, AsIs, Same
  <2> HIDE DEF c
  <2>4. Shaped(n, c)
    BY <1>1, <1>3, <2>3, MissedIsARequirement DEF Shaped, Same, Running, Ended, Awaiting
  <2> QED
    BY <2>3, <2>1, <2>4
<1>4. CASE calls[n].stage = "detect" /\ Missed(output) = None
  <2>1. Used(n, output) = IF calls[n].op = "detect" THEN Returned(n) ELSE Failed(n)
    BY <1>4 DEF Used
  <2>2. /\ Returned(n) = [f \in CallFields |-> Returned(n)[f]]
        /\ Returned(n).pc = "returned" /\ AsIs(Returned(n), calls[n])
    BY <1>1, EndFields
  <2>3. calls[n].op = "detect" => Shaped(n, Returned(n))
    BY <1>4, <2>2 DEF Shaped, AsIs, Same, Running, Ended, Awaiting
  <2>4. CASE calls[n].op = "detect"
    <3>1. Used(n, output) = Returned(n)
      BY <2>1, <2>4
    <3>2. Shaped(n, Returned(n)) /\ Same(Returned(n), calls[n])
          /\ Returned(n).stage = calls[n].stage
      BY <2>2, <2>3, <2>4 DEF AsIs
    <3> QED
      BY <2>2, <3>1, <3>2
  <2>5. CASE calls[n].op # "detect"
    <3>1. Used(n, output) = Failed(n)
      BY <2>1, <2>5
    <3> QED
      BY <3>1, FailedIsShaped
  <2> QED
    BY <2>4, <2>5
<1> QED
  BY <1>2, <1>3, <1>4

(***************************************************************************)
(* One call moves.                                                         *)
(***************************************************************************)

(* A call that neither opens a gate nor records an enforcement.            *)
LEMMA CallMoves ==
    ASSUME CallsInv, StoresInv, NEW n \in Requests, NEW c, Become(n, c),
           UNCHANGED <<cases, audits, gates>>,
           Shaped(n, c), Backed(c, cases, gates), c.pc # "idle",
           \/ calls[n].pc = "idle"
           \/ /\ Same(c, calls[n])
              /\ calls[n].pc \in {"gate", "failed"} => c.pc \in {"gate", "failed"}
    PROVE  CallsInv' /\ StoresInv'
<1>1. /\ calls' = [k \in Requests |-> calls'[k]]
      /\ \A k \in Requests : calls'[k] = IF k = n THEN c ELSE calls[k]
  BY DEF CallsInv, Become
<1>2. CallsInv'
  BY <1>1 DEF CallsInv, Shaped, Backed, HasCase, HasGate
<1>3. ASSUME NEW a \in audits
      PROVE  AuditInv(a)'
  <2>1. AuditInv(a)
    BY DEF StoresInv
  <2> QED
    BY <1>1, <2>1 DEF AuditInv, Same
<1> QED
  BY <1>2, <1>3 DEF StoresInv

(* A call on its way to an output, or past one.                            *)
LEMMA CallWaits ==
    ASSUME CallsInv, StoresInv, NEW n \in Requests, NEW c, Become(n, c),
           UNCHANGED <<cases, audits, gates>>,
           Shaped(n, c), Same(c, calls[n]), c.stage = calls[n].stage,
           calls[n].pc \in Awaiting,
           c.pc \notin {"idle", "audit", "gate"}
    PROVE  CallsInv' /\ StoresInv'
<1>1. calls[n].op \in {"loop", "detect"} /\ Backed(calls[n], cases, gates)
  BY DEF CallsInv, Shaped
<1>2. Backed(c, cases, gates)
  BY <1>1 DEF Backed, HasGate, Same
<1> QED
  BY <1>2, CallMoves DEF Awaiting

LEMMA CallFails ==
    ASSUME CallsInv, StoresInv, NEW n \in Requests, Become(n, Failed(n)),
           UNCHANGED <<cases, audits, gates>>, calls[n].pc # "idle"
    PROVE  CallsInv' /\ StoresInv'
<1>1. Shaped(n, calls[n]) /\ Backed(calls[n], cases, gates)
  BY DEF CallsInv
<1>2. /\ Shaped(n, Failed(n)) /\ Failed(n).pc = "failed" /\ Same(Failed(n), calls[n])
      /\ Failed(n).stage = calls[n].stage
  BY <1>1, FailedIsShaped
<1>3. Backed(Failed(n), cases, gates)
  BY <1>1, <1>2 DEF Backed, HasGate, Same
<1> QED
  BY <1>2, <1>3, CallMoves

(***************************************************************************)
(* The sources.                                                            *)
(***************************************************************************)
LEMMA KeysAreKeys ==
    ASSUME NEW c, c.transcript \in Transcripts
    PROVE  Key(c) \in Transcripts \X Passes
BY DEF Key, PassOf, Passes

LEMMA LookUpKeeps ==
    ASSUME LoopInv, NEW n \in Requests, LookUp(n)
    PROVE  LoopInv'
<1> DEFINE bound == [calls[n] EXCEPT !.transcript = inputs[calls[n].deal]]
           key == Key(bound)
<1>1. Shaped(n, calls[n]) /\ calls[n].pc = "lookup"
  BY DEF LoopInv, CallsInv, LookUp
<1>2. calls[n] = [f \in CallFields |-> calls[n][f]] /\ calls[n].op \in {"loop", "detect"}
  BY <1>1 DEF Shaped, Awaiting
<1>3. /\ bound = [f \in CallFields |-> bound[f]]
      /\ bound.transcript = inputs[calls[n].deal] /\ bound.pc = "lookup"
      /\ Same(bound, calls[n]) /\ bound.stage = calls[n].stage /\ bound.source = calls[n].source
      /\ bound.missed = calls[n].missed /\ bound.got = calls[n].got
      /\ bound.deal = calls[n].deal
  BY <1>1, <1>2 DEF Same, CallFields
<1>4. IF bound.transcript = None THEN Become(n, Failed(n)) /\ UNCHANGED disturbed
      ELSE IF cache[key] \in Outputs
           THEN /\ Become(n, [Used(n, cache[key]) EXCEPT !.transcript = bound.transcript])
                /\ UNCHANGED disturbed
           ELSE \E hasKey \in Keys :
                   /\ Become(n, [bound EXCEPT !.pc = IF hasKey THEN "model" ELSE "failed"])
                   /\ disturbed' = IF hasKey /\ \E k \in Requests \ {n} : Capturing(k, key)
                                   THEN disturbed \cup {key} ELSE disturbed
  BY DEF LookUp
<1>5. UNCHANGED <<inputs, cache, cases, audits, gates, failures>>
  BY DEF LookUp, stores
<1>6. calls[n].source = "cache"
  BY DEF LookUp
<1>7. CASE bound.transcript = None
  BY <1>1, <1>4, <1>5, <1>7, CallFails DEF LoopInv, FilesInv
<1>8. CASE bound.transcript # None
  <2>1. bound.transcript \in Transcripts
    BY <1>1, <1>3, <1>8 DEF LoopInv, FilesInv, Shaped, Awaiting
  <2>2. key \in Transcripts \X Passes
    BY <2>1, KeysAreKeys
  <2> HIDE DEF key, bound
  <2>3. CASE cache[key] \in Outputs
    <3> DEFINE used == Used(n, cache[key])
               c == [used EXCEPT !.transcript = bound.transcript]
    <3>1. /\ Shaped(n, used) /\ Same(used, calls[n]) /\ used.stage = calls[n].stage
          /\ used.pc \in {"record", "open", "returned", "failed"}
      BY <1>1, <2>3, UsedIsShaped
    <3> HIDE DEF used
    <3>2. /\ c = [f \in CallFields |-> c[f]]
          /\ c.transcript = bound.transcript /\ c.pc = used.pc
          /\ c.op = used.op /\ c.of = used.of /\ c.action = used.action
          /\ c.stage = used.stage /\ c.source = used.source
          /\ c.missed = used.missed /\ c.got = used.got /\ c.deal = used.deal
      BY <3>1 DEF Shaped, CallFields
    <3>3. Become(n, c) /\ disturbed' = disturbed
      BY <1>4, <1>8, <2>3 DEF used
    <3> HIDE DEF c
    <3>4. Shaped(n, c) /\ Same(c, calls[n])
      BY <2>1, <3>1, <3>2 DEF Shaped, Same
    <3>5. c.stage = calls[n].stage /\ c.pc \notin {"idle", "audit", "gate"}
      BY <3>1, <3>2
    <3>6. CallsInv' /\ StoresInv'
      BY <1>1, <1>5, <3>3, <3>4, <3>5, CallWaits DEF LoopInv, Awaiting
    <3> QED
      BY <1>5, <3>3, <3>6 DEF LoopInv, FilesInv
  <2>4. CASE cache[key] \notin Outputs
    <3>1. PICK hasKey \in Keys :
              /\ Become(n, [bound EXCEPT !.pc = IF hasKey THEN "model" ELSE "failed"])
              /\ disturbed' = IF hasKey /\ \E k \in Requests \ {n} : Capturing(k, key)
                              THEN disturbed \cup {key} ELSE disturbed
      BY <1>4, <1>8, <2>4
    <3> DEFINE pc == IF hasKey THEN "model" ELSE "failed"
               c == [bound EXCEPT !.pc = pc]
    <3>2. /\ c = [f \in CallFields |-> c[f]]
          /\ c.transcript = bound.transcript /\ c.pc = pc
          /\ Same(c, bound) /\ c.stage = bound.stage /\ c.source = bound.source
          /\ c.missed = bound.missed /\ c.got = bound.got /\ c.deal = bound.deal
      BY <1>3 DEF Same, CallFields
    <3>3. Become(n, c)
      BY <3>1
    <3>4. pc \in {"model", "failed"}
      OBVIOUS
    <3> HIDE DEF c, pc
    <3>5. Shaped(n, c) /\ Same(c, calls[n])
      BY <1>1, <1>2, <1>3, <2>1, <3>2, <3>4 DEF Shaped, Same, Running, Ended, Awaiting
    <3>6. c.stage = calls[n].stage /\ c.pc \notin {"idle", "audit", "gate"}
      BY <1>3, <3>2, <3>4
    <3>7. CallsInv' /\ StoresInv'
      BY <1>1, <1>5, <3>3, <3>5, <3>6, CallWaits DEF LoopInv, Awaiting
    <3>8. disturbed' \subseteq Transcripts \X Passes
      BY <2>2, <3>1 DEF LoopInv, FilesInv
    <3> QED
      BY <1>5, <3>7, <3>8 DEF LoopInv, FilesInv
  <2> QED
    BY <2>3, <2>4
<1> QED
  BY <1>7, <1>8 

LEMMA FailuresAreBounded ==
    ASSUME failures \in 0..MaxFailures, MayFail \/ UNCHANGED failures
    PROVE  failures' \in 0..MaxFailures
BY LoopAssumption DEF MayFail

(* The steps of the two sources after the first; the loop may only be left *)
(* for the stores with an output.                                          *)
LEMMA SourceStepKeeps ==
    ASSUME LoopInv, NEW n \in Requests, calls[n].pc \in Awaiting,
           NEW c, Become(n, c), Shaped(n, c), Same(c, calls[n]), c.stage = calls[n].stage,
           c.pc \notin {"idle", "audit", "gate"},
           UNCHANGED <<inputs, disturbed, cases, audits, gates>>,
           cache' \in [Transcripts \X Passes -> Outputs \cup {None, Torn}],
           MayFail \/ UNCHANGED failures
    PROVE  LoopInv'
<1>1. CallsInv' /\ StoresInv'
  BY CallWaits DEF LoopInv
<1> QED
  BY <1>1, FailuresAreBounded DEF LoopInv, FilesInv

LEMMA MovesOn ==
    ASSUME LoopInv, NEW n \in Requests, calls[n].pc \in Awaiting,
           NEW pc \in {"model", "truncate", "write", "body", "errorBody"},
           NEW c, c = At(n, pc),
           pc \in {"truncate", "write"} => calls[n].source = "cache" /\ calls[n].got \in Outputs,
           pc = "model" => calls[n].source # "cache",
           calls[n].pc \in {"model", "truncate", "write"} \/ pc \notin {"truncate", "write"}
    PROVE  /\ Shaped(n, c) /\ Same(c, calls[n]) /\ c.stage = calls[n].stage
           /\ c.pc \notin {"idle", "audit", "gate"}
<1>1. Shaped(n, calls[n])
  BY DEF LoopInv, CallsInv
<1>2. calls[n] = [f \in CallFields |-> calls[n][f]]
  BY <1>1 DEF Shaped
<1>3. /\ c = [f \in CallFields |-> c[f]]
      /\ c.pc = pc /\ c.got = calls[n].got /\ AsIs(c, calls[n])
  BY <1>2, AtFields
<1> QED
  BY <1>1, <1>3 DEF Shaped, AsIs, Same, Running, Ended, Awaiting

LEMMA CaptureKeeps ==
    ASSUME LoopInv, NEW n \in Requests, Capture(n)
    PROVE  LoopInv'
<1>1. PICK output \in Outputs : Become(n, [At(n, "truncate") EXCEPT !.got = output])
  BY DEF Capture
<1>2. Shaped(n, calls[n]) /\ calls[n].pc = "model" /\ calls[n].source = "cache"
  BY DEF LoopInv, CallsInv, Capture
<1>3. calls[n] = [f \in CallFields |-> calls[n][f]]
  BY <1>2 DEF Shaped
<1> DEFINE there == At(n, "truncate")
           c == [there EXCEPT !.got = output]
<1>4. /\ there = [f \in CallFields |-> there[f]]
      /\ there.pc = "truncate" /\ AsIs(there, calls[n])
  BY <1>3, AtFields
<1>5. Become(n, c)
  BY <1>1
<1> HIDE DEF there
<1>6. /\ c = [f \in CallFields |-> c[f]]
      /\ c.pc = "truncate" /\ c.got = output /\ AsIs(c, calls[n])
  BY <1>4 DEF CallFields, AsIs, Same
<1> HIDE DEF c
<1>7. Shaped(n, c) /\ Same(c, calls[n]) /\ c.stage = calls[n].stage
  BY <1>2, <1>6 DEF Shaped, AsIs, Same, Running, Ended, Awaiting
<1>8. c.pc \notin {"idle", "audit", "gate"} /\ calls[n].pc \in Awaiting
  BY <1>2, <1>6 DEF Awaiting
<1>9. /\ UNCHANGED <<inputs, disturbed, cases, audits, gates, failures>>
      /\ cache' \in [Transcripts \X Passes -> Outputs \cup {None, Torn}]
  BY DEF Capture, stores, LoopInv, FilesInv
<1> QED
  BY <1>5, <1>7, <1>8, <1>9, SourceStepKeeps

LEMMA TruncateKeeps ==
    ASSUME LoopInv, NEW n \in Requests, Truncate(n)
    PROVE  LoopInv'
<1>1. Shaped(n, calls[n]) /\ calls[n].pc = "truncate" /\ calls[n].pc \in Awaiting
  BY DEF LoopInv, CallsInv, Truncate, Awaiting
<1>2. calls[n].source = "cache" /\ calls[n].got \in Outputs /\ calls[n].transcript \in Transcripts
  BY <1>1 DEF Shaped
<1> DEFINE c == At(n, "write")
<1>3. Become(n, c)
  BY DEF Truncate
<1> HIDE DEF c
<1>4. /\ Shaped(n, c) /\ Same(c, calls[n]) /\ c.stage = calls[n].stage
      /\ c.pc \notin {"idle", "audit", "gate"}
  BY <1>1, <1>2, MovesOn DEF c
<1>5. /\ UNCHANGED <<inputs, disturbed, cases, audits, gates, failures>>
      /\ cache' \in [Transcripts \X Passes -> Outputs \cup {None, Torn}]
  BY <1>2, KeysAreKeys DEF Truncate, stores, LoopInv, FilesInv
<1> QED
  BY <1>1, <1>3, <1>4, <1>5, SourceStepKeeps

LEMMA WriteKeeps ==
    ASSUME LoopInv, NEW n \in Requests, WriteCache(n)
    PROVE  LoopInv'
<1>1. Shaped(n, calls[n]) /\ calls[n].pc = "write" /\ calls[n].pc \in Awaiting
  BY DEF LoopInv, CallsInv, WriteCache, Awaiting
<1>2. calls[n].got \in Outputs
  BY <1>1 DEF Shaped
<1> DEFINE c == Used(n, calls[n].got)
<1>3. Become(n, c)
  BY DEF WriteCache
<1>4. /\ Shaped(n, c) /\ Same(c, calls[n]) /\ c.stage = calls[n].stage
      /\ c.pc \in {"record", "open", "returned", "failed"}
  BY <1>1, <1>2, UsedIsShaped
<1>5. PICK content \in {calls[n].got} \cup {Torn} : cache' = [cache EXCEPT ![Key(calls[n])] = content]
  BY DEF WriteCache
<1>6. /\ UNCHANGED <<inputs, disturbed, cases, audits, gates, failures>>
      /\ cache' \in [Transcripts \X Passes -> Outputs \cup {None, Torn}]
  BY <1>2, <1>5 DEF WriteCache, stores, LoopInv, FilesInv
<1> HIDE DEF c
<1> QED
  BY <1>1, <1>3, <1>4, <1>6, SourceStepKeeps

LEMMA ReadBodyKeeps ==
    ASSUME LoopInv, NEW n \in Requests, ReadBody(n)
    PROVE  LoopInv'
<1>1. Shaped(n, calls[n]) /\ calls[n].pc = "body" /\ calls[n].pc \in Awaiting
  BY DEF LoopInv, CallsInv, ReadBody, Awaiting
<1>2. PICK output \in Outputs : Become(n, Used(n, output))
  BY DEF ReadBody
<1> DEFINE c == Used(n, output)
<1>3. /\ Shaped(n, c) /\ Same(c, calls[n]) /\ c.stage = calls[n].stage
      /\ c.pc \in {"record", "open", "returned", "failed"}
  BY <1>1, <1>2, UsedIsShaped
<1>4. /\ UNCHANGED <<inputs, disturbed, cases, audits, gates, failures>>
      /\ cache' \in [Transcripts \X Passes -> Outputs \cup {None, Torn}]
  BY DEF ReadBody, stores, LoopInv, FilesInv
<1> HIDE DEF c
<1> QED
  BY <1>1, <1>2, <1>3, <1>4, SourceStepKeeps DEF c

LEMMA RequestStepsKeep ==
    ASSUME LoopInv, NEW n \in Requests, RequestOutput(n) \/ Respond(n)
    PROVE  LoopInv'
<1>1. PICK pc \in {"model", "body", "errorBody"} : Become(n, At(n, pc))
  BY DEF RequestOutput, Respond
<1>2. /\ calls[n].source = "rest" /\ calls[n].pc \in Awaiting
  BY DEF RequestOutput, Respond, Awaiting
<1> DEFINE c == At(n, pc)
<1>3. Become(n, c)
  BY <1>1
<1> HIDE DEF c
<1>4. /\ Shaped(n, c) /\ Same(c, calls[n]) /\ c.stage = calls[n].stage
      /\ c.pc \notin {"idle", "audit", "gate"}
  BY <1>1, <1>2, MovesOn DEF c
<1>5. /\ UNCHANGED <<inputs, disturbed, cases, audits, gates>>
      /\ cache' \in [Transcripts \X Passes -> Outputs \cup {None, Torn}]
      /\ MayFail \/ UNCHANGED failures
  BY DEF RequestOutput, Respond, stores, LoopInv, FilesInv
<1> QED
  BY <1>2, <1>3, <1>4, <1>5, SourceStepKeeps

(* Everything that fails.                                                  *)
LEMMA FailuresKeep ==
    ASSUME LoopInv, NEW n \in Requests,
           CaptureFails(n) \/ RequestFails(n) \/ ReadErrorBody(n) \/ TimeOut(n) \/ StoreFails(n)
    PROVE  LoopInv'
<1>1. /\ Become(n, Failed(n)) /\ calls[n].pc # "idle"
      /\ UNCHANGED <<inputs, cache, disturbed, cases, audits, gates>>
      /\ MayFail \/ UNCHANGED failures
  BY DEF CaptureFails, RequestFails, ReadErrorBody, TimeOut, StoreFails, stores
<1>2. CallsInv' /\ StoresInv'
  BY <1>1, CallFails DEF LoopInv
<1> QED
  BY <1>1, <1>2, FailuresAreBounded DEF LoopInv, FilesInv

(***************************************************************************)
(* The stores.                                                             *)
(***************************************************************************)
LEMMA StoresGrow ==
    ASSUME CallsInv, StoresInv, NEW n \in Requests, NEW c, Become(n, c),
           calls[n].pc # "idle", c.pc # "idle",
           Shaped(n, c), Same(c, calls[n]), Backed(c, cases', gates'),
           cases \subseteq cases', gates \subseteq gates',
           \A case \in cases' : IsCase(case),
           \A g \in gates' : \E case \in cases' : case.by = g.case,
           \A a \in audits' : a \in audits \/ AuditInv(a)',
           calls[n].pc \in {"gate", "failed"} =>
               c.pc \in {"gate", "failed"} \/ \E g \in gates' : g.case = calls[n].of
    PROVE  CallsInv' /\ StoresInv'
<1>1. /\ calls' = [k \in Requests |-> calls'[k]]
      /\ \A k \in Requests : calls'[k] = IF k = n THEN c ELSE calls[k]
  BY DEF CallsInv, Become
<1>2. ASSUME NEW k \in Requests
      PROVE  Shaped(k, calls'[k]) /\ Backed(calls'[k], cases', gates')
  <2>1. CASE k = n
    BY <1>1, <2>1
  <2>2. CASE k # n
    <3>1. calls'[k] = calls[k]
      BY <1>1, <2>2
    <3>2. Shaped(k, calls[k]) /\ Backed(calls[k], cases, gates)
      BY DEF CallsInv
    <3> QED
      BY <3>1, <3>2 DEF Backed, HasCase, HasGate
  <2> QED
    BY <2>1, <2>2
<1>3. CallsInv'
  BY <1>1, <1>2 DEF CallsInv, Shaped, Backed, HasCase, HasGate
<1>4. ASSUME NEW a \in audits
      PROVE  AuditInv(a)'
  <2>1. AuditInv(a)
    BY DEF StoresInv
  <2>2. /\ a.by \in Requests /\ calls[a.by].pc # "idle" /\ a.case = calls[a.by].of
        /\ \E case \in cases : case.by = a.case
        /\ \/ \E g \in gates : g.case = a.case
           \/ calls[a.by].op = "loop" /\ calls[a.by].pc \in {"gate", "failed"}
    BY <2>1 DEF AuditInv
  <2>3. /\ calls'[a.by].pc # "idle" /\ a.case = calls'[a.by].of
        /\ calls'[a.by].op = calls[a.by].op
    BY <1>1, <2>2 DEF Same
  <2>4. \E case \in cases' : case.by = a.case
    BY <2>2
  <2>5. \/ \E g \in gates' : g.case = a.case
        \/ calls'[a.by].op = "loop" /\ calls'[a.by].pc \in {"gate", "failed"}
    BY <1>1, <2>2 DEF Same
  <2> QED
    BY <2>2, <2>3, <2>4, <2>5 DEF AuditInv
<1>5. StoresInv'
  BY <1>4 DEF StoresInv, IsCase
<1> QED
  BY <1>3, <1>5

LEMMA OpenCaseKeeps ==
    ASSUME LoopInv, NEW n \in Requests, OpenCase(n)
    PROVE  LoopInv'
<1> DEFINE opened == CaseOf(n, calls[n].deal, calls[n].missed)
           c == IF calls[n].op = "detect" THEN Returned(n) ELSE At(n, "audit")
<1>1. /\ Shaped(n, calls[n]) /\ calls[n].pc = "open"
      /\ calls[n].op \in {"loop", "detect"} /\ calls[n].missed \in Requirements
      /\ calls[n].stage = "detect"
      /\ calls[n].op = "loop" => calls[n].of = n
  BY DEF LoopInv, CallsInv, Shaped, Awaiting, OpenCase
<1>2. IsCase(opened) /\ opened.by = n
  BY <1>1 DEF IsCase, CaseOf
<1>3. calls[n] = [f \in CallFields |-> calls[n][f]]
  BY <1>1 DEF Shaped
<1>4. /\ c = [f \in CallFields |-> c[f]] /\ AsIs(c, calls[n])
      /\ c.pc = IF calls[n].op = "detect" THEN "returned" ELSE "audit"
  <2>1. CASE calls[n].op = "detect"
    <3>1. c = Returned(n)
      BY <2>1
    <3> QED
      BY <1>3, <2>1, <3>1, EndFields
  <2>2. CASE calls[n].op # "detect"
    <3>1. c = At(n, "audit")
      BY <2>2
    <3> QED
      BY <1>3, <2>2, <3>1, AtFields
  <2> QED
    BY <2>1, <2>2
<1>5. Become(n, c) /\ cases' = cases \cup {opened} /\ UNCHANGED <<audits, gates>>
  BY DEF OpenCase
<1> HIDE DEF c, opened
<1>6. Shaped(n, c)
  BY <1>1, <1>4 DEF Shaped, AsIs, Same, Running, Ended, Awaiting
<1>7. Backed(c, cases', gates')
  BY <1>1, <1>2, <1>4, <1>5 DEF Backed, HasCase, AsIs, Same
<1>8. Same(c, calls[n]) /\ c.pc # "idle"
  BY <1>4 DEF AsIs
<1>9. CallsInv' /\ StoresInv'
  <2>1. \A case \in cases' : IsCase(case)
    BY <1>2, <1>5 DEF LoopInv, StoresInv
  <2>2. \A g \in gates' : \E case \in cases' : case.by = g.case
    BY <1>5 DEF LoopInv, StoresInv
  <2> QED
    BY <1>1, <1>5, <1>6, <1>7, <1>8, <2>1, <2>2, StoresGrow DEF LoopInv
<1> QED
  BY <1>9 DEF OpenCase, LoopInv, FilesInv

LEMMA RecordAuditKeeps ==
    ASSUME LoopInv, NEW n \in Requests, RecordAudit(n)
    PROVE  LoopInv'
<1>1. PICK enforced : enforced = AuditOf(n, calls[n].of, "on-track")
  OBVIOUS
<1> DEFINE c == IF calls[n].op = "approve" THEN Returned(n) ELSE At(n, "gate")
<1>2. /\ Shaped(n, calls[n]) /\ Backed(calls[n], cases, gates) /\ calls[n].pc = "audit"
      /\ calls[n].op \in {"loop", "approve"}
  BY DEF LoopInv, CallsInv, Shaped, RecordAudit
<1>3. enforced.by = n /\ enforced.case = calls[n].of
  BY <1>1 DEF AuditOf
<1>4. calls[n] = [f \in CallFields |-> calls[n][f]]
  BY <1>2 DEF Shaped
<1>5. /\ c = [f \in CallFields |-> c[f]] /\ AsIs(c, calls[n])
      /\ c.pc = IF calls[n].op = "approve" THEN "returned" ELSE "gate"
  <2>1. CASE calls[n].op = "approve"
    <3>1. c = Returned(n)
      BY <2>1
    <3> QED
      BY <1>4, <2>1, <3>1, EndFields
  <2>2. CASE calls[n].op # "approve"
    <3>1. c = At(n, "gate")
      BY <2>2
    <3> QED
      BY <1>4, <2>2, <3>1, AtFields
  <2> QED
    BY <2>1, <2>2
<1>6. Become(n, c) /\ audits' = audits \cup {enforced} /\ UNCHANGED <<cases, gates>>
  BY <1>1 DEF RecordAudit
<1> HIDE DEF c
<1>7. Shaped(n, c)
  BY <1>2, <1>5 DEF Shaped, AsIs, Same, Running, Ended, Awaiting
<1>8. /\ HasCase(calls[n], cases)
      /\ calls[n].op = "approve" => HasGate(calls[n], gates)
  BY <1>2 DEF Backed
<1>9. Backed(c, cases', gates')
  BY <1>2, <1>5, <1>6 DEF Backed, HasCase, HasGate, AsIs, Same
<1>10. calls'[n] = c
  BY <1>6 DEF Become, LoopInv, CallsInv
<1>11. AuditInv(enforced)'
  <2>1. /\ calls'[n].pc # "idle" /\ enforced.case = calls'[n].of
        /\ calls'[n].op = calls[n].op
    BY <1>3, <1>5, <1>10 DEF AsIs, Same
  <2>2. \E case \in cases' : case.by = enforced.case
    BY <1>2, <1>3, <1>6, <1>8 DEF HasCase
  <2>3. \/ \E g \in gates' : g.case = enforced.case
        \/ calls'[n].op = "loop" /\ calls'[n].pc \in {"gate", "failed"}
    BY <1>2, <1>3, <1>5, <1>6, <1>8, <1>10 DEF HasGate, AsIs, Same
  <2> QED
    BY <1>3, <2>1, <2>2, <2>3 DEF AuditInv
<1>12. Same(c, calls[n]) /\ c.pc # "idle"
  BY <1>5 DEF AsIs
<1>13. CallsInv' /\ StoresInv'
  <2>1. \A case \in cases' : IsCase(case)
    BY <1>6 DEF LoopInv, StoresInv
  <2>2. \A g \in gates' : \E case \in cases' : case.by = g.case
    BY <1>6 DEF LoopInv, StoresInv
  <2>3. \A a \in audits' : a \in audits \/ AuditInv(a)'
    BY <1>6, <1>11
  <2> QED
    BY <1>2, <1>6, <1>7, <1>9, <1>12, <2>1, <2>2, <2>3, StoresGrow DEF LoopInv
<1> QED
  BY <1>13 DEF RecordAudit, LoopInv, FilesInv

LEMMA OpenGateKeeps ==
    ASSUME LoopInv, NEW n \in Requests, OpenGate(n)
    PROVE  LoopInv'
<1> DEFINE gate == GateOf(n, calls[n].of, calls[n].action)
           there == At(n, "lookup")
           graded == [there EXCEPT !.stage = "grade1"]
           c == IF calls[n].op = "approve" THEN At(n, "audit") ELSE graded
<1>1. /\ Shaped(n, calls[n]) /\ Backed(calls[n], cases, gates) /\ calls[n].pc = "gate"
      /\ calls[n].op \in {"loop", "approve"}
  BY DEF LoopInv, CallsInv, Shaped, OpenGate
<1>2. gate.case = calls[n].of /\ gate.action = calls[n].action /\ gate.verdict = "deny"
  BY DEF GateOf
<1>3. calls[n] = [f \in CallFields |-> calls[n][f]]
  BY <1>1 DEF Shaped
<1>4. Become(n, c) /\ gates' = gates \cup {gate} /\ UNCHANGED <<cases, audits>>
  BY DEF OpenGate
<1>5. HasCase(calls[n], cases)
  BY <1>1 DEF Backed
<1>6. HasGate(calls[n], gates')
  BY <1>2, <1>4 DEF HasGate
<1>7. ASSUME Shaped(n, c), Same(c, calls[n]), c.pc \in {"audit", "lookup"}
      PROVE  LoopInv'
  <2> HIDE DEF c, gate
  <2>1. Backed(c, cases', gates')
    BY <1>4, <1>5, <1>6, <1>7 DEF Backed, HasCase, HasGate, Same
  <2>2. \A case \in cases' : IsCase(case)
    BY <1>4 DEF LoopInv, StoresInv
  <2>3. \A g \in gates' : \E case \in cases' : case.by = g.case
    BY <1>2, <1>4, <1>5 DEF LoopInv, StoresInv, HasCase
  <2>4. \E g \in gates' : g.case = calls[n].of
    BY <1>2, <1>4
  <2>5. CallsInv' /\ StoresInv'
    BY <1>1, <1>4, <1>7, <2>1, <2>2, <2>3, <2>4, StoresGrow DEF LoopInv
  <2> QED
    BY <2>5 DEF OpenGate, LoopInv, FilesInv
<1>8. CASE calls[n].op = "approve"
  <2>1. c = At(n, "audit")
    BY <1>8
  <2> HIDE DEF c
  <2>2. c = [f \in CallFields |-> c[f]] /\ AsIs(c, calls[n]) /\ c.pc = "audit"
    BY <1>3, <2>1, AtFields
  <2>3. Shaped(n, c)
    BY <1>1, <1>8, <2>2 DEF Shaped, AsIs, Same, Running, Ended, Awaiting
  <2> QED
    BY <1>7, <2>2, <2>3 DEF AsIs
<1>9. CASE calls[n].op = "loop"
  <2>1. c = graded
    BY <1>9
  <2>2. there = [f \in CallFields |-> there[f]] /\ AsIs(there, calls[n]) /\ there.pc = "lookup"
    BY <1>3, AtFields
  <2> HIDE DEF there
  <2>3. /\ graded = [f \in CallFields |-> graded[f]] /\ Same(graded, calls[n])
        /\ graded.pc = "lookup" /\ graded.stage = "grade1" /\ graded.deal = calls[n].deal
        /\ graded.transcript = calls[n].transcript
    BY <2>2 DEF CallFields, AsIs, Same
  <2>4. calls[n].deal \in Deals
    BY <1>1, <1>9 DEF Shaped
  <2>5. Shaped(n, graded)
    <3> HIDE DEF graded
    <3> QED
      BY <1>1, <1>9, <2>3, <2>4 DEF Shaped, Same, Running, Ended, Awaiting
  <2> QED
    BY <1>7, <2>1, <2>3, <2>5
<1> QED
  BY <1>1, <1>8, <1>9

LEMMA RecordEvalKeeps ==
    ASSUME LoopInv, NEW n \in Requests, RecordEval(n)
    PROVE  LoopInv'
<1> DEFINE there == At(n, "lookup")
           graded == [there EXCEPT !.stage = "grade2", !.got = None]
           c == IF calls[n].stage = "grade2" THEN Returned(n) ELSE graded
<1>1. /\ Shaped(n, calls[n]) /\ Backed(calls[n], cases, gates) /\ calls[n].pc = "record"
      /\ calls[n].op = "loop" /\ calls[n].stage # "detect"
  BY DEF LoopInv, CallsInv, Shaped, RecordEval
<1>2. calls[n] = [f \in CallFields |-> calls[n][f]] /\ HasGate(calls[n], gates)
  BY <1>1 DEF Shaped, Backed
<1>3. Become(n, c) /\ UNCHANGED <<cases, audits, gates>>
  BY DEF RecordEval
<1>4. ASSUME Shaped(n, c), Same(c, calls[n]), c.pc \in {"returned", "lookup"}
      PROVE  LoopInv'
  <2> HIDE DEF c
  <2>1. Backed(c, cases, gates)
    BY <1>1, <1>2, <1>4 DEF Backed, HasGate, Same
  <2>2. CallsInv' /\ StoresInv'
    BY <1>1, <1>3, <1>4, <2>1, CallMoves DEF LoopInv
  <2> QED
    BY <2>2 DEF RecordEval, LoopInv, FilesInv
<1>5. CASE calls[n].stage = "grade2"
  <2>1. c = Returned(n)
    BY <1>5
  <2>2. c = [f \in CallFields |-> c[f]] /\ AsIs(c, calls[n]) /\ c.pc = "returned"
    BY <1>2, <2>1, EndFields
  <2>3. Shaped(n, c)
    <3> HIDE DEF c
    <3> QED
      BY <1>1, <1>5, <2>2 DEF Shaped, AsIs, Same, Running, Ended, Awaiting
  <2> QED
    BY <1>4, <2>2, <2>3 DEF AsIs
<1>6. CASE calls[n].stage # "grade2"
  <2>1. c = graded
    BY <1>6
  <2>2. there = [f \in CallFields |-> there[f]] /\ AsIs(there, calls[n]) /\ there.pc = "lookup"
    BY <1>2, AtFields
  <2> HIDE DEF there
  <2>3. /\ graded = [f \in CallFields |-> graded[f]] /\ Same(graded, calls[n])
        /\ graded.pc = "lookup" /\ graded.stage = "grade2" /\ graded.deal = calls[n].deal
        /\ graded.transcript = calls[n].transcript
    BY <2>2 DEF CallFields, AsIs, Same
  <2>4. calls[n].deal \in Deals
    BY <1>1 DEF Shaped
  <2>5. Shaped(n, graded)
    <3> HIDE DEF graded
    <3> QED
      BY <1>1, <2>3, <2>4 DEF Shaped, Same, Running, Ended, Awaiting
  <2> QED
    BY <1>4, <2>1, <2>3, <2>5
<1> QED
  BY <1>5, <1>6

(* A correction keeps whose case it is.                                    *)
LEMMA CorrectKeeps ==
    ASSUME LoopInv, Correct
    PROVE  LoopInv'
<1>1. PICK case \in cases : cases' = (cases \ {case}) \cup {[case EXCEPT !.status = "corrected"]}
  BY DEF Correct
<1> DEFINE corrected == [case EXCEPT !.status = "corrected"]
<1>2. IsCase(case)
  BY DEF LoopInv, StoresInv
<1>3. IsCase(corrected) /\ corrected.by = case.by
  BY <1>2 DEF IsCase
<1>4. cases' = (cases \ {case}) \cup {corrected}
  BY <1>1
<1> HIDE DEF corrected
<1>5. UNCHANGED <<inputs, cache, disturbed, audits, gates, calls, failures>>
  BY DEF Correct
<1>6. \A by : (\E d \in cases : d.by = by) => \E d \in cases' : d.by = by
  BY <1>3, <1>4
<1>7. CallsInv'
  <2>1. ASSUME NEW n \in Requests
        PROVE  Shaped(n, calls[n]) /\ Backed(calls[n], cases', gates)
    <3>1. Shaped(n, calls[n]) /\ Backed(calls[n], cases, gates)
      BY DEF LoopInv, CallsInv
    <3> QED
      BY <1>6, <3>1 DEF Backed, HasCase
  <2> QED
    BY <1>5, <2>1 DEF LoopInv, CallsInv, Shaped, Backed, HasCase, HasGate
<1>8. \A d \in cases' : IsCase(d)
  BY <1>3, <1>4 DEF LoopInv, StoresInv
<1>9. ASSUME NEW a \in audits PROVE AuditInv(a)'
  <2>1. AuditInv(a)
    BY DEF LoopInv, StoresInv
  <2> QED
    BY <1>5, <1>6, <2>1 DEF AuditInv
<1>10. StoresInv'
  BY <1>5, <1>6, <1>8, <1>9 DEF LoopInv, StoresInv, IsCase
<1> QED
  BY <1>5, <1>7, <1>10 DEF LoopInv, FilesInv

(* A new call is shaped, and is backed when it is not an approval.         *)
LEMMA NewCallKeeps ==
    ASSUME LoopInv, NEW n \in Requests, NEW c, Start(n, c), MayFail \/ UNCHANGED failures,
           Shaped(n, c), Backed(c, cases, gates), c.pc # "idle"
    PROVE  LoopInv'
<1>1. CallsInv' /\ StoresInv'
  BY CallMoves DEF Start, stores, LoopInv
<1> QED
  BY <1>1, FailuresAreBounded DEF Start, LoopInv, FilesInv

LEMMA StartLoopKeeps ==
    ASSUME LoopInv, NEW n \in Requests, StartLoop(n)
    PROVE  LoopInv' /\ calls'[n].op # "evaluate"
<1>1. PICK deal \in Deals, source \in Sources, op \in {"loop", "detect"} :
        Start(n, [NoCall EXCEPT !.pc = "lookup", !.op = op, !.deal = deal, !.source = source, !.of = n])
  BY DEF StartLoop
<1> DEFINE c == [NoCall EXCEPT !.pc = "lookup", !.op = op, !.deal = deal, !.source = source, !.of = n]
<1>2. /\ c = [f \in CallFields |-> c[f]]
      /\ c.pc = "lookup" /\ c.op = op /\ c.deal = deal /\ c.of = n
      /\ c.stage = "detect" /\ c.transcript = None
  BY DEF NoCall, CallFields
<1>3. Start(n, c) /\ UNCHANGED failures
  BY <1>1 DEF StartLoop
<1> HIDE DEF c
<1>4. Shaped(n, c) /\ Backed(c, cases, gates)
  BY <1>2 DEF Shaped, Backed, Running, Ended, Awaiting
<1>5. calls'[n] = c
  BY <1>3 DEF Start, Become, LoopInv, CallsInv
<1> QED
  BY <1>2, <1>3, <1>4, <1>5, NewCallKeeps

LEMMA StartApproveKeeps ==
    ASSUME LoopInv, NEW n \in Requests, StartApprove(n)
    PROVE  LoopInv' /\ calls'[n].op # "evaluate"
<1>1. PICK case \in cases, status \in DealStatus, action \in Actions :
        Start(n, [NoCall EXCEPT !.pc = IF CanEnforce(status) THEN "gate" ELSE "failed",
                                !.op = "approve", !.deal = case.deal, !.action = action, !.of = case.by])
  BY DEF StartApprove
<1> DEFINE pc == IF CanEnforce(status) THEN "gate" ELSE "failed"
           c == [NoCall EXCEPT !.pc = pc,
                               !.op = "approve", !.deal = case.deal, !.action = action, !.of = case.by]
<1>2. /\ c = [f \in CallFields |-> c[f]]
      /\ c.pc = pc /\ c.op = "approve" /\ c.of = case.by
      /\ c.stage = "detect" /\ c.transcript = None
  BY DEF NoCall, CallFields
<1>3. pc \in {"gate", "failed"}
  OBVIOUS
<1>4. Start(n, c) /\ UNCHANGED failures
  BY <1>1 DEF StartApprove
<1> HIDE DEF c, pc
<1>5. Shaped(n, c) /\ Backed(c, cases, gates)
  BY <1>2, <1>3 DEF Shaped, Backed, HasCase, Running, Ended, Awaiting
<1>6. calls'[n] = c
  BY <1>4 DEF Start, Become, LoopInv, CallsInv
<1> QED
  BY <1>2, <1>3, <1>4, <1>5, <1>6, NewCallKeeps

(* What an evaluation answers.                                             *)
LEMMA EvaluateKeeps ==
    ASSUME LoopInv, NEW n \in Requests, Evaluate(n)
    PROVE  /\ LoopInv'
           /\ \E action \in Actions :
                /\ calls'[n].action = action
                /\ calls'[n].got \in {DecisionFor(action), "denied"}
<1>1. PICK action \in Actions : \E decision \in {DecisionFor(action), "denied"} :
        /\ Start(n, [NoCall EXCEPT !.pc = "returned", !.op = "evaluate", !.action = action, !.got = decision])
        /\ MayFail \/ UNCHANGED failures
  BY DEF Evaluate
<1>2. PICK decision \in {DecisionFor(action), "denied"} :
        /\ Start(n, [NoCall EXCEPT !.pc = "returned", !.op = "evaluate", !.action = action, !.got = decision])
        /\ MayFail \/ UNCHANGED failures
  BY <1>1
<1> DEFINE c == [NoCall EXCEPT !.pc = "returned", !.op = "evaluate", !.action = action, !.got = decision]
<1>3. /\ c = [f \in CallFields |-> c[f]]
      /\ c.pc = "returned" /\ c.op = "evaluate" /\ c.action = action /\ c.got = decision
      /\ c.stage = "detect" /\ c.transcript = None
  BY DEF NoCall, CallFields
<1>4. Start(n, c)
  BY <1>2
<1> HIDE DEF c
<1>5. Shaped(n, c) /\ Backed(c, cases, gates)
  BY <1>3 DEF Shaped, Backed, Running, Ended, Awaiting
<1>6. calls'[n] = c
  BY <1>4 DEF Start, Become, LoopInv, CallsInv
<1>7. LoopInv'
  BY <1>2, <1>3, <1>4, <1>5, NewCallKeeps
<1> QED
  BY <1>3, <1>6, <1>7

LEMMA NoCallIsShaped ==
    ASSUME NEW n, NEW pc \in {"idle", "lost"}, NEW c,
           c = IF pc = "idle" THEN NoCall ELSE [NoCall EXCEPT !.pc = "lost"]
    PROVE  Shaped(n, c) /\ c.op = "none" /\ c.stage = "detect" /\ c.pc \in {"idle", "lost"}
<1>1. /\ c = [f \in CallFields |-> c[f]]
      /\ c.pc \in {"idle", "lost"} /\ c.op = "none" /\ c.stage = "detect" /\ c.transcript = None
  BY DEF NoCall, CallFields
<1> QED
  BY <1>1 DEF Shaped, Running, Ended, Awaiting

LEMMA CrashKeeps ==
    ASSUME LoopInv, Crash
    PROVE  LoopInv' /\ \A n \in Requests : calls'[n].op = "none"
<1>1. calls' = [n \in Requests |-> IF calls[n].pc = "idle" THEN NoCall ELSE [NoCall EXCEPT !.pc = "lost"]]
  BY DEF Crash
<1>2. ASSUME NEW n \in Requests
      PROVE  /\ Shaped(n, calls'[n]) /\ calls'[n].op = "none" /\ calls'[n].stage = "detect"
             /\ calls'[n].pc \in {"idle", "lost"}
  <2> DEFINE pc == IF calls[n].pc = "idle" THEN "idle" ELSE "lost"
  <2>1. calls'[n] = IF pc = "idle" THEN NoCall ELSE [NoCall EXCEPT !.pc = "lost"]
    BY <1>1
  <2>2. pc \in {"idle", "lost"}
    OBVIOUS
  <2> HIDE DEF pc
  <2> QED
    BY <2>1, <2>2, NoCallIsShaped
<1>3. \A n \in Requests : Backed(calls'[n], cases', gates')
  BY <1>2 DEF Backed
<1>4. CallsInv'
  BY <1>1, <1>2, <1>3 DEF CallsInv, Shaped, Backed, HasCase, HasGate
<1>5. StoresInv'
  BY DEF Crash, StoresInv
<1>6. FilesInv'
  BY FailuresAreBounded DEF Crash, LoopInv, FilesInv
<1> QED
  BY <1>2, <1>4, <1>5, <1>6 DEF LoopInv

LEMMA RegisterKeeps ==
    ASSUME LoopInv, NEW deal \in Deals, NEW transcript \in Transcripts, Register(deal, transcript)
    PROVE  LoopInv'
<1>1. UNCHANGED <<cases, audits, gates, calls, cache, disturbed, failures>>
  BY DEF Register, stores
<1>2. inputs' \in [Deals -> Transcripts \cup {None}]
  BY DEF Register, LoopInv, FilesInv
<1>3. CallsInv'
  BY <1>1 DEF LoopInv, CallsInv, Shaped, Backed, HasCase, HasGate
<1>4. StoresInv'
  BY <1>1 DEF LoopInv, StoresInv, IsCase, AuditInv
<1> QED
  BY <1>1, <1>2, <1>3, <1>4 DEF LoopInv, FilesInv

LEMMA LoopInvInitially ==
    ASSUME Init
    PROVE  LoopInv
<1>1. ASSUME NEW n \in Requests
      PROVE  Shaped(n, calls[n]) /\ Backed(calls[n], cases, gates)
  <2>1. calls[n] = NoCall
    BY DEF Init
  <2>2. /\ Shaped(n, calls[n]) /\ calls[n].op = "none" /\ calls[n].stage = "detect"
        /\ calls[n].pc \in {"idle", "lost"}
    BY <2>1, NoCallIsShaped
  <2> QED
    BY <2>2 DEF Backed
<1>2. CallsInv
  BY <1>1 DEF Init, CallsInv
<1>3. StoresInv
  BY DEF Init, StoresInv
<1>4. FilesInv
  BY LoopAssumption DEF Init, FilesInv
<1> QED
  BY <1>2, <1>3, <1>4 DEF LoopInv

LEMMA LoopInvPreserved ==
    ASSUME LoopInv, [Next]_vars
    PROVE  LoopInv'
<1>1. ASSUME NEW n \in Requests, Progress(n)
      PROVE  LoopInv'
  BY <1>1, LookUpKeeps, TruncateKeeps, WriteKeeps, RequestStepsKeep, FailuresKeep,
     OpenCaseKeeps, RecordAuditKeeps, OpenGateKeeps, RecordEvalKeeps DEF Progress
<1>2. ASSUME NEW n \in Requests, Model(n) \/ Faults(n)
      PROVE  LoopInv'
  BY <1>2, CaptureKeeps, RequestStepsKeep, ReadBodyKeeps, FailuresKeep DEF Model, Faults
<1>3. ASSUME NEW n \in Requests, StartLoop(n) \/ StartApprove(n) \/ Evaluate(n)
      PROVE  LoopInv'
  BY <1>3, StartLoopKeeps, StartApproveKeeps, EvaluateKeeps
<1>4. CASE \E deal \in Deals, transcript \in Transcripts : Register(deal, transcript)
  BY <1>4, RegisterKeeps
<1>5. CASE UNCHANGED vars
  <2>1. UNCHANGED <<inputs, cache, disturbed, cases, audits, gates, calls, failures>>
    BY <1>5 DEF vars, stores
  <2> QED
    BY <2>1 DEF LoopInv, CallsInv, StoresInv, FilesInv, Shaped, Backed, HasCase, HasGate,
                IsCase, AuditInv
<1> QED
  BY <1>1, <1>2, <1>3, <1>4, <1>5, CorrectKeeps, CrashKeeps DEF Next

LEMMA AlwaysLoopInv == Spec => []LoopInv
<1>1. Init => LoopInv
  BY LoopInvInitially
<1>2. LoopInv /\ [Next]_vars => LoopInv'
  BY LoopInvPreserved
<1> QED
  BY <1>1, <1>2, PTL DEF Spec

(***************************************************************************)
(* Theorems.                                                               *)
(***************************************************************************)

(* What the calls, the stores and the cache files hold is of its type, and *)
(* no enforcement and no gate is of a case that is not there.              *)
THEOREM TypeCorrect == Spec => []TypeOK
<1>1. LoopInv => TypeOK
  BY DEF LoopInv, CallsInv, StoresInv, FilesInv, Shaped, IsCase, AuditInv, TypeOK
<1> QED
  BY <1>1, AlwaysLoopInv, PTL

(* In every behaviour, with failures and crashes anywhere, an enforcement  *)
(* on record is gated, or its loop is about to open the gate or failed     *)
(* there.                                                                  *)
THEOREM EnforcementsGated == Spec => []EnforcementsAreGated
<1>1. LoopInv => EnforcementsAreGated
  BY DEF LoopInv, StoresInv, AuditInv, EnforcementsAreGated
<1> QED
  BY <1>1, AlwaysLoopInv, PTL

(* Only an evaluation becomes one.                                         *)
LEMMA OnlyEvaluateEvaluates ==
    ASSUME LoopInv, Next, NEW n \in Requests, calls[n].pc = "idle", calls'[n].op = "evaluate"
    PROVE  Evaluate(n)
<1>1. LoopInv'
  BY LoopInvPreserved
<1>2. calls'[n].pc # "idle" /\ calls[n].op # "evaluate"
  BY <1>1 DEF LoopInv, CallsInv, Shaped
<1>3. ASSUME NEW k \in Requests, NEW c, Become(k, c), calls[k].pc # "idle"
      PROVE  FALSE
  <2>1. calls'[n] = calls[n]
    BY <1>3 DEF Become, LoopInv, CallsInv
  <2> QED
    BY <1>2, <2>1
<1>4. ASSUME NEW k \in Requests, Progress(k) \/ Model(k) \/ Faults(k)
      PROVE  FALSE
  <2>1. calls[k].pc # "idle"
    BY <1>4 DEF Progress, Model, Faults, LookUp, Truncate, WriteCache, RequestOutput, TimeOut,
       OpenCase, RecordAudit, OpenGate, RecordEval, Capture, Respond, ReadBody, ReadErrorBody,
       CaptureFails, RequestFails, StoreFails
  <2>2. \E c : Become(k, c)
    BY <1>4 DEF Progress, Model, Faults, LookUp, Truncate, WriteCache, RequestOutput, TimeOut,
       OpenCase, RecordAudit, OpenGate, RecordEval, Capture, Respond, ReadBody, ReadErrorBody,
       CaptureFails, RequestFails, StoreFails
  <2> QED
    BY <1>3, <2>1, <2>2
<1>5. ASSUME NEW k \in Requests, StartLoop(k) \/ StartApprove(k) \/ Evaluate(k), k # n
      PROVE  FALSE
  <2>1. \E c : Become(k, c)
    BY <1>5 DEF StartLoop, StartApprove, Evaluate, Start
  <2>2. calls'[n] = calls[n]
    BY <1>5, <2>1 DEF Become, LoopInv, CallsInv
  <2> QED
    BY <1>2, <2>2
<1>6. ~(StartLoop(n) \/ StartApprove(n))
  BY StartLoopKeeps, StartApproveKeeps
<1>7. ~Crash
  BY CrashKeeps
<1>8. ~ \E deal \in Deals, transcript \in Transcripts : Register(deal, transcript)
  BY <1>2 DEF Register
<1>9. ~Correct
  BY <1>2 DEF Correct
<1> QED
  BY <1>4, <1>5, <1>6, <1>7, <1>8, <1>9 DEF Next

(* No evaluation after a loop or an approval has answered allows the       *)
(* action it gated.                                                        *)
THEOREM GatedActionsAreDenied == Spec => NoSendAfterEnforcement
<1>1. LoopInv /\ [Next]_vars =>
        [\A n, m \in Requests :
          (/\ calls[n].pc = "idle" /\ calls'[n].op = "evaluate" /\ calls'[n].got = "allowed"
           /\ calls[m].pc = "returned" /\ calls[m].op \in {"loop", "approve"})
             => calls[m].action # calls'[n].action]_vars
  <2> SUFFICES ASSUME LoopInv, Next, NEW n \in Requests, NEW m \in Requests,
                      calls[n].pc = "idle", calls'[n].op = "evaluate",
                      calls'[n].got = "allowed",
                      calls[m].pc = "returned", calls[m].op \in {"loop", "approve"}
               PROVE  calls[m].action # calls'[n].action
    OBVIOUS
  <2>1. PICK action \in Actions : /\ calls'[n].action = action
                                  /\ calls'[n].got \in {DecisionFor(action), "denied"}
    BY OnlyEvaluateEvaluates, EvaluateKeeps
  <2>2. ~ \E g \in gates : g.action = action /\ g.verdict = "deny"
    BY <2>1 DEF DecisionFor
  <2>3. HasGate(calls[m], gates)
    BY DEF LoopInv, CallsInv, Shaped, Backed
  <2> QED
    BY <2>1, <2>2, <2>3 DEF HasGate
<1> QED
  BY <1>1, AlwaysLoopInv, PTL DEF Spec, NoSendAfterEnforcement

-----------------------------------------------------------------------------
(***************************************************************************)
(* The receipts of the REST source.                                        *)
(***************************************************************************)
Receipts == {"request", "success", "error"}

Alternate(r) == \A i \in 1..Len(r) : r[i] = "request" <=> i % 2 = 1

Successes(r) == Cardinality({i \in DOMAIN r : r[i] = "success"})

InFlight(c) ==
    \/ c.pc \in {"body", "errorBody"}
    \/ c.source = "rest" /\ c.pc = "model"

\* How many outputs a loop has used when it is where it is.
Obtained(c) ==
    IF c.stage = "detect" THEN IF c.pc \in {"open", "audit", "gate"} THEN 1 ELSE 0
    ELSE IF c.stage = "grade1" THEN IF c.pc = "record" THEN 2 ELSE 1
    ELSE IF c.pc \in {"record", "returned"} THEN 3 ELSE 2

Counts(c, r) ==
    c.source = "rest" /\ c.op = "loop" /\ c.pc \notin {"failed", "lost", "idle"} =>
        Successes(r) = Obtained(c)

ReceiptsFit(c, r) ==
    /\ r \in Seq(Receipts)
    /\ Alternate(r)
    /\ Len(r) % 2 = (IF InFlight(c) THEN 1 ELSE 0)
    /\ c.pc = "idle" => r = <<>>
    /\ Counts(c, r)

ReceiptsInv ==
    /\ receipts = [n \in Requests |-> receipts[n]]
    /\ \A n \in Requests : ReceiptsFit(calls[n], receipts[n])

LEMMA NoReceipts ==
    ASSUME NEW c, ~InFlight(c), ~(c.op = "loop" /\ c.source = "rest") \/ c.pc \in {"failed", "lost", "idle"}
    PROVE  ReceiptsFit(c, <<>>)
<1>1. <<>> \in Seq(Receipts) /\ Len(<<>>) = 0
  OBVIOUS
<1>2. 0 % 2 = 0
  OBVIOUS
<1> QED
  BY <1>1, <1>2 DEF ReceiptsFit, Counts, Alternate

LEMMA ReceiptRecorded ==
    ASSUME NEW r \in Seq(Receipts), Alternate(r), NEW what \in Receipts,
           what = "request" <=> Len(r) % 2 = 0
    PROVE  LET t == Append(r, what) IN
           /\ t \in Seq(Receipts) /\ Alternate(t)
           /\ Len(t) % 2 = 1 - (Len(r) % 2)
           /\ Successes(t) = Successes(r) + (IF what = "success" THEN 1 ELSE 0)
           /\ Successes(r) \in Nat
<1> DEFINE t == Append(r, what)
           N == Len(r)
           P == {i \in DOMAIN r : r[i] = "success"}
           Q == {i \in DOMAIN t : t[i] = "success"}
<1>1. /\ N \in Nat /\ DOMAIN r = 1..N
      /\ t \in Seq(Receipts) /\ Len(t) = N + 1 /\ DOMAIN t = 1..(N + 1)
      /\ \A i \in 1..N : t[i] = r[i]
      /\ t[N + 1] = what
  OBVIOUS
<1>2. \A i \in 1..(N + 1) : i \in 1..N \/ i = N + 1
  BY <1>1
<1>3. (N + 1) % 2 = 1 - (N % 2) /\ N % 2 \in {0, 1}
  <2> HIDE DEF N
  <2> QED
    BY <1>1
<1>4. N + 1 \notin P /\ P \subseteq 1..N
  BY <1>1
<1>5. Q = IF what = "success" THEN P \cup {N + 1} ELSE P
  <2> HIDE DEF t, N
  <2> QED
    BY <1>1, <1>2
<1>6. what = "request" <=> N % 2 = 0
  OBVIOUS
<1>7. \A i \in 1..N : r[i] = "request" <=> i % 2 = 1
  BY DEF Alternate
<1>8. Alternate(t)
  <2> HIDE DEF t, N
  <2> QED
    BY <1>1, <1>2, <1>3, <1>6, <1>7 DEF Alternate
<1>9. IsFiniteSet(P) /\ Cardinality(P) \in Nat
  <2> HIDE DEF P, N
  <2>1. IsFiniteSet(1..N)
    BY <1>1, FS_Interval
  <2> QED
    BY <1>4, <2>1, FS_Subset, FS_CardinalityType
<1>10. Cardinality(P \cup {N + 1}) = Cardinality(P) + 1
  <2> HIDE DEF P, N
  <2> QED
    BY <1>4, <1>9, FS_AddElement
<1>11. Successes(t) = Cardinality(Q) /\ Successes(r) = Cardinality(P)
  BY DEF Successes
<1>12. Successes(t) = Successes(r) + (IF what = "success" THEN 1 ELSE 0)
  <2> HIDE DEF P, Q, N, t
  <2> QED
    BY <1>5, <1>9, <1>10, <1>11
<1> QED
  BY <1>1, <1>3, <1>8, <1>9, <1>11, <1>12

(* One call moves, and perhaps records a receipt.                          *)
LEMMA ReceiptsMove ==
    ASSUME LoopInv, ReceiptsInv, NEW n \in Requests, NEW c, Become(n, c),
           \/ receipts' = receipts /\ ReceiptsFit(c, receipts[n])
           \/ \E what : Record(n, what) /\ ReceiptsFit(c, Append(receipts[n], what))
    PROVE  ReceiptsInv'
<1>1. \A k \in Requests : calls'[k] = IF k = n THEN c ELSE calls[k]
  BY DEF Become, LoopInv, CallsInv
<1>2. CASE receipts' = receipts /\ ReceiptsFit(c, receipts[n])
  BY <1>1, <1>2 DEF ReceiptsInv
<1>3. ASSUME NEW what, Record(n, what), ReceiptsFit(c, Append(receipts[n], what))
      PROVE  ReceiptsInv'
  <2> DEFINE t == Append(receipts[n], what)
  <2>1. receipts' = [receipts EXCEPT ![n] = t]
    BY <1>3 DEF Record
  <2> HIDE DEF t
  <2>2. /\ receipts' = [k \in Requests |-> receipts'[k]]
        /\ \A k \in Requests : receipts'[k] = IF k = n THEN t ELSE receipts[k]
    BY <2>1 DEF ReceiptsInv
  <2>3. ReceiptsFit(c, t)
    BY <1>3 DEF t
  <2> QED
    BY <1>1, <2>2, <2>3 DEF ReceiptsInv
<1> QED
  BY <1>2, <1>3

(* A call that asks no model, or is not at it, records nothing.            *)
LEMMA QuietCall ==
    ASSUME LoopInv, ReceiptsInv, NEW n \in Requests, NEW c, Become(n, c), receipts' = receipts,
           calls[n].pc # "idle", c.pc # "idle", c.source = calls[n].source,
           ~InFlight(calls[n]), ~InFlight(c),
           Counts(calls[n], receipts[n]) => Counts(c, receipts[n])
    PROVE  ReceiptsInv'
<1>1. ReceiptsFit(c, receipts[n])
  BY DEF ReceiptsInv, ReceiptsFit
<1> QED
  BY <1>1, ReceiptsMove

(* Where a call goes on with an output, of the cache or of the model.      *)
LEMMA UsedGoesOn ==
    ASSUME NEW n, Shaped(n, calls[n]), NEW output \in Outputs
    PROVE  LET c == Used(n, output) IN
           /\ c = [f \in CallFields |-> c[f]]
           /\ c.source = calls[n].source /\ c.op = calls[n].op /\ c.stage = calls[n].stage
           /\ c.pc \in {"record", "open", "returned", "failed"}
           /\ c.pc = "record" <=> c.stage # "detect"
           /\ c.pc = "returned" => c.op = "detect"
<1>1. calls[n] = [f \in CallFields |-> calls[n][f]]
  BY DEF Shaped
<1>2. CASE calls[n].stage # "detect"
  <2> DEFINE c == [At(n, "record") EXCEPT !.got = output]
  <2>1. /\ c = [f \in CallFields |-> c[f]]
        /\ c.pc = "record" /\ AsIs(c, calls[n])
    BY <1>1, AtFields DEF CallFields, AsIs, Same
  <2>2. Used(n, output) = c
    BY <1>2 DEF Used
  <2> HIDE DEF c
  <2> QED
    BY <1>2, <2>1, <2>2 DEF AsIs, Same
<1>3. CASE calls[n].stage = "detect" /\ Missed(output) # None
  <2> DEFINE opening == At(n, "open")
             c == [opening EXCEPT !.missed = Missed(output), !.got = None]
  <2>1. Used(n, output) = c
    BY <1>3 DEF Used
  <2>2. /\ opening = [f \in CallFields |-> opening[f]]
        /\ opening.pc = "open" /\ AsIs(opening, calls[n])
    BY <1>1, AtFields
  <2> HIDE DEF opening
  <2>3. /\ c = [f \in CallFields |-> c[f]]
        /\ c.pc = "open" /\ c.source = calls[n].source
        /\ Same(c, calls[n]) /\ c.stage = calls[n].stage
    BY <2>2 DEF CallFields, AsIs, Same
  <2> HIDE DEF c
  <2> QED
    BY <1>3, <2>1, <2>3 DEF Same
<1>4. CASE calls[n].stage = "detect" /\ Missed(output) = None
  <2>1. Used(n, output) = IF calls[n].op = "detect" THEN Returned(n) ELSE Failed(n)
    BY <1>4 DEF Used
  <2>2. /\ Returned(n) = [f \in CallFields |-> Returned(n)[f]]
        /\ Returned(n).pc = "returned" /\ AsIs(Returned(n), calls[n])
        /\ Failed(n) = [f \in CallFields |-> Failed(n)[f]]
        /\ Failed(n).pc = "failed" /\ AsIs(Failed(n), calls[n])
    BY <1>1, EndFields
  <2> QED
    BY <1>4, <2>1, <2>2 DEF AsIs, Same
<1> QED
  BY <1>2, <1>3, <1>4

LEMMA LookUpReceipts ==
    ASSUME LoopInv, ReceiptsInv, NEW n \in Requests, LookUp(n)
    PROVE  ReceiptsInv'
<1> DEFINE bound == [calls[n] EXCEPT !.transcript = inputs[calls[n].deal]]
           key == Key(bound)
<1>1. Shaped(n, calls[n]) /\ calls[n].pc = "lookup" /\ calls[n].source = "cache"
  BY DEF LoopInv, CallsInv, LookUp
<1>2. calls[n] = [f \in CallFields |-> calls[n][f]]
  BY <1>1 DEF Shaped
<1>3. receipts' = receipts
  BY DEF LookUp
<1>4. ASSUME NEW c, Become(n, c), c.source = "cache", c.pc \notin {"idle", "body", "errorBody"}
      PROVE  ReceiptsInv'
  BY <1>1, <1>3, <1>4, QuietCall DEF InFlight, Counts
<1>5. CASE Become(n, Failed(n))
  <2>1. Failed(n).pc = "failed" /\ Failed(n).source = "cache"
    BY <1>1, <1>2, EndFields DEF AsIs
  <2> QED
    BY <1>4, <1>5, <2>1
<1>6. CASE cache[key] \in Outputs /\ Become(n, [Used(n, cache[key]) EXCEPT !.transcript = bound.transcript])
  <2> DEFINE used == Used(n, cache[key])
             c == [used EXCEPT !.transcript = bound.transcript]
  <2>1. /\ used = [f \in CallFields |-> used[f]]
        /\ used.source = "cache" /\ used.pc \in {"record", "open", "returned", "failed"}
    BY <1>1, <1>6, UsedGoesOn
  <2> HIDE DEF used
  <2>2. c.source = "cache" /\ c.pc \notin {"idle", "body", "errorBody"}
    BY <2>1 DEF CallFields
  <2> QED
    BY <1>4, <1>6, <2>2 DEF used
<1>7. CASE \E hasKey \in Keys : Become(n, [bound EXCEPT !.pc = IF hasKey THEN "model" ELSE "failed"])
  <2>1. PICK hasKey \in Keys : Become(n, [bound EXCEPT !.pc = IF hasKey THEN "model" ELSE "failed"])
    BY <1>7
  <2> DEFINE pc == IF hasKey THEN "model" ELSE "failed"
             c == [bound EXCEPT !.pc = pc]
  <2>2. bound = [f \in CallFields |-> bound[f]] /\ bound.source = "cache"
    BY <1>1, <1>2 DEF CallFields
  <2>3. pc \in {"model", "failed"}
    OBVIOUS
  <2>4. Become(n, c)
    BY <2>1
  <2> HIDE DEF bound, pc
  <2>5. c.source = "cache" /\ c.pc = pc
    BY <2>2 DEF CallFields
  <2> HIDE DEF c
  <2> QED
    BY <1>4, <2>3, <2>4, <2>5
<1> QED
  BY <1>5, <1>6, <1>7 DEF LookUp

(* A step of a call on the cached source.                                  *)
LEMMA CachedReceipts ==
    ASSUME LoopInv, ReceiptsInv, NEW n \in Requests,
           Capture(n) \/ Truncate(n) \/ WriteCache(n) \/ CaptureFails(n)
    PROVE  ReceiptsInv'
<1>1. Shaped(n, calls[n]) /\ calls[n].source = "cache"
      /\ calls[n].pc \in {"model", "truncate", "write"}
  BY DEF LoopInv, CallsInv, Shaped, Capture, Truncate, WriteCache, CaptureFails
<1>2. calls[n] = [f \in CallFields |-> calls[n][f]]
  BY <1>1 DEF Shaped
<1>3. receipts' = receipts
  BY DEF Capture, Truncate, WriteCache, CaptureFails
<1>4. ASSUME NEW c, Become(n, c), c.source = "cache", c.pc \notin {"idle", "body", "errorBody"}
      PROVE  ReceiptsInv'
  BY <1>1, <1>3, <1>4, QuietCall DEF InFlight, Counts
<1>5. CASE Capture(n)
  <2>1. PICK output \in Outputs : Become(n, [At(n, "truncate") EXCEPT !.got = output])
    BY <1>5 DEF Capture
  <2> DEFINE at == At(n, "truncate")
             c == [at EXCEPT !.got = output]
  <2>2. at = [f \in CallFields |-> at[f]] /\ at.pc = "truncate" /\ at.source = "cache"
    BY <1>1, <1>2, AtFields DEF AsIs
  <2> HIDE DEF at
  <2>3. c.pc = "truncate" /\ c.source = "cache"
    BY <2>2 DEF CallFields
  <2> QED
    BY <1>4, <2>1, <2>3 DEF at
<1>6. CASE Truncate(n)
  <2>1. At(n, "write").pc = "write" /\ At(n, "write").source = "cache"
    BY <1>1, <1>2, AtFields DEF AsIs
  <2> QED
    BY <1>4, <1>6, <2>1 DEF Truncate
<1>7. CASE WriteCache(n)
  <2>1. calls[n].got \in Outputs
    BY <1>1, <1>7 DEF WriteCache, Shaped
  <2>2. /\ Used(n, calls[n].got).source = "cache"
        /\ Used(n, calls[n].got).pc \notin {"idle", "body", "errorBody"}
    BY <1>1, <2>1, UsedGoesOn
  <2> QED
    BY <1>4, <1>7, <2>2 DEF WriteCache
<1>8. CASE CaptureFails(n)
  <2>1. Failed(n).pc = "failed" /\ Failed(n).source = "cache"
    BY <1>1, <1>2, EndFields DEF AsIs
  <2> QED
    BY <1>4, <1>8, <2>1 DEF CaptureFails
<1> QED
  BY <1>5, <1>6, <1>7, <1>8

(* The request and each of its outcomes is recorded once.                  *)
LEMMA RecordedReceipts ==
    ASSUME LoopInv, ReceiptsInv, NEW n \in Requests, NEW c, Become(n, c),
           NEW what \in Receipts, NEW gain, Record(n, what),
           \/ what = "success" /\ gain = 1
           \/ what # "success" /\ gain = 0,
           calls[n].pc # "idle", c.pc # "idle",
           InFlight(c) <=> ~InFlight(calls[n]),
           what = "request" <=> InFlight(c),
           Counts(calls[n], receipts[n]) =>
               (c.source = "rest" /\ c.op = "loop" /\ c.pc # "failed" =>
                  Obtained(c) = Successes(receipts[n]) + gain)
    PROVE  ReceiptsInv'
<1> DEFINE r == receipts[n]
           t == Append(r, what)
<1>1. ReceiptsFit(calls[n], r)
  BY DEF ReceiptsInv
<1>a. Counts(calls[n], r) =>
          (c.source = "rest" /\ c.op = "loop" /\ c.pc # "failed" => Obtained(c) = Successes(r) + gain)
  OBVIOUS
<1>b. Record(n, what) /\ t = Append(receipts[n], what)
  OBVIOUS
<1> HIDE DEF r
<1>2. r \in Seq(Receipts) /\ Alternate(r) /\ Len(r) % 2 = (IF InFlight(calls[n]) THEN 1 ELSE 0)
      /\ Counts(calls[n], r)
  BY <1>1 DEF ReceiptsFit
<1>3. what = "request" <=> Len(r) % 2 = 0
  BY <1>2
<1>4. /\ t \in Seq(Receipts) /\ Alternate(t)
      /\ Len(t) % 2 = 1 - (Len(r) % 2)
      /\ Successes(t) = Successes(r) + (IF what = "success" THEN 1 ELSE 0)
  BY <1>2, <1>3, ReceiptRecorded
<1>5. Len(t) % 2 = (IF InFlight(c) THEN 1 ELSE 0)
  <2>1. Len(r) % 2 = (IF InFlight(c) THEN 0 ELSE 1)
    BY <1>2
  <2> HIDE DEF t
  <2> QED
    BY <1>4, <2>1
<1> HIDE DEF t
<1>6. Counts(c, t)
  <2>1. Successes(t) = Successes(r) + gain
    BY <1>4
  <2> QED
    BY <1>a, <1>2, <2>1 DEF Counts
<1>7. ReceiptsFit(c, t)
  BY <1>4, <1>5, <1>6 DEF ReceiptsFit
<1>8. \E w : Record(n, w) /\ ReceiptsFit(c, Append(receipts[n], w))
  BY <1>b, <1>7
<1> QED
  BY <1>8, ReceiptsMove

LEMMA RestReceipts ==
    ASSUME LoopInv, ReceiptsInv, NEW n \in Requests,
           RequestOutput(n) \/ Respond(n) \/ ReadBody(n) \/ RequestFails(n) \/ ReadErrorBody(n)
             \/ TimeOut(n)
    PROVE  ReceiptsInv'
<1>1. Shaped(n, calls[n]) /\ calls[n].pc \in {"lookup", "model", "body", "errorBody"}
  BY DEF LoopInv, CallsInv, RequestOutput, Respond, ReadBody, RequestFails, ReadErrorBody, TimeOut
<1>2. /\ calls[n] = [f \in CallFields |-> calls[n][f]]
      /\ calls[n].op \in {"loop", "detect"}
      /\ calls[n].stage \in {"detect", "grade1", "grade2"}
  BY <1>1 DEF Shaped, Awaiting
<1>3. \A pc : At(n, pc).pc = pc /\ At(n, pc).source = calls[n].source
                /\ At(n, pc).op = calls[n].op /\ At(n, pc).stage = calls[n].stage
  BY <1>2, AtFields DEF AsIs, Same
<1>4. /\ Failed(n).pc = "failed" /\ Failed(n).source = calls[n].source
  BY <1>2, EndFields DEF AsIs, Same
<1>5. ReceiptsFit(calls[n], receipts[n])
  BY DEF ReceiptsInv
<1>6. Counts(calls[n], receipts[n]) /\ receipts[n] \in Seq(Receipts) /\ Alternate(receipts[n])
  BY <1>5 DEF ReceiptsFit
<1>7. CASE RequestOutput(n)
  <2> DEFINE c == At(n, "model")
  <2>1. /\ calls[n].pc = "lookup" /\ calls[n].source = "rest"
        /\ Record(n, "request") /\ Become(n, c)
    BY <1>7 DEF RequestOutput
  <2>2. /\ c.pc = "model" /\ c.source = "rest" /\ c.op = calls[n].op /\ c.stage = calls[n].stage
    BY <1>3, <2>1
  <2> HIDE DEF c
  <2>3. InFlight(c) /\ ~InFlight(calls[n])
    BY <2>1, <2>2 DEF InFlight
  <2>4. c.op = "loop" => Obtained(c) = Successes(receipts[n])
    BY <1>6, <2>1, <2>2 DEF Counts, Obtained
  <2>5. Successes(receipts[n]) + 0 = Successes(receipts[n])
    <3>1. Len(receipts[n]) % 2 = 0
      BY <1>5, <2>3 DEF ReceiptsFit
    <3>2. Successes(receipts[n]) \in Nat
      BY <1>6, <3>1, ReceiptRecorded DEF Receipts
    <3> QED
      BY <3>2
  <2>6. "request" \in Receipts /\ calls[n].pc # "idle" /\ c.pc # "idle"
    BY <2>1, <2>2 DEF Receipts
  <2>7. "request" = "request" <=> InFlight(c)
    BY <2>3
  <2>8. \/ "request" = "success" /\ 0 = 1
        \/ "request" # "success" /\ 0 = 0
    OBVIOUS
  <2>9. Counts(calls[n], receipts[n]) =>
            (c.source = "rest" /\ c.op = "loop" /\ c.pc # "failed" => Obtained(c) = Successes(receipts[n]) + 0)
    BY <2>4, <2>5
  <2> QED
    BY <2>1, <2>3, <2>6, <2>7, <2>8, <2>9, RecordedReceipts
<1>8. CASE Respond(n)
  <2>1. /\ calls[n].pc = "model" /\ calls[n].source = "rest" /\ receipts' = receipts
    BY <1>8 DEF Respond
  <2>2. PICK pc \in {"body", "errorBody"} : Become(n, At(n, pc))
    BY <1>8 DEF Respond
  <2> DEFINE c == At(n, pc)
  <2>3. c.pc = pc /\ c.source = "rest" /\ c.op = calls[n].op /\ c.stage = calls[n].stage
    BY <1>3, <2>1
  <2>4. Become(n, c)
    BY <2>2
  <2> HIDE DEF c
  <2>5. InFlight(c) /\ InFlight(calls[n])
    BY <2>1, <2>3 DEF InFlight
  <2>6. Counts(c, receipts[n])
    BY <1>2, <1>6, <2>1, <2>3 DEF Counts, Obtained
  <2>7. ReceiptsFit(c, receipts[n])
    BY <1>5, <2>1, <2>3, <2>5, <2>6 DEF ReceiptsFit
  <2> QED
    BY <2>1, <2>4, <2>7, ReceiptsMove
<1>9. CASE ReadBody(n)
  <2>1. PICK output \in Outputs : Become(n, Used(n, output))
    BY <1>9 DEF ReadBody
  <2> DEFINE c == Used(n, output)
  <2>2. calls[n].pc = "body" /\ Record(n, "success")
    BY <1>9 DEF ReadBody
  <2>3. /\ c.source = calls[n].source /\ c.op = calls[n].op /\ c.stage = calls[n].stage
        /\ c.pc \in {"record", "open", "returned", "failed"}
        /\ c.pc = "record" <=> c.stage # "detect"
        /\ c.pc = "returned" => c.op = "detect"
    BY <1>1, UsedGoesOn
  <2>4. Become(n, c)
    BY <2>1
  <2> HIDE DEF c
  <2>5. InFlight(calls[n]) /\ ~InFlight(c) /\ calls[n].pc # "idle" /\ c.pc # "idle"
    BY <2>2, <2>3 DEF InFlight
  <2>6. Counts(calls[n], receipts[n]) =>
            (c.source = "rest" /\ c.op = "loop" /\ c.pc # "failed" => Obtained(c) = Successes(receipts[n]) + 1)
    <3> SUFFICES ASSUME Counts(calls[n], receipts[n]),
                        c.source = "rest", c.op = "loop", c.pc # "failed"
                 PROVE  Obtained(c) = Successes(receipts[n]) + 1
      OBVIOUS
    <3>1. Successes(receipts[n]) = Obtained(calls[n])
      BY <2>2, <2>3 DEF Counts
    <3>2. Obtained(c) = Obtained(calls[n]) + 1
      BY <1>2, <2>2, <2>3 DEF Obtained
    <3> QED
      BY <3>1, <3>2
  <2>7. "success" \in Receipts
    BY DEF Receipts
  <2>8. "success" = "request" <=> InFlight(c)
    BY <2>5
  <2>9. \/ "success" = "success" /\ 1 = 1
        \/ "success" # "success" /\ 1 = 0
    OBVIOUS
  <2> QED
    BY <2>2, <2>4, <2>5, <2>6, <2>7, <2>8, <2>9, RecordedReceipts
<1>10. CASE RequestFails(n) \/ TimeOut(n) \/ ReadErrorBody(n)
  <2> DEFINE c == Failed(n)
  <2>1. /\ calls[n].pc \in {"model", "body", "errorBody"} /\ Become(n, c) /\ Record(n, "error")
        /\ calls[n].source = "rest" \/ calls[n].pc = "errorBody"
    BY <1>10 DEF RequestFails, TimeOut, ReadErrorBody
  <2>2. c.pc = "failed"
    BY <1>4
  <2> HIDE DEF c
  <2>3. InFlight(calls[n]) /\ ~InFlight(c) /\ calls[n].pc # "idle" /\ c.pc # "idle"
    BY <2>1, <2>2 DEF InFlight
  <2>4. "error" \in Receipts
    BY DEF Receipts
  <2>5. "error" = "request" <=> InFlight(c)
    BY <2>3
  <2>6. \/ "error" = "success" /\ 0 = 1
        \/ "error" # "success" /\ 0 = 0
    OBVIOUS
  <2>7. Counts(calls[n], receipts[n]) =>
            (c.source = "rest" /\ c.op = "loop" /\ c.pc # "failed" => Obtained(c) = Successes(receipts[n]) + 0)
    BY <2>2
  <2> QED
    BY <2>1, <2>3, <2>4, <2>5, <2>6, <2>7, RecordedReceipts
<1> QED
  BY <1>7, <1>8, <1>9, <1>10

(* A step of a store moves its call on and records no receipt.             *)
LEMMA StoreReceipts ==
    ASSUME LoopInv, ReceiptsInv, NEW n \in Requests,
           OpenCase(n) \/ RecordAudit(n) \/ OpenGate(n) \/ RecordEval(n) \/ StoreFails(n)
    PROVE  ReceiptsInv'
<1>1. /\ Shaped(n, calls[n]) /\ calls[n].pc \in {"open", "audit", "gate", "record"}
      /\ receipts' = receipts
  BY DEF LoopInv, CallsInv, OpenCase, RecordAudit, OpenGate, RecordEval, StoreFails
<1>2. calls[n] = [f \in CallFields |-> calls[n][f]]
  BY <1>1 DEF Shaped
<1>3. ASSUME NEW c, Become(n, c), c.source = calls[n].source, c.op = calls[n].op,
             c.pc \in {"returned", "audit", "gate", "lookup", "failed"},
             c.pc # "failed" /\ calls[n].op = "loop" => Obtained(c) = Obtained(calls[n])
      PROVE  ReceiptsInv'
  <2>1. ~InFlight(c) /\ ~InFlight(calls[n])
    BY <1>1, <1>3 DEF InFlight
  <2>2. Counts(calls[n], receipts[n]) => Counts(c, receipts[n])
    BY <1>1, <1>3 DEF Counts
  <2> QED
    BY <1>1, <1>3, <2>1, <2>2, QuietCall
<1>4. /\ \A pc : At(n, pc) = [f \in CallFields |-> At(n, pc)[f]]
      /\ \A pc : At(n, pc).pc = pc /\ AsIs(At(n, pc), calls[n])
      /\ Returned(n).pc = "returned" /\ AsIs(Returned(n), calls[n])
      /\ Failed(n).pc = "failed" /\ AsIs(Failed(n), calls[n])
  BY <1>2, AtFields, EndFields
<1>5. CASE OpenCase(n)
  <2>1. calls[n].pc = "open" /\ calls[n].stage = "detect"
    BY <1>1, <1>5 DEF OpenCase, Shaped
  <2>2. CASE calls[n].op = "detect"
    <3>1. Become(n, Returned(n))
      BY <1>5, <2>2 DEF OpenCase
    <3> QED
      BY <1>3, <1>4, <2>2, <3>1 DEF AsIs, Same
  <2>3. CASE calls[n].op # "detect"
    <3> DEFINE c == At(n, "audit")
    <3>1. Become(n, c)
      BY <1>5, <2>3 DEF OpenCase
    <3>2. c.pc = "audit" /\ AsIs(c, calls[n])
      BY <1>4
    <3> HIDE DEF c
    <3>3. Obtained(c) = Obtained(calls[n])
      BY <2>1, <3>2 DEF AsIs, Obtained
    <3> QED
      BY <1>3, <3>1, <3>2, <3>3 DEF AsIs, Same
  <2> QED
    BY <2>2, <2>3
<1>6. CASE RecordAudit(n)
  <2>1. calls[n].pc = "audit"
    BY <1>6 DEF RecordAudit
  <2>2. CASE calls[n].op = "approve"
    <3>1. Become(n, Returned(n))
      BY <1>6, <2>2 DEF RecordAudit
    <3> QED
      BY <1>3, <1>4, <2>2, <3>1 DEF AsIs, Same
  <2>3. CASE calls[n].op # "approve"
    <3> DEFINE c == At(n, "gate")
    <3>1. Become(n, c)
      BY <1>6, <2>3 DEF RecordAudit
    <3>2. c.pc = "gate" /\ AsIs(c, calls[n])
      BY <1>4
    <3> HIDE DEF c
    <3>3. calls[n].op = "loop" => calls[n].stage = "detect"
      BY <1>1, <2>1 DEF Shaped
    <3>4. calls[n].op = "loop" => Obtained(c) = Obtained(calls[n])
      BY <2>1, <3>2, <3>3 DEF AsIs, Obtained
    <3> QED
      BY <1>3, <3>1, <3>2, <3>4 DEF AsIs, Same
  <2> QED
    BY <2>2, <2>3
<1>7. CASE OpenGate(n)
  <2>1. calls[n].pc = "gate"
    BY <1>7 DEF OpenGate
  <2>2. CASE calls[n].op = "approve"
    <3>1. Become(n, At(n, "audit"))
      BY <1>7, <2>2 DEF OpenGate
    <3> QED
      BY <1>3, <1>4, <2>2, <3>1 DEF AsIs, Same
  <2>3. CASE calls[n].op # "approve"
    <3> DEFINE there == At(n, "lookup")
               c == [there EXCEPT !.stage = "grade1"]
    <3>1. Become(n, c)
      BY <1>7, <2>3 DEF OpenGate
    <3>2. there = [f \in CallFields |-> there[f]] /\ there.pc = "lookup" /\ AsIs(there, calls[n])
      BY <1>4
    <3> HIDE DEF there
    <3>3. /\ c.pc = "lookup" /\ c.stage = "grade1"
          /\ c.source = calls[n].source /\ c.op = calls[n].op
      BY <3>2 DEF CallFields, AsIs, Same
    <3> HIDE DEF c
    <3>4. calls[n].op = "loop" => calls[n].stage = "detect"
      BY <1>1, <2>1 DEF Shaped
    <3>5. calls[n].op = "loop" => Obtained(c) = Obtained(calls[n])
      BY <2>1, <3>3, <3>4 DEF Obtained
    <3> QED
      BY <1>3, <3>1, <3>3, <3>5
  <2> QED
    BY <2>2, <2>3
<1>8. CASE RecordEval(n)
  <2>1. calls[n].pc = "record" /\ calls[n].op = "loop" /\ calls[n].stage \in {"grade1", "grade2"}
    BY <1>1, <1>8 DEF RecordEval, Shaped
  <2>2. CASE calls[n].stage = "grade2"
    <3> DEFINE c == Returned(n)
    <3>1. Become(n, c)
      BY <1>8, <2>2 DEF RecordEval
    <3>2. c.pc = "returned" /\ AsIs(c, calls[n])
      BY <1>4
    <3> HIDE DEF c
    <3>3. Obtained(c) = Obtained(calls[n])
      BY <2>1, <2>2, <3>2 DEF AsIs, Obtained
    <3> QED
      BY <1>3, <3>1, <3>2, <3>3 DEF AsIs, Same
  <2>3. CASE calls[n].stage = "grade1"
    <3> DEFINE there == At(n, "lookup")
               c == [there EXCEPT !.stage = "grade2", !.got = None]
    <3>1. Become(n, c)
      BY <1>8, <2>3 DEF RecordEval
    <3>2. there = [f \in CallFields |-> there[f]] /\ there.pc = "lookup" /\ AsIs(there, calls[n])
      BY <1>4
    <3> HIDE DEF there
    <3>3. /\ c.pc = "lookup" /\ c.stage = "grade2"
          /\ c.source = calls[n].source /\ c.op = calls[n].op
      BY <3>2 DEF CallFields, AsIs, Same
    <3> HIDE DEF c
    <3>4. Obtained(c) = Obtained(calls[n])
      BY <2>1, <2>3, <3>3 DEF Obtained
    <3> QED
      BY <1>3, <3>1, <3>3, <3>4
  <2> QED
    BY <2>1, <2>2, <2>3
<1>9. CASE StoreFails(n)
  <2>1. Become(n, Failed(n))
    BY <1>9 DEF StoreFails
  <2> QED
    BY <1>3, <1>4, <2>1 DEF AsIs, Same
<1> QED
  BY <1>5, <1>6, <1>7, <1>8, <1>9

LEMMA NoSuccesses == Successes(<<>>) = 0
<1>1. {i \in DOMAIN <<>> : <<>>[i] = "success"} = {}
  OBVIOUS
<1> QED
  BY <1>1, FS_EmptySet DEF Successes

(* What a call starts as.                                                  *)
LEMMA StartIs ==
    ASSUME NEW n \in Requests, StartLoop(n) \/ StartApprove(n) \/ Evaluate(n)
    PROVE  \E c :
             /\ Start(n, c) /\ (MayFail \/ UNCHANGED failures)
             /\ c.stage = "detect" /\ c.missed = None /\ c.transcript = None
             /\ \/ c.op \in {"loop", "detect"} /\ c.pc = "lookup" /\ c.action = GatedCustomerAction
                \/ /\ c.op = "approve" /\ c.pc \in {"gate", "failed"}
                   /\ \E case \in cases : c.of = case.by /\ c.deal = case.deal
                \/ c.op = "evaluate" /\ c.pc = "returned"
<1>1. CASE StartLoop(n)
  <2>1. PICK deal \in Deals, source \in Sources, op \in {"loop", "detect"} :
          Start(n, [NoCall EXCEPT !.pc = "lookup", !.op = op, !.deal = deal, !.source = source, !.of = n])
    BY <1>1 DEF StartLoop
  <2> DEFINE c == [NoCall EXCEPT !.pc = "lookup", !.op = op, !.deal = deal, !.source = source, !.of = n]
  <2>2. /\ c.pc = "lookup" /\ c.stage = "detect" /\ c.op = op /\ c.missed = None
        /\ c.transcript = None /\ c.action = GatedCustomerAction
    BY DEF NoCall
  <2>3. Start(n, c) /\ UNCHANGED failures
    BY <1>1, <2>1 DEF StartLoop
  <2> HIDE DEF c
  <2> QED
    BY <2>2, <2>3
<1>2. CASE StartApprove(n)
  <2>1. PICK case \in cases, status \in DealStatus, action \in Actions :
          Start(n, [NoCall EXCEPT !.pc = IF CanEnforce(status) THEN "gate" ELSE "failed",
                                  !.op = "approve", !.deal = case.deal, !.action = action, !.of = case.by])
    BY <1>2 DEF StartApprove
  <2> DEFINE pc == IF CanEnforce(status) THEN "gate" ELSE "failed"
             c == [NoCall EXCEPT !.pc = pc, !.op = "approve", !.deal = case.deal,
                                 !.action = action, !.of = case.by]
  <2>2. pc \in {"gate", "failed"}
    OBVIOUS
  <2>3. Start(n, c) /\ UNCHANGED failures
    BY <1>2, <2>1 DEF StartApprove
  <2> HIDE DEF pc
  <2>4. /\ c.pc = pc /\ c.op = "approve" /\ c.stage = "detect" /\ c.missed = None
        /\ c.transcript = None /\ c.of = case.by /\ c.deal = case.deal
    BY DEF NoCall
  <2> HIDE DEF c
  <2> QED
    BY <2>2, <2>3, <2>4
<1>3. CASE Evaluate(n)
  <2>1. PICK action \in Actions : \E decision \in {DecisionFor(action), "denied"} :
          /\ Start(n, [NoCall EXCEPT !.pc = "returned", !.op = "evaluate", !.action = action, !.got = decision])
          /\ MayFail \/ UNCHANGED failures
    BY <1>3 DEF Evaluate
  <2>2. PICK decision :
          /\ Start(n, [NoCall EXCEPT !.pc = "returned", !.op = "evaluate", !.action = action, !.got = decision])
          /\ MayFail \/ UNCHANGED failures
    BY <2>1
  <2> DEFINE c == [NoCall EXCEPT !.pc = "returned", !.op = "evaluate", !.action = action, !.got = decision]
  <2>3. /\ c.pc = "returned" /\ c.op = "evaluate" /\ c.stage = "detect" /\ c.missed = None
        /\ c.transcript = None
    BY DEF NoCall
  <2>4. Start(n, c) /\ (MayFail \/ UNCHANGED failures)
    BY <2>2
  <2> HIDE DEF c
  <2> QED
    BY <2>3, <2>4
<1> QED
  BY <1>1, <1>2, <1>3

(* A call that starts has no receipts yet.                                 *)
LEMMA StartReceipts ==
    ASSUME LoopInv, ReceiptsInv, NEW n \in Requests,
           StartLoop(n) \/ StartApprove(n) \/ Evaluate(n)
    PROVE  ReceiptsInv'
<1>2. PICK c : /\ Start(n, c) /\ c.pc \in {"lookup", "gate", "failed", "returned"} /\ c.stage = "detect"
               /\ c.op = "loop" => c.pc = "lookup"
  BY StartIs
<1>3. calls[n].pc = "idle" /\ Become(n, c) /\ receipts' = receipts
  BY <1>2 DEF Start
<1>4. receipts[n] = <<>>
  BY <1>3 DEF ReceiptsInv, ReceiptsFit
<1>5. ~InFlight(c)
  BY <1>2 DEF InFlight
<1>6. Counts(c, <<>>)
  <2> SUFFICES ASSUME c.op = "loop" PROVE Successes(<<>>) = Obtained(c)
    BY DEF Counts
  <2> QED
    BY <1>2, NoSuccesses DEF Obtained
<1>7. ReceiptsFit(c, <<>>)
  <2>1. <<>> \in Seq(Receipts) /\ Len(<<>>) = 0 /\ 0 % 2 = 0
    OBVIOUS
  <2> QED
    BY <1>2, <1>5, <1>6, <2>1 DEF ReceiptsFit, Alternate
<1> QED
  BY <1>3, <1>4, <1>7, ReceiptsMove

(* A crash leaves no receipt, and no call that is answered.                *)
LEMMA CrashReceipts ==
    ASSUME LoopInv, ReceiptsInv, Crash
    PROVE  ReceiptsInv'
<1>1. /\ receipts' = [n \in Requests |-> <<>>]
      /\ calls' = [n \in Requests |-> IF calls[n].pc = "idle" THEN NoCall ELSE [NoCall EXCEPT !.pc = "lost"]]
  BY DEF Crash
<1>2. \A n \in Requests : calls'[n].op = "none"
  BY CrashKeeps
<1>3. \A n \in Requests : calls'[n].pc \in {"idle", "lost"}
  BY <1>1 DEF NoCall
<1>4. \A n \in Requests : ReceiptsFit(calls'[n], <<>>)
  <2> SUFFICES ASSUME NEW n \in Requests PROVE ReceiptsFit(calls'[n], <<>>)
    OBVIOUS
  <2>1. ~InFlight(calls'[n])
    BY <1>3 DEF InFlight
  <2> QED
    BY <1>2, <1>3, <2>1, NoReceipts
<1>5. receipts' = [n \in Requests |-> receipts'[n]] /\ \A n \in Requests : receipts'[n] = <<>>
  BY <1>1
<1> QED
  BY <1>4, <1>5 DEF ReceiptsInv

LEMMA ReceiptsInitially ==
    ASSUME Init
    PROVE  ReceiptsInv
<1>1. \A n \in Requests : calls[n] = NoCall /\ receipts[n] = <<>>
  BY DEF Init
<1>2. NoCall.pc = "idle" /\ NoCall.op = "none"
  BY DEF NoCall
<1>3. ReceiptsFit(NoCall, <<>>)
  BY <1>2, NoReceipts DEF InFlight
<1> QED
  BY <1>1, <1>3 DEF ReceiptsInv, Init

LEMMA ReceiptsStay ==
    ASSUME LoopInv, ReceiptsInv, UNCHANGED <<calls, receipts>>
    PROVE  ReceiptsInv'
BY DEF ReceiptsInv

LEMMA ReceiptsPreserved ==
    ASSUME LoopInv, ReceiptsInv, [Next]_vars
    PROVE  ReceiptsInv'
<1>1. ASSUME NEW n \in Requests, Progress(n)
      PROVE  ReceiptsInv'
  BY <1>1, LookUpReceipts, CachedReceipts, RestReceipts, StoreReceipts DEF Progress
<1>2. ASSUME NEW n \in Requests, Model(n) \/ Faults(n)
      PROVE  ReceiptsInv'
  BY <1>2, CachedReceipts, RestReceipts, StoreReceipts DEF Model, Faults
<1>3. ASSUME NEW n \in Requests, StartLoop(n) \/ StartApprove(n) \/ Evaluate(n)
      PROVE  ReceiptsInv'
  BY <1>3, StartReceipts
<1>4. CASE \E deal \in Deals, transcript \in Transcripts : Register(deal, transcript)
  BY <1>4, ReceiptsStay DEF Register
<1>5. CASE Correct
  BY <1>5, ReceiptsStay DEF Correct
<1>6. CASE UNCHANGED vars
  BY <1>6, ReceiptsStay DEF vars
<1> QED
  BY <1>1, <1>2, <1>3, <1>4, <1>5, <1>6, CrashReceipts DEF Next

(* Every request of the REST source is followed by one outcome, whichever  *)
(* way of failing it took and whatever other calls did meanwhile, and a    *)
(* loop that returned used three outputs: no outcome is recorded twice, by *)
(* the handler of a response and again by the catch block around it.       *)
THEOREM OutcomesAreRecordedOnce == Spec => []OneOutcomePerRequest
<1>1. LoopInv /\ ReceiptsInv => OneOutcomePerRequest
  <2> SUFFICES ASSUME LoopInv, ReceiptsInv, NEW n \in Requests
               PROVE  /\ \A i \in DOMAIN receipts[n] : receipts[n][i] = "request" <=> i % 2 = 1
                      /\ calls[n].pc \in {"returned", "failed"} => Len(receipts[n]) % 2 = 0
                      /\ calls[n].pc = "returned" /\ calls[n].source = "rest" /\ calls[n].op = "loop" =>
                            Cardinality({i \in DOMAIN receipts[n] : receipts[n][i] = "success"}) = 3
    BY DEF OneOutcomePerRequest
  <2>1. ReceiptsFit(calls[n], receipts[n]) /\ Shaped(n, calls[n])
    BY DEF ReceiptsInv, LoopInv, CallsInv
  <2>2. receipts[n] \in Seq(Receipts)
    BY <2>1 DEF ReceiptsFit
  <2>3. DOMAIN receipts[n] = 1..Len(receipts[n])
    BY <2>2
  <2>4. \A i \in DOMAIN receipts[n] : receipts[n][i] = "request" <=> i % 2 = 1
    BY <2>1, <2>3 DEF ReceiptsFit, Alternate
  <2>5. calls[n].pc \in {"returned", "failed"} => Len(receipts[n]) % 2 = 0
    BY <2>1 DEF ReceiptsFit, InFlight
  <2>6. calls[n].pc = "returned" /\ calls[n].source = "rest" /\ calls[n].op = "loop" =>
            Cardinality({i \in DOMAIN receipts[n] : receipts[n][i] = "success"}) = 3
    <3> HAVE calls[n].pc = "returned" /\ calls[n].source = "rest" /\ calls[n].op = "loop"
    <3>1. Obtained(calls[n]) = 3
      BY <2>1 DEF Shaped, Obtained
    <3>2. Successes(receipts[n]) = 3
      BY <2>1, <3>1 DEF ReceiptsFit, Counts
    <3> QED
      BY <3>2 DEF Successes
  <2> QED
    BY <2>4, <2>5, <2>6
<1>2. Init => LoopInv /\ ReceiptsInv
  BY LoopInvInitially, ReceiptsInitially
<1>3. LoopInv /\ ReceiptsInv /\ [Next]_vars => LoopInv' /\ ReceiptsInv'
  BY LoopInvPreserved, ReceiptsPreserved
<1> QED
  BY <1>1, <1>2, <1>3, PTL DEF Spec

-----------------------------------------------------------------------------
(***************************************************************************)
(* What the calls on the cached source have read, and what they left.      *)
(***************************************************************************)
Keyed == Transcripts \X Passes

Captures(c, key) == c.pc \in {"model", "truncate", "write"} /\ Key(c) = key

(* A file that no two calls captured at once is written by one of them, if *)
(* by any, and only while it is not valid.                                 *)
KeyFits(key, cs, content) ==
    /\ \A k, m \in Requests : Captures(cs[k], key) /\ Captures(cs[m], key) => k = m
    /\ \A k \in Requests : Captures(cs[k], key) => content \notin Outputs
    /\ \A k \in Requests : Captures(cs[k], key) /\ cs[k].pc = "write" => content = Torn

CapturedOnce == \A key \in Keyed : key \notin disturbed => KeyFits(key, calls, cache[key])

Asks(c) == c.op \in {"loop", "detect"} /\ c.source = "cache"

\* A call that has used its first output.
HasRead(c) == c.stage # "detect" \/ c.pc \in {"open", "audit", "gate", "returned"}

(* What a call on the cached source has used is what the files hold.       *)
Reads(c, bound, files, torn) ==
    /\ c.source = "rest" => c.transcript = None
    /\ c.pc \in {"body", "errorBody"} => c.source = "rest"
    /\ Asks(c) /\ c.pc \in Running /\ (c.pc # "lookup" \/ c.stage # "detect") =>
          bound[c.deal] = c.transcript
    /\ c.stage = "detect" /\ c.pc \in {"lookup", "model", "truncate", "write", "body", "errorBody"} =>
          c.missed = None
    /\ Asks(c) /\ HasRead(c) =>
          /\ c.transcript \in Transcripts
          /\ <<c.transcript, 1>> \notin torn =>
                /\ files[<<c.transcript, 1>>] \in Outputs
                /\ c.missed = Missed(files[<<c.transcript, 1>>])
    /\ Asks(c) /\ c.pc = "record" /\ Key(c) \notin torn =>
          files[Key(c)] \in Outputs /\ c.got = files[Key(c)]
    /\ Asks(c) /\ c.op = "loop" /\ c.pc = "returned" /\ <<c.transcript, 2>> \notin torn =>
          files[<<c.transcript, 2>>] \in Outputs

CacheInv ==
    /\ CapturedOnce
    /\ \A n \in Requests : Reads(calls[n], inputs, cache, disturbed)

(* What is valid and was captured once stays as it is.                     *)
CacheKeeps ==
    /\ disturbed \subseteq disturbed'
    /\ \A key \in Keyed : key \notin disturbed' /\ cache[key] \in Outputs => cache'[key] = cache[key]

Alike(c, d) ==
    /\ Same(c, d)
    /\ c.source = d.source /\ c.deal = d.deal /\ c.stage = d.stage

(* How a call goes on with an output.                                      *)
GoesOn(c, d, output) ==
    /\ Alike(c, d)
    /\ \/ c.stage # "detect" /\ c.pc = "record" /\ c.got = output /\ c.missed = d.missed
       \/ /\ c.stage = "detect" /\ c.pc = "open"
          /\ c.missed = Missed(output) /\ Missed(output) # None
       \/ /\ c.stage = "detect" /\ c.pc \in {"returned", "failed"}
          /\ c.pc = "returned" <=> c.op = "detect"
          /\ c.missed = d.missed /\ Missed(output) = None

LEMMA UsedIsGoingOn ==
    ASSUME NEW n, Shaped(n, calls[n]), calls[n].op \in {"loop", "detect"}, NEW output \in Outputs
    PROVE  LET c == Used(n, output) IN
           /\ c = [f \in CallFields |-> c[f]]
           /\ GoesOn(c, calls[n], output) /\ c.transcript = calls[n].transcript
<1>1. calls[n] = [f \in CallFields |-> calls[n][f]]
  BY DEF Shaped
<1>2. CASE calls[n].stage # "detect"
  <2> DEFINE at == At(n, "record")
             c == [at EXCEPT !.got = output]
  <2>1. Used(n, output) = c
    BY <1>2 DEF Used
  <2>2. at = [f \in CallFields |-> at[f]] /\ at.pc = "record" /\ AsIs(at, calls[n])
    BY <1>1, AtFields
  <2> HIDE DEF at
  <2>3. /\ c = [f \in CallFields |-> c[f]]
        /\ c.pc = "record" /\ c.got = output /\ AsIs(c, calls[n])
    BY <2>2 DEF CallFields, AsIs, Same
  <2> HIDE DEF c
  <2> QED
    BY <1>2, <2>1, <2>3 DEF GoesOn, Alike, AsIs
<1>3. CASE calls[n].stage = "detect" /\ Missed(output) # None
  <2> DEFINE opening == At(n, "open")
             m == Missed(output)
             c == [opening EXCEPT !.missed = m, !.got = None]
  <2>1. Used(n, output) = c
    BY <1>3 DEF Used
  <2>2. /\ opening = [f \in CallFields |-> opening[f]]
        /\ opening.pc = "open" /\ AsIs(opening, calls[n])
    BY <1>1, AtFields
  <2> HIDE DEF opening, m
  <2>3. /\ c = [f \in CallFields |-> c[f]]
        /\ c.pc = "open" /\ c.source = calls[n].source /\ c.missed = m
        /\ Same(c, calls[n]) /\ c.stage = calls[n].stage /\ c.deal = calls[n].deal
        /\ c.transcript = calls[n].transcript
    BY <2>2 DEF CallFields, AsIs, Same
  <2> HIDE DEF c
  <2> QED
    BY <1>3, <2>1, <2>3 DEF GoesOn, Alike, m
<1>4. CASE calls[n].stage = "detect" /\ Missed(output) = None
  <2>1. Used(n, output) = IF calls[n].op = "detect" THEN Returned(n) ELSE Failed(n)
    BY <1>4 DEF Used
  <2>2. /\ Returned(n) = [f \in CallFields |-> Returned(n)[f]]
        /\ Returned(n).pc = "returned" /\ AsIs(Returned(n), calls[n])
        /\ Failed(n) = [f \in CallFields |-> Failed(n)[f]]
        /\ Failed(n).pc = "failed" /\ AsIs(Failed(n), calls[n])
    BY <1>1, EndFields
  <2>3. CASE calls[n].op = "detect"
    <3>1. Used(n, output) = Returned(n)
      BY <2>1, <2>3
    <3> QED
      BY <1>4, <2>2, <2>3, <3>1 DEF GoesOn, Alike, AsIs, Same
  <2>4. CASE calls[n].op # "detect"
    <3>1. Used(n, output) = Failed(n)
      BY <2>1, <2>4
    <3> QED
      BY <1>4, <2>2, <2>4, <3>1 DEF GoesOn, Alike, AsIs, Same
  <2> QED
    BY <2>3, <2>4
<1> QED
  BY <1>2, <1>3, <1>4

(* The three ways a lookup ends: no input, a file that is valid, a miss.   *)
Bound(c, d, t) == Alike(c, d) /\ c.transcript = t

LEMMA LookUpIs ==
    ASSUME LoopInv, NEW n \in Requests, LookUp(n)
    PROVE  \E c : 
           /\ Become(n, c)
           /\ \/ /\ inputs[calls[n].deal] = None /\ c.pc = "failed"
                 /\ AsIs(c, calls[n]) /\ disturbed' = disturbed
              \/ \E t \in Transcripts :
                    LET key == <<t, PassOf(calls[n].stage)>> IN
                    /\ inputs[calls[n].deal] = t /\ Bound(c, calls[n], t)
                    /\ \/ /\ cache[key] \in Outputs /\ disturbed' = disturbed
                          /\ GoesOn(c, calls[n], cache[key])
                       \/ /\ cache[key] \notin Outputs /\ c.missed = calls[n].missed
                          /\ \/ c.pc = "failed" /\ disturbed' = disturbed
                             \/ c.pc = "model" /\ disturbed' = 
                                   IF \E k \in Requests \ {n} : Captures(calls[k], key)
                                   THEN disturbed \cup {key} ELSE disturbed
<1> DEFINE t == inputs[calls[n].deal]
           bound == [calls[n] EXCEPT !.transcript = t]
           key == <<t, PassOf(calls[n].stage)>>
<1>1. Shaped(n, calls[n]) /\ calls[n].pc = "lookup" /\ calls[n].source = "cache"
  BY DEF LoopInv, CallsInv, LookUp
<1>2. /\ calls[n] = [f \in CallFields |-> calls[n][f]]
      /\ calls[n].op \in {"loop", "detect"} /\ calls[n].deal \in Deals
  BY <1>1 DEF Shaped, Awaiting
<1>3. t \in Transcripts \cup {None}
  BY <1>2 DEF LoopInv, FilesInv
<1>4. None \notin Transcripts
  BY LoopAssumption
<1>5. /\ bound = [f \in CallFields |-> bound[f]] /\ bound.transcript = t /\ bound.stage = calls[n].stage
      /\ Alike(bound, calls[n]) /\ bound.missed = calls[n].missed
  <2> HIDE DEF t
  <2> QED
    BY <1>2 DEF CallFields, Alike, Same
<1>6. Key(bound) = key
  <2> HIDE DEF bound, t
  <2> QED
    BY <1>5 DEF Key
<1>7. \A k : Capturing(k, key) <=> Captures(calls[k], key)
  BY DEF Capturing, Captures
<1>8. IF bound.transcript = None THEN Become(n, Failed(n)) /\ UNCHANGED disturbed
      ELSE IF cache[Key(bound)] \in Outputs
           THEN /\ Become(n, [Used(n, cache[Key(bound)]) EXCEPT !.transcript = bound.transcript])
                /\ UNCHANGED disturbed
           ELSE \E hasKey \in Keys :
                   /\ Become(n, [bound EXCEPT !.pc = IF hasKey THEN "model" ELSE "failed"])
                   /\ disturbed' = IF hasKey /\ \E k \in Requests \ {n} : Capturing(k, Key(bound))
                                   THEN disturbed \cup {Key(bound)} ELSE disturbed
  BY DEF LookUp
<1> HIDE DEF bound, t
<1>9. CASE t = None
  <2>1. Become(n, Failed(n)) /\ disturbed' = disturbed
    BY <1>5, <1>8, <1>9
  <2>2. Failed(n).pc = "failed" /\ AsIs(Failed(n), calls[n])
    BY <1>2, EndFields
  <2> QED
    BY <1>9, <2>1, <2>2 DEF t
<1>10. CASE t # None /\ cache[key] \in Outputs
  <2> DEFINE used == Used(n, cache[key])
             c == [used EXCEPT !.transcript = t]
  <2>1. Become(n, c) /\ disturbed' = disturbed
    BY <1>5, <1>6, <1>8, <1>10
  <2>2. used = [f \in CallFields |-> used[f]] /\ GoesOn(used, calls[n], cache[key])
    BY <1>1, <1>2, <1>10, UsedIsGoingOn
  <2> HIDE DEF used
  <2>3. /\ c.transcript = t /\ c.pc = used.pc /\ c.op = used.op /\ c.of = used.of /\ c.action = used.action
        /\ c.source = used.source /\ c.deal = used.deal /\ c.stage = used.stage
        /\ c.missed = used.missed /\ c.got = used.got
    BY <2>2 DEF CallFields
  <2> HIDE DEF c
  <2>4. GoesOn(c, calls[n], cache[key])
    BY <2>2, <2>3 DEF GoesOn, Alike, Same
  <2>5. Bound(c, calls[n], t)
    BY <2>3, <2>4 DEF Bound, GoesOn
  <2> QED
    BY <1>3, <1>10, <2>1, <2>4, <2>5 DEF t
<1>11. CASE t # None /\ cache[key] \notin Outputs
  <2>1. PICK hasKey \in Keys :
           /\ Become(n, [bound EXCEPT !.pc = IF hasKey THEN "model" ELSE "failed"])
           /\ disturbed' = IF hasKey /\ \E k \in Requests \ {n} : Capturing(k, key)
                           THEN disturbed \cup {key} ELSE disturbed
    BY <1>5, <1>6, <1>8, <1>11
  <2> DEFINE pc == IF hasKey THEN "model" ELSE "failed"
             c == [bound EXCEPT !.pc = pc]
  <2>2. Become(n, c)
    BY <2>1
  <2>3. \/ pc = "failed" /\ disturbed' = disturbed
        \/ pc = "model" /\ disturbed' = IF \E k \in Requests \ {n} : Captures(calls[k], key)
                                        THEN disturbed \cup {key} ELSE disturbed
    BY <1>7, <2>1
  <2> HIDE DEF pc
  <2>4. c.pc = pc /\ Bound(c, calls[n], t) /\ c.missed = calls[n].missed
    BY <1>5 DEF CallFields, Bound, Alike, Same
  <2> HIDE DEF c
  <2> QED
    BY <1>3, <1>11, <2>2, <2>3, <2>4 DEF t
<1> QED
  BY <1>9, <1>10, <1>11

LEMMA KeyFitsMoves ==
    ASSUME LoopInv, NEW n \in Requests, NEW c, Become(n, c), NEW key,
           KeyFits(key, calls, cache[key]),
           \/ ~Captures(c, key) /\ (cache'[key] = cache[key] \/ Captures(calls[n], key))
           \/ /\ Captures(c, key) /\ c.pc # "write" /\ cache'[key] = cache[key]
              /\ \/ Captures(calls[n], key)
                 \/ cache[key] \notin Outputs /\ \A k \in Requests \ {n} : ~Captures(calls[k], key)
           \/ Captures(c, key) /\ Captures(calls[n], key) /\ cache'[key] = Torn
    PROVE  KeyFits(key, calls', cache'[key])
<1>1. \A k \in Requests : calls'[k] = IF k = n THEN c ELSE calls[k]
  BY DEF Become, LoopInv, CallsInv
<1>2. Torn \notin Outputs
  BY LoopAssumption
<1>3. CASE ~Captures(c, key) /\ (cache'[key] = cache[key] \/ Captures(calls[n], key))
  BY <1>1, <1>3 DEF KeyFits
<1>4. CASE /\ Captures(c, key) /\ c.pc # "write" /\ cache'[key] = cache[key]
           /\ \/ Captures(calls[n], key)
              \/ cache[key] \notin Outputs /\ \A k \in Requests \ {n} : ~Captures(calls[k], key)
  BY <1>1, <1>4 DEF KeyFits
<1>5. CASE Captures(c, key) /\ Captures(calls[n], key) /\ cache'[key] = Torn
  BY <1>1, <1>2, <1>5 DEF KeyFits
<1> QED
  BY <1>3, <1>4, <1>5

(* What a call has read stays read.                                        *)
LEMMA ReadsStay ==
    ASSUME CacheKeeps, NEW c, Reads(c, inputs, cache, disturbed), c.stage \in {"detect", "grade1", "grade2"},
           c.pc \in Running => inputs'[c.deal] = inputs[c.deal],
           c.op = "loop" /\ c.pc = "record" => c.stage # "detect",
           c.pc = "record" => c.op = "loop"
    PROVE  Reads(c, inputs', cache', disturbed')
<1>1. 1 \in Passes /\ 2 \in Passes /\ PassOf(c.stage) \in Passes
  BY DEF Passes, PassOf
<1>2. ASSUME c.transcript \in Transcripts, NEW p \in Passes
      PROVE  <<c.transcript, p>> \in Keyed
  BY <1>2 DEF Keyed
<1>3. Key(c) = <<c.transcript, PassOf(c.stage)>>
  BY DEF Key
<1>4. \A key \in Keyed : key \notin disturbed' /\ cache[key] \in Outputs =>
          key \notin disturbed /\ cache'[key] = cache[key]
  BY DEF CacheKeeps
<1>5. Asks(c) /\ HasRead(c) =>
          /\ c.transcript \in Transcripts
          /\ <<c.transcript, 1>> \notin disturbed' =>
                /\ cache'[<<c.transcript, 1>>] \in Outputs
                /\ c.missed = Missed(cache'[<<c.transcript, 1>>])
  <2> HAVE Asks(c) /\ HasRead(c)
  <2>1. c.transcript \in Transcripts
    BY DEF Reads
  <2>2. <<c.transcript, 1>> \in Keyed
    BY <1>1, <1>2, <2>1
  <2> QED
    BY <1>4, <2>1, <2>2 DEF Reads, CacheKeeps
<1>6. Asks(c) /\ c.pc = "record" /\ Key(c) \notin disturbed' =>
          cache'[Key(c)] \in Outputs /\ c.got = cache'[Key(c)]
  <2> HAVE Asks(c) /\ c.pc = "record" /\ Key(c) \notin disturbed'
  <2>1. c.transcript \in Transcripts
    BY DEF Reads, HasRead
  <2>2. Key(c) \in Keyed
    BY <1>1, <1>2, <1>3, <2>1
  <2> QED
    BY <1>4, <2>2 DEF Reads, CacheKeeps
<1>7. Asks(c) /\ c.op = "loop" /\ c.pc = "returned" /\ <<c.transcript, 2>> \notin disturbed' =>
          cache'[<<c.transcript, 2>>] \in Outputs
  <2> HAVE Asks(c) /\ c.op = "loop" /\ c.pc = "returned" /\ <<c.transcript, 2>> \notin disturbed'
  <2>1. c.transcript \in Transcripts
    BY DEF Reads, HasRead
  <2>2. <<c.transcript, 2>> \in Keyed
    BY <1>1, <1>2, <2>1
  <2> QED
    BY <1>4, <2>2 DEF Reads, CacheKeeps
<1> QED
  BY <1>5, <1>6, <1>7 DEF Reads, Asks, HasRead

LEMMA OthersRead ==
    ASSUME LoopInv, CacheInv, CacheKeeps, inputs' = inputs, NEW n \in Requests, NEW c, Become(n, c),
           Reads(c, inputs', cache', disturbed')
    PROVE  \A k \in Requests : Reads(calls'[k], inputs', cache', disturbed')
<1>1. \A k \in Requests : calls'[k] = IF k = n THEN c ELSE calls[k]
  BY DEF Become, LoopInv, CallsInv
<1>2. ASSUME NEW k \in Requests, k # n
      PROVE  Reads(calls[k], inputs', cache', disturbed')
  <2>1. Shaped(k, calls[k]) /\ Reads(calls[k], inputs, cache, disturbed)
    BY DEF LoopInv, CallsInv, CacheInv
  <2> DEFINE d == calls[k]
  <2>2. /\ Reads(d, inputs, cache, disturbed) /\ d.stage \in {"detect", "grade1", "grade2"}
        /\ d.pc = "record" => d.op = "loop" /\ d.stage # "detect"
    BY <2>1 DEF Shaped
  <2> HIDE DEF d
  <2>3. Reads(d, inputs', cache', disturbed')
    BY <2>2, ReadsStay
  <2> QED
    BY <2>3 DEF d
<1> QED
  BY <1>1, <1>2

(* A step that writes no file and captures nothing new.                    *)
LEMMA CacheIdles ==
    ASSUME LoopInv, CacheInv, NEW n \in Requests, NEW c, Become(n, c),
           cache' = cache, disturbed' = disturbed, inputs' = inputs,
           \A key \in Keyed : Captures(c, key) => Captures(calls[n], key) /\ c.pc # "write",
           Reads(c, inputs, cache, disturbed)
    PROVE  CacheInv' /\ CacheKeeps
<1>1. CacheKeeps
  BY DEF CacheKeeps
<1>2. Reads(c, inputs', cache', disturbed')
  OBVIOUS
<1>3. \A k \in Requests : Reads(calls'[k], inputs', cache', disturbed')
  BY <1>1, <1>2, OthersRead
<1>4. CapturedOnce'
  <2> SUFFICES ASSUME NEW key \in Keyed, key \notin disturbed
               PROVE  KeyFits(key, calls', cache'[key])
    BY DEF CapturedOnce, Keyed
  <2>1. KeyFits(key, calls, cache[key])
    BY DEF CacheInv, CapturedOnce
  <2> QED
    BY <2>1, KeyFitsMoves
<1> QED
  BY <1>1, <1>3, <1>4 DEF CacheInv

LEMMA LookUpCaches ==
    ASSUME LoopInv, CacheInv, NEW n \in Requests, LookUp(n)
    PROVE  CacheInv' /\ CacheKeeps
<1> DEFINE d == calls[n]
<1>1. /\ Shaped(n, d) /\ d.pc = "lookup" /\ d.source = "cache"
      /\ Reads(d, inputs, cache, disturbed)
  BY DEF LoopInv, CallsInv, LookUp, CacheInv
<1>2. /\ d.op \in {"loop", "detect"} /\ d.stage \in {"detect", "grade1", "grade2"}
  BY <1>1 DEF Shaped, Awaiting
<1>3. cache' = cache /\ inputs' = inputs
  BY DEF LookUp
<1>4. PICK c :
        /\ Become(n, c)
        /\ \/ /\ inputs[d.deal] = None /\ c.pc = "failed"
              /\ AsIs(c, d) /\ disturbed' = disturbed
           \/ \E t \in Transcripts :
                 LET key == <<t, PassOf(d.stage)>> IN
                 /\ inputs[d.deal] = t /\ Bound(c, d, t)
                 /\ \/ /\ cache[key] \in Outputs /\ disturbed' = disturbed
                       /\ GoesOn(c, d, cache[key])
                    \/ /\ cache[key] \notin Outputs /\ c.missed = d.missed
                       /\ \/ c.pc = "failed" /\ disturbed' = disturbed
                          \/ c.pc = "model" /\ disturbed' = 
                                IF \E k \in Requests \ {n} : Captures(calls[k], key)
                                THEN disturbed \cup {key} ELSE disturbed
  BY LookUpIs
<1>5. PassOf(d.stage) \in Passes /\ (d.stage = "detect" => PassOf(d.stage) = 1)
  BY DEF PassOf, Passes
<1>6. None \notin Transcripts
  BY LoopAssumption
<1> HIDE DEF d
<1>7. CASE inputs[d.deal] = None /\ c.pc = "failed" /\ AsIs(c, d) /\ disturbed' = disturbed
  <2>1. c.stage = d.stage /\ c.op = d.op /\ c.source = "cache" /\ c.transcript = d.transcript
        /\ c.missed = d.missed
    BY <1>1, <1>7 DEF AsIs, Same
  <2>2. Reads(c, inputs, cache, disturbed)
    BY <1>1, <1>2, <1>7, <2>1 DEF Reads, Asks, HasRead, Running
  <2>3. \A key : ~Captures(c, key)
    BY <1>7 DEF Captures
  <2> QED
    BY <1>3, <1>4, <1>7, <2>2, <2>3, CacheIdles
<1>8. ASSUME NEW t \in Transcripts, inputs[d.deal] = t, Bound(c, d, t)
      PROVE  CacheInv' /\ CacheKeeps
  <2> DEFINE key == <<t, PassOf(d.stage)>>
             dirty == IF \E k \in Requests \ {n} : Captures(calls[k], key)
                      THEN disturbed \cup {key} ELSE disturbed
  <2>1. /\ c.stage = d.stage /\ c.op = d.op /\ c.source = "cache" /\ c.transcript = t
        /\ c.deal = d.deal
    BY <1>1, <1>8 DEF Bound, Alike, Same
  <2>2. Key(c) = key
    BY <2>1 DEF Key
  <2>3. d.stage # "detect" => d.transcript = t
    BY <1>1, <1>2, <1>8 DEF Reads, Asks, Running
  <2>4. CASE cache[key] \in Outputs /\ disturbed' = disturbed /\ GoesOn(c, d, cache[key])
    <3>1. d.stage = "detect" => key = <<t, 1>>
      BY <1>5
    <3> HIDE DEF key
    <3>2. Reads(c, inputs, cache, disturbed)
      BY <1>1, <1>2, <1>6, <1>8, <2>1, <2>2, <2>3, <2>4, <3>1 DEF GoesOn, Alike, Reads, Asks, HasRead, Running
    <3>3. \A k : ~Captures(c, k)
      BY <2>4 DEF Captures, GoesOn
    <3> QED
      BY <1>3, <1>4, <2>4, <3>2, <3>3, CacheIdles
  <2>5. CASE /\ cache[key] \notin Outputs /\ c.missed = d.missed
             /\ c.pc = "failed" /\ disturbed' = disturbed
    <3> HIDE DEF key
    <3>1. Reads(c, inputs, cache, disturbed)
      BY <1>1, <1>2, <1>8, <2>1, <2>3, <2>5 DEF Reads, Asks, HasRead, Running
    <3>2. \A k : ~Captures(c, k)
      BY <2>5 DEF Captures
    <3> QED
      BY <1>3, <1>4, <2>5, <3>1, <3>2, CacheIdles
  <2>6. CASE cache[key] \notin Outputs /\ c.missed = d.missed /\ c.pc = "model" /\ disturbed' = dirty
    <3>1. key \in Keyed
      BY <1>5 DEF Keyed
    <3> HIDE DEF key
    <3>2. Reads(c, inputs, cache, disturbed)
      BY <1>1, <1>2, <1>8, <2>1, <2>3, <2>6 DEF Reads, Asks, HasRead, Running
    <3>3. CacheKeeps
      BY <1>3, <2>6 DEF CacheKeeps
    <3>4. Reads(c, inputs', cache', disturbed')
      <4>1. c.stage \in {"detect", "grade1", "grade2"} /\ c.pc # "record"
        BY <1>2, <2>1, <2>6
      <4> QED
        BY <1>3, <3>2, <3>3, <4>1, ReadsStay
    <3>5. \A k \in Requests : Reads(calls'[k], inputs', cache', disturbed')
      BY <1>3, <1>4, <3>3, <3>4, OthersRead
    <3>6. ASSUME NEW k \in Keyed, k \notin disturbed'
          PROVE  KeyFits(k, calls', cache'[k])
      <4>1. k \notin disturbed /\ KeyFits(k, calls, cache[k])
        BY <3>3, <3>6 DEF CacheKeeps, CacheInv, CapturedOnce
      <4>2. cache'[k] = cache[k]
        BY <1>3
      <4>3. CASE k = key
        <5>1. Captures(c, k) /\ c.pc # "write"
          BY <2>2, <2>6, <4>3 DEF Captures
        <5>2. ~ \E j \in Requests \ {n} : Captures(calls[j], k)
          BY <2>6, <3>6, <4>3
        <5> QED
          BY <1>4, <2>6, <4>1, <4>2, <4>3, <5>1, <5>2, KeyFitsMoves
      <4>4. CASE k # key
        <5>1. ~Captures(c, k)
          BY <2>2, <4>4 DEF Captures
        <5> QED
          BY <1>4, <4>1, <4>2, <5>1, KeyFitsMoves
      <4> QED
        BY <4>3, <4>4
    <3>7. CapturedOnce'
      BY <3>6 DEF CapturedOnce, Keyed
    <3> QED
      BY <3>3, <3>5, <3>7 DEF CacheInv
  <2> QED
    BY <1>4, <1>6, <1>8, <2>4, <2>5, <2>6
<1> QED
  BY <1>4, <1>7, <1>8

(* The file of a capture, as it is emptied and as it is written.           *)
LEMMA CaptureCaches ==
    ASSUME LoopInv, CacheInv, NEW n \in Requests,
           Capture(n) \/ Truncate(n) \/ WriteCache(n)
    PROVE  CacheInv' /\ CacheKeeps
<1> DEFINE d == calls[n]
           key == Key(d)
<1>1. /\ Shaped(n, d) /\ d.pc \in {"model", "truncate", "write"} /\ d.source = "cache"
      /\ Reads(d, inputs, cache, disturbed)
  BY DEF LoopInv, CallsInv, Shaped, Capture, Truncate, WriteCache, CacheInv
<1>2. /\ d = [f \in CallFields |-> d[f]]
      /\ d.op \in {"loop", "detect"} /\ d.stage \in {"detect", "grade1", "grade2"}
      /\ d.transcript \in Transcripts
  BY <1>1 DEF Shaped, Awaiting
<1>3. inputs' = inputs /\ disturbed' = disturbed
  BY DEF Capture, Truncate, WriteCache
<1>4. PassOf(d.stage) \in Passes /\ (d.stage = "detect" => PassOf(d.stage) = 1)
  BY DEF PassOf, Passes
<1>5. key = <<d.transcript, PassOf(d.stage)>> /\ key \in Keyed
  BY <1>2, <1>4 DEF Key, Keyed
<1>6. Captures(d, key) /\ \A k : Captures(d, k) => k = key
  BY <1>1 DEF Captures
<1>7. key \notin disturbed => KeyFits(key, calls, cache[key])
  BY <1>5 DEF CacheInv, CapturedOnce
<1>8. key \notin disturbed => cache[key] \notin Outputs /\ (d.pc = "write" => cache[key] = Torn)
  BY <1>6, <1>7 DEF KeyFits
<1>9. inputs[d.deal] = d.transcript
  BY <1>1, <1>2 DEF Reads, Asks, Running
<1>10. CASE Capture(n)
  <2>1. PICK output \in Outputs : Become(n, [At(n, "truncate") EXCEPT !.got = output])
    BY <1>10 DEF Capture
  <2> DEFINE at == At(n, "truncate")
             c == [at EXCEPT !.got = output]
  <2>2. at = [f \in CallFields |-> at[f]] /\ at.pc = "truncate" /\ AsIs(at, d)
    BY <1>2, AtFields
  <2> HIDE DEF at
  <2>3. c.pc = "truncate" /\ AsIs(c, d)
    BY <2>2 DEF CallFields, AsIs, Same
  <2>4. Become(n, c)
    BY <2>1 DEF at
  <2> HIDE DEF c
  <2>5. Key(c) = key
    BY <2>3 DEF AsIs, Key
  <2> HIDE DEF d, key
  <2>6. Reads(c, inputs, cache, disturbed)
    BY <1>1, <1>2, <2>3, <2>5 DEF Reads, Asks, HasRead, AsIs, Same, Running
  <2>7. cache' = cache
    BY <1>10 DEF Capture
  <2>8. \A k \in Keyed : Captures(c, k) => Captures(calls[n], k) /\ c.pc # "write"
    BY <1>6, <2>3, <2>5 DEF Captures, d
  <2> QED
    BY <1>3, <2>4, <2>6, <2>7, <2>8, CacheIdles
<1>11. CASE Truncate(n) \/ WriteCache(n)
  <2>1. PICK content : cache' = [cache EXCEPT ![key] = content]
                       /\ (Truncate(n) => content = Torn)
                       /\ (WriteCache(n) => content \in {d.got} \cup (IF cache[key] = Torn THEN {} ELSE {Torn}))
    BY <1>1, <1>11 DEF Truncate, WriteCache
  <2>2. \A k \in Keyed : cache'[k] = IF k = key THEN content ELSE cache[k]
    BY <1>5, <2>1 DEF LoopInv, FilesInv, Keyed
  <2>3. CacheKeeps
    BY <1>3, <1>8, <2>2 DEF CacheKeeps
  <2>4. ASSUME NEW c, Become(n, c), Reads(c, inputs', cache', disturbed'),
               \/ c.pc = "write" /\ Key(c) = key /\ content = Torn
               \/ \A k : ~Captures(c, k)
        PROVE  CacheInv' /\ CacheKeeps
    <3>1. \A k \in Requests : Reads(calls'[k], inputs', cache', disturbed')
      BY <1>3, <2>3, <2>4, OthersRead
    <3>2. ASSUME NEW k \in Keyed, k \notin disturbed'
          PROVE  KeyFits(k, calls', cache'[k])
      <4>1. KeyFits(k, calls, cache[k])
        BY <1>3, <3>2 DEF CacheInv, CapturedOnce
      <4>2. CASE \A j : ~Captures(c, j)
        <5>1. cache'[k] = cache[k] \/ Captures(calls[n], k)
          BY <1>6, <2>2
        <5> QED
          BY <2>4, <4>1, <4>2, <5>1, KeyFitsMoves
      <4>3. CASE c.pc = "write" /\ Key(c) = key /\ content = Torn
        <5>1. CASE k = key
          <6>1. Captures(c, k) /\ Captures(calls[n], k) /\ cache'[k] = Torn
            BY <1>6, <2>2, <4>3, <5>1 DEF Captures
          <6> QED
            BY <2>4, <4>1, <6>1, KeyFitsMoves
        <5>2. CASE k # key
          <6>1. ~Captures(c, k) /\ cache'[k] = cache[k]
            BY <2>2, <4>3, <5>2 DEF Captures
          <6> QED
            BY <2>4, <4>1, <6>1, KeyFitsMoves
        <5> QED
          BY <5>1, <5>2
      <4> QED
        BY <2>4, <4>2, <4>3
    <3>3. CapturedOnce'
      BY <3>2 DEF CapturedOnce, Keyed
    <3> QED
      BY <2>3, <3>1, <3>3 DEF CacheInv
  <2>5. CASE Truncate(n)
    <3> DEFINE c == At(n, "write")
    <3>1. Become(n, c) /\ content = Torn
      BY <2>1, <2>5 DEF Truncate
    <3>2. c.pc = "write" /\ AsIs(c, d)
      BY <1>2, AtFields
    <3> HIDE DEF c
    <3>3. Key(c) = key
      BY <3>2 DEF AsIs, Key
    <3> HIDE DEF d, key
    <3>4. Reads(c, inputs, cache, disturbed)
      BY <1>1, <1>2, <3>2, <3>3 DEF Reads, Asks, HasRead, AsIs, Same, Running
    <3>5. c.stage = d.stage /\ c.pc # "record"
      BY <3>2 DEF AsIs
    <3>6. Reads(c, inputs', cache', disturbed')
      BY <1>2, <1>3, <2>3, <3>4, <3>5, ReadsStay
    <3> QED
      BY <2>4, <3>1, <3>2, <3>3, <3>6
  <2>6. CASE WriteCache(n)
    <3> DEFINE output == d.got
               c == Used(n, output)
    <3>1. Become(n, c) /\ d.pc = "write" /\ output \in Outputs
      BY <1>1, <2>6 DEF WriteCache, Shaped
    <3>2. GoesOn(c, d, output) /\ c.transcript = d.transcript
      BY <1>1, <1>2, <3>1, UsedIsGoingOn
    <3> HIDE DEF c
    <3>3. key \notin disturbed => cache'[key] = output
      BY <1>5, <1>8, <2>1, <2>2, <2>6, <3>1
    <3> HIDE DEF output
    <3>4. Key(c) = key
      BY <3>2 DEF GoesOn, Alike, Key
    <3>5. d.stage = "detect" => key = <<c.transcript, 1>>
      BY <1>4, <1>5, <3>2
    <3>6. /\ c.source = "cache" /\ c.op = d.op /\ c.stage = d.stage /\ c.deal = d.deal
      BY <1>1, <3>2 DEF GoesOn, Alike, Same
    <3>7. d.stage # "detect" => 
            /\ c.missed = d.missed
            /\ <<c.transcript, 1>> \notin disturbed => 
                  /\ cache'[<<c.transcript, 1>>] \in Outputs
                  /\ d.missed = Missed(cache'[<<c.transcript, 1>>])
      <4> HAVE d.stage # "detect"
      <4>1. <<d.transcript, 1>> \notin disturbed => 
                  /\ cache[<<d.transcript, 1>>] \in Outputs
                  /\ d.missed = Missed(cache[<<d.transcript, 1>>])
        BY <1>1, <1>2 DEF Reads, Asks, HasRead
      <4>2. <<d.transcript, 1>> \in Keyed
        BY <1>2 DEF Keyed, Passes
      <4>3. c.missed = d.missed
        BY <3>2, <3>6 DEF GoesOn
      <4> QED
        BY <1>3, <2>3, <3>2, <4>1, <4>2, <4>3 DEF CacheKeeps
    <3> HIDE DEF d, key
    <3>8. Reads(c, inputs', cache', disturbed')
      BY <1>1, <1>2, <1>3, <1>9, <3>1, <3>2, <3>3, <3>4, <3>5, <3>6, <3>7
         DEF GoesOn, Reads, Asks, HasRead, Running
    <3>9. \A k : ~Captures(c, k)
      BY <3>2 DEF GoesOn, Captures
    <3> QED
      BY <2>4, <3>1, <3>8, <3>9
  <2> QED
    BY <1>11, <2>5, <2>6
<1> QED
  BY <1>10, <1>11

(* A step of a call that is at no file of its own.                         *)
LEMMA OtherCaches ==
    ASSUME LoopInv, CacheInv, NEW n \in Requests,
           \/ CaptureFails(n) \/ RequestOutput(n) \/ Respond(n) \/ ReadBody(n) \/ RequestFails(n)
           \/ ReadErrorBody(n) \/ TimeOut(n)
           \/ OpenCase(n) \/ RecordAudit(n) \/ OpenGate(n) \/ RecordEval(n) \/ StoreFails(n)
    PROVE  CacheInv' /\ CacheKeeps
<1> DEFINE d == calls[n]
<1>1. /\ Shaped(n, d) /\ Reads(d, inputs, cache, disturbed)
      /\ d.pc \in {"lookup", "model", "truncate", "write", "body", "errorBody", "open", "audit", "gate", "record"}
      /\ inputs' = inputs /\ disturbed' = disturbed /\ cache' = cache
  BY DEF LoopInv, CallsInv, CacheInv, CaptureFails, RequestOutput, Respond, ReadBody, RequestFails,
         ReadErrorBody, TimeOut, OpenCase, RecordAudit, OpenGate, RecordEval, StoreFails
<1>2. /\ d = [f \in CallFields |-> d[f]] /\ d.stage \in {"detect", "grade1", "grade2"}
      /\ d.transcript \in Transcripts \cup {None}
  BY <1>1 DEF Shaped
<1>3. None \notin Transcripts
  BY LoopAssumption
<1>4. ASSUME NEW c, Become(n, c), Reads(c, inputs, cache, disturbed),
             \/ c.pc \notin {"model", "truncate", "write"}
             \/ c.transcript = None
      PROVE  CacheInv' /\ CacheKeeps
  <2>1. \A key \in Keyed : ~Captures(c, key)
    <3> SUFFICES ASSUME c.transcript = None, NEW key \in Keyed, Captures(c, key)
                 PROVE  FALSE
      BY <1>4 DEF Captures
    <3>1. key = <<None, PassOf(c.stage)>>
      BY DEF Captures, Key
    <3> QED
      BY <1>3, <3>1 DEF Keyed
  <2> QED
    BY <1>1, <1>4, <2>1, CacheIdles
<1>5. /\ \A pc : At(n, pc) = [f \in CallFields |-> At(n, pc)[f]]
      /\ \A pc : At(n, pc).pc = pc /\ At(n, pc).got = d.got /\ AsIs(At(n, pc), d)
      /\ Returned(n).pc = "returned" /\ AsIs(Returned(n), d)
      /\ Failed(n).pc = "failed" /\ AsIs(Failed(n), d)
  BY <1>2, AtFields, EndFields
<1>6. ASSUME Become(n, Failed(n))
      PROVE  CacheInv' /\ CacheKeeps
  <2> DEFINE c == Failed(n)
  <2>1. c.pc = "failed" /\ AsIs(c, d)
    BY <1>5
  <2>2. Become(n, c)
    BY <1>6
  <2> HIDE DEF c, d
  <2>3. Reads(c, inputs, cache, disturbed)
    BY <1>1, <1>2, <2>1 DEF Reads, Asks, HasRead, AsIs, Same, Running
  <2> QED
    BY <1>4, <2>1, <2>2, <2>3
<1>7. CASE CaptureFails(n) \/ RequestFails(n) \/ ReadErrorBody(n) \/ TimeOut(n) \/ StoreFails(n)
  BY <1>6, <1>7 DEF CaptureFails, RequestFails, ReadErrorBody, TimeOut, StoreFails
<1>8. CASE RequestOutput(n) \/ Respond(n)
  <2>1. PICK pc \in {"model", "body", "errorBody"} : Become(n, At(n, pc))
    BY <1>8 DEF RequestOutput, Respond
  <2>2. d.pc \in {"lookup", "model"} /\ d.source = "rest"
    BY <1>8 DEF RequestOutput, Respond
  <2> DEFINE c == At(n, pc)
  <2>3. Become(n, c) /\ c.pc = pc /\ AsIs(c, d)
    BY <1>5, <2>1
  <2> HIDE DEF c, d
  <2>4. Reads(c, inputs, cache, disturbed) /\ c.transcript = None
    BY <1>1, <2>2, <2>3 DEF Reads, Asks, AsIs, Same
  <2> QED
    BY <1>4, <2>3, <2>4
<1>9. CASE ReadBody(n)
  <2>1. PICK output \in Outputs : Become(n, Used(n, output))
    BY <1>9 DEF ReadBody
  <2>2. d.pc = "body" /\ d.op \in {"loop", "detect"}
    BY <1>1, <1>9 DEF ReadBody, Shaped, Awaiting
  <2> DEFINE c == Used(n, output)
  <2>3. GoesOn(c, d, output) /\ c.transcript = d.transcript
    BY <1>1, <2>2, UsedIsGoingOn
  <2>4. Become(n, c)
    BY <2>1
  <2> HIDE DEF c, d
  <2>5. d.source = "rest"
    BY <1>1, <2>2 DEF Reads
  <2>6. Reads(c, inputs, cache, disturbed)
    BY <1>1, <2>3, <2>5 DEF Reads, Asks, GoesOn, Alike, Same
  <2>7. c.pc \notin {"model", "truncate", "write"}
    BY <2>3 DEF GoesOn
  <2> QED
    BY <1>4, <2>4, <2>6, <2>7
<1>10. CASE OpenCase(n) \/ RecordAudit(n)
  <2>1. \/ d.pc \in {"open", "audit"} /\ d.op = "detect" /\ Become(n, Returned(n))
        \/ d.pc \in {"open", "audit"} /\ d.op = "approve" /\ Become(n, Returned(n))
        \/ \E pc \in {"audit", "gate"} : d.pc \in {"open", "audit"} /\ Become(n, At(n, pc))
    BY <1>10 DEF OpenCase, RecordAudit
  <2>2. ASSUME NEW c, Become(n, c), AsIs(c, d), c.pc \in {"audit", "gate", "returned"},
               d.pc \in {"open", "audit"}, c.pc = "returned" => c.op # "loop"
        PROVE  CacheInv' /\ CacheKeeps
    <3> HIDE DEF d
    <3>1. Reads(c, inputs, cache, disturbed)
      BY <1>1, <1>2, <2>2 DEF Reads, Asks, HasRead, AsIs, Same, Running
    <3> QED
      BY <1>4, <2>2, <3>1
  <2>3. CASE d.pc \in {"open", "audit"} /\ d.op \in {"detect", "approve"} /\ Become(n, Returned(n))
    <3>1. Returned(n).op # "loop"
      BY <1>5, <2>3 DEF AsIs, Same
    <3> QED
      BY <1>5, <2>2, <2>3, <3>1
  <2>4. ASSUME NEW pc \in {"audit", "gate"}, d.pc \in {"open", "audit"}, Become(n, At(n, pc))
        PROVE  CacheInv' /\ CacheKeeps
    <3>1. At(n, pc).pc = pc /\ AsIs(At(n, pc), d)
      BY <1>5
    <3> QED
      BY <2>2, <2>4, <3>1
  <2> QED
    BY <2>1, <2>3, <2>4
<1>11. CASE OpenGate(n)
  <2>1. d.pc = "gate"
    BY <1>11 DEF OpenGate
  <2>2. CASE d.op = "approve"
    <3> DEFINE c == At(n, "audit")
    <3>1. Become(n, c) /\ c.pc = "audit" /\ AsIs(c, d)
      BY <1>5, <1>11, <2>2 DEF OpenGate
    <3> HIDE DEF c, d
    <3>2. Reads(c, inputs, cache, disturbed)
      BY <1>1, <2>1, <2>2, <3>1 DEF Reads, Asks, HasRead, AsIs, Same
    <3> QED
      BY <1>4, <3>1, <3>2
  <2>3. CASE d.op # "approve"
    <3> DEFINE there == At(n, "lookup")
               c == [there EXCEPT !.stage = "grade1"]
    <3>1. Become(n, c)
      BY <1>11, <2>3 DEF OpenGate
    <3>2. there = [f \in CallFields |-> there[f]] /\ there.pc = "lookup" /\ AsIs(there, d)
      BY <1>5
    <3> HIDE DEF there
    <3>3. /\ c.pc = "lookup" /\ c.stage = "grade1" /\ Same(c, d) /\ c.source = d.source
          /\ c.deal = d.deal /\ c.missed = d.missed /\ c.transcript = d.transcript
      BY <3>2 DEF CallFields, AsIs, Same
    <3> HIDE DEF c, d
    <3>4. Reads(c, inputs, cache, disturbed)
      BY <1>1, <1>2, <2>1, <3>3 DEF Reads, Asks, HasRead, Same, Running
    <3> QED
      BY <1>4, <3>1, <3>3, <3>4
  <2> QED
    BY <2>2, <2>3
<1>12. CASE RecordEval(n)
  <2>1. d.pc = "record" /\ d.op = "loop" /\ d.stage \in {"grade1", "grade2"}
    BY <1>1, <1>2, <1>12 DEF RecordEval, Shaped
  <2>2. CASE d.stage = "grade2"
    <3> DEFINE c == Returned(n)
    <3>1. Become(n, c) /\ c.pc = "returned" /\ AsIs(c, d)
      BY <1>5, <1>12, <2>2 DEF RecordEval
    <3>2. Key(d) = <<d.transcript, 2>>
      BY <2>2 DEF Key, PassOf
    <3> HIDE DEF c, d
    <3>3. Reads(c, inputs, cache, disturbed)
      BY <1>1, <2>1, <2>2, <3>1, <3>2 DEF Reads, Asks, HasRead, AsIs, Same, Running
    <3> QED
      BY <1>4, <3>1, <3>3
  <2>3. CASE d.stage = "grade1"
    <3> DEFINE there == At(n, "lookup")
               c == [there EXCEPT !.stage = "grade2", !.got = None]
    <3>1. Become(n, c)
      BY <1>12, <2>3 DEF RecordEval
    <3>2. there = [f \in CallFields |-> there[f]] /\ there.pc = "lookup" /\ AsIs(there, d)
      BY <1>5
    <3> HIDE DEF there
    <3>3. /\ c.pc = "lookup" /\ c.stage = "grade2" /\ Same(c, d) /\ c.source = d.source
          /\ c.deal = d.deal /\ c.missed = d.missed /\ c.transcript = d.transcript
      BY <3>2 DEF CallFields, AsIs, Same
    <3> HIDE DEF c, d
    <3>4. Reads(c, inputs, cache, disturbed)
      BY <1>1, <1>2, <2>1, <3>3 DEF Reads, Asks, HasRead, Same, Running
    <3> QED
      BY <1>4, <3>1, <3>3, <3>4
  <2> QED
    BY <2>1, <2>2, <2>3
<1> QED
  BY <1>7, <1>8, <1>9, <1>10, <1>11, <1>12

LEMMA StartCaches ==
    ASSUME LoopInv, CacheInv, NEW n \in Requests,
           StartLoop(n) \/ StartApprove(n) \/ Evaluate(n)
    PROVE  CacheInv' /\ CacheKeeps
<1>1. PICK c :
        /\ Start(n, c) /\ c.stage = "detect" /\ c.missed = None /\ c.transcript = None
        /\ \/ c.op \in {"loop", "detect"} /\ c.pc = "lookup"
           \/ c.op = "approve" /\ c.pc \in {"gate", "failed"}
           \/ c.op = "evaluate" /\ c.pc = "returned"
  BY StartIs
<1>2. Become(n, c) /\ cache' = cache /\ disturbed' = disturbed /\ inputs' = inputs
  BY <1>1 DEF Start
<1>3. Reads(c, inputs, cache, disturbed)
  BY <1>1 DEF Reads, Asks, HasRead
<1>4. \A key : ~Captures(c, key)
  BY <1>1 DEF Captures
<1> QED
  BY <1>2, <1>3, <1>4, CacheIdles

(* A call that was lost, or is not there yet, has read nothing.            *)
LEMMA AbsentReads ==
    ASSUME NEW c, c.pc \in {"idle", "lost"}, c.op = "none", c.stage = "detect", c.transcript = None,
           NEW bound, NEW files, NEW torn
    PROVE  Reads(c, bound, files, torn) /\ \A key : ~Captures(c, key)
BY DEF Reads, Asks, HasRead, Captures

LEMMA CrashCaches ==
    ASSUME LoopInv, CacheInv, Crash
    PROVE  CacheInv' /\ CacheKeeps
<1>1. cache' = cache /\ disturbed' = disturbed
  BY DEF Crash
<1>2. calls' = [n \in Requests |-> IF calls[n].pc = "idle" THEN NoCall ELSE [NoCall EXCEPT !.pc = "lost"]]
  BY DEF Crash
<1>3. \A n \in Requests :
         /\ calls'[n].pc \in {"idle", "lost"} /\ calls'[n].op = "none"
         /\ calls'[n].stage = "detect" /\ calls'[n].transcript = None
  BY <1>2 DEF NoCall
<1>4. \A n \in Requests :
         /\ Reads(calls'[n], inputs', cache', disturbed')
         /\ \A key : ~Captures(calls'[n], key)
  BY <1>3, AbsentReads
<1>5. CapturedOnce'
  BY <1>4 DEF CapturedOnce, KeyFits
<1> QED
  BY <1>1, <1>4, <1>5 DEF CacheInv, CacheKeeps

LEMMA RegisterCaches ==
    ASSUME LoopInv, CacheInv, NEW deal \in Deals, NEW transcript, Register(deal, transcript)
    PROVE  CacheInv' /\ CacheKeeps
<1>1. cache' = cache /\ disturbed' = disturbed /\ calls' = calls
  BY DEF Register
<1>2. \A e \in Deals : e # deal => inputs'[e] = inputs[e]
  BY DEF Register, LoopInv, FilesInv
<1>3. CacheKeeps
  BY <1>1 DEF CacheKeeps
<1>4. ASSUME NEW n \in Requests
      PROVE  Reads(calls'[n], inputs', cache', disturbed')
  <2> DEFINE c == calls[n]
  <2>1. Reads(c, inputs, cache, disturbed) /\ Shaped(n, c)
    BY DEF LoopInv, CallsInv, CacheInv
  <2>2. c.pc \in Running => c.deal # deal
    BY DEF Register
  <2> HIDE DEF c
  <2>3. Asks(c) => c.deal \in Deals
    BY <2>1 DEF Shaped, Asks
  <2>4. Asks(c) /\ c.pc \in Running => inputs'[c.deal] = inputs[c.deal]
    BY <1>2, <2>2, <2>3
  <2>5. Reads(c, inputs', cache, disturbed)
    BY <2>1, <2>4 DEF Reads
  <2> QED
    BY <1>1, <2>5 DEF c
<1>5. CapturedOnce'
  BY <1>1 DEF CacheInv, CapturedOnce
<1> QED
  BY <1>3, <1>4, <1>5 DEF CacheInv

LEMMA StayingCaches ==
    ASSUME CacheInv, UNCHANGED <<inputs, cache, disturbed, calls>>
    PROVE  CacheInv' /\ CacheKeeps
BY DEF CacheInv, CapturedOnce, CacheKeeps

LEMMA CachesInitially ==
    ASSUME Init
    PROVE  CacheInv
<1>1. \A n \in Requests : calls[n] = NoCall
  BY DEF Init
<1>2. NoCall.pc = "idle" /\ NoCall.op = "none" /\ NoCall.stage = "detect" /\ NoCall.transcript = None
  BY DEF NoCall
<1>3. Reads(NoCall, inputs, cache, disturbed) /\ \A key : ~Captures(NoCall, key)
  BY <1>2, AbsentReads
<1>4. CapturedOnce
  BY <1>1, <1>3 DEF CapturedOnce, KeyFits
<1> QED
  BY <1>1, <1>3, <1>4 DEF CacheInv

LEMMA CachesPreserved ==
    ASSUME LoopInv, CacheInv, [Next]_vars
    PROVE  CacheInv' /\ CacheKeeps
<1>1. ASSUME NEW n \in Requests, Progress(n) \/ Model(n) \/ Faults(n)
      PROVE  CacheInv' /\ CacheKeeps
  BY <1>1, LookUpCaches, CaptureCaches, OtherCaches DEF Progress, Model, Faults
<1>2. ASSUME NEW n \in Requests, StartLoop(n) \/ StartApprove(n) \/ Evaluate(n)
      PROVE  CacheInv' /\ CacheKeeps
  BY <1>2, StartCaches
<1>3. CASE \E deal \in Deals, transcript \in Transcripts : Register(deal, transcript)
  BY <1>3, RegisterCaches
<1>4. CASE Correct
  BY <1>4, StayingCaches DEF Correct
<1>5. CASE UNCHANGED vars
  BY <1>5, StayingCaches DEF vars
<1> QED
  BY <1>1, <1>2, <1>3, <1>4, <1>5, CrashCaches DEF Next

-----------------------------------------------------------------------------
(***************************************************************************)
(* What the calls left in the stores.                                      *)
(***************************************************************************)
(* A case is the one its call would open again.                            *)
OpenedBy(case, c) ==
    /\ [case EXCEPT !.status = "open"] = CaseOf(case.by, c.deal, c.missed)
    /\ c.op \in {"loop", "detect"}
    /\ c.stage # "detect" \/ c.pc \in {"audit", "gate", "returned", "failed"}

KeptBy(n, c, cs, as, gs) ==
    /\ c.op = "loop" => c.action = GatedCustomerAction
    /\ c.op = "loop" /\ (c.stage # "detect" \/ c.pc \in {"open", "audit", "gate"}) =>
          c.missed \in Requirements
    /\ c.op = "loop" /\ (c.stage # "detect" \/ c.pc \in {"audit", "gate"}) => \E case \in cs : case.by = n
    /\ c.op = "detect" /\ c.pc = "returned" /\ c.missed # None => \E case \in cs : case.by = n
    /\ c.op = "loop" /\ (c.stage # "detect" \/ c.pc = "gate") => AuditOf(n, n, "on-track") \in as
    /\ c.op = "loop" /\ c.stage # "detect" => GateOf(n, n, GatedCustomerAction) \in gs
    /\ c.op = "approve" => c.of \in Requests /\ c.deal \in Deals /\ c.transcript = None
    /\ c.op = "approve" /\ c.pc = "returned" => AuditOf(n, c.of, "on-track") \in as

KeptInv ==
    /\ \A n \in Requests : KeptBy(n, calls[n], cases, audits, gates)
    /\ \A case \in cases : OpenedBy(case, calls[case.by])

LEMMA KeptMoves ==
    ASSUME LoopInv, KeptInv, NEW n \in Requests, NEW c, Become(n, c),
           cases \subseteq cases', audits \subseteq audits', gates \subseteq gates',
           \A case \in cases' : case \in cases \/ case.by = n,
           \A case \in cases' : case.by = n => OpenedBy(case, c),
           KeptBy(n, c, cases', audits', gates')
    PROVE  KeptInv'
<1>1. \A k \in Requests : calls'[k] = IF k = n THEN c ELSE calls[k]
  BY DEF Become, LoopInv, CallsInv
<1>2. ASSUME NEW k \in Requests
      PROVE  KeptBy(k, calls'[k], cases', audits', gates')
  <2>1. CASE k = n
    BY <1>1, <2>1
  <2>2. CASE k # n
    <3> DEFINE d == calls[k]
    <3>1. KeptBy(k, d, cases, audits, gates)
      BY DEF KeptInv
    <3>2. calls'[k] = d
      BY <1>1, <2>2
    <3> HIDE DEF d
    <3>3. KeptBy(k, d, cases', audits', gates')
      BY <3>1 DEF KeptBy
    <3> QED
      BY <3>2, <3>3
  <2> QED
    BY <2>1, <2>2
<1>3. ASSUME NEW case \in cases'
      PROVE  OpenedBy(case, calls'[case.by])
  <2>1. CASE case.by = n
    BY <1>1, <2>1
  <2>2. CASE case.by # n
    <3>1. case \in cases /\ case.by \in Requests
      BY <2>2 DEF LoopInv, StoresInv, IsCase
    <3>2. calls'[case.by] = calls[case.by]
      BY <1>1, <2>2, <3>1
    <3> QED
      BY <3>1, <3>2 DEF KeptInv
  <2> QED
    BY <2>1, <2>2
<1> QED
  BY <1>2, <1>3 DEF KeptInv

(* A call that fails, or that asks for an output and goes on with it.      *)
LEMMA KeptQuietly ==
    ASSUME LoopInv, KeptInv, NEW n \in Requests, NEW c, Become(n, c),
           UNCHANGED <<cases, audits, gates>>,
           Alike(c, calls[n]), c.op = "approve" => c.transcript = calls[n].transcript,
           \/ c.pc = "failed" /\ c.missed = calls[n].missed
           \/ /\ c.stage # "detect" /\ c.missed = calls[n].missed
              /\ c.pc \in {"record", "model", "truncate", "write", "body", "errorBody"}
           \/ /\ c.stage = "detect" /\ calls[n].pc \in {"lookup", "model", "truncate", "write", "body"}
              /\ \/ c.pc \in {"model", "truncate", "write", "body", "errorBody"} /\ c.op # "approve"
                 \/ c.pc = "open" /\ c.missed \in Requirements /\ c.op # "approve"
                 \/ c.pc = "returned" /\ c.op = "detect" /\ c.missed = None
    PROVE  KeptInv'
<1> DEFINE d == calls[n]
<1>1. /\ KeptBy(n, d, cases, audits, gates) /\ Shaped(n, d)
      /\ \A case \in cases : case.by = n => OpenedBy(case, d)
  BY DEF KeptInv, LoopInv, CallsInv
<1>2. Alike(c, d) /\ (c.op = "approve" => c.transcript = d.transcript)
  OBVIOUS
<1>3. \/ c.pc = "failed" /\ c.missed = d.missed
      \/ /\ c.stage # "detect" /\ c.missed = d.missed
         /\ c.pc \in {"record", "model", "truncate", "write", "body", "errorBody"}
      \/ /\ c.stage = "detect" /\ d.pc \in {"lookup", "model", "truncate", "write", "body"}
         /\ \/ c.pc \in {"model", "truncate", "write", "body", "errorBody"} /\ c.op # "approve"
            \/ c.pc = "open" /\ c.missed \in Requirements /\ c.op # "approve"
            \/ c.pc = "returned" /\ c.op = "detect" /\ c.missed = None
  OBVIOUS
<1> HIDE DEF d
<1>4. \A case \in cases : case.by = n => OpenedBy(case, c)
  BY <1>1, <1>2, <1>3 DEF OpenedBy, Alike, Same
<1>5. KeptBy(n, c, cases, audits, gates)
  BY <1>1, <1>2, <1>3 DEF KeptBy, Alike, Same
<1> QED
  BY <1>4, <1>5, KeptMoves

LEMMA GoingOnIsKept ==
    ASSUME LoopInv, KeptInv, CacheInv, NEW n \in Requests, NEW c, Become(n, c),
           UNCHANGED <<cases, audits, gates>>,
           calls[n].pc \in {"lookup", "write", "body"}, calls[n].op \in {"loop", "detect"},
           NEW output \in Outputs, GoesOn(c, calls[n], output)
    PROVE  KeptInv'
<1>1. Missed(output) # None => Missed(output) \in Requirements
  BY MissedIsARequirement
<1>2. Alike(c, calls[n]) /\ c.op # "approve" /\ c.stage = calls[n].stage
  BY DEF GoesOn, Alike, Same
<1>3. calls[n].stage = "detect" => calls[n].missed = None
  BY DEF CacheInv, Reads
<1>4. \/ c.stage # "detect" /\ c.pc = "record" /\ c.missed = calls[n].missed
      \/ c.stage = "detect" /\ c.pc = "open" /\ c.missed \in Requirements
      \/ c.stage = "detect" /\ c.pc = "returned" /\ c.op = "detect" /\ c.missed = None
      \/ c.pc = "failed" /\ c.missed = calls[n].missed
  BY <1>1, <1>2, <1>3 DEF GoesOn
<1> QED
  BY <1>2, <1>4, KeptQuietly

LEMMA SourcesKeep ==
    ASSUME LoopInv, KeptInv, CacheInv, NEW n \in Requests,
           \/ LookUp(n) \/ Capture(n) \/ Truncate(n) \/ WriteCache(n) \/ CaptureFails(n)
           \/ RequestOutput(n) \/ Respond(n) \/ ReadBody(n) \/ RequestFails(n)
           \/ ReadErrorBody(n) \/ TimeOut(n) \/ StoreFails(n)
    PROVE  KeptInv'
<1> DEFINE d == calls[n]
<1>1. /\ Shaped(n, d) /\ UNCHANGED <<cases, audits, gates>>
  BY DEF LoopInv, CallsInv, LookUp, Capture, Truncate, WriteCache, CaptureFails, RequestOutput, Respond,
         ReadBody, RequestFails, ReadErrorBody, TimeOut, StoreFails, stores
<1>2. d = [f \in CallFields |-> d[f]] /\ d.stage \in {"detect", "grade1", "grade2"}
  BY <1>1 DEF Shaped
<1>3. /\ \A pc : At(n, pc) = [f \in CallFields |-> At(n, pc)[f]]
      /\ \A pc : At(n, pc).pc = pc /\ AsIs(At(n, pc), d)
      /\ Failed(n).pc = "failed" /\ AsIs(Failed(n), d)
  BY <1>2, AtFields, EndFields
<1>4. \A c : AsIs(c, d) => Alike(c, d) /\ c.transcript = d.transcript /\ c.missed = d.missed
  BY DEF AsIs, Alike, Same
<1>5. CASE Become(n, Failed(n))
  BY <1>1, <1>3, <1>4, <1>5, KeptQuietly
<1>6. ASSUME NEW c, NEW pc \in {"model", "truncate", "write", "body", "errorBody"}, Become(n, c),
             AsIs(c, d), c.pc = pc, d.pc \in {"lookup", "model", "truncate"}, d.op # "approve"
      PROVE  KeptInv'
  <2>1. /\ Alike(c, d) /\ c.op # "approve" /\ c.missed = d.missed /\ c.stage = d.stage
    BY <1>6 DEF AsIs, Alike, Same
  <2> QED
    BY <1>1, <1>6, <2>1, KeptQuietly
<1>7. d.pc \in {"lookup", "model", "truncate", "write", "body"} => d.op \in {"loop", "detect"}
  BY <1>1 DEF Shaped, Awaiting
<1>8. CASE LookUp(n)
  <2>1. d.pc = "lookup"
    BY <1>8 DEF LookUp
  <2>2. PICK c :
          /\ Become(n, c)
          /\ \/ c.pc = "failed" /\ AsIs(c, d)
             \/ \E t \in Transcripts :
                   /\ Bound(c, d, t)
                   /\ \/ \E output \in Outputs : GoesOn(c, d, output)
                      \/ c.missed = d.missed /\ c.pc \in {"failed", "model"}
    BY <1>8, LookUpIs
  <2>3. CASE c.pc = "failed" /\ AsIs(c, d)
    BY <1>1, <1>4, <2>2, <2>3, KeptQuietly
  <2>4. CASE \E output \in Outputs : GoesOn(c, d, output)
    BY <1>1, <1>7, <2>1, <2>2, <2>4, GoingOnIsKept
  <2>5. CASE /\ Alike(c, d) /\ c.missed = d.missed /\ c.pc \in {"failed", "model"}
    <3>1. c.op # "approve"
      BY <1>7, <2>1, <2>5 DEF Alike, Same
    <3> QED
      BY <1>1, <2>1, <2>2, <2>5, <3>1, KeptQuietly
  <2> QED
    BY <2>2, <2>3, <2>4, <2>5 DEF Bound
<1>9. CASE Capture(n)
  <2>1. PICK output \in Outputs : Become(n, [At(n, "truncate") EXCEPT !.got = output])
    BY <1>9 DEF Capture
  <2> DEFINE at == At(n, "truncate")
             c == [at EXCEPT !.got = output]
  <2>2. at = [f \in CallFields |-> at[f]] /\ at.pc = "truncate" /\ AsIs(at, d)
    BY <1>3
  <2>3. d.pc = "model" /\ d.op # "approve" /\ Become(n, c)
    BY <1>7, <1>9, <2>1 DEF Capture
  <2> HIDE DEF at
  <2>4. c.pc = "truncate" /\ AsIs(c, d)
    BY <2>2 DEF CallFields, AsIs, Same
  <2> HIDE DEF c
  <2> QED
    BY <1>6, <2>3, <2>4
<1>10. CASE Truncate(n) \/ RequestOutput(n) \/ Respond(n)
  <2>1. PICK pc \in {"model", "write", "body", "errorBody"} :
           Become(n, At(n, pc)) /\ d.pc \in {"lookup", "model", "truncate"}
    BY <1>10 DEF Truncate, RequestOutput, Respond
  <2>2. d.op # "approve" /\ At(n, pc).pc = pc /\ AsIs(At(n, pc), d)
    BY <1>3, <1>7, <2>1
  <2> QED
    BY <1>6, <2>1, <2>2
<1>11. CASE WriteCache(n)
  <2>1. d.pc = "write" /\ d.got \in Outputs /\ Become(n, Used(n, d.got)) /\ d.op \in {"loop", "detect"}
    BY <1>1, <1>7, <1>11 DEF WriteCache, Shaped
  <2>2. GoesOn(Used(n, d.got), d, d.got)
    BY <1>1, <2>1, UsedIsGoingOn
  <2> QED
    BY <1>1, <2>1, <2>2, GoingOnIsKept
<1>12. CASE ReadBody(n)
  <2>1. PICK output \in Outputs : Become(n, Used(n, output))
    BY <1>12 DEF ReadBody
  <2>2. d.pc = "body" /\ d.op \in {"loop", "detect"}
    BY <1>7, <1>12 DEF ReadBody
  <2>3. GoesOn(Used(n, output), d, output)
    BY <1>1, <2>2, UsedIsGoingOn
  <2> QED
    BY <1>1, <2>1, <2>2, <2>3, GoingOnIsKept
<1>13. CASE CaptureFails(n) \/ RequestFails(n) \/ ReadErrorBody(n) \/ TimeOut(n) \/ StoreFails(n)
  BY <1>5, <1>13 DEF CaptureFails, RequestFails, ReadErrorBody, TimeOut, StoreFails
<1> QED
  BY <1>8, <1>9, <1>10, <1>11, <1>12, <1>13

LEMMA OpenCaseIsKept ==
    ASSUME LoopInv, KeptInv, NEW n \in Requests, OpenCase(n)
    PROVE  KeptInv'
<1> DEFINE d == calls[n]
           opened == CaseOf(n, d.deal, d.missed)
           c == IF d.op = "detect" THEN Returned(n) ELSE At(n, "audit")
<1>1. /\ Shaped(n, d) /\ d.pc = "open" /\ d.op \in {"loop", "detect"} /\ d.stage = "detect"
      /\ KeptBy(n, d, cases, audits, gates)
      /\ \A case \in cases : case.by = n => OpenedBy(case, d)
  BY DEF LoopInv, CallsInv, Shaped, Awaiting, OpenCase, KeptInv
<1>2. d = [f \in CallFields |-> d[f]] /\ d.missed \in Requirements
  BY <1>1 DEF Shaped
<1>3. AsIs(c, d) /\ c.pc = IF d.op = "detect" THEN "returned" ELSE "audit"
  BY <1>2, AtFields, EndFields
<1>4. Become(n, c) /\ cases' = cases \cup {opened} /\ audits' = audits /\ gates' = gates
  BY DEF OpenCase
<1>5. /\ opened.by = n
      /\ [opened EXCEPT !.status = "open"] = CaseOf(n, d.deal, d.missed)
  BY DEF CaseOf
<1> HIDE DEF c, opened, d
<1>6. c.op = d.op /\ c.deal = d.deal /\ c.missed = d.missed /\ c.stage = "detect" /\ c.action = d.action
  BY <1>1, <1>3 DEF AsIs, Same
<1>7. \A case \in cases' : case.by = n => OpenedBy(case, c)
  <2>1. OpenedBy(opened, c)
    BY <1>1, <1>3, <1>5, <1>6 DEF OpenedBy
  <2>2. \A case \in cases : case.by = n => OpenedBy(case, c)
    BY <1>1, <1>3, <1>6 DEF OpenedBy
  <2> QED
    BY <1>4, <2>1, <2>2
<1>8. \E case \in cases' : case.by = n
  BY <1>4, <1>5
<1>9. KeptBy(n, c, cases', audits', gates')
  BY <1>1, <1>2, <1>3, <1>6, <1>8 DEF KeptBy
<1> QED
  BY <1>4, <1>5, <1>7, <1>9, KeptMoves

LEMMA RecordAuditIsKept ==
    ASSUME LoopInv, KeptInv, NEW n \in Requests, RecordAudit(n)
    PROVE  KeptInv'
<1> DEFINE d == calls[n]
           enforced == AuditOf(n, d.of, "on-track")
           c == IF d.op = "approve" THEN Returned(n) ELSE At(n, "gate")
<1>1. /\ Shaped(n, d) /\ d.pc = "audit" /\ d.op \in {"loop", "approve"} /\ d.stage = "detect"
      /\ KeptBy(n, d, cases, audits, gates)
      /\ \A case \in cases : case.by = n => OpenedBy(case, d)
  BY DEF LoopInv, CallsInv, Shaped, RecordAudit, KeptInv
<1>2. d = [f \in CallFields |-> d[f]] /\ (d.op = "loop" => d.of = n)
  BY <1>1 DEF Shaped
<1>3. AsIs(c, d) /\ c.pc = IF d.op = "approve" THEN "returned" ELSE "gate"
  BY <1>2, AtFields, EndFields
<1>4. Become(n, c) /\ cases' = cases /\ audits' = audits \cup {enforced} /\ gates' = gates
  BY DEF RecordAudit
<1>5. enforced = AuditOf(n, d.of, "on-track")
  OBVIOUS
<1> HIDE DEF c, enforced, d
<1>6. /\ c.op = d.op /\ c.of = d.of /\ c.deal = d.deal /\ c.missed = d.missed
      /\ c.stage = "detect" /\ c.action = d.action /\ c.transcript = d.transcript
  BY <1>1, <1>3 DEF AsIs, Same
<1>7. \A case \in cases' : case.by = n => OpenedBy(case, c)
  BY <1>1, <1>3, <1>4, <1>6 DEF OpenedBy
<1>8. AuditOf(n, c.of, "on-track") \in audits'
  BY <1>4, <1>5, <1>6
<1>9. KeptBy(n, c, cases', audits', gates')
  BY <1>1, <1>2, <1>3, <1>4, <1>6, <1>8 DEF KeptBy
<1> QED
  BY <1>4, <1>7, <1>9, KeptMoves

LEMMA OpenGateIsKept ==
    ASSUME LoopInv, KeptInv, NEW n \in Requests, OpenGate(n)
    PROVE  KeptInv'
<1> DEFINE d == calls[n]
           gate == GateOf(n, d.of, d.action)
           there == At(n, "lookup")
           graded == [there EXCEPT !.stage = "grade1"]
           c == IF d.op = "approve" THEN At(n, "audit") ELSE graded
<1>1. /\ Shaped(n, d) /\ d.pc = "gate" /\ d.op \in {"loop", "approve"} /\ d.stage = "detect"
      /\ KeptBy(n, d, cases, audits, gates)
      /\ \A case \in cases : case.by = n => OpenedBy(case, d)
  BY DEF LoopInv, CallsInv, Shaped, OpenGate, KeptInv
<1>2. d = [f \in CallFields |-> d[f]] /\ (d.op = "loop" => d.of = n)
  BY <1>1 DEF Shaped
<1>3. there = [f \in CallFields |-> there[f]] /\ there.pc = "lookup" /\ AsIs(there, d)
  BY <1>2, AtFields
<1>4. Become(n, c) /\ cases' = cases /\ audits' = audits /\ gates' = gates \cup {gate}
  BY DEF OpenGate
<1>5. At(n, "audit").pc = "audit" /\ AsIs(At(n, "audit"), d)
  BY <1>2, AtFields
<1>6. /\ c.op = d.op /\ c.of = d.of /\ c.deal = d.deal /\ c.missed = d.missed
      /\ c.action = d.action /\ c.transcript = d.transcript
      /\ IF d.op = "approve" THEN c.pc = "audit" /\ c.stage = "detect"
         ELSE c.pc = "lookup" /\ c.stage = "grade1"
  <2>1. CASE d.op = "approve"
    <3>1. c = At(n, "audit")
      BY <2>1
    <3> QED
      BY <1>1, <1>5, <2>1, <3>1 DEF AsIs, Same
  <2>2. CASE d.op # "approve"
    <3>1. c = graded
      BY <2>2
    <3> HIDE DEF there
    <3>2. /\ graded.pc = "lookup" /\ graded.stage = "grade1" /\ Same(graded, d)
          /\ graded.deal = d.deal /\ graded.missed = d.missed /\ graded.transcript = d.transcript
      BY <1>3 DEF CallFields, AsIs, Same
    <3> QED
      BY <2>2, <3>1, <3>2 DEF Same
  <2> QED
    BY <2>1, <2>2
<1>7. gate = GateOf(n, d.of, d.action)
  OBVIOUS
<1> HIDE DEF c, gate, there, d
<1>8. \A case \in cases' : case.by = n => OpenedBy(case, c)
  BY <1>1, <1>4, <1>6 DEF OpenedBy
<1>9. d.op = "loop" => GateOf(n, n, GatedCustomerAction) \in gates'
  BY <1>1, <1>2, <1>4, <1>7 DEF KeptBy
<1>10. KeptBy(n, c, cases', audits', gates')
  BY <1>1, <1>2, <1>4, <1>6, <1>9 DEF KeptBy
<1> QED
  BY <1>4, <1>8, <1>10, KeptMoves

LEMMA RecordEvalIsKept ==
    ASSUME LoopInv, KeptInv, NEW n \in Requests, RecordEval(n)
    PROVE  KeptInv'
<1> DEFINE d == calls[n]
           there == At(n, "lookup")
           graded == [there EXCEPT !.stage = "grade2", !.got = None]
           c == IF d.stage = "grade2" THEN Returned(n) ELSE graded
<1>1. /\ Shaped(n, d) /\ d.pc = "record" /\ d.op = "loop" /\ d.stage # "detect"
      /\ KeptBy(n, d, cases, audits, gates)
      /\ \A case \in cases : case.by = n => OpenedBy(case, d)
  BY DEF LoopInv, CallsInv, Shaped, RecordEval, KeptInv
<1>2. d = [f \in CallFields |-> d[f]]
  BY <1>1 DEF Shaped
<1>3. /\ there = [f \in CallFields |-> there[f]] /\ there.pc = "lookup" /\ AsIs(there, d)
      /\ Returned(n).pc = "returned" /\ AsIs(Returned(n), d)
  BY <1>2, AtFields, EndFields
<1>4. Become(n, c) /\ UNCHANGED <<cases, audits, gates>>
  BY DEF RecordEval
<1>5. /\ Same(c, d) /\ c.deal = d.deal /\ c.missed = d.missed
      /\ c.pc \in {"returned", "lookup"} /\ c.stage # "detect"
  <2>1. CASE d.stage = "grade2"
    <3>1. c = Returned(n)
      BY <2>1
    <3> QED
      BY <1>1, <1>3, <3>1 DEF AsIs, Same
  <2>2. CASE d.stage # "grade2"
    <3>1. c = graded
      BY <2>2
    <3> HIDE DEF there
    <3>2. /\ graded.pc = "lookup" /\ graded.stage = "grade2" /\ Same(graded, d)
          /\ graded.deal = d.deal /\ graded.missed = d.missed
      BY <1>3 DEF CallFields, AsIs, Same
    <3> QED
      BY <3>1, <3>2
  <2> QED
    BY <2>1, <2>2
<1> HIDE DEF c, there, d
<1>6. \A case \in cases : case.by = n => OpenedBy(case, c)
  BY <1>1, <1>5 DEF OpenedBy, Same
<1>7. KeptBy(n, c, cases, audits, gates)
  BY <1>1, <1>5 DEF KeptBy, Same
<1> QED
  BY <1>4, <1>6, <1>7, KeptMoves

LEMMA StartIsKept ==
    ASSUME LoopInv, KeptInv, NEW n \in Requests, StartLoop(n) \/ StartApprove(n) \/ Evaluate(n)
    PROVE  KeptInv'
<1>1. PICK c :
        /\ Start(n, c) /\ c.stage = "detect" /\ c.missed = None /\ c.transcript = None
        /\ \/ c.op \in {"loop", "detect"} /\ c.pc = "lookup" /\ c.action = GatedCustomerAction
           \/ /\ c.op = "approve" /\ c.pc \in {"gate", "failed"}
              /\ \E case \in cases : c.of = case.by /\ c.deal = case.deal
           \/ c.op = "evaluate" /\ c.pc = "returned"
  BY StartIs
<1>2. Become(n, c) /\ UNCHANGED <<cases, audits, gates>> /\ calls[n].pc = "idle"
  BY <1>1 DEF Start, stores
<1>3. \A case \in cases : case.by # n
  <2>1. calls[n].op = "none"
    BY <1>2 DEF LoopInv, CallsInv, Shaped
  <2> QED
    BY <2>1 DEF KeptInv, OpenedBy
<1>4. \A case \in cases : case.by \in Requests /\ case.deal \in Deals
  <2> SUFFICES ASSUME NEW case \in cases PROVE case.by \in Requests /\ case.deal \in Deals
    OBVIOUS
  <2>1. IsCase(case) /\ OpenedBy(case, calls[case.by])
    BY DEF LoopInv, StoresInv, KeptInv
  <2>2. case.by \in Requests
    BY <2>1 DEF IsCase
  <2>3. calls[case.by].deal \in Deals
    BY <2>1, <2>2 DEF OpenedBy, LoopInv, CallsInv, Shaped
  <2>4. case.deal = calls[case.by].deal
    <3> DEFINE e == [case EXCEPT !.status = "open"]
    <3>1. e.deal = case.deal
      BY <2>1 DEF IsCase
    <3>2. e.deal = calls[case.by].deal
      BY <2>1 DEF OpenedBy, CaseOf
    <3> QED
      BY <3>1, <3>2
  <2> QED
    BY <2>2, <2>3, <2>4
<1>5. KeptBy(n, c, cases, audits, gates)
  BY <1>1, <1>4 DEF KeptBy
<1> QED
  BY <1>2, <1>3, <1>5, KeptMoves

LEMMA CorrectIsKept ==
    ASSUME LoopInv, KeptInv, Correct
    PROVE  KeptInv'
<1>1. PICK case \in cases :
        /\ cases' = (cases \ {case}) \cup {[case EXCEPT !.status = "corrected"]}
        /\ audits' = audits /\ gates' = gates /\ calls' = calls
  BY DEF Correct
<1> DEFINE corrected == [case EXCEPT !.status = "corrected"]
<1>2. /\ corrected.by = case.by
      /\ [corrected EXCEPT !.status = "open"] = [case EXCEPT !.status = "open"]
  <2>1. case = [f \in {"by", "deal", "missed", "status"} |-> case[f]]
    BY DEF LoopInv, StoresInv, IsCase
  <2> QED
    BY <2>1
<1>3. cases' = (cases \ {case}) \cup {corrected}
  BY <1>1
<1> HIDE DEF corrected
<1>4. \A other \in cases' : OpenedBy(other, calls[other.by])
  BY <1>2, <1>3 DEF KeptInv, OpenedBy
<1>5. \A n : (\E other \in cases : other.by = n) => \E other \in cases' : other.by = n
  BY <1>2, <1>3
<1>6. \A n \in Requests : KeptBy(n, calls[n], cases', audits, gates)
  <2> SUFFICES ASSUME NEW n \in Requests PROVE KeptBy(n, calls[n], cases', audits, gates)
    OBVIOUS
  <2> DEFINE d == calls[n]
  <2>1. KeptBy(n, d, cases, audits, gates)
    BY DEF KeptInv
  <2> HIDE DEF d
  <2>2. KeptBy(n, d, cases', audits, gates)
    BY <1>5, <2>1 DEF KeptBy
  <2> QED
    BY <2>2 DEF d
<1> QED
  BY <1>1, <1>4, <1>6 DEF KeptInv

LEMMA AbsentIsKept ==
    ASSUME NEW n, NEW c, c.op = "none", NEW cs, NEW as, NEW gs
    PROVE  KeptBy(n, c, cs, as, gs)
BY DEF KeptBy

LEMMA CrashIsKept ==
    ASSUME LoopInv, Crash
    PROVE  KeptInv'
<1>1. \A n \in Requests : calls'[n].op = "none"
  BY CrashKeeps
<1>2. cases' = {}
  BY DEF Crash
<1> QED
  BY <1>1, <1>2, AbsentIsKept DEF KeptInv

LEMMA KeptInitially ==
    ASSUME Init
    PROVE  KeptInv
<1>1. \A n \in Requests : calls[n].op = "none"
  BY DEF Init, NoCall
<1>2. cases = {}
  BY DEF Init
<1> QED
  BY <1>1, <1>2, AbsentIsKept DEF KeptInv

LEMMA KeptPreserved ==
    ASSUME LoopInv, CacheInv, KeptInv, [Next]_vars
    PROVE  KeptInv'
<1>1. ASSUME NEW n \in Requests, Progress(n) \/ Model(n) \/ Faults(n)
      PROVE  KeptInv'
  BY <1>1, SourcesKeep, OpenCaseIsKept, RecordAuditIsKept, OpenGateIsKept, RecordEvalIsKept
     DEF Progress, Model, Faults
<1>2. ASSUME NEW n \in Requests, StartLoop(n) \/ StartApprove(n) \/ Evaluate(n)
      PROVE  KeptInv'
  BY <1>2, StartIsKept
<1>3. CASE UNCHANGED <<cases, audits, gates, calls>>
  BY <1>3 DEF KeptInv
<1>4. CASE \E deal \in Deals, transcript \in Transcripts : Register(deal, transcript)
  BY <1>3, <1>4 DEF Register, stores
<1>5. CASE UNCHANGED vars
  BY <1>3, <1>5 DEF vars, stores
<1> QED
  BY <1>1, <1>2, <1>4, <1>5, CorrectIsKept, CrashIsKept DEF Next

-----------------------------------------------------------------------------
(***************************************************************************)
(* The records of the eval store.                                          *)
(***************************************************************************)
EvalRecords ==
    [deal : Deals, evalCase : Requests, passNumber : Passes, criterion : Requirements,
     result : {"pass", "fail"}]

\* How many evals a loop has recorded when it is where it is.
Recorded(c) == IF c.stage # "grade2" THEN 0 ELSE IF c.pc = "returned" THEN 2 ELSE 1

(* An eval is of a loop that graded, and grades what its files hold.       *)
GradedBy(n, c, e, files, torn) ==
    /\ c.op = "loop" /\ c.stage = "grade2" /\ e.deal = c.deal /\ e.criterion = c.missed
    /\ c.source = "cache" /\ <<c.transcript, 1>> \notin torn /\ <<c.transcript, 2>> \notin torn =>
          /\ files[<<c.transcript, e.passNumber>>] \in Outputs
          /\ e = GradeOf(n, c.deal, c.missed, e.passNumber, files[<<c.transcript, e.passNumber>>])

InPasses(own, k) == Len(own) = k /\ \A i \in 1..k : own[i].passNumber = i

EvalsInv ==
    /\ evals \in Seq(EvalRecords)
    /\ \A i \in 1..Len(evals) :
          GradedBy(evals[i].evalCase, calls[evals[i].evalCase], evals[i], cache, disturbed)
    /\ \A n \in Requests : InPasses(OfEvalCase(evals, n), Recorded(calls[n]))

LEMMA GradesStay ==
    ASSUME CacheKeeps, NEW n, NEW c, NEW e, e.passNumber \in Passes,
           c.source = "cache" => c.transcript \in Transcripts,
           GradedBy(n, c, e, cache, disturbed)
    PROVE  GradedBy(n, c, e, cache', disturbed')
<1> SUFFICES ASSUME c.source = "cache",
                    <<c.transcript, 1>> \notin disturbed', <<c.transcript, 2>> \notin disturbed'
             PROVE  /\ cache'[<<c.transcript, e.passNumber>>] \in Outputs
                    /\ e = GradeOf(n, c.deal, c.missed, e.passNumber, cache'[<<c.transcript, e.passNumber>>])
  BY DEF GradedBy
<1> DEFINE key == <<c.transcript, e.passNumber>>
<1>1. key \in Keyed
  BY DEF Keyed
<1>2. e.passNumber = 1 \/ e.passNumber = 2
  BY DEF Passes
<1>3. key \notin disturbed'
  BY <1>2
<1>4. disturbed \subseteq disturbed'
  BY DEF CacheKeeps
<1>5. cache[key] \in Outputs /\ e = GradeOf(n, c.deal, c.missed, e.passNumber, cache[key])
  BY <1>4 DEF GradedBy
<1> HIDE DEF key
<1>6. cache'[key] = cache[key]
  BY <1>1, <1>3, <1>5 DEF CacheKeeps
<1> QED
  BY <1>5, <1>6 DEF key

\* What a loop that grades its second output keeps.
Grading(c, d) ==
    /\ c.op = d.op /\ c.source = d.source /\ c.deal = d.deal /\ c.stage = d.stage
    /\ c.missed = d.missed /\ c.transcript = d.transcript

LEMMA EvalsMove ==
    ASSUME LoopInv, CacheInv, CacheKeeps, EvalsInv, NEW n \in Requests, NEW c, Become(n, c),
           evals' = evals,
           \/ calls[n].stage # "grade2" /\ c.stage # "grade2"
           \/ /\ calls[n].stage = "grade2" /\ Grading(c, calls[n])
              /\ calls[n].pc # "returned" /\ c.pc # "returned"
    PROVE  EvalsInv'
<1>1. \A k \in Requests : calls'[k] = IF k = n THEN c ELSE calls[k]
  BY DEF Become, LoopInv, CallsInv
<1>2. \A k \in Requests : Recorded(calls'[k]) = Recorded(calls[k])
  <2> SUFFICES Recorded(c) = Recorded(calls[n])
    BY <1>1
  <2> QED
    BY DEF Recorded, Grading
<1>3. ASSUME NEW i \in 1..Len(evals)
      PROVE  GradedBy(evals[i].evalCase, calls'[evals[i].evalCase], evals[i], cache', disturbed')
  <2> DEFINE e == evals[i]
             k == e.evalCase
             d == calls[k]
             b == calls'[k]
  <2>1. e \in EvalRecords /\ GradedBy(k, d, e, cache, disturbed)
    BY DEF EvalsInv
  <2>2. k \in Requests /\ e.passNumber \in Passes
    BY <2>1 DEF EvalRecords
  <2>3. Reads(d, inputs, cache, disturbed)
    BY <2>2 DEF CacheInv
  <2>4. d.stage = "grade2"
    BY <2>1 DEF GradedBy
  <2>5. Grading(b, d)
    <3>1. CASE k = n
      BY <1>1, <2>2, <2>4, <3>1
    <3>2. CASE k # n
      BY <1>1, <2>2, <3>2 DEF Grading
    <3> QED
      BY <3>1, <3>2
  <2> HIDE DEF d, b, k, e
  <2>6. d.source = "cache" => d.transcript \in Transcripts
    BY <2>1, <2>3 DEF GradedBy, Reads, Asks, HasRead
  <2>7. GradedBy(k, d, e, cache', disturbed')
    BY <2>1, <2>2, <2>6, GradesStay
  <2>8. GradedBy(k, b, e, cache', disturbed')
    BY <2>5, <2>7 DEF GradedBy, Grading
  <2> QED
    BY <2>8 DEF b, k, e
<1>4. evals' \in Seq(EvalRecords) /\ \A k \in Requests : InPasses(OfEvalCase(evals', k), Recorded(calls'[k]))
  BY <1>2 DEF EvalsInv
<1> QED
  BY <1>3, <1>4 DEF EvalsInv

LEMMA SourcesKeepEvals ==
    ASSUME LoopInv, CacheInv, CacheKeeps, EvalsInv, NEW n \in Requests,
           \/ LookUp(n) \/ Capture(n) \/ Truncate(n) \/ WriteCache(n) \/ CaptureFails(n)
           \/ RequestOutput(n) \/ Respond(n) \/ ReadBody(n) \/ RequestFails(n)
           \/ ReadErrorBody(n) \/ TimeOut(n) \/ StoreFails(n)
    PROVE  EvalsInv'
<1> DEFINE d == calls[n]
<1>1. /\ Shaped(n, d) /\ Reads(d, inputs, cache, disturbed) /\ evals' = evals
      /\ d.pc \in Running
  BY DEF LoopInv, CallsInv, CacheInv, LookUp, Capture, Truncate, WriteCache, CaptureFails, RequestOutput,
         Respond, ReadBody, RequestFails, ReadErrorBody, TimeOut, StoreFails, stores, Running
<1>2. /\ d = [f \in CallFields |-> d[f]] /\ d.pc # "returned"
      /\ d.pc \in Awaiting => d.op \in {"loop", "detect"}
      /\ d.stage # "detect" => d.op = "loop"
  BY <1>1 DEF Shaped, Running
<1>3. /\ \A pc : At(n, pc) = [f \in CallFields |-> At(n, pc)[f]]
      /\ \A pc : At(n, pc).pc = pc /\ AsIs(At(n, pc), d)
      /\ Failed(n).pc = "failed" /\ AsIs(Failed(n), d)
  BY <1>2, AtFields, EndFields
<1>4. ASSUME NEW c, Become(n, c), c.stage = d.stage,
             d.stage = "grade2" => Grading(c, d) /\ c.pc # "returned"
      PROVE  EvalsInv'
  BY <1>1, <1>2, <1>4, EvalsMove
<1>5. ASSUME NEW c, Become(n, c), AsIs(c, d), c.pc # "returned"
      PROVE  EvalsInv'
  BY <1>4, <1>5 DEF AsIs, Same, Grading
<1>6. ASSUME NEW c, Become(n, c), NEW output \in Outputs, GoesOn(c, d, output),
             d.stage = "grade2" => c.transcript = d.transcript
      PROVE  EvalsInv'
  <2>1. c.stage = d.stage
    BY <1>6 DEF GoesOn, Alike
  <2>2. d.stage = "grade2" => Grading(c, d) /\ c.pc # "returned"
    BY <1>6 DEF GoesOn, Alike, Same, Grading
  <2> QED
    BY <1>4, <1>6, <2>1, <2>2
<1>7. CASE Become(n, Failed(n))
  BY <1>3, <1>5, <1>7
<1>8. CASE LookUp(n)
  <2>1. d.pc = "lookup" /\ d.source = "cache" /\ d.op \in {"loop", "detect"}
    BY <1>2, <1>8 DEF LookUp, Awaiting
  <2>2. d.stage = "grade2" => inputs[d.deal] = d.transcript
    BY <1>1, <2>1 DEF Reads, Asks
  <2>3. PICK c :
          /\ Become(n, c)
          /\ \/ c.pc = "failed" /\ AsIs(c, d)
             \/ \E t \in Transcripts :
                   /\ inputs[d.deal] = t /\ Bound(c, d, t)
                   /\ \/ \E output \in Outputs : GoesOn(c, d, output)
                      \/ c.missed = d.missed /\ c.pc \in {"failed", "model"}
    BY <1>8, LookUpIs
  <2>4. CASE c.pc = "failed" /\ AsIs(c, d)
    BY <1>5, <2>3, <2>4
  <2>5. ASSUME NEW t \in Transcripts, inputs[d.deal] = t, Bound(c, d, t)
        PROVE  c.transcript = t /\ Alike(c, d) /\ (d.stage = "grade2" => c.transcript = d.transcript)
    BY <2>2, <2>5 DEF Bound
  <2>6. CASE \E t \in Transcripts :
                /\ inputs[d.deal] = t /\ Bound(c, d, t)
                /\ \E output \in Outputs : GoesOn(c, d, output)
    BY <1>6, <2>3, <2>5, <2>6
  <2>7. CASE \E t \in Transcripts :
                /\ inputs[d.deal] = t /\ Bound(c, d, t)
                /\ c.missed = d.missed /\ c.pc \in {"failed", "model"}
    BY <1>4, <2>3, <2>5, <2>7 DEF Alike, Same, Grading
  <2> QED
    BY <2>3, <2>4, <2>6, <2>7
<1>9. CASE Capture(n)
  <2>1. PICK output \in Outputs : Become(n, [At(n, "truncate") EXCEPT !.got = output])
    BY <1>9 DEF Capture
  <2> DEFINE at == At(n, "truncate")
             c == [at EXCEPT !.got = output]
  <2>2. at = [f \in CallFields |-> at[f]] /\ at.pc = "truncate" /\ AsIs(at, d)
    BY <1>3
  <2>3. Become(n, c)
    BY <2>1
  <2> HIDE DEF at
  <2>4. c.pc = "truncate" /\ AsIs(c, d)
    BY <2>2 DEF CallFields, AsIs, Same
  <2> HIDE DEF c
  <2> QED
    BY <1>5, <2>3, <2>4
<1>10. CASE Truncate(n) \/ RequestOutput(n) \/ Respond(n)
  <2>1. PICK pc \in {"model", "write", "body", "errorBody"} : Become(n, At(n, pc))
    BY <1>10 DEF Truncate, RequestOutput, Respond
  <2>2. At(n, pc).pc = pc /\ AsIs(At(n, pc), d)
    BY <1>3
  <2> QED
    BY <1>5, <2>1, <2>2
<1>11. CASE WriteCache(n)
  <2>1. d.pc = "write" /\ d.got \in Outputs /\ Become(n, Used(n, d.got)) /\ d.op \in {"loop", "detect"}
    BY <1>1, <1>2, <1>11 DEF WriteCache, Shaped, Awaiting
  <2>2. GoesOn(Used(n, d.got), d, d.got) /\ Used(n, d.got).transcript = d.transcript
    BY <1>1, <2>1, UsedIsGoingOn
  <2> QED
    BY <1>6, <2>1, <2>2
<1>12. CASE ReadBody(n)
  <2>1. PICK output \in Outputs : Become(n, Used(n, output))
    BY <1>12 DEF ReadBody
  <2>2. d.pc = "body" /\ d.op \in {"loop", "detect"}
    BY <1>2, <1>12 DEF ReadBody, Awaiting
  <2>3. GoesOn(Used(n, output), d, output) /\ Used(n, output).transcript = d.transcript
    BY <1>1, <2>2, UsedIsGoingOn
  <2> QED
    BY <1>6, <2>1, <2>3
<1>13. CASE CaptureFails(n) \/ RequestFails(n) \/ ReadErrorBody(n) \/ TimeOut(n) \/ StoreFails(n)
  BY <1>7, <1>13 DEF CaptureFails, RequestFails, ReadErrorBody, TimeOut, StoreFails
<1> QED
  BY <1>8, <1>9, <1>10, <1>11, <1>12, <1>13

LEMMA OwnEvalsGrow ==
    ASSUME NEW s \in Seq(EvalRecords), NEW e \in EvalRecords, NEW m
    PROVE  /\ OfEvalCase(s, m) \in Seq(EvalRecords)
           /\ OfEvalCase(Append(s, e), m)
                = IF e.evalCase = m THEN Append(OfEvalCase(s, m), e) ELSE OfEvalCase(s, m)
<1> DEFINE t == Append(s, e)
           N == Len(s)
           P == {i \in DOMAIN s : s[i].evalCase = m}
           Q == {i \in DOMAIN t : t[i].evalCase = m}
<1>1. /\ N \in Nat /\ DOMAIN s = 1..N /\ DOMAIN t = 1..(N + 1)
      /\ \A i \in 1..N : t[i] = s[i]
      /\ t[N + 1] = e
  OBVIOUS
<1> HIDE DEF t, N
<1>2. \A i \in 1..N : i \in P <=> i \in Q
  BY <1>1
<1>3. N + 1 \in Q <=> e.evalCase = m
  BY <1>1
<1> HIDE DEF P, Q
<1>4. Selected(t, Q) = IF N + 1 \in Q THEN Append(Selected(s, P), e) ELSE Selected(s, P)
  BY <1>2, SelectedAppend DEF t, N
<1>5. Selected(s, P) \in Seq(EvalRecords)
  BY SelectedElements
<1> QED
  BY <1>3, <1>4, <1>5 DEF OfEvalCase, P, Q, t

LEMMA PassesGrow ==
    ASSUME NEW own \in Seq(EvalRecords), NEW k \in Nat, InPasses(own, k), NEW e \in EvalRecords,
           e.passNumber = k + 1
    PROVE  InPasses(Append(own, e), k + 1)
<1>1. /\ Len(own) = k /\ Len(Append(own, e)) = k + 1
      /\ \A i \in 1..k : Append(own, e)[i] = own[i]
      /\ Append(own, e)[k + 1] = e
  BY DEF InPasses
<1>2. \A i \in 1..(k + 1) : i \in 1..k \/ i = k + 1
  OBVIOUS
<1> DEFINE longer == Append(own, e)
<1> HIDE DEF longer
<1>3. \A i \in 1..(k + 1) : longer[i].passNumber = i
  BY <1>1, <1>2 DEF InPasses, longer
<1> QED
  BY <1>1, <1>3 DEF InPasses, longer

LEMMA RecordEvalGrades ==
    ASSUME LoopInv, CacheInv, KeptInv, EvalsInv, NEW n \in Requests, RecordEval(n)
    PROVE  EvalsInv'
<1> DEFINE d == calls[n]
           pass == PassOf(d.stage)
           e == GradeOf(d.of, d.deal, d.missed, pass, d.got)
           there == At(n, "lookup")
           graded == [there EXCEPT !.stage = "grade2", !.got = None]
           c == IF d.stage = "grade2" THEN Returned(n) ELSE graded
<1>1. /\ Shaped(n, d) /\ d.pc = "record" /\ d.op = "loop" /\ d.stage \in {"grade1", "grade2"}
      /\ KeptBy(n, d, cases, audits, gates) /\ Reads(d, inputs, cache, disturbed)
  BY DEF LoopInv, CallsInv, Shaped, RecordEval, KeptInv, CacheInv
<1>2. d = [f \in CallFields |-> d[f]] /\ d.of = n /\ d.deal \in Deals /\ d.missed \in Requirements
  BY <1>1 DEF Shaped, KeptBy
<1>3. /\ there = [f \in CallFields |-> there[f]] /\ there.pc = "lookup" /\ AsIs(there, d)
      /\ Returned(n).pc = "returned" /\ AsIs(Returned(n), d)
  BY <1>2, AtFields, EndFields
<1>4. /\ Become(n, c) /\ evals' = Append(evals, e) /\ cache' = cache /\ disturbed' = disturbed
      /\ evals \in Seq(EvalRecords)
  BY DEF RecordEval, EvalsInv
<1>5. \A k \in Requests : calls'[k] = IF k = n THEN c ELSE calls[k]
  BY <1>4 DEF Become, LoopInv, CallsInv
<1>6. /\ c.op = "loop" /\ c.stage = "grade2" /\ c.deal = d.deal /\ c.missed = d.missed
      /\ c.source = d.source /\ c.transcript = d.transcript
      /\ Recorded(d) \in Nat /\ Recorded(c) = Recorded(d) + 1 /\ pass = Recorded(d) + 1
      /\ pass \in Passes
  <2>1. CASE d.stage = "grade2"
    <3>1. c = Returned(n)
      BY <2>1
    <3> QED
      BY <1>1, <1>3, <2>1, <3>1 DEF AsIs, Same, Recorded, PassOf, Passes
  <2>2. CASE d.stage # "grade2"
    <3>1. c = graded
      BY <2>2
    <3> HIDE DEF there
    <3>2. /\ graded.pc = "lookup" /\ graded.stage = "grade2" /\ Same(graded, d)
          /\ graded.deal = d.deal /\ graded.missed = d.missed /\ graded.source = d.source
          /\ graded.transcript = d.transcript
      BY <1>3 DEF CallFields, AsIs, Same
    <3> HIDE DEF graded
    <3> QED
      BY <1>1, <2>2, <3>1, <3>2 DEF Same, Recorded, PassOf, Passes
  <2> QED
    BY <2>1, <2>2
<1>7. /\ e \in EvalRecords /\ e.evalCase = n /\ e.passNumber = pass
      /\ e.deal = d.deal /\ e.criterion = d.missed
      /\ e = GradeOf(n, d.deal, d.missed, pass, d.got)
  BY <1>2, <1>6 DEF GradeOf, EvalRecords
<1> HIDE DEF e, pass, c, there, d
<1>8. GradedBy(n, c, e, cache, disturbed)
  <2> SUFFICES ASSUME c.source = "cache",
                      <<c.transcript, 1>> \notin disturbed, <<c.transcript, 2>> \notin disturbed
               PROVE  cache[<<d.transcript, pass>>] \in Outputs /\ d.got = cache[<<d.transcript, pass>>]
    BY <1>6, <1>7 DEF GradedBy
  <2>1. Key(d) = <<d.transcript, pass>>
    BY DEF Key, pass
  <2>2. Key(d) \notin disturbed
    BY <1>6, <2>1 DEF Passes
  <2>3. Asks(d)
    BY <1>1, <1>6 DEF Asks
  <2> QED
    BY <1>1, <2>1, <2>2, <2>3 DEF Reads
<1>9. ASSUME NEW x \in EvalRecords, GradedBy(x.evalCase, calls[x.evalCase], x, cache, disturbed)
      PROVE  GradedBy(x.evalCase, calls'[x.evalCase], x, cache, disturbed)
  <2>1. x.evalCase \in Requests
    BY DEF EvalRecords
  <2>2. CASE x.evalCase # n
    BY <1>5, <1>9, <2>1, <2>2
  <2>3. CASE x.evalCase = n
    <3>1. GradedBy(n, d, x, cache, disturbed)
      BY <1>9, <2>3 DEF d
    <3>2. GradedBy(n, c, x, cache, disturbed)
      BY <1>6, <3>1 DEF GradedBy
    <3> QED
      BY <1>5, <2>3, <3>2
  <2> QED
    BY <2>2, <2>3
<1>10. ASSUME NEW i \in 1..Len(evals')
       PROVE  GradedBy(evals'[i].evalCase, calls'[evals'[i].evalCase], evals'[i], cache', disturbed')
  <2> DEFINE x == evals'[i]
  <2>1. x = e \/ (i \in 1..Len(evals) /\ x = evals[i])
    BY <1>4, <1>7
  <2>2. CASE x = e
    BY <1>4, <1>5, <1>7, <1>8, <2>2
  <2>3. CASE i \in 1..Len(evals) /\ x = evals[i]
    <3>1. x \in EvalRecords /\ GradedBy(x.evalCase, calls[x.evalCase], x, cache, disturbed)
      BY <1>4, <2>3 DEF EvalsInv
    <3> HIDE DEF x
    <3>2. GradedBy(x.evalCase, calls'[x.evalCase], x, cache, disturbed)
      BY <1>9, <3>1
    <3> QED
      BY <1>4, <3>2 DEF x
  <2> QED
    BY <2>1, <2>2, <2>3
<1>11. ASSUME NEW m \in Requests
       PROVE  InPasses(OfEvalCase(evals', m), Recorded(calls'[m]))
  <2> DEFINE own == OfEvalCase(evals, m)
  <2>1. /\ own \in Seq(EvalRecords)
        /\ OfEvalCase(evals', m) = IF e.evalCase = m THEN Append(own, e) ELSE own
    BY <1>4, <1>7, OwnEvalsGrow
  <2>2. InPasses(own, Recorded(calls[m]))
    BY DEF EvalsInv
  <2> HIDE DEF own
  <2>3. CASE m # n
    BY <1>5, <1>7, <2>1, <2>2, <2>3
  <2>4. CASE m = n
    <3>1. InPasses(own, Recorded(d))
      BY <2>2, <2>4 DEF d
    <3>2. InPasses(Append(own, e), Recorded(d) + 1)
      BY <1>6, <1>7, <2>1, <3>1, PassesGrow
    <3> QED
      BY <1>5, <1>6, <1>7, <2>1, <2>4, <3>2
  <2> QED
    BY <2>3, <2>4
<1>12. evals' \in Seq(EvalRecords)
  BY <1>4, <1>7
<1> QED
  BY <1>10, <1>11, <1>12 DEF EvalsInv

LEMMA NothingSelected ==
    ASSUME NEW P
    PROVE  Selected(<<>>, P) = <<>>
<1>1. <<>> \in Seq({}) /\ Len(<<>>) = 0
  OBVIOUS
<1>2. PICK f : Grows(f, <<>>, P, 0) /\ Selected(<<>>, P) = f[0]
  BY <1>1, SelectedGrows
<1> QED
  BY <1>2 DEF Grows

(* No record is of a call that is not there.                               *)
LEMMA NoEvals ==
    ASSUME evals = <<>>, \A n \in Requests : Recorded(calls[n]) = 0
    PROVE  EvalsInv
<1>1. Len(evals) = 0 /\ evals \in Seq(EvalRecords) /\ 1..0 = {}
  OBVIOUS
<1>2. \A n \in Requests : OfEvalCase(evals, n) = <<>>
  BY NothingSelected DEF OfEvalCase
<1>3. \A n \in Requests : InPasses(OfEvalCase(evals, n), Recorded(calls[n]))
  BY <1>1, <1>2 DEF InPasses
<1> QED
  BY <1>1, <1>3 DEF EvalsInv

LEMMA EvalsInitially ==
    ASSUME Init
    PROVE  EvalsInv
<1>1. evals = <<>> /\ \A n \in Requests : calls[n].stage = "detect"
  BY DEF Init, NoCall
<1> QED
  BY <1>1, NoEvals DEF Recorded

LEMMA CrashDropsEvals ==
    ASSUME Crash
    PROVE  EvalsInv'
<1>1. /\ evals' = <<>>
      /\ calls' = [n \in Requests |-> IF calls[n].pc = "idle" THEN NoCall ELSE [NoCall EXCEPT !.pc = "lost"]]
  BY DEF Crash
<1>2. \A n \in Requests : calls'[n].stage = "detect"
  BY <1>1 DEF NoCall
<1>3. 1..Len(<<>>) = {} /\ <<>> \in Seq(EvalRecords) /\ Len(<<>>) = 0 /\ 1..0 = {}
  OBVIOUS
<1>4. ASSUME NEW n \in Requests
      PROVE  InPasses(OfEvalCase(evals', n), Recorded(calls'[n]))
  <2>1. Recorded(calls'[n]) = 0
    BY <1>2 DEF Recorded
  <2>2. OfEvalCase(evals', n) = <<>>
    BY <1>1, NothingSelected DEF OfEvalCase
  <2>3. InPasses(<<>>, 0)
    BY <1>3 DEF InPasses
  <2> QED
    BY <2>1, <2>2, <2>3
<1> QED
  BY <1>1, <1>3, <1>4 DEF EvalsInv

LEMMA StoresKeepEvals ==
    ASSUME LoopInv, CacheInv, CacheKeeps, EvalsInv, NEW n \in Requests,
           OpenCase(n) \/ RecordAudit(n) \/ OpenGate(n)
    PROVE  EvalsInv'
<1> DEFINE d == calls[n]
<1>1. Shaped(n, d) /\ d.pc \in {"open", "audit", "gate"} /\ evals' = evals
  BY DEF LoopInv, CallsInv, OpenCase, RecordAudit, OpenGate
<1>2. d = [f \in CallFields |-> d[f]] /\ d.stage = "detect"
  BY <1>1 DEF Shaped
<1>3. /\ \A pc : AsIs(At(n, pc), d) /\ At(n, pc) = [f \in CallFields |-> At(n, pc)[f]]
      /\ AsIs(Returned(n), d)
  BY <1>2, AtFields, EndFields
<1>4. ASSUME NEW c, Become(n, c), c.stage # "grade2"
      PROVE  EvalsInv'
  BY <1>1, <1>2, <1>4, EvalsMove
<1>5. \A pc : At(n, pc).stage = "detect" /\ Returned(n).stage = "detect"
  BY <1>2, <1>3 DEF AsIs
<1>6. CASE Become(n, Returned(n))
  BY <1>4, <1>5, <1>6
<1>7. CASE \E pc : Become(n, At(n, pc))
  BY <1>4, <1>5, <1>7
<1>8. CASE Become(n, [At(n, "lookup") EXCEPT !.stage = "grade1"])
  <2> DEFINE there == At(n, "lookup")
             c == [there EXCEPT !.stage = "grade1"]
  <2>1. there = [f \in CallFields |-> there[f]] /\ Become(n, c)
    BY <1>3, <1>8
  <2> HIDE DEF there
  <2>2. c.stage = "grade1"
    BY <2>1 DEF CallFields
  <2> HIDE DEF c
  <2> QED
    BY <1>4, <2>1, <2>2
<1> HIDE DEF d
<1> QED
  BY <1>6, <1>7, <1>8 DEF OpenCase, RecordAudit, OpenGate, d

LEMMA StartKeepsEvals ==
    ASSUME LoopInv, CacheInv, CacheKeeps, EvalsInv, NEW n \in Requests,
           StartLoop(n) \/ StartApprove(n) \/ Evaluate(n)
    PROVE  EvalsInv'
<1>1. PICK c : Start(n, c) /\ c.stage = "detect"
  BY StartIs
<1>2. Become(n, c) /\ evals' = evals /\ calls[n].pc = "idle"
  BY <1>1 DEF Start, stores
<1>3. calls[n].stage = "detect"
  BY <1>2 DEF LoopInv, CallsInv, Shaped
<1> QED
  BY <1>1, <1>2, <1>3, EvalsMove

LEMMA StayingEvals ==
    ASSUME LoopInv, CacheInv, CacheKeeps, EvalsInv, UNCHANGED <<evals, calls>>
    PROVE  EvalsInv'
<1>1. ASSUME NEW x \in EvalRecords, GradedBy(x.evalCase, calls[x.evalCase], x, cache, disturbed)
      PROVE  GradedBy(x.evalCase, calls[x.evalCase], x, cache', disturbed')
  <2> DEFINE d == calls[x.evalCase]
  <2>1. x.evalCase \in Requests /\ x.passNumber \in Passes
    BY DEF EvalRecords
  <2>2. Reads(d, inputs, cache, disturbed) /\ GradedBy(x.evalCase, d, x, cache, disturbed)
    BY <1>1, <2>1 DEF CacheInv
  <2> HIDE DEF d
  <2>3. d.source = "cache" => d.transcript \in Transcripts
    BY <2>2 DEF GradedBy, Reads, Asks, HasRead
  <2>4. GradedBy(x.evalCase, d, x, cache', disturbed')
    BY <2>1, <2>2, <2>3, GradesStay
  <2> QED
    BY <2>4 DEF d
<1>2. ASSUME NEW i \in 1..Len(evals)
      PROVE  GradedBy(evals[i].evalCase, calls[evals[i].evalCase], evals[i], cache', disturbed')
  BY <1>1 DEF EvalsInv
<1> QED
  BY <1>2 DEF EvalsInv

LEMMA EvalsPreserved ==
    ASSUME LoopInv, CacheInv, CacheKeeps, KeptInv, EvalsInv, [Next]_vars
    PROVE  EvalsInv'
<1>1. ASSUME NEW n \in Requests, Progress(n) \/ Model(n) \/ Faults(n)
      PROVE  EvalsInv'
  BY <1>1, SourcesKeepEvals, StoresKeepEvals, RecordEvalGrades DEF Progress, Model, Faults
<1>2. ASSUME NEW n \in Requests, StartLoop(n) \/ StartApprove(n) \/ Evaluate(n)
      PROVE  EvalsInv'
  BY <1>2, StartKeepsEvals
<1>3. CASE \E deal \in Deals, transcript \in Transcripts : Register(deal, transcript)
  BY <1>3, StayingEvals DEF Register, stores
<1>4. CASE Correct
  BY <1>4, StayingEvals DEF Correct
<1>5. CASE UNCHANGED vars
  BY <1>5, StayingEvals DEF vars, stores
<1> QED
  BY <1>1, <1>2, <1>3, <1>4, <1>5, CrashDropsEvals DEF Next

(***************************************************************************)
(* The whole inductive invariant.                                          *)
(***************************************************************************)
ReplayInv == LoopInv /\ CacheInv /\ KeptInv /\ EvalsInv

LEMMA AlwaysReplayInv == Spec => []ReplayInv
<1>1. Init => ReplayInv
  BY LoopInvInitially, CachesInitially, KeptInitially, EvalsInitially DEF ReplayInv
<1>2. ReplayInv /\ [Next]_vars => ReplayInv'
  BY LoopInvPreserved, CachesPreserved, KeptPreserved, EvalsPreserved DEF ReplayInv
<1> QED
  BY <1>1, <1>2, PTL DEF Spec

-----------------------------------------------------------------------------
(***************************************************************************)
(* What the routes answer.                                                 *)
(***************************************************************************)
LEMMA BothPassesAnswer ==
    ASSUME NEW n, NEW p1 \in Posts, NEW p2 \in Posts, Missed(p1.output) # None
    PROVE  LET body == [agentOutputPass1 |-> p1, agentOutputPass2 |-> p2]
               graded == Grades(n, p1.deal, Missed(p1.output), p1.output, p2.output)
           IN  /\ LoopResponse(n, body) =
                     Answer(200, [governanceCase |-> CaseOf(n, p1.deal, Missed(p1.output)),
                                  auditEvent |-> AuditOf(n, n, "on-track"),
                                  gate |-> GateOf(n, n, GatedCustomerAction), evals |-> graded])
               /\ EvalResponse(n, body) = Answer(200, RunEvals(graded, p1.deal))
<1> DEFINE body == [agentOutputPass1 |-> p1, agentOutputPass2 |-> p2]
<1>1. body \in [agentOutputPass1 : Posts, agentOutputPass2 : Posts]
  OBVIOUS
<1>2. body # InvalidJson
  BY <1>1, MarksAssumption
<1>3. Posted(body, "agentOutputPass1") = p1 /\ Posted(body, "agentOutputPass2") = p2
  BY DEF Posted
<1>4. Malformed \notin {p1, p2}
  BY MarksAssumption
<1> HIDE DEF body
<1> QED
  BY <1>2, <1>3, <1>4 DEF LoopResponse, EvalResponse, OnBothPasses, body

LEMMA DetectAnswer ==
    ASSUME NEW n, NEW p \in Posts
    PROVE  DetectResponse(n, [agentOutput |-> p]).result
             = IF Missed(p.output) = None THEN None ELSE CaseOf(n, p.deal, Missed(p.output))
<1> DEFINE body == [agentOutput |-> p]
<1>1. body \in [agentOutput : Posts]
  OBVIOUS
<1>2. body # InvalidJson
  BY <1>1, MarksAssumption
<1>3. Posted(body, "agentOutput") = p
  BY DEF Posted
<1>4. p # Malformed
  BY MarksAssumption
<1> HIDE DEF body
<1> QED
  BY <1>2, <1>3, <1>4 DEF DetectResponse, Answer, body

LEMMA EnforceAnswer ==
    ASSUME NEW n, NEW case \in Requests, NEW deal \in Deals
    PROVE  EnforceResponse(n, [governanceCaseId |-> case, dealId |-> deal,
                               currentStatus |-> "on-track"]).result = AuditOf(n, case, "on-track")
<1> DEFINE body == [governanceCaseId |-> case, dealId |-> deal, currentStatus |-> "on-track"]
<1>1. body \in [governanceCaseId : Requests, dealId : Deals, currentStatus : DealStatus]
  BY DEF DealStatus
<1>2. body # InvalidJson
  BY <1>1, MarksAssumption
<1>3. /\ Posted(body, "governanceCaseId") = case /\ Posted(body, "dealId") = deal
      /\ Posted(body, "currentStatus") = "on-track" /\ "currentStatus" \in DOMAIN body
      /\ body.governanceCaseId = case
  BY DEF Posted
<1>4. Malformed \notin {case, deal}
  BY MarksAssumption
<1> HIDE DEF body
<1> QED
  BY <1>2, <1>3, <1>4 DEF EnforceResponse, Answer, CanEnforce, DealStatus, body

(* An output that admits to have dropped a requirement fails both graders. *)
LEMMA CoverageIsNoKinder ==
    ASSUME NEW r \in Requirements, NEW output, r \in ToSet(output.droppedRequirements)
    PROVE  GradeRequirementCoverage(output, r) = "fail"
<1> DEFINE W == RequirementWords[r]
<1>1. W \cap W = W /\ Cardinality(W) \in Nat
  BY WordsAreFinite, FS_CardinalityType
<1> HIDE DEF W
<1>2. 2 * Overlap(W, W) >= Cardinality(W)
  <2>1. \A k \in Nat : 2 * k >= k
    OBVIOUS
  <2>2. Overlap(W, W) = Cardinality(W)
    BY <1>1 DEF Overlap
  <2> QED
    BY <1>1, <2>1, <2>2
<1>3. ExplicitlyDropped(output, r)
  BY <1>2 DEF ExplicitlyDropped, W
<1> QED
  BY <1>3 DEF GradeRequirementCoverage

(* The evals of a loop are the elements of the store that carry its case.  *)
LEMMA OwnEvals ==
    ASSUME ReplayInv, NEW n \in Requests
    PROVE  /\ OfEvalCase(evals, n) \in Seq(EvalRecords)
           /\ InPasses(OfEvalCase(evals, n), Recorded(calls[n]))
           /\ \A i \in 1..Len(OfEvalCase(evals, n)) :
                 GradedBy(n, calls[n], OfEvalCase(evals, n)[i], cache, disturbed)
<1> DEFINE P == {i \in DOMAIN evals : evals[i].evalCase = n}
           own == OfEvalCase(evals, n)
<1>1. evals \in Seq(EvalRecords) /\ DOMAIN evals = 1..Len(evals)
  BY DEF ReplayInv, EvalsInv
<1>2. /\ own \in Seq(EvalRecords)
      /\ \A i \in 1..Len(own) : \E k \in P \cap 1..Len(evals) : own[i] = evals[k]
  <2>1. own = Selected(evals, P)
    BY DEF OfEvalCase
  <2> HIDE DEF P, own
  <2> QED
    BY <1>1, <2>1, SelectedElements
<1>3. InPasses(own, Recorded(calls[n]))
  BY DEF ReplayInv, EvalsInv
<1> HIDE DEF own
<1>4. ASSUME NEW i \in 1..Len(own)
      PROVE  GradedBy(n, calls[n], own[i], cache, disturbed)
  <2>1. PICK k \in P \cap 1..Len(evals) : own[i] = evals[k]
    BY <1>2
  <2>2. evals[k].evalCase = n /\ k \in 1..Len(evals)
    OBVIOUS
  <2>3. GradedBy(evals[k].evalCase, calls[evals[k].evalCase], evals[k], cache, disturbed)
    BY <2>2 DEF ReplayInv, EvalsInv
  <2> QED
    BY <2>1, <2>2, <2>3
<1> QED
  BY <1>2, <1>3, <1>4 DEF own

LEMMA CasesOpenAgain ==
    ASSUME ReplayInv, NEW case \in cases
    PROVE  /\ [case EXCEPT !.status = "open"]
                = CaseOf(case.by, calls[case.by].deal, calls[case.by].missed)
           /\ case = [CaseOf(case.by, calls[case.by].deal, calls[case.by].missed)
                         EXCEPT !.status = case.status]
           /\ calls[case.by].missed \in Requirements
<1>1. IsCase(case) /\ OpenedBy(case, calls[case.by])
  BY DEF ReplayInv, LoopInv, StoresInv, KeptInv
<1> DEFINE d == calls[case.by]
           opened == CaseOf(case.by, d.deal, d.missed)
<1>2. [case EXCEPT !.status = "open"] = opened
  BY <1>1 DEF OpenedBy
<1>3. /\ opened = [by |-> case.by, deal |-> d.deal, missed |-> d.missed, status |-> "open"]
      /\ case = [f \in {"by", "deal", "missed", "status"} |-> case[f]]
      /\ case.missed \in Requirements
  BY <1>1 DEF CaseOf, IsCase
<1> HIDE DEF d
<1>4. case.missed = d.missed
  BY <1>2, <1>3
<1>5. case.deal = d.deal
  BY <1>2, <1>3
<1>6. case = [opened EXCEPT !.status = case.status]
  BY <1>3, <1>4, <1>5
<1> QED
  BY <1>2, <1>3, <1>4, <1>6 DEF d

LEMMA LoopsReplay ==
    ASSUME ReplayInv, NEW n \in Requests,
           calls[n].pc = "returned", calls[n].source = "cache", calls[n].op = "loop", Undisturbed(n)
    PROVE  LET body == [agentOutputPass1 |-> Post(n, 1), agentOutputPass2 |-> Post(n, 2)]
               answer == LoopResponse(n, body)
               own == OfEvalCase(evals, n)
           IN  /\ {body.agentOutputPass1.output, body.agentOutputPass2.output} \subseteq Outputs
               /\ answer.status = 200
               /\ \E case \in cases :
                     case = [answer.result.governanceCase EXCEPT !.status = case.status]
               /\ answer.result.auditEvent \in audits
               /\ answer.result.gate \in gates
               /\ own = answer.result.evals
               /\ EvalResponse(n, body).result = RunEvals(own, calls[n].deal)
               /\ \A i \in DOMAIN own :
                     GradeRequirementCoverage(Post(n, i).output, own[i].criterion) = "pass"
                        => own[i].result = "pass"
<1> DEFINE c == calls[n]
           file(i) == cache[<<c.transcript, i>>]
           own == OfEvalCase(evals, n)
           body == [agentOutputPass1 |-> Post(n, 1), agentOutputPass2 |-> Post(n, 2)]
<1>1. /\ Shaped(n, c) /\ Reads(c, inputs, cache, disturbed) /\ KeptBy(n, c, cases, audits, gates)
      /\ c.pc = "returned" /\ c.source = "cache" /\ c.op = "loop"
      /\ <<c.transcript, 1>> \notin disturbed /\ <<c.transcript, 2>> \notin disturbed
  BY DEF ReplayInv, LoopInv, CallsInv, CacheInv, KeptInv, Undisturbed
<1>2. /\ Post(n, 1) = [deal |-> c.deal, output |-> file(1)]
      /\ Post(n, 2) = [deal |-> c.deal, output |-> file(2)]
      /\ \A i : Post(n, i).output = file(i)
  BY DEF Post
<1>3. own \in Seq(EvalRecords) /\ InPasses(own, Recorded(c))
      /\ \A i \in 1..Len(own) : GradedBy(n, c, own[i], cache, disturbed)
  BY OwnEvals
<1> HIDE DEF c, own
<1>4. c.stage = "grade2" /\ c.deal \in Deals /\ c.missed \in Requirements /\ Recorded(c) = 2
  BY <1>1 DEF Shaped, KeptBy, Recorded
<1>5. file(1) \in Outputs /\ file(2) \in Outputs /\ c.missed = Missed(file(1))
  BY <1>1, <1>4 DEF Reads, Asks, HasRead
<1>6. Post(n, 1) \in Posts /\ Post(n, 2) \in Posts
  BY <1>2, <1>4, <1>5 DEF Posts
<1>7. Missed(file(1)) # None
  BY <1>4, <1>5, LoopAssumption
<1> DEFINE graded == Grades(n, c.deal, c.missed, file(1), file(2))
<1>8. /\ LoopResponse(n, body) =
             Answer(200, [governanceCase |-> CaseOf(n, c.deal, c.missed),
                          auditEvent |-> AuditOf(n, n, "on-track"),
                          gate |-> GateOf(n, n, GatedCustomerAction), evals |-> graded])
      /\ EvalResponse(n, body) = Answer(200, RunEvals(graded, c.deal))
  <2> DEFINE p1 == Post(n, 1)
             p2 == Post(n, 2)
  <2>1. p1 \in Posts /\ p2 \in Posts /\ Missed(p1.output) # None
    BY <1>2, <1>6, <1>7
  <2>2. p1.deal = c.deal /\ p1.output = file(1) /\ p2.output = file(2)
    BY <1>2
  <2> HIDE DEF p1, p2, file
  <2>3. /\ LoopResponse(n, [agentOutputPass1 |-> p1, agentOutputPass2 |-> p2]) =
             Answer(200, [governanceCase |-> CaseOf(n, p1.deal, Missed(p1.output)),
                          auditEvent |-> AuditOf(n, n, "on-track"),
                          gate |-> GateOf(n, n, GatedCustomerAction),
                          evals |-> Grades(n, p1.deal, Missed(p1.output), p1.output, p2.output)])
        /\ EvalResponse(n, [agentOutputPass1 |-> p1, agentOutputPass2 |-> p2]) =
             Answer(200, RunEvals(Grades(n, p1.deal, Missed(p1.output), p1.output, p2.output), p1.deal))
    BY <2>1, BothPassesAnswer
  <2> QED
    BY <1>5, <2>2, <2>3 DEF p1, p2
<1>9. own = graded
  <2>1. Len(own) = 2 /\ own[1].passNumber = 1 /\ own[2].passNumber = 2
    BY <1>3, <1>4 DEF InPasses
  <2>2. own[1] = GradeOf(n, c.deal, c.missed, 1, file(1))
    <3>1. GradedBy(n, c, own[1], cache, disturbed)
      BY <1>3, <2>1
    <3> QED
      BY <1>1, <2>1, <3>1 DEF GradedBy
  <2>3. own[2] = GradeOf(n, c.deal, c.missed, 2, file(2))
    <3>1. GradedBy(n, c, own[2], cache, disturbed)
      BY <1>3, <2>1
    <3> QED
      BY <1>1, <2>1, <3>1 DEF GradedBy
  <2>4. own = <<own[1], own[2]>>
    BY <1>3, <2>1
  <2> QED
    BY <2>2, <2>3, <2>4 DEF Grades
<1>10. \E case \in cases : case = [CaseOf(n, c.deal, c.missed) EXCEPT !.status = case.status]
  <2>1. PICK case \in cases : case.by = n
    BY <1>1, <1>4 DEF KeptBy
  <2> QED
    BY <2>1, CasesOpenAgain DEF c
<1>11. AuditOf(n, n, "on-track") \in audits /\ GateOf(n, n, GatedCustomerAction) \in gates
  BY <1>1, <1>4 DEF KeptBy
<1>12. ASSUME NEW i \in DOMAIN own,
              GradeRequirementCoverage(Post(n, i).output, own[i].criterion) = "pass"
       PROVE  own[i].result = "pass"
  <2>1. i \in 1..2
    BY <1>3, <1>4 DEF InPasses
  <2>2. GradedBy(n, c, own[i], cache, disturbed) /\ own[i].passNumber = i
    BY <1>3, <1>4, <2>1 DEF InPasses
  <2>3. own[i] = GradeOf(n, c.deal, c.missed, i, file(i))
    BY <1>1, <2>2 DEF GradedBy
  <2>4. own[i].criterion = c.missed /\ Post(n, i).output = file(i)
    BY <1>2, <2>3 DEF GradeOf
  <2>5. c.missed \notin ToSet(file(i).droppedRequirements)
    BY <1>4, <1>12, <2>4, CoverageIsNoKinder
  <2> QED
    BY <2>3, <2>5 DEF GradeOf
<1> DEFINE answer == LoopResponse(n, body)
<1>13. /\ answer.status = 200 /\ answer.result.governanceCase = CaseOf(n, c.deal, c.missed)
       /\ answer.result.auditEvent = AuditOf(n, n, "on-track")
       /\ answer.result.gate = GateOf(n, n, GatedCustomerAction)
       /\ answer.result.evals = graded
       /\ EvalResponse(n, body).result = RunEvals(graded, c.deal)
  <2> HIDE DEF body, graded
  <2> QED
    BY <1>8 DEF Answer
<1>14. body.agentOutputPass1.output = file(1) /\ body.agentOutputPass2.output = file(2)
  BY <1>2
<1> HIDE DEF answer, body, graded, file
<1> QED
  BY <1>5, <1>9, <1>10, <1>11, <1>12, <1>13, <1>14 DEF answer, body, own, c

LEMMA DetectionsReplay ==
    ASSUME ReplayInv, NEW n \in Requests,
           calls[n].pc = "returned", calls[n].source = "cache", calls[n].op = "detect", Undisturbed(n)
    PROVE  LET answer == DetectResponse(n, [agentOutput |-> Post(n, 1)])
           IN  /\ Post(n, 1).output \in Outputs
               /\ {[case EXCEPT !.status = "open"] : case \in {c \in cases : c.by = n}}
                     = {answer.result} \ {None}
<1> DEFINE d == calls[n]
           file == cache[<<d.transcript, 1>>]
           posted == Post(n, 1)
           opened == CaseOf(n, d.deal, d.missed)
           found == {[case EXCEPT !.status = "open"] : case \in {c \in cases : c.by = n}}
<1>1. /\ Shaped(n, d) /\ Reads(d, inputs, cache, disturbed) /\ KeptBy(n, d, cases, audits, gates)
      /\ d.pc = "returned" /\ d.source = "cache" /\ d.op = "detect"
      /\ <<d.transcript, 1>> \notin disturbed
  BY DEF ReplayInv, LoopInv, CallsInv, CacheInv, KeptInv, Undisturbed
<1>2. posted = [deal |-> d.deal, output |-> file]
  BY DEF Post
<1>3. \A case \in cases : case.by = n =>
          [case EXCEPT !.status = "open"] = opened /\ d.missed \in Requirements
  BY CasesOpenAgain
<1> HIDE DEF d, posted, opened
<1>4. d.deal \in Deals /\ file \in Outputs /\ d.missed = Missed(file)
  BY <1>1 DEF Shaped, Reads, Asks, HasRead
<1> HIDE DEF file
<1>5. posted \in Posts /\ posted.output = file /\ posted.deal = d.deal
  BY <1>2, <1>4 DEF Posts
<1>6. DetectResponse(n, [agentOutput |-> posted]).result = IF d.missed = None THEN None ELSE opened
  BY <1>4, <1>5, DetectAnswer DEF opened
<1>7. CASE d.missed = None
  <2>1. \A case \in cases : case.by # n
    BY <1>3, <1>7, LoopAssumption
  <2>2. found = {}
    BY <2>1
  <2> QED
    BY <1>4, <1>5, <1>6, <1>7, <2>2 DEF posted
<1>8. CASE d.missed # None
  <2>1. d.missed \in Requirements
    BY <1>4, <1>8, MissedIsARequirement
  <2>2. opened \in [by : Requests, deal : Deals, missed : Requirements, status : {"open"}]
    BY <1>4, <2>1 DEF opened, CaseOf
  <2>3. opened # None
    BY <2>2, MarksAssumption
  <2>4. \E case \in cases : case.by = n
    BY <1>1, <1>8 DEF KeptBy
  <2>5. found = {opened}
    BY <1>3, <2>4
  <2> QED
    BY <1>4, <1>5, <1>6, <1>8, <2>3, <2>5 DEF posted
<1> QED
  BY <1>7, <1>8

LEMMA ApprovalsReplay ==
    ASSUME ReplayInv, NEW n \in Requests, calls[n].pc = "returned", calls[n].op = "approve"
    PROVE  EnforceResponse(n, [governanceCaseId |-> calls[n].of, dealId |-> calls[n].deal,
                               currentStatus |-> "on-track"]).result \in audits
<1>1. KeptBy(n, calls[n], cases, audits, gates)
  BY DEF ReplayInv, KeptInv
<1>2. calls[n].of \in Requests /\ calls[n].deal \in Deals /\ AuditOf(n, calls[n].of, "on-track") \in audits
  BY <1>1 DEF KeptBy
<1> QED
  BY <1>2, EnforceAnswer

(* A call on the cached source whose files were captured by one call at a  *)
(* time left in the stores what the routes compute anew from those files:  *)
(* the loop reads its first output twice, other calls capture, fail and    *)
(* crash in between, and yet it grades what it detected.                   *)
THEOREM ReturnedCallsAreReplayed == Spec => []ReturnedCallsReplay
<1>1. ReplayInv => ReturnedCallsReplay
  BY LoopsReplay, DetectionsReplay, ApprovalsReplay DEF ReturnedCallsReplay
<1> QED
  BY <1>1, AlwaysReplayInv, PTL

-----------------------------------------------------------------------------
(***************************************************************************)
(* The arrangements of the eval table.                                     *)
(***************************************************************************)
LEMMA FunctionsAreSequences ==
    ASSUME NEW n \in Nat, NEW T, NEW q \in [1..n -> T]
    PROVE  q \in Seq(T) /\ Len(q) = n
OBVIOUS

Flattens(f, seqs, n) == f = [i \in 1..n |-> IF i = 1 THEN seqs[i] ELSE f[i - 1] \o seqs[i]]

Parts(seqs, n, S) == Len(seqs) = n /\ \A k \in 1..n : seqs[k] \in Seq(S)

Joins(f, seqs, n) == f[1] = seqs[1] /\ \A k \in 2..n : f[k] = f[k - 1] \o seqs[k]

LEMMA FlattenGrows ==
    ASSUME NEW S, NEW N \in Nat \ {0}, NEW seqs, Parts(seqs, N, S)
    PROVE  \E f \in [1..N -> Seq(S)] : Joins(f, seqs, N) /\ FlattenSeq(seqs) = f[N]
<1> DEFINE T == Seq(S)
           next == [k \in 1..N |-> [x \in T |-> x \o seqs[k]]]
           flatten == CHOOSE f : Flattens(f, seqs, N)
<1>0. Len(seqs) = N /\ \A k \in 1..N : seqs[k] \in Seq(S)
  BY DEF Parts
<1>1. \A x, y \in T : x \o y \in T
  BY ConcatProperties
<1>2. /\ <<>> \in T /\ \A x \in T : <<>> \o x = x
  BY ConcatEmptySeq
<1> HIDE DEF T
<1>3. \A k \in 1..N : next[k] \in [T -> T] /\ \A x \in T : next[k][x] = x \o seqs[k]
  BY <1>0, <1>1 DEF T
<1> HIDE DEF next
<1>4. PICK f \in [0..N -> T] : Iterates(f, <<>>, next, N)
  BY <1>2, <1>3, IterationExists
<1>5. f[0] = <<>> /\ \A k \in 1..N : f[k] = f[k - 1] \o seqs[k]
  <2>1. \A k \in 0..N : f[k] = IF k = 0 THEN <<>> ELSE next[k][f[k - 1]]
    BY <1>4 DEF Iterates
  <2>2. \A k \in 1..N : k \in 0..N /\ k # 0 /\ k - 1 \in 0..N
    OBVIOUS
  <2>3. \A k \in 1..N : f[k] = next[k][f[k - 1]] /\ f[k - 1] \in T
    BY <2>1, <2>2
  <2>4. f[0] = <<>>
    BY <2>1
  <2> QED
    BY <1>3, <2>3, <2>4
<1> DEFINE g == [k \in 1..N |-> f[k]]
<1>6. Flattens(g, seqs, N)
  <2>1. f[1] = seqs[1]
    <3>1. 1 \in 1..N /\ 1 - 1 = 0 /\ seqs[1] \in T
      BY <1>0 DEF T
    <3>2. f[1] = f[0] \o seqs[1]
      BY <1>5, <3>1
    <3> QED
      BY <1>2, <1>5, <3>1, <3>2
  <2>2. \A k \in 1..N : g[k] = IF k = 1 THEN seqs[k] ELSE g[k - 1] \o seqs[k]
    <3>1. ASSUME NEW k \in 1..N, k # 1 PROVE k - 1 \in 1..N
      BY <3>1
    <3> QED
      BY <1>5, <2>1, <3>1
  <2>3. g = [k \in 1..N |-> g[k]]
    OBVIOUS
  <2> HIDE DEF g
  <2> QED
    BY <2>2, <2>3 DEF Flattens
<1>7. Flattens(flatten, seqs, N)
  BY <1>6
<1>8. FlattenSeq(seqs) = flatten[N]
  BY <1>0 DEF FlattenSeq, Flattens
<1> HIDE DEF flatten, g
<1>9. \A k \in 1..N : flatten[k] = IF k = 1 THEN seqs[k] ELSE flatten[k - 1] \o seqs[k]
  BY <1>7 DEF Flattens
<1>10. flatten = [k \in 1..N |-> flatten[k]]
  BY <1>7 DEF Flattens
<1>11. 1 \in 1..N /\ \A k \in 2..N : k \in 1..N /\ k # 1
  OBVIOUS
<1>12. flatten[1] = seqs[1] /\ \A k \in 2..N : flatten[k] = flatten[k - 1] \o seqs[k]
  BY <1>9, <1>11
<1>13. \A k \in 1..N : flatten[k] \in T
  <2> DEFINE G == {0} \cup {k \in 1..N : flatten[k] \in T}
  <2>1. 0 \in G
    OBVIOUS
  <2>2. ASSUME NEW k \in 1..N, k - 1 \in G
        PROVE  k \in G
    <3>1. CASE k = 1
      BY <1>0, <1>12, <3>1 DEF T
    <3>2. CASE k # 1
      <4>1. k \in 2..N /\ k - 1 \in 1..N /\ flatten[k - 1] \in T
        BY <2>2, <3>2
      <4> QED
        <5>1. flatten[k] = flatten[k - 1] \o seqs[k] /\ seqs[k] \in T
          BY <1>0, <1>12, <4>1 DEF T
        <5> QED
          BY <1>1, <4>1, <5>1
    <3> QED
      BY <3>1, <3>2
  <2>3. 0..N \subseteq G
    <3> HIDE DEF G
    <3> QED
      BY <2>1, <2>2, UpToInduction
  <2> QED
    BY <2>3
<1>14. flatten \in [1..N -> T]
  BY <1>10, <1>13
<1> QED
  BY <1>8, <1>12, <1>14 DEF T, Joins

LEMMA FlattenTwo ==
    ASSUME NEW S, NEW seqs, Len(seqs) = 2, seqs[1] \in Seq(S), seqs[2] \in Seq(S)
    PROVE  FlattenSeq(seqs) = seqs[1] \o seqs[2]
<1>1. \A k \in 1..2 : k = 1 \/ k = 2
  OBVIOUS
<1>2. \A k \in 1..2 : seqs[k] \in Seq(S)
  BY <1>1
<1>3. PICK f : Joins(f, seqs, 2) /\ FlattenSeq(seqs) = f[2]
  <2>1. Parts(seqs, 2, S)
    BY <1>2 DEF Parts
  <2> QED
    BY <2>1, FlattenGrows
<1>4. 2 \in 2..2 /\ 2 - 1 = 1
  OBVIOUS
<1> QED
  BY <1>3, <1>4 DEF Joins

(* All the sequences but one are empty.                                    *)
LEMMA FlattenOne ==
    ASSUME NEW S, NEW N \in Nat \ {0}, NEW seqs, Len(seqs) = N, NEW m \in 1..N,
           seqs[m] \in Seq(S), \A k \in 1..N : k # m => seqs[k] = <<>>
    PROVE  FlattenSeq(seqs) = seqs[m]
<1> DEFINE s == seqs[m]
<1>1. <<>> \in Seq(S) /\ \A x \in Seq(S) : <<>> \o x = x /\ x \o <<>> = x
  BY ConcatEmptySeq
<1>2. \A k \in 1..N : seqs[k] \in Seq(S)
  BY <1>1
<1>3. PICK f : Joins(f, seqs, N) /\ FlattenSeq(seqs) = f[N]
  <2>1. Parts(seqs, N, S)
    BY <1>2 DEF Parts
  <2> QED
    BY <2>1, FlattenGrows
<1> DEFINE G == {0} \cup {k \in 1..N : f[k] = IF k < m THEN <<>> ELSE s}
<1>4. 0 \in G
  OBVIOUS
<1>5. ASSUME NEW k \in 1..N, k - 1 \in G
      PROVE  k \in G
  <2> HIDE DEF s
  <2>1. CASE k = 1
    BY <1>3, <2>1 DEF s, Joins
  <2>2. CASE k # 1
    <3>1. k \in 2..N /\ k - 1 \in 1..N /\ (k - 1 < m \/ ~(k - 1 < m))
      BY <2>2
    <3>2. f[k - 1] = IF k - 1 < m THEN <<>> ELSE s
      BY <1>5, <3>1
    <3>3. f[k] = f[k - 1] \o seqs[k]
      BY <1>3, <3>1 DEF Joins
    <3>4. CASE k < m
      <4>1. k - 1 < m /\ k # m
        BY <3>4
      <4> QED
        BY <1>1, <3>2, <3>3, <3>4, <4>1
    <3>5. CASE k = m
      <4>1. k - 1 < m /\ ~(k < m)
        BY <3>5
      <4> QED
        BY <1>1, <3>2, <3>3, <3>5, <4>1 DEF s
    <3>6. CASE k > m
      <4>1. ~(k - 1 < m) /\ ~(k < m) /\ k # m
        BY <3>6
      <4> QED
        BY <1>1, <3>2, <3>3, <4>1 DEF s
    <3> QED
      BY <3>4, <3>5, <3>6
  <2> QED
    BY <2>1, <2>2
<1>6. N \in G
  <2> HIDE DEF G
  <2>1. 0..N \subseteq G
    BY <1>4, <1>5, UpToInduction
  <2> QED
    BY <2>1
<1>7. f[N] = s
  BY <1>6
<1> QED
  BY <1>3, <1>7

LEMMA SelectedNone ==
    ASSUME NEW S, NEW s \in Seq(S), NEW P, P \cap 1..Len(s) = {}
    PROVE  Selected(s, P) = <<>>
<1> DEFINE q == Selected(s, P)
<1>1. q \in Seq(S) /\ Len(q) \in Nat /\ \A i \in 1..Len(q) : \E k \in P \cap 1..Len(s) : q[i] = s[k]
  BY SelectedElements
<1> HIDE DEF q
<1>2. Len(q) = 0
  <2>1. 1 \notin 1..Len(q)
    BY <1>1
  <2> QED
    BY <1>1, <2>1
<1> QED
  BY <1>1, <1>2, EmptySeq DEF q

LEMMA SelectedAll ==
    ASSUME NEW S, NEW s \in Seq(S), NEW P, 1..Len(s) \subseteq P
    PROVE  Selected(s, P) = s
<1> DEFINE N == Len(s)
<1>1. N \in Nat
  OBVIOUS
<1>2. PICK f : Grows(f, s, P, N) /\ Selected(s, P) = f[N]
  BY SelectedGrows
<1> DEFINE Copies(k) == f[k] \in Seq(S) /\ Len(f[k]) = k /\ \A i \in 1..k : f[k][i] = s[i]
           G == {k \in 0..N : Copies(k)}
<1>3. 0 \in G
  <2>1. f[0] = <<>> /\ f[0] \in Seq(S) /\ Len(f[0]) = 0 /\ 1..0 = {}
    BY <1>2 DEF Grows
  <2>2. Copies(0)
    BY <2>1
  <2> QED
    BY <1>1, <2>2
<1>4. ASSUME NEW k \in 1..N, k - 1 \in G
      PROVE  k \in G
  <2>1. Copies(k - 1) /\ k \in 0..N /\ k \in P /\ s[k] \in S /\ k \in Nat
    BY <1>1, <1>4
  <2>2. f[k] = Append(f[k - 1], s[k])
    BY <1>2, <2>1 DEF Grows
  <2> DEFINE q == f[k - 1]
  <2>3. q \in Seq(S) /\ Len(q) = k - 1 /\ \A i \in 1..(k - 1) : q[i] = s[i]
    BY <2>1
  <2>4. f[k] = Append(q, s[k])
    BY <2>2
  <2> HIDE DEF q
  <2>5. /\ f[k] \in Seq(S) /\ Len(f[k]) = k /\ f[k][k] = s[k]
        /\ \A i \in 1..(k - 1) : f[k][i] = q[i]
    BY <2>1, <2>3, <2>4
  <2>6. \A i \in 1..k : i = k \/ i \in 1..(k - 1)
    BY <2>1
  <2>7. \A i \in 1..k : f[k][i] = s[i]
    BY <2>3, <2>5, <2>6
  <2> QED
    BY <2>1, <2>5, <2>7
<1>5. N \in G
  <2> HIDE DEF G, N
  <2>1. 0..N \subseteq G
    BY <1>1, <1>3, <1>4, UpToInduction
  <2> QED
    BY <1>1, <2>1
<1>6. Copies(N)
  BY <1>5
<1> HIDE DEF N
<1>7. f[N] = s
  BY <1>6, SeqEqual DEF N
<1> QED
  BY <1>2, <1>7

OfPass(s, p) == {i \in DOMAIN s : s[i].passNumber = p}

LEMMA ByPassIs ==
    ASSUME NEW s \in Seq(EvalRecords)
    PROVE  /\ ByPass(s) = Selected(s, OfPass(s, 1)) \o Selected(s, OfPass(s, 2))
           /\ Selected(s, OfPass(s, 1)) \in Seq(EvalRecords)
           /\ Selected(s, OfPass(s, 2)) \in Seq(EvalRecords)
           /\ ByPass(s) \in Seq(EvalRecords)
<1> DEFINE T == Seq(EvalRecords)
           seqs == [p \in Passes |-> Selected(s, OfPass(s, p))]
<1>1. \A p : Selected(s, OfPass(s, p)) \in T
  BY SelectedElements
<1>2. Passes = 1..2 /\ 1 \in Passes /\ 2 \in Passes
  BY DEF Passes
<1> HIDE DEF T
<1>3. seqs \in [1..2 -> T] /\ seqs[1] = Selected(s, OfPass(s, 1)) /\ seqs[2] = Selected(s, OfPass(s, 2))
  BY <1>1, <1>2
<1>4. ByPass(s) = FlattenSeq(seqs)
  BY DEF ByPass, OfPass
<1> HIDE DEF seqs
<1>5. Len(seqs) = 2
  BY <1>3
<1>6. FlattenSeq(seqs) = seqs[1] \o seqs[2]
  BY <1>1, <1>3, <1>5, FlattenTwo DEF T
<1>7. Selected(s, OfPass(s, 1)) \o Selected(s, OfPass(s, 2)) \in T
  BY <1>1, ConcatProperties DEF T
<1> QED
  BY <1>1, <1>3, <1>4, <1>6, <1>7 DEF T

(* A permutation of the places.                                            *)
Arranges(at, q, s) ==
    /\ at \in [1..Len(q) -> 1..Len(s)]
    /\ \A i, j \in 1..Len(q) : at[i] = at[j] => i = j
    /\ \A k \in 1..Len(s) : \E i \in 1..Len(q) : at[i] = k
    /\ \A i \in 1..Len(q) : q[i] = s[at[i]]

Takes(at, q, s, P) ==
    /\ at \in [1..Len(q) -> P]
    /\ \A i, j \in 1..Len(q) : at[i] = at[j] => i = j
    /\ \A k \in P : \E i \in 1..Len(q) : at[i] = k
    /\ \A i \in 1..Len(q) : q[i] = s[at[i]]

LEMMA SelectedOnce ==
    ASSUME NEW S, NEW s \in Seq(S), NEW P, P \subseteq 1..Len(s)
    PROVE  \E at : Takes(at, Selected(s, P), s, P)
<1> DEFINE q == Selected(s, P)
           m == Len(q)
<1>1. q \in Seq(S) /\ \E at : Chooses(at, q, s, P, Len(s))
  BY SelectedPlaces
<1>2. PICK at : Chooses(at, q, s, P, Len(s))
  BY <1>1
<1>3. m \in Nat /\ Len(s) \in Nat
  BY <1>1
<1>4. P \cap 1..Len(s) = P
  OBVIOUS
<1> HIDE DEF q
<1>5. /\ at \in [1..m -> P]
      /\ \A i, j \in 1..m : i < j => at[i] < at[j]
      /\ \A k \in P : \E i \in 1..m : at[i] = k
      /\ \A i \in 1..m : q[i] = s[at[i]]
  BY <1>2, <1>4 DEF Chooses, Lists
<1> HIDE DEF m
<1>6. ASSUME NEW i \in 1..m, NEW j \in 1..m, at[i] = at[j]
      PROVE  i = j
  <2>1. at[i] \in Nat
    <3>1. at[i] \in P
      BY <1>5
    <3>2. at[i] \in 1..Len(s)
      BY <3>1
    <3> QED
      BY <3>2
  <2>2. ~(i < j) /\ ~(j < i)
    BY <1>5, <1>6, <2>1
  <2> QED
    BY <1>3, <2>2
<1> QED
  BY <1>5, <1>6 DEF q, m, Takes

LEMMA ByPassArranges ==
    ASSUME NEW s \in Seq(EvalRecords)
    PROVE  \E at : Arranges(at, ByPass(s), s)
<1> DEFINE N == Len(s)
           P == OfPass(s, 1)
           R == OfPass(s, 2)
           q1 == Selected(s, P)
           q2 == Selected(s, R)
           q == ByPass(s)
           m == Len(q1)
           l == Len(q2)
<1>1. P \subseteq 1..N /\ R \subseteq 1..N /\ P \cap R = {} /\ 1..N \subseteq P \cup R
  <2>1. DOMAIN s = 1..N /\ \A i \in 1..N : s[i] \in EvalRecords
    OBVIOUS
  <2>2. \A i \in 1..N : s[i].passNumber = 1 \/ s[i].passNumber = 2
    BY <2>1 DEF EvalRecords, Passes
  <2> QED
    BY <2>1, <2>2 DEF OfPass
<1>2. /\ q1 \in Seq(EvalRecords) /\ q2 \in Seq(EvalRecords) /\ q = q1 \o q2
      /\ m \in Nat /\ l \in Nat
  <2>1. q1 \in Seq(EvalRecords) /\ q2 \in Seq(EvalRecords) /\ q = q1 \o q2
    BY ByPassIs
  <2> HIDE DEF q1, q2, q
  <2> QED
    BY <2>1
<1> HIDE DEF P, R
<1>3. PICK a : Takes(a, q1, s, P)
  BY <1>1, SelectedOnce
<1>4. PICK b : Takes(b, q2, s, R)
  BY <1>1, SelectedOnce
<1> HIDE DEF q1, q2, q, N
<1>5. /\ Len(q) = m + l
      /\ \A i \in 1..(m + l) : q[i] = IF i <= m THEN q1[i] ELSE q2[i - m]
  BY <1>2, ConcatProperties
<1>a. /\ a \in [1..m -> P]
      /\ \A i, j \in 1..m : a[i] = a[j] => i = j
      /\ \A k \in P : \E i \in 1..m : a[i] = k
      /\ \A i \in 1..m : q1[i] = s[a[i]]
  BY <1>3 DEF Takes
<1>b. /\ b \in [1..l -> R]
      /\ \A i, j \in 1..l : b[i] = b[j] => i = j
      /\ \A k \in R : \E i \in 1..l : b[i] = k
      /\ \A i \in 1..l : q2[i] = s[b[i]]
  BY <1>4 DEF Takes
<1> HIDE DEF m, l
<1> DEFINE at == [i \in 1..(m + l) |-> IF i <= m THEN a[i] ELSE b[i - m]]
<1>6. ASSUME NEW i \in 1..(m + l)
      PROVE  \/ i \in 1..m /\ at[i] = a[i] /\ at[i] \in P /\ q[i] = s[a[i]]
             \/ i - m \in 1..l /\ i > m /\ at[i] = b[i - m] /\ at[i] \in R /\ q[i] = s[b[i - m]]
  <2>1. CASE i <= m
    <3>1. i \in 1..m /\ at[i] = a[i]
      BY <1>2, <2>1
    <3> QED
      BY <1>a, <1>5, <2>1, <3>1
  <2>2. CASE ~(i <= m)
    <3>1. i - m \in 1..l /\ i > m /\ at[i] = b[i - m]
      BY <1>2, <2>2
    <3> QED
      BY <1>b, <1>5, <2>2, <3>1
  <2> QED
    BY <2>1, <2>2
<1>7. at \in [1..(m + l) -> 1..N]
  <2>1. \A i \in 1..(m + l) : at[i] \in 1..N
    BY <1>1, <1>6
  <2>2. at = [i \in 1..(m + l) |-> at[i]]
    OBVIOUS
  <2> HIDE DEF at
  <2> QED
    BY <2>1, <2>2
<1>8. ASSUME NEW k \in 1..N
      PROVE  \E i \in 1..(m + l) : at[i] = k
  <2>1. CASE k \in P
    <3>1. PICK i \in 1..m : a[i] = k
      BY <1>a, <2>1
    <3>2. i \in 1..(m + l) /\ i <= m
      BY <1>2
    <3> QED
      BY <3>1, <3>2
  <2>2. CASE k \in R
    <3>1. PICK i \in 1..l : b[i] = k
      BY <1>b, <2>2
    <3>2. i + m \in 1..(m + l) /\ ~(i + m <= m) /\ (i + m) - m = i
      BY <1>2
    <3> QED
      BY <3>1, <3>2
  <2> QED
    BY <1>1, <2>1, <2>2
<1> HIDE DEF at
<1>9. ASSUME NEW i \in 1..(m + l), NEW j \in 1..(m + l), at[i] = at[j]
      PROVE  i = j
  <2>1. CASE i \in 1..m /\ at[i] = a[i] /\ at[i] \in P
    <3>1. j \in 1..m /\ at[j] = a[j]
      BY <1>1, <1>6, <1>9, <2>1
    <3> QED
      BY <1>a, <1>9, <2>1, <3>1
  <2>2. CASE i - m \in 1..l /\ at[i] = b[i - m] /\ at[i] \in R
    <3>1. j - m \in 1..l /\ at[j] = b[j - m]
      BY <1>1, <1>6, <1>9, <2>2
    <3>2. i - m = j - m
      BY <1>b, <1>9, <2>2, <3>1
    <3> QED
      BY <1>2, <3>2
  <2> QED
    BY <1>6, <2>1, <2>2
<1>10. \A i \in 1..(m + l) : q[i] = s[at[i]]
  BY <1>6
<1> QED
  BY <1>5, <1>7, <1>8, <1>9, <1>10 DEF Arranges, q, N

(* A table that is arranged anew has the same rows, as often.              *)
LEMMA ArrangedRows ==
    ASSUME NEW s \in Seq(EvalRecords), NEW q \in Seq(EvalRecords), NEW at, Arranges(at, q, s)
    PROVE  /\ Len(q) = Len(s)
           /\ \A result : Graded(q, result) = Graded(s, result)
           /\ \A i \in 1..Len(q) : \E k \in 1..Len(s) : q[i] = s[k]
           /\ \A k \in 1..Len(s) : \E i \in 1..Len(q) : q[i] = s[k]
<1> DEFINE N == Len(s)
           m == Len(q)
<1>1. N \in Nat /\ m \in Nat /\ DOMAIN s = 1..N /\ DOMAIN q = 1..m
  OBVIOUS
<1>2. /\ at \in [1..m -> 1..N]
      /\ \A i, j \in 1..m : at[i] = at[j] => i = j
      /\ \A k \in 1..N : \E i \in 1..m : at[i] = k
      /\ \A i \in 1..m : q[i] = s[at[i]]
  BY DEF Arranges
<1> HIDE DEF N, m
<1>3. IsFiniteSet(1..m) /\ IsFiniteSet(1..N) /\ Cardinality(1..m) = m /\ Cardinality(1..N) = N
  <2>1. 1 \in Int /\ m \in Int /\ N \in Int
    BY <1>1
  <2>2. /\ IsFiniteSet(1..m) /\ Cardinality(1..m) = IF 1 > m THEN 0 ELSE m - 1 + 1
        /\ IsFiniteSet(1..N) /\ Cardinality(1..N) = IF 1 > N THEN 0 ELSE N - 1 + 1
    BY <2>1, FS_Interval
  <2> QED
    BY <1>1, <2>2
<1>4. m = N
  <2>1. at \in Bijection(1..m, 1..N)
    BY <1>2, Fun_IsBij
  <2>2. ExistsBijection(1..m, 1..N)
    BY <2>1 DEF ExistsBijection
  <2> QED
    BY <1>3, <2>2, FS_Bijection
<1>5. ASSUME NEW result
      PROVE  Graded(q, result) = Graded(s, result)
  <2> DEFINE there == {i \in DOMAIN q : q[i].result = result}
             here == {k \in DOMAIN s : s[k].result = result}
             f == [i \in there |-> at[i]]
  <2>1. there \in SUBSET (1..m) /\ \A i \in there : at[i] \in here
    BY <1>1, <1>2
  <2>2. \A k \in here : \E i \in there : at[i] = k
    BY <1>1, <1>2
  <2>3. f \in [there -> here] /\ \A i \in there : f[i] = at[i]
    BY <2>1
  <2> HIDE DEF f
  <2>4. \A i, j \in there : f[i] = f[j] => i = j
    BY <1>2, <2>1, <2>3
  <2>5. \A k \in here : \E i \in there : f[i] = k
    BY <2>2, <2>3
  <2>6. IsFiniteSet(there)
    BY <1>3, <2>1, FS_Subset
  <2> HIDE DEF there, here
  <2>7. f \in Bijection(there, here)
    BY <2>3, <2>4, <2>5, Fun_IsBij
  <2>8. ExistsBijection(there, here)
    BY <2>7 DEF ExistsBijection
  <2>9. Cardinality(here) = Cardinality(there)
    BY <2>6, <2>8, FS_Bijection
  <2> QED
    BY <2>9 DEF Graded, here, there
<1>6. /\ \A i \in 1..m : \E k \in 1..N : q[i] = s[k]
      /\ \A k \in 1..N : \E i \in 1..m : q[i] = s[k]
  BY <1>2
<1> QED
  BY <1>4, <1>5, <1>6 DEF N, m

LEMMA ByPassRows ==
    ASSUME NEW s \in Seq(EvalRecords)
    PROVE  /\ ByPass(s) \in Seq(EvalRecords)
           /\ Len(ByPass(s)) = Len(s)
           /\ \A result : Graded(ByPass(s), result) = Graded(s, result)
           /\ \A i \in 1..Len(ByPass(s)) : \E k \in 1..Len(s) : ByPass(s)[i] = s[k]
           /\ \A k \in 1..Len(s) : \E i \in 1..Len(ByPass(s)) : ByPass(s)[i] = s[k]
<1>1. ByPass(s) \in Seq(EvalRecords)
  BY ByPassIs
<1>2. PICK at : Arranges(at, ByPass(s), s)
  BY ByPassArranges
<1> QED
  BY <1>1, <1>2, ArrangedRows

(* A table of one criterion is in its order.                               *)
LEMMA ByCriterionOfOne ==
    ASSUME NEW s \in Seq(EvalRecords), NEW r \in Requirements, \A i \in 1..Len(s) : s[i].criterion = r
    PROVE  ByCriterion(s) = s
<1> DEFINE K == Cardinality(Requirements)
           Rank(k) == {i \in DOMAIN s : CriterionRank[s[i].criterion] = k}
           seqs == [k \in 1..K |-> Selected(s, Rank(k))]
           m == CriterionRank[r]
           T == Seq(EvalRecords)
<1>1. DOMAIN s = 1..Len(s)
  OBVIOUS
<1>2. m \in 1..K /\ K \in Nat
  BY RankIsInjective, FS_CardinalityType
<1>3. K \in Nat \ {0} /\ 1..K = 1..Cardinality(Requirements)
  BY <1>2
<1>4. ByCriterion(s) = FlattenSeq(seqs)
  BY DEF ByCriterion
<1>5. \A k \in 1..K : Selected(s, Rank(k)) \in T
  <2> HIDE DEF Rank
  <2> QED
    BY SelectedElements
<1>6. Selected(s, Rank(m)) = s
  <2>1. 1..Len(s) \subseteq Rank(m)
    BY <1>1
  <2> HIDE DEF Rank, m
  <2> QED
    BY <2>1, SelectedAll
<1>7. ASSUME NEW k \in 1..K, k # m
      PROVE  Selected(s, Rank(k)) = <<>>
  <2>1. Rank(k) \cap 1..Len(s) = {}
    BY <1>1, <1>7
  <2> HIDE DEF Rank, m
  <2> QED
    BY <2>1, SelectedNone
<1> HIDE DEF Rank, m, K, T
<1>8. seqs \in [1..K -> T]
  BY <1>5
<1>9. Len(seqs) = K /\ \A k \in 1..K : seqs[k] = Selected(s, Rank(k))
  BY <1>3, <1>8, FunctionsAreSequences
<1> HIDE DEF seqs
<1>10. seqs[m] = s /\ \A k \in 1..K : k # m => seqs[k] = <<>>
  BY <1>2, <1>6, <1>7, <1>9
<1>11. FlattenSeq(seqs) = seqs[m]
  BY <1>2, <1>3, <1>9, <1>10, FlattenOne
<1> QED
  BY <1>4, <1>10, <1>11

(* The rows of one correction: first passes that failed, and second passes *)
(* with one result.                                                        *)
Corrects(s, r, result) ==
    /\ s \in Seq(EvalRecords)
    /\ \A i \in 1..Len(s) :
          /\ s[i].criterion = r
          /\ s[i].passNumber = 1 => s[i].result = "fail"
          /\ s[i].passNumber = 2 => s[i].result = result
    /\ \E i \in 1..Len(s) : s[i].passNumber = 1

Corrected(s) == \E i \in DOMAIN s : s[i].passNumber = 2 /\ s[i].result = "pass"

LEMMA CorrectsFromFailToPass ==
    ASSUME NEW s, NEW r, NEW result, Corrects(s, r, result)
    PROVE  WentFromFailToPass(ByPass(s)) <=> Corrected(s)
<1> DEFINE P == OfPass(s, 1)
           R == OfPass(s, 2)
           q1 == Selected(s, P)
           q2 == Selected(s, R)
           q == ByPass(s)
<1>1. s \in Seq(EvalRecords)
  BY DEF Corrects
<1>2. q1 \in Seq(EvalRecords) /\ q2 \in Seq(EvalRecords) /\ q = q1 \o q2
  BY <1>1, ByPassIs
<1>3. /\ \A i \in 1..Len(q1) : \E k \in P \cap 1..Len(s) : q1[i] = s[k]
      /\ \A k \in P \cap 1..Len(s) : \E i \in 1..Len(q1) : q1[i] = s[k]
      /\ \A i \in 1..Len(q2) : \E k \in R \cap 1..Len(s) : q2[i] = s[k]
      /\ \A k \in R \cap 1..Len(s) : \E i \in 1..Len(q2) : q2[i] = s[k]
  <2> HIDE DEF P, R
  <2> QED
    BY <1>1, SelectedElements
<1>4. DOMAIN s = 1..Len(s)
  BY <1>1
<1>5. /\ \A i \in 1..Len(q1) : q1[i].result = "fail"
      /\ \A i \in 1..Len(q2) : q2[i].result = result
      /\ \E i \in 1..Len(q1) : TRUE
      /\ Corrected(s) <=> (result = "pass" /\ \E i \in 1..Len(q2) : TRUE)
  <2> HIDE DEF q1, q2
  <2>1. ASSUME NEW i \in 1..Len(q1)
        PROVE  q1[i].result = "fail"
    <3>1. PICK k \in P \cap 1..Len(s) : q1[i] = s[k]
      BY <1>3
    <3>2. k \in 1..Len(s) /\ s[k].passNumber = 1
      BY DEF OfPass
    <3>3. s[k].result = "fail"
      BY <3>2 DEF Corrects
    <3> QED
      BY <3>1, <3>3
  <2>2. ASSUME NEW i \in 1..Len(q2)
        PROVE  q2[i].result = result
    <3>1. PICK k \in R \cap 1..Len(s) : q2[i] = s[k]
      BY <1>3
    <3>2. k \in 1..Len(s) /\ s[k].passNumber = 2
      BY DEF OfPass
    <3>3. s[k].result = result
      BY <3>2 DEF Corrects
    <3> QED
      BY <3>1, <3>3
  <2>3. \E i \in 1..Len(q1) : TRUE
    <3>1. PICK k \in 1..Len(s) : s[k].passNumber = 1
      BY DEF Corrects
    <3> QED
      BY <1>3, <1>4, <3>1 DEF OfPass
  <2>4. Corrected(s) => (result = "pass" /\ \E i \in 1..Len(q2) : TRUE)
    <3> SUFFICES ASSUME NEW k \in DOMAIN s, s[k].passNumber = 2, s[k].result = "pass"
                 PROVE  result = "pass" /\ \E i \in 1..Len(q2) : TRUE
      BY DEF Corrected
    <3> QED
      BY <1>3, <1>4 DEF Corrects, OfPass
  <2>5. ASSUME result = "pass", NEW i \in 1..Len(q2)
        PROVE  Corrected(s)
    <3>1. PICK k \in R \cap 1..Len(s) : q2[i] = s[k]
      BY <1>3
    <3>2. k \in DOMAIN s /\ s[k].passNumber = 2
      BY <1>4 DEF OfPass
    <3>3. s[k].result = "pass"
      BY <1>4, <2>5, <3>2 DEF Corrects
    <3> QED
      BY <3>2, <3>3 DEF Corrected
  <2> QED
    BY <2>1, <2>2, <2>3, <2>4, <2>5
<1> HIDE DEF q1, q2, q
<1>6. Len(q1) \in Nat \ {0} /\ Len(q2) \in Nat
  <2>1. Len(q1) \in Nat /\ Len(q2) \in Nat
    BY <1>2
  <2> QED
    BY <1>5, <2>1
<1>7. /\ Len(q) = Len(q1) + Len(q2)
      /\ \A i \in 1..(Len(q1) + Len(q2)) : q[i] = IF i <= Len(q1) THEN q1[i] ELSE q2[i - Len(q1)]
      /\ q \in Seq(EvalRecords)
  BY <1>2, ConcatProperties
<1>8. q # <<>> /\ Head(q) = q1[1]
  <2>1. 1 \in 1..(Len(q1) + Len(q2)) /\ 1 <= Len(q1) /\ Len(q) # 0
    BY <1>6, <1>7
  <2>2. q[1] = q1[1]
    BY <1>7, <2>1
  <2>3. q # <<>>
    BY <2>1
  <2> QED
    BY <2>2, <2>3 DEF Head
<1>9. Head(q).result = "fail"
  BY <1>5, <1>6, <1>8
<1>10. CASE Len(q2) = 0
  <2>1. Last(q) = q1[Len(q1)]
    BY <1>6, <1>7, <1>10 DEF Last
  <2>2. Last(q).result = "fail"
    BY <1>5, <1>6, <2>1
  <2>3. ~Corrected(s)
    BY <1>5, <1>10
  <2> QED
    BY <2>2, <2>3 DEF WentFromFailToPass, q
<1>11. CASE Len(q2) # 0
  <2>1. Last(q) = q2[Len(q2)]
    <3>1. /\ Len(q) \in 1..(Len(q1) + Len(q2)) /\ ~(Len(q) <= Len(q1))
          /\ Len(q) - Len(q1) = Len(q2)
      BY <1>6, <1>7, <1>11
    <3> QED
      BY <1>7, <3>1 DEF Last
  <2>2. Len(q2) \in 1..Len(q2)
    BY <1>6, <1>11
  <2>3. Last(q).result = result
    BY <1>5, <2>1, <2>2
  <2>4. Corrected(s) <=> result = "pass"
    BY <1>5, <2>2
  <2> QED
    BY <1>8, <1>9, <2>3, <2>4 DEF WentFromFailToPass, q
<1> QED
  BY <1>10, <1>11

LEMMA NothingByPass == ByPass(<<>>) = <<>>
<1>1. <<>> \in Seq(EvalRecords) /\ Len(<<>>) = 0
  OBVIOUS
<1>2. ByPass(<<>>) \in Seq(EvalRecords) /\ Len(ByPass(<<>>)) = 0
  BY <1>1, ByPassRows
<1> QED
  BY <1>2, EmptySeq

LEMMA ImprovedIsCorrected ==
    ASSUME NEW s, NEW r \in Requirements, NEW result, Corrects(s, r, result)
    PROVE  Improved(s) <=> Corrected(s)
<1> DEFINE Places(c) == {i \in DOMAIN s : s[i].criterion = c}
<1>1. s \in Seq(EvalRecords) /\ DOMAIN s = 1..Len(s) /\ \A i \in 1..Len(s) : s[i].criterion = r
  BY DEF Corrects
<1>2. \A c : OfCriterion(s, c) = Selected(s, Places(c))
  BY DEF OfCriterion
<1>3. 1..Len(s) \subseteq Places(r) /\ \A c : c # r => Places(c) \cap 1..Len(s) = {}
  BY <1>1
<1> HIDE DEF Places
<1>4. OfCriterion(s, r) = s
  BY <1>1, <1>2, <1>3, SelectedAll
<1>5. ASSUME NEW c \in Requirements, c # r
      PROVE  ~WentFromFailToPass(ByPass(OfCriterion(s, c)))
  <2>1. OfCriterion(s, c) = <<>>
    BY <1>1, <1>2, <1>3, <1>5, SelectedNone
  <2>2. ByPass(OfCriterion(s, c)) = <<>>
    BY <2>1, NothingByPass
  <2> QED
    BY <2>2 DEF WentFromFailToPass
<1>6. WentFromFailToPass(ByPass(s)) <=> Corrected(s)
  BY CorrectsFromFailToPass
<1> QED
  BY <1>4, <1>5, <1>6 DEF Improved

LEMMA MissedIsDropped ==
    ASSUME NEW output \in Outputs, Missed(output) # None
    PROVE  Missed(output) \in ToSet(output.droppedRequirements)
<1> DEFINE s == output.droppedRequirements
<1>1. s \in Seq(Requirements) /\ s # <<>> /\ Missed(output) = Head(s)
  BY LoopAssumption DEF Missed
<1> HIDE DEF s
<1>2. 1 \in DOMAIN s /\ Head(s) = s[1]
  BY <1>1
<1> QED
  BY <1>1, <1>2 DEF ToSet, s

(***************************************************************************)
(* The rows of one deal, by loops that ran on one input captured once.     *)
(***************************************************************************)
GradersOf(deal) ==
    {n \in Requests : \E i \in DOMAIN evals : evals[i].evalCase = n /\ evals[i].deal = deal}

OnOneInput(deal) ==
    /\ \A n \in GradersOf(deal) : calls[n].source = "cache" /\ Undisturbed(n)
    /\ Cardinality({calls[n].transcript : n \in GradersOf(deal)}) = 1

Second(t, r) == IF r \in ToSet(cache[<<t, 2>>].droppedRequirements) THEN "fail" ELSE "pass"

Agreed(deal, t, r) ==
    /\ GradersOf(deal) # {}
    /\ r \in Requirements /\ cache[<<t, 1>>] \in Outputs /\ r = Missed(cache[<<t, 1>>])
    /\ \A n \in GradersOf(deal) :
          /\ calls[n].op = "loop" /\ calls[n].stage = "grade2" /\ calls[n].deal = deal
          /\ calls[n].source = "cache" /\ calls[n].transcript = t /\ calls[n].missed = r
          /\ <<t, 1>> \notin disturbed /\ <<t, 2>> \notin disturbed

LEMMA GradersAreFinite ==
    ASSUME NEW deal
    PROVE  IsFiniteSet(GradersOf(deal)) /\ GradersOf(deal) \subseteq Requests
<1>1. IsFiniteSet(Requests)
  <2>1. 1 \in Int /\ MaxRequests \in Int
    BY LoopAssumption
  <2> QED
    BY <2>1, FS_Interval DEF Requests
<1>2. GradersOf(deal) \in SUBSET Requests
  BY DEF GradersOf
<1> QED
  BY <1>1, <1>2, FS_Subset

LEMMA GradersAgree ==
    ASSUME ReplayInv, NEW deal \in Deals, OnOneInput(deal)
    PROVE  \E t \in Transcripts, r \in Requirements : Agreed(deal, t, r)
<1> DEFINE graders == GradersOf(deal)
           heard == {calls[n].transcript : n \in graders}
           f == [n \in graders |-> calls[n].transcript]
<1>1. \E t : heard = {t}
  <2>1. IsFiniteSet(graders)
    BY GradersAreFinite
  <2>2. f \in Surjection(graders, heard)
    <3>1. f \in [graders -> heard] /\ \A t \in heard : \E n \in graders : f[n] = t
      OBVIOUS
    <3> HIDE DEF f, heard, graders
    <3> QED
      BY <3>1 DEF Surjection
  <2> HIDE DEF f
  <2>3. IsFiniteSet(heard)
    BY <2>1, <2>2, FS_Surjection
  <2>4. Cardinality(heard) = 1
    BY DEF OnOneInput
  <2> HIDE DEF heard
  <2> QED
    BY <2>3, <2>4, FS_Singleton
<1>2. PICK t : heard = {t}
  BY <1>1
<1>3. graders # {} /\ \A n \in graders : calls[n].transcript = t
  BY <1>2
<1>4. ASSUME NEW n \in graders
      PROVE  /\ calls[n].op = "loop" /\ calls[n].stage = "grade2" /\ calls[n].deal = deal
             /\ calls[n].source = "cache" /\ calls[n].transcript = t
             /\ <<t, 1>> \notin disturbed /\ <<t, 2>> \notin disturbed
             /\ t \in Transcripts /\ cache[<<t, 1>>] \in Outputs
             /\ calls[n].missed = Missed(cache[<<t, 1>>]) /\ calls[n].missed \in Requirements
  <2> DEFINE c == calls[n]
  <2>1. n \in Requests
    BY DEF GradersOf
  <2>2. PICK i \in DOMAIN evals : evals[i].evalCase = n /\ evals[i].deal = deal
    BY DEF GradersOf
  <2>3. DOMAIN evals = 1..Len(evals)
    BY DEF ReplayInv, EvalsInv
  <2>4. GradedBy(n, c, evals[i], cache, disturbed)
    BY <2>2, <2>3 DEF ReplayInv, EvalsInv
  <2>5. /\ Reads(c, inputs, cache, disturbed) /\ KeptBy(n, c, cases, audits, gates)
        /\ c.transcript = t /\ c.source = "cache"
        /\ <<c.transcript, 1>> \notin disturbed /\ <<c.transcript, 2>> \notin disturbed
    BY <1>3, <2>1 DEF ReplayInv, CacheInv, KeptInv, OnOneInput, Undisturbed
  <2> HIDE DEF c
  <2>6. c.op = "loop" /\ c.stage = "grade2" /\ c.deal = deal
    BY <2>2, <2>4 DEF GradedBy
  <2>7. /\ c.transcript \in Transcripts /\ cache[<<c.transcript, 1>>] \in Outputs
        /\ c.missed = Missed(cache[<<c.transcript, 1>>])
    BY <2>5, <2>6 DEF Reads, Asks, HasRead
  <2>8. c.missed \in Requirements
    BY <2>5, <2>6 DEF KeptBy
  <2> QED
    BY <2>5, <2>6, <2>7, <2>8 DEF c
<1> DEFINE r == Missed(cache[<<t, 1>>])
<1>5. t \in Transcripts /\ r \in Requirements
  BY <1>3, <1>4
<1>6. Agreed(deal, t, r)
  BY <1>3, <1>4 DEF Agreed
<1> QED
  BY <1>5, <1>6

(* The rows are those of the graders.                                      *)
LEMMA TableRows ==
    ASSUME ReplayInv, NEW deal \in Deals
    PROVE  /\ OfDeal(evals, deal) \in Seq(EvalRecords)
           /\ \A i \in 1..Len(OfDeal(evals, deal)) :
                 \E k \in 1..Len(evals) : OfDeal(evals, deal)[i] = evals[k] /\ evals[k].deal = deal
           /\ \A k \in 1..Len(evals) :
                 evals[k].deal = deal =>
                    \E i \in 1..Len(OfDeal(evals, deal)) : OfDeal(evals, deal)[i] = evals[k]
<1> DEFINE P == {i \in DOMAIN evals : evals[i].deal = deal}
           table == OfDeal(evals, deal)
<1>1. evals \in Seq(EvalRecords) /\ DOMAIN evals = 1..Len(evals)
  BY DEF ReplayInv, EvalsInv
<1>2. table = Selected(evals, P)
  BY DEF OfDeal
<1>3. \A k : k \in P <=> (k \in 1..Len(evals) /\ evals[k].deal = deal)
  BY <1>1
<1> HIDE DEF P, table
<1>4. /\ table \in Seq(EvalRecords)
      /\ \A i \in 1..Len(table) : \E k \in P \cap 1..Len(evals) : table[i] = evals[k]
      /\ \A k \in P \cap 1..Len(evals) : \E i \in 1..Len(table) : table[i] = evals[k]
  <2>1. /\ Selected(evals, P) \in Seq(EvalRecords)
        /\ \A i \in 1..Len(Selected(evals, P)) :
              \E k \in P \cap 1..Len(evals) : Selected(evals, P)[i] = evals[k]
        /\ \A k \in P \cap 1..Len(evals) :
              \E i \in 1..Len(Selected(evals, P)) : Selected(evals, P)[i] = evals[k]
    BY <1>1, SelectedElements
  <2> QED
    BY <1>2, <2>1
<1> QED
  BY <1>3, <1>4 DEF table

LEMMA RowsAreGraded ==
    ASSUME ReplayInv, NEW deal \in Deals, NEW t, NEW r, Agreed(deal, t, r),
           NEW k \in 1..Len(evals), evals[k].deal = deal
    PROVE  /\ evals[k] \in EvalRecords /\ evals[k].evalCase \in GradersOf(deal)
           /\ evals[k].criterion = r
           /\ evals[k].passNumber = 1 => evals[k].result = "fail"
           /\ evals[k].passNumber = 2 => evals[k].result = Second(t, r)
<1> DEFINE e == evals[k]
           n == e.evalCase
           c == calls[n]
<1>1. e \in EvalRecords /\ GradedBy(n, c, e, cache, disturbed) /\ k \in DOMAIN evals
  BY DEF ReplayInv, EvalsInv
<1>2. n \in Requests
  BY <1>1 DEF EvalRecords
<1>3. n \in GradersOf(deal)
  BY <1>1, <1>2 DEF GradersOf
<1>4. /\ c.source = "cache" /\ c.transcript = t /\ c.missed = r
      /\ <<t, 1>> \notin disturbed /\ <<t, 2>> \notin disturbed
      /\ r \in Requirements /\ cache[<<t, 1>>] \in Outputs /\ r = Missed(cache[<<t, 1>>])
  BY <1>3 DEF Agreed
<1> HIDE DEF c, n, e
<1>5. e.criterion = r /\ e = GradeOf(n, c.deal, r, e.passNumber, cache[<<t, e.passNumber>>])
  BY <1>1, <1>4 DEF GradedBy
<1>6. e.result = IF r \in ToSet(cache[<<t, e.passNumber>>].droppedRequirements) THEN "fail" ELSE "pass"
  BY <1>5 DEF GradeOf
<1>7. r \in ToSet(cache[<<t, 1>>].droppedRequirements)
  <2>1. r # None
    BY <1>4, LoopAssumption
  <2> QED
    BY <1>4, <2>1, MissedIsDropped
<1>8. e.passNumber = 1 => e.result = "fail"
  BY <1>6, <1>7
<1>9. e.passNumber = 2 => e.result = Second(t, r)
  BY <1>6 DEF Second
<1> QED
  BY <1>1, <1>3, <1>5, <1>8, <1>9 DEF n, e

(* Every grader has a first pass in the table.                             *)
LEMMA FirstPasses ==
    ASSUME ReplayInv, NEW deal \in Deals, NEW t, NEW r, Agreed(deal, t, r), NEW n \in GradersOf(deal)
    PROVE  \E i \in 1..Len(OfDeal(evals, deal)) :
              OfDeal(evals, deal)[i].passNumber = 1 /\ OfDeal(evals, deal)[i].evalCase = n
<1> DEFINE own == OfEvalCase(evals, n)
           P == {i \in DOMAIN evals : evals[i].evalCase = n}
<1>1. n \in Requests /\ calls[n].stage = "grade2" /\ calls[n].deal = deal
  BY DEF GradersOf, Agreed
<1>2. InPasses(own, Recorded(calls[n]))
  BY <1>1, OwnEvals
<1>3. Recorded(calls[n]) \in {1, 2}
  BY <1>1 DEF Recorded
<1>4. Len(own) \in {1, 2} /\ own[1].passNumber = 1 /\ 1 \in 1..Len(own)
  BY <1>2, <1>3 DEF InPasses
<1>5. evals \in Seq(EvalRecords) /\ DOMAIN evals = 1..Len(evals)
  BY DEF ReplayInv, EvalsInv
<1>6. \A k : k \in P => k \in 1..Len(evals) /\ evals[k].evalCase = n
  BY <1>5
<1>7. own = Selected(evals, P)
  BY DEF OfEvalCase
<1> HIDE DEF P, own
<1>8. \A i \in 1..Len(Selected(evals, P)) :
         \E k \in P \cap 1..Len(evals) : Selected(evals, P)[i] = evals[k]
  BY <1>5, SelectedElements
<1>9. PICK k \in P : own[1] = evals[k]
  BY <1>4, <1>7, <1>8
<1>10. k \in 1..Len(evals) /\ evals[k].evalCase = n /\ evals[k].passNumber = 1
  BY <1>4, <1>6, <1>9
<1>11. GradedBy(n, calls[n], evals[k], cache, disturbed)
  BY <1>10 DEF ReplayInv, EvalsInv
<1>12. evals[k].deal = deal
  BY <1>1, <1>11 DEF GradedBy
<1>13. \E i \in 1..Len(OfDeal(evals, deal)) : OfDeal(evals, deal)[i] = evals[k]
  BY <1>10, <1>12, TableRows
<1> QED
  BY <1>10, <1>13

LEMMA TableCorrects ==
    ASSUME ReplayInv, NEW deal \in Deals, NEW t, NEW r, Agreed(deal, t, r)
    PROVE  Corrects(OfDeal(evals, deal), r, Second(t, r))
<1> DEFINE table == OfDeal(evals, deal)
<1>1. /\ table \in Seq(EvalRecords)
      /\ \A i \in 1..Len(table) : \E k \in 1..Len(evals) : table[i] = evals[k] /\ evals[k].deal = deal
  BY TableRows
<1>2. PICK n \in GradersOf(deal) : TRUE
  BY DEF Agreed
<1>3. \E i \in 1..Len(table) : table[i].passNumber = 1
  BY FirstPasses
<1> HIDE DEF table
<1>4. ASSUME NEW i \in 1..Len(table)
      PROVE  /\ table[i].criterion = r
             /\ table[i].passNumber = 1 => table[i].result = "fail"
             /\ table[i].passNumber = 2 => table[i].result = Second(t, r)
  <2>1. PICK k \in 1..Len(evals) : table[i] = evals[k] /\ evals[k].deal = deal
    BY <1>1
  <2> QED
    BY <2>1, RowsAreGraded
<1> QED
  BY <1>1, <1>3, <1>4 DEF Corrects, table

(* A healthy rule is one of a correction in the table.                     *)
LEMMA HealthyIsCorrected ==
    ASSUME ReplayInv, NEW deal \in Deals, NEW t, NEW r, Agreed(deal, t, r),
           NEW n \in GradersOf(deal), RuleHealth(n, evals).healthy
    PROVE  Corrected(OfDeal(evals, deal))
<1> DEFINE own == OfEvalCase(evals, n)
           q == ByPass(own)
           table == OfDeal(evals, deal)
<1>1. n \in Requests /\ calls[n].deal = deal
  BY DEF GradersOf, Agreed
<1>2. /\ own \in Seq(EvalRecords)
      /\ \A i \in 1..Len(own) : GradedBy(n, calls[n], own[i], cache, disturbed)
  BY <1>1, OwnEvals
<1>3. q \in Seq(EvalRecords) /\ \A i \in 1..Len(q) : \E k \in 1..Len(own) : q[i] = own[k]
  BY <1>2, ByPassRows
<1>4. q # <<>> /\ Last(q).result = "pass"
  BY DEF RuleHealth, WentFromFailToPass
<1>5. evals \in Seq(EvalRecords) /\ DOMAIN evals = 1..Len(evals)
  BY DEF ReplayInv, EvalsInv
<1> DEFINE P == {i \in DOMAIN evals : evals[i].evalCase = n}
<1>6. own = Selected(evals, P) /\ P \subseteq 1..Len(evals)
  BY <1>5 DEF OfEvalCase
<1> HIDE DEF own, q, P
<1>7. \A i \in 1..Len(Selected(evals, P)) :
         \E k \in P \cap 1..Len(evals) : Selected(evals, P)[i] = evals[k]
  BY <1>5, SelectedElements
<1>8. Len(q) \in 1..Len(q) /\ Last(q) = q[Len(q)]
  BY <1>3, <1>4, EmptySeq DEF Last
<1>9. PICK j \in 1..Len(own) : Last(q) = own[j]
  BY <1>3, <1>8
<1>10. PICK k \in 1..Len(evals) : own[j] = evals[k]
  BY <1>6, <1>7
<1>11. evals[k].deal = deal /\ evals[k].result = "pass"
  <2>1. GradedBy(n, calls[n], own[j], cache, disturbed)
    BY <1>2
  <2> QED
    BY <1>1, <1>4, <1>9, <1>10, <2>1 DEF GradedBy
<1>12. evals[k] \in EvalRecords /\ (evals[k].passNumber = 1 => evals[k].result = "fail")
  BY <1>11, RowsAreGraded
<1>13. evals[k].passNumber = 2
  BY <1>11, <1>12 DEF EvalRecords, Passes
<1>14. /\ table \in Seq(EvalRecords)
       /\ \E i \in 1..Len(table) : table[i] = evals[k]
  <2>1. table \in Seq(EvalRecords)
    BY TableRows
  <2>2. \E i \in 1..Len(table) : table[i] = evals[k]
    BY <1>11, TableRows
  <2> QED
    BY <2>1, <2>2
<1> HIDE DEF table
<1>15. DOMAIN table = 1..Len(table)
  BY <1>14
<1>16. Corrected(table)
  BY <1>11, <1>13, <1>14, <1>15 DEF Corrected
<1> QED
  BY <1>16 DEF table

(* The first pass of every grader failed.                                  *)
LEMMA GradersFail ==
    ASSUME ReplayInv, NEW deal \in Deals, NEW t, NEW r, Agreed(deal, t, r)
    PROVE  Graded(OfDeal(evals, deal), "fail") >= Cardinality(GradersOf(deal))
<1> DEFINE table == OfDeal(evals, deal)
           failed == {i \in DOMAIN table : table[i].result = "fail"}
           first == {i \in failed : table[i].passNumber = 1}
           graders == GradersOf(deal)
           f == [i \in first |-> table[i].evalCase]
<1>1. /\ table \in Seq(EvalRecords)
      /\ \A i \in 1..Len(table) : \E k \in 1..Len(evals) : table[i] = evals[k] /\ evals[k].deal = deal
  BY TableRows
<1>2. Corrects(table, r, Second(t, r))
  BY TableCorrects
<1>3. \A n \in graders : \E i \in 1..Len(table) : table[i].passNumber = 1 /\ table[i].evalCase = n
  BY FirstPasses
<1> HIDE DEF table, graders
<1>4. DOMAIN table = 1..Len(table) /\ Len(table) \in Nat
  BY <1>1
<1>5. \A i \in 1..Len(table) : table[i].evalCase \in graders
  BY <1>1, RowsAreGraded DEF graders
<1>6. IsFiniteSet(failed) /\ IsFiniteSet(first) /\ Cardinality(first) <= Cardinality(failed)
  <2>1. IsFiniteSet(1..Len(table))
    <3>1. 1 \in Int /\ Len(table) \in Int
      BY <1>4
    <3> QED
      BY <3>1, FS_Interval
  <2>2. failed \in SUBSET (1..Len(table)) /\ first \in SUBSET failed
    BY <1>4
  <2> HIDE DEF failed, first
  <2>3. IsFiniteSet(failed)
    BY <2>1, <2>2, FS_Subset
  <2> QED
    BY <2>2, <2>3, FS_Subset
<1>7. f \in Surjection(first, graders)
  <2>1. f \in [first -> graders]
    BY <1>4, <1>5
  <2>2. \A n \in graders : \E i \in first : f[i] = n
    BY <1>2, <1>3, <1>4 DEF Corrects
  <2> HIDE DEF f, first
  <2> QED
    BY <2>1, <2>2 DEF Surjection
<1> HIDE DEF f, first, failed
<1>8. Cardinality(graders) <= Cardinality(first)
  BY <1>6, <1>7, FS_Surjection
<1>9. IsFiniteSet(graders)
  BY <1>6, <1>7, FS_Surjection
<1>10. Cardinality(graders) \in Nat /\ Cardinality(first) \in Nat /\ Cardinality(failed) \in Nat
  BY <1>6, <1>9, FS_CardinalityType
<1>11. Cardinality(failed) >= Cardinality(graders)
  BY <1>6, <1>8, <1>10
<1> QED
  BY <1>11 DEF Graded, failed, graders, table

(* A result is one of the two.                                             *)
LEMMA PassesAndFails ==
    ASSUME NEW s \in Seq(EvalRecords)
    PROVE  Graded(s, "pass") + Graded(s, "fail") = Len(s)
<1> DEFINE passed == {i \in DOMAIN s : s[i].result = "pass"}
           failed == {i \in DOMAIN s : s[i].result = "fail"}
           N == Len(s)
<1>1. N \in Nat /\ DOMAIN s = 1..N /\ \A i \in 1..N : s[i] \in EvalRecords
  OBVIOUS
<1> HIDE DEF N
<1>2. passed \cup failed = 1..N /\ passed \cap failed = {}
  <2>1. \A i \in 1..N : s[i].result = "pass" \/ s[i].result = "fail"
    BY <1>1 DEF EvalRecords
  <2> QED
    BY <1>1, <2>1
<1>3. IsFiniteSet(1..N) /\ Cardinality(1..N) = N
  <2>1. 1 \in Int /\ N \in Int
    BY <1>1
  <2>2. IsFiniteSet(1..N) /\ Cardinality(1..N) = IF 1 > N THEN 0 ELSE N - 1 + 1
    BY <2>1, FS_Interval
  <2> QED
    BY <1>1, <2>2
<1>4. passed \in SUBSET (1..N) /\ failed \in SUBSET (1..N)
  BY <1>2
<1> HIDE DEF passed, failed
<1>5. IsFiniteSet(passed) /\ IsFiniteSet(failed)
  BY <1>3, <1>4, FS_Subset
<1>6. Cardinality(passed \cup failed) = Cardinality(passed) + Cardinality(failed) - Cardinality(passed \cap failed)
  BY <1>5, FS_Union
<1>7. Cardinality(passed \cap failed) = 0 /\ Cardinality(passed) \in Nat /\ Cardinality(failed) \in Nat
  BY <1>2, <1>5, FS_EmptySet, FS_CardinalityType
<1>8. N = Cardinality(passed) + Cardinality(failed)
  <2>1. Cardinality(passed \cup failed) = N
    BY <1>2, <1>3
  <2> QED
    BY <1>6, <1>7, <2>1
<1> QED
  BY <1>8 DEF Graded, passed, failed, N

LEMMA SameSummary ==
    ASSUME NEW s, NEW r \in Requirements, NEW result, Corrects(s, r, result)
    PROVE  SummarizeEvalTable(ByPass(ByCriterion(s))) = SummarizeEvalTable(s)
<1> DEFINE q == ByPass(s)
<1>1. s \in Seq(EvalRecords) /\ DOMAIN s = 1..Len(s)
  BY DEF Corrects
<1>2. ByCriterion(s) = s
  BY <1>1, ByCriterionOfOne DEF Corrects
<1>3. /\ q \in Seq(EvalRecords) /\ Len(q) = Len(s)
      /\ \A graded : Graded(q, graded) = Graded(s, graded)
      /\ \A i \in 1..Len(q) : \E k \in 1..Len(s) : q[i] = s[k]
      /\ \A k \in 1..Len(s) : \E i \in 1..Len(q) : q[i] = s[k]
  BY <1>1, ByPassRows
<1> HIDE DEF q
<1>4. DOMAIN q = 1..Len(q)
  BY <1>3
<1>5. Corrects(q, r, result)
  <2>1. ASSUME NEW i \in 1..Len(q)
        PROVE  /\ q[i].criterion = r
               /\ q[i].passNumber = 1 => q[i].result = "fail"
               /\ q[i].passNumber = 2 => q[i].result = result
    <3>1. PICK k \in 1..Len(s) : q[i] = s[k]
      BY <1>3
    <3> QED
      BY <3>1 DEF Corrects
  <2>2. \E i \in 1..Len(q) : q[i].passNumber = 1
    <3>1. PICK k \in 1..Len(s) : s[k].passNumber = 1
      BY DEF Corrects
    <3>2. PICK i \in 1..Len(q) : q[i] = s[k]
      BY <1>3
    <3> QED
      BY <3>1, <3>2
  <2> QED
    BY <1>3, <2>1, <2>2 DEF Corrects
<1>6. Corrected(q) <=> Corrected(s)
  <2>1. ASSUME Corrected(q) PROVE Corrected(s)
    <3>1. PICK i \in 1..Len(q) : q[i].passNumber = 2 /\ q[i].result = "pass"
      BY <1>4, <2>1 DEF Corrected
    <3>2. PICK k \in 1..Len(s) : q[i] = s[k]
      BY <1>3
    <3> QED
      BY <1>1, <3>1, <3>2 DEF Corrected
  <2>2. ASSUME Corrected(s) PROVE Corrected(q)
    <3>1. PICK k \in 1..Len(s) : s[k].passNumber = 2 /\ s[k].result = "pass"
      BY <1>1, <2>2 DEF Corrected
    <3>2. PICK i \in 1..Len(q) : q[i] = s[k]
      BY <1>3
    <3> QED
      BY <1>4, <3>1, <3>2 DEF Corrected
  <2> QED
    BY <2>1, <2>2
<1>7. Improved(q) <=> Improved(s)
  BY <1>5, <1>6, ImprovedIsCorrected
<1>8. Improved(q) = Improved(s)
  <2>1. Improved(q) \in BOOLEAN /\ Improved(s) \in BOOLEAN
    BY DEF Improved
  <2> QED
    BY <1>7, <2>1
<1> QED
  BY <1>2, <1>3, <1>8 DEF SummarizeEvalTable, q

(* The eval table of a deal says that a correction was made exactly when   *)
(* some second pass honoured its requirement, whatever failed or was still *)
(* running when it was asked for, and reads the same however it is sorted. *)
THEOREM TablesShowTheCorrection == Spec => []TableShowsTheCorrection
<1>1. ReplayInv => TableShowsTheCorrection
  <2> SUFFICES ASSUME ReplayInv, NEW deal \in Deals, OnOneInput(deal)
               PROVE  LET table == OfDeal(evals, deal)
                          summary == SummarizeEvalTable(table)
                      IN  /\ summary.improved <=> Corrected(table)
                          /\ \A n \in GradersOf(deal) : RuleHealth(n, evals).healthy => summary.improved
                          /\ summary.fail >= Cardinality(GradersOf(deal))
                          /\ summary.pass + summary.fail = summary.total
                          /\ summary = SummarizeEvalTable(RunEvals(evals, deal))
    BY DEF TableShowsTheCorrection, OnOneInput, GradersOf, Corrected
  <2> DEFINE table == OfDeal(evals, deal)
             summary == SummarizeEvalTable(table)
  <2>1. PICK t \in Transcripts, r \in Requirements : Agreed(deal, t, r)
    BY GradersAgree
  <2>2. Corrects(table, r, Second(t, r)) /\ table \in Seq(EvalRecords)
    BY <2>1, TableCorrects DEF Corrects
  <2>3. /\ summary.improved = Improved(table) /\ summary.total = Len(table)
        /\ summary.pass = Graded(table, "pass") /\ summary.fail = Graded(table, "fail")
    BY DEF SummarizeEvalTable
  <2>4. Improved(table) <=> Corrected(table)
    BY <2>2, ImprovedIsCorrected
  <2>5. \A n \in GradersOf(deal) : RuleHealth(n, evals).healthy => Corrected(table)
    BY <2>1, HealthyIsCorrected
  <2>6. Graded(table, "fail") >= Cardinality(GradersOf(deal))
    BY <2>1, GradersFail
  <2>7. Graded(table, "pass") + Graded(table, "fail") = Len(table)
    BY <2>2, PassesAndFails
  <2>8. summary = SummarizeEvalTable(RunEvals(evals, deal))
    BY <2>2, SameSummary DEF RunEvals
  <2> HIDE DEF table, summary
  <2>9. /\ summary.improved <=> Corrected(table)
        /\ \A n \in GradersOf(deal) : RuleHealth(n, evals).healthy => summary.improved
        /\ summary.fail >= Cardinality(GradersOf(deal))
        /\ summary.pass + summary.fail = summary.total
    BY <2>3, <2>4, <2>5, <2>6, <2>7
  <2> QED
    BY <2>8, <2>9 DEF table, summary
<1> QED
  BY <1>1, AlwaysReplayInv, PTL

-----------------------------------------------------------------------------
(***************************************************************************)
(* The registry of archived eval cases (EvalLibrary).                      *)
(***************************************************************************)
CONSTANTS VersionRank, KeyOf(_, _)   \* see EvalLibrary
Library == INSTANCE EvalLibrary

KeysAreDistinct(entries) ==
    \A m, n \in DOMAIN entries : Library!SameKey(entries[m], entries[n]) => m = n

FoundFor(entries, e) == Library!GetByIdAndVersion(entries, e.caseId, e.version)

LEMMA FoundEntries ==
    ASSUME NEW entries, NEW e, NEW x
    PROVE  x \in FoundFor(entries, e) <=> \E n \in DOMAIN entries : x = entries[n] /\ Library!SameKey(x, e)
BY DEF FoundFor, Library!GetByIdAndVersion, Library!SameKey, Library!ToSet

(* A case that is put is found under its key and takes no other's place.   *)
LEMMA PutIsFound ==
    ASSUME NEW T, NEW entries \in Seq(T), KeysAreDistinct(entries), NEW e \in T
    PROVE  LET after == Library!Put(entries, e)
           IN  /\ after \in Seq(T) /\ KeysAreDistinct(after)
               /\ FoundFor(after, e) = {e}
               /\ \A x : ~Library!SameKey(x, e) => FoundFor(after, x) = FoundFor(entries, x)
               /\ \A n \in DOMAIN after : after[n] = e \/ \E m \in DOMAIN entries : after[n] = entries[m]
<1> DEFINE after == Library!Put(entries, e)
           N == Len(entries)
<1>1. N \in Nat /\ DOMAIN entries = 1..N /\ \A n \in 1..N : entries[n] \in T
  BY LenProperties
<1> HIDE DEF N
<1>2. CASE \E n \in DOMAIN entries : Library!SameKey(entries[n], e)
  <2> DEFINE new(n) == IF Library!SameKey(entries[n], e) THEN e ELSE entries[n]
  <2>1. after = [n \in 1..N |-> new(n)]
    BY <1>1, <1>2 DEF Library!Put
  <2>2. \A n \in 1..N : new(n) \in T
    BY <1>1
  <2>3. \A n \in 1..N : Library!SameKey(new(n), entries[n])
    BY DEF Library!SameKey
  <2>4. \A n \in 1..N : new(n) = IF Library!SameKey(entries[n], e) THEN e ELSE entries[n]
    OBVIOUS
  <2>5. after \in Seq(T) /\ DOMAIN after = 1..N /\ \A n \in 1..N : after[n] = new(n)
    BY <1>1, <2>1, <2>2
  <2> HIDE DEF after, new
  <2>6. KeysAreDistinct(after)
    <3> SUFFICES ASSUME NEW m \in 1..N, NEW n \in 1..N, Library!SameKey(after[m], after[n])
                 PROVE  m = n
      BY <2>5 DEF KeysAreDistinct
    <3>1. Library!SameKey(after[m], entries[m]) /\ Library!SameKey(after[n], entries[n])
      BY <2>3, <2>5
    <3>2. Library!SameKey(entries[m], entries[n])
      BY <3>1 DEF Library!SameKey
    <3> QED
      BY <1>1, <3>2 DEF KeysAreDistinct
  <2>7. FoundFor(after, e) = {e}
    <3>1. PICK n \in 1..N : Library!SameKey(entries[n], e)
      BY <1>1, <1>2
    <3>2. after[n] = e /\ Library!SameKey(e, e)
      BY <2>4, <2>5, <3>1 DEF Library!SameKey
    <3>3. \A m \in 1..N : Library!SameKey(after[m], e) => after[m] = e
      BY <2>3, <2>4, <2>5 DEF Library!SameKey
    <3>4. ASSUME NEW x
          PROVE  x \in FoundFor(after, e) <=> \E m \in 1..N : x = after[m] /\ Library!SameKey(x, e)
      <4>1. x \in FoundFor(after, e) <=> \E m \in DOMAIN after : x = after[m] /\ Library!SameKey(x, e)
        BY FoundEntries
      <4> QED
        BY <2>5, <4>1
    <3>5. \A x : x \in FoundFor(after, e) <=> x = e
      BY <3>1, <3>2, <3>3, <3>4
    <3> QED
      BY <3>5
  <2>8. ASSUME NEW x, ~Library!SameKey(x, e)
        PROVE  FoundFor(after, x) = FoundFor(entries, x)
    <3>1. ASSUME NEW y PROVE y \in FoundFor(after, x) <=> y \in FoundFor(entries, x)
      <4>1. \A n \in 1..N : Library!SameKey(new(n), x) <=> Library!SameKey(entries[n], x)
        BY <2>3 DEF Library!SameKey
      <4>2. \A n \in 1..N : Library!SameKey(entries[n], x) => new(n) = entries[n]
        BY <2>4, <2>8 DEF Library!SameKey
      <4> QED
        BY <1>1, <2>5, <4>1, <4>2, FoundEntries
    <3> QED
      BY <3>1
  <2> QED
    BY <1>1, <2>4, <2>5, <2>6, <2>7, <2>8 DEF after
<1>3. CASE ~\E n \in DOMAIN entries : Library!SameKey(entries[n], e)
  <2>1. after = Append(entries, e)
    BY <1>3 DEF Library!Put
  <2>2. after \in Seq(T) /\ DOMAIN after = 1..(N + 1)
    BY <1>1, <2>1, AppendProperties DEF N
  <2>3. after[N + 1] = e /\ \A n \in 1..N : after[n] = entries[n]
    BY <1>1, <2>1, AppendProperties DEF N
  <2> HIDE DEF after
  <2>4. \A n \in 1..(N + 1) : n = N + 1 \/ n \in 1..N
    BY <1>1
  <2>5. N + 1 \in 1..(N + 1) /\ \A n \in 1..N : n \in 1..(N + 1)
    BY <1>1
  <2>6. KeysAreDistinct(after)
    BY <1>1, <1>3, <2>2, <2>3, <2>4 DEF KeysAreDistinct, Library!SameKey
  <2>7. FoundFor(after, e) = {e}
    <3>1. Library!SameKey(e, e)
      BY DEF Library!SameKey
    <3> QED
      BY <1>1, <1>3, <2>2, <2>3, <2>4, <2>5, <3>1, FoundEntries
  <2>8. ASSUME NEW x, ~Library!SameKey(x, e)
        PROVE  FoundFor(after, x) = FoundFor(entries, x)
    <3>1. ~Library!SameKey(e, x)
      BY <2>8 DEF Library!SameKey
    <3>2. ASSUME NEW y PROVE y \in FoundFor(after, x) <=> y \in FoundFor(entries, x)
      BY <1>1, <2>2, <2>3, <2>4, <2>5, <3>1, FoundEntries
    <3> QED
      BY <3>2
  <2> QED
    BY <1>1, <2>2, <2>3, <2>4, <2>6, <2>7, <2>8 DEF after
<1> QED
  BY <1>2, <1>3

(* Loading puts one entry after another.                                   *)
LEMMA LoadingPuts ==
    ASSUME NEW T, NEW data \in Seq(T)
    PROVE  \E f \in [0..Len(data) -> {entries \in Seq(T) : KeysAreDistinct(entries)}] :
              /\ f[0] = <<>> /\ Library!FromJSON(data) = f[Len(data)]
              /\ \A n \in 1..Len(data) : f[n] = Library!Put(f[n - 1], data[n])
<1> DEFINE N == Len(data)
           R == {entries \in Seq(T) : KeysAreDistinct(entries)}
           next == [n \in 1..N |-> [q \in R |-> Library!Put(q, data[n])]]
           Loads(f) == f = [n \in 0..N |-> IF n = 0 THEN <<>> ELSE Library!Put(f[n - 1], data[n])]
           loaded == CHOOSE f : Loads(f)
<1>1. N \in Nat /\ \A n \in 1..N : data[n] \in T
  BY LenProperties
<1>2. <<>> \in R
  BY DEF KeysAreDistinct
<1>3. \A n \in 1..N : next[n] \in [R -> R]
  <2> TAKE n \in 1..N
  <2>1. \A q \in R : Library!Put(q, data[n]) \in R
    BY <1>1, PutIsFound
  <2> QED
    BY <2>1
<1>4. Library!FromJSON(data) = loaded[N]
  BY DEF Library!FromJSON
<1> HIDE DEF R
<1>5. PICK f \in [0..N -> R] : Iterates(f, <<>>, next, N)
  <2> HIDE DEF next, N
  <2> QED
    BY <1>1, <1>2, <1>3, IterationExists
<1>6. Loads(f)
  <2>1. f = [k \in 0..N |-> IF k = 0 THEN <<>> ELSE next[k][f[k - 1]]]
    BY <1>5 DEF Iterates
  <2>2. ASSUME NEW k \in 0..N, k # 0
        PROVE  next[k][f[k - 1]] = Library!Put(f[k - 1], data[k])
    <3>1. k \in 1..N /\ k - 1 \in 0..N
      BY <1>1, <2>2
    <3>2. f[k - 1] \in R
      BY <3>1
    <3> QED
      BY <3>1, <3>2
  <2> HIDE DEF next
  <2> QED
    BY <2>1, <2>2
<1>7. Loads(loaded)
  BY <1>6
<1> HIDE DEF loaded
<1>8. /\ loaded[0] = <<>>
      /\ \A n \in 1..N : loaded[n] = Library!Put(loaded[n - 1], data[n])
  BY <1>1, <1>7
<1>9. loaded = f
  <2> DEFINE G == {n \in 0..N : loaded[n] = f[n]}
  <2>1. 0 \in G
    BY <1>1, <1>6, <1>8
  <2>2. ASSUME NEW k \in 1..N, k - 1 \in G
        PROVE  k \in G
    <3>1. f[k] = Library!Put(f[k - 1], data[k])
      BY <1>1, <1>6
    <3> QED
      BY <1>8, <2>2, <3>1
  <2> HIDE DEF G
  <2>3. 0..N \subseteq G
    BY <1>1, <2>1, <2>2, UpToInduction
  <2>4. \A n \in 0..N : loaded[n] = f[n]
    BY <2>3 DEF G
  <2>5. loaded = [n \in 0..N |-> loaded[n]]
    BY <1>7
  <2> QED
    BY <2>4, <2>5
<1> QED
  BY <1>4, <1>8, <1>9 DEF R

(* However a file came about, no two entries of the registry loaded from   *)
(* it share a key, every entry is one of the file's, and under each key    *)
(* the last case of the file is found, and it alone.                       *)
THEOREM TheLastCaseIsFound ==
    ASSUME NEW T, NEW data \in Seq(T)
    PROVE  LET entries == Library!FromJSON(data)
           IN  /\ KeysAreDistinct(entries)
               /\ \A i \in DOMAIN entries : \E n \in DOMAIN data : entries[i] = data[n]
               /\ \A n \in DOMAIN data :
                     (\A m \in DOMAIN data : n < m => ~Library!SameKey(data[m], data[n]))
                     => FoundFor(entries, data[n]) = {data[n]}
<1> DEFINE N == Len(data)
           Latest(n, k) == \A m \in (n + 1)..k : ~Library!SameKey(data[m], data[n])
           Loaded(entries, k) ==
               /\ \A i \in DOMAIN entries : \E n \in 1..k : entries[i] = data[n]
               /\ \A n \in 1..k : Latest(n, k) => FoundFor(entries, data[n]) = {data[n]}
<1>1. N \in Nat /\ DOMAIN data = 1..N /\ \A n \in 1..N : data[n] \in T
  BY LenProperties
<1>2. PICK f \in [0..N -> {entries \in Seq(T) : KeysAreDistinct(entries)}] :
              /\ f[0] = <<>> /\ Library!FromJSON(data) = f[N]
              /\ \A n \in 1..N : f[n] = Library!Put(f[n - 1], data[n])
  BY LoadingPuts
<1> HIDE DEF N
<1> DEFINE G == {k \in 0..N : Loaded(f[k], k)}
<1>3. 0 \in G
  BY <1>1, <1>2
<1>4. ASSUME NEW k \in 1..N, k - 1 \in G
      PROVE  k \in G
  <2> DEFINE q == f[k - 1]
             e == data[k]
             after == Library!Put(q, e)
  <2>1. k - 1 \in 0..N /\ e \in T /\ f[k] = after
    BY <1>1, <1>2
  <2>2. q \in Seq(T) /\ KeysAreDistinct(q) /\ Loaded(q, k - 1)
    BY <1>2, <1>4, <2>1
  <2> HIDE DEF q, e
  <2>3. /\ FoundFor(after, e) = {e}
        /\ \A x : ~Library!SameKey(x, e) => FoundFor(after, x) = FoundFor(q, x)
        /\ \A i \in DOMAIN after : after[i] = e \/ \E m \in DOMAIN q : after[i] = q[m]
    BY <2>1, <2>2, PutIsFound
  <2> HIDE DEF after
  <2>4. \A n \in 1..k : n = k \/ n \in 1..(k - 1)
    BY <1>1
  <2>5. \A n \in 1..(k - 1) : n \in 1..k /\ k \in (n + 1)..k /\ \A m \in (n + 1)..(k - 1) : m \in (n + 1)..k
    BY <1>1
  <2>6. \A i \in DOMAIN after : \E n \in 1..k : after[i] = data[n]
    <3>1. k \in 1..k /\ e = data[k]
      BY <1>1 DEF e
    <3> QED
      BY <2>2, <2>3, <2>5, <3>1
  <2>7. ASSUME NEW n \in 1..k, Latest(n, k)
        PROVE  FoundFor(after, data[n]) = {data[n]}
    <3>1. CASE n = k
      BY <2>3, <3>1 DEF e
    <3>2. CASE n \in 1..(k - 1)
      <4>1. ~Library!SameKey(e, data[n])
        BY <2>5, <2>7, <3>2 DEF e
      <4>2. ~Library!SameKey(data[n], e)
        BY <4>1 DEF Library!SameKey
      <4>3. Latest(n, k - 1)
        BY <2>5, <2>7, <3>2
      <4> QED
        BY <2>2, <2>3, <3>2, <4>2, <4>3
    <3> QED
      BY <2>4, <3>1, <3>2
  <2>8. Loaded(after, k)
    BY <2>6, <2>7
  <2>9. k \in 0..N
    BY <1>1
  <2> HIDE DEF Loaded
  <2> QED
    BY <2>1, <2>8, <2>9
<1>5. Loaded(f[N], N) /\ KeysAreDistinct(f[N])
  <2> HIDE DEF G
  <2>1. 0..N \subseteq G
    BY <1>1, <1>3, <1>4, UpToInduction
  <2>2. N \in 0..N /\ \A k \in 0..N : KeysAreDistinct(f[k])
    BY <1>1, <1>2
  <2> QED
    BY <2>1, <2>2 DEF G
<1>6. ASSUME NEW n \in 1..N, \A m \in 1..N : n < m => ~Library!SameKey(data[m], data[n])
      PROVE  Latest(n, N)
  BY <1>1, <1>6
<1> QED
  BY <1>1, <1>2, <1>5, <1>6

(* A registry that is written to a file and loaded is as it was, and in    *)
(* the same order.                                                         *)
THEOREM RegistriesSurviveTheirFile ==
    ASSUME NEW T, NEW entries \in Seq(T), KeysAreDistinct(entries)
    PROVE  Library!FromJSON(Library!ToJSON(entries)) = entries
<1> DEFINE N == Len(entries)
           Starts(q, k) == Len(q) = k /\ \A n \in 1..k : q[n] = entries[n]
<1>1. N \in Nat /\ DOMAIN entries = 1..N /\ \A n \in 1..N : entries[n] \in T
  BY LenProperties
<1>2. PICK f \in [0..N -> {q \in Seq(T) : KeysAreDistinct(q)}] :
              /\ f[0] = <<>> /\ Library!FromJSON(entries) = f[N]
              /\ \A n \in 1..N : f[n] = Library!Put(f[n - 1], entries[n])
  BY LoadingPuts
<1> HIDE DEF N
<1> DEFINE G == {k \in 0..N : Starts(f[k], k)}
<1>3. 0 \in G
  BY <1>1, <1>2
<1>4. ASSUME NEW k \in 1..N, k - 1 \in G
      PROVE  k \in G
  <2> DEFINE q == f[k - 1]
             e == entries[k]
  <2>1. k - 1 \in 0..N /\ e \in T /\ f[k] = Library!Put(q, e)
    BY <1>1, <1>2
  <2>2. q \in Seq(T) /\ Starts(q, k - 1)
    BY <1>2, <1>4, <2>1
  <2>3. DOMAIN q = 1..(k - 1)
    BY <2>2, LenProperties
  <2>4. \A n \in 1..(k - 1) : ~Library!SameKey(q[n], e)
    <3> TAKE n \in 1..(k - 1)
    <3>1. n \in 1..N /\ n # k
      BY <1>1
    <3> QED
      BY <1>1, <2>2, <3>1 DEF KeysAreDistinct
  <2> HIDE DEF q, e
  <2>5. f[k] = Append(q, e)
    BY <2>1, <2>3, <2>4 DEF Library!Put
  <2>6. /\ Len(f[k]) = k /\ f[k][k] = e
        /\ \A n \in 1..(k - 1) : f[k][n] = q[n]
    <3>1. (k - 1) + 1 = k
      BY <1>1
    <3> QED
      BY <2>1, <2>2, <2>5, <3>1, AppendProperties
  <2>7. \A n \in 1..k : n = k \/ n \in 1..(k - 1)
    BY <1>1
  <2>8. ASSUME NEW n \in 1..k
        PROVE  f[k][n] = entries[n]
    BY <2>2, <2>6, <2>7 DEF e
  <2>9. k \in 0..N
    BY <1>1
  <2> QED
    BY <2>6, <2>8, <2>9
<1>5. Starts(f[N], N) /\ f[N] \in Seq(T)
  <2> HIDE DEF G
  <2>1. 0..N \subseteq G
    BY <1>1, <1>3, <1>4, UpToInduction
  <2>2. N \in 0..N
    BY <1>1
  <2>3. f[N] \in Seq(T)
    BY <1>2, <2>2
  <2> QED
    BY <2>1, <2>2, <2>3 DEF G
<1>6. f[N] = entries
  BY <1>1, <1>5, SeqEqual DEF N
<1> QED
  BY <1>2, <1>6 DEF Library!ToJSON

-----------------------------------------------------------------------------
(***************************************************************************)
(* Routing, and the approval of corrections (PolicyRouter and              *)
(* CorrectionPipeline).                                                    *)
(***************************************************************************)
Router == INSTANCE PolicyRouter
Pipeline == INSTANCE CorrectionPipeline

(* The router compiles the actions of the rules that are in force for the  *)
(* workstream and the stage, each its own action, and no others: for any   *)
(* store in which no two rules of the workstream have one id.  Where two   *)
(* have, it may compile an expired rule's action.                          *)
THEOREM RoutedActionsAreInForce ==
    ASSUME NEW T, NEW rules \in Seq(T), NEW context, NEW now \in Int,
           \A n \in DOMAIN rules : rules[n].expiresAt \subseteq Int,
           \A m, n \in Router!RulesByScope(rules, context.workstreamId) : rules[m].id = rules[n].id => m = n
    PROVE  LET actions == Router!CompiledActions(rules, context, now)
           IN  /\ DOMAIN actions = {n \in DOMAIN rules : Router!MatcherAccepts(rules[n], context, now)}
               /\ \A n \in DOMAIN actions :
                     /\ actions[n] = rules[n].action /\ rules[n].stage = context.stage
                     /\ n \in Router!GetActiveRules(rules, context.workstreamId, now)
<1> DEFINE places == Router!RulesByScope(rules, context.workstreamId)
           results == Router!MatchedRules(rules, context, now)
           accepted == {n \in DOMAIN rules : Router!MatcherAccepts(rules[n], context, now)}
           actions == Router!CompiledActions(rules, context, now)
<1>1. accepted \subseteq places /\ places \subseteq DOMAIN rules
  BY DEF Router!RulesByScope, Router!MatcherAccepts
<1>2. /\ DOMAIN results = places
      /\ \A n \in places : /\ results[n].ruleId = rules[n].id
                           /\ results[n].matched = Router!MatcherAccepts(rules[n], context, now)
  <2> HIDE DEF places
  <2> QED
    BY DEF Router!MatchedRules, places
<1>3. {m \in DOMAIN results : results[m].matched} = accepted
  <2> HIDE DEF results
  <2> QED
    BY <1>1, <1>2
<1>4. actions = [n \in accepted |-> Router!RuleById(rules, places, rules[n].id).action]
  <2>1. actions = [n \in {m \in DOMAIN results : results[m].matched} |->
                      Router!RuleById(rules, DOMAIN results, results[n].ruleId).action]
    BY DEF Router!CompiledActions
  <2> HIDE DEF results, accepted, places, actions
  <2>2. \A n \in accepted : results[n].ruleId = rules[n].id
    BY <1>1, <1>2
  <2> QED
    BY <1>2, <1>3, <2>1, <2>2
<1>5. ASSUME NEW n \in places
      PROVE  Router!RuleById(rules, places, rules[n].id) = rules[n]
  <2> DEFINE same == {m \in places : rules[m].id = rules[n].id}
  <2>1. same = {n}
    BY <1>5
  <2>2. Router!RuleById(rules, places, rules[n].id) = rules[Router!FirstPlace(same)]
    BY DEF Router!RuleById
  <2>3. Router!FirstPlace({n}) \in {n}
    <3>1. n \in DOMAIN rules /\ DOMAIN rules \subseteq Int
      BY <1>1, LenProperties
    <3>2. Router!FirstPlace({n}) = CHOOSE m \in {n} : m <= m
      BY DEF Router!FirstPlace
    <3> QED
      BY <3>1, <3>2, LenProperties
  <2> QED
    BY <2>1, <2>2, <2>3
<1>6. ASSUME NEW n \in accepted
      PROVE  rules[n].stage = context.stage /\ n \in Router!GetActiveRules(rules, context.workstreamId, now)
  BY <1>1 DEF Router!MatcherAccepts, Router!Expired, Router!GetActiveRules
<1> HIDE DEF places, results, accepted, actions
<1> QED
  BY <1>1, <1>4, <1>5, <1>6 DEF actions, accepted

\* An approval is given by somebody and says something.
IsGate(gate) ==
    /\ gate = [f \in DOMAIN gate |-> gate[f]] /\ "approvals" \in DOMAIN gate
    /\ \E T : gate.approvals \in Seq(T)
    /\ \E T : gate.requiredApprovers \in Seq(T)

(* A gate that the contract accepts is approved exactly when nobody has    *)
(* rejected or escalated it and all who must approve it have, though roles *)
(* are counted and not compared: for any number of approvers, approvals    *)
(* that repeat and approvers that are listed twice.                        *)
THEOREM ApprovedByEveryone ==
    ASSUME NEW gate, IsGate(gate), Pipeline!ValidGate(gate)
    PROVE  Pipeline!IsFullyApproved(gate)
           <=> Pipeline!Stops(gate) = {} /\ Pipeline!Required(gate) = Pipeline!ApprovedRoles(gate)
<1> DEFINE approvers == gate.requiredApprovers
           N == Len(approvers)
           R == Pipeline!Required(gate)
           A == Pipeline!ApprovedRoles(gate)
<1>1. N \in Nat /\ DOMAIN approvers = 1..N
  BY LenProperties DEF IsGate
<1>2. IsFiniteSet(R)
  <2>1. R = {approvers[n] : n \in 1..N}
    BY <1>1 DEF Pipeline!Required
  <2> HIDE DEF R, N
  <2>2. IsFiniteSet(1..N)
    BY <1>1, FS_Interval
  <2>3. approvers \in [1..N -> R]
    <3>1. approvers = [n \in 1..N |-> approvers[n]]
      <4>1. PICK T : approvers \in Seq(T)
        BY DEF IsGate
      <4>2. approvers \in [1..N -> T]
        BY <4>1, <1>1, LenProperties DEF N
      <4> QED
        BY <4>2
    <3> HIDE DEF approvers
    <3> QED
      BY <2>1, <3>1
  <2>4. approvers \in Surjection(1..N, R)
    BY <2>1, <2>3 DEF Surjection
  <2> QED
    BY <2>2, <2>4, FS_Surjection
<1>3. A \subseteq R
  BY DEF Pipeline!ApprovedRoles, Pipeline!ValidGate
<1>4. R # {}
  <2>1. PICK T : approvers \in Seq(T)
    BY DEF IsGate
  <2>2. approvers # <<>>
    BY DEF Pipeline!ValidGate
  <2>3. 1 \in DOMAIN approvers
    BY <2>1, <2>2
  <2> QED
    BY <2>3 DEF Pipeline!Required
<1>5. Pipeline!Cardinality(A) = Pipeline!Cardinality(R) <=> A = R
  <2>1. Cardinality(A) = Cardinality(R) => A = R
    BY <1>2, <1>3, FS_Subset
  <2> QED
    BY <2>1 DEF Pipeline!Cardinality, Cardinality
<1>6. CASE gate.approvals = <<>>
  <2>1. A = {}
    BY <1>6 DEF Pipeline!ApprovedRoles
  <2>2. ~Pipeline!IsFullyApproved(gate)
    BY <1>6 DEF Pipeline!IsFullyApproved, Pipeline!DeriveApprovalGateStatus
  <2> QED
    BY <1>4, <2>1, <2>2
<1>7. CASE Pipeline!Stops(gate) # {}
  <2>1. Pipeline!Stops(gate) \in SUBSET Nat
    <3>1. PICK T : gate.approvals \in Seq(T)
      BY DEF IsGate
    <3> QED
      BY <3>1, LenProperties DEF Pipeline!Stops
  <2>2. \E n \in Pipeline!Stops(gate) : \A m \in Pipeline!Stops(gate) : n <= m
    BY <1>7, <2>1, LeastElement
  <2>3. Pipeline!FirstStop(gate) \in Pipeline!Stops(gate)
    BY <2>2 DEF Pipeline!FirstStop
  <2>4. gate.approvals[Pipeline!FirstStop(gate)].status # "approved"
    BY <2>3 DEF Pipeline!Stops
  <2> QED
    BY <1>7, <2>4 DEF Pipeline!IsFullyApproved, Pipeline!DeriveApprovalGateStatus
<1>8. CASE gate.approvals # <<>> /\ Pipeline!Stops(gate) = {}
  BY <1>5, <1>8 DEF Pipeline!IsFullyApproved, Pipeline!DeriveApprovalGateStatus
<1> QED
  BY <1>6, <1>7, <1>8

(* Whatever else arrives, a gate that somebody stopped stays as it was.    *)
THEOREM StoppedGatesStayStopped ==
    ASSUME NEW gate, IsGate(gate), Pipeline!Stops(gate) # {}, NEW approval
    PROVE  Pipeline!DeriveApprovalGateStatus([gate EXCEPT !.approvals = Append(gate.approvals, approval)])
           = Pipeline!DeriveApprovalGateStatus(gate)
<1> DEFINE after == [gate EXCEPT !.approvals = Append(gate.approvals, approval)]
           given == gate.approvals
           N == Len(given)
           S == Pipeline!Stops(gate)
           first == Pipeline!FirstStop(gate)
           later == Append(given, approval)
<1>1. PICK T : given \in Seq(T)
  BY DEF IsGate
<1>2. N \in Nat /\ DOMAIN given = 1..N
  BY <1>1, LenProperties
<1>3. /\ DOMAIN later = 1..(N + 1) /\ \A n \in 1..N : later[n] = given[n]
      /\ later # <<>> /\ given # <<>>
  <2>1. later \in Seq(T \cup {approval}) /\ given \in Seq(T \cup {approval})
    BY <1>1
  <2>2. DOMAIN later = 1..(N + 1) /\ later # <<>> /\ \A n \in 1..N : later[n] = given[n]
    BY <1>1, <2>1, AppendProperties, LenProperties
  <2>3. given # <<>>
    BY <1>2 DEF Pipeline!Stops
  <2> QED
    BY <2>2, <2>3
<1>4. after.approvals = later
  BY DEF IsGate
<1>5. S \subseteq 1..N /\ S = {n \in 1..N : given[n].status \in {"rejected", "escalated"}}
  BY <1>2 DEF Pipeline!Stops
<1>6. first \in S /\ \A m \in S : first <= m
  <2>1. S \in SUBSET Nat
    BY <1>2, <1>5
  <2>2. \E n \in S : \A m \in S : n <= m
    BY <2>1, LeastElement
  <2> QED
    BY <2>2 DEF Pipeline!FirstStop
<1> HIDE DEF after, later, N, first, given
<1>7. Pipeline!Stops(after) = {n \in 1..(N + 1) : later[n].status \in {"rejected", "escalated"}}
  BY <1>3, <1>4 DEF Pipeline!Stops
<1> HIDE DEF S
<1>8. /\ S \subseteq Pipeline!Stops(after)
      /\ \A n \in Pipeline!Stops(after) : n \in S \/ n = N + 1
  BY <1>2, <1>3, <1>5, <1>7
<1>9. Pipeline!FirstStop(after) = first
  <2>1. first \in Pipeline!Stops(after) /\ \A m \in Pipeline!Stops(after) : first <= m
    BY <1>2, <1>5, <1>6, <1>8
  <2>2. \A n \in Pipeline!Stops(after) : n \in Nat
    BY <1>2, <1>5, <1>8
  <2> QED
    BY <2>1, <2>2 DEF Pipeline!FirstStop
<1>10. /\ Pipeline!DeriveApprovalGateStatus(after) = later[first].status
       /\ Pipeline!DeriveApprovalGateStatus(gate) = given[first].status
  BY <1>3, <1>4, <1>6, <1>8, <1>9 DEF Pipeline!DeriveApprovalGateStatus, S, first, given
<1> QED
  BY <1>3, <1>5, <1>6, <1>10 DEF after, given
===============================================================================
