----------------------- MODULE InterceptGatewayProofs -----------------------
(***************************************************************************)
(* Theorems of InterceptGateway, for any number of requests in flight, any *)
(* actions, corrections, settings, failures and restarts, and at the end   *)
(* of ShimmedGateway, for any number of shims.                             *)
(***************************************************************************)
EXTENDS ShimmedGateway, PolicyProofs, FiniteSetTheorems, SequenceTheorems, TLAPS

(***************************************************************************)
(* A are the actions that operators approved.  A rule is covered by A when *)
(* everything that it allows is of the class of one of them.               *)
(***************************************************************************)
Covered(r, A) ==
    r.verdict = "allow" =>
        \E a \in A : \A b \in Actions : Matches(b, r) => SameApprovedClass(a, b)

LEMMA CoveredMonotonic ==
    ASSUME NEW r, NEW A, NEW B, A \subseteq B, Covered(r, A)
    PROVE  Covered(r, B)
BY DEF Covered

LEMMA ActivationKeepsCover ==
    ASSUME NEW r, NEW A, IsRule(r), Covered(r, A)
    PROVE  LET active == [r EXCEPT !.status = "active"] IN IsRule(active) /\ Covered(active, A)
<1> DEFINE active == [r EXCEPT !.status = "active"]
<1>1. /\ active.tool = r.tool /\ active.action = r.action /\ active.target = r.target
      /\ active.cond = r.cond /\ active.verdict = r.verdict /\ active.id = r.id
      /\ active.from = r.from /\ active.status = "active"
      /\ IsRule(active)
  BY DEF IsRule
<1> HIDE DEF active
<1>2. \A b : Matches(b, active) <=> Matches(b, r)
  BY <1>1 DEF Matches, HasCondition
<1>3. Covered(active, A)
  BY <1>1, <1>2 DEF Covered
<1> QED
  BY <1>1, <1>3 DEF active
-----------------------------------------------------------------------------
(***************************************************************************)
(* The inductive invariant.  A handler works with what it read, however    *)
(* old that is: each copy it holds is covered by the approvals of the      *)
(* moment it was taken, and approvals are never taken back.                *)
(***************************************************************************)
Fields ==
    {"pc", "op", "ok", "action", "mode", "scope", "decision", "queueId", "words", "activate",
     "edit", "outcomeOf", "batch", "from", "entry", "todo", "stored", "read"}

IsHandler(h) ==
    /\ h = [f \in Fields |-> h[f]]
    /\ h.edit \in Actions \cup {NoEdit, InvalidEdit}
    /\ h.words \in Seq(SUBSET STRING)

VerdictOps == {"forward", "drop", "forward-all", "drop-all"}
StoringPcs == {"putRead", "putWrite", "stored", "updateRead", "updateWrite", "activated"}
VerdictPcs == {"list", "removeRead", "removeWrite", "removed", "compile"} \cup StoringPcs

(* Which operation a continuation belongs to.                              *)
OpFits(h) ==
    /\ h.pc = "lookup" => h.op = "repeater"
    /\ h.pc \in {"rules", "decide", "answer"} => h.op \in {"intercept", "repeater"}
    /\ h.pc \in {"enqueueRead", "enqueueWrite"} => h.op = "intercept"
    /\ h.pc \in VerdictPcs => h.op \in VerdictOps

(* The action a verdict falls on, and the one it approves.                 *)
ActionFits(h, A) ==
    /\ h.op = "intercept" => h.action \in Actions
    /\ h.pc \in {"removeWrite", "removed"} => h.action \in Actions
    /\ h.pc \in {"historyRead", "historyWrite", "compile"} =>
          /\ Approves(h) => h.action \in A \cap Actions
          /\ Rejects(h) => h.words # <<>>

(* The copies of the files.                                                *)
ReadFits(h, A) ==
    /\ h.pc \in {"decide", "putWrite", "updateWrite"} => \A r \in h.read : Covered(r, A)
    /\ h.pc \in {"enqueueWrite", "removeWrite"} => \A item \in h.read : item.action \in Actions

(* The rules still to be stored.                                           *)
TodoFits(h, A) ==
    h.pc \in StoringPcs =>
        /\ h.todo # <<>> /\ \E S : h.todo \in Seq(S)
        /\ \A i \in 1..Len(h.todo) : IsRule(h.todo[i]) /\ Covered(h.todo[i], A)

AllowFits(h, A) ==
    h.op = "intercept" /\ h.mode # "shadow" /\ InScope(h.action, h.scope) /\ h.decision.allowed
        => \E a \in A : SameApprovedClass(a, h.action)

HandlerFits(h, A) ==
    /\ IsHandler(h) /\ OpFits(h)
    /\ ActionFits(h, A) /\ ReadFits(h, A) /\ TodoFits(h, A) /\ AllowFits(h, A)

StoreFits ==
    /\ \A r \in rules : Covered(r, ApprovedActions)
    /\ \A item \in queue : item.action \in Actions

LedgerIsSeq == \E S : ledger \in Seq(S)

ApprovalInvariant ==
    /\ LedgerIsSeq /\ settings \in Settings
    /\ StoreFits
    /\ slot = [s \in Slots |-> slot[s]]
    /\ \A s \in Slots : HandlerFits(slot[s], ApprovedActions)

(***************************************************************************)
(* Approvals are never taken back.                                         *)
(***************************************************************************)
LEMMA HandlerFitsMonotonic ==
    ASSUME NEW h, NEW A, NEW B, A \subseteq B, HandlerFits(h, A)
    PROVE  HandlerFits(h, B)
BY CoveredMonotonic
   DEF HandlerFits, ActionFits, ReadFits, TodoFits, AllowFits

(* What a step does to the ledger: nothing, or one more event, or the      *)
(* death of the process.                                                   *)
LEMMA SealAddsOneEvent ==
    ASSUME LedgerIsSeq, archive' = archive, NEW event, Seal(event)
    PROVE  LedgerIsSeq' /\ Sealed' = Sealed \cup {event}
<1>1. PICK S : ledger \in Seq(S)
  BY DEF LedgerIsSeq
<1>2. ledger \in Seq(S \cup {event}) /\ event \in S \cup {event}
  BY <1>1, SeqMonotonic
<1>3. ledger' = Append(ledger, event)
  BY DEF Seal
<1>4. LedgerIsSeq'
  BY <1>2, <1>3 DEF LedgerIsSeq
<1>5. /\ Len(ledger) \in Nat
      /\ DOMAIN ledger = 1..Len(ledger) /\ DOMAIN ledger' = 1..(Len(ledger) + 1)
      /\ \A i \in 1..Len(ledger) : ledger'[i] = ledger[i]
      /\ ledger'[Len(ledger) + 1] = event
  BY <1>2, <1>3
<1>6. {ledger'[i] : i \in DOMAIN ledger'} = {ledger[i] : i \in DOMAIN ledger} \cup {event}
  BY <1>5
<1>7. Sealed' = Sealed \cup {event}
  BY <1>6 DEF Sealed
<1> QED
  BY <1>4, <1>7

LEMMA DeathKeepsEvents ==
    ASSUME archive' = Sealed, ledger' = <<>>
    PROVE  LedgerIsSeq' /\ Sealed' = Sealed
<1>1. ledger' \in Seq({}) /\ DOMAIN ledger' = {}
  OBVIOUS
<1> QED
  BY <1>1 DEF LedgerIsSeq, Sealed

LEMMA ApprovalsAreKept ==
    ASSUME Sealed \subseteq Sealed'
    PROVE  ApprovedActions \subseteq ApprovedActions'
BY DEF ApprovedActions

LEMMA SameLedgerSameApprovals ==
    ASSUME UNCHANGED <<ledger, archive>>
    PROVE  Sealed' = Sealed /\ ApprovedActions' = ApprovedActions
BY DEF Sealed, ApprovedActions

(***************************************************************************)
(* A step of one handler: the others keep what they hold.                  *)
(***************************************************************************)
LEMMA HandlerStep ==
    ASSUME ApprovalInvariant, NEW s \in Slots, NEW h, NEW pc, Goto(s, h, pc),
           LedgerIsSeq', settings' = settings, Sealed \subseteq Sealed', StoreFits',
           HandlerFits([h EXCEPT !.pc = pc], ApprovedActions')
    PROVE  ApprovalInvariant'
<1> DEFINE next == [h EXCEPT !.pc = pc]
<1>1. slot = [t \in Slots |-> slot[t]] /\ \A t \in Slots : HandlerFits(slot[t], ApprovedActions)
  BY DEF ApprovalInvariant
<1>2. slot' = [slot EXCEPT ![s] = next]
  BY DEF Goto
<1> HIDE DEF next
<1>3. /\ slot' = [t \in Slots |-> slot'[t]]
      /\ slot'[s] = next /\ \A t \in Slots \ {s} : slot'[t] = slot[t]
  BY <1>1, <1>2
<1>4. \A t \in Slots : HandlerFits(slot'[t], ApprovedActions')
  BY <1>1, <1>3, ApprovalsAreKept, HandlerFitsMonotonic DEF next
<1> QED
  BY <1>3, <1>4 DEF ApprovalInvariant

(* Most steps of a handler change no more than a file that has no part in  *)
(* the invariant.                                                          *)
LEMMA QuietStep ==
    ASSUME ApprovalInvariant, NEW s \in Slots, NEW h, NEW pc, Goto(s, h, pc),
           UNCHANGED <<rules, queue, ledger, archive, settings>>,
           HandlerFits([h EXCEPT !.pc = pc], ApprovedActions)
    PROVE  ApprovalInvariant'
<1>1. Sealed' = Sealed /\ ApprovedActions' = ApprovedActions
  BY SameLedgerSameApprovals
<1>2. LedgerIsSeq' /\ StoreFits'
  BY <1>1 DEF ApprovalInvariant, LedgerIsSeq, StoreFits
<1> QED
  BY <1>1, <1>2, HandlerStep

(* A rejected promise ends the request with an error.                      *)
LEMMA ThrownHandlerFits ==
    ASSUME NEW h, NEW A, HandlerFits(h, A)
    PROVE  HandlerFits([[h EXCEPT !.ok = FALSE] EXCEPT !.pc = "reply"], A)
<1> DEFINE next == [[h EXCEPT !.ok = FALSE] EXCEPT !.pc = "reply"]
<1>1. /\ IsHandler(next) /\ next.pc = "reply"
      /\ next.op = h.op /\ next.action = h.action /\ next.mode = h.mode
      /\ next.scope = h.scope /\ next.decision = h.decision
  BY DEF HandlerFits, IsHandler, Fields
<1> HIDE DEF next
<1>2. HandlerFits(next, A)
  BY <1>1
     DEF HandlerFits, OpFits, ActionFits, ReadFits, TodoFits, AllowFits, StoringPcs, VerdictPcs
<1> QED
  BY <1>2 DEF next

(* A handler that throws reads and writes nothing more.                    *)
LEMMA ThrowKeeps ==
    ASSUME ApprovalInvariant, NEW s \in Slots, Throw(s),
           UNCHANGED <<rules, queue, ledger, archive, settings>>
    PROVE  ApprovalInvariant'
<1>1. HandlerFits(slot[s], ApprovedActions)
  BY DEF ApprovalInvariant
<1>2. Goto(s, [slot[s] EXCEPT !.ok = FALSE], "reply")
  BY DEF Throw
<1> QED
  BY <1>1, <1>2, ThrownHandlerFits, QuietStep

(***************************************************************************)
(* Requests arrive.                                                        *)
(***************************************************************************)
LEMMA FailedClosedDenies == ~FailedClosed.allowed
<1>1. FailedClosed.allowed = ("deny" = "allow")
  BY DEF FailedClosed, Decision
<1> QED
  BY <1>1

(* Idle, but for what a request brings.                                    *)
LEMMA FreshHandlerFits ==
    ASSUME NEW h, IsHandler(h), NEW A,
           h.pc \in {"idle", "rules", "lookup", "outcomeRead", "list", "removeRead"},
           OpFits(h), h.op = "intercept" => h.action \in Actions,
           h.decision = FailedClosed
    PROVE  HandlerFits(h, A)
<1>1. ~h.decision.allowed
  BY FailedClosedDenies
<1> QED
  BY <1>1 DEF HandlerFits, ActionFits, ReadFits, TodoFits, AllowFits, StoringPcs

LEMMA IdleIsHandler == IsHandler(Idle)
<1>1. Idle.words \in Seq(SUBSET STRING)
  BY DEF Idle
<1> QED
  BY <1>1 DEF IsHandler, Idle, Fields

LEMMA SettingsFit ==
    ASSUME ApprovalInvariant, NEW a \in Actions
    PROVE  ApplyMatchReplaceRules(a) \in Actions
<1>1. settings.rewrite \in [Actions -> Actions]
  BY GatewayAssumptions DEF ApprovalInvariant, Settings
<1> QED
  BY <1>1 DEF ApplyMatchReplaceRules

LEMMA CapturedFits ==
    ASSUME NEW op, NEW a, NEW mode, NEW A,
           op \in {"intercept", "repeater"}, op = "intercept" => a \in Actions
    PROVE  HandlerFits([Captured(op, a, mode) EXCEPT !.pc = "rules"], A)
<1> DEFINE h == [Captured(op, a, mode) EXCEPT !.pc = "rules"]
<1>1. /\ IsHandler(h) /\ h.pc = "rules" /\ h.op = op /\ h.action = a
      /\ h.decision = FailedClosed
  BY IdleIsHandler DEF Captured, Idle, IsHandler, Fields
<1> HIDE DEF h
<1>2. OpFits(h)
  BY <1>1 DEF OpFits, VerdictPcs, StoringPcs
<1>3. HandlerFits(h, A)
  BY <1>1, <1>2, FreshHandlerFits
<1> QED
  BY <1>3 DEF h

LEMMA RepeatedKeeps ==
    ASSUME ApprovalInvariant, NEW s \in Slots, NEW a, Repeated(s, a, "rules"),
           UNCHANGED <<rules, queue, ledger, archive, settings>>
    PROVE  ApprovalInvariant'
<1>1. PICK mode \in ModesUsed, b \in {a, ApplyMatchReplaceRules(a)} :
          Goto(s, Captured("repeater", b, mode), "rules")
  BY DEF Repeated
<1>2. HandlerFits([Captured("repeater", b, mode) EXCEPT !.pc = "rules"], ApprovedActions)
  BY CapturedFits
<1> QED
  BY <1>1, <1>2, QuietStep

LEMMA StartKeepsInvariant ==
    ASSUME ApprovalInvariant, NEW s \in Slots, Start(s)
    PROVE  ApprovalInvariant'
<1>1. CASE StartIntercept(s)
  <2>1. PICK a \in Actions :
            Goto(s, Captured("intercept", ApplyMatchReplaceRules(a), settings.mode), "rules")
    BY <1>1 DEF StartIntercept
  <2>2. HandlerFits([Captured("intercept", ApplyMatchReplaceRules(a), settings.mode)
                        EXCEPT !.pc = "rules"], ApprovedActions)
    BY SettingsFit, CapturedFits
  <2>3. UNCHANGED <<rules, queue, ledger, archive, settings>>
    BY <1>1 DEF StartIntercept, Accept, store, observer
  <2> QED
    BY <2>1, <2>2, <2>3, QuietStep
<1>2. CASE StartRepeater(s)
  <2>1. UNCHANGED <<rules, queue, ledger, archive, settings>>
    BY <1>2 DEF StartRepeater, Accept, store, observer
  <2>2. CASE \E a \in Actions : Repeated(s, a, "rules")
    BY <2>1, <2>2, RepeatedKeeps
  <2>3. CASE Goto(s, [Idle EXCEPT !.op = "repeater"], "lookup")
    <3> DEFINE h == [[Idle EXCEPT !.op = "repeater"] EXCEPT !.pc = "lookup"]
    <3>1. /\ IsHandler(h) /\ h.pc = "lookup" /\ h.op = "repeater"
          /\ h.decision = FailedClosed
      BY IdleIsHandler DEF Idle, IsHandler, Fields
    <3> HIDE DEF h
    <3>2. HandlerFits(h, ApprovedActions)
      BY <3>1, FreshHandlerFits DEF OpFits, VerdictPcs, StoringPcs
    <3> QED
      BY <2>1, <2>3, <3>2, QuietStep DEF h
  <2> QED
    BY <1>2, <2>2, <2>3 DEF StartRepeater
<1>3. CASE StartOutcome(s)
  <2>1. UNCHANGED <<rules, queue, ledger, archive, settings>>
    BY <1>3 DEF StartOutcome, Accept, store, observer
  <2>2. PICK id \in ActionIds :
            Goto(s, [Idle EXCEPT !.op = "outcome", !.outcomeOf = id], "outcomeRead")
    BY <1>3 DEF StartOutcome
  <2> DEFINE h == [[Idle EXCEPT !.op = "outcome", !.outcomeOf = id] EXCEPT !.pc = "outcomeRead"]
  <2>3. /\ IsHandler(h) /\ h.pc = "outcomeRead" /\ h.op = "outcome"
        /\ h.decision = FailedClosed
    BY IdleIsHandler DEF Idle, IsHandler, Fields
  <2> HIDE DEF h
  <2>4. HandlerFits(h, ApprovedActions)
    BY <2>3, FreshHandlerFits DEF OpFits, VerdictPcs, StoringPcs
  <2> QED
    BY <2>1, <2>2, <2>4, QuietStep DEF h
<1>4. ASSUME NEW op \in VerdictOps, NEW words \in Seq(SUBSET STRING), NEW activate
      PROVE  HandlerFits([Verdict(op, words, activate) EXCEPT !.pc = "list"], ApprovedActions)
  <2> DEFINE h == [Verdict(op, words, activate) EXCEPT !.pc = "list"]
  <2>1. IsHandler(h) /\ h.pc = "list" /\ h.op = op /\ h.decision = FailedClosed
    BY IdleIsHandler DEF Verdict, Idle, IsHandler, Fields
  <2> HIDE DEF h
  <2>2. HandlerFits(h, ApprovedActions)
    BY <2>1, FreshHandlerFits DEF OpFits, VerdictPcs, StoringPcs, VerdictOps
  <2> QED
    BY <2>2 DEF h
<1>5. ASSUME NEW op \in VerdictOps, NEW words \in Seq(SUBSET STRING), NEW activate,
             NEW id, NEW edit \in Actions \cup {NoEdit, InvalidEdit}
      PROVE  HandlerFits([[Verdict(op, words, activate) EXCEPT !.queueId = id, !.edit = edit]
                             EXCEPT !.pc = "removeRead"], ApprovedActions)
  <2> DEFINE h == [[Verdict(op, words, activate) EXCEPT !.queueId = id, !.edit = edit]
                      EXCEPT !.pc = "removeRead"]
  <2>1. IsHandler(h) /\ h.pc = "removeRead" /\ h.op = op /\ h.decision = FailedClosed
    BY IdleIsHandler DEF Verdict, Idle, IsHandler, Fields
  <2> HIDE DEF h
  <2>2. HandlerFits(h, ApprovedActions)
    BY <2>1, FreshHandlerFits DEF OpFits, VerdictPcs, StoringPcs, VerdictOps
  <2> QED
    BY <2>2 DEF h
<1>6. /\ <<>> \in Seq(SUBSET STRING) /\ Words \subseteq Seq(SUBSET STRING)
      /\ Edits \subseteq Actions \cup {NoEdit, InvalidEdit}
      /\ {"forward", "drop", "forward-all", "drop-all"} \subseteq VerdictOps
  BY GatewayAssumptions DEF VerdictOps
<1>7. CASE StartVerdict(s)
  <2>1. UNCHANGED <<rules, queue, ledger, archive, settings>>
    BY <1>7 DEF StartVerdict, Accept, store, observer
  <2>2. PICK id \in IdsOf(queue) \cup taken, edit \in Edits :
            \/ Goto(s, [Verdict("forward", <<>>, FALSE) EXCEPT !.queueId = id, !.edit = edit],
                    "removeRead")
            \/ \E words \in Words, activate \in BOOLEAN :
                  Goto(s, [Verdict("drop", words, activate) EXCEPT !.queueId = id, !.edit = edit],
                       "removeRead")
    BY <1>7 DEF StartVerdict
  <2> QED
    BY <1>5, <1>6, <2>1, <2>2, QuietStep
<1>8. CASE StartBatch(s)
  <2>1. UNCHANGED <<rules, queue, ledger, archive, settings>>
    BY <1>8 DEF StartBatch, Accept, store, observer
  <2>2. \/ Goto(s, Verdict("forward-all", <<>>, FALSE), "list")
        \/ \E words \in Words, activate \in BOOLEAN :
              Goto(s, Verdict("drop-all", words, activate), "list")
    BY <1>8 DEF StartBatch
  <2> QED
    BY <1>4, <1>6, <2>1, <2>2, QuietStep
<1> QED
  BY <1>1, <1>2, <1>3, <1>7, <1>8 DEF Start

(***************************************************************************)
(* intercept and repeater.                                                 *)
(***************************************************************************)
(* A handler that goes on with the same question and the same decision.    *)
LEMMA MovedHandlerFits ==
    ASSUME NEW g, NEW h, NEW A, HandlerFits(g, A), IsHandler(h),
           h.op = g.op, h.action = g.action, h.mode = g.mode, h.scope = g.scope,
           h.decision = g.decision, h.words = g.words,
           OpFits(h), ReadFits(h, A), TodoFits(h, A),
           h.pc = "removed" => g.pc = "removeWrite",
           h.pc # "removeWrite",
           h.pc \in {"historyRead", "historyWrite", "compile"} =>
               g.pc \in {"historyRead", "historyWrite"} \/ g.op \notin VerdictOps
    PROVE  HandlerFits(h, A)
<1>1. AllowFits(h, A)
  BY DEF HandlerFits, AllowFits
<1>2. ActionFits(h, A)
  BY DEF HandlerFits, ActionFits, Approves, Rejects, VerdictOps
<1> QED
  BY <1>1, <1>2 DEF HandlerFits

LEMMA LookupHistoryKeeps ==
    ASSUME ApprovalInvariant, NEW s \in Slots, LookupHistory(s)
    PROVE  ApprovalInvariant'
<1>1. UNCHANGED <<rules, queue, ledger, archive, settings>>
  BY DEF LookupHistory, store, observer
<1>2. (\E a : Repeated(s, a, "rules")) \/ Throw(s)
  BY DEF LookupHistory
<1> QED
  BY <1>1, <1>2, RepeatedKeeps, ThrowKeeps

LEMMA ReadRulesKeeps ==
    ASSUME ApprovalInvariant, NEW s \in Slots, ReadRules(s)
    PROVE  ApprovalInvariant'
<1>1. /\ UNCHANGED <<rules, queue, ledger, archive, settings>>
      /\ slot[s].pc = "rules"
  BY DEF ReadRules, store, observer, At
<1>2. /\ HandlerFits(slot[s], ApprovedActions)
      /\ \A r \in rules : Covered(r, ApprovedActions)
  BY DEF ApprovalInvariant, StoreFits
<1>3. CASE Load(s, rules, "decide")
  <2> DEFINE h == [[slot[s] EXCEPT !.read = rules] EXCEPT !.pc = "decide"]
  <2>1. /\ IsHandler(h) /\ h.pc = "decide" /\ h.read = rules
        /\ h.op = slot[s].op /\ h.action = slot[s].action /\ h.mode = slot[s].mode
        /\ h.scope = slot[s].scope /\ h.decision = slot[s].decision
        /\ h.words = slot[s].words
    BY <1>2 DEF HandlerFits, IsHandler, Fields
  <2> HIDE DEF h
  <2>2. OpFits(h) /\ ReadFits(h, ApprovedActions) /\ TodoFits(h, ApprovedActions)
    BY <1>1, <1>2, <2>1
       DEF HandlerFits, OpFits, ReadFits, TodoFits, VerdictPcs, StoringPcs
  <2>3. HandlerFits(h, ApprovedActions)
    BY <1>2, <2>1, <2>2, MovedHandlerFits
  <2> QED
    BY <1>1, <1>3, <2>3, QuietStep DEF Load, h
<1>4. CASE Goto(s, [slot[s] EXCEPT !.decision = FailedClosed], "answer")
  <2> DEFINE h == [[slot[s] EXCEPT !.decision = FailedClosed] EXCEPT !.pc = "answer"]
  <2>1. /\ IsHandler(h) /\ h.pc = "answer" /\ h.op = slot[s].op /\ h.action = slot[s].action
        /\ h.decision = FailedClosed
    BY <1>2 DEF HandlerFits, IsHandler, Fields
  <2> HIDE DEF h
  <2>2. HandlerFits(h, ApprovedActions)
    BY <1>1, <1>2, <2>1, FailedClosedDenies
       DEF HandlerFits, OpFits, ActionFits, ReadFits, TodoFits, AllowFits, VerdictPcs, StoringPcs
  <2> QED
    BY <1>1, <1>4, <2>2, QuietStep DEF h
<1> QED
  BY <1>3, <1>4 DEF ReadRules

(* Sealing leaves files and settings alone.                                *)
LEMMA SealingStep ==
    ASSUME ApprovalInvariant, NEW s \in Slots, NEW h, NEW pc, Goto(s, h, pc),
           NEW event, Seal(event), UNCHANGED <<rules, queue, archive, settings>>,
           ApprovedActions \subseteq ApprovedActions'
              => HandlerFits([h EXCEPT !.pc = pc], ApprovedActions')
    PROVE  ApprovalInvariant'
<1>1. LedgerIsSeq' /\ Sealed' = Sealed \cup {event}
  BY SealAddsOneEvent DEF ApprovalInvariant
<1>2. Sealed \subseteq Sealed' /\ ApprovedActions \subseteq ApprovedActions'
  BY <1>1, ApprovalsAreKept
<1>3. StoreFits'
  BY <1>2, CoveredMonotonic DEF ApprovalInvariant, StoreFits
<1> QED
  BY <1>1, <1>2, <1>3, HandlerStep

(* appendVerdict and recordHistory.                                        *)
LEMMA AnsweredKeeps ==
    ASSUME ApprovalInvariant, NEW s \in Slots, NEW h, Answered(s, h),
           HandlerFits(h, ApprovedActions), h.op \notin VerdictOps
    PROVE  ApprovalInvariant'
<1> DEFINE entry == Entry(h, NthId(2))
           next == [[h EXCEPT !.entry = entry] EXCEPT !.pc = "historyRead"]
<1>1. /\ IsHandler(next) /\ next.pc = "historyRead"
      /\ next.op = h.op /\ next.action = h.action /\ next.mode = h.mode
      /\ next.scope = h.scope /\ next.decision = h.decision /\ next.words = h.words
  BY DEF HandlerFits, IsHandler, Fields
<1> HIDE DEF next
<1>2. ASSUME ApprovedActions \subseteq ApprovedActions'
      PROVE  HandlerFits(next, ApprovedActions')
  <2>1. HandlerFits(h, ApprovedActions')
    BY <1>2, HandlerFitsMonotonic
  <2>2. OpFits(next) /\ ReadFits(next, ApprovedActions') /\ TodoFits(next, ApprovedActions')
    BY <1>1 DEF OpFits, ReadFits, TodoFits, VerdictPcs, StoringPcs
  <2> QED
    BY <1>1, <2>1, <2>2, MovedHandlerFits
<1>3. /\ Seal(VerdictEvent(h.action, h.decision, NoId))
      /\ Goto(s, [h EXCEPT !.entry = entry], "historyRead")
      /\ UNCHANGED <<rules, queue, archive, settings>>
  BY DEF Answered, store, observer
<1> QED
  BY <1>2, <1>3, SealingStep DEF next

LEMMA DecideActionKeeps ==
    ASSUME ApprovalInvariant, NEW s \in Slots, DecideAction(s)
    PROVE  ApprovalInvariant'
<1> DEFINE g == slot[s]
           d == Decide(g.action, g.read, g.mode, g.scope)
           h == [g EXCEPT !.decision = d, !.read = {}]
<1>1. g.pc = "decide" /\ HandlerFits(g, ApprovedActions)
  BY DEF DecideAction, At, ApprovalInvariant
<1>2. /\ IsHandler(h) /\ h.pc = "decide" /\ h.op = g.op /\ h.action = g.action
      /\ h.mode = g.mode /\ h.scope = g.scope /\ h.words = g.words
      /\ h.decision = d /\ h.read = {}
  BY <1>1 DEF HandlerFits, IsHandler, Fields
<1>3. g.op \in {"intercept", "repeater"} /\ (g.op = "intercept" => g.action \in Actions)
  BY <1>1 DEF HandlerFits, OpFits, ActionFits
<1>4. AllowFits(h, ApprovedActions)
  <2>1. SUFFICES ASSUME g.op = "intercept", g.mode # "shadow", InScope(g.action, g.scope),
                        d.allowed
                 PROVE  \E a \in ApprovedActions : SameApprovedClass(a, g.action)
    BY <1>2 DEF AllowFits
  <2>2. PICK r \in g.read : r.verdict = "allow" /\ Matches(g.action, r)
    BY <2>1, DecideNeedsAnAllowRule
  <2>3. Covered(r, ApprovedActions)
    BY <1>1 DEF HandlerFits, ReadFits
  <2> QED
    BY <1>3, <2>1, <2>2, <2>3 DEF Covered
<1> HIDE DEF h, d
<1>5. HandlerFits(h, ApprovedActions)
  BY <1>1, <1>2, <1>3, <1>4
     DEF HandlerFits, OpFits, ActionFits, ReadFits, TodoFits, VerdictPcs, StoringPcs
<1>6. CASE d.verdict = "ask" /\ h.op = "intercept"
  <2> DEFINE id == NthId(1)
             next == [[h EXCEPT !.queueId = id] EXCEPT !.pc = "enqueueRead"]
  <2>1. /\ Goto(s, [h EXCEPT !.queueId = id], "enqueueRead")
        /\ UNCHANGED <<rules, queue, ledger, archive, settings>>
    BY <1>6 DEF DecideAction, h, d, store, observer
  <2>2. /\ IsHandler(next) /\ next.pc = "enqueueRead"
        /\ next.op = h.op /\ next.action = h.action /\ next.mode = h.mode
        /\ next.scope = h.scope /\ next.decision = h.decision /\ next.words = h.words
    BY <1>5 DEF HandlerFits, IsHandler, Fields
  <2> HIDE DEF next
  <2>3. HandlerFits(next, ApprovedActions)
    <3>1. /\ OpFits(next) /\ ReadFits(next, ApprovedActions) /\ TodoFits(next, ApprovedActions)
      BY <1>6, <2>2 DEF OpFits, ReadFits, TodoFits, VerdictPcs, StoringPcs
    <3> QED
      BY <1>5, <2>2, <3>1, MovedHandlerFits
  <2> QED
    BY <2>1, <2>3, QuietStep DEF next
<1>7. CASE ~(d.verdict = "ask" /\ h.op = "intercept")
  <2>1. Answered(s, h)
    BY <1>7 DEF DecideAction, h, d
  <2> QED
    BY <1>2, <1>3, <1>5, <2>1, AnsweredKeeps DEF VerdictOps
<1> QED
  BY <1>6, <1>7

LEMMA HoldFailedKeeps ==
    ASSUME ApprovalInvariant, NEW s \in Slots, HoldFailed(s),
           slot[s].pc \in {"enqueueRead", "enqueueWrite"},
           UNCHANGED <<rules, queue, ledger, archive, settings>>
    PROVE  ApprovalInvariant'
<1> DEFINE g == slot[s]
           h == [[g EXCEPT !.decision = FailedClosed, !.queueId = NoId, !.read = {}]
                    EXCEPT !.pc = "answer"]
<1>1. HandlerFits(g, ApprovedActions)
  BY DEF ApprovalInvariant
<1>2. /\ IsHandler(h) /\ h.pc = "answer" /\ h.op = g.op /\ h.action = g.action
      /\ h.decision = FailedClosed
  BY <1>1 DEF HandlerFits, IsHandler, Fields
<1> HIDE DEF h
<1>3. HandlerFits(h, ApprovedActions)
  BY <1>1, <1>2, FailedClosedDenies
     DEF HandlerFits, OpFits, ActionFits, ReadFits, TodoFits, AllowFits, VerdictPcs, StoringPcs
<1> QED
  BY <1>3, QuietStep DEF HoldFailed, h

LEMMA EnqueueReadKeeps ==
    ASSUME ApprovalInvariant, NEW s \in Slots, EnqueueRead(s)
    PROVE  ApprovalInvariant'
<1> DEFINE g == slot[s]
           h == [[g EXCEPT !.read = queue] EXCEPT !.pc = "enqueueWrite"]
<1>1. /\ UNCHANGED <<rules, queue, ledger, archive, settings>>
      /\ g.pc = "enqueueRead" /\ HandlerFits(g, ApprovedActions)
      /\ \A item \in queue : item.action \in Actions
  BY DEF EnqueueRead, store, observer, At, ApprovalInvariant, StoreFits
<1>2. /\ IsHandler(h) /\ h.pc = "enqueueWrite" /\ h.read = queue
      /\ h.op = g.op /\ h.action = g.action /\ h.mode = g.mode
      /\ h.scope = g.scope /\ h.decision = g.decision /\ h.words = g.words
  BY <1>1 DEF HandlerFits, IsHandler, Fields
<1> HIDE DEF h
<1>3. HandlerFits(h, ApprovedActions)
  <2>1. /\ OpFits(h) /\ ReadFits(h, ApprovedActions) /\ TodoFits(h, ApprovedActions)
    BY <1>1, <1>2
       DEF HandlerFits, OpFits, ReadFits, TodoFits, VerdictPcs, StoringPcs
  <2> QED
    BY <1>1, <1>2, <2>1, MovedHandlerFits
<1>4. CASE Load(s, queue, "enqueueWrite")
  BY <1>1, <1>3, <1>4, QuietStep DEF Load, h
<1>5. CASE HoldFailed(s)
  BY <1>1, <1>5, HoldFailedKeeps
<1> QED
  BY <1>4, <1>5 DEF EnqueueRead

(* A file operation that ends changes nothing that the handler goes by.    *)
LEMMA SavedHandlerFits ==
    ASSUME NEW g, NEW A, HandlerFits(g, A), NEW pc,
           pc \in {"answer", "reply", "compile", "removed", "stored", "activated"},
           pc = "removed" => g.pc = "removeWrite",
           pc \in {"stored", "activated"} => g.pc \in StoringPcs,
           pc = "answer" => g.op = "intercept",
           pc = "compile" => g.pc = "historyWrite" /\ g.op \in VerdictOps
    PROVE  HandlerFits([[g EXCEPT !.read = {}] EXCEPT !.pc = pc], A)
<1> DEFINE h == [[g EXCEPT !.read = {}] EXCEPT !.pc = pc]
<1>1. /\ IsHandler(h) /\ h.pc = pc /\ h.read = {} /\ h.todo = g.todo
      /\ h.op = g.op /\ h.action = g.action /\ h.mode = g.mode
      /\ h.scope = g.scope /\ h.decision = g.decision /\ h.words = g.words
  BY DEF HandlerFits, IsHandler, Fields
<1> HIDE DEF h
<1>2. OpFits(h)
  BY <1>1 DEF HandlerFits, OpFits, VerdictPcs, StoringPcs
<1>3. ReadFits(h, A)
  BY <1>1 DEF ReadFits
<1>4. TodoFits(h, A)
  BY <1>1 DEF HandlerFits, TodoFits, StoringPcs
<1>5. HandlerFits(h, A)
  BY <1>1, <1>2, <1>3, <1>4, MovedHandlerFits
<1> QED
  BY <1>5 DEF h

LEMMA EnqueueWriteKeeps ==
    ASSUME ApprovalInvariant, NEW s \in Slots, EnqueueWrite(s)
    PROVE  ApprovalInvariant'
<1> DEFINE g == slot[s]
           item == [id |-> g.queueId, action |-> g.action]
<1>1. /\ UNCHANGED <<rules, ledger, archive, settings>>
      /\ g.pc = "enqueueWrite" /\ HandlerFits(g, ApprovedActions)
  BY DEF EnqueueWrite, observer, At, ApprovalInvariant
<1>2. CASE queue' = g.read \cup {item} /\ Saved(s, "answer")
  <2>1. g.op = "intercept" /\ g.action \in Actions /\ \A x \in g.read : x.action \in Actions
    BY <1>1 DEF HandlerFits, OpFits, ActionFits, ReadFits
  <2>2. Sealed' = Sealed /\ ApprovedActions' = ApprovedActions /\ LedgerIsSeq'
    BY <1>1, SameLedgerSameApprovals DEF ApprovalInvariant, LedgerIsSeq
  <2>3. StoreFits'
    BY <1>1, <1>2, <2>1, <2>2 DEF ApprovalInvariant, StoreFits
  <2>4. HandlerFits([[g EXCEPT !.read = {}] EXCEPT !.pc = "answer"], ApprovedActions')
    BY <1>1, <2>1, <2>2, SavedHandlerFits
  <2>5. Goto(s, [g EXCEPT !.read = {}], "answer")
    BY <1>2 DEF Saved
  <2> QED
    BY <1>1, <2>2, <2>3, <2>4, <2>5, HandlerStep
<1>3. CASE HoldFailed(s) /\ UNCHANGED queue
  BY <1>1, <1>3, HoldFailedKeeps
<1> QED
  BY <1>2, <1>3 DEF EnqueueWrite

LEMMA AnswerKeeps ==
    ASSUME ApprovalInvariant, NEW s \in Slots, Answer(s)
    PROVE  ApprovalInvariant'
<1>1. HandlerFits(slot[s], ApprovedActions) /\ slot[s].pc = "answer" /\ Answered(s, slot[s])
  BY DEF ApprovalInvariant, Answer, At
<1>2. slot[s].op \notin VerdictOps
  BY <1>1 DEF HandlerFits, OpFits, VerdictOps
<1> QED
  BY <1>1, <1>2, AnsweredKeeps

LEMMA HistoryReadKeeps ==
    ASSUME ApprovalInvariant, NEW s \in Slots, HistoryRead(s)
    PROVE  ApprovalInvariant'
<1> DEFINE g == slot[s]
           h == [[g EXCEPT !.read = history] EXCEPT !.pc = "historyWrite"]
<1>1. /\ UNCHANGED <<rules, queue, ledger, archive, settings>>
      /\ g.pc = "historyRead" /\ HandlerFits(g, ApprovedActions)
  BY DEF HistoryRead, store, observer, At, ApprovalInvariant
<1>2. /\ IsHandler(h) /\ h.pc = "historyWrite"
      /\ h.op = g.op /\ h.action = g.action /\ h.mode = g.mode
      /\ h.scope = g.scope /\ h.decision = g.decision /\ h.words = g.words
  BY <1>1 DEF HandlerFits, IsHandler, Fields
<1> HIDE DEF h
<1>3. HandlerFits(h, ApprovedActions)
  <2>1. /\ OpFits(h) /\ ReadFits(h, ApprovedActions) /\ TodoFits(h, ApprovedActions)
    BY <1>2 DEF OpFits, ReadFits, TodoFits, VerdictPcs, StoringPcs
  <2> QED
    BY <1>1, <1>2, <2>1, MovedHandlerFits
<1>4. CASE Load(s, history, "historyWrite")
  BY <1>1, <1>3, <1>4, QuietStep DEF Load, h
<1>5. CASE Throw(s)
  BY <1>1, <1>5, ThrowKeeps
<1> QED
  BY <1>4, <1>5 DEF HistoryRead

LEMMA HistoryWriteKeeps ==
    ASSUME ApprovalInvariant, NEW s \in Slots, HistoryWrite(s)
    PROVE  ApprovalInvariant'
<1> DEFINE g == slot[s]
<1>1. /\ UNCHANGED <<rules, queue, ledger, archive, settings>>
      /\ g.pc = "historyWrite" /\ HandlerFits(g, ApprovedActions)
  BY DEF HistoryWrite, observer, At, ApprovalInvariant
<1>2. CASE Approves(g) \/ Rejects(g)
  <2>1. HandlerFits([[g EXCEPT !.read = {}] EXCEPT !.pc = "compile"], ApprovedActions)
    BY <1>1, <1>2, SavedHandlerFits DEF Approves, Rejects, VerdictOps
  <2>2. Goto(s, [g EXCEPT !.read = {}], "compile") \/ Throw(s)
    BY <1>2 DEF HistoryWrite, Saved
  <2> QED
    BY <1>1, <2>1, <2>2, QuietStep, ThrowKeeps
<1>3. CASE ~(Approves(g) \/ Rejects(g))
  <2>1. HandlerFits([[g EXCEPT !.read = {}] EXCEPT !.pc = "reply"], ApprovedActions)
    BY <1>1, SavedHandlerFits
  <2>2. Goto(s, [g EXCEPT !.read = {}], "reply") \/ Throw(s)
    BY <1>3 DEF HistoryWrite, Saved
  <2> QED
    BY <1>1, <2>1, <2>2, QuietStep, ThrowKeeps
<1> QED
  BY <1>2, <1>3

(***************************************************************************)
(* operatorVerdict.                                                        *)
(***************************************************************************)
(* A verdict that is done, or turns to the next item of its batch, holds   *)
(* on to nothing it has read.                                              *)
LEMMA NextItemFits ==
    ASSUME NEW s, NEW h, NextItem(s, h), IsHandler(h), h.op \in VerdictOps
    PROVE  \E n, pc : Goto(s, n, pc) /\ \A A : HandlerFits([n EXCEPT !.pc = pc], A)
<1>1. CASE Goto(s, h, "reply")
  <2> DEFINE n == [h EXCEPT !.pc = "reply"]
  <2>1. IsHandler(n) /\ n.pc = "reply" /\ n.op = h.op
    BY DEF IsHandler, Fields
  <2> HIDE DEF n
  <2>2. \A A : HandlerFits(n, A)
    BY <2>1 DEF HandlerFits, OpFits, ActionFits, ReadFits, TodoFits, AllowFits,
                VerdictOps, VerdictPcs, StoringPcs
  <2> QED
    BY <1>1, <2>2 DEF n
<1>2. ASSUME NEW id \in h.batch,
             Goto(s, [h EXCEPT !.queueId = id, !.batch = @ \ {id}], "removeRead")
      PROVE  \E n, pc : Goto(s, n, pc) /\ \A A : HandlerFits([n EXCEPT !.pc = pc], A)
  <2> DEFINE n == [[h EXCEPT !.queueId = id, !.batch = @ \ {id}] EXCEPT !.pc = "removeRead"]
  <2>1. IsHandler(n) /\ n.pc = "removeRead" /\ n.op = h.op
    BY DEF IsHandler, Fields
  <2> HIDE DEF n
  <2>2. \A A : HandlerFits(n, A)
    BY <2>1 DEF HandlerFits, OpFits, ActionFits, ReadFits, TodoFits, AllowFits,
                VerdictOps, VerdictPcs, StoringPcs
  <2> QED
    BY <1>2, <2>2 DEF n
<1> QED
  BY <1>1, <1>2 DEF NextItem

LEMMA ListQueueKeeps ==
    ASSUME ApprovalInvariant, NEW s \in Slots, ListQueue(s)
    PROVE  ApprovalInvariant'
<1>1. /\ UNCHANGED <<rules, queue, ledger, archive, settings>>
      /\ slot[s].pc = "list" /\ HandlerFits(slot[s], ApprovedActions)
  BY DEF ListQueue, store, observer, At, ApprovalInvariant
<1>2. CASE NextItem(s, [slot[s] EXCEPT !.batch = IdsOf(queue)])
  <2> DEFINE h == [slot[s] EXCEPT !.batch = IdsOf(queue)]
  <2>1. IsHandler(h) /\ h.op \in VerdictOps
    BY <1>1 DEF HandlerFits, OpFits, VerdictPcs, IsHandler, Fields
  <2>2. PICK n, pc : Goto(s, n, pc) /\ \A A : HandlerFits([n EXCEPT !.pc = pc], A)
    BY <1>2, <2>1, NextItemFits
  <2> QED
    BY <1>1, <2>2, QuietStep
<1>3. CASE Throw(s)
  BY <1>1, <1>3, ThrowKeeps
<1> QED
  BY <1>2, <1>3 DEF ListQueue

LEMMA RemoveReadKeeps ==
    ASSUME ApprovalInvariant, NEW s \in Slots, RemoveRead(s)
    PROVE  ApprovalInvariant'
<1> DEFINE g == slot[s]
<1>1. /\ UNCHANGED <<rules, queue, ledger, archive, settings>>
      /\ g.pc = "removeRead" /\ HandlerFits(g, ApprovedActions)
      /\ \A x \in queue : x.action \in Actions
  BY DEF RemoveRead, store, observer, At, ApprovalInvariant, StoreFits
<1>2. ASSUME NEW item \in queue,
             Goto(s, [g EXCEPT !.read = queue, !.action = item.action], "removeWrite")
      PROVE  ApprovalInvariant'
  <2> DEFINE h == [[g EXCEPT !.read = queue, !.action = item.action] EXCEPT !.pc = "removeWrite"]
  <2>1. /\ IsHandler(h) /\ h.pc = "removeWrite" /\ h.read = queue
        /\ h.op = g.op /\ h.action \in Actions
    BY <1>1 DEF HandlerFits, IsHandler, Fields
  <2> HIDE DEF h
  <2>2. g.op \in VerdictOps
    BY <1>1 DEF HandlerFits, OpFits, VerdictPcs
  <2>3. HandlerFits(h, ApprovedActions)
    BY <1>1, <2>1, <2>2
       DEF HandlerFits, OpFits, ActionFits, ReadFits, TodoFits, AllowFits,
           VerdictOps, VerdictPcs, StoringPcs
  <2> QED
    BY <1>1, <1>2, <2>3, QuietStep DEF h
<1>3. CASE Throw(s)
  BY <1>1, <1>3, ThrowKeeps
<1> QED
  BY <1>2, <1>3 DEF RemoveRead

LEMMA RemoveWriteKeeps ==
    ASSUME ApprovalInvariant, NEW s \in Slots, RemoveWrite(s)
    PROVE  ApprovalInvariant'
<1> DEFINE g == slot[s]
<1>1. /\ UNCHANGED <<rules, ledger, archive, settings>>
      /\ g.pc = "removeWrite" /\ HandlerFits(g, ApprovedActions)
  BY DEF RemoveWrite, At, ApprovalInvariant
<1>2. CASE queue' = {item \in g.read : item.id # g.queueId} /\ Saved(s, "removed")
  <2>1. \A x \in g.read : x.action \in Actions
    BY <1>1 DEF HandlerFits, ReadFits
  <2>2. Sealed' = Sealed /\ ApprovedActions' = ApprovedActions /\ LedgerIsSeq'
    BY <1>1, SameLedgerSameApprovals DEF ApprovalInvariant, LedgerIsSeq
  <2>3. StoreFits'
    BY <1>1, <1>2, <2>1, <2>2 DEF ApprovalInvariant, StoreFits
  <2>4. HandlerFits([[g EXCEPT !.read = {}] EXCEPT !.pc = "removed"], ApprovedActions')
    BY <1>1, <2>2, SavedHandlerFits
  <2>5. Goto(s, [g EXCEPT !.read = {}], "removed")
    BY <1>2 DEF Saved
  <2> QED
    BY <1>1, <2>2, <2>3, <2>4, <2>5, HandlerStep
<1>3. CASE Throw(s) /\ UNCHANGED queue
  BY <1>1, <1>3, ThrowKeeps
<1> QED
  BY <1>2, <1>3 DEF RemoveWrite

(* The verdict that is sealed is what the approval rests on from here on.  *)
LEMMA SealedApproval ==
    ASSUME LedgerIsSeq, archive' = archive, NEW a, NEW from,
           Seal(VerdictEvent(a, Decision("allow", "operator", NoRule), from))
    PROVE  a \in ApprovedActions'
<1> DEFINE e == VerdictEvent(a, Decision("allow", "operator", NoRule), from)
<1>1. e \in Sealed'
  BY SealAddsOneEvent
<1>2. /\ e.event = "policy.verdict" /\ e.action = a
      /\ e.decision = Decision("allow", "operator", NoRule)
  BY DEF VerdictEvent
<1> QED
  BY <1>1, <1>2 DEF ApprovedActions

LEMMA RemovedKeeps ==
    ASSUME ApprovalInvariant, NEW s \in Slots, Removed(s)
    PROVE  ApprovalInvariant'
<1> DEFINE g == slot[s]
<1>1. /\ UNCHANGED <<rules, queue, archive, settings>>
      /\ g.pc = "removed" /\ HandlerFits(g, ApprovedActions)
  BY DEF Removed, store, observer, At, ApprovalInvariant
<1>2. CASE Throw(s) /\ UNCHANGED ledger
  BY <1>1, <1>2, ThrowKeeps
<1>3. CASE g.edit # InvalidEdit /\ ~Wordless(g) /\ OperatorDecided(s)
  <2> DEFINE h == [g EXCEPT !.action = ActedOn(g), !.from = NthId(1),
                            !.decision = OperatorDecision(g)]
             entry == Entry(h, NthId(3))
             next == [[h EXCEPT !.entry = entry] EXCEPT !.pc = "historyRead"]
  <2>1. /\ IsHandler(h) /\ h.op = g.op /\ h.action = ActedOn(g) /\ h.words = g.words
        /\ h.decision = OperatorDecision(g)
    BY <1>1 DEF HandlerFits, IsHandler, Fields
  <2>2. /\ Seal(VerdictEvent(h.action, h.decision, h.from))
        /\ Goto(s, [h EXCEPT !.entry = entry], "historyRead")
    BY <1>3 DEF OperatorDecided
  <2> HIDE DEF h, entry
  <2>3. /\ IsHandler(next) /\ next.op = h.op /\ next.action = h.action /\ next.words = h.words
        /\ next.pc = "historyRead"
    BY <2>1 DEF IsHandler, Fields
  <2> HIDE DEF next
  <2>4. g.op \in VerdictOps
    BY <1>1 DEF HandlerFits, OpFits, VerdictPcs
  <2>5. ActedOn(g) \in Actions
    BY <1>1, <1>3, GatewayAssumptions DEF HandlerFits, IsHandler, ActionFits, ActedOn
  <2>6. Approves(next) => next.action \in ApprovedActions'
    <3>1. Approves(next) => h.decision = Decision("allow", "operator", NoRule)
      BY <2>1, <2>3 DEF Approves, OperatorDecision
    <3> QED
      BY <1>1, <2>2, <2>3, <3>1, SealedApproval DEF ApprovalInvariant
  <2>7. Rejects(next) => next.words # <<>>
    BY <1>3, <2>1, <2>3 DEF Rejects, Wordless
  <2>8. HandlerFits(next, ApprovedActions')
    BY <2>1, <2>3, <2>4, <2>5, <2>6, <2>7
       DEF HandlerFits, OpFits, ActionFits, ReadFits, TodoFits, AllowFits,
           VerdictOps, VerdictPcs, StoringPcs
  <2> QED
    BY <1>1, <2>2, <2>8, SealingStep DEF next
<1> QED
  BY <1>2, <1>3 DEF Removed

(* The compiled rules: an approval's is covered by the action it approves, *)
(* a correction's allow nothing.                                           *)
LEMMA CompileVerdictKeeps ==
    ASSUME ApprovalInvariant, NEW s \in Slots, CompileVerdict(s)
    PROVE  ApprovalInvariant'
<1> DEFINE g == slot[s]
<1>1. /\ UNCHANGED <<rules, queue, ledger, archive, settings>>
      /\ g.pc = "compile" /\ HandlerFits(g, ApprovedActions)
  BY DEF CompileVerdict, store, observer, At, ApprovalInvariant
<1>2. g.op \in VerdictOps
  BY <1>1 DEF HandlerFits, OpFits, VerdictPcs
<1>3. ASSUME NEW todo, NEW S, todo \in Seq(S), todo # <<>>,
             \A i \in 1..Len(todo) : IsRule(todo[i]) /\ Covered(todo[i], ApprovedActions),
             Goto(s, [g EXCEPT !.todo = todo], "putRead")
      PROVE  ApprovalInvariant'
  <2> DEFINE h == [[g EXCEPT !.todo = todo] EXCEPT !.pc = "putRead"]
  <2>1. /\ IsHandler(h) /\ h.pc = "putRead" /\ h.todo = todo /\ h.op = g.op
    BY <1>1 DEF HandlerFits, IsHandler, Fields
  <2> HIDE DEF h
  <2>2. TodoFits(h, ApprovedActions)
    BY <1>3, <2>1 DEF TodoFits
  <2>3. HandlerFits(h, ApprovedActions)
    BY <1>2, <2>1, <2>2
       DEF HandlerFits, OpFits, ActionFits, ReadFits, AllowFits, VerdictOps, VerdictPcs
  <2> QED
    BY <1>1, <1>3, <2>3, QuietStep DEF h
<1>4. CASE Approves(g)
  <2> DEFINE r == ApprovalRule(NthId(1), g.from, g.action)
  <2>1. g.action \in ApprovedActions \cap Actions
    BY <1>1, <1>4 DEF HandlerFits, ActionFits
  <2>2. IsRule(r)
    BY DEF ApprovalRule, RuleOf, IsRule
  <2>3. Covered(r, ApprovedActions)
    BY <2>1, ApprovalRuleIsNarrow DEF Covered
  <2>4. Goto(s, [g EXCEPT !.todo = <<r>>], "putRead")
    BY <1>4 DEF CompileVerdict
  <2> HIDE DEF r
  <2>5. /\ <<r>> \in Seq({r}) /\ <<r>> # <<>>
        /\ \A i \in 1..Len(<<r>>) : <<r>>[i] = r
    OBVIOUS
  <2> QED
    BY <1>3, <2>2, <2>3, <2>4, <2>5
<1>5. CASE ~Approves(g) /\ Compiled(g.words) = DOMAIN g.words
  <2> DEFINE todo == ProposedRules(g)
             S == {ProposedRule(NthId(3 * i - 2), g.from, g.words[i], g.action) :
                      i \in DOMAIN g.words}
  <2>1. g.words \in Seq(SUBSET STRING) /\ g.words # <<>>
    BY <1>1, <1>2, <1>5
       DEF HandlerFits, IsHandler, ActionFits, VerdictOps, Approves, Rejects
  <2>2. /\ Len(g.words) \in Nat /\ DOMAIN g.words = 1..Len(g.words) /\ Len(g.words) > 0
    BY <2>1
  <2>3. todo \in [1..Len(g.words) -> S]
    BY <2>2 DEF ProposedRules
  <2>4. \A r \in S : IsRule(r) /\ Covered(r, ApprovedActions)
    BY ProposedRuleDoesNotAllow DEF IsRule, Covered, ProposedRule, RuleOf
  <2>5. Goto(s, [g EXCEPT !.todo = todo], "putRead")
    BY <1>5 DEF CompileVerdict
  <2> HIDE DEF todo, S
  <2>6. todo \in Seq(S) /\ Len(todo) = Len(g.words)
    BY <2>2, <2>3, LenProperties
  <2>7. todo # <<>> /\ \A i \in 1..Len(todo) : todo[i] \in S
    BY <2>2, <2>3, <2>6
  <2> QED
    BY <1>3, <2>4, <2>5, <2>6, <2>7
<1>6. CASE ~Approves(g) /\ Throw(s)
  BY <1>1, <1>6, ThrowKeeps
<1> QED
  BY <1>4, <1>5, <1>6 DEF CompileVerdict

LEMMA PutReadKeeps ==
    ASSUME ApprovalInvariant, NEW s \in Slots, PutRead(s)
    PROVE  ApprovalInvariant'
<1> DEFINE g == slot[s]
           h == [[g EXCEPT !.read = rules] EXCEPT !.pc = "putWrite"]
<1>1. /\ UNCHANGED <<rules, queue, ledger, archive, settings>>
      /\ g.pc = "putRead" /\ HandlerFits(g, ApprovedActions)
      /\ \A r \in rules : Covered(r, ApprovedActions)
  BY DEF PutRead, store, observer, At, ApprovalInvariant, StoreFits
<1>2. /\ IsHandler(h) /\ h.pc = "putWrite" /\ h.read = rules /\ h.todo = g.todo
      /\ h.op = g.op /\ h.action = g.action /\ h.mode = g.mode
      /\ h.scope = g.scope /\ h.decision = g.decision /\ h.words = g.words
  BY <1>1 DEF HandlerFits, IsHandler, Fields
<1> HIDE DEF h
<1>3. OpFits(h) /\ ReadFits(h, ApprovedActions) /\ TodoFits(h, ApprovedActions)
  BY <1>1, <1>2 DEF HandlerFits, OpFits, ReadFits, TodoFits, VerdictPcs, StoringPcs
<1>4. HandlerFits(h, ApprovedActions)
  BY <1>1, <1>2, <1>3, MovedHandlerFits
<1>5. CASE Load(s, rules, "putWrite")
  BY <1>1, <1>4, <1>5, QuietStep DEF Load, h
<1>6. CASE Throw(s)
  BY <1>1, <1>6, ThrowKeeps
<1> QED
  BY <1>5, <1>6 DEF PutRead

LEMMA HeadFits ==
    ASSUME NEW h, NEW A, HandlerFits(h, A), h.pc \in StoringPcs
    PROVE  IsRule(Head(h.todo)) /\ Covered(Head(h.todo), A)
<1>1. PICK S : h.todo \in Seq(S)
  BY DEF HandlerFits, TodoFits
<1>2. /\ h.todo # <<>>
      /\ \A i \in 1..Len(h.todo) : IsRule(h.todo[i]) /\ Covered(h.todo[i], A)
  BY DEF HandlerFits, TodoFits
<1>3. 1 \in 1..Len(h.todo) /\ Head(h.todo) = h.todo[1]
  BY <1>1, <1>2
<1> QED
  BY <1>2, <1>3

(* The rules file is replaced by rules that are covered.                   *)
LEMMA RulesWritten ==
    ASSUME ApprovalInvariant, NEW s \in Slots, slot[s].pc \in StoringPcs,
           NEW pc, pc \in {"stored", "activated"}, Saved(s, pc),
           UNCHANGED <<queue, ledger, archive, settings>>,
           \A r \in rules' : Covered(r, ApprovedActions)
    PROVE  ApprovalInvariant'
<1>1. Sealed' = Sealed /\ ApprovedActions' = ApprovedActions /\ LedgerIsSeq'
  BY SameLedgerSameApprovals DEF ApprovalInvariant, LedgerIsSeq
<1>2. StoreFits'
  BY <1>1 DEF ApprovalInvariant, StoreFits
<1>3. HandlerFits(slot[s], ApprovedActions')
  BY <1>1 DEF ApprovalInvariant
<1>4. HandlerFits([[slot[s] EXCEPT !.read = {}] EXCEPT !.pc = pc], ApprovedActions')
  BY <1>3, SavedHandlerFits
<1>5. Goto(s, [slot[s] EXCEPT !.read = {}], pc)
  BY DEF Saved
<1> QED
  BY <1>1, <1>2, <1>4, <1>5, HandlerStep

LEMMA PutWriteKeeps ==
    ASSUME ApprovalInvariant, NEW s \in Slots, PutWrite(s)
    PROVE  ApprovalInvariant'
<1> DEFINE g == slot[s]
<1>1. /\ UNCHANGED <<queue, ledger, archive, settings>>
      /\ g.pc = "putWrite" /\ g.pc \in StoringPcs /\ HandlerFits(g, ApprovedActions)
  BY DEF PutWrite, observer, At, ApprovalInvariant, StoringPcs
<1>2. CASE rules' = g.read \cup {Head(g.todo)} /\ Saved(s, "stored")
  <2>1. \A r \in g.read : Covered(r, ApprovedActions)
    BY <1>1 DEF HandlerFits, ReadFits
  <2>2. \A r \in rules' : Covered(r, ApprovedActions)
    BY <1>1, <1>2, <2>1, HeadFits
  <2> QED
    BY <1>1, <1>2, <2>2, RulesWritten
<1>3. CASE Throw(s) /\ UNCHANGED rules
  BY <1>1, <1>3, ThrowKeeps
<1> QED
  BY <1>2, <1>3 DEF PutWrite

(* The next of the compiled rules, the next item, or the end.              *)
LEMMA NextRuleFits ==
    ASSUME NEW s \in Slots, NEW r, NextRule(s, r), NEW B, HandlerFits(slot[s], B),
           slot[s].pc \in {"stored", "activated"}
    PROVE  \E n, pc : Goto(s, n, pc)
                        /\ \A A : B \subseteq A => HandlerFits([n EXCEPT !.pc = pc], A)
<1> DEFINE g == slot[s]
           h == [g EXCEPT !.stored = @ \cup {r}, !.todo = Tail(@)]
<1>1. /\ IsHandler(h) /\ h.op = g.op /\ h.todo = Tail(g.todo)
  BY DEF HandlerFits, IsHandler, Fields
<1>2. g.op \in VerdictOps
  BY DEF HandlerFits, OpFits, VerdictPcs, StoringPcs
<1>3. CASE h.todo # <<>> /\ Goto(s, h, "putRead")
  <2> DEFINE n == [h EXCEPT !.pc = "putRead"]
  <2> HIDE DEF h
  <2>1. IsHandler(n) /\ n.pc = "putRead" /\ n.op = g.op /\ n.todo = h.todo
    BY <1>1 DEF IsHandler, Fields
  <2> HIDE DEF n
  <2>2. PICK S : g.todo \in Seq(S)
    BY DEF HandlerFits, TodoFits, StoringPcs
  <2>3. /\ g.todo # <<>>
        /\ \A i \in 1..Len(g.todo) : IsRule(g.todo[i]) /\ Covered(g.todo[i], B)
    BY DEF HandlerFits, TodoFits, StoringPcs
  <2>4. /\ n.todo \in Seq(S) /\ n.todo # <<>>
        /\ \A i \in 1..Len(n.todo) : i + 1 \in 1..Len(g.todo) /\ n.todo[i] = g.todo[i + 1]
    BY <1>1, <1>3, <2>1, <2>2, <2>3
  <2>5. TodoFits(n, B)
    BY <2>3, <2>4 DEF TodoFits
  <2>6. HandlerFits(n, B)
    BY <1>2, <2>1, <2>5
       DEF HandlerFits, OpFits, ActionFits, ReadFits, AllowFits, VerdictOps, VerdictPcs
  <2> QED
    BY <1>3, <2>6, HandlerFitsMonotonic DEF n
<1>4. CASE NextItem(s, h)
  BY <1>1, <1>2, <1>4, NextItemFits
<1> QED
  BY <1>3, <1>4 DEF NextRule

LEMMA RuleStoredKeeps ==
    ASSUME ApprovalInvariant, NEW s \in Slots, RuleStored(s)
    PROVE  ApprovalInvariant'
<1> DEFINE g == slot[s]
           r == Head(g.todo)
<1>1. /\ UNCHANGED <<rules, queue, archive, settings>> /\ Seal(RuleEvent(r))
      /\ g.pc = "stored" /\ HandlerFits(g, ApprovedActions)
  BY DEF RuleStored, store, observer, At, ApprovalInvariant
<1>2. CASE Goto(s, [g EXCEPT !.todo[1].status = "active"], "updateRead")
  <2> DEFINE active == [r EXCEPT !.status = "active"]
             todo == [g.todo EXCEPT ![1] = active]
             h == [[g EXCEPT !.todo = todo] EXCEPT !.pc = "updateRead"]
  <2>1. PICK S : g.todo \in Seq(S)
    BY <1>1 DEF HandlerFits, TodoFits, StoringPcs
  <2>2. /\ g.todo # <<>>
        /\ \A i \in 1..Len(g.todo) : IsRule(g.todo[i]) /\ Covered(g.todo[i], ApprovedActions)
    BY <1>1 DEF HandlerFits, TodoFits, StoringPcs
  <2>3. r = g.todo[1] /\ IsRule(r) /\ Covered(r, ApprovedActions) /\ 1 \in 1..Len(g.todo)
    BY <2>1, <2>2
  <2>4. Goto(s, [g EXCEPT !.todo = todo], "updateRead")
    <3>1. [g EXCEPT !.todo[1].status = "active"] = [g EXCEPT !.todo = todo]
      BY <1>1, <2>3 DEF HandlerFits, IsHandler, Fields
    <3> QED
      BY <1>2, <3>1
  <2>5. IsRule(active) /\ Covered(active, ApprovedActions)
    BY <2>3, ActivationKeepsCover
  <2> HIDE DEF active
  <2>6. /\ todo \in Seq(S \cup {active}) /\ Len(todo) = Len(g.todo)
        /\ \A i \in 1..Len(todo) : todo[i] = IF i = 1 THEN active ELSE g.todo[i]
    <3>1. g.todo \in Seq(S \cup {active})
      BY <2>1, SeqMonotonic
    <3> QED
      BY <2>3, <3>1, ExceptSeq
  <2> HIDE DEF todo
  <2>7. IsHandler(h) /\ h.pc = "updateRead" /\ h.op = g.op /\ h.todo = todo
    BY <1>1 DEF HandlerFits, IsHandler, Fields
  <2> HIDE DEF h, r
  <2>8. TodoFits(h, ApprovedActions)
    BY <2>2, <2>3, <2>5, <2>6, <2>7 DEF TodoFits
  <2>9. g.op \in VerdictOps
    BY <1>1 DEF HandlerFits, OpFits, VerdictPcs, StoringPcs
  <2>10. HandlerFits(h, ApprovedActions)
    BY <2>7, <2>8, <2>9
       DEF HandlerFits, OpFits, ActionFits, ReadFits, AllowFits, VerdictOps, VerdictPcs
  <2> QED
    BY <1>1, <2>4, <2>10, HandlerFitsMonotonic, SealingStep DEF h
<1>3. CASE NextRule(s, r)
  <2>1. PICK n, pc : Goto(s, n, pc) /\ \A A : ApprovedActions \subseteq A
                                                => HandlerFits([n EXCEPT !.pc = pc], A)
    BY <1>1, <1>3, NextRuleFits
  <2> QED
    BY <1>1, <2>1, SealingStep
<1> QED
  BY <1>2, <1>3 DEF RuleStored

LEMMA UpdateReadKeeps ==
    ASSUME ApprovalInvariant, NEW s \in Slots, UpdateRead(s)
    PROVE  ApprovalInvariant'
<1> DEFINE g == slot[s]
           h == [[g EXCEPT !.read = rules] EXCEPT !.pc = "updateWrite"]
<1>1. /\ UNCHANGED <<rules, queue, ledger, archive, settings>>
      /\ g.pc = "updateRead" /\ HandlerFits(g, ApprovedActions)
      /\ \A r \in rules : Covered(r, ApprovedActions)
  BY DEF UpdateRead, store, observer, At, ApprovalInvariant, StoreFits
<1>2. /\ IsHandler(h) /\ h.pc = "updateWrite" /\ h.read = rules /\ h.todo = g.todo
      /\ h.op = g.op /\ h.action = g.action /\ h.mode = g.mode
      /\ h.scope = g.scope /\ h.decision = g.decision /\ h.words = g.words
  BY <1>1 DEF HandlerFits, IsHandler, Fields
<1> HIDE DEF h
<1>3. OpFits(h) /\ ReadFits(h, ApprovedActions) /\ TodoFits(h, ApprovedActions)
  BY <1>1, <1>2 DEF HandlerFits, OpFits, ReadFits, TodoFits, VerdictPcs, StoringPcs
<1>4. HandlerFits(h, ApprovedActions)
  BY <1>1, <1>2, <1>3, MovedHandlerFits
<1>5. CASE Load(s, rules, "updateWrite")
  BY <1>1, <1>4, <1>5, QuietStep DEF Load, h
<1>6. CASE Throw(s)
  BY <1>1, <1>6, ThrowKeeps
<1> QED
  BY <1>5, <1>6 DEF UpdateRead

LEMMA UpdateWriteKeeps ==
    ASSUME ApprovalInvariant, NEW s \in Slots, UpdateWrite(s)
    PROVE  ApprovalInvariant'
<1> DEFINE g == slot[s]
           active == Head(g.todo)
<1>1. /\ UNCHANGED <<queue, ledger, archive, settings>>
      /\ g.pc = "updateWrite" /\ g.pc \in StoringPcs /\ HandlerFits(g, ApprovedActions)
  BY DEF UpdateWrite, observer, At, ApprovalInvariant, StoringPcs
<1>2. CASE rules' = {r \in g.read : r.id # active.id} \cup {active} /\ Saved(s, "activated")
  <2>1. \A r \in g.read : Covered(r, ApprovedActions)
    BY <1>1 DEF HandlerFits, ReadFits
  <2>2. \A r \in rules' : Covered(r, ApprovedActions)
    BY <1>1, <1>2, <2>1, HeadFits
  <2> QED
    BY <1>1, <1>2, <2>2, RulesWritten
<1>3. CASE Throw(s) /\ UNCHANGED rules
  BY <1>1, <1>3, ThrowKeeps
<1> QED
  BY <1>2, <1>3 DEF UpdateWrite

LEMMA RuleActivatedKeeps ==
    ASSUME ApprovalInvariant, NEW s \in Slots, RuleActivated(s)
    PROVE  ApprovalInvariant'
<1> DEFINE r == Head(slot[s].todo)
<1>1. /\ UNCHANGED <<rules, queue, archive, settings>> /\ Seal(RuleEvent(r))
      /\ slot[s].pc = "activated" /\ HandlerFits(slot[s], ApprovedActions)
      /\ NextRule(s, r)
  BY DEF RuleActivated, store, observer, At, ApprovalInvariant
<1>2. PICK n, pc : Goto(s, n, pc) /\ \A A : ApprovedActions \subseteq A
                                              => HandlerFits([n EXCEPT !.pc = pc], A)
  BY <1>1, NextRuleFits
<1> QED
  BY <1>1, <1>2, SealingStep

(***************************************************************************)
(* recordOutcome, and the response.                                        *)
(***************************************************************************)
LEMMA OutcomeReadKeeps ==
    ASSUME ApprovalInvariant, NEW s \in Slots, OutcomeRead(s)
    PROVE  ApprovalInvariant'
<1> DEFINE g == slot[s]
           h == [[g EXCEPT !.read = history] EXCEPT !.pc = "outcomeWrite"]
<1>1. /\ UNCHANGED <<rules, queue, ledger, archive, settings>>
      /\ HandlerFits(g, ApprovedActions)
  BY DEF OutcomeRead, store, observer, ApprovalInvariant
<1>2. /\ IsHandler(h) /\ h.pc = "outcomeWrite"
      /\ h.op = g.op /\ h.action = g.action /\ h.mode = g.mode
      /\ h.scope = g.scope /\ h.decision = g.decision /\ h.words = g.words
  BY <1>1 DEF HandlerFits, IsHandler, Fields
<1> HIDE DEF h
<1>3. OpFits(h) /\ ReadFits(h, ApprovedActions) /\ TodoFits(h, ApprovedActions)
  BY <1>2 DEF OpFits, ReadFits, TodoFits, VerdictPcs, StoringPcs
<1>4. HandlerFits(h, ApprovedActions)
  BY <1>1, <1>2, <1>3, MovedHandlerFits
<1>5. CASE Load(s, history, "outcomeWrite")
  BY <1>1, <1>4, <1>5, QuietStep DEF Load, h
<1>6. CASE Throw(s)
  BY <1>1, <1>6, ThrowKeeps
<1> QED
  BY <1>5, <1>6 DEF OutcomeRead

LEMMA OutcomeWriteKeeps ==
    ASSUME ApprovalInvariant, NEW s \in Slots, OutcomeWrite(s)
    PROVE  ApprovalInvariant'
<1> DEFINE g == slot[s]
           h == [[g EXCEPT !.read = {}] EXCEPT !.pc = "outcomeSaved"]
<1>1. /\ UNCHANGED <<rules, queue, ledger, archive, settings>>
      /\ HandlerFits(g, ApprovedActions)
  BY DEF OutcomeWrite, observer, ApprovalInvariant
<1>2. /\ IsHandler(h) /\ h.pc = "outcomeSaved"
      /\ h.op = g.op /\ h.action = g.action /\ h.mode = g.mode
      /\ h.scope = g.scope /\ h.decision = g.decision /\ h.words = g.words
  BY <1>1 DEF HandlerFits, IsHandler, Fields
<1> HIDE DEF h
<1>3. OpFits(h) /\ ReadFits(h, ApprovedActions) /\ TodoFits(h, ApprovedActions)
  BY <1>2 DEF OpFits, ReadFits, TodoFits, VerdictPcs, StoringPcs
<1>4. HandlerFits(h, ApprovedActions)
  BY <1>1, <1>2, <1>3, MovedHandlerFits
<1>5. CASE Saved(s, "outcomeSaved")
  BY <1>1, <1>4, <1>5, QuietStep DEF Saved, h
<1>6. CASE Throw(s)
  BY <1>1, <1>6, ThrowKeeps
<1> QED
  BY <1>5, <1>6 DEF OutcomeWrite

LEMMA OutcomeSavedKeeps ==
    ASSUME ApprovalInvariant, NEW s \in Slots, OutcomeSaved(s)
    PROVE  ApprovalInvariant'
<1> DEFINE g == slot[s]
           h == [g EXCEPT !.pc = "reply"]
<1>1. /\ UNCHANGED <<rules, queue, archive, settings>>
      /\ Seal(OutcomeEvent(g.outcomeOf)) /\ Goto(s, g, "reply")
      /\ HandlerFits(g, ApprovedActions)
  BY DEF OutcomeSaved, store, observer, ApprovalInvariant
<1>2. /\ IsHandler(h) /\ h.pc = "reply"
      /\ h.op = g.op /\ h.action = g.action /\ h.mode = g.mode
      /\ h.scope = g.scope /\ h.decision = g.decision /\ h.words = g.words
  BY <1>1 DEF HandlerFits, IsHandler, Fields
<1> HIDE DEF h
<1>3. \A A : OpFits(h) /\ ReadFits(h, A) /\ TodoFits(h, A)
  BY <1>2 DEF OpFits, ReadFits, TodoFits, VerdictPcs, StoringPcs
<1>4. HandlerFits(h, ApprovedActions)
  BY <1>1, <1>2, <1>3, MovedHandlerFits
<1> QED
  BY <1>1, <1>4, HandlerFitsMonotonic, SealingStep DEF h

LEMMA IdleFits ==
    ASSUME NEW A
    PROVE  HandlerFits(Idle, A)
<1>1. Idle.pc = "idle" /\ Idle.op = None /\ Idle.decision = FailedClosed
  BY DEF Idle
<1>2. OpFits(Idle) /\ Idle.op # "intercept"
  BY <1>1 DEF OpFits, VerdictPcs, StoringPcs, None
<1> QED
  BY <1>1, <1>2, IdleIsHandler, FreshHandlerFits

LEMMA ReplyKeeps ==
    ASSUME ApprovalInvariant, NEW s \in Slots, Reply(s)
    PROVE  ApprovalInvariant'
<1>1. /\ UNCHANGED <<rules, queue, ledger, archive, settings>>
      /\ slot' = [slot EXCEPT ![s] = Idle]
  BY DEF Reply, store
<1>2. IsHandler(Idle) /\ Idle.pc = "idle"
  BY IdleIsHandler DEF Idle
<1>3. [Idle EXCEPT !.pc = "idle"] = Idle
  BY <1>2 DEF IsHandler, Fields
<1>4. Goto(s, Idle, "idle") /\ HandlerFits([Idle EXCEPT !.pc = "idle"], ApprovedActions)
  BY <1>1, <1>3, IdleFits DEF Goto
<1> QED
  BY <1>1, <1>4, QuietStep

LEMMA StepKeepsInvariant ==
    ASSUME ApprovalInvariant, NEW s \in Slots, Step(s)
    PROVE  ApprovalInvariant'
<1>1. CASE LookupHistory(s) \/ ReadRules(s) \/ DecideAction(s)
  BY <1>1, LookupHistoryKeeps, ReadRulesKeeps, DecideActionKeeps
<1>2. CASE EnqueueRead(s) \/ EnqueueWrite(s) \/ Answer(s)
  BY <1>2, EnqueueReadKeeps, EnqueueWriteKeeps, AnswerKeeps
<1>3. CASE HistoryRead(s) \/ HistoryWrite(s)
  BY <1>3, HistoryReadKeeps, HistoryWriteKeeps
<1>4. CASE ListQueue(s) \/ RemoveRead(s) \/ RemoveWrite(s) \/ Removed(s)
  BY <1>4, ListQueueKeeps, RemoveReadKeeps, RemoveWriteKeeps, RemovedKeeps
<1>5. CASE CompileVerdict(s) \/ PutRead(s) \/ PutWrite(s) \/ RuleStored(s)
  BY <1>5, CompileVerdictKeeps, PutReadKeeps, PutWriteKeeps, RuleStoredKeeps
<1>6. CASE UpdateRead(s) \/ UpdateWrite(s) \/ RuleActivated(s)
  BY <1>6, UpdateReadKeeps, UpdateWriteKeeps, RuleActivatedKeeps
<1>7. CASE OutcomeRead(s) \/ OutcomeWrite(s) \/ OutcomeSaved(s) \/ Reply(s)
  BY <1>7, OutcomeReadKeeps, OutcomeWriteKeeps, OutcomeSavedKeeps, ReplyKeeps
<1> QED
  BY <1>1, <1>2, <1>3, <1>4, <1>5, <1>6, <1>7 DEF Step

(***************************************************************************)
(* Settings and restarts.                                                  *)
(***************************************************************************)
LEMMA SettingsKeepInvariant ==
    ASSUME ApprovalInvariant, SetMode \/ SetScope \/ SetMatchReplaceRules
    PROVE  ApprovalInvariant'
<1>1. UNCHANGED <<rules, queue, ledger, archive, slot>>
  BY DEF SetMode, SetScope, SetMatchReplaceRules, store, observer
<1>2. settings' \in Settings
  BY DEF ApprovalInvariant, SetMode, SetScope, SetMatchReplaceRules, Settings
<1>3. ApprovedActions' = ApprovedActions
  BY <1>1, SameLedgerSameApprovals
<1> QED
  BY <1>1, <1>2, <1>3 DEF ApprovalInvariant, LedgerIsSeq, StoreFits

LEMMA RestartKeepsInvariant ==
    ASSUME ApprovalInvariant, Restart
    PROVE  ApprovalInvariant'
<1>1. LedgerIsSeq' /\ Sealed' = Sealed
  BY DeathKeepsEvents DEF Restart
<1>2. ApprovedActions' = ApprovedActions
  BY <1>1 DEF ApprovedActions
<1>3. UNCHANGED <<rules, queue>> /\ settings' \in Settings /\ slot' = [s \in Slots |-> Idle]
  BY DEF Restart, store
<1> QED
  BY <1>1, <1>2, <1>3, IdleFits DEF ApprovalInvariant, StoreFits

LEMMA InitEstablishesInvariant == Init => ApprovalInvariant
<1> SUFFICES ASSUME Init PROVE ApprovalInvariant
  OBVIOUS
<1>1. /\ rules = {} /\ ledger = <<>> /\ settings \in Settings
      /\ slot = [s \in Slots |-> Idle]
      /\ queue = {[id |-> HeldId(i), action |-> Held[i]] : i \in DOMAIN Held}
  BY DEF Init
<1>2. \A i \in DOMAIN Held : Held[i] \in Actions
  BY GatewayAssumptions
<1>3. LedgerIsSeq
  <2>1. <<>> \in Seq({})
    OBVIOUS
  <2> QED
    BY <1>1, <2>1 DEF LedgerIsSeq
<1>4. StoreFits
  BY <1>1, <1>2 DEF StoreFits
<1> QED
  BY <1>1, <1>3, <1>4, IdleFits DEF ApprovalInvariant

LEMMA NextKeepsInvariant == ApprovalInvariant /\ [Next]_vars => ApprovalInvariant'
<1> SUFFICES ASSUME ApprovalInvariant, [Next]_vars PROVE ApprovalInvariant'
  OBVIOUS
<1>1. CASE \E s \in Slots : Start(s) \/ Step(s)
  BY <1>1, StartKeepsInvariant, StepKeepsInvariant
<1>2. CASE SetMode \/ SetScope \/ SetMatchReplaceRules
  BY <1>2, SettingsKeepInvariant
<1>3. CASE Restart
  BY <1>3, RestartKeepsInvariant
<1>4. CASE UNCHANGED vars
  <2>1. UNCHANGED <<rules, queue, ledger, archive, settings, slot>>
    BY <1>4 DEF vars, store, observer
  <2>2. ApprovedActions' = ApprovedActions
    BY <2>1, SameLedgerSameApprovals
  <2> QED
    BY <2>1, <2>2 DEF ApprovalInvariant, LedgerIsSeq, StoreFits
<1> QED
  BY <1>1, <1>2, <1>3, <1>4 DEF Next

LEMMA InvariantImpliesTrace == ApprovalInvariant => AllowTracesToApproval
BY DEF ApprovalInvariant, HandlerFits, AllowFits, AllowTracesToApproval, Governed

(* Outside shadow mode and in scope, no agent is told to go ahead unless   *)
(* an operator approved an action of the same class and the ledger says    *)
(* so: for any number of requests in flight over files that lose updates,  *)
(* any failures of file operations, any restarts, pids that repeat and     *)
(* settings that change in between.                                        *)
THEOREM AllowsTraceToApprovals == Spec => []AllowTracesToApproval
<1>1. Init => ApprovalInvariant
  BY InitEstablishesInvariant
<1>2. ApprovalInvariant /\ [Next]_vars => ApprovalInvariant'
  BY NextKeepsInvariant
<1>3. ApprovalInvariant => AllowTracesToApproval
  BY InvariantImpliesTrace
<1> QED
  BY <1>1, <1>2, <1>3, PTL DEF Spec
-----------------------------------------------------------------------------
(***************************************************************************)
(* Nothing goes unaudited.  K are the events sealed so far.  A verdict is  *)
(* accounted for from the moment it is sealed, which is before the handler *)
(* writes it anywhere or answers it.  A later item of a batch gives the    *)
(* handler another action, but from there until that item's verdict is     *)
(* sealed the request can only be answered with an error.                  *)
(***************************************************************************)
Accounted(a, decision, K) ==
    \E e \in K : e.event = "policy.verdict" /\ e.action = a /\ e.decision = decision

EntryFields == {"id", "action", "decision", "mode", "queueId", "outcome"}
IsEntry(e) == e = [f \in EntryFields |-> e[f]]
EntryFits(e, K) == IsEntry(e) /\ Accounted(e.action, e.decision, K)

AuditFits(h, K) ==
    /\ h.pc \in {"historyRead", "historyWrite", "compile"} \cup StoringPcs =>
          Accounted(h.action, h.decision, K)
    /\ h.pc \in {"historyRead", "historyWrite"} => EntryFits(h.entry, K)
    /\ h.pc \in {"historyWrite", "outcomeWrite"} => \A e \in h.read : EntryFits(e, K)
    /\ h.pc \in {"list", "outcomeRead", "outcomeWrite", "outcomeSaved"} => h.entry = NoEdit
    /\ h.pc = "reply" /\ h.ok /\ h.entry # NoEdit => Accounted(h.action, h.decision, K)

AuditInvariant ==
    /\ \A e \in history : EntryFits(e, Sealed)
    /\ \A s \in Slots : AuditFits(slot[s], Sealed)

(* Nothing is unsealed.                                                    *)
LEMMA AuditFitsMonotonic ==
    ASSUME NEW K, NEW L, K \subseteq L
    PROVE  /\ \A e : EntryFits(e, K) => EntryFits(e, L)
           /\ \A h : AuditFits(h, K) => AuditFits(h, L)
<1>1. \A a, d : Accounted(a, d, K) => Accounted(a, d, L)
  BY DEF Accounted
<1>2. \A e : EntryFits(e, K) => EntryFits(e, L)
  BY <1>1 DEF EntryFits
<1>3. \A h : AuditFits(h, K) => AuditFits(h, L)
  BY <1>1, <1>2 DEF AuditFits
<1> QED
  BY <1>2, <1>3

(* The continuations at which a handler answers for nothing.               *)
FreePcs ==
    {"idle", "lookup", "rules", "decide", "enqueueRead", "enqueueWrite", "answer",
     "removeRead", "removeWrite", "removed"}

LEMMA FreeHandler ==
    ASSUME NEW h, h.pc \in FreePcs
    PROVE  \A K : AuditFits(h, K)
BY DEF AuditFits, FreePcs, StoringPcs

(* A step of one handler.                                                  *)
LEMMA AuditStep ==
    ASSUME ApprovalInvariant, AuditInvariant, NEW s \in Slots, NEW h, NEW pc, Goto(s, h, pc),
           Sealed \subseteq Sealed', \A e \in history' : EntryFits(e, Sealed'),
           AuditFits([h EXCEPT !.pc = pc], Sealed')
    PROVE  AuditInvariant'
<1> DEFINE next == [h EXCEPT !.pc = pc]
<1>1. slot = [t \in Slots |-> slot[t]]
  BY DEF ApprovalInvariant
<1>2. slot' = [slot EXCEPT ![s] = next]
  BY DEF Goto
<1> HIDE DEF next
<1>3. slot'[s] = next /\ \A t \in Slots \ {s} : slot'[t] = slot[t]
  BY <1>1, <1>2
<1>4. \A t \in Slots : AuditFits(slot'[t], Sealed')
  BY <1>3, AuditFitsMonotonic DEF AuditInvariant, next
<1> QED
  BY <1>4 DEF AuditInvariant

(* A step that seals nothing and leaves the history alone.                 *)
LEMMA UnauditedStep ==
    ASSUME ApprovalInvariant, AuditInvariant, NEW s \in Slots, NEW h, NEW pc, Goto(s, h, pc),
           UNCHANGED <<history, ledger, archive>>,
           AuditFits([h EXCEPT !.pc = pc], Sealed)
    PROVE  AuditInvariant'
<1>1. Sealed' = Sealed
  BY DEF Sealed
<1> QED
  BY <1>1, AuditStep DEF AuditInvariant

(* A step that seals an event.                                             *)
LEMMA AuditedStep ==
    ASSUME ApprovalInvariant, AuditInvariant, NEW s \in Slots, NEW h, NEW pc, Goto(s, h, pc),
           NEW event, Seal(event), UNCHANGED <<history, archive>>,
           Sealed' = Sealed \cup {event} => AuditFits([h EXCEPT !.pc = pc], Sealed')
    PROVE  AuditInvariant'
<1>1. Sealed' = Sealed \cup {event}
  BY SealAddsOneEvent DEF ApprovalInvariant
<1>2. \A e \in history' : EntryFits(e, Sealed')
  BY <1>1, AuditFitsMonotonic DEF AuditInvariant
<1> QED
  BY <1>1, <1>2, AuditStep

(* A continuation at which a handler answers for nothing, and a rejected   *)
(* promise.                                                                *)
LEMMA FreeStep ==
    ASSUME ApprovalInvariant, AuditInvariant, NEW s \in Slots, NEW h, IsHandler(h),
           NEW pc \in FreePcs, Goto(s, h, pc), UNCHANGED <<history, ledger, archive>>
    PROVE  AuditInvariant'
<1> DEFINE next == [h EXCEPT !.pc = pc]
<1>1. next.pc \in FreePcs
  BY DEF IsHandler, Fields
<1> HIDE DEF next
<1>2. AuditFits(next, Sealed)
  BY <1>1, FreeHandler
<1> QED
  BY <1>2, UnauditedStep DEF next

LEMMA ThrowAudited ==
    ASSUME ApprovalInvariant, AuditInvariant, NEW s \in Slots, Throw(s),
           UNCHANGED <<history, ledger, archive>>
    PROVE  AuditInvariant'
<1> DEFINE next == [[slot[s] EXCEPT !.ok = FALSE] EXCEPT !.pc = "reply"]
<1>1. IsHandler(slot[s])
  BY DEF ApprovalInvariant, HandlerFits
<1>2. next.pc = "reply" /\ next.ok = FALSE
  BY <1>1 DEF IsHandler, Fields
<1> HIDE DEF next
<1>3. AuditFits(next, Sealed)
  BY <1>2 DEF AuditFits, StoringPcs
<1>4. Goto(s, [slot[s] EXCEPT !.ok = FALSE], "reply")
  BY DEF Throw
<1> QED
  BY <1>3, <1>4, UnauditedStep DEF next

(***************************************************************************)
(* A request that has just arrived has decided, read and stored nothing.   *)
(***************************************************************************)
Fresh(h) ==
    /\ IsHandler(h)
    /\ h.decision = FailedClosed /\ h.stored = {} /\ h.entry = NoEdit
    /\ h.queueId = NoId \/ h.op \in VerdictOps

ArrivalPcs == {"rules", "lookup", "removeRead", "list", "outcomeRead"}

LEMMA FreshRecord ==
    ASSUME NEW h, h = [f \in Fields |-> h[f]],
           h.edit \in Actions \cup {NoEdit, InvalidEdit}, h.words \in Seq(SUBSET STRING),
           h.decision = FailedClosed, h.stored = {}, h.entry = NoEdit,
           h.queueId = NoId \/ h.op \in VerdictOps
    PROVE  Fresh(h)
BY DEF Fresh, IsHandler

LEMMA CapturedIsFresh ==
    ASSUME NEW op, NEW a, NEW mode
    PROVE  Fresh(Captured(op, a, mode))
<1> DEFINE h == Captured(op, a, mode)
<1>1. /\ h.words = <<>> /\ h.edit = NoEdit /\ h.decision = FailedClosed /\ h.stored = {}
      /\ h.entry = NoEdit /\ h.queueId = NoId
  BY DEF Captured, Idle
<1>2. h = [f \in Fields |-> h[f]]
  BY DEF Captured, Idle, Fields
<1>3. <<>> \in Seq(SUBSET STRING)
  OBVIOUS
<1> HIDE DEF h
<1>4. Fresh(h)
  BY <1>1, <1>2, <1>3, FreshRecord
<1> QED
  BY <1>4 DEF h

LEMMA VerdictIsFresh ==
    ASSUME NEW op \in VerdictOps, NEW words \in Seq(SUBSET STRING), NEW activate, NEW id,
           NEW edit \in Actions \cup {NoEdit, InvalidEdit}
    PROVE  Fresh([Verdict(op, words, activate) EXCEPT !.queueId = id, !.edit = edit])
<1> DEFINE h == [Verdict(op, words, activate) EXCEPT !.queueId = id, !.edit = edit]
<1>1. /\ h.words = words /\ h.edit = edit /\ h.decision = FailedClosed /\ h.stored = {}
      /\ h.entry = NoEdit /\ h.op = op
  BY DEF Verdict, Idle
<1>2. h = [f \in Fields |-> h[f]]
  BY DEF Verdict, Idle, Fields
<1> HIDE DEF h
<1>3. Fresh(h)
  BY <1>1, <1>2, FreshRecord
<1> QED
  BY <1>3 DEF h

LEMMA BatchIsFresh ==
    ASSUME NEW op \in VerdictOps, NEW words \in Seq(SUBSET STRING), NEW activate
    PROVE  Fresh(Verdict(op, words, activate))
<1> DEFINE h == Verdict(op, words, activate)
<1>1. /\ h.words = words /\ h.edit = NoEdit /\ h.decision = FailedClosed /\ h.stored = {}
      /\ h.entry = NoEdit /\ h.queueId = NoId
  BY DEF Verdict, Idle
<1>2. h = [f \in Fields |-> h[f]]
  BY DEF Verdict, Idle, Fields
<1> HIDE DEF h
<1>3. Fresh(h)
  BY <1>1, <1>2, FreshRecord
<1> QED
  BY <1>3 DEF h

LEMMA IdleIsFresh ==
    ASSUME NEW op, NEW id
    PROVE  /\ Fresh(Idle) /\ Fresh([Idle EXCEPT !.op = op])
           /\ Fresh([Idle EXCEPT !.op = op, !.outcomeOf = id])
<1>1. Idle.decision = FailedClosed /\ Idle.stored = {} /\ Idle.entry = NoEdit /\ Idle.queueId = NoId
  BY DEF Idle
<1> QED
  BY <1>1, IdleIsHandler DEF Fresh, IsHandler, Fields

LEMMA StartIsFresh ==
    ASSUME NEW s \in Slots, Start(s)
    PROVE  /\ UNCHANGED <<store, ledger, settings, observer>> /\ slot[s].pc = "idle"
           /\ \E h : \E pc \in ArrivalPcs : Fresh(h) /\ Goto(s, h, pc)
<1>1. UNCHANGED <<store, ledger, settings, observer>> /\ slot[s].pc = "idle"
  <2>1. CASE StartIntercept(s) \/ StartRepeater(s) \/ StartOutcome(s)
    BY <2>1 DEF StartIntercept, StartRepeater, StartOutcome, Accept, At
  <2>2. CASE StartVerdict(s) \/ StartBatch(s)
    BY <2>2 DEF StartVerdict, StartBatch, Accept, At
  <2> QED
    BY <2>1, <2>2 DEF Start
<1>2. /\ <<>> \in Seq(SUBSET STRING) /\ Words \subseteq Seq(SUBSET STRING)
      /\ Edits \subseteq Actions \cup {NoEdit, InvalidEdit}
      /\ {"forward", "drop", "forward-all", "drop-all"} \subseteq VerdictOps
  BY GatewayAssumptions DEF VerdictOps
<1>3. ASSUME NEW h, Fresh(h), NEW pc \in ArrivalPcs, Goto(s, h, pc)
      PROVE  \E g : \E p \in ArrivalPcs : Fresh(g) /\ Goto(s, g, p)
  BY <1>3
<1>4. CASE StartIntercept(s) \/ StartRepeater(s)
  <2>1. \/ \E op, a, mode : Goto(s, Captured(op, a, mode), "rules")
        \/ Goto(s, [Idle EXCEPT !.op = "repeater"], "lookup")
    BY <1>4 DEF StartIntercept, StartRepeater, Repeated
  <2> QED
    BY <1>1, <1>3, <2>1, CapturedIsFresh, IdleIsFresh DEF ArrivalPcs
<1>5. CASE StartVerdict(s)
  <2>1. PICK id \in IdsOf(queue) \cup taken, edit \in Edits :
            \/ Goto(s, [Verdict("forward", <<>>, FALSE) EXCEPT !.queueId = id, !.edit = edit],
                    "removeRead")
            \/ \E words \in Words, activate \in BOOLEAN :
                  Goto(s, [Verdict("drop", words, activate) EXCEPT !.queueId = id, !.edit = edit],
                       "removeRead")
    BY <1>5 DEF StartVerdict
  <2> QED
    BY <1>1, <1>2, <1>3, <2>1, VerdictIsFresh DEF ArrivalPcs
<1>6. CASE StartBatch(s)
  <2>1. \/ Goto(s, Verdict("forward-all", <<>>, FALSE), "list")
        \/ \E words \in Words, activate \in BOOLEAN :
              Goto(s, Verdict("drop-all", words, activate), "list")
    BY <1>6 DEF StartBatch
  <2> QED
    BY <1>1, <1>2, <1>3, <2>1, BatchIsFresh DEF ArrivalPcs
<1>7. CASE StartOutcome(s)
  <2>1. PICK id \in ActionIds :
            Goto(s, [Idle EXCEPT !.op = "outcome", !.outcomeOf = id], "outcomeRead")
    BY <1>7 DEF StartOutcome
  <2> QED
    BY <1>1, <1>3, <2>1, IdleIsFresh DEF ArrivalPcs
<1> QED
  BY <1>1, <1>4, <1>5, <1>6, <1>7 DEF Start

LEMMA StartAudited ==
    ASSUME ApprovalInvariant, AuditInvariant, NEW s \in Slots, Start(s)
    PROVE  AuditInvariant'
<1>1. UNCHANGED <<history, ledger, archive>>
  BY StartIsFresh DEF store, observer
<1>2. PICK h : \E pc \in ArrivalPcs : Fresh(h) /\ Goto(s, h, pc)
  BY StartIsFresh
<1>3. PICK pc \in ArrivalPcs : Fresh(h) /\ Goto(s, h, pc)
  BY <1>2
<1> DEFINE next == [h EXCEPT !.pc = pc]
<1>4. next.pc = pc /\ next.entry = NoEdit
  BY <1>3 DEF Fresh, IsHandler, Fields
<1> HIDE DEF next
<1>5. AuditFits(next, Sealed)
  BY <1>4 DEF AuditFits, ArrivalPcs, StoringPcs
<1> QED
  BY <1>1, <1>3, <1>5, UnauditedStep DEF next

LEMMA LookupHistoryAudited ==
    ASSUME ApprovalInvariant, AuditInvariant, NEW s \in Slots, LookupHistory(s)
    PROVE  AuditInvariant'
<1>1. UNCHANGED <<history, ledger, archive>>
  BY DEF LookupHistory, store, observer
<1>2. CASE \E b, mode : Goto(s, Captured("repeater", b, mode), "rules")
  BY <1>1, <1>2, CapturedIsFresh, FreeStep DEF FreePcs, Fresh
<1>3. CASE Throw(s)
  BY <1>1, <1>3, ThrowAudited
<1> QED
  BY <1>2, <1>3 DEF LookupHistory, Repeated

(* Before the verdict is sealed, and while an item is taken off the queue. *)
LEMMA SilentStepAudited ==
    ASSUME ApprovalInvariant, AuditInvariant, NEW s \in Slots,
           \/ ReadRules(s) \/ EnqueueRead(s) \/ EnqueueWrite(s)
           \/ RemoveRead(s) \/ RemoveWrite(s)
    PROVE  AuditInvariant'
<1> DEFINE g == slot[s]
<1>1. IsHandler(g)
  BY DEF ApprovalInvariant, HandlerFits
<1>2. UNCHANGED <<history, ledger, archive>>
  <2>1. CASE ReadRules(s) \/ EnqueueRead(s) \/ EnqueueWrite(s)
    BY <2>1 DEF ReadRules, EnqueueRead, EnqueueWrite, store, observer
  <2>2. CASE RemoveRead(s) \/ RemoveWrite(s)
    BY <2>2 DEF RemoveRead, RemoveWrite, store, observer
  <2> QED
    BY <2>1, <2>2
<1>3. CASE Throw(s)
  BY <1>2, <1>3, ThrowAudited
<1>4. CASE \/ \E pc \in FreePcs : \E content : Load(s, content, pc)
           \/ \E pc \in FreePcs : Saved(s, pc)
  <2>1. ASSUME NEW content PROVE IsHandler([g EXCEPT !.read = content])
    BY <1>1 DEF IsHandler, Fields
  <2>2. \E pc \in FreePcs : \E content : Goto(s, [g EXCEPT !.read = content], pc)
    BY <1>4 DEF Load, Saved
  <2> QED
    BY <1>2, <2>1, <2>2, FreeStep
<1>5. CASE Goto(s, [g EXCEPT !.decision = FailedClosed], "answer")
  <2>1. IsHandler([g EXCEPT !.decision = FailedClosed])
    BY <1>1 DEF IsHandler, Fields
  <2> QED
    BY <1>2, <1>5, <2>1, FreeStep DEF FreePcs
<1>6. CASE HoldFailed(s)
  <2>1. IsHandler([g EXCEPT !.decision = FailedClosed, !.queueId = NoId, !.read = {}])
    BY <1>1 DEF IsHandler, Fields
  <2>2. Goto(s, [g EXCEPT !.decision = FailedClosed, !.queueId = NoId, !.read = {}], "answer")
    BY <1>6 DEF HoldFailed
  <2> QED
    BY <1>2, <2>1, <2>2, FreeStep DEF FreePcs
<1>7. CASE \E a : Goto(s, [g EXCEPT !.read = queue, !.action = a], "removeWrite")
  <2>1. ASSUME NEW a PROVE IsHandler([g EXCEPT !.read = queue, !.action = a])
    BY <1>1 DEF IsHandler, Fields
  <2> QED
    BY <1>2, <1>7, <2>1, FreeStep DEF FreePcs
<1> QED
  <2>1. CASE ReadRules(s)
    BY <1>4, <1>5, <2>1 DEF ReadRules, FreePcs
  <2>2. CASE EnqueueRead(s)
    BY <1>4, <1>6, <2>2 DEF EnqueueRead, FreePcs
  <2>3. CASE EnqueueWrite(s)
    BY <1>4, <1>6, <2>3 DEF EnqueueWrite, FreePcs
  <2>4. CASE RemoveRead(s)
    BY <1>3, <1>7, <2>4 DEF RemoveRead
  <2>5. CASE RemoveWrite(s)
    BY <1>3, <1>4, <2>5 DEF RemoveWrite, FreePcs
  <2> QED
    BY <2>1, <2>2, <2>3, <2>4, <2>5

(* A verdict that is sealed is accounted for, and so is its entry.         *)
LEMMA SealedVerdictFits ==
    ASSUME ApprovalInvariant, AuditInvariant, NEW s \in Slots, NEW h, IsHandler(h), NEW id, NEW from,
           Seal(VerdictEvent(h.action, h.decision, from)),
           Goto(s, [h EXCEPT !.entry = Entry(h, id)], "historyRead"),
           UNCHANGED <<history, archive>>
    PROVE  AuditInvariant'
<1> DEFINE event == VerdictEvent(h.action, h.decision, from)
           entry == Entry(h, id)
           next == [[h EXCEPT !.entry = entry] EXCEPT !.pc = "historyRead"]
<1>1. /\ event.event = "policy.verdict" /\ event.action = h.action
      /\ event.decision = h.decision
  BY DEF VerdictEvent
<1>2. IsEntry(entry) /\ entry.action = h.action /\ entry.decision = h.decision
  BY DEF Entry, IsEntry, EntryFields
<1> HIDE DEF event, entry
<1>3. /\ next.pc = "historyRead" /\ next.action = h.action /\ next.decision = h.decision
      /\ next.entry = entry
  BY DEF IsHandler, Fields
<1> HIDE DEF next
<1>4. ASSUME Sealed' = Sealed \cup {event}
      PROVE  AuditFits(next, Sealed')
  <2>1. Accounted(h.action, h.decision, Sealed')
    BY <1>1, <1>4 DEF Accounted
  <2> QED
    BY <1>2, <1>3, <2>1 DEF AuditFits, EntryFits, StoringPcs
<1> QED
  BY <1>4, AuditedStep DEF event, entry, next

LEMMA AnsweredAudited ==
    ASSUME ApprovalInvariant, AuditInvariant, NEW s \in Slots, NEW h, IsHandler(h), Answered(s, h)
    PROVE  AuditInvariant'
BY SealedVerdictFits DEF Answered, store, observer

LEMMA DecideActionAudited ==
    ASSUME ApprovalInvariant, AuditInvariant, NEW s \in Slots, DecideAction(s)
    PROVE  AuditInvariant'
<1> DEFINE g == slot[s]
           d == Decide(g.action, g.read, g.mode, g.scope)
           h == [g EXCEPT !.decision = d, !.read = {}]
<1>1. IsHandler(g)
  BY DEF ApprovalInvariant, HandlerFits
<1> HIDE DEF d
<1>2. IsHandler(h) /\ IsHandler([h EXCEPT !.queueId = NthId(1)])
  BY <1>1 DEF IsHandler, Fields
<1>3. CASE Answered(s, h)
  BY <1>2, <1>3, AnsweredAudited
<1>4. CASE /\ Goto(s, [h EXCEPT !.queueId = NthId(1)], "enqueueRead")
           /\ UNCHANGED <<store, ledger, settings, observer>>
  BY <1>2, <1>4, FreeStep DEF FreePcs, store, observer
<1> QED
  BY <1>3, <1>4 DEF DecideAction, d

LEMMA HistoryReadAudited ==
    ASSUME ApprovalInvariant, AuditInvariant, NEW s \in Slots, HistoryRead(s)
    PROVE  AuditInvariant'
<1> DEFINE g == slot[s]
           next == [[g EXCEPT !.read = history] EXCEPT !.pc = "historyWrite"]
<1>1. /\ UNCHANGED <<history, ledger, archive>> /\ g.pc = "historyRead"
      /\ IsHandler(g) /\ AuditFits(g, Sealed) /\ \A e \in history : EntryFits(e, Sealed)
  BY DEF HistoryRead, store, observer, At, ApprovalInvariant, HandlerFits, AuditInvariant
<1>2. CASE Load(s, history, "historyWrite")
  <2>1. /\ next.pc = "historyWrite" /\ next.read = history /\ next.entry = g.entry
        /\ next.action = g.action /\ next.decision = g.decision
    BY <1>1 DEF IsHandler, Fields
  <2> HIDE DEF next
  <2>2. AuditFits(next, Sealed)
    BY <1>1, <2>1 DEF AuditFits, StoringPcs
  <2> QED
    BY <1>1, <1>2, <2>2, UnauditedStep DEF Load, next
<1>3. CASE Throw(s)
  BY <1>1, <1>3, ThrowAudited
<1> QED
  BY <1>2, <1>3 DEF HistoryRead

(* The copy of the history may be old, but events are never unsealed.      *)
LEMMA HistoryWriteAudited ==
    ASSUME ApprovalInvariant, AuditInvariant, NEW s \in Slots, HistoryWrite(s)
    PROVE  AuditInvariant'
<1> DEFINE g == slot[s]
<1>1. /\ UNCHANGED <<ledger, archive>> /\ g.pc = "historyWrite"
      /\ IsHandler(g) /\ AuditFits(g, Sealed)
  BY DEF HistoryWrite, observer, At, ApprovalInvariant, HandlerFits, AuditInvariant
<1>2. ASSUME history' = g.read \cup {g.entry}, NEW pc \in {"compile", "reply"}, Saved(s, pc)
      PROVE  AuditInvariant'
  <2> DEFINE next == [[g EXCEPT !.read = {}] EXCEPT !.pc = pc]
  <2>1. Sealed' = Sealed
    BY <1>1 DEF Sealed
  <2>2. \A e \in history' : EntryFits(e, Sealed')
    BY <1>1, <1>2, <2>1 DEF AuditFits
  <2>3. next.pc = pc /\ next.action = g.action /\ next.decision = g.decision
    BY <1>1 DEF IsHandler, Fields
  <2> HIDE DEF next
  <2>4. AuditFits(next, Sealed')
    BY <1>1, <2>1, <2>3 DEF AuditFits, StoringPcs
  <2> QED
    BY <1>2, <2>1, <2>2, <2>4, AuditStep DEF Saved, next
<1>3. CASE Throw(s) /\ UNCHANGED history
  BY <1>1, <1>3, ThrowAudited
<1> QED
  BY <1>2, <1>3 DEF HistoryWrite

(* A verdict that is done, or turns to the next item of its batch.         *)
LEMMA NextItemAudited ==
    ASSUME NEW s, NEW h, NextItem(s, h), IsHandler(h), NEW K,
           h.entry = NoEdit \/ Accounted(h.action, h.decision, K)
    PROVE  \E n, pc : Goto(s, n, pc) /\ AuditFits([n EXCEPT !.pc = pc], K)
<1>1. CASE Goto(s, h, "reply")
  <2> DEFINE n == [h EXCEPT !.pc = "reply"]
  <2>1. n.pc = "reply" /\ n.entry = h.entry /\ n.action = h.action /\ n.decision = h.decision
    BY DEF IsHandler, Fields
  <2> HIDE DEF n
  <2>2. AuditFits(n, K)
    BY <2>1 DEF AuditFits, StoringPcs
  <2> QED
    BY <1>1, <2>2 DEF n
<1>2. ASSUME NEW id \in h.batch,
             Goto(s, [h EXCEPT !.queueId = id, !.batch = @ \ {id}], "removeRead")
      PROVE  \E n, pc : Goto(s, n, pc) /\ AuditFits([n EXCEPT !.pc = pc], K)
  <2> DEFINE n == [[h EXCEPT !.queueId = id, !.batch = @ \ {id}] EXCEPT !.pc = "removeRead"]
  <2>1. n.pc \in FreePcs
    BY DEF IsHandler, Fields, FreePcs
  <2> HIDE DEF n
  <2>2. AuditFits(n, K)
    BY <2>1, FreeHandler
  <2> QED
    BY <1>2, <2>2 DEF n
<1> QED
  BY <1>1, <1>2 DEF NextItem

LEMMA ListQueueAudited ==
    ASSUME ApprovalInvariant, AuditInvariant, NEW s \in Slots, ListQueue(s)
    PROVE  AuditInvariant'
<1>1. /\ UNCHANGED <<history, ledger, archive>> /\ slot[s].pc = "list"
      /\ IsHandler(slot[s]) /\ AuditFits(slot[s], Sealed)
  BY DEF ListQueue, store, observer, At, ApprovalInvariant, HandlerFits, AuditInvariant
<1>2. CASE NextItem(s, [slot[s] EXCEPT !.batch = IdsOf(queue)])
  <2> DEFINE h == [slot[s] EXCEPT !.batch = IdsOf(queue)]
  <2>1. IsHandler(h) /\ h.entry = NoEdit
    BY <1>1 DEF AuditFits, IsHandler, Fields
  <2>2. PICK n, pc : Goto(s, n, pc) /\ AuditFits([n EXCEPT !.pc = pc], Sealed)
    BY <1>2, <2>1, NextItemAudited
  <2> QED
    BY <1>1, <2>2, UnauditedStep
<1>3. CASE Throw(s)
  BY <1>1, <1>3, ThrowAudited
<1> QED
  BY <1>2, <1>3 DEF ListQueue

LEMMA RemovedAudited ==
    ASSUME ApprovalInvariant, AuditInvariant, NEW s \in Slots, Removed(s)
    PROVE  AuditInvariant'
<1> DEFINE g == slot[s]
<1>1. UNCHANGED <<history, archive>> /\ IsHandler(g)
  BY DEF Removed, store, observer, ApprovalInvariant, HandlerFits
<1>2. CASE Throw(s) /\ UNCHANGED ledger
  BY <1>1, <1>2, ThrowAudited
<1>3. CASE g.edit # InvalidEdit /\ OperatorDecided(s)
  <2> DEFINE h == [g EXCEPT !.action = ActedOn(g), !.from = NthId(1),
                            !.decision = OperatorDecision(g)]
  <2>1. IsHandler(h)
    BY <1>1 DEF IsHandler, Fields
  <2>2. /\ Seal(VerdictEvent(h.action, h.decision, h.from))
        /\ Goto(s, [h EXCEPT !.entry = Entry(h, NthId(3))], "historyRead")
    BY <1>3 DEF OperatorDecided
  <2> QED
    BY <1>1, <2>1, <2>2, SealedVerdictFits
<1> QED
  BY <1>2, <1>3 DEF Removed

(* From compiling to the last rule the handler carries the sealed verdict. *)
LEMMA CarriedVerdict ==
    ASSUME NEW g, NEW h, NEW K, AuditFits(g, K), g.pc \in {"compile"} \cup StoringPcs,
           h.pc \in StoringPcs, h.action = g.action, h.decision = g.decision
    PROVE  AuditFits(h, K)
BY DEF AuditFits, StoringPcs

LEMMA CompileVerdictAudited ==
    ASSUME ApprovalInvariant, AuditInvariant, NEW s \in Slots, CompileVerdict(s)
    PROVE  AuditInvariant'
<1> DEFINE g == slot[s]
<1>1. /\ UNCHANGED <<history, ledger, archive>> /\ g.pc = "compile"
      /\ IsHandler(g) /\ AuditFits(g, Sealed)
  BY DEF CompileVerdict, store, observer, At, ApprovalInvariant, HandlerFits, AuditInvariant
<1>2. ASSUME NEW todo, Goto(s, [g EXCEPT !.todo = todo], "putRead")
      PROVE  AuditInvariant'
  <2> DEFINE next == [[g EXCEPT !.todo = todo] EXCEPT !.pc = "putRead"]
  <2>1. /\ next.pc \in StoringPcs /\ next.action = g.action /\ next.decision = g.decision
    BY <1>1 DEF IsHandler, Fields, StoringPcs
  <2> HIDE DEF next
  <2>2. AuditFits(next, Sealed)
    BY <1>1, <2>1, CarriedVerdict
  <2> QED
    BY <1>1, <1>2, <2>2, UnauditedStep DEF next
<1>3. CASE Throw(s)
  BY <1>1, <1>3, ThrowAudited
<1>4. CASE Approves(g)
  BY <1>2, <1>4 DEF CompileVerdict
<1>5. CASE ~Approves(g)
  BY <1>2, <1>3, <1>5 DEF CompileVerdict
<1> QED
  BY <1>4, <1>5

LEMMA RuleFileAudited ==
    ASSUME ApprovalInvariant, AuditInvariant, NEW s \in Slots,
           PutRead(s) \/ PutWrite(s) \/ UpdateRead(s) \/ UpdateWrite(s)
    PROVE  AuditInvariant'
<1> DEFINE g == slot[s]
<1>1. IsHandler(g) /\ AuditFits(g, Sealed)
  BY DEF ApprovalInvariant, HandlerFits, AuditInvariant
<1>2. ASSUME NEW content, NEW pc \in StoringPcs, Goto(s, [g EXCEPT !.read = content], pc),
             g.pc \in StoringPcs, UNCHANGED <<history, ledger, archive>>
      PROVE  AuditInvariant'
  <2> DEFINE next == [[g EXCEPT !.read = content] EXCEPT !.pc = pc]
  <2>1. /\ next.pc = pc /\ next.action = g.action /\ next.decision = g.decision
    BY <1>1 DEF IsHandler, Fields
  <2> HIDE DEF next
  <2>2. AuditFits(next, Sealed)
    BY <1>1, <1>2, <2>1, CarriedVerdict
  <2> QED
    BY <1>2, <2>2, UnauditedStep DEF next
<1>3. CASE PutRead(s)
  <2>1. UNCHANGED <<history, ledger, archive>> /\ g.pc \in StoringPcs
    BY <1>3 DEF PutRead, store, observer, At, StoringPcs
  <2>2. Load(s, rules, "putWrite") \/ Throw(s)
    BY <1>3 DEF PutRead
  <2> QED
    BY <1>2, <2>1, <2>2, ThrowAudited DEF Load, StoringPcs
<1>4. CASE PutWrite(s)
  <2>1. UNCHANGED <<history, ledger, archive>> /\ g.pc \in StoringPcs
    BY <1>4 DEF PutWrite, observer, At, StoringPcs
  <2>2. Saved(s, "stored") \/ Throw(s)
    BY <1>4 DEF PutWrite
  <2> QED
    BY <1>2, <2>1, <2>2, ThrowAudited DEF Saved, StoringPcs
<1>5. CASE UpdateRead(s)
  <2>1. UNCHANGED <<history, ledger, archive>> /\ g.pc \in StoringPcs
    BY <1>5 DEF UpdateRead, store, observer, At, StoringPcs
  <2>2. Load(s, rules, "updateWrite") \/ Throw(s)
    BY <1>5 DEF UpdateRead
  <2> QED
    BY <1>2, <2>1, <2>2, ThrowAudited DEF Load, StoringPcs
<1>6. CASE UpdateWrite(s)
  <2>1. UNCHANGED <<history, ledger, archive>> /\ g.pc \in StoringPcs
    BY <1>6 DEF UpdateWrite, observer, At, StoringPcs
  <2>2. Saved(s, "activated") \/ Throw(s)
    BY <1>6 DEF UpdateWrite
  <2> QED
    BY <1>2, <2>1, <2>2, ThrowAudited DEF Saved, StoringPcs
<1> QED
  BY <1>3, <1>4, <1>5, <1>6

LEMMA NextRuleAudited ==
    ASSUME NEW s \in Slots, NEW r, NextRule(s, r), IsHandler(slot[s]), NEW K,
           AuditFits(slot[s], K), slot[s].pc \in {"stored", "activated"}
    PROVE  \E n, pc : Goto(s, n, pc) /\ AuditFits([n EXCEPT !.pc = pc], K)
<1> DEFINE g == slot[s]
           h == [g EXCEPT !.stored = @ \cup {r}, !.todo = Tail(@)]
<1>1. IsHandler(h) /\ h.action = g.action /\ h.decision = g.decision
  BY DEF IsHandler, Fields
<1>2. CASE Goto(s, h, "putRead")
  <2> DEFINE n == [h EXCEPT !.pc = "putRead"]
  <2> HIDE DEF h
  <2>1. n.pc \in StoringPcs /\ n.action = g.action /\ n.decision = g.decision
    BY <1>1 DEF IsHandler, Fields, StoringPcs
  <2> HIDE DEF n
  <2>2. AuditFits(n, K)
    BY <2>1, CarriedVerdict DEF StoringPcs
  <2> QED
    BY <1>2, <2>2 DEF n
<1>3. CASE NextItem(s, h)
  <2>1. Accounted(h.action, h.decision, K)
    BY <1>1 DEF AuditFits, StoringPcs
  <2> QED
    BY <1>1, <1>3, <2>1, NextItemAudited
<1> QED
  BY <1>2, <1>3 DEF NextRule

(* Rule events are added to the verdicts.                                  *)
LEMMA RuleEventAudited ==
    ASSUME ApprovalInvariant, AuditInvariant, NEW s \in Slots, RuleStored(s) \/ RuleActivated(s)
    PROVE  AuditInvariant'
<1> DEFINE g == slot[s]
           r == Head(g.todo)
<1>1. /\ UNCHANGED <<history, archive>> /\ Seal(RuleEvent(r))
      /\ g.pc \in {"stored", "activated"} /\ IsHandler(g) /\ AuditFits(g, Sealed)
  <2>1. IsHandler(g) /\ AuditFits(g, Sealed)
    BY DEF ApprovalInvariant, HandlerFits, AuditInvariant
  <2>2. CASE RuleStored(s)
    BY <2>1, <2>2 DEF RuleStored, store, observer, At
  <2>3. CASE RuleActivated(s)
    BY <2>1, <2>3 DEF RuleActivated, store, observer, At
  <2> QED
    BY <2>2, <2>3
<1>2. CASE Goto(s, [g EXCEPT !.todo[1].status = "active"], "updateRead")
  <2> DEFINE todo == [g.todo EXCEPT ![1].status = "active"]
             next == [[g EXCEPT !.todo = todo] EXCEPT !.pc = "updateRead"]
  <2>1. [g EXCEPT !.todo[1].status = "active"] = [g EXCEPT !.todo = todo]
    BY <1>1 DEF IsHandler, Fields
  <2> HIDE DEF todo
  <2>2. next.pc \in StoringPcs /\ next.action = g.action /\ next.decision = g.decision
    BY <1>1 DEF IsHandler, Fields, StoringPcs
  <2> HIDE DEF next
  <2>3. AuditFits(next, Sealed)
    BY <1>1, <2>2, CarriedVerdict DEF StoringPcs
  <2>4. Sealed' = Sealed \cup {RuleEvent(r)} => AuditFits(next, Sealed')
    BY <2>3, AuditFitsMonotonic
  <2>5. Goto(s, [g EXCEPT !.todo = todo], "updateRead")
    BY <1>2, <2>1
  <2> HIDE DEF r
  <2> QED
    BY <1>1, <2>4, <2>5, AuditedStep DEF next
<1>3. CASE NextRule(s, r)
  <2>1. PICK n, pc : Goto(s, n, pc) /\ AuditFits([n EXCEPT !.pc = pc], Sealed)
    BY <1>1, <1>3, NextRuleAudited
  <2>2. Sealed' = Sealed \cup {RuleEvent(r)} => AuditFits([n EXCEPT !.pc = pc], Sealed')
    BY <2>1, AuditFitsMonotonic
  <2> HIDE DEF r
  <2> QED
    BY <1>1, <2>1, <2>2, AuditedStep
<1> QED
  BY <1>2, <1>3 DEF RuleStored, RuleActivated

LEMMA OutcomeAudited ==
    ASSUME ApprovalInvariant, AuditInvariant, NEW s \in Slots,
           OutcomeRead(s) \/ OutcomeWrite(s) \/ OutcomeSaved(s)
    PROVE  AuditInvariant'
<1> DEFINE g == slot[s]
<1>1. IsHandler(g) /\ AuditFits(g, Sealed)
  BY DEF ApprovalInvariant, HandlerFits, AuditInvariant
<1>2. CASE OutcomeRead(s)
  <2> DEFINE next == [[g EXCEPT !.read = history] EXCEPT !.pc = "outcomeWrite"]
  <2>1. UNCHANGED <<history, ledger, archive>> /\ g.pc = "outcomeRead"
    BY <1>2 DEF OutcomeRead, store, observer, At
  <2>2. next.pc = "outcomeWrite" /\ next.read = history /\ next.entry = g.entry
    BY <1>1 DEF IsHandler, Fields
  <2> HIDE DEF next
  <2>3. AuditFits(next, Sealed)
    BY <1>1, <2>1, <2>2 DEF AuditFits, AuditInvariant, StoringPcs
  <2>4. Load(s, history, "outcomeWrite") \/ Throw(s)
    BY <1>2 DEF OutcomeRead
  <2> QED
    BY <2>1, <2>3, <2>4, UnauditedStep, ThrowAudited DEF Load, next
<1>3. CASE OutcomeWrite(s)
  <2> DEFINE Marked(e) == [e EXCEPT !.outcome = @ \/ e.action.id = g.outcomeOf]
             next == [[g EXCEPT !.read = {}] EXCEPT !.pc = "outcomeSaved"]
  <2>1. UNCHANGED <<ledger, archive>> /\ g.pc = "outcomeWrite" /\ Sealed' = Sealed
    BY <1>3 DEF OutcomeWrite, observer, At, Sealed
  <2>2. CASE history' = {Marked(e) : e \in g.read} /\ Saved(s, "outcomeSaved")
    <3>1. ASSUME NEW e \in g.read PROVE EntryFits(Marked(e), Sealed)
      <4>1. EntryFits(e, Sealed)
        BY <1>1, <2>1 DEF AuditFits
      <4>2. /\ IsEntry(Marked(e)) /\ Marked(e).action = e.action
            /\ Marked(e).decision = e.decision
        BY <4>1 DEF EntryFits, IsEntry, EntryFields
      <4> QED
        BY <4>1, <4>2 DEF EntryFits
    <3>2. \A e \in history' : EntryFits(e, Sealed')
      BY <2>1, <2>2, <3>1
    <3>3. next.pc = "outcomeSaved" /\ next.entry = g.entry
      BY <1>1 DEF IsHandler, Fields
    <3> HIDE DEF next
    <3>4. AuditFits(next, Sealed')
      BY <1>1, <2>1, <3>3 DEF AuditFits, StoringPcs
    <3> QED
      BY <2>1, <2>2, <3>2, <3>4, AuditStep DEF Saved, next
  <2>3. CASE Throw(s) /\ UNCHANGED history
    BY <2>1, <2>3, ThrowAudited
  <2> QED
    BY <1>3, <2>2, <2>3 DEF OutcomeWrite
<1>4. CASE OutcomeSaved(s)
  <2> DEFINE next == [g EXCEPT !.pc = "reply"]
  <2>1. /\ UNCHANGED <<history, archive>> /\ g.pc = "outcomeSaved"
        /\ Seal(OutcomeEvent(g.outcomeOf)) /\ Goto(s, g, "reply")
    BY <1>4 DEF OutcomeSaved, store, observer, At
  <2>2. next.pc = "reply" /\ next.entry = NoEdit
    BY <1>1, <2>1 DEF IsHandler, Fields, AuditFits
  <2> HIDE DEF next
  <2>3. AuditFits(next, Sealed')
    BY <2>2 DEF AuditFits, StoringPcs
  <2> QED
    BY <2>1, <2>3, AuditedStep DEF next
<1> QED
  BY <1>2, <1>3, <1>4

LEMMA ReplyAudited ==
    ASSUME ApprovalInvariant, AuditInvariant, NEW s \in Slots, Reply(s)
    PROVE  AuditInvariant'
<1>1. /\ UNCHANGED <<history, ledger, archive>>
      /\ slot' = [slot EXCEPT ![s] = Idle]
  BY DEF Reply, store
<1>2. IsHandler(Idle) /\ Idle.pc = "idle"
  BY IdleIsHandler DEF Idle
<1>3. [Idle EXCEPT !.pc = "idle"] = Idle
  BY <1>2 DEF IsHandler, Fields
<1>4. Goto(s, Idle, "idle")
  BY <1>1, <1>3 DEF Goto
<1> QED
  BY <1>1, <1>2, <1>4, FreeStep DEF FreePcs

LEMMA StepAudited ==
    ASSUME ApprovalInvariant, AuditInvariant, NEW s \in Slots, Step(s)
    PROVE  AuditInvariant'
<1>1. CASE LookupHistory(s) \/ ReadRules(s) \/ DecideAction(s)
  BY <1>1, LookupHistoryAudited, SilentStepAudited, DecideActionAudited
<1>2. CASE EnqueueRead(s) \/ EnqueueWrite(s) \/ RemoveRead(s) \/ RemoveWrite(s)
  BY <1>2, SilentStepAudited
<1>3. CASE Answer(s)
  BY <1>3, AnsweredAudited DEF Answer, ApprovalInvariant, HandlerFits
<1>4. CASE HistoryRead(s) \/ HistoryWrite(s) \/ ListQueue(s) \/ Removed(s)
  BY <1>4, HistoryReadAudited, HistoryWriteAudited, ListQueueAudited, RemovedAudited
<1>5. CASE CompileVerdict(s) \/ PutRead(s) \/ PutWrite(s) \/ UpdateRead(s) \/ UpdateWrite(s)
  BY <1>5, CompileVerdictAudited, RuleFileAudited
<1>6. CASE RuleStored(s) \/ RuleActivated(s)
  BY <1>6, RuleEventAudited
<1>7. CASE OutcomeRead(s) \/ OutcomeWrite(s) \/ OutcomeSaved(s) \/ Reply(s)
  BY <1>7, OutcomeAudited, ReplyAudited
<1> QED
  BY <1>1, <1>2, <1>3, <1>4, <1>5, <1>6, <1>7 DEF Step

LEMMA NextKeepsAudit == ApprovalInvariant /\ AuditInvariant /\ [Next]_vars => AuditInvariant'
<1> SUFFICES ASSUME ApprovalInvariant, AuditInvariant, [Next]_vars PROVE AuditInvariant'
  OBVIOUS
<1>1. CASE \E s \in Slots : Start(s) \/ Step(s)
  BY <1>1, StartAudited, StepAudited
<1>2. CASE SetMode \/ SetScope \/ SetMatchReplaceRules \/ UNCHANGED vars
  <2>1. UNCHANGED <<history, ledger, archive, slot>>
    BY <1>2 DEF SetMode, SetScope, SetMatchReplaceRules, vars, store, observer
  <2>2. Sealed' = Sealed
    BY <2>1 DEF Sealed
  <2> QED
    BY <2>1, <2>2 DEF AuditInvariant
<1>3. CASE Restart
  <2>1. Sealed' = Sealed /\ UNCHANGED history /\ slot' = [s \in Slots |-> Idle]
    BY <1>3, DeathKeepsEvents DEF Restart, store
  <2>2. AuditFits(Idle, Sealed)
    BY FreeHandler DEF Idle, FreePcs
  <2> QED
    BY <2>1, <2>2 DEF AuditInvariant
<1> QED
  BY <1>1, <1>2, <1>3 DEF Next

LEMMA InitEstablishesAudit == Init => AuditInvariant
<1> SUFFICES ASSUME Init PROVE AuditInvariant
  OBVIOUS
<1>1. /\ history = {HeldEntry(i) : i \in DOMAIN Held} /\ slot = [s \in Slots |-> Idle]
      /\ archive = {VerdictEvent(Held[i], Asked, NoId) : i \in DOMAIN Held}
  BY DEF Init
<1>2. ASSUME NEW i \in DOMAIN Held PROVE EntryFits(HeldEntry(i), Sealed)
  <2> DEFINE e == HeldEntry(i)
             event == VerdictEvent(Held[i], Asked, NoId)
  <2>1. IsEntry(e) /\ e.action = Held[i] /\ e.decision = Asked
    BY DEF HeldEntry, IsEntry, EntryFields
  <2>2. /\ event.event = "policy.verdict" /\ event.action = Held[i] /\ event.decision = Asked
    BY DEF VerdictEvent
  <2> HIDE DEF e, event
  <2>3. event \in Sealed
    BY <1>1 DEF Sealed, event
  <2>4. EntryFits(e, Sealed)
    BY <2>1, <2>2, <2>3 DEF EntryFits, Accounted
  <2> QED
    BY <2>4 DEF e
<1>3. AuditFits(Idle, Sealed)
  BY FreeHandler DEF Idle, FreePcs
<1> QED
  BY <1>1, <1>2, <1>3 DEF AuditInvariant

LEMMA AuditImpliesNothingUnaudited == AuditInvariant => NothingUnaudited
BY DEF AuditInvariant, AuditFits, EntryFits, Accounted, NothingUnaudited, VerdictSealed, Answers, At

(* Every entry of the traffic history, and every verdict that an agent or  *)
(* an operator is answered with, was sealed in the ledger of some process  *)
(* before: also when old copies of the history overwrite new ones, when    *)
(* the gateway dies between two steps, and when a batch ends half way.     *)
THEOREM NothingGoesUnaudited == Spec => []NothingUnaudited
<1>1. Init => ApprovalInvariant /\ AuditInvariant
  BY InitEstablishesInvariant, InitEstablishesAudit
<1>2. ApprovalInvariant /\ AuditInvariant /\ [Next]_vars => ApprovalInvariant' /\ AuditInvariant'
  BY NextKeepsInvariant, NextKeepsAudit
<1>3. AuditInvariant => NothingUnaudited
  BY AuditImpliesNothingUnaudited
<1> QED
  BY <1>1, <1>2, <1>3, PTL DEF Spec
-----------------------------------------------------------------------------
(***************************************************************************)
(* One request at a time.  The files lose updates when requests overlap;   *)
(* when they do not, a copy that a handler is about to write back is the   *)
(* file itself.  R are the rules of the file, C those that operators were  *)
(* told are active.                                                        *)
(***************************************************************************)
OneRequestAtATime == \A s, t \in Slots : s = t

ActiveIn(content) == {r \in content : r.status = "active"}

(* An answer that goes ahead rests on a rule more specific than any        *)
(* correction that was confirmed.                                          *)
DenyFits(h, R, C) ==
    h.op = "intercept" /\ h.mode # "shadow" /\ InScope(h.action, h.scope) /\ h.decision.allowed
        => \A r \in C : r.verdict # "allow" /\ Matches(h.action, r)
              => \E q \in R : q.id = h.decision.rule /\ Specificity(q) > Specificity(r)

RulesFit(h, R, C) ==
    /\ ActiveIn(h.stored) \subseteq R
    /\ h.pc \in {"decide", "putWrite", "updateWrite"} => h.read = R
    /\ h.pc \in StoringPcs => \A i \in 1..Len(h.todo) : h.todo[i].verdict \in Verdicts
    /\ h.pc \in {"putWrite", "stored", "updateRead", "updateWrite"} =>
          \A r \in C \cup ActiveIn(h.stored) : r.id # Head(h.todo).id
    /\ h.pc \in {"stored", "activated"} => Head(h.todo) \in R

SerialRules ==
    /\ HaveVerdicts(rules) /\ confirmed \subseteq ActiveIn(rules)
    /\ \A s \in Slots : RulesFit(slot[s], rules, confirmed) /\ DenyFits(slot[s], rules, confirmed)

LEMMA SerialStep ==
    ASSUME OneRequestAtATime, ApprovalInvariant, NEW s \in Slots, NEW h, NEW pc, Goto(s, h, pc),
           HaveVerdicts(rules'), confirmed' \subseteq ActiveIn(rules'),
           RulesFit([h EXCEPT !.pc = pc], rules', confirmed'),
           DenyFits([h EXCEPT !.pc = pc], rules', confirmed')
    PROVE  SerialRules'
<1> DEFINE next == [h EXCEPT !.pc = pc]
<1>1. slot = [t \in Slots |-> slot[t]] /\ slot' = [slot EXCEPT ![s] = next]
  BY DEF ApprovalInvariant, Goto
<1> HIDE DEF next
<1>2. \A t \in Slots : t = s /\ slot'[t] = next
  BY <1>1 DEF OneRequestAtATime
<1> QED
  BY <1>2 DEF SerialRules, next

(* A step that has no part in the rules.                                   *)
LEMMA CalmStep ==
    ASSUME OneRequestAtATime, ApprovalInvariant, SerialRules, NEW s \in Slots,
           NEW h, IsHandler(h), NEW pc, pc \notin {"decide"} \cup StoringPcs, Goto(s, h, pc),
           UNCHANGED <<rules, confirmed>>,
           h.stored \subseteq slot[s].stored, DenyFits(h, rules, confirmed)
    PROVE  SerialRules'
<1> DEFINE next == [h EXCEPT !.pc = pc]
<1>1. /\ next.pc = pc /\ next.stored = h.stored /\ next.op = h.op /\ next.action = h.action
      /\ next.mode = h.mode /\ next.scope = h.scope /\ next.decision = h.decision
  BY DEF IsHandler, Fields
<1> HIDE DEF next
<1>2. DenyFits(next, rules, confirmed)
  BY <1>1 DEF DenyFits
<1>3. RulesFit(next, rules, confirmed)
  BY <1>1 DEF SerialRules, RulesFit, StoringPcs, ActiveIn
<1> QED
  BY <1>2, <1>3, SerialStep DEF SerialRules, next

SameQuestion(g, h) ==
    /\ h.op = g.op /\ h.action = g.action /\ h.mode = g.mode /\ h.scope = g.scope
    /\ h.decision = g.decision

LEMMA SameQuestionSameAnswer ==
    ASSUME NEW g, NEW h, NEW R, NEW C, DenyFits(g, R, C), SameQuestion(g, h)
    PROVE  DenyFits(h, R, C)
BY DEF DenyFits, SameQuestion

(* What is held back, and a verdict, tell no agent to go ahead.            *)
LEMMA NoAnswerToAgent ==
    ASSUME NEW h, h.op \in VerdictOps \cup {"outcome"} \/ ~h.decision.allowed
    PROVE  \A R, C : DenyFits(h, R, C)
BY DEF DenyFits, VerdictOps

LEMMA ThrowSerial ==
    ASSUME OneRequestAtATime, ApprovalInvariant, SerialRules, NEW s \in Slots, Throw(s),
           UNCHANGED <<rules, confirmed>>
    PROVE  SerialRules'
<1> DEFINE h == [slot[s] EXCEPT !.ok = FALSE]
<1>1. IsHandler(slot[s]) /\ DenyFits(slot[s], rules, confirmed)
  BY DEF ApprovalInvariant, HandlerFits, SerialRules
<1>2. IsHandler(h) /\ h.stored = slot[s].stored /\ SameQuestion(slot[s], h)
  BY <1>1 DEF IsHandler, Fields, SameQuestion
<1>3. Goto(s, h, "reply")
  BY DEF Throw
<1> HIDE DEF h
<1>4. DenyFits(h, rules, confirmed)
  BY <1>1, <1>2, SameQuestionSameAnswer
<1> QED
  BY <1>2, <1>3, <1>4, CalmStep DEF StoringPcs

(* A fresh request has answered nothing and stored nothing.                *)
LEMMA FreshSerial ==
    ASSUME OneRequestAtATime, ApprovalInvariant, SerialRules, NEW s \in Slots,
           NEW h, Fresh(h), NEW pc \in ArrivalPcs \cup {"idle"}, Goto(s, h, pc),
           UNCHANGED <<rules, confirmed>>
    PROVE  SerialRules'
<1>1. DenyFits(h, rules, confirmed)
  BY FailedClosedDenies, NoAnswerToAgent DEF Fresh
<1>2. pc \notin {"decide"} \cup StoringPcs
  BY DEF ArrivalPcs, StoringPcs
<1> QED
  BY <1>1, <1>2, CalmStep DEF Fresh

LEMMA ArrivalSerial ==
    ASSUME OneRequestAtATime, ApprovalInvariant, SerialRules, NEW s \in Slots,
           Start(s) \/ LookupHistory(s)
    PROVE  SerialRules'
<1>1. CASE Start(s)
  <2>1. UNCHANGED <<rules, confirmed>>
    BY <1>1, StartIsFresh DEF store, observer
  <2>2. PICK h : \E pc \in ArrivalPcs : Fresh(h) /\ Goto(s, h, pc)
    BY <1>1, StartIsFresh
  <2> QED
    BY <2>1, <2>2, FreshSerial
<1>2. CASE LookupHistory(s)
  <2>1. UNCHANGED <<rules, confirmed>>
    BY <1>2 DEF LookupHistory, store, observer
  <2>2. (\E a, mode : Goto(s, Captured("repeater", a, mode), "rules")) \/ Throw(s)
    BY <1>2 DEF LookupHistory, Repeated
  <2> QED
    BY <2>1, <2>2, CapturedIsFresh, FreshSerial, ThrowSerial DEF ArrivalPcs
<1> QED
  BY <1>1, <1>2

(* A copy of a file is read, or written and dropped: the question and the  *)
(* answer stay.                                                            *)
LEMMA SameAnswerSerial ==
    ASSUME OneRequestAtATime, ApprovalInvariant, SerialRules, NEW s \in Slots,
           NEW content, NEW pc, pc \notin {"decide"} \cup StoringPcs,
           Goto(s, [slot[s] EXCEPT !.read = content], pc), UNCHANGED <<rules, confirmed>>
    PROVE  SerialRules'
<1> DEFINE h == [slot[s] EXCEPT !.read = content]
<1>1. IsHandler(slot[s]) /\ DenyFits(slot[s], rules, confirmed)
  BY DEF ApprovalInvariant, HandlerFits, SerialRules
<1>2. IsHandler(h) /\ h.stored = slot[s].stored /\ SameQuestion(slot[s], h)
  BY <1>1 DEF IsHandler, Fields, SameQuestion
<1> HIDE DEF h
<1>3. DenyFits(h, rules, confirmed)
  BY <1>1, <1>2, SameQuestionSameAnswer
<1> QED
  BY <1>2, <1>3, CalmStep DEF h

LEMMA ReadRulesSerial ==
    ASSUME OneRequestAtATime, ApprovalInvariant, SerialRules, NEW s \in Slots, ReadRules(s)
    PROVE  SerialRules'
<1> DEFINE g == slot[s]
<1>1. /\ UNCHANGED <<rules, confirmed>> /\ IsHandler(g)
      /\ RulesFit(g, rules, confirmed) /\ DenyFits(g, rules, confirmed)
  BY DEF ReadRules, store, observer, ApprovalInvariant, HandlerFits, SerialRules
<1>2. CASE Load(s, rules, "decide")
  <2> DEFINE next == [[g EXCEPT !.read = rules] EXCEPT !.pc = "decide"]
  <2>1. /\ next.pc = "decide" /\ next.read = rules /\ next.stored = g.stored
        /\ SameQuestion(g, next)
    BY <1>1 DEF IsHandler, Fields, SameQuestion
  <2> HIDE DEF next
  <2>2. DenyFits(next, rules, confirmed)
    BY <1>1, <2>1, SameQuestionSameAnswer
  <2>3. RulesFit(next, rules, confirmed)
    BY <1>1, <2>1 DEF RulesFit, StoringPcs
  <2> QED
    BY <1>1, <1>2, <2>2, <2>3, SerialStep DEF Load, SerialRules, next
<1>3. CASE Goto(s, [g EXCEPT !.decision = FailedClosed], "answer")
  <2> DEFINE h == [g EXCEPT !.decision = FailedClosed]
  <2>1. IsHandler(h) /\ h.stored = g.stored /\ h.decision = FailedClosed
    BY <1>1 DEF IsHandler, Fields
  <2> HIDE DEF h
  <2>2. DenyFits(h, rules, confirmed)
    BY <2>1, FailedClosedDenies, NoAnswerToAgent
  <2> QED
    BY <1>1, <1>3, <2>1, <2>2, CalmStep DEF h, StoringPcs
<1> QED
  BY <1>2, <1>3 DEF ReadRules

LEMMA AnsweredSerial ==
    ASSUME OneRequestAtATime, ApprovalInvariant, SerialRules, NEW s \in Slots,
           NEW h, IsHandler(h), h.stored \subseteq slot[s].stored,
           DenyFits(h, rules, confirmed), Answered(s, h)
    PROVE  SerialRules'
<1> DEFINE entry == Entry(h, NthId(2))
           n == [h EXCEPT !.entry = entry]
<1>1. UNCHANGED <<rules, confirmed>> /\ Goto(s, n, "historyRead")
  BY DEF Answered, store, observer
<1> HIDE DEF entry
<1>2. IsHandler(n) /\ n.stored = h.stored /\ SameQuestion(h, n)
  BY DEF IsHandler, Fields, SameQuestion
<1> HIDE DEF n
<1>3. DenyFits(n, rules, confirmed)
  BY <1>2, SameQuestionSameAnswer
<1> QED
  BY <1>1, <1>2, <1>3, CalmStep DEF StoringPcs

(* An active rule that would hold the action back loses to a more specific *)
(* one only.                                                               *)
LEMMA AllowOutranks ==
    ASSUME NEW a, NEW known, HaveVerdicts(known), NEW mode, NEW scope,
           mode # "shadow", InScope(a, scope), Decide(a, known, mode, scope).allowed,
           NEW r \in Candidates(a, known), r.verdict # "allow"
    PROVE  \E q \in known : /\ q.id = Decide(a, known, mode, scope).rule
                           /\ Specificity(q) > Specificity(r)
<1> DEFINE best == CHOOSE q \in BestMatchingRules(a, known) : TRUE
<1>1. BestMatchingRules(a, known) # {}
  BY BestRuleExists
<1>2. best \in Candidates(a, known) /\ ~Outranks(r, best)
  BY <1>1 DEF BestMatchingRules
<1>3. Decide(a, known, mode, scope) = DecisionFromRule(best, mode)
  BY <1>1 DEF Decide
<1> HIDE DEF best
<1>4. /\ DecisionFromRule(best, mode).allowed = (best.verdict = "allow")
      /\ DecisionFromRule(best, mode).rule = best.id
  BY DEF DecisionFromRule, Decision
<1>5. best.verdict = "allow"
  BY <1>3, <1>4
<1>6. best \in known /\ best.verdict \in Verdicts /\ r.verdict \in Verdicts
  BY <1>2 DEF Candidates, HaveVerdicts
<1>7. Specificity(best) \in 0..15 /\ Specificity(r) \in 0..15
  BY <1>6, RankBounds
<1>8. VerdictRank(r.verdict) > VerdictRank(best.verdict)
  BY <1>5, <1>6 DEF VerdictRank, Verdicts
<1>9. Specificity(best) > Specificity(r)
  BY <1>2, <1>7, <1>8 DEF Outranks
<1> QED
  BY <1>3, <1>4, <1>6, <1>9

LEMMA DecideActionSerial ==
    ASSUME OneRequestAtATime, ApprovalInvariant, SerialRules, NEW s \in Slots, DecideAction(s)
    PROVE  SerialRules'
<1> DEFINE g == slot[s]
           d == Decide(g.action, g.read, g.mode, g.scope)
           h == [g EXCEPT !.decision = d, !.read = {}]
<1>1. g.pc = "decide" /\ IsHandler(g) /\ RulesFit(g, rules, confirmed)
  BY DEF DecideAction, At, ApprovalInvariant, HandlerFits, SerialRules
<1>2. g.read = rules /\ HaveVerdicts(rules) /\ confirmed \subseteq ActiveIn(rules)
  BY <1>1 DEF RulesFit, SerialRules
<1>3. /\ IsHandler(h) /\ h.op = g.op /\ h.action = g.action /\ h.mode = g.mode
      /\ h.scope = g.scope /\ h.decision = d /\ h.stored = g.stored
  BY <1>1 DEF IsHandler, Fields
<1>4. DenyFits(h, rules, confirmed)
  <2> HIDE DEF h
  <2>1. SUFFICES ASSUME g.mode # "shadow", InScope(g.action, g.scope), d.allowed,
                        NEW r \in confirmed, r.verdict # "allow", Matches(g.action, r)
                 PROVE  \E q \in rules : q.id = d.rule /\ Specificity(q) > Specificity(r)
    BY <1>3 DEF DenyFits
  <2>2. r \in Candidates(g.action, rules)
    BY <1>2, <2>1 DEF ActiveIn, Candidates
  <2> QED
    BY <1>2, <2>1, <2>2, AllowOutranks
<1>5. CASE Answered(s, h)
  BY <1>3, <1>4, <1>5, AnsweredSerial
<1>6. CASE /\ Goto(s, [h EXCEPT !.queueId = NthId(1)], "enqueueRead")
           /\ UNCHANGED <<store, ledger, settings, observer>>
  <2> HIDE DEF h
  <2> DEFINE n == [h EXCEPT !.queueId = NthId(1)]
  <2>1. IsHandler(n) /\ n.stored = h.stored /\ SameQuestion(h, n)
    BY <1>3 DEF IsHandler, Fields, SameQuestion
  <2>2. UNCHANGED <<rules, confirmed>> /\ Goto(s, n, "enqueueRead")
    BY <1>6 DEF store, observer
  <2> HIDE DEF n
  <2>3. DenyFits(n, rules, confirmed)
    BY <1>4, <2>1, SameQuestionSameAnswer
  <2> QED
    BY <1>3, <2>1, <2>2, <2>3, CalmStep DEF StoringPcs
<1> QED
  BY <1>5, <1>6 DEF DecideAction

LEMMA HoldSerial ==
    ASSUME OneRequestAtATime, ApprovalInvariant, SerialRules, NEW s \in Slots,
           EnqueueRead(s) \/ EnqueueWrite(s)
    PROVE  SerialRules'
<1> DEFINE g == slot[s]
           h == [g EXCEPT !.decision = FailedClosed, !.queueId = NoId, !.read = {}]
<1>1. IsHandler(g)
  BY DEF ApprovalInvariant, HandlerFits
<1>2. UNCHANGED <<rules, confirmed>>
  <2>1. CASE EnqueueRead(s)
    BY <2>1 DEF EnqueueRead, store, observer
  <2>2. CASE EnqueueWrite(s)
    BY <2>2 DEF EnqueueWrite, observer
  <2> QED
    BY <2>1, <2>2
<1>3. CASE HoldFailed(s)
  <2>1. IsHandler(h) /\ h.stored = g.stored /\ h.decision = FailedClosed
    BY <1>1 DEF IsHandler, Fields
  <2>2. Goto(s, h, "answer")
    BY <1>3 DEF HoldFailed
  <2> HIDE DEF h
  <2>3. DenyFits(h, rules, confirmed)
    BY <2>1, FailedClosedDenies, NoAnswerToAgent
  <2> QED
    BY <1>2, <2>1, <2>2, <2>3, CalmStep DEF StoringPcs
<1>4. CASE Load(s, queue, "enqueueWrite") \/ Saved(s, "answer")
  BY <1>2, <1>4, SameAnswerSerial DEF Load, Saved, StoringPcs
<1> QED
  BY <1>3, <1>4 DEF EnqueueRead, EnqueueWrite

LEMMA HistorySerial ==
    ASSUME OneRequestAtATime, ApprovalInvariant, SerialRules, NEW s \in Slots,
           HistoryRead(s) \/ HistoryWrite(s) \/ OutcomeRead(s) \/ OutcomeWrite(s)
    PROVE  SerialRules'
<1>1. UNCHANGED <<rules, confirmed>>
  <2>1. CASE HistoryRead(s) \/ OutcomeRead(s)
    BY <2>1 DEF HistoryRead, OutcomeRead, store, observer
  <2>2. CASE HistoryWrite(s) \/ OutcomeWrite(s)
    BY <2>2 DEF HistoryWrite, OutcomeWrite, observer
  <2> QED
    BY <2>1, <2>2
<1>2. ASSUME NEW content, NEW pc \in {"historyWrite", "compile", "reply", "outcomeWrite", "outcomeSaved"},
             Goto(s, [slot[s] EXCEPT !.read = content], pc)
      PROVE  SerialRules'
  BY <1>1, <1>2, SameAnswerSerial DEF StoringPcs
<1>3. CASE Throw(s)
  BY <1>1, <1>3, ThrowSerial
<1>4. CASE HistoryRead(s)
  BY <1>2, <1>3, <1>4 DEF HistoryRead, Load
<1>5. CASE HistoryWrite(s)
  BY <1>2, <1>3, <1>5 DEF HistoryWrite, Saved
<1>6. CASE OutcomeRead(s)
  BY <1>2, <1>3, <1>6 DEF OutcomeRead, Load
<1>7. CASE OutcomeWrite(s)
  BY <1>2, <1>3, <1>7 DEF OutcomeWrite, Saved
<1> QED
  BY <1>4, <1>5, <1>6, <1>7

LEMMA OutcomeSavedSerial ==
    ASSUME OneRequestAtATime, ApprovalInvariant, SerialRules, NEW s \in Slots, OutcomeSaved(s)
    PROVE  SerialRules'
<1>1. UNCHANGED <<rules, confirmed>> /\ Goto(s, slot[s], "reply")
  BY DEF OutcomeSaved, store, observer
<1>2. IsHandler(slot[s]) /\ DenyFits(slot[s], rules, confirmed)
  BY DEF ApprovalInvariant, HandlerFits, SerialRules
<1> QED
  BY <1>1, <1>2, CalmStep DEF StoringPcs

(* The verdicts.                                                           *)
LEMMA VerdictCalmStep ==
    ASSUME OneRequestAtATime, ApprovalInvariant, SerialRules, NEW s \in Slots,
           NEW h, IsHandler(h), NEW pc, pc \notin {"decide"} \cup StoringPcs, Goto(s, h, pc),
           UNCHANGED <<rules, confirmed>>, h.stored \subseteq slot[s].stored, h.op \in VerdictOps
    PROVE  SerialRules'
<1>1. DenyFits(h, rules, confirmed)
  BY NoAnswerToAgent
<1> QED
  BY <1>1, CalmStep

LEMMA ListQueueSerial ==
    ASSUME OneRequestAtATime, ApprovalInvariant, SerialRules, NEW s \in Slots, ListQueue(s)
    PROVE  SerialRules'
<1> DEFINE g == slot[s]
           h == [g EXCEPT !.batch = IdsOf(queue)]
<1>1. /\ UNCHANGED <<rules, confirmed>> /\ IsHandler(g) /\ g.op \in VerdictOps
  BY DEF ListQueue, store, observer, At, ApprovalInvariant, HandlerFits, OpFits, VerdictPcs
<1>2. IsHandler(h) /\ h.stored = g.stored /\ h.op = g.op
  BY <1>1 DEF IsHandler, Fields
<1> HIDE DEF h
<1>3. CASE Goto(s, h, "reply")
  BY <1>1, <1>2, <1>3, VerdictCalmStep DEF StoringPcs
<1>4. ASSUME NEW id, Goto(s, [h EXCEPT !.queueId = id, !.batch = @ \ {id}], "removeRead")
      PROVE  SerialRules'
  <2> DEFINE n == [h EXCEPT !.queueId = id, !.batch = @ \ {id}]
  <2>1. IsHandler(n) /\ n.stored = h.stored /\ n.op = h.op
    BY <1>2 DEF IsHandler, Fields
  <2> QED
    BY <1>1, <1>2, <1>4, <2>1, VerdictCalmStep DEF StoringPcs
<1>5. CASE Throw(s)
  BY <1>1, <1>5, ThrowSerial
<1> QED
  BY <1>3, <1>4, <1>5 DEF ListQueue, NextItem, h

LEMMA RemoveSerial ==
    ASSUME OneRequestAtATime, ApprovalInvariant, SerialRules, NEW s \in Slots,
           RemoveRead(s) \/ RemoveWrite(s) \/ Removed(s)
    PROVE  SerialRules'
<1> DEFINE g == slot[s]
<1>1. IsHandler(g) /\ g.op \in VerdictOps
  BY DEF RemoveRead, RemoveWrite, Removed, At, ApprovalInvariant, HandlerFits, OpFits, VerdictPcs
<1>2. UNCHANGED <<rules, confirmed>>
  <2>1. CASE RemoveRead(s) \/ Removed(s)
    BY <2>1 DEF RemoveRead, Removed, store, observer
  <2>2. CASE RemoveWrite(s)
    BY <2>2 DEF RemoveWrite
  <2> QED
    BY <2>1, <2>2
<1>3. CASE Throw(s)
  BY <1>2, <1>3, ThrowSerial
<1>4. CASE RemoveRead(s)
  <2>1. ASSUME NEW a, Goto(s, [g EXCEPT !.read = queue, !.action = a], "removeWrite")
        PROVE  SerialRules'
    <3> DEFINE h == [g EXCEPT !.read = queue, !.action = a]
    <3>1. IsHandler(h) /\ h.stored = g.stored /\ h.op = g.op
      BY <1>1 DEF IsHandler, Fields
    <3> QED
      BY <1>1, <1>2, <2>1, <3>1, VerdictCalmStep DEF StoringPcs
  <2> QED
    BY <1>3, <1>4, <2>1 DEF RemoveRead
<1>5. CASE RemoveWrite(s)
  <2>1. Goto(s, [g EXCEPT !.read = {}], "removed") \/ Throw(s)
    BY <1>5 DEF RemoveWrite, Saved
  <2> QED
    BY <1>2, <1>3, <2>1, SameAnswerSerial DEF StoringPcs
<1>6. CASE Removed(s)
  <2>1. CASE OperatorDecided(s)
    <3> DEFINE h == [g EXCEPT !.action = ActedOn(g), !.from = NthId(1),
                              !.decision = OperatorDecision(g)]
               entry == Entry(h, NthId(3))
               n == [h EXCEPT !.entry = entry]
    <3>1. Goto(s, n, "historyRead")
      BY <2>1 DEF OperatorDecided
    <3>2. IsHandler(h) /\ h.stored = g.stored /\ h.op = g.op
      BY <1>1 DEF IsHandler, Fields
    <3> HIDE DEF h, entry
    <3>3. IsHandler(n) /\ n.stored = h.stored /\ n.op = h.op
      BY <3>2 DEF IsHandler, Fields
    <3> HIDE DEF n
    <3> QED
      BY <1>1, <1>2, <3>1, <3>2, <3>3, VerdictCalmStep DEF StoringPcs
  <2> QED
    BY <1>3, <1>6, <2>1 DEF Removed
<1> QED
  BY <1>4, <1>5, <1>6

(***************************************************************************)
(* The rules that a verdict compiles to are stored.                        *)
(***************************************************************************)
(* A step from one rule file operation to the next.                        *)
LEMMA StoringStep ==
    ASSUME OneRequestAtATime, ApprovalInvariant, NEW s \in Slots,
           NEW h, IsHandler(h), h.op \in VerdictOps, NEW pc \in StoringPcs, Goto(s, h, pc),
           HaveVerdicts(rules'), confirmed' \subseteq ActiveIn(rules'),
           ActiveIn(h.stored) \subseteq rules',
           \A i \in 1..Len(h.todo) : h.todo[i].verdict \in Verdicts,
           pc \in {"putWrite", "updateWrite"} => h.read = rules',
           pc \in {"putWrite", "stored", "updateRead", "updateWrite"} =>
               \A r \in confirmed' \cup ActiveIn(h.stored) : r.id # Head(h.todo).id,
           pc \in {"stored", "activated"} => Head(h.todo) \in rules'
    PROVE  SerialRules'
<1> DEFINE next == [h EXCEPT !.pc = pc]
<1>1. /\ next.pc = pc /\ next.stored = h.stored /\ next.op = h.op /\ next.read = h.read
      /\ next.todo = h.todo
  BY DEF IsHandler, Fields
<1> HIDE DEF next
<1>2. RulesFit(next, rules', confirmed')
  BY <1>1 DEF RulesFit, StoringPcs
<1>3. DenyFits(next, rules', confirmed')
  BY <1>1, NoAnswerToAgent
<1> QED
  BY <1>2, <1>3, SerialStep DEF next

LEMMA CompileVerdictSerial ==
    ASSUME OneRequestAtATime, ApprovalInvariant, SerialRules, NEW s \in Slots, CompileVerdict(s)
    PROVE  SerialRules'
<1> DEFINE g == slot[s]
<1>1. /\ UNCHANGED <<rules, confirmed>> /\ IsHandler(g) /\ g.op \in VerdictOps
      /\ RulesFit(g, rules, confirmed)
  BY DEF CompileVerdict, store, observer, At, ApprovalInvariant, HandlerFits, OpFits, VerdictPcs,
         SerialRules
<1>2. HaveVerdicts(rules') /\ confirmed' \subseteq ActiveIn(rules')
  BY <1>1 DEF SerialRules
<1>3. ASSUME NEW todo, \A i \in 1..Len(todo) : todo[i].verdict \in Verdicts,
             Goto(s, [g EXCEPT !.todo = todo], "putRead")
      PROVE  SerialRules'
  <2> DEFINE h == [g EXCEPT !.todo = todo]
  <2>1. IsHandler(h) /\ h.op = g.op /\ h.stored = g.stored /\ h.todo = todo
    BY <1>1 DEF IsHandler, Fields
  <2> HIDE DEF h
  <2>2. ActiveIn(h.stored) \subseteq rules'
    BY <1>1, <2>1 DEF RulesFit
  <2> QED
    BY <1>1, <1>2, <1>3, <2>1, <2>2, StoringStep DEF StoringPcs, h
<1>4. CASE Approves(g)
  <2> DEFINE r == ApprovalRule(NthId(1), g.from, g.action)
  <2>1. Goto(s, [g EXCEPT !.todo = <<r>>], "putRead")
    BY <1>4 DEF CompileVerdict
  <2>2. r.verdict \in Verdicts
    BY DEF ApprovalRule, RuleOf, Verdicts
  <2> HIDE DEF r
  <2>3. \A i \in 1..Len(<<r>>) : <<r>>[i] = r
    OBVIOUS
  <2> QED
    BY <1>3, <2>1, <2>2, <2>3
<1>5. CASE ~Approves(g) /\ Goto(s, [g EXCEPT !.todo = ProposedRules(g)], "putRead")
  <2> DEFINE todo == ProposedRules(g)
  <2>1. Len(g.words) \in Nat /\ DOMAIN g.words = 1..Len(g.words)
    <3>1. g.words \in Seq(SUBSET STRING)
      BY <1>1 DEF IsHandler
    <3> QED
      BY <3>1
  <2>2. Len(todo) = Len(g.words)
    <3>1. DOMAIN todo = 1..Len(g.words)
      BY <2>1 DEF ProposedRules
    <3>2. todo \in Seq({todo[i] : i \in 1..Len(g.words)})
      BY <2>1 DEF ProposedRules
    <3> QED
      BY <2>1, <3>1, <3>2, LenProperties
  <2>3. \A i \in 1..Len(todo) : todo[i].verdict \in Verdicts
    <3>1. ASSUME NEW i \in 1..Len(g.words) PROVE todo[i].verdict \in Verdicts
      BY <2>1 DEF ProposedRules, ProposedRule, RuleOf, CompiledVerdict, Verdicts
    <3> QED
      BY <2>2, <3>1
  <2> QED
    BY <1>3, <1>5, <2>3
<1>6. CASE Throw(s)
  BY <1>1, <1>6, ThrowSerial
<1> QED
  BY <1>4, <1>5, <1>6 DEF CompileVerdict

(* What a handler knows between two rule file operations.                  *)
LEMMA Stored ==
    ASSUME ApprovalInvariant, SerialRules, NEW s \in Slots, slot[s].pc \in StoringPcs
    PROVE  LET g == slot[s] IN
           /\ IsHandler(g) /\ g.op \in VerdictOps
           /\ HaveVerdicts(rules) /\ confirmed \subseteq ActiveIn(rules) /\ ActiveIn(g.stored) \subseteq rules
           /\ g.todo # <<>> /\ \E S : g.todo \in Seq(S)
           /\ \A i \in 1..Len(g.todo) : IsRule(g.todo[i]) /\ g.todo[i].verdict \in Verdicts
           /\ Len(g.todo) \in Nat /\ 1 \in 1..Len(g.todo) /\ Head(g.todo) = g.todo[1]
<1> DEFINE g == slot[s]
<1>1. /\ IsHandler(g) /\ g.op \in VerdictOps
      /\ g.todo # <<>> /\ \E S : g.todo \in Seq(S)
      /\ \A i \in 1..Len(g.todo) : IsRule(g.todo[i])
  BY DEF ApprovalInvariant, HandlerFits, OpFits, TodoFits, VerdictPcs
<1>2. /\ HaveVerdicts(rules) /\ confirmed \subseteq ActiveIn(rules) /\ ActiveIn(g.stored) \subseteq rules
      /\ \A i \in 1..Len(g.todo) : g.todo[i].verdict \in Verdicts
  BY DEF SerialRules, RulesFit
<1>3. Len(g.todo) \in Nat /\ 1 \in 1..Len(g.todo) /\ Head(g.todo) = g.todo[1]
  BY <1>1
<1> QED
  BY <1>1, <1>2, <1>3

(* The next rule, the next item, or the end.                               *)
LEMMA NextRuleSerial ==
    ASSUME OneRequestAtATime, ApprovalInvariant, SerialRules, NEW s \in Slots,
           slot[s].pc \in {"stored", "activated"}, NextRule(s, Head(slot[s].todo)),
           UNCHANGED <<rules, confirmed>>
    PROVE  SerialRules'
<1> DEFINE g == slot[s]
           r == Head(g.todo)
           h == [g EXCEPT !.stored = @ \cup {r}, !.todo = Tail(@)]
<1>1. /\ IsHandler(g) /\ g.op \in VerdictOps
      /\ HaveVerdicts(rules) /\ confirmed \subseteq ActiveIn(rules) /\ ActiveIn(g.stored) \subseteq rules
      /\ g.todo # <<>> /\ \E S : g.todo \in Seq(S)
      /\ \A i \in 1..Len(g.todo) : g.todo[i].verdict \in Verdicts
  BY Stored DEF StoringPcs
<1>2. r \in rules
  BY DEF SerialRules, RulesFit
<1>3. /\ IsHandler(h) /\ h.op = g.op /\ h.stored = g.stored \cup {r} /\ h.todo = Tail(g.todo)
  BY <1>1 DEF IsHandler, Fields
<1> HIDE DEF h, r
<1>4. ActiveIn(h.stored) \subseteq rules
  BY <1>1, <1>2, <1>3 DEF ActiveIn
<1>5. \A i \in 1..Len(h.todo) : h.todo[i].verdict \in Verdicts
  <2>1. PICK S : g.todo \in Seq(S)
    BY <1>1
  <2>2. \A i \in 1..Len(h.todo) : i + 1 \in 1..Len(g.todo) /\ h.todo[i] = g.todo[i + 1]
    BY <1>1, <1>3, <2>1
  <2> QED
    BY <1>1, <2>2
<1>6. CASE Goto(s, h, "putRead")
  BY <1>1, <1>3, <1>4, <1>5, <1>6, StoringStep DEF StoringPcs
<1>7. ASSUME NEW n, IsHandler(n), n.stored = h.stored, n.op = h.op,
             NEW pc \in {"reply", "removeRead"}, Goto(s, n, pc)
      PROVE  SerialRules'
  <2> DEFINE next == [n EXCEPT !.pc = pc]
  <2>1. next.pc = pc /\ next.stored = n.stored /\ next.op = n.op
    BY <1>7 DEF IsHandler, Fields
  <2> HIDE DEF next
  <2>2. RulesFit(next, rules', confirmed') /\ DenyFits(next, rules', confirmed')
    BY <1>1, <1>3, <1>4, <1>7, <2>1, NoAnswerToAgent DEF RulesFit, StoringPcs
  <2> QED
    BY <1>1, <1>7, <2>2, SerialStep DEF next
<1>8. CASE NextItem(s, h)
  <2>1. ASSUME NEW id, Goto(s, [h EXCEPT !.queueId = id, !.batch = @ \ {id}], "removeRead")
        PROVE  SerialRules'
    <3> DEFINE n == [h EXCEPT !.queueId = id, !.batch = @ \ {id}]
    <3>1. IsHandler(n) /\ n.stored = h.stored /\ n.op = h.op
      BY <1>3 DEF IsHandler, Fields
    <3> QED
      BY <1>7, <2>1, <3>1
  <2> QED
    BY <1>3, <1>7, <1>8, <2>1 DEF NextItem
<1> QED
  BY <1>6, <1>8 DEF NextRule, h, r

LEMMA PutReadSerial ==
    ASSUME OneRequestAtATime, ApprovalInvariant, SerialRules, NEW s \in Slots, PutRead(s)
    PROVE  SerialRules'
<1> DEFINE g == slot[s]
           h == [g EXCEPT !.read = rules]
<1>1. UNCHANGED <<rules, confirmed>> /\ g.pc \in StoringPcs
  BY DEF PutRead, store, observer, At, StoringPcs
<1>2. /\ IsHandler(g) /\ g.op \in VerdictOps
      /\ HaveVerdicts(rules) /\ confirmed \subseteq ActiveIn(rules) /\ ActiveIn(g.stored) \subseteq rules
      /\ \A i \in 1..Len(g.todo) : g.todo[i].verdict \in Verdicts
  BY <1>1, Stored
<1>3. CASE Head(g.todo).id \notin IdsOf(rules) /\ Load(s, rules, "putWrite")
  <2>1. /\ IsHandler(h) /\ h.op = g.op /\ h.stored = g.stored /\ h.todo = g.todo /\ h.read = rules
    BY <1>2 DEF IsHandler, Fields
  <2>2. \A r \in confirmed \cup ActiveIn(g.stored) : r.id # Head(g.todo).id
    BY <1>2, <1>3 DEF ActiveIn, IdsOf
  <2>3. Goto(s, h, "putWrite")
    BY <1>3 DEF Load
  <2> HIDE DEF h
  <2> QED
    BY <1>1, <1>2, <2>1, <2>2, <2>3, StoringStep DEF StoringPcs
<1>4. CASE Throw(s)
  BY <1>1, <1>4, ThrowSerial
<1> QED
  BY <1>3, <1>4 DEF PutRead

LEMMA PutWriteSerial ==
    ASSUME OneRequestAtATime, ApprovalInvariant, SerialRules, NEW s \in Slots, PutWrite(s)
    PROVE  SerialRules'
<1> DEFINE g == slot[s]
           h == [g EXCEPT !.read = {}]
<1>1. UNCHANGED confirmed /\ g.pc = "putWrite" /\ g.pc \in StoringPcs
  BY DEF PutWrite, observer, At, StoringPcs
<1>2. /\ IsHandler(g) /\ g.op \in VerdictOps
      /\ HaveVerdicts(rules) /\ confirmed \subseteq ActiveIn(rules) /\ ActiveIn(g.stored) \subseteq rules
      /\ \A i \in 1..Len(g.todo) : g.todo[i].verdict \in Verdicts
      /\ Head(g.todo).verdict \in Verdicts
  BY <1>1, Stored
<1>3. g.read = rules /\ \A r \in confirmed \cup ActiveIn(g.stored) : r.id # Head(g.todo).id
  BY <1>1 DEF SerialRules, RulesFit
<1>4. CASE rules' = g.read \cup {Head(g.todo)} /\ Saved(s, "stored")
  <2>1. /\ IsHandler(h) /\ h.op = g.op /\ h.stored = g.stored /\ h.todo = g.todo
    BY <1>2 DEF IsHandler, Fields
  <2>2. Goto(s, h, "stored")
    BY <1>4 DEF Saved
  <2>3. HaveVerdicts(rules') /\ confirmed' \subseteq ActiveIn(rules') /\ ActiveIn(g.stored) \subseteq rules'
    BY <1>1, <1>2, <1>3, <1>4 DEF HaveVerdicts, ActiveIn
  <2> HIDE DEF h
  <2> QED
    BY <1>1, <1>2, <1>3, <1>4, <2>1, <2>2, <2>3, StoringStep DEF StoringPcs
<1>5. CASE Throw(s) /\ UNCHANGED rules
  BY <1>1, <1>5, ThrowSerial
<1> QED
  BY <1>4, <1>5 DEF PutWrite

LEMMA RuleStoredSerial ==
    ASSUME OneRequestAtATime, ApprovalInvariant, SerialRules, NEW s \in Slots, RuleStored(s)
    PROVE  SerialRules'
<1> DEFINE g == slot[s]
           r == Head(g.todo)
<1>1. UNCHANGED <<rules, confirmed>> /\ g.pc = "stored" /\ g.pc \in StoringPcs
  BY DEF RuleStored, store, observer, At, StoringPcs
<1>2. CASE Goto(s, [g EXCEPT !.todo[1].status = "active"], "updateRead")
  <2> DEFINE active == [r EXCEPT !.status = "active"]
             todo == [g.todo EXCEPT ![1] = active]
             h == [g EXCEPT !.todo = todo]
  <2>1. /\ IsHandler(g) /\ g.op \in VerdictOps
        /\ HaveVerdicts(rules) /\ confirmed \subseteq ActiveIn(rules) /\ ActiveIn(g.stored) \subseteq rules
        /\ \E S : g.todo \in Seq(S)
        /\ \A i \in 1..Len(g.todo) : IsRule(g.todo[i]) /\ g.todo[i].verdict \in Verdicts
        /\ Len(g.todo) \in Nat /\ 1 \in 1..Len(g.todo) /\ r = g.todo[1]
    BY <1>1, Stored
  <2>2. \A q \in confirmed \cup ActiveIn(g.stored) : q.id # r.id
    BY <1>1 DEF SerialRules, RulesFit
  <2>3. [g EXCEPT !.todo[1].status = "active"] = h
    BY <2>1 DEF IsHandler, Fields
  <2>4. active.id = r.id /\ active.verdict \in Verdicts
    <3>1. IsRule(r) /\ r.verdict \in Verdicts
      BY <2>1
    <3> HIDE DEF r
    <3> QED
      BY <3>1 DEF IsRule
  <2>5. IsHandler(h) /\ h.op = g.op /\ h.stored = g.stored /\ h.todo = todo
    BY <2>1 DEF IsHandler, Fields
  <2> HIDE DEF active
  <2>6. /\ Len(todo) = Len(g.todo) /\ Head(todo) = active
        /\ \A i \in 1..Len(todo) : todo[i] = IF i = 1 THEN active ELSE g.todo[i]
    <3>1. PICK S : g.todo \in Seq(S)
      BY <2>1
    <3>2. g.todo \in Seq(S \cup {active})
      BY <3>1, SeqMonotonic
    <3>3. /\ todo \in Seq(S \cup {active}) /\ Len(todo) = Len(g.todo)
          /\ \A i \in 1..Len(todo) : todo[i] = IF i = 1 THEN active ELSE g.todo[i]
      BY <2>1, <3>2, ExceptSeq
    <3> HIDE DEF todo
    <3>4. Head(todo) = todo[1]
      BY <2>1, <3>3
    <3> QED
      BY <2>1, <3>3, <3>4
  <2>7. Goto(s, h, "updateRead")
    BY <1>2, <2>3
  <2> HIDE DEF h, todo, r
  <2>8. /\ \A i \in 1..Len(h.todo) : h.todo[i].verdict \in Verdicts
        /\ \A q \in confirmed \cup ActiveIn(h.stored) : q.id # Head(h.todo).id
    BY <2>1, <2>2, <2>4, <2>5, <2>6
  <2> QED
    BY <1>1, <2>1, <2>5, <2>7, <2>8, StoringStep DEF StoringPcs
<1>3. CASE NextRule(s, r)
  BY <1>1, <1>3, NextRuleSerial
<1> QED
  BY <1>2, <1>3 DEF RuleStored

LEMMA UpdateReadSerial ==
    ASSUME OneRequestAtATime, ApprovalInvariant, SerialRules, NEW s \in Slots, UpdateRead(s)
    PROVE  SerialRules'
<1> DEFINE g == slot[s]
           h == [g EXCEPT !.read = rules]
<1>1. UNCHANGED <<rules, confirmed>> /\ g.pc = "updateRead" /\ g.pc \in StoringPcs
  BY DEF UpdateRead, store, observer, At, StoringPcs
<1>2. /\ IsHandler(g) /\ g.op \in VerdictOps
      /\ HaveVerdicts(rules) /\ confirmed \subseteq ActiveIn(rules) /\ ActiveIn(g.stored) \subseteq rules
      /\ \A i \in 1..Len(g.todo) : g.todo[i].verdict \in Verdicts
  BY <1>1, Stored
<1>3. \A r \in confirmed \cup ActiveIn(g.stored) : r.id # Head(g.todo).id
  BY <1>1 DEF SerialRules, RulesFit
<1>4. CASE Load(s, rules, "updateWrite")
  <2>1. /\ IsHandler(h) /\ h.op = g.op /\ h.stored = g.stored /\ h.todo = g.todo /\ h.read = rules
    BY <1>2 DEF IsHandler, Fields
  <2>2. Goto(s, h, "updateWrite")
    BY <1>4 DEF Load
  <2> HIDE DEF h
  <2> QED
    BY <1>1, <1>2, <1>3, <2>1, <2>2, StoringStep DEF StoringPcs
<1>5. CASE Throw(s)
  BY <1>1, <1>5, ThrowSerial
<1> QED
  BY <1>4, <1>5 DEF UpdateRead

(* What is written back is the file with one rule replaced, and that rule  *)
(* is none that was confirmed or stored before.                            *)
LEMMA UpdateWriteSerial ==
    ASSUME OneRequestAtATime, ApprovalInvariant, SerialRules, NEW s \in Slots, UpdateWrite(s)
    PROVE  SerialRules'
<1> DEFINE g == slot[s]
           active == Head(g.todo)
           h == [g EXCEPT !.read = {}]
<1>1. UNCHANGED confirmed /\ g.pc = "updateWrite" /\ g.pc \in StoringPcs
  BY DEF UpdateWrite, observer, At, StoringPcs
<1>2. /\ IsHandler(g) /\ g.op \in VerdictOps
      /\ HaveVerdicts(rules) /\ confirmed \subseteq ActiveIn(rules) /\ ActiveIn(g.stored) \subseteq rules
      /\ \A i \in 1..Len(g.todo) : g.todo[i].verdict \in Verdicts
      /\ active.verdict \in Verdicts
  BY <1>1, Stored
<1>3. g.read = rules /\ \A r \in confirmed \cup ActiveIn(g.stored) : r.id # active.id
  BY <1>1 DEF SerialRules, RulesFit
<1>4. CASE rules' = {r \in g.read : r.id # active.id} \cup {active} /\ Saved(s, "activated")
  <2>1. /\ IsHandler(h) /\ h.op = g.op /\ h.stored = g.stored /\ h.todo = g.todo
    BY <1>2 DEF IsHandler, Fields
  <2>2. Goto(s, h, "activated")
    BY <1>4 DEF Saved
  <2>3. HaveVerdicts(rules') /\ confirmed' \subseteq ActiveIn(rules') /\ ActiveIn(g.stored) \subseteq rules'
    BY <1>1, <1>2, <1>3, <1>4 DEF HaveVerdicts, ActiveIn
  <2> HIDE DEF h
  <2> QED
    BY <1>1, <1>2, <1>4, <2>1, <2>2, <2>3, StoringStep DEF StoringPcs
<1>5. CASE Throw(s) /\ UNCHANGED rules
  BY <1>1, <1>5, ThrowSerial
<1> QED
  BY <1>4, <1>5 DEF UpdateWrite

LEMMA RuleActivatedSerial ==
    ASSUME OneRequestAtATime, ApprovalInvariant, SerialRules, NEW s \in Slots, RuleActivated(s)
    PROVE  SerialRules'
<1>1. /\ UNCHANGED <<rules, confirmed>> /\ slot[s].pc = "activated"
      /\ NextRule(s, Head(slot[s].todo))
  BY DEF RuleActivated, store, observer, At
<1> QED
  BY <1>1, NextRuleSerial

(* An operator is told of rules that are in the file.                      *)
LEMMA ReplySerial ==
    ASSUME OneRequestAtATime, ApprovalInvariant, SerialRules, NEW s \in Slots, Reply(s)
    PROVE  SerialRules'
<1>1. /\ UNCHANGED rules /\ slot' = [slot EXCEPT ![s] = Idle]
      /\ confirmed' \subseteq confirmed \cup ActiveIn(slot[s].stored)
  BY DEF Reply, store, ActiveIn
<1>2. HaveVerdicts(rules') /\ confirmed' \subseteq ActiveIn(rules')
  BY <1>1 DEF SerialRules, RulesFit, ActiveIn
<1>3. Fresh(Idle) /\ Idle.pc = "idle" /\ IsHandler(Idle)
  BY IdleIsFresh, IdleIsHandler DEF Idle
<1>4. [Idle EXCEPT !.pc = "idle"] = Idle
  BY <1>3 DEF IsHandler, Fields
<1>5. Goto(s, Idle, "idle")
  BY <1>1, <1>4 DEF Goto
<1>6. RulesFit(Idle, rules', confirmed') /\ DenyFits(Idle, rules', confirmed')
  BY <1>3, FailedClosedDenies, NoAnswerToAgent DEF Fresh, RulesFit, ActiveIn, StoringPcs
<1> QED
  BY <1>2, <1>4, <1>5, <1>6, SerialStep

LEMMA NextKeepsRules ==
    ASSUME OneRequestAtATime, ApprovalInvariant, SerialRules, [Next]_vars
    PROVE  SerialRules'
<1>1. ASSUME NEW s \in Slots, Step(s) PROVE SerialRules'
  <2>1. CASE LookupHistory(s) \/ ReadRules(s) \/ DecideAction(s)
    BY <2>1, ArrivalSerial, ReadRulesSerial, DecideActionSerial
  <2>2. CASE EnqueueRead(s) \/ EnqueueWrite(s)
    BY <2>2, HoldSerial
  <2>3. CASE Answer(s)
    BY <2>3, AnsweredSerial DEF Answer, ApprovalInvariant, HandlerFits, SerialRules
  <2>4. CASE HistoryRead(s) \/ HistoryWrite(s) \/ OutcomeRead(s) \/ OutcomeWrite(s)
    BY <2>4, HistorySerial
  <2>5. CASE OutcomeSaved(s) \/ Reply(s)
    BY <2>5, OutcomeSavedSerial, ReplySerial
  <2>6. CASE ListQueue(s) \/ RemoveRead(s) \/ RemoveWrite(s) \/ Removed(s)
    BY <2>6, ListQueueSerial, RemoveSerial
  <2>7. CASE CompileVerdict(s) \/ PutRead(s) \/ PutWrite(s) \/ RuleStored(s)
    BY <2>7, CompileVerdictSerial, PutReadSerial, PutWriteSerial, RuleStoredSerial
  <2>8. CASE UpdateRead(s) \/ UpdateWrite(s) \/ RuleActivated(s)
    BY <2>8, UpdateReadSerial, UpdateWriteSerial, RuleActivatedSerial
  <2> QED
    BY <1>1, <2>1, <2>2, <2>3, <2>4, <2>5, <2>6, <2>7, <2>8 DEF Step
<1>2. CASE \E s \in Slots : Start(s) \/ Step(s)
  BY <1>1, <1>2, ArrivalSerial
<1>3. CASE SetMode \/ SetScope \/ SetMatchReplaceRules \/ UNCHANGED vars
  BY <1>3 DEF SetMode, SetScope, SetMatchReplaceRules, vars, store, observer, SerialRules
<1>4. CASE Restart
  <2>1. UNCHANGED <<rules, confirmed>> /\ slot' = [s \in Slots |-> Idle]
    BY <1>4 DEF Restart, store
  <2>2. Fresh(Idle) /\ Idle.pc = "idle"
    BY IdleIsFresh DEF Idle
  <2>3. RulesFit(Idle, rules, confirmed) /\ DenyFits(Idle, rules, confirmed)
    BY <2>2, FailedClosedDenies, NoAnswerToAgent DEF Fresh, RulesFit, ActiveIn, StoringPcs
  <2> QED
    BY <2>1, <2>3 DEF SerialRules
<1> QED
  BY <1>2, <1>3, <1>4 DEF Next

LEMMA InitEstablishesRules == Init => SerialRules
<1> SUFFICES ASSUME Init PROVE SerialRules
  OBVIOUS
<1>1. rules = {} /\ confirmed = {} /\ slot = [s \in Slots |-> Idle]
  BY DEF Init
<1>2. Fresh(Idle) /\ Idle.pc = "idle"
  BY IdleIsFresh DEF Idle
<1>3. RulesFit(Idle, rules, confirmed) /\ DenyFits(Idle, rules, confirmed)
  BY <1>2, FailedClosedDenies, NoAnswerToAgent DEF Fresh, RulesFit, ActiveIn, StoringPcs
<1> QED
  BY <1>1, <1>3 DEF SerialRules, HaveVerdicts, ActiveIn

LEMMA AlwaysSerialRules ==
    ASSUME OneRequestAtATime
    PROVE  Spec => []SerialRules
<1>1. Init => ApprovalInvariant /\ SerialRules
  BY InitEstablishesInvariant, InitEstablishesRules
<1>2. ApprovalInvariant /\ SerialRules /\ [Next]_vars => ApprovalInvariant' /\ SerialRules'
  BY NextKeepsInvariant, NextKeepsRules
<1> QED
  BY <1>1, <1>2, PTL DEF Spec

(* A rule that an operator was told is active is in the rules file, and    *)
(* active there, as long as requests do not overlap: whatever operations   *)
(* fail, however often the gateway restarts, and with its old pid or not.  *)
THEOREM ConfirmedRulesStay ==
    ASSUME OneRequestAtATime
    PROVE  Spec => []ConfirmedRuleStaysActive
<1>1. SerialRules => ConfirmedRuleStaysActive
  BY DEF SerialRules, ConfirmedRuleStaysActive, ActiveIn
<1> QED
  BY <1>1, AlwaysSerialRules, PTL

(* Once an operator was told that a correction is in force, an action that *)
(* it matches goes ahead on a strictly more specific rule only, as long as *)
(* requests do not overlap.                                                *)
THEOREM LearnedDeniesStick ==
    ASSUME OneRequestAtATime
    PROVE  Spec => []LearnedDenySticks
<1>1. SerialRules => LearnedDenySticks
  BY DEF SerialRules, DenyFits, LearnedDenySticks, Governed
<1> QED
  BY <1>1, AlwaysSerialRules, PTL
-----------------------------------------------------------------------------
(***************************************************************************)
(* The queue.  Q are the held actions, K the ids of those that are held or *)
(* were taken off.                                                         *)
(***************************************************************************)
Known == IdsOf(queue) \cup taken

EntryHeld(e, K) == e.decision.verdict = "ask" /\ e.queueId # NoId => e.queueId \in K

HeldFits(h, Q, K) ==
    /\ h.pc \in {"rules", "decide"} => h.queueId = NoId \/ h.op \in VerdictOps
    /\ h.pc = "answer" => EntryHeld(h, K)
    /\ h.pc \in {"historyRead", "historyWrite"} => EntryHeld(h.entry, K)
    /\ h.pc \in {"historyWrite", "outcomeWrite"} => \A e \in h.read : EntryHeld(e, K)
    /\ h.pc \in {"enqueueWrite", "removeWrite"} => h.read = Q

HeldInvariant ==
    /\ \A e \in history : EntryHeld(e, Known)
    /\ \A s \in Slots : HeldFits(slot[s], queue, Known)

(* Where a step leaves its handler.                                        *)
LEMMA Goes ==
    ASSUME ApprovalInvariant, ApprovalInvariant', NEW s \in Slots, NEW h, NEW pc, Goto(s, h, pc)
    PROVE  /\ slot'[s].pc = pc /\ slot'[s].op = h.op /\ slot'[s].queueId = h.queueId
           /\ slot'[s].decision = h.decision /\ slot'[s].entry = h.entry
           /\ slot'[s].read = h.read /\ slot'[s].todo = h.todo
           /\ slot'[s].words = h.words /\ slot'[s].action = h.action
           /\ slot'[s].outcomeOf = h.outcomeOf
<1> DEFINE next == [h EXCEPT !.pc = pc]
<1>1. slot'[s] = next
  BY DEF ApprovalInvariant, Goto
<1>2. DOMAIN next = Fields
  BY <1>1 DEF ApprovalInvariant, HandlerFits, IsHandler
<1>3. DOMAIN h = Fields
  BY <1>2
<1>4. /\ next.pc = pc /\ next.op = h.op /\ next.queueId = h.queueId
      /\ next.decision = h.decision /\ next.entry = h.entry /\ next.read = h.read
      /\ next.todo = h.todo /\ next.words = h.words /\ next.action = h.action
      /\ next.outcomeOf = h.outcomeOf
  BY <1>3 DEF Fields
<1> QED
  BY <1>1, <1>4

(* From compiling to the last rule, and back to the list of a batch.       *)
RuleStep(s) ==
    \/ ListQueue(s) \/ CompileVerdict(s) \/ PutRead(s) \/ PutWrite(s) \/ RuleStored(s)
    \/ UpdateRead(s) \/ UpdateWrite(s) \/ RuleActivated(s)

LEMMA RuleStepMoves ==
    ASSUME NEW s \in Slots, RuleStep(s)
    PROVE  /\ UNCHANGED <<queue, history, taken>>
           /\ \E h : \E pc \in {"reply", "removeRead"} \cup StoringPcs : Goto(s, h, pc)
<1> DEFINE Moves == \E h : \E pc \in {"reply", "removeRead"} \cup StoringPcs : Goto(s, h, pc)
<1>1. ASSUME NEW h, NEW pc \in {"reply", "removeRead"} \cup StoringPcs, Goto(s, h, pc)
      PROVE  Moves
  BY <1>1
<1>2. ASSUME NEW h, NextItem(s, h)
      PROVE  Moves
  BY <1>1, <1>2 DEF NextItem
<1>3. ASSUME NEW r, NextRule(s, r)
      PROVE  Moves
  BY <1>1, <1>2, <1>3 DEF NextRule, StoringPcs
<1>4. Throw(s) => Moves
  BY <1>1 DEF Throw
<1> HIDE DEF Moves
<1>5. CASE ListQueue(s)
  BY <1>2, <1>4, <1>5 DEF ListQueue, store, observer, Moves
<1>6. CASE CompileVerdict(s)
  <2>1. Throw(s) \/ \E todo : Goto(s, [slot[s] EXCEPT !.todo = todo], "putRead")
    BY <1>6 DEF CompileVerdict
  <2>2. UNCHANGED <<queue, history, taken>>
    BY <1>6 DEF CompileVerdict, store, observer
  <2>3. Moves
    BY <1>1, <1>4, <2>1 DEF StoringPcs
  <2> QED
    BY <2>2, <2>3 DEF Moves
<1>7. CASE PutRead(s) \/ UpdateRead(s)
  <2>1. UNCHANGED <<queue, history, taken>>
    BY <1>7 DEF PutRead, UpdateRead, store, observer
  <2>2. Throw(s) \/ Load(s, rules, "putWrite") \/ Load(s, rules, "updateWrite")
    BY <1>7 DEF PutRead, UpdateRead
  <2>3. Moves
    BY <1>1, <1>4, <2>2 DEF StoringPcs, Load
  <2> QED
    BY <2>1, <2>3 DEF Moves
<1>8. CASE PutWrite(s) \/ UpdateWrite(s)
  <2>1. UNCHANGED <<queue, history, taken>>
    BY <1>8 DEF PutWrite, UpdateWrite, observer
  <2>2. Throw(s) \/ Saved(s, "stored") \/ Saved(s, "activated")
    BY <1>8 DEF PutWrite, UpdateWrite
  <2>3. Moves
    BY <1>1, <1>4, <2>2 DEF StoringPcs, Saved
  <2> QED
    BY <2>1, <2>3 DEF Moves
<1>9. CASE RuleStored(s) \/ RuleActivated(s)
  <2>1. UNCHANGED <<queue, history, taken>>
    BY <1>9 DEF RuleStored, RuleActivated, store, observer
  <2>2. \/ Goto(s, [slot[s] EXCEPT !.todo[1].status = "active"], "updateRead")
        \/ NextRule(s, Head(slot[s].todo))
    BY <1>9 DEF RuleStored, RuleActivated
  <2>3. Moves
    BY <1>1, <1>3, <2>2 DEF StoringPcs
  <2> QED
    BY <2>1, <2>3 DEF Moves
<1> QED
  BY <1>5, <1>6, <1>7, <1>8, <1>9 DEF RuleStep, Moves

(* What the next two invariants take for granted.                          *)
Context == ApprovalInvariant /\ ApprovalInvariant' /\ AuditInvariant

LEMMA HeldStep ==
    ASSUME OneRequestAtATime, Context, HeldInvariant, NEW s \in Slots,
           Known \subseteq Known', \A e \in history' : e \in history \/ EntryHeld(e, Known'),
           HeldFits(slot'[s], queue', Known')
    PROVE  HeldInvariant'
<1>1. \A e : EntryHeld(e, Known) => EntryHeld(e, Known')
  BY DEF EntryHeld
<1>2. \A e \in history' : EntryHeld(e, Known')
  BY <1>1 DEF HeldInvariant
<1>3. \A t \in Slots : HeldFits(slot'[t], queue', Known')
  BY DEF OneRequestAtATime
<1> QED
  BY <1>2, <1>3 DEF HeldInvariant

(* A handler that has nothing to do with the queue for now.                *)
HeldFreePcs ==
    {"idle", "lookup", "list", "enqueueRead", "removeRead", "removed", "compile", "outcomeRead",
     "outcomeSaved", "reply"} \cup StoringPcs

LEMMA HeldFreeStep ==
    ASSUME OneRequestAtATime, Context, HeldInvariant, NEW s \in Slots,
           NEW h, NEW pc \in HeldFreePcs, Goto(s, h, pc), UNCHANGED <<queue, history, taken>>
    PROVE  HeldInvariant'
<1>1. slot'[s].pc = pc
  BY Goes DEF Context
<1>2. HeldFits(slot'[s], queue', Known')
  BY <1>1 DEF HeldFits, HeldFreePcs, StoringPcs
<1>3. Known' = Known
  BY DEF Known, IdsOf
<1> QED
  BY <1>2, <1>3, HeldStep

LEMMA ThrowHeld ==
    ASSUME OneRequestAtATime, Context, HeldInvariant, NEW s \in Slots, Throw(s),
           UNCHANGED <<queue, history, taken>>
    PROVE  HeldInvariant'
<1>1. Goto(s, [slot[s] EXCEPT !.ok = FALSE], "reply") /\ "reply" \in HeldFreePcs
  BY DEF Throw, HeldFreePcs
<1> QED
  BY <1>1, HeldFreeStep

LEMMA ArrivalHeld ==
    ASSUME OneRequestAtATime, Context, HeldInvariant, NEW s \in Slots,
           Start(s) \/ LookupHistory(s)
    PROVE  HeldInvariant'
<1>1. ASSUME NEW h, Fresh(h), NEW pc \in ArrivalPcs, Goto(s, h, pc),
             UNCHANGED <<queue, history, taken>>
      PROVE  HeldInvariant'
  <2>1. /\ slot'[s].pc = pc /\ slot'[s].queueId = h.queueId /\ slot'[s].op = h.op
    BY <1>1, Goes DEF Context
  <2>2. HeldFits(slot'[s], queue', Known')
    BY <1>1, <2>1 DEF HeldFits, Fresh, ArrivalPcs
  <2>3. Known' = Known
    BY <1>1 DEF Known, IdsOf
  <2> QED
    BY <1>1, <2>2, <2>3, HeldStep
<1>2. CASE Start(s)
  BY <1>1, <1>2, StartIsFresh DEF store, observer
<1>3. CASE LookupHistory(s)
  <2>1. UNCHANGED <<queue, history, taken>>
    BY <1>3 DEF LookupHistory, store, observer
  <2>2. (\E a, mode : Goto(s, Captured("repeater", a, mode), "rules")) \/ Throw(s)
    BY <1>3 DEF LookupHistory, Repeated
  <2> QED
    BY <1>1, <2>1, <2>2, CapturedIsFresh, ThrowHeld DEF ArrivalPcs
<1> QED
  BY <1>2, <1>3

LEMMA FailedClosedIsNoAsk == FailedClosed.verdict # "ask" /\ FailedClosed.source # "operator"
BY DEF FailedClosed, Decision

LEMMA ReadRulesHeld ==
    ASSUME OneRequestAtATime, Context, HeldInvariant, NEW s \in Slots, ReadRules(s)
    PROVE  HeldInvariant'
<1> DEFINE g == slot[s]
<1>1. /\ UNCHANGED <<queue, history, taken>> /\ Known' = Known /\ IsHandler(g)
      /\ g.queueId = NoId \/ g.op \in VerdictOps
  BY DEF ReadRules, store, observer, Known, IdsOf, Context, ApprovalInvariant, HandlerFits,
         HeldInvariant, HeldFits, At
<1>2. CASE Load(s, rules, "decide")
  <2>1. slot'[s].pc = "decide" /\ slot'[s].queueId = g.queueId /\ slot'[s].op = g.op
    BY <1>1, <1>2, Goes DEF Context, Load, IsHandler, Fields
  <2>2. HeldFits(slot'[s], queue', Known')
    BY <1>1, <2>1 DEF HeldFits
  <2> QED
    BY <1>1, <2>2, HeldStep
<1>3. CASE Goto(s, [g EXCEPT !.decision = FailedClosed], "answer")
  <2>1. slot'[s].pc = "answer" /\ slot'[s].decision = FailedClosed
    BY <1>1, <1>3, Goes DEF Context, IsHandler, Fields
  <2>2. HeldFits(slot'[s], queue', Known')
    BY <2>1, FailedClosedIsNoAsk DEF HeldFits, EntryHeld
  <2> QED
    BY <1>1, <2>2, HeldStep
<1> QED
  BY <1>2, <1>3 DEF ReadRules

LEMMA AnsweredHeld ==
    ASSUME OneRequestAtATime, Context, HeldInvariant, NEW s \in Slots,
           NEW h, IsHandler(h), EntryHeld(h, Known), Answered(s, h)
    PROVE  HeldInvariant'
<1> DEFINE entry == Entry(h, NthId(2))
<1>1. /\ UNCHANGED <<queue, history, taken>> /\ Known' = Known
      /\ Goto(s, [h EXCEPT !.entry = entry], "historyRead")
  BY DEF Answered, store, observer, Known, IdsOf
<1>2. entry.decision = h.decision /\ entry.queueId = h.queueId
  BY DEF Entry
<1> HIDE DEF entry
<1>3. slot'[s].pc = "historyRead" /\ slot'[s].entry = entry
  BY <1>1, Goes DEF Context, IsHandler, Fields
<1>4. HeldFits(slot'[s], queue', Known')
  BY <1>1, <1>2, <1>3 DEF HeldFits, EntryHeld
<1> QED
  BY <1>1, <1>4, HeldStep

LEMMA DecideActionHeld ==
    ASSUME OneRequestAtATime, Context, HeldInvariant, NEW s \in Slots, DecideAction(s)
    PROVE  HeldInvariant'
<1> DEFINE g == slot[s]
           d == Decide(g.action, g.read, g.mode, g.scope)
           h == [g EXCEPT !.decision = d, !.read = {}]
<1>1. g.pc = "decide" /\ IsHandler(g) /\ g.queueId = NoId
  BY DEF DecideAction, At, Context, ApprovalInvariant, HandlerFits, OpFits, HeldInvariant, HeldFits,
         VerdictOps
<1>2. IsHandler(h) /\ h.queueId = NoId
  BY <1>1 DEF IsHandler, Fields
<1>3. CASE Answered(s, h)
  BY <1>2, <1>3, AnsweredHeld DEF EntryHeld
<1>4. CASE /\ Goto(s, [h EXCEPT !.queueId = NthId(1)], "enqueueRead")
           /\ UNCHANGED <<store, ledger, settings, observer>>
  BY <1>4, HeldFreeStep DEF HeldFreePcs, store, observer
<1> QED
  BY <1>3, <1>4 DEF DecideAction

(* An action is on the queue before its agent is told to ask.              *)
LEMMA HoldHeld ==
    ASSUME OneRequestAtATime, Context, HeldInvariant, NEW s \in Slots,
           EnqueueRead(s) \/ EnqueueWrite(s)
    PROVE  HeldInvariant'
<1> DEFINE g == slot[s]
<1>1. IsHandler(g) /\ HeldFits(g, queue, Known)
  BY DEF Context, ApprovalInvariant, HandlerFits, HeldInvariant
<1>2. ASSUME HoldFailed(s), UNCHANGED <<queue, history, taken>>
      PROVE  HeldInvariant'
  <2> DEFINE r == [g EXCEPT !.decision = FailedClosed, !.queueId = NoId, !.read = {}]
  <2>1. r.queueId = NoId /\ Goto(s, r, "answer")
    BY <1>1, <1>2 DEF HoldFailed, IsHandler, Fields
  <2> HIDE DEF r
  <2>2. slot'[s].pc = "answer" /\ slot'[s].queueId = NoId
    BY <2>1, Goes DEF Context
  <2>3. HeldFits(slot'[s], queue', Known')
    BY <2>2 DEF HeldFits, EntryHeld
  <2>4. Known' = Known
    BY <1>2 DEF Known, IdsOf
  <2> QED
    BY <1>2, <2>3, <2>4, HeldStep
<1>3. CASE EnqueueRead(s)
  <2>1. UNCHANGED <<queue, history, taken>> /\ Known' = Known
    BY <1>3 DEF EnqueueRead, store, observer, Known, IdsOf
  <2>2. CASE Load(s, queue, "enqueueWrite")
    <3>1. slot'[s].pc = "enqueueWrite" /\ slot'[s].read = queue
      BY <1>1, <2>2, Goes DEF Context, Load, IsHandler, Fields
    <3>2. HeldFits(slot'[s], queue', Known')
      BY <2>1, <3>1 DEF HeldFits
    <3> QED
      BY <2>1, <3>2, HeldStep
  <2> QED
    BY <1>2, <1>3, <2>1, <2>2 DEF EnqueueRead
<1>4. CASE EnqueueWrite(s)
  <2> DEFINE item == [id |-> g.queueId, action |-> g.action]
  <2>1. UNCHANGED <<history, taken>> /\ g.pc = "enqueueWrite" /\ g.read = queue
    BY <1>1, <1>4 DEF EnqueueWrite, observer, At, HeldFits
  <2>2. CASE queue' = g.read \cup {item} /\ Saved(s, "answer")
    <3> DEFINE new == item
    <3>1. new \in queue' /\ new.id = g.queueId /\ queue \subseteq queue' /\ taken' = taken
      BY <2>1, <2>2
    <3> HIDE DEF item, new
    <3>2. Known \subseteq Known' /\ g.queueId \in Known'
      BY <3>1 DEF Known, IdsOf
    <3>3. slot'[s].pc = "answer" /\ slot'[s].queueId = g.queueId
      BY <1>1, <2>2, Goes DEF Context, Saved, IsHandler, Fields
    <3>4. HeldFits(slot'[s], queue', Known')
      BY <3>2, <3>3 DEF HeldFits, EntryHeld
    <3> QED
      BY <2>1, <3>2, <3>4, HeldStep
  <2>3. CASE HoldFailed(s) /\ UNCHANGED queue
    BY <1>2, <2>1, <2>3
  <2> QED
    BY <1>4, <2>2, <2>3 DEF EnqueueWrite
<1> QED
  BY <1>3, <1>4

LEMMA HistoryHeld ==
    ASSUME OneRequestAtATime, Context, HeldInvariant, NEW s \in Slots,
           HistoryRead(s) \/ HistoryWrite(s)
    PROVE  HeldInvariant'
<1> DEFINE g == slot[s]
<1>1. IsHandler(g) /\ HeldFits(g, queue, Known) /\ \A e \in history : EntryHeld(e, Known)
  BY DEF Context, ApprovalInvariant, HandlerFits, HeldInvariant
<1>2. CASE HistoryRead(s)
  <2>1. UNCHANGED <<queue, history, taken>> /\ Known' = Known /\ g.pc = "historyRead"
    BY <1>2 DEF HistoryRead, store, observer, Known, IdsOf, At
  <2>2. CASE Load(s, history, "historyWrite")
    <3>1. slot'[s].pc = "historyWrite" /\ slot'[s].read = history /\ slot'[s].entry = g.entry
      BY <1>1, <2>2, Goes DEF Context, Load, IsHandler, Fields
    <3>2. HeldFits(slot'[s], queue', Known')
      BY <1>1, <2>1, <3>1 DEF HeldFits
    <3> QED
      BY <2>1, <3>2, HeldStep
  <2> QED
    BY <1>2, <2>1, <2>2, ThrowHeld DEF HistoryRead
<1>3. CASE HistoryWrite(s)
  <2>1. UNCHANGED <<queue, taken>> /\ Known' = Known /\ g.pc = "historyWrite"
    BY <1>3 DEF HistoryWrite, observer, Known, IdsOf, At
  <2>2. ASSUME history' = g.read \cup {g.entry}, NEW pc \in {"compile", "reply"}, Saved(s, pc)
        PROVE  HeldInvariant'
    <3>1. \A e \in history' : EntryHeld(e, Known')
      BY <1>1, <2>1, <2>2 DEF HeldFits
    <3>2. slot'[s].pc = pc
      BY <2>2, Goes DEF Context, Saved
    <3>3. HeldFits(slot'[s], queue', Known')
      BY <3>2 DEF HeldFits
    <3> QED
      BY <2>1, <3>1, <3>3, HeldStep
  <2>3. CASE Throw(s) /\ UNCHANGED history
    BY <2>1, <2>3, ThrowHeld
  <2> QED
    BY <1>3, <2>2, <2>3 DEF HistoryWrite
<1> QED
  BY <1>2, <1>3

LEMMA RemoveHeld ==
    ASSUME OneRequestAtATime, Context, HeldInvariant, NEW s \in Slots,
           RemoveRead(s) \/ RemoveWrite(s)
    PROVE  HeldInvariant'
<1> DEFINE g == slot[s]
<1>1. IsHandler(g) /\ HeldFits(g, queue, Known)
  BY DEF Context, ApprovalInvariant, HandlerFits, HeldInvariant
<1>2. CASE RemoveRead(s)
  <2>1. UNCHANGED <<queue, history, taken>> /\ Known' = Known
    BY <1>2 DEF RemoveRead, store, observer, Known, IdsOf
  <2>2. ASSUME NEW a, Goto(s, [g EXCEPT !.read = queue, !.action = a], "removeWrite")
        PROVE  HeldInvariant'
    <3> DEFINE r == [g EXCEPT !.read = queue, !.action = a]
    <3>1. r.read = queue /\ Goto(s, r, "removeWrite")
      BY <1>1, <2>2 DEF IsHandler, Fields
    <3> HIDE DEF r
    <3>2. slot'[s].pc = "removeWrite" /\ slot'[s].read = queue
      BY <3>1, Goes DEF Context
    <3>3. HeldFits(slot'[s], queue', Known')
      BY <2>1, <3>2 DEF HeldFits
    <3> QED
      BY <2>1, <3>3, HeldStep
  <2> QED
    BY <1>2, <2>1, <2>2, ThrowHeld DEF RemoveRead
<1>3. CASE RemoveWrite(s)
  <2>1. UNCHANGED history /\ g.pc = "removeWrite" /\ g.read = queue
    BY <1>1, <1>3 DEF RemoveWrite, At, HeldFits
  <2>2. CASE /\ queue' = {item \in g.read : item.id # g.queueId}
             /\ taken' = taken \cup {g.queueId} /\ Saved(s, "removed")
    <3>1. Known \subseteq Known'
      BY <2>1, <2>2 DEF Known, IdsOf
    <3>2. slot'[s].pc = "removed"
      BY <2>2, Goes DEF Context, Saved
    <3>3. HeldFits(slot'[s], queue', Known')
      BY <3>2 DEF HeldFits
    <3> QED
      BY <2>1, <3>1, <3>3, HeldStep
  <2>3. CASE Throw(s) /\ UNCHANGED <<queue, taken>>
    BY <2>1, <2>3, ThrowHeld
  <2> QED
    BY <1>3, <2>2, <2>3 DEF RemoveWrite
<1> QED
  BY <1>2, <1>3

LEMMA RemovedHeld ==
    ASSUME OneRequestAtATime, Context, HeldInvariant, NEW s \in Slots, Removed(s)
    PROVE  HeldInvariant'
<1> DEFINE g == slot[s]
           h == [g EXCEPT !.action = ActedOn(g), !.from = NthId(1),
                          !.decision = OperatorDecision(g)]
           entry == Entry(h, NthId(3))
<1>1. /\ UNCHANGED <<queue, history, taken>> /\ Known' = Known /\ IsHandler(g)
  BY DEF Removed, store, observer, Known, IdsOf, Context, ApprovalInvariant, HandlerFits
<1>2. CASE OperatorDecided(s)
  <2>1. IsHandler(h) /\ h.decision = OperatorDecision(g)
    BY <1>1 DEF IsHandler, Fields
  <2>2. Goto(s, [h EXCEPT !.entry = entry], "historyRead")
    BY <1>2 DEF OperatorDecided
  <2>3. entry.decision = h.decision
    BY DEF Entry
  <2>4. OperatorDecision(g).verdict # "ask"
    BY DEF OperatorDecision, Decision
  <2> HIDE DEF h, entry
  <2>5. slot'[s].pc = "historyRead" /\ slot'[s].entry = entry
    BY <2>1, <2>2, Goes DEF Context, IsHandler, Fields
  <2>6. HeldFits(slot'[s], queue', Known')
    BY <2>1, <2>3, <2>4, <2>5 DEF HeldFits, EntryHeld
  <2> QED
    BY <1>1, <2>6, HeldStep
<1>3. CASE Throw(s)
  BY <1>1, <1>3, ThrowHeld
<1> QED
  BY <1>2, <1>3 DEF Removed

(* An outcome leaves the decision and the queue id of an entry alone.      *)
LEMMA Marking ==
    ASSUME NEW e, IsEntry(e), NEW outcome
    PROVE  LET marked == [e EXCEPT !.outcome = outcome] IN
           marked.decision = e.decision /\ marked.queueId = e.queueId /\ marked.id = e.id
BY DEF IsEntry, EntryFields

LEMMA OutcomeHeld ==
    ASSUME OneRequestAtATime, Context, HeldInvariant, NEW s \in Slots,
           OutcomeRead(s) \/ OutcomeWrite(s) \/ OutcomeSaved(s)
    PROVE  HeldInvariant'
<1> DEFINE g == slot[s]
<1>1. IsHandler(g) /\ HeldFits(g, queue, Known) /\ \A e \in history : EntryHeld(e, Known)
  BY DEF Context, ApprovalInvariant, HandlerFits, HeldInvariant
<1>2. CASE OutcomeRead(s)
  <2>1. UNCHANGED <<queue, history, taken>> /\ Known' = Known
    BY <1>2 DEF OutcomeRead, store, observer, Known, IdsOf
  <2>2. CASE Load(s, history, "outcomeWrite")
    <3>1. slot'[s].pc = "outcomeWrite" /\ slot'[s].read = history
      BY <1>1, <2>2, Goes DEF Context, Load, IsHandler, Fields
    <3>2. HeldFits(slot'[s], queue', Known')
      BY <1>1, <2>1, <3>1 DEF HeldFits
    <3> QED
      BY <2>1, <3>2, HeldStep
  <2> QED
    BY <1>2, <2>1, <2>2, ThrowHeld DEF OutcomeRead
<1>3. CASE OutcomeWrite(s)
  <2> DEFINE Marked(e) == [e EXCEPT !.outcome = @ \/ e.action.id = g.outcomeOf]
  <2>1. UNCHANGED <<queue, taken>> /\ Known' = Known /\ g.pc = "outcomeWrite"
    BY <1>3 DEF OutcomeWrite, observer, Known, IdsOf, At
  <2>2. CASE history' = {Marked(e) : e \in g.read} /\ Saved(s, "outcomeSaved")
    <3>1. ASSUME NEW e \in g.read PROVE EntryHeld(Marked(e), Known')
      <4>1. EntryHeld(e, Known) /\ IsEntry(e)
        BY <1>1, <2>1 DEF HeldFits, Context, AuditInvariant, AuditFits, EntryFits
      <4> QED
        BY <2>1, <4>1, Marking DEF EntryHeld
    <3>2. slot'[s].pc = "outcomeSaved"
      BY <2>2, Goes DEF Context, Saved
    <3>3. HeldFits(slot'[s], queue', Known')
      BY <3>2 DEF HeldFits
    <3> QED
      BY <2>1, <2>2, <3>1, <3>3, HeldStep
  <2>3. CASE Throw(s) /\ UNCHANGED history
    BY <2>1, <2>3, ThrowHeld
  <2> QED
    BY <1>3, <2>2, <2>3 DEF OutcomeWrite
<1>4. CASE OutcomeSaved(s)
  <2>1. UNCHANGED <<queue, history, taken>> /\ Goto(s, g, "reply")
    BY <1>4 DEF OutcomeSaved, store, observer
  <2> QED
    BY <2>1, HeldFreeStep DEF HeldFreePcs
<1> QED
  BY <1>2, <1>3, <1>4

(* The response leaves, and the process dies: no handler holds anything.   *)
LEMMA IdleHeld ==
    ASSUME OneRequestAtATime, Context, HeldInvariant, UNCHANGED <<queue, history, taken>>,
           \A s \in Slots : slot'[s] = Idle
    PROVE  HeldInvariant'
<1>1. Idle.pc = "idle"
  BY DEF Idle
<1>2. Known' = Known
  BY DEF Known, IdsOf
<1> QED
  BY <1>1, <1>2 DEF HeldInvariant, HeldFits

LEMMA NextKeepsHeld ==
    ASSUME OneRequestAtATime, Context, HeldInvariant, [Next]_vars
    PROVE  HeldInvariant'
<1>1. ASSUME NEW s \in Slots, Step(s) PROVE HeldInvariant'
  <2>1. CASE LookupHistory(s) \/ ReadRules(s) \/ DecideAction(s)
    BY <2>1, ArrivalHeld, ReadRulesHeld, DecideActionHeld
  <2>2. CASE EnqueueRead(s) \/ EnqueueWrite(s) \/ HistoryRead(s) \/ HistoryWrite(s)
    BY <2>2, HoldHeld, HistoryHeld
  <2>3. CASE Answer(s)
    BY <2>3, AnsweredHeld
       DEF Answer, At, Context, ApprovalInvariant, HandlerFits, HeldInvariant, HeldFits
  <2>4. CASE RemoveRead(s) \/ RemoveWrite(s) \/ Removed(s)
    BY <2>4, RemoveHeld, RemovedHeld
  <2>5. CASE RuleStep(s)
    BY <2>5, RuleStepMoves, HeldFreeStep DEF HeldFreePcs
  <2>6. CASE OutcomeRead(s) \/ OutcomeWrite(s) \/ OutcomeSaved(s)
    BY <2>6, OutcomeHeld
  <2>7. CASE Reply(s)
    <3>1. UNCHANGED <<queue, history, taken>> /\ slot' = [slot EXCEPT ![s] = Idle]
      BY <2>7 DEF Reply, store
    <3>2. \A t \in Slots : slot'[t] = Idle
      BY <3>1 DEF OneRequestAtATime, Context, ApprovalInvariant
    <3> QED
      BY <3>1, <3>2, IdleHeld
  <2> QED
    BY <1>1, <2>1, <2>2, <2>3, <2>4, <2>5, <2>6, <2>7 DEF Step, RuleStep
<1>2. CASE \E s \in Slots : Start(s) \/ Step(s)
  BY <1>1, <1>2, ArrivalHeld
<1>3. CASE SetMode \/ SetScope \/ SetMatchReplaceRules \/ UNCHANGED vars
  <2>1. UNCHANGED <<queue, history, taken, slot>>
    BY <1>3 DEF SetMode, SetScope, SetMatchReplaceRules, vars, store, observer
  <2> QED
    BY <2>1 DEF HeldInvariant, Known, IdsOf
<1>4. CASE Restart
  BY <1>4, IdleHeld DEF Restart, store
<1> QED
  BY <1>2, <1>3, <1>4 DEF Next

LEMMA InitEstablishesHeld == Init => HeldInvariant
<1> SUFFICES ASSUME Init PROVE HeldInvariant
  OBVIOUS
<1>1. /\ queue = {[id |-> HeldId(i), action |-> Held[i]] : i \in DOMAIN Held}
      /\ history = {HeldEntry(i) : i \in DOMAIN Held} /\ slot = [s \in Slots |-> Idle]
  BY DEF Init
<1>2. \A i \in DOMAIN Held : HeldId(i) \in Known
  <2> SUFFICES ASSUME NEW i \in DOMAIN Held PROVE HeldId(i) \in IdsOf(queue)
    BY DEF Known
  <2> DEFINE item == [id |-> HeldId(i), action |-> Held[i]]
  <2>1. item \in queue /\ item.id = HeldId(i)
    BY <1>1
  <2> HIDE DEF item
  <2> QED
    BY <2>1 DEF IdsOf
<1>3. \A i \in DOMAIN Held : HeldEntry(i).queueId = HeldId(i)
  BY DEF HeldEntry
<1>4. Idle.pc = "idle"
  BY DEF Idle
<1> QED
  BY <1>1, <1>2, <1>3, <1>4 DEF HeldInvariant, HeldFits, EntryHeld

(* An action whose agent was told to ask is on the queue until an operator *)
(* takes it, as long as requests do not overlap: whatever fails, and       *)
(* however often the gateway restarts.                                     *)
THEOREM HeldActionsStay ==
    ASSUME OneRequestAtATime
    PROVE  Spec => []HeldActionIsPendingOrTaken
<1>1. Init => ApprovalInvariant /\ AuditInvariant /\ HeldInvariant
  BY InitEstablishesInvariant, InitEstablishesAudit, InitEstablishesHeld
<1>2. ApprovalInvariant /\ AuditInvariant /\ HeldInvariant /\ [Next]_vars
         => ApprovalInvariant' /\ AuditInvariant' /\ HeldInvariant'
  BY NextKeepsInvariant, NextKeepsAudit, NextKeepsHeld DEF Context
<1>3. HeldInvariant => HeldActionIsPendingOrTaken
  BY DEF HeldInvariant, EntryHeld, Known, HeldActionIsPendingOrTaken
<1> QED
  BY <1>1, <1>2, <1>3, PTL DEF Spec
-----------------------------------------------------------------------------
(***************************************************************************)
(* One verdict per item, as long as requests do not overlap and no process *)
(* gets the pid of an earlier one: an id that was drawn is not drawn again.*)
(***************************************************************************)
DrawnIds ==
    {id \in Nat \X Nat : id[1] < process.pid \/ (id[1] = process.pid /\ id[2] <= process.ids)}

Counts ==
    /\ process = [f \in {"pid", "ids", "requests", "restarts"} |-> process[f]]
    /\ process.pid \in Nat /\ process.ids \in Nat

LEMMA DrawCounts ==
    ASSUME Counts, NEW n \in Nat, Draw(n)
    PROVE  /\ Counts' /\ DrawnIds \subseteq DrawnIds'
           /\ n > 0 => NthId(1) \in DrawnIds' \ DrawnIds
<1>1. process'.pid = process.pid /\ process'.ids = process.ids + n
  BY DEF Counts, Draw
<1>2. process' = [f \in {"pid", "ids", "requests", "restarts"} |-> process'[f]]
  BY DEF Counts, Draw
<1>3. DrawnIds \subseteq DrawnIds'
  BY <1>1 DEF DrawnIds, Counts
<1>4. n > 0 => NthId(1) \in DrawnIds' \ DrawnIds
  BY <1>1 DEF DrawnIds, Counts, NthId
<1> QED
  BY <1>1, <1>2, <1>3, <1>4 DEF Counts

LEMMA CompiledCount ==
    ASSUME NEW words \in Seq(SUBSET STRING)
    PROVE  Cardinality(Compiled(words)) \in Nat
<1>1. Compiled(words) \subseteq 1..Len(words) /\ Len(words) \in Nat
  BY DEF Compiled
<1>2. IsFiniteSet(1..Len(words))
  BY <1>1, FS_Interval
<1> QED
  BY <1>1, <1>2, FS_Subset, FS_CardinalityType

(* What a step does to the process.                                        *)
LEMMA ProcessMoves ==
    ASSUME ApprovalInvariant, [Next]_vars
    PROVE  \/ \E n \in Nat : Draw(n)
           \/ UNCHANGED process
           \/ /\ process.requests < MaxRequests
              /\ process' = [process EXCEPT !.requests = @ + 1]
           \/ Restart
<1>1. ASSUME NEW s \in Slots, Start(s)
      PROVE  /\ process.requests < MaxRequests
             /\ process' = [process EXCEPT !.requests = @ + 1]
  <2>1. CASE StartIntercept(s) \/ StartRepeater(s) \/ StartOutcome(s)
    BY <2>1 DEF StartIntercept, StartRepeater, StartOutcome, Accept
  <2>2. CASE StartVerdict(s) \/ StartBatch(s)
    BY <2>2 DEF StartVerdict, StartBatch, Accept
  <2> QED
    BY <1>1, <2>1, <2>2 DEF Start
<1>2. ASSUME NEW s \in Slots, Step(s)
      PROVE  (\E n \in Nat : Draw(n)) \/ UNCHANGED process
  <2>1. CASE LookupHistory(s) \/ ReadRules(s) \/ EnqueueRead(s) \/ EnqueueWrite(s)
    BY <2>1 DEF LookupHistory, ReadRules, EnqueueRead, EnqueueWrite
  <2>2. CASE HistoryRead(s) \/ HistoryWrite(s) \/ ListQueue(s) \/ RemoveRead(s) \/ RemoveWrite(s)
    BY <2>2 DEF HistoryRead, HistoryWrite, ListQueue, RemoveRead, RemoveWrite
  <2>3. CASE PutRead(s) \/ PutWrite(s) \/ UpdateRead(s) \/ UpdateWrite(s)
    BY <2>3 DEF PutRead, PutWrite, UpdateRead, UpdateWrite
  <2>4. CASE OutcomeRead(s) \/ OutcomeWrite(s) \/ Reply(s)
    BY <2>4 DEF OutcomeRead, OutcomeWrite, Reply
  <2>5. Draw(1) \/ Draw(2) \/ Draw(3) => \E n \in Nat : Draw(n)
    OBVIOUS
  <2>6. CASE DecideAction(s) \/ Answer(s)
    <3>1. Draw(1) \/ Draw(2)
      BY <2>6 DEF DecideAction, Answer, Answered
    <3> QED
      BY <2>5, <3>1
  <2>7. CASE Removed(s)
    <3>1. Draw(1) \/ Draw(3) \/ UNCHANGED process
      BY <2>7 DEF Removed, OperatorDecided
    <3> QED
      BY <2>5, <3>1
  <2>8. CASE RuleStored(s) \/ RuleActivated(s) \/ OutcomeSaved(s)
    <3>1. Draw(1)
      BY <2>8 DEF RuleStored, RuleActivated, OutcomeSaved
    <3> QED
      BY <2>5, <3>1
  <2>9. CASE CompileVerdict(s)
    <3> DEFINE n == 3 * Cardinality(Compiled(slot[s].words))
    <3>1. n \in Nat
      BY CompiledCount DEF ApprovalInvariant, HandlerFits, IsHandler
    <3>2. Draw(2) \/ Draw(n)
      BY <2>9 DEF CompileVerdict
    <3> QED
      BY <2>5, <3>1, <3>2
  <2> QED
    BY <1>2, <2>1, <2>2, <2>3, <2>4, <2>6, <2>7, <2>8, <2>9 DEF Step
<1>3. CASE SetMode \/ SetScope \/ SetMatchReplaceRules \/ UNCHANGED vars
  BY <1>3 DEF SetMode, SetScope, SetMatchReplaceRules, vars
<1> QED
  BY <1>1, <1>2, <1>3 DEF Next

LEMMA NextKeepsCounts ==
    ASSUME ~PidMayRepeat, ApprovalInvariant, Counts, [Next]_vars
    PROVE  Counts' /\ DrawnIds \subseteq DrawnIds'
<1>1. CASE \E n \in Nat : Draw(n)
  BY <1>1, DrawCounts
<1>2. CASE UNCHANGED process
  BY <1>2 DEF Counts, DrawnIds
<1>3. CASE process' = [process EXCEPT !.requests = @ + 1]
  <2>1. process'.pid = process.pid /\ process'.ids = process.ids
    BY <1>3 DEF Counts
  <2>2. process' = [f \in {"pid", "ids", "requests", "restarts"} |-> process'[f]]
    BY <1>3 DEF Counts
  <2> QED
    BY <2>1, <2>2 DEF Counts, DrawnIds
<1>4. CASE Restart
  <2>1. process' = [process EXCEPT !.pid = process.pid + 1, !.ids = 0, !.restarts = @ + 1]
    BY <1>4 DEF Restart
  <2>2. process'.pid = process.pid + 1 /\ process'.ids = 0
    BY <2>1 DEF Counts
  <2>3. process' = [f \in {"pid", "ids", "requests", "restarts"} |-> process'[f]]
    BY <2>1 DEF Counts
  <2> QED
    BY <2>2, <2>3 DEF Counts, DrawnIds
<1> QED
  BY <1>1, <1>2, <1>3, <1>4, ProcessMoves

(***************************************************************************)
(* An item goes from drawn, to held, to taken, to judged, and never back.  *)
(* D are the ids drawn so far, Q those on the queue, T those taken off it, *)
(* H the history.                                                          *)
(***************************************************************************)
ByOperator(e) == e.decision.source = "operator"
Unjudged(id, H) == \A e \in H : ByOperator(e) => e.queueId # id

ItemFits(h, D, Q, T, H) ==
    /\ h.pc \in {"enqueueRead", "enqueueWrite"} => h.queueId \in D \ (Q \cup T)
    /\ h.pc \in {"enqueueRead", "enqueueWrite", "answer"} => ~ByOperator(h)
    /\ h.pc = "removeWrite" => h.queueId \in Q
    /\ h.pc = "removed" => h.queueId \in T /\ Unjudged(h.queueId, H)
    /\ h.pc \in {"historyRead", "historyWrite"} /\ ByOperator(h.entry) =>
          h.entry.queueId \in T /\ Unjudged(h.entry.queueId, H)
    /\ h.pc \in {"historyWrite", "outcomeWrite"} => h.read = H

ItemsFit(D, Q, T, H) ==
    /\ Q \cup T \subseteq D
    /\ Q \cap T = {}
    /\ \A e \in H : ByOperator(e) => e.queueId \in T

ItemInvariant ==
    /\ Counts
    /\ ItemsFit(DrawnIds, IdsOf(queue), taken, history)
    /\ OneVerdictPerItem
    /\ \A s \in Slots : ItemFits(slot[s], DrawnIds, IdsOf(queue), taken, history)

ItemContext ==
    /\ OneRequestAtATime /\ Context /\ HeldInvariant /\ ItemInvariant
    /\ Counts' /\ DrawnIds \subseteq DrawnIds'

LEMMA ItemStep ==
    ASSUME ItemContext, NEW s \in Slots,
           ItemsFit(DrawnIds', IdsOf(queue'), taken', history'), OneVerdictPerItem',
           ItemFits(slot'[s], DrawnIds', IdsOf(queue'), taken', history')
    PROVE  ItemInvariant'
<1>1. \A t \in Slots : ItemFits(slot'[t], DrawnIds', IdsOf(queue'), taken', history')
  BY DEF ItemContext, OneRequestAtATime
<1>2. IdsOf(queue') = IdsOf(queue)'
  BY DEF IdsOf
<1> QED
  BY <1>1, <1>2 DEF ItemInvariant, ItemContext

(* A step that leaves the history and the queue alone.                     *)
LEMMA ItemQuietStep ==
    ASSUME ItemContext, NEW s \in Slots, UNCHANGED <<queue, history, taken>>,
           ItemFits(slot'[s], DrawnIds', IdsOf(queue), taken, history)
    PROVE  ItemInvariant'
<1>1. ItemsFit(DrawnIds', IdsOf(queue'), taken', history')
  BY DEF ItemContext, ItemInvariant, ItemsFit
<1>2. OneVerdictPerItem'
  BY DEF ItemContext, ItemInvariant, OneVerdictPerItem
<1> QED
  BY <1>1, <1>2, ItemStep

ItemFreePcs ==
    {"idle", "lookup", "rules", "decide", "list", "removeRead", "compile", "outcomeRead",
     "outcomeSaved", "reply"} \cup StoringPcs

LEMMA ItemFreeStep ==
    ASSUME ItemContext, NEW s \in Slots, NEW h, NEW pc \in ItemFreePcs, Goto(s, h, pc),
           UNCHANGED <<queue, history, taken>>
    PROVE  ItemInvariant'
<1>1. slot'[s].pc = pc
  BY Goes DEF ItemContext, Context
<1>2. ItemFits(slot'[s], DrawnIds', IdsOf(queue), taken, history)
  BY <1>1 DEF ItemFits, ItemFreePcs, StoringPcs
<1> QED
  BY <1>2, ItemQuietStep

LEMMA ThrowItem ==
    ASSUME ItemContext, NEW s \in Slots, Throw(s), UNCHANGED <<queue, history, taken>>
    PROVE  ItemInvariant'
<1>1. Goto(s, [slot[s] EXCEPT !.ok = FALSE], "reply") /\ "reply" \in ItemFreePcs
  BY DEF Throw, ItemFreePcs
<1> QED
  BY <1>1, ItemFreeStep

LEMMA ArrivalItem ==
    ASSUME ItemContext, NEW s \in Slots, Start(s) \/ LookupHistory(s)
    PROVE  ItemInvariant'
<1>1. ArrivalPcs \subseteq ItemFreePcs
  BY DEF ArrivalPcs, ItemFreePcs
<1>2. CASE Start(s)
  <2>1. UNCHANGED <<queue, history, taken>>
    BY <1>2, StartIsFresh DEF store, observer
  <2>2. \E h : \E pc \in ArrivalPcs : Goto(s, h, pc)
    BY <1>2, StartIsFresh
  <2> QED
    BY <1>1, <2>1, <2>2, ItemFreeStep
<1>3. CASE LookupHistory(s)
  <2>1. UNCHANGED <<queue, history, taken>>
    BY <1>3 DEF LookupHistory, store, observer
  <2>2. (\E a, mode : Goto(s, Captured("repeater", a, mode), "rules")) \/ Throw(s)
    BY <1>3 DEF LookupHistory, Repeated
  <2> QED
    BY <1>1, <2>1, <2>2, ItemFreeStep, ThrowItem DEF ArrivalPcs
<1> QED
  BY <1>2, <1>3

(* The engine decides, never as an operator.                               *)
LEMMA EngineIsNoOperator ==
    ASSUME NEW a, NEW known, NEW mode, NEW scope
    PROVE  Decide(a, known, mode, scope).source # "operator"
BY DEF Decide, DecisionFromRule, Decision

LEMMA ReadRulesItem ==
    ASSUME ItemContext, NEW s \in Slots, ReadRules(s)
    PROVE  ItemInvariant'
<1> DEFINE g == slot[s]
<1>1. UNCHANGED <<queue, history, taken>> /\ IsHandler(g)
  BY DEF ReadRules, store, observer, ItemContext, Context, ApprovalInvariant, HandlerFits
<1>2. CASE Load(s, rules, "decide")
  BY <1>1, <1>2, ItemFreeStep DEF Load, ItemFreePcs
<1>3. CASE Goto(s, [g EXCEPT !.decision = FailedClosed], "answer")
  <2>1. slot'[s].pc = "answer" /\ slot'[s].decision = FailedClosed
    BY <1>1, <1>3, Goes DEF ItemContext, Context, IsHandler, Fields
  <2>2. ItemFits(slot'[s], DrawnIds', IdsOf(queue), taken, history)
    BY <2>1, FailedClosedIsNoAsk DEF ItemFits, ByOperator
  <2> QED
    BY <1>1, <2>2, ItemQuietStep
<1> QED
  BY <1>2, <1>3 DEF ReadRules

LEMMA AnsweredItem ==
    ASSUME ItemContext, NEW s \in Slots, NEW h, IsHandler(h), ~ByOperator(h), Answered(s, h)
    PROVE  ItemInvariant'
<1> DEFINE entry == Entry(h, NthId(2))
<1>1. UNCHANGED <<queue, history, taken>> /\ Goto(s, [h EXCEPT !.entry = entry], "historyRead")
  BY DEF Answered, store, observer
<1>2. entry.decision = h.decision
  BY DEF Entry
<1> HIDE DEF entry
<1>3. slot'[s].pc = "historyRead" /\ slot'[s].entry = entry
  BY <1>1, Goes DEF ItemContext, Context, IsHandler, Fields
<1>4. ItemFits(slot'[s], DrawnIds', IdsOf(queue), taken, history)
  BY <1>2, <1>3 DEF ItemFits, ByOperator
<1> QED
  BY <1>1, <1>4, ItemQuietStep

(* The id under which an action is held is a new one.                      *)
LEMMA DecideActionItem ==
    ASSUME ItemContext, NEW s \in Slots, DecideAction(s)
    PROVE  ItemInvariant'
<1> DEFINE g == slot[s]
           d == Decide(g.action, g.read, g.mode, g.scope)
           h == [g EXCEPT !.decision = d, !.read = {}]
<1>1. IsHandler(g) /\ d.source # "operator"
  BY EngineIsNoOperator DEF ItemContext, Context, ApprovalInvariant, HandlerFits
<1> HIDE DEF d
<1>2. IsHandler(h) /\ h.decision = d
  BY <1>1 DEF IsHandler, Fields
<1>3. CASE Answered(s, h)
  BY <1>1, <1>2, <1>3, AnsweredItem DEF ByOperator
<1>4. CASE /\ Draw(1) /\ Goto(s, [h EXCEPT !.queueId = NthId(1)], "enqueueRead")
           /\ UNCHANGED <<store, ledger, settings, observer>>
  <2> DEFINE r == [h EXCEPT !.queueId = NthId(1)]
  <2>1. r.queueId = NthId(1) /\ r.decision = d
    BY <1>2 DEF IsHandler, Fields
  <2> HIDE DEF r, h
  <2>2. slot'[s].pc = "enqueueRead" /\ slot'[s].queueId = NthId(1) /\ slot'[s].decision = d
    BY <1>4, <2>1, Goes DEF ItemContext, Context, r
  <2>3. NthId(1) \in DrawnIds' \ DrawnIds
    BY <1>4, DrawCounts DEF ItemContext, ItemInvariant
  <2>4. ItemFits(slot'[s], DrawnIds', IdsOf(queue), taken, history)
    BY <1>1, <2>2, <2>3 DEF ItemFits, ByOperator, ItemContext, ItemInvariant, ItemsFit
  <2> QED
    BY <1>4, <2>4, ItemQuietStep DEF store, observer
<1> QED
  BY <1>3, <1>4 DEF DecideAction, h, d

LEMMA HoldItem ==
    ASSUME ItemContext, NEW s \in Slots, EnqueueRead(s) \/ EnqueueWrite(s)
    PROVE  ItemInvariant'
<1> DEFINE g == slot[s]
<1>1. /\ IsHandler(g) /\ ItemFits(g, DrawnIds, IdsOf(queue), taken, history)
      /\ g.pc \in {"enqueueRead", "enqueueWrite"} /\ DrawnIds \subseteq DrawnIds'
  BY DEF ItemContext, Context, ApprovalInvariant, HandlerFits, ItemInvariant, EnqueueRead,
         EnqueueWrite, At
<1>2. ASSUME HoldFailed(s), UNCHANGED <<queue, history, taken>>
      PROVE  ItemInvariant'
  <2> DEFINE r == [g EXCEPT !.decision = FailedClosed, !.queueId = NoId, !.read = {}]
  <2>1. Goto(s, r, "answer")
    BY <1>2 DEF HoldFailed
  <2>2. r.decision = FailedClosed
    BY <1>1 DEF IsHandler, Fields
  <2> HIDE DEF r
  <2>3. slot'[s].pc = "answer" /\ slot'[s].decision = FailedClosed
    BY <2>1, <2>2, Goes DEF ItemContext, Context
  <2>4. ItemFits(slot'[s], DrawnIds', IdsOf(queue), taken, history)
    BY <2>3, FailedClosedIsNoAsk DEF ItemFits, ByOperator
  <2> QED
    BY <1>2, <2>4, ItemQuietStep
<1>3. CASE EnqueueRead(s)
  <2>1. UNCHANGED <<queue, history, taken>>
    BY <1>3 DEF EnqueueRead, store, observer
  <2>2. CASE Load(s, queue, "enqueueWrite")
    <3>1. /\ slot'[s].pc = "enqueueWrite" /\ slot'[s].queueId = g.queueId
          /\ slot'[s].decision = g.decision
      BY <1>1, <2>2, Goes DEF ItemContext, Context, Load, IsHandler, Fields
    <3>2. ItemFits(slot'[s], DrawnIds', IdsOf(queue), taken, history)
      BY <1>1, <3>1 DEF ItemFits, ByOperator
    <3> QED
      BY <2>1, <3>2, ItemQuietStep
  <2> QED
    BY <1>2, <1>3, <2>1, <2>2 DEF EnqueueRead
<1>4. CASE EnqueueWrite(s)
  <2> DEFINE item == [id |-> g.queueId, action |-> g.action]
  <2>1. UNCHANGED <<history, taken>> /\ g.read = queue
    BY <1>4 DEF EnqueueWrite, observer, At, ItemContext, HeldInvariant, HeldFits
  <2>2. CASE queue' = g.read \cup {item} /\ Saved(s, "answer")
    <3>1. queue' = queue \cup {item} /\ item.id = g.queueId
      BY <2>1, <2>2
    <3> HIDE DEF item
    <3>2. IdsOf(queue') = IdsOf(queue) \cup {g.queueId}
      BY <3>1 DEF IdsOf
    <3>3. slot'[s].pc = "answer" /\ slot'[s].decision = g.decision
      BY <1>1, <2>2, Goes DEF ItemContext, Context, Saved, IsHandler, Fields
    <3>4. ItemFits(slot'[s], DrawnIds', IdsOf(queue'), taken', history')
      BY <1>1, <3>3 DEF ItemFits, ByOperator
    <3>5. g.queueId \in DrawnIds \ (IdsOf(queue) \cup taken)
      BY <1>1 DEF ItemFits
    <3>6. ItemsFit(DrawnIds', IdsOf(queue'), taken', history')
      BY <1>1, <2>1, <3>2, <3>5 DEF ItemContext, ItemInvariant, ItemsFit
    <3>7. OneVerdictPerItem'
      BY <2>1 DEF ItemContext, ItemInvariant, OneVerdictPerItem
    <3> QED
      BY <3>4, <3>6, <3>7, ItemStep
  <2>3. CASE HoldFailed(s) /\ UNCHANGED queue
    BY <1>2, <2>1, <2>3
  <2> QED
    BY <1>4, <2>2, <2>3 DEF EnqueueWrite
<1> QED
  BY <1>3, <1>4

LEMMA HistoryItem ==
    ASSUME ItemContext, NEW s \in Slots, HistoryRead(s) \/ HistoryWrite(s)
    PROVE  ItemInvariant'
<1> DEFINE g == slot[s]
<1>1. /\ IsHandler(g) /\ ItemFits(g, DrawnIds, IdsOf(queue), taken, history)
      /\ g.pc \in {"historyRead", "historyWrite"}
      /\ ByOperator(g.entry) => g.entry.queueId \in taken /\ Unjudged(g.entry.queueId, history)
  BY DEF ItemContext, Context, ApprovalInvariant, HandlerFits, ItemInvariant, HistoryRead,
         HistoryWrite, At, ItemFits
<1>2. CASE HistoryRead(s)
  <2>1. UNCHANGED <<queue, history, taken>>
    BY <1>2 DEF HistoryRead, store, observer
  <2>2. CASE Load(s, history, "historyWrite")
    <3>1. /\ slot'[s].pc = "historyWrite" /\ slot'[s].entry = g.entry
          /\ slot'[s].read = history
      BY <1>1, <2>2, Goes DEF ItemContext, Context, Load, IsHandler, Fields
    <3>2. ItemFits(slot'[s], DrawnIds', IdsOf(queue), taken, history)
      BY <1>1, <3>1 DEF ItemFits
    <3> QED
      BY <2>1, <3>2, ItemQuietStep
  <2> QED
    BY <1>2, <2>1, <2>2, ThrowItem DEF HistoryRead
<1>3. CASE HistoryWrite(s)
  <2>1. UNCHANGED <<queue, taken>> /\ g.read = history
    BY <1>1, <1>3 DEF HistoryWrite, observer, At, ItemFits
  <2>2. ASSUME history' = g.read \cup {g.entry}, NEW pc \in {"compile", "reply"}, Saved(s, pc)
        PROVE  ItemInvariant'
    <3>1. slot'[s].pc = pc
      BY <2>2, Goes DEF ItemContext, Context, Saved
    <3>2. ItemFits(slot'[s], DrawnIds', IdsOf(queue'), taken', history')
      BY <3>1 DEF ItemFits
    <3>3. ItemsFit(DrawnIds', IdsOf(queue'), taken', history')
      BY <1>1, <2>1, <2>2 DEF ItemContext, ItemInvariant, ItemsFit
    <3>4. OneVerdictPerItem'
      BY <1>1, <2>1, <2>2 DEF ItemContext, ItemInvariant, OneVerdictPerItem, Unjudged, ByOperator
    <3> QED
      BY <3>2, <3>3, <3>4, ItemStep
  <2>3. CASE Throw(s) /\ UNCHANGED history
    BY <2>1, <2>3, ThrowItem
  <2> QED
    BY <1>3, <2>2, <2>3 DEF HistoryWrite
<1> QED
  BY <1>2, <1>3

(* Who takes an item off the queue is the first to do so.                  *)
LEMMA RemoveItem ==
    ASSUME ItemContext, NEW s \in Slots, RemoveRead(s) \/ RemoveWrite(s)
    PROVE  ItemInvariant'
<1> DEFINE g == slot[s]
<1>1. /\ IsHandler(g) /\ ItemFits(g, DrawnIds, IdsOf(queue), taken, history)
      /\ DrawnIds \subseteq DrawnIds'
  BY DEF ItemContext, Context, ApprovalInvariant, HandlerFits, ItemInvariant
<1>2. CASE RemoveRead(s)
  <2>1. UNCHANGED <<queue, history, taken>>
    BY <1>2 DEF RemoveRead, store, observer
  <2>2. ASSUME NEW item \in queue, item.id = g.queueId,
               Goto(s, [g EXCEPT !.read = queue, !.action = item.action], "removeWrite")
        PROVE  ItemInvariant'
    <3> DEFINE r == [g EXCEPT !.read = queue, !.action = item.action]
    <3>1. r.queueId = g.queueId /\ Goto(s, r, "removeWrite")
      BY <1>1, <2>2 DEF IsHandler, Fields
    <3> HIDE DEF r
    <3>2. slot'[s].pc = "removeWrite" /\ slot'[s].queueId = g.queueId
      BY <3>1, Goes DEF ItemContext, Context
    <3>3. g.queueId \in IdsOf(queue)
      BY <2>2 DEF IdsOf
    <3>4. ItemFits(slot'[s], DrawnIds', IdsOf(queue), taken, history)
      BY <3>2, <3>3 DEF ItemFits
    <3> QED
      BY <2>1, <3>4, ItemQuietStep
  <2> QED
    BY <1>2, <2>1, <2>2, ThrowItem DEF RemoveRead
<1>3. CASE RemoveWrite(s)
  <2>1. /\ UNCHANGED history /\ g.pc = "removeWrite" /\ g.read = queue
        /\ g.queueId \in IdsOf(queue)
    BY <1>1, <1>3 DEF RemoveWrite, At, ItemFits, ItemContext, HeldInvariant, HeldFits
  <2>2. CASE /\ queue' = {item \in g.read : item.id # g.queueId}
             /\ taken' = taken \cup {g.queueId} /\ Saved(s, "removed")
    <3>1. IdsOf(queue') = IdsOf(queue) \ {g.queueId}
      BY <2>1, <2>2 DEF IdsOf
    <3>2. slot'[s].pc = "removed" /\ slot'[s].queueId = g.queueId
      BY <1>1, <2>2, Goes DEF ItemContext, Context, Saved, IsHandler, Fields
    <3>3. ItemsFit(DrawnIds, IdsOf(queue), taken, history)
      BY DEF ItemContext, ItemInvariant
    <3>4. Unjudged(g.queueId, history)
      BY <2>1, <3>3 DEF ItemsFit, Unjudged
    <3>5. ItemFits(slot'[s], DrawnIds', IdsOf(queue'), taken', history')
      BY <2>1, <2>2, <3>2, <3>4 DEF ItemFits
    <3>6. ItemsFit(DrawnIds', IdsOf(queue'), taken', history')
      BY <1>1, <2>1, <2>2, <3>1, <3>3 DEF ItemsFit
    <3>7. OneVerdictPerItem'
      BY <2>1 DEF ItemContext, ItemInvariant, OneVerdictPerItem
    <3> QED
      BY <3>5, <3>6, <3>7, ItemStep
  <2>3. CASE Throw(s) /\ UNCHANGED <<queue, taken>>
    BY <2>1, <2>3, ThrowItem
  <2> QED
    BY <1>3, <2>2, <2>3 DEF RemoveWrite
<1> QED
  BY <1>2, <1>3

LEMMA RemovedItem ==
    ASSUME ItemContext, NEW s \in Slots, Removed(s)
    PROVE  ItemInvariant'
<1> DEFINE g == slot[s]
           h == [g EXCEPT !.action = ActedOn(g), !.from = NthId(1),
                          !.decision = OperatorDecision(g)]
           entry == Entry(h, NthId(3))
<1>1. /\ UNCHANGED <<queue, history, taken>> /\ IsHandler(g)
      /\ g.queueId \in taken /\ Unjudged(g.queueId, history)
  BY DEF Removed, At, store, observer, ItemContext, Context, ApprovalInvariant, HandlerFits,
         ItemInvariant, ItemFits
<1>2. CASE OperatorDecided(s)
  <2>1. IsHandler(h) /\ h.queueId = g.queueId
    BY <1>1 DEF IsHandler, Fields
  <2>2. Goto(s, [h EXCEPT !.entry = entry], "historyRead")
    BY <1>2 DEF OperatorDecided
  <2>3. entry.queueId = h.queueId
    BY DEF Entry
  <2> HIDE DEF h, entry
  <2>4. slot'[s].pc = "historyRead" /\ slot'[s].entry = entry
    BY <2>1, <2>2, Goes DEF ItemContext, Context, IsHandler, Fields
  <2>5. ItemFits(slot'[s], DrawnIds', IdsOf(queue), taken, history)
    BY <1>1, <2>1, <2>3, <2>4 DEF ItemFits
  <2> QED
    BY <1>1, <2>5, ItemQuietStep
<1>3. CASE Throw(s)
  BY <1>1, <1>3, ThrowItem
<1> QED
  BY <1>2, <1>3 DEF Removed

LEMMA OutcomeItem ==
    ASSUME ItemContext, NEW s \in Slots,
           OutcomeRead(s) \/ OutcomeWrite(s) \/ OutcomeSaved(s)
    PROVE  ItemInvariant'
<1> DEFINE g == slot[s]
<1>1. IsHandler(g) /\ ItemFits(g, DrawnIds, IdsOf(queue), taken, history)
  BY DEF ItemContext, Context, ApprovalInvariant, HandlerFits, ItemInvariant
<1>2. CASE OutcomeRead(s)
  <2>1. UNCHANGED <<queue, history, taken>>
    BY <1>2 DEF OutcomeRead, store, observer
  <2>2. CASE Load(s, history, "outcomeWrite")
    <3>1. slot'[s].pc = "outcomeWrite" /\ slot'[s].read = history
      BY <1>1, <2>2, Goes DEF ItemContext, Context, Load, IsHandler, Fields
    <3>2. ItemFits(slot'[s], DrawnIds', IdsOf(queue), taken, history)
      BY <3>1 DEF ItemFits
    <3> QED
      BY <2>1, <3>2, ItemQuietStep
  <2> QED
    BY <1>2, <2>1, <2>2, ThrowItem DEF OutcomeRead
<1>3. CASE OutcomeWrite(s)
  <2> DEFINE Marked(e) == [e EXCEPT !.outcome = @ \/ e.action.id = g.outcomeOf]
  <2>1. UNCHANGED <<queue, taken>> /\ g.pc = "outcomeWrite" /\ g.read = history
    BY <1>1, <1>3 DEF OutcomeWrite, observer, At, ItemFits
  <2>2. CASE history' = {Marked(e) : e \in g.read} /\ Saved(s, "outcomeSaved")
    <3>1. ASSUME NEW e \in history
          PROVE  Marked(e).queueId = e.queueId /\ Marked(e).decision = e.decision
      <4>1. IsEntry(e)
        BY DEF ItemContext, Context, AuditInvariant, EntryFits
      <4> QED
        BY <4>1, Marking
    <3>2. history' = {Marked(e) : e \in history}
      BY <2>1, <2>2
    <3> HIDE DEF Marked
    <3>3. ItemsFit(DrawnIds', IdsOf(queue'), taken', history')
      BY <2>1, <3>1, <3>2 DEF ItemContext, ItemInvariant, ItemsFit, ByOperator
    <3>4. OneVerdictPerItem'
      <4> SUFFICES ASSUME NEW e \in history', NEW f \in history', e.decision.source = "operator",
                          f.decision.source = "operator", e.queueId = f.queueId
                   PROVE  e = f
        BY DEF OneVerdictPerItem
      <4>1. PICK c \in history : e = Marked(c)
        BY <3>2
      <4>2. PICK d \in history : f = Marked(d)
        BY <3>2
      <4>3. c = d
        BY <3>1, <4>1, <4>2 DEF ItemContext, ItemInvariant, OneVerdictPerItem
      <4> QED
        BY <4>1, <4>2, <4>3
    <3>5. slot'[s].pc = "outcomeSaved"
      BY <2>2, Goes DEF ItemContext, Context, Saved
    <3>6. ItemFits(slot'[s], DrawnIds', IdsOf(queue'), taken', history')
      BY <3>5 DEF ItemFits
    <3> QED
      BY <3>3, <3>4, <3>6, ItemStep
  <2>3. CASE Throw(s) /\ UNCHANGED history
    BY <2>1, <2>3, ThrowItem
  <2> QED
    BY <1>3, <2>2, <2>3 DEF OutcomeWrite
<1>4. CASE OutcomeSaved(s)
  <2>1. UNCHANGED <<queue, history, taken>> /\ Goto(s, g, "reply")
    BY <1>4 DEF OutcomeSaved, store, observer
  <2> QED
    BY <2>1, ItemFreeStep DEF ItemFreePcs
<1> QED
  BY <1>2, <1>3, <1>4

(* The response leaves, the process dies, or a setting changes.            *)
LEMMA RestingItem ==
    ASSUME ItemContext, UNCHANGED <<queue, history, taken>>,
           \A s \in Slots : slot'[s] = Idle \/ slot'[s] = slot[s]
    PROVE  ItemInvariant'
<1>1. Idle.pc = "idle"
  BY DEF Idle
<1>2. IdsOf(queue)' = IdsOf(queue)
  BY DEF IdsOf
<1>3. ASSUME NEW s \in Slots
      PROVE  ItemFits(slot'[s], DrawnIds', IdsOf(queue), taken, history)
  BY <1>1, <1>3 DEF ItemFits, ItemContext, ItemInvariant
<1>4. ItemsFit(DrawnIds', IdsOf(queue), taken, history)
  BY DEF ItemContext, ItemInvariant, ItemsFit
<1>5. OneVerdictPerItem'
  BY DEF ItemContext, ItemInvariant, OneVerdictPerItem
<1> QED
  BY <1>2, <1>3, <1>4, <1>5 DEF ItemContext, ItemInvariant

LEMMA NextKeepsItems ==
    ASSUME OneRequestAtATime, ~PidMayRepeat, Context, HeldInvariant, ItemInvariant, [Next]_vars
    PROVE  ItemInvariant'
<1>1. ItemContext
  BY NextKeepsCounts DEF ItemContext, Context, ItemInvariant
<1>2. ASSUME NEW s \in Slots, Step(s) PROVE ItemInvariant'
  <2>1. CASE LookupHistory(s) \/ ReadRules(s) \/ DecideAction(s)
    BY <1>1, <2>1, ArrivalItem, ReadRulesItem, DecideActionItem
  <2>2. CASE EnqueueRead(s) \/ EnqueueWrite(s) \/ HistoryRead(s) \/ HistoryWrite(s)
    BY <1>1, <2>2, HoldItem, HistoryItem
  <2>3. CASE Answer(s)
    BY <1>1, <2>3, AnsweredItem
       DEF Answer, At, ItemContext, Context, ApprovalInvariant, HandlerFits, ItemInvariant, ItemFits
  <2>4. CASE RemoveRead(s) \/ RemoveWrite(s) \/ Removed(s)
    BY <1>1, <2>4, RemoveItem, RemovedItem
  <2>5. CASE RuleStep(s)
    BY <1>1, <2>5, RuleStepMoves, ItemFreeStep DEF ItemFreePcs
  <2>6. CASE OutcomeRead(s) \/ OutcomeWrite(s) \/ OutcomeSaved(s)
    BY <1>1, <2>6, OutcomeItem
  <2>7. CASE Reply(s)
    <3>1. UNCHANGED <<queue, history, taken>> /\ slot' = [slot EXCEPT ![s] = Idle]
      BY <2>7 DEF Reply, store
    <3>2. \A t \in Slots : slot'[t] = Idle
      BY <3>1 DEF OneRequestAtATime, Context, ApprovalInvariant
    <3> QED
      BY <1>1, <3>1, <3>2, RestingItem
  <2> QED
    BY <1>2, <2>1, <2>2, <2>3, <2>4, <2>5, <2>6, <2>7 DEF Step, RuleStep
<1>3. CASE \E s \in Slots : Start(s) \/ Step(s)
  BY <1>1, <1>2, <1>3, ArrivalItem
<1>4. CASE SetMode \/ SetScope \/ SetMatchReplaceRules \/ UNCHANGED vars
  <2>1. UNCHANGED <<queue, history, taken, slot>>
    BY <1>4 DEF SetMode, SetScope, SetMatchReplaceRules, vars, store, observer
  <2> QED
    BY <1>1, <2>1, RestingItem
<1>5. CASE Restart
  <2>1. UNCHANGED <<queue, history, taken>> /\ \A s \in Slots : slot'[s] = Idle
    BY <1>5 DEF Restart, store
  <2> QED
    BY <1>1, <2>1, RestingItem
<1> QED
  BY <1>3, <1>4, <1>5 DEF Next

LEMMA InitEstablishesItems == Init => ItemInvariant
<1> SUFFICES ASSUME Init PROVE ItemInvariant
  OBVIOUS
<1>1. /\ queue = {[id |-> HeldId(i), action |-> Held[i]] : i \in DOMAIN Held}
      /\ history = {HeldEntry(i) : i \in DOMAIN Held} /\ slot = [s \in Slots |-> Idle]
      /\ taken = {} /\ process = [pid |-> 1, ids |-> 0, requests |-> 0, restarts |-> 0]
  BY DEF Init
<1>2. Counts
  BY <1>1 DEF Counts
<1>3. \A i \in DOMAIN Held : HeldId(i) \in DrawnIds
  <2>1. \A i \in DOMAIN Held : i \in Nat \ {0}
    BY GatewayAssumptions
  <2> QED
    BY <1>1, <2>1 DEF DrawnIds, HeldId
<1>4. IdsOf(queue) \subseteq DrawnIds
  <2> SUFFICES ASSUME NEW item \in queue PROVE item.id \in DrawnIds
    BY DEF IdsOf
  <2>1. PICK i \in DOMAIN Held : item = [id |-> HeldId(i), action |-> Held[i]]
    BY <1>1
  <2> QED
    BY <1>3, <2>1
<1>5. \A e \in history : e.decision.source # "operator"
  BY <1>1 DEF HeldEntry, Asked, Decision
<1>6. \A s \in Slots : slot[s].pc = "idle"
  BY <1>1 DEF Idle
<1> QED
  BY <1>1, <1>2, <1>4, <1>5, <1>6
     DEF ItemInvariant, ItemsFit, ItemFits, OneVerdictPerItem, ByOperator

(* No item is judged twice, as long as requests do not overlap and no      *)
(* process gets the pid of an earlier one: whatever fails between taking   *)
(* an item and recording what was decided, and over any number of deaths.  *)
THEOREM ItemsAreJudgedOnce ==
    ASSUME OneRequestAtATime, ~PidMayRepeat
    PROVE  Spec => []OneVerdictPerItem
<1>1. Init => ApprovalInvariant /\ AuditInvariant /\ HeldInvariant /\ ItemInvariant
  BY InitEstablishesInvariant, InitEstablishesAudit, InitEstablishesHeld, InitEstablishesItems
<1>2. ApprovalInvariant /\ AuditInvariant /\ HeldInvariant /\ ItemInvariant /\ [Next]_vars
         => ApprovalInvariant' /\ AuditInvariant' /\ HeldInvariant' /\ ItemInvariant'
  BY NextKeepsInvariant, NextKeepsAudit, NextKeepsHeld, NextKeepsItems DEF Context
<1>3. ItemInvariant => OneVerdictPerItem
  BY DEF ItemInvariant
<1> QED
  BY <1>1, <1>2, <1>3, PTL DEF Spec
-----------------------------------------------------------------------------
(***************************************************************************)
(* The files stay well formed, for any number of requests in flight.  What *)
(* a handler writes is a file that was well formed when it was read, and   *)
(* the id it adds was not in it then.  G are the ids of the processes so   *)
(* far.                                                                    *)
(***************************************************************************)
GivenIds == (0..process.pid) \X (Nat \ {0})

UniqueIds(content) == \A x, y \in content : x.id = y.id => x = y
Filed(content, G) == UniqueIds(content) /\ IdsOf(content) \subseteq G
RuleFiled(r, G) == r.id \in G /\ r.status \in Statuses /\ r.verdict \in Verdicts

WritingPcs ==
    {"enqueueWrite", "removeWrite", "historyWrite", "outcomeWrite", "putWrite", "updateWrite"}

HandlerTyped(h, G) ==
    /\ h.pc = "idle" => h = Idle
    /\ h.pc \in WritingPcs => Filed(h.read, G)
    /\ h.pc \in {"enqueueRead", "enqueueWrite"} => h.queueId \in G
    /\ h.pc = "enqueueWrite" => h.queueId \notin IdsOf(h.read)
    /\ h.pc = "removeWrite" => h.queueId \in IdsOf(h.read)
    /\ h.pc \in {"historyRead", "historyWrite"} => h.entry.id \in G
    /\ h.pc = "historyWrite" => h.entry.id \notin IdsOf(h.read)
    /\ h.pc \in StoringPcs => \A i \in 1..Len(h.todo) : RuleFiled(h.todo[i], G)
    /\ h.pc \in {"putWrite", "updateWrite"} => \A r \in h.read : RuleFiled(r, G)
    /\ h.pc = "putWrite" => Head(h.todo).id \notin IdsOf(h.read)

StoreTyped(R, Q, H, T, G) ==
    /\ Filed(R, G) /\ Filed(Q, G) /\ Filed(H, G)
    /\ \A r \in R : RuleFiled(r, G)
    /\ T \subseteq G

Bounded ==
    /\ process.requests \in Nat /\ process.requests <= MaxRequests
    /\ process.restarts \in Nat /\ process.restarts <= MaxRestarts

TypeInvariant ==
    /\ Counts /\ Bounded
    /\ StoreTyped(rules, queue, history, taken, GivenIds)
    /\ \A s \in Slots : HandlerTyped(slot[s], GivenIds)

LEMMA NextKeepsBounds ==
    ASSUME ApprovalInvariant, Counts, Bounded, [Next]_vars
    PROVE  Counts' /\ Bounded' /\ GivenIds \subseteq GivenIds'
<1>1. CASE \E n \in Nat : Draw(n)
  <2>1. PICK n \in Nat : Draw(n)
    BY <1>1
  <2>2. /\ process'.pid = process.pid /\ process'.requests = process.requests
        /\ process'.restarts = process.restarts
    BY <2>1 DEF Counts, Draw
  <2> QED
    BY <2>1, <2>2, DrawCounts DEF Bounded, GivenIds
<1>2. CASE UNCHANGED process
  BY <1>2 DEF Counts, Bounded, GivenIds
<1>3. CASE process.requests < MaxRequests /\ process' = [process EXCEPT !.requests = @ + 1]
  <2>1. /\ process'.pid = process.pid /\ process'.ids = process.ids
        /\ process'.requests = process.requests + 1 /\ process'.restarts = process.restarts
    BY <1>3 DEF Counts
  <2>2. process' = [f \in {"pid", "ids", "requests", "restarts"} |-> process'[f]]
    BY <1>3 DEF Counts
  <2> QED
    BY <1>3, <2>1, <2>2, GatewayAssumptions DEF Counts, Bounded, GivenIds
<1>4. CASE Restart
  <2>1. PICK pid \in {process.pid, process.pid + 1} :
            process' = [process EXCEPT !.pid = pid, !.ids = 0, !.restarts = @ + 1]
    BY <1>4 DEF Restart
  <2>2. /\ process'.pid = pid /\ process'.ids = 0
        /\ process'.requests = process.requests /\ process'.restarts = process.restarts + 1
    BY <2>1 DEF Counts
  <2>3. process' = [f \in {"pid", "ids", "requests", "restarts"} |-> process'[f]]
    BY <2>1 DEF Counts
  <2>4. process.restarts < MaxRestarts /\ pid \in Nat /\ process.pid <= pid
    BY <1>4, <2>1 DEF Restart, Counts
  <2>5. Counts' /\ Bounded'
    BY <2>2, <2>3, <2>4, GatewayAssumptions DEF Counts, Bounded
  <2>6. 0..process.pid \subseteq 0..process'.pid
    BY <2>2, <2>4 DEF Counts
  <2> QED
    BY <2>5, <2>6 DEF GivenIds
<1> QED
  BY <1>1, <1>2, <1>3, <1>4, ProcessMoves

LEMMA NthIsGiven ==
    ASSUME Counts, NEW n \in Nat \ {0}
    PROVE  NthId(n) \in GivenIds
<1>1. process.ids + n \in Nat \ {0} /\ process.pid \in 0..process.pid
  BY DEF Counts
<1> QED
  BY <1>1 DEF NthId, GivenIds

LEMMA TypesAreKept ==
    ASSUME NEW G, NEW L, G \subseteq L
    PROVE  /\ \A C : Filed(C, G) => Filed(C, L)
           /\ \A r : RuleFiled(r, G) => RuleFiled(r, L)
           /\ \A h : HandlerTyped(h, G) => HandlerTyped(h, L)
           /\ \A R, Q, H, T : StoreTyped(R, Q, H, T, G) => StoreTyped(R, Q, H, T, L)
<1>1. \A C : Filed(C, G) => Filed(C, L)
  BY DEF Filed
<1>2. \A r : RuleFiled(r, G) => RuleFiled(r, L)
  BY DEF RuleFiled
<1>3. \A h : HandlerTyped(h, G) => HandlerTyped(h, L)
  BY <1>1, <1>2 DEF HandlerTyped
<1>4. \A R, Q, H, T : StoreTyped(R, Q, H, T, G) => StoreTyped(R, Q, H, T, L)
  BY <1>1, <1>2 DEF StoreTyped
<1> QED
  BY <1>1, <1>2, <1>3, <1>4

(* A new id joins a file, or a part of a file remains.                     *)
LEMMA FiledStays ==
    ASSUME NEW G, NEW C, Filed(C, G)
    PROVE  /\ \A x : x.id \in G \ IdsOf(C) => Filed(C \cup {x}, G)
           /\ \A D : D \subseteq C => Filed(D, G)
<1>1. \A D : D \subseteq C => Filed(D, G)
  BY DEF Filed, UniqueIds, IdsOf
<1>2. ASSUME NEW x, x.id \in G \ IdsOf(C) PROVE Filed(C \cup {x}, G)
  <2>1. \A y \in C : y.id # x.id
    BY <1>2 DEF IdsOf
  <2>2. UniqueIds(C \cup {x})
    BY <2>1 DEF Filed, UniqueIds
  <2>3. IdsOf(C \cup {x}) = IdsOf(C) \cup {x.id}
    BY DEF IdsOf
  <2> QED
    BY <1>2, <2>2, <2>3 DEF Filed
<1> QED
  BY <1>1, <1>2

TypeContext ==
    /\ Context /\ TypeInvariant
    /\ Counts' /\ Bounded' /\ GivenIds \subseteq GivenIds'

LEMMA TypeStep ==
    ASSUME TypeContext, NEW s \in Slots, NEW h, NEW pc, Goto(s, h, pc),
           StoreTyped(rules', queue', history', taken', GivenIds'),
           HandlerTyped(slot'[s], GivenIds')
    PROVE  TypeInvariant'
<1>1. \A t \in Slots \ {s} : slot'[t] = slot[t]
  BY DEF Goto, TypeContext, Context, ApprovalInvariant
<1>2. \A t \in Slots : HandlerTyped(slot'[t], GivenIds')
  BY <1>1, TypesAreKept DEF TypeContext, TypeInvariant
<1> QED
  BY <1>2 DEF TypeInvariant, TypeContext

LEMMA TypeQuietStep ==
    ASSUME TypeContext, NEW s \in Slots, NEW h, NEW pc, Goto(s, h, pc),
           UNCHANGED <<rules, queue, history, taken>>, HandlerTyped(slot'[s], GivenIds')
    PROVE  TypeInvariant'
<1>1. StoreTyped(rules, queue, history, taken, GivenIds')
  BY TypesAreKept DEF TypeContext, TypeInvariant
<1> QED
  BY <1>1, TypeStep

TypeFreePcs ==
    {"lookup", "rules", "decide", "answer", "list", "removeRead", "removed", "compile",
     "outcomeRead", "outcomeSaved", "reply"}

LEMMA TypeFreeStep ==
    ASSUME TypeContext, NEW s \in Slots, NEW h, NEW pc \in TypeFreePcs, Goto(s, h, pc),
           UNCHANGED <<rules, queue, history, taken>>
    PROVE  TypeInvariant'
<1>1. slot'[s].pc = pc
  BY Goes DEF TypeContext, Context
<1>2. HandlerTyped(slot'[s], GivenIds')
  BY <1>1 DEF HandlerTyped, TypeFreePcs, WritingPcs, StoringPcs
<1> QED
  BY <1>2, TypeQuietStep

(* A file is written, and the handler goes on with what it has not read.   *)
LEMMA TypeWriteStep ==
    ASSUME TypeContext, NEW s \in Slots, NEW h, NEW pc \in TypeFreePcs, Goto(s, h, pc),
           StoreTyped(rules', queue', history', taken', GivenIds')
    PROVE  TypeInvariant'
<1>1. slot'[s].pc = pc
  BY Goes DEF TypeContext, Context
<1>2. HandlerTyped(slot'[s], GivenIds')
  BY <1>1 DEF HandlerTyped, TypeFreePcs, WritingPcs, StoringPcs
<1> QED
  BY <1>2, TypeStep

LEMMA ThrowTyped ==
    ASSUME TypeContext, NEW s \in Slots, Throw(s), UNCHANGED <<rules, queue, history, taken>>
    PROVE  TypeInvariant'
<1>1. Goto(s, [slot[s] EXCEPT !.ok = FALSE], "reply") /\ "reply" \in TypeFreePcs
  BY DEF Throw, TypeFreePcs
<1> QED
  BY <1>1, TypeFreeStep

LEMMA ArrivalTyped ==
    ASSUME TypeContext, NEW s \in Slots, Start(s) \/ LookupHistory(s) \/ ReadRules(s)
    PROVE  TypeInvariant'
<1>1. ArrivalPcs \subseteq TypeFreePcs
  BY DEF ArrivalPcs, TypeFreePcs
<1>2. CASE Start(s)
  <2>1. UNCHANGED <<rules, queue, history, taken>>
    BY <1>2, StartIsFresh DEF store, observer
  <2>2. \E h : \E pc \in ArrivalPcs : Goto(s, h, pc)
    BY <1>2, StartIsFresh
  <2> QED
    BY <1>1, <2>1, <2>2, TypeFreeStep
<1>3. CASE LookupHistory(s)
  <2>1. UNCHANGED <<rules, queue, history, taken>>
    BY <1>3 DEF LookupHistory, store, observer
  <2>2. (\E a, mode : Goto(s, Captured("repeater", a, mode), "rules")) \/ Throw(s)
    BY <1>3 DEF LookupHistory, Repeated
  <2> QED
    BY <2>1, <2>2, TypeFreeStep, ThrowTyped DEF TypeFreePcs
<1>4. CASE ReadRules(s)
  <2>1. UNCHANGED <<rules, queue, history, taken>>
    BY <1>4 DEF ReadRules, store, observer
  <2>2. \E h : \E pc \in {"decide", "answer"} : Goto(s, h, pc)
    BY <1>4 DEF ReadRules, Load
  <2> QED
    BY <2>1, <2>2, TypeFreeStep DEF TypeFreePcs
<1> QED
  BY <1>2, <1>3, <1>4

(* An entry of the history gets a new id.                                  *)
LEMMA EntryTyped ==
    ASSUME TypeContext, NEW s \in Slots, NEW h, IsHandler(h), NEW n \in Nat \ {0},
           Goto(s, [h EXCEPT !.entry = Entry(h, NthId(n))], "historyRead"),
           UNCHANGED <<rules, queue, history, taken>>
    PROVE  TypeInvariant'
<1> DEFINE entry == Entry(h, NthId(n))
           r == [h EXCEPT !.entry = entry]
<1>1. entry.id = NthId(n)
  BY DEF Entry
<1> HIDE DEF entry
<1>2. r.entry = entry
  BY DEF IsHandler, Fields
<1>3. Goto(s, r, "historyRead")
  BY DEF entry
<1> HIDE DEF r
<1>4. slot'[s].pc = "historyRead" /\ slot'[s].entry = entry
  BY <1>2, <1>3, Goes DEF TypeContext, Context
<1>5. NthId(n) \in GivenIds'
  BY NthIsGiven DEF TypeContext, TypeInvariant
<1>6. HandlerTyped(slot'[s], GivenIds')
  BY <1>1, <1>4, <1>5 DEF HandlerTyped, WritingPcs, StoringPcs
<1> QED
  BY <1>3, <1>6, TypeQuietStep

LEMMA AnsweredTyped ==
    ASSUME TypeContext, NEW s \in Slots, NEW h, IsHandler(h), Answered(s, h)
    PROVE  TypeInvariant'
BY EntryTyped DEF Answered, store, observer

LEMMA DecideActionTyped ==
    ASSUME TypeContext, NEW s \in Slots, DecideAction(s)
    PROVE  TypeInvariant'
<1> DEFINE g == slot[s]
           d == Decide(g.action, g.read, g.mode, g.scope)
           h == [g EXCEPT !.decision = d, !.read = {}]
<1>1. IsHandler(g)
  BY DEF TypeContext, Context, ApprovalInvariant, HandlerFits
<1> HIDE DEF d
<1>2. IsHandler(h)
  BY <1>1 DEF IsHandler, Fields
<1>3. CASE Answered(s, h)
  BY <1>2, <1>3, AnsweredTyped
<1>4. CASE /\ Goto(s, [h EXCEPT !.queueId = NthId(1)], "enqueueRead")
           /\ UNCHANGED <<store, ledger, settings, observer>>
  <2> DEFINE r == [h EXCEPT !.queueId = NthId(1)]
  <2>1. r.queueId = NthId(1) /\ Goto(s, r, "enqueueRead")
    BY <1>2, <1>4 DEF IsHandler, Fields
  <2> HIDE DEF r, h
  <2>2. slot'[s].pc = "enqueueRead" /\ slot'[s].queueId = NthId(1)
    BY <2>1, Goes DEF TypeContext, Context
  <2>3. NthId(1) \in GivenIds'
    BY NthIsGiven DEF TypeContext, TypeInvariant
  <2>4. HandlerTyped(slot'[s], GivenIds')
    BY <2>2, <2>3 DEF HandlerTyped, WritingPcs, StoringPcs
  <2> QED
    BY <1>4, <2>1, <2>4, TypeQuietStep DEF store, observer
<1> QED
  BY <1>3, <1>4 DEF DecideAction, h, d

LEMMA HoldTyped ==
    ASSUME TypeContext, NEW s \in Slots, EnqueueRead(s) \/ EnqueueWrite(s)
    PROVE  TypeInvariant'
<1> DEFINE g == slot[s]
<1>1. /\ IsHandler(g) /\ HandlerTyped(g, GivenIds') /\ g.pc \in {"enqueueRead", "enqueueWrite"}
      /\ StoreTyped(rules, queue, history, taken, GivenIds')
  BY TypesAreKept DEF TypeContext, Context, ApprovalInvariant, HandlerFits, TypeInvariant,
                      EnqueueRead, EnqueueWrite, At
<1>2. HoldFailed(s) /\ UNCHANGED <<rules, queue, history, taken>> => TypeInvariant'
  BY TypeFreeStep DEF HoldFailed, TypeFreePcs
<1>3. CASE EnqueueRead(s)
  <2>1. UNCHANGED <<rules, queue, history, taken>>
    BY <1>3 DEF EnqueueRead, store, observer
  <2>2. CASE g.queueId \notin IdsOf(queue) /\ Load(s, queue, "enqueueWrite")
    <3>1. /\ slot'[s].pc = "enqueueWrite" /\ slot'[s].queueId = g.queueId
          /\ slot'[s].read = queue
      BY <1>1, <2>2, Goes DEF TypeContext, Context, Load, IsHandler, Fields
    <3>2. HandlerTyped(slot'[s], GivenIds')
      BY <1>1, <2>2, <3>1 DEF HandlerTyped, StoringPcs, StoreTyped
    <3> QED
      BY <2>1, <2>2, <3>2, TypeQuietStep DEF Load
  <2> QED
    BY <1>2, <1>3, <2>1, <2>2 DEF EnqueueRead
<1>4. CASE EnqueueWrite(s)
  <2> DEFINE item == [id |-> g.queueId, action |-> g.action]
  <2>1. /\ UNCHANGED <<rules, history, taken>> /\ Filed(g.read, GivenIds')
        /\ item.id \in GivenIds' \ IdsOf(g.read)
    BY <1>1, <1>4 DEF EnqueueWrite, observer, At, HandlerTyped, WritingPcs
  <2> HIDE DEF item
  <2>2. CASE queue' = g.read \cup {item} /\ Saved(s, "answer")
    <3>1. StoreTyped(rules', queue', history', taken', GivenIds')
      BY <1>1, <2>1, <2>2, FiledStays DEF StoreTyped
    <3> QED
      BY <2>2, <3>1, TypeWriteStep DEF Saved, TypeFreePcs
  <2>3. CASE HoldFailed(s) /\ UNCHANGED queue
    BY <1>2, <2>1, <2>3
  <2> QED
    BY <1>4, <2>2, <2>3 DEF EnqueueWrite, item
<1> QED
  BY <1>3, <1>4

LEMMA HistoryTyped ==
    ASSUME TypeContext, NEW s \in Slots, HistoryRead(s) \/ HistoryWrite(s)
    PROVE  TypeInvariant'
<1> DEFINE g == slot[s]
<1>1. /\ IsHandler(g) /\ HandlerTyped(g, GivenIds') /\ g.pc \in {"historyRead", "historyWrite"}
      /\ StoreTyped(rules, queue, history, taken, GivenIds')
  BY TypesAreKept DEF TypeContext, Context, ApprovalInvariant, HandlerFits, TypeInvariant,
                      HistoryRead, HistoryWrite, At
<1>2. CASE HistoryRead(s)
  <2>1. UNCHANGED <<rules, queue, history, taken>>
    BY <1>2 DEF HistoryRead, store, observer
  <2>2. CASE g.entry.id \notin IdsOf(history) /\ Load(s, history, "historyWrite")
    <3>1. /\ slot'[s].pc = "historyWrite" /\ slot'[s].entry = g.entry
          /\ slot'[s].read = history
      BY <1>1, <2>2, Goes DEF TypeContext, Context, Load, IsHandler, Fields
    <3>2. HandlerTyped(slot'[s], GivenIds')
      BY <1>1, <2>2, <3>1 DEF HandlerTyped, StoringPcs, StoreTyped
    <3> QED
      BY <2>1, <2>2, <3>2, TypeQuietStep DEF Load
  <2> QED
    BY <1>2, <2>1, <2>2, ThrowTyped DEF HistoryRead
<1>3. CASE HistoryWrite(s)
  <2>1. /\ UNCHANGED <<rules, queue, taken>> /\ Filed(g.read, GivenIds')
        /\ g.entry.id \in GivenIds' \ IdsOf(g.read)
    BY <1>1, <1>3 DEF HistoryWrite, observer, At, HandlerTyped, WritingPcs
  <2>2. CASE history' = g.read \cup {g.entry} /\ \E pc \in {"compile", "reply"} : Saved(s, pc)
    <3>1. StoreTyped(rules', queue', history', taken', GivenIds')
      BY <1>1, <2>1, <2>2, FiledStays DEF StoreTyped
    <3> QED
      BY <2>2, <3>1, TypeWriteStep DEF Saved, TypeFreePcs
  <2>3. CASE Throw(s) /\ UNCHANGED history
    BY <2>1, <2>3, ThrowTyped
  <2> QED
    BY <1>3, <2>2, <2>3 DEF HistoryWrite
<1> QED
  BY <1>2, <1>3

LEMMA RemoveTyped ==
    ASSUME TypeContext, NEW s \in Slots, RemoveRead(s) \/ RemoveWrite(s)
    PROVE  TypeInvariant'
<1> DEFINE g == slot[s]
<1>1. /\ IsHandler(g) /\ HandlerTyped(g, GivenIds')
      /\ StoreTyped(rules, queue, history, taken, GivenIds')
  BY TypesAreKept DEF TypeContext, Context, ApprovalInvariant, HandlerFits, TypeInvariant
<1>2. CASE RemoveRead(s)
  <2>1. UNCHANGED <<rules, queue, history, taken>>
    BY <1>2 DEF RemoveRead, store, observer
  <2>2. ASSUME NEW item \in queue, item.id = g.queueId,
               Goto(s, [g EXCEPT !.read = queue, !.action = item.action], "removeWrite")
        PROVE  TypeInvariant'
    <3> DEFINE r == [g EXCEPT !.read = queue, !.action = item.action]
    <3>1. r.queueId = g.queueId /\ r.read = queue /\ Goto(s, r, "removeWrite")
      BY <1>1, <2>2 DEF IsHandler, Fields
    <3> HIDE DEF r
    <3>2. slot'[s].pc = "removeWrite" /\ slot'[s].queueId = g.queueId /\ slot'[s].read = queue
      BY <3>1, Goes DEF TypeContext, Context
    <3>3. g.queueId \in IdsOf(queue)
      BY <2>2 DEF IdsOf
    <3>4. HandlerTyped(slot'[s], GivenIds')
      BY <1>1, <3>2, <3>3 DEF HandlerTyped, StoringPcs, StoreTyped
    <3> QED
      BY <2>1, <3>1, <3>4, TypeQuietStep
  <2> QED
    BY <1>2, <2>1, <2>2, ThrowTyped DEF RemoveRead
<1>3. CASE RemoveWrite(s)
  <2>1. /\ UNCHANGED <<rules, history>> /\ Filed(g.read, GivenIds') /\ g.queueId \in GivenIds'
    BY <1>1, <1>3 DEF RemoveWrite, At, HandlerTyped, WritingPcs, Filed
  <2>2. CASE /\ queue' = {item \in g.read : item.id # g.queueId}
             /\ taken' = taken \cup {g.queueId} /\ Saved(s, "removed")
    <3>1. Filed(queue', GivenIds')
      BY <2>1, <2>2, FiledStays
    <3>2. StoreTyped(rules', queue', history', taken', GivenIds')
      BY <1>1, <2>1, <2>2, <3>1 DEF StoreTyped
    <3> QED
      BY <2>2, <3>2, TypeWriteStep DEF Saved, TypeFreePcs
  <2>3. CASE Throw(s) /\ UNCHANGED <<queue, taken>>
    BY <2>1, <2>3, ThrowTyped
  <2> QED
    BY <1>3, <2>2, <2>3 DEF RemoveWrite
<1> QED
  BY <1>2, <1>3

LEMMA RemovedTyped ==
    ASSUME TypeContext, NEW s \in Slots, Removed(s)
    PROVE  TypeInvariant'
<1> DEFINE g == slot[s]
           h == [g EXCEPT !.action = ActedOn(g), !.from = NthId(1),
                          !.decision = OperatorDecision(g)]
<1>1. UNCHANGED <<rules, queue, history, taken>> /\ IsHandler(g)
  BY DEF Removed, store, observer, TypeContext, Context, ApprovalInvariant, HandlerFits
<1>2. CASE OperatorDecided(s)
  <2>1. IsHandler(h)
    BY <1>1 DEF IsHandler, Fields
  <2>2. Goto(s, [h EXCEPT !.entry = Entry(h, NthId(3))], "historyRead")
    BY <1>2 DEF OperatorDecided
  <2> HIDE DEF h
  <2> QED
    BY <1>1, <2>1, <2>2, EntryTyped
<1>3. CASE Throw(s)
  BY <1>1, <1>3, ThrowTyped
<1> QED
  BY <1>2, <1>3 DEF Removed

LEMMA OutcomeTyped ==
    ASSUME TypeContext, NEW s \in Slots,
           OutcomeRead(s) \/ OutcomeWrite(s) \/ OutcomeSaved(s)
    PROVE  TypeInvariant'
<1> DEFINE g == slot[s]
<1>1. /\ IsHandler(g) /\ HandlerTyped(g, GivenIds')
      /\ StoreTyped(rules, queue, history, taken, GivenIds')
  BY TypesAreKept DEF TypeContext, Context, ApprovalInvariant, HandlerFits, TypeInvariant
<1>2. CASE OutcomeRead(s)
  <2>1. UNCHANGED <<rules, queue, history, taken>>
    BY <1>2 DEF OutcomeRead, store, observer
  <2>2. CASE Load(s, history, "outcomeWrite")
    <3>1. slot'[s].pc = "outcomeWrite" /\ slot'[s].read = history
      BY <1>1, <2>2, Goes DEF TypeContext, Context, Load, IsHandler, Fields
    <3>2. HandlerTyped(slot'[s], GivenIds')
      BY <1>1, <3>1 DEF HandlerTyped, StoringPcs, StoreTyped
    <3> QED
      BY <2>1, <2>2, <3>2, TypeQuietStep DEF Load
  <2> QED
    BY <1>2, <2>1, <2>2, ThrowTyped DEF OutcomeRead
<1>3. CASE OutcomeWrite(s)
  <2> DEFINE Marked(e) == [e EXCEPT !.outcome = @ \/ e.action.id = g.outcomeOf]
  <2>1. /\ UNCHANGED <<rules, queue, taken>> /\ Filed(g.read, GivenIds')
        /\ \A e \in g.read : IsEntry(e)
    BY <1>1, <1>3 DEF OutcomeWrite, observer, At, HandlerTyped, WritingPcs, TypeContext, Context,
                      AuditInvariant, AuditFits, EntryFits
  <2>2. CASE history' = {Marked(e) : e \in g.read} /\ Saved(s, "outcomeSaved")
    <3>1. \A e \in g.read : Marked(e).id = e.id
      BY <2>1, Marking
    <3>2. history' = {Marked(e) : e \in g.read}
      BY <2>2
    <3> HIDE DEF Marked
    <3>3. Filed(history', GivenIds')
      <4>1. UniqueIds(history')
        <5> SUFFICES ASSUME NEW x \in history', NEW y \in history', x.id = y.id
                     PROVE  x = y
          BY DEF UniqueIds
        <5>1. PICK c \in g.read : x = Marked(c)
          BY <3>2
        <5>2. PICK d \in g.read : y = Marked(d)
          BY <3>2
        <5>3. c = d
          BY <2>1, <3>1, <5>1, <5>2 DEF Filed, UniqueIds
        <5> QED
          BY <5>1, <5>2, <5>3
      <4>2. IdsOf(history') \subseteq IdsOf(g.read)
        BY <3>1, <3>2 DEF IdsOf
      <4> QED
        BY <2>1, <4>1, <4>2 DEF Filed
    <3>4. StoreTyped(rules', queue', history', taken', GivenIds')
      BY <1>1, <2>1, <3>3 DEF StoreTyped
    <3> QED
      BY <2>2, <3>4, TypeWriteStep DEF Saved, TypeFreePcs
  <2>3. CASE Throw(s) /\ UNCHANGED history
    BY <2>1, <2>3, ThrowTyped
  <2> QED
    BY <1>3, <2>2, <2>3 DEF OutcomeWrite
<1>4. CASE OutcomeSaved(s)
  <2>1. UNCHANGED <<rules, queue, history, taken>> /\ Goto(s, g, "reply")
    BY <1>4 DEF OutcomeSaved, store, observer
  <2> QED
    BY <2>1, TypeFreeStep DEF TypeFreePcs
<1> QED
  BY <1>2, <1>3, <1>4

(* The rules a handler has yet to store.                                   *)
LEMMA TodoTyped ==
    ASSUME TypeContext, NEW s \in Slots, slot[s].pc \in StoringPcs
    PROVE  LET g == slot[s] IN
           /\ IsHandler(g) /\ g.todo # <<>> /\ \E S : g.todo \in Seq(S)
           /\ \A i \in 1..Len(g.todo) : IsRule(g.todo[i]) /\ RuleFiled(g.todo[i], GivenIds')
           /\ Len(g.todo) \in Nat /\ 1 \in 1..Len(g.todo) /\ Head(g.todo) = g.todo[1]
           /\ HandlerTyped(g, GivenIds') /\ StoreTyped(rules, queue, history, taken, GivenIds')
<1> DEFINE g == slot[s]
<1>1. /\ IsHandler(g) /\ g.todo # <<>> /\ \E S : g.todo \in Seq(S)
      /\ \A i \in 1..Len(g.todo) : IsRule(g.todo[i])
  BY DEF TypeContext, Context, ApprovalInvariant, HandlerFits, TodoFits
<1>2. HandlerTyped(g, GivenIds') /\ StoreTyped(rules, queue, history, taken, GivenIds')
  BY TypesAreKept DEF TypeContext, TypeInvariant
<1>3. \A i \in 1..Len(g.todo) : RuleFiled(g.todo[i], GivenIds')
  BY <1>2 DEF HandlerTyped
<1>4. Len(g.todo) \in Nat /\ 1 \in 1..Len(g.todo) /\ Head(g.todo) = g.todo[1]
  BY <1>1
<1> QED
  BY <1>1, <1>2, <1>3, <1>4

(* On to a step of storing that writes nothing yet.                        *)
LEMMA TodoStep ==
    ASSUME TypeContext, NEW s \in Slots, NEW h,
           NEW pc \in {"putRead", "stored", "updateRead", "activated"}, Goto(s, h, pc),
           \A i \in 1..Len(h.todo) : RuleFiled(h.todo[i], GivenIds'),
           StoreTyped(rules', queue', history', taken', GivenIds')
    PROVE  TypeInvariant'
<1>1. slot'[s].pc = pc /\ slot'[s].todo = h.todo
  BY Goes DEF TypeContext, Context
<1>2. HandlerTyped(slot'[s], GivenIds')
  BY <1>1 DEF HandlerTyped, WritingPcs, StoringPcs
<1> QED
  BY <1>2, TypeStep

LEMMA NextItemTyped ==
    ASSUME TypeContext, NEW s \in Slots, NEW h, NextItem(s, h),
           UNCHANGED <<rules, queue, history, taken>>
    PROVE  TypeInvariant'
BY TypeFreeStep DEF NextItem, TypeFreePcs

LEMMA ListQueueTyped ==
    ASSUME TypeContext, NEW s \in Slots, ListQueue(s)
    PROVE  TypeInvariant'
<1>1. UNCHANGED <<rules, queue, history, taken>>
  BY DEF ListQueue, store, observer
<1> QED
  BY <1>1, NextItemTyped, ThrowTyped DEF ListQueue

LEMMA CompileVerdictTyped ==
    ASSUME TypeContext, NEW s \in Slots, CompileVerdict(s)
    PROVE  TypeInvariant'
<1> DEFINE g == slot[s]
<1>1. /\ UNCHANGED <<rules, queue, history, taken>> /\ IsHandler(g)
      /\ StoreTyped(rules, queue, history, taken, GivenIds')
  BY TypesAreKept DEF CompileVerdict, store, observer, TypeContext, Context, ApprovalInvariant,
                      HandlerFits, TypeInvariant
<1>2. \A n \in Nat \ {0} : NthId(n) \in GivenIds'
  BY NthIsGiven DEF TypeContext, TypeInvariant
<1>3. ASSUME NEW todo, \A i \in 1..Len(todo) : RuleFiled(todo[i], GivenIds'),
             Goto(s, [g EXCEPT !.todo = todo], "putRead")
      PROVE  TypeInvariant'
  <2> DEFINE h == [g EXCEPT !.todo = todo]
  <2>1. h.todo = todo /\ Goto(s, h, "putRead")
    BY <1>1, <1>3 DEF IsHandler, Fields
  <2> HIDE DEF h
  <2> QED
    BY <1>1, <1>3, <2>1, TodoStep
<1>4. CASE Approves(g)
  <2> DEFINE r == ApprovalRule(NthId(1), g.from, g.action)
  <2>1. Goto(s, [g EXCEPT !.todo = <<r>>], "putRead")
    BY <1>4 DEF CompileVerdict
  <2>2. RuleFiled(r, GivenIds')
    BY <1>2 DEF RuleFiled, ApprovalRule, RuleOf, Verdicts, Statuses
  <2> HIDE DEF r
  <2>3. \A i \in 1..Len(<<r>>) : <<r>>[i] = r
    OBVIOUS
  <2> QED
    BY <1>3, <2>1, <2>2, <2>3
<1>5. CASE ~Approves(g) /\ Goto(s, [g EXCEPT !.todo = ProposedRules(g)], "putRead")
  <2> DEFINE todo == ProposedRules(g)
             S == {ProposedRule(NthId(3 * i - 2), g.from, g.words[i], g.action) :
                      i \in DOMAIN g.words}
  <2>1. Len(g.words) \in Nat /\ DOMAIN g.words = 1..Len(g.words)
    <3>1. g.words \in Seq(SUBSET STRING)
      BY <1>1 DEF IsHandler
    <3> QED
      BY <3>1
  <2>2. todo \in [1..Len(g.words) -> S]
    BY <2>1 DEF ProposedRules
  <2>3. ASSUME NEW r \in S PROVE RuleFiled(r, GivenIds')
    <3>1. PICK i \in DOMAIN g.words :
              r = ProposedRule(NthId(3 * i - 2), g.from, g.words[i], g.action)
      BY <2>3
    <3>2. 3 * i - 2 \in Nat \ {0}
      BY <2>1
    <3> QED
      BY <1>2, <3>1, <3>2
         DEF RuleFiled, ProposedRule, RuleOf, CompiledVerdict, Verdicts, Statuses
  <2> HIDE DEF todo, S
  <2>4. todo \in Seq(S) /\ Len(todo) = Len(g.words)
    BY <2>1, <2>2, LenProperties
  <2>5. \A i \in 1..Len(todo) : todo[i] \in S
    BY <2>2, <2>4
  <2> QED
    BY <1>3, <1>5, <2>3, <2>5 DEF todo
<1>6. CASE Throw(s)
  BY <1>1, <1>6, ThrowTyped
<1> QED
  BY <1>4, <1>5, <1>6 DEF CompileVerdict

(* A rule joins the file, or replaces the one with its id.                 *)
LEMMA RuleFileTyped ==
    ASSUME TypeContext, NEW s \in Slots,
           PutRead(s) \/ UpdateRead(s) \/ PutWrite(s) \/ UpdateWrite(s)
    PROVE  TypeInvariant'
<1> DEFINE g == slot[s]
           r == Head(g.todo)
<1>1. /\ UNCHANGED <<queue, history, taken>>
      /\ g.pc \in {"putRead", "updateRead", "putWrite", "updateWrite"}
  <2>1. CASE PutRead(s) \/ UpdateRead(s)
    BY <2>1 DEF PutRead, UpdateRead, store, observer, At
  <2>2. CASE PutWrite(s) \/ UpdateWrite(s)
    BY <2>2 DEF PutWrite, UpdateWrite, observer, At
  <2> QED
    BY <2>1, <2>2
<1>2. /\ IsHandler(g)
      /\ \A i \in 1..Len(g.todo) : RuleFiled(g.todo[i], GivenIds')
      /\ 1 \in 1..Len(g.todo) /\ r = g.todo[1]
      /\ HandlerTyped(g, GivenIds') /\ StoreTyped(rules, queue, history, taken, GivenIds')
  BY <1>1, TodoTyped DEF StoringPcs
<1>3. RuleFiled(r, GivenIds')
  BY <1>2
<1>4. ASSUME NEW pc \in {"putWrite", "updateWrite"}, Load(s, rules, pc), UNCHANGED rules,
             pc = "putWrite" => r.id \notin IdsOf(rules)
      PROVE  TypeInvariant'
  <2>1. slot'[s].pc = pc /\ slot'[s].todo = g.todo /\ slot'[s].read = rules
    BY <1>2, <1>4, Goes DEF TypeContext, Context, Load, IsHandler, Fields
  <2>2. HandlerTyped(slot'[s], GivenIds')
    BY <1>2, <1>4, <2>1 DEF HandlerTyped, WritingPcs, StoringPcs, StoreTyped
  <2> QED
    BY <1>1, <1>4, <2>2, TypeQuietStep DEF Load
<1>5. ASSUME NEW pc \in {"stored", "activated"}, Saved(s, pc),
             Filed(rules', GivenIds'), \A q \in rules' : q \in g.read \/ q = r,
             g.pc \in {"putWrite", "updateWrite"}
      PROVE  TypeInvariant'
  <2>1. \A q \in rules' : RuleFiled(q, GivenIds')
    BY <1>2, <1>3, <1>5 DEF HandlerTyped
  <2>2. StoreTyped(rules', queue', history', taken', GivenIds')
    BY <1>1, <1>2, <1>5, <2>1 DEF StoreTyped
  <2> DEFINE h == [g EXCEPT !.read = {}]
  <2>3. h.todo = g.todo /\ Goto(s, h, pc)
    BY <1>2, <1>5 DEF IsHandler, Fields, Saved
  <2> HIDE DEF h
  <2> QED
    BY <1>2, <2>2, <2>3, TodoStep
<1>6. CASE PutRead(s) \/ UpdateRead(s)
  <2>1. UNCHANGED rules
    BY <1>6 DEF PutRead, UpdateRead, store
  <2>2. \/ r.id \notin IdsOf(rules) /\ Load(s, rules, "putWrite")
        \/ Load(s, rules, "updateWrite")
        \/ Throw(s)
    BY <1>6 DEF PutRead, UpdateRead
  <2> QED
    BY <1>1, <1>4, <2>1, <2>2, ThrowTyped
<1>7. CASE PutWrite(s)
  <2>1. g.pc = "putWrite" /\ Filed(g.read, GivenIds') /\ r.id \in GivenIds' \ IdsOf(g.read)
    BY <1>2, <1>3, <1>7 DEF PutWrite, At, HandlerTyped, WritingPcs, RuleFiled
  <2>2. CASE rules' = g.read \cup {r} /\ Saved(s, "stored")
    <3>1. Filed(rules', GivenIds')
      BY <2>1, <2>2, FiledStays
    <3> QED
      BY <1>5, <2>1, <2>2, <3>1
  <2>3. CASE Throw(s) /\ UNCHANGED rules
    BY <1>1, <2>3, ThrowTyped
  <2> QED
    BY <1>7, <2>2, <2>3 DEF PutWrite
<1>8. CASE UpdateWrite(s)
  <2> DEFINE others == {q \in g.read : q.id # r.id}
  <2>1. g.pc = "updateWrite" /\ Filed(g.read, GivenIds')
    BY <1>2, <1>8 DEF UpdateWrite, At, HandlerTyped, WritingPcs
  <2>2. r.id \in GivenIds' \ IdsOf(others) /\ others \subseteq g.read
    BY <1>3 DEF RuleFiled, IdsOf
  <2>3. CASE rules' = others \cup {r} /\ Saved(s, "activated")
    <3> HIDE DEF others
    <3>1. Filed(rules', GivenIds')
      BY <2>1, <2>2, <2>3, FiledStays
    <3> QED
      BY <1>5, <2>1, <2>2, <2>3, <3>1
  <2>4. CASE Throw(s) /\ UNCHANGED rules
    BY <1>1, <2>4, ThrowTyped
  <2> QED
    BY <1>8, <2>3, <2>4 DEF UpdateWrite
<1> QED
  BY <1>6, <1>7, <1>8

LEMMA NextRuleTyped ==
    ASSUME TypeContext, NEW s \in Slots, slot[s].pc \in {"stored", "activated"}, NEW r,
           NextRule(s, r), UNCHANGED <<rules, queue, history, taken>>
    PROVE  TypeInvariant'
<1> DEFINE g == slot[s]
           h == [g EXCEPT !.stored = @ \cup {r}, !.todo = Tail(@)]
<1>1. /\ IsHandler(g) /\ g.todo # <<>> /\ \E S : g.todo \in Seq(S)
      /\ \A i \in 1..Len(g.todo) : RuleFiled(g.todo[i], GivenIds')
      /\ StoreTyped(rules, queue, history, taken, GivenIds')
  BY TodoTyped DEF StoringPcs
<1>2. h.todo = Tail(g.todo)
  BY <1>1 DEF IsHandler, Fields
<1>3. Goto(s, h, "putRead") \/ NextItem(s, h)
  BY DEF NextRule
<1> HIDE DEF h
<1>4. \A i \in 1..Len(h.todo) : RuleFiled(h.todo[i], GivenIds')
  <2>1. PICK S : g.todo \in Seq(S)
    BY <1>1
  <2>2. \A i \in 1..Len(h.todo) : i + 1 \in 1..Len(g.todo) /\ h.todo[i] = g.todo[i + 1]
    BY <1>1, <1>2, <2>1
  <2> QED
    BY <1>1, <2>2
<1> QED
  BY <1>1, <1>3, <1>4, TodoStep, NextItemTyped

LEMMA RuleEventTyped ==
    ASSUME TypeContext, NEW s \in Slots, RuleStored(s) \/ RuleActivated(s)
    PROVE  TypeInvariant'
<1> DEFINE g == slot[s]
           r == Head(g.todo)
<1>1. UNCHANGED <<rules, queue, history, taken>> /\ g.pc \in {"stored", "activated"}
  BY DEF RuleStored, RuleActivated, store, observer, At
<1>2. CASE Goto(s, [g EXCEPT !.todo[1].status = "active"], "updateRead")
  <2> DEFINE active == [r EXCEPT !.status = "active"]
             todo == [g.todo EXCEPT ![1] = active]
             h == [g EXCEPT !.todo = todo]
  <2>1. /\ IsHandler(g) /\ \E S : g.todo \in Seq(S)
        /\ \A i \in 1..Len(g.todo) : IsRule(g.todo[i]) /\ RuleFiled(g.todo[i], GivenIds')
        /\ Len(g.todo) \in Nat /\ 1 \in 1..Len(g.todo) /\ r = g.todo[1]
        /\ StoreTyped(rules, queue, history, taken, GivenIds')
    BY <1>1, TodoTyped DEF StoringPcs
  <2>2. [g EXCEPT !.todo[1].status = "active"] = h /\ h.todo = todo
    BY <2>1 DEF IsHandler, Fields
  <2>3. RuleFiled(active, GivenIds')
    <3>1. IsRule(r) /\ RuleFiled(r, GivenIds')
      BY <2>1
    <3> HIDE DEF r
    <3> QED
      BY <3>1 DEF IsRule, RuleFiled, Statuses
  <2> HIDE DEF active
  <2>4. Len(todo) = Len(g.todo) /\ \A i \in 1..Len(todo) : todo[i] \in {active, g.todo[i]}
    <3>1. PICK S : g.todo \in Seq(S)
      BY <2>1
    <3>2. g.todo \in Seq(S \cup {active})
      BY <3>1, SeqMonotonic
    <3> QED
      BY <2>1, <3>2, ExceptSeq
  <2>5. Goto(s, h, "updateRead")
    BY <1>2, <2>2
  <2> HIDE DEF h, todo, r
  <2>6. \A i \in 1..Len(h.todo) : RuleFiled(h.todo[i], GivenIds')
    BY <2>1, <2>2, <2>3, <2>4
  <2> QED
    BY <1>1, <2>1, <2>5, <2>6, TodoStep
<1>3. CASE NextRule(s, r)
  BY <1>1, <1>3, NextRuleTyped
<1> QED
  BY <1>2, <1>3 DEF RuleStored, RuleActivated

(* The response leaves, the process dies, or a setting changes.            *)
LEMMA RestingTyped ==
    ASSUME TypeContext, UNCHANGED <<rules, queue, history, taken>>,
           \A s \in Slots : slot'[s] = Idle \/ slot'[s] = slot[s]
    PROVE  TypeInvariant'
<1>1. Idle.pc = "idle"
  BY DEF Idle
<1>2. /\ StoreTyped(rules, queue, history, taken, GivenIds')
      /\ \A s \in Slots : HandlerTyped(slot[s], GivenIds')
  BY TypesAreKept DEF TypeContext, TypeInvariant
<1>3. ASSUME NEW s \in Slots PROVE HandlerTyped(slot'[s], GivenIds')
  BY <1>1, <1>2, <1>3 DEF HandlerTyped, WritingPcs, StoringPcs
<1> QED
  BY <1>2, <1>3 DEF TypeContext, TypeInvariant

LEMMA NextKeepsTypes ==
    ASSUME Context, TypeInvariant, [Next]_vars
    PROVE  TypeInvariant'
<1>1. TypeContext
  BY NextKeepsBounds DEF TypeContext, Context, TypeInvariant
<1>2. ASSUME NEW s \in Slots, Step(s) PROVE TypeInvariant'
  <2>1. CASE LookupHistory(s) \/ ReadRules(s) \/ DecideAction(s)
    BY <1>1, <2>1, ArrivalTyped, DecideActionTyped
  <2>2. CASE EnqueueRead(s) \/ EnqueueWrite(s) \/ HistoryRead(s) \/ HistoryWrite(s)
    BY <1>1, <2>2, HoldTyped, HistoryTyped
  <2>3. CASE Answer(s)
    BY <1>1, <2>3, AnsweredTyped
       DEF Answer, TypeContext, Context, ApprovalInvariant, HandlerFits
  <2>4. CASE RemoveRead(s) \/ RemoveWrite(s) \/ Removed(s)
    BY <1>1, <2>4, RemoveTyped, RemovedTyped
  <2>5. CASE ListQueue(s) \/ CompileVerdict(s) \/ RuleStored(s) \/ RuleActivated(s)
    BY <1>1, <2>5, ListQueueTyped, CompileVerdictTyped, RuleEventTyped
  <2>6. CASE PutRead(s) \/ UpdateRead(s) \/ PutWrite(s) \/ UpdateWrite(s)
    BY <1>1, <2>6, RuleFileTyped
  <2>7. CASE OutcomeRead(s) \/ OutcomeWrite(s) \/ OutcomeSaved(s)
    BY <1>1, <2>7, OutcomeTyped
  <2>8. CASE Reply(s)
    <3>1. UNCHANGED <<rules, queue, history, taken>> /\ slot' = [slot EXCEPT ![s] = Idle]
      BY <2>8 DEF Reply, store
    <3>2. \A t \in Slots : slot'[t] = Idle \/ slot'[t] = slot[t]
      BY <3>1 DEF Context, ApprovalInvariant
    <3> QED
      BY <1>1, <3>1, <3>2, RestingTyped
  <2> QED
    BY <1>2, <2>1, <2>2, <2>3, <2>4, <2>5, <2>6, <2>7, <2>8 DEF Step
<1>3. CASE \E s \in Slots : Start(s) \/ Step(s)
  BY <1>1, <1>2, <1>3, ArrivalTyped
<1>4. CASE SetMode \/ SetScope \/ SetMatchReplaceRules \/ UNCHANGED vars
  <2>1. UNCHANGED <<rules, queue, history, taken, slot>>
    BY <1>4 DEF SetMode, SetScope, SetMatchReplaceRules, vars, store, observer
  <2> QED
    BY <1>1, <2>1, RestingTyped
<1>5. CASE Restart
  <2>1. UNCHANGED <<rules, queue, history, taken>> /\ \A s \in Slots : slot'[s] = Idle
    BY <1>5 DEF Restart, store
  <2> QED
    BY <1>1, <2>1, RestingTyped
<1> QED
  BY <1>3, <1>4, <1>5 DEF Next

LEMMA InitEstablishesTypes == Init => TypeInvariant
<1> SUFFICES ASSUME Init PROVE TypeInvariant
  OBVIOUS
<1>1. /\ rules = {} /\ taken = {} /\ slot = [s \in Slots |-> Idle]
      /\ queue = {[id |-> HeldId(i), action |-> Held[i]] : i \in DOMAIN Held}
      /\ history = {HeldEntry(i) : i \in DOMAIN Held}
      /\ process = [pid |-> 1, ids |-> 0, requests |-> 0, restarts |-> 0]
  BY DEF Init
<1>2. Counts /\ Bounded
  BY <1>1, GatewayAssumptions DEF Counts, Bounded
<1>3. \A i \in DOMAIN Held : i \in Nat \ {0}
  BY GatewayAssumptions
<1>4. ASSUME NEW i \in DOMAIN Held PROVE HeldId(i) \in GivenIds /\ HeldEntry(i).id \in GivenIds
  <2>1. 3 * i - 2 \in Nat \ {0} /\ 3 * i \in Nat \ {0} /\ 0 \in 0..process.pid
    BY <1>1, <1>3
  <2> QED
    BY <2>1 DEF HeldId, HeldEntry, GivenIds
<1>5. ASSUME NEW i \in DOMAIN Held, NEW j \in DOMAIN Held,
             HeldId(i) = HeldId(j) \/ HeldEntry(i).id = HeldEntry(j).id
      PROVE  i = j
  <2>1. 3 * i - 2 = 3 * j - 2 \/ 3 * i = 3 * j
    BY <1>5 DEF HeldId, HeldEntry
  <2> QED
    BY <1>3, <2>1
<1>6. Filed(queue, GivenIds)
  <2>1. ASSUME NEW x \in queue
        PROVE  \E i \in DOMAIN Held : x = [id |-> HeldId(i), action |-> Held[i]]
    BY <1>1
  <2>2. \A x \in queue : x.id \in GivenIds
    BY <1>4, <2>1
  <2>3. ASSUME NEW x \in queue, NEW y \in queue, x.id = y.id PROVE x = y
    <3>1. PICK i \in DOMAIN Held : x = [id |-> HeldId(i), action |-> Held[i]]
      BY <2>1
    <3>2. PICK j \in DOMAIN Held : y = [id |-> HeldId(j), action |-> Held[j]]
      BY <2>1
    <3>3. HeldId(i) = HeldId(j)
      BY <2>3, <3>1, <3>2
    <3> QED
      BY <1>5, <3>1, <3>2, <3>3
  <2> QED
    BY <2>2, <2>3 DEF Filed, UniqueIds, IdsOf
<1>7. Filed(history, GivenIds)
  <2>1. \A x \in history : x.id \in GivenIds
    BY <1>1, <1>4
  <2>2. ASSUME NEW x \in history, NEW y \in history, x.id = y.id PROVE x = y
    <3>1. PICK i \in DOMAIN Held : x = HeldEntry(i)
      BY <1>1
    <3>2. PICK j \in DOMAIN Held : y = HeldEntry(j)
      BY <1>1
    <3> QED
      BY <1>5, <2>2, <3>1, <3>2
  <2> QED
    BY <2>1, <2>2 DEF Filed, UniqueIds, IdsOf
<1>8. StoreTyped(rules, queue, history, taken, GivenIds)
  BY <1>1, <1>6, <1>7 DEF StoreTyped, Filed, UniqueIds, IdsOf
<1>9. \A s \in Slots : HandlerTyped(slot[s], GivenIds)
  BY <1>1 DEF HandlerTyped, Idle, WritingPcs, StoringPcs
<1> QED
  BY <1>2, <1>8, <1>9 DEF TypeInvariant

(* Type correctness, for any number of requests in flight over files that  *)
(* lose updates: no file holds an id twice, every id was drawn, and a slot *)
(* between two requests remembers nothing.                                 *)
THEOREM TypeCorrect == Spec => []TypeOK
<1>1. Init => ApprovalInvariant /\ AuditInvariant /\ TypeInvariant
  BY InitEstablishesInvariant, InitEstablishesAudit, InitEstablishesTypes
<1>2. ApprovalInvariant /\ AuditInvariant /\ TypeInvariant /\ [Next]_vars
         => ApprovalInvariant' /\ AuditInvariant' /\ TypeInvariant'
  BY NextKeepsInvariant, NextKeepsAudit, NextKeepsTypes DEF Context
<1>3. ApprovalInvariant /\ TypeInvariant => TypeOK
  <2> SUFFICES ASSUME ApprovalInvariant, TypeInvariant PROVE TypeOK
    OBVIOUS
  <2>1. StoreTyped(rules, queue, history, taken, GivenIds)
    BY DEF TypeInvariant
  <2>2. \A content \in {rules, queue, history} : \A x, y \in content : x.id = y.id => x = y
    BY <2>1 DEF StoreTyped, Filed, UniqueIds
  <2>3. IdsOf(rules) \cup IdsOf(queue) \cup IdsOf(history) \cup taken \subseteq GivenIds
    BY <2>1 DEF StoreTyped, Filed
  <2>4. \A id \in GivenIds : id[1] \in 0..process.pid /\ id[2] \in Nat \ {0}
    BY DEF GivenIds
  <2>5. \A r \in rules : r.status \in Statuses /\ r.verdict \in Verdicts
    BY <2>1 DEF StoreTyped, RuleFiled
  <2>6. \A s \in Slots : At(s, "idle") => slot[s] = Idle
    BY DEF TypeInvariant, HandlerTyped, At
  <2>7. settings \in Settings /\ Bounded
    BY DEF ApprovalInvariant, TypeInvariant
  <2> QED
    BY <2>2, <2>3, <2>4, <2>5, <2>6, <2>7 DEF TypeOK, Bounded
<1> QED
  BY <1>1, <1>2, <1>3, PTL DEF Spec
-----------------------------------------------------------------------------
(***************************************************************************)
(* The ledger and the rules file agree, as long as requests do not overlap *)
(* and no process gets the pid of an earlier one.                          *)
(***************************************************************************)
Tells(e, id) == e.event = "policy.rule" /\ e.rule.id = id

(* The last event about a rule is that it is r.                            *)
LastTold(r, L) ==
    \E i \in DOMAIN L :
        /\ L[i] = RuleEvent(r)
        /\ \A j \in DOMAIN L : j > i => ~Tells(L[j], r.id)

Agreement ==
    \A r \in rules : r.id[1] = process.pid =>
        \/ LastTold(r, ledger)
        \/ \E s \in Slots : Storing(s) /\ Head(slot[s].todo).id = r.id

LEMMA SealAppends ==
    ASSUME LedgerIsSeq, NEW event, Seal(event)
    PROVE  /\ Len(ledger) \in Nat /\ DOMAIN ledger = 1..Len(ledger)
           /\ DOMAIN ledger' = 1..(Len(ledger) + 1)
           /\ \A i \in 1..Len(ledger) : ledger'[i] = ledger[i]
           /\ ledger'[Len(ledger) + 1] = event
<1>1. PICK S : ledger \in Seq(S)
  BY DEF LedgerIsSeq
<1>2. ledger \in Seq(S \cup {event}) /\ event \in S \cup {event}
  BY <1>1, SeqMonotonic
<1> QED
  BY <1>2 DEF Seal

LEMMA OtherEvent ==
    ASSUME LedgerIsSeq, NEW event, Seal(event), NEW r, LastTold(r, ledger), ~Tells(event, r.id)
    PROVE  LastTold(r, ledger')
<1>1. PICK i \in DOMAIN ledger :
          ledger[i] = RuleEvent(r) /\ \A j \in DOMAIN ledger : j > i => ~Tells(ledger[j], r.id)
  BY DEF LastTold
<1>2. i \in DOMAIN ledger' /\ ledger'[i] = RuleEvent(r)
  BY <1>1, SealAppends
<1>3. ASSUME NEW j \in DOMAIN ledger', j > i PROVE ~Tells(ledger'[j], r.id)
  <2>1. CASE j \in 1..Len(ledger)
    BY <1>1, <1>3, <2>1, SealAppends
  <2>2. CASE j = Len(ledger) + 1
    BY <2>2, SealAppends
  <2> QED
    BY <2>1, <2>2, SealAppends
<1> QED
  BY <1>2, <1>3 DEF LastTold

LEMMA OwnEvent ==
    ASSUME LedgerIsSeq, NEW r, Seal(RuleEvent(r))
    PROVE  LastTold(r, ledger')
<1> DEFINE last == Len(ledger) + 1
<1>1. last \in DOMAIN ledger' /\ ledger'[last] = RuleEvent(r) /\ \A j \in DOMAIN ledger' : ~(j > last)
  BY SealAppends
<1> QED
  BY <1>1 DEF LastTold

AgreementContext ==
    /\ OneRequestAtATime /\ Context /\ SerialRules /\ TypeInvariant /\ Agreement
    /\ process'.pid = process.pid

(* A step that has no part in the rules file.                              *)
LEMMA AgreementStep ==
    ASSUME AgreementContext, NEW s \in Slots, slot[s].pc \notin {"stored", "activated"},
           UNCHANGED rules,
           UNCHANGED ledger \/ \E event : Seal(event) /\ event.event # "policy.rule"
    PROVE  Agreement'
<1>1. ~\E t \in Slots : Storing(t)
  BY DEF AgreementContext, OneRequestAtATime, Storing
<1>2. ASSUME NEW r \in rules', r.id[1] = process'.pid
      PROVE  LastTold(r, ledger')
  <2>1. LastTold(r, ledger) /\ LedgerIsSeq
    BY <1>1, <1>2 DEF AgreementContext, Agreement, Context, ApprovalInvariant
  <2> QED
    BY <2>1, OtherEvent DEF Tells
<1> QED
  BY <1>2 DEF Agreement

FilingStep(s) == PutWrite(s) \/ UpdateWrite(s) \/ RuleStored(s) \/ RuleActivated(s)

LEMMA StepOffTheFile ==
    ASSUME NEW s \in Slots, Start(s) \/ Step(s), ~FilingStep(s)
    PROVE  /\ slot[s].pc \notin {"stored", "activated"} /\ UNCHANGED rules
           /\ UNCHANGED ledger \/ \E event : Seal(event) /\ event.event # "policy.rule"
<1>1. CASE Start(s)
  BY <1>1, StartIsFresh DEF store
<1>2. CASE LookupHistory(s) \/ ReadRules(s) \/ EnqueueRead(s)
  BY <1>2 DEF LookupHistory, ReadRules, EnqueueRead, At, store
<1>3. CASE EnqueueWrite(s) \/ HistoryRead(s) \/ HistoryWrite(s)
  BY <1>3 DEF EnqueueWrite, HistoryRead, HistoryWrite, At, store
<1>4. CASE ListQueue(s) \/ RemoveRead(s) \/ RemoveWrite(s)
  BY <1>4 DEF ListQueue, RemoveRead, RemoveWrite, At, store
<1>5. CASE CompileVerdict(s) \/ PutRead(s) \/ UpdateRead(s)
  BY <1>5 DEF CompileVerdict, PutRead, UpdateRead, At, store
<1>6. CASE OutcomeRead(s) \/ OutcomeWrite(s) \/ Reply(s)
  BY <1>6 DEF OutcomeRead, OutcomeWrite, Reply, At, store
<1>7. \A a, d, from : VerdictEvent(a, d, from).event # "policy.rule"
  BY DEF VerdictEvent
<1>8. CASE DecideAction(s) \/ Answer(s)
  <2>1. slot[s].pc \notin {"stored", "activated"} /\ UNCHANGED rules
    BY <1>8 DEF DecideAction, Answer, Answered, At, store
  <2>2. UNCHANGED ledger \/ \E a, d, from : Seal(VerdictEvent(a, d, from))
    BY <1>8 DEF DecideAction, Answer, Answered
  <2> QED
    BY <1>7, <2>1, <2>2
<1>9. CASE Removed(s)
  <2>1. slot[s].pc \notin {"stored", "activated"} /\ UNCHANGED rules
    BY <1>9 DEF Removed, At, store
  <2>2. UNCHANGED ledger \/ \E a, d, from : Seal(VerdictEvent(a, d, from))
    BY <1>9 DEF Removed, OperatorDecided
  <2> QED
    BY <1>7, <2>1, <2>2
<1>10. CASE OutcomeSaved(s)
  <2>1. /\ slot[s].pc \notin {"stored", "activated"} /\ UNCHANGED rules
        /\ Seal(OutcomeEvent(slot[s].outcomeOf))
    BY <1>10 DEF OutcomeSaved, At, store
  <2>2. OutcomeEvent(slot[s].outcomeOf).event # "policy.rule"
    BY DEF OutcomeEvent
  <2> QED
    BY <2>1, <2>2
<1> QED
  BY <1>1, <1>2, <1>3, <1>4, <1>5, <1>6, <1>8, <1>9, <1>10 DEF Step, FilingStep

LEMMA RuleWriteAgrees ==
    ASSUME AgreementContext, NEW s \in Slots, PutWrite(s) \/ UpdateWrite(s)
    PROVE  Agreement'
<1> DEFINE g == slot[s]
           r == Head(g.todo)
<1>1. UNCHANGED ledger /\ g.pc \in {"putWrite", "updateWrite"} /\ g.read = rules /\ IsHandler(g)
  BY DEF PutWrite, UpdateWrite, At, AgreementContext, SerialRules, RulesFit, Context,
         ApprovalInvariant, HandlerFits
<1>2. CASE Throw(s) /\ UNCHANGED rules
  BY <1>1, <1>2, AgreementStep
<1>3. ASSUME NEW pc \in {"stored", "activated"}, Saved(s, pc), \A q \in rules' : q \in rules \/ q = r
      PROVE  Agreement'
  <2>1. slot'[s].pc = pc /\ slot'[s].todo = g.todo
    BY <1>1, <1>3, Goes DEF AgreementContext, Context, Saved, IsHandler, Fields
  <2>2. Storing(s)' /\ Head(slot'[s].todo) = r
    BY <2>1 DEF Storing
  <2>3. ~\E t \in Slots : Storing(t)
    BY <1>1 DEF AgreementContext, OneRequestAtATime, Storing
  <2> HIDE DEF r
  <2>4. \A q \in rules : q.id[1] = process'.pid => LastTold(q, ledger')
    BY <1>1, <2>3 DEF AgreementContext, Agreement
  <2> QED
    BY <1>3, <2>2, <2>4 DEF Agreement
<1>4. \/ Throw(s) /\ UNCHANGED rules
      \/ rules' = g.read \cup {r} /\ Saved(s, "stored")
      \/ rules' = {q \in g.read : q.id # r.id} \cup {r} /\ Saved(s, "activated")
  BY DEF PutWrite, UpdateWrite
<1> HIDE DEF r
<1> QED
  BY <1>1, <1>2, <1>3, <1>4

(* The event of a rule follows its write, and no other rule has its id.    *)
LEMMA RuleEventAgrees ==
    ASSUME AgreementContext, NEW s \in Slots, RuleStored(s) \/ RuleActivated(s)
    PROVE  Agreement'
<1> DEFINE g == slot[s]
           r == Head(g.todo)
<1>1. UNCHANGED rules /\ g.pc \in {"stored", "activated"} /\ Seal(RuleEvent(r))
  BY DEF RuleStored, RuleActivated, At, store
<1>2. LedgerIsSeq /\ r \in rules /\ UniqueIds(rules)
  BY <1>1 DEF AgreementContext, Context, ApprovalInvariant, SerialRules, RulesFit, TypeInvariant,
              StoreTyped, Filed
<1> HIDE DEF r
<1>3. ASSUME NEW q \in rules', q.id[1] = process'.pid
      PROVE  LastTold(q, ledger')
  <2>1. CASE q = r
    BY <1>1, <1>2, <2>1, OwnEvent
  <2>2. CASE q # r
    <3>1. q.id # r.id
      BY <1>1, <1>2, <1>3, <2>2 DEF UniqueIds
    <3>2. \A t \in Slots : t = s
      BY DEF AgreementContext, OneRequestAtATime
    <3>3. LastTold(q, ledger)
      BY <1>1, <1>3, <3>1, <3>2 DEF AgreementContext, Agreement, r
    <3>4. ~Tells(RuleEvent(r), q.id)
      BY <3>1 DEF Tells, RuleEvent
    <3> QED
      BY <1>1, <1>2, <3>3, <3>4, OtherEvent
  <2> QED
    BY <2>1, <2>2
<1> QED
  BY <1>3 DEF Agreement

LEMMA NextKeepsAgreement ==
    ASSUME OneRequestAtATime, ~PidMayRepeat, Context, SerialRules, TypeInvariant, Agreement,
           [Next]_vars
    PROVE  Agreement'
<1>1. CASE Restart
  <2>1. UNCHANGED rules /\ process' = [process EXCEPT !.pid = process.pid + 1, !.ids = 0, !.restarts = @ + 1]
    BY <1>1 DEF Restart, store
  <2>2. process'.pid = process.pid + 1 /\ process.pid \in Nat
    BY <2>1 DEF TypeInvariant, Counts
  <2>3. \A r \in rules : r.id[1] \in 0..process.pid
    BY DEF TypeInvariant, StoreTyped, RuleFiled, GivenIds
  <2> QED
    BY <2>1, <2>2, <2>3 DEF Agreement
<1>2. CASE ~Restart
  <2>1. process'.pid = process.pid
    BY <1>2, ProcessMoves DEF Context, TypeInvariant, Counts, Draw
  <2>2. AgreementContext
    BY <2>1 DEF AgreementContext
  <2>3. ASSUME NEW s \in Slots, Start(s) \/ Step(s) PROVE Agreement'
    <3>1. CASE FilingStep(s)
      BY <2>2, <3>1, RuleWriteAgrees, RuleEventAgrees DEF FilingStep
    <3>2. CASE ~FilingStep(s)
      BY <2>2, <2>3, <3>2, StepOffTheFile, AgreementStep
    <3> QED
      BY <3>1, <3>2
  <2>4. CASE SetMode \/ SetScope \/ SetMatchReplaceRules \/ UNCHANGED vars
    <3>1. UNCHANGED <<rules, ledger, slot>>
      BY <2>4 DEF SetMode, SetScope, SetMatchReplaceRules, vars, store
    <3> QED
      BY <2>1, <3>1 DEF Agreement, Storing
  <2> QED
    BY <1>2, <2>3, <2>4 DEF Next
<1> QED
  BY <1>1, <1>2

(* What the ledger last said of a rule is what the file holds, but for the *)
(* moment between the rename and its event, as long as requests do not     *)
(* overlap and no process gets the pid of an earlier one.                  *)
THEOREM LedgerTellsTheFile ==
    ASSUME OneRequestAtATime, ~PidMayRepeat
    PROVE  Spec => []AuditMatchesStore
<1>1. Init => ApprovalInvariant /\ AuditInvariant /\ SerialRules /\ TypeInvariant /\ Agreement
  <2>1. Init => Agreement
    BY DEF Init, Agreement
  <2> QED
    BY <2>1, InitEstablishesInvariant, InitEstablishesAudit, InitEstablishesRules,
       InitEstablishesTypes
<1>2. ApprovalInvariant /\ AuditInvariant /\ SerialRules /\ TypeInvariant /\ Agreement
      /\ [Next]_vars
         => ApprovalInvariant' /\ AuditInvariant' /\ SerialRules' /\ TypeInvariant' /\ Agreement'
  BY NextKeepsInvariant, NextKeepsAudit, NextKeepsRules, NextKeepsTypes, NextKeepsAgreement
     DEF Context
<1>3. ApprovalInvariant /\ Agreement => AuditMatchesStore
  <2> SUFFICES ASSUME ApprovalInvariant, Agreement, NEW r \in rules, r.id[1] = process.pid,
                      ~\E s \in Slots : Storing(s) /\ Head(slot[s].todo).id = r.id
               PROVE  \E e \in Sealed : e.event = "policy.rule" /\ e.rule.id = r.id
                                        /\ LastRuleEvent(r.id).rule = r
    BY DEF AuditMatchesStore
  <2> DEFINE told == {i \in DOMAIN ledger : ledger[i].event = "policy.rule" /\ ledger[i].rule.id = r.id}
  <2>1. PICK i \in DOMAIN ledger :
            ledger[i] = RuleEvent(r) /\ \A j \in DOMAIN ledger : j > i => ~Tells(ledger[j], r.id)
    BY DEF Agreement, LastTold
  <2>2. DOMAIN ledger \subseteq Nat
    <3>1. PICK S : ledger \in Seq(S)
      BY DEF ApprovalInvariant, LedgerIsSeq
    <3> QED
      BY <3>1
  <2>3. ledger[i].event = "policy.rule" /\ ledger[i].rule = r
    BY <2>1 DEF RuleEvent
  <2>4. i \in told /\ \A j \in told : j <= i
    BY <2>1, <2>2, <2>3 DEF Tells
  <2>5. \A k \in told : (\A j \in told : j <= k) => k = i
    BY <2>2, <2>4
  <2>6. LastRuleEvent(r.id) = ledger[CHOOSE k \in told : \A j \in told : j <= k]
    BY DEF LastRuleEvent
  <2> HIDE DEF told
  <2>7. LastRuleEvent(r.id) = ledger[i]
    BY <2>4, <2>5, <2>6
  <2>8. ledger[i] \in Sealed
    BY DEF Sealed
  <2> QED
    BY <2>3, <2>7, <2>8
<1> QED
  BY <1>1, <1>2, <1>3, PTL DEF Spec
-----------------------------------------------------------------------------
(***************************************************************************)
(* What is on its way to the rules file was taught: an approved action, or *)
(* an atom of an operator's words and the action they were given on.  A    *)
(* handler that activates a rule changes the proposal that is on file.     *)
(***************************************************************************)
TaughtAtoms == UNION {{w[i] : i \in DOMAIN w} : w \in Words}

Approval(r) == \E a \in Actions : r = ApprovalRule(r.id, r.from, a)
Proposal(r) ==
    \E a \in Actions, atom \in TaughtAtoms :
        Compiles(atom) /\ r = ProposedRule(r.id, r.from, atom, a)

Taught(op, r) == IF op \in {"forward", "forward-all"} THEN Approval(r) ELSE Proposal(r)

TaughtFits(h, R) ==
    /\ h.words \in Words \cup {<<>>}
    /\ h.pc \in {"historyRead", "historyWrite", "compile"} /\ Rejects(h) => h.action \in Actions
    /\ h.pc \in StoringPcs => \A i \in 2..Len(h.todo) : Taught(h.op, h.todo[i])
    /\ h.pc \in {"putRead", "putWrite", "stored"} => Taught(h.op, h.todo[1])
    /\ h.pc \in {"updateRead", "updateWrite"} =>
          \E q \in R : q.status = "proposed" /\ h.todo[1] = [q EXCEPT !.status = "active"]

TaughtInvariant ==
    /\ \A r \in rules : IsRule(r)
    /\ \A s \in Slots : TaughtFits(slot[s], rules)

TaughtContext ==
    /\ OneRequestAtATime /\ Context /\ SerialRules /\ TypeInvariant /\ TaughtInvariant

LEMMA TaughtStep ==
    ASSUME TaughtContext, NEW s \in Slots, \A r \in rules' : IsRule(r),
           TaughtFits(slot'[s], rules')
    PROVE  TaughtInvariant'
BY DEF TaughtContext, OneRequestAtATime, TaughtInvariant

TaughtFreePcs ==
    {"idle", "lookup", "rules", "decide", "enqueueRead", "enqueueWrite", "answer", "list",
     "removeRead", "removeWrite", "removed", "outcomeRead", "outcomeWrite", "outcomeSaved",
     "reply"}

LEMMA TaughtFreeStep ==
    ASSUME TaughtContext, NEW s \in Slots, UNCHANGED rules, NEW h, NEW pc \in TaughtFreePcs,
           Goto(s, h, pc), h.words \in Words \cup {<<>>}
    PROVE  TaughtInvariant'
<1>1. slot'[s].pc = pc /\ slot'[s].words = h.words
  BY Goes DEF TaughtContext, Context
<1>2. TaughtFits(slot'[s], rules')
  BY <1>1 DEF TaughtFits, TaughtFreePcs, StoringPcs
<1> QED
  BY <1>2, TaughtStep DEF TaughtContext, TaughtInvariant

LEMMA HandlerTaught ==
    ASSUME TaughtContext, NEW s \in Slots
    PROVE  IsHandler(slot[s]) /\ OpFits(slot[s]) /\ TaughtFits(slot[s], rules)
BY DEF TaughtContext, Context, ApprovalInvariant, HandlerFits, TaughtInvariant

LEMMA ThrowTaught ==
    ASSUME TaughtContext, NEW s \in Slots, UNCHANGED rules, Throw(s)
    PROVE  TaughtInvariant'
<1> DEFINE h == [slot[s] EXCEPT !.ok = FALSE]
<1>1. h.words = slot[s].words /\ Goto(s, h, "reply")
  BY HandlerTaught DEF Throw, IsHandler, Fields
<1> HIDE DEF h
<1>2. h.words \in Words \cup {<<>>} /\ "reply" \in TaughtFreePcs
  BY <1>1, HandlerTaught DEF TaughtFits, TaughtFreePcs
<1> QED
  BY <1>1, <1>2, TaughtFreeStep

(* A file is read, or written.                                             *)
LEMMA CopyTaught ==
    ASSUME TaughtContext, NEW s \in Slots, UNCHANGED rules, NEW content, NEW pc \in TaughtFreePcs,
           Goto(s, [slot[s] EXCEPT !.read = content], pc)
    PROVE  TaughtInvariant'
<1> DEFINE h == [slot[s] EXCEPT !.read = content]
<1>1. h.words = slot[s].words /\ Goto(s, h, pc)
  BY HandlerTaught DEF IsHandler, Fields
<1> HIDE DEF h
<1>2. h.words \in Words \cup {<<>>}
  BY <1>1, HandlerTaught DEF TaughtFits
<1> QED
  BY <1>1, <1>2, TaughtFreeStep

LEMMA StartTaught ==
    ASSUME TaughtContext, NEW s \in Slots, Start(s)
    PROVE  TaughtInvariant'
<1>1. UNCHANGED rules
  BY StartIsFresh DEF store
<1>2. ASSUME NEW h, h.words \in Words \cup {<<>>}, NEW pc \in ArrivalPcs, Goto(s, h, pc)
      PROVE  TaughtInvariant'
  BY <1>1, <1>2, TaughtFreeStep DEF ArrivalPcs, TaughtFreePcs
<1>3. Idle.words = <<>> /\ \A op, a, mode : Captured(op, a, mode).words = <<>>
  BY DEF Idle, Captured
<1>4. \A op, words, activate : Verdict(op, words, activate).words = words
  BY DEF Idle, Verdict
<1>5. CASE StartIntercept(s) \/ StartRepeater(s)
  <2>1. \/ \E op, a, mode : Goto(s, Captured(op, a, mode), "rules")
        \/ Goto(s, [Idle EXCEPT !.op = "repeater"], "lookup")
    BY <1>5 DEF StartIntercept, StartRepeater, Repeated
  <2>2. [Idle EXCEPT !.op = "repeater"].words = <<>>
    BY DEF Idle
  <2> QED
    BY <1>2, <1>3, <2>1, <2>2 DEF ArrivalPcs
<1>6. CASE StartVerdict(s)
  <2>1. PICK id \in IdsOf(queue) \cup taken, edit \in Edits :
            \E op \in {"forward", "drop"}, words \in Words \cup {<<>>}, activate \in BOOLEAN :
                Goto(s, [Verdict(op, words, activate) EXCEPT !.queueId = id, !.edit = edit],
                     "removeRead")
    BY <1>6 DEF StartVerdict
  <2>2. PICK op \in {"forward", "drop"}, words \in Words \cup {<<>>}, activate \in BOOLEAN :
            Goto(s, [Verdict(op, words, activate) EXCEPT !.queueId = id, !.edit = edit],
                 "removeRead")
    BY <2>1
  <2> DEFINE h == [Verdict(op, words, activate) EXCEPT !.queueId = id, !.edit = edit]
  <2>3. h.words = words /\ Goto(s, h, "removeRead")
    BY <2>2 DEF Idle, Verdict
  <2> HIDE DEF h
  <2> QED
    BY <1>2, <2>2, <2>3 DEF ArrivalPcs
<1>7. CASE StartBatch(s)
  <2>1. \E op : \E words \in Words \cup {<<>>}, activate \in BOOLEAN :
            Goto(s, Verdict(op, words, activate), "list")
    BY <1>7 DEF StartBatch
  <2> QED
    BY <1>2, <1>4, <2>1 DEF ArrivalPcs
<1>8. CASE StartOutcome(s)
  <2>1. PICK id \in ActionIds :
            Goto(s, [Idle EXCEPT !.op = "outcome", !.outcomeOf = id], "outcomeRead")
    BY <1>8 DEF StartOutcome
  <2>2. [Idle EXCEPT !.op = "outcome", !.outcomeOf = id].words = <<>>
    BY DEF Idle
  <2> QED
    BY <1>2, <2>1, <2>2 DEF ArrivalPcs
<1> QED
  BY <1>5, <1>6, <1>7, <1>8 DEF Start

(***************************************************************************)
(* intercept and repeater, up to the history.                              *)
(***************************************************************************)
LEMMA HistoryReadTaught ==
    ASSUME TaughtContext, NEW s \in Slots, UNCHANGED rules, NEW h, IsHandler(h), NEW entry,
           Goto(s, [h EXCEPT !.entry = entry], "historyRead"),
           h.words \in Words \cup {<<>>}, Rejects(h) => h.action \in Actions
    PROVE  TaughtInvariant'
<1> DEFINE r == [h EXCEPT !.entry = entry]
<1>1. /\ r.words = h.words /\ r.action = h.action /\ r.op = h.op
      /\ Goto(s, r, "historyRead")
  BY DEF IsHandler, Fields
<1> HIDE DEF r
<1>2. /\ slot'[s].pc = "historyRead" /\ slot'[s].words = h.words
      /\ slot'[s].action = h.action /\ slot'[s].op = h.op
  BY <1>1, Goes DEF TaughtContext, Context
<1>3. TaughtFits(slot'[s], rules')
  BY <1>2 DEF TaughtFits, StoringPcs, Rejects
<1> QED
  BY <1>3, TaughtStep DEF TaughtContext, TaughtInvariant

LEMMA AnsweredTaught ==
    ASSUME TaughtContext, NEW s \in Slots, NEW h, IsHandler(h), Answered(s, h),
           h.words \in Words \cup {<<>>}, h.op \in {"intercept", "repeater"}
    PROVE  TaughtInvariant'
<1>1. UNCHANGED rules /\ Goto(s, [h EXCEPT !.entry = Entry(h, NthId(2))], "historyRead")
  BY DEF Answered, store
<1>2. ~Rejects(h)
  BY DEF Rejects
<1> HIDE DEF Entry
<1> QED
  BY <1>1, <1>2, HistoryReadTaught

LEMMA DecidingTaught ==
    ASSUME TaughtContext, NEW s \in Slots, LookupHistory(s) \/ ReadRules(s) \/ DecideAction(s)
    PROVE  TaughtInvariant'
<1> DEFINE g == slot[s]
<1>1. IsHandler(g) /\ OpFits(g) /\ g.words \in Words \cup {<<>>}
  BY HandlerTaught DEF TaughtFits
<1>2. CASE LookupHistory(s)
  <2>1. UNCHANGED rules
    BY <1>2 DEF LookupHistory, store
  <2>2. (\E a, mode : Goto(s, Captured("repeater", a, mode), "rules")) \/ Throw(s)
    BY <1>2 DEF LookupHistory, Repeated
  <2>3. \A a, mode : Captured("repeater", a, mode).words = <<>>
    BY DEF Idle, Captured
  <2> QED
    BY <2>1, <2>2, <2>3, TaughtFreeStep, ThrowTaught DEF TaughtFreePcs
<1>3. CASE ReadRules(s)
  <2>1. UNCHANGED rules
    BY <1>3 DEF ReadRules, store
  <2>2. CASE Load(s, rules, "decide")
    BY <2>1, <2>2, CopyTaught DEF Load, TaughtFreePcs
  <2>3. CASE Goto(s, [g EXCEPT !.decision = FailedClosed], "answer")
    <3> DEFINE h == [g EXCEPT !.decision = FailedClosed]
    <3>1. h.words = g.words /\ Goto(s, h, "answer")
      BY <1>1, <2>3 DEF IsHandler, Fields
    <3> HIDE DEF h
    <3> QED
      BY <1>1, <2>1, <3>1, TaughtFreeStep DEF TaughtFreePcs
  <2> QED
    BY <1>3, <2>2, <2>3 DEF ReadRules
<1>4. CASE DecideAction(s)
  <2> DEFINE d == Decide(g.action, g.read, g.mode, g.scope)
             h == [g EXCEPT !.decision = d, !.read = {}]
  <2>1. g.op \in {"intercept", "repeater"}
    BY <1>1, <1>4 DEF DecideAction, At, OpFits
  <2> HIDE DEF d
  <2>2. IsHandler(h) /\ h.words = g.words /\ h.op = g.op
    BY <1>1 DEF IsHandler, Fields
  <2>3. CASE Answered(s, h)
    <3> HIDE DEF h
    <3> QED
      BY <1>1, <2>1, <2>2, <2>3, AnsweredTaught
  <2>4. CASE Goto(s, [h EXCEPT !.queueId = NthId(1)], "enqueueRead") /\ UNCHANGED store
    <3> DEFINE r == [h EXCEPT !.queueId = NthId(1)]
    <3>1. r.words = h.words /\ Goto(s, r, "enqueueRead")
      BY <2>2, <2>4 DEF IsHandler, Fields
    <3> HIDE DEF r, h
    <3> QED
      BY <1>1, <2>2, <2>4, <3>1, TaughtFreeStep DEF TaughtFreePcs, store
  <2> QED
    BY <1>4, <2>3, <2>4 DEF DecideAction, h, d
<1> QED
  BY <1>2, <1>3, <1>4

LEMMA HoldTaught ==
    ASSUME TaughtContext, NEW s \in Slots, EnqueueRead(s) \/ EnqueueWrite(s) \/ Answer(s)
    PROVE  TaughtInvariant'
<1> DEFINE g == slot[s]
<1>1. IsHandler(g) /\ OpFits(g) /\ g.words \in Words \cup {<<>>}
  BY HandlerTaught DEF TaughtFits
<1>2. CASE Answer(s)
  <2>1. g.op \in {"intercept", "repeater"} /\ Answered(s, g)
    BY <1>1, <1>2 DEF Answer, At, OpFits
  <2> QED
    BY <1>1, <2>1, AnsweredTaught
<1>3. UNCHANGED rules /\ HoldFailed(s) => TaughtInvariant'
  <2> SUFFICES ASSUME UNCHANGED rules, HoldFailed(s) PROVE TaughtInvariant'
    OBVIOUS
  <2> DEFINE h == [g EXCEPT !.decision = FailedClosed, !.queueId = NoId, !.read = {}]
  <2>1. h.words = g.words /\ Goto(s, h, "answer")
    BY <1>1 DEF HoldFailed, IsHandler, Fields
  <2> HIDE DEF h
  <2> QED
    BY <1>1, <2>1, TaughtFreeStep DEF TaughtFreePcs
<1>4. CASE EnqueueRead(s)
  <2>1. UNCHANGED rules /\ (Load(s, queue, "enqueueWrite") \/ HoldFailed(s))
    BY <1>4 DEF EnqueueRead, store
  <2> QED
    BY <1>3, <2>1, CopyTaught DEF Load, TaughtFreePcs
<1>5. CASE EnqueueWrite(s)
  <2>1. UNCHANGED rules /\ (Saved(s, "answer") \/ HoldFailed(s))
    BY <1>5 DEF EnqueueWrite
  <2> QED
    BY <1>3, <2>1, CopyTaught DEF Saved, TaughtFreePcs
<1> QED
  BY <1>2, <1>4, <1>5

LEMMA HistoryTaught ==
    ASSUME TaughtContext, NEW s \in Slots, HistoryRead(s) \/ HistoryWrite(s)
    PROVE  TaughtInvariant'
<1> DEFINE g == slot[s]
<1>1. /\ IsHandler(g) /\ g.words \in Words \cup {<<>>} /\ UNCHANGED rules
      /\ Rejects(g) => g.action \in Actions
  BY HandlerTaught DEF TaughtFits, HistoryRead, HistoryWrite, At, store
<1>2. ASSUME NEW content, NEW pc \in {"historyWrite", "compile"},
             Goto(s, [g EXCEPT !.read = content], pc)
      PROVE  TaughtInvariant'
  <2> DEFINE h == [g EXCEPT !.read = content]
  <2>1. /\ h.words = g.words /\ h.action = g.action /\ h.op = g.op
        /\ Goto(s, h, pc)
    BY <1>1, <1>2 DEF IsHandler, Fields
  <2> HIDE DEF h
  <2>2. /\ slot'[s].pc = pc /\ slot'[s].words = g.words
        /\ slot'[s].action = g.action /\ slot'[s].op = g.op
    BY <2>1, Goes DEF TaughtContext, Context
  <2>3. TaughtFits(slot'[s], rules')
    BY <1>1, <2>2 DEF TaughtFits, StoringPcs, Rejects
  <2> QED
    BY <1>1, <2>3, TaughtStep DEF TaughtContext, TaughtInvariant
<1>3. Load(s, history, "historyWrite") \/ Saved(s, "compile") \/ Saved(s, "reply") \/ Throw(s)
  BY DEF HistoryRead, HistoryWrite
<1> QED
  BY <1>1, <1>2, <1>3, CopyTaught, ThrowTaught DEF Load, Saved, TaughtFreePcs

(***************************************************************************)
(* Verdicts: the item, the words, and the rules made from them.            *)
(***************************************************************************)
LEMMA NextItemTaught ==
    ASSUME TaughtContext, NEW s \in Slots, UNCHANGED rules, NEW h, IsHandler(h), NextItem(s, h),
           h.words \in Words \cup {<<>>}
    PROVE  TaughtInvariant'
<1>1. CASE Goto(s, h, "reply")
  BY <1>1, TaughtFreeStep DEF TaughtFreePcs
<1>2. ASSUME NEW id, Goto(s, [h EXCEPT !.queueId = id, !.batch = @ \ {id}], "removeRead")
      PROVE  TaughtInvariant'
  <2> DEFINE r == [h EXCEPT !.queueId = id, !.batch = @ \ {id}]
  <2>1. r.words = h.words /\ Goto(s, r, "removeRead")
    BY <1>2 DEF IsHandler, Fields
  <2> HIDE DEF r
  <2> QED
    BY <2>1, TaughtFreeStep DEF TaughtFreePcs
<1> QED
  BY <1>1, <1>2 DEF NextItem

LEMMA ItemTaught ==
    ASSUME TaughtContext, NEW s \in Slots, ListQueue(s) \/ RemoveRead(s) \/ RemoveWrite(s)
    PROVE  TaughtInvariant'
<1> DEFINE g == slot[s]
<1>1. IsHandler(g) /\ g.words \in Words \cup {<<>>} /\ UNCHANGED rules
  BY HandlerTaught DEF TaughtFits, ListQueue, RemoveRead, RemoveWrite, store
<1>2. CASE ListQueue(s)
  <2> DEFINE h == [g EXCEPT !.batch = IdsOf(queue)]
  <2>1. NextItem(s, h) \/ Throw(s)
    BY <1>2 DEF ListQueue
  <2>2. IsHandler(h) /\ h.words = g.words
    BY <1>1 DEF IsHandler, Fields
  <2> HIDE DEF h
  <2> QED
    BY <1>1, <2>1, <2>2, NextItemTaught, ThrowTaught
<1>3. CASE RemoveRead(s)
  <2>1. ASSUME NEW item,
               Goto(s, [g EXCEPT !.read = queue, !.action = item.action], "removeWrite")
        PROVE  TaughtInvariant'
    <3> DEFINE h == [g EXCEPT !.read = queue, !.action = item.action]
    <3>1. h.words = g.words /\ Goto(s, h, "removeWrite")
      BY <1>1, <2>1 DEF IsHandler, Fields
    <3> HIDE DEF h
    <3> QED
      BY <1>1, <3>1, TaughtFreeStep DEF TaughtFreePcs
  <2> QED
    BY <1>1, <1>3, <2>1, ThrowTaught DEF RemoveRead
<1>4. CASE RemoveWrite(s)
  BY <1>1, <1>4, CopyTaught, ThrowTaught DEF RemoveWrite, Saved, TaughtFreePcs
<1> QED
  BY <1>2, <1>3, <1>4

LEMMA RemovedTaught ==
    ASSUME TaughtContext, NEW s \in Slots, Removed(s)
    PROVE  TaughtInvariant'
<1> DEFINE g == slot[s]
           h == [g EXCEPT !.action = ActedOn(g), !.from = NthId(1),
                          !.decision = OperatorDecision(g)]
<1>1. /\ IsHandler(g) /\ g.words \in Words \cup {<<>>} /\ UNCHANGED rules
      /\ g.action \in Actions
  BY HandlerTaught DEF TaughtFits, Removed, store, At, TaughtContext, Context,
                       ApprovalInvariant, HandlerFits, ActionFits
<1>2. CASE g.edit # InvalidEdit /\ OperatorDecided(s)
  <2>1. IsHandler(h) /\ h.words = g.words /\ h.action = ActedOn(g)
    BY <1>1 DEF IsHandler, Fields
  <2>2. Goto(s, [h EXCEPT !.entry = Entry(h, NthId(3))], "historyRead")
    BY <1>2 DEF OperatorDecided
  <2>3. ActedOn(g) \in Actions
    BY <1>1, <1>2 DEF ActedOn, IsHandler
  <2> HIDE DEF h
  <2> QED
    BY <1>1, <2>1, <2>2, <2>3, HistoryReadTaught
<1>3. CASE Throw(s)
  BY <1>1, <1>3, ThrowTaught
<1> QED
  BY <1>2, <1>3 DEF Removed

(* On to the first rule to be stored.                                      *)
LEMMA PutReadTaught ==
    ASSUME TaughtContext, NEW s \in Slots, UNCHANGED rules, NEW h, Goto(s, h, "putRead"),
           h.words \in Words \cup {<<>>}, h.todo # <<>>, \E S : h.todo \in Seq(S),
           \A i \in 1..Len(h.todo) : Taught(h.op, h.todo[i])
    PROVE  TaughtInvariant'
<1>1. /\ slot'[s].pc = "putRead" /\ slot'[s].words = h.words
      /\ slot'[s].todo = h.todo /\ slot'[s].op = h.op
  BY Goes DEF TaughtContext, Context
<1>2. /\ \A i \in 2..Len(h.todo) : Taught(h.op, h.todo[i])
      /\ Taught(h.op, h.todo[1])
  <2>1. Len(h.todo) \in Nat /\ Len(h.todo) # 0
    OBVIOUS
  <2> QED
    BY <2>1
<1>3. TaughtFits(slot'[s], rules')
  BY <1>1, <1>2 DEF TaughtFits
<1> QED
  BY <1>3, TaughtStep DEF TaughtContext, TaughtInvariant

LEMMA ProposedRuleFields ==
    ASSUME NEW id, NEW from, NEW a, NEW atom
    PROVE  LET r == ProposedRule(id, from, atom, a) IN
           r.id = id /\ r.from = from /\ r.status = "proposed"
BY DEF ProposedRule, RuleOf

LEMMA CompileVerdictTaught ==
    ASSUME TaughtContext, NEW s \in Slots, CompileVerdict(s)
    PROVE  TaughtInvariant'
<1> DEFINE g == slot[s]
<1>1. /\ IsHandler(g) /\ OpFits(g) /\ g.words \in Words \cup {<<>>} /\ UNCHANGED rules
      /\ g.pc = "compile" /\ g.op \in VerdictOps /\ (Rejects(g) => g.action \in Actions)
      /\ Approves(g) => g.action \in Actions
      /\ Rejects(g) => g.words # <<>>
  BY HandlerTaught DEF TaughtFits, CompileVerdict, store, At, OpFits, VerdictPcs, TaughtContext,
                       Context, ApprovalInvariant, HandlerFits, ActionFits
<1>2. CASE Approves(g)
  <2> DEFINE r == ApprovalRule(NthId(1), g.from, g.action)
             h == [g EXCEPT !.todo = <<r>>]
  <2>1. Goto(s, h, "putRead")
    BY <1>2 DEF CompileVerdict
  <2>2. Approval(r)
    <3>1. r.id = NthId(1) /\ r.from = g.from
      BY DEF ApprovalRule, RuleOf
    <3> QED
      BY <1>1, <1>2, <3>1 DEF Approval
  <2> HIDE DEF r
  <2>3. h.todo = <<r>> /\ h.words = g.words /\ h.op = g.op
    BY <1>1 DEF IsHandler, Fields
  <2> HIDE DEF h
  <2>4. <<r>> \in Seq({r}) /\ <<r>> # <<>> /\ \A i \in 1..Len(<<r>>) : <<r>>[i] = r
    OBVIOUS
  <2>5. \A i \in 1..Len(h.todo) : Taught(h.op, h.todo[i])
    BY <1>2, <2>2, <2>3, <2>4 DEF Taught, Approves
  <2> QED
    BY <1>1, <2>1, <2>3, <2>4, <2>5, PutReadTaught
<1>3. CASE ~Approves(g) /\ Compiled(g.words) = DOMAIN g.words
           /\ Goto(s, [g EXCEPT !.todo = ProposedRules(g)], "putRead")
  <2> DEFINE todo == ProposedRules(g)
             h == [g EXCEPT !.todo = todo]
  <2>1. Rejects(g) /\ g.action \in Actions /\ g.words # <<>> /\ g.words \in Words
    BY <1>1, <1>3 DEF Approves, Rejects, VerdictOps
  <2>2. Len(g.words) \in Nat /\ DOMAIN g.words = 1..Len(g.words) /\ Len(g.words) # 0
    <3>1. g.words \in Seq(SUBSET STRING)
      BY <1>1 DEF IsHandler
    <3> QED
      BY <2>1, <3>1
  <2>3. ASSUME NEW i \in DOMAIN g.words
        PROVE  Proposal(ProposedRule(NthId(3 * i - 2), g.from, g.words[i], g.action))
    <3>1. Compiles(g.words[i])
      <4>1. i \in 1..i
        BY <2>2
      <4> QED
        BY <1>3, <4>1 DEF Compiled
    <3>2. g.words[i] \in TaughtAtoms
      BY <2>1 DEF TaughtAtoms
    <3> QED
      BY <2>1, <3>1, <3>2, ProposedRuleFields DEF Proposal
  <2> DEFINE S == {todo[i] : i \in DOMAIN g.words}
  <2>4. todo \in [1..Len(g.words) -> S]
    BY <2>2 DEF ProposedRules
  <2>5. \A i \in 1..Len(g.words) : Proposal(todo[i])
    BY <2>2, <2>3 DEF ProposedRules
  <2>6. h.todo = todo /\ h.words = g.words /\ h.op = g.op
    BY <1>1 DEF IsHandler, Fields
  <2>7. Goto(s, h, "putRead")
    BY <1>3
  <2> HIDE DEF h, todo, S
  <2>8. todo \in Seq(S) /\ Len(todo) = Len(g.words) /\ todo # <<>>
    BY <2>2, <2>4, LenProperties
  <2>9. \A i \in 1..Len(h.todo) : Taught(h.op, h.todo[i])
    BY <1>3, <2>5, <2>6, <2>8 DEF Taught, Approves
  <2> QED
    BY <1>1, <2>6, <2>7, <2>8, <2>9, PutReadTaught
<1>4. CASE Throw(s)
  BY <1>1, <1>4, ThrowTaught
<1> QED
  BY <1>2, <1>3, <1>4 DEF CompileVerdict

(***************************************************************************)
(* The rules file: a taught rule joins it, or a proposal becomes active.   *)
(***************************************************************************)
LEMMA StoringTaught ==
    ASSUME TaughtContext, NEW s \in Slots, slot[s].pc \in StoringPcs
    PROVE  LET g == slot[s] IN
           /\ IsHandler(g) /\ g.words \in Words \cup {<<>>}
           /\ g.todo # <<>> /\ \E S : g.todo \in Seq(S)
           /\ Len(g.todo) \in Nat /\ 1 \in 1..Len(g.todo) /\ Head(g.todo) = g.todo[1]
           /\ IsRule(Head(g.todo)) /\ \A i \in 2..Len(g.todo) : Taught(g.op, g.todo[i])
<1> DEFINE g == slot[s]
<1>1. /\ g.todo # <<>> /\ \E S : g.todo \in Seq(S)
      /\ \A i \in 1..Len(g.todo) : IsRule(g.todo[i])
  BY DEF TaughtContext, Context, ApprovalInvariant, HandlerFits, TodoFits
<1>2. Len(g.todo) \in Nat /\ 1 \in 1..Len(g.todo) /\ Head(g.todo) = g.todo[1]
  BY <1>1
<1> QED
  BY <1>1, <1>2, HandlerTaught DEF TaughtFits

(* What a write does to the file.                                          *)
RuleJoins(s) ==
    LET r == Head(slot[s].todo) IN
    /\ Taught(slot[s].op, r) /\ IsRule(r) /\ r.id \notin IdsOf(rules)
    /\ rules' = rules \cup {r}

ProposalActivated(s) ==
    \E q \in rules :
        LET r == [q EXCEPT !.status = "active"] IN
        /\ q.status = "proposed" /\ IsRule(r)
        /\ rules' = (rules \ {q}) \cup {r}

LEMMA WritesAreTaught ==
    ASSUME TaughtContext, NEW s \in Slots, PutWrite(s) \/ UpdateWrite(s)
    PROVE  \/ UNCHANGED rules /\ Throw(s)
           \/ RuleJoins(s) /\ Saved(s, "stored")
           \/ ProposalActivated(s) /\ Saved(s, "activated")
<1> DEFINE g == slot[s]
           r == Head(g.todo)
<1>1. /\ g.read = rules /\ UniqueIds(rules) /\ TaughtFits(g, rules)
      /\ r = g.todo[1] /\ IsRule(r) /\ g.pc \in {"putWrite", "updateWrite"}
      /\ \A q \in rules : IsRule(q)
  <2>1. g.pc \in {"putWrite", "updateWrite"}
    BY DEF PutWrite, UpdateWrite, At
  <2> QED
    BY <2>1, StoringTaught, HandlerTaught
       DEF TaughtContext, SerialRules, RulesFit, TypeInvariant, StoreTyped, Filed, StoringPcs,
           TaughtInvariant
<1>2. CASE PutWrite(s)
  <2>1. g.pc = "putWrite"
    BY <1>2 DEF PutWrite, At
  <2>2. r.id \notin IdsOf(rules) /\ Taught(g.op, r)
    BY <1>1, <2>1 DEF TaughtFits, TaughtContext, TypeInvariant, HandlerTyped
  <2> QED
    BY <1>1, <1>2, <2>2 DEF PutWrite, RuleJoins
<1>3. CASE UpdateWrite(s)
  <2>1. PICK q \in rules : q.status = "proposed" /\ r = [q EXCEPT !.status = "active"]
    BY <1>1, <1>3 DEF UpdateWrite, At, TaughtFits
  <2>2. r.id = q.id
    BY <1>1, <2>1 DEF IsRule
  <2>3. {p \in rules : p.id # r.id} = rules \ {q}
    BY <1>1, <2>2 DEF UniqueIds
  <2>4. UpdateWrite(s) => \/ rules' = {p \in g.read : p.id # r.id} \cup {r} /\ Saved(s, "activated")
                          \/ Throw(s) /\ UNCHANGED rules
    BY DEF UpdateWrite
  <2> HIDE DEF r
  <2> QED
    BY <1>1, <1>3, <2>1, <2>3, <2>4 DEF ProposalActivated
<1> QED
  BY <1>2, <1>3

(* A rule is on file, and the ones after it are still to be stored.        *)
LEMMA SavedTaught ==
    ASSUME TaughtContext, NEW s \in Slots, slot[s].pc \in StoringPcs,
           NEW pc \in {"stored", "activated"}, Saved(s, pc),
           pc = "stored" => Taught(slot[s].op, Head(slot[s].todo)),
           \A r \in rules' : IsRule(r)
    PROVE  TaughtInvariant'
<1> DEFINE g == slot[s]
           h == [g EXCEPT !.read = {}]
<1>1. /\ IsHandler(g) /\ g.words \in Words \cup {<<>>} /\ Head(g.todo) = g.todo[1]
      /\ \A i \in 2..Len(g.todo) : Taught(g.op, g.todo[i])
  BY StoringTaught
<1>2. h.words = g.words /\ h.todo = g.todo /\ h.op = g.op /\ Goto(s, h, pc)
  BY <1>1 DEF IsHandler, Fields, Saved
<1> HIDE DEF h
<1>3. /\ slot'[s].pc = pc /\ slot'[s].words = g.words
      /\ slot'[s].todo = g.todo /\ slot'[s].op = g.op
  BY <1>2, Goes DEF TaughtContext, Context
<1>4. TaughtFits(slot'[s], rules')
  BY <1>1, <1>3 DEF TaughtFits
<1> QED
  BY <1>4, TaughtStep

LEMMA RuleFileTaught ==
    ASSUME TaughtContext, NEW s \in Slots,
           PutRead(s) \/ UpdateRead(s) \/ PutWrite(s) \/ UpdateWrite(s)
    PROVE  TaughtInvariant'
<1> DEFINE g == slot[s]
<1>1. g.pc \in {"putRead", "updateRead", "putWrite", "updateWrite"}
  BY DEF PutRead, UpdateRead, PutWrite, UpdateWrite, At
<1>2. /\ IsHandler(g) /\ g.words \in Words \cup {<<>>} /\ TaughtFits(g, rules)
      /\ \A r \in rules : IsRule(r)
  BY HandlerTaught DEF TaughtFits, TaughtContext, TaughtInvariant
<1>3. ASSUME UNCHANGED rules, NEW pc \in {"putWrite", "updateWrite"}, Load(s, rules, pc),
             pc = "putWrite" <=> g.pc = "putRead", g.pc \in {"putRead", "updateRead"}
      PROVE  TaughtInvariant'
  <2> DEFINE h == [g EXCEPT !.read = rules]
  <2>1. h.words = g.words /\ h.todo = g.todo /\ h.op = g.op /\ Goto(s, h, pc)
    BY <1>2, <1>3 DEF IsHandler, Fields, Load
  <2> HIDE DEF h
  <2>2. /\ slot'[s].pc = pc /\ slot'[s].words = g.words
        /\ slot'[s].todo = g.todo /\ slot'[s].op = g.op
    BY <2>1, Goes DEF TaughtContext, Context
  <2>3. TaughtFits(slot'[s], rules')
    BY <1>2, <1>3, <2>2 DEF TaughtFits, StoringPcs
  <2> QED
    BY <1>2, <1>3, <2>3, TaughtStep
<1>4. CASE PutRead(s)
  <2>1. UNCHANGED rules /\ g.pc = "putRead" /\ (Load(s, rules, "putWrite") \/ Throw(s))
    BY <1>4 DEF PutRead, store, At
  <2> QED
    BY <1>3, <2>1, ThrowTaught
<1>5. CASE UpdateRead(s)
  <2>1. UNCHANGED rules /\ g.pc = "updateRead" /\ (Load(s, rules, "updateWrite") \/ Throw(s))
    BY <1>5 DEF UpdateRead, store, At
  <2> QED
    BY <1>3, <2>1, ThrowTaught
<1>6. CASE PutWrite(s) \/ UpdateWrite(s)
  <2>1. RuleJoins(s) => Taught(g.op, Head(g.todo)) /\ \A r \in rules' : IsRule(r)
    BY <1>2 DEF RuleJoins
  <2>2. ProposalActivated(s) => \A r \in rules' : IsRule(r)
    BY <1>2 DEF ProposalActivated
  <2>3. g.pc \in StoringPcs
    BY <1>1 DEF StoringPcs
  <2> QED
    BY <1>6, <2>1, <2>2, <2>3, WritesAreTaught, SavedTaught, ThrowTaught
<1> QED
  BY <1>4, <1>5, <1>6

LEMMA NextRuleTaught ==
    ASSUME TaughtContext, NEW s \in Slots, UNCHANGED rules,
           slot[s].pc \in {"stored", "activated"}, NEW r, NextRule(s, r)
    PROVE  TaughtInvariant'
<1> DEFINE g == slot[s]
           h == [g EXCEPT !.stored = @ \cup {r}, !.todo = Tail(@)]
<1>1. /\ IsHandler(g) /\ g.words \in Words \cup {<<>>}
      /\ g.todo # <<>> /\ \E S : g.todo \in Seq(S)
      /\ \A i \in 2..Len(g.todo) : Taught(g.op, g.todo[i])
  BY StoringTaught DEF StoringPcs
<1>2. IsHandler(h) /\ h.todo = Tail(g.todo) /\ h.words = g.words /\ h.op = g.op
  BY <1>1 DEF IsHandler, Fields
<1>3. (h.todo # <<>> /\ Goto(s, h, "putRead")) \/ NextItem(s, h)
  BY DEF NextRule
<1> HIDE DEF h
<1>4. \A i \in 1..Len(h.todo) : Taught(h.op, h.todo[i])
  <2>1. PICK S : g.todo \in Seq(S)
    BY <1>1
  <2>2. \A i \in 1..Len(h.todo) : i + 1 \in 2..Len(g.todo) /\ h.todo[i] = g.todo[i + 1]
    BY <1>1, <1>2, <2>1
  <2> QED
    BY <1>1, <1>2, <2>2
<1>5. \E S : h.todo \in Seq(S)
  BY <1>1, <1>2
<1> QED
  BY <1>1, <1>2, <1>3, <1>4, <1>5, PutReadTaught, NextItemTaught

(* A proposal that was stored is made active, or the next rule follows.    *)
LEMMA RuleEventTaught ==
    ASSUME TaughtContext, NEW s \in Slots, RuleStored(s) \/ RuleActivated(s)
    PROVE  TaughtInvariant'
<1> DEFINE g == slot[s]
           r == Head(g.todo)
<1>1. UNCHANGED rules /\ g.pc \in {"stored", "activated"}
  BY DEF RuleStored, RuleActivated, store, At
<1>2. CASE /\ g.pc = "stored" /\ Rejects(g)
           /\ Goto(s, [g EXCEPT !.todo[1].status = "active"], "updateRead")
  <2> DEFINE active == [r EXCEPT !.status = "active"]
             todo == [g.todo EXCEPT ![1] = active]
             h == [g EXCEPT !.todo = todo]
  <2>1. /\ IsHandler(g) /\ g.words \in Words \cup {<<>>} /\ \E S : g.todo \in Seq(S)
        /\ Len(g.todo) \in Nat /\ 1 \in 1..Len(g.todo) /\ r = g.todo[1]
        /\ \A i \in 2..Len(g.todo) : Taught(g.op, g.todo[i])
        /\ TaughtFits(g, rules)
    BY <1>1, StoringTaught, HandlerTaught DEF StoringPcs
  <2>2. r \in rules /\ r.status = "proposed"
    <3>1. r \in rules
      BY <1>2 DEF TaughtContext, SerialRules, RulesFit
    <3>2. Proposal(r)
      BY <1>2, <2>1 DEF TaughtFits, Taught, Rejects
    <3> HIDE DEF r
    <3> QED
      BY <3>1, <3>2, ProposedRuleFields DEF Proposal
  <2>3. /\ [g EXCEPT !.todo[1].status = "active"] = h
        /\ h.todo = todo /\ h.words = g.words /\ h.op = g.op
    BY <2>1 DEF IsHandler, Fields
  <2>4. Goto(s, h, "updateRead")
    BY <1>2, <2>3
  <2> HIDE DEF h
  <2>5. /\ slot'[s].pc = "updateRead" /\ slot'[s].words = g.words
        /\ slot'[s].todo = todo /\ slot'[s].op = g.op
    BY <2>3, <2>4, Goes DEF TaughtContext, Context
  <2> HIDE DEF active
  <2>6. /\ Len(todo) = Len(g.todo) /\ todo[1] = active
        /\ \A i \in 2..Len(todo) : todo[i] = g.todo[i]
    <3>1. PICK S : g.todo \in Seq(S)
      BY <2>1
    <3>2. g.todo \in Seq(S \cup {active})
      BY <3>1, SeqMonotonic
    <3> QED
      BY <2>1, <3>2, ExceptSeq
  <2> HIDE DEF todo, r
  <2>7. TaughtFits(slot'[s], rules')
    BY <1>1, <2>1, <2>2, <2>5, <2>6 DEF TaughtFits, active
  <2> QED
    BY <1>1, <2>7, TaughtStep DEF TaughtContext, TaughtInvariant
<1>3. CASE NextRule(s, r)
  BY <1>1, <1>3, NextRuleTaught
<1> QED
  BY <1>2, <1>3 DEF RuleStored, RuleActivated, At

LEMMA OutcomeTaught ==
    ASSUME TaughtContext, NEW s \in Slots,
           OutcomeRead(s) \/ OutcomeWrite(s) \/ OutcomeSaved(s)
    PROVE  TaughtInvariant'
<1>1. UNCHANGED rules
  BY DEF OutcomeRead, OutcomeWrite, OutcomeSaved, store
<1>2. \/ Load(s, history, "outcomeWrite") \/ Saved(s, "outcomeSaved")
      \/ Goto(s, slot[s], "reply") \/ Throw(s)
  BY DEF OutcomeRead, OutcomeWrite, OutcomeSaved
<1>3. slot[s].words \in Words \cup {<<>>}
  BY HandlerTaught DEF TaughtFits
<1> QED
  BY <1>1, <1>2, <1>3, CopyTaught, ThrowTaught, TaughtFreeStep DEF Load, Saved, TaughtFreePcs

LEMMA RestingTaught ==
    ASSUME TaughtContext, UNCHANGED rules,
           \A s \in Slots : slot'[s] = Idle \/ slot'[s] = slot[s]
    PROVE  TaughtInvariant'
<1>1. Idle.pc = "idle" /\ Idle.words = <<>>
  BY DEF Idle
<1>2. TaughtFits(Idle, rules)
  BY <1>1 DEF TaughtFits, StoringPcs
<1> QED
  BY <1>2 DEF TaughtContext, TaughtInvariant

LEMMA NextKeepsTaught ==
    ASSUME TaughtContext, [Next]_vars
    PROVE  TaughtInvariant'
<1>1. ASSUME NEW s \in Slots, Step(s) PROVE TaughtInvariant'
  <2>1. CASE LookupHistory(s) \/ ReadRules(s) \/ DecideAction(s)
    BY <2>1, DecidingTaught
  <2>2. CASE EnqueueRead(s) \/ EnqueueWrite(s) \/ Answer(s) \/ HistoryRead(s) \/ HistoryWrite(s)
    BY <2>2, HoldTaught, HistoryTaught
  <2>3. CASE ListQueue(s) \/ RemoveRead(s) \/ RemoveWrite(s) \/ Removed(s) \/ CompileVerdict(s)
    BY <2>3, ItemTaught, RemovedTaught, CompileVerdictTaught
  <2>4. CASE PutRead(s) \/ UpdateRead(s) \/ PutWrite(s) \/ UpdateWrite(s)
    BY <2>4, RuleFileTaught
  <2>5. CASE RuleStored(s) \/ RuleActivated(s)
    BY <2>5, RuleEventTaught
  <2>6. CASE OutcomeRead(s) \/ OutcomeWrite(s) \/ OutcomeSaved(s)
    BY <2>6, OutcomeTaught
  <2>7. CASE Reply(s)
    <3>1. UNCHANGED rules /\ slot' = [slot EXCEPT ![s] = Idle]
      BY <2>7 DEF Reply, store
    <3>2. \A t \in Slots : slot'[t] = Idle \/ slot'[t] = slot[t]
      BY <3>1 DEF TaughtContext, Context, ApprovalInvariant
    <3> QED
      BY <3>1, <3>2, RestingTaught
  <2> QED
    BY <1>1, <2>1, <2>2, <2>3, <2>4, <2>5, <2>6, <2>7 DEF Step
<1>2. CASE \E s \in Slots : Start(s) \/ Step(s)
  BY <1>1, <1>2, StartTaught
<1>3. CASE SetMode \/ SetScope \/ SetMatchReplaceRules \/ UNCHANGED vars
  <2>1. UNCHANGED <<rules, slot>>
    BY <1>3 DEF SetMode, SetScope, SetMatchReplaceRules, vars, store
  <2> QED
    BY <2>1, RestingTaught
<1>4. CASE Restart
  <2>1. UNCHANGED rules /\ \A s \in Slots : slot'[s] = Idle
    BY <1>4 DEF Restart, store
  <2> QED
    BY <2>1, RestingTaught
<1> QED
  BY <1>2, <1>3, <1>4 DEF Next

LEMMA InitEstablishesTaught == Init => TaughtInvariant
<1> SUFFICES ASSUME Init PROVE TaughtInvariant
  OBVIOUS
<1>1. rules = {} /\ \A s \in Slots : slot[s] = Idle
  BY DEF Init
<1>2. Idle.pc = "idle" /\ Idle.words = <<>>
  BY DEF Idle
<1> QED
  BY <1>1, <1>2 DEF TaughtInvariant, TaughtFits, StoringPcs

(***************************************************************************)
(* The rule base of PolicyLearning, over every id a process may give.      *)
(***************************************************************************)
Untraced(r) == [r EXCEPT !.from = NoId]

Learning ==
    INSTANCE PolicyLearning WITH
        rules <- {Untraced(r) : r \in rules},
        Corrections <- {NoId},
        Atoms <- TaughtAtoms,
        Exceptions <- {},
        RuleIds <- Nat \X (Nat \ {0})

LEMMA UntracedFields ==
    ASSUME NEW r, IsRule(r)
    PROVE  /\ Untraced(r).id = r.id /\ Untraced(r).status = r.status
           /\ Untraced([r EXCEPT !.status = "active"]) = [Untraced(r) EXCEPT !.status = "active"]
BY DEF IsRule, Untraced

LEMMA UntracedTaught ==
    ASSUME NEW id, NEW from, NEW a, NEW atom
    PROVE  /\ Untraced(ApprovalRule(id, from, a)) = ApprovalRule(id, NoId, a)
           /\ Untraced(ProposedRule(id, from, atom, a)) = ProposedRule(id, NoId, atom, a)
BY DEF Untraced, ApprovalRule, ProposedRule, RuleOf

(* An instance has operators of its own.                                   *)
LEMMA SameCompiler ==
    ASSUME NEW id, NEW from, NEW a, NEW atom
    PROVE  /\ Learning!ApprovalRule(id, from, a) = ApprovalRule(id, from, a)
           /\ Learning!ProposedRule(id, from, atom, a) = ProposedRule(id, from, atom, a)
           /\ Learning!Compiles(atom) = Compiles(atom)
<1>1. Learning!OnReviews(atom) = OnReviews(atom)
  BY DEF OnReviews, Learning!OnReviews
<1>2. Learning!Compiles(atom) = Compiles(atom)
  BY <1>1 DEF Compiles, Learning!Compiles, Templates, Learning!Templates
<1>3. \A f, op, v : Learning!Condition(f, op, v) = Condition(f, op, v)
  BY DEF Condition, Learning!Condition
<1>4. Learning!OriginScope(a) = OriginScope(a)
  BY DEF OriginScope, Learning!OriginScope, TargetPatternFor, Learning!TargetPatternFor,
         NoCondition, Learning!NoCondition, None, Learning!None
<1>5. \A c, d : Learning!Override(c, d) = Override(c, d)
  BY DEF Override, Learning!Override
<1>6. Learning!ApprovalScope(a) = ApprovalScope(a)
  BY <1>3, <1>4, <1>5 DEF ApprovalScope, Learning!ApprovalScope
<1>7. Learning!PullRequestMerge = PullRequestMerge /\ Learning!ForcePush = ForcePush
  BY <1>3 DEF PullRequestMerge, Learning!PullRequestMerge, ForcePush, Learning!ForcePush
<1>8. Learning!InferredScope(atom) = InferredScope(atom)
  BY <1>7 DEF InferredScope, Learning!InferredScope
<1>9. Learning!ReviewCondition(atom) = ReviewCondition(atom)
  BY <1>3 DEF ReviewCondition, Learning!ReviewCondition
<1>10. Learning!CompiledScope(atom, a) = CompiledScope(atom, a)
  BY <1>1, <1>4, <1>5, <1>7, <1>8, <1>9 DEF CompiledScope, Learning!CompiledScope
<1>11. Learning!CompiledVerdict(atom) = CompiledVerdict(atom)
  BY <1>1 DEF CompiledVerdict, Learning!CompiledVerdict
<1> QED
  BY <1>2, <1>6, <1>10, <1>11
     DEF ApprovalRule, Learning!ApprovalRule, ProposedRule, Learning!ProposedRule,
         RuleOf, Learning!RuleOf

LEMMA JoiningIsLearning ==
    ASSUME TaughtContext, TypeInvariant', NEW s \in Slots, RuleJoins(s)
    PROVE  Learning!Next
<1> DEFINE r == Head(slot[s].todo)
           Base == {Untraced(q) : q \in rules}
<1>1. /\ Taught(slot[s].op, r) /\ r.id \notin IdsOf(rules) /\ rules' = rules \cup {r}
  BY DEF RuleJoins
<1>2. r.id \in Nat \X (Nat \ {0})
  BY <1>1 DEF TypeInvariant, StoreTyped, RuleFiled, GivenIds
<1> HIDE DEF r
<1>3. Base' = Base \cup {Untraced(r)}
  BY <1>1
<1>4. r.id \notin {q.id : q \in Base}
  <2> SUFFICES ASSUME NEW q \in rules, Untraced(q).id = r.id PROVE FALSE
    OBVIOUS
  <2>1. q.id = r.id
    BY UntracedFields DEF TaughtContext, TaughtInvariant
  <2> QED
    BY <1>1, <2>1 DEF IdsOf
<1>5. CASE Approval(r)
  <2>1. PICK a \in Actions : r = ApprovalRule(r.id, r.from, a)
    BY <1>5 DEF Approval
  <2>2. Untraced(r) = ApprovalRule(r.id, NoId, a)
    BY <2>1, UntracedTaught
  <2>3. Learning!Approve(r.id, NoId, a)
    BY <1>3, <1>4, <2>2, SameCompiler DEF Learning!Approve, Learning!UsedIds
  <2> QED
    BY <1>2, <2>3 DEF Learning!Next
<1>6. CASE Proposal(r)
  <2>1. PICK a \in Actions, atom \in TaughtAtoms :
            Compiles(atom) /\ r = ProposedRule(r.id, r.from, atom, a)
    BY <1>6 DEF Proposal
  <2>2. Untraced(r) = ProposedRule(r.id, NoId, atom, a)
    BY <2>1, UntracedTaught
  <2>3. Learning!Propose(r.id, NoId, atom, a)
    BY <1>3, <1>4, <2>1, <2>2, SameCompiler DEF Learning!Propose, Learning!UsedIds
  <2> QED
    BY <1>2, <2>1, <2>3 DEF Learning!Next
<1> QED
  BY <1>1, <1>5, <1>6 DEF Taught

LEMMA ActivatingIsLearning ==
    ASSUME TaughtContext, NEW s \in Slots, ProposalActivated(s)
    PROVE  Learning!Next
<1> DEFINE Base == {Untraced(p) : p \in rules}
<1>1. PICK q \in rules :
          /\ q.status = "proposed"
          /\ rules' = (rules \ {q}) \cup {[q EXCEPT !.status = "active"]}
  BY DEF ProposalActivated
<1>2. UniqueIds(rules) /\ \A p \in rules : IsRule(p)
  BY DEF TaughtContext, TypeInvariant, TaughtInvariant, StoreTyped, Filed
<1>3. {Untraced(p) : p \in rules \ {q}} = Base \ {Untraced(q)}
  <2>1. \A p \in rules : Untraced(p).id = p.id
    BY <1>2, UntracedFields
  <2>2. \A p \in rules : Untraced(p) = Untraced(q) => p = q
    BY <1>2, <2>1 DEF UniqueIds
  <2> QED
    BY <2>2
<1> DEFINE active == [q EXCEPT !.status = "active"]
<1>4. Untraced(active) = [Untraced(q) EXCEPT !.status = "active"]
  BY <1>2, UntracedFields
<1> HIDE DEF active
<1>5. Base' = {Untraced(p) : p \in rules \ {q}} \cup {Untraced(active)}
  BY <1>1 DEF active
<1>6. Untraced(q) \in Base /\ Untraced(q).status = "proposed"
  BY <1>1, <1>2, UntracedFields
<1>7. Learning!Activate(Untraced(q))
  BY <1>3, <1>4, <1>5, <1>6 DEF Learning!Activate
<1> QED
  BY <1>6, <1>7 DEF Learning!Next

LEMMA NextLearns ==
    ASSUME TaughtContext, TypeInvariant', [Next]_vars
    PROVE  UNCHANGED rules \/ Learning!Next
<1>1. ASSUME NEW s \in Slots, Start(s) \/ Step(s)
      PROVE  UNCHANGED rules \/ Learning!Next
  <2>1. CASE PutWrite(s) \/ UpdateWrite(s)
    BY <2>1, WritesAreTaught, JoiningIsLearning, ActivatingIsLearning
  <2>2. CASE RuleStored(s) \/ RuleActivated(s)
    BY <2>2 DEF RuleStored, RuleActivated, store
  <2> QED
    BY <1>1, <2>1, <2>2, StepOffTheFile DEF FilingStep
<1>2. CASE SetMode \/ SetScope \/ SetMatchReplaceRules \/ Restart \/ UNCHANGED vars
  BY <1>2 DEF SetMode, SetScope, SetMatchReplaceRules, Restart, vars, store
<1> QED
  BY <1>1, <1>2 DEF Next

(* The gateway implements PolicyLearning, as long as requests do not       *)
(* overlap: each change of the rules file is one approval, one proposal or *)
(* one activation, whatever fails and however often the gateway restarts.  *)
(* The rules keep no trace of the correction they come from.               *)
THEOREM FileImplementsLearning ==
    ASSUME OneRequestAtATime
    PROVE  Spec => Learning!Spec
<1> DEFINE IInv ==
        /\ ApprovalInvariant /\ AuditInvariant /\ SerialRules /\ TypeInvariant
        /\ TaughtInvariant
<1>1. Init => IInv
  BY InitEstablishesInvariant, InitEstablishesAudit, InitEstablishesRules,
     InitEstablishesTypes, InitEstablishesTaught
<1>2. IInv /\ [Next]_vars => IInv'
  <2> SUFFICES ASSUME IInv, [Next]_vars PROVE IInv'
    OBVIOUS
  <2>1. ApprovalInvariant' /\ AuditInvariant' /\ SerialRules'
    BY NextKeepsInvariant, NextKeepsAudit, NextKeepsRules
  <2>2. TypeInvariant'
    BY <2>1, NextKeepsTypes DEF Context
  <2>3. TaughtInvariant'
    BY <2>1, NextKeepsTaught DEF Context, TaughtContext
  <2> QED
    BY <2>1, <2>2, <2>3
<1>3. Init => Learning!Init
  BY DEF Init, Learning!Init
<1>4. IInv /\ IInv' /\ [Next]_vars => [Learning!Next]_{Untraced(r) : r \in rules}
  <2> SUFFICES ASSUME IInv, IInv', [Next]_vars
               PROVE  Learning!Next \/ UNCHANGED {Untraced(r) : r \in rules}
    OBVIOUS
  <2>1. TaughtContext
    BY DEF TaughtContext, Context
  <2>2. UNCHANGED rules => UNCHANGED {Untraced(r) : r \in rules}
    OBVIOUS
  <2> QED
    BY <2>1, <2>2, NextLearns
<1> HIDE DEF IInv
<1> QED
  BY <1>1, <1>2, <1>3, <1>4, PTL DEF Spec, Learning!Spec
-----------------------------------------------------------------------------
(***************************************************************************)
(* The shims.  K are the events sealed so far, A the approved actions.  A  *)
(* shim asks before its command runs, so it is the gateway's handler that  *)
(* brings what the shim is worth: what it answers is sealed by then, and   *)
(* nothing that was sealed or approved is ever taken back.  The shim may   *)
(* outlive the process that answered it, and the outcome that it posts may *)
(* meet a history that another handler has overwritten in between.         *)
(***************************************************************************)
AllowedIn(a, K) ==
    \E e \in K : e.event = "policy.verdict" /\ e.action = a /\ e.decision.allowed

IdAllowedIn(id, K) ==
    \E e \in K : e.event = "policy.verdict" /\ e.action.id = id /\ e.decision.allowed

Granted(j, K, A) ==
    /\ AllowedIn(j.action, K)
    /\ j.mode # "shadow" /\ InScope(j.action, j.scope) => \E a \in A : SameApprovedClass(a, j.action)

EntryEarned(e, K) == e.outcome => IdAllowedIn(e.action.id, K)

OutcomePcs == {"outcomeRead", "outcomeWrite", "outcomeSaved"}

RunFits(h, K) ==
    /\ h.pc \in OutcomePcs => h.op = "outcome"
    /\ h.pc \in {"outcomeRead", "outcomeWrite"} => IdAllowedIn(h.outcomeOf, K)
    /\ h.pc \in {"historyRead", "historyWrite"} => EntryEarned(h.entry, K)
    /\ h.pc \in {"historyWrite", "outcomeWrite"} => \A e \in h.read : EntryEarned(e, K)
    /\ h.op = "intercept" /\ h.pc = "reply" /\ h.ok => Accounted(h.action, h.decision, K)

OutcomesEarned ==
    /\ \A e \in history : EntryEarned(e, Sealed)
    /\ \A s \in Slots : RunFits(slot[s], Sealed)

(* A shim waits for an intercept in flight, and no two for the same one.   *)
Serves(h) == h.op = "intercept" /\ h.pc # "idle"

Waiting ==
    /\ \A p \in Shims, s \in Slots : WaitsOn(p, s) => Serves(slot[s])
    /\ \A p, q \in Shims, s \in Slots : WaitsOn(p, s) /\ WaitsOn(q, s) => p = q

IsShim(sh) == sh = [f \in {"pc", "command", "slot", "judged"} |-> sh[f]]

ShimFits(sh, K, A) ==
    /\ IsShim(sh)
    /\ sh.pc = "exited" => Granted(sh.judged, K, A)
    /\ sh.pc = "allowed" /\ ClassifyCommand(sh.command) # NoEdit => Granted(sh.judged, K, A)

RunsGranted ==
    /\ shim = [p \in Shims |-> shim[p]]
    /\ \A p \in Shims : ShimFits(shim[p], Sealed, ApprovedActions)
    /\ \A r \in ran : Granted(r.judged, Sealed, ApprovedActions)

RunInvariant == OutcomesEarned /\ Waiting /\ RunsGranted

LEMMA GrantedMonotonic ==
    ASSUME NEW K, NEW L, NEW A, NEW B, K \subseteq L, A \subseteq B
    PROVE  /\ \A a : AllowedIn(a, K) => AllowedIn(a, L)
           /\ \A id : IdAllowedIn(id, K) => IdAllowedIn(id, L)
           /\ \A e : EntryEarned(e, K) => EntryEarned(e, L)
           /\ \A j : Granted(j, K, A) => Granted(j, L, B)
           /\ \A h : RunFits(h, K) => RunFits(h, L)
           /\ \A sh : ShimFits(sh, K, A) => ShimFits(sh, L, B)
<1>1. \A a : AllowedIn(a, K) => AllowedIn(a, L)
  BY DEF AllowedIn
<1>2. \A id : IdAllowedIn(id, K) => IdAllowedIn(id, L)
  BY DEF IdAllowedIn
<1>3. \A e : EntryEarned(e, K) => EntryEarned(e, L)
  BY <1>2 DEF EntryEarned
<1>4. \A j : Granted(j, K, A) => Granted(j, L, B)
  BY <1>1 DEF Granted
<1>5. \A a, d : Accounted(a, d, K) => Accounted(a, d, L)
  BY DEF Accounted
<1>6. \A h : RunFits(h, K) => RunFits(h, L)
  BY <1>2, <1>3, <1>5 DEF RunFits
<1>7. \A sh : ShimFits(sh, K, A) => ShimFits(sh, L, B)
  BY <1>4 DEF ShimFits
<1> QED
  BY <1>1, <1>2, <1>3, <1>4, <1>6, <1>7

(* What the shims do to the gateway is a step of it, but for the outcome,  *)
(* which is posted without being counted as a request.                     *)
LEMMA ShimmedStepIsGateways ==
    ASSUME [ShimmedNext]_<<vars, shimVars>>
    PROVE  [Next]_vars \/ \E p \in Shims : \E s \in Slots : PostOutcome(p, s)
<1>1. ASSUME NEW p \in Shims, ShimStep(p)
      PROVE  [Next]_vars \/ \E s \in Slots : PostOutcome(p, s)
  <2>1. CASE RunUngoverned(p) \/ AnswerLost(p) \/ Run(p) \/ OutcomeLost(p)
    BY <2>1 DEF RunUngoverned, AnswerLost, Run, OutcomeLost
  <2>2. ASSUME NEW s \in Slots, AskGateway(p, s) PROVE Start(s)
    BY <2>2 DEF AskGateway, Start
  <2> QED
    BY <1>1, <2>1, <2>2 DEF ShimStep, Next
<1>2. ASSUME NEW s \in Slots, GatewayStep(s) \/ GatewayReplies(s) PROVE Start(s) \/ Step(s)
  BY <1>2 DEF GatewayStep, GatewayReplies, Start, Step
<1>3. CASE GatewayRestarts
  BY <1>3 DEF GatewayRestarts, Next
<1>4. CASE SetMode \/ SetMatchReplaceRules
  BY <1>4 DEF Next
<1>5. CASE UNCHANGED <<vars, shimVars>>
  BY <1>5
<1> QED
  BY <1>1, <1>2, <1>3, <1>4, <1>5 DEF ShimmedNext, Next

LEMMA PostOutcomeIs ==
    ASSUME NEW p \in Shims, NEW s \in Slots, PostOutcome(p, s)
    PROVE  /\ UNCHANGED <<store, ledger, settings, observer>> /\ slot[s].pc = "idle"
           /\ Fresh([Idle EXCEPT !.op = "outcome", !.outcomeOf = shim[p].judged.action.id])
           /\ Goto(s, [Idle EXCEPT !.op = "outcome", !.outcomeOf = shim[p].judged.action.id],
                   "outcomeRead")
BY IdleIsFresh DEF PostOutcome, At

LEMMA PostOutcomeKeeps ==
    ASSUME ApprovalInvariant, AuditInvariant, NEW p \in Shims, NEW s \in Slots, PostOutcome(p, s)
    PROVE  ApprovalInvariant' /\ AuditInvariant'
<1> DEFINE h == [Idle EXCEPT !.op = "outcome", !.outcomeOf = shim[p].judged.action.id]
           next == [h EXCEPT !.pc = "outcomeRead"]
<1>1. /\ UNCHANGED <<rules, queue, history, ledger, archive, settings>>
      /\ Goto(s, h, "outcomeRead")
  BY PostOutcomeIs DEF store, observer
<1>2. /\ IsHandler(next) /\ next.pc = "outcomeRead" /\ next.op = "outcome"
      /\ next.decision = FailedClosed /\ next.entry = NoEdit
  BY IdleIsHandler DEF Idle, IsHandler, Fields
<1> HIDE DEF next
<1>3. HandlerFits(next, ApprovedActions)
  BY <1>2, FreshHandlerFits DEF OpFits, VerdictPcs, StoringPcs
<1>4. AuditFits(next, Sealed)
  BY <1>2 DEF AuditFits, StoringPcs
<1> HIDE DEF h
<1>5. ApprovalInvariant'
  BY <1>1, <1>3, QuietStep DEF next
<1>6. AuditInvariant'
  BY <1>1, <1>4, UnauditedStep DEF next
<1> QED
  BY <1>5, <1>6

LEMMA ShimmedNextKeeps ==
    ASSUME ApprovalInvariant, AuditInvariant, [ShimmedNext]_<<vars, shimVars>>
    PROVE  ApprovalInvariant' /\ AuditInvariant'
BY ShimmedStepIsGateways, NextKeepsInvariant, NextKeepsAudit, PostOutcomeKeeps

LEMMA StepKeepsArchive ==
    ASSUME NEW s \in Slots, Step(s)
    PROVE  archive' = archive
<1>1. CASE LookupHistory(s) \/ ReadRules(s) \/ EnqueueRead(s) \/ HistoryRead(s) \/ ListQueue(s)
  BY <1>1 DEF LookupHistory, ReadRules, EnqueueRead, HistoryRead, ListQueue, observer
<1>2. CASE RemoveRead(s) \/ PutRead(s) \/ UpdateRead(s) \/ OutcomeRead(s) \/ CompileVerdict(s)
  BY <1>2 DEF RemoveRead, PutRead, UpdateRead, OutcomeRead, CompileVerdict, observer
<1>3. CASE EnqueueWrite(s) \/ HistoryWrite(s) \/ RemoveWrite(s) \/ PutWrite(s) \/ UpdateWrite(s)
  BY <1>3 DEF EnqueueWrite, HistoryWrite, RemoveWrite, PutWrite, UpdateWrite, observer
<1>4. CASE DecideAction(s) \/ Answer(s) \/ Removed(s)
  BY <1>4 DEF DecideAction, Answer, Answered, Removed, observer
<1>5. CASE RuleStored(s) \/ RuleActivated(s) \/ OutcomeWrite(s) \/ OutcomeSaved(s) \/ Reply(s)
  BY <1>5 DEF RuleStored, RuleActivated, OutcomeWrite, OutcomeSaved, Reply, observer
<1> QED
  BY <1>1, <1>2, <1>3, <1>4, <1>5 DEF Step

(* Nothing that was sealed is unsealed, and no approval taken back.        *)
LEMMA NothingIsUnsealed ==
    ASSUME ApprovalInvariant, [ShimmedNext]_<<vars, shimVars>>
    PROVE  Sealed \subseteq Sealed' /\ ApprovedActions \subseteq ApprovedActions'
<1> SUFFICES Sealed \subseteq Sealed'
  BY ApprovalsAreKept
<1>1. ASSUME NEW s \in Slots, Start(s) \/ Step(s) PROVE Sealed \subseteq Sealed'
  <2>1. archive' = archive
    BY <1>1, StepKeepsArchive, StartIsFresh DEF observer
  <2>2. CASE UNCHANGED ledger
    BY <2>1, <2>2 DEF Sealed
  <2>3. CASE \E event : Seal(event)
    BY <2>1, <2>3, SealAddsOneEvent DEF ApprovalInvariant
  <2>4. FilingStep(s) => UNCHANGED ledger \/ \E event : Seal(event)
    BY DEF FilingStep, PutWrite, UpdateWrite, RuleStored, RuleActivated
  <2> QED
    BY <1>1, <2>2, <2>3, <2>4, StepOffTheFile
<1>2. CASE SetMode \/ SetScope \/ SetMatchReplaceRules \/ UNCHANGED vars
  <2>1. UNCHANGED <<ledger, archive>>
    BY <1>2 DEF SetMode, SetScope, SetMatchReplaceRules, vars, observer
  <2> QED
    BY <2>1 DEF Sealed
<1>3. CASE Restart
  BY <1>3, DeathKeepsEvents DEF Restart
<1>4. CASE \E p \in Shims : \E s \in Slots : PostOutcome(p, s)
  <2>1. UNCHANGED <<ledger, archive>>
    BY <1>4 DEF PostOutcome, observer
  <2> QED
    BY <2>1 DEF Sealed
<1> QED
  BY <1>1, <1>2, <1>3, <1>4, ShimmedStepIsGateways DEF Next

(* A handler serves the request that it was given until it replies.        *)
LEMMA StepGoes ==
    ASSUME ApprovalInvariant, NEW s \in Slots, Step(s), ~At(s, "reply")
    PROVE  \E h : \E pc :
               Goto(s, h, pc) /\ pc # "idle" /\ (h.op = slot[s].op \/ slot[s].pc = "lookup")
<1> DEFINE g == slot[s]
           Stays == \E h : \E pc : Goto(s, h, pc) /\ pc # "idle" /\ (h.op = g.op \/ g.pc = "lookup")
<1> SUFFICES Stays
  OBVIOUS
<1>1. DOMAIN g = Fields
  BY DEF ApprovalInvariant, HandlerFits, IsHandler
<1>2. ASSUME NEW h, NEW pc, Goto(s, h, pc), pc # "idle", h.op = g.op PROVE Stays
  BY <1>2
<1>3. Throw(s) => Stays
  BY <1>1, <1>2 DEF Throw, Fields
<1>4. ASSUME NEW content, NEW pc, pc # "idle", Load(s, content, pc) \/ Saved(s, pc) PROVE Stays
  BY <1>1, <1>2, <1>4 DEF Load, Saved, Fields
<1>5. ASSUME NEW h, DOMAIN h = Fields, h.op = g.op, NextItem(s, h) PROVE Stays
  BY <1>2, <1>5 DEF NextItem, Fields
<1>6. ASSUME NEW r, NextRule(s, r) PROVE Stays
  <2> DEFINE h == [g EXCEPT !.stored = @ \cup {r}, !.todo = Tail(@)]
  <2>1. DOMAIN h = Fields /\ h.op = g.op
    BY <1>1 DEF Fields
  <2>2. Goto(s, h, "putRead") \/ NextItem(s, h)
    BY <1>6 DEF NextRule
  <2> HIDE DEF h, Stays
  <2> QED
    BY <1>2, <1>5, <2>1, <2>2
<1>7. ASSUME NEW h, h.op = g.op, DOMAIN h = Fields, Answered(s, h) PROVE Stays
  BY <1>2, <1>7 DEF Answered, Fields
<1>8. CASE LookupHistory(s)
  <2>1. g.pc = "lookup" /\ (Throw(s) \/ \E b, mode : Goto(s, Captured("repeater", b, mode), "rules"))
    BY <1>8 DEF LookupHistory, Repeated, At
  <2> QED
    BY <1>3, <2>1
<1>9. CASE ReadRules(s) \/ HistoryRead(s) \/ HistoryWrite(s) \/ RemoveWrite(s)
  <2>1. \/ Throw(s)
        \/ \E content : Load(s, content, "decide") \/ Load(s, content, "historyWrite")
        \/ Saved(s, "compile") \/ Saved(s, "reply") \/ Saved(s, "removed")
        \/ Goto(s, [g EXCEPT !.decision = FailedClosed], "answer")
    BY <1>9 DEF ReadRules, HistoryRead, HistoryWrite, RemoveWrite
  <2>2. [g EXCEPT !.decision = FailedClosed].op = g.op
    BY <1>1 DEF Fields
  <2> HIDE DEF Stays
  <2> QED
    BY <1>2, <1>3, <1>4, <2>1, <2>2
<1>10. CASE EnqueueRead(s) \/ EnqueueWrite(s)
  <2>1. \/ \E content : Load(s, content, "enqueueWrite")
        \/ Saved(s, "answer")
        \/ Goto(s, [g EXCEPT !.decision = FailedClosed, !.queueId = NoId, !.read = {}], "answer")
    BY <1>10 DEF EnqueueRead, EnqueueWrite, HoldFailed
  <2>2. [g EXCEPT !.decision = FailedClosed, !.queueId = NoId, !.read = {}].op = g.op
    BY <1>1 DEF Fields
  <2> HIDE DEF Stays
  <2> QED
    BY <1>2, <1>4, <2>1, <2>2
<1>11. CASE DecideAction(s) \/ Answer(s)
  <2>1. \E d : LET h == [g EXCEPT !.decision = d, !.read = {}] IN
               \/ Goto(s, [h EXCEPT !.queueId = NthId(1)], "enqueueRead")
               \/ Answered(s, h) \/ Answered(s, g)
    BY <1>11 DEF DecideAction, Answer
  <2>2. PICK d : LET h == [g EXCEPT !.decision = d, !.read = {}] IN
                 \/ Goto(s, [h EXCEPT !.queueId = NthId(1)], "enqueueRead")
                 \/ Answered(s, h) \/ Answered(s, g)
    BY <2>1
  <2> DEFINE h == [g EXCEPT !.decision = d, !.read = {}]
  <2>3. /\ DOMAIN h = Fields /\ h.op = g.op /\ DOMAIN [h EXCEPT !.queueId = NthId(1)] = Fields
        /\ [h EXCEPT !.queueId = NthId(1)].op = g.op
    BY <1>1 DEF Fields
  <2>4. Goto(s, [h EXCEPT !.queueId = NthId(1)], "enqueueRead") \/ Answered(s, h) \/ Answered(s, g)
    BY <2>2
  <2> HIDE DEF h, Stays
  <2> QED
    BY <1>1, <1>2, <1>7, <2>3, <2>4
<1>12. CASE RemoveRead(s)
  <2>1. Throw(s) \/ \E a : Goto(s, [g EXCEPT !.read = queue, !.action = a], "removeWrite")
    BY <1>12 DEF RemoveRead
  <2>2. \A a : [g EXCEPT !.read = queue, !.action = a].op = g.op
    BY <1>1 DEF Fields
  <2> HIDE DEF Stays
  <2> QED
    BY <1>2, <1>3, <2>1, <2>2
<1>13. CASE Removed(s)
  <2>1. ASSUME NEW a, NEW from, NEW d, NEW e,
               Goto(s, [[g EXCEPT !.action = a, !.from = from, !.decision = d] EXCEPT !.entry = e],
                    "historyRead")
        PROVE  Stays
    <3> DEFINE h == [[g EXCEPT !.action = a, !.from = from, !.decision = d] EXCEPT !.entry = e]
    <3>1. h.op = g.op
      BY <1>1 DEF Fields
    <3> HIDE DEF h, Stays
    <3> QED
      BY <1>2, <2>1, <3>1 DEF h
  <2> HIDE DEF Stays
  <2> QED
    BY <1>3, <1>13, <2>1 DEF Removed, OperatorDecided
<1>14. CASE ListQueue(s)
  <2>1. Throw(s) \/ NextItem(s, [g EXCEPT !.batch = IdsOf(queue)])
    BY <1>14 DEF ListQueue
  <2>2. DOMAIN [g EXCEPT !.batch = IdsOf(queue)] = Fields /\ [g EXCEPT !.batch = IdsOf(queue)].op = g.op
    BY <1>1 DEF Fields
  <2> HIDE DEF Stays
  <2> QED
    BY <1>3, <1>5, <2>1, <2>2
<1>15. CASE CompileVerdict(s)
  <2>1. Throw(s) \/ \E todo : Goto(s, [g EXCEPT !.todo = todo], "putRead")
    BY <1>15 DEF CompileVerdict
  <2>2. \A todo : [g EXCEPT !.todo = todo].op = g.op
    BY <1>1 DEF Fields
  <2> HIDE DEF Stays
  <2> QED
    BY <1>2, <1>3, <2>1, <2>2
<1>16. CASE PutRead(s) \/ PutWrite(s) \/ UpdateRead(s) \/ UpdateWrite(s)
  <2>1. \/ Throw(s)
        \/ \E content : Load(s, content, "putWrite") \/ Load(s, content, "updateWrite")
        \/ Saved(s, "stored") \/ Saved(s, "activated")
    BY <1>16 DEF PutRead, PutWrite, UpdateRead, UpdateWrite
  <2> HIDE DEF Stays
  <2> QED
    BY <1>3, <1>4, <2>1
<1>17. CASE RuleStored(s) \/ RuleActivated(s)
  <2>1. \/ Goto(s, [g EXCEPT !.todo[1].status = "active"], "updateRead")
        \/ NextRule(s, Head(g.todo))
    BY <1>17 DEF RuleStored, RuleActivated
  <2>2. [g EXCEPT !.todo[1].status = "active"].op = g.op
    BY <1>1 DEF Fields
  <2> HIDE DEF Stays
  <2> QED
    BY <1>2, <1>6, <2>1, <2>2
<1>18. CASE OutcomeRead(s) \/ OutcomeWrite(s) \/ OutcomeSaved(s)
  <2>1. \/ Throw(s) \/ Goto(s, g, "reply") \/ Saved(s, "outcomeSaved")
        \/ \E content : Load(s, content, "outcomeWrite")
    BY <1>18 DEF OutcomeRead, OutcomeWrite, OutcomeSaved
  <2> HIDE DEF Stays
  <2> QED
    BY <1>2, <1>3, <1>4, <2>1
<1>19. ~Reply(s)
  BY DEF Reply
<1> HIDE DEF Stays
<1> QED
  BY <1>8, <1>9, <1>10, <1>11, <1>12, <1>13, <1>14, <1>15, <1>16, <1>17, <1>18, <1>19 DEF Step

LEMMA StepServes ==
    ASSUME ApprovalInvariant, ApprovalInvariant', NEW s \in Slots, Step(s), ~At(s, "reply")
    PROVE  /\ slot'[s].op = slot[s].op \/ slot[s].pc = "lookup"
           /\ slot'[s].pc # "idle"
BY StepGoes, Goes

(***************************************************************************)
(* The gateway's own steps keep the outcomes earned.                       *)
(***************************************************************************)
EarnedContext ==
    /\ ApprovalInvariant /\ ApprovalInvariant' /\ AuditInvariant /\ OutcomesEarned
    /\ Sealed \subseteq Sealed'

LEMMA EarnedStep ==
    ASSUME EarnedContext, NEW s \in Slots, NEW h, NEW pc, Goto(s, h, pc),
           \A e \in history' : e \in history \/ EntryEarned(e, Sealed'), RunFits(slot'[s], Sealed')
    PROVE  OutcomesEarned'
<1>1. slot = [t \in Slots |-> slot[t]] /\ slot' = [slot EXCEPT ![s] = [h EXCEPT !.pc = pc]]
  BY DEF EarnedContext, ApprovalInvariant, Goto
<1>2. \A t \in Slots \ {s} : slot'[t] = slot[t]
  BY <1>1
<1>3. \A t \in Slots : RunFits(slot'[t], Sealed')
  BY <1>2, GrantedMonotonic DEF EarnedContext, OutcomesEarned
<1>4. \A e \in history' : EntryEarned(e, Sealed')
  BY GrantedMonotonic DEF EarnedContext, OutcomesEarned
<1> QED
  BY <1>3, <1>4 DEF OutcomesEarned

LEMMA EarnedFreeStep ==
    ASSUME EarnedContext, NEW s \in Slots, NEW h, NEW pc, Goto(s, h, pc), history' = history,
           pc \notin OutcomePcs \cup {"historyRead", "historyWrite"},
           pc = "reply" => slot'[s].op # "intercept"
    PROVE  OutcomesEarned'
<1>1. slot'[s].pc = pc
  BY Goes DEF EarnedContext
<1>2. RunFits(slot'[s], Sealed')
  BY <1>1 DEF RunFits, OutcomePcs
<1> QED
  BY <1>2, EarnedStep

LEMMA ThrowEarned ==
    ASSUME EarnedContext, NEW s \in Slots, Throw(s), history' = history
    PROVE  OutcomesEarned'
<1> DEFINE next == [[slot[s] EXCEPT !.ok = FALSE] EXCEPT !.pc = "reply"]
<1>1. DOMAIN slot[s] = Fields /\ slot = [t \in Slots |-> slot[t]]
  BY DEF EarnedContext, ApprovalInvariant, HandlerFits, IsHandler
<1>2. Goto(s, [slot[s] EXCEPT !.ok = FALSE], "reply")
  BY DEF Throw
<1>3. slot'[s] = next /\ next.pc = "reply" /\ next.ok = FALSE
  BY <1>1, <1>2 DEF Goto, Fields
<1> HIDE DEF next
<1>4. RunFits(slot'[s], Sealed')
  BY <1>3 DEF RunFits, OutcomePcs
<1> QED
  BY <1>2, <1>4, EarnedStep

(* A new entry has no outcome.                                             *)
LEMMA EnteredEarned ==
    ASSUME EarnedContext, NEW s \in Slots, NEW h, DOMAIN h = Fields, NEW g, NEW id,
           Goto(s, [h EXCEPT !.entry = Entry(g, id)], "historyRead"), history' = history
    PROVE  OutcomesEarned'
<1> DEFINE entry == Entry(g, id)
<1>1. entry.outcome = FALSE
  BY DEF Entry
<1> HIDE DEF entry
<1>2. [h EXCEPT !.entry = entry].entry = entry
  BY DEF Fields
<1>3. slot'[s].pc = "historyRead" /\ slot'[s].entry = entry
  BY <1>2, Goes DEF EarnedContext, entry
<1>4. RunFits(slot'[s], Sealed')
  BY <1>1, <1>3 DEF RunFits, OutcomePcs, EntryEarned
<1> QED
  BY <1>4, EarnedStep

LEMMA HistoryEarned ==
    ASSUME EarnedContext, NEW s \in Slots, HistoryRead(s) \/ HistoryWrite(s)
    PROVE  OutcomesEarned'
<1> DEFINE g == slot[s]
<1>1. /\ DOMAIN g = Fields /\ RunFits(g, Sealed) /\ AuditFits(g, Sealed)
      /\ \A e \in history : EntryEarned(e, Sealed)
      /\ slot = [t \in Slots |-> slot[t]]
  BY DEF EarnedContext, ApprovalInvariant, HandlerFits, IsHandler, OutcomesEarned, AuditInvariant
<1>2. \A e : EntryEarned(e, Sealed) => EntryEarned(e, Sealed')
  BY GrantedMonotonic DEF EarnedContext
<1>3. Throw(s) /\ UNCHANGED history => OutcomesEarned'
  BY ThrowEarned
<1>4. CASE HistoryRead(s)
  <2>1. CASE Load(s, history, "historyWrite")
    <3> DEFINE h == [g EXCEPT !.read = history]
    <3>1. Goto(s, h, "historyWrite") /\ g.pc = "historyRead" /\ history' = history
      BY <1>4, <2>1 DEF HistoryRead, Load, At, store
    <3>2. h.read = history /\ h.entry = g.entry
      BY <1>1 DEF Fields
    <3> HIDE DEF h
    <3>3. slot'[s].pc = "historyWrite" /\ slot'[s].entry = g.entry /\ slot'[s].read = history
      BY <3>1, <3>2, Goes DEF EarnedContext
    <3>4. EntryEarned(g.entry, Sealed)
      BY <1>1, <3>1 DEF RunFits
    <3>5. RunFits(slot'[s], Sealed')
      BY <1>1, <1>2, <3>3, <3>4 DEF RunFits, OutcomePcs
    <3> QED
      BY <3>1, <3>5, EarnedStep
  <2> QED
    BY <1>3, <1>4, <2>1 DEF HistoryRead, store
<1>5. CASE HistoryWrite(s)
  <2>1. g.pc = "historyWrite"
    BY <1>5 DEF HistoryWrite, At
  <2>2. ASSUME NEW pc \in {"compile", "reply"}, Saved(s, pc), history' = g.read \cup {g.entry}
        PROVE  OutcomesEarned'
    <3> DEFINE h == [g EXCEPT !.read = {}]
    <3>1. Goto(s, h, pc)
      BY <2>2 DEF Saved
    <3>2. h.action = g.action /\ h.decision = g.decision
      BY <1>1 DEF Fields
    <3> HIDE DEF h
    <3>3. slot'[s].pc = pc /\ slot'[s].action = g.action /\ slot'[s].decision = g.decision
      BY <3>1, <3>2, Goes DEF EarnedContext
    <3>4. Accounted(g.action, g.decision, Sealed')
      BY <1>1, <2>1 DEF AuditFits, Accounted, EarnedContext
    <3>5. RunFits(slot'[s], Sealed')
      BY <3>3, <3>4 DEF RunFits, OutcomePcs
    <3>6. \A e \in history' : EntryEarned(e, Sealed')
      BY <1>1, <1>2, <2>1, <2>2 DEF RunFits
    <3> QED
      BY <3>1, <3>5, <3>6, EarnedStep
  <2> QED
    BY <1>3, <1>5, <2>2 DEF HistoryWrite
<1> QED
  BY <1>4, <1>5

LEMMA OutcomeEarned ==
    ASSUME EarnedContext, NEW s \in Slots, OutcomeRead(s) \/ OutcomeWrite(s) \/ OutcomeSaved(s)
    PROVE  OutcomesEarned'
<1> DEFINE g == slot[s]
<1>1. /\ DOMAIN g = Fields /\ RunFits(g, Sealed) /\ AuditFits(g, Sealed)
      /\ \A e \in history : EntryEarned(e, Sealed)
  BY DEF EarnedContext, ApprovalInvariant, HandlerFits, IsHandler, OutcomesEarned, AuditInvariant
<1>2. /\ \A e : EntryEarned(e, Sealed) => EntryEarned(e, Sealed')
      /\ \A id : IdAllowedIn(id, Sealed) => IdAllowedIn(id, Sealed')
  BY GrantedMonotonic DEF EarnedContext
<1>3. g.pc \in OutcomePcs /\ g.op = "outcome"
  <2>1. g.pc \in OutcomePcs
    BY DEF OutcomeRead, OutcomeWrite, OutcomeSaved, At, OutcomePcs
  <2> QED
    BY <1>1, <2>1 DEF RunFits
<1>4. Throw(s) /\ UNCHANGED history => OutcomesEarned'
  BY ThrowEarned
<1>5. CASE OutcomeRead(s)
  <2>1. CASE Load(s, history, "outcomeWrite")
    <3> DEFINE h == [g EXCEPT !.read = history]
    <3>1. Goto(s, h, "outcomeWrite") /\ g.pc = "outcomeRead" /\ history' = history
      BY <1>5, <2>1 DEF OutcomeRead, Load, At, store
    <3>2. h.read = history /\ h.op = g.op /\ h.outcomeOf = g.outcomeOf
      BY <1>1 DEF Fields
    <3> HIDE DEF h
    <3>3. slot'[s].pc = "outcomeWrite" /\ slot'[s].op = "outcome" /\ slot'[s].outcomeOf = g.outcomeOf
          /\ slot'[s].read = history
      BY <1>3, <3>1, <3>2, Goes DEF EarnedContext
    <3>4. IdAllowedIn(g.outcomeOf, Sealed')
      BY <1>1, <1>2, <3>1 DEF RunFits
    <3>5. RunFits(slot'[s], Sealed')
      BY <1>1, <1>2, <3>3, <3>4 DEF RunFits, OutcomePcs
    <3> QED
      BY <3>1, <3>5, EarnedStep
  <2> QED
    BY <1>4, <1>5, <2>1 DEF OutcomeRead, store
<1>6. CASE OutcomeWrite(s)
  <2> DEFINE Marked(e) == [e EXCEPT !.outcome = @ \/ e.action.id = g.outcomeOf]
  <2>1. g.pc = "outcomeWrite"
    BY <1>6 DEF OutcomeWrite, At
  <2>2. CASE history' = {Marked(e) : e \in g.read} /\ Saved(s, "outcomeSaved")
    <3>1. IdAllowedIn(g.outcomeOf, Sealed)
      BY <1>1, <2>1 DEF RunFits
    <3>2. ASSUME NEW e \in g.read PROVE EntryEarned(Marked(e), Sealed')
      <4>1. EntryEarned(e, Sealed) /\ IsEntry(e)
        BY <1>1, <2>1 DEF RunFits, AuditFits, EntryFits
      <4>2. Marked(e).action = e.action /\ Marked(e).outcome = (e.outcome \/ e.action.id = g.outcomeOf)
        BY <4>1 DEF IsEntry, EntryFields
      <4> HIDE DEF Marked
      <4>3. Marked(e).outcome => IdAllowedIn(e.action.id, Sealed)
        BY <3>1, <4>1, <4>2 DEF EntryEarned
      <4> QED
        BY <1>2, <4>2, <4>3 DEF EntryEarned
    <3> HIDE DEF Marked
    <3>3. \A e \in history' : EntryEarned(e, Sealed')
      BY <2>2, <3>2
    <3> DEFINE h == [g EXCEPT !.read = {}]
    <3>4. Goto(s, h, "outcomeSaved") /\ h.op = g.op
      BY <1>1, <2>2 DEF Saved, Fields
    <3> HIDE DEF h
    <3>5. slot'[s].pc = "outcomeSaved" /\ slot'[s].op = "outcome"
      BY <1>3, <3>4, Goes DEF EarnedContext
    <3>6. RunFits(slot'[s], Sealed')
      BY <3>5 DEF RunFits, OutcomePcs
    <3> QED
      BY <3>3, <3>4, <3>6, EarnedStep
  <2> QED
    BY <1>4, <1>6, <2>2 DEF OutcomeWrite
<1>7. CASE OutcomeSaved(s)
  <2>1. Goto(s, g, "reply") /\ history' = history
    BY <1>7 DEF OutcomeSaved, store
  <2>2. slot'[s].op = "outcome"
    BY <1>3, <2>1, Goes DEF EarnedContext
  <2> QED
    BY <2>1, <2>2, EarnedFreeStep DEF OutcomePcs
<1> QED
  BY <1>5, <1>6, <1>7

LEMMA RuleStepEarned ==
    ASSUME EarnedContext, NEW s \in Slots, RuleStep(s)
    PROVE  OutcomesEarned'
<1>1. slot[s].pc \in VerdictPcs
  BY DEF RuleStep, ListQueue, CompileVerdict, PutRead, PutWrite, RuleStored, UpdateRead, UpdateWrite,
         RuleActivated, At, VerdictPcs, StoringPcs
<1>2. slot[s].op \in VerdictOps
  BY <1>1 DEF EarnedContext, ApprovalInvariant, HandlerFits, OpFits
<1>3. Step(s) /\ ~At(s, "reply") /\ slot[s].pc # "lookup"
  BY <1>1 DEF RuleStep, Step, At, VerdictPcs, StoringPcs
<1>4. slot'[s].op # "intercept"
  BY <1>2, <1>3, StepServes DEF EarnedContext, VerdictOps
<1>5. PICK h : \E pc \in {"reply", "removeRead"} \cup StoringPcs : Goto(s, h, pc)
  BY RuleStepMoves
<1>6. history' = history
  BY RuleStepMoves
<1> QED
  BY <1>4, <1>5, <1>6, EarnedFreeStep DEF OutcomePcs, StoringPcs

(* Before an answer is there, and while an item is taken off the queue.    *)
LEMMA SilentStepEarned ==
    ASSUME EarnedContext, NEW s \in Slots,
           \/ LookupHistory(s) \/ ReadRules(s) \/ EnqueueRead(s) \/ EnqueueWrite(s)
           \/ RemoveRead(s) \/ RemoveWrite(s)
    PROVE  OutcomesEarned'
<1> DEFINE g == slot[s]
<1>1. history' = history
  BY DEF LookupHistory, ReadRules, EnqueueRead, EnqueueWrite, RemoveRead, RemoveWrite, store
<1>2. \/ Throw(s)
      \/ \E h : \E pc \in {"rules", "decide", "answer", "enqueueWrite", "removeWrite", "removed"} :
            Goto(s, h, pc)
  <2>1. CASE LookupHistory(s)
    BY <2>1 DEF LookupHistory, Repeated
  <2>2. CASE ReadRules(s)
    BY <2>2 DEF ReadRules, Load
  <2>3. CASE EnqueueRead(s) \/ EnqueueWrite(s)
    BY <2>3 DEF EnqueueRead, EnqueueWrite, HoldFailed, Load, Saved
  <2>4. CASE RemoveRead(s)
    BY <2>4 DEF RemoveRead
  <2>5. CASE RemoveWrite(s)
    BY <2>5 DEF RemoveWrite, Saved
  <2> QED
    BY <2>1, <2>2, <2>3, <2>4, <2>5
<1> QED
  BY <1>1, <1>2, ThrowEarned, EarnedFreeStep DEF OutcomePcs

LEMMA AnsweredEarned ==
    ASSUME EarnedContext, NEW s \in Slots, NEW h, DOMAIN h = Fields, Answered(s, h)
    PROVE  OutcomesEarned'
BY EnteredEarned DEF Answered, store

LEMMA DecidingEarned ==
    ASSUME EarnedContext, NEW s \in Slots, DecideAction(s) \/ Answer(s) \/ Removed(s)
    PROVE  OutcomesEarned'
<1> DEFINE g == slot[s]
<1>1. DOMAIN g = Fields
  BY DEF EarnedContext, ApprovalInvariant, HandlerFits, IsHandler
<1>2. CASE DecideAction(s)
  <2> DEFINE d == Decide(g.action, g.read, g.mode, g.scope)
             h == [g EXCEPT !.decision = d, !.read = {}]
  <2>1. \/ Goto(s, [h EXCEPT !.queueId = NthId(1)], "enqueueRead") /\ history' = history
        \/ Answered(s, h)
    BY <1>2 DEF DecideAction, store
  <2>2. DOMAIN h = Fields
    BY <1>1 DEF Fields
  <2> HIDE DEF h
  <2> QED
    BY <2>1, <2>2, AnsweredEarned, EarnedFreeStep DEF OutcomePcs
<1>3. CASE Answer(s)
  BY <1>1, <1>3, AnsweredEarned DEF Answer
<1>4. CASE Removed(s)
  <2> DEFINE h == [g EXCEPT !.action = ActedOn(g), !.from = NthId(1), !.decision = OperatorDecision(g)]
  <2>1. history' = history
    BY <1>4 DEF Removed, store
  <2>2. Throw(s) \/ Goto(s, [h EXCEPT !.entry = Entry(h, NthId(3))], "historyRead")
    BY <1>4 DEF Removed, OperatorDecided
  <2>3. DOMAIN h = Fields
    BY <1>1 DEF Fields
  <2> HIDE DEF h
  <2> QED
    BY <2>1, <2>2, <2>3, ThrowEarned, EnteredEarned
<1> QED
  BY <1>2, <1>3, <1>4

LEMMA ReplyEarned ==
    ASSUME EarnedContext, NEW s \in Slots, Reply(s)
    PROVE  OutcomesEarned'
<1>1. Idle.pc = "idle"
  BY DEF Idle
<1>2. [Idle EXCEPT !.pc = "idle"] = Idle
  BY IdleIsHandler DEF IsHandler, Idle, Fields
<1>3. Goto(s, Idle, "idle") /\ history' = history
  BY <1>2 DEF Reply, Goto, store
<1> QED
  BY <1>3, EarnedFreeStep DEF OutcomePcs

LEMMA StepEarned ==
    ASSUME EarnedContext, NEW s \in Slots, Step(s)
    PROVE  OutcomesEarned'
<1>1. CASE LookupHistory(s) \/ ReadRules(s) \/ EnqueueRead(s) \/ EnqueueWrite(s)
  BY <1>1, SilentStepEarned
<1>2. CASE RemoveRead(s) \/ RemoveWrite(s)
  BY <1>2, SilentStepEarned
<1>3. CASE DecideAction(s) \/ Answer(s) \/ Removed(s)
  BY <1>3, DecidingEarned
<1>4. CASE HistoryRead(s) \/ HistoryWrite(s)
  BY <1>4, HistoryEarned
<1>5. CASE RuleStep(s)
  BY <1>5, RuleStepEarned
<1>6. CASE OutcomeRead(s) \/ OutcomeWrite(s) \/ OutcomeSaved(s)
  BY <1>6, OutcomeEarned
<1>7. CASE Reply(s)
  BY <1>7, ReplyEarned
<1> QED
  BY <1>1, <1>2, <1>3, <1>4, <1>5, <1>6, <1>7 DEF Step, RuleStep

(* Of what arrives, an outcome alone is worth anything to the history.     *)
LEMMA ArrivalEarned ==
    ASSUME EarnedContext, NEW s \in Slots, StartIntercept(s) \/ StartVerdict(s)
    PROVE  OutcomesEarned'
<1>1. history' = history
  BY DEF StartIntercept, StartVerdict, Accept, store
<1>2. \E h : \E pc \in {"rules", "removeRead"} : Goto(s, h, pc)
  BY DEF StartIntercept, StartVerdict
<1> QED
  BY <1>1, <1>2, EarnedFreeStep DEF OutcomePcs

LEMMA OutcomeArrives ==
    ASSUME EarnedContext, RunsGranted, NEW p \in Shims, NEW s \in Slots, PostOutcome(p, s)
    PROVE  OutcomesEarned'
<1> DEFINE h == [Idle EXCEPT !.op = "outcome", !.outcomeOf = shim[p].judged.action.id]
<1>1. Goto(s, h, "outcomeRead") /\ history' = history
  BY PostOutcomeIs DEF store
<1>2. h.op = "outcome" /\ h.outcomeOf = shim[p].judged.action.id
  BY DEF Idle
<1> HIDE DEF h
<1>3. /\ slot'[s].pc = "outcomeRead" /\ slot'[s].op = "outcome"
      /\ slot'[s].outcomeOf = shim[p].judged.action.id
  BY <1>1, <1>2, Goes DEF EarnedContext
<1>4. AllowedIn(shim[p].judged.action, Sealed)
  BY DEF PostOutcome, RunsGranted, ShimFits, Granted
<1>5. IdAllowedIn(shim[p].judged.action.id, Sealed')
  <2>1. IdAllowedIn(shim[p].judged.action.id, Sealed)
    BY <1>4 DEF AllowedIn, IdAllowedIn
  <2> QED
    BY <2>1, GrantedMonotonic DEF EarnedContext
<1>6. RunFits(slot'[s], Sealed')
  BY <1>3, <1>5 DEF RunFits, OutcomePcs
<1> QED
  BY <1>1, <1>6, EarnedStep

LEMMA NextKeepsOutcomes ==
    ASSUME EarnedContext, RunsGranted, [ShimmedNext]_<<vars, shimVars>>
    PROVE  OutcomesEarned'
<1>1. CASE UNCHANGED vars \/ SetMode \/ SetMatchReplaceRules
  <2>1. UNCHANGED <<history, slot, ledger, archive>>
    BY <1>1 DEF vars, store, observer, SetMode, SetMatchReplaceRules
  <2> QED
    BY <2>1 DEF EarnedContext, OutcomesEarned, Sealed
<1>2. CASE Restart
  <2>1. history' = history /\ Sealed' = Sealed /\ slot' = [s \in Slots |-> Idle]
    BY <1>2, DeathKeepsEvents DEF Restart, store
  <2>2. RunFits(Idle, Sealed)
    BY DEF RunFits, Idle, OutcomePcs
  <2> QED
    BY <2>1, <2>2 DEF EarnedContext, OutcomesEarned
<1>3. ASSUME NEW p \in Shims, ShimStep(p)
      PROVE  \/ UNCHANGED vars
             \/ \E s \in Slots : StartIntercept(s) \/ PostOutcome(p, s)
  BY <1>3 DEF ShimStep, RunUngoverned, AnswerLost, Run, OutcomeLost, AskGateway
<1>4. ASSUME NEW s \in Slots, GatewayStep(s) \/ GatewayReplies(s)
      PROVE  StartVerdict(s) \/ Step(s)
  BY <1>4 DEF GatewayStep, GatewayReplies, Step
<1> QED
  BY <1>1, <1>2, <1>3, <1>4, ArrivalEarned, StepEarned, OutcomeArrives
     DEF ShimmedNext, GatewayRestarts

(***************************************************************************)
(* Who waits for whom.                                                     *)
(***************************************************************************)
LEMMA ShimMoves ==
    ASSUME RunsGranted, NEW p \in Shims, NEW sh, Becomes(p, sh)
    PROVE  /\ shim' = [q \in Shims |-> shim'[q]] /\ shim'[p] = sh
           /\ \A q \in Shims \ {p} : shim'[q] = shim[q]
BY DEF RunsGranted, Becomes

LEMMA NotRunningIsShim ==
    /\ DOMAIN NotRunning = {"pc", "command", "slot", "judged"}
    /\ NotRunning.pc = "idle" /\ \A K, A : ShimFits(NotRunning, K, A)
BY DEF NotRunning, ShimFits, IsShim

(* A shim that stops waiting, or never did.                                *)
LEMMA ShimStepWaits ==
    ASSUME Waiting, RunsGranted, NEW p \in Shims, NEW sh, Becomes(p, sh), sh.pc # "waiting",
           \A q \in Shims \ {p}, s \in Slots : WaitsOn(q, s) => Serves(slot'[s])
    PROVE  Waiting'
<1>1. shim'[p] = sh /\ \A q \in Shims \ {p} : shim'[q] = shim[q]
  BY ShimMoves
<1>2. \A q \in Shims, s \in Slots : WaitsOn(q, s)' => q # p /\ WaitsOn(q, s)
  BY <1>1 DEF WaitsOn
<1> QED
  BY <1>2 DEF Waiting

LEMMA AskWaits ==
    ASSUME ApprovalInvariant, ApprovalInvariant', Waiting, RunsGranted,
           NEW p \in Shims, NEW s \in Slots, AskGateway(p, s)
    PROVE  Waiting'
<1>1. PICK c \in Commands : Becomes(p, [NotRunning EXCEPT !.pc = "waiting", !.command = c, !.slot = s])
  BY DEF AskGateway
<1> DEFINE sh == [NotRunning EXCEPT !.pc = "waiting", !.command = c, !.slot = s]
<1>2. sh.slot = s
  BY NotRunningIsShim
<1> HIDE DEF sh
<1>3. shim'[p] = sh /\ \A q \in Shims \ {p} : shim'[q] = shim[q]
  BY <1>1, ShimMoves DEF sh
<1>4. StartIntercept(s)
  BY DEF AskGateway
<1>5. PICK h : Goto(s, h, "rules") /\ h.op = "intercept"
  <2>1. \A a, mode : Captured("intercept", a, mode).op = "intercept"
    BY DEF Captured, Idle
  <2> QED
    BY <1>4, <2>1 DEF StartIntercept
<1>6. Serves(slot'[s]) /\ ~Serves(slot[s])
  BY <1>4, <1>5, Goes DEF Serves, StartIntercept, Accept, At
<1>7. \A t \in Slots \ {s} : slot'[t] = slot[t]
  BY <1>5 DEF Goto, ApprovalInvariant
<1>8. \A q \in Shims \ {p}, t \in Slots : WaitsOn(q, t)' => t # s /\ WaitsOn(q, t)
  BY <1>3, <1>6 DEF WaitsOn, Waiting
<1>9. \A t \in Slots : WaitsOn(p, t)' => t = s
  BY <1>2, <1>3 DEF WaitsOn
<1> QED
  BY <1>6, <1>7, <1>8, <1>9 DEF Waiting

LEMMA GatewayStepWaits ==
    ASSUME ApprovalInvariant, ApprovalInvariant', Waiting, NEW s \in Slots, GatewayStep(s)
    PROVE  Waiting'
<1>1. shim' = shim
  BY DEF GatewayStep, shimVars
<1>2. \E h : \E pc : Goto(s, h, pc)
  <2>1. CASE StartVerdict(s)
    BY <2>1 DEF StartVerdict
  <2>2. CASE Step(s) /\ ~At(s, "reply")
    BY <2>2, StepGoes
  <2> QED
    BY <2>1, <2>2 DEF GatewayStep
<1>3. \A t \in Slots \ {s} : slot'[t] = slot[t]
  BY <1>2 DEF Goto, ApprovalInvariant
<1>4. Serves(slot[s]) => Serves(slot'[s])
  <2>1. CASE StartVerdict(s)
    BY <2>1 DEF StartVerdict, Accept, At, Serves
  <2>2. CASE Step(s) /\ ~At(s, "reply")
    <3>1. slot[s].pc = "lookup" => slot[s].op # "intercept"
      BY DEF ApprovalInvariant, HandlerFits, OpFits
    <3> QED
      BY <2>2, <3>1, StepServes DEF Serves
  <2> QED
    BY <2>1, <2>2 DEF GatewayStep
<1> QED
  BY <1>1, <1>3, <1>4 DEF Waiting, WaitsOn

LEMMA ReplyWaits ==
    ASSUME ApprovalInvariant, Waiting, RunsGranted, NEW s \in Slots, GatewayReplies(s)
    PROVE  Waiting'
<1>1. \A t \in Slots \ {s} : slot'[t] = slot[t]
  BY DEF GatewayReplies, Reply, ApprovalInvariant
<1>2. CASE \E p \in Shims : WaitsOn(p, s) /\ Heard(p, slot[s])
  <2>1. PICK p \in Shims : WaitsOn(p, s) /\ Heard(p, slot[s])
    BY <1>2
  <2>2. \A q \in Shims \ {p} : ~WaitsOn(q, s)
    BY <2>1 DEF Waiting
  <2>3. \A q \in Shims \ {p}, t \in Slots : WaitsOn(q, t) => Serves(slot'[t])
    BY <1>1, <2>2 DEF Waiting
  <2>4. IsShim(shim[p])
    BY DEF RunsGranted, ShimFits
  <2>5. CASE Becomes(p, NotRunning)
    BY <2>3, <2>5, NotRunningIsShim, ShimStepWaits
  <2>6. CASE Becomes(p, [shim[p] EXCEPT !.pc = "allowed", !.slot = NoEdit, !.judged = Judged(slot[s])])
    <3> DEFINE sh == [shim[p] EXCEPT !.pc = "allowed", !.slot = NoEdit, !.judged = Judged(slot[s])]
    <3>1. sh.pc = "allowed"
      BY <2>4 DEF IsShim
    <3> HIDE DEF sh
    <3> QED
      BY <2>3, <2>6, <3>1, ShimStepWaits DEF sh
  <2> QED
    BY <2>1, <2>5, <2>6 DEF Heard, FailsClosed, Judged
<1>3. CASE (~\E p \in Shims : WaitsOn(p, s)) /\ UNCHANGED shim
  BY <1>1, <1>3 DEF Waiting, WaitsOn
<1> QED
  BY <1>2, <1>3 DEF GatewayReplies

LEMMA NextKeepsWaiting ==
    ASSUME ApprovalInvariant, ApprovalInvariant', Waiting, RunsGranted,
           [ShimmedNext]_<<vars, shimVars>>
    PROVE  Waiting'
<1>1. CASE UNCHANGED <<slot, shim>>
  BY <1>1 DEF Waiting, WaitsOn
<1>2. ASSUME NEW p \in Shims, RunUngoverned(p) \/ AnswerLost(p) \/ Run(p) \/ OutcomeLost(p)
      PROVE  Waiting'
  <2>1. slot' = slot
    BY <1>2 DEF RunUngoverned, AnswerLost, Run, OutcomeLost, vars
  <2>2. IsShim(shim[p])
    BY DEF RunsGranted, ShimFits
  <2>3. \A c : [NotRunning EXCEPT !.pc = "allowed", !.command = c].pc = "allowed"
    BY NotRunningIsShim
  <2>4. [shim[p] EXCEPT !.pc = "exited"].pc = "exited"
    BY <2>2 DEF IsShim
  <2>5. \E sh : Becomes(p, sh) /\ sh.pc # "waiting"
    <3>1. CASE RunUngoverned(p)
      BY <2>3, <3>1 DEF RunUngoverned
    <3>2. CASE AnswerLost(p) \/ OutcomeLost(p)
      BY <3>2, NotRunningIsShim DEF AnswerLost, OutcomeLost, FailsClosed
    <3>3. CASE Run(p)
      BY <2>4, <3>3, NotRunningIsShim DEF Run
    <3> QED
      BY <1>2, <3>1, <3>2, <3>3
  <2> QED
    BY <2>1, <2>5, ShimStepWaits DEF Waiting
<1>3. ASSUME NEW p \in Shims, NEW s \in Slots, PostOutcome(p, s)
      PROVE  Waiting'
  <2>1. ~Serves(slot[s]) /\ Becomes(p, NotRunning)
    BY <1>3 DEF PostOutcome, At, Serves
  <2>2. \A t \in Slots \ {s} : slot'[t] = slot[t]
    BY <1>3 DEF PostOutcome, Goto, ApprovalInvariant
  <2>3. \A q \in Shims, t \in Slots : WaitsOn(q, t) => Serves(slot'[t])
    BY <2>1, <2>2 DEF Waiting
  <2> QED
    BY <2>1, <2>3, NotRunningIsShim, ShimStepWaits
<1>4. CASE GatewayRestarts
  <2>1. \A p \in Shims : shim'[p].pc # "waiting"
    BY <1>4, NotRunningIsShim DEF GatewayRestarts
  <2> QED
    BY <2>1 DEF Waiting, WaitsOn
<1>5. CASE (SetMode \/ SetMatchReplaceRules) /\ UNCHANGED shimVars
  BY <1>1, <1>5 DEF SetMode, SetMatchReplaceRules, shimVars
<1>6. CASE UNCHANGED <<vars, shimVars>>
  BY <1>1, <1>6 DEF vars, shimVars
<1> QED
  BY <1>2, <1>3, <1>4, <1>5, <1>6, AskWaits, GatewayStepWaits, ReplyWaits DEF ShimmedNext, ShimStep

(***************************************************************************)
(* What a shim is worth when it is answered, and after its command ran.    *)
(***************************************************************************)
RunsContext ==
    /\ ApprovalInvariant /\ AuditInvariant /\ RunInvariant
    /\ Sealed \subseteq Sealed' /\ ApprovedActions \subseteq ApprovedActions'

LEMMA GrantsStay ==
    ASSUME RunsContext
    PROVE  /\ \A q \in Shims : ShimFits(shim[q], Sealed', ApprovedActions')
           /\ \A r \in ran : Granted(r.judged, Sealed', ApprovedActions')
BY GrantedMonotonic DEF RunsContext, RunInvariant, RunsGranted

LEMMA ShimStepGranted ==
    ASSUME RunsContext, NEW p \in Shims, NEW sh, Becomes(p, sh), ran' = ran,
           ShimFits(sh, Sealed', ApprovedActions')
    PROVE  RunsGranted'
<1>1. /\ shim' = [q \in Shims |-> shim'[q]] /\ shim'[p] = sh
      /\ \A q \in Shims \ {p} : shim'[q] = shim[q]
  BY ShimMoves DEF RunsContext, RunInvariant
<1>2. \A q \in Shims : ShimFits(shim'[q], Sealed', ApprovedActions')
  BY <1>1, GrantsStay
<1> QED
  BY <1>1, <1>2, GrantsStay DEF RunsGranted

LEMMA UnaskedRunGranted ==
    ASSUME RunsContext, NEW p \in Shims, RunUngoverned(p)
    PROVE  RunsGranted'
<1>1. PICK c \in Commands :
          /\ ClassifyCommand(c) = NoEdit
          /\ Becomes(p, [NotRunning EXCEPT !.pc = "allowed", !.command = c])
  BY DEF RunUngoverned
<1> DEFINE sh == [NotRunning EXCEPT !.pc = "allowed", !.command = c]
<1>2. IsShim(sh) /\ sh.pc = "allowed" /\ sh.command = c
  BY NotRunningIsShim DEF IsShim
<1> HIDE DEF sh
<1>3. ShimFits(sh, Sealed', ApprovedActions')
  BY <1>1, <1>2 DEF ShimFits
<1> QED
  BY <1>1, <1>3, ShimStepGranted DEF RunUngoverned, sh

LEMMA AskGranted ==
    ASSUME RunsContext, NEW p \in Shims, NEW s \in Slots, AskGateway(p, s)
    PROVE  RunsGranted'
<1>1. PICK c \in Commands : Becomes(p, [NotRunning EXCEPT !.pc = "waiting", !.command = c, !.slot = s])
  BY DEF AskGateway
<1> DEFINE sh == [NotRunning EXCEPT !.pc = "waiting", !.command = c, !.slot = s]
<1>2. IsShim(sh) /\ sh.pc = "waiting"
  BY NotRunningIsShim DEF IsShim
<1> HIDE DEF sh
<1>3. ShimFits(sh, Sealed', ApprovedActions')
  BY <1>2 DEF ShimFits
<1> QED
  BY <1>1, <1>3, ShimStepGranted DEF AskGateway, sh

LEMMA HeardGranted ==
    ASSUME RunsContext, NEW p \in Shims, NEW s \in Slots, At(s, "reply"), ran' = ran,
           WaitsOn(p, s), Heard(p, slot[s])
    PROVE  RunsGranted'
<1> DEFINE h == slot[s]
           j == Judged(h)
           sh == [shim[p] EXCEPT !.pc = "allowed", !.slot = NoEdit, !.judged = j]
<1>1. CASE FailsClosed(p)
  BY <1>1, NotRunningIsShim, ShimStepGranted DEF FailsClosed
<1>2. CASE h.ok /\ h.decision.allowed /\ Becomes(p, sh)
  <2>1. h.op = "intercept" /\ h.pc = "reply"
    BY DEF RunsContext, RunInvariant, Waiting, Serves, At
  <2>2. AllowedIn(h.action, Sealed)
    <3>1. RunFits(h, Sealed)
      BY DEF RunsContext, RunInvariant, OutcomesEarned
    <3>2. Accounted(h.action, h.decision, Sealed)
      BY <1>2, <2>1, <3>1 DEF RunFits
    <3> QED
      BY <1>2, <3>2 DEF Accounted, AllowedIn
  <2>3. h.mode # "shadow" /\ InScope(h.action, h.scope)
            => \E a \in ApprovedActions : SameApprovedClass(a, h.action)
    BY <1>2, <2>1 DEF RunsContext, ApprovalInvariant, HandlerFits, AllowFits
  <2>4. j.action = h.action /\ j.mode = h.mode /\ j.scope = h.scope
    BY DEF Judged
  <2> HIDE DEF j
  <2>5. Granted(j, Sealed, ApprovedActions)
    BY <2>2, <2>3, <2>4 DEF Granted
  <2>6. Granted(j, Sealed', ApprovedActions')
    BY <2>5, GrantedMonotonic DEF RunsContext
  <2>7. IsShim(shim[p])
    BY DEF RunsContext, RunInvariant, RunsGranted, ShimFits
  <2>8. IsShim(sh) /\ sh.pc = "allowed" /\ sh.judged = j
    BY <2>7 DEF IsShim
  <2> HIDE DEF sh
  <2>9. ShimFits(sh, Sealed', ApprovedActions')
    BY <2>6, <2>8 DEF ShimFits
  <2> QED
    BY <1>2, <2>9, ShimStepGranted
<1> QED
  BY <1>1, <1>2 DEF Heard

LEMMA RunGranted ==
    ASSUME RunsContext, NEW p \in Shims, Run(p)
    PROVE  RunsGranted'
<1>1. CASE Becomes(p, NotRunning) /\ UNCHANGED ran
  BY <1>1, NotRunningIsShim, ShimStepGranted
<1>2. CASE /\ ClassifyCommand(shim[p].command) # NoEdit
           /\ Becomes(p, [shim[p] EXCEPT !.pc = "exited"])
           /\ ran' \in {ran, ran \cup {[command |-> shim[p].command, judged |-> shim[p].judged]}}
  <2> DEFINE sh == [shim[p] EXCEPT !.pc = "exited"]
             r == [command |-> shim[p].command, judged |-> shim[p].judged]
  <2>1. Granted(shim[p].judged, Sealed', ApprovedActions')
    <3>1. shim[p].pc = "allowed"
      BY DEF Run
    <3> QED
      BY <1>2, <3>1, GrantsStay DEF ShimFits
  <2>2. IsShim(shim[p])
    BY DEF RunsContext, RunInvariant, RunsGranted, ShimFits
  <2>3. IsShim(sh) /\ sh.pc = "exited" /\ sh.judged = shim[p].judged /\ r.judged = shim[p].judged
    BY <2>2 DEF IsShim
  <2> HIDE DEF sh, r
  <2>4. ShimFits(sh, Sealed', ApprovedActions')
    BY <2>1, <2>3 DEF ShimFits
  <2>5. /\ shim' = [q \in Shims |-> shim'[q]] /\ shim'[p] = sh
        /\ \A q \in Shims \ {p} : shim'[q] = shim[q]
    BY <1>2, ShimMoves DEF RunsContext, RunInvariant, sh
  <2>6. \A q \in Shims : ShimFits(shim'[q], Sealed', ApprovedActions')
    BY <2>4, <2>5, GrantsStay
  <2>7. ran' \subseteq ran \cup {r}
    BY <1>2 DEF r
  <2>8. \A q \in ran' : Granted(q.judged, Sealed', ApprovedActions')
    BY <2>1, <2>3, <2>7, GrantsStay
  <2> QED
    BY <2>5, <2>6, <2>8 DEF RunsGranted
<1> QED
  BY <1>1, <1>2 DEF Run

LEMMA NextKeepsRuns ==
    ASSUME RunsContext, [ShimmedNext]_<<vars, shimVars>>
    PROVE  RunsGranted'
<1>1. CASE UNCHANGED shimVars
  <2>1. shim' = shim /\ ran' = ran
    BY <1>1 DEF shimVars
  <2> QED
    BY <2>1, GrantsStay DEF RunsContext, RunInvariant, RunsGranted
<1>2. ASSUME NEW p \in Shims, ShimStep(p) PROVE RunsGranted'
  <2>1. CASE AnswerLost(p) \/ OutcomeLost(p) \/ \E s \in Slots : PostOutcome(p, s)
    <3>1. Becomes(p, NotRunning) /\ ran' = ran
      BY <2>1 DEF AnswerLost, OutcomeLost, PostOutcome, FailsClosed
    <3> QED
      BY <3>1, NotRunningIsShim, ShimStepGranted
  <2> QED
    BY <1>2, <2>1, UnaskedRunGranted, AskGranted, RunGranted DEF ShimStep
<1>3. ASSUME NEW s \in Slots, GatewayReplies(s) PROVE RunsGranted'
  <2>1. At(s, "reply") /\ ran' = ran
    BY <1>3 DEF GatewayReplies, Reply
  <2>2. CASE \E p \in Shims : WaitsOn(p, s) /\ Heard(p, slot[s])
    BY <2>1, <2>2, HeardGranted
  <2>3. CASE UNCHANGED shim
    BY <1>1, <2>1, <2>3 DEF shimVars
  <2> QED
    BY <1>3, <2>2, <2>3 DEF GatewayReplies
<1>4. CASE GatewayRestarts
  <2>1. /\ shim' = [p \in Shims |-> IF shim[p].pc = "waiting" THEN NotRunning ELSE shim[p]]
        /\ ran' = ran
    BY <1>4 DEF GatewayRestarts
  <2>2. \A p \in Shims : shim'[p] = NotRunning \/ shim'[p] = shim[p]
    BY <2>1
  <2>3. \A p \in Shims : ShimFits(shim'[p], Sealed', ApprovedActions')
    BY <2>2, NotRunningIsShim, GrantsStay
  <2>4. shim' = [p \in Shims |-> shim'[p]]
    BY <2>1
  <2> QED
    BY <2>1, <2>3, <2>4, GrantsStay DEF RunsGranted
<1>5. CASE \E s \in Slots : GatewayStep(s)
  BY <1>1, <1>5 DEF GatewayStep
<1>6. CASE UNCHANGED <<vars, shimVars>>
  BY <1>1, <1>6
<1> QED
  BY <1>1, <1>2, <1>3, <1>4, <1>5, <1>6 DEF ShimmedNext

ShimmedInvariant == ApprovalInvariant /\ AuditInvariant /\ RunInvariant

LEMMA InitEstablishesRuns == ShimmedInit => ShimmedInvariant
<1> SUFFICES ASSUME ShimmedInit PROVE RunInvariant
  BY InitEstablishesInvariant, InitEstablishesAudit DEF ShimmedInit, ShimmedInvariant
<1>1. /\ history = {HeldEntry(i) : i \in DOMAIN Held} /\ slot = [s \in Slots |-> Idle]
      /\ shim = [p \in Shims |-> NotRunning] /\ ran = {}
  BY DEF ShimmedInit, Init
<1>2. \A i \in DOMAIN Held : EntryEarned(HeldEntry(i), Sealed)
  BY DEF HeldEntry, EntryEarned
<1>3. RunFits(Idle, Sealed)
  BY DEF RunFits, Idle, OutcomePcs
<1>4. OutcomesEarned
  BY <1>1, <1>2, <1>3 DEF OutcomesEarned
<1>5. Waiting
  BY <1>1, NotRunningIsShim DEF Waiting, WaitsOn
<1>6. RunsGranted
  BY <1>1, NotRunningIsShim DEF RunsGranted
<1> QED
  BY <1>4, <1>5, <1>6 DEF RunInvariant

LEMMA NextKeepsShimmed ==
    ShimmedInvariant /\ [ShimmedNext]_<<vars, shimVars>> => ShimmedInvariant'
<1> SUFFICES ASSUME ShimmedInvariant, [ShimmedNext]_<<vars, shimVars>> PROVE ShimmedInvariant'
  OBVIOUS
<1>1. ApprovalInvariant' /\ AuditInvariant'
  BY ShimmedNextKeeps DEF ShimmedInvariant
<1>2. Sealed \subseteq Sealed' /\ ApprovedActions \subseteq ApprovedActions'
  BY NothingIsUnsealed DEF ShimmedInvariant
<1>3. OutcomesEarned'
  BY <1>1, <1>2, NextKeepsOutcomes DEF ShimmedInvariant, RunInvariant, EarnedContext
<1>4. Waiting'
  BY <1>1, NextKeepsWaiting DEF ShimmedInvariant, RunInvariant
<1>5. RunsGranted'
  BY <1>2, NextKeepsRuns DEF ShimmedInvariant, RunsContext
<1> QED
  BY <1>1, <1>3, <1>4, <1>5 DEF ShimmedInvariant, RunInvariant

LEMMA ShimmedImplies == ShimmedInvariant => RunsAreAccountedFor /\ NothingUnaudited
<1> SUFFICES ASSUME ShimmedInvariant PROVE RunsAreAccountedFor
  BY AuditImpliesNothingUnaudited DEF ShimmedInvariant
<1>1. /\ \A a : AllowedIn(a, Sealed) => VerdictAllowed(a)
      /\ \A id : IdAllowedIn(id, Sealed) => IdAllowed(id)
  BY DEF AllowedIn, VerdictAllowed, IdAllowedIn, IdAllowed
<1>2. \A r \in ran : Granted(r.judged, Sealed, ApprovedActions)
  BY DEF ShimmedInvariant, RunInvariant, RunsGranted
<1>3. \A e \in history : e.outcome => IdAllowed(e.action.id)
  BY <1>1 DEF ShimmedInvariant, RunInvariant, OutcomesEarned, EntryEarned
<1> QED
  BY <1>1, <1>2, <1>3 DEF Granted, RunsAreAccountedFor

LEMMA AlwaysShimmed == ShimmedSpec => []ShimmedInvariant
BY InitEstablishesRuns, NextKeepsShimmed, PTL DEF ShimmedSpec

(* No consequential command runs before the ledger says that its action is *)
(* allowed, nor outside shadow mode without an approval of its class, and  *)
(* no entry of the history has an outcome whose id was not allowed: for any *)
(* number of commands and requests, any answers and outcomes that are      *)
(* lost, gateways that die while a shim waits or its command runs, and     *)
(* whatever the rewriting rules make of what the shims captured.           *)
THEOREM RunsAreAccounted == ShimmedSpec => []RunsAreAccountedFor
BY AlwaysShimmed, ShimmedImplies, PTL

(* The ledger accounts for what the shims are told, too: an agent that     *)
(* asks again, or an answer that nobody hears, leaves no gap in it.        *)
THEOREM ShimsAreAudited == ShimmedSpec => []NothingUnaudited
BY AlwaysShimmed, ShimmedImplies, PTL
===============================================================================
