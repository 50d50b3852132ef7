-------------------------- MODULE InterceptGateway --------------------------
(***************************************************************************)
(* The intercept gateway of packages/integrations/intercept-gateway as     *)
(* `policy-gw serve --session-dir` runs it: an HTTP server in front of     *)
(* three JSON files (learned rules, held actions, traffic history) and an  *)
(* audit ledger in memory.                                                 *)
(*                                                                         *)
(* JavaScript runs one continuation at a time, and a handler gives way at  *)
(* every await.  A step of a slot is either one such continuation, up to   *)
(* the next await, or the effect of the file operation that it awaits; a   *)
(* continuation that only looks at what was read is one with the read.     *)
(* Every change of a file is a read of the whole file, a computation, and  *)
(* a rename of a new file over the old one, with nothing to stop another   *)
(* handler between the read and the rename.                                *)
(***************************************************************************)
EXTENDS CorrectionCompiler, FiniteSets

CONSTANTS
    Slots,          \* the requests that may be in flight together
    Ops,            \* the operations clients ask for
    Actions,        \* the actions agents attempt, each with its id
    ActionIds,      \* the ids that clients give to actions
    Held,           \* actions an earlier process left on the queue, a sequence
    Words,          \* corrections: sequences of atoms, <<>> for no text
    Edits,          \* what an operator may send as editedAction
    NoEdit,         \* ... nothing (also: no action, no entry),
    InvalidEdit,    \* ... or something that is not an action
    ModesUsed, Scopes, Rewrites,   \* the settings operators choose among
    Unreliable,     \* the files an operation may fail on
    PidMayRepeat,   \* whether a restarted gateway may get its old pid back
    FaultyRequests, \* bound: the requests during which files may fail
    MaxRequests,    \* bound: requests in all
    MaxRestarts     \* bound: restarts

(* An id comes with the action and is nowhere checked: other actions may   *)
(* have it too.  Rewriting leaves it alone.                                *)
ASSUME GatewayAssumptions ==
    /\ \A a \in Actions : a.id \in ActionIds
    /\ Edits \subseteq Actions \cup {NoEdit, InvalidEdit}
    /\ {NoEdit, InvalidEdit} \cap Actions = {}
    /\ ModesUsed \subseteq Modes
    /\ Rewrites \subseteq [Actions -> Actions]
    /\ \A rewrite \in Rewrites, a \in Actions : rewrite[a].id = a.id
    /\ Held \in Seq(Actions)
    /\ Words \subseteq Seq(SUBSET STRING)
    /\ MaxRequests \in Nat /\ MaxRestarts \in Nat

VARIABLES
    rules,      \* policy-rules.json
    queue,      \* intercept-queue.json
    history,    \* proxy-history.json
    ledger,     \* the events sealed by this process
    settings,   \* mode, scope and match-replace rules (as a rewriting of actions)
    slot,       \* the handler of each request in flight
    process,    \* pid, ids drawn, requests accepted, restarts so far
    archive,    \* observer: the events that earlier processes sealed
    confirmed,  \* observer: the rules operators were told are active
    taken       \* observer: the ids of the items taken off the queue

store == <<rules, queue, history>>
observer == <<archive, confirmed, taken>>
vars == <<store, ledger, settings, slot, process, observer>>

(***************************************************************************)
(* Ids are gw_<pid>_<n>, n counting every id the process draws: those of   *)
(* ledger events and eval cases count too, though nothing compares them.   *)
(***************************************************************************)
NoId == <<0, 0>>
NthId(n) == <<process.pid, process.ids + n>>
Draw(n) == process' = [process EXCEPT !.ids = @ + n]

IdsOf(content) == {x.id : x \in content}

(***************************************************************************)
(* A handler: where it stands, what the request asked, what it captured    *)
(* (action, mode, scope), what it has read, and what it will write.  The   *)
(* request of an outcome names an action by its id.                        *)
(***************************************************************************)
Idle ==
    [pc |-> "idle", op |-> None, ok |-> TRUE, action |-> NoEdit, mode |-> None,
     scope |-> NoScope, decision |-> FailedClosed, queueId |-> NoId, words |-> <<>>,
     activate |-> FALSE, edit |-> NoEdit, outcomeOf |-> None, batch |-> {}, from |-> NoId,
     entry |-> NoEdit, todo |-> <<>>, stored |-> {}, read |-> {}]

Approves(h) == h.op \in {"forward", "forward-all"}
Rejects(h) == h.op \in {"drop", "drop-all"}

At(s, pc) == slot[s].pc = pc
Goto(s, h, pc) == slot' = [slot EXCEPT ![s] = [h EXCEPT !.pc = pc]]

(* A promise is rejected: route answers 400.                               *)
Throw(s) == Goto(s, [slot[s] EXCEPT !.ok = FALSE], "reply")

(* The two halves of a read-modify-write.  Each may fail on an unreliable  *)
(* file, and changes nothing then.                                         *)
Fails(file) == file \in Unreliable /\ process.requests \in FaultyRequests
Load(s, content, pc) == Goto(s, [slot[s] EXCEPT !.read = content], pc)
Saved(s, pc) == Goto(s, [slot[s] EXCEPT !.read = {}], pc)

Seal(event) == ledger' = Append(ledger, event)
Sealed == archive \cup {ledger[i] : i \in DOMAIN ledger}

VerdictEvent(a, decision, from) ==
    [event |-> "policy.verdict", action |-> a, decision |-> decision, from |-> from]
RuleEvent(r) == [event |-> "policy.rule", rule |-> r]
OutcomeEvent(id) == [event |-> "policy.outcome", actionId |-> id]

(* recordHistory takes the mode of the moment, not the one that decided.   *)
Entry(h, id) ==
    [id |-> id, action |-> h.action, decision |-> h.decision, mode |-> settings.mode,
     queueId |-> h.queueId, outcome |-> FALSE]

(***************************************************************************)
(* Requests arrive.                                                        *)
(***************************************************************************)
Accept(s, op) ==
    /\ At(s, "idle") /\ op \in Ops
    /\ process.requests < MaxRequests
    /\ process' = [process EXCEPT !.requests = @ + 1]
    /\ UNCHANGED <<store, ledger, settings, observer>>

Captured(op, a, mode) ==
    [Idle EXCEPT !.op = op, !.action = a, !.mode = mode, !.scope = settings.scope]

ApplyMatchReplaceRules(a) == settings.rewrite[a]

StartIntercept(s) ==
    /\ Accept(s, "intercept")
    /\ \E a \in Actions :
          Goto(s, Captured("intercept", ApplyMatchReplaceRules(a), settings.mode), "rules")

(* A request of the repeater may choose its mode and skip the rewriting.   *)
Repeated(s, a, pc) ==
    \E mode \in ModesUsed, b \in {a, ApplyMatchReplaceRules(a)} :
        Goto(s, Captured("repeater", b, mode), pc)

StartRepeater(s) ==
    /\ Accept(s, "repeater")
    /\ \/ \E a \in Actions : Repeated(s, a, "rules")
       \/ Goto(s, [Idle EXCEPT !.op = "repeater"], "lookup")

(* The words of an approval end up in an eval case only.                   *)
Verdict(op, words, activate) ==
    [Idle EXCEPT !.op = op, !.words = words, !.activate = activate]

StartVerdict(s) ==
    \E id \in IdsOf(queue) \cup taken, edit \in Edits :
        LET On(h) == [h EXCEPT !.queueId = id, !.edit = edit] IN
        \/ /\ Accept(s, "forward")
           /\ Goto(s, On(Verdict("forward", <<>>, FALSE)), "removeRead")
        \/ /\ Accept(s, "drop")
           /\ \E words \in Words, activate \in BOOLEAN :
                 Goto(s, On(Verdict("drop", words, activate)), "removeRead")

StartBatch(s) ==
    \/ /\ Accept(s, "forward-all")
       /\ Goto(s, Verdict("forward-all", <<>>, FALSE), "list")
    \/ /\ Accept(s, "drop-all")
       /\ \E words \in Words, activate \in BOOLEAN :
             Goto(s, Verdict("drop-all", words, activate), "list")

StartOutcome(s) ==
    /\ Accept(s, "outcome")
    /\ \E id \in ActionIds : Goto(s, [Idle EXCEPT !.op = "outcome", !.outcomeOf = id], "outcomeRead")

(***************************************************************************)
(* intercept and repeater: look at the rules, decide, hold what must be    *)
(* asked, seal the verdict, record it.                                     *)
(***************************************************************************)
LookupHistory(s) ==
    /\ At(s, "lookup")
    /\ \/ \E e \in history : Repeated(s, e.action, "rules")
       \/ Throw(s)      \* no such entry, or the history cannot be read
    /\ UNCHANGED <<store, ledger, settings, process, observer>>

ReadRules(s) ==
    /\ At(s, "rules")
    /\ \/ Load(s, rules, "decide")
       \/ Fails("rules") /\ Goto(s, [slot[s] EXCEPT !.decision = FailedClosed], "answer")
    /\ UNCHANGED <<store, ledger, settings, process, observer>>

(* Mutant: the verdict is recorded in the history but not sealed.          *)
AnsweredUnsealed(s, h) ==
    /\ Draw(2)
    /\ Goto(s, [h EXCEPT !.entry = Entry(h, NthId(2))], "historyRead")
    /\ UNCHANGED <<store, ledger, settings, observer>>

Answered(s, h) ==
    /\ Seal(VerdictEvent(h.action, h.decision, NoId))
    /\ Draw(2)
    /\ Goto(s, [h EXCEPT !.entry = Entry(h, NthId(2))], "historyRead")
    /\ UNCHANGED <<store, settings, observer>>

DecideAction(s) ==
    /\ At(s, "decide")
    /\ LET d == Decide(slot[s].action, slot[s].read, slot[s].mode, slot[s].scope)
           h == [slot[s] EXCEPT !.decision = d, !.read = {}]
       IN IF d.verdict = "ask" /\ h.op = "intercept"
          THEN /\ Draw(1)
               /\ Goto(s, [h EXCEPT !.queueId = NthId(1)], "enqueueRead")
               /\ UNCHANGED <<store, ledger, settings, observer>>
          ELSE Answered(s, h)

(* Mutant: an action that could not be held is still answered ask.         *)
HoldFailedOpen(s) == Goto(s, slot[s], "answer")

HoldFailed(s) ==
    Goto(s, [slot[s] EXCEPT !.decision = FailedClosed, !.queueId = NoId, !.read = {}],
         "answer")

EnqueueRead(s) ==
    /\ At(s, "enqueueRead")
    /\ \/ slot[s].queueId \notin IdsOf(queue) /\ Load(s, queue, "enqueueWrite")
       \/ (slot[s].queueId \in IdsOf(queue) \/ Fails("queue")) /\ HoldFailed(s)
    /\ UNCHANGED <<store, ledger, settings, process, observer>>

EnqueueWrite(s) ==
    /\ At(s, "enqueueWrite")
    /\ \/ /\ queue' = slot[s].read \cup {[id |-> slot[s].queueId, action |-> slot[s].action]}
          /\ Saved(s, "answer")
       \/ Fails("queue") /\ HoldFailed(s) /\ UNCHANGED queue
    /\ UNCHANGED <<rules, history, ledger, settings, process, observer>>

Answer(s) == At(s, "answer") /\ Answered(s, slot[s])

HistoryRead(s) ==
    /\ At(s, "historyRead")
    /\ \/ slot[s].entry.id \notin IdsOf(history) /\ Load(s, history, "historyWrite")
       \/ (slot[s].entry.id \in IdsOf(history) \/ Fails("history")) /\ Throw(s)
    /\ UNCHANGED <<store, ledger, settings, process, observer>>

HistoryWrite(s) ==
    /\ At(s, "historyWrite")
    /\ \/ /\ history' = slot[s].read \cup {slot[s].entry}
          /\ Saved(s, IF Approves(slot[s]) \/ Rejects(slot[s]) THEN "compile" ELSE "reply")
       \/ Fails("history") /\ Throw(s) /\ UNCHANGED history
    /\ UNCHANGED <<rules, queue, ledger, settings, process, observer>>

(***************************************************************************)
(* operatorVerdict: take the item off the queue, seal and record the       *)
(* operator's verdict, compile rules from it and store them one by one.    *)
(* Nothing is put back when a later step throws.                           *)
(***************************************************************************)
(* forwardAll and dropAll treat the items they listed in the order of      *)
(* their time stamps, left open here; the first throw ends the request.    *)
NextItem(s, h) ==
    \/ /\ h.batch = {}
       /\ Goto(s, h, "reply")
    \/ \E id \in h.batch :
          Goto(s, [h EXCEPT !.queueId = id, !.batch = @ \ {id}], "removeRead")

ListQueue(s) ==
    /\ At(s, "list")
    /\ \/ NextItem(s, [slot[s] EXCEPT !.batch = IdsOf(queue)])
       \/ Fails("queue") /\ Throw(s)
    /\ UNCHANGED <<store, ledger, settings, process, observer>>

(* Mutant: a verdict on an item that is gone waits for it.                 *)
RemoveReadWaits(s) ==
    /\ At(s, "removeRead")
    /\ \E item \in queue :
          /\ item.id = slot[s].queueId
          /\ Goto(s, [slot[s] EXCEPT !.read = queue, !.action = item.action], "removeWrite")
    /\ UNCHANGED <<store, ledger, settings, process, observer>>

RemoveRead(s) ==
    /\ At(s, "removeRead")
    /\ \/ \E item \in queue :
             /\ item.id = slot[s].queueId
             /\ Goto(s, [slot[s] EXCEPT !.read = queue, !.action = item.action], "removeWrite")
       \/ (slot[s].queueId \notin IdsOf(queue) \/ Fails("queue")) /\ Throw(s)
    /\ UNCHANGED <<store, ledger, settings, process, observer>>

(* Mutant: the item is returned but stays on the queue.                    *)
RemoveWriteKeepsItem(s) ==
    /\ At(s, "removeWrite")
    /\ taken' = taken \cup {slot[s].queueId}
    /\ Saved(s, "removed")
    /\ UNCHANGED <<store, ledger, settings, process, archive, confirmed>>

RemoveWrite(s) ==
    /\ At(s, "removeWrite")
    /\ \/ /\ queue' = {item \in slot[s].read : item.id # slot[s].queueId}
          /\ taken' = taken \cup {slot[s].queueId}
          /\ Saved(s, "removed")
       \/ Fails("queue") /\ Throw(s) /\ UNCHANGED <<queue, taken>>
    /\ UNCHANGED <<rules, history, ledger, settings, process, archive, confirmed>>

OperatorDecision(h) ==
    Decision(IF Approves(h) THEN "allow" ELSE "deny", "operator", NoRule)

Wordless(h) == Rejects(h) /\ h.words = <<>>
ActedOn(h) == IF h.edit = NoEdit THEN h.action ELSE h.edit

OperatorDecided(s) ==
    LET h == [slot[s] EXCEPT !.action = ActedOn(slot[s]), !.from = NthId(1),
                             !.decision = OperatorDecision(slot[s])]
    IN /\ Seal(VerdictEvent(h.action, h.decision, h.from))
       /\ Draw(3)
       /\ Goto(s, [h EXCEPT !.entry = Entry(h, NthId(3))], "historyRead")

(* An edited action that is none is refused, and so is a rejection without *)
(* words; the item is off the queue by then.                               *)
Removed(s) ==
    /\ At(s, "removed")
    /\ \/ /\ slot[s].edit = InvalidEdit
          /\ Throw(s) /\ UNCHANGED <<ledger, process>>
       \/ /\ slot[s].edit # InvalidEdit /\ Wordless(slot[s])
          /\ Throw(s) /\ Draw(1) /\ UNCHANGED ledger
       \/ /\ slot[s].edit # InvalidEdit /\ ~Wordless(slot[s])
          /\ OperatorDecided(s)
    /\ UNCHANGED <<store, settings, observer>>

(* compileCorrection draws three ids for each atom until one throws.       *)
Compiled(words) == {i \in DOMAIN words : \A j \in 1..i : Compiles(words[j])}

ProposedRules(h) ==
    [i \in DOMAIN h.words |-> ProposedRule(NthId(3 * i - 2), h.from, h.words[i], h.action)]

CompileVerdict(s) ==
    /\ At(s, "compile")
    /\ LET h == slot[s] IN
       IF Approves(h)
       THEN /\ Draw(2)
            /\ Goto(s, [h EXCEPT !.todo = <<ApprovalRule(NthId(1), h.from, h.action)>>], "putRead")
       ELSE /\ Draw(3 * Cardinality(Compiled(h.words)))
            /\ IF Compiled(h.words) = DOMAIN h.words
               THEN Goto(s, [h EXCEPT !.todo = ProposedRules(h)], "putRead")
               ELSE Throw(s)
    /\ UNCHANGED <<store, ledger, settings, observer>>

PutRead(s) ==
    /\ At(s, "putRead")
    /\ \/ Head(slot[s].todo).id \notin IdsOf(rules) /\ Load(s, rules, "putWrite")
       \/ (Head(slot[s].todo).id \in IdsOf(rules) \/ Fails("rules")) /\ Throw(s)
    /\ UNCHANGED <<store, ledger, settings, process, observer>>

(* Mutant: the new rule replaces the file instead of joining it.           *)
PutWriteReplaces(s) ==
    /\ At(s, "putWrite")
    /\ rules' = {Head(slot[s].todo)}
    /\ Saved(s, "stored")
    /\ UNCHANGED <<queue, history, ledger, settings, process, observer>>

PutWrite(s) ==
    /\ At(s, "putWrite")
    /\ \/ /\ rules' = slot[s].read \cup {Head(slot[s].todo)}
          /\ Saved(s, "stored")
       \/ Fails("rules") /\ Throw(s) /\ UNCHANGED rules
    /\ UNCHANGED <<queue, history, ledger, settings, process, observer>>

NextRule(s, r) ==
    LET h == [slot[s] EXCEPT !.stored = @ \cup {r}, !.todo = Tail(@)] IN
    IF h.todo # <<>> THEN Goto(s, h, "putRead") ELSE NextItem(s, h)

RuleStored(s) ==
    /\ At(s, "stored")
    /\ LET r == Head(slot[s].todo) IN
       /\ Seal(RuleEvent(r))
       /\ IF Rejects(slot[s]) /\ slot[s].activate
          THEN Goto(s, [slot[s] EXCEPT !.todo[1].status = "active"], "updateRead")
          ELSE NextRule(s, r)
    /\ Draw(1)
    /\ UNCHANGED <<store, settings, observer>>

UpdateRead(s) ==
    /\ At(s, "updateRead")
    /\ \/ Head(slot[s].todo).id \in IdsOf(rules) /\ Load(s, rules, "updateWrite")
       \/ (Head(slot[s].todo).id \notin IdsOf(rules) \/ Fails("rules")) /\ Throw(s)
    /\ UNCHANGED <<store, ledger, settings, process, observer>>

(* Mutants: the rule as it was is written back, or kept beside the new one.*)
UpdateWriteStale(s) ==
    /\ At(s, "updateWrite")
    /\ rules' = slot[s].read
    /\ Saved(s, "activated")
    /\ UNCHANGED <<queue, history, ledger, settings, process, observer>>

UpdateWriteAppends(s) ==
    /\ At(s, "updateWrite")
    /\ rules' = slot[s].read \cup {Head(slot[s].todo)}
    /\ Saved(s, "activated")
    /\ UNCHANGED <<queue, history, ledger, settings, process, observer>>

UpdateWrite(s) ==
    /\ At(s, "updateWrite")
    /\ LET active == Head(slot[s].todo) IN
       \/ /\ rules' = {r \in slot[s].read : r.id # active.id} \cup {active}
          /\ Saved(s, "activated")
       \/ Fails("rules") /\ Throw(s) /\ UNCHANGED rules
    /\ UNCHANGED <<queue, history, ledger, settings, process, observer>>

(* Mutant: the activation is not audited.                                  *)
RuleActivatedUnsealed(s) ==
    /\ At(s, "activated")
    /\ NextRule(s, Head(slot[s].todo))
    /\ UNCHANGED <<store, ledger, settings, process, observer>>

RuleActivated(s) ==
    /\ At(s, "activated")
    /\ Seal(RuleEvent(Head(slot[s].todo)))
    /\ NextRule(s, Head(slot[s].todo))
    /\ Draw(1)
    /\ UNCHANGED <<store, settings, observer>>

(***************************************************************************)
(* recordOutcome marks every entry whose action has the id.                *)
(***************************************************************************)
OutcomeRead(s) ==
    /\ At(s, "outcomeRead")
    /\ LET known == \E e \in history : e.action.id = slot[s].outcomeOf IN
       \/ known /\ Load(s, history, "outcomeWrite")
       \/ (~known \/ Fails("history")) /\ Throw(s)
    /\ UNCHANGED <<store, ledger, settings, process, observer>>

OutcomeWrite(s) ==
    /\ At(s, "outcomeWrite")
    /\ \/ /\ history' = {[e EXCEPT !.outcome = @ \/ e.action.id = slot[s].outcomeOf] :
                            e \in slot[s].read}
          /\ Saved(s, "outcomeSaved")
       \/ Fails("history") /\ Throw(s) /\ UNCHANGED history
    /\ UNCHANGED <<rules, queue, ledger, settings, process, observer>>

OutcomeSaved(s) ==
    /\ At(s, "outcomeSaved")
    /\ Seal(OutcomeEvent(slot[s].outcomeOf))
    /\ Draw(1)
    /\ Goto(s, slot[s], "reply")
    /\ UNCHANGED <<store, settings, observer>>

(***************************************************************************)
(* The response leaves.  An operator who is answered 200 has been told     *)
(* which of the compiled rules are active.                                 *)
(***************************************************************************)
Reply(s) ==
    /\ At(s, "reply")
    /\ slot' = [slot EXCEPT ![s] = Idle]
    /\ confirmed' = confirmed \cup
          (IF slot[s].ok THEN {r \in slot[s].stored : r.status = "active"} ELSE {})
    /\ UNCHANGED <<store, ledger, settings, process, archive, taken>>

(***************************************************************************)
(* Settings change between any two steps of the requests in flight.        *)
(***************************************************************************)
SetMode ==
    /\ \E mode \in ModesUsed : settings' = [settings EXCEPT !.mode = mode]
    /\ UNCHANGED <<store, ledger, slot, process, observer>>

SetScope ==
    /\ \E scope \in Scopes : settings' = [settings EXCEPT !.scope = scope]
    /\ UNCHANGED <<store, ledger, slot, process, observer>>

SetMatchReplaceRules ==
    /\ \E rewrite \in Rewrites : settings' = [settings EXCEPT !.rewrite = rewrite]
    /\ UNCHANGED <<store, ledger, slot, process, observer>>

Settings == [mode : ModesUsed, scope : Scopes, rewrite : Rewrites]

(* The process dies at any point.  The files stay as they are; the ledger  *)
(* and the settings were in memory.                                        *)
Restart ==
    /\ process.restarts < MaxRestarts
    /\ \E pid \in {process.pid + 1} \cup (IF PidMayRepeat THEN {process.pid} ELSE {}) :
          process' = [process EXCEPT !.pid = pid, !.ids = 0, !.restarts = @ + 1]
    /\ archive' = Sealed
    /\ ledger' = <<>>
    /\ slot' = [s \in Slots |-> Idle]
    /\ settings' \in Settings
    /\ UNCHANGED <<store, confirmed, taken>>

(* The session directory may come from an earlier process, pid 0, that     *)
(* held some actions: it drew three ids for each of them.                  *)
Asked == Decision("ask", "default-deny", NoRule)
HeldId(i) == <<0, 3 * i - 2>>
HeldEntry(i) ==
    [id |-> <<0, 3 * i>>, action |-> Held[i], decision |-> Asked, mode |-> "learned",
     queueId |-> HeldId(i), outcome |-> FALSE]

Init ==
    /\ rules = {}
    /\ queue = {[id |-> HeldId(i), action |-> Held[i]] : i \in DOMAIN Held}
    /\ history = {HeldEntry(i) : i \in DOMAIN Held}
    /\ archive = {VerdictEvent(Held[i], Asked, NoId) : i \in DOMAIN Held}
    /\ ledger = <<>>
    /\ settings \in Settings
    /\ slot = [s \in Slots |-> Idle]
    /\ process = [pid |-> 1, ids |-> 0, requests |-> 0, restarts |-> 0]
    /\ confirmed = {} /\ taken = {}

Start(s) ==
    \/ StartIntercept(s) \/ StartRepeater(s) \/ StartVerdict(s)
    \/ StartBatch(s) \/ StartOutcome(s)

Step(s) ==
    \/ LookupHistory(s) \/ ReadRules(s) \/ DecideAction(s)
    \/ EnqueueRead(s) \/ EnqueueWrite(s) \/ Answer(s)
    \/ HistoryRead(s) \/ HistoryWrite(s)
    \/ ListQueue(s) \/ RemoveRead(s) \/ RemoveWrite(s) \/ Removed(s)
    \/ CompileVerdict(s) \/ PutRead(s) \/ PutWrite(s) \/ RuleStored(s)
    \/ UpdateRead(s) \/ UpdateWrite(s) \/ RuleActivated(s)
    \/ OutcomeRead(s) \/ OutcomeWrite(s) \/ OutcomeSaved(s)
    \/ Reply(s)

Next ==
    \/ \E s \in Slots : Start(s) \/ Step(s)
    \/ SetMode \/ SetScope \/ SetMatchReplaceRules \/ Restart

(* The event loop runs every continuation that is ready, and every file    *)
(* operation ends; clients, operators and crashes owe nothing.             *)
Spec == Init /\ [][Next]_vars /\ \A s \in Slots : WF_vars(Step(s))
-----------------------------------------------------------------------------
Statuses == {"proposed", "active"}

(* Ids are unique in each file, every id was drawn by some process, and a  *)
(* handler between requests keeps nothing of the last one.                 *)
TypeOK ==
    /\ \A content \in {rules, queue, history} : \A x, y \in content : x.id = y.id => x = y
    /\ \A id \in IdsOf(rules) \cup IdsOf(queue) \cup IdsOf(history) \cup taken :
          id[1] \in 0..process.pid /\ id[2] \in Nat \ {0}
    /\ \A r \in rules : r.status \in Statuses /\ r.verdict \in Verdicts
    /\ settings \in Settings
    /\ \A s \in Slots : At(s, "idle") => slot[s] = Idle
    /\ process.restarts <= MaxRestarts /\ process.requests <= MaxRequests

Answers(s) == At(s, "reply") /\ slot[s].ok
Governed(s) ==
    slot[s].op = "intercept" /\ slot[s].mode # "shadow" /\ InScope(slot[s].action, slot[s].scope)

ApprovedActions ==
    {e.action : e \in {f \in Sealed : /\ f.event = "policy.verdict"
                                      /\ f.decision = Decision("allow", "operator", NoRule)}}

(* Outside shadow mode, and for an action in scope, no agent is told to go *)
(* ahead unless an operator approved an action of the same class earlier,  *)
(* and the ledger says so: whatever requests ran at once, whatever file    *)
(* operation failed and however often the gateway died in between.         *)
AllowTracesToApproval ==
    \A s \in Slots :
        Answers(s) /\ Governed(s) /\ slot[s].decision.allowed
            => \E a \in ApprovedActions : SameApprovedClass(a, slot[s].action)

VerdictSealed(a, decision) ==
    \E e \in Sealed :
        e.event = "policy.verdict" /\ e.action = a /\ e.decision = decision

(* No agent or operator is answered, and no traffic history kept, that the *)
(* ledger of some process does not account for.                            *)
NothingUnaudited ==
    /\ \A entry \in history : VerdictSealed(entry.action, entry.decision)
    /\ \A s \in Slots :
          Answers(s) /\ slot[s].entry # NoEdit
              => VerdictSealed(slot[s].action, slot[s].decision)

LastRuleEvent(id) ==
    LET of == {i \in DOMAIN ledger : ledger[i].event = "policy.rule" /\ ledger[i].rule.id = id} IN
    ledger[CHOOSE i \in of : \A j \in of : j <= i]

Storing(s) == slot[s].pc \in {"stored", "activated"}

(* What the ledger last said of a rule of this process is what the file    *)
(* holds, but for the moment between the rename and the event that tells   *)
(* of it.  With one request at a time.                                     *)
AuditMatchesStore ==
    \A r \in rules :
        /\ r.id[1] = process.pid
        /\ ~\E s \in Slots : Storing(s) /\ Head(slot[s].todo).id = r.id
        => \E e \in Sealed : e.event = "policy.rule" /\ e.rule.id = r.id /\ LastRuleEvent(r.id).rule = r

(* An agent that was told to ask has its action held for an operator until *)
(* an operator takes it.  With one request at a time.                      *)
HeldActionIsPendingOrTaken ==
    \A e \in history :
        e.decision.verdict = "ask" /\ e.queueId # NoId
            => e.queueId \in IdsOf(queue) \cup taken

(* A held action gets one operator verdict at most: no action is both      *)
(* forwarded and dropped.  With one request at a time, and no pid reused.  *)
OneVerdictPerItem ==
    \A e, f \in history :
        /\ e.decision.source = "operator" /\ f.decision.source = "operator"
        /\ e.queueId = f.queueId
        => e = f

(* A rule that an operator was told is active stays in the file, active.   *)
(* With one request at a time, whatever fails and however often the        *)
(* gateway restarts.                                                       *)
ConfirmedRuleStaysActive == confirmed \subseteq rules

(* Once an operator was told that a correction is in force, an action it   *)
(* matches is allowed only by a strictly more specific rule.               *)
LearnedDenySticks ==
    \A s \in Slots, r \in confirmed :
        /\ Answers(s) /\ Governed(s) /\ slot[s].decision.allowed
        /\ r.verdict # "allow" /\ Matches(slot[s].action, r)
        => \E q \in rules :
              q.id = slot[s].decision.rule /\ Specificity(q) > Specificity(r)

(* compile-correction.ts:169 answers a vague correction with an error that *)
(* tells the operator which words to use instead: the operator can send    *)
(* the verdict again.                                                      *)
RejectedVerdictCanBeRetried ==
    \A s \in Slots :
        /\ At(s, "reply") /\ ~slot[s].ok /\ slot[s].op = "drop"
        /\ slot[s].queueId \in taken
        /\ Compiled(slot[s].words) # DOMAIN slot[s].words
        => slot[s].queueId \in IdsOf(queue)

(* Every request is answered, with a result or with an error, unless the   *)
(* gateway dies first.                                                     *)
EveryRequestAnswered ==
    \A s \in Slots : ~At(s, "idle") ~> At(s, "idle")

(* One request at a time, the rules file is the rule base of               *)
(* PolicyLearning: each rename is one approval, one proposal or one        *)
(* activation, or changes nothing.  An id above the bound on RuleIds would *)
(* show as a violation.                                                    *)
RuleBase ==
    INSTANCE PolicyLearning WITH
        rules <- {[r EXCEPT !.from = NoId] : r \in rules},
        Corrections <- {NoId},
        Atoms <- UNION {{w[i] : i \in DOMAIN w} : w \in Words},
        Exceptions <- {},
        RuleIds <- (1..(MaxRestarts + 1)) \X (1..(14 * MaxRequests))

(* RuleBase!Spec, written so that TLC looks for the abstract step only     *)
(* where the file changes.                                                 *)
ImplementsPolicyLearning ==
    RuleBase!Init /\ [][rules' # rules => RuleBase!Next]_rules
=============================================================================
