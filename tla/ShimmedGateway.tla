--------------------------- MODULE ShimmedGateway ---------------------------
(***************************************************************************)
(* The gateway with the PATH shims in front of gh, git and deploy.  A shim *)
(* is a process of its own: it captures a consequential command as an      *)
(* action, asks the gateway over HTTP, and runs the real binary when it is *)
(* told to.  Its answer may be lost while the gateway goes on; the gateway *)
(* may die while the shim waits, or while the command runs.                *)
(*                                                                         *)
(* A command is [tool, verb, operand, flags]: the words of argv that name  *)
(* the command, its first word that is no flag (for deploy the value of    *)
(* --environment, for a visibility the value after the flag), and its      *)
(* flags.  What a shim leaves on the queue is what an operator decides on, *)
(* so Held and Actions are captured commands.                              *)
(***************************************************************************)
EXTENDS InterceptGateway

CONSTANTS
    Shims,      \* the commands that may run together
    Commands    \* the command lines agents type

VARIABLES
    shim,       \* the shim of each command that is being run
    ran         \* observer: the captured commands whose binary was started

shimVars == <<shim, ran>>

(***************************************************************************)
(* classifyCommand: the action a command is captured as, or NoEdit when it *)
(* is not consequential.  The argv that every action carries is left out:  *)
(* no rule has a condition on it.                                          *)
(***************************************************************************)
CapturedAs(c, action, target, args) ==
    [tool |-> c.tool, action |-> action, target |-> target, args |-> args]

(* Wildcards["PR#*"] holds the words that begin with PR#.                  *)
PullRequestOf(operand) ==
    IF operand \in Wildcards["PR#*"] \cup {None} THEN operand ELSE "PR#" \o operand

ClassifyGh(c) ==
    CASE c.verb = "pr merge" -> CapturedAs(c, "pr-merge", PullRequestOf(c.operand), <<>>)
      [] c.verb = "repo fork" -> CapturedAs(c, "repo-fork", c.operand, <<>>)
      [] c.verb = "repo edit" /\ "--visibility" \in c.flags ->
            CapturedAs(c, "repo-edit-visibility", None, [field \in {"repo.visibility"} |-> c.operand])
      [] OTHER -> NoEdit

ForceFlags == {"--force", "-f", "--force-with-lease"}

ClassifyGit(c) ==
    IF c.verb = "push" /\ c.flags \cap ForceFlags # {}
    THEN CapturedAs(c, "push", c.operand, [field \in {"args.force"} |-> 1])
    ELSE NoEdit

ClassifyDeploy(c) ==
    IF c.verb = None THEN NoEdit
    ELSE CapturedAs(c, "deploy", c.operand,
                    IF c.operand = None THEN <<>> ELSE [field \in {"deploy.environment"} |-> c.operand])

ClassifyCommand(c) ==
    CASE c.tool = "gh" -> ClassifyGh(c)
      [] c.tool = "git" -> ClassifyGit(c)
      [] c.tool = "deploy" -> ClassifyDeploy(c)

(* The id is injected into the environment of the shim, LIMINAL_ACTION_ID; *)
(* commands that share an environment share it.                            *)
ToInterceptedAction(id, c) ==
    [id |-> id, tool |-> c.tool, action |-> c.action, target |-> c.target, args |-> c.args]

ASSUME CommandsAreClassified ==
    \A c \in Commands, id \in ActionIds :
        ClassifyCommand(c) # NoEdit => ToInterceptedAction(id, ClassifyCommand(c)) \in Actions

(***************************************************************************)
(* A shim: the command, the request it waits for, and once it may run, the *)
(* mode, the scope and the action that the gateway judged.  That action    *)
(* has the id which the shim sent, as match-and-replace rules leave it.    *)
(***************************************************************************)
Judged(h) == [action |-> h.action, mode |-> h.mode, scope |-> h.scope]
NotRunning == [pc |-> "idle", command |-> NoEdit, slot |-> NoEdit, judged |-> Judged(Idle)]

Becomes(p, sh) == shim' = [shim EXCEPT ![p] = sh]
WaitsOn(p, s) == shim[p].pc = "waiting" /\ shim[p].slot = s

(* Every way to end with 2 before anything ran: no id or time injected, no *)
(* connection, an HTTP error, an answer other than allowed.                *)
FailsClosed(p) == Becomes(p, NotRunning)

(* Without a consequential action the real binary runs unasked.            *)
RunUngoverned(p) ==
    /\ shim[p].pc = "idle"
    /\ \E c \in Commands :
          /\ ClassifyCommand(c) = NoEdit
          /\ Becomes(p, [NotRunning EXCEPT !.pc = "allowed", !.command = c])
    /\ UNCHANGED <<vars, ran>>

(* The POST to /intercept reaches the gateway.                             *)
AskGateway(p, s) ==
    /\ shim[p].pc = "idle"
    /\ \E c \in Commands, id \in ActionIds :
          /\ ClassifyCommand(c) # NoEdit
          /\ StartIntercept(s)
          /\ slot'[s].action = ApplyMatchReplaceRules(ToInterceptedAction(id, ClassifyCommand(c)))
          /\ Becomes(p, [NotRunning EXCEPT !.pc = "waiting", !.command = c, !.slot = s])
    /\ UNCHANGED ran

(* fetch gives up, or the connection breaks: the gateway does not notice.  *)
AnswerLost(p) ==
    /\ shim[p].pc = "waiting"
    /\ FailsClosed(p)
    /\ UNCHANGED <<vars, ran>>

(* A mistake: the status of the response is looked at, its body is not.    *)
HeardStatusOnly(p, h) ==
    IF h.ok
    THEN Becomes(p, [shim[p] EXCEPT !.pc = "allowed", !.slot = NoEdit, !.judged = Judged(h)])
    ELSE FailsClosed(p)

\* The answer that arrives.
Heard(p, h) ==
    IF h.ok /\ h.decision.allowed
    THEN Becomes(p, [shim[p] EXCEPT !.pc = "allowed", !.slot = NoEdit, !.judged = Judged(h)])
    ELSE FailsClosed(p)

GatewayReplies(s) ==
    /\ Reply(s)
    /\ \/ \E p \in Shims : WaitsOn(p, s) /\ Heard(p, slot[s])
       \/ (~\E p \in Shims : WaitsOn(p, s)) /\ UNCHANGED shim
    /\ UNCHANGED ran

(* runReal: without LIMINAL_REAL_<TOOL>, or when it cannot be started,     *)
(* nothing runs and the exit code is 127; that is an outcome too.          *)
Run(p) ==
    /\ shim[p].pc = "allowed"
    /\ \/ /\ ClassifyCommand(shim[p].command) = NoEdit
          /\ Becomes(p, NotRunning) /\ UNCHANGED ran
       \/ /\ ClassifyCommand(shim[p].command) # NoEdit
          /\ Becomes(p, [shim[p] EXCEPT !.pc = "exited"])
          /\ ran' \in {ran, ran \cup {[command |-> shim[p].command, judged |-> shim[p].judged]}}
    /\ UNCHANGED vars

(* postOutcome: whether it arrives or not, and whatever it is answered,    *)
(* the shim ends with the exit code of the binary.  The bound on requests  *)
(* counts what agents and operators ask; an outcome follows from that.     *)
PostOutcome(p, s) ==
    /\ shim[p].pc = "exited"
    /\ At(s, "idle")
    /\ Goto(s, [Idle EXCEPT !.op = "outcome", !.outcomeOf = shim[p].judged.action.id], "outcomeRead")
    /\ Becomes(p, NotRunning)
    /\ UNCHANGED <<store, ledger, settings, process, observer, ran>>

OutcomeLost(p) ==
    /\ shim[p].pc = "exited"
    /\ Becomes(p, NotRunning)
    /\ UNCHANGED <<vars, ran>>

(* The connections of the process that died break.                         *)
GatewayRestarts ==
    /\ Restart
    /\ shim' = [p \in Shims |-> IF shim[p].pc = "waiting" THEN NotRunning ELSE shim[p]]
    /\ UNCHANGED ran

ShimStep(p) ==
    \/ RunUngoverned(p) \/ AnswerLost(p) \/ Run(p) \/ OutcomeLost(p)
    \/ \E s \in Slots : AskGateway(p, s) \/ PostOutcome(p, s)

(* Everything else that reaches the gateway, and its own steps.            *)
GatewayStep(s) ==
    /\ \/ StartVerdict(s)
       \/ Step(s) /\ ~At(s, "reply")
    /\ UNCHANGED shimVars

ShimmedInit ==
    /\ Init
    /\ shim = [p \in Shims |-> NotRunning]
    /\ ran = {}

ShimmedNext ==
    \/ \E p \in Shims : ShimStep(p)
    \/ \E s \in Slots : GatewayStep(s) \/ GatewayReplies(s)
    \/ (SetMode \/ SetMatchReplaceRules) /\ UNCHANGED shimVars
    \/ GatewayRestarts

ShimmedSpec == ShimmedInit /\ [][ShimmedNext]_<<vars, shimVars>>
-----------------------------------------------------------------------------
VerdictAllowed(a) ==
    \E e \in Sealed : e.event = "policy.verdict" /\ e.action = a /\ e.decision.allowed

IdAllowed(id) ==
    \E e \in Sealed : e.event = "policy.verdict" /\ e.action.id = id /\ e.decision.allowed

(* A consequential command is run only after the gateway sealed that its   *)
(* action is allowed, and outside shadow mode only if an operator approved *)
(* an action of its class; an entry of the history has an outcome only if  *)
(* the gateway allowed an action of its id, which is this action or one    *)
(* that came with the same id.  Whatever answers are lost, however often   *)
(* the agent tries again and the gateway dies.                             *)
RunsAreAccountedFor ==
    /\ \A r \in ran :
          /\ VerdictAllowed(r.judged.action)
          /\ r.judged.mode # "shadow" /\ InScope(r.judged.action, r.judged.scope)
                => \E a \in ApprovedActions : SameApprovedClass(a, r.judged.action)
    /\ \A e \in history : e.outcome => IdAllowed(e.action.id)
=============================================================================
