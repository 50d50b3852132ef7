----------------------------- MODULE DesktopApp -----------------------------
(***************************************************************************)
(* The operator's desktop app (apps/desktop-demo/src): three surfaces of   *)
(* which one is mounted, the inference proxy's console, the demo's shell,  *)
(* the correction form of its case screen and the voice control of its     *)
(* enforcement screen.  What is not mounted has no state; but what it      *)
(* awaited goes on without it.  A click runs its handler to its first      *)
(* await; the screen is rendered again before the next one.                *)
(***************************************************************************)
EXTENDS InferenceProxy

CONSTANTS Ids,             \* of the captured calls
          InitialCalls, InitialPolicies,
          Streams,         \* what the operator types as a workstream
          LiveAnswers,     \* lists of proposals the proxy may send
          Templates, FieldsOf, RequiredOf,
          MaxRuns, MaxCaptures,
          MaxEffort        \* changes, seals and captures

Call == [workstream : Names, model : Tiers, low : BOOLEAN]

IsPolicy(p) ==
    /\ p = Policy(p.id, p.workstream, p.tiers, p.status)
    /\ p.workstream \in Names /\ p.tiers \subseteq Tiers

ASSUME DesktopAssumptions ==
    /\ InitialCalls \in [Ids -> Call]
    /\ InitialPolicies \in Seq({InitialPolicies[i] : i \in DOMAIN InitialPolicies})
    /\ \A i \in DOMAIN InitialPolicies :
          IsPolicy(InitialPolicies[i]) /\ InitialPolicies[i].status = "active"
    /\ Streams \subseteq Names
    /\ \A w \in Names : None # RatifyProposal(Proposed("model-routing", w, {"haiku"}))
    /\ \A answer \in LiveAnswers : \A p \in answer : IsPolicy(p.policy)
    /\ \A t \in Templates : RequiredOf[t] \subseteq FieldsOf[t]
    /\ {MaxRuns, MaxCaptures, MaxEffort} \subseteq Nat

VARIABLES surface,         \* the mounted surface
          demo, beat,      \* has the governance loop run; the beat shown
          form,            \* the correction form, when it is open
          control,         \* the voice control: its status and its latest capture
          capture,         \* every voice capture started, its control mounted or not
          console,         \* the proxy console's state
          run,             \* its proposer runs that wait for the proxy
          now              \* observed: the changes made to calls and policies

vars == <<surface, demo, beat, form, control, capture, console, run, now>>
voiceVars == <<control, capture>>
demoVars == <<demo, beat, form>>
consoleVars == <<console, run, now>>

Surfaces == {"workspace", "proxy", "demo"}
Beats == 1..14

\* Beats that share a screen share its state.
ScreenOf == <<"Initialize", "Initialize", "AgentActivity", "ContextTray", "GovernanceCase",
    "EnforcementPanel", "EnforcementPanel", "EnforcementPanel", "EnforcementPanel",
    "EnforcementPanel", "AuditTrail", "SecondPassEval", "SecondPassEval", "SecondPassEval">>

Shows(screen) == surface = "demo" /\ demo = "ready" /\ ScreenOf[beat] = screen

NewConsole == [calls |-> InitialCalls, policies |-> InitialPolicies, selected |-> CHOOSE id \in Ids : TRUE,
               events |-> <<>>, live |-> None]
NewControl == [status |-> "idle", capture |-> 0]
NewForm == [chosen |-> {}, values |-> <<>>, reason |-> FALSE, errors |-> {}, preview |-> FALSE]

-----------------------------------------------------------------------------
(* The voice control.  A capture remembers its room and its microphone, as *)
(* roomRef and tracksRef do, and where its control was left.               *)

\* A mistake: the tracks are left to the room.
TeardownRoomOnly(c) ==
    [c EXCEPT !.room = IF @ = "open" THEN "closed" ELSE @,
              !.pc = IF @ = "published" THEN "teardown" ELSE @]

\* Tracks are stopped and the room is left; a room not yet made cannot be.
Teardown(c) ==
    [c EXCEPT !.mic = "off", !.room = IF @ = "open" THEN "closed" ELSE @,
              !.pc = IF @ = "published" THEN "teardown" ELSE @]

\* Nothing is remembered of a capture that is over.
Over == [pc |-> "done", room |-> "none", mic |-> "off", left |-> "mounted"]

\* The screen unmounts: the effect's cleanup tears down what the control holds.
Abandoned ==
    [k \in DOMAIN capture |->
        IF k = control.capture /\ capture[k].pc # "done"
        THEN [Teardown(capture[k]) EXCEPT !.left = capture[k].pc]
        ELSE capture[k]]

Unmount == capture' = Abandoned /\ control' = NewControl

\* setStatus reaches the screen only while the control that made the capture is mounted.
Status(k, status) ==
    control' = IF control.capture = k THEN [control EXCEPT !.status = status] ELSE control

HandleStart ==
    /\ Shows("EnforcementPanel")
    /\ control.status = "idle" /\ Len(capture) < MaxCaptures
    /\ capture' = Append(capture, [pc |-> "token", room |-> "none", mic |-> "off", left |-> "mounted"])
    /\ control' = [status |-> "connecting", capture |-> Len(capture) + 1]
    /\ UNCHANGED <<surface, demoVars, consoleVars>>

\* The server answers 503 without credentials, and 200 or 500 with them.
TokenAnswers == {"unavailable", "error", "token"}

\* The token arrives: a room is made and remembered, whoever still looks.
Token(k) ==
    /\ capture[k].pc = "token"
    /\ \E answer \in TokenAnswers :
        IF answer = "token"
        THEN /\ capture' = [capture EXCEPT ![k].pc = "connect", ![k].room = "open"]
             /\ UNCHANGED control
        ELSE /\ capture' = [capture EXCEPT ![k] = Over]
             /\ Status(k, "idle")
    /\ UNCHANGED <<surface, demoVars, consoleVars>>

\* connect, createLocalTracks and publishTrack in turn.  A room that was left answers none
\* of them but what it had already answered.
Proceed(k) ==
    \/ /\ capture[k].pc = "connect"
       /\ capture' = [capture EXCEPT ![k].pc = "tracks"]
       /\ UNCHANGED control
    \/ /\ capture[k].pc = "tracks"
       /\ capture' = [capture EXCEPT ![k].pc = "publish", ![k].mic = "live"]
       /\ UNCHANGED control
    \/ /\ capture[k].pc = "publish" /\ capture[k].room = "open"
       /\ capture' = [capture EXCEPT ![k].pc = "published"]
       /\ Status(k, "publishing")

Connecting(k) == Proceed(k) /\ UNCHANGED <<surface, demoVars, consoleVars>>

\* Any of them fails: the catch block tears down and waits for the room to be left.
CaptureFails(k) ==
    /\ capture[k].pc \in {"connect", "tracks", "publish"}
    /\ capture' = [capture EXCEPT ![k] = [Teardown(@) EXCEPT !.pc = "teardown"]]
    /\ UNCHANGED <<surface, demoVars, consoleVars, control>>

HandleStop ==
    /\ Shows("EnforcementPanel") /\ control.status = "publishing"
    /\ capture' = [capture EXCEPT ![control.capture] = Teardown(@)]
    /\ control' = [control EXCEPT !.status = "stopping"]
    /\ UNCHANGED <<surface, demoVars, consoleVars>>

Disconnected(k) ==
    /\ capture[k].pc = "teardown"
    /\ capture' = [capture EXCEPT ![k] = Over]
    /\ Status(k, "idle")
    /\ UNCHANGED <<surface, demoVars, consoleVars>>

-----------------------------------------------------------------------------
(* The shell: surfaces and beats.                                          *)

DemoProvider == demo = "loading" /\ surface = "demo" /\ demo' = "ready"
                /\ UNCHANGED <<surface, beat, form, voiceVars, consoleVars>>

\* One surface is mounted; the others forget everything.
Visit(s) ==
    /\ s # surface /\ surface' = s
    /\ demo' = "loading" /\ beat' = 1 /\ form' = None
    /\ Unmount
    /\ console' = NewConsole /\ run' = {} /\ now' = 0

\* The rail, Back and Next.
SetBeat(b) ==
    /\ surface = "demo" /\ demo = "ready" /\ b # beat /\ beat' = b
    /\ IF ScreenOf[b] = ScreenOf[beat] THEN UNCHANGED <<form, voiceVars>> ELSE form' = None /\ Unmount
    /\ UNCHANGED <<surface, demo, consoleVars>>

-----------------------------------------------------------------------------
(* The correction form of the case screen.  A value is TRUE when it is not *)
(* blank; a field nobody typed in is blank.                                *)

ShowForm ==
    /\ Shows("GovernanceCase") /\ form = None /\ form' = NewForm
    /\ UNCHANGED <<surface, demo, beat, voiceVars, consoleVars>>

InForm == Shows("GovernanceCase") /\ form # None
          /\ UNCHANGED <<surface, demo, beat, voiceVars, consoleVars>>

\* A mistake: deselecting a template keeps what was typed for it.
ToggleKeepsValues(t) ==
    LET chosen == IF t \in form.chosen THEN form.chosen \ {t} ELSE form.chosen \cup {t}
        known == DOMAIN form.values \cup {t}
    IN  form' = [form EXCEPT !.chosen = chosen, !.errors = {},
            !.values = [u \in known |-> IF u \in DOMAIN form.values THEN @[u] ELSE {}]]

HandleTemplateToggle(t) ==
    LET chosen == IF t \in form.chosen THEN form.chosen \ {t} ELSE form.chosen \cup {t}
    IN  form' = [form EXCEPT !.chosen = chosen, !.errors = {},
            !.values = [u \in chosen |-> IF u = t THEN {} ELSE @[u]]]

\* Every kind of input reports what is typed; the complaints of an earlier attempt stay.
HandleFieldChange(t, f) ==
    /\ t \in form.chosen /\ f \in FieldsOf[t]
    /\ \E values \in {form.values[t] \cup {f}, form.values[t] \ {f}} :
        form' = [form EXCEPT !.values[t] = values]

ReasonChange ==
    \E typed \in BOOLEAN : form' = [form EXCEPT !.reason = typed, !.errors = {}]

TogglePreview == form.chosen # {} /\ form' = [form EXCEPT !.preview = ~@]

Complaints ==
    (IF form.reason THEN {} ELSE {"reason"}) \cup
    UNION {RequiredOf[t] \ form.values[t] : t \in form.chosen}

\* Without a template the button is disabled; a complete correction is handed on and the
\* form closes.
HandleSubmit ==
    /\ form.chosen # {}
    /\ form' = IF Complaints = {} THEN None ELSE [form EXCEPT !.errors = Complaints]

EditForm ==
    InForm /\ \/ \E t \in Templates : HandleTemplateToggle(t)
              \/ \E t \in Templates : \E f \in FieldsOf[t] : HandleFieldChange(t, f)
              \/ ReasonChange
              \/ TogglePreview
              \/ HandleSubmit

-----------------------------------------------------------------------------
(* The proxy console.                                                      *)

Effort == now + Len(console.events) + Len(capture)

AtConsole == surface = "proxy" /\ UNCHANGED <<surface, demoVars, voiceVars>>

ShownProposals ==
    IF console.live = None THEN ProposePolicies(console.calls, console.policies)
    ELSE console.live.proposals

\* A mistake: a change keeps the list that was computed before it.
ChangedKeepsList(calls, policies) ==
    /\ Effort < MaxEffort /\ now' = now + 1
    /\ console' = [console EXCEPT !.calls = calls, !.policies = policies]
    /\ UNCHANGED run

\* Calls or policies change: what a run proposed for the old ones is dropped.
Changed(calls, policies) ==
    /\ Effort < MaxEffort /\ now' = now + 1
    /\ console' = [console EXCEPT !.calls = calls, !.policies = policies, !.live = None]
    /\ UNCHANGED run

Select(id) ==
    /\ id # console.selected
    /\ console' = [console EXCEPT !.selected = id]
    /\ UNCHANGED <<run, now>>

Update ==
    \E w \in Streams : \E model \in Tiers : \E low \in BOOLEAN :
        LET call == console.calls[console.selected]
            typed == [workstream |-> w, model |-> model, low |-> low]
        IN  /\ Cardinality({f \in DOMAIN call : typed[f] # call[f]}) = 1
            /\ Changed([console.calls EXCEPT ![console.selected] = typed], console.policies)

\* Every policy with the id, for ratifying may have put it there twice.
TogglePolicyTier(id, tier) ==
    LET Toggled(p) ==
            IF p.id # id THEN p
            ELSE [p EXCEPT !.tiers = IF tier \in @ THEN @ \ {tier} ELSE @ \cup {tier}]
    IN  Changed(console.calls, [i \in DOMAIN console.policies |-> Toggled(console.policies[i])])

\* Nothing looks for a policy that is already there.
Ratify(proposal) ==
    /\ proposal \in ShownProposals
    /\ Changed(console.calls, Append(console.policies, RatifyProposal(proposal)))

RecordDecision ==
    /\ Effort < MaxEffort
    /\ console' = [console EXCEPT !.events = Append(@,
            AuditInput(console.selected, console.calls[console.selected], console.policies))]
    /\ UNCHANGED <<run, now>>

\* The run keeps the calls and policies of the click.
RunProposerLive ==
    /\ Cardinality(run) < MaxRuns /\ Effort < MaxEffort
    /\ run' = run \cup {[calls |-> console.calls, policies |-> console.policies, asked |-> now]}
    /\ UNCHANGED <<console, now>>

\* The proxy's list if it has one; else, also when it is offline, the local one, computed
\* from what the run kept.  The list is shown whatever has changed since.
ProposerAnswered(r) ==
    /\ r \in run /\ run' = run \ {r}
    /\ \E answer \in LiveAnswers \cup {{}} :
        console' = [console EXCEPT !.live =
            [source |-> IF answer = {} THEN "local" ELSE "live",
             proposals |-> IF answer = {} THEN ProposePolicies(r.calls, r.policies) ELSE answer,
             asked |-> r.asked, shown |-> now]]
    /\ UNCHANGED now

UseConsole ==
    AtConsole /\ \/ \E id \in Ids : Select(id)
                 \/ Update
                 \/ \E i \in DOMAIN console.policies : \E tier \in Tiers :
                        TogglePolicyTier(console.policies[i].id, tier)
                 \/ \E p \in ShownProposals : Ratify(p)
                 \/ RecordDecision
                 \/ RunProposerLive
                 \/ \E r \in run : ProposerAnswered(r)

-----------------------------------------------------------------------------
Init ==
    /\ surface \in Surfaces
    /\ demo = "loading" /\ beat = 1 /\ form = None
    /\ control = NewControl /\ capture = <<>>
    /\ console = NewConsole /\ run = {} /\ now = 0

Next ==
    \/ \E s \in Surfaces : Visit(s)
    \/ DemoProvider
    \/ \E b \in Beats : SetBeat(b)
    \/ ShowForm
    \/ EditForm
    \/ HandleStart
    \/ \E k \in DOMAIN capture : Token(k)
    \/ \E k \in DOMAIN capture : Connecting(k)
    \/ \E k \in DOMAIN capture : CaptureFails(k)
    \/ HandleStop
    \/ \E k \in DOMAIN capture : Disconnected(k)
    \/ UseConsole

Spec == Init /\ [][Next]_vars

-----------------------------------------------------------------------------
(* Properties.                                                             *)

\* The shapes of the state; the form knows values of the chosen templates only, and a
\* control is idle, stopping or connecting as its latest capture is.
TypeOK ==
    /\ surface \in Surfaces /\ demo \in {"loading", "ready"} /\ beat \in Beats
    /\ form # None =>
        /\ form.chosen \subseteq Templates /\ DOMAIN form.values = form.chosen
        /\ \A t \in form.chosen : form.values[t] \subseteq FieldsOf[t]
        /\ form.errors # {} => form.chosen # {}
    /\ control.status = "connecting" =>
        capture[control.capture].pc \in {"token", "connect", "tracks", "publish", "teardown"}
    /\ control.status = "stopping" => capture[control.capture].pc = "teardown"
    /\ console.calls \in [Ids -> Call]
    /\ \A i \in DOMAIN console.policies :
        IsPolicy(console.policies[i]) /\ console.policies[i].status = "active"
    /\ \A r \in run : r.asked <= now

\* A list of proposals is on screen only until the calls or the policies change; and one that
\* the console computed itself is the list for what is on screen, unless the run behind it was
\* asked before the last change and answered after it.
ShownProposalsAreCurrent ==
    console.live # None =>
        /\ console.live.shown = now
        /\ console.live.source = "local" /\ console.live.asked = now =>
            console.live.proposals = ProposePolicies(console.calls, console.policies)

\* Ratifying a proposal that fits what is on screen takes effect at once: no call of its
\* workstream reaches a model the proposal does not list, in whatever order policies were
\* ratified, widened and narrowed before.
RatifiedProposalGoverns ==
    [][\A p \in ProposePolicies(console.calls, console.policies) :
        surface = "proxy" /\ console'.policies = Append(console.policies, RatifyProposal(p)) =>
            \A id \in Ids : console.calls[id].workstream = p.policy.workstream =>
                LET e == EvaluateProxy(console'.calls[id], console'.policies)
                IN  e.verdict # "deny" => e.model \in p.policy.tiers]_vars

\* A microphone is on only while the control that opened it says so, with two exceptions: a
\* screen left while it waited for its token opens one later that no control can close, and a
\* screen left after that has one on until it learns that its room was left.  And a control
\* that says it publishes has its microphone on.
MicrophoneIsShown ==
    /\ \A k \in DOMAIN capture : capture[k].mic = "live" =>
        \/ control.capture = k /\ control.status \in {"connecting", "publishing"}
        \/ capture[k].left = "token"
        \/ capture[k].left # "mounted" /\ capture[k].pc = "publish"
    /\ control.status = "publishing" => capture[control.capture].mic = "live"
=============================================================================
