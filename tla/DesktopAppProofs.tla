--------------------------- MODULE DesktopAppProofs ---------------------------
(***************************************************************************)
(* Theorems of DesktopApp, for any names, calls, policies, templates and   *)
(* bounds.                                                                 *)
(***************************************************************************)
EXTENDS DesktopApp, SequenceTheorems, TLAPS

(***************************************************************************)
(* The voice control.                                                      *)
(***************************************************************************)
Mounted == "mounted"

Stages == {"token", "connect", "tracks", "publish", "published", "teardown", "done"}

CaptureFields == {"pc", "room", "mic", "left"}

IsCapture(c) ==
    /\ c = [f \in CaptureFields |-> c[f]]
    /\ c.pc \in Stages
    /\ c.pc = "token" => c.room = "none" /\ c.mic = "off"
    /\ c.mic = "live" => c.pc \in {"publish", "published"}
    /\ c.left \notin {Mounted, "token"} => c.room # "open" /\ c.pc \notin {"token", "published"}
    /\ c.left = Mounted /\ c.pc \in {"publish", "published"} => c.mic = "live"

IsCaptures(cs) ==
    /\ \E S : cs \in Seq(S)
    /\ \A k \in 1..Len(cs) : IsCapture(cs[k])

(* What the control says of its latest capture; a capture that is not its  *)
(* own is over or was left.                                                *)
ControlTells(ctl, cs) ==
    /\ ctl = [status |-> ctl.status, capture |-> ctl.capture]
    /\ ctl.capture \in 0..Len(cs)
    /\ ctl.status \in {"idle", "connecting", "publishing", "stopping"}
    /\ ctl.status # "idle" => ctl.capture # 0
    /\ ctl.capture # 0 => cs[ctl.capture].left = Mounted
    /\ ctl.status = "connecting" =>
          cs[ctl.capture].pc \in {"token", "connect", "tracks", "publish", "teardown"}
    /\ ctl.status = "publishing" => cs[ctl.capture].pc = "published"
    /\ ctl.status = "stopping" => cs[ctl.capture].pc = "teardown"
    /\ \A k \in 1..Len(cs) :
          cs[k].left = Mounted /\ cs[k].pc # "done" => k = ctl.capture /\ ctl.status # "idle"

VoiceInv == IsCaptures(capture) /\ ControlTells(control, capture)

LEMMA CapturesProperties ==
    ASSUME NEW cs, IsCaptures(cs)
    PROVE  Len(cs) \in Nat /\ DOMAIN cs = 1..Len(cs)
BY LenProperties DEF IsCaptures

(* A microphone that is live is shown, or was left as the property says.   *)
LEMMA VoiceInvShowsMicrophones ==
    ASSUME VoiceInv
    PROVE  MicrophoneIsShown
<1>1. DOMAIN capture = 1..Len(capture) /\ Len(capture) \in Nat
  BY CapturesProperties DEF VoiceInv
<1>2. ASSUME NEW k \in 1..Len(capture), capture[k].mic = "live"
      PROVE  \/ control.capture = k /\ control.status \in {"connecting", "publishing"}
             \/ capture[k].left = "token"
             \/ capture[k].left # Mounted /\ capture[k].pc = "publish"
  <2>1. IsCapture(capture[k])
    BY DEF VoiceInv, IsCaptures
  <2>2. capture[k].pc \in {"publish", "published"}
    BY <1>2, <2>1 DEF IsCapture
  <2>3. CASE capture[k].left = Mounted
    BY <2>2, <2>3 DEF VoiceInv, ControlTells
  <2>4. CASE capture[k].left \notin {Mounted, "token"}
    BY <2>1, <2>2, <2>4 DEF IsCapture
  <2> QED
    BY <2>3, <2>4
<1>3. control.status = "publishing" => capture[control.capture].mic = "live"
  <2> SUFFICES ASSUME control.status = "publishing"
               PROVE  capture[control.capture].mic = "live"
    OBVIOUS
  <2>1. control.capture \in 1..Len(capture)
    BY <1>1 DEF VoiceInv, ControlTells
  <2>2. IsCapture(capture[control.capture])
    BY <2>1 DEF VoiceInv, IsCaptures
  <2> QED
    BY <2>2 DEF VoiceInv, ControlTells, IsCapture
<1> QED
  BY <1>1, <1>2, <1>3 DEF MicrophoneIsShown, Mounted

(* One capture changes, and the control with it or not.                    *)
LEMMA CaptureChanged ==
    ASSUME VoiceInv, NEW k \in 1..Len(capture), NEW c, IsCapture(c),
           capture' = [capture EXCEPT ![k] = c]
    PROVE  /\ IsCaptures(capture') /\ Len(capture') = Len(capture)
           /\ \A n \in 1..Len(capture) : capture'[n] = IF n = k THEN c ELSE capture[n]
<1>1. PICK S : capture \in Seq(S)
  BY DEF VoiceInv, IsCaptures
<1>2. capture \in Seq(S \cup {c}) /\ c \in S \cup {c}
  BY <1>1, SeqMonotonic
<1>3. /\ capture' \in Seq(S \cup {c}) /\ Len(capture') = Len(capture)
      /\ \A n \in 1..Len(capture) : capture'[n] = IF n = k THEN c ELSE capture[n]
  BY <1>2, ExceptSeq
<1>4. IsCaptures(capture')
  BY <1>3 DEF VoiceInv, IsCaptures
<1> QED
  BY <1>3, <1>4

LEMMA CaptureStarted ==
    ASSUME NEW cs, IsCaptures(cs), NEW c, IsCapture(c)
    PROVE  LET longer == Append(cs, c) IN
           /\ IsCaptures(longer)
           /\ Len(longer) = Len(cs) + 1
           /\ \A k \in 1..Len(cs) : longer[k] = cs[k]
           /\ longer[Len(cs) + 1] = c
<1> DEFINE longer == Append(cs, c)
<1>1. PICK S : cs \in Seq(S)
  BY DEF IsCaptures
<1>2. cs \in Seq(S \cup {c}) /\ c \in S \cup {c}
  BY <1>1, SeqMonotonic
<1>3. longer \in Seq(S \cup {c})
  BY <1>2
<1>4. /\ Len(longer) = Len(cs) + 1
      /\ \A k \in 1..Len(cs) : longer[k] = cs[k]
      /\ longer[Len(cs) + 1] = c
  BY <1>2
<1> HIDE DEF longer
<1>5. \A k \in 1..Len(longer) : IsCapture(longer[k])
  BY <1>4, CapturesProperties DEF IsCaptures
<1> QED
  BY <1>3, <1>4, <1>5 DEF IsCaptures, longer

(* The steps of one capture.                                               *)
LEMMA CaptureSteps ==
    ASSUME NEW c, IsCapture(c)
    PROVE  /\ IsCapture(Over) /\ Over.left = Mounted /\ Over.pc = "done"
           /\ c.pc \in {"connect", "tracks", "publish"} =>
                 LET failed == [Teardown(c) EXCEPT !.pc = "teardown"]
                 IN  IsCapture(failed) /\ failed.pc = "teardown" /\ failed.left = c.left
           /\ c.pc = "published" =>
                 IsCapture(Teardown(c)) /\ Teardown(c).pc = "teardown" /\ Teardown(c).left = c.left
           /\ c.left = Mounted /\ c.pc # "done" =>
                 LET gone == [Teardown(c) EXCEPT !.left = c.pc]
                 IN  IsCapture(gone) /\ gone.left # Mounted
<1> DEFINE torn == Teardown(c)
           failed == [torn EXCEPT !.pc = "teardown"]
           gone == [torn EXCEPT !.left = c.pc]
<1>1. c = [f \in CaptureFields |-> c[f]]
  BY DEF IsCapture
<1>2. IsCapture(Over) /\ Over.left = Mounted /\ Over.pc = "done"
  BY DEF IsCapture, Over, Mounted, Stages, CaptureFields
<1>3. /\ torn = [f \in CaptureFields |-> torn[f]]
      /\ torn.mic = "off" /\ torn.left = c.left
      /\ torn.room = IF c.room = "open" THEN "closed" ELSE c.room
      /\ torn.pc = IF c.pc = "published" THEN "teardown" ELSE c.pc
  BY <1>1 DEF Teardown, CaptureFields
<1> HIDE DEF torn
<1>4. /\ failed = [f \in CaptureFields |-> failed[f]]
      /\ failed.mic = "off" /\ failed.left = c.left
      /\ failed.room = torn.room /\ failed.pc = "teardown"
  BY <1>3 DEF CaptureFields
<1>5. /\ gone = [f \in CaptureFields |-> gone[f]]
      /\ gone.mic = "off" /\ gone.left = c.pc
      /\ gone.room = torn.room /\ gone.pc = torn.pc
  BY <1>3 DEF CaptureFields
<1> HIDE DEF failed, gone
<1>6. c.pc \in {"connect", "tracks", "publish"} =>
          IsCapture(failed) /\ failed.pc = "teardown" /\ failed.left = c.left
  BY <1>3, <1>4 DEF IsCapture, Mounted, Stages
<1>7. c.pc = "published" =>
          IsCapture(torn) /\ torn.pc = "teardown" /\ torn.left = c.left
  BY <1>3 DEF IsCapture, Mounted, Stages
<1>8. c.left = Mounted /\ c.pc # "done" =>
          IsCapture(gone) /\ gone.left # Mounted
  BY <1>3, <1>5 DEF IsCapture, Mounted, Stages
<1> QED
  BY <1>2, <1>6, <1>7, <1>8 DEF torn, failed, gone

(* A screen that unmounts leaves no capture behind that says otherwise.    *)
LEMMA UnmountKeepsVoiceInv ==
    ASSUME VoiceInv, Unmount
    PROVE  VoiceInv'
<1> DEFINE Left == {Abandoned[k] : k \in DOMAIN capture}
<1>1. DOMAIN capture = 1..Len(capture) /\ Len(capture) \in Nat
  BY CapturesProperties DEF VoiceInv
<1>2. ASSUME NEW k \in 1..Len(capture)
      PROVE  /\ IsCapture(Abandoned[k])
             /\ Abandoned[k].left = Mounted => Abandoned[k].pc = "done"
  <2>1. Abandoned[k] = IF k = control.capture /\ capture[k].pc # "done"
                       THEN [Teardown(capture[k]) EXCEPT !.left = capture[k].pc]
                       ELSE capture[k]
    BY <1>1 DEF Abandoned
  <2>2. IsCapture(capture[k])
    BY DEF VoiceInv, IsCaptures
  <2>3. CASE k = control.capture /\ capture[k].pc # "done"
    <3>1. control.capture # 0
      BY <1>1, <2>3
    <3>2. capture[k].left = Mounted
      BY <2>3, <3>1 DEF VoiceInv, ControlTells
    <3> QED
      BY <2>1, <2>2, <2>3, <3>2, CaptureSteps
  <2>4. CASE ~(k = control.capture /\ capture[k].pc # "done")
    BY <2>1, <2>2, <2>4 DEF VoiceInv, ControlTells
  <2> QED
    BY <2>3, <2>4
<1>3. Abandoned \in [1..Len(capture) -> Left]
  BY <1>1 DEF Abandoned
<1>4. Abandoned \in Seq(Left)
  BY <1>1, <1>3, SeqDef
<1>5. Len(Abandoned) = Len(capture)
  BY <1>1, <1>3, <1>4, LenProperties
<1>6. IsCaptures(Abandoned)
  BY <1>2, <1>4, <1>5 DEF IsCaptures
<1>7. ControlTells(NewControl, Abandoned)
  BY <1>1, <1>2, <1>5 DEF ControlTells, NewControl
<1> QED
  BY <1>6, <1>7 DEF Unmount, VoiceInv

LEMMA StartKeepsVoiceInv ==
    ASSUME VoiceInv, HandleStart
    PROVE  VoiceInv'
<1> DEFINE fresh == [pc |-> "token", room |-> "none", mic |-> "off", left |-> "mounted"]
           started == [status |-> "connecting", capture |-> Len(capture) + 1]
<1>1. IsCapture(fresh) /\ fresh.pc = "token" /\ fresh.left = Mounted
  BY DEF IsCapture, CaptureFields, Mounted, Stages
<1>2. /\ capture' = Append(capture, fresh)
      /\ control' = started
      /\ control.status = "idle"
  BY DEF HandleStart
<1>3. started.status = "connecting" /\ started.capture = Len(capture) + 1
      /\ started = [status |-> started.status, capture |-> started.capture]
  OBVIOUS
<1>4. Len(capture) \in Nat
  BY CapturesProperties DEF VoiceInv
<1> HIDE DEF fresh, started
<1>5. /\ IsCaptures(capture')
      /\ Len(capture') = Len(capture) + 1
      /\ \A k \in 1..Len(capture) : capture'[k] = capture[k]
      /\ capture'[Len(capture) + 1] = fresh
  BY <1>1, <1>2, CaptureStarted DEF VoiceInv
<1>6. ControlTells(started, capture')
  BY <1>1, <1>2, <1>3, <1>4, <1>5 DEF VoiceInv, ControlTells
<1> QED
  BY <1>2, <1>5, <1>6 DEF VoiceInv

(* A capture that is over tells its control, if it still is its latest.    *)
LEMMA OverKeepsVoiceInv ==
    ASSUME VoiceInv, NEW k \in 1..Len(capture),
           capture' = [capture EXCEPT ![k] = Over], Status(k, "idle")
    PROVE  VoiceInv'
<1> DEFINE told == [control EXCEPT !.status = "idle"]
<1>1. DOMAIN capture = 1..Len(capture) /\ Len(capture) \in Nat
  BY CapturesProperties DEF VoiceInv
<1>2. IsCapture(Over) /\ Over.left = Mounted /\ Over.pc = "done"
  BY CaptureSteps DEF VoiceInv, IsCaptures
<1>3. /\ told = [status |-> told.status, capture |-> told.capture]
      /\ told.status = "idle" /\ told.capture = control.capture
  BY DEF VoiceInv, ControlTells
<1>4. control' = IF control.capture = k THEN told ELSE control
  BY DEF Status
<1> HIDE DEF told
<1>5. /\ IsCaptures(capture') /\ Len(capture') = Len(capture)
      /\ \A n \in 1..Len(capture) : capture'[n] = IF n = k THEN Over ELSE capture[n]
  BY <1>2, CaptureChanged
<1>6. CASE control.capture = k
  <2>1. ControlTells(told, capture')
    BY <1>1, <1>2, <1>3, <1>5, <1>6 DEF VoiceInv, ControlTells
  <2> QED
    BY <1>4, <1>5, <1>6, <2>1 DEF VoiceInv
<1>7. CASE control.capture # k
  <2>1. ControlTells(control, capture')
    BY <1>1, <1>2, <1>5, <1>7 DEF VoiceInv, ControlTells
  <2> QED
    BY <1>4, <1>5, <1>7, <2>1 DEF VoiceInv
<1> QED
  BY <1>6, <1>7

LEMMA TokenKeepsVoiceInv ==
    ASSUME VoiceInv, NEW k \in DOMAIN capture, Token(k)
    PROVE  VoiceInv'
<1>1. DOMAIN capture = 1..Len(capture) /\ Len(capture) \in Nat
  BY CapturesProperties DEF VoiceInv
<1>2. k \in 1..Len(capture) /\ IsCapture(capture[k]) /\ capture[k].pc = "token"
  BY <1>1 DEF VoiceInv, IsCaptures, Token
<1>3. PICK answer \in TokenAnswers :
        IF answer = "token"
        THEN /\ capture' = [capture EXCEPT ![k].pc = "connect", ![k].room = "open"]
             /\ UNCHANGED control
        ELSE /\ capture' = [capture EXCEPT ![k] = Over]
             /\ Status(k, "idle")
  BY DEF Token
<1>4. CASE answer = "token"
  <2> DEFINE c == [capture[k] EXCEPT !.pc = "connect", !.room = "open"]
  <2>1. /\ c = [f \in CaptureFields |-> c[f]]
        /\ c.pc = "connect" /\ c.room = "open"
        /\ c.mic = capture[k].mic /\ c.left = capture[k].left
    BY <1>2 DEF IsCapture, CaptureFields
  <2>2. capture' = [capture EXCEPT ![k] = c] /\ control' = control
    BY <1>3, <1>4
  <2> HIDE DEF c
  <2>3. IsCapture(c)
    BY <1>2, <2>1 DEF IsCapture, Mounted, Stages
  <2>4. /\ IsCaptures(capture') /\ Len(capture') = Len(capture)
        /\ \A n \in 1..Len(capture) : capture'[n] = IF n = k THEN c ELSE capture[n]
    BY <1>2, <2>2, <2>3, CaptureChanged
  <2>5. ControlTells(control, capture')
    BY <1>1, <1>2, <2>1, <2>4 DEF VoiceInv, ControlTells
  <2> QED
    BY <2>2, <2>4, <2>5 DEF VoiceInv
<1>5. CASE answer # "token"
  BY <1>1, <1>2, <1>3, <1>5, OverKeepsVoiceInv
<1> QED
  BY <1>4, <1>5

LEMMA DisconnectedKeepsVoiceInv ==
    ASSUME VoiceInv, NEW k \in DOMAIN capture, Disconnected(k)
    PROVE  VoiceInv'
BY OverKeepsVoiceInv, CapturesProperties DEF Disconnected, VoiceInv

LEMMA ProceedKeepsVoiceInv ==
    ASSUME VoiceInv, NEW k \in DOMAIN capture, Proceed(k)
    PROVE  VoiceInv'
<1>1. DOMAIN capture = 1..Len(capture) /\ Len(capture) \in Nat
  BY CapturesProperties DEF VoiceInv
<1>2. k \in 1..Len(capture) /\ IsCapture(capture[k])
  BY <1>1 DEF VoiceInv, IsCaptures
<1>3. ASSUME NEW c, IsCapture(c), capture' = [capture EXCEPT ![k] = c],
             c.left = capture[k].left, control' = control,
             capture[k].pc \in {"connect", "tracks"}, c.pc \in {"tracks", "publish"}
      PROVE  VoiceInv'
  <2>1. /\ IsCaptures(capture') /\ Len(capture') = Len(capture)
        /\ \A n \in 1..Len(capture) : capture'[n] = IF n = k THEN c ELSE capture[n]
    BY <1>2, <1>3, CaptureChanged
  <2>2. ControlTells(control, capture')
    BY <1>1, <1>2, <1>3, <2>1 DEF VoiceInv, ControlTells
  <2> QED
    BY <1>3, <2>1, <2>2 DEF VoiceInv
<1>4. CASE /\ capture[k].pc = "connect"
           /\ capture' = [capture EXCEPT ![k].pc = "tracks"]
           /\ UNCHANGED control
  <2> DEFINE c == [capture[k] EXCEPT !.pc = "tracks"]
  <2>1. /\ c = [f \in CaptureFields |-> c[f]]
        /\ c.pc = "tracks" /\ c.room = capture[k].room
        /\ c.mic = capture[k].mic /\ c.left = capture[k].left
    BY <1>2 DEF IsCapture, CaptureFields
  <2>2. capture' = [capture EXCEPT ![k] = c]
    BY <1>4
  <2> HIDE DEF c
  <2>3. IsCapture(c)
    BY <1>2, <1>4, <2>1 DEF IsCapture, Mounted, Stages
  <2> QED
    BY <1>3, <1>4, <2>1, <2>2, <2>3
<1>5. CASE /\ capture[k].pc = "tracks"
           /\ capture' = [capture EXCEPT ![k].pc = "publish", ![k].mic = "live"]
           /\ UNCHANGED control
  <2> DEFINE c == [capture[k] EXCEPT !.pc = "publish", !.mic = "live"]
  <2>1. /\ c = [f \in CaptureFields |-> c[f]]
        /\ c.pc = "publish" /\ c.room = capture[k].room
        /\ c.mic = "live" /\ c.left = capture[k].left
    BY <1>2 DEF IsCapture, CaptureFields
  <2>2. capture' = [capture EXCEPT ![k] = c]
    BY <1>5
  <2> HIDE DEF c
  <2>3. IsCapture(c)
    BY <1>2, <1>5, <2>1 DEF IsCapture, Mounted, Stages
  <2> QED
    BY <1>3, <1>5, <2>1, <2>2, <2>3
<1>6. CASE /\ capture[k].pc = "publish" /\ capture[k].room = "open"
           /\ capture' = [capture EXCEPT ![k].pc = "published"]
           /\ Status(k, "publishing")
  <2> DEFINE c == [capture[k] EXCEPT !.pc = "published"]
             told == [control EXCEPT !.status = "publishing"]
  <2>1. /\ c = [f \in CaptureFields |-> c[f]]
        /\ c.pc = "published" /\ c.room = capture[k].room
        /\ c.mic = capture[k].mic /\ c.left = capture[k].left
    BY <1>2 DEF IsCapture, CaptureFields
  <2>2. capture' = [capture EXCEPT ![k] = c]
    BY <1>6
  <2>3. /\ told = [status |-> told.status, capture |-> told.capture]
        /\ told.status = "publishing" /\ told.capture = control.capture
    BY DEF VoiceInv, ControlTells
  <2>4. control' = IF control.capture = k THEN told ELSE control
    BY <1>6 DEF Status
  <2> HIDE DEF c, told
  <2>5. IsCapture(c)
    BY <1>2, <1>6, <2>1 DEF IsCapture, Mounted, Stages
  <2>6. /\ IsCaptures(capture') /\ Len(capture') = Len(capture)
        /\ \A n \in 1..Len(capture) : capture'[n] = IF n = k THEN c ELSE capture[n]
    BY <1>2, <2>2, <2>5, CaptureChanged
  <2>7. CASE control.capture = k
    <3>1. ControlTells(told, capture')
      BY <1>1, <1>2, <1>6, <2>1, <2>3, <2>6, <2>7 DEF VoiceInv, ControlTells
    <3> QED
      BY <2>4, <2>6, <2>7, <3>1 DEF VoiceInv
  <2>8. CASE control.capture # k
    <3>1. ControlTells(control, capture')
      BY <1>1, <1>2, <1>6, <2>1, <2>6, <2>8 DEF VoiceInv, ControlTells
    <3> QED
      BY <2>4, <2>6, <2>8, <3>1 DEF VoiceInv
  <2> QED
    BY <2>7, <2>8
<1> QED
  BY <1>4, <1>5, <1>6 DEF Proceed

LEMMA FailureKeepsVoiceInv ==
    ASSUME VoiceInv, NEW k \in DOMAIN capture, CaptureFails(k)
    PROVE  VoiceInv'
<1>1. DOMAIN capture = 1..Len(capture) /\ Len(capture) \in Nat
  BY CapturesProperties DEF VoiceInv
<1>2. k \in 1..Len(capture) /\ IsCapture(capture[k])
  BY <1>1 DEF VoiceInv, IsCaptures
<1> DEFINE c == [Teardown(capture[k]) EXCEPT !.pc = "teardown"]
<1>3. /\ IsCapture(c) /\ c.pc = "teardown" /\ c.left = capture[k].left
      /\ capture[k].pc \in {"connect", "tracks", "publish"}
  BY <1>2, CaptureSteps DEF CaptureFails
<1>4. capture' = [capture EXCEPT ![k] = c] /\ control' = control
  BY DEF CaptureFails
<1> HIDE DEF c
<1>5. /\ IsCaptures(capture') /\ Len(capture') = Len(capture)
      /\ \A n \in 1..Len(capture) : capture'[n] = IF n = k THEN c ELSE capture[n]
  BY <1>2, <1>3, <1>4, CaptureChanged
<1>6. ControlTells(control, capture')
  BY <1>1, <1>2, <1>3, <1>5 DEF VoiceInv, ControlTells
<1> QED
  BY <1>4, <1>5, <1>6 DEF VoiceInv

LEMMA StopKeepsVoiceInv ==
    ASSUME VoiceInv, HandleStop
    PROVE  VoiceInv'
<1> DEFINE k == control.capture
           c == Teardown(capture[k])
           told == [control EXCEPT !.status = "stopping"]
<1>1. DOMAIN capture = 1..Len(capture) /\ Len(capture) \in Nat
  BY CapturesProperties DEF VoiceInv
<1>2. /\ k \in 1..Len(capture) /\ IsCapture(capture[k])
      /\ capture[k].pc = "published" /\ capture[k].left = Mounted
  BY <1>1 DEF VoiceInv, IsCaptures, ControlTells, HandleStop
<1>3. IsCapture(c) /\ c.pc = "teardown" /\ c.left = capture[k].left
  BY <1>2, CaptureSteps
<1>4. /\ told = [status |-> told.status, capture |-> told.capture]
      /\ told.status = "stopping" /\ told.capture = k
  BY DEF VoiceInv, ControlTells
<1>5. capture' = [capture EXCEPT ![k] = c] /\ control' = told
  BY DEF HandleStop
<1> HIDE DEF c, told
<1>6. /\ IsCaptures(capture') /\ Len(capture') = Len(capture)
      /\ \A n \in 1..Len(capture) : capture'[n] = IF n = k THEN c ELSE capture[n]
  BY <1>2, <1>3, <1>5, CaptureChanged
<1>7. ControlTells(told, capture')
  BY <1>1, <1>2, <1>3, <1>4, <1>6 DEF VoiceInv, ControlTells
<1> QED
  BY <1>5, <1>6, <1>7 DEF VoiceInv

LEMMA VoiceInvInitially ==
    ASSUME Init
    PROVE  VoiceInv
<1>1. capture \in Seq({}) /\ Len(capture) = 0
  BY EmptySeq DEF Init
<1>2. IsCaptures(capture)
  BY <1>1 DEF IsCaptures
<1>3. ControlTells(control, capture)
  BY <1>1 DEF Init, NewControl, ControlTells
<1> QED
  BY <1>2, <1>3 DEF VoiceInv

LEMMA VoiceInvPreserved ==
    ASSUME VoiceInv, [Next]_vars
    PROVE  VoiceInv'
<1>1. ASSUME UNCHANGED voiceVars PROVE VoiceInv'
  BY <1>1 DEF voiceVars, VoiceInv
<1>2. CASE \E s \in Surfaces : Visit(s)
  BY <1>2, UnmountKeepsVoiceInv DEF Visit
<1>3. CASE DemoProvider
  BY <1>1, <1>3 DEF DemoProvider
<1>4. CASE \E b \in Beats : SetBeat(b)
  BY <1>1, <1>4, UnmountKeepsVoiceInv DEF SetBeat, voiceVars
<1>5. CASE ShowForm \/ EditForm \/ UseConsole
  BY <1>1, <1>5 DEF ShowForm, EditForm, InForm, UseConsole, AtConsole
<1>6. CASE HandleStart
  BY <1>6, StartKeepsVoiceInv
<1>7. CASE \E k \in DOMAIN capture : Token(k)
  BY <1>7, TokenKeepsVoiceInv
<1>8. CASE \E k \in DOMAIN capture : Connecting(k)
  BY <1>8, ProceedKeepsVoiceInv DEF Connecting
<1>9. CASE \E k \in DOMAIN capture : CaptureFails(k)
  BY <1>9, FailureKeepsVoiceInv
<1>10. CASE HandleStop
  BY <1>10, StopKeepsVoiceInv
<1>11. CASE \E k \in DOMAIN capture : Disconnected(k)
  BY <1>11, DisconnectedKeepsVoiceInv
<1>12. CASE UNCHANGED vars
  BY <1>1, <1>12 DEF vars, voiceVars
<1> QED
  BY <1>2, <1>3, <1>4, <1>5, <1>6, <1>7, <1>8, <1>9, <1>10, <1>11, <1>12 DEF Next

LEMMA AlwaysVoiceInv == Spec => []VoiceInv
<1>1. Init => VoiceInv
  BY VoiceInvInitially
<1>2. VoiceInv /\ [Next]_vars => VoiceInv'
  BY VoiceInvPreserved
<1> QED
  BY <1>1, <1>2, PTL DEF Spec

(* In every behaviour a live microphone is shown by the control that       *)
(* opened it, or was left behind while it waited for its token or between  *)
(* its tracks and their publication.                                       *)
THEOREM MicrophonesShown == Spec => []MicrophoneIsShown
<1>1. VoiceInv => MicrophoneIsShown
  BY VoiceInvShowsMicrophones
<1> QED
  BY <1>1, AlwaysVoiceInv, PTL

(***************************************************************************)
(* The policies: a sequence of active policies.                            *)
(***************************************************************************)
PolicyFields == {"id", "workstream", "tiers", "status"}

LEMMA PolicyShape ==
    \A p : p = Policy(p.id, p.workstream, p.tiers, p.status) <=> p = [f \in PolicyFields |-> p[f]]
BY DEF Policy, PolicyFields

IsPolicies(ps) ==
    /\ \E S : ps \in Seq(S)
    /\ Len(ps) >= Len(InitialPolicies)
    /\ \A i \in 1..Len(ps) : IsPolicy(ps[i]) /\ ps[i].status = "active"

LEMMA PoliciesProperties ==
    ASSUME NEW ps, IsPolicies(ps)
    PROVE  Len(ps) \in Nat /\ DOMAIN ps = 1..Len(ps)
BY LenProperties DEF IsPolicies

LEMMA InitialPoliciesAre == IsPolicies(InitialPolicies)
<1>1. Len(InitialPolicies) \in Nat /\ DOMAIN InitialPolicies = 1..Len(InitialPolicies)
  BY DesktopAssumptions, LenProperties
<1> QED
  BY <1>1, DesktopAssumptions DEF IsPolicies

LEMMA ProposalRatified ==
    ASSUME NEW proposal, IsPolicy(proposal.policy)
    PROVE  LET p == RatifyProposal(proposal) IN
           /\ IsPolicy(p) /\ p.status = "active"
           /\ p.workstream = proposal.policy.workstream
           /\ p.tiers = proposal.policy.tiers
<1> DEFINE draft == proposal.policy
           p == [draft EXCEPT !.status = "active"]
<1>1. draft = [f \in PolicyFields |-> draft[f]] /\ draft.workstream \in Names
      /\ draft.tiers \subseteq Tiers
  BY PolicyShape DEF IsPolicy
<1> HIDE DEF draft
<1>2. /\ p = [f \in PolicyFields |-> p[f]]
      /\ p.tiers = draft.tiers /\ p.workstream = draft.workstream
      /\ p.status = "active"
  BY <1>1 DEF PolicyFields
<1> HIDE DEF p
<1>3. IsPolicy(p)
  BY <1>1, <1>2, PolicyShape DEF IsPolicy
<1> QED
  BY <1>2, <1>3 DEF p, draft, RatifyProposal

(* What is proposed is a policy of a captured call's workstream.           *)
LEMMA ProposalsArePolicies ==
    ASSUME NEW calls \in [Ids -> Call], NEW policies,
           NEW p \in ProposePolicies(calls, policies)
    PROVE  IsPolicy(p.policy) /\ p.policy.workstream \in Names
<1>1. ASSUME NEW kind, NEW w \in Names, NEW tiers \in SUBSET Tiers,
             p = Proposed(kind, w, tiers)
      PROVE  IsPolicy(p.policy) /\ p.policy.workstream \in Names
  BY <1>1 DEF Proposed, IsPolicy, Policy
<1>2. {"haiku"} \in SUBSET Tiers /\ {} \in SUBSET Tiers
  BY DEF Tiers, TierOrder
<1>3. \A id \in DOMAIN calls : calls[id].workstream \in Names
  BY DEF Call
<1> QED
  BY <1>1, <1>2, <1>3 DEF ProposePolicies

LEMMA PolicyRatified ==
    ASSUME NEW ps, IsPolicies(ps), NEW proposal, IsPolicy(proposal.policy)
    PROVE  IsPolicies(Append(ps, RatifyProposal(proposal)))
<1> DEFINE p == RatifyProposal(proposal)
           longer == Append(ps, p)
<1>1. IsPolicy(p) /\ p.status = "active"
  BY ProposalRatified
<1> HIDE DEF p
<1>2. PICK S : ps \in Seq(S)
  BY DEF IsPolicies
<1>3. ps \in Seq(S \cup {p}) /\ p \in S \cup {p}
  BY <1>2, SeqMonotonic
<1>4. longer \in Seq(S \cup {p})
  BY <1>3
<1>5. /\ Len(longer) = Len(ps) + 1
      /\ \A i \in 1..Len(ps) : longer[i] = ps[i]
      /\ longer[Len(ps) + 1] = p
  BY <1>3
<1> HIDE DEF longer
<1>6. Len(ps) \in Nat /\ Len(InitialPolicies) \in Nat
  BY PoliciesProperties, InitialPoliciesAre
<1>7. \A i \in 1..Len(longer) : IsPolicy(longer[i]) /\ longer[i].status = "active"
  BY <1>1, <1>5, <1>6 DEF IsPolicies
<1> QED
  BY <1>4, <1>5, <1>6, <1>7 DEF IsPolicies, longer, p

LEMMA PoliciesChanged ==
    ASSUME NEW ps, IsPolicies(ps), NEW changed,
           changed = [i \in DOMAIN ps |-> changed[i]],
           \A i \in 1..Len(ps) : IsPolicy(changed[i]) /\ changed[i].status = "active"
    PROVE  IsPolicies(changed) /\ Len(changed) = Len(ps)
<1> DEFINE Values == {changed[i] : i \in 1..Len(ps)}
<1>1. Len(ps) \in Nat /\ DOMAIN ps = 1..Len(ps)
  BY PoliciesProperties
<1>2. changed \in [1..Len(ps) -> Values]
  BY <1>1
<1> HIDE DEF Values
<1>3. changed \in Seq(Values)
  BY <1>1, <1>2, SeqDef
<1>4. Len(changed) = Len(ps)
  BY <1>1, <1>2, <1>3, LenProperties
<1> QED
  BY <1>3, <1>4 DEF IsPolicies

(***************************************************************************)
(* The console: what it shows, and what the runs that wait remember.       *)
(***************************************************************************)
ConsoleFields == {"calls", "policies", "selected", "events", "live"}

(* A list that is shown is a list of policies shown since the last change, *)
(* and the console's own when it was asked for after that.                 *)
ListInv(list) ==
    /\ list.shown = now
    /\ \A p \in list.proposals : IsPolicy(p.policy)
    /\ list.source = "local" /\ list.asked = now =>
          list.proposals = ProposePolicies(console.calls, console.policies)

RunInv(r) ==
    /\ r.asked \in Nat /\ r.asked <= now
    /\ r.calls \in [Ids -> Call]
    /\ r.asked = now => r.calls = console.calls /\ r.policies = console.policies

ConsoleInv ==
    /\ console = [f \in ConsoleFields |-> console[f]]
    /\ console.calls \in [Ids -> Call]
    /\ IsPolicies(console.policies)
    /\ now \in Nat
    /\ \A r \in run : RunInv(r)
    /\ console.live # None => ListInv(console.live)

LEMMA ConsoleUnchanged ==
    ASSUME ConsoleInv, now' = now, run' = run,
           console' = [f \in ConsoleFields |-> console'[f]],
           console'.calls = console.calls, console'.policies = console.policies,
           console'.live = console.live
    PROVE  ConsoleInv'
BY DEF ConsoleInv, RunInv, ListInv

LEMMA ChangedKeepsConsoleInv ==
    ASSUME ConsoleInv, NEW calls \in [Ids -> Call], NEW policies, IsPolicies(policies),
           Changed(calls, policies)
    PROVE  ConsoleInv' /\ console'.calls = calls /\ console'.policies = policies
<1>1. /\ console' = [f \in ConsoleFields |-> console'[f]]
      /\ console'.calls = calls /\ console'.policies = policies /\ console'.live = None
  BY DEF ConsoleInv, Changed, ConsoleFields
<1>2. now' = now + 1 /\ run' = run /\ now \in Nat
  BY DEF Changed, ConsoleInv
<1>3. \A r \in run' : RunInv(r)'
  BY <1>2 DEF ConsoleInv, RunInv
<1> QED
  BY <1>1, <1>2, <1>3 DEF ConsoleInv

LEMMA UpdateKeepsConsoleInv ==
    ASSUME ConsoleInv, Update
    PROVE  ConsoleInv' /\ console'.policies = console.policies
<1>1. PICK w \in Streams, model \in Tiers, low \in BOOLEAN :
        LET typed == [workstream |-> w, model |-> model, low |-> low]
        IN  Changed([console.calls EXCEPT ![console.selected] = typed], console.policies)
  BY DEF Update
<1> DEFINE typed == [workstream |-> w, model |-> model, low |-> low]
<1>2. typed \in Call
  BY DesktopAssumptions DEF Call
<1> HIDE DEF typed
<1>3. [console.calls EXCEPT ![console.selected] = typed] \in [Ids -> Call]
  BY <1>2 DEF ConsoleInv
<1> QED
  BY <1>1, <1>3, ChangedKeepsConsoleInv DEF ConsoleInv, typed

LEMMA ToggleKeepsConsoleInv ==
    ASSUME ConsoleInv, NEW id, NEW tier \in Tiers, TogglePolicyTier(id, tier)
    PROVE  ConsoleInv' /\ Len(console'.policies) = Len(console.policies)
<1> DEFINE ps == console.policies
           toggled == [i \in DOMAIN ps |->
               IF ps[i].id # id THEN ps[i]
               ELSE [ps[i] EXCEPT !.tiers = IF tier \in @ THEN @ \ {tier} ELSE @ \cup {tier}]]
<1>1. Changed(console.calls, toggled)
  BY DEF TogglePolicyTier
<1>2. ASSUME NEW i \in 1..Len(ps)
      PROVE  IsPolicy(toggled[i]) /\ toggled[i].status = "active"
  <2> DEFINE p == ps[i]
             tiers == IF tier \in p.tiers THEN p.tiers \ {tier} ELSE p.tiers \cup {tier}
             widened == [p EXCEPT !.tiers = tiers]
  <2>1. IsPolicy(p) /\ p.status = "active" /\ i \in DOMAIN ps
    BY PoliciesProperties DEF IsPolicies, ConsoleInv
  <2>2. toggled[i] = IF p.id # id THEN p ELSE widened
    BY <2>1
  <2>3. p = [f \in PolicyFields |-> p[f]] /\ p.workstream \in Names /\ tiers \subseteq Tiers
    BY <2>1, PolicyShape DEF IsPolicy
  <2> HIDE DEF p, tiers, toggled
  <2>4. /\ widened = [f \in PolicyFields |-> widened[f]]
        /\ widened.tiers = tiers /\ widened.workstream = p.workstream
        /\ widened.status = p.status
    BY <2>3 DEF PolicyFields
  <2> HIDE DEF widened
  <2>5. IsPolicy(widened)
    BY <2>3, <2>4, PolicyShape DEF IsPolicy
  <2> QED
    BY <2>1, <2>2, <2>4, <2>5
<1>3. toggled = [i \in DOMAIN ps |-> toggled[i]]
  OBVIOUS
<1> HIDE DEF toggled
<1>4. IsPolicies(toggled) /\ Len(toggled) = Len(ps)
  BY <1>2, <1>3, PoliciesChanged DEF ConsoleInv
<1> QED
  BY <1>1, <1>4, ChangedKeepsConsoleInv DEF ConsoleInv

LEMMA RatifyKeepsConsoleInv ==
    ASSUME ConsoleInv, NEW p, Ratify(p)
    PROVE  ConsoleInv' /\ console'.calls = console.calls
<1>1. IsPolicy(p.policy)
  BY ProposalsArePolicies DEF ConsoleInv, ListInv, Ratify, ShownProposals
<1>2. IsPolicies(Append(console.policies, RatifyProposal(p)))
  BY <1>1, PolicyRatified DEF ConsoleInv
<1> QED
  BY <1>2, ChangedKeepsConsoleInv DEF ConsoleInv, Ratify

LEMMA RunKeepsConsoleInv ==
    ASSUME ConsoleInv, RunProposerLive
    PROVE  ConsoleInv' /\ console' = console
<1> DEFINE r == [calls |-> console.calls, policies |-> console.policies, asked |-> now]
<1>1. RunInv(r)
  BY DEF ConsoleInv, RunInv
<1> HIDE DEF r
<1>2. run' = run \cup {r} /\ console' = console /\ now' = now
  BY DEF RunProposerLive, r
<1>3. \A q \in run' : RunInv(q)
  BY <1>1, <1>2 DEF ConsoleInv
<1> QED
  BY <1>2, <1>3 DEF ConsoleInv, RunInv, ListInv

LEMMA AnswerKeepsConsoleInv ==
    ASSUME ConsoleInv, NEW r \in run, ProposerAnswered(r)
    PROVE  ConsoleInv' /\ console'.policies = console.policies
<1>1. PICK answer \in LiveAnswers \cup {{}} :
        console' = [console EXCEPT !.live =
            [source |-> IF answer = {} THEN "local" ELSE "live",
             proposals |-> IF answer = {} THEN ProposePolicies(r.calls, r.policies) ELSE answer,
             asked |-> r.asked, shown |-> now]]
  BY DEF ProposerAnswered
<1> DEFINE list == [source |-> IF answer = {} THEN "local" ELSE "live",
             proposals |-> IF answer = {} THEN ProposePolicies(r.calls, r.policies) ELSE answer,
             asked |-> r.asked, shown |-> now]
<1>2. /\ list.shown = now /\ list.asked = r.asked
      /\ list.source = IF answer = {} THEN "local" ELSE "live"
      /\ list.proposals = IF answer = {} THEN ProposePolicies(r.calls, r.policies) ELSE answer
  OBVIOUS
<1> HIDE DEF list
<1>3. /\ console' = [f \in ConsoleFields |-> console'[f]]
      /\ console'.calls = console.calls /\ console'.policies = console.policies
      /\ console'.live = list
  BY <1>1 DEF ConsoleInv, ConsoleFields, list
<1>4. now' = now /\ run' \subseteq run
  BY DEF ProposerAnswered
<1>5. RunInv(r)
  BY DEF ConsoleInv
<1>6. \A p \in list.proposals : IsPolicy(p.policy)
  <2>1. CASE answer = {}
    BY <1>2, <1>5, <2>1, ProposalsArePolicies DEF RunInv
  <2>2. CASE answer # {}
    BY <1>2, <2>2, DesktopAssumptions
  <2> QED
    BY <2>1, <2>2
<1>7. ListInv(list)
  BY <1>2, <1>5, <1>6 DEF ListInv, RunInv
<1>8. (console.live # None => ListInv(console.live))'
  BY <1>3, <1>4, <1>7 DEF ListInv
<1>9. \A q \in run' : RunInv(q)'
  BY <1>3, <1>4 DEF ConsoleInv, RunInv
<1> QED
  BY <1>3, <1>4, <1>8, <1>9 DEF ConsoleInv

LEMMA NewConsoleKeepsConsoleInv ==
    ASSUME console' = NewConsole, run' = {}, now' = 0
    PROVE  ConsoleInv'
<1>1. /\ console' = [f \in ConsoleFields |-> console'[f]]
      /\ console'.calls = InitialCalls /\ console'.policies = InitialPolicies
      /\ console'.live = None
  BY DEF NewConsole, ConsoleFields
<1> QED
  BY <1>1, InitialPoliciesAre, DesktopAssumptions DEF ConsoleInv

LEMMA ConsoleInvInitially ==
    ASSUME Init
    PROVE  ConsoleInv
<1>1. /\ console = [f \in ConsoleFields |-> console[f]]
      /\ console.calls = InitialCalls /\ console.policies = InitialPolicies
      /\ console.live = None
  BY DEF Init, NewConsole, ConsoleFields
<1> QED
  BY <1>1, InitialPoliciesAre, DesktopAssumptions DEF ConsoleInv, Init

(* Any use of the console keeps the invariant, and only ratifying makes    *)
(* the policies more.                                                      *)
LEMMA UseKeepsConsoleInv ==
    ASSUME ConsoleInv, UseConsole
    PROVE  /\ ConsoleInv'
           /\ console'.calls = console.calls \/ Len(console'.policies) = Len(console.policies)
<1>1. CASE \E id \in Ids : Select(id)
  <2>1. PICK id \in Ids : Select(id)
    BY <1>1
  <2>2. /\ console' = [f \in ConsoleFields |-> console'[f]]
        /\ console'.calls = console.calls /\ console'.policies = console.policies
        /\ console'.live = console.live
    BY <2>1 DEF Select, ConsoleInv, ConsoleFields
  <2> QED
    BY <2>1, <2>2, ConsoleUnchanged DEF Select
<1>2. CASE Update
  BY <1>2, UpdateKeepsConsoleInv
<1>3. CASE \E i \in DOMAIN console.policies : \E tier \in Tiers :
              TogglePolicyTier(console.policies[i].id, tier)
  BY <1>3, ToggleKeepsConsoleInv
<1>4. CASE \E p \in ShownProposals : Ratify(p)
  BY <1>4, RatifyKeepsConsoleInv
<1>5. CASE RecordDecision
  <2>1. /\ console' = [f \in ConsoleFields |-> console'[f]]
        /\ console'.calls = console.calls /\ console'.policies = console.policies
        /\ console'.live = console.live
    BY <1>5 DEF RecordDecision, ConsoleInv, ConsoleFields
  <2> QED
    BY <1>5, <2>1, ConsoleUnchanged DEF RecordDecision
<1>6. CASE RunProposerLive
  BY <1>6, RunKeepsConsoleInv
<1>7. CASE \E r \in run : ProposerAnswered(r)
  BY <1>7, AnswerKeepsConsoleInv
<1> QED
  BY <1>1, <1>2, <1>3, <1>4, <1>5, <1>6, <1>7 DEF UseConsole

LEMMA ConsoleInvPreserved ==
    ASSUME ConsoleInv, [Next]_vars
    PROVE  ConsoleInv'
<1>1. ASSUME UNCHANGED consoleVars PROVE ConsoleInv'
  BY <1>1 DEF consoleVars, ConsoleInv, RunInv, ListInv
<1>2. CASE \E s \in Surfaces : Visit(s)
  BY <1>2, NewConsoleKeepsConsoleInv DEF Visit
<1>3. CASE DemoProvider \/ ShowForm \/ EditForm \/ HandleStart \/ HandleStop
  BY <1>1, <1>3 DEF DemoProvider, ShowForm, EditForm, InForm, HandleStart, HandleStop
<1>4. CASE \E b \in Beats : SetBeat(b)
  BY <1>1, <1>4 DEF SetBeat
<1>5. CASE \E k \in DOMAIN capture : Token(k) \/ Connecting(k) \/ CaptureFails(k) \/ Disconnected(k)
  BY <1>1, <1>5 DEF Token, Connecting, CaptureFails, Disconnected
<1>6. CASE UseConsole
  BY <1>6, UseKeepsConsoleInv
<1>7. CASE UNCHANGED vars
  BY <1>1, <1>7 DEF vars, consoleVars
<1> QED
  BY <1>2, <1>3, <1>4, <1>5, <1>6, <1>7 DEF Next

LEMMA AlwaysConsoleInv == Spec => []ConsoleInv
<1>1. Init => ConsoleInv
  BY ConsoleInvInitially
<1>2. ConsoleInv /\ [Next]_vars => ConsoleInv'
  BY ConsoleInvPreserved
<1> QED
  BY <1>1, <1>2, PTL DEF Spec

(* In every behaviour a list of proposals is gone when the calls or the    *)
(* policies change, and a list of the console's own is the one for what is *)
(* on screen unless the change came between its question and its answer.   *)
THEOREM ShownProposalsCurrent == Spec => []ShownProposalsAreCurrent
<1>1. ConsoleInv => ShownProposalsAreCurrent
  BY DEF ConsoleInv, ListInv, ShownProposalsAreCurrent
<1> QED
  BY <1>1, AlwaysConsoleInv, PTL

(***************************************************************************)
(* Ratifying.                                                              *)
(***************************************************************************)

(* A proposal of the console is a hold for a workstream none of whose      *)
(* calls is on a mission, or a route for one no policy matches.            *)
LEMMA HoldDenies ==
    ASSUME NEW calls, NEW policies, NEW id \in DOMAIN calls,
           ~ \E c \in Group(calls, calls[id].workstream) : MissionAligned(c)
    PROVE  EvaluateProxy(calls[id], policies).verdict = "deny"
BY DEF Group, EvaluateProxy

LEMMA HaikuIsMostCapable == MostCapable({"haiku"}) = "haiku"
<1>1. \E i \in 1..3 : TierOrder[i] = "haiku"
  BY DEF TierOrder
<1>2. Rank("haiku") \in 1..3
  BY <1>1 DEF Rank
<1> QED
  BY <1>2 DEF MostCapable

LEMMA RouteGoverns ==
    ASSUME NEW call \in Call, NEW ps, IsPolicies(ps), Matching(call, ps) = {},
           NEW ratified, ratified.status = "active",
           ratified.workstream = call.workstream, ratified.tiers = {"haiku"}, ratified # None
    PROVE  LET e == EvaluateProxy(call, Append(ps, ratified))
           IN  e.verdict # "deny" => e.model \in {"haiku"}
<1> DEFINE longer == Append(ps, ratified)
           n == Len(ps) + 1
<1>1. PICK S : ps \in Seq(S)
  BY DEF IsPolicies
<1>2. ps \in Seq(S \cup {ratified}) /\ ratified \in S \cup {ratified}
  BY <1>1, SeqMonotonic
<1>3. /\ Len(ps) \in Nat /\ DOMAIN ps = 1..Len(ps)
      /\ DOMAIN longer = 1..n
      /\ \A i \in 1..Len(ps) : longer[i] = ps[i]
      /\ longer[n] = ratified
  BY <1>2, LenProperties
<1> HIDE DEF longer, n
<1>4. Matching(call, longer) = {n}
  <2>1. \A i \in 1..Len(ps) : i \notin Matching(call, longer)
    BY <1>3 DEF Matching, n
  <2>2. n \in Matching(call, longer)
    BY <1>3, ProxyAssumptions DEF Matching, EitherIncludes, Call, n
  <2>3. Matching(call, longer) \subseteq 1..n
    BY <1>3 DEF Matching
  <2>4. \A i \in 1..n : i \in 1..Len(ps) \/ i = n
    BY <1>3 DEF n
  <2> QED
    BY <2>1, <2>2, <2>3, <2>4
<1>5. MatchPolicy(call, longer) = ratified
  <2> DEFINE First(i) == \A j \in {n} :
                 \/ Length[longer[j].workstream] < Length[longer[i].workstream]
                 \/ Length[longer[j].workstream] = Length[longer[i].workstream] /\ i <= j
  <2>1. First(n)
    BY <1>3 DEF n
  <2>2. (CHOOSE i \in {n} : First(i)) = n
    BY <2>1
  <2>3. MatchPolicy(call, longer) = longer[CHOOSE i \in {n} : First(i)]
    BY <1>4 DEF MatchPolicy
  <2> QED
    BY <1>3, <2>2, <2>3
<1>6. Routed(call.model, ratified).model \in {"haiku"}
  BY HaikuIsMostCapable DEF Routed
<1>7. EvaluateProxy(call, longer) =
          IF MissionAligned(call) THEN Routed(call.model, ratified)
          ELSE [verdict |-> "deny", model |-> call.model]
  BY <1>5 DEF EvaluateProxy
<1> QED
  BY <1>6, <1>7 DEF longer

LEMMA RatifiedGoverns ==
    ASSUME NEW calls \in [Ids -> Call], NEW ps, IsPolicies(ps),
           NEW p \in ProposePolicies(calls, ps), NEW id \in Ids,
           calls[id].workstream = p.policy.workstream
    PROVE  LET e == EvaluateProxy(calls[id], Append(ps, RatifyProposal(p)))
           IN  e.verdict # "deny" => e.model \in p.policy.tiers
<1> DEFINE Streamed == {calls[i].workstream : i \in DOMAIN calls}
           Aligned == {w \in Streamed : \E c \in Group(calls, w) : MissionAligned(c)}
           w == calls[id].workstream
<1>1. id \in DOMAIN calls /\ calls[id] \in Call /\ calls[id] \in Group(calls, w)
  BY DEF Group
<1>2. \/ \E v \in Streamed \ Aligned : p = Proposed("mission-alignment", v, {})
      \/ \E v \in Aligned : p = Proposed("model-routing", v, {"haiku"}) /\ ~Governed(calls, v, ps)
  BY DEF ProposePolicies
<1>3. CASE \E v \in Streamed \ Aligned : p = Proposed("mission-alignment", v, {})
  <2>1. w \in Streamed \ Aligned
    BY <1>3 DEF Proposed, Policy
  <2>2. ~ \E c \in Group(calls, w) : MissionAligned(c)
    BY <2>1
  <2> QED
    BY <1>1, <2>2, HoldDenies
<1>4. CASE \E v \in Aligned : p = Proposed("model-routing", v, {"haiku"}) /\ ~Governed(calls, v, ps)
  <2>1. p = Proposed("model-routing", w, {"haiku"}) /\ ~Governed(calls, w, ps)
    BY <1>4 DEF Proposed, Policy
  <2>2. Matching(calls[id], ps) = {}
    BY <1>1, <2>1 DEF Governed
  <2>3. p.policy.tiers = {"haiku"} /\ p.policy.workstream = w
    BY <2>1 DEF Proposed, Policy
  <2>4. IsPolicy(p.policy) /\ w \in Names
    BY <2>3, ProposalsArePolicies
  <2>5. /\ RatifyProposal(p).status = "active"
        /\ RatifyProposal(p).workstream = w
        /\ RatifyProposal(p).tiers = {"haiku"}
    BY <2>3, <2>4, ProposalRatified
  <2>6. RatifyProposal(p) # None
    BY <2>1, <2>4, DesktopAssumptions
  <2> HIDE DEF w
  <2> QED
    BY <1>1, <2>2, <2>3, <2>5, <2>6, RouteGoverns DEF w
<1> QED
  BY <1>2, <1>3, <1>4

(* A step that adds a policy changes no call.                              *)
LEMMA OnlyRatifyingAdds ==
    ASSUME ConsoleInv, [Next]_vars, NEW x,
           console'.policies = Append(console.policies, x)
    PROVE  console'.calls = console.calls
<1>1. PICK S : console.policies \in Seq(S)
  BY DEF ConsoleInv, IsPolicies
<1>2. console.policies \in Seq(S \cup {x}) /\ x \in S \cup {x}
  BY <1>1, SeqMonotonic
<1>3. Len(console'.policies) = Len(console.policies) + 1 /\ Len(console.policies) \in Nat
  BY <1>2
<1>4. Len(console.policies) >= Len(InitialPolicies) /\ Len(InitialPolicies) \in Nat
  BY InitialPoliciesAre, PoliciesProperties DEF ConsoleInv, IsPolicies
<1>5. CASE \E s \in Surfaces : Visit(s)
  <2>1. console'.policies = InitialPolicies
    BY <1>5 DEF Visit, NewConsole
  <2> QED
    BY <1>3, <1>4, <2>1
<1>6. CASE DemoProvider \/ ShowForm \/ EditForm \/ HandleStart \/ HandleStop
  BY <1>6 DEF DemoProvider, ShowForm, EditForm, InForm, HandleStart, HandleStop, consoleVars
<1>7. CASE \E b \in Beats : SetBeat(b)
  BY <1>7 DEF SetBeat, consoleVars
<1>8. CASE \E k \in DOMAIN capture : Token(k) \/ Connecting(k) \/ CaptureFails(k) \/ Disconnected(k)
  BY <1>8 DEF Token, Connecting, CaptureFails, Disconnected, consoleVars
<1>9. CASE UseConsole
  BY <1>3, <1>9, UseKeepsConsoleInv
<1>10. CASE UNCHANGED vars
  BY <1>10 DEF vars
<1> QED
  BY <1>5, <1>6, <1>7, <1>8, <1>9, <1>10 DEF Next

(* A step that ratifies a proposal of what is on screen holds its whole    *)
(* workstream to the tiers it lists, whatever was ratified before.         *)
THEOREM RatifyingGoverns == Spec => RatifiedProposalGoverns
<1>1. ConsoleInv /\ [Next]_vars =>
        [\A p \in ProposePolicies(console.calls, console.policies) :
        surface = "proxy" /\ console'.policies = Append(console.policies, RatifyProposal(p)) =>
            \A id \in Ids : console.calls[id].workstream = p.policy.workstream =>
                LET e == EvaluateProxy(console'.calls[id], console'.policies)
                IN  e.verdict # "deny" => e.model \in p.policy.tiers]_vars
  <2> SUFFICES ASSUME ConsoleInv, [Next]_vars,
                      NEW p \in ProposePolicies(console.calls, console.policies),
                      console'.policies = Append(console.policies, RatifyProposal(p)),
                      NEW id \in Ids, console.calls[id].workstream = p.policy.workstream
               PROVE  LET e == EvaluateProxy(console'.calls[id], console'.policies)
                      IN  e.verdict # "deny" => e.model \in p.policy.tiers
    OBVIOUS
  <2>1. console'.calls = console.calls
    BY OnlyRatifyingAdds
  <2>2. LET e == EvaluateProxy(console.calls[id],
                                Append(console.policies, RatifyProposal(p)))
        IN  e.verdict # "deny" => e.model \in p.policy.tiers
    BY RatifiedGoverns DEF ConsoleInv
  <2> QED
    BY <2>1, <2>2
<1> QED
  BY <1>1, AlwaysConsoleInv, PTL DEF Spec, RatifiedProposalGoverns

(***************************************************************************)
(* The correction form, and the types.                                     *)
(***************************************************************************)
FormFields == {"chosen", "values", "reason", "errors", "preview"}

IsForm(f) ==
    /\ f = [x \in FormFields |-> f[x]]
    /\ f.chosen \subseteq Templates
    /\ f.values = [t \in f.chosen |-> f.values[t]]
    /\ \A t \in f.chosen : f.values[t] \subseteq FieldsOf[t]
    /\ f.errors # {} => f.chosen # {}

ShellInv ==
    /\ surface \in Surfaces /\ demo \in {"loading", "ready"} /\ beat \in Beats
    /\ form # None => IsForm(form)

LEMMA ToggleKeepsForm ==
    ASSUME IsForm(form), NEW t \in Templates, HandleTemplateToggle(t)
    PROVE  IsForm(form')
<1> DEFINE chosen == IF t \in form.chosen THEN form.chosen \ {t} ELSE form.chosen \cup {t}
           values == [u \in chosen |-> IF u = t THEN {} ELSE form.values[u]]
<1>1. /\ form' = [x \in FormFields |-> form'[x]]
      /\ form'.chosen = chosen /\ form'.errors = {} /\ form'.values = values
  BY DEF HandleTemplateToggle, IsForm, FormFields
<1>2. chosen \subseteq Templates
  BY DEF IsForm
<1>3. \A u \in chosen : values[u] \subseteq FieldsOf[u]
  BY DEF IsForm
<1>4. values = [u \in chosen |-> values[u]]
  OBVIOUS
<1> HIDE DEF values, chosen
<1> QED
  BY <1>1, <1>2, <1>3, <1>4 DEF IsForm

LEMMA FieldKeepsForm ==
    ASSUME IsForm(form), NEW t \in Templates, NEW f \in FieldsOf[t], HandleFieldChange(t, f)
    PROVE  IsForm(form')
<1>1. PICK typed \in {form.values[t] \cup {f}, form.values[t] \ {f}} :
        form' = [form EXCEPT !.values[t] = typed]
  BY DEF HandleFieldChange
<1>2. t \in form.chosen /\ DOMAIN form.values = form.chosen
  BY DEF HandleFieldChange, IsForm
<1>3. typed \subseteq FieldsOf[t]
  BY <1>2 DEF IsForm
<1> DEFINE values == [form.values EXCEPT ![t] = typed]
<1>4. /\ form' = [x \in FormFields |-> form'[x]]
      /\ form'.chosen = form.chosen /\ form'.errors = form.errors /\ form'.values = values
  BY <1>1 DEF IsForm, FormFields
<1>5. /\ values = [u \in form.chosen |-> values[u]]
      /\ \A u \in form.chosen : values[u] = IF u = t THEN typed ELSE form.values[u]
  BY <1>2 DEF IsForm
<1> HIDE DEF values
<1> QED
  BY <1>3, <1>4, <1>5 DEF IsForm

LEMMA EditKeepsForm ==
    ASSUME form # None => IsForm(form), EditForm
    PROVE  form' # None => IsForm(form')
<1>1. IsForm(form)
  BY DEF EditForm, InForm
<1>2. CASE \E t \in Templates : HandleTemplateToggle(t)
  BY <1>1, <1>2, ToggleKeepsForm
<1>3. CASE \E t \in Templates : \E f \in FieldsOf[t] : HandleFieldChange(t, f)
  BY <1>1, <1>3, FieldKeepsForm
<1>4. CASE ReasonChange
  BY <1>1, <1>4 DEF ReasonChange, IsForm, FormFields
<1>5. CASE TogglePreview
  BY <1>1, <1>5 DEF TogglePreview, IsForm, FormFields
<1>6. CASE HandleSubmit
  <2>1. CASE Complaints = {}
    BY <1>6, <2>1 DEF HandleSubmit
  <2>2. CASE Complaints # {}
    <3>1. form' = [form EXCEPT !.errors = Complaints] /\ form.chosen # {}
      BY <1>6, <2>2 DEF HandleSubmit
    <3> QED
      BY <1>1, <3>1 DEF IsForm, FormFields
  <2> QED
    BY <2>1, <2>2
<1> QED
  BY <1>2, <1>3, <1>4, <1>5, <1>6 DEF EditForm

LEMMA ShellInvInitially ==
    ASSUME Init
    PROVE  ShellInv
BY DEF Init, ShellInv, Surfaces, Beats

LEMMA ShellInvPreserved ==
    ASSUME ShellInv, [Next]_vars
    PROVE  ShellInv'
<1>1. ASSUME UNCHANGED <<surface, demoVars>> PROVE ShellInv'
  BY <1>1 DEF demoVars, ShellInv
<1>2. CASE \E s \in Surfaces : Visit(s)
  BY <1>2 DEF Visit, ShellInv, Beats
<1>3. CASE DemoProvider
  BY <1>3 DEF DemoProvider, ShellInv
<1>4. CASE \E b \in Beats : SetBeat(b)
  BY <1>4 DEF SetBeat, ShellInv
<1>5. CASE ShowForm
  <2>1. IsForm(NewForm)
    BY DEF NewForm, IsForm, FormFields
  <2> QED
    BY <1>5, <2>1 DEF ShowForm, ShellInv
<1>6. CASE EditForm
  BY <1>6, EditKeepsForm DEF EditForm, InForm, ShellInv
<1>7. CASE HandleStart \/ HandleStop
  BY <1>1, <1>7 DEF HandleStart, HandleStop
<1>8. CASE \E k \in DOMAIN capture : Token(k) \/ Connecting(k) \/ CaptureFails(k) \/ Disconnected(k)
  BY <1>1, <1>8 DEF Token, Connecting, CaptureFails, Disconnected
<1>9. CASE UseConsole
  BY <1>1, <1>9 DEF UseConsole, AtConsole
<1>10. CASE UNCHANGED vars
  BY <1>1, <1>10 DEF vars, demoVars
<1> QED
  BY <1>2, <1>3, <1>4, <1>5, <1>6, <1>7, <1>8, <1>9, <1>10 DEF Next

(* The state keeps its shapes: the form knows values of the templates that *)
(* are chosen, the control says what its capture does.                     *)
THEOREM TypeCorrect == Spec => []TypeOK
<1>1. Spec => []ShellInv
  <2>1. Init => ShellInv
    BY ShellInvInitially
  <2>2. ShellInv /\ [Next]_vars => ShellInv'
    BY ShellInvPreserved
  <2> QED
    BY <2>1, <2>2, PTL DEF Spec
<1>2. ShellInv /\ VoiceInv /\ ConsoleInv => TypeOK
  <2> SUFFICES ASSUME ShellInv, VoiceInv, ConsoleInv
               PROVE  TypeOK
    OBVIOUS
  <2>1. form # None =>
        /\ form.chosen \subseteq Templates /\ DOMAIN form.values = form.chosen
        /\ \A t \in form.chosen : form.values[t] \subseteq FieldsOf[t]
        /\ form.errors # {} => form.chosen # {}
    BY DEF ShellInv, IsForm
  <2>2. \A i \in DOMAIN console.policies :
            IsPolicy(console.policies[i]) /\ console.policies[i].status = "active"
    BY PoliciesProperties DEF ConsoleInv, IsPolicies
  <2>3. \A r \in run : r.asked <= now
    BY DEF ConsoleInv, RunInv
  <2> QED
    BY <2>1, <2>2, <2>3 DEF TypeOK, ShellInv, VoiceInv, ControlTells, ConsoleInv
<1> QED
  BY <1>1, <1>2, AlwaysVoiceInv, AlwaysConsoleInv, PTL

=============================================================================
