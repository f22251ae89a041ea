-------------------------- MODULE VoiceInput_proofs --------------------------
(***************************************************************************)
(* The voice input lets go of the microphone, sends nothing that was       *)
(* cancelled, and reports every capture, for any number of attempts: until *)
(* a tap starts a capture while one that was cancelled too late still has  *)
(* its stop event or its transcript to come.  Types hold after that, too.  *)
(***************************************************************************)
EXTENDS VoiceInput, TLAPS

\* The capture has a recorder that will still send its stop event, or fail.
Active(c) == machine[c] \in {"recording", "stopping"}

RecorderBusy == status \in {"recording", "stopping"}

RefsOK ==
    /\ status \in Status /\ ui \in [status : Status, transcribing : BOOLEAN]
    /\ attempt \in Nat
    /\ stream \in 0..MaxAttempts /\ recorder \in 0..MaxAttempts /\ timer \in 0..MaxAttempts

FlagsOK == {transcribing, discard, started, mounted, tangled} \subseteq BOOLEAN

CapturesOK ==
    /\ machine \in [Attempts -> Machine]
    /\ live \subseteq Attempts /\ timers \subseteq Attempts
    /\ uploads \subseteq Attempts /\ dropped \subseteq Attempts /\ late \subseteq Attempts
    /\ outcome \in [Attempts -> SUBSET Outcome]

\* The numbers of attempts, and what the status says of the refs.
AttemptInv ==
    /\ status # "idle" => mounted /\ attempt \in Attempts
    /\ attempt <= MaxAttempts + (IF mounted THEN 1 ELSE 2)
    /\ status = "requesting" => machine[attempt] = "asked"
    /\ RecorderBusy => recorder \in Attempts /\ Active(recorder)
    /\ status = "stopping" => machine[recorder] = "stopping"
    /\ \A c \in Attempts : c > attempt => machine[c] = "unused" /\ c \notin dropped
    /\ \A c \in Attempts : machine[c] = "asked" /\ c = attempt => mounted

\* A prompt belongs to the attempt of now, or was given up.
PromptInv ==
    ~tangled =>
        \A c \in Attempts : machine[c] = "asked" =>
            IF c = attempt THEN status = "requesting" /\ ~discard /\ c \notin dropped
            ELSE c \in dropped

\* A recording cancelled when it was stopping keeps the refs until its stop event.
Lingers(c) == status = "idle" /\ c \in late /\ machine[c] = "stopping"

\* While the page is mounted, the refs hold the only recorder there is.
MicInv ==
    ~tangled =>
        /\ live \subseteq {stream}
        /\ RecorderBusy => recorder = stream
        /\ \A c \in live : RecorderBusy \/ (mounted /\ Lingers(c))
        /\ \A c \in Attempts : mounted /\ Active(c) =>
              c = recorder /\ c = stream /\ (RecorderBusy \/ Lingers(c))
        /\ \A c, d \in Attempts : Active(c) /\ Active(d) => c = d

\* discardRef speaks of the only recorder; what came of a clip came when it was over.
DropInv ==
    ~tangled =>
        /\ \A c \in Attempts : Active(c) =>
              (c \in dropped \ late => discard) /\ (discard => c \in dropped)
        /\ \A c \in Attempts : "clip" \in outcome[c] => machine[c] = "over"

\* The page knows of the transcript that is under way, before its next tap.
PageInv ==
    ~tangled /\ mounted =>
        /\ uploads # {} => transcribing /\ status = "idle"
        /\ \A c, d \in uploads : c = d
        /\ \A c \in Attempts : Active(c) => uploads = {}
        /\ status # "idle" => ui.status # "idle"
        /\ uploads \ late # {} /\ ui.status = "idle" => ui.transcribing

VoiceInv ==
    /\ RefsOK /\ FlagsOK /\ CapturesOK /\ AttemptInv
    /\ PromptInv /\ MicInv /\ DropInv /\ PageInv
    /\ DroppedStaysUnsent /\ CapturesAreReported

USE VoiceAssumption DEF Attempts, Status, Machine, Outcome, Active, RecorderBusy, Lingers,
historyVars

LEMMA InitInv == Init => VoiceInv
<1> SUFFICES ASSUME Init PROVE VoiceInv
  OBVIOUS
<1>1. RefsOK
  BY DEF Init, RefsOK
<1>2. FlagsOK
  BY DEF Init, FlagsOK
<1>3. CapturesOK
  BY DEF Init, CapturesOK
<1>4. AttemptInv
  BY DEF Init, AttemptInv
<1>10. PromptInv
  BY DEF Init, AttemptInv, PromptInv
<1>5. MicInv
  BY DEF Init, MicInv
<1>6. DropInv
  BY DEF Init, DropInv
<1>7. PageInv
  BY DEF Init, PageInv
<1>8. DroppedStaysUnsent
  BY DEF Init, DroppedStaysUnsent
<1>9. CapturesAreReported
  BY DEF Init, CapturesAreReported
<1> QED BY <1>1, <1>2, <1>3, <1>4, <1>5, <1>6, <1>7, <1>8, <1>9, <1>10 DEF VoiceInv

-----------------------------------------------------------------------------
(* The actions.                                                            *)

\* stop() while recording: the recorder is told, or throws.
LEMMA StopRecordingInv ==
    ASSUME VoiceInv, mounted, status = "recording", NEW d \in BOOLEAN,
    NEW pending \in SUBSET timers,
           StopRecording(d, pending), discard => d,
           dropped' \in {dropped, dropped \cup {recorder}},
           tangled \/ dropped' = IF d THEN dropped \cup {recorder} ELSE dropped,
           ui' = ui \/ ShowNow, UNCHANGED <<attempt, late, tangled, pageVars>>
    PROVE  VoiceInv'
<1>0. /\ recorder \in Attempts /\ Active(recorder) /\ recorder <= attempt
      /\ ~tangled => /\ recorder = stream /\ live \subseteq {stream}
                     /\ \A c \in Attempts : Active(c) => c = recorder
  BY DEF VoiceInv, MicInv, AttemptInv, RefsOK, CapturesOK
<1>1. RefsOK'
  BY DEF VoiceInv, RefsOK, FlagsOK, StopRecording, Teardown, Noted, ShowNow, pageVars
<1>2. FlagsOK'
  BY DEF VoiceInv, FlagsOK, StopRecording, Teardown, Noted, ShowNow,
     pageVars
<1>3. CapturesOK'
  <2>1. CASE /\ status' = "stopping"
            /\ machine' = [machine EXCEPT ![recorder] = "stopping"]
            /\ UNCHANGED <<stream, recorder, live, outcome>>
    BY <1>0, <2>1 DEF VoiceInv, CapturesOK, pageVars, StopRecording
  <2>2. CASE /\ Teardown(pending)
            /\ machine' = [machine EXCEPT ![recorder] = "over"]
            /\ outcome' = IF d THEN outcome ELSE Noted(recorder, {"failed"})
    BY <1>0, <2>2 DEF VoiceInv, CapturesOK, pageVars, Teardown, Noted
  <2> QED BY <2>1, <2>2 DEF StopRecording
<1>4. AttemptInv'
  BY <1>0 DEF VoiceInv, RefsOK, CapturesOK, AttemptInv, MicInv, StopRecording, Teardown, Noted,
     ShowNow, pageVars
<1>10. PromptInv'
  BY <1>0 DEF VoiceInv, RefsOK, CapturesOK, AttemptInv, PromptInv, MicInv, StopRecording,
       Teardown, Noted,
     ShowNow, pageVars
<1>5. MicInv'
  <2>1. CASE /\ status' = "stopping"
            /\ machine' = [machine EXCEPT ![recorder] = "stopping"]
            /\ UNCHANGED <<stream, recorder, live, outcome>>
    BY <1>0, <2>1 DEF VoiceInv, CapturesOK, MicInv, pageVars
  <2>2. CASE /\ Teardown(pending)
            /\ machine' = [machine EXCEPT ![recorder] = "over"]
            /\ outcome' = IF d THEN outcome ELSE Noted(recorder, {"failed"})
    BY <1>0, <2>2 DEF VoiceInv, CapturesOK, MicInv, pageVars, Teardown, Noted
  <2> QED BY <2>1, <2>2 DEF StopRecording
<1>6. DropInv'
  BY <1>0 DEF VoiceInv, RefsOK, CapturesOK, MicInv, DropInv, StopRecording, Teardown, Noted,
     ShowNow, pageVars
<1>7. PageInv'
  BY DEF VoiceInv, PageInv, StopRecording, Teardown, Noted, ShowNow, pageVars
<1>8. DroppedStaysUnsent'
  BY <1>0 DEF VoiceInv, CapturesOK, AttemptInv, MicInv, DropInv, DroppedStaysUnsent, StopRecording,
     Teardown, Noted, ShowNow, pageVars
<1>9. CapturesAreReported'
  <2>1. CASE /\ status' = "stopping"
            /\ machine' = [machine EXCEPT ![recorder] = "stopping"]
            /\ UNCHANGED <<stream, recorder, live, outcome>>
    BY <1>0, <2>1 DEF VoiceInv, CapturesOK, CapturesAreReported, pageVars
  <2>2. CASE /\ Teardown(pending)
            /\ machine' = [machine EXCEPT ![recorder] = "over"]
            /\ outcome' = IF d THEN outcome ELSE Noted(recorder, {"failed"})
    BY <1>0, <2>2 DEF VoiceInv, CapturesOK, CapturesAreReported, pageVars, Teardown, Noted
  <2> QED BY <2>1, <2>2 DEF StopRecording
<1> QED BY <1>1, <1>2, <1>3, <1>4, <1>5, <1>6, <1>7, <1>8, <1>9, <1>10 DEF VoiceInv

\* A tap that asks for the microphone.
LEMMA StartInv ==
    ASSUME VoiceInv, mounted, ~Busy, status = "idle", StartCapture, ShowNow,
           UNCHANGED <<pageVars, dropped, late>>
    PROVE  VoiceInv'
<1>0. ~tangled' => /\ ~tangled /\ uploads = {} /\ live = {}
                   /\ \A c \in Attempts : ~Active(c)
  <2> SUFFICES ASSUME ~tangled' PROVE /\ ~tangled /\ uploads = {} /\ live = {}
                                      /\ \A c \in Attempts : ~Active(c)
    OBVIOUS
  <2>1. ~tangled /\ \A c \in late : machine[c] # "stopping" /\ c \notin uploads
    BY DEF StartCapture
  <2>2. \A c \in Attempts : ~Lingers(c)
    BY <2>1
  <2>3. live = {} /\ \A c \in Attempts : ~Active(c)
    BY <2>1, <2>2 DEF VoiceInv, CapturesOK, MicInv
  <2>4. uploads = {}
    BY <2>1 DEF VoiceInv, PageInv, Busy
  <2> QED BY <2>1, <2>3, <2>4
<1>1. RefsOK'
  BY DEF VoiceInv, RefsOK, FlagsOK, StartCapture, ShowNow, Busy, pageVars
<1>2. FlagsOK'
  BY DEF VoiceInv, FlagsOK, StartCapture, ShowNow, Busy, pageVars
<1>3. CapturesOK'
  BY DEF VoiceInv, RefsOK, CapturesOK, StartCapture, ShowNow, Busy, pageVars
<1>4. AttemptInv'
  BY DEF VoiceInv, RefsOK, CapturesOK, AttemptInv, StartCapture, ShowNow, Busy, pageVars
<1>10. PromptInv'
  BY <1>0 DEF VoiceInv, RefsOK, CapturesOK, AttemptInv, PromptInv, StartCapture, ShowNow, Busy,
       pageVars
<1>5. MicInv'
  BY <1>0 DEF VoiceInv, MicInv, StartCapture, ShowNow, Busy, pageVars
<1>6. DropInv'
  BY <1>0 DEF VoiceInv, RefsOK, CapturesOK, AttemptInv, MicInv, DropInv, StartCapture, ShowNow,
     Busy, pageVars
<1>7. PageInv'
  BY <1>0 DEF VoiceInv, PageInv, StartCapture, ShowNow, Busy, pageVars
<1>8. DroppedStaysUnsent'
  BY <1>0 DEF VoiceInv, DroppedStaysUnsent, StartCapture, ShowNow, Busy, pageVars
<1>9. CapturesAreReported'
  BY <1>0 DEF VoiceInv, CapturesAreReported, StartCapture, ShowNow, Busy, pageVars
<1> QED BY <1>1, <1>2, <1>3, <1>4, <1>5, <1>6, <1>7, <1>8, <1>9, <1>10 DEF VoiceInv

\* A tap; of a recording that is discarded already nothing more is dropped.
LEMMA ToggleInv ==
    ASSUME VoiceInv, Toggle
    PROVE  VoiceInv'
<1>1. CASE StopRecording(discard, timers) /\ status = "recording" /\ UNCHANGED attempt
  <2>1. tangled \/ dropped' = IF discard THEN dropped \cup {recorder} ELSE dropped
    BY <1>1 DEF Toggle, VoiceInv, AttemptInv, DropInv
  <2>2. discard \in BOOLEAN
    BY DEF VoiceInv, FlagsOK
  <2> QED BY <1>1, <2>1, <2>2, StopRecordingInv DEF Toggle
<1>2. CASE ~Busy /\ status = "idle" /\ StartCapture
  BY <1>2, StartInv DEF Toggle
<1> QED BY <1>1, <1>2 DEF Toggle

LEMMA CancelRecordingInv ==
    ASSUME VoiceInv, CancelRecording
    PROVE  VoiceInv'
  BY StopRecordingInv DEF CancelRecording, pageVars, VoiceInv, MicInv, DropInv

\* The ceiling: it stops the recording, or comes too late.
LEMMA TimeoutInv ==
    ASSUME VoiceInv, NEW c \in Attempts, Timeout(c)
    PROVE  VoiceInv'
<1>1. CASE status = "recording" /\ StopRecording(discard, timers \ {c})
  <2>1. tangled \/ dropped' = IF discard THEN dropped \cup {recorder} ELSE dropped
    BY <1>1 DEF Timeout, VoiceInv, AttemptInv, DropInv
  <2>2. discard \in BOOLEAN /\ mounted
    BY <1>1 DEF VoiceInv, FlagsOK, AttemptInv
  <2> QED BY <1>1, <2>1, <2>2, StopRecordingInv DEF Timeout
<1>2. CASE /\ status # "recording"
          /\ timers' = timers \ {c}
          /\ UNCHANGED <<status, discard, started, timer, stream, recorder, machine, live,
                         outcome>>
  <2>1. RefsOK'
    BY <1>2 DEF VoiceInv, RefsOK, Timeout, pageVars
  <2>2. FlagsOK'
    BY <1>2 DEF VoiceInv, FlagsOK, Timeout, pageVars
  <2>3. CapturesOK'
    BY <1>2 DEF VoiceInv, CapturesOK, Timeout, pageVars
  <2>4. AttemptInv'
    BY <1>2 DEF VoiceInv, AttemptInv, Timeout, pageVars
  <2>10. PromptInv'
    BY <1>2 DEF VoiceInv, AttemptInv, PromptInv, Timeout, pageVars
  <2>5. MicInv'
    BY <1>2 DEF VoiceInv, MicInv, Timeout, pageVars
  <2>6. DropInv'
    BY <1>2 DEF VoiceInv, DropInv, Timeout, pageVars
  <2>7. PageInv'
    BY <1>2 DEF VoiceInv, PageInv, Timeout, pageVars
  <2>8. DroppedStaysUnsent'
    BY <1>2 DEF VoiceInv, DroppedStaysUnsent, Timeout, pageVars
  <2>9. CapturesAreReported'
    BY <1>2 DEF VoiceInv, CapturesAreReported, Timeout, pageVars
  <2> QED BY <2>1, <2>2, <2>3, <2>4, <2>5, <2>6, <2>7, <2>8, <2>9, <2>10 DEF VoiceInv
<1> QED BY <1>1, <1>2 DEF Timeout

\* cancel() while the prompt is open, or while the recorder is stopping already.
LEMMA CancelAttemptInv ==
    ASSUME VoiceInv, CancelAttempt
    PROVE  VoiceInv'
<1>1. RefsOK'
  BY DEF VoiceInv, RefsOK, FlagsOK, CancelAttempt, GiveUp, CanCancel, ShowNow, micVars, pageVars
<1>2. FlagsOK'
  BY DEF VoiceInv, FlagsOK, CancelAttempt, GiveUp, CanCancel, ShowNow, micVars, pageVars
<1>3. CapturesOK'
  BY DEF VoiceInv, RefsOK, CapturesOK, AttemptInv, CancelAttempt, GiveUp, CanCancel, ShowNow,
       micVars, pageVars
<1>4. AttemptInv'
  BY DEF VoiceInv, AttemptInv, CancelAttempt, GiveUp, CanCancel, ShowNow, micVars, pageVars
<1>10. PromptInv'
  BY DEF VoiceInv, AttemptInv, PromptInv, CancelAttempt, GiveUp, CanCancel, ShowNow, micVars,
       pageVars
<1>5. MicInv'
  BY DEF VoiceInv, CapturesOK, AttemptInv, MicInv, CancelAttempt, GiveUp, CanCancel, ShowNow,
       micVars, pageVars
<1>6. DropInv'
  BY DEF VoiceInv, RefsOK, CapturesOK, AttemptInv, DropInv, CancelAttempt, GiveUp, CanCancel,
       ShowNow, micVars,
     pageVars
<1>7. PageInv'
  BY DEF VoiceInv, PageInv, CancelAttempt, GiveUp, CanCancel, ShowNow, micVars, pageVars
<1>8. DroppedStaysUnsent'
  <2>1. CASE status = "requesting" /\ dropped' = dropped \cup {attempt} /\ UNCHANGED late
    <3>1. machine[attempt] = "asked" /\ attempt \in Attempts
      BY <2>1 DEF VoiceInv, AttemptInv
    <3>2. ~tangled => "clip" \notin outcome[attempt]
      BY <3>1 DEF VoiceInv, DropInv
    <3> QED BY <2>1, <3>2 DEF VoiceInv, DroppedStaysUnsent, CancelAttempt, micVars
  <2>2. CASE dropped' = dropped \cup {recorder} /\ late' = late \cup {recorder}
    BY <2>2 DEF VoiceInv, DroppedStaysUnsent, CancelAttempt, micVars
  <2> QED BY <2>1, <2>2 DEF CancelAttempt, GiveUp
<1>9. CapturesAreReported'
  BY DEF VoiceInv, CapturesAreReported, CancelAttempt, GiveUp, CanCancel, ShowNow, micVars, pageVars
<1> QED BY <1>1, <1>2, <1>3, <1>4, <1>5, <1>6, <1>7, <1>8, <1>9, <1>10 DEF VoiceInv

\* The page goes; its recorder and its prompt stay with the browser.
LEMMA UnmountInv ==
    ASSUME VoiceInv, Unmount
    PROVE  VoiceInv'
<1>1. RefsOK'
  BY DEF VoiceInv, RefsOK, Unmount
<1>2. FlagsOK'
  BY DEF VoiceInv, FlagsOK, Unmount
<1>3. CapturesOK'
  BY DEF VoiceInv, RefsOK, FlagsOK, CapturesOK, AttemptInv, MicInv, DropInv, PageInv,
     DroppedStaysUnsent, CapturesAreReported, Unmount
<1>4. AttemptInv'
  BY DEF VoiceInv, RefsOK, CapturesOK, AttemptInv, MicInv, Unmount
<1>10. PromptInv'
  BY DEF VoiceInv, RefsOK, CapturesOK, AttemptInv, PromptInv, MicInv, Unmount
<1>5. MicInv'
  BY DEF VoiceInv, MicInv, Unmount
<1>6. DropInv'
  BY DEF VoiceInv, RefsOK, CapturesOK, AttemptInv, MicInv, DropInv, Unmount
<1>7. PageInv'
  BY DEF VoiceInv, PageInv, Unmount
<1>8. DroppedStaysUnsent'
  BY DEF VoiceInv, CapturesOK, AttemptInv, DropInv, DroppedStaysUnsent, Unmount
<1>9. CapturesAreReported'
  BY DEF VoiceInv, CapturesAreReported, Unmount
<1> QED BY <1>1, <1>2, <1>3, <1>4, <1>5, <1>6, <1>7, <1>8, <1>9, <1>10 DEF VoiceInv

LEMMA RenderInv ==
    ASSUME VoiceInv, Render
    PROVE  VoiceInv'
<1>1. RefsOK'
  BY DEF VoiceInv, RefsOK, FlagsOK, Render, ShowNow, refVars, micVars
<1>2. FlagsOK'
  BY DEF VoiceInv, FlagsOK, Render, ShowNow, refVars, micVars
<1>3. CapturesOK'
  BY DEF VoiceInv, CapturesOK, Render, ShowNow, refVars, micVars
<1>4. AttemptInv'
  BY DEF VoiceInv, AttemptInv, Render, ShowNow, refVars, micVars
<1>10. PromptInv'
  BY DEF VoiceInv, AttemptInv, PromptInv, Render, ShowNow, refVars, micVars
<1>5. MicInv'
  BY DEF VoiceInv, MicInv, Render, ShowNow, refVars, micVars
<1>6. DropInv'
  BY DEF VoiceInv, DropInv, Render, ShowNow, refVars, micVars
<1>7. PageInv'
  BY DEF VoiceInv, PageInv, Render, ShowNow, refVars, micVars
<1>8. DroppedStaysUnsent'
  BY DEF VoiceInv, DroppedStaysUnsent, Render, ShowNow, refVars, micVars
<1>9. CapturesAreReported'
  BY DEF VoiceInv, CapturesAreReported, Render, ShowNow, refVars, micVars
<1> QED BY <1>1, <1>2, <1>3, <1>4, <1>5, <1>6, <1>7, <1>8, <1>9, <1>10 DEF VoiceInv

\* The prompt is answered, one way or another.
LEMMA StaleInv ==
    ASSUME VoiceInv, NEW c \in Attempts, PromptStale(c)
    PROVE  VoiceInv'
<1>1. RefsOK'
  BY DEF VoiceInv, RefsOK, PromptStale, refVars, pageVars
<1>2. FlagsOK'
  BY DEF VoiceInv, FlagsOK, PromptStale, refVars, pageVars
<1>3. CapturesOK'
  BY DEF VoiceInv, CapturesOK, PromptStale, refVars, pageVars
<1>4. AttemptInv'
  BY DEF VoiceInv, AttemptInv, PromptStale, refVars, pageVars
<1>10. PromptInv'
  BY DEF VoiceInv, AttemptInv, PromptInv, PromptStale, refVars, pageVars
<1>5. MicInv'
  BY DEF VoiceInv, MicInv, PromptStale, refVars, pageVars
<1>6. DropInv'
  BY DEF VoiceInv, DropInv, PromptStale, refVars, pageVars
<1>7. PageInv'
  BY DEF VoiceInv, PageInv, PromptStale, refVars, pageVars
<1>8. DroppedStaysUnsent'
  BY DEF VoiceInv, DroppedStaysUnsent, PromptStale, refVars, pageVars
<1>9. CapturesAreReported'
  BY DEF VoiceInv, CapturesOK, PromptInv, CapturesAreReported, PromptStale, refVars, pageVars
<1> QED BY <1>1, <1>2, <1>3, <1>4, <1>5, <1>6, <1>7, <1>8, <1>9, <1>10 DEF VoiceInv

LEMMA RefusedInv ==
    ASSUME VoiceInv, NEW c \in Attempts, PromptRefused(c)
    PROVE  VoiceInv'
<1>1. RefsOK'
  BY DEF VoiceInv, RefsOK, PromptRefused, Noted, Teardown, pageVars
<1>2. FlagsOK'
  BY DEF VoiceInv, FlagsOK, PromptRefused, Noted, Teardown, pageVars
<1>3. CapturesOK'
  BY DEF VoiceInv, RefsOK, CapturesOK, PromptRefused, Noted, Teardown, pageVars
<1>4. AttemptInv'
  BY DEF VoiceInv, RefsOK, CapturesOK, AttemptInv, PromptRefused, Noted, Teardown, pageVars
<1>10. PromptInv'
  BY DEF VoiceInv, RefsOK, CapturesOK, AttemptInv, PromptInv, PromptRefused, Noted, Teardown,
       pageVars
<1>5. MicInv'
  BY DEF VoiceInv, RefsOK, CapturesOK, AttemptInv, PromptInv, MicInv, PromptRefused, Noted,
       Teardown,
     pageVars
<1>6. DropInv'
  BY DEF VoiceInv, DropInv, PromptRefused, Noted, Teardown, pageVars
<1>7. PageInv'
  BY DEF VoiceInv, PageInv, PromptRefused, Noted, Teardown, pageVars
<1>8. DroppedStaysUnsent'
  BY DEF VoiceInv, DroppedStaysUnsent, PromptRefused, Noted, Teardown, pageVars
<1>9. CapturesAreReported'
  BY DEF VoiceInv, CapturesOK, CapturesAreReported, PromptRefused, Noted, Teardown, pageVars
<1> QED BY <1>1, <1>2, <1>3, <1>4, <1>5, <1>6, <1>7, <1>8, <1>9, <1>10 DEF VoiceInv

LEMMA UselessInv ==
    ASSUME VoiceInv, NEW c \in Attempts, PromptUseless(c)
    PROVE  VoiceInv'
<1>1. RefsOK'
  BY DEF VoiceInv, RefsOK, PromptUseless, Noted, pageVars
<1>2. FlagsOK'
  BY DEF VoiceInv, FlagsOK, PromptUseless, Noted, pageVars
<1>3. CapturesOK'
  BY DEF VoiceInv, RefsOK, FlagsOK, CapturesOK, AttemptInv, MicInv, DropInv, PageInv,
     DroppedStaysUnsent, CapturesAreReported, PromptUseless, Noted, pageVars
<1>4. AttemptInv'
  BY DEF VoiceInv, RefsOK, CapturesOK, AttemptInv, PromptUseless, Noted, pageVars
<1>10. PromptInv'
  BY DEF VoiceInv, RefsOK, CapturesOK, AttemptInv, PromptInv, PromptUseless, Noted, pageVars
<1>5. MicInv'
  BY DEF VoiceInv, RefsOK, CapturesOK, AttemptInv, PromptInv, MicInv, PromptUseless, Noted, pageVars
<1>6. DropInv'
  BY DEF VoiceInv, DropInv, PromptUseless, Noted, pageVars
<1>7. PageInv'
  BY DEF VoiceInv, PageInv, PromptUseless, Noted, pageVars
<1>8. DroppedStaysUnsent'
  BY DEF VoiceInv, DroppedStaysUnsent, PromptUseless, Noted, pageVars
<1>9. CapturesAreReported'
  BY DEF VoiceInv, RefsOK, FlagsOK, CapturesOK, AttemptInv, MicInv, DropInv, PageInv,
     DroppedStaysUnsent, CapturesAreReported, PromptUseless, Noted, pageVars
<1> QED BY <1>1, <1>2, <1>3, <1>4, <1>5, <1>6, <1>7, <1>8, <1>9, <1>10 DEF VoiceInv

LEMMA RecordInv ==
    ASSUME VoiceInv, NEW c \in Attempts, Record(c)
    PROVE  VoiceInv'
<1>1. RefsOK'
  BY DEF VoiceInv, RefsOK, Record, pageVars
<1>2. FlagsOK'
  BY DEF VoiceInv, FlagsOK, Record, pageVars
<1>3. CapturesOK'
  BY DEF VoiceInv, CapturesOK, Record, pageVars
<1>4. AttemptInv'
  BY DEF VoiceInv, RefsOK, CapturesOK, AttemptInv, Record, pageVars
<1>10. PromptInv'
  BY DEF VoiceInv, RefsOK, CapturesOK, AttemptInv, PromptInv, Record, pageVars
<1>5. MicInv'
  BY DEF VoiceInv, RefsOK, CapturesOK, AttemptInv, PromptInv, MicInv, Record, pageVars
<1>6. DropInv'
  BY DEF VoiceInv, RefsOK, CapturesOK, AttemptInv, PromptInv, DropInv, Record, pageVars
<1>7. PageInv'
  BY DEF VoiceInv, RefsOK, CapturesOK, AttemptInv, PromptInv, PageInv, Record, pageVars
<1>8. DroppedStaysUnsent'
  BY DEF VoiceInv, DroppedStaysUnsent, Record, pageVars
<1>9. CapturesAreReported'
  BY DEF VoiceInv, CapturesAreReported, Record, pageVars
<1> QED BY <1>1, <1>2, <1>3, <1>4, <1>5, <1>6, <1>7, <1>8, <1>9, <1>10 DEF VoiceInv

\* The recorder ends, by itself, by its stop event or by an error.
LEMMA TrackInv ==
    ASSUME VoiceInv, NEW c \in Attempts, TrackEnds(c)
    PROVE  VoiceInv'
<1>1. RefsOK'
  BY DEF VoiceInv, RefsOK, TrackEnds, refVars, pageVars
<1>2. FlagsOK'
  BY DEF VoiceInv, FlagsOK, TrackEnds, refVars, pageVars
<1>3. CapturesOK'
  BY DEF VoiceInv, CapturesOK, TrackEnds, refVars, pageVars
<1>4. AttemptInv'
  BY DEF VoiceInv, AttemptInv, TrackEnds, refVars, pageVars
<1>10. PromptInv'
  BY DEF VoiceInv, AttemptInv, PromptInv, TrackEnds, refVars, pageVars
<1>5. MicInv'
  BY DEF VoiceInv, MicInv, TrackEnds, refVars, pageVars
<1>6. DropInv'
  BY DEF VoiceInv, DropInv, TrackEnds, refVars, pageVars
<1>7. PageInv'
  BY DEF VoiceInv, PageInv, TrackEnds, refVars, pageVars
<1>8. DroppedStaysUnsent'
  BY DEF VoiceInv, DroppedStaysUnsent, TrackEnds, refVars, pageVars
<1>9. CapturesAreReported'
  BY DEF VoiceInv, CapturesAreReported, TrackEnds, refVars, pageVars
<1> QED BY <1>1, <1>2, <1>3, <1>4, <1>5, <1>6, <1>7, <1>8, <1>9, <1>10 DEF VoiceInv

LEMMA ErrorInv ==
    ASSUME VoiceInv, NEW c \in Attempts, OnError(c)
    PROVE  VoiceInv'
<1>1. RefsOK'
  BY DEF VoiceInv, RefsOK, OnError, Noted, Teardown, pageVars
<1>2. FlagsOK'
  BY DEF VoiceInv, FlagsOK, OnError, Noted, Teardown, pageVars
<1>3. CapturesOK'
  BY DEF VoiceInv, RefsOK, CapturesOK, OnError, Noted, Teardown, pageVars
<1>4. AttemptInv'
  BY DEF VoiceInv, RefsOK, CapturesOK, AttemptInv, MicInv, OnError, Noted, Teardown, pageVars
<1>10. PromptInv'
  BY DEF VoiceInv, RefsOK, CapturesOK, AttemptInv, PromptInv, MicInv, OnError, Noted, Teardown,
       pageVars
<1>5. MicInv'
  BY DEF VoiceInv, RefsOK, CapturesOK, MicInv, OnError, Noted, Teardown, pageVars
<1>6. DropInv'
  BY DEF VoiceInv, RefsOK, CapturesOK, MicInv, DropInv, OnError, Noted, Teardown, pageVars
<1>7. PageInv'
  BY DEF VoiceInv, PageInv, OnError, Noted, Teardown, pageVars
<1>8. DroppedStaysUnsent'
  BY DEF VoiceInv, DroppedStaysUnsent, OnError, Noted, Teardown, pageVars
<1>9. CapturesAreReported'
  BY DEF VoiceInv, CapturesOK, AttemptInv, DropInv, CapturesAreReported, OnError, Noted,
     Teardown, pageVars
<1> QED BY <1>1, <1>2, <1>3, <1>4, <1>5, <1>6, <1>7, <1>8, <1>9, <1>10 DEF VoiceInv

\* The transcript.
LEMMA AnswerInv ==
    ASSUME VoiceInv, NEW c \in Attempts, Answer(c)
    PROVE  VoiceInv'
<1>1. RefsOK'
  BY DEF VoiceInv, RefsOK, Answer, Noted, refVars
<1>2. FlagsOK'
  BY DEF VoiceInv, FlagsOK, Answer, Noted, refVars
<1>3. CapturesOK'
  BY DEF VoiceInv, CapturesOK, Answer, Noted, refVars
<1>4. AttemptInv'
  BY DEF VoiceInv, AttemptInv, Answer, Noted, refVars
<1>10. PromptInv'
  BY DEF VoiceInv, AttemptInv, PromptInv, Answer, Noted, refVars
<1>5. MicInv'
  BY DEF VoiceInv, MicInv, Answer, Noted, refVars
<1>6. DropInv'
  BY DEF VoiceInv, DropInv, Answer, Noted, refVars
<1>7. PageInv'
  <2> SUFFICES ASSUME ~tangled, mounted PROVE PageInv'
    BY DEF PageInv, Answer
  <2>1. uploads = {c} /\ uploads' = {}
    BY DEF VoiceInv, PageInv, Answer
  <2> QED BY <2>1 DEF VoiceInv, PageInv, Answer
<1>8. DroppedStaysUnsent'
  BY DEF VoiceInv, DroppedStaysUnsent, Answer, Noted, refVars
<1>9. CapturesAreReported'
  BY DEF VoiceInv, CapturesAreReported, Answer, Noted, refVars
<1> QED BY <1>1, <1>2, <1>3, <1>4, <1>5, <1>6, <1>7, <1>8, <1>9, <1>10 DEF VoiceInv

LEMMA StopInv ==
    ASSUME VoiceInv, NEW c \in Attempts, OnStop(c)
    PROVE  VoiceInv'
<1>1. RefsOK'
  BY DEF VoiceInv, RefsOK, OnStop, Noted, Teardown
<1>2. FlagsOK'
  BY DEF VoiceInv, FlagsOK, OnStop, Noted, Teardown
<1>3. CapturesOK'
  <2>1. CASE discard /\ UNCHANGED <<outcome, uploads, transcribing>>
    BY <2>1 DEF VoiceInv, RefsOK, CapturesOK, OnStop, Noted, Teardown
  <2>2. CASE \E o \in {"tooShort", "failed"} : outcome' = Noted(c, {o}) /\ UNCHANGED uploads
    BY <2>2 DEF VoiceInv, RefsOK, CapturesOK, OnStop, Noted, Teardown
  <2>3. CASE outcome' = Noted(c, {"clip"}) /\ uploads' = uploads \cup {c}
    BY <2>3 DEF VoiceInv, RefsOK, CapturesOK, OnStop, Noted, Teardown
  <2> QED BY <2>1, <2>2, <2>3 DEF OnStop
<1>4. AttemptInv'
  BY DEF VoiceInv, RefsOK, CapturesOK, AttemptInv, MicInv, OnStop, Noted, Teardown
<1>10. PromptInv'
  BY DEF VoiceInv, RefsOK, CapturesOK, AttemptInv, PromptInv, MicInv, OnStop, Noted, Teardown
<1>5. MicInv'
  BY DEF VoiceInv, RefsOK, CapturesOK, MicInv, OnStop, Noted, Teardown
<1>6. DropInv'
  BY DEF VoiceInv, RefsOK, CapturesOK, MicInv, DropInv, OnStop, Noted, Teardown
<1>7. PageInv'
  <2> SUFFICES ASSUME ~tangled, mounted PROVE PageInv'
    BY DEF PageInv, OnStop
  <2>1. /\ uploads = {} /\ status' = "idle" /\ ui' = ui /\ late' = late
        /\ c \notin late => ui.status # "idle"
    BY DEF VoiceInv, MicInv, PageInv, OnStop, Teardown
  <2>2. \A d \in Attempts : machine'[d] \notin {"recording", "stopping"}
    BY DEF VoiceInv, CapturesOK, MicInv, OnStop
  <2>3. uploads' = {} \/ (uploads' = {c} /\ transcribing')
    BY <2>1 DEF OnStop
  <2> QED BY <2>1, <2>2, <2>3 DEF PageInv
<1>8. DroppedStaysUnsent'
  BY DEF VoiceInv, CapturesOK, AttemptInv, DropInv, DroppedStaysUnsent, OnStop, Noted, Teardown
<1>9. CapturesAreReported'
  BY DEF VoiceInv, CapturesOK, AttemptInv, DropInv, CapturesAreReported, OnStop, Noted, Teardown
<1> QED BY <1>1, <1>2, <1>3, <1>4, <1>5, <1>6, <1>7, <1>8, <1>9, <1>10 DEF VoiceInv

LEMMA StepInv ==
    ASSUME VoiceInv, [Next]_voiceVars
    PROVE  VoiceInv'
<1>1. CASE Toggle
  BY <1>1, ToggleInv
<1>2. CASE CancelRecording \/ CancelAttempt
  BY <1>2, CancelRecordingInv, CancelAttemptInv
<1>3. CASE Unmount \/ Render
  BY <1>3, UnmountInv, RenderInv
<1>4. ASSUME NEW c \in Attempts, PromptStale(c) \/ PromptRefused(c) \/ PromptUseless(c) \/ Record(c)
      PROVE  VoiceInv'
  BY <1>4, StaleInv, RefusedInv, UselessInv, RecordInv
<1>5. ASSUME NEW c \in Attempts,
             Timeout(c) \/ TrackEnds(c) \/ OnStop(c) \/ OnError(c) \/ Answer(c)
      PROVE  VoiceInv'
  BY <1>5, TimeoutInv, TrackInv, StopInv, ErrorInv, AnswerInv
<1>6. CASE UNCHANGED voiceVars
  BY <1>6 DEF voiceVars, refVars, micVars, pageVars, VoiceInv, RefsOK, FlagsOK, CapturesOK,
     AttemptInv, PromptInv, MicInv, DropInv, PageInv, DroppedStaysUnsent, CapturesAreReported
<1> QED BY <1>1, <1>2, <1>3, <1>4, <1>5, <1>6 DEF Next

-----------------------------------------------------------------------------
(* What the page and the user rely on.                                     *)

\* The refs, the browser's recorders and the page keep in step in every reachable state.
THEOREM VoiceInvariant == Spec => []VoiceInv
<1>1. VoiceInv /\ [Next]_voiceVars => VoiceInv'
  BY StepInv
<1> QED BY InitInv, <1>1, PTL DEF Spec

\* Every ref and every history variable keeps its type; attemptRef ends at most two above
\* the last capture.
THEOREM VoiceTypeCorrect == Spec => []VoiceTypeOK
<1>1. ASSUME VoiceInv PROVE VoiceTypeOK
  <2>1. attempt \in 0..MaxAttempts + 2
    BY <1>1 DEF VoiceInv, RefsOK, AttemptInv
  <2>2. {stream, recorder, timer} \subseteq 0..MaxAttempts
    BY <1>1 DEF VoiceInv, RefsOK
  <2>3. {transcribing, discard, started, mounted, tangled} \subseteq BOOLEAN
    BY <1>1 DEF VoiceInv, FlagsOK
  <2>4. live \cup timers \cup uploads \cup dropped \cup late \subseteq Attempts
    BY <1>1 DEF VoiceInv, CapturesOK
  <2> QED BY <1>1, <2>1, <2>2, <2>3, <2>4 DEF VoiceTypeOK, VoiceInv, RefsOK, CapturesOK
<1> QED BY <1>1, VoiceInvariant, PTL

\* The microphone is on for the capture under way at most, and off when the recorder is
\* idle or the page is gone: teardown() finds the track of the only capture in its refs.
\* A recorder cancelled when it was stopping already keeps its track until its stop event,
\* and nothing is promised once another capture has started before that event.
THEOREM MicrophoneLetsGo == Spec => []MicIsReleased
<1>1. ASSUME VoiceInv PROVE MicIsReleased
  BY <1>1 DEF VoiceInv, MicInv, MicIsReleased
<1> QED BY <1>1, VoiceInvariant, PTL

\* A clip that was cancelled, or whose page is gone, is never sent: when onstop comes,
\* discardRef still speaks of its own recorder.  One cancelled when the recorder was
\* stopping already is sent all the same.
THEOREM CancelledClipsStay == Spec => []DroppedStaysUnsent
<1>1. VoiceInv => DroppedStaysUnsent
  BY DEF VoiceInv
<1> QED BY <1>1, VoiceInvariant, PTL

\* A capture that the user did not give up ends with a clip or with an error, as long as
\* no capture has started over a recorder cancelled late.
THEOREM NoSilentEnd == Spec => []CapturesAreReported
<1>1. VoiceInv => CapturesAreReported
  BY DEF VoiceInv
<1> QED BY <1>1, VoiceInvariant, PTL

\* The button that the page shows stays disabled from the end of a recording to its
\* transcript, so that no tap starts another capture in between.
THEOREM TranscriptsComeAlone == Spec => []NoCaptureOverTranscript
<1>1. ASSUME VoiceInv PROVE NoCaptureOverTranscript
  BY <1>1 DEF VoiceInv, CapturesOK, MicInv, PageInv, NoCaptureOverTranscript
<1> QED BY <1>1, VoiceInvariant, PTL
=============================================================================
