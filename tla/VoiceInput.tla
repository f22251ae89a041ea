---------------------------- MODULE VoiceInput ----------------------------
(***************************************************************************)
(* useAudioRecorder and useVoiceInput of the Mini App, for the life of one *)
(* mounted page: refs that callbacks read, state that React shows later,   *)
(* and the events of getUserMedia and MediaRecorder.                       *)
(***************************************************************************)
EXTENDS Naturals

CONSTANT MaxAttempts  \* bound of the model: values of attemptRef

ASSUME VoiceAssumption == MaxAttempts \in Nat \ {0}

Attempts == 1..MaxAttempts
Status == {"idle", "requesting", "recording", "stopping"}

VARIABLES
    status,        \* statusRef, and the value last given to setStatus
    transcribing,  \* the value last given to setIsTranscribing
    ui,            \* the two as the page shows them
    attempt,       \* attemptRef; a capture goes by the number of its attempt
    stream,        \* streamRef (0: null)
    recorder,      \* recorderRef (0: null)
    discard,       \* discardRef
    started,       \* startedAtRef # 0
    timer,         \* stopTimerRef, with tickTimerRef (0: null)
    mounted,
    machine,       \* per capture: its prompt or its MediaRecorder, as the browser has it
    live,          \* captures whose microphone track is on
    timers,        \* captures with a timeout that has not fired or been cleared
    uploads,       \* captures whose clip is being transcribed
    outcome,       \* history: what the page was told of each capture
    dropped,       \* history: captures cancelled, or under way when the page unmounted
    late,          \* history: those cancelled when they had been told to stop
    tangled        \* history: a capture was started before such a one was done with

refVars == <<attempt, discard, started, timer>>
micVars == <<stream, recorder, machine, live, timers, outcome>>
pageVars == <<transcribing, mounted, uploads>>
historyVars == <<dropped, late, tangled>>
voiceVars == <<status, ui, refVars, micVars, pageVars, historyVars>>

Machine == {"unused", "asked", "refused", "recording", "stopping", "over"}
Outcome == {"refused", "tooShort", "failed", "clip", "text", "noText"}

Noted(c, o) == [outcome EXCEPT ![c] = @ \cup o]

-----------------------------------------------------------------------------
(* Pieces of the recorder.                                                 *)

\* A tap is a discrete event: React shows its updates before the next event.
ShowNow == ui' = [status |-> status', transcribing |-> transcribing]

\* Wrong form: the track of the microphone stays on.
TeardownKeepsTrack(pending) ==
    /\ timers' = pending \ {timer} /\ timer' = 0
    /\ stream' = 0 /\ recorder' = 0 /\ started' = FALSE
    /\ status' = "idle"
    /\ UNCHANGED live

\* teardown() acts on whatever the refs hold.  pending are the timeouts before it.
Teardown(pending) ==
    /\ timers' = pending \ {timer} /\ timer' = 0
    /\ live' = live \ {stream} /\ stream' = 0
    /\ recorder' = 0 /\ started' = FALSE
    /\ status' = "idle"

\* stop() while recording, with d in discardRef.  The browser sends the stop event
\* later; a recorder that throws instead sends none, and one that stopped by itself
\* takes another stop() without a word.
StopRecording(d, pending) ==
    \/ /\ status' = "stopping"
       /\ discard' = d
       /\ machine' = [machine EXCEPT ![recorder] = "stopping"]
       /\ timers' = pending
       /\ UNCHANGED <<stream, recorder, started, timer, live, outcome>>
    \/ /\ machine[recorder] = "recording"
       /\ machine' = [machine EXCEPT ![recorder] = "over"]
       /\ discard' = FALSE
       /\ outcome' = IF d THEN outcome ELSE Noted(recorder, {"failed"})
       /\ Teardown(pending)

-----------------------------------------------------------------------------
(* The user.                                                               *)

StartCapture ==
    /\ attempt < MaxAttempts
    /\ attempt' = attempt + 1
    /\ discard' = FALSE
    /\ status' = "requesting"
    /\ machine' = [machine EXCEPT ![attempt + 1] = "asked"]
    /\ tangled' = (tangled \/ \E c \in late : machine[c] = "stopping" \/ c \in uploads)
    /\ UNCHANGED <<stream, recorder, started, timer, timers, live, outcome>>

\* Wrong form: only the recorder is asked whether it is busy.
BusyRecording == ui.status # "idle"

Busy == ui.status # "idle" \/ ui.transcribing

\* onToggle, closed over what the page shows; start() and stop() look at the refs.
Toggle ==
    /\ mounted
    /\ \/ /\ ui.status = "recording" /\ status = "recording"
          /\ StopRecording(discard, timers)
          /\ UNCHANGED <<attempt, tangled>>
       \/ ~Busy /\ status = "idle" /\ StartCapture
    /\ ShowNow
    /\ UNCHANGED <<pageVars, dropped, late>>

\* The page offers to cancel while it shows a recording.
CanCancel == ui.status = "recording" /\ ~ui.transcribing

CancelRecording ==
    /\ mounted /\ CanCancel /\ status = "recording"
    /\ StopRecording(TRUE, timers)
    /\ dropped' = dropped \cup {recorder}
    /\ ShowNow
    /\ UNCHANGED <<attempt, late, tangled, pageVars>>

\* What cancel() gives up when there is no recording to stop: the prompt is still open
\* (the hook offers this, the page does not), or the ceiling has stopped the recording
\* already and the page does not show it yet.
GiveUp ==
    \/ status = "requesting" /\ dropped' = dropped \cup {attempt} /\ UNCHANGED late
    \/ /\ status = "stopping" /\ CanCancel
       /\ dropped' = dropped \cup {recorder} /\ late' = late \cup {recorder}

\* Wrong form: the prompt under way keeps its number.
CancelKeepsAttempt ==
    /\ mounted /\ GiveUp
    /\ status' = "idle"
    /\ ShowNow
    /\ UNCHANGED <<refVars, micVars, pageVars, tangled>>

CancelAttempt ==
    /\ mounted /\ GiveUp
    /\ attempt' = attempt + 1
    /\ status' = "idle"
    /\ ShowNow
    /\ UNCHANGED <<discard, started, timer, micVars, pageVars, tangled>>

Unmount ==
    /\ mounted
    /\ mounted' = FALSE
    /\ attempt' = attempt + 1
    /\ discard' = TRUE
    /\ machine' = IF status = "recording" THEN [machine EXCEPT ![recorder] = "stopping"]
                  ELSE machine
    /\ timers' = timers \ {timer} /\ timer' = 0
    /\ live' = live \ {stream} /\ stream' = 0
    /\ recorder' = 0
    /\ status' = "idle"
    /\ dropped' = dropped \cup {c \in Attempts : machine[c] \in {"asked", "recording", "stopping"}}
    /\ UNCHANGED <<started, outcome, ui, transcribing, uploads, late, tangled>>

-----------------------------------------------------------------------------
(* Callbacks.  The page shows their updates some time later.               *)

Render ==
    /\ mounted
    /\ ui # [status |-> status, transcribing |-> transcribing]
    /\ UNCHANGED <<status, transcribing>>
    /\ ShowNow
    /\ UNCHANGED <<refVars, micVars, mounted, uploads, historyVars>>

\* A prompt that was answered after its attempt was given up leaves nothing behind:
\* a refusal is ignored, the tracks of a stream are stopped.
PromptStale(c) ==
    /\ machine[c] = "asked" /\ c # attempt
    /\ machine' = [machine EXCEPT ![c] = "refused"]
    /\ UNCHANGED <<status, ui, refVars, stream, recorder, live, timers, outcome, pageVars,
                   historyVars>>

PromptRefused(c) ==
    /\ machine[c] = "asked" /\ c = attempt
    /\ machine' = [machine EXCEPT ![c] = "refused"]
    /\ outcome' = Noted(c, {"refused"})
    /\ Teardown(timers)
    /\ UNCHANGED <<attempt, discard, ui, pageVars, historyVars>>

\* The stream is there, but MediaRecorder cannot be made or started.
PromptUseless(c) ==
    /\ machine[c] = "asked" /\ c = attempt
    /\ machine' = [machine EXCEPT ![c] = "over"]
    /\ outcome' = Noted(c, {"failed"})
    /\ stream' = 0 /\ recorder' = 0 /\ started' = FALSE
    /\ timers' = timers \ {timer} /\ timer' = 0
    /\ status' = "idle"
    /\ UNCHANGED <<attempt, discard, live, ui, pageVars, historyVars>>

\* Wrong form: no ceiling for the recording.
RecordWithoutCeiling(c) ==
    /\ machine[c] = "asked" /\ c = attempt
    /\ machine' = [machine EXCEPT ![c] = "recording"]
    /\ stream' = c /\ live' = live \cup {c}
    /\ recorder' = c
    /\ started' = TRUE
    /\ status' = "recording"
    /\ UNCHANGED <<attempt, discard, timer, timers, outcome, ui, pageVars, historyVars>>

Record(c) ==
    /\ machine[c] = "asked" /\ c = attempt
    /\ machine' = [machine EXCEPT ![c] = "recording"]
    /\ stream' = c /\ live' = live \cup {c}
    /\ recorder' = c
    /\ started' = TRUE
    /\ status' = "recording"
    /\ timer' = c /\ timers' = timers \cup {c}
    /\ UNCHANGED <<attempt, discard, outcome, ui, pageVars, historyVars>>

\* The ceiling of maxDurationMs.
Timeout(c) ==
    /\ c \in timers
    /\ \/ status = "recording" /\ StopRecording(discard, timers \ {c})
       \/ /\ status # "recording"
          /\ timers' = timers \ {c}
          /\ UNCHANGED <<status, discard, started, timer, stream, recorder, machine, live, outcome>>
    /\ UNCHANGED <<attempt, ui, pageVars, historyVars>>

\* The track ends without the page: the recorder stops by itself.
TrackEnds(c) ==
    /\ machine[c] = "recording"
    /\ machine' = [machine EXCEPT ![c] = "stopping"]
    /\ UNCHANGED <<status, ui, refVars, stream, recorder, live, timers, outcome, pageVars,
                   historyVars>>

\* Wrong form: an empty clip is dropped without a word.
OnStopSilently(c) ==
    /\ machine[c] = "stopping"
    /\ machine' = [machine EXCEPT ![c] = "over"]
    /\ discard' = FALSE
    /\ Teardown(timers)
    /\ UNCHANGED <<attempt, ui, outcome, pageVars, historyVars>>

\* onstop, after the last ondataavailable.
OnStop(c) ==
    /\ machine[c] = "stopping"
    /\ machine' = [machine EXCEPT ![c] = "over"]
    /\ discard' = FALSE
    /\ Teardown(timers)
    /\ \/ /\ discard
          /\ UNCHANGED <<outcome, uploads, transcribing>>
       \/ /\ ~discard
          /\ \E o \in IF started THEN {"tooShort", "failed"} ELSE {"tooShort"} :
                outcome' = Noted(c, {o})
          /\ UNCHANGED <<uploads, transcribing>>
       \/ /\ ~discard /\ started
          /\ outcome' = Noted(c, {"clip"})
          /\ uploads' = uploads \cup {c}
          /\ transcribing' = TRUE
    /\ UNCHANGED <<attempt, ui, mounted, historyVars>>

\* onerror.  Browsers may send the stop event in the same task; onstop then finds the
\* refs as onerror left them, without a start time.
OnError(c) ==
    /\ machine[c] \in {"recording", "stopping"}
    /\ machine' = [machine EXCEPT ![c] = "over"]
    /\ discard' = FALSE
    /\ \E after \in {{}, {"tooShort"}} :
          outcome' = Noted(c, after \cup IF discard THEN {} ELSE {"failed"})
    /\ Teardown(timers)
    /\ UNCHANGED <<attempt, ui, pageVars, historyVars>>

\* The answer of /transcribe: a text, or a notice.
Answer(c) ==
    /\ c \in uploads
    /\ uploads' = uploads \ {c}
    /\ \E o \in {"text", "noText"} : outcome' = Noted(c, {o})
    /\ transcribing' = (transcribing /\ ~mounted)
    /\ UNCHANGED <<status, ui, refVars, stream, recorder, machine, live, timers, mounted,
                   historyVars>>

Init ==
    /\ status = "idle" /\ transcribing = FALSE
    /\ ui = [status |-> "idle", transcribing |-> FALSE]
    /\ attempt = 0 /\ stream = 0 /\ recorder = 0 /\ timer = 0
    /\ discard = FALSE /\ started = FALSE
    /\ mounted = TRUE
    /\ machine = [c \in Attempts |-> "unused"]
    /\ live = {} /\ timers = {} /\ uploads = {}
    /\ outcome = [c \in Attempts |-> {}]
    /\ dropped = {} /\ late = {} /\ tangled = FALSE

Next ==
    \/ Toggle \/ CancelRecording \/ CancelAttempt \/ Unmount \/ Render
    \/ \E c \in Attempts :
          \/ PromptStale(c) \/ PromptRefused(c) \/ PromptUseless(c) \/ Record(c)
          \/ Timeout(c) \/ TrackEnds(c) \/ OnStop(c) \/ OnError(c) \/ Answer(c)

Spec == Init /\ [][Next]_voiceVars

\* Timeouts fire and a recorder that was stopped says so; prompts may stay open.
FairSpec == Spec /\ \A c \in Attempts : WF_voiceVars(Timeout(c)) /\ WF_voiceVars(OnStop(c))

-----------------------------------------------------------------------------
VoiceTypeOK ==
    /\ status \in Status /\ ui \in [status : Status, transcribing : BOOLEAN]
    /\ attempt \in 0..MaxAttempts + 2
    /\ {stream, recorder, timer} \subseteq 0..MaxAttempts
    /\ {transcribing, discard, started, mounted, tangled} \subseteq BOOLEAN
    /\ machine \in [Attempts -> Machine]
    /\ live \cup timers \cup uploads \cup dropped \cup late \subseteq Attempts
    /\ outcome \in [Attempts -> SUBSET Outcome]

\* "While a track is live, the platform keeps its own recording indicator up": the
\* microphone is on for the capture under way at most, and off when the page is gone or
\* the recorder idle, whatever answers, fails or is cancelled in between; only a
\* recording cancelled when it was already stopping keeps it until its stop event.
\* When a tap has started another capture before that, this and what follows is lost.
MicIsReleased ==
    ~tangled =>
        /\ live \subseteq {stream}
        /\ status = "idle" => live \subseteq {c \in late : mounted /\ machine[c] = "stopping"}

\* A capture that was cancelled, or under way when the page unmounted, is never sent,
\* unless it was cancelled when it was already stopping.
DroppedStaysUnsent == ~tangled => \A c \in dropped \ late : "clip" \notin outcome[c]

\* No capture ends without a word: unless the user gave it up, the page was handed a
\* clip or an error.
CapturesAreReported ==
    ~tangled =>
        \A c \in Attempts :
            machine[c] \in {"refused", "over"} => c \in dropped \/ outcome[c] # {}

\* No tap opens the microphone over a transcript that has not arrived yet.
NoCaptureOverTranscript ==
    ~tangled /\ mounted /\ uploads # {} => status = "idle" /\ live = {}

\* No recording lasts for ever.
RecordingEnds == status \in {"recording", "stopping"} ~> status = "idle"
=============================================================================
