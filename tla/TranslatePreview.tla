-------------------------- MODULE TranslatePreview --------------------------
(***************************************************************************)
(* POST /translate/preview.  translatePreview runs the gates, looks the    *)
(* result up in the preview cache or asks the AI layer for it, and stores  *)
(* what it got.  Every await of the handler is one action, so that requests*)
(* interleave where the event loop may run something else.                 *)
(***************************************************************************)
EXTENDS PreviewCache

CONSTANTS
    Malformed,   \* keys refused by the text contract or the style registry
    Restricted,  \* keys whose style is age-restricted
    Injected,    \* keys whose text matches a prompt-injection pattern
    Previewers   \* slots for preview requests in flight

ASSUME PreviewAssumption ==
    Malformed \subseteq Keys /\ Restricted \subseteq Keys /\ Injected \subseteq Keys

VARIABLES
    adult,      \* User.ageConfirmedAdult
    permitted,  \* has the operator left any configured provider on?
    previewPc,  \* where each preview request is suspended
    preview     \* its arguments, local variables and last answer

gateVars == <<adult, permitted>>
previewVars == <<previewPc, preview>>
translateVars == <<cacheVars, gateVars, previewVars>>

PreviewPoints ==
    {"idle", "gates", "switch", "lookup", "fetch", "translate", "storeData", "storePointer"}
PreviewAnswers == {"none", "refused", "unavailable", "preview", "error", "lost"}

\* seen is auxiliary: the revocable permissions that held at some moment of the
\* request, a confirmed age and a permitted provider.
PreviewJob ==
    [user : Users \cup {NoPreview}, key : Keys \cup {NoPreview},
     pid : PreviewIds \cup {NoPreview}, answer : PreviewAnswers,
     seen : SUBSET {"adult", "permitted"}]

InForce(u) == {s \in {"adult", "permitted"} :
                  (s = "adult" /\ adult[u]) \/ (s = "permitted" /\ permitted)}

PreviewGoto(r, point) == previewPc' = [previewPc EXCEPT ![r] = point]

AnswerPreview(r, a) ==
    /\ PreviewGoto(r, "idle")
    /\ preview' = [preview EXCEPT ![r].answer = a]

-----------------------------------------------------------------------------
StartPreview(r, u, k) ==
    /\ previewPc[r] = "idle"
    /\ PreviewGoto(r, "gates")
    /\ preview' = [preview EXCEPT ![r] = [user |-> u, key |-> k, pid |-> NoPreview,
                                          answer |-> "none", seen |-> InForce(u)]]
    /\ UNCHANGED <<cacheVars, gateVars>>

\* The text contract, the style registry, the age gate and the injection check.
\* Only the age gate awaits anything: the profile, read from Postgres.
Refused(r) ==
    \/ preview[r].key \in Malformed \cup Injected
    \/ preview[r].key \in Restricted /\ ~adult[preview[r].user]

\* Wrong form: the gates are skipped when the cache already has an answer.
GatesBehindCache(r) ==
    /\ previewPc[r] = "gates"
    /\ IF Refused(r) /\ pointer[preview[r].user][preview[r].key] = NoPreview
       THEN AnswerPreview(r, "refused")
       ELSE PreviewGoto(r, "switch") /\ UNCHANGED preview
    /\ UNCHANGED <<cacheVars, gateVars>>

Gates(r) ==
    /\ previewPc[r] = "gates"
    /\ IF Refused(r)
       THEN AnswerPreview(r, "refused")
       ELSE PreviewGoto(r, "switch") /\ UNCHANGED preview
    /\ UNCHANGED <<cacheVars, gateVars>>

SwitchGate(r) ==
    /\ previewPc[r] = "switch"
    /\ IF permitted
       THEN PreviewGoto(r, "lookup") /\ UNCHANGED preview
       ELSE AnswerPreview(r, "unavailable")
    /\ UNCHANGED <<cacheVars, gateVars>>

Lookup(r) ==
    LET p == pointer[preview[r].user][preview[r].key] IN
    /\ previewPc[r] = "lookup"
    /\ PreviewGoto(r, IF p = NoPreview THEN "translate" ELSE "fetch")
    /\ preview' = [preview EXCEPT ![r].pid = p]
    /\ UNCHANGED <<cacheVars, gateVars>>

FetchHit(r) ==
    /\ previewPc[r] = "fetch"
    /\ Readable(preview[r].pid, preview[r].user)
    /\ Show(preview[r].pid, preview[r].user, preview[r].key)
    /\ AnswerPreview(r, "preview")
    /\ UNCHANGED <<data, pointer, marker, issued, gateVars>>

\* Wrong form: a pointer to a preview that is gone is looked up again.
FetchMissLooksUpAgain(r) ==
    /\ previewPc[r] = "fetch"
    /\ ReadMiss(preview[r].pid, preview[r].user)
    /\ PreviewGoto(r, "lookup")
    /\ UNCHANGED <<pointer, marker, issued, shown, gateVars, preview>>

\* A pointer to a preview that is gone falls through to a fresh translation.
FetchMiss(r) ==
    /\ previewPc[r] = "fetch"
    /\ ReadMiss(preview[r].pid, preview[r].user)
    /\ PreviewGoto(r, "translate")
    /\ preview' = [preview EXCEPT ![r].pid = NoPreview]
    /\ UNCHANGED <<pointer, marker, issued, shown, gateVars>>

\* The AI layer answers or, for whatever reason, does not.
TranslateCore(r) ==
    /\ previewPc[r] = "translate"
    /\ \/ PreviewGoto(r, "storeData") /\ UNCHANGED preview
       \/ AnswerPreview(r, "unavailable")
    /\ UNCHANGED <<cacheVars, gateVars>>

\* Wrong form: the reply does not wait for the pointer, which is never written.
StorePayloadAndAnswer(r) ==
    /\ previewPc[r] = "storeData"
    /\ \E p \in PreviewIds : /\ StoreData(p, preview[r].user, preview[r].key)
                             /\ Show(p, preview[r].user, preview[r].key)
    /\ AnswerPreview(r, "preview")
    /\ UNCHANGED <<pointer, marker, gateVars>>

StorePayload(r) ==
    /\ previewPc[r] = "storeData"
    /\ \E p \in PreviewIds :
          /\ StoreData(p, preview[r].user, preview[r].key)
          /\ preview' = [preview EXCEPT ![r].pid = p]
    /\ PreviewGoto(r, "storePointer")
    /\ UNCHANGED <<pointer, marker, shown, gateVars>>

\* The reply follows the second SETEX with nothing in between.
PointAndAnswer(r) ==
    /\ previewPc[r] = "storePointer"
    /\ StorePointer(preview[r].pid, preview[r].user, preview[r].key)
    /\ Show(preview[r].pid, preview[r].user, preview[r].key)
    /\ AnswerPreview(r, "preview")
    /\ UNCHANGED <<data, marker, issued, gateVars>>

PreviewStep(r) ==
    \/ Gates(r) \/ SwitchGate(r) \/ Lookup(r) \/ FetchHit(r) \/ FetchMiss(r)
    \/ TranslateCore(r) \/ StorePayload(r) \/ PointAndAnswer(r)

\* A call that fails before or after taking effect is a failure before or after
\* the action of that call.  An unreadable kill-switch fails closed.
PreviewFails(r) ==
    /\ previewPc[r] # "idle"
    /\ AnswerPreview(r, IF previewPc[r] \in {"switch", "translate"}
                        THEN "unavailable" ELSE "error")
    /\ UNCHANGED <<cacheVars, gateVars>>

PreviewsLost ==
    /\ previewPc' = [r \in Previewers |-> "idle"]
    /\ preview' = [r \in Previewers |-> IF previewPc[r] = "idle" THEN preview[r]
                                        ELSE [preview[r] EXCEPT !.answer = "lost"]]

-----------------------------------------------------------------------------
(* The decisions the gates read.                                           *)

Witness(s, U) ==
    preview' = [r \in Previewers |->
                  IF previewPc[r] # "idle" /\ preview[r].user \in U
                  THEN [preview[r] EXCEPT !.seen = @ \cup {s}] ELSE preview[r]]

\* PATCH /user/preferences
SetAgeConfirmed(u, b) ==
    /\ adult[u] # b
    /\ adult' = [adult EXCEPT ![u] = b]
    /\ Witness("adult", IF b THEN {u} ELSE {})
    /\ UNCHANGED <<cacheVars, permitted, previewPc>>

\* The last provider is switched off, or the first one on again.
SetPermitted(b) ==
    /\ permitted # b
    /\ permitted' = b
    /\ Witness("permitted", IF b THEN Users ELSE {})
    /\ UNCHANGED <<cacheVars, adult, previewPc>>

Decisions ==
    \E b \in BOOLEAN : SetPermitted(b) \/ \E u \in Users : SetAgeConfirmed(u, b)

-----------------------------------------------------------------------------
(* The component on its own: of the saves it sees what they do to Redis.   *)

PreviewRequests ==
    \E r \in Previewers :
        \/ PreviewStep(r)
        \/ PreviewFails(r)
        \/ \E u \in Users, k \in Keys : StartPreview(r, u, k)

SavedElsewhere ==
    /\ \E v \in shown :
          \/ Evict(v.pid, v.user, v.key) /\ UNCHANGED marker
          \/ SetMarker(v.pid) /\ UNCHANGED <<data, pointer>>
    /\ UNCHANGED <<issued, shown, gateVars, previewVars>>

\* The process dies with its requests; Redis and Postgres keep what they have.
RestartPreviews ==
    /\ PreviewsLost
    /\ UNCHANGED cacheVars \/ Redeploy
    /\ UNCHANGED gateVars

TranslateInit ==
    /\ CacheInit
    /\ adult = [u \in Users |-> FALSE]
    /\ permitted = TRUE
    /\ previewPc = [r \in Previewers |-> "idle"]
    /\ preview = [r \in Previewers |-> [user |-> NoPreview, key |-> NoPreview, pid |-> NoPreview,
                                        answer |-> "none", seen |-> {}]]

TranslateNext ==
    \/ PreviewRequests
    \/ Decisions
    \/ SavedElsewhere
    \/ RestartPreviews
    \/ CacheTime /\ UNCHANGED <<gateVars, previewVars>>

TranslateSpec == TranslateInit /\ [][TranslateNext]_translateVars

\* Every call the handler awaits returns or fails: Postgres, Redis and the AI
\* adapters all answer or time out.
FairTranslateSpec ==
    /\ TranslateSpec
    /\ \A r \in Previewers : WF_translateVars(PreviewStep(r) \/ PreviewFails(r))

-----------------------------------------------------------------------------
TranslateTypeOK ==
    /\ CacheTypeOK
    /\ adult \in [Users -> BOOLEAN]
    /\ permitted \in BOOLEAN
    /\ previewPc \in [Previewers -> PreviewPoints]
    /\ preview \in [Previewers -> PreviewJob]

\* No cached or fresh preview is answered unless, at some moment of that very
\* request, an operator permitted a provider and - for an age-restricted style -
\* the user's age was confirmed: a warm cache is no way around either decision,
\* nor around the text contract and the injection check.
GatesOutrankCache ==
    \A r \in Previewers : preview[r].answer = "preview" =>
        /\ "permitted" \in preview[r].seen
        /\ preview[r].key \in Restricted => "adult" \in preview[r].seen
        /\ preview[r].key \notin Malformed \cup Injected

\* Every request is answered: a pointer left behind by an expired, saved or
\* unreadable preview never traps it.
EveryPreviewIsAnswered == \A r \in Previewers : previewPc[r] # "idle" ~> previewPc[r] = "idle"
=============================================================================
