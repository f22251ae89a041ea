-------------------------- MODULE TranslatePage --------------------------
(***************************************************************************)
(* The Translate screen of the Mini App: the draft, the debounced preview, *)
(* its automatic attempts, the 18+ dialog and the save button.  A step is  *)
(* an event (a tap, a timer, an answer) with the render and the effects    *)
(* it leads to; the effects are functions of the view and the input.       *)
(***************************************************************************)
EXTENDS Naturals, FiniteSets

CONSTANTS
    Texts,        \* drafts of a length that is translated
    Styles,
    Restricted,   \* the styles for adults
    Nothing,      \* null: no style, no preview, no request
    MaxAttempts,  \* MAX_AUTOMATIC_PREVIEW_ATTEMPTS
    MaxEdits,     \* bound of the model: changes of draft or style
    MaxRetries    \* bound of the model: values of retryNonce

ASSUME PageAssumption ==
    /\ {"short", "long"} \cap Texts = {} /\ Nothing \notin Styles
    /\ Restricted \subseteq Styles
    /\ MaxAttempts \in Nat \ {0} /\ MaxEdits \in Nat /\ MaxRetries \in Nat

VARIABLES
    input,  \* draftText (or what is wrong with its length), selectedStyle, isOnline, retryNonce
    view,   \* the other states and refs of the page, and its requests; see View
    gate,   \* showPofeniAgeConfirm, pendingRestrictedStyleRef, confirmAgeMutation, ageConfirmedAdult
    saving  \* saveMutation.isPending

pageVars == <<input, view, gate, saving>>

Keys == [text : Texts \cup {"short", "long"}, style : Styles]
Request == [key : Keys, version : 0..MaxEdits, nonce : 0..MaxRetries, count : 1..MaxAttempts]
Input == [text : Texts \cup {"short", "long"}, style : Styles, online : BOOLEAN, nonce : 0..MaxRetries]
View == [
    version : 0..MaxEdits,               \* previewVersionRef
    prevStyle : Styles \cup {Nothing},   \* previousStyleRef
    attempt : [key : Keys \cup {Nothing}, nonce : 0..MaxRetries, count : 0..MaxAttempts],
    lastKey : Keys \cup {Nothing},       \* lastPreviewKeyRef
    timer : BOOLEAN,                     \* the debounce is running
    flying : SUBSET Request,             \* requests whose promise is not settled
    aborted : SUBSET Request,            \* those of them whose signal is aborted
    mutation : [of : Request \cup {Nothing}, status : {"idle", "pending", "success", "error"}],
    cached : SUBSET Keys,                \* previews in the query cache
    current : Keys \cup {Nothing},       \* currentPreview
    banner : BOOLEAN,                    \* errorBanner is set
    sent : Nat,                          \* history: requests since draft, style or nonce changed
    limited : BOOLEAN ]                  \* history: one of them was answered 429
Gate == [open : BOOLEAN, pending : Styles \cup {Nothing}, confirming : BOOLEAN, adult : BOOLEAN]

KeyOf(in) == [text |-> in.text, style |-> in.style]

-----------------------------------------------------------------------------
(* What the page shows: PreviewResult.                                     *)

Failing == view.mutation.status # "pending" /\ (view.mutation.status = "error" \/ view.banner)

ShowsResult == view.current # Nothing /\ ~Failing

CanRetry == Failing /\ view.attempt.count >= MaxAttempts /\ input.text # "short"

-----------------------------------------------------------------------------
(* The effects that follow a render of view v with input in.               *)

Spent(a) == a.count >= MaxAttempts

\* Where consumePreviewAttempt starts from.
Attempts(v, in) ==
    IF v.attempt.key = KeyOf(in) /\ v.attempt.nonce = in.nonce THEN v.attempt
    ELSE [key |-> KeyOf(in), nonce |-> in.nonce, count |-> 0]

\* Wrong form: the controller of the request before is dropped, not aborted.
AbortNothing(v) == v

\* abortControllerRef.current?.abort(): all but the latest request are aborted already.
Abort(v) == [v EXCEPT !.aborted = v.flying]

\* Wrong form: previewAttemptRef is not updated.
SentUncounted(v, in) ==
    LET a == [Attempts(v, in) EXCEPT !.count = @ + 1]
        r == [key |-> KeyOf(in), version |-> v.version, nonce |-> in.nonce, count |-> a.count]
    IN  [Abort(v) EXCEPT !.flying = @ \cup {r}, !.sent = @ + 1, !.timer = TRUE,
                         !.mutation = [of |-> r, status |-> "pending"]]

Sent(v, in) ==
    LET a == [Attempts(v, in) EXCEPT !.count = @ + 1]
        r == [key |-> KeyOf(in), version |-> v.version, nonce |-> in.nonce, count |-> a.count]
    IN  [Abort(v) EXCEPT !.attempt = a, !.flying = @ \cup {r}, !.sent = @ + 1, !.timer = TRUE,
                         !.mutation = [of |-> r, status |-> "pending"]]

\* runPreview.  previewMutation is new on every render, so what renders again restarts
\* the debounce: a request that outlasts it is aborted and sent again.
Run(v, in) ==
    LET w == [v EXCEPT !.lastKey = KeyOf(in)]
    IN  CASE ~in.online -> [v EXCEPT !.banner = TRUE, !.timer = TRUE]
          [] in.online /\ KeyOf(in) \in v.cached ->
                [w EXCEPT !.current = KeyOf(in), !.timer = (v.current # KeyOf(in))]
          [] in.online /\ KeyOf(in) \notin v.cached /\ Spent(Attempts(v, in)) ->
                [w EXCEPT !.timer = FALSE]
          [] OTHER -> Sent(w, in)

Render(v, in) ==
    CASE in.text = "short" -> [Abort(v) EXCEPT !.current = Nothing, !.timer = FALSE]
      [] in.text = "long" -> [Abort(v) EXCEPT !.timer = FALSE]
      [] in.text \in Texts /\ v.prevStyle \notin {Nothing, in.style} ->
            Run([v EXCEPT !.prevStyle = in.style], in)
      [] OTHER -> [v EXCEPT !.prevStyle = in.style, !.timer = TRUE]

\* The effect on draftText and selectedStyle, and what a changed input means for the history.
Change(v, in) ==
    LET w == IF in.nonce # input.nonce \/ KeyOf(in) # KeyOf(input)
             THEN [v EXCEPT !.sent = 0, !.limited = FALSE] ELSE v
    IN  IF KeyOf(in) # KeyOf(input) THEN [Abort(w) EXCEPT !.version = @ + 1] ELSE w

\* Renders v after the input became in.
Show(v, in) ==
    /\ input' = in
    /\ view' = Render(Change(v, in), in)

\* handleApiError
Fail(v, kind) == [v EXCEPT !.banner = @ \/ kind \in {"limit", "other"}]

-----------------------------------------------------------------------------
(* The user.                                                               *)

Editable == view.version < MaxEdits

\* handleTextChange, handleTranscript and insertRandomPhrase.
Edit(t) ==
    /\ Editable /\ t # input.text
    /\ Show([view EXCEPT !.banner = FALSE], [input EXCEPT !.text = t])
    /\ UNCHANGED <<gate, saving>>

SelectStyle(s) ==
    /\ Editable /\ ~gate.open
    /\ s \in Restricted => gate.adult
    /\ Show([view EXCEPT !.banner = FALSE], [input EXCEPT !.style = s])
    /\ UNCHANGED <<gate, saving>>

SelectLocked(s) ==
    /\ ~gate.open /\ s \in Restricted /\ ~gate.adult
    /\ gate' = [gate EXCEPT !.open = TRUE, !.pending = s]
    /\ Show(view, input)
    /\ UNCHANGED saving

Retry ==
    /\ CanRetry /\ input.nonce < MaxRetries
    /\ Show([view EXCEPT !.banner = FALSE], [input EXCEPT !.nonce = @ + 1])
    /\ UNCHANGED <<gate, saving>>

CancelAge ==
    /\ gate.open
    /\ gate' = [gate EXCEPT !.open = FALSE, !.pending = Nothing]
    /\ Show(view, input)
    /\ UNCHANGED saving

ConfirmAge ==
    /\ gate.open /\ ~gate.confirming
    /\ gate' = [gate EXCEPT !.confirming = TRUE]
    /\ Show(view, input)
    /\ UNCHANGED saving

Save ==
    /\ ShowsResult /\ ~saving
    /\ saving' = TRUE
    /\ Show(view, input)
    /\ UNCHANGED gate

-----------------------------------------------------------------------------
(* Answers, the network and time.                                          *)

\* A style that was waiting is selected; otherwise the nonce restarts the preview.
AgeConfirmed ==
    /\ gate.confirming
    /\ gate' = [open |-> FALSE, pending |-> Nothing, confirming |-> FALSE, adult |-> TRUE]
    /\ \/ /\ gate.pending # Nothing /\ Editable
          /\ Show([view EXCEPT !.banner = FALSE], [input EXCEPT !.style = gate.pending])
       \/ /\ gate.pending = Nothing /\ input.nonce < MaxRetries
          /\ Show([view EXCEPT !.banner = FALSE], [input EXCEPT !.nonce = @ + 1])
    /\ UNCHANGED saving

AgeFails ==
    /\ gate.confirming
    /\ gate' = [gate EXCEPT !.confirming = FALSE]
    /\ \E kind \in {"auth", "limit", "other"} : Show(Fail(view, kind), input)
    /\ UNCHANGED saving

\* Wrong form: the key of the last request is all that is compared.
FitsLastKey(r) == r.key = view.lastKey

\* The answer is for what the page is waiting for.
Fits(r) ==
    /\ r.version = view.version /\ r \notin view.aborted
    /\ r.key = view.lastKey

Settled(r, status) ==
    [view EXCEPT !.flying = @ \ {r}, !.aborted = @ \ {r},
                 !.mutation.status = IF view.mutation.of = r THEN status ELSE @]

\* previewMutation notifies the page of its latest request only.
Notify(r, v) == IF view.mutation.of = r THEN Show(v, input) ELSE view' = v /\ UNCHANGED input

\* The answer of a request that was aborted may be on its way already.
Translated(r) ==
    /\ r \in view.flying
    /\ r.key.style \in Restricted => gate.adult
    /\ LET v == Settled(r, "success")
       IN  Notify(r, IF Fits(r) THEN [v EXCEPT !.current = r.key, !.cached = @ \cup {r.key}] ELSE v)
    /\ UNCHANGED <<gate, saving>>

Cancelled(r) ==
    /\ r \in view.aborted
    /\ Notify(r, Settled(r, "error"))
    /\ UNCHANGED <<gate, saving>>

Relevant(r) == r.version = view.version /\ r \notin view.aborted

\* Wrong form: a 429 is an error like any other.
BurnNothing(v, kind) == v

\* "A rate-limited request must not spend two more automatic attempts."
Burn(v, kind) == IF kind = "limit" THEN [v EXCEPT !.attempt.count = MaxAttempts] ELSE v

PreviewFails(r) ==
    /\ r \in view.flying
    /\ \E kind \in {"auth", "limit", "other"} \cup IF r.key.style \in Restricted THEN {"age"} ELSE {} :
          LET v == Settled(r, "error")
          IN  \/ ~Relevant(r) /\ Notify(r, v) /\ UNCHANGED gate
              \/ /\ Relevant(r)
                 /\ Notify(r, [Burn(Fail(v, kind), kind) EXCEPT
                                  !.limited = @ \/ (kind = "limit" /\ r.nonce = input.nonce)])
                 /\ gate' = [gate EXCEPT !.open = @ \/ kind = "age"]
    /\ UNCHANGED saving

Saved ==
    /\ saving /\ saving' = FALSE
    /\ Show(view, input)
    /\ UNCHANGED gate

SaveFails ==
    /\ saving /\ saving' = FALSE
    /\ \E kind \in {"auth", "limit", "other"} : Show(Fail(view, kind), input)
    /\ UNCHANGED gate

\* Wrong form: the debounce is not restarted by the network.
NetworkUnnoticed ==
    /\ input' = [input EXCEPT !.online = ~@]
    /\ view' = [view EXCEPT !.timer = FALSE]
    /\ UNCHANGED <<gate, saving>>

Network ==
    /\ Show(view, [input EXCEPT !.online = ~@])
    /\ UNCHANGED <<gate, saving>>

Debounce ==
    /\ view.timer
    /\ view' = Run(view, input)
    /\ UNCHANGED <<input, gate, saving>>

\* The query cache keeps a preview nobody observes for a while.
Forget(key) ==
    /\ key \in view.cached
    /\ view' = [view EXCEPT !.cached = @ \ {key}]
    /\ UNCHANGED <<input, gate, saving>>

-----------------------------------------------------------------------------
\* The page once styles and profile are there.
Init ==
    /\ input \in [text : {"short"}, style : Styles, online : BOOLEAN, nonce : {0}]
    /\ view = [version |-> 0, prevStyle |-> Nothing, lastKey |-> Nothing, timer |-> FALSE,
               attempt |-> [key |-> Nothing, nonce |-> 0, count |-> 0],
               flying |-> {}, aborted |-> {}, mutation |-> [of |-> Nothing, status |-> "idle"],
               cached |-> {}, current |-> Nothing, banner |-> FALSE, sent |-> 0, limited |-> FALSE]
    /\ gate \in [open : {FALSE}, pending : {Nothing}, confirming : {FALSE}, adult : BOOLEAN]
    /\ saving = FALSE

Answer == \E r \in view.flying : Translated(r) \/ Cancelled(r) \/ PreviewFails(r)

Next ==
    \/ \E t \in Texts \cup {"short", "long"} : Edit(t)
    \/ \E s \in Styles : SelectStyle(s) \/ SelectLocked(s)
    \/ Retry \/ CancelAge \/ ConfirmAge \/ AgeConfirmed \/ AgeFails
    \/ Save \/ Saved \/ SaveFails
    \/ Answer \/ Network \/ Debounce
    \/ \E key \in view.cached : Forget(key)

Spec == Init /\ [][Next]_pageVars

\* Timers fire and requests are answered, if only by a timeout or by their abort.
FairSpec == Spec /\ WF_pageVars(Debounce) /\ WF_pageVars(Answer)

-----------------------------------------------------------------------------
\* Types; an aborted request has not settled yet, and one that is pending has not either.
PageTypeOK ==
    /\ input \in Input /\ view \in View /\ gate \in Gate /\ saving \in BOOLEAN
    /\ view.aborted \subseteq view.flying
    /\ view.mutation.status = "pending" => view.mutation.of \in view.flying

\* "Old answers never replace the result of a newer text or style": a preview that
\* comes on the screen is the one of the draft and the style there.
OldAnswersStayOut ==
    [][view'.current \notin {Nothing, view.current} => view'.current = KeyOf(input')]_pageVars

\* However answers, renders, retries and the network are ordered, a draft and style that
\* stay the same cost at most MaxAttempts requests until the user asks again.
AttemptsAreCapped == view.sent <= MaxAttempts

\* "A rate-limited request must not spend two more automatic attempts": after a 429 the
\* page sends nothing by itself.
LimitEndsAttempts == [][view.limited /\ view'.limited => view'.sent = view.sent]_pageVars

\* One request at a time is waited for: the latest, and for the input on the screen.
LiveRequestIsLatest ==
    \A r \in view.flying \ view.aborted :
        r = view.mutation.of /\ r.version = view.version /\ r.key = KeyOf(input)

\* Once the user and the network leave it alone, the page has the preview of its draft,
\* or has used up its attempts.
QuietPageSettles ==
    <>[](input.online /\ input.text \in Texts)
    => <>[](view.current = KeyOf(input) \/ (Spent(Attempts(view, input)) /\ view.flying = {}))
=============================================================================
