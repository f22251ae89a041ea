---------------------------- MODULE SharePage ----------------------------
(***************************************************************************)
(* Sharing from the Translate screen: POST /share/inline is given the      *)
(* saved row when the page has its id, and the preview otherwise.  The     *)
(* page is the one of TranslatePage; the steps that touch                  *)
(* savedTranslationId, the server's previews or its rows are joined with   *)
(* what they do to them.  A preview and its row are named by text and      *)
(* style.                                                                  *)
(***************************************************************************)
EXTENDS TranslatePage

VARIABLES
    savedRow,  \* savedTranslationId: the preview that row was made of
    onSave,    \* the preview of the save in flight
    held,      \* previews the server holds for the user
    rows,      \* rows of the user's history
    sharing,   \* the share in flight: what it asks for and what was on the screen
    messages   \* history: what was handed to Telegram

shareVars == <<savedRow, onSave, held, rows, sharing, messages>>
allVars == <<pageVars, shareVars>>

Source == [kind : {"preview", "row"}, of : Keys]
Share == [source : Source, seen : Keys]

-----------------------------------------------------------------------------
\* setSavedTranslationId(null): draft, style, or a style that waited for the dialog.
Unsave ==
    /\ \/ \E t \in Texts \cup {"short", "long"} : Edit(t)
       \/ \E s \in Styles : SelectStyle(s)
       \/ gate.pending # Nothing /\ AgeConfirmed
    /\ savedRow' = Nothing
    /\ UNCHANGED <<onSave, held, rows, sharing, messages>>

\* The server holds what it translated, also when the page drops the answer.
PreviewArrives(r) ==
    /\ Translated(r)
    /\ held' = held \cup {r.key}
    /\ savedRow' = IF Fits(r) THEN Nothing ELSE savedRow
    /\ UNCHANGED <<onSave, rows, sharing, messages>>

\* handleSave
SaveShown ==
    /\ Save
    /\ onSave' = view.current
    /\ UNCHANGED <<savedRow, held, rows, sharing, messages>>

\* Saving consumes the preview; whatever the screen shows by now, its row is remembered.
SaveArrives ==
    /\ onSave \in held /\ Saved
    /\ held' = held \ {onSave} /\ rows' = rows \cup {onSave}
    /\ savedRow' = onSave /\ onSave' = Nothing
    /\ UNCHANGED <<sharing, messages>>

SaveIsRefused ==
    /\ SaveFails
    /\ onSave' = Nothing
    /\ UNCHANGED <<savedRow, held, rows, sharing, messages>>

OtherStep ==
    /\ \/ \E s \in Styles : SelectLocked(s)
       \/ Retry \/ CancelAge \/ ConfirmAge \/ AgeFails
       \/ gate.pending = Nothing /\ AgeConfirmed
       \/ \E r \in view.flying : Cancelled(r) \/ PreviewFails(r)
       \/ Network \/ Debounce
       \/ \E key \in view.cached : Forget(key)
    /\ UNCHANGED shareVars

\* handleShare; the button is off while a save or a share is in flight, and hidden
\* for a style the user may not use.
AskShare ==
    /\ ShowsResult /\ ~saving /\ sharing = Nothing
    /\ view.current.style \in Restricted => gate.adult
    /\ sharing' = [seen |-> view.current,
                   source |-> IF savedRow # Nothing THEN [kind |-> "row", of |-> savedRow]
                              ELSE [kind |-> "preview", of |-> view.current]]
    /\ UNCHANGED <<pageVars, savedRow, onSave, held, rows, messages>>

\* The row or the preview the route finds.
Found(source) ==
    IF source.kind = "row" THEN source.of \in rows ELSE source.of \in held

\* shareText goes to the share sheet of Telegram.
ShareArrives ==
    /\ sharing # Nothing /\ Found(sharing.source)
    /\ sharing.source.of.style \in Restricted => gate.adult
    /\ messages' = messages \cup {[sent |-> sharing.source.of, seen |-> sharing.seen]}
    /\ sharing' = Nothing
    /\ UNCHANGED <<pageVars, savedRow, onSave, held, rows>>

\* 404, 403, 422, 429, 503 or no answer: a toast.
ShareFails ==
    /\ sharing # Nothing
    /\ sharing' = Nothing
    /\ UNCHANGED <<pageVars, savedRow, onSave, held, rows, messages>>

\* The preview's time is up in Redis, or its row is deleted on the history page.
SourceGoes ==
    /\ \/ \E key \in held : held' = held \ {key} /\ UNCHANGED rows
       \/ \E key \in rows : rows' = rows \ {key} /\ UNCHANGED held
    /\ UNCHANGED <<pageVars, savedRow, onSave, sharing, messages>>

-----------------------------------------------------------------------------
ShareInit ==
    /\ Init
    /\ savedRow = Nothing /\ onSave = Nothing /\ sharing = Nothing
    /\ held = {} /\ rows = {} /\ messages = {}

ShareNext ==
    \/ Unsave \/ OtherStep
    \/ \E r \in view.flying : PreviewArrives(r)
    \/ SaveShown \/ SaveArrives \/ SaveIsRefused
    \/ AskShare \/ ShareArrives \/ ShareFails \/ SourceGoes

ShareSpec == ShareInit /\ [][ShareNext]_allVars

-----------------------------------------------------------------------------
\* "A sent message contains exactly the translation the user saw": what is handed to
\* Telegram is what was on the screen at the tap.
SentMeansSeen == \A m \in messages : m.sent = m.seen
=============================================================================
