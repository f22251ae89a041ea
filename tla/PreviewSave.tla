---------------------------- MODULE PreviewSave ----------------------------
(***************************************************************************)
(* TranslatePreview and SaveHistory over one preview cache: the whole life *)
(* of a translation, from the request to the history row.  Each component  *)
(* describes the other by its writes to Redis; the composition, in which   *)
(* the other is there in full, implements both.                            *)
(***************************************************************************)
EXTENDS TranslatePreview, SaveHistory

vars == <<cacheVars, gateVars, previewVars, tableVars, saveVars>>

Init == TranslateInit /\ HistoryInit

\* One process serves both routes: a restart loses the requests of both.
Restart ==
    /\ PreviewsLost /\ SavesLost
    /\ UNCHANGED cacheVars \/ Redeploy
    /\ UNCHANGED <<gateVars, tableVars>>

Next ==
    \/ (PreviewRequests \/ Decisions) /\ UNCHANGED <<tableVars, saveVars>>
    \/ (SaveRequests \/ HistoryRequests) /\ UNCHANGED <<gateVars, previewVars>>
    \/ CacheTime /\ UNCHANGED <<gateVars, previewVars, tableVars, saveVars>>
    \/ Restart

Spec == Init /\ [][Next]_vars

\* FairTranslateSpec in the composition: every call a preview request awaits returns
\* or fails.
FairSpec ==
    /\ Spec
    /\ \A r \in Previewers :
          WF_vars((PreviewStep(r) \/ PreviewFails(r)) /\ UNCHANGED <<tableVars, saveVars>>)
=============================================================================
