--------------------------- MODULE MCPreviewSave ---------------------------
(* A small instance of the composition PreviewSave for TLC. *)
EXTENDS PreviewSave

\* Bound of the run: while a save is in flight, and once a row is there, the confirmed
\* age and the kill-switch, which no save reads, stay on.
GatesSettle ==
    \/ permitted /\ \A u \in Users : adult[u]
    \/ rows = {} /\ \A r \in Savers : savePc[r] = "idle"
=============================================================================
