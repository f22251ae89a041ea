------------------------- MODULE TranslationLedger -------------------------
(***************************************************************************)
(* What preview and save promise a user, with no cache, no marker and no   *)
(* retries: a row of the history is a text that was shown to its owner, is *)
(* kept at most once, and changes or goes only together with rows of that  *)
(* owner.                                                                  *)
(***************************************************************************)
EXTENDS Integers

CONSTANTS Users, Keys, PreviewIds, RowIds

VARIABLES shown, rows

vars == <<shown, rows>>

Preview == [pid : PreviewIds, user : Users, key : Keys]

ShowPreview ==
    /\ \E v \in Preview : shown' = shown \cup {v}
    /\ UNCHANGED rows

\* A shown preview nobody keeps yet is kept under an id larger than every other.
Keep ==
    /\ \E v \in shown, n \in RowIds :
          /\ \A t \in rows : t.pid # v.pid /\ t.id < n
          /\ rows' = rows \cup {[id |-> n, user |-> v.user, pid |-> v.pid, key |-> v.key,
                                 favorite |-> FALSE]}
    /\ UNCHANGED shown

Star ==
    /\ \E t \in rows, b \in BOOLEAN :
          rows' = (rows \ {t}) \cup {[t EXCEPT !.favorite = b]}
    /\ UNCHANGED shown

\* Rows are removed from one history at a time, by its user or by a prune.
Remove ==
    /\ rows' \subseteq rows
    /\ \E u \in Users : \A t \in rows : t.user # u => t \in rows'
    /\ UNCHANGED shown

Init == shown = {} /\ rows = {}

Next == ShowPreview \/ Keep \/ Star \/ Remove

Spec == Init /\ [][Next]_vars
=============================================================================
