---------------------------- MODULE SaveHistory ----------------------------
(***************************************************************************)
(* POST /translate/save and the history it writes to.  saveFromPreview     *)
(* turns a preview into a Translation row, consumes the preview and prunes *)
(* the user's history to its cap.  Every await is one action; the other    *)
(* history handlers appear at the moment their one write takes effect.     *)
(***************************************************************************)
EXTENDS PreviewCache

CONSTANTS
    Savers,      \* slots for save requests in flight
    HistoryMax,  \* HISTORY_MAX_ENTRIES
    MaxRowId     \* bound of the model: Translation ids are 1..MaxRowId

ASSUME HistoryAssumption == HistoryMax \in Nat /\ MaxRowId \in Nat

VARIABLES
    rows,    \* the Translation table
    nextId,  \* its autoincrement sequence
    saved,   \* history: every preview id a row was ever committed for
    savePc,  \* where each save request is suspended
    save     \* its arguments, local variables and last answer

tableVars == <<rows, nextId, saved>>
saveVars == <<savePc, save>>
historyVars == <<cacheVars, tableVars, saveVars>>

RowIds == 1..MaxRowId
Row == [id : RowIds, user : Users, pid : PreviewIds, key : Keys, favorite : BOOLEAN]

PrunePoints == {"count", "select", "prune"}
SavePoints ==
    {"idle", "marker", "conflict", "load", "create", "evict", "mark"} \cup PrunePoints
SaveAnswers == {"none", "saved", "conflictRow", "conflictBare", "notFound", "gone",
                "error", "lost"}

\* own is the id of the row this save created (0: none yet).
SaveJob ==
    [user : Users \cup {NoPreview}, key : Keys \cup {NoPreview},
     pid : PreviewIds \cup {NoPreview},
     own : {0} \cup RowIds, excess : Nat, victims : SUBSET RowIds, answer : SaveAnswers]

RowsOf(u) == {t \in rows : t.user = u}
RowsFor(p) == {t \in rows : t.pid = p}

\* The n oldest rows of S.  createdAt is the insertion order here, and so is id.
Oldest(S, n) == {t \in S : Cardinality({s \in S : s.id < t.id}) < n}

SaveGoto(r, point) == savePc' = [savePc EXCEPT ![r] = point]

\* The answer ends the request; the locals only it used are forgotten.
AnswerSave(r, a) ==
    /\ SaveGoto(r, "idle")
    /\ save' = [save EXCEPT ![r] = [@ EXCEPT !.answer = a, !.user = NoPreview, !.key = NoPreview,
                                             !.own = 0, !.excess = 0, !.victims = {}]]

-----------------------------------------------------------------------------
(* saveFromPreview.                                                        *)

\* An id that was never shown to anyone cannot be guessed, and is answered like
\* one that is gone.
StartSave(r, u, p) ==
    /\ savePc[r] = "idle"
    /\ \E v \in shown : v.pid = p
    /\ SaveGoto(r, "marker")
    /\ save' = [save EXCEPT ![r] = [user |-> u, key |-> NoPreview, pid |-> p, own |-> 0,
                                    excess |-> 0, victims |-> {}, answer |-> "none"]]
    /\ UNCHANGED <<cacheVars, tableVars>>

\* Wrong form: the marker is claimed by the check itself, before the insert.
CheckAndClaim(r) ==
    /\ savePc[r] = "marker"
    /\ SaveGoto(r, IF save[r].pid \in marker THEN "conflict" ELSE "load")
    /\ SetMarker(save[r].pid)
    /\ UNCHANGED <<data, pointer, issued, shown, tableVars, save>>

CheckIdempotency(r) ==
    /\ savePc[r] = "marker"
    /\ SaveGoto(r, IF save[r].pid \in marker THEN "conflict" ELSE "load")
    /\ UNCHANGED <<cacheVars, tableVars, save>>

\* The 409 of a duplicate carries the row only if it is still there.
Conflict(r) ==
    /\ savePc[r] = "conflict"
    /\ AnswerSave(r, IF \E t \in RowsFor(save[r].pid) : t.user = save[r].user
                     THEN "conflictRow" ELSE "conflictBare")
    /\ UNCHANGED <<cacheVars, tableVars>>

LoadHit(r) ==
    /\ savePc[r] = "load"
    /\ Readable(save[r].pid, save[r].user)
    /\ SaveGoto(r, "create")
    /\ save' = [save EXCEPT ![r].key = data[save[r].pid].key]
    /\ UNCHANGED <<cacheVars, tableVars>>

\* The clock passes expiresAt between getPreview's check and the caller's.
LoadLate(r) ==
    /\ savePc[r] = "load"
    /\ Readable(save[r].pid, save[r].user)
    /\ data' = [data EXCEPT ![save[r].pid].state = "lapsed"]
    /\ AnswerSave(r, "gone")
    /\ UNCHANGED <<pointer, marker, issued, shown, tableVars>>

LoadMiss(r) ==
    /\ savePc[r] = "load"
    /\ ReadMiss(save[r].pid, save[r].user)
    /\ AnswerSave(r, "notFound")
    /\ UNCHANGED <<pointer, marker, issued, shown, tableVars>>

\* Wrong form: the marker alone guards the insert, previewId is not unique.
TakenByMarker(p) == p \in marker

Taken(p) == RowsFor(p) # {}

\* The insert of a second row for a preview fails with P2002.
CreateTaken(r) ==
    /\ savePc[r] = "create"
    /\ Taken(save[r].pid)
    /\ SaveGoto(r, "conflict")
    /\ UNCHANGED <<cacheVars, tableVars, save>>

Create(r) ==
    /\ savePc[r] = "create"
    /\ ~Taken(save[r].pid)
    /\ nextId \in RowIds
    /\ rows' = rows \cup {[id |-> nextId, user |-> save[r].user, pid |-> save[r].pid,
                           key |-> save[r].key, favorite |-> FALSE]}
    /\ nextId' = nextId + 1
    /\ saved' = saved \cup {save[r].pid}
    /\ save' = [save EXCEPT ![r].own = nextId]
    /\ SaveGoto(r, "evict")
    /\ UNCHANGED cacheVars

Consume(r) ==
    /\ savePc[r] = "evict"
    /\ Evict(save[r].pid, save[r].user, save[r].key)
    /\ SaveGoto(r, "mark")
    /\ UNCHANGED <<marker, issued, shown, tableVars, save>>

Mark(r) ==
    /\ savePc[r] = "mark"
    /\ SetMarker(save[r].pid)
    /\ SaveGoto(r, "count")
    /\ UNCHANGED <<data, pointer, issued, shown, tableVars, save>>

-----------------------------------------------------------------------------
(* pruneHistory: three separate queries.                                   *)

Excess(u) == Cardinality(RowsOf(u)) - HistoryMax

Count(r) ==
    LET excess == Excess(save[r].user) IN
    /\ savePc[r] = "count"
    /\ \/ /\ excess <= 0
          /\ AnswerSave(r, "saved")
       \/ /\ excess > 0
          /\ SaveGoto(r, "select")
          /\ save' = [save EXCEPT ![r].excess = excess]
    /\ UNCHANGED <<cacheVars, tableVars>>

\* Wrong form: the row the prune makes room for is a candidate itself.
StaleOrOwn(r) == Oldest({t \in RowsOf(save[r].user) : ~t.favorite}, save[r].excess)

Stale(r) == Oldest({t \in RowsOf(save[r].user) : ~t.favorite /\ t.id # save[r].own},
                   save[r].excess)

Select(r) ==
    /\ savePc[r] = "select"
    /\ \/ /\ Stale(r) = {}
          /\ AnswerSave(r, "saved")
       \/ /\ Stale(r) # {}
          /\ SaveGoto(r, "prune")
          /\ save' = [save EXCEPT ![r].victims = {t.id : t \in Stale(r)}]
    /\ UNCHANGED <<cacheVars, tableVars>>

\* Wrong form: a save leaves the deletion to another one that is about to delete.
PruneUnlessBusy(r) ==
    LET busy == \E q \in Savers \ {r} : savePc[q] = "prune" /\ save[q].user = save[r].user IN
    /\ savePc[r] = "prune"
    /\ rows' = IF busy THEN rows
               ELSE {t \in rows : ~(t.user = save[r].user /\ t.id \in save[r].victims)}
    /\ AnswerSave(r, "saved")
    /\ UNCHANGED <<cacheVars, nextId, saved>>

\* deleteMany filters on the owner and the ids alone.
Prune(r) ==
    /\ savePc[r] = "prune"
    /\ rows' = {t \in rows : ~(t.user = save[r].user /\ t.id \in save[r].victims)}
    /\ AnswerSave(r, "saved")
    /\ UNCHANGED <<cacheVars, nextId, saved>>

SaveStep(r) ==
    \/ CheckIdempotency(r) \/ Conflict(r) \/ LoadHit(r) \/ LoadLate(r) \/ LoadMiss(r)
    \/ CreateTaken(r) \/ Create(r) \/ Consume(r) \/ Mark(r)
    \/ Count(r) \/ Select(r) \/ Prune(r)

\* A call that fails before or after taking effect is a failure before or after
\* the action of that call.  A failed prune is logged and swallowed.
SaveFails(r) ==
    /\ savePc[r] # "idle"
    /\ AnswerSave(r, IF savePc[r] \in PrunePoints THEN "saved" ELSE "error")
    /\ UNCHANGED <<cacheVars, tableVars>>

SavesLost ==
    /\ savePc' = [r \in Savers |-> "idle"]
    /\ save' = [r \in Savers |->
                  IF savePc[r] = "idle" THEN save[r]
                  ELSE [save[r] EXCEPT !.answer = "lost", !.user = NoPreview, !.key = NoPreview,
                                       !.own = 0, !.excess = 0, !.victims = {}]]

-----------------------------------------------------------------------------
(* The other handlers that write the table: /history/:id/favorite,         *)
(* DELETE /history/:id and DELETE /history.  Each reads the row first, but *)
(* a row never changes hands, so the write alone decides.                  *)

SetFavorite(u, b) ==
    /\ \E t \in RowsOf(u) : /\ t.favorite # b
                           /\ rows' = (rows \ {t}) \cup {[t EXCEPT !.favorite = b]}
    /\ UNCHANGED <<cacheVars, nextId, saved, saveVars>>

DeleteTranslation(u) ==
    /\ \E t \in RowsOf(u) : rows' = rows \ {t}
    /\ UNCHANGED <<cacheVars, nextId, saved, saveVars>>

\* Wrong form: deleteMany without the userId filter.
ClearAll(u) ==
    /\ rows' = {}
    /\ UNCHANGED <<cacheVars, nextId, saved, saveVars>>

ClearHistory(u) ==
    /\ rows' = rows \ RowsOf(u)
    /\ UNCHANGED <<cacheVars, nextId, saved, saveVars>>

HistoryRequests ==
    \E u \in Users :
        \/ \E b \in BOOLEAN : SetFavorite(u, b)
        \/ DeleteTranslation(u)
        \/ ClearHistory(u)

-----------------------------------------------------------------------------
(* The component on its own: of the preview requests it sees their writes  *)
(* to Redis.                                                               *)

SaveRequests ==
    \E r \in Savers :
        \/ SaveStep(r)
        \/ SaveFails(r)
        \/ \E u \in Users, p \in PreviewIds : StartSave(r, u, p)

PreviewedElsewhere ==
    /\ \/ /\ \E p \in PreviewIds, u \in Users, k \in Keys : StoreData(p, u, k)
          /\ UNCHANGED <<pointer, shown>>
       \/ /\ \E v \in issued \ shown : /\ StorePointer(v.pid, v.user, v.key)
                                        /\ Show(v.pid, v.user, v.key)
          /\ UNCHANGED <<data, issued>>
    /\ UNCHANGED <<marker, tableVars, saveVars>>

\* The process dies with its requests; Redis and Postgres keep what they have.
RestartSaves ==
    /\ SavesLost
    /\ UNCHANGED cacheVars \/ Redeploy
    /\ UNCHANGED tableVars

HistoryInit ==
    /\ CacheInit
    /\ rows = {} /\ nextId = 1 /\ saved = {}
    /\ savePc = [r \in Savers |-> "idle"]
    /\ save = [r \in Savers |->
                 [user |-> NoPreview, key |-> NoPreview, pid |-> NoPreview, own |-> 0,
                  excess |-> 0, victims |-> {}, answer |-> "none"]]

HistoryNext ==
    \/ SaveRequests
    \/ HistoryRequests
    \/ PreviewedElsewhere
    \/ RestartSaves
    \/ CacheTime /\ UNCHANGED <<tableVars, saveVars>>

HistorySpec == HistoryInit /\ [][HistoryNext]_historyVars

-----------------------------------------------------------------------------
HistoryTypeOK ==
    /\ CacheTypeOK
    /\ rows \subseteq Row
    /\ nextId \in 1..MaxRowId + 1
    /\ saved \subseteq PreviewIds
    /\ savePc \in [Savers -> SavePoints]
    /\ save \in [Savers -> SaveJob]

\* Seen from outside, preview and save are the ledger: rows appear only as shown
\* previews kept by their owner, at most once, in the order of their ids, and every
\* step of a save, a prune or a history handler touches one user's rows only.
Ledger == INSTANCE TranslationLedger WITH shown <- shown, rows <- rows
ImplementsLedger == Ledger!Spec

\* Whatever ids the callers send, a history row holds a text that was shown to the
\* very user it belongs to, for the request that user made.
RowsWereShown ==
    \A t \in rows : [pid |-> t.pid, user |-> t.user, key |-> t.key] \in shown

\* However many saves of one preview pass the Redis marker check together, the
\* table never holds two rows for it.
OneRowPerPreview == \A s, t \in rows : s.pid = t.pid => s = t

\* A 409 never hides a lost result: the preview it refuses was committed as a
\* row at some earlier moment, also when the answer comes without the row.
ConflictMeansSaved ==
    \A r \in Savers :
        save[r].answer \in {"conflictRow", "conflictBare"} => save[r].pid \in saved

\* Once a save has answered 200 the preview is consumed: its text is out of
\* Redis and no cache key leads to it any more.
SavedMeansConsumed ==
    \A r \in Savers : save[r].answer = "saved" =>
        /\ data[save[r].pid] = NoData
        /\ \A u \in Users, k \in Keys : pointer[u][k] # save[r].pid

\* A pointer to a preview that is still being served is never taken away: a save
\* finishing late does not unpoint the newer preview that replaced its own.
LivePreviewStaysCached ==
    [][\A u \in Users, k \in Keys :
          LET p == pointer[u][k] IN
          p # NoPreview /\ pointer'[u][k] = NoPreview => data'[p].state # "live"]_historyVars

\* Whatever was starred, deleted or saved while a prune was under way, it removes
\* neither the row it makes room for nor a row of somebody else.
PruneSparesOwnRow ==
    [][\A r \in Savers : Prune(r) =>
          \A t \in rows : t.id = save[r].own \/ t.user # save[r].user => t \in rows']_historyVars

\* A prune that picked as many rows as it had counted too many, all older than its own,
\* leaves no more than the cap of those of the user's rows that are no favourites and were
\* there when the save added its own: whatever other saves, stars and deletions ran
\* between the count, the selection and the deletion.
PruneReachesCap ==
    [][\A r \in Savers :
          LET own == save[r].own IN
          /\ Prune(r)
          /\ Cardinality(save[r].victims) = save[r].excess
          /\ \A v \in save[r].victims : v < own
          => Cardinality({t \in rows' : /\ t.user = save[r].user /\ t.id <= own
                                        /\ ~t.favorite}) <= HistoryMax]_historyVars

\* constants/index.ts:60 "Favorites are never pruned": no prune deletes a row
\* that is starred when it does.
FavoritesNeverPruned ==
    [][\A r \in Savers : Prune(r) => \A t \in rows : t.favorite => t \in rows']_historyVars
=============================================================================
