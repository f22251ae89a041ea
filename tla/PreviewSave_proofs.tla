------------------------- MODULE PreviewSave_proofs -------------------------
(***************************************************************************)
(* What holds of the saves for every number of users, previews, requests   *)
(* in flight and history entries; of the preview requests; and of the two  *)
(* together, which implement each of them, so that what is proved of       *)
(* either alone holds of both.                                             *)
(***************************************************************************)
EXTENDS PreviewSave, FiniteSetTheorems, TLAPS

-----------------------------------------------------------------------------
(* SaveHistory.                                                            *)

\* The points of saveFromPreview at which the payload has been read.
HeldPoints == {"create", "evict", "mark"} \cup PrunePoints

\* A request in flight has an owner and a preview id, and a key once it has read
\* the payload.
ArgumentsOK ==
    \A r \in Savers :
        /\ savePc[r] # "idle" => save[r].user \in Users /\ save[r].pid \in PreviewIds
        /\ savePc[r] \in HeldPoints => save[r].key \in Keys

\* HistoryTypeOK made inductive: the insert takes the arguments of the request, and
\* pruneHistory counts rows, which must be finitely many.
TypeInv == HistoryTypeOK /\ ArgumentsOK /\ IsFiniteSet(rows)

LEMMA ExcessType ==
    ASSUME IsFiniteSet(rows), NEW u
    PROVE  Excess(u) \in Int
<1>1. RowsOf(u) \subseteq rows
  BY DEF RowsOf
<1>2. Cardinality(RowsOf(u)) \in Nat
  BY <1>1, FS_Subset, FS_CardinalityType
<1> QED
  BY <1>2, HistoryAssumption DEF Excess

LEMMA StaleRows ==
    ASSUME NEW r
    PROVE  Stale(r) \subseteq RowsOf(save[r].user)
BY DEF Stale, Oldest

LEMMA TypeInit == HistoryInit => TypeInv
<1> SUFFICES ASSUME HistoryInit PROVE TypeInv
  OBVIOUS
<1>1. CacheTypeOK
  BY DEF HistoryInit, CacheInit, CacheTypeOK
<1>2. IsFiniteSet(rows)
  BY FS_EmptySet DEF HistoryInit
<1>3. nextId \in 1..MaxRowId + 1
  BY HistoryAssumption DEF HistoryInit
<1>4. savePc \in [Savers -> SavePoints]
  BY DEF HistoryInit, SavePoints
<1>5. save \in [Savers -> SaveJob]
  BY DEF HistoryInit, SaveJob, SaveAnswers
<1>6. ArgumentsOK
  BY DEF HistoryInit, ArgumentsOK, HeldPoints, PrunePoints
<1> QED
  BY <1>1, <1>2, <1>3, <1>4, <1>5, <1>6 DEF TypeInv, HistoryTypeOK, HistoryInit

\* Every step of the cache, its own or one asked for by a preview request, keeps
\* the types of the cache.
LEMMA StoreTypes ==
    ASSUME CacheTypeOK, NEW p \in PreviewIds, NEW u \in Users, NEW k \in Keys,
           StoreData(p, u, k), UNCHANGED <<pointer, marker, shown>>
    PROVE  CacheTypeOK'
BY DEF CacheTypeOK, StoreData, Payload, Preview

LEMMA PointTypes ==
    ASSUME CacheTypeOK, NEW v \in Preview, StorePointer(v.pid, v.user, v.key),
           Show(v.pid, v.user, v.key), UNCHANGED <<data, marker, issued>>
    PROVE  CacheTypeOK'
BY DEF CacheTypeOK, StorePointer, Show, Preview

LEMMA TimeTypes ==
    ASSUME CacheTypeOK, CacheTime
    PROVE  CacheTypeOK'
<1>1. ASSUME NEW p \in PreviewIds, Lapse(p) PROVE CacheTypeOK'
  BY <1>1 DEF CacheTypeOK, Lapse, Payload, NoData
<1>2. ASSUME NEW p \in PreviewIds, ExpireData(p) PROVE CacheTypeOK'
  BY <1>2 DEF CacheTypeOK, ExpireData
<1>3. ASSUME NEW p \in PreviewIds, ExpireMarker(p) PROVE CacheTypeOK'
  BY <1>3 DEF CacheTypeOK, ExpireMarker
<1>4. ASSUME NEW u \in Users, NEW k \in Keys, ExpirePointer(u, k) PROVE CacheTypeOK'
  BY <1>4 DEF CacheTypeOK, ExpirePointer
<1> QED
  BY <1>1, <1>2, <1>3, <1>4 DEF CacheTime

LEMMA RedeployTypes ==
    ASSUME CacheTypeOK, Redeploy
    PROVE  CacheTypeOK'
<1>1. ASSUME NEW p \in PreviewIds PROVE data'[p] \in Payload \cup {NoData}
  BY <1>1 DEF CacheTypeOK, Redeploy, Payload
<1> QED
  BY <1>1 DEF CacheTypeOK, Redeploy

\* Answering, and moving to another point, keep the types of the requests.
RequestsOK ==
    /\ savePc \in [Savers -> SavePoints]
    /\ save \in [Savers -> SaveJob]
    /\ ArgumentsOK

LEMMA AnswerTypes ==
    ASSUME RequestsOK, NEW r \in Savers, NEW a \in SaveAnswers, AnswerSave(r, a)
    PROVE  RequestsOK'
BY DEF RequestsOK, ArgumentsOK, HeldPoints, PrunePoints, AnswerSave, SaveGoto, SavePoints,
       SaveJob

LEMMA GotoTypes ==
    ASSUME RequestsOK, NEW r \in Savers, savePc[r] # "idle", NEW q \in SavePoints,
           SaveGoto(r, q), UNCHANGED save, savePc[r] \in HeldPoints \/ q \notin HeldPoints
    PROVE  RequestsOK'
BY DEF RequestsOK, ArgumentsOK, SaveGoto, SavePoints, HeldPoints, PrunePoints

LEMMA SaveStepTypes ==
    ASSUME TypeInv, NEW r \in Savers, SaveStep(r)
    PROVE  TypeInv'
<1>r. /\ RequestsOK
      /\ savePc[r] # "idle" => save[r].user \in Users /\ save[r].pid \in PreviewIds
      /\ savePc[r] \in HeldPoints => save[r].key \in Keys
  BY DEF TypeInv, HistoryTypeOK, RequestsOK, ArgumentsOK
<1>t. RequestsOK' /\ CacheTypeOK' /\ UNCHANGED tableVars => TypeInv'
  BY DEF TypeInv, HistoryTypeOK, RequestsOK, tableVars
<1>c. UNCHANGED cacheVars => CacheTypeOK'
  BY DEF TypeInv, HistoryTypeOK, CacheTypeOK, cacheVars
<1>d. CacheTypeOK
  BY DEF TypeInv, HistoryTypeOK
<1> USE DEF SavePoints, PrunePoints, HeldPoints, SaveAnswers
<1>1. CASE CheckIdempotency(r)
  BY <1>1, <1>r, <1>t, <1>c, GotoTypes DEF CheckIdempotency
<1>2. CASE Conflict(r)
  BY <1>2, <1>r, <1>t, <1>c, AnswerTypes DEF Conflict
<1>3. CASE LoadHit(r)
  <2>1. data[save[r].pid].key \in Keys
    BY <1>3, <1>r, <1>d DEF LoadHit, Readable, CacheTypeOK, Payload, NoData
  <2>2. RequestsOK'
    BY <1>3, <1>r, <2>1 DEF LoadHit, RequestsOK, ArgumentsOK, SaveGoto, SaveJob
  <2> QED
    BY <1>3, <2>2, <1>t, <1>c DEF LoadHit
<1>4. CASE LoadLate(r)
  <2>1. CacheTypeOK'
    BY <1>4, <1>r, <1>d DEF LoadLate, Readable, CacheTypeOK, Payload, NoData
  <2> QED
    BY <1>4, <2>1, <1>r, <1>t, AnswerTypes DEF LoadLate
<1>5. CASE LoadMiss(r)
  <2>1. CacheTypeOK'
    BY <1>5, <1>r, <1>d DEF LoadMiss, ReadMiss, CacheTypeOK
  <2> QED
    BY <1>5, <2>1, <1>r, <1>t, AnswerTypes DEF LoadMiss
<1>6. CASE CreateTaken(r)
  BY <1>6, <1>r, <1>t, <1>c, GotoTypes DEF CreateTaken
<1>7. CASE Create(r)
  <2>1. rows' \subseteq Row
    <3> DEFINE new == [id |-> nextId, user |-> save[r].user, pid |-> save[r].pid,
                       key |-> save[r].key, favorite |-> FALSE]
    <3>1. new \in Row
      BY <1>7, <1>r DEF Create, Row
    <3>2. rows' = rows \cup {new}
      BY <1>7 DEF Create
    <3> QED
      BY <3>1, <3>2 DEF TypeInv, HistoryTypeOK
  <2>2. IsFiniteSet(rows')
    BY <1>7, FS_AddElement DEF Create, TypeInv
  <2>3. nextId' \in 1..MaxRowId + 1
    BY <1>7, HistoryAssumption DEF Create, RowIds
  <2>4. saved' \subseteq PreviewIds
    BY <1>7, <1>r DEF Create, TypeInv, HistoryTypeOK
  <2>5. RequestsOK'
    BY <1>7, <1>r DEF Create, RequestsOK, ArgumentsOK, SaveGoto, SaveJob
  <2> QED
    BY <1>7, <1>c, <2>1, <2>2, <2>3, <2>4, <2>5
       DEF Create, TypeInv, HistoryTypeOK, RequestsOK
<1>8. CASE Consume(r)
  <2>1. CacheTypeOK'
    BY <1>8, <1>r, <1>d DEF Consume, Evict, Unpoint, CacheTypeOK
  <2> QED
    BY <1>8, <2>1, <1>r, <1>t, GotoTypes DEF Consume
<1>9. CASE Mark(r)
  <2>1. CacheTypeOK'
    BY <1>9, <1>r, <1>d DEF Mark, SetMarker, CacheTypeOK
  <2> QED
    BY <1>9, <2>1, <1>r, <1>t, GotoTypes DEF Mark
<1>10. CASE Count(r)
  <2>1. Excess(save[r].user) \in Int
    BY ExcessType DEF TypeInv
  <2>2. RequestsOK'
    <3>1. CASE Excess(save[r].user) <= 0
      BY <1>10, <3>1, <2>1, <1>r, AnswerTypes DEF Count
    <3>2. CASE Excess(save[r].user) > 0
      <4>1. Excess(save[r].user) \in Nat
        BY <3>2, <2>1
      <4>2. /\ savePc[r] = "count"
            /\ SaveGoto(r, "select")
            /\ save' = [save EXCEPT ![r].excess = Excess(save[r].user)]
        BY <1>10, <3>2, <2>1 DEF Count
      <4> QED
        BY <4>1, <4>2, <1>r DEF RequestsOK, ArgumentsOK, SaveGoto, SaveJob
    <3> QED
      BY <2>1, <3>1, <3>2
  <2> QED
    BY <1>10, <2>2, <1>t, <1>c DEF Count
<1>11. CASE Select(r)
  <2>1. {t.id : t \in Stale(r)} \subseteq RowIds
    BY StaleRows DEF RowsOf, TypeInv, HistoryTypeOK, Row
  <2>2. RequestsOK'
    <3>1. CASE Stale(r) = {}
      BY <1>11, <3>1, <1>r, AnswerTypes DEF Select
    <3>2. CASE Stale(r) # {}
      BY <1>11, <3>2, <2>1, <1>r DEF Select, RequestsOK, ArgumentsOK, SaveGoto, SaveJob
    <3> QED
      BY <3>1, <3>2
  <2> QED
    BY <1>11, <2>2, <1>t, <1>c DEF Select
<1>12. CASE Prune(r)
  <2>1. rows' \subseteq rows
    BY <1>12 DEF Prune
  <2>2. RequestsOK'
    BY <1>12, <1>r, AnswerTypes DEF Prune
  <2> QED
    BY <1>12, <1>c, <2>1, <2>2, FS_Subset DEF Prune, TypeInv, HistoryTypeOK, RequestsOK
<1> QED
  BY <1>1, <1>2, <1>3, <1>4, <1>5, <1>6, <1>7, <1>8, <1>9, <1>10, <1>11, <1>12 DEF SaveStep

LEMMA TypeStep ==
    ASSUME TypeInv, [HistoryNext]_historyVars
    PROVE  TypeInv'
<1>r. RequestsOK
  BY DEF TypeInv, HistoryTypeOK, RequestsOK
<1>d. CacheTypeOK
  BY DEF TypeInv, HistoryTypeOK
<1>c. RequestsOK' /\ CacheTypeOK' /\ UNCHANGED tableVars => TypeInv'
  BY DEF TypeInv, HistoryTypeOK, RequestsOK, tableVars
<1>s. UNCHANGED saveVars => RequestsOK'
  BY <1>r DEF saveVars, RequestsOK, ArgumentsOK
<1>k. UNCHANGED cacheVars => CacheTypeOK'
  BY <1>d DEF CacheTypeOK, cacheVars
<1>1. ASSUME NEW r \in Savers, SaveStep(r) PROVE TypeInv'
  BY <1>1, SaveStepTypes
<1>2. ASSUME NEW r \in Savers, SaveFails(r) PROVE TypeInv'
  BY <1>2, <1>r, <1>c, <1>k, AnswerTypes DEF SaveFails, SaveAnswers
<1>3. ASSUME NEW r \in Savers, NEW u \in Users, NEW p \in PreviewIds, StartSave(r, u, p)
      PROVE  TypeInv'
  <2>1. RequestsOK'
    BY <1>3, <1>r DEF StartSave, RequestsOK, ArgumentsOK, SaveGoto, SavePoints, SaveJob,
                      SaveAnswers, HeldPoints, PrunePoints
  <2> QED
    BY <1>3, <2>1, <1>c, <1>k DEF StartSave
<1>4. ASSUME NEW u \in Users, NEW b \in BOOLEAN, SetFavorite(u, b) PROVE TypeInv'
  <2>1. PICK t \in RowsOf(u) : rows' = (rows \ {t}) \cup {[t EXCEPT !.favorite = b]}
    BY <1>4 DEF SetFavorite
  <2>2. [t EXCEPT !.favorite = b] \in Row
    BY DEF RowsOf, TypeInv, HistoryTypeOK, Row
  <2>3. IsFiniteSet(rows')
    <3>1. IsFiniteSet(rows \ {t})
      BY FS_Subset DEF TypeInv
    <3> QED
      BY <2>1, <3>1, FS_AddElement
  <2> QED
    BY <1>4, <2>1, <2>2, <2>3, <1>s, <1>k
       DEF SetFavorite, TypeInv, HistoryTypeOK, RequestsOK
<1>5. ASSUME NEW u \in Users, DeleteTranslation(u) \/ ClearHistory(u) PROVE TypeInv'
  <2>1. rows' \subseteq rows
    BY <1>5 DEF DeleteTranslation, ClearHistory
  <2> QED
    BY <1>5, <2>1, <1>s, <1>k, FS_Subset
       DEF DeleteTranslation, ClearHistory, TypeInv, HistoryTypeOK, RequestsOK
<1>6. CASE PreviewedElsewhere
  <2>1. ASSUME NEW p \in PreviewIds, NEW u \in Users, NEW k \in Keys, StoreData(p, u, k),
               UNCHANGED <<pointer, shown, marker>>
        PROVE  CacheTypeOK'
    BY <2>1, <1>d, StoreTypes
  <2>2. ASSUME NEW v \in issued, StorePointer(v.pid, v.user, v.key),
               Show(v.pid, v.user, v.key), UNCHANGED <<data, issued, marker>>
        PROVE  CacheTypeOK'
    BY <2>2, <1>d, PointTypes DEF CacheTypeOK
  <2>3. CacheTypeOK'
    BY <1>6, <2>1, <2>2 DEF PreviewedElsewhere
  <2> QED
    BY <1>6, <2>3, <1>c, <1>s DEF PreviewedElsewhere
<1>7. CASE RestartSaves
  <2>1. CacheTypeOK'
    BY <1>7, <1>d, <1>k, RedeployTypes DEF RestartSaves
  <2>2. RequestsOK'
    <3>1. ASSUME NEW q \in Savers PROVE save'[q] \in SaveJob
      BY <1>7, <1>r DEF RestartSaves, SavesLost, RequestsOK, SaveJob, SaveAnswers
    <3>2. savePc' = [q \in Savers |-> "idle"] /\ save' = [q \in Savers |-> save'[q]]
      BY <1>7 DEF RestartSaves, SavesLost
    <3> QED
      BY <3>1, <3>2 DEF RequestsOK, ArgumentsOK, SavePoints, HeldPoints, PrunePoints
  <2> QED
    BY <1>7, <2>1, <2>2, <1>c DEF RestartSaves
<1>8. CASE CacheTime /\ UNCHANGED <<tableVars, saveVars>>
  BY <1>8, <1>d, <1>c, <1>s, TimeTypes
<1>9. CASE UNCHANGED historyVars
  BY <1>9, <1>c, <1>s, <1>k DEF historyVars
<1> QED
  BY <1>1, <1>2, <1>3, <1>4, <1>5, <1>6, <1>7, <1>8, <1>9
     DEF HistoryNext, SaveRequests, HistoryRequests

\* Every row, payload, pointer and request in flight stays well formed, whatever
\* the number of users, previews, requests and rows.
\* The services keep every variable in its type: no request ever runs without its
\* user, its preview id or, once the payload is read, its key.
THEOREM HistoryTypeCorrect == HistorySpec => []HistoryTypeOK
<1>1. HistoryInit => TypeInv
  BY TypeInit
<1>2. TypeInv /\ [HistoryNext]_historyVars => TypeInv'
  BY TypeStep
<1>3. TypeInv => HistoryTypeOK
  BY DEF TypeInv
<1> QED
  BY <1>1, <1>2, <1>3, PTL DEF HistorySpec

-----------------------------------------------------------------------------
(***************************************************************************)
(* The inductive invariant.  An id belongs to one preview for ever, so that*)
(* whoever reads a payload, a pointer or a row under it meets the user and *)
(* the key it was generated for; and a request that has read the payload   *)
(* still knows them after the payload is gone.                             *)
(***************************************************************************)
CacheInv ==
    /\ shown \subseteq issued
    /\ \A v, w \in issued : v.pid = w.pid => v = w
    /\ \A p \in PreviewIds : data[p] # NoData =>
          [pid |-> p, user |-> data[p].user, key |-> data[p].key] \in issued
    /\ \A u \in Users, k \in Keys : pointer[u][k] # NoPreview =>
          [pid |-> pointer[u][k], user |-> u, key |-> k] \in issued

TableInv ==
    /\ RowsWereShown
    /\ OneRowPerPreview
    /\ \A t \in rows : t.id < nextId /\ t.pid \in saved
    /\ \A s, t \in rows : s.id = t.id => s = t
    /\ marker \subseteq saved

Shown(p) == \E v \in shown : v.pid = p
Consumed(p) == data[p] = NoData /\ \A u \in Users, k \in Keys : pointer[u][k] # p

\* The points after the insert, and the point that answers its failure; and those
\* after the Lua script.
CommittedPoints == {"conflict", "evict", "mark"} \cup PrunePoints
ConsumedPoints == {"mark"} \cup PrunePoints

RequestInv(r) ==
    /\ savePc[r] # "idle" \/ save[r].answer = "saved" => Shown(save[r].pid)
    /\ savePc[r] \in HeldPoints =>
          [pid |-> save[r].pid, user |-> save[r].user, key |-> save[r].key] \in shown
    /\ savePc[r] \in CommittedPoints \/ save[r].answer \in {"conflictRow", "conflictBare"} =>
          save[r].pid \in saved
    /\ savePc[r] \in ConsumedPoints \/ save[r].answer = "saved" => Consumed(save[r].pid)
    /\ savePc[r] = "prune" => save[r].own \notin save[r].victims

HistoryInv == TypeInv /\ CacheInv /\ TableInv /\ \A r \in Savers : RequestInv(r)

LEMMA InvInit == HistoryInit => HistoryInv
<1> SUFFICES ASSUME HistoryInit PROVE HistoryInv
  OBVIOUS
<1>1. CacheInv
  BY DEF HistoryInit, CacheInit, CacheInv
<1>2. TableInv
  BY DEF HistoryInit, CacheInit, TableInv, RowsWereShown, OneRowPerPreview
<1>3. ASSUME NEW r \in Savers PROVE RequestInv(r)
  BY DEF HistoryInit, RequestInv, HeldPoints, CommittedPoints, ConsumedPoints, PrunePoints
<1> QED
  BY <1>1, <1>2, <1>3, TypeInit DEF HistoryInv

(***************************************************************************)
(* What a step may do to the cache: store a payload under a new id, point  *)
(* at a preview and show it, or forget and age what is there.              *)
(***************************************************************************)
Stores ==
    /\ \E p \in PreviewIds, u \in Users, k \in Keys : StoreData(p, u, k)
    /\ UNCHANGED <<pointer, shown>>

Points ==
    /\ \E v \in issued \ shown : StorePointer(v.pid, v.user, v.key) /\ Show(v.pid, v.user, v.key)
    /\ UNCHANGED <<data, issued>>

Ages(p) ==
    \/ data'[p] = NoData
    \/ data[p] # NoData /\ data'[p].user = data[p].user /\ data'[p].key = data[p].key

Forgets ==
    /\ \A p \in PreviewIds : Ages(p)
    /\ \A u \in Users, k \in Keys : pointer'[u][k] \in {pointer[u][k], NoPreview}
    /\ UNCHANGED <<issued, shown>>

LEMMA UnchangedForgets == UNCHANGED <<data, pointer, issued, shown>> => Forgets
BY DEF Forgets, Ages

LEMMA TimeForgets ==
    ASSUME CacheTypeOK, CacheTime \/ Redeploy
    PROVE  Forgets
<1>1. ASSUME NEW p \in PreviewIds, Lapse(p) PROVE Forgets
  BY <1>1 DEF Lapse, Forgets, Ages, CacheTypeOK, Payload, NoData
<1>2. ASSUME NEW p \in PreviewIds, ExpireData(p) PROVE Forgets
  BY <1>2 DEF ExpireData, Forgets, Ages, CacheTypeOK
<1>3. ASSUME NEW p \in PreviewIds, ExpireMarker(p) PROVE Forgets
  BY <1>3, UnchangedForgets DEF ExpireMarker
<1>4. ASSUME NEW u \in Users, NEW k \in Keys, ExpirePointer(u, k) PROVE Forgets
  BY <1>4 DEF ExpirePointer, Forgets, Ages, CacheTypeOK
<1>5. CASE Redeploy
  <2>1. ASSUME NEW p \in PreviewIds PROVE Ages(p)
    BY <1>5 DEF Redeploy, Ages, CacheTypeOK, Payload
  <2> QED
    BY <1>5, <2>1 DEF Redeploy, Forgets
<1> QED
  BY <1>1, <1>2, <1>3, <1>4, <1>5 DEF CacheTime

LEMMA SaveStepForgets ==
    ASSUME TypeInv, NEW r \in Savers, SaveStep(r)
    PROVE  Forgets
<1>d. CacheTypeOK /\ (savePc[r] # "idle" => save[r].pid \in PreviewIds)
  BY DEF TypeInv, HistoryTypeOK, ArgumentsOK
<1>1. CASE LoadLate(r)
  BY <1>1, <1>d DEF LoadLate, Readable, Forgets, Ages, CacheTypeOK, Payload, NoData
<1>2. CASE LoadMiss(r)
  BY <1>2, <1>d DEF LoadMiss, ReadMiss, Forgets, Ages, CacheTypeOK
<1>3. CASE Consume(r)
  BY <1>3, <1>d DEF Consume, Evict, Unpoint, Forgets, Ages, CacheTypeOK
<1>4. CASE Mark(r)
  BY <1>4, UnchangedForgets DEF Mark
<1> QED
  BY <1>1, <1>2, <1>3, <1>4, UnchangedForgets
     DEF SaveStep, CheckIdempotency, Conflict, LoadHit, CreateTaken, Create, Count, Select,
         Prune, cacheVars

LEMMA CacheEffect ==
    ASSUME TypeInv, [HistoryNext]_historyVars
    PROVE  Stores \/ Points \/ Forgets
<1>d. CacheTypeOK
  BY DEF TypeInv, HistoryTypeOK
<1>1. ASSUME NEW r \in Savers, SaveStep(r) PROVE Forgets
  BY <1>1, SaveStepForgets
<1>2. CASE PreviewedElsewhere
  BY <1>2 DEF PreviewedElsewhere, Stores, Points
<1>3. CASE RestartSaves
  BY <1>3, <1>d, TimeForgets, UnchangedForgets DEF RestartSaves, cacheVars
<1>4. CASE CacheTime
  BY <1>4, <1>d, TimeForgets
<1> QED
  BY <1>1, <1>2, <1>3, <1>4, UnchangedForgets
     DEF HistoryNext, SaveRequests, SaveFails, StartSave, HistoryRequests, SetFavorite,
         DeleteTranslation, ClearHistory, historyVars, cacheVars

LEMMA CacheInvStep ==
    ASSUME TypeInv, CacheInv, [HistoryNext]_historyVars
    PROVE  CacheInv'
<1>d. CacheTypeOK /\ CacheTypeOK'
  BY TypeStep DEF TypeInv, HistoryTypeOK
<1>1. CASE Stores
  BY <1>1, <1>d DEF Stores, StoreData, CacheInv, CacheTypeOK
<1>2. CASE Points
  BY <1>2, <1>d DEF Points, StorePointer, Show, CacheInv, CacheTypeOK, Preview
<1>3. CASE Forgets
  BY <1>3 DEF Forgets, Ages, CacheInv
<1> QED
  BY <1>1, <1>2, <1>3, CacheEffect

LEMMA ConsumedStays ==
    ASSUME TypeInv, CacheInv, [HistoryNext]_historyVars, NEW p, Shown(p), Consumed(p)
    PROVE  Consumed(p)'
<1>d. CacheTypeOK /\ p \in PreviewIds
  BY DEF TypeInv, HistoryTypeOK, CacheTypeOK, Shown, Preview
<1>1. CASE Stores
  BY <1>1, <1>d DEF Stores, StoreData, CacheInv, Shown, Consumed, CacheTypeOK
<1>2. CASE Points
  BY <1>2, <1>d DEF Points, StorePointer, CacheInv, Shown, Consumed, CacheTypeOK, Preview
<1>3. CASE Forgets
  BY <1>3, <1>d, CacheAssumption DEF Forgets, Ages, Consumed
<1> QED
  BY <1>1, <1>2, <1>3, CacheEffect

-----------------------------------------------------------------------------
(* The requests.  Nothing known about a request is lost by a step of       *)
(* somebody else: previews stay shown, ids stay saved and consumed.        *)

LEMMA HistoriesGrow ==
    ASSUME [HistoryNext]_historyVars
    PROVE  shown \subseteq shown' /\ saved \subseteq saved'
BY DEF HistoryNext, SaveRequests, SaveStep, CheckIdempotency, Conflict, LoadHit, LoadLate,
       LoadMiss, CreateTaken, Create, Consume, Mark, Count, Select, Prune, SaveFails,
       StartSave, HistoryRequests, SetFavorite, DeleteTranslation, ClearHistory,
       PreviewedElsewhere, Show, RestartSaves, Redeploy, CacheTime, Lapse, ExpireData,
       ExpireMarker, ExpirePointer, historyVars, cacheVars, tableVars, saveVars

LEMMA RequestStays ==
    ASSUME TypeInv, CacheInv, [HistoryNext]_historyVars, NEW r \in Savers, RequestInv(r),
           savePc'[r] = savePc[r], save'[r] = save[r]
    PROVE  RequestInv(r)'
<1>1. Shown(save[r].pid) => Shown(save[r].pid)'
  BY HistoriesGrow DEF Shown
<1>2. Shown(save[r].pid) /\ Consumed(save[r].pid) => Consumed(save[r].pid)'
  BY ConsumedStays
<1>3. Shown(save[r].pid)' <=> \E v \in shown' : v.pid = save[r].pid
  BY DEF Shown
<1>4. Consumed(save[r].pid)' <=> data'[save[r].pid] = NoData
                                   /\ \A u \in Users, k \in Keys : pointer'[u][k] # save[r].pid
  BY DEF Consumed
<1> QED
  BY <1>1, <1>2, HistoriesGrow DEF RequestInv, Shown, Consumed, ConsumedPoints, PrunePoints

\* A request that answers keeps what its answer asserts.
LEMMA AnswerInv ==
    ASSUME TypeInv, CacheInv, [HistoryNext]_historyVars, NEW r \in Savers, RequestInv(r),
           savePc[r] # "idle", NEW a \in SaveAnswers, AnswerSave(r, a),
           a \in {"conflictRow", "conflictBare"} => save[r].pid \in saved,
           a = "saved" => Consumed(save[r].pid)
    PROVE  RequestInv(r)'
<1>p. PICK p : p = save[r].pid
  OBVIOUS
<1>1. savePc'[r] = "idle" /\ save'[r].pid = p /\ save'[r].answer = a
  BY <1>p DEF AnswerSave, SaveGoto, TypeInv, HistoryTypeOK, SaveJob
<1>2. Shown(p) /\ Shown(p)'
  BY <1>p, HistoriesGrow DEF RequestInv, Shown
<1>3. a = "saved" => Consumed(p)'
  BY <1>p, <1>2, ConsumedStays
<1> QED
  BY <1>p, <1>1, <1>2, <1>3, HistoriesGrow
     DEF RequestInv, Shown, Consumed, HeldPoints, CommittedPoints, ConsumedPoints, PrunePoints

LEMMA RequestStep ==
    ASSUME TypeInv, CacheInv, TableInv, NEW r \in Savers, RequestInv(r), SaveStep(r)
    PROVE  RequestInv(r)'
<1>n. [HistoryNext]_historyVars
  BY DEF HistoryNext, SaveRequests
<1>t. /\ savePc \in [Savers -> SavePoints] /\ save \in [Savers -> SaveJob] /\ CacheTypeOK
      /\ savePc[r] # "idle" => save[r].pid \in PreviewIds /\ save[r].user \in Users
      /\ savePc[r] \in HeldPoints => save[r].key \in Keys
  BY DEF TypeInv, HistoryTypeOK, ArgumentsOK
<1>g. shown \subseteq shown' /\ saved \subseteq saved'
  BY <1>n, HistoriesGrow
<1>p. PICK p : p = save[r].pid
  OBVIOUS
<1>k. Shown(p) /\ Consumed(p) => Consumed(p)'
  BY <1>n, ConsumedStays
<1> USE DEF HeldPoints, CommittedPoints, ConsumedPoints, PrunePoints, SaveAnswers
<1>1. CASE CheckIdempotency(r)
  BY <1>1, <1>t, <1>g, <1>p, <1>k
     DEF CheckIdempotency, SaveGoto, RequestInv, TableInv, Shown, Consumed, cacheVars
<1>2. CASE Conflict(r)
  BY <1>2, <1>n, AnswerInv DEF Conflict, RequestInv
<1>3. CASE LoadHit(r)
  <2>1. [pid |-> save[r].pid, user |-> save[r].user, key |-> data[save[r].pid].key] \in shown
    BY <1>3, <1>t DEF LoadHit, Readable, RequestInv, CacheInv, CacheTypeOK, Shown, NoData, Preview
  <2> QED
    BY <1>3, <2>1, <1>t, <1>g, <1>p, <1>k
       DEF LoadHit, SaveGoto, RequestInv, SaveJob, Shown, Consumed, cacheVars, tableVars
<1>4. CASE LoadLate(r)
  BY <1>4, <1>n, AnswerInv DEF LoadLate
<1>5. CASE LoadMiss(r)
  BY <1>5, <1>n, AnswerInv DEF LoadMiss
<1>6. CASE CreateTaken(r)
  <2>1. save[r].pid \in saved
    BY <1>6 DEF CreateTaken, Taken, RowsFor, TableInv
  <2> QED
    BY <1>6, <2>1, <1>t, <1>g, <1>p, <1>k
       DEF CreateTaken, SaveGoto, RequestInv, Shown, Consumed, cacheVars
<1>7. CASE Create(r)
  BY <1>7, <1>t, <1>g, <1>p, <1>k DEF Create, SaveGoto, RequestInv, SaveJob, Shown, Consumed, cacheVars
<1>8. CASE Consume(r)
  <2>1. Consumed(p)'
    <3>1. ASSUME NEW u \in Users, NEW k \in Keys, pointer[u][k] = p
          PROVE  u = save[r].user /\ k = save[r].key
      <4>1. p # NoPreview
        BY <1>8, <1>t, <1>p, CacheAssumption DEF Consume
      <4>2. [pid |-> p, user |-> u, key |-> k] \in issued
        BY <3>1, <4>1 DEF CacheInv
      <4>3. [pid |-> p, user |-> save[r].user, key |-> save[r].key] \in issued
        BY <1>8, <1>p DEF Consume, RequestInv, CacheInv
      <4>4. [pid |-> p, user |-> u, key |-> k]
              = [pid |-> p, user |-> save[r].user, key |-> save[r].key]
        BY <4>2, <4>3 DEF CacheInv
      <4> QED
        BY <4>4
    <3> QED
      BY <1>8, <1>t, <1>p, <3>1, CacheAssumption
         DEF Consume, Evict, Unpoint, Consumed, CacheTypeOK
  <2> QED
    BY <1>8, <2>1, <1>t, <1>g, <1>p DEF Consume, SaveGoto, RequestInv, Shown, Consumed
<1>9. CASE Mark(r)
  BY <1>9, <1>t, <1>g, <1>p, <1>k DEF Mark, SaveGoto, RequestInv, Shown, Consumed
<1>10. CASE Count(r)
  <2>1. CASE AnswerSave(r, "saved")
    BY <1>10, <2>1, <1>n, AnswerInv DEF Count, RequestInv
  <2>2. CASE SaveGoto(r, "select") /\ save' = [save EXCEPT ![r].excess = Excess(save[r].user)]
    BY <1>10, <2>2, <1>t, <1>g, <1>p, <1>k DEF Count, SaveGoto, RequestInv, SaveJob, Shown, Consumed
  <2> QED
    BY <1>10, <2>1, <2>2 DEF Count
<1>11. CASE Select(r)
  <2>1. CASE AnswerSave(r, "saved")
    BY <1>11, <2>1, <1>n, AnswerInv DEF Select, RequestInv
  <2>2. CASE SaveGoto(r, "prune") /\ save' = [save EXCEPT ![r].victims = {t.id : t \in Stale(r)}]
    <3>1. save[r].own \notin {t.id : t \in Stale(r)}
      BY DEF Stale, Oldest
    <3> QED
      BY <1>11, <2>2, <3>1, <1>t, <1>g, <1>p, <1>k DEF Select, SaveGoto, RequestInv, SaveJob, Shown, Consumed
  <2> QED
    BY <1>11, <2>1, <2>2 DEF Select
<1>12. CASE Prune(r)
  BY <1>12, <1>n, AnswerInv DEF Prune, RequestInv
<1> QED
  BY <1>1, <1>2, <1>3, <1>4, <1>5, <1>6, <1>7, <1>8, <1>9, <1>10, <1>11, <1>12 DEF SaveStep

-----------------------------------------------------------------------------
(* The table.                                                              *)

LEMMA FewerRows ==
    ASSUME TableInv, rows' \subseteq rows, UNCHANGED <<nextId, saved>>, shown \subseteq shown',
           marker' \subseteq saved
    PROVE  TableInv'
BY DEF TableInv, RowsWereShown, OneRowPerPreview

LEMMA CreateTable ==
    ASSUME TypeInv, TableInv, NEW r \in Savers, RequestInv(r), Create(r)
    PROVE  TableInv'
<1> DEFINE new == [id |-> nextId, user |-> save[r].user, pid |-> save[r].pid,
                   key |-> save[r].key, favorite |-> FALSE]
<1>1. rows' = rows \cup {new} /\ nextId' = nextId + 1 /\ saved' = saved \cup {save[r].pid}
      /\ UNCHANGED <<shown, marker>>
  BY DEF Create, cacheVars
<1>2. \A t \in rows : t.id < nextId /\ t.pid # new.pid /\ t.id \in Int
  BY DEF Create, Taken, RowsFor, TableInv, TypeInv, HistoryTypeOK, Row, RowIds
<1>3. [pid |-> new.pid, user |-> new.user, key |-> new.key] \in shown
  BY DEF Create, RequestInv, HeldPoints
<1>4. nextId \in Int
  BY DEF TypeInv, HistoryTypeOK
<1>5. RowsWereShown'
  BY <1>1, <1>3 DEF TableInv, RowsWereShown
<1>6. OneRowPerPreview'
  BY <1>1, <1>2 DEF TableInv, OneRowPerPreview
<1>7. \A t \in rows' : t.id < nextId' /\ t.pid \in saved'
  BY <1>1, <1>2, <1>4 DEF TableInv
<1>8. ASSUME NEW s \in rows', NEW t \in rows', s.id = t.id PROVE s = t
  <2>1. (s \in rows \/ s = new) /\ (t \in rows \/ t = new) /\ new.id = nextId
    BY <1>1
  <2>2. \A q \in rows : q.id # nextId
    BY <1>2, <1>4
  <2>3. CASE s \in rows /\ t \in rows
    BY <2>3, <1>8 DEF TableInv
  <2> QED
    BY <2>1, <2>2, <2>3, <1>8
<1> QED
  BY <1>1, <1>5, <1>6, <1>7, <1>8 DEF TableInv

LEMMA FavoriteTable ==
    ASSUME TypeInv, TableInv, NEW u \in Users, NEW b \in BOOLEAN, SetFavorite(u, b)
    PROVE  TableInv'
<1>1. PICK t \in rows : rows' = (rows \ {t}) \cup {[t EXCEPT !.favorite = b]}
  BY DEF SetFavorite, RowsOf
<1> DEFINE new == [t EXCEPT !.favorite = b]
<1>2. new.id = t.id /\ new.user = t.user /\ new.pid = t.pid /\ new.key = t.key
  BY DEF TypeInv, HistoryTypeOK, Row
<1>3. UNCHANGED <<nextId, saved, shown, marker>>
  BY DEF SetFavorite, cacheVars
<1>4. RowsWereShown'
  BY <1>1, <1>2, <1>3 DEF TableInv, RowsWereShown
<1>r. \A s \in rows' : s = new \/ (s \in rows /\ s # t)
  BY <1>1
<1>u. \A s, q \in rows : s.pid = q.pid \/ s.id = q.id => s = q
  BY DEF TableInv, OneRowPerPreview
<1>5. ASSUME NEW s \in rows', NEW q \in rows', s.pid = q.pid \/ s.id = q.id
      PROVE  s = q
  <2>1. CASE s = new /\ q = new
    BY <2>1
  <2>2. CASE s = new /\ q \in rows /\ q # t
    BY <2>2, <1>2, <1>5, <1>u
  <2>3. CASE q = new /\ s \in rows /\ s # t
    BY <2>3, <1>2, <1>5, <1>u
  <2>4. CASE s \in rows /\ q \in rows
    BY <2>4, <1>5, <1>u
  <2> QED
    BY <1>r, <2>1, <2>2, <2>3, <2>4
<1>6. \A s \in rows' : s.id < nextId /\ s.pid \in saved
  BY <1>1, <1>2 DEF TableInv
<1>7. OneRowPerPreview'
  BY <1>5 DEF OneRowPerPreview
<1> QED
  BY <1>3, <1>4, <1>5, <1>6, <1>7 DEF TableInv

LEMMA TableStep ==
    ASSUME HistoryInv, [HistoryNext]_historyVars
    PROVE  TableInv'
<1>g. shown \subseteq shown'
  BY HistoriesGrow
<1>i. TypeInv /\ TableInv /\ marker \subseteq saved
  BY DEF HistoryInv, TableInv
<1>1. ASSUME UNCHANGED <<rows, nextId, saved>>, marker' \subseteq marker PROVE TableInv'
  BY <1>1, <1>g, <1>i, FewerRows
<1>2. ASSUME NEW r \in Savers, SaveStep(r) PROVE TableInv'
  <2>r. RequestInv(r)
    BY DEF HistoryInv
  <2>1. CASE Create(r)
    BY <2>1, <2>r, <1>i, CreateTable
  <2>2. CASE Mark(r)
    <3>1. save[r].pid \in saved
      BY <2>2, <2>r DEF Mark, RequestInv, CommittedPoints
    <3> QED
      BY <2>2, <3>1, <1>g, <1>i, FewerRows DEF Mark, SetMarker, tableVars
  <2>3. CASE Prune(r)
    BY <2>3, <1>g, <1>i, FewerRows DEF Prune, cacheVars
  <2> QED
    BY <1>1, <1>2, <2>1, <2>2, <2>3
       DEF SaveStep, CheckIdempotency, Conflict, LoadHit, LoadLate, LoadMiss, CreateTaken,
           Consume, Count, Select, cacheVars, tableVars
<1>3. ASSUME NEW u \in Users, NEW b \in BOOLEAN, SetFavorite(u, b) PROVE TableInv'
  BY <1>3, <1>i, FavoriteTable
<1>4. ASSUME NEW u \in Users, DeleteTranslation(u) \/ ClearHistory(u) PROVE TableInv'
  BY <1>4, <1>g, <1>i, FewerRows DEF DeleteTranslation, ClearHistory, cacheVars
<1>5. CASE PreviewedElsewhere
  BY <1>5, <1>1 DEF PreviewedElsewhere, tableVars
<1>6. CASE RestartSaves
  BY <1>6, <1>1 DEF RestartSaves, Redeploy, cacheVars, tableVars
<1>7. CASE CacheTime /\ UNCHANGED <<tableVars, saveVars>>
  BY <1>7, <1>1
     DEF CacheTime, Lapse, ExpireData, ExpireMarker, ExpirePointer, tableVars
<1>8. ASSUME NEW r \in Savers, NEW u \in Users, NEW p \in PreviewIds, StartSave(r, u, p)
      PROVE  TableInv'
  BY <1>8, <1>1 DEF StartSave, cacheVars, tableVars
<1>f. ASSUME NEW r \in Savers, SaveFails(r) PROVE TableInv'
  BY <1>f, <1>1 DEF SaveFails, cacheVars, tableVars
<1>9. CASE UNCHANGED historyVars
  BY <1>9, <1>1 DEF historyVars, cacheVars, tableVars
<1> QED
  BY <1>2, <1>3, <1>4, <1>5, <1>6, <1>7, <1>8, <1>f, <1>9
     DEF HistoryNext, SaveRequests, HistoryRequests

-----------------------------------------------------------------------------
LEMMA InvStep ==
    ASSUME HistoryInv, [HistoryNext]_historyVars
    PROVE  HistoryInv'
<1>i. TypeInv /\ CacheInv /\ TableInv /\ \A r \in Savers : RequestInv(r)
  BY DEF HistoryInv
<1>t. savePc \in [Savers -> SavePoints] /\ save \in [Savers -> SaveJob]
  BY <1>i DEF TypeInv, HistoryTypeOK
<1>0. TypeInv' /\ CacheInv' /\ TableInv'
  BY <1>i, TypeStep, CacheInvStep, TableStep
<1>1. ASSUME NEW q \in Savers, savePc'[q] = savePc[q], save'[q] = save[q]
      PROVE  RequestInv(q)'
  BY <1>1, <1>i, RequestStays
<1>2. ASSUME NEW r \in Savers, NEW q \in Savers, SaveStep(r) PROVE RequestInv(q)'
  <2>1. CASE q = r
    BY <1>2, <2>1, <1>i, RequestStep
  <2>2. CASE q # r
    <3>1. savePc'[q] = savePc[q] /\ save'[q] = save[q]
      BY <1>2, <2>2, <1>t
         DEF SaveStep, CheckIdempotency, Conflict, LoadHit, LoadLate, LoadMiss, CreateTaken,
             Create, Consume, Mark, Count, Select, Prune, AnswerSave, SaveGoto
    <3> QED
      BY <3>1, <1>1
  <2> QED
    BY <2>1, <2>2
<1>3. ASSUME NEW r \in Savers, NEW q \in Savers, SaveFails(r) PROVE RequestInv(q)'
  <2>1. CASE q = r
    <3>1. savePc[r] \in PrunePoints => Consumed(save[r].pid)
      BY <1>i DEF RequestInv, ConsumedPoints
    <3>2. CASE savePc[r] \in PrunePoints
      BY <1>3, <2>1, <3>1, <3>2, <1>i, AnswerInv DEF SaveFails, SaveAnswers
    <3>3. CASE savePc[r] \notin PrunePoints
      BY <1>3, <2>1, <3>3, <1>i, AnswerInv DEF SaveFails, SaveAnswers
    <3> QED
      BY <3>2, <3>3
  <2>2. CASE q # r
    BY <1>3, <2>2, <1>t, <1>1 DEF SaveFails, AnswerSave, SaveGoto
  <2> QED
    BY <2>1, <2>2
<1>4. ASSUME NEW r \in Savers, NEW u \in Users, NEW p \in PreviewIds, StartSave(r, u, p),
             NEW q \in Savers
      PROVE  RequestInv(q)'
  <2>1. CASE q = r
    BY <1>4, <2>1, <1>t
       DEF StartSave, SaveGoto, RequestInv, Shown, HeldPoints, CommittedPoints,
           ConsumedPoints, PrunePoints, cacheVars, tableVars
  <2>2. CASE q # r
    BY <1>4, <2>2, <1>t, <1>1 DEF StartSave, SaveGoto
  <2> QED
    BY <2>1, <2>2
<1>5. ASSUME RestartSaves, NEW q \in Savers PROVE RequestInv(q)'
  <2>1. CASE savePc[q] = "idle"
    BY <1>5, <2>1, <1>1 DEF RestartSaves, SavesLost
  <2>2. CASE savePc[q] # "idle"
    BY <1>5, <2>2, <1>t
       DEF RestartSaves, SavesLost, RequestInv, SaveJob, HeldPoints, CommittedPoints,
           ConsumedPoints, PrunePoints
  <2> QED
    BY <2>1, <2>2
<1>6. ASSUME UNCHANGED saveVars, NEW q \in Savers PROVE RequestInv(q)'
  BY <1>6, <1>1 DEF saveVars
<1>7. \A q \in Savers : RequestInv(q)'
  BY <1>2, <1>3, <1>4, <1>5, <1>6
     DEF HistoryNext, SaveRequests, HistoryRequests, SetFavorite, DeleteTranslation,
         ClearHistory, PreviewedElsewhere, historyVars
<1> QED
  BY <1>0, <1>7 DEF HistoryInv

\* The inductive invariant holds in every state; what follows are its consequences.
THEOREM HistoryInvariant == HistorySpec => []HistoryInv
<1>1. HistoryInit => HistoryInv
  BY InvInit
<1>2. HistoryInv /\ [HistoryNext]_historyVars => HistoryInv'
  BY InvStep
<1> QED
  BY <1>1, <1>2, PTL DEF HistorySpec

\* No history row ever holds a text that was not shown to its owner.
THEOREM EveryRowWasShown == HistorySpec => []RowsWereShown
<1>1. HistoryInv => RowsWereShown
  BY DEF HistoryInv, TableInv
<1> QED
  BY <1>1, HistoryInvariant, PTL

\* A preview has at most one row, however many saves of it race.
THEOREM SavedAtMostOnce == HistorySpec => []OneRowPerPreview
<1>1. HistoryInv => OneRowPerPreview
  BY DEF HistoryInv, TableInv
<1> QED
  BY <1>1, HistoryInvariant, PTL

\* A 409 is answered only for a preview that was committed.
THEOREM ConflictIsNoLoss == HistorySpec => []ConflictMeansSaved
<1>1. HistoryInv => ConflictMeansSaved
  BY DEF HistoryInv, RequestInv, ConflictMeansSaved
<1> QED
  BY <1>1, HistoryInvariant, PTL

\* A 200 is answered only once the preview has left the cache.
THEOREM SavedIsConsumed == HistorySpec => []SavedMeansConsumed
<1>1. HistoryInv => SavedMeansConsumed
  BY DEF HistoryInv, RequestInv, SavedMeansConsumed, Consumed
<1> QED
  BY <1>1, HistoryInvariant, PTL

\* A prune removes neither the row of its own save nor a row of another user.
THEOREM PruneIsSelective == HistorySpec => PruneSparesOwnRow
<1> DEFINE Spares == \A r \in Savers : Prune(r) =>
                        \A t \in rows : t.id = save[r].own \/ t.user # save[r].user => t \in rows'
<1>1. HistoryInv /\ [HistoryNext]_historyVars => [Spares]_historyVars
  <2> SUFFICES ASSUME HistoryInv, NEW r \in Savers, Prune(r), NEW t \in rows,
                      t.id = save[r].own \/ t.user # save[r].user
               PROVE  t \in rows'
    OBVIOUS
  <2>1. save[r].own \notin save[r].victims
    BY DEF Prune, HistoryInv, RequestInv
  <2> QED
    BY <2>1 DEF Prune
<1> QED
  BY <1>1, HistoryInvariant, PTL DEF HistorySpec, PruneSparesOwnRow

\* A preview that is still served never loses its pointer.
THEOREM LivePreviewKeepsPointer == HistorySpec => LivePreviewStaysCached
<1> DEFINE Stays == \A u \in Users, k \in Keys :
                       LET p == pointer[u][k] IN
                       p # NoPreview /\ pointer'[u][k] = NoPreview => data'[p].state # "live"
<1>1. ASSUME TypeInv, [HistoryNext]_historyVars, NEW u \in Users, NEW k \in Keys,
             pointer[u][k] # NoPreview, pointer'[u][k] = NoPreview
      PROVE  data'[pointer[u][k]].state # "live"
  <2>1. CacheTypeOK /\ pointer[u][k] \in PreviewIds /\ pointer' # pointer
    BY <1>1 DEF TypeInv, HistoryTypeOK, CacheTypeOK
  <2>2. ASSUME NEW r \in Savers, Consume(r) PROVE data'[pointer[u][k]].state # "live"
    <3>1. pointer[u][k] = save[r].pid
      BY <2>1, <2>2, <1>1 DEF Consume, Evict, Unpoint, CacheTypeOK
    <3>2. data'[pointer[u][k]] = NoData
      BY <2>1, <2>2, <3>1 DEF Consume, Evict, CacheTypeOK
    <3> QED
      BY <3>2 DEF NoData
  <2>3. ASSUME NEW v \in Users, NEW l \in Keys, ExpirePointer(v, l)
        PROVE  data'[pointer[u][k]].state # "live"
    BY <2>1, <2>3, <1>1 DEF ExpirePointer, CacheTypeOK
  <2>4. ASSUME PreviewedElsewhere PROVE FALSE
    <3>1. PICK w \in issued : StorePointer(w.pid, w.user, w.key)
      BY <2>1, <2>4 DEF PreviewedElsewhere
    <3>2. w.pid \in PreviewIds /\ w.user \in Users /\ w.key \in Keys
      BY <2>1 DEF CacheTypeOK, Preview
    <3>3. w.pid # NoPreview
      BY <3>2, CacheAssumption
    <3>4. pointer'[u][k] \in {pointer[u][k], w.pid}
      BY <2>1, <3>1, <3>2 DEF StorePointer, CacheTypeOK
    <3> QED
      BY <3>3, <3>4, <1>1
  <2> QED
    BY <1>1, <2>1, <2>2, <2>3, <2>4
       DEF HistoryNext, SaveRequests, SaveStep, CheckIdempotency, Conflict, LoadHit, LoadLate,
           LoadMiss, CreateTaken, Create, Mark, Count, Select, Prune, SaveFails, StartSave,
           HistoryRequests, SetFavorite, DeleteTranslation, ClearHistory, RestartSaves,
           Redeploy, CacheTime, Lapse, ExpireData, ExpireMarker, historyVars, cacheVars
<1>2. HistoryInv /\ [HistoryNext]_historyVars => [Stays]_historyVars
  BY <1>1 DEF HistoryInv
<1> QED
  BY <1>2, HistoryInvariant, PTL DEF HistorySpec, LivePreviewStaysCached

-----------------------------------------------------------------------------
(***************************************************************************)
(* The cap.  What a prune counted stays an upper bound of the rows that    *)
(* are no newer than its own: stars keep their ids, inserts add newer      *)
(* ones, everything else takes some away.                                  *)
(***************************************************************************)
IdsOf(u) == {t.id : t \in RowsOf(u)}

\* The rows of the save's user that are no newer than the row it created.
OldIds(r) == {i \in IdsOf(save[r].user) : i <= save[r].own}

CapInv(r) ==
    /\ save[r].own < nextId
    /\ savePc[r] = "select" => Cardinality(OldIds(r)) <= HistoryMax + save[r].excess
    /\ /\ savePc[r] = "prune" /\ Cardinality(save[r].victims) = save[r].excess
       /\ \A v \in save[r].victims : v < save[r].own
       => Cardinality(OldIds(r) \ save[r].victims) <= HistoryMax

LEMMA IdsAreFinite ==
    ASSUME NEW S \in SUBSET RowIds, NEW T \in SUBSET S
    PROVE  /\ IsFiniteSet(S) /\ Cardinality(S) \in Nat /\ Cardinality(T) \in Nat
           /\ Cardinality(T) <= Cardinality(S)
<1>1. IsFiniteSet(RowIds)
  BY HistoryAssumption, FS_Interval DEF RowIds
<1>2. IsFiniteSet(S)
  BY <1>1, FS_Subset
<1> QED BY <1>2, FS_Subset, FS_CardinalityType

LEMMA IdsOfRows ==
    ASSUME TypeInv, NEW u PROVE IdsOf(u) \subseteq RowIds
  BY DEF TypeInv, HistoryTypeOK, IdsOf, RowsOf, Row

\* Rows are counted by their ids.
LEMMA IdsCountRows ==
    ASSUME TypeInv, TableInv, NEW u
    PROVE  Cardinality(IdsOf(u)) <= Cardinality(RowsOf(u))
<1> DEFINE f == [t \in RowsOf(u) |-> t.id]
<1>1. f \in Surjection(RowsOf(u), IdsOf(u))
  BY DEF Surjection, IdsOf
<1>2. IsFiniteSet(RowsOf(u))
  BY FS_Subset DEF TypeInv, RowsOf
<1> HIDE DEF f
<1> QED BY <1>1, <1>2, FS_Surjection

\* No row but a newer one has come.
Fewer ==
    /\ nextId' \in {nextId, nextId + 1}
    /\ \A u : \A i \in IdsOf(u)' : i < nextId => i \in IdsOf(u)

LEMMA CapStays ==
    ASSUME HistoryInv, NEW r \in Savers, CapInv(r), savePc'[r] = savePc[r], save'[r] = save[r],
           Fewer, TypeInv'
    PROVE  CapInv(r)'
<1> DEFINE ids == OldIds(r)
           victims == save[r].victims
<1>1. save[r].own \in Int /\ nextId \in Int /\ save[r].excess \in Int /\ HistoryMax \in Int
  BY HistoryAssumption DEF HistoryInv, TypeInv, HistoryTypeOK, SaveJob, RowIds
<1>2. ids \subseteq RowIds
  BY IdsOfRows DEF HistoryInv, OldIds
<1>3. ids' \subseteq ids
  <2> SUFFICES ASSUME NEW i \in ids' PROVE i \in ids
    OBVIOUS
  <2>1. PICK t \in rows' : t.user = save[r].user /\ t.id = i
    BY DEF OldIds, IdsOf, RowsOf
  <2>2. i \in Int /\ i <= save[r].own
    BY <2>1 DEF OldIds, TypeInv, HistoryTypeOK, Row, RowIds
  <2>3. i < nextId
    BY <1>1, <2>2 DEF CapInv
  <2>4. \A u : (\E s \in rows' : s.user = u /\ s.id = i) => i \in IdsOf(u)
    BY <2>3 DEF Fewer, IdsOf, RowsOf
  <2> QED BY <2>1, <2>2, <2>4 DEF OldIds
<1>4. ids \ victims \subseteq RowIds /\ ids' \ victims \subseteq ids \ victims /\ victims' = victims
  BY <1>2, <1>3
<1> HIDE DEF ids, victims
<1>5. /\ Cardinality(ids) \in Nat /\ Cardinality(ids') \in Nat
      /\ Cardinality(ids') <= Cardinality(ids)
  BY <1>2, <1>3, IdsAreFinite
<1>6. /\ Cardinality(ids \ victims) \in Nat /\ Cardinality(ids' \ victims) \in Nat
      /\ Cardinality(ids' \ victims) <= Cardinality(ids \ victims)
  BY <1>4, IdsAreFinite
<1> QED BY <1>1, <1>4, <1>5, <1>6 DEF CapInv, Fewer, ids, victims

LEMMA CountCap ==
    ASSUME HistoryInv, NEW r \in Savers, CapInv(r), Count(r) PROVE CapInv(r)'
<1> DEFINE u == save[r].user
<1>t. save \in [Savers -> SaveJob] /\ savePc \in [Savers -> SavePoints] /\ TypeInv /\ TableInv
  BY DEF HistoryInv, TypeInv, HistoryTypeOK
<1>1. nextId' = nextId /\ \A v : IdsOf(v)' = IdsOf(v)
  BY DEF Count, tableVars, IdsOf, RowsOf
<1>2. CASE AnswerSave(r, "saved")
  BY <1>t, <1>1, <1>2 DEF AnswerSave, SaveGoto, CapInv, HistoryInv, TypeInv, HistoryTypeOK
<1>3. CASE SaveGoto(r, "select") /\ save' = [save EXCEPT ![r].excess = Excess(u)]
  <2>1. /\ savePc'[r] = "select" /\ save'[r].excess = Excess(u) /\ save'[r].user = u
        /\ save'[r].own = save[r].own
    BY <1>t, <1>3 DEF SaveGoto
  <2>2. Cardinality(IdsOf(u)) <= Cardinality(RowsOf(u)) /\ Cardinality(IdsOf(u)) \in Nat
    BY <1>t, IdsCountRows, IdsOfRows, IdsAreFinite
  <2>3. Cardinality(RowsOf(u)) \in Nat
    BY <1>t, FS_Subset, FS_CardinalityType DEF TypeInv, RowsOf
  <2>4. Cardinality(IdsOf(u)) <= HistoryMax + Excess(u)
    BY <2>2, <2>3, HistoryAssumption DEF Excess
  <2>5. Cardinality(OldIds(r)) <= Cardinality(IdsOf(u)) /\ Cardinality(OldIds(r)) \in Nat
    BY <1>t, IdsOfRows, IdsAreFinite DEF OldIds
  <2>6. Cardinality(OldIds(r)) <= HistoryMax + Excess(u)
    <3>1. Excess(u) \in Int /\ HistoryMax \in Int
      BY <2>3, HistoryAssumption DEF Excess
    <3> QED BY <2>2, <2>4, <2>5, <3>1
  <2>7. OldIds(r)' = OldIds(r)
    BY <1>1, <2>1 DEF OldIds
  <2> QED BY <1>1, <2>1, <2>6, <2>7 DEF CapInv
<1> QED BY <1>2, <1>3 DEF Count

LEMMA SelectCap ==
    ASSUME HistoryInv, NEW r \in Savers, CapInv(r), Select(r) PROVE CapInv(r)'
<1> DEFINE ids == OldIds(r)
           V == {t.id : t \in Stale(r)}
<1>t. save \in [Savers -> SaveJob] /\ savePc \in [Savers -> SavePoints] /\ TypeInv
  BY DEF HistoryInv, TypeInv, HistoryTypeOK
<1>1. nextId' = nextId /\ \A v : IdsOf(v)' = IdsOf(v)
  BY DEF Select, tableVars, IdsOf, RowsOf
<1>2. CASE AnswerSave(r, "saved")
  BY <1>t, <1>1, <1>2 DEF AnswerSave, SaveGoto, CapInv, HistoryInv, TypeInv, HistoryTypeOK
<1>3. CASE SaveGoto(r, "prune") /\ save' = [save EXCEPT ![r].victims = V]
  <2>1. /\ savePc[r] = "select" /\ savePc'[r] = "prune"
        /\ save'[r] = [save[r] EXCEPT !.victims = V] /\ save[r] \in SaveJob
    BY <1>t, <1>3 DEF SaveGoto, Select
  <2>2. ids \subseteq RowIds /\ V \subseteq IdsOf(save[r].user)
    BY <1>t, StaleRows, IdsOfRows DEF IdsOf, OldIds
  <2>3. save'[r].own = save[r].own /\ save'[r].excess = save[r].excess
        /\ save'[r].user = save[r].user /\ save'[r].victims = V
    BY <2>1 DEF SaveJob
  <2>4. ASSUME NEW v \in V, v < save[r].own PROVE v \in ids
    <3>1. v \in IdsOf(save[r].user) /\ v \in RowIds
      BY <1>t, <2>2, <2>4, IdsOfRows
    <3>2. v \in Int /\ save[r].own \in Int
      BY <2>1, <3>1 DEF SaveJob, RowIds
    <3>3. v <= save[r].own
      BY <2>4, <3>2
    <3> QED BY <3>1, <3>3 DEF OldIds
  <2>5. ids' = ids
    BY <1>1, <2>3 DEF OldIds
  <2> HIDE DEF V, ids
  <2>6. ASSUME V \subseteq ids, Cardinality(V) = save[r].excess
        PROVE  Cardinality(ids \ V) <= HistoryMax
    <3>1. IsFiniteSet(ids) /\ Cardinality(ids) \in Nat /\ Cardinality(V) \in Nat
      BY <2>2, <2>6, IdsAreFinite
    <3>2. Cardinality(ids \ V) = Cardinality(ids) - Cardinality(V)
      <4>1. ids \cap V = V
        BY <2>6
      <4> QED BY <3>1, <4>1, FS_Difference
    <3>3. Cardinality(ids) <= HistoryMax + save[r].excess
      BY <2>1 DEF CapInv, ids
    <3> QED BY <2>6, <3>1, <3>2, <3>3, HistoryAssumption
  <2> QED BY <1>1, <2>1, <2>3, <2>4, <2>5, <2>6 DEF CapInv, ids
<1> QED BY <1>2, <1>3 DEF Select

LEMMA CapStep ==
    ASSUME HistoryInv, \A r \in Savers : CapInv(r), [HistoryNext]_historyVars,
           NEW r \in Savers
    PROVE  CapInv(r)'
<1>t. /\ save \in [Savers -> SaveJob] /\ savePc \in [Savers -> SavePoints] /\ TypeInv
      /\ nextId \in Nat /\ CapInv(r) /\ TypeInv'
  BY HistoryAssumption, TypeStep DEF HistoryInv, TypeInv, HistoryTypeOK
<1>0. UNCHANGED tableVars => Fewer
  BY DEF tableVars, IdsOf, RowsOf, Fewer
<1>1. ASSUME NEW q \in Savers, SaveStep(q) PROVE CapInv(r)'
  <2>1. Fewer
    <3>1. CASE Prune(q)
      BY <3>1 DEF Prune, IdsOf, RowsOf, Fewer
    <3>2. CASE Create(q)
      <4>1. nextId' = nextId + 1 /\ \A t \in rows' : t \in rows \/ t.id = nextId
        BY <3>2 DEF Create
      <4> QED BY <1>t, <4>1 DEF IdsOf, RowsOf, Fewer
    <3> QED BY <1>0, <1>1, <3>1, <3>2
        DEF SaveStep, CheckIdempotency, Conflict, LoadHit, LoadLate, LoadMiss, CreateTaken,
            Consume, Mark, Count, Select, tableVars
  <2>2. CASE q # r
    <3>1. savePc'[r] = savePc[r] /\ save'[r] = save[r]
      BY <1>1, <1>t, <2>2
      DEF SaveStep, CheckIdempotency, Conflict, LoadHit, LoadLate, LoadMiss, CreateTaken,
          Create, Consume, Mark, Count, Select, Prune, AnswerSave, SaveGoto
    <3> QED BY <1>t, <2>1, <3>1, CapStays
  <2>3. CASE q = r /\ Count(r)
    BY <1>t, <2>3, CountCap
  <2>4. CASE q = r /\ Select(r)
    BY <1>t, <2>4, SelectCap
  <2>5. CASE q = r /\ ~Count(r) /\ ~Select(r)
    <3>1. nextId \in 1..MaxRowId + 1 /\ save[r].own \in Int /\ save[r].own < nextId
      BY <1>t DEF HistoryInv, TypeInv, HistoryTypeOK, SaveJob, RowIds, CapInv
    <3>2. savePc'[r] \notin {"select", "prune"}
      BY <1>1, <1>t, <2>5
      DEF SaveStep, CheckIdempotency, Conflict, LoadHit, LoadLate, LoadMiss, CreateTaken,
          Create, Consume, Mark, Prune, AnswerSave, SaveGoto
    <3>3. CASE Create(r)
      <4>1. save'[r].own = nextId /\ nextId' = nextId + 1
        BY <1>t, <3>3 DEF Create, SaveJob
      <4> QED BY <3>1, <3>2, <4>1 DEF CapInv
    <3>4. CASE ~Create(r)
      <4>1. ASSUME NEW a, AnswerSave(r, a) PROVE save'[r].own = 0
        <5>1. save[r] \in SaveJob
          BY <1>t
        <5>2. save'[r] = [save[r] EXCEPT !.answer = a, !.user = NoPreview, !.key = NoPreview,
                                         !.own = 0, !.excess = 0, !.victims = {}]
          BY <1>t, <4>1 DEF AnswerSave
        <5> QED BY <5>1, <5>2 DEF SaveJob
      <4>2. LoadHit(r) => save'[r].own = save[r].own /\ nextId' = nextId
        BY <1>t DEF LoadHit, SaveJob, tableVars
      <4>3. save'[r].own \in {0, save[r].own} /\ nextId' = nextId
        BY <1>1, <1>t, <2>5, <3>4, <4>1, <4>2
        DEF SaveStep, CheckIdempotency, Conflict, LoadHit, LoadLate, LoadMiss, CreateTaken,
            Consume, Mark, Prune, tableVars
      <4> QED BY <3>1, <3>2, <4>3 DEF CapInv
    <3> QED BY <3>3, <3>4
  <2> QED BY <1>1, <2>2, <2>3, <2>4, <2>5
<1>2. ASSUME NEW q \in Savers, SaveFails(q) PROVE CapInv(r)'
  <2>1. CASE q = r
    BY <1>2, <1>t, <2>1
    DEF SaveFails, AnswerSave, SaveGoto, tableVars, CapInv, HistoryInv, TypeInv, HistoryTypeOK
  <2>2. CASE q # r
    BY <1>0, <1>2, <1>t, <2>2, CapStays DEF SaveFails, AnswerSave, SaveGoto
  <2> QED BY <2>1, <2>2
<1>3. ASSUME NEW q \in Savers, NEW u \in Users, NEW p \in PreviewIds, StartSave(q, u, p)
      PROVE  CapInv(r)'
  <2>1. CASE q = r
    BY <1>3, <1>t, <2>1
    DEF StartSave, SaveGoto, tableVars, CapInv, HistoryInv, TypeInv, HistoryTypeOK
  <2>2. CASE q # r
    BY <1>0, <1>3, <1>t, <2>2, CapStays DEF StartSave, SaveGoto
  <2> QED BY <2>1, <2>2
<1>4. ASSUME UNCHANGED saveVars, Fewer PROVE CapInv(r)'
  BY <1>4, <1>t, CapStays DEF saveVars
<1>5. ASSUME NEW u \in Users, NEW b \in BOOLEAN, SetFavorite(u, b) PROVE CapInv(r)'
  <2>1. PICK t \in rows : rows' = (rows \ {t}) \cup {[t EXCEPT !.favorite = b]}
    BY <1>5 DEF SetFavorite, RowsOf
  <2>2. [t EXCEPT !.favorite = b].id = t.id /\ [t EXCEPT !.favorite = b].user = t.user
    BY <1>t DEF TypeInv, HistoryTypeOK, Row
  <2>3. \A v : IdsOf(v)' \subseteq IdsOf(v)
    BY <2>1, <2>2 DEF IdsOf, RowsOf
  <2> QED BY <1>4, <1>5, <2>3 DEF SetFavorite, Fewer
<1>6. ASSUME NEW u \in Users, DeleteTranslation(u) \/ ClearHistory(u) PROVE CapInv(r)'
  BY <1>4, <1>6 DEF DeleteTranslation, ClearHistory, IdsOf, RowsOf, Fewer
<1>7. CASE RestartSaves
  <2>1. CASE savePc[r] = "idle"
    BY <1>0, <1>7, <1>t, <2>1, CapStays DEF RestartSaves, SavesLost
  <2>2. CASE savePc[r] # "idle"
    <3>1. save[r] \in SaveJob
      BY <1>t
    <3>2. save'[r] = [save[r] EXCEPT !.answer = "lost", !.user = NoPreview, !.key = NoPreview,
                                     !.own = 0, !.excess = 0, !.victims = {}]
      BY <1>7, <2>2 DEF RestartSaves, SavesLost
    <3>3. save'[r].own = 0 /\ savePc'[r] = "idle" /\ nextId' = nextId
      BY <1>7, <3>1, <3>2 DEF RestartSaves, SavesLost, tableVars, SaveJob
    <3> QED BY <3>3 DEF CapInv, HistoryInv, TypeInv, HistoryTypeOK
  <2> QED BY <2>1, <2>2
<1> QED
  BY <1>0, <1>1, <1>2, <1>3, <1>4, <1>5, <1>6, <1>7
  DEF HistoryNext, SaveRequests, HistoryRequests, PreviewedElsewhere, historyVars

\* A prune that picked as many rows as it had counted too many, all older than its own,
\* leaves no more than the cap of those of the user's rows that are no favourites and were
\* there when the save added its own, whatever ran between its three queries.
THEOREM PruneReaches == HistorySpec => PruneReachesCap
<1> DEFINE Inv == HistoryInv /\ \A r \in Savers : CapInv(r)
           Reaches == \A r \in Savers :
              LET own == save[r].own IN
              /\ Prune(r)
              /\ Cardinality(save[r].victims) = save[r].excess
              /\ \A v \in save[r].victims : v < own
              => Cardinality({t \in rows' : /\ t.user = save[r].user /\ t.id <= own
                                            /\ ~t.favorite}) <= HistoryMax
<1>1. HistoryInit => Inv
  <2> SUFFICES ASSUME HistoryInit, NEW r \in Savers PROVE CapInv(r)
    BY InvInit
  <2> QED BY DEF HistoryInit, CapInv
<1>2. Inv /\ [HistoryNext]_historyVars => Inv'
  BY InvStep, CapStep
<1>3. Inv /\ [HistoryNext]_historyVars => [Reaches]_historyVars
  <2> SUFFICES ASSUME Inv, NEW r \in Savers, Prune(r),
                      Cardinality(save[r].victims) = save[r].excess,
                      \A v \in save[r].victims : v < save[r].own
               PROVE  Cardinality({t \in rows' : /\ t.user = save[r].user /\ t.id <= save[r].own
                                                 /\ ~t.favorite}) <= HistoryMax
    OBVIOUS
  <2> DEFINE left == {t \in rows' : /\ t.user = save[r].user /\ t.id <= save[r].own
                                    /\ ~t.favorite}
             ids == OldIds(r) \ save[r].victims
             f == [t \in left |-> t.id]
  <2>1. Cardinality(ids) <= HistoryMax
    BY DEF CapInv, Prune
  <2>2. \A t \in left : t \in rows /\ t.id \in ids
    BY DEF Prune, IdsOf, RowsOf, OldIds
  <2>3. \A s, t \in left : s.id = t.id => s = t
    BY <2>2 DEF HistoryInv, TableInv
  <2>4. ids \subseteq RowIds
    BY IdsOfRows DEF HistoryInv, OldIds
  <2> HIDE DEF left, ids
  <2>5. f \in Injection(left, ids)
    BY <2>2, <2>3 DEF Injection, IsInjective
  <2>6. IsFiniteSet(ids) /\ Cardinality(ids) \in Nat
    BY <2>4, IdsAreFinite
  <2>7. IsFiniteSet(left) /\ Cardinality(left) <= Cardinality(ids)
    <3> HIDE DEF f
    <3> QED BY <2>5, <2>6, FS_Injection
  <2>8. Cardinality(left) \in Nat
    BY <2>7, FS_CardinalityType
  <2> QED BY <2>1, <2>6, <2>7, <2>8, HistoryAssumption DEF left
<1> QED
  BY <1>1, <1>2, <1>3, PTL DEF HistorySpec, PruneReachesCap

-----------------------------------------------------------------------------
(* Refinement: every step is a step of the ledger or leaves it alone.      *)

LEMMA LedgerInit == HistoryInit => Ledger!Init
BY DEF HistoryInit, CacheInit, Ledger!Init

LEMMA CreateKeeps ==
    ASSUME HistoryInv, NEW r \in Savers, Create(r)
    PROVE  Ledger!Keep
<1> DEFINE v == [pid |-> save[r].pid, user |-> save[r].user, key |-> save[r].key]
<1>1. v \in shown
  BY DEF Create, HistoryInv, RequestInv, HeldPoints
<1>2. nextId \in RowIds /\ \A t \in rows : t.pid # v.pid /\ t.id < nextId
  BY DEF Create, Taken, RowsFor, HistoryInv, TableInv
<1>3. rows' = rows \cup {[id |-> nextId, user |-> v.user, pid |-> v.pid, key |-> v.key,
                          favorite |-> FALSE]}
  BY DEF Create
<1>4. UNCHANGED shown
  BY DEF Create, cacheVars
<1> QED
  BY <1>1, <1>2, <1>3, <1>4 DEF Ledger!Keep

LEMMA LedgerStep ==
    ASSUME HistoryInv, [HistoryNext]_historyVars
    PROVE  [Ledger!Next]_<<shown, rows>>
<1>t. TypeInv
  BY DEF HistoryInv
<1>1. ASSUME NEW r \in Savers, SaveStep(r) PROVE [Ledger!Next]_<<shown, rows>>
  <2>1. CASE Create(r)
    BY <2>1, CreateKeeps DEF Ledger!Next
  <2>2. CASE Prune(r)
    <3>1. save[r].user \in Users
      BY <2>2, <1>t DEF Prune, TypeInv, ArgumentsOK
    <3>2. \A t \in rows : t.user # save[r].user => t \in rows'
      BY <2>2 DEF Prune
    <3> QED
      BY <2>2, <3>1, <3>2 DEF Prune, cacheVars, Ledger!Next, Ledger!Remove
  <2> QED
    BY <1>1, <2>1, <2>2
       DEF SaveStep, CheckIdempotency, Conflict, LoadHit, LoadLate, LoadMiss, CreateTaken,
           Consume, Mark, Count, Select, cacheVars, tableVars
<1>2. ASSUME NEW u \in Users, NEW b \in BOOLEAN, SetFavorite(u, b) PROVE Ledger!Star
  BY <1>2 DEF SetFavorite, RowsOf, cacheVars, Ledger!Star
<1>3. ASSUME NEW u \in Users, DeleteTranslation(u) \/ ClearHistory(u) PROVE Ledger!Remove
  <2>1. rows' \subseteq rows /\ UNCHANGED shown
    BY <1>3 DEF DeleteTranslation, ClearHistory, cacheVars
  <2>2. \A t \in rows : t.user # u => t \in rows'
    BY <1>3 DEF DeleteTranslation, ClearHistory, RowsOf
  <2> QED
    BY <2>1, <2>2 DEF Ledger!Remove
<1>4. CASE PreviewedElsewhere
  <2>1. CASE UNCHANGED shown
    BY <1>4, <2>1 DEF PreviewedElsewhere, tableVars
  <2>2. ASSUME NEW v \in issued, Show(v.pid, v.user, v.key) PROVE Ledger!ShowPreview
    <3>1. [pid |-> v.pid, user |-> v.user, key |-> v.key] \in Ledger!Preview
      BY <1>t DEF TypeInv, HistoryTypeOK, CacheTypeOK, Preview, Ledger!Preview
    <3> QED
      BY <1>4, <2>2, <3>1 DEF PreviewedElsewhere, Show, tableVars, Ledger!ShowPreview
  <2> QED
    BY <1>4, <2>1, <2>2 DEF PreviewedElsewhere, Ledger!Next
<1> QED
  BY <1>1, <1>2, <1>3, <1>4
     DEF HistoryNext, SaveRequests, SaveFails, StartSave, HistoryRequests, RestartSaves,
         Redeploy, CacheTime, Lapse, ExpireData, ExpireMarker, ExpirePointer, historyVars,
         cacheVars, tableVars, Ledger!Next

\* Preview, save, prune and the history handlers implement the ledger.
THEOREM SaveImplementsLedger == HistorySpec => ImplementsLedger
<1>1. HistoryInv /\ [HistoryNext]_historyVars => [Ledger!Next]_(Ledger!vars)
  BY LedgerStep DEF Ledger!vars
<1> QED
  BY <1>1, LedgerInit, HistoryInvariant, PTL DEF HistorySpec, ImplementsLedger, Ledger!Spec

-----------------------------------------------------------------------------
(* TranslatePreview, and both.                                             *)

Of(r) == [pid |-> preview[r].pid, user |-> preview[r].user, key |-> preview[r].key]

-----------------------------------------------------------------------------
(* The gates.                                                              *)

JobsOK ==
    /\ previewPc \in [Previewers -> PreviewPoints] /\ preview \in [Previewers -> PreviewJob]
    /\ \A r \in Previewers :
          previewPc[r] # "idle" => preview[r].user \in Users /\ preview[r].key \in Keys

PastGates == PreviewPoints \ {"idle", "gates"}
PastSwitch == PastGates \ {"switch"}

\* What a request has passed, at the point it has reached or with the answer it got.
PassedGates(r) ==
    /\ preview[r].key \notin Malformed \cup Injected
    /\ preview[r].key \in Restricted => "adult" \in preview[r].seen

GateInv ==
    /\ adult \in [Users -> BOOLEAN] /\ permitted \in BOOLEAN
    /\ JobsOK
    /\ \A r \in Previewers :
          /\ previewPc[r] # "idle" => InForce(preview[r].user) \subseteq preview[r].seen
          /\ previewPc[r] \in PastGates \/ preview[r].answer = "preview" => PassedGates(r)
          /\ previewPc[r] \in PastSwitch \/ preview[r].answer = "preview" =>
                "permitted" \in preview[r].seen

LEMMA GateInit == TranslateInit => GateInv
  BY DEF TranslateInit, GateInv, JobsOK, PreviewPoints, PreviewJob, PreviewAnswers, PastGates,
         PastSwitch

\* A request that moves on, keeping what it has seen.
LEMMA MoveGates ==
    ASSUME GateInv, NEW r \in Previewers, previewPc[r] # "idle", NEW q \in PreviewPoints \ {"idle"},
           PreviewGoto(r, q), UNCHANGED gateVars,
           NEW p \in PreviewIds \cup {NoPreview},
           preview' \in {preview, [preview EXCEPT ![r].pid = p]},
           q \in PastGates => PassedGates(r),
           q \in PastSwitch => "permitted" \in preview[r].seen
    PROVE  GateInv'
<1>1. /\ preview' \in [Previewers -> PreviewJob]
      /\ \A s \in Previewers : /\ preview'[s].user = preview[s].user
                               /\ preview'[s].key = preview[s].key
                               /\ preview'[s].seen = preview[s].seen
                               /\ preview'[s].answer = preview[s].answer
  BY DEF GateInv, JobsOK, PreviewJob
<1>2. /\ previewPc' \in [Previewers -> PreviewPoints] /\ previewPc'[r] = q
      /\ \A s \in Previewers \ {r} : previewPc'[s] = previewPc[s]
  BY DEF GateInv, JobsOK, PreviewGoto
<1>3. JobsOK'
  BY <1>1, <1>2 DEF GateInv, JobsOK
<1>4. \A s \in Previewers : PassedGates(s) => PassedGates(s)'
  BY <1>1 DEF PassedGates
<1>5. \A s \in Previewers : InForce(preview[s].user)' = InForce(preview[s].user)
  BY <1>1 DEF InForce, gateVars
<1> QED
  BY <1>1, <1>2, <1>3, <1>4, <1>5 DEF GateInv, gateVars

\* A request that is answered; a preview only past the gates and the switch.
LEMMA AnswerGates ==
    ASSUME GateInv, NEW r \in Previewers, NEW a \in PreviewAnswers, AnswerPreview(r, a),
           UNCHANGED gateVars,
           a = "preview" => PassedGates(r) /\ "permitted" \in preview[r].seen
    PROVE  GateInv'
<1>1. /\ preview' \in [Previewers -> PreviewJob] /\ preview'[r].answer = a
      /\ \A s \in Previewers : /\ preview'[s].user = preview[s].user
                               /\ preview'[s].key = preview[s].key
                               /\ preview'[s].seen = preview[s].seen
      /\ \A s \in Previewers \ {r} : preview'[s].answer = preview[s].answer
  BY DEF GateInv, JobsOK, PreviewJob, AnswerPreview
<1>2. /\ previewPc' \in [Previewers -> PreviewPoints] /\ previewPc'[r] = "idle"
      /\ \A s \in Previewers \ {r} : previewPc'[s] = previewPc[s]
  BY DEF GateInv, JobsOK, AnswerPreview, PreviewGoto, PreviewPoints
<1>3. JobsOK'
  BY <1>1, <1>2 DEF GateInv, JobsOK
<1>4. \A s \in Previewers : PassedGates(s) => PassedGates(s)'
  BY <1>1 DEF PassedGates
<1>5. \A s \in Previewers : InForce(preview[s].user)' = InForce(preview[s].user)
  BY <1>1 DEF InForce, gateVars
<1> QED
  BY <1>1, <1>2, <1>3, <1>4, <1>5 DEF GateInv, gateVars, PastGates, PastSwitch

LEMMA StepGates == ASSUME GateInv, CacheTypeOK, NEW r \in Previewers, PreviewStep(r) PROVE GateInv'
<1>0. preview[r].pid \in PreviewIds \cup {NoPreview}
  BY DEF GateInv, JobsOK, PreviewJob
<1>1. CASE Gates(r)
  <2>1. CASE Refused(r)
    BY <1>1, <2>1, AnswerGates DEF Gates, PreviewAnswers
  <2>2. CASE ~Refused(r)
    <3>1. PassedGates(r)
      BY <1>1, <2>2 DEF Gates, Refused, PassedGates, GateInv, InForce
    <3> QED
      BY <1>0, <1>1, <2>2, <3>1, MoveGates DEF Gates, PreviewPoints, PastSwitch
  <2> QED BY <2>1, <2>2
<1>2. CASE SwitchGate(r)
  <2>1. PassedGates(r)
    BY <1>2 DEF SwitchGate, GateInv, PastGates, PreviewPoints
  <2>2. CASE permitted
    <3>1. "permitted" \in preview[r].seen
      BY <1>2, <2>2 DEF SwitchGate, GateInv, InForce
    <3> QED
      BY <1>0, <1>2, <2>1, <2>2, <3>1, MoveGates DEF SwitchGate, PreviewPoints
  <2>3. CASE ~permitted
    BY <1>2, <2>3, AnswerGates DEF SwitchGate, PreviewAnswers
  <2> QED BY <2>2, <2>3
<1>3. CASE previewPc[r] \in PastSwitch
  <2>1. PassedGates(r) /\ "permitted" \in preview[r].seen
    BY <1>3 DEF GateInv, PastSwitch
  <2>2. CASE Lookup(r)
    <3>1. pointer[preview[r].user][preview[r].key] \in PreviewIds \cup {NoPreview}
      BY <2>2 DEF Lookup, GateInv, JobsOK, CacheTypeOK
    <3> QED
      BY <2>1, <2>2, <3>1, MoveGates DEF Lookup, PreviewPoints
  <2>3. CASE FetchHit(r) \/ PointAndAnswer(r)
    BY <2>1, <2>3, AnswerGates DEF FetchHit, PointAndAnswer, PreviewAnswers
  <2>4. CASE FetchMiss(r)
    BY <2>1, <2>4, MoveGates DEF FetchMiss, PreviewPoints
  <2>5. CASE TranslateCore(r)
    <3>1. CASE PreviewGoto(r, "storeData") /\ UNCHANGED preview
      BY <1>0, <2>1, <2>5, <3>1, MoveGates DEF TranslateCore, PreviewPoints
    <3>2. CASE AnswerPreview(r, "unavailable")
      BY <2>5, <3>2, AnswerGates DEF TranslateCore, PreviewAnswers
    <3> QED BY <2>5, <3>1, <3>2 DEF TranslateCore
  <2>6. CASE StorePayload(r)
    <3>1. PICK p \in PreviewIds : preview' = [preview EXCEPT ![r].pid = p]
      BY <2>6 DEF StorePayload
    <3> QED
      BY <2>1, <2>6, <3>1, MoveGates DEF StorePayload, PreviewPoints
  <2> QED
    BY <1>3, <2>2, <2>3, <2>4, <2>5, <2>6
    DEF PreviewStep, Gates, SwitchGate, PastSwitch, PastGates
<1> QED
  BY <1>1, <1>2, <1>3
  DEF PreviewStep, Lookup, FetchHit, FetchMiss, TranslateCore, StorePayload, PointAndAnswer,
      PastSwitch, PastGates, PreviewPoints

LEMMA StartGates ==
    ASSUME GateInv, NEW r \in Previewers, NEW u \in Users, NEW k \in Keys, StartPreview(r, u, k)
    PROVE  GateInv'
<1>1. preview'[r] = [user |-> u, key |-> k, pid |-> NoPreview, answer |-> "none", seen |-> InForce(u)]
  BY DEF GateInv, JobsOK, StartPreview
<1>2. previewPc'[r] = "gates" /\ UNCHANGED gateVars
  BY DEF GateInv, JobsOK, StartPreview, PreviewGoto
<1>3. \A s \in Previewers \ {r} : preview'[s] = preview[s] /\ previewPc'[s] = previewPc[s]
  BY DEF GateInv, JobsOK, StartPreview, PreviewGoto
<1>4. InForce(u)' = InForce(u) /\ InForce(u) \in SUBSET {"adult", "permitted"}
  BY <1>2 DEF InForce, gateVars
<1>5. JobsOK'
  BY <1>1, <1>2, <1>3, <1>4
  DEF GateInv, JobsOK, StartPreview, PreviewGoto, PreviewPoints, PreviewJob, PreviewAnswers
<1>6. \A s \in Previewers \ {r} :
         /\ PassedGates(s)' <=> PassedGates(s)
         /\ InForce(preview[s].user)' = InForce(preview[s].user)
  BY <1>2, <1>3 DEF PassedGates, InForce, gateVars
<1> QED
  BY <1>1, <1>2, <1>3, <1>4, <1>5, <1>6 DEF GateInv, gateVars, PastGates, PastSwitch

\* A permission that appears is witnessed by the requests it is in force for.
LEMMA DecisionGates == ASSUME GateInv, Decisions PROVE GateInv'
<1>1. ASSUME NEW s \in {"adult", "permitted"}, NEW U \in SUBSET Users, Witness(s, U),
             adult' \in [Users -> BOOLEAN], permitted' \in BOOLEAN, UNCHANGED previewPc,
             \A u \in Users : InForce(u)' \subseteq InForce(u) \cup IF u \in U THEN {s} ELSE {}
      PROVE  GateInv'
  <2>1. \A r \in Previewers :
           /\ preview'[r] \in PreviewJob
           /\ preview'[r].user = preview[r].user /\ preview'[r].key = preview[r].key
           /\ preview'[r].answer = preview[r].answer
           /\ preview[r].seen \subseteq preview'[r].seen
           /\ previewPc[r] # "idle" /\ preview[r].user \in U => s \in preview'[r].seen
    BY <1>1 DEF GateInv, JobsOK, PreviewJob, Witness
  <2>2. preview' \in [Previewers -> PreviewJob]
    BY <1>1, <2>1 DEF Witness
  <2>3. JobsOK'
    BY <1>1, <2>1, <2>2 DEF GateInv, JobsOK
  <2>4. \A r \in Previewers : PassedGates(r) => PassedGates(r)'
    BY <2>1 DEF PassedGates
  <2>5. ASSUME NEW r \in Previewers, previewPc[r] # "idle"
        PROVE  InForce(preview[r].user)' \subseteq preview'[r].seen
    <3>1. PICK u \in Users : u = preview[r].user /\ u = preview'[r].user
      BY <2>1, <2>5 DEF GateInv, JobsOK
    <3>2. InForce(preview[r].user)' = InForce(u)'
      BY <3>1 DEF InForce
    <3>3. InForce(u) \subseteq preview[r].seen
      BY <2>5, <3>1 DEF GateInv
    <3> QED
      BY <1>1, <2>1, <2>5, <3>1, <3>2, <3>3
  <2> QED
    BY <1>1, <2>1, <2>3, <2>4, <2>5 DEF GateInv
<1>2. ASSUME NEW b \in BOOLEAN, SetPermitted(b) PROVE GateInv'
  <2>1. \A u \in Users :
           InForce(u)' \subseteq InForce(u) \cup IF u \in IF b THEN Users ELSE {} THEN {"permitted"} ELSE {}
    BY <1>2 DEF SetPermitted, InForce
  <2> QED BY <1>1, <1>2, <2>1 DEF SetPermitted, GateInv
<1>3. ASSUME NEW b \in BOOLEAN, NEW u \in Users, SetAgeConfirmed(u, b) PROVE GateInv'
  <2>1. \A v \in Users :
           InForce(v)' \subseteq InForce(v) \cup IF v \in IF b THEN {u} ELSE {} THEN {"adult"} ELSE {}
    BY <1>3 DEF SetAgeConfirmed, InForce, GateInv
  <2>2. adult' \in [Users -> BOOLEAN]
    BY <1>3 DEF SetAgeConfirmed, GateInv
  <2> QED BY <1>1, <1>3, <2>1, <2>2 DEF SetAgeConfirmed, GateInv
<1> QED BY <1>2, <1>3 DEF Decisions

\* The process dies: its requests have no answer.
LEMMA LostGates == ASSUME GateInv, PreviewsLost, UNCHANGED gateVars PROVE GateInv'
<1>1. \A r \in Previewers :
         /\ preview'[r] \in PreviewJob
         /\ preview'[r].answer = "preview" =>
               preview'[r] = preview[r] /\ preview[r].answer = "preview"
  BY DEF GateInv, JobsOK, PreviewJob, PreviewAnswers, PreviewsLost
<1>2. JobsOK' /\ \A r \in Previewers : previewPc'[r] = "idle"
  BY <1>1 DEF GateInv, JobsOK, PreviewsLost, PreviewPoints
<1> QED
  BY <1>1, <1>2 DEF GateInv, PassedGates, gateVars, PastGates, PastSwitch

-----------------------------------------------------------------------------
(* The preview requests on their own.                                      *)

\* A request that reads a preview, or points at one, has its id.
FetchedOK ==
    \A r \in Previewers : previewPc[r] \in {"fetch", "storePointer"} => preview[r].pid \in PreviewIds

PreviewInv == CacheTypeOK /\ GateInv /\ FetchedOK

LEMMA PreviewInit == TranslateInit => PreviewInv
<1>1. TranslateInit => CacheTypeOK
  BY DEF TranslateInit, CacheInit, CacheTypeOK
<1>2. TranslateInit => FetchedOK
  BY DEF TranslateInit, FetchedOK
<1> QED BY <1>1, <1>2, GateInit DEF PreviewInv

LEMMA PreviewStepTypes ==
    ASSUME PreviewInv, NEW r \in Previewers, PreviewStep(r)
    PROVE  CacheTypeOK'
<1>r. /\ previewPc[r] # "idle" => preview[r].user \in Users /\ preview[r].key \in Keys
      /\ previewPc[r] \in {"fetch", "storePointer"} => preview[r].pid \in PreviewIds
      /\ CacheTypeOK
  BY DEF PreviewInv, GateInv, JobsOK, FetchedOK
<1>k. UNCHANGED cacheVars => CacheTypeOK'
  BY <1>r DEF CacheTypeOK, cacheVars
<1>1. CASE FetchHit(r)
  BY <1>1, <1>r DEF FetchHit, Show, CacheTypeOK, Preview
<1>2. CASE FetchMiss(r)
  BY <1>2, <1>r DEF FetchMiss, ReadMiss, CacheTypeOK
<1>3. CASE StorePayload(r)
  BY <1>3, <1>r, StoreTypes DEF StorePayload
<1>4. CASE PointAndAnswer(r)
  BY <1>4, <1>r DEF PointAndAnswer, StorePointer, Show, CacheTypeOK, Preview
<1> QED
  BY <1>k, <1>1, <1>2, <1>3, <1>4 DEF PreviewStep, Gates, SwitchGate, Lookup, TranslateCore

LEMMA PreviewStepFetched ==
    ASSUME PreviewInv, NEW r \in Previewers, PreviewStep(r)
    PROVE  FetchedOK'
<1>t. /\ previewPc \in [Previewers -> PreviewPoints] /\ preview \in [Previewers -> PreviewJob]
      /\ CacheTypeOK /\ FetchedOK
      /\ previewPc[r] # "idle" => preview[r].user \in Users /\ preview[r].key \in Keys
  BY DEF PreviewInv, GateInv, JobsOK
<1>1. \A s \in Previewers \ {r} : previewPc'[s] = previewPc[s] /\ preview'[s] = preview[s]
  BY <1>t DEF PreviewStep, Gates, SwitchGate, Lookup, FetchHit, FetchMiss, TranslateCore,
              StorePayload, PointAndAnswer, AnswerPreview, PreviewGoto
<1>2. previewPc'[r] \in {"fetch", "storePointer"} => preview'[r].pid \in PreviewIds
  <2>1. CASE Lookup(r)
    BY <1>t, <2>1 DEF Lookup, PreviewGoto, PreviewJob, CacheTypeOK
  <2>2. CASE StorePayload(r)
    BY <1>t, <2>2 DEF StorePayload, PreviewGoto, PreviewJob
  <2> QED
    BY <1>t, <2>1, <2>2
    DEF PreviewStep, Gates, SwitchGate, FetchHit, FetchMiss, TranslateCore, PointAndAnswer,
        AnswerPreview, PreviewGoto
<1> QED BY <1>t, <1>1, <1>2 DEF FetchedOK

LEMMA PreviewInvStep ==
    ASSUME PreviewInv, [TranslateNext]_translateVars
    PROVE  PreviewInv'
<1>i. /\ CacheTypeOK /\ GateInv /\ FetchedOK
      /\ previewPc \in [Previewers -> PreviewPoints] /\ preview \in [Previewers -> PreviewJob]
  BY DEF PreviewInv, GateInv, JobsOK
<1>k. UNCHANGED cacheVars => CacheTypeOK'
  BY <1>i DEF CacheTypeOK, cacheVars
<1>u. UNCHANGED <<gateVars, previewVars>> => GateInv' /\ FetchedOK'
  BY <1>i DEF GateInv, JobsOK, FetchedOK, PassedGates, InForce, gateVars, previewVars
<1>1. ASSUME NEW r \in Previewers, PreviewStep(r) PROVE PreviewInv'
  BY <1>1, <1>i, StepGates, PreviewStepTypes, PreviewStepFetched DEF PreviewInv
<1>2. ASSUME NEW r \in Previewers, PreviewFails(r) PROVE PreviewInv'
  <2>1. GateInv'
    BY <1>2, <1>i, AnswerGates DEF PreviewFails, PreviewAnswers
  <2>2. FetchedOK'
    BY <1>2, <1>i DEF PreviewFails, AnswerPreview, PreviewGoto, FetchedOK
  <2> QED BY <1>2, <1>k, <2>1, <2>2 DEF PreviewFails, PreviewInv
<1>3. ASSUME NEW r \in Previewers, NEW u \in Users, NEW k \in Keys, StartPreview(r, u, k)
      PROVE  PreviewInv'
  <2>1. FetchedOK'
    BY <1>3, <1>i DEF StartPreview, PreviewGoto, FetchedOK
  <2> QED BY <1>3, <1>i, <1>k, <2>1, StartGates DEF StartPreview, PreviewInv
<1>4. CASE Decisions
  <2>1. \A r \in Previewers : previewPc'[r] = previewPc[r] /\ preview'[r].pid = preview[r].pid
    BY <1>4, <1>i DEF Decisions, SetPermitted, SetAgeConfirmed, Witness, PreviewJob
  <2>2. UNCHANGED cacheVars
    BY <1>4 DEF Decisions, SetPermitted, SetAgeConfirmed
  <2> QED BY <1>4, <1>i, <1>k, <2>1, <2>2, DecisionGates DEF PreviewInv, FetchedOK
<1>5. CASE SavedElsewhere
  <2>1. CacheTypeOK'
    <3>1. PICK v \in shown : \/ Evict(v.pid, v.user, v.key) /\ UNCHANGED marker
                             \/ SetMarker(v.pid) /\ UNCHANGED <<data, pointer>>
      BY <1>5 DEF SavedElsewhere
    <3>2. v.pid \in PreviewIds /\ v.user \in Users /\ v.key \in Keys
      BY <1>i DEF CacheTypeOK, Preview
    <3>3. UNCHANGED <<issued, shown>>
      BY <1>5 DEF SavedElsewhere
    <3>4. CASE Evict(v.pid, v.user, v.key) /\ UNCHANGED marker
      BY <1>i, <3>2, <3>3, <3>4 DEF Evict, Unpoint, CacheTypeOK
    <3>5. CASE SetMarker(v.pid) /\ UNCHANGED <<data, pointer>>
      BY <1>i, <3>2, <3>3, <3>5 DEF SetMarker, CacheTypeOK
    <3> QED BY <3>1, <3>4, <3>5
  <2> QED BY <1>5, <1>u, <2>1 DEF SavedElsewhere, PreviewInv
<1>6. CASE RestartPreviews
  <2>1. FetchedOK'
    BY <1>6 DEF RestartPreviews, PreviewsLost, FetchedOK
  <2> QED
    BY <1>6, <1>i, <1>k, <2>1, LostGates, RedeployTypes DEF RestartPreviews, PreviewInv
<1>7. CASE CacheTime /\ UNCHANGED <<gateVars, previewVars>>
  BY <1>7, <1>i, <1>u, TimeTypes DEF PreviewInv
<1>8. CASE UNCHANGED translateVars
  BY <1>8, <1>k, <1>u DEF translateVars, PreviewInv
<1> QED
  BY <1>1, <1>2, <1>3, <1>4, <1>5, <1>6, <1>7, <1>8 DEF TranslateNext, PreviewRequests

\* The inductive invariant of the preview requests, on which the next two rest.
THEOREM PreviewInvariant == TranslateSpec => []PreviewInv
<1>1. PreviewInv /\ [TranslateNext]_translateVars => PreviewInv'
  BY PreviewInvStep
<1> QED BY <1>1, PreviewInit, PTL DEF TranslateSpec

\* Every preview request stays well formed: none runs without its user and its key.
THEOREM TranslateTypeCorrect == TranslateSpec => []TranslateTypeOK
<1>1. PreviewInv => TranslateTypeOK
  BY DEF PreviewInv, GateInv, JobsOK, TranslateTypeOK
<1> QED BY <1>1, PreviewInvariant, PTL

\* No preview, cached or fresh, is answered past the age gate, the kill-switch, the
\* text contract or the injection check, however decisions and requests interleave.
THEOREM GatesComeFirst == TranslateSpec => []GatesOutrankCache
<1>1. PreviewInv => GatesOutrankCache
  BY DEF PreviewInv, GateInv, PassedGates, GatesOutrankCache
<1> QED BY <1>1, PreviewInvariant, PTL

-----------------------------------------------------------------------------
(* The composition.  What ties the two together: a pointer leads only to   *)
(* previews that were shown, so that a hit shows nothing new; and a        *)
(* request about to write a pointer is the only one that knows its id.     *)

LinkInv ==
    /\ \A u \in Users, k \in Keys : pointer[u][k] # NoPreview =>
          [pid |-> pointer[u][k], user |-> u, key |-> k] \in shown
    /\ \A r \in Previewers : previewPc[r] = "fetch" => Of(r) \in shown
    /\ \A r \in Previewers : previewPc[r] = "storePointer" => Of(r) \in issued \ shown
    /\ \A q, r \in Previewers :
          previewPc[q] = "storePointer" /\ previewPc[r] = "storePointer"
          /\ preview[q].pid = preview[r].pid => q = r

WholeInv == HistoryInv /\ PreviewInv /\ LinkInv

LEMMA WholeInit == Init => WholeInv
<1>1. Init => LinkInv
  BY DEF Init, TranslateInit, CacheInit, LinkInv
<1> QED BY <1>1, PreviewInit, InvInit DEF Init, WholeInv

LEMMA PreviewKeepsHistory ==
    ASSUME WholeInv, NEW r \in Previewers, PreviewStep(r), UNCHANGED <<tableVars, saveVars>>
    PROVE  [HistoryNext]_historyVars
<1>r. /\ previewPc[r] # "idle" => preview[r].user \in Users /\ preview[r].key \in Keys
      /\ previewPc[r] \in {"fetch", "storePointer"} => preview[r].pid \in PreviewIds
      /\ CacheTypeOK
  BY DEF WholeInv, PreviewInv, GateInv, JobsOK, FetchedOK
<1>1. CASE FetchHit(r)
  <2>1. Of(r) \in shown
    BY <1>1 DEF FetchHit, WholeInv, LinkInv
  <2>2. shown' = shown
    BY <1>1, <2>1 DEF FetchHit, Show, Of
  <2> QED BY <1>1, <2>2 DEF FetchHit, historyVars, cacheVars
<1>2. CASE FetchMiss(r)
  <2>1. CASE DropsOnRead(preview[r].pid, preview[r].user)
    <3>1. ExpireData(preview[r].pid)
      BY <1>2, <2>1 DEF FetchMiss, ReadMiss, DropsOnRead, ExpireData
    <3> QED BY <1>2, <1>r, <3>1 DEF FetchMiss, HistoryNext, CacheTime
  <2>2. CASE ~DropsOnRead(preview[r].pid, preview[r].user)
    BY <1>2, <2>2 DEF FetchMiss, ReadMiss, historyVars, cacheVars
  <2> QED BY <2>1, <2>2
<1>3. CASE StorePayload(r)
  <2>1. \E p \in PreviewIds, u \in Users, k \in Keys : StoreData(p, u, k)
    BY <1>3, <1>r DEF StorePayload
  <2> QED BY <1>3, <2>1 DEF StorePayload, HistoryNext, PreviewedElsewhere
<1>4. CASE PointAndAnswer(r)
  <2>1. Of(r) \in issued \ shown
    BY <1>4 DEF PointAndAnswer, WholeInv, LinkInv
  <2>2. StorePointer(Of(r).pid, Of(r).user, Of(r).key) /\ Show(Of(r).pid, Of(r).user, Of(r).key)
    BY <1>4 DEF PointAndAnswer, Of
  <2> QED BY <1>4, <2>1, <2>2 DEF PointAndAnswer, HistoryNext, PreviewedElsewhere
<1> QED
  BY <1>1, <1>2, <1>3, <1>4
  DEF PreviewStep, Gates, SwitchGate, Lookup, TranslateCore, historyVars

LEMMA SaveKeepsPreviews ==
    ASSUME WholeInv, NEW r \in Savers, SaveStep(r), UNCHANGED <<gateVars, previewVars>>
    PROVE  [TranslateNext]_translateVars
<1>r. /\ savePc[r] # "idle" => save[r].user \in Users /\ save[r].pid \in PreviewIds
      /\ RequestInv(r)
      /\ CacheTypeOK
  BY DEF WholeInv, HistoryInv, TypeInv, HistoryTypeOK, ArgumentsOK
<1>1. CASE LoadLate(r)
  <2>1. Lapse(save[r].pid)
    BY <1>1 DEF LoadLate, Readable, Lapse
  <2> QED BY <1>1, <1>r, <2>1 DEF LoadLate, TranslateNext, CacheTime
<1>2. CASE LoadMiss(r)
  <2>1. CASE DropsOnRead(save[r].pid, save[r].user)
    <3>1. ExpireData(save[r].pid)
      BY <1>2, <2>1 DEF LoadMiss, ReadMiss, DropsOnRead, ExpireData
    <3> QED BY <1>2, <1>r, <3>1 DEF LoadMiss, TranslateNext, CacheTime
  <2>2. CASE ~DropsOnRead(save[r].pid, save[r].user)
    BY <1>2, <2>2 DEF LoadMiss, ReadMiss, translateVars, cacheVars
  <2> QED BY <2>1, <2>2
<1>3. CASE Consume(r)
  <2> DEFINE v == [pid |-> save[r].pid, user |-> save[r].user, key |-> save[r].key]
  <2>1. v \in shown
    BY <1>3, <1>r DEF Consume, RequestInv, HeldPoints
  <2>2. Evict(v.pid, v.user, v.key) /\ UNCHANGED <<marker, issued, shown>>
    BY <1>3 DEF Consume
  <2> QED BY <2>1, <2>2 DEF TranslateNext, SavedElsewhere
<1>4. CASE Mark(r)
  <2>1. PICK v \in shown : v.pid = save[r].pid
    BY <1>4, <1>r DEF Mark, RequestInv, Shown
  <2>2. SetMarker(v.pid) /\ UNCHANGED <<data, pointer, issued, shown>>
    BY <1>4, <2>1 DEF Mark
  <2> QED BY <2>1, <2>2 DEF TranslateNext, SavedElsewhere
<1> QED
  BY <1>1, <1>2, <1>3, <1>4
  DEF SaveStep, CheckIdempotency, Conflict, LoadHit, CreateTaken, Create, Count, Select, Prune,
      translateVars

LEMMA HistorySide ==
    ASSUME WholeInv, [Next]_vars
    PROVE  [HistoryNext]_historyVars
<1>1. ASSUME NEW r \in Previewers, PreviewStep(r), UNCHANGED <<tableVars, saveVars>>
      PROVE  [HistoryNext]_historyVars
  BY <1>1, PreviewKeepsHistory
<1>2. CASE Restart
  BY <1>2 DEF Restart, RestartSaves, HistoryNext
<1> QED
  BY <1>1, <1>2
  DEF Next, PreviewRequests, PreviewFails, StartPreview, Decisions, SetPermitted, SetAgeConfirmed,
      HistoryNext, historyVars, vars

LEMMA TranslateSide ==
    ASSUME WholeInv, [Next]_vars
    PROVE  [TranslateNext]_translateVars
<1>1. ASSUME NEW r \in Savers, SaveStep(r), UNCHANGED <<gateVars, previewVars>>
      PROVE  [TranslateNext]_translateVars
  BY <1>1, SaveKeepsPreviews
<1>2. CASE Restart
  BY <1>2 DEF Restart, RestartPreviews, TranslateNext
<1> QED
  BY <1>1, <1>2
  DEF Next, SaveRequests, SaveFails, StartSave, HistoryRequests, SetFavorite, DeleteTranslation,
      ClearHistory, TranslateNext, translateVars, vars

-----------------------------------------------------------------------------
LEMMA ForgetsLink == ASSUME LinkInv, Forgets, UNCHANGED previewVars PROVE LinkInv'
<1>1. \A r \in Previewers : Of(r)' = Of(r)
  BY DEF Of, previewVars
<1> QED BY <1>1 DEF LinkInv, Forgets, previewVars

\* A request that takes another step, or none, and leaves the cache as it was or older.
LEMMA OtherLink ==
    ASSUME LinkInv, Forgets,
           \A s \in Previewers :
              \/ previewPc'[s] \notin {"fetch", "storePointer"}
              \/ /\ previewPc'[s] = previewPc[s]
                 /\ preview'[s].pid = preview[s].pid /\ preview'[s].user = preview[s].user
                 /\ preview'[s].key = preview[s].key
    PROVE  LinkInv'
<1>1. \A s \in Previewers : previewPc'[s] \in {"fetch", "storePointer"} =>
         /\ previewPc[s] = previewPc'[s] /\ Of(s)' = Of(s) /\ preview'[s].pid = preview[s].pid
  BY DEF Of
<1> QED BY <1>1 DEF LinkInv, Forgets

LEMMA PreviewStepLink ==
    ASSUME WholeInv, NEW r \in Previewers, PreviewStep(r)
    PROVE  LinkInv'
<1>t. /\ previewPc \in [Previewers -> PreviewPoints] /\ preview \in [Previewers -> PreviewJob]
      /\ CacheTypeOK /\ FetchedOK /\ LinkInv /\ CacheInv
      /\ previewPc[r] # "idle" => preview[r].user \in Users /\ preview[r].key \in Keys
  BY DEF WholeInv, PreviewInv, GateInv, JobsOK, HistoryInv
<1>o. \A s \in Previewers \ {r} :
         previewPc'[s] = previewPc[s] /\ preview'[s] = preview[s] /\ Of(s)' = Of(s)
  BY <1>t DEF PreviewStep, Gates, SwitchGate, Lookup, FetchHit, FetchMiss, TranslateCore,
              StorePayload, PointAndAnswer, AnswerPreview, PreviewGoto, Of
<1>1. CASE Lookup(r)
  <2>1. UNCHANGED <<pointer, issued, shown>>
    BY <1>1 DEF Lookup, cacheVars
  <2>2. previewPc'[r] # "storePointer"
    BY <1>1, <1>t DEF Lookup, PreviewGoto
  <2>3. previewPc'[r] = "fetch" => Of(r)' \in shown
    BY <1>1, <1>t DEF Lookup, PreviewGoto, PreviewJob, LinkInv, Of
  <2> QED BY <1>o, <1>t, <2>1, <2>2, <2>3 DEF LinkInv
<1>2. CASE FetchHit(r)
  <2>1. shown' = shown /\ UNCHANGED <<pointer, issued>> /\ previewPc'[r] = "idle"
    BY <1>2, <1>t DEF FetchHit, Show, Of, LinkInv, AnswerPreview, PreviewGoto
  <2> QED BY <1>o, <1>t, <2>1 DEF LinkInv
<1>3. CASE StorePayload(r)
  <2>1. PICK p \in PreviewIds : /\ StoreData(p, preview[r].user, preview[r].key)
                               /\ preview' = [preview EXCEPT ![r].pid = p]
    BY <1>3 DEF StorePayload
  <2>2. previewPc'[r] = "storePointer" /\ UNCHANGED <<pointer, shown>>
    BY <1>3, <1>t DEF StorePayload, PreviewGoto
  <2>3. /\ Of(r)' = [pid |-> p, user |-> preview[r].user, key |-> preview[r].key]
        /\ preview'[r].pid = p
    BY <2>1, <1>t DEF Of, PreviewJob
  <2>4. issued' = issued \cup {Of(r)'} /\ \A v \in issued : v.pid # p
    BY <2>1, <2>3 DEF StoreData
  <2>5. Of(r)' \in issued' \ shown'
    BY <1>t, <2>2, <2>3, <2>4 DEF CacheInv
  <2>6. \A s \in Previewers \ {r} : previewPc[s] = "storePointer" => preview[s].pid # p
    BY <1>t, <2>4 DEF LinkInv, Of
  <2> QED BY <1>o, <1>t, <2>2, <2>3, <2>4, <2>5, <2>6 DEF LinkInv
<1>4. CASE PointAndAnswer(r)
  <2>1. previewPc[r] = "storePointer" /\ previewPc'[r] = "idle" /\ UNCHANGED issued
    BY <1>4, <1>t DEF PointAndAnswer, AnswerPreview, PreviewGoto
  <2>2. shown' = shown \cup {Of(r)}
    BY <1>4 DEF PointAndAnswer, Show, Of
  <2>3. \A s \in Previewers \ {r} : previewPc[s] = "storePointer" => Of(s) # Of(r)
    BY <1>t, <2>1 DEF LinkInv, Of
  <2>4. \A u \in Users, k \in Keys : pointer'[u][k] # NoPreview =>
           [pid |-> pointer'[u][k], user |-> u, key |-> k] \in shown'
    BY <1>4, <1>t, <2>2 DEF PointAndAnswer, StorePointer, CacheTypeOK, LinkInv, Of
  <2> QED BY <1>o, <1>t, <2>1, <2>2, <2>3, <2>4 DEF LinkInv
<1>5. CASE FetchMiss(r)
  <2>1. Forgets
    BY <1>5, <1>t DEF FetchMiss, ReadMiss, Forgets, Ages, CacheTypeOK
  <2>2. previewPc'[r] = "translate"
    BY <1>5, <1>t DEF FetchMiss, PreviewGoto
  <2> QED BY <1>o, <1>t, <2>1, <2>2, OtherLink
<1>6. CASE Gates(r) \/ SwitchGate(r) \/ TranslateCore(r)
  <2>1. Forgets
    BY <1>6, UnchangedForgets DEF Gates, SwitchGate, TranslateCore, cacheVars
  <2>2. previewPc'[r] \notin {"fetch", "storePointer"}
    BY <1>6, <1>t DEF Gates, SwitchGate, TranslateCore, AnswerPreview, PreviewGoto
  <2> QED BY <1>o, <1>t, <2>1, <2>2, OtherLink
<1> QED BY <1>1, <1>2, <1>3, <1>4, <1>5, <1>6 DEF PreviewStep

LEMMA LinkStep ==
    ASSUME WholeInv, [Next]_vars
    PROVE  LinkInv'
<1>t. /\ previewPc \in [Previewers -> PreviewPoints] /\ preview \in [Previewers -> PreviewJob]
      /\ CacheTypeOK /\ LinkInv /\ TypeInv
  BY DEF WholeInv, PreviewInv, GateInv, JobsOK, HistoryInv
<1>k. UNCHANGED cacheVars => Forgets
  BY UnchangedForgets DEF cacheVars
<1>1. ASSUME NEW r \in Previewers, PreviewStep(r) PROVE LinkInv'
  BY <1>1, PreviewStepLink
<1>2. ASSUME NEW r \in Previewers, PreviewFails(r) PROVE LinkInv'
  <2>1. /\ previewPc'[r] \notin {"fetch", "storePointer"}
        /\ \A s \in Previewers \ {r} : previewPc'[s] = previewPc[s] /\ preview'[s] = preview[s]
    BY <1>2, <1>t DEF PreviewFails, AnswerPreview, PreviewGoto
  <2> QED BY <1>2, <1>k, <1>t, <2>1, OtherLink DEF PreviewFails
<1>3. ASSUME NEW r \in Previewers, NEW u \in Users, NEW k \in Keys, StartPreview(r, u, k)
      PROVE  LinkInv'
  <2>1. /\ previewPc'[r] \notin {"fetch", "storePointer"}
        /\ \A s \in Previewers \ {r} : previewPc'[s] = previewPc[s] /\ preview'[s] = preview[s]
    BY <1>3, <1>t DEF StartPreview, PreviewGoto
  <2> QED BY <1>3, <1>k, <1>t, <2>1, OtherLink DEF StartPreview
<1>4. CASE Decisions
  <2>1. UNCHANGED <<cacheVars, previewPc>>
    BY <1>4 DEF Decisions, SetPermitted, SetAgeConfirmed
  <2>2. \A s \in Previewers : /\ preview'[s].pid = preview[s].pid
                            /\ preview'[s].user = preview[s].user
                            /\ preview'[s].key = preview[s].key
    <3>1. ASSUME NEW p, NEW U, Witness(p, U), NEW s \in Previewers
          PROVE  /\ preview'[s].pid = preview[s].pid
                 /\ preview'[s].user = preview[s].user
                 /\ preview'[s].key = preview[s].key
      <4>1. preview[s] \in PreviewJob
        BY <1>t
      <4> QED BY <3>1, <4>1 DEF Witness, PreviewJob
    <3> QED BY <1>4, <3>1 DEF Decisions, SetPermitted, SetAgeConfirmed
  <2> QED BY <1>k, <1>t, <2>1, <2>2, OtherLink
<1>5. CASE (SaveRequests \/ HistoryRequests) /\ UNCHANGED previewVars
  <2>1. Forgets
    BY <1>5, <1>k, <1>t, SaveStepForgets
    DEF SaveRequests, SaveFails, StartSave, HistoryRequests, SetFavorite, DeleteTranslation,
        ClearHistory
  <2> QED BY <1>5, <1>t, <2>1, ForgetsLink
<1>6. CASE CacheTime /\ UNCHANGED previewVars
  BY <1>6, <1>t, TimeForgets, ForgetsLink
<1>7. CASE Restart
  <2>1. Forgets
    BY <1>7, <1>k, <1>t, TimeForgets DEF Restart
  <2>2. \A s \in Previewers : previewPc'[s] = "idle"
    BY <1>7 DEF Restart, PreviewsLost
  <2> QED BY <1>t, <2>1, <2>2, OtherLink
<1>8. CASE UNCHANGED vars
  BY <1>8, <1>k, <1>t, ForgetsLink DEF vars
<1> QED
  BY <1>1, <1>2, <1>3, <1>4, <1>5, <1>6, <1>7, <1>8 DEF Next, PreviewRequests

\* The two invariants and what ties them together hold in every state of the composition.
THEOREM WholeInvariant == Spec => []WholeInv
<1>1. WholeInv /\ [Next]_vars => WholeInv'
  BY HistorySide, TranslateSide, InvStep, PreviewInvStep, LinkStep DEF WholeInv
<1> QED BY <1>1, WholeInit, PTL DEF Spec

\* Preview and save over one cache implement the save component: the preview requests
\* do to Redis exactly what it expects of them.
THEOREM ImplementsHistory == Spec => HistorySpec
<1>1. Init => HistoryInit
  BY DEF Init
<1>2. WholeInv /\ [Next]_vars => [HistoryNext]_historyVars
  BY HistorySide
<1> QED BY <1>1, <1>2, WholeInvariant, PTL DEF Spec, HistorySpec

\* They implement the preview component: a save evicts and marks only what was shown.
THEOREM ImplementsTranslate == Spec => TranslateSpec
<1>1. Init => TranslateInit
  BY DEF Init
<1>2. WholeInv /\ [Next]_vars => [TranslateNext]_translateVars
  BY TranslateSide
<1> QED BY <1>1, <1>2, WholeInvariant, PTL DEF Spec, TranslateSpec

\* What is proved of either component alone holds of both together: the gates, the
\* consumed preview, the pointer that stays, one row per preview, a 409 that hides no
\* loss, what a prune spares and reaches, and the ledger.
THEOREM WholeKeepsPromises ==
    Spec => /\ [](GatesOutrankCache /\ SavedMeansConsumed /\ OneRowPerPreview /\ ConflictMeansSaved)
            /\ LivePreviewStaysCached /\ PruneSparesOwnRow /\ PruneReachesCap
            /\ ImplementsLedger
BY ImplementsHistory, ImplementsTranslate, GatesComeFirst, SavedIsConsumed, SavedAtMostOnce,
   ConflictIsNoLoss, LivePreviewKeepsPointer, PruneIsSelective, PruneReaches,
   SaveImplementsLedger, PTL
=============================================================================
