---------------------------- MODULE HistoryList ----------------------------
(***************************************************************************)
(* The History screen of the Mini App over GET, PATCH and DELETE /history: *)
(* keyset pages of one user's rows, the infinite query that collects them  *)
(* per search and filter, and the changes that make it start over.  A page *)
(* is asked for, read by the server and delivered in three steps; the      *)
(* cache is TanStack Query, as the page uses it.                           *)
(***************************************************************************)
EXTENDS Integers, FiniteSets, SequencesExt

CONSTANTS
    Rows,       \* translations by their id
    CreatedAt,  \* when each of them was saved
    Keys,       \* searches and filters: [finds : SUBSET Rows, favorite : BOOLEAN]
    Calls,      \* slots for changes in flight
    Nothing,    \* no row
    PageSize,   \* PAGE_SIZE
    MaxChanges  \* bound of the model: writes to the table

ASSUME ListAssumption ==
    /\ Rows \subseteq Nat /\ IsFiniteSet(Rows) /\ Nothing \notin Rows
    /\ CreatedAt \in [Rows -> Nat]
    /\ Keys \subseteq [finds : SUBSET Rows, favorite : BOOLEAN]
    /\ [finds |-> Rows, favorite |-> FALSE] \in Keys
    /\ PageSize \in Nat \ {0} /\ MaxChanges \in Nat

VARIABLES
    db,       \* table Translation: the rows, and those of them with favorite
    used,     \* ids the table ever had
    changes,  \* history: writes so far, up to MaxChanges
    page,     \* HistoryPage: is it open, its query key, the key of the data it shows
              \* meanwhile (backing), pendingDelete (dialog), errorBanner (banner)
    query,    \* per key: has it data, the items of its pages, one after the other, is
              \* nextCursor of the last one set (more), is it invalidated
    fetch,    \* per key, the request of its query in flight, if it is on: the pages read so
              \* far, the number it is to have at its end (want), is a page on its way back
    call,     \* changes in flight: what is done to which row and how far it is; is the page
              \* that asked for it still mounted (mine)
    past      \* history, per key: the rows that matched ever since page one of the data was
              \* read (listed), those of the pages in flight (coming), and whether the data
              \* missed a change that nobody will tell it of (behind), or will (late)

tableVars == <<db, used, changes>>
listVars == <<tableVars, page, query, fetch, call, past>>

NoQuery == [has |-> FALSE, items |-> <<>>, more |-> FALSE, invalid |-> FALSE]
NoFetch == [on |-> FALSE, back |-> FALSE, items |-> <<>>, more |-> FALSE, want |-> 0]
NoPast == [listed |-> {}, coming |-> {}, behind |-> FALSE, late |-> FALSE]
NoCall == [kind |-> "none", row |-> Nothing, value |-> FALSE, at |-> "find", mine |-> FALSE]

-----------------------------------------------------------------------------
(* getHistory.                                                             *)

Matching(k, table) ==
    {r \in table.rows \cap k.finds : k.favorite => r \in table.starred}

\* orderBy createdAt desc, id desc: i - 1 rows come before the i-th.
Newer(r, s) == CreatedAt[r] > CreatedAt[s] \/ (CreatedAt[r] = CreatedAt[s] /\ r > s)

InOrder(R) ==
    [i \in 1..Cardinality(R) |->
        CHOOSE r \in R : Cardinality({s \in R : Newer(s, r)}) = i - 1]

\* Wrong form: rows of one timestamp have no order.
AfterTimestamp(r, cursor) == cursor = Nothing \/ CreatedAt[cursor] > CreatedAt[r]

\* Wrong form: the row the cursor was made of comes again.
FromCursor(r, cursor) == cursor = Nothing \/ ~Newer(r, cursor)

AfterCursor(r, cursor) == cursor = Nothing \/ Newer(cursor, r)

Listing(k, cursor) == InOrder({r \in Matching(k, db) : AfterCursor(r, cursor)})

AsItems(rows) == [i \in DOMAIN rows |-> [row |-> rows[i], favorite |-> rows[i] \in db.starred]]

\* encodeCursor of the last row of the data so far.
Cursor(items) == IF items = <<>> THEN Nothing ELSE Last(items).row

-----------------------------------------------------------------------------
(* The query cache.                                                        *)

\* Pages of a query with such data; the first page may be empty.
Pages(items) == IF items = <<>> THEN 1 ELSE (Len(items) + PageSize - 1) \div PageSize

\* All its pages again, from the first.
FromStart(k) == [NoFetch EXCEPT !.on = TRUE, !.want = Pages(query[k].items)]

Active(k) == page.open /\ page.key = k

HasRead(k) == fetch[k].on /\ (fetch[k].items # <<>> \/ fetch[k].back)

\* Wrong form: a request in flight is as good as a new one.
InvalidateLazily ==
    /\ query' = [k \in Keys |-> [query[k] EXCEPT !.invalid = TRUE]]
    /\ fetch' = [k \in Keys |-> IF Active(k) /\ ~fetch[k].on THEN FromStart(k) ELSE fetch[k]]
    /\ past' = [k \in Keys |-> [past[k] EXCEPT !.late =
                    @ \/ (HasRead(k) /\ ~(Active(k) /\ query[k].has))]]

\* invalidateQueries: the query on the screen starts over and leaves the request in
\* flight unread, unless that is its first; the others are marked, and whatever they
\* have in flight takes the mark away again.
Invalidate ==
    /\ query' = [k \in Keys |-> [query[k] EXCEPT !.invalid = TRUE]]
    /\ LET restarts == {k \in Keys : Active(k) /\ (query[k].has \/ ~fetch[k].on)}
       IN  /\ fetch' = [k \in Keys |-> IF k \in restarts THEN FromStart(k) ELSE fetch[k]]
           /\ past' = [k \in Keys |-> [past[k] EXCEPT
                          !.late = k \notin restarts /\ (@ \/ HasRead(k))]]

StartOver(k) ==
    /\ fetch' = [fetch EXCEPT ![k] = FromStart(k)]
    /\ past' = [past EXCEPT ![k].late = FALSE]

\* An observer of k appears: it joins the request in flight, starts one for data that
\* is missing or invalid, and may find the data older than staleTime.
Observe(k) ==
    \/ /\ fetch[k].on \/ (query[k].has /\ ~query[k].invalid)
       /\ UNCHANGED <<fetch, past>>
    \/ ~fetch[k].on /\ StartOver(k)

\* What the page lists: with no data for its key yet, it keeps the list of the key before.
Shown == query[IF query[page.key].has THEN page.key ELSE page.backing].items

-----------------------------------------------------------------------------
(* The page.                                                               *)

FirstKey == [finds |-> Rows, favorite |-> FALSE]

Open ==
    /\ ~page.open
    /\ page' = [open |-> TRUE, key |-> FirstKey, backing |-> FirstKey,
                dialog |-> Nothing, banner |-> FALSE]
    /\ Observe(FirstKey)
    /\ UNCHANGED <<tableVars, query, call>>

Leave ==
    /\ page.open
    /\ page' = [page EXCEPT !.open = FALSE, !.dialog = Nothing, !.banner = FALSE]
    /\ call' = [m \in Calls |-> [call[m] EXCEPT !.mine = FALSE]]
    /\ UNCHANGED <<tableVars, query, fetch, past>>

\* The search, 500 ms after the last key, or the filter.
ChooseKey(k) ==
    /\ page.open /\ k # page.key /\ page.dialog = Nothing
    /\ page' = [page EXCEPT !.key = k,
                            !.backing = IF query[k].has THEN k
                                        ELSE IF query[page.key].has THEN page.key ELSE @]
    /\ Observe(k)
    /\ UNCHANGED <<tableVars, query, call>>

\* Only a next page in flight disables the button: a list that starts over is
\* abandoned for one more page of the old one.
LoadMore ==
    LET k == page.key IN
    /\ page.open /\ page.dialog = Nothing /\ query[k].more
    /\ ~(fetch[k].on /\ fetch[k].want > Pages(query[k].items))
    /\ fetch' = [fetch EXCEPT ![k] =
                    [on |-> TRUE, back |-> FALSE, items |-> query[k].items, more |-> TRUE,
                     want |-> Pages(query[k].items) + 1]]
    /\ past' = [past EXCEPT ![k].coming = past[k].listed,
                            ![k].late = past[k].behind \/ query[k].invalid]
    /\ UNCHANGED <<tableVars, page, query, call>>

\* handleRetry
Retry ==
    LET k == page.key IN
    /\ page.banner
    /\ page' = [page EXCEPT !.banner = FALSE]
    /\ IF query[k].has \/ ~fetch[k].on THEN StartOver(k) ELSE UNCHANGED <<fetch, past>>
    /\ UNCHANGED <<tableVars, query, call>>

Dismiss ==
    /\ page.banner
    /\ page' = [page EXCEPT !.banner = FALSE]
    /\ UNCHANGED <<tableVars, query, fetch, call, past>>

Ask(m, kind, row, value, at) ==
    /\ call[m].kind = "none"
    /\ call' = [call EXCEPT ![m] = [kind |-> kind, row |-> row, value |-> value, at |-> at,
                                    mine |-> page.open]]
    /\ UNCHANGED <<tableVars, query, fetch, past>>

\* The flag asked for is the opposite of the one on the screen.
ToggleFavorite(m) ==
    /\ page.open /\ page.dialog = Nothing
    /\ \E i \in DOMAIN Shown : Ask(m, "star", Shown[i].row, ~Shown[i].favorite, "find")
    /\ UNCHANGED page

Delete ==
    /\ page.open /\ page.dialog = Nothing
    /\ \E i \in DOMAIN Shown : page' = [page EXCEPT !.dialog = Shown[i].row]
    /\ UNCHANGED <<tableVars, query, fetch, call, past>>

ConfirmDelete(m) ==
    /\ page.dialog # Nothing
    /\ \A n \in Calls : ~(call[n].kind = "delete" /\ call[n].mine)
    /\ Ask(m, "delete", page.dialog, FALSE, "find")
    /\ UNCHANGED page

\* The button, the overlay or Escape; the request of a confirmed one goes on.
CancelDelete ==
    /\ page.dialog # Nothing
    /\ page' = [page EXCEPT !.dialog = Nothing]
    /\ UNCHANGED <<tableVars, query, fetch, call, past>>

\* The save button of TranslatePage, "clear history" of SettingsPage.
ChangeElsewhere(m) ==
    /\ ~page.open
    /\ \/ Ask(m, "clear", Nothing, FALSE, "write")
       \/ \E r \in Rows \ used : Ask(m, "save", r, FALSE, "write")
    /\ UNCHANGED page

-----------------------------------------------------------------------------
(* The server.                                                             *)

\* The table becomes t; the page will not hear of it if missed.
Becomes(t, missed) ==
    /\ changes < MaxChanges /\ changes' = changes + 1
    /\ db' = t
    /\ used' = used \cup t.rows
    /\ past' = [k \in Keys |-> [past[k] EXCEPT
                    !.listed = @ \cap Matching(k, t), !.coming = @ \cap Matching(k, t),
                    !.behind = @ \/ missed, !.late = @ \/ missed]]

Gone(t, R) == [rows |-> t.rows \ R, starred |-> t.starred \ R]

\* What the write of a call may leave.  A save prunes old rows that were no favourites
\* when it picked them: any of them may have been starred since.
Outcomes(c) ==
    CASE c.kind = "star" ->
            {[db EXCEPT !.starred = IF c.value THEN @ \cup {c.row} ELSE @ \ {c.row}]}
      [] c.kind = "delete" -> {Gone(db, {c.row})}
      [] c.kind = "clear" -> {Gone(db, db.rows)}
      [] c.kind = "save" -> {Gone([db EXCEPT !.rows = @ \cup {c.row}], P) :
                                P \in SUBSET db.rows}

\* findFirst of setFavorite and deleteTranslation.
FindRow(m) ==
    /\ call[m].kind \in {"star", "delete"} /\ call[m].at = "find"
    /\ call' = [call EXCEPT ![m].at = IF call[m].row \in db.rows THEN "write" ELSE "refused"]
    /\ UNCHANGED <<tableVars, page, query, fetch, past>>

\* A row that went away since it was found makes Prisma throw; an id is used once.
Write(m) ==
    LET c == call[m] IN
    /\ c.kind # "none" /\ c.at = "write"
    /\ \/ /\ c.kind \in {"star", "delete"} => c.row \in db.rows
          /\ c.kind = "save" => c.row \notin used
          /\ \E t \in Outcomes(c) : Becomes(t, FALSE)
          /\ call' = [call EXCEPT ![m].at = "done"]
       \/ /\ (c.kind \in {"star", "delete"} /\ c.row \notin db.rows)
             \/ (c.kind = "save" /\ c.row \in used)
          /\ call' = [call EXCEPT ![m].at = "refused"]
          /\ UNCHANGED <<tableVars, past>>
    /\ UNCHANGED <<page, query, fetch>>

\* Another device of the user changes something; this one is not told.
ChangeOnOtherDevice ==
    /\ \/ \E r \in db.rows : Becomes(Gone(db, {r}), TRUE)
       \/ \E r \in db.rows : Becomes([db EXCEPT !.starred = (@ \cup {r}) \ (@ \cap {r})], TRUE)
       \/ \E r \in Rows \ used : Becomes([db EXCEPT !.rows = @ \cup {r}], TRUE)
    /\ UNCHANGED <<page, query, fetch, call>>

\* One page: PageSize rows after the cursor, one more to see whether it is the last.
ReadPage(k) ==
    LET f == fetch[k]
        found == Listing(k, Cursor(f.items))
        more == Len(found) > PageSize
    IN  /\ f.on /\ ~f.back
        /\ fetch' = [fetch EXCEPT ![k].back = TRUE, ![k].more = more,
                        ![k].items = @ \o AsItems(IF more THEN SubSeq(found, 1, PageSize) ELSE found)]
        /\ past' = IF f.items = <<>> THEN [past EXCEPT ![k].coming = Matching(k, db)] ELSE past
        /\ UNCHANGED <<tableVars, page, query, call>>

-----------------------------------------------------------------------------
(* Answers.                                                                *)

\* The next page is asked for, or the pages are the new data of the query.
PageArrives(k) ==
    LET f == fetch[k] IN
    /\ f.on /\ f.back
    /\ \/ /\ f.more /\ Pages(f.items) < f.want
          /\ fetch' = [fetch EXCEPT ![k].back = FALSE]
          /\ UNCHANGED <<query, past>>
       \/ /\ ~f.more \/ Pages(f.items) >= f.want
          /\ query' = [query EXCEPT ![k] =
                          [has |-> TRUE, items |-> f.items, more |-> f.more, invalid |-> FALSE]]
          /\ fetch' = [fetch EXCEPT ![k] = NoFetch]
          /\ past' = [past EXCEPT ![k] = [listed |-> past[k].coming, coming |-> {},
                                          behind |-> past[k].late, late |-> FALSE]]
    /\ UNCHANGED <<tableVars, page, call>>

\* A page fails and its retry too: the data stays, and is no longer trusted.
FetchFails(k) ==
    /\ fetch[k].on
    /\ fetch' = [fetch EXCEPT ![k] = NoFetch]
    /\ query' = [query EXCEPT ![k].invalid = TRUE]
    /\ past' = [past EXCEPT ![k].coming = {}, ![k].late = FALSE]
    /\ UNCHANGED <<tableVars, page, call>>

\* onSettled closes whatever dialog is there, handleApiError may raise the banner: both
\* on the page that asked, if it is still there.
Settle(m, alarm) ==
    /\ call' = [call EXCEPT ![m] = NoCall]
    /\ page' = IF ~call[m].mine THEN page
               ELSE [page EXCEPT !.dialog = IF call[m].kind = "delete" THEN Nothing ELSE @,
                                 !.banner = @ \/ alarm]

Succeed(m) ==
    /\ call[m].kind # "none" /\ call[m].at = "done"
    /\ Settle(m, FALSE)
    /\ Invalidate
    /\ UNCHANGED tableVars

\* handleApiError: 404, 500, or a request that was refused before it changed anything.
\* A 401 raises no banner.
Refuse(m) ==
    /\ call[m].kind # "none" /\ call[m].at # "done"
    /\ \E alarm \in BOOLEAN : Settle(m, alarm)
    /\ UNCHANGED <<tableVars, query, fetch, past>>

\* The change was made and the answer is lost: the page shows an error, and the old list.
LoseAnswer(m) ==
    /\ call[m].kind # "none" /\ call[m].at = "done"
    /\ Settle(m, TRUE)
    /\ past' = [k \in Keys |-> [past[k] EXCEPT !.behind = TRUE, !.late = TRUE]]
    /\ UNCHANGED <<tableVars, query, fetch>>

-----------------------------------------------------------------------------
Init ==
    /\ used \in SUBSET Rows
    /\ db \in [rows : {used}, starred : SUBSET used]
    /\ changes = 0
    /\ page = [open |-> FALSE, key |-> FirstKey, backing |-> FirstKey,
               dialog |-> Nothing, banner |-> FALSE]
    /\ query = [k \in Keys |-> NoQuery]
    /\ fetch = [k \in Keys |-> NoFetch]
    /\ call = [m \in Calls |-> NoCall]
    /\ past = [k \in Keys |-> NoPast]

Next ==
    \/ Open \/ Leave \/ LoadMore \/ Retry \/ Dismiss \/ Delete \/ CancelDelete
    \/ \E k \in Keys : ChooseKey(k) \/ ReadPage(k) \/ PageArrives(k) \/ FetchFails(k)
    \/ \E m \in Calls :
          \/ ToggleFavorite(m) \/ ConfirmDelete(m) \/ ChangeElsewhere(m)
          \/ FindRow(m) \/ Write(m) \/ Succeed(m) \/ Refuse(m) \/ LoseAnswer(m)
    \/ ChangeOnOtherDevice

Spec == Init /\ [][Next]_listVars

-----------------------------------------------------------------------------
\* Timestamps are shared and rows come and go between two pages of a listing: still the
\* list is in order, and no row is in it twice.
NoRowTwice ==
    \A k \in Keys : LET items == query[k].items IN
        \A i, j \in DOMAIN items : i < j => Newer(items[i].row, items[j].row)

\* A row that was there, and matched, from the first page of a listing to its last is in
\* it, whatever was saved, starred, deleted or pruned in between.
NothingIsSkipped ==
    \A k \in Keys : query[k].has =>
        LET listed == {query[k].items[i].row : i \in DOMAIN query[k].items}
            reached == {r \in Rows : query[k].more =>
                            r = Last(query[k].items).row \/ Newer(r, Last(query[k].items).row)}
        IN  past[k].listed \cap reached \subseteq listed

\* When the last change is answered and the last page is in, the page shows what the
\* server has, row by row and star by star.  The cases where the code leaves the list
\* behind are those that set behind, and no others.
SettledListIsTrue ==
    \A k \in Keys :
        /\ query[k].has /\ ~query[k].invalid /\ ~fetch[k].on /\ ~past[k].behind
        /\ \A m \in Calls : call[m].kind = "none"
        => LET all == Listing(k, Nothing)
               n == Len(query[k].items)
           IN  /\ n <= Len(all)
               /\ query[k].items = AsItems(SubSeq(all, 1, n))
               /\ query[k].more <=> n < Len(all)
=============================================================================
