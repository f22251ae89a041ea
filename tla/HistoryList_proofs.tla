------------------------- MODULE HistoryList_proofs -------------------------
(***************************************************************************)
(* The list of the History screen is in order, skips nothing, and is what  *)
(* the server has once it has settled, for any rows, timestamps, searches  *)
(* and changes.                                                            *)
(***************************************************************************)
EXTENDS HistoryList, FiniteSetTheorems, TLAPS

Item == [row : Rows, favorite : BOOLEAN]

Query == [has : BOOLEAN, items : Seq(Item), more : BOOLEAN, invalid : BOOLEAN]
Fetch == [on : BOOLEAN, back : BOOLEAN, items : Seq(Item), more : BOOLEAN, want : Nat]
Call == [kind : {"none", "star", "delete", "clear", "save"}, row : Rows \cup {Nothing},
         value : BOOLEAN, at : {"find", "write", "refused", "done"}, mine : BOOLEAN]
Past == [listed : SUBSET Rows, coming : SUBSET Rows, behind : BOOLEAN, late : BOOLEAN]
Page == [open : BOOLEAN, key : Keys, backing : Keys, dialog : Rows \cup {Nothing},
         banner : BOOLEAN]

TypeOK ==
    /\ db \in [rows : SUBSET Rows, starred : SUBSET Rows] /\ used \in SUBSET Rows
    /\ changes \in Nat
    /\ page \in Page /\ query \in [Keys -> Query] /\ fetch \in [Keys -> Fetch]
    /\ call \in [Calls -> Call] /\ past \in [Keys -> Past]
    /\ \A m \in Calls : call[m].kind = "save" => call[m].row \in Rows

-----------------------------------------------------------------------------
(* The inductive invariant, of the items of some pages and of whether more *)
(* are to come.                                                            *)

Sorted(items) == \A i, j \in DOMAIN items : i < j => Newer(items[i].row, items[j].row)

Listed(items) == {items[i].row : i \in DOMAIN items}

Reached(items, more) ==
    {r \in Rows : more => r = items[Len(items)].row \/ Newer(r, items[Len(items)].row)}

\* They begin as the listing all, with the stars of now.
Begins(items, more, all, starred) ==
    /\ Len(items) <= Len(all)
    /\ \A i \in 1..Len(items) :
          items[i].row = all[i] /\ items[i].favorite = (all[i] \in starred)
    /\ more <=> Len(items) < Len(all)

\* No change of the page was made that the page has not been told of.
Told == \A m \in Calls : call[m].kind # "none" => call[m].at # "done"

OrderInv(k) == Sorted(query[k].items) /\ Sorted(fetch[k].items)

\* More is to come after some row, that of the cursor.
MoreInv(k) ==
    /\ query[k].more => query[k].has /\ query[k].items # <<>>
    /\ fetch[k].more => fetch[k].items # <<>>

\* What was there all the time, as far as the pages go, is in the pages.
CoverInv(k) ==
    /\ past[k].listed \cup past[k].coming \subseteq Matching(k, db)
    /\ query[k].has => past[k].listed \cap Reached(query[k].items, query[k].more)
                          \subseteq Listed(query[k].items)
    /\ HasRead(k) => past[k].coming \cap Reached(fetch[k].items, fetch[k].more)
                          \subseteq Listed(fetch[k].items)

\* Data that nothing speaks against is that of the server, and so is what is read.
TrueInv(k) ==
    Told =>
        /\ query[k].has /\ ~query[k].invalid /\ ~past[k].behind
              => Begins(query[k].items, query[k].more, InOrder(Matching(k, db)), db.starred)
        /\ HasRead(k) /\ ~past[k].late
              => Begins(fetch[k].items, fetch[k].more, InOrder(Matching(k, db)), db.starred)

KeyInv(k) == OrderInv(k) /\ MoreInv(k) /\ CoverInv(k) /\ TrueInv(k)

ListInv == TypeOK /\ \A k \in Keys : KeyInv(k)

-----------------------------------------------------------------------------
(* The rows in order.                                                      *)

\* Those of the rows R that come before r.
Before(r, R) == {s \in R : Newer(s, r)}

\* No two rows are at the same place: the id decides where the timestamps do not.
LEMMA NewerIsOrder ==
    /\ \A r \in Rows : ~Newer(r, r)
    /\ \A r, s \in Rows : r = s \/ Newer(r, s) \/ Newer(s, r)
    /\ \A r, s, t \in Rows : Newer(r, s) /\ Newer(s, t) => Newer(r, t)
BY ListAssumption DEF Newer

LEMMA RowsAreFinite ==
  ASSUME NEW R \in SUBSET Rows
  PROVE  IsFiniteSet(R) /\ Cardinality(R) \in Nat
BY ListAssumption, FS_Subset, FS_CardinalityType

\* A row has fewer before it than any row that comes later.
LEMMA BeforeGrows ==
  ASSUME NEW R \in SUBSET Rows, NEW r \in R, NEW s \in R, Newer(r, s)
  PROVE  Cardinality(Before(r, R)) < Cardinality(Before(s, R))
<1>1. Before(s, R) \in SUBSET Rows
  BY DEF Before
<1>2. Before(r, R) \in SUBSET Before(s, R)
  BY NewerIsOrder DEF Before
<1>3. r \in Before(s, R) \ Before(r, R)
  BY NewerIsOrder DEF Before
<1>4. Cardinality(Before(s, R)) \in Nat /\ Cardinality(Before(r, R)) \in Nat
  BY <1>1, <1>2, RowsAreFinite
<1>5. Cardinality(Before(r, R)) <= Cardinality(Before(s, R))
      /\ (Cardinality(Before(s, R)) = Cardinality(Before(r, R)) => Before(s, R) = Before(r, R))
  BY <1>1, <1>2, RowsAreFinite, FS_Subset
<1> QED BY <1>3, <1>4, <1>5

\* Every number of rows before is that of one row.
LEMMA Ranks ==
  ASSUME NEW R \in SUBSET Rows
  PROVE  /\ \A r \in R : Cardinality(Before(r, R)) \in 0..(Cardinality(R) - 1)
         /\ \A r, s \in R : Cardinality(Before(r, R)) = Cardinality(Before(s, R)) => r = s
         /\ \A n \in 0..(Cardinality(R) - 1) : \E r \in R : Cardinality(Before(r, R)) = n
<1> DEFINE f == [r \in R |-> Cardinality(Before(r, R)) + 1]
           N == Cardinality(R)
<1>1. N \in Nat /\ IsFiniteSet(R)
  BY RowsAreFinite
<1>2. ASSUME NEW r \in R
      PROVE  Cardinality(Before(r, R)) \in 0..(N - 1)
  <2>1. Before(r, R) \in SUBSET R
    BY DEF Before
  <2>2. r \in R \ Before(r, R)
    BY NewerIsOrder DEF Before
  <2>3. Cardinality(Before(r, R)) \in Nat
    BY <2>1, RowsAreFinite
  <2>4. Cardinality(Before(r, R)) <= N /\ (N = Cardinality(Before(r, R)) => R = Before(r, R))
    BY <1>1, <2>1, FS_Subset
  <2> HIDE DEF N
  <2> QED BY <1>1, <2>2, <2>3, <2>4
<1>3. ASSUME NEW r \in R, NEW s \in R, Cardinality(Before(r, R)) = Cardinality(Before(s, R))
      PROVE  r = s
  <2>1. Cardinality(Before(r, R)) \in Int
    BY <1>2
  <2>2. CASE Newer(r, s)
    BY <1>3, <2>1, <2>2, BeforeGrows
  <2>3. CASE Newer(s, r)
    BY <1>3, <2>1, <2>3, BeforeGrows
  <2> QED BY <2>2, <2>3, NewerIsOrder
<1>4. f \in Injection(R, 1..N)
  <2>1. \A r \in R : f[r] \in 1..N
    <3> HIDE DEF N
    <3> QED BY <1>1, <1>2
  <2>2. \A r, s \in R : f[r] = f[s] => r = s
    <3> SUFFICES ASSUME NEW r \in R, NEW s \in R, f[r] = f[s] PROVE r = s
      OBVIOUS
    <3>1. Cardinality(Before(r, R)) \in Int /\ Cardinality(Before(s, R)) \in Int
      BY <1>2
    <3>2. Cardinality(Before(r, R)) + 1 = Cardinality(Before(s, R)) + 1
      OBVIOUS
    <3> QED BY <1>3, <3>1, <3>2
  <2> QED BY <2>1, <2>2 DEF Injection, IsInjective
<1>5. IsFiniteSet(1..N) /\ Cardinality(1..N) = N
  BY <1>1, FS_Interval
<1>6. f \in Surjection(R, 1..N)
  BY <1>4, <1>5, FS_Injection
<1>7. ASSUME NEW n \in 0..(N - 1)
      PROVE  \E r \in R : Cardinality(Before(r, R)) = n
  <2>1. n + 1 \in 1..N
    <3> HIDE DEF N
    <3> QED BY <1>1
  <2>2. PICK r \in R : f[r] = n + 1
    BY <1>6, <2>1 DEF Surjection
  <2>3. Cardinality(Before(r, R)) + 1 = n + 1 /\ Cardinality(Before(r, R)) \in Int
    BY <1>2, <2>2
  <2> QED BY <2>3
<1> QED BY <1>2, <1>3, <1>7

\* The i-th of the rows in order has i - 1 before it.
LEMMA InOrderRanks ==
  ASSUME NEW R \in SUBSET Rows
  PROVE  /\ InOrder(R) \in Seq(Rows) /\ Len(InOrder(R)) = Cardinality(R)
         /\ \A i \in 1..Cardinality(R) :
               InOrder(R)[i] \in R /\ Cardinality(Before(InOrder(R)[i], R)) = i - 1
<1> DEFINE N == Cardinality(R)
<1>1. N \in Nat
  BY RowsAreFinite
<1>2. InOrder(R) = [i \in 1..N |-> CHOOSE r \in R : Cardinality(Before(r, R)) = i - 1]
  BY DEF InOrder, Before
<1>3. ASSUME NEW i \in 1..N
      PROVE  InOrder(R)[i] \in R /\ Cardinality(Before(InOrder(R)[i], R)) = i - 1
  <2>1. i - 1 \in 0..(N - 1)
    <3> HIDE DEF N
    <3> QED BY <1>1
  <2>2. \E r \in R : Cardinality(Before(r, R)) = i - 1
    BY <2>1, Ranks
  <2>3. InOrder(R)[i] = CHOOSE r \in R : Cardinality(Before(r, R)) = i - 1
    BY <1>2
  <2> QED BY <2>2, <2>3
<1>4. InOrder(R) \in [1..N -> Rows]
  <2>1. \A i \in 1..N : InOrder(R)[i] \in Rows
    BY <1>3
  <2> HIDE DEF N
  <2> QED BY <1>2, <2>1
<1>5. InOrder(R) \in Seq(Rows) /\ Len(InOrder(R)) = N
  <2> HIDE DEF N
  <2> QED BY <1>1, <1>4
<1> QED BY <1>3, <1>5

\* The rows in order are all the rows, each of them newer than those after it.
LEMMA InOrderLists ==
  ASSUME NEW R \in SUBSET Rows
  PROVE  /\ \A i, j \in 1..Cardinality(R) :
               i < j => Newer(InOrder(R)[i], InOrder(R)[j])
         /\ \A r \in R : \E i \in 1..Cardinality(R) : InOrder(R)[i] = r
<1> DEFINE N == Cardinality(R)
           q == InOrder(R)
<1>1. N \in Nat
  BY RowsAreFinite
<1>2. \A i \in 1..N : q[i] \in R /\ Cardinality(Before(q[i], R)) = i - 1
  BY InOrderRanks
<1>3. ASSUME NEW i \in 1..N, NEW j \in 1..N, i < j
      PROVE  Newer(q[i], q[j])
  <2> HIDE DEF q, N
  <2>1. q[i] \in R /\ q[j] \in R /\ Cardinality(Before(q[i], R)) < Cardinality(Before(q[j], R))
    BY <1>1, <1>2, <1>3
  <2>2. Cardinality(Before(q[i], R)) \in Int /\ Cardinality(Before(q[j], R)) \in Int
    BY <1>1, <1>2
  <2>3. CASE Newer(q[j], q[i])
    <3>1. Cardinality(Before(q[j], R)) < Cardinality(Before(q[i], R))
      BY <2>1, <2>3, BeforeGrows
    <3> QED BY <2>1, <2>2, <3>1
  <2>4. CASE q[i] = q[j]
    BY <2>1, <2>2, <2>4
  <2> QED BY <2>1, <2>3, <2>4, NewerIsOrder
<1>4. ASSUME NEW r \in R
      PROVE  \E i \in 1..N : q[i] = r
  <2>1. Cardinality(Before(r, R)) \in 0..(N - 1)
    BY Ranks
  <2> DEFINE i == Cardinality(Before(r, R)) + 1
  <2>2. i \in 1..N /\ i - 1 = Cardinality(Before(r, R))
    <3> HIDE DEF N
    <3> QED BY <1>1, <2>1
  <2>3. q[i] \in R /\ Cardinality(Before(q[i], R)) = Cardinality(Before(r, R))
    BY <1>2, <2>2
  <2>4. q[i] = r
    BY <2>3, Ranks
  <2> QED BY <2>2, <2>4
<1> QED BY <1>3, <1>4
\* As many rows of a sequence without repetition as there are places for them.
LEMMA RowsAtPlaces ==
  ASSUME NEW R \in SUBSET Rows, NEW a \in Nat, NEW b \in Nat,
         a >= 1, b <= Cardinality(R), a <= b + 1
  PROVE  Cardinality({InOrder(R)[j] : j \in a..b}) = b - a + 1
<1> DEFINE N == Cardinality(R)
           q == InOrder(R)
           T == {q[j] : j \in a..b}
           f == [j \in a..b |-> q[j]]
<1>1. N \in Nat
  BY RowsAreFinite
<1>2. \A j \in 1..N : q[j] \in R /\ Cardinality(Before(q[j], R)) = j - 1
  BY InOrderRanks
<1>3. a..b \subseteq 1..N
  <2>1. b <= N
    OBVIOUS
  <2> HIDE DEF N
  <2> QED BY <1>1, <2>1
<1>4. f \in Surjection(a..b, T)
  BY DEF Surjection
<1>5. \A i, j \in a..b : f[i] = f[j] => i = j
  <2> SUFFICES ASSUME NEW i \in a..b, NEW j \in a..b, q[i] = q[j] PROVE i = j
    OBVIOUS
  <2>1. i - 1 = j - 1
    BY <1>2, <1>3
  <2> QED BY <2>1
<1>6. f \in Injection(a..b, T)
  BY <1>5 DEF Injection, IsInjective
<1>7. IsFiniteSet(a..b) /\ Cardinality(a..b) = b - a + 1
  <2>1. a \in Int /\ b \in Int /\ (a > b => b - a + 1 = 0)
    OBVIOUS
  <2>2. IsFiniteSet(a..b) /\ Cardinality(a..b) = IF a > b THEN 0 ELSE b - a + 1
    BY <2>1, FS_Interval
  <2> QED BY <2>1, <2>2
<1>8. Cardinality(T) = Cardinality(a..b)
  <2> HIDE DEF T, f
  <2> QED BY <1>4, <1>6, <1>7, FS_Surjection
<1> QED BY <1>7, <1>8

\* What a page is read from: the rows after one of a listing are the rest of the listing.
LEMMA InOrderAfter ==
  ASSUME NEW R \in SUBSET Rows, NEW n \in 1..Cardinality(R),
         NEW A, A = {r \in R : Newer(InOrder(R)[n], r)}
  PROVE  /\ Cardinality(A) = Cardinality(R) - n
         /\ \A i \in 1..Cardinality(A) : InOrder(A)[i] = InOrder(R)[n + i]
<1> DEFINE N == Cardinality(R)
           q == InOrder(R)
<1>1. N \in Nat /\ n \in Nat /\ n <= N /\ n >= 1
  BY RowsAreFinite
<1>2. /\ \A i \in 1..N : q[i] \in R
      /\ \A i, j \in 1..N : i < j => Newer(q[i], q[j])
      /\ \A r \in R : \E i \in 1..N : q[i] = r
  BY InOrderRanks, InOrderLists
<1> HIDE DEF q, N
<1>3. \A i, j \in 1..N : Newer(q[i], q[j]) => i < j
  <2> SUFFICES ASSUME NEW i \in 1..N, NEW j \in 1..N, Newer(q[i], q[j]), ~(i < j) PROVE FALSE
    OBVIOUS
  <2>1. q[i] \in Rows /\ q[j] \in Rows
    BY <1>2
  <2>2. i = j \/ j < i
    OBVIOUS
  <2>3. CASE i = j
    BY <2>1, <2>3, NewerIsOrder
  <2>4. CASE j < i
    BY <1>2, <2>1, <2>4, NewerIsOrder
  <2> QED BY <2>2, <2>3, <2>4
<1>4. A = {q[j] : j \in n + 1..N}
  <2>1. A = {r \in R : Newer(q[n], r)}
    BY DEF q
  <2>2. ASSUME NEW r \in A PROVE r \in {q[j] : j \in n + 1..N}
    <3>1. PICK j \in 1..N : q[j] = r
      BY <1>2, <2>1
    <3>2. n < j
      BY <1>1, <1>3, <2>1, <3>1
    <3> QED BY <1>1, <3>1, <3>2
  <2>3. ASSUME NEW j \in n + 1..N PROVE q[j] \in A
    BY <1>1, <1>2, <2>1
  <2> QED BY <2>2, <2>3
<1>5. A \in SUBSET Rows
  OBVIOUS
<1>6. Cardinality(A) = N - n
  <2>1. n + 1 \in Nat /\ n + 1 >= 1 /\ N <= N /\ n + 1 <= N + 1 /\ N - (n + 1) + 1 = N - n
    BY <1>1
  <2>2. Cardinality({q[j] : j \in n + 1..N}) = N - (n + 1) + 1
    BY <1>1, <2>1, RowsAtPlaces DEF q, N
  <2> QED BY <1>4, <2>1, <2>2
<1>7. ASSUME NEW i \in 1..Cardinality(A)
      PROVE  InOrder(A)[i] = q[n + i]
  <2>1. i \in 1..(N - n) /\ n + i \in n + 1..N /\ n + i \in 1..N
    BY <1>1, <1>6
  <2>2. q[n + i] \in A
    BY <1>4, <2>1
  <2>3. Before(q[n + i], A) = {q[j] : j \in n + 1..n + i - 1}
    <3>1. ASSUME NEW r \in Before(q[n + i], A) PROVE r \in {q[j] : j \in n + 1..n + i - 1}
      <4>1. PICK j \in n + 1..N : q[j] = r
        BY <1>4 DEF Before
      <4>2. j < n + i
        BY <1>1, <1>3, <2>1, <4>1 DEF Before
      <4> QED BY <1>1, <2>1, <4>1, <4>2
    <3>2. ASSUME NEW j \in n + 1..n + i - 1 PROVE q[j] \in Before(q[n + i], A)
      <4>1. j \in n + 1..N /\ j \in 1..N /\ j < n + i
        BY <1>1, <2>1
      <4> QED BY <1>2, <1>4, <2>1, <4>1 DEF Before
    <3> QED BY <3>1, <3>2
  <2>4. Cardinality(Before(q[n + i], A)) = i - 1
    <3>1. n + 1 \in Nat /\ n + i - 1 \in Nat /\ n + 1 >= 1 /\ n + i - 1 <= N
          /\ n + 1 <= (n + i - 1) + 1 /\ (n + i - 1) - (n + 1) + 1 = i - 1
      BY <1>1, <2>1
    <3> QED BY <2>3, <3>1, RowsAtPlaces DEF q, N
  <2>5. InOrder(A)[i] \in A /\ Cardinality(Before(InOrder(A)[i], A)) = i - 1
    BY <1>5, InOrderRanks
  <2> QED BY <1>5, <2>2, <2>4, <2>5, Ranks
<1> QED BY <1>6, <1>7 DEF q, N
-----------------------------------------------------------------------------
(* The types.                                                              *)

LEMMA MatchingIsRows ==
  ASSUME NEW k \in Keys, NEW t, t.rows \in SUBSET Rows
  PROVE  Matching(k, t) \in SUBSET Rows
BY DEF Matching

LEMMA FirstKeyIsKey == FirstKey \in Keys
BY ListAssumption DEF FirstKey

\* The request that starts over is for at least one page.
LEMMA StartIsFetch ==
  ASSUME TypeOK, NEW k \in Keys
  PROVE  /\ FromStart(k) \in Fetch
         /\ FromStart(k).on /\ ~FromStart(k).back /\ ~FromStart(k).more
         /\ FromStart(k).items = <<>>
         /\ Pages(query[k].items) \in Nat
<1>1. query[k].items \in Seq(Item) /\ Len(query[k].items) \in Nat
  BY DEF TypeOK, Query
<1>2. Pages(query[k].items) \in Nat
  <2> DEFINE n == Len(query[k].items) + PageSize - 1
  <2>1. PageSize \in Nat /\ PageSize > 0 /\ n \in Nat
    BY <1>1, ListAssumption
  <2>2. n \div PageSize \in Nat
    <3> HIDE DEF n
    <3> QED BY <2>1
  <2> QED BY <2>2 DEF Pages
<1>3. <<>> \in Seq(Item)
  OBVIOUS
<1> QED BY <1>2, <1>3 DEF FromStart, NoFetch, Fetch

LEMMA TypeInit == Init => TypeOK
<1> SUFFICES ASSUME Init PROVE TypeOK
  OBVIOUS
<1>1. <<>> \in Seq(Item)
  OBVIOUS
<1> QED BY <1>1, FirstKeyIsKey DEF Init, TypeOK, NoQuery, NoFetch, NoCall, NoPast,
       Query, Fetch, Call, Past, Page

LEMMA FunctionIsSequence ==
  ASSUME NEW S, NEW n \in Nat, NEW f \in [1..n -> S]
  PROVE  f \in Seq(S) /\ Len(f) = n
OBVIOUS

LEMMA Beginning ==
  ASSUME NEW S, NEW s \in Seq(S), NEW n \in Nat, n <= Len(s)
  PROVE  /\ SubSeq(s, 1, n) \in Seq(S) /\ Len(SubSeq(s, 1, n)) = n
         /\ \A i \in 1..n : SubSeq(s, 1, n)[i] = s[i]
<1>1. SubSeq(s, 1, n) = [i \in 1..n |-> s[i]]
  OBVIOUS
<1>2. \A i \in 1..n : s[i] \in S
  OBVIOUS
<1>3. SubSeq(s, 1, n) \in [1..n -> S]
  BY <1>1, <1>2
<1> QED BY <1>1, <1>3, FunctionIsSequence

\* The rows that the server finds for the next page, and how many of them it returns.
Found(k) == {r \in Matching(k, db) : AfterCursor(r, Cursor(fetch[k].items))}
Returned(k) == IF Cardinality(Found(k)) > PageSize THEN PageSize ELSE Cardinality(Found(k))

\* What is read is what follows the items so far, one page of it.
LEMMA PageIsRead ==
  ASSUME TypeOK, NEW k \in Keys, ReadPage(k)
  PROVE  /\ Found(k) \in SUBSET Rows
         /\ Returned(k) \in Nat /\ Returned(k) <= Cardinality(Found(k))
         /\ fetch[k].on /\ ~fetch[k].back /\ fetch[k].items \in Seq(Item)
         /\ fetch' = [fetch EXCEPT ![k] = fetch'[k]]
         /\ fetch'[k].on /\ fetch'[k].back /\ fetch'[k].want = fetch[k].want
         /\ fetch'[k].more = (Cardinality(Found(k)) > PageSize)
         /\ fetch'[k].items \in Seq(Item)
         /\ Len(fetch'[k].items) = Len(fetch[k].items) + Returned(k)
         /\ \A i \in 1..Len(fetch[k].items) : fetch'[k].items[i] = fetch[k].items[i]
         /\ \A i \in 1..Returned(k) :
               LET item == fetch'[k].items[Len(fetch[k].items) + i]
               IN  /\ item.row = InOrder(Found(k))[i]
                   /\ item.favorite = (InOrder(Found(k))[i] \in db.starred)
<1> DEFINE items == fetch[k].items
           p == Returned(k)
           found == InOrder(Found(k))
           c == Cardinality(Found(k))
           some == IF c > PageSize THEN SubSeq(found, 1, PageSize) ELSE found
           new == AsItems(some)
<1> HIDE DEF p
<1>1. Found(k) \in SUBSET Rows
  BY MatchingIsRows DEF TypeOK, Found
<1>2. c \in Nat /\ PageSize \in Nat /\ PageSize > 0 /\ items \in Seq(Item)
  BY <1>1, RowsAreFinite, ListAssumption DEF TypeOK, Fetch
<1>3. found \in Seq(Rows) /\ Len(found) = c
  BY <1>1, InOrderRanks
<1>4. p \in Nat /\ p <= c /\ p = IF c > PageSize THEN PageSize ELSE c
  <2>1. p = IF c > PageSize THEN PageSize ELSE c
    BY DEF p, Returned
  <2> HIDE DEF c
  <2> QED BY <1>2, <2>1
<1>5. some \in Seq(Rows) /\ Len(some) = p /\ \A i \in 1..p : some[i] = found[i]
  <2> HIDE DEF found, c
  <2>1. CASE c > PageSize
    <3>1. some = SubSeq(found, 1, PageSize) /\ p = PageSize
      BY <1>4, <2>1
    <3> QED BY <1>2, <1>3, <1>4, <3>1, Beginning
  <2>2. CASE ~(c > PageSize)
    BY <1>2, <1>3, <1>4, <2>2
  <2> QED BY <2>1, <2>2
<1>6. new \in Seq(Item) /\ Len(new) = p
      /\ \A i \in 1..p : new[i] = [row |-> found[i], favorite |-> found[i] \in db.starred]
  <2>1. DOMAIN some = 1..p
    <3> HIDE DEF some
    <3> QED BY <1>5
  <2>2. new = [i \in 1..p |-> [row |-> some[i], favorite |-> some[i] \in db.starred]]
    <3> HIDE DEF some
    <3> QED BY <2>1 DEF AsItems
  <2>3. \A i \in 1..p : some[i] \in Rows /\ some[i] = found[i]
    <3> HIDE DEF some
    <3> QED BY <1>5
  <2> HIDE DEF some, found, new
  <2>4. new \in [1..p -> Item]
    BY <2>2, <2>3 DEF Item
  <2>5. new \in Seq(Item) /\ Len(new) = p
    BY <1>4, <2>4, FunctionIsSequence
  <2> QED BY <2>2, <2>3, <2>5
<1>7. fetch[k].on /\ ~fetch[k].back
      /\ fetch' = [fetch EXCEPT ![k].back = TRUE, ![k].more = c > PageSize,
                                ![k].items = items \o new]
  BY <1>3 DEF ReadPage, Listing, Found
<1>8. fetch'[k] = [fetch[k] EXCEPT !.back = TRUE, !.more = c > PageSize,
                                   !.items = items \o new]
      /\ fetch' = [fetch EXCEPT ![k] = fetch'[k]]
  <2> HIDE DEF c, new
  <2> QED BY <1>7 DEF TypeOK
<1>9. /\ fetch'[k].on /\ fetch'[k].back /\ fetch'[k].want = fetch[k].want
      /\ fetch'[k].more = (c > PageSize) /\ fetch'[k].items = items \o new
  <2>1. fetch[k] \in [on : BOOLEAN, back : BOOLEAN, items : Seq(Item), more : BOOLEAN,
                      want : Nat]
    BY DEF TypeOK, Fetch
  <2>2. (c > PageSize) \in BOOLEAN
    OBVIOUS
  <2> DEFINE m == c > PageSize
             all == items \o new
  <2>3. fetch'[k] = [fetch[k] EXCEPT !.back = TRUE, !.more = m, !.items = all]
    BY <1>8
  <2> HIDE DEF m, all
  <2>4. /\ fetch'[k].on /\ fetch'[k].back /\ fetch'[k].want = fetch[k].want
        /\ fetch'[k].more = m /\ fetch'[k].items = all
    BY <1>7, <2>1, <2>3
  <2> QED BY <2>4 DEF m, all
<1>10. /\ items \o new \in Seq(Item) /\ Len(items \o new) = Len(items) + p
       /\ \A i \in 1..Len(items) : (items \o new)[i] = items[i]
       /\ \A i \in 1..p : (items \o new)[Len(items) + i] = new[i]
  <2>1. new \in Seq(Item) /\ Len(new) = p
    BY <1>6
  <2> HIDE DEF new
  <2>2. items \o new \in Seq(Item)
    BY <1>2, <2>1
  <2>3. Len(items \o new) = Len(items) + p
    BY <1>2, <2>1
  <2>4. \A i \in 1..Len(items) : (items \o new)[i] = items[i]
    BY <1>2, <1>4, <2>1
  <2>5. \A i \in 1..p : (items \o new)[Len(items) + i] = new[i]
    BY <1>2, <1>4, <2>1
  <2> QED BY <2>2, <2>3, <2>4, <2>5
<1>11. ASSUME NEW i \in 1..p
       PROVE  /\ fetch'[k].items[Len(items) + i].row = found[i]
              /\ fetch'[k].items[Len(items) + i].favorite = (found[i] \in db.starred)
  <2> DEFINE star == found[i] \in db.starred
  <2>1. new[i] = [row |-> found[i], favorite |-> star]
    BY <1>6
  <2>2. fetch'[k].items[Len(items) + i] = new[i]
    <3> HIDE DEF new
    <3> QED BY <1>9, <1>10
  <2> HIDE DEF found, new, star
  <2>3. /\ fetch'[k].items[Len(items) + i].row = found[i]
        /\ fetch'[k].items[Len(items) + i].favorite = star
    BY <2>1, <2>2
  <2> QED BY <2>3 DEF star
<1>12. /\ fetch'[k].items \in Seq(Item) /\ Len(fetch'[k].items) = Len(items) + p
       /\ \A i \in 1..Len(items) : fetch'[k].items[i] = items[i]
  <2> HIDE DEF new
  <2> QED BY <1>9, <1>10
<1> QED BY <1>1, <1>2, <1>4, <1>7, <1>8, <1>9, <1>11, <1>12 DEF p
LEMMA StartOverType ==
  ASSUME TypeOK, NEW k \in Keys, StartOver(k)
  PROVE  fetch' \in [Keys -> Fetch] /\ past' \in [Keys -> Past]
<1>1. fetch' \in [Keys -> Fetch]
  BY StartIsFetch DEF StartOver, TypeOK
<1>2. past' \in [Keys -> Past]
  BY DEF StartOver, TypeOK, Past
<1> QED BY <1>1, <1>2

LEMMA ObserveType ==
  ASSUME TypeOK, NEW k \in Keys, Observe(k)
  PROVE  fetch' \in [Keys -> Fetch] /\ past' \in [Keys -> Past]
BY StartOverType DEF Observe, TypeOK

LEMMA AskType ==
  ASSUME TypeOK, NEW m \in Calls, NEW kind \in {"star", "delete", "clear", "save"},
         NEW row \in Rows \cup {Nothing}, NEW value \in BOOLEAN,
         NEW at \in {"find", "write"}, kind = "save" => row \in Rows,
         Ask(m, kind, row, value, at), UNCHANGED page
  PROVE  TypeOK'
<1> DEFINE c == [kind |-> kind, row |-> row, value |-> value, at |-> at, mine |-> page.open]
<1>1. c \in Call
  BY DEF TypeOK, Page, Call
<1>2. call' = [call EXCEPT ![m] = c]
  BY DEF Ask
<1>3. call' \in [Calls -> Call]
  <2> HIDE DEF c
  <2> QED BY <1>1, <1>2 DEF TypeOK
<1>4. \A n \in Calls : call'[n].kind = "save" => call'[n].row \in Rows
  BY <1>2 DEF TypeOK
<1> QED BY <1>3, <1>4 DEF Ask, TypeOK, tableVars

LEMMA BecomesType ==
  ASSUME TypeOK, NEW t, t \in [rows : SUBSET Rows, starred : SUBSET Rows],
         NEW missed \in BOOLEAN, Becomes(t, missed)
  PROVE  /\ db' = t /\ used' \in SUBSET Rows /\ changes' \in Nat
         /\ past' \in [Keys -> Past]
<1>1. past' \in [Keys -> Past]
  BY DEF Becomes, TypeOK, Past
<1>2. db' = t /\ used' = used \cup t.rows /\ changes' = changes + 1
  BY DEF Becomes
<1>3. t.rows \in SUBSET Rows
  OBVIOUS
<1> QED BY <1>1, <1>2, <1>3 DEF TypeOK

\* A row on the screen is a row.
LEMMA ShownType ==
  ASSUME TypeOK, NEW i \in DOMAIN Shown
  PROVE  Shown[i].row \in Rows /\ Shown[i].favorite \in BOOLEAN
<1>1. page.key \in Keys /\ page.backing \in Keys
  BY DEF TypeOK, Page
<1>2. Shown \in Seq(Item)
  BY <1>1 DEF Shown, TypeOK, Query
<1>3. Shown[i] \in Item
  BY <1>2
<1> QED BY <1>3 DEF Item

LEMMA SettleType ==
  ASSUME TypeOK, NEW m \in Calls, NEW alarm \in BOOLEAN, Settle(m, alarm)
  PROVE  /\ call' \in [Calls -> Call] /\ page' \in Page
         /\ \A n \in Calls : call'[n].kind = "save" => call'[n].row \in Rows
<1>1. NoCall \in Call /\ NoCall.kind # "save"
  BY DEF NoCall, Call
<1>2. call' \in [Calls -> Call]
  BY <1>1 DEF Settle, TypeOK
<1>3. \A n \in Calls : call'[n].kind = "save" => call'[n].row \in Rows
  BY <1>1 DEF Settle, TypeOK
<1>4. page' \in Page
  BY DEF Settle, TypeOK, Page
<1> QED BY <1>2, <1>3, <1>4
\* What a write leaves is a table.
LEMMA OutcomesType ==
  ASSUME TypeOK, NEW m \in Calls, call[m].kind # "none", NEW t \in Outcomes(call[m]),
         call[m].kind = "star" => call[m].row \in db.rows
  PROVE  t \in [rows : SUBSET Rows, starred : SUBSET Rows]
<1> DEFINE c == call[m]
<1>1. c.kind \in {"star", "delete", "clear", "save"} /\ c.row \in Rows \cup {Nothing}
  BY DEF TypeOK, Call
<1>2. \A R : Gone(db, R) \in [rows : SUBSET Rows, starred : SUBSET Rows]
  BY DEF TypeOK, Gone
<1>3. CASE c.kind = "star"
  <2>1. c.row \in Rows
    BY <1>3 DEF TypeOK
  <2> QED BY <1>1, <1>3, <2>1 DEF Outcomes, TypeOK
<1>4. CASE c.kind = "delete"
  BY <1>1, <1>2, <1>4 DEF Outcomes
<1>5. CASE c.kind = "clear"
  BY <1>1, <1>2, <1>5 DEF Outcomes
<1>6. CASE c.kind = "save"
  <2>1. c.row \in Rows
    BY <1>6 DEF TypeOK
  <2>2. [db EXCEPT !.rows = @ \cup {c.row}] \in [rows : SUBSET Rows, starred : SUBSET Rows]
    BY <2>1 DEF TypeOK
  <2> DEFINE d == [db EXCEPT !.rows = @ \cup {c.row}]
  <2>3. \A P : Gone(d, P) \in [rows : SUBSET Rows, starred : SUBSET Rows]
    <3> HIDE DEF d
    <3> QED BY <2>2 DEF Gone, d
  <2> QED BY <1>6, <2>3 DEF Outcomes
<1> QED BY <1>1, <1>3, <1>4, <1>5, <1>6
LEMMA TypeStep == TypeOK /\ [Next]_listVars => TypeOK'
<1> SUFFICES ASSUME TypeOK, [Next]_listVars PROVE TypeOK'
  OBVIOUS
<1> USE DEF tableVars
<1>1. CASE Open
  <2>1. page' \in Page
    BY <1>1, FirstKeyIsKey DEF Open, Page
  <2> QED BY <1>1, <2>1, FirstKeyIsKey, ObserveType DEF Open, TypeOK
<1>2. CASE Leave
  <2>1. page' \in Page
    BY <1>2 DEF Leave, Page, TypeOK
  <2>2. call' \in [Calls -> Call] /\ \A m \in Calls : call'[m].kind = "save" => call'[m].row \in Rows
    <3>1. call' = [m \in Calls |-> [call[m] EXCEPT !.mine = FALSE]]
      BY <1>2 DEF Leave
    <3>2. \A m \in Calls : [call[m] EXCEPT !.mine = FALSE] \in Call
      BY DEF Call, TypeOK
    <3>3. \A m \in Calls : call'[m].kind = call[m].kind /\ call'[m].row = call[m].row
      BY <3>1 DEF Call, TypeOK
    <3> QED BY <3>1, <3>2, <3>3 DEF TypeOK
  <2> QED BY <1>2, <2>1, <2>2 DEF Leave, TypeOK
<1>3. CASE LoadMore
  <2> DEFINE k == page.key
             f == [on |-> TRUE, back |-> FALSE, items |-> query[k].items, more |-> TRUE,
                   want |-> Pages(query[k].items) + 1]
  <2>1. k \in Keys
    BY DEF TypeOK, Page
  <2>2. Pages(query[k].items) + 1 \in Nat
    BY <2>1, StartIsFetch
  <2>3. f \in Fetch
    BY <2>1, <2>2 DEF TypeOK, Query, Fetch
  <2>4. fetch' \in [Keys -> Fetch]
    <3>1. fetch' = [fetch EXCEPT ![k] = f]
      BY <1>3 DEF LoadMore
    <3> HIDE DEF f
    <3> QED BY <2>3, <3>1 DEF TypeOK
  <2>5. past' \in [Keys -> Past]
    <3> DEFINE late == past[k].behind \/ query[k].invalid
    <3>1. past' = [past EXCEPT ![k].coming = past[k].listed, ![k].late = late] /\ late \in BOOLEAN
      BY <1>3 DEF LoadMore
    <3> HIDE DEF late
    <3> QED BY <2>1, <3>1 DEF TypeOK, Past
  <2> QED BY <1>3, <2>4, <2>5 DEF LoadMore, TypeOK
<1>4. CASE Retry
  <2>1. page.key \in Keys /\ page' \in Page
    BY <1>4 DEF Retry, TypeOK, Page
  <2> QED BY <1>4, <2>1, StartOverType DEF Retry, TypeOK
<1>5. CASE Dismiss
  <2>1. page' \in Page
    BY <1>5 DEF Dismiss, TypeOK, Page
  <2> QED BY <1>5, <2>1 DEF Dismiss, TypeOK
<1>6. CASE Delete
  <2>1. page' \in Page
    BY <1>6, ShownType DEF Delete, TypeOK, Page
  <2> QED BY <1>6, <2>1 DEF Delete, TypeOK
<1>7. CASE CancelDelete
  <2>1. page' \in Page
    BY <1>7 DEF CancelDelete, TypeOK, Page
  <2> QED BY <1>7, <2>1 DEF CancelDelete, TypeOK
<1>8. ASSUME NEW k \in Keys, ChooseKey(k) PROVE TypeOK'
  <2>1. page' \in Page
    BY <1>8 DEF ChooseKey, TypeOK, Page
  <2> QED BY <1>8, <2>1, ObserveType DEF ChooseKey, TypeOK
<1>9. ASSUME NEW k \in Keys, ReadPage(k) PROVE TypeOK'
  <2>1. /\ fetch' = [fetch EXCEPT ![k] = fetch'[k]]
        /\ fetch'[k].items \in Seq(Item)
        /\ fetch'[k].more = (Cardinality(Found(k)) > PageSize)
    BY <1>9, PageIsRead
  <2>2. fetch'[k] \in Fetch
    <3>1. fetch'[k] = [fetch[k] EXCEPT !.back = fetch'[k].back, !.more = fetch'[k].more,
                                       !.items = fetch'[k].items]
          /\ fetch'[k].back
      BY <1>9 DEF ReadPage, TypeOK, Fetch
    <3>2. fetch'[k].more \in BOOLEAN
      BY <2>1
    <3> QED BY <1>9, <2>1, <3>1, <3>2 DEF TypeOK, Fetch
  <2>3. fetch' \in [Keys -> Fetch]
    BY <2>1, <2>2 DEF TypeOK
  <2>4. past' \in [Keys -> Past]
    <3>1. Matching(k, db) \in SUBSET Rows
      BY MatchingIsRows DEF TypeOK
    <3>2. past' = past \/ past' = [past EXCEPT ![k].coming = Matching(k, db)]
      BY <1>9 DEF ReadPage
    <3> QED BY <3>1, <3>2 DEF TypeOK, Past
  <2> QED BY <1>9, <2>3, <2>4 DEF ReadPage, TypeOK
<1>10. ASSUME NEW k \in Keys, PageArrives(k) PROVE TypeOK'
  <2>1. fetch[k] \in Fetch /\ past[k] \in Past
    BY DEF TypeOK
  <2>2. CASE fetch' = [fetch EXCEPT ![k].back = FALSE] /\ UNCHANGED <<query, past>>
    <3>1. fetch' \in [Keys -> Fetch]
      BY <2>2 DEF TypeOK, Fetch
    <3> QED BY <1>10, <2>2, <3>1 DEF PageArrives, TypeOK
  <2>3. CASE /\ query' = [query EXCEPT ![k] = [has |-> TRUE, items |-> fetch[k].items,
                                  more |-> fetch[k].more, invalid |-> FALSE]]
             /\ fetch' = [fetch EXCEPT ![k] = NoFetch]
             /\ past' = [past EXCEPT ![k] = [listed |-> past[k].coming, coming |-> {},
                                             behind |-> past[k].late, late |-> FALSE]]
    <3>1. query' \in [Keys -> Query]
      BY <2>1, <2>3 DEF TypeOK, Fetch, Query
    <3>2. NoFetch \in Fetch
      BY DEF NoFetch, Fetch
    <3>3. fetch' \in [Keys -> Fetch]
      BY <2>3, <3>2 DEF TypeOK
    <3>4. past' \in [Keys -> Past]
      BY <2>1, <2>3 DEF TypeOK, Past
    <3> QED BY <1>10, <3>1, <3>3, <3>4 DEF PageArrives, TypeOK
  <2> QED BY <1>10, <2>2, <2>3 DEF PageArrives
<1>11. ASSUME NEW k \in Keys, FetchFails(k) PROVE TypeOK'
  <2>1. NoFetch \in Fetch
    BY DEF NoFetch, Fetch
  <2>2. fetch' \in [Keys -> Fetch]
    BY <1>11, <2>1 DEF FetchFails, TypeOK
  <2>3. query' \in [Keys -> Query]
    BY <1>11 DEF FetchFails, TypeOK, Query
  <2>4. past' \in [Keys -> Past]
    BY <1>11 DEF FetchFails, TypeOK, Past
  <2> QED BY <1>11, <2>2, <2>3, <2>4 DEF FetchFails, TypeOK
<1>12. ASSUME NEW m \in Calls, ToggleFavorite(m) PROVE TypeOK'
  <2>1. PICK i \in DOMAIN Shown : Ask(m, "star", Shown[i].row, ~Shown[i].favorite, "find")
    BY <1>12 DEF ToggleFavorite
  <2>2. Shown[i].row \in Rows /\ (~Shown[i].favorite) \in BOOLEAN
    BY ShownType
  <2> QED BY <1>12, <2>1, <2>2, AskType DEF ToggleFavorite
<1>13. ASSUME NEW m \in Calls, ConfirmDelete(m) PROVE TypeOK'
  <2>1. page.dialog \in Rows \cup {Nothing}
    BY DEF TypeOK, Page
  <2> QED BY <1>13, <2>1, AskType DEF ConfirmDelete
<1>14. ASSUME NEW m \in Calls, ChangeElsewhere(m) PROVE TypeOK'
  BY <1>14, AskType DEF ChangeElsewhere
<1>15. ASSUME NEW m \in Calls, FindRow(m) PROVE TypeOK'
  <2>1. call' \in [Calls -> Call] /\ \A n \in Calls : call'[n].kind = "save" => call'[n].row \in Rows
    BY <1>15 DEF FindRow, TypeOK, Call
  <2> QED BY <1>15, <2>1 DEF FindRow, TypeOK
<1>16. ASSUME NEW m \in Calls, Write(m) PROVE TypeOK'
  <2>1. call' \in [Calls -> Call] /\ \A n \in Calls : call'[n].kind = "save" => call'[n].row \in Rows
    <3>1. PICK at \in {"done", "refused"} : call' = [call EXCEPT ![m].at = at]
      BY <1>16 DEF Write
    <3> QED BY <3>1 DEF TypeOK, Call
  <2>2. CASE UNCHANGED <<tableVars, past>>
    BY <1>16, <2>1, <2>2 DEF Write, TypeOK
  <2>3. ASSUME NEW t \in Outcomes(call[m]), Becomes(t, FALSE), call[m].kind # "none",
               call[m].kind = "star" => call[m].row \in db.rows
        PROVE  TypeOK'
    <3>1. t \in [rows : SUBSET Rows, starred : SUBSET Rows]
      BY <2>3, OutcomesType
    <3>2. /\ db' = t /\ used' \in SUBSET Rows /\ changes' \in Nat
          /\ past' \in [Keys -> Past]
      BY <2>3, <3>1, BecomesType
    <3> QED BY <1>16, <2>1, <3>1, <3>2 DEF Write, TypeOK
  <2> QED BY <1>16, <2>2, <2>3 DEF Write
<1>17. ASSUME NEW m \in Calls, Succeed(m) PROVE TypeOK'
  <2>1. Settle(m, FALSE) /\ Invalidate
    BY <1>17 DEF Succeed
  <2>2. query' \in [Keys -> Query]
    BY <2>1 DEF Invalidate, TypeOK, Query
  <2>3. fetch' \in [Keys -> Fetch]
    BY <2>1, StartIsFetch DEF Invalidate, TypeOK
  <2>4. past' \in [Keys -> Past]
    BY <2>1 DEF Invalidate, TypeOK, Past, HasRead
  <2> QED BY <1>17, <2>1, <2>2, <2>3, <2>4, SettleType DEF Succeed, TypeOK
<1>18. ASSUME NEW m \in Calls, Refuse(m) PROVE TypeOK'
  BY <1>18, SettleType DEF Refuse, TypeOK
<1>19. ASSUME NEW m \in Calls, LoseAnswer(m) PROVE TypeOK'
  <2>1. past' \in [Keys -> Past]
    BY <1>19 DEF LoseAnswer, TypeOK, Past
  <2> QED BY <1>19, <2>1, SettleType DEF LoseAnswer, TypeOK
<1>20. CASE ChangeOnOtherDevice
  <2>1. PICK t : t \in [rows : SUBSET Rows, starred : SUBSET Rows] /\ Becomes(t, TRUE)
    <3>1. \A r \in Rows : Gone(db, {r}) \in [rows : SUBSET Rows, starred : SUBSET Rows]
      BY DEF Gone, TypeOK
    <3>2. \A r \in Rows : [db EXCEPT !.starred = (@ \cup {r}) \ (@ \cap {r})]
                             \in [rows : SUBSET Rows, starred : SUBSET Rows]
      BY DEF TypeOK
    <3>3. \A r \in Rows : [db EXCEPT !.rows = @ \cup {r}]
                             \in [rows : SUBSET Rows, starred : SUBSET Rows]
      BY DEF TypeOK
    <3>4. db.rows \subseteq Rows
      BY DEF TypeOK
    <3> QED BY <1>20, <3>1, <3>2, <3>3, <3>4 DEF ChangeOnOtherDevice
  <2>2. /\ db' = t /\ used' \in SUBSET Rows /\ changes' \in Nat
        /\ past' \in [Keys -> Past]
    BY <2>1, BecomesType
  <2> QED BY <1>20, <2>1, <2>2 DEF ChangeOnOtherDevice, TypeOK
<1>21. CASE UNCHANGED listVars
  BY <1>21 DEF listVars, TypeOK
<1> QED BY <1>1, <1>2, <1>3, <1>4, <1>5, <1>6, <1>7, <1>8, <1>9, <1>10, <1>11, <1>12, <1>13,
          <1>14, <1>15, <1>16, <1>17, <1>18, <1>19, <1>20, <1>21 DEF Next
-----------------------------------------------------------------------------
(* What a step does to the list of one key.                                *)

Rests(k) == UNCHANGED <<db, query[k], fetch[k], past[k]>> /\ (Told' => Told)

StartsOver(k) ==
    /\ fetch'[k] = FromStart(k) /\ past'[k] = [past[k] EXCEPT !.late = FALSE]
    /\ UNCHANGED <<db, query[k]>> /\ (Told' => Told)

AsksForMore(k) ==
    /\ query[k].more
    /\ fetch'[k].items = query[k].items /\ fetch'[k].more
    /\ past'[k] = [past[k] EXCEPT !.coming = past[k].listed,
                                  !.late = past[k].behind \/ query[k].invalid]
    /\ UNCHANGED <<db, query[k]>> /\ (Told' => Told)

Reads(k) ==
    /\ ReadPage(k)
    /\ past'[k] = IF fetch[k].items = <<>> THEN [past[k] EXCEPT !.coming = Matching(k, db)]
                  ELSE past[k]
    /\ UNCHANGED <<db, query[k]>> /\ (Told' => Told)

AsksForNext(k) ==
    /\ fetch[k].on /\ fetch[k].back /\ fetch'[k] = [fetch[k] EXCEPT !.back = FALSE]
    /\ UNCHANGED <<db, query[k], past[k]>> /\ (Told' => Told)

Arrives(k) ==
    /\ fetch[k].on /\ fetch[k].back /\ fetch'[k] = NoFetch
    /\ query'[k] = [has |-> TRUE, items |-> fetch[k].items, more |-> fetch[k].more,
                    invalid |-> FALSE]
    /\ past'[k] = [listed |-> past[k].coming, coming |-> {}, behind |-> past[k].late,
                   late |-> FALSE]
    /\ UNCHANGED db /\ (Told' => Told)

Fails(k) ==
    /\ fetch'[k] = NoFetch /\ query'[k] = [query[k] EXCEPT !.invalid = TRUE]
    /\ past'[k] = [past[k] EXCEPT !.coming = {}, !.late = FALSE]
    /\ UNCHANGED db /\ (Told' => Told)

\* By the page, which will be told of it, or behind its back.
TableChanges(k) ==
    /\ \E missed \in BOOLEAN :
          /\ missed \/ ~Told'
          /\ past'[k] = [listed |-> past[k].listed \cap Matching(k, db'),
                         coming |-> past[k].coming \cap Matching(k, db'),
                         behind |-> past[k].behind \/ missed,
                         late |-> past[k].late \/ missed]
    /\ UNCHANGED <<query[k], fetch[k]>>

HearsOfIt(k) ==
    /\ query'[k] = [query[k] EXCEPT !.invalid = TRUE]
    /\ \/ fetch'[k] = FromStart(k) /\ past'[k] = [past[k] EXCEPT !.late = FALSE]
       \/ /\ UNCHANGED fetch[k]
          /\ past'[k] = [past[k] EXCEPT !.late = @ \/ HasRead(k)]
    /\ UNCHANGED db

Misses(k) ==
    /\ past'[k] = [past[k] EXCEPT !.behind = TRUE, !.late = TRUE]
    /\ UNCHANGED <<db, query[k], fetch[k]>>

KeyStep(k) ==
    \/ Rests(k) \/ StartsOver(k) \/ AsksForMore(k) \/ Reads(k) \/ AsksForNext(k)
    \/ Arrives(k) \/ Fails(k) \/ TableChanges(k) \/ HearsOfIt(k) \/ Misses(k)

LEMMA ObserveStep ==
  ASSUME TypeOK, NEW j \in Keys, Observe(j), UNCHANGED <<tableVars, query, call>>,
         NEW k \in Keys
  PROVE  KeyStep(k)
<1>1. Told' => Told
  BY DEF Told
<1>2. CASE UNCHANGED <<fetch, past>>
  BY <1>1, <1>2 DEF KeyStep, Rests, tableVars
<1>3. CASE StartOver(j)
  <2>1. CASE k = j
    BY <1>1, <1>3, <2>1 DEF KeyStep, StartsOver, StartOver, tableVars, TypeOK
  <2>2. CASE k # j
    BY <1>1, <1>3, <2>2 DEF KeyStep, Rests, StartOver, tableVars, TypeOK
  <2> QED BY <2>1, <2>2
<1> QED BY <1>2, <1>3 DEF Observe

LEMMA AskStep ==
  ASSUME TypeOK, NEW m \in Calls, NEW kind, NEW row, NEW value, NEW at \in {"find", "write"},
         Ask(m, kind, row, value, at), NEW k \in Keys
  PROVE  KeyStep(k)
<1>1. Told' => Told
  BY DEF Ask, Told, TypeOK
<1> QED BY <1>1 DEF KeyStep, Rests, Ask, tableVars

LEMMA BecomesStep ==
  ASSUME TypeOK, NEW t, NEW missed \in BOOLEAN, Becomes(t, missed), missed \/ ~Told',
         UNCHANGED <<query, fetch>>, NEW k \in Keys
  PROVE  KeyStep(k)
<1>1. past'[k] = [past[k] EXCEPT !.listed = @ \cap Matching(k, t),
                                 !.coming = @ \cap Matching(k, t),
                                 !.behind = @ \/ missed, !.late = @ \/ missed]
      /\ db' = t
  BY DEF Becomes
<1>2. past[k] \in Past
  BY DEF TypeOK
<1>3. past'[k] = [listed |-> past[k].listed \cap Matching(k, t),
                  coming |-> past[k].coming \cap Matching(k, t),
                  behind |-> past[k].behind \/ missed, late |-> past[k].late \/ missed]
  BY <1>1, <1>2 DEF Past
<1> QED BY <1>1, <1>3 DEF KeyStep, TableChanges

\* The call that is settled was the one not told of, or was none.
LEMMA SettleStep ==
  ASSUME TypeOK, NEW m \in Calls, NEW alarm \in BOOLEAN, Settle(m, alarm),
         call[m].at # "done"
  PROVE  Told' => Told
BY DEF Settle, Told, TypeOK, NoCall
LEMMA KeySteps == TypeOK /\ [Next]_listVars => \A k \in Keys : KeyStep(k)
<1> SUFFICES ASSUME TypeOK, [Next]_listVars, NEW k \in Keys PROVE KeyStep(k)
  OBVIOUS
<1> USE DEF tableVars
<1>0. ASSUME UNCHANGED <<db, query, fetch, call, past>> PROVE KeyStep(k)
  BY <1>0 DEF KeyStep, Rests, Told
<1>1. CASE Open
  BY <1>1, FirstKeyIsKey, ObserveStep DEF Open
<1>2. CASE Leave
  <2>1. Told' => Told
    BY <1>2 DEF Leave, Told, TypeOK, Call
  <2> QED BY <1>2, <2>1 DEF Leave, KeyStep, Rests
<1>3. CASE LoadMore
  <2> DEFINE j == page.key
             late == past[j].behind \/ query[j].invalid
             f == [on |-> TRUE, back |-> FALSE, items |-> query[j].items, more |-> TRUE,
                   want |-> Pages(query[j].items) + 1]
  <2>1. Told' => Told
    BY <1>3 DEF LoadMore, Told
  <2>2. j \in Keys
    BY DEF TypeOK, Page
  <2>3. CASE k = j
    <3>1. fetch'[j] = f /\ fetch'[j].items = query[j].items /\ fetch'[j].more
      BY <1>3, <2>2 DEF LoadMore, TypeOK
    <3>2. past'[j] = [past[j] EXCEPT !.coming = past[j].listed, !.late = late]
      <4>1. past' = [past EXCEPT ![j].coming = past[j].listed, ![j].late = late]
        BY <1>3 DEF LoadMore
      <4> HIDE DEF late
      <4> QED BY <2>2, <4>1 DEF TypeOK
    <3> QED BY <1>3, <2>1, <2>3, <3>1, <3>2 DEF LoadMore, KeyStep, AsksForMore
  <2>4. CASE k # j
    BY <1>3, <2>1, <2>2, <2>4 DEF LoadMore, KeyStep, Rests, TypeOK
  <2> QED BY <2>3, <2>4
<1>4. CASE Retry
  <2>1. page.key \in Keys
    BY DEF TypeOK, Page
  <2>2. CASE StartOver(page.key)
    <3>1. Told' => Told
      BY <1>4 DEF Retry, Told
    <3> QED BY <1>4, <2>1, <2>2, <3>1 DEF Retry, StartOver, KeyStep, Rests, StartsOver, TypeOK
  <2>3. CASE UNCHANGED <<fetch, past>>
    BY <1>0, <1>4, <2>3 DEF Retry
  <2> QED BY <1>4, <2>2, <2>3 DEF Retry
<1>5. CASE Dismiss
  BY <1>0, <1>5 DEF Dismiss
<1>6. CASE Delete
  BY <1>0, <1>6 DEF Delete
<1>7. CASE CancelDelete
  BY <1>0, <1>7 DEF CancelDelete
<1>8. ASSUME NEW j \in Keys, ChooseKey(j) PROVE KeyStep(k)
  BY <1>8, ObserveStep DEF ChooseKey
<1>9. ASSUME NEW j \in Keys, ReadPage(j) PROVE KeyStep(k)
  <2>1. Told' => Told
    BY <1>9 DEF ReadPage, Told
  <2>2. CASE k = j
    <3>1. past'[k] = IF fetch[k].items = <<>> THEN [past[k] EXCEPT !.coming = Matching(k, db)]
                     ELSE past[k]
      BY <1>9, <2>2 DEF ReadPage, TypeOK
    <3> QED BY <1>9, <2>1, <2>2, <3>1 DEF ReadPage, KeyStep, Reads
  <2>3. CASE k # j
    <3>1. fetch'[k] = fetch[k]
      BY <1>9, <2>3, PageIsRead DEF TypeOK
    <3>2. past'[k] = past[k]
      BY <1>9, <2>3 DEF ReadPage, TypeOK
    <3> QED BY <1>9, <2>1, <3>1, <3>2 DEF ReadPage, KeyStep, Rests
  <2> QED BY <2>2, <2>3
<1>10. ASSUME NEW j \in Keys, PageArrives(j) PROVE KeyStep(k)
  <2>1. Told' => Told
    BY <1>10 DEF PageArrives, Told
  <2>2. CASE k # j
    BY <1>10, <2>1, <2>2 DEF PageArrives, KeyStep, Rests, TypeOK
  <2>3. CASE k = j
    BY <1>10, <2>1, <2>3 DEF PageArrives, KeyStep, AsksForNext, Arrives, TypeOK
  <2> QED BY <2>2, <2>3
<1>11. ASSUME NEW j \in Keys, FetchFails(j) PROVE KeyStep(k)
  <2>1. Told' => Told
    BY <1>11 DEF FetchFails, Told
  <2>2. CASE k # j
    BY <1>11, <2>1, <2>2 DEF FetchFails, KeyStep, Rests, TypeOK
  <2>3. CASE k = j
    BY <1>11, <2>1, <2>3 DEF FetchFails, KeyStep, Fails, TypeOK
  <2> QED BY <2>2, <2>3
<1>12. ASSUME NEW m \in Calls, ToggleFavorite(m) PROVE KeyStep(k)
  BY <1>12, AskStep DEF ToggleFavorite
<1>13. ASSUME NEW m \in Calls, ConfirmDelete(m) PROVE KeyStep(k)
  BY <1>13, AskStep DEF ConfirmDelete
<1>14. ASSUME NEW m \in Calls, ChangeElsewhere(m) PROVE KeyStep(k)
  BY <1>14, AskStep DEF ChangeElsewhere
<1>15. ASSUME NEW m \in Calls, FindRow(m) PROVE KeyStep(k)
  <2>1. Told' => Told
    BY <1>15 DEF FindRow, Told, TypeOK, Call
  <2> QED BY <1>15, <2>1 DEF FindRow, KeyStep, Rests
<1>16. ASSUME NEW m \in Calls, Write(m) PROVE KeyStep(k)
  <2>1. CASE call' = [call EXCEPT ![m].at = "refused"] /\ UNCHANGED <<tableVars, past>>
    <3>1. Told' => Told
      BY <1>16, <2>1 DEF Told, TypeOK, Call, Write
    <3> QED BY <1>16, <2>1, <3>1 DEF Write, KeyStep, Rests
  <2>2. ASSUME NEW t \in Outcomes(call[m]), Becomes(t, FALSE),
               call' = [call EXCEPT ![m].at = "done"]
        PROVE  KeyStep(k)
    <3>1. ~Told'
      BY <1>16, <2>2 DEF Told, TypeOK, Call, Write
    <3> QED BY <1>16, <2>2, <3>1, BecomesStep DEF Write
  <2> QED BY <1>16, <2>1, <2>2 DEF Write
<1>17. ASSUME NEW m \in Calls, Succeed(m) PROVE KeyStep(k)
  <2>1. Invalidate /\ UNCHANGED db
    BY <1>17 DEF Succeed
  <2>2. query'[k] = [query[k] EXCEPT !.invalid = TRUE]
    BY <2>1 DEF Invalidate
  <2>3. past[k] \in Past
    BY DEF TypeOK
  <2>4. CASE Active(k) /\ (query[k].has \/ ~fetch[k].on)
    <3>1. fetch'[k] = FromStart(k)
          /\ past'[k] = [past[k] EXCEPT !.late = FALSE]
      BY <2>1, <2>4 DEF Invalidate
    <3> QED BY <2>1, <2>2, <3>1 DEF KeyStep, HearsOfIt
  <2>5. CASE ~(Active(k) /\ (query[k].has \/ ~fetch[k].on))
    <3>1. fetch'[k] = fetch[k]
          /\ past'[k] = [past[k] EXCEPT !.late = @ \/ HasRead(k)]
      BY <2>1, <2>5 DEF Invalidate
    <3> QED BY <2>1, <2>2, <3>1 DEF KeyStep, HearsOfIt
  <2> QED BY <2>4, <2>5
<1>18. ASSUME NEW m \in Calls, Refuse(m) PROVE KeyStep(k)
  BY <1>18, SettleStep DEF Refuse, KeyStep, Rests
<1>19. ASSUME NEW m \in Calls, LoseAnswer(m) PROVE KeyStep(k)
  BY <1>19 DEF LoseAnswer, KeyStep, Misses
<1>20. CASE ChangeOnOtherDevice
  BY <1>20, BecomesStep DEF ChangeOnOtherDevice
<1>21. CASE UNCHANGED listVars
  BY <1>0, <1>21 DEF listVars
<1> QED BY <1>1, <1>2, <1>3, <1>4, <1>5, <1>6, <1>7, <1>8, <1>9, <1>10, <1>11, <1>12, <1>13,
          <1>14, <1>15, <1>16, <1>17, <1>18, <1>19, <1>20, <1>21 DEF Next
-----------------------------------------------------------------------------
(* The invariant is kept.                                                  *)

LEMMA EmptyIsInOrder == Sorted(<<>>) /\ Listed(<<>>) = {}
BY DEF Sorted, Listed

LEMMA KeyTypes ==
  ASSUME TypeOK, NEW k \in Keys
  PROVE  /\ query[k] \in Query /\ fetch[k] \in Fetch /\ past[k] \in Past
         /\ query[k].items \in Seq(Item) /\ fetch[k].items \in Seq(Item)
BY DEF TypeOK, Query, Fetch

\* The cursor is the last of the items, and what it leaves comes after all of them.
LEMMA CursorIsLast ==
  ASSUME TypeOK, NEW k \in Keys, fetch[k].items # <<>>
  PROVE  LET n == Len(fetch[k].items)
             last == fetch[k].items[n].row
         IN  /\ n \in Nat \ {0} /\ n \in DOMAIN fetch[k].items /\ last \in Rows
             /\ Found(k) = {r \in Matching(k, db) : Newer(last, r)}
<1> DEFINE items == fetch[k].items
           n == Len(items)
           last == items[n].row
<1>1. items \in Seq(Item) /\ items # <<>>
  BY KeyTypes
<1>2. n \in Nat \ {0} /\ n \in DOMAIN items /\ items[n] \in Item
  <2> HIDE DEF items
  <2> QED BY <1>1
<1>3. last \in Rows /\ last # Nothing
  BY <1>2, ListAssumption DEF Item
<1>4. Cursor(items) = last
  <2> HIDE DEF items
  <2> QED BY <1>1, <1>2 DEF Cursor, Last, items
<1>5. Found(k) = {r \in Matching(k, db) : Newer(last, r)}
  <2> HIDE DEF last
  <2> QED BY <1>3, <1>4 DEF Found, AfterCursor, items
<1> QED BY <1>2, <1>3, <1>5

\* The first page is read from all the rows that match.
LEMMA FirstPage ==
  ASSUME NEW k \in Keys, fetch[k].items = <<>>
  PROVE  Found(k) = Matching(k, db)
BY DEF Found, AfterCursor, Cursor

\* A page of rows that come after the items, in order, keeps them in order.
LEMMA ReadsInOrder ==
  ASSUME TypeOK, NEW k \in Keys, ReadPage(k), Sorted(fetch[k].items)
  PROVE  Sorted(fetch'[k].items)
<1> DEFINE old == fetch[k].items
           new == fetch'[k].items
           n == Len(old)
           p == Returned(k)
           A == Found(k)
<1>1. /\ A \in SUBSET Rows /\ p \in Nat /\ p <= Cardinality(A) /\ Cardinality(A) \in Nat
      /\ old \in Seq(Item) /\ new \in Seq(Item) /\ Len(new) = n + p /\ n \in Nat
      /\ \A i \in 1..n : new[i] = old[i]
      /\ \A i \in 1..p : new[n + i].row = InOrder(A)[i]
  <2>1. /\ A \in SUBSET Rows /\ p \in Nat /\ p <= Cardinality(A)
        /\ old \in Seq(Item) /\ new \in Seq(Item) /\ Len(new) = n + p
        /\ \A i \in 1..n : new[i] = old[i]
    BY PageIsRead
  <2>2. \A i \in 1..p : new[n + i].row = InOrder(A)[i]
    BY PageIsRead
  <2>3. Cardinality(A) \in Nat
    BY <2>1, RowsAreFinite
  <2>4. n \in Nat
    <3> HIDE DEF old
    <3> QED BY <2>1
  <2> HIDE DEF old, new, n, A, p
  <2> QED BY <2>1, <2>2, <2>3, <2>4
<1>2. \A i, j \in 1..Cardinality(A) : i < j => Newer(InOrder(A)[i], InOrder(A)[j])
  BY <1>1, InOrderLists
<1>3. \A i \in 1..Cardinality(A) : InOrder(A)[i] \in A
  BY <1>1, InOrderRanks
<1>4. ASSUME NEW i \in 1..n, NEW r \in A
      PROVE  Newer(old[i].row, r)
  <2>1. old # <<>> /\ i \in DOMAIN old /\ i <= n /\ old[i].row \in Rows /\ r \in Rows
    <3>1. r \in Rows
      BY <1>1
    <3> HIDE DEF old
    <3>2. old[i] \in Item /\ old # <<>> /\ i \in DOMAIN old
      BY <1>1
    <3> QED BY <1>1, <3>1, <3>2 DEF Item
  <2> DEFINE last == old[n].row
  <2>2. n \in DOMAIN old /\ last \in Rows /\ Newer(last, r)
    BY <2>1, CursorIsLast
  <2>3. CASE i = n
    BY <2>2, <2>3
  <2>4. CASE i < n
    <3>1. Newer(old[i].row, last)
      BY <2>1, <2>2, <2>4 DEF Sorted
    <3> HIDE DEF last
    <3> QED BY <2>1, <2>2, <3>1, NewerIsOrder
  <2> HIDE DEF old, last
  <2> QED BY <1>1, <2>1, <2>3, <2>4
<1> HIDE DEF old, new, n, p, A
<1>5. SUFFICES ASSUME NEW i \in 1..(n + p), NEW j \in 1..(n + p), i < j
               PROVE  Newer(new[i].row, new[j].row)
  <2>1. DOMAIN new = 1..(n + p)
    BY <1>1
  <2> QED BY <2>1 DEF Sorted, new
<1>6. CASE j <= n
  <2>1. i \in 1..n /\ j \in 1..n /\ i \in DOMAIN old /\ j \in DOMAIN old
    BY <1>1, <1>5, <1>6 DEF n
  <2> QED BY <1>1, <1>5, <2>1 DEF Sorted, old
<1>7. CASE j > n
  <2>1. PICK b \in 1..p : j = n + b
    BY <1>1, <1>7
  <2>2. new[j].row = InOrder(A)[b] /\ b \in 1..Cardinality(A) /\ InOrder(A)[b] \in A
    BY <1>1, <1>3, <2>1
  <2>3. CASE i <= n
    <3>1. i \in 1..n
      BY <1>1, <2>3
    <3> QED BY <1>1, <1>4, <2>2, <3>1
  <2>4. CASE i > n
    <3>1. PICK a \in 1..p : i = n + a
      <4>1. i - n \in 1..p /\ i = n + (i - n)
        BY <1>1, <2>4
      <4> QED BY <4>1
    <3>2. new[i].row = InOrder(A)[a] /\ a \in 1..Cardinality(A) /\ a < b
      BY <1>1, <1>5, <2>1, <3>1
    <3> QED BY <1>2, <2>2, <3>2
  <2> QED BY <1>1, <2>3, <2>4
<1> QED BY <1>1, <1>6, <1>7

LEMMA OrderStep ==
  ASSUME TypeOK, NEW k \in Keys, OrderInv(k), KeyStep(k)
  PROVE  OrderInv(k)'
<1>1. /\ query'[k].items = query[k].items \/ query'[k].items = fetch[k].items
      /\ fetch'[k].items \in {fetch[k].items, query[k].items, <<>>} \/ ReadPage(k)
  BY KeyTypes, StartIsFetch
     DEF KeyStep, Rests, StartsOver, AsksForMore, Reads, AsksForNext, Arrives, Fails,
         TableChanges, HearsOfIt, Misses, NoFetch, Query, Fetch
<1> QED BY <1>1, ReadsInOrder, EmptyIsInOrder DEF OrderInv

LEMMA MoreStep ==
  ASSUME TypeOK, NEW k \in Keys, MoreInv(k), KeyStep(k)
  PROVE  MoreInv(k)'
<1> USE KeyTypes DEF MoreInv, Query, Fetch
<1>1. CASE Rests(k)
  BY <1>1 DEF Rests
<1>2. CASE StartsOver(k)
  BY <1>2, StartIsFetch DEF StartsOver
<1>3. CASE AsksForMore(k)
  BY <1>3 DEF AsksForMore
<1>4. CASE Reads(k)
  <2>1. ASSUME fetch'[k].more PROVE fetch'[k].items # <<>>
    <3>1. Returned(k) = PageSize /\ PageSize \in Nat \ {0}
      BY <1>4, <2>1, PageIsRead, ListAssumption DEF Reads, Returned
    <3>2. Len(fetch'[k].items) = Len(fetch[k].items) + PageSize
      BY <1>4, <3>1, PageIsRead DEF Reads
    <3>3. Len(fetch[k].items) \in Nat
      OBVIOUS
    <3> QED BY <3>1, <3>2, <3>3
  <2> QED BY <1>4, <2>1 DEF Reads
<1>5. CASE AsksForNext(k)
  BY <1>5 DEF AsksForNext
<1>6. CASE Arrives(k)
  BY <1>6 DEF Arrives, NoFetch
<1>7. CASE Fails(k)
  BY <1>7 DEF Fails, NoFetch
<1>8. CASE TableChanges(k)
  BY <1>8 DEF TableChanges
<1>9. CASE HearsOfIt(k)
  BY <1>9, StartIsFetch DEF HearsOfIt
<1>10. CASE Misses(k)
  BY <1>10 DEF Misses
<1> QED BY <1>1, <1>2, <1>3, <1>4, <1>5, <1>6, <1>7, <1>8, <1>9, <1>10 DEF KeyStep
\* A row that is there all the time is found when its turn comes.
LEMMA ReadsAll ==
  ASSUME TypeOK, NEW k \in Keys, CoverInv(k), ReadPage(k), NEW C,
         C = IF fetch[k].items = <<>> THEN Matching(k, db) ELSE past[k].coming
  PROVE  C \cap Reached(fetch'[k].items, fetch'[k].more) \subseteq Listed(fetch'[k].items)
<1> DEFINE old == fetch[k].items
           new == fetch'[k].items
           n == Len(old)
           p == Returned(k)
           A == Found(k)
           M == Matching(k, db)
<1>1. /\ A \in SUBSET Rows /\ p \in Nat /\ p <= Cardinality(A)
      /\ old \in Seq(Item) /\ new \in Seq(Item) /\ Len(new) = n + p
      /\ \A i \in 1..n : new[i] = old[i]
      /\ fetch[k].on /\ ~fetch[k].back
      /\ fetch'[k].more = (Cardinality(A) > PageSize)
  BY PageIsRead
<1>2. \A i \in 1..p : new[n + i].row = InOrder(A)[i]
  BY PageIsRead
<1>3. Cardinality(A) \in Nat /\ n \in Nat
  <2>1. Cardinality(A) \in Nat
    BY <1>1, RowsAreFinite
  <2> HIDE DEF old
  <2> QED BY <1>1, <2>1
<1>4. \A r \in A : \E i \in 1..Cardinality(A) : InOrder(A)[i] = r
  BY <1>1, InOrderLists
<1>5. DOMAIN old = 1..n /\ DOMAIN new = 1..(n + p)
  BY <1>1
<1>6. Listed(old) \subseteq Listed(new)
  <2> HIDE DEF old, new, n, p
  <2> QED BY <1>1, <1>3, <1>5 DEF Listed
<1>7. ASSUME NEW r \in A, r \in Reached(new, fetch'[k].more)
      PROVE  r \in Listed(new)
  <2>1. PICK i \in 1..Cardinality(A) : InOrder(A)[i] = r
    BY <1>4
  <2>2. ASSUME i \in 1..p PROVE r \in Listed(new)
    <3>1. new[n + i].row = r /\ n + i \in DOMAIN new
      <4> HIDE DEF old, new, n, p, A
      <4> QED BY <1>2, <1>3, <1>1, <1>5, <2>1, <2>2
    <3> QED BY <3>1 DEF Listed
  <2>3. CASE ~(Cardinality(A) > PageSize)
    BY <2>2, <2>3 DEF Returned
  <2>4. CASE Cardinality(A) > PageSize
    <3>1. p = PageSize /\ p \in 1..Cardinality(A) /\ fetch'[k].more
      <4>1. p = PageSize /\ PageSize \in Nat \ {0}
        BY <2>4, ListAssumption DEF Returned
      <4>2. fetch'[k].more
        BY <1>1, <2>4
      <4>3. p \in 1..Cardinality(A)
        <5> HIDE DEF p, A
        <5> QED BY <1>1, <1>3, <4>1
      <4> QED BY <4>1, <4>2, <4>3
    <3>2. new[Len(new)].row = InOrder(A)[p]
      <4>1. p \in 1..p /\ Len(new) = n + p
        BY <1>1, <3>1, ListAssumption
      <4> HIDE DEF new, n, p, A
      <4> QED BY <1>2, <4>1
    <3>3. r = InOrder(A)[p] \/ Newer(r, InOrder(A)[p])
      BY <1>7, <3>1, <3>2 DEF Reached
    <3>4. ~(p < i)
      <4> SUFFICES ASSUME p < i PROVE FALSE
        OBVIOUS
      <4>1. Newer(InOrder(A)[p], r)
        BY <1>1, <2>1, <3>1, InOrderLists
      <4>2. InOrder(A)[p] \in Rows /\ r \in Rows
        BY <1>1, <3>1, InOrderRanks
      <4> QED BY <3>3, <4>1, <4>2, NewerIsOrder
    <3>5. i \in 1..p
      <4> HIDE DEF p, A
      <4> QED BY <1>1, <1>3, <3>1, <3>4
    <3> QED BY <2>2, <3>5
  <2> QED BY <2>3, <2>4
<1>8. SUFFICES ASSUME NEW r \in C, r \in Reached(new, fetch'[k].more)
               PROVE  r \in Listed(new)
  OBVIOUS
<1>9. CASE old = <<>>
  BY <1>7, <1>8, <1>9, FirstPage
<1>10. CASE old # <<>>
  <2> DEFINE last == old[n].row
  <2>1. r \in past[k].coming /\ r \in M /\ r \in Rows
    BY <1>8, <1>10, KeyTypes DEF CoverInv, Past
  <2>2. last \in Rows /\ A = {s \in M : Newer(last, s)}
    BY <1>10, CursorIsLast
  <2>3. HasRead(k)
    BY <1>1, <1>10 DEF HasRead
  <2>4. CASE Newer(last, r)
    BY <1>7, <1>8, <2>1, <2>2, <2>4
  <2>5. CASE ~Newer(last, r)
    <3>1. r = last \/ Newer(r, last)
      BY <2>1, <2>2, <2>5, NewerIsOrder
    <3>2. r \in Reached(old, fetch[k].more)
      BY <2>1, <3>1 DEF Reached
    <3>3. r \in Listed(old)
      BY <2>1, <2>3, <3>2 DEF CoverInv
    <3> QED BY <1>6, <3>3
  <2> QED BY <2>4, <2>5
<1> QED BY <1>9, <1>10

LEMMA CoverStep ==
  ASSUME TypeOK, NEW k \in Keys, MoreInv(k), CoverInv(k), KeyStep(k)
  PROVE  CoverInv(k)'
<1>0. /\ query[k] \in Query /\ fetch[k] \in Fetch /\ past[k] \in Past
      /\ past[k].listed \subseteq Matching(k, db) /\ past[k].coming \subseteq Matching(k, db)
  BY KeyTypes DEF CoverInv
<1>1. CASE Rests(k)
  BY <1>1 DEF CoverInv, Rests, HasRead
<1>2. CASE StartsOver(k)
  <2>1. ~HasRead(k)'
    BY <1>2, StartIsFetch DEF StartsOver, HasRead
  <2> QED BY <1>0, <1>2, <2>1 DEF CoverInv, StartsOver, Past
<1>3. CASE AsksForMore(k)
  BY <1>0, <1>3 DEF CoverInv, MoreInv, AsksForMore, Past, Query
<1>4. CASE Reads(k)
  <2>1. past'[k].listed = past[k].listed
        /\ past'[k].coming = IF fetch[k].items = <<>> THEN Matching(k, db) ELSE past[k].coming
    BY <1>0, <1>4 DEF Reads, Past
  <2>2. past'[k].coming \cap Reached(fetch'[k].items, fetch'[k].more)
           \subseteq Listed(fetch'[k].items)
    BY <1>4, <2>1, ReadsAll DEF Reads
  <2> QED BY <1>0, <1>4, <2>1, <2>2 DEF CoverInv, Reads
<1>5. CASE AsksForNext(k)
  BY <1>0, <1>5 DEF CoverInv, AsksForNext, HasRead, Fetch
<1>6. CASE Arrives(k)
  <2>1. HasRead(k) /\ ~HasRead(k)'
    BY <1>6 DEF Arrives, HasRead, NoFetch
  <2> QED BY <1>0, <1>6, <2>1 DEF CoverInv, Arrives
<1>7. CASE Fails(k)
  <2>1. ~HasRead(k)'
    BY <1>7 DEF Fails, HasRead, NoFetch
  <2> QED BY <1>0, <1>7, <2>1 DEF CoverInv, Fails, Query, Past
<1>8. CASE TableChanges(k)
  BY <1>0, <1>8 DEF CoverInv, TableChanges, HasRead
<1>9. CASE HearsOfIt(k)
  <2>1. fetch'[k] = fetch[k] \/ ~HasRead(k)'
    BY <1>9, StartIsFetch DEF HearsOfIt, HasRead
  <2>2. past'[k].listed = past[k].listed /\ past'[k].coming = past[k].coming
    BY <1>0, <1>9 DEF HearsOfIt, Past
  <2>3. query'[k].items = query[k].items /\ query'[k].more = query[k].more
        /\ query'[k].has = query[k].has
    BY <1>0, <1>9 DEF HearsOfIt, Query
  <2> QED BY <1>0, <1>9, <2>1, <2>2, <2>3 DEF CoverInv, HearsOfIt, HasRead
<1>10. CASE Misses(k)
  BY <1>0, <1>10 DEF CoverInv, Misses, HasRead, Past
<1> QED BY <1>1, <1>2, <1>3, <1>4, <1>5, <1>6, <1>7, <1>8, <1>9, <1>10 DEF KeyStep
\* A page that is read while nothing changes goes on where the listing was.
LEMMA ReadsTruth ==
  ASSUME TypeOK, NEW k \in Keys, ReadPage(k),
         fetch[k].items # <<>> =>
            Begins(fetch[k].items, fetch[k].more, InOrder(Matching(k, db)), db.starred)
  PROVE  Begins(fetch'[k].items, fetch'[k].more, InOrder(Matching(k, db)), db.starred)
<1> DEFINE old == fetch[k].items
           new == fetch'[k].items
           n == Len(old)
           p == Returned(k)
           A == Found(k)
           M == Matching(k, db)
           all == InOrder(M)
<1>1. /\ A \in SUBSET Rows /\ p \in Nat /\ p <= Cardinality(A)
      /\ old \in Seq(Item) /\ new \in Seq(Item) /\ Len(new) = n + p
      /\ \A i \in 1..n : new[i] = old[i]
      /\ fetch'[k].more = (Cardinality(A) > PageSize)
  BY PageIsRead
<1>2. \A i \in 1..p : /\ new[n + i].row = InOrder(A)[i]
                      /\ new[n + i].favorite = (InOrder(A)[i] \in db.starred)
  BY PageIsRead
<1>3. M \in SUBSET Rows
  BY MatchingIsRows DEF TypeOK
<1>4. /\ Cardinality(A) \in Nat /\ Cardinality(M) \in Nat /\ n \in Nat
      /\ Len(all) = Cardinality(M)
  <2>1. Cardinality(A) \in Nat /\ Cardinality(M) \in Nat
    BY <1>1, <1>3, RowsAreFinite
  <2>2. n \in Nat
    <3> HIDE DEF old
    <3> QED BY <1>1
  <2> QED BY <1>3, <2>1, <2>2, InOrderRanks
<1>5. /\ n <= Len(all)
      /\ \A i \in 1..n : old[i].row = all[i] /\ old[i].favorite = (all[i] \in db.starred)
      /\ Cardinality(A) = Len(all) - n
      /\ \A i \in 1..Cardinality(A) : InOrder(A)[i] = all[n + i]
  <2>1. CASE old = <<>>
    <3>1. n = 0 /\ A = M
      BY <2>1, FirstPage
    <3> HIDE DEF n, A, M
    <3> QED BY <1>4, <3>1, <1>3, InOrderRanks
  <2>2. CASE old # <<>>
    <3>1. Begins(old, fetch[k].more, all, db.starred)
      BY <2>2
    <3>2. /\ n <= Len(all)
          /\ \A i \in 1..n : old[i].row = all[i] /\ old[i].favorite = (all[i] \in db.starred)
      BY <3>1 DEF Begins
    <3>3. n \in 1..Cardinality(M) /\ A = {r \in M : Newer(all[n], r)}
      <4>1. n \in Nat \ {0} /\ A = {r \in M : Newer(old[n].row, r)}
        BY <2>2, CursorIsLast
      <4>2. n \in 1..n
        BY <4>1
      <4>3. old[n].row = all[n]
        BY <3>2, <4>2
      <4>4. n \in 1..Cardinality(M)
        <5> HIDE DEF n, M, all
        <5> QED BY <1>4, <3>2, <4>1
      <4> HIDE DEF n, M, all, old, A
      <4> QED BY <4>1, <4>3, <4>4
    <3>4. /\ Cardinality(A) = Cardinality(M) - n
          /\ \A i \in 1..Cardinality(A) : InOrder(A)[i] = all[n + i]
      <4> HIDE DEF n, M, A
      <4> QED BY <1>3, <3>3, InOrderAfter
    <3> QED BY <1>4, <3>2, <3>4
  <2> QED BY <2>1, <2>2
<1>6. Len(new) <= Len(all)
  <2> HIDE DEF new, n, p, A, M, all
  <2> QED BY <1>1, <1>4, <1>5
<1>7. ASSUME NEW i \in 1..Len(new)
      PROVE  new[i].row = all[i] /\ new[i].favorite = (all[i] \in db.starred)
  <2> HIDE DEF old, new, n, p, A, M, all
  <2>1. CASE i <= n
    <3>1. i \in 1..n
      BY <1>4, <2>1, <1>1
    <3> QED BY <1>1, <1>5, <3>1
  <2>2. CASE i > n
    <3>1. i - n \in 1..p /\ i = n + (i - n)
      BY <1>1, <1>4, <2>2
    <3>2. PICK j \in 1..p : i = n + j
      BY <3>1
    <3>3. j \in 1..Cardinality(A)
      BY <1>1, <1>4
    <3>4. InOrder(A)[j] = all[i]
      BY <1>5, <3>2, <3>3
    <3> QED BY <1>2, <3>2, <3>4
  <2> QED BY <1>1, <1>4, <2>1, <2>2
<1>8. fetch'[k].more <=> Len(new) < Len(all)
  <2>1. p = IF Cardinality(A) > PageSize THEN PageSize ELSE Cardinality(A)
    BY DEF Returned
  <2>2. PageSize \in Nat
    BY ListAssumption
  <2>3. Cardinality(A) > PageSize <=> Len(new) < Len(all)
    <3> HIDE DEF new, n, p, A, M, all
    <3> QED BY <1>1, <1>4, <1>5, <2>1, <2>2
  <2> QED BY <1>1, <2>3
<1> QED BY <1>6, <1>7, <1>8 DEF Begins

LEMMA TrueStep ==
  ASSUME TypeOK, NEW k \in Keys, MoreInv(k), TrueInv(k), KeyStep(k)
  PROVE  TrueInv(k)'
<1>0. query[k] \in Query /\ fetch[k] \in Fetch /\ past[k] \in Past
  BY KeyTypes
<1>1. CASE Rests(k)
  BY <1>1 DEF TrueInv, Rests, HasRead
<1>2. CASE StartsOver(k)
  <2>1. ~HasRead(k)' /\ past'[k].behind = past[k].behind
    BY <1>0, <1>2, StartIsFetch DEF StartsOver, HasRead, Past
  <2> QED BY <1>2, <2>1 DEF TrueInv, StartsOver
<1>3. CASE AsksForMore(k)
  <2>1. /\ past'[k].behind = past[k].behind
        /\ past'[k].late <=> past[k].behind \/ query[k].invalid
    BY <1>0, <1>3 DEF AsksForMore, Past
  <2>2. query[k].has /\ query[k].more = TRUE
    BY <1>0, <1>3 DEF AsksForMore, MoreInv, Query
  <2>3. fetch'[k].items = query[k].items /\ (fetch'[k].more <=> query[k].more)
    BY <1>3, <2>2 DEF AsksForMore
  <2> QED BY <1>3, <2>1, <2>2, <2>3 DEF TrueInv, AsksForMore, Begins
<1>4. CASE Reads(k)
  <2>1. past'[k].behind = past[k].behind /\ past'[k].late = past[k].late
    BY <1>0, <1>4 DEF Reads, Past
  <2>2. ASSUME Told', ~past'[k].late
        PROVE  Begins(fetch'[k].items, fetch'[k].more, InOrder(Matching(k, db)), db.starred)
    <3>1. fetch[k].items # <<>> => HasRead(k)
      BY <1>4, PageIsRead DEF Reads, HasRead
    <3> QED BY <1>4, <2>1, <2>2, <3>1, ReadsTruth DEF TrueInv, Reads
  <2> QED BY <1>4, <2>1, <2>2 DEF TrueInv, Reads
<1>5. CASE AsksForNext(k)
  BY <1>0, <1>5 DEF TrueInv, AsksForNext, HasRead, Fetch
<1>6. CASE Arrives(k)
  <2>1. HasRead(k) /\ ~HasRead(k)'
    BY <1>6 DEF Arrives, HasRead, NoFetch
  <2> QED BY <1>0, <1>6, <2>1 DEF TrueInv, Arrives
<1>7. CASE Fails(k)
  <2>1. ~HasRead(k)' /\ query'[k].invalid
    BY <1>0, <1>7 DEF Fails, HasRead, NoFetch, Query
  <2> QED BY <2>1 DEF TrueInv
<1>8. CASE TableChanges(k)
  <2>1. (past'[k].behind /\ past'[k].late) \/ ~Told'
    BY <1>8 DEF TableChanges
  <2> QED BY <2>1 DEF TrueInv
<1>9. CASE HearsOfIt(k)
  <2>1. query'[k].invalid
    BY <1>0, <1>9 DEF HearsOfIt, Query
  <2>2. ~HasRead(k)' \/ past'[k].late
    BY <1>0, <1>9, StartIsFetch DEF HearsOfIt, HasRead, Past
  <2> QED BY <2>1, <2>2 DEF TrueInv
<1>10. CASE Misses(k)
  BY <1>0, <1>10 DEF TrueInv, Misses, Past
<1> QED BY <1>1, <1>2, <1>3, <1>4, <1>5, <1>6, <1>7, <1>8, <1>9, <1>10 DEF KeyStep
LEMMA ListInit == Init => ListInv
<1> SUFFICES ASSUME Init, NEW k \in Keys PROVE TypeOK /\ KeyInv(k)
  BY TypeInit DEF ListInv
<1>1. TypeOK
  BY TypeInit
<1>2. query[k] = NoQuery /\ fetch[k] = NoFetch /\ past[k] = NoPast
  BY DEF Init
<1>3. OrderInv(k)
  BY <1>2, EmptyIsInOrder DEF OrderInv, NoQuery, NoFetch
<1>4. MoreInv(k)
  BY <1>2 DEF MoreInv, NoQuery, NoFetch
<1>5. ~query[k].has /\ ~HasRead(k) /\ past[k].listed \cup past[k].coming = {}
  BY <1>2 DEF NoQuery, NoFetch, NoPast, HasRead
<1>6. CoverInv(k) /\ TrueInv(k)
  BY <1>5 DEF CoverInv, TrueInv
<1> QED BY <1>1, <1>3, <1>4, <1>6 DEF KeyInv

LEMMA ListStep == ListInv /\ [Next]_listVars => ListInv'
<1> SUFFICES ASSUME ListInv, [Next]_listVars PROVE ListInv'
  OBVIOUS
<1>1. TypeOK'
  BY TypeStep DEF ListInv
<1>2. ASSUME NEW k \in Keys PROVE KeyInv(k)'
  <2>1. TypeOK /\ OrderInv(k) /\ MoreInv(k) /\ CoverInv(k) /\ TrueInv(k)
    BY DEF ListInv, KeyInv
  <2>2. KeyStep(k)
    BY <2>1, KeySteps
  <2>3. OrderInv(k)' /\ MoreInv(k)'
    BY <2>1, <2>2, OrderStep, MoreStep
  <2>4. CoverInv(k)' /\ TrueInv(k)'
    BY <2>1, <2>2, CoverStep, TrueStep
  <2> QED BY <2>3, <2>4 DEF KeyInv
<1> QED BY <1>1, <1>2 DEF ListInv

LEMMA ListAlways == Spec => []ListInv
BY ListInit, ListStep, PTL DEF Spec

\* The tables, the requests and the cache only ever hold what they are meant for.
THEOREM TypeCorrect == Spec => []TypeOK
<1>1. ListInv => TypeOK
  BY DEF ListInv
<1> QED BY <1>1, ListAlways, PTL

\* However many rows share a timestamp, and whatever happens between two pages, the list
\* is in order and holds no row twice.
THEOREM InOrderAlways == Spec => []NoRowTwice
<1>1. ListInv => NoRowTwice
  BY DEF ListInv, KeyInv, OrderInv, Sorted, NoRowTwice
<1> QED BY <1>1, ListAlways, PTL

\* A row that is there, and matches, from the first page read to the last is in the list:
\* the cursor of a page passes over none, also when rows come and go meanwhile.
THEOREM NothingSkipped == Spec => []NothingIsSkipped
<1>1. ListInv => NothingIsSkipped
  <2> SUFFICES ASSUME ListInv, NEW k \in Keys, query[k].has,
                      NEW r \in past[k].listed, r \in Rows,
                      query[k].more => \/ r = Last(query[k].items).row
                                       \/ Newer(r, Last(query[k].items).row)
               PROVE  r \in {query[k].items[i].row : i \in DOMAIN query[k].items}
    BY DEF NothingIsSkipped
  <2>1. r \in Reached(query[k].items, query[k].more)
    BY DEF Reached, Last
  <2> QED BY <2>1 DEF ListInv, KeyInv, CoverInv, Listed
<1> QED BY <1>1, ListAlways, PTL

\* Once every answer is in, a list that neither another device nor a lost answer left
\* behind is what the server has, up to its last page: rows, stars and "load more".
THEOREM SettledIsTrue == Spec => []SettledListIsTrue
<1>1. ListInv => SettledListIsTrue
  <2> SUFFICES ASSUME ListInv, NEW k \in Keys,
                      query[k].has, ~query[k].invalid, ~past[k].behind,
                      \A m \in Calls : call[m].kind = "none"
               PROVE  LET all == Listing(k, Nothing)
                          n == Len(query[k].items)
                      IN  /\ n <= Len(all)
                          /\ query[k].items = AsItems(SubSeq(all, 1, n))
                          /\ query[k].more <=> n < Len(all)
    BY DEF SettledListIsTrue
  <2> DEFINE all == InOrder(Matching(k, db))
             items == query[k].items
             n == Len(items)
             some == SubSeq(all, 1, n)
  <2>1. Told
    BY DEF Told
  <2>2. Begins(items, query[k].more, all, db.starred)
    BY <2>1 DEF ListInv, KeyInv, TrueInv
  <2>3. Listing(k, Nothing) = all
    <3>1. {r \in Matching(k, db) : AfterCursor(r, Nothing)} = Matching(k, db)
      BY DEF AfterCursor
    <3> QED BY <3>1 DEF Listing
  <2>4. items \in Seq(Item) /\ n \in Nat /\ items \in [1..n -> Item]
    <3>1. items \in Seq(Item)
      BY KeyTypes DEF ListInv
    <3> HIDE DEF items
    <3> QED BY <3>1
  <2>5. all \in Seq(Rows)
    BY MatchingIsRows, InOrderRanks DEF ListInv, TypeOK
  <2>6. n <= Len(all) /\ (query[k].more <=> n < Len(all))
        /\ \A i \in 1..n : items[i].row = all[i] /\ items[i].favorite = (all[i] \in db.starred)
    BY <2>2 DEF Begins
  <2>7. some \in Seq(Rows) /\ Len(some) = n /\ \A i \in 1..n : some[i] = all[i]
    <3> HIDE DEF all, n
    <3> QED BY <2>4, <2>5, <2>6, Beginning
  <2>8. AsItems(some) = [i \in 1..n |-> [row |-> some[i], favorite |-> some[i] \in db.starred]]
    <3>1. DOMAIN some = 1..n
      <4> HIDE DEF some, n
      <4> QED BY <2>4, <2>7
    <3> HIDE DEF some, n
    <3> QED BY <3>1 DEF AsItems
  <2>9. ASSUME NEW i \in 1..n
        PROVE  items[i] = [row |-> some[i], favorite |-> some[i] \in db.starred]
    <3> DEFINE star == some[i] \in db.starred
    <3>1. items[i] \in [row : Rows, favorite : BOOLEAN]
      <4> HIDE DEF items, n
      <4> QED BY <2>4 DEF Item
    <3>2. items[i].row = some[i] /\ items[i].favorite = star
      BY <2>6, <2>7
    <3> HIDE DEF items, some, star
    <3>3. items[i] = [row |-> some[i], favorite |-> star]
      BY <3>1, <3>2
    <3> QED BY <3>3 DEF star
  <2>10. items = AsItems(some)
    <3> HIDE DEF items, some, n
    <3> QED BY <2>4, <2>8, <2>9
  <2> QED BY <2>3, <2>6, <2>10
<1> QED BY <1>1, ListAlways, PTL
=============================================================================
