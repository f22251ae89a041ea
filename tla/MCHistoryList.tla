---------------------------- MODULE MCHistoryList ----------------------------
(* A small instance of HistoryList for TLC. *)
EXTENDS HistoryList, TLC

\* The first two rows were saved in the same millisecond.
MCCreatedAt == [r \in Rows |-> IF r <= 2 THEN 1 ELSE r]
MCKeys == {[finds |-> Rows, favorite |-> FALSE], [finds |-> Rows, favorite |-> TRUE]}

\* Bounds of the run: one list in the cache (another key may load over it), one query
\* that loads, and none under a dialog or a banner; only the newest row is still to come.
OneList == Cardinality({k \in Keys : query[k].has}) <= 1
OneQueryLoads == \A j, k \in Keys : fetch[j].on /\ fetch[k].on => j = k
AtRest == page.banner \/ page.dialog # Nothing => \A k \in Keys : ~fetch[k].on
NewestToCome == Rows \ used \subseteq {3}
=============================================================================
