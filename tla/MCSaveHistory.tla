--------------------------- MODULE MCSaveHistory ---------------------------
(* Small instances of SaveHistory for TLC. *)
EXTENDS SaveHistory, TLC

Symmetry == Permutations(Users) \cup Permutations(Savers) \cup Permutations(PreviewIds)
=============================================================================
