----------------------------- MODULE MCAdminAuth -----------------------------
(* A small instance of AdminAuth for TLC. *)
EXTENDS AdminAuth, TLC

CONSTANTS ann, bob

Symmetry == Permutations(Calls)

\* Bounds of the run: one account enters passwords, the other presents its tokens;
\* the operator edits the list to drop somebody, and back.
OneEntersPasswords == \A c \in Calls : call[c].kind = "login" => call[c].user = ann
ListOfOneOrTwo == allowlist # {} /\ allowlist # {ann}
=============================================================================
