----------------------------- MODULE MCAdminPanel -----------------------------
(* A small instance of AdminPanel for TLC. *)
EXTENDS AdminPanel, FiniteSets

\* Bounds of the run: requests in flight together, and errors on the screen.
TwoInFlight == Cardinality({k \in Kinds : req[k].at # "idle"}) <= 2
OneError == Cardinality({k \in Views : view[k].error # "none"} \cup ({refusal} \ {"none"})) <= 1
=============================================================================
