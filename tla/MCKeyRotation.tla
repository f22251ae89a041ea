--------------------------- MODULE MCKeyRotation ---------------------------
(* Small instances of KeyRotation for TLC. *)
EXTENDS KeyRotation, TLC

\* A spent quota or a rejected key is parked longer than a rate limit.
Cooldowns == [rate |-> 1, quota |-> 2, invalid |-> 2]

Symmetry == Permutations(Calls)
=============================================================================
