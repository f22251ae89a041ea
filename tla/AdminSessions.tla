--------------------------- MODULE AdminSessions ---------------------------
(***************************************************************************)
(* What the step-up session service promises, whatever Redis, the clock    *)
(* and concurrent requests do: a token is issued at most once, is usable   *)
(* from then on, and once it is closed it stays closed.                    *)
(***************************************************************************)
CONSTANT Tokens

VARIABLES
    issued,  \* tokens that were ever handed out
    open     \* those the server still accepts

sessionsVars == <<issued, open>>

SessionsInit == issued = {} /\ open = {}

Issue(t) ==
    /\ t \notin issued
    /\ issued' = issued \cup {t}
    /\ open' = open \cup {t}

\* The answer to a login may come so late that its session is over already.
IssueTooLate(t) ==
    /\ t \notin issued
    /\ issued' = issued \cup {t}
    /\ UNCHANGED open

\* A lock, an expiry, a mismatch: any number of sessions end together.
Close(S) ==
    /\ S # {} /\ S \subseteq open
    /\ open' = open \ S
    /\ UNCHANGED issued

SessionsNext ==
    \/ \E t \in Tokens : Issue(t) \/ IssueTooLate(t)
    \/ \E S \in SUBSET open : Close(S)

SessionsSpec == SessionsInit /\ [][SessionsNext]_sessionsVars
=============================================================================
