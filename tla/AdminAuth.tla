----------------------------- MODULE AdminAuth -----------------------------
(***************************************************************************)
(* AdminAuthService behind the routes of /admin: the password attempts of  *)
(* the allowlisted accounts, their lockout, and the step-up sessions.      *)
(* Every await of a handler is one action.  A Redis key with a TTL is its  *)
(* value and the time it dies at.  A user id stands for the Telegram id it *)
(* belongs to, the caller's JWT is valid (AuthSession), and a request the  *)
(* rate limiter refuses is one that fails.                                 *)
(***************************************************************************)
EXTENDS Integers, FiniteSets

CONSTANTS
    Users,        \* Telegram accounts
    Tokens,       \* what randomBytes(32) can return
    Nobody,       \* "no user" and "no token"
    Calls,        \* slots for admin requests in flight
    MaxFailures,  \* ADMIN_LOGIN_MAX_FAILURES
    Lockout,      \* ADMIN_LOGIN_LOCKOUT_MS
    IdleTTL,      \* ADMIN_SESSION_TTL_SECONDS
    AbsoluteTTL,  \* ADMIN_SESSION_ABSOLUTE_TTL_SECONDS
    MaxTime,      \* bound of the model: the clock runs from 0 to MaxTime
    MaxCount      \* bound of the model: no password is counted beyond it

ASSUME AdminAssumption ==
    /\ Nobody \notin Users \cup Tokens /\ IsFiniteSet(Calls) /\ Calls # {}
    /\ MaxFailures \in Nat \ {0} /\ Lockout \in Nat \ {0}
    /\ MaxTime \in Nat /\ MaxCount \in Nat
    /\ IdleTTL \in Nat \ {0} /\ AbsoluteTTL \in Nat /\ IdleTTL <= AbsoluteTTL

VARIABLES
    now,        \* the clock
    allowlist,  \* ADMIN_TELEGRAM_IDS of the running deployment
    failures,   \* admin:failures:<id>: the count and the time it dies at
    lockout,    \* admin:lockout:<id>: the time it dies at (0: no lockout)
    session,    \* admin:session:<hash of the token>
    issued,     \* history: tokens that a session was opened for
    pc,         \* where each request is suspended
    call,       \* its arguments and local variables
    since,      \* history: when an observer began to look, for as long as a lockout lasts
    guesses,    \* history: the wrong passwords it saw counted below the maximum
    orphaned    \* history: users whose count was left without its TTL by a lost call

redisVars == <<failures, lockout, session, issued>>
callVars == <<pc, call>>
historyVars == <<since, guesses, orphaned>>
vars == <<now, allowlist, redisVars, callVars, historyVars>>

Times == 0..MaxTime
NoGuesses == [u \in Users |-> 0]
Observed == now < since + Lockout

NoTTL == -1
NoCount == [count |-> 0, dies |-> NoTTL]
NoSession == [uid |-> Nobody, iat |-> 0, dies |-> 0]
NoCall == [kind |-> "none", user |-> Nobody, token |-> Nobody, tally |-> 0, clock |-> 0]

Stored(t) == session[t] # NoSession
Deadline(t) == session[t].iat + AbsoluteTTL

Goto(c, point) == pc' = [pc EXCEPT ![c] = point]

Answer(c) == Goto(c, "idle") /\ call' = [call EXCEPT ![c] = NoCall]

-----------------------------------------------------------------------------
(* POST /admin/session.                                                    *)

\* requireAdmin answers 404 to whoever is not on the list: nothing happens.
StartLogin(c, u) ==
    /\ pc[c] = "idle" /\ u \in allowlist
    /\ Goto(c, "lockCheck")
    /\ call' = [call EXCEPT ![c] = [NoCall EXCEPT !.kind = "login", !.user = u]]
    /\ UNCHANGED <<now, allowlist, redisVars, historyVars>>

CheckLockout(c) ==
    /\ pc[c] = "lockCheck"
    /\ IF lockout[call[c].user] # 0
       THEN Answer(c)
       ELSE Goto(c, "judge") /\ UNCHANGED call
    /\ UNCHANGED <<now, allowlist, redisVars, historyVars>>

JudgePassword(c) ==
    /\ pc[c] = "judge"
    /\ Goto(c, "clear") \/ Goto(c, "count")
    /\ UNCHANGED <<now, allowlist, redisVars, call, historyVars>>

\* What follows the count: the lockout, or the plain 401.
Verdict(c, n) ==
    \/ n >= MaxFailures /\ Goto(c, "lock") /\ call' = [call EXCEPT ![c].tally = n]
    \/ n < MaxFailures /\ Answer(c)

\* INCR keeps the TTL of the key it finds.
CountFailure(c) ==
    LET u == call[c].user
        n == failures[u].count + 1
    IN  /\ pc[c] = "count" /\ n <= MaxCount
        /\ failures' = [failures EXCEPT ![u].count = n]
        /\ guesses' = IF n < MaxFailures /\ Observed THEN [guesses EXCEPT ![u] = @ + 1] ELSE guesses
        /\ \/ n = 1 /\ Goto(c, "expire") /\ call' = [call EXCEPT ![c].tally = 1]
           \/ n # 1 /\ Verdict(c, n)
        /\ UNCHANGED <<now, allowlist, lockout, session, issued, since, orphaned>>

\* Wrong form: the TTL is renewed by the failure that reaches the maximum only.
ExpireAtMaximum(c) ==
    /\ pc[c] = "expire"
    /\ Verdict(c, call[c].tally)
    /\ UNCHANGED <<now, allowlist, redisVars, historyVars>>

\* PEXPIRE on a key that is gone does nothing.
ExpireCounter(c) ==
    LET u == call[c].user IN
    /\ pc[c] = "expire"
    /\ failures' = IF failures[u].count = 0 THEN failures
                   ELSE [failures EXCEPT ![u].dies = now + Lockout]
    /\ orphaned' = IF failures[u].count = 0 THEN orphaned ELSE orphaned \ {u}
    /\ Verdict(c, call[c].tally)
    /\ UNCHANGED <<now, allowlist, lockout, session, issued, since, guesses>>

\* Wrong form: the lockout is forgotten, only the count is reset.
LockWithoutKey(c) ==
    /\ pc[c] = "lock"
    /\ Goto(c, "reset")
    /\ UNCHANGED <<now, allowlist, redisVars, call, historyVars>>

Lock(c) ==
    /\ pc[c] = "lock"
    /\ lockout' = [lockout EXCEPT ![call[c].user] = now + Lockout]
    /\ Goto(c, "reset")
    /\ UNCHANGED <<now, allowlist, failures, session, issued, call, historyVars>>

DropCount(u) ==
    /\ failures' = [failures EXCEPT ![u] = NoCount]
    /\ orphaned' = orphaned \ {u}

ResetCounter(c) ==
    /\ pc[c] = "reset"
    /\ DropCount(call[c].user)
    /\ Answer(c)
    /\ UNCHANGED <<now, allowlist, lockout, session, issued, since, guesses>>

\* The clock is read when DEL has returned, before the session is written.
ClearFailures(c) ==
    /\ pc[c] = "clear"
    /\ DropCount(call[c].user)
    /\ guesses' = [guesses EXCEPT ![call[c].user] = 0]
    /\ Goto(c, "open")
    /\ call' = [call EXCEPT ![c].clock = now]
    /\ UNCHANGED <<now, allowlist, lockout, session, issued, since>>

OpenSession(c) ==
    /\ pc[c] = "open"
    /\ \E t \in Tokens \ issued :
          /\ issued' = issued \cup {t}
          /\ session' = [session EXCEPT ![t] = [uid |-> call[c].user, iat |-> call[c].clock,
                                                dies |-> now + IdleTTL]]
    /\ Answer(c)
    /\ UNCHANGED <<now, allowlist, failures, lockout, historyVars>>

-----------------------------------------------------------------------------
(* The routes behind requireAdminSession: any of the views ("use"), or     *)
(* DELETE /admin/session ("lock").                                         *)

StartUse(c, u, t, kind) ==
    /\ pc[c] = "idle" /\ u \in allowlist /\ t \in issued
    /\ Goto(c, "read")
    /\ call' = [call EXCEPT ![c] = [NoCall EXCEPT !.kind = kind, !.user = u, !.token = t]]
    /\ UNCHANGED <<now, allowlist, redisVars, historyVars>>

\* Somebody else's token, one opened under another allowlist, one too old.
Refusable(u, t) ==
    session[t].uid # u \/ session[t].uid \notin allowlist \/ now >= Deadline(t)

NextTTL(t) == IF IdleTTL <= Deadline(t) - now THEN IdleTTL ELSE Deadline(t) - now

ReadSession(c) ==
    LET t == call[c].token IN
    /\ pc[c] = "read"
    /\ \/ ~Stored(t) /\ Answer(c)
       \/ Stored(t) /\ Refusable(call[c].user, t) /\ Goto(c, "drop") /\ UNCHANGED call
       \/ /\ Stored(t) /\ ~Refusable(call[c].user, t)
          /\ Goto(c, "slide")
          /\ call' = [call EXCEPT ![c].clock = NextTTL(t)]
    /\ UNCHANGED <<now, allowlist, redisVars, historyVars>>

Delete(t) == session' = [session EXCEPT ![t] = NoSession]

DropSession(c) ==
    /\ pc[c] = "drop"
    /\ Delete(call[c].token)
    /\ Answer(c)
    /\ UNCHANGED <<now, allowlist, failures, lockout, issued, historyVars>>

\* A view answers from here on; a lock has its session still to delete.
Served(c) ==
    \/ call[c].kind = "use" /\ Answer(c)
    \/ call[c].kind = "lock" /\ Goto(c, "revoke") /\ UNCHANGED call

\* Wrong form: the record is written back with its new deadline.
SlideByRewriting(c) ==
    /\ pc[c] = "slide"
    /\ session' = [session EXCEPT ![call[c].token] =
                      [uid |-> call[c].user, iat |-> now, dies |-> now + call[c].clock]]
    /\ Served(c)
    /\ UNCHANGED <<now, allowlist, failures, lockout, issued, historyVars>>

\* PEXPIRE: a session deleted or expired since it was read stays away.
SlideSession(c) ==
    LET t == call[c].token IN
    /\ pc[c] = "slide"
    /\ session' = IF Stored(t) THEN [session EXCEPT ![t].dies = now + call[c].clock]
                  ELSE session
    /\ Served(c)
    /\ UNCHANGED <<now, allowlist, failures, lockout, issued, historyVars>>

RevokeSession(c) ==
    /\ pc[c] = "revoke"
    /\ Delete(call[c].token)
    /\ Answer(c)
    /\ UNCHANGED <<now, allowlist, failures, lockout, issued, historyVars>>

-----------------------------------------------------------------------------
(* Failures and time.                                                      *)

LeavesCountBehind(C) == {call[c].user : c \in {d \in C : pc[d] = "expire"}}

\* Redis fails, or a rate limiter refuses: 503 or 429.
CallFails(c) ==
    /\ pc[c] # "idle"
    /\ Answer(c)
    /\ orphaned' = orphaned \cup LeavesCountBehind({c})
    /\ UNCHANGED <<now, allowlist, redisVars, since, guesses>>

\* A restart loses the requests, and may bring another allowlist.
Restart(admins) ==
    /\ allowlist' = admins
    /\ pc' = [c \in Calls |-> "idle"]
    /\ call' = [c \in Calls |-> NoCall]
    /\ orphaned' = orphaned \cup LeavesCountBehind(Calls)
    /\ UNCHANGED <<now, redisVars, since, guesses>>

\* Redis drops the keys that die; the observer looks on, or begins anew.
Tick ==
    /\ now < MaxTime
    /\ now' = now + 1
    /\ failures' = [u \in Users |-> IF failures[u].dies = now + 1 THEN NoCount ELSE failures[u]]
    /\ lockout' = [u \in Users |-> IF lockout[u] = now + 1 THEN 0 ELSE lockout[u]]
    /\ session' = [t \in Tokens |-> IF session[t].dies = now + 1 THEN NoSession ELSE session[t]]
    /\ UNCHANGED <<since, guesses>> \/ (since' = now + 1 /\ guesses' = NoGuesses)
    /\ UNCHANGED <<allowlist, issued, callVars, orphaned>>

Step(c) ==
    \/ CheckLockout(c) \/ JudgePassword(c) \/ CountFailure(c)
    \/ ExpireCounter(c) \/ Lock(c) \/ ResetCounter(c) \/ ClearFailures(c) \/ OpenSession(c)
    \/ ReadSession(c) \/ DropSession(c) \/ SlideSession(c) \/ RevokeSession(c)

Init ==
    /\ now = 0
    /\ allowlist \in SUBSET Users
    /\ failures = [u \in Users |-> NoCount]
    /\ lockout = [u \in Users |-> 0]
    /\ session = [t \in Tokens |-> NoSession]
    /\ issued = {}
    /\ pc = [c \in Calls |-> "idle"]
    /\ call = [c \in Calls |-> NoCall]
    /\ since = 0 /\ guesses = NoGuesses
    /\ orphaned = {}

Next ==
    \/ \E c \in Calls :
          \/ Step(c)
          \/ CallFails(c)
          \/ \E u \in Users : StartLogin(c, u)
          \/ \E u \in Users, t \in Tokens, kind \in {"use", "lock"} : StartUse(c, u, t, kind)
    \/ \E admins \in SUBSET Users : Restart(admins)
    \/ Tick

Spec == Init /\ [][Next]_vars

-----------------------------------------------------------------------------
Points == {"idle", "lockCheck", "judge", "count", "expire", "lock", "reset", "clear",
           "open", "read", "drop", "slide", "revoke"}

AdminTypeOK ==
    /\ now \in Times
    /\ allowlist \subseteq Users
    /\ failures \in [Users -> [count : Nat, dies : Nat \cup {NoTTL}]]
    /\ lockout \in [Users -> Nat]
    /\ session \in [Tokens -> [uid : Users \cup {Nobody}, iat : Nat, dies : Nat]]
    /\ issued \subseteq Tokens
    /\ pc \in [Calls -> Points]
    /\ call \in [Calls -> [kind : {"none", "login", "use", "lock"}, user : Users \cup {Nobody},
                           token : Tokens \cup {Nobody}, tally : Nat, clock : Nat]]
    /\ since \in Times /\ guesses \in [Users -> Nat]
    /\ orphaned \subseteq Users

\* However many attempts are past the lockout check together, however late the reset of a
\* lockout comes, and although the count starts over whenever it dies: for as long as one
\* lockout lasts, and between two correct passwords, the wrong ones that are counted
\* without a lockout are bounded.  There is what a count that dies has left and what the
\* next one allows; every other request may start one more by its reset, and have one
\* more attempt past the check when the lockout comes.
GuessesAreBounded ==
    LET typos == MaxFailures - 1
        others == Cardinality(Calls) - 1
    IN  \A u \in Users : guesses[u] # 0 => guesses[u] <= 2 * typos - 1 + others * (typos + 1)

\* "Isolated typos months apart never accumulate": a count of failures has a TTL,
\* or is about to get one, unless the very call that had to set it was lost.
CounterFades ==
    \A u \in Users : failures[u].count > 0 /\ failures[u].dies = NoTTL =>
        u \in orphaned \/ u \in LeavesCountBehind(Calls)

\* Locks, expiries, mismatches and slow requests included, the step-up sessions
\* are those of AdminSessions.  A session is open while Redis stores it and its
\* absolute deadline is ahead, and one that has closed never opens again.
Sessions == INSTANCE AdminSessions WITH
    issued <- issued, open <- {t \in Tokens : Stored(t) /\ now < Deadline(t)}
ImplementsSessions == Sessions!SessionsSpec
=============================================================================
