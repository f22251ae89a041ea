---------------------------- MODULE AuthSession ----------------------------
(***************************************************************************)
(* AuthService: login, rotation of refresh tokens, logout and the check of *)
(* access tokens, over the RefreshToken table and the denylist in Redis.   *)
(*                                                                         *)
(* A refresh token and the access token issued with it carry the id of the *)
(* same row (jti = rt_<id>); here the id stands for both.  Rotation is a   *)
(* transaction at the default isolation level, read committed: a read sees *)
(* what is committed, a delete locks its row until the transaction ends    *)
(* and makes other deletes of the row wait.                                *)
(***************************************************************************)
EXTENDS Integers, FiniteSets

CONSTANTS
    Callers,    \* slots for requests in flight
    MaxTokenId  \* bound of the model: rows have ids 1..MaxTokenId

ASSUME SessionAssumption == MaxTokenId \in Nat

VARIABLES
    rows,      \* the RefreshToken table, as committed
    nextId,    \* its autoincrement sequence
    lapsed,    \* its rows past expiresAt
    expired,   \* access tokens past exp
    denylist,  \* revoked_jti:* in Redis
    callPc,    \* where each request is suspended
    call,      \* its token and last answer
    parent,    \* auxiliary: the token each one was exchanged for (0: a login)
    ended,     \* auxiliary: tokens a logout has deleted, or found deleted
    revoked    \* auxiliary: tokens a logout has denylisted

tokenVars == <<rows, nextId, lapsed, expired, denylist>>
callVars == <<callPc, call>>
historyVars == <<parent, ended, revoked>>
vars == <<tokenVars, callVars, historyVars>>

TokenIds == 1..MaxTokenId
Issued == 1..nextId - 1

CallPoints == {"idle", "find", "delete", "commit", "admit", "verify", "erase", "deny"}
\* badToken is the 401 of a logout, refused that of a refresh.
CallAnswers == {"none", "granted", "refused", "badToken"}

Call(t, a) == [token |-> t, answer |-> a]

NoCall == Call(0, "none")

Goto(c, point) == callPc' = [callPc EXCEPT ![c] = point]

Answer(c, a) ==
    /\ Goto(c, "idle")
    /\ call' = [call EXCEPT ![c] = Call(0, a)]

\* Whoever holds a token can present it, at any time and more than once at a time.
Present(c, t, point) ==
    /\ callPc[c] = "idle"
    /\ Goto(c, point)
    /\ call' = [call EXCEPT ![c] = Call(t, "none")]
    /\ UNCHANGED <<tokenVars, historyVars>>

Unlocked(t) == \A c \in Callers : callPc[c] = "commit" => call[c].token # t

IssueTokens(t) ==
    /\ nextId \in TokenIds
    /\ nextId' = nextId + 1
    /\ parent' = [parent EXCEPT ![nextId] = t]

\* authenticateWithTelegram.
Login ==
    /\ IssueTokens(0)
    /\ rows' = rows \cup {nextId}
    /\ UNCHANGED <<lapsed, expired, denylist, callVars, ended, revoked>>

-----------------------------------------------------------------------------
(* refreshTokens.                                                          *)

\* An expired row is deleted and the deletion undone: the error that follows rolls
\* the transaction back.
FindInvalid(c) ==
    /\ callPc[c] = "find"
    /\ call[c].token \notin rows \ lapsed
    /\ Answer(c, "refused")
    /\ UNCHANGED <<tokenVars, historyVars>>

Find(c) ==
    /\ callPc[c] = "find"
    /\ call[c].token \in rows \ lapsed
    /\ Goto(c, "delete")
    /\ UNCHANGED <<tokenVars, call, historyVars>>

DeleteTaken(c) ==
    /\ callPc[c] = "delete"
    /\ Unlocked(call[c].token)
    /\ call[c].token \notin rows
    /\ Answer(c, "refused")
    /\ UNCHANGED <<tokenVars, historyVars>>

\* Wrong form: a row that is gone is as good as deleted.
DeleteSwallowed(c) ==
    /\ callPc[c] = "delete"
    /\ Unlocked(call[c].token)
    /\ Goto(c, "commit")
    /\ UNCHANGED <<tokenVars, call, historyVars>>

Delete(c) ==
    /\ callPc[c] = "delete"
    /\ Unlocked(call[c].token)
    /\ call[c].token \in rows
    /\ Goto(c, "commit")
    /\ UNCHANGED <<tokenVars, call, historyVars>>

\* Wrong form: the new row is added, the old one stays.
CommitKeepsOld(c) ==
    /\ callPc[c] = "commit"
    /\ IssueTokens(call[c].token)
    /\ rows' = rows \cup {nextId}
    /\ Answer(c, "granted")
    /\ UNCHANGED <<lapsed, expired, denylist, ended, revoked>>

\* The old row leaves the table and the new one enters it together.
Commit(c) ==
    /\ callPc[c] = "commit"
    /\ IssueTokens(call[c].token)
    /\ rows' = (rows \ {call[c].token}) \cup {nextId}
    /\ lapsed' = lapsed \ {call[c].token}
    /\ Answer(c, "granted")
    /\ UNCHANGED <<expired, denylist, ended, revoked>>

\* The database fails, or the transaction runs out of time: it is rolled back.
Abort(c) ==
    /\ callPc[c] \in {"find", "delete", "commit"}
    /\ Answer(c, "refused")
    /\ UNCHANGED <<tokenVars, historyVars>>

-----------------------------------------------------------------------------
(* verifyAccessToken, as authenticate (at "admit") and logout (at "verify") *)
(* call it, and logout.  jwtVerify compares exp when the token comes; the  *)
(* denylist is asked after an await.                                       *)

Live(t) == t \notin expired

PresentAccess(c, t, point) == Live(t) /\ Present(c, t, point)

PresentExpired(c, t, a) ==
    /\ callPc[c] = "idle"
    /\ ~Live(t)
    /\ Answer(c, a)
    /\ UNCHANGED <<tokenVars, historyVars>>

\* Redis holds no entry that revokes it: the request is let through.
Admit(c) ==
    /\ callPc[c] = "admit"
    /\ call[c].token \notin denylist
    /\ Answer(c, "granted")
    /\ UNCHANGED <<tokenVars, historyVars>>

\* A denylisted token, or any when Redis is unavailable: the check fails closed.
Refuse(c) ==
    /\ callPc[c] = "admit"
    /\ Answer(c, "refused")
    /\ UNCHANGED <<tokenVars, historyVars>>

Verify(c) ==
    /\ callPc[c] = "verify"
    /\ call[c].token \notin denylist
    /\ Goto(c, "erase")
    /\ UNCHANGED <<tokenVars, call, historyVars>>

\* For a logout both are a bad token.
VerifyBad(c) ==
    /\ callPc[c] = "verify"
    /\ Answer(c, "badToken")
    /\ UNCHANGED <<tokenVars, historyVars>>

\* invalidateRefreshTokenById: a row that is gone is fine.
Erase(c) ==
    /\ callPc[c] = "erase"
    /\ Unlocked(call[c].token)
    /\ rows' = rows \ {call[c].token}
    /\ lapsed' = lapsed \ {call[c].token}
    /\ ended' = ended \cup {call[c].token}
    /\ Goto(c, "deny")
    /\ UNCHANGED <<nextId, expired, denylist, call, parent, revoked>>

\* It ignores every other error of the deletion, too.
EraseFails(c) ==
    /\ callPc[c] = "erase"
    /\ Goto(c, "deny")
    /\ UNCHANGED <<tokenVars, call, historyVars>>

Deny(c) ==
    /\ callPc[c] = "deny"
    /\ denylist' = denylist \cup {call[c].token}
    /\ revoked' = revoked \cup {call[c].token}
    /\ Answer(c, "granted")
    /\ UNCHANGED <<rows, nextId, lapsed, expired, parent, ended>>

DenyFails(c) ==
    /\ callPc[c] = "deny"
    /\ Answer(c, "granted")
    /\ UNCHANGED <<tokenVars, historyVars>>

CallStep(c) ==
    \/ FindInvalid(c) \/ Find(c) \/ DeleteTaken(c) \/ Delete(c) \/ Commit(c) \/ Abort(c)
    \/ Admit(c) \/ Refuse(c)
    \/ Verify(c) \/ VerifyBad(c) \/ Erase(c) \/ EraseFails(c) \/ Deny(c) \/ DenyFails(c)

-----------------------------------------------------------------------------
(* Time and the process.                                                   *)

\* Tokens of one kind live equally long: they expire in the order of issue.
ExpireAccess(t) ==
    /\ 1..t - 1 \subseteq expired
    /\ expired' = expired \cup {t}
    /\ UNCHANGED <<rows, nextId, lapsed, denylist, callVars, historyVars>>

ExpireRefresh(t) ==
    /\ t \in rows /\ \A u \in rows : u < t => u \in lapsed
    /\ lapsed' = lapsed \cup {t}
    /\ UNCHANGED <<rows, nextId, expired, denylist, callVars, historyVars>>

\* Wrong form: the entry lasts for a fixed time.
ForgetEarly(t) ==
    /\ denylist' = denylist \ {t}
    /\ UNCHANGED <<rows, nextId, lapsed, expired, callVars, historyVars>>

\* The entry lasts for what is left of the token's life, rounded up.
Forget(t) ==
    /\ t \in expired
    /\ denylist' = denylist \ {t}
    /\ UNCHANGED <<rows, nextId, lapsed, expired, callVars, historyVars>>

\* Open transactions are rolled back; the table and Redis stay.
Restart ==
    /\ callPc' = [c \in Callers |-> "idle"]
    /\ call' = [c \in Callers |-> NoCall]
    /\ UNCHANGED <<tokenVars, historyVars>>

Init ==
    /\ rows = {} /\ nextId = 1
    /\ lapsed = {} /\ expired = {} /\ denylist = {}
    /\ callPc = [c \in Callers |-> "idle"]
    /\ call = [c \in Callers |-> NoCall]
    /\ parent = [t \in TokenIds |-> 0]
    /\ ended = {} /\ revoked = {}

Next ==
    \/ Login
    \/ \E c \in Callers, t \in Issued :
          \/ Present(c, t, "find")
          \/ PresentAccess(c, t, "admit") \/ PresentExpired(c, t, "refused")
          \/ PresentAccess(c, t, "verify") \/ PresentExpired(c, t, "badToken")
    \/ \E c \in Callers : CallStep(c)
    \/ \E t \in Issued : ExpireAccess(t) \/ ExpireRefresh(t) \/ Forget(t)
    \/ Restart

Spec == Init /\ [][Next]_vars

-----------------------------------------------------------------------------
\* Types, and a rotation that holds its row's lock has the row.
TypeOK ==
    /\ nextId \in 1..MaxTokenId + 1
    /\ rows \subseteq Issued /\ lapsed \subseteq rows /\ expired \subseteq Issued
    /\ denylist \subseteq Issued
    /\ callPc \in [Callers -> CallPoints]
    /\ call \in [Callers -> [token : {0} \cup Issued, answer : CallAnswers]]
    /\ \A c \in Callers : callPc[c] = "commit" => call[c].token \in rows
    /\ parent \in [TokenIds -> {0} \cup Issued]
    /\ ended \subseteq Issued /\ revoked \subseteq Issued

\* A refresh token buys one successor: however many requests present it at once, and
\* whichever of them fail, no two rotations of it succeed.
RotatedOnce ==
    \A t, u \in Issued : parent[t] = parent[u] /\ parent[t] # 0 => t = u

\* A token that was exchanged is not accepted again: of every chain of rotations only
\* the newest token can be in the table.
OnlyNewestLives == \A t \in Issued : parent[t] \notin rows

\* A logout that deleted the row, or found it gone, ends the token: no rotation that
\* was under way commits afterwards.
NoRotationAfterLogout ==
    [][\A c \in Callers : Commit(c) => call[c].token \notin ended]_vars

\* Once a logout has denylisted it, an access token opens no request while it lives,
\* however the checks of other requests and the end of the entry fall: the entry lasts
\* as long as the token, so only a token that expired under its check can get through.
RevokedStaysOut ==
    [][\A c \in Callers : Admit(c) /\ call[c].token \in revoked => ~Live(call[c].token)]_vars

=============================================================================
