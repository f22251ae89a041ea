----------------------------- MODULE ApiClient -----------------------------
(***************************************************************************)
(* ApiService of the Mini App: the access token and the step-up token it   *)
(* holds in memory, the interceptors that attach them, and the refresh     *)
(* that requests with a stale access token share.  One request of each     *)
(* kind is in flight at most, a bound of the model.                        *)
(***************************************************************************)
EXTENDS Naturals, AdminSessions

CONSTANT Nothing  \* no token

ASSUME ClientAssumption == Nothing \notin Tokens

VARIABLES
    access,      \* accessToken: none, or one that the server accepts or not
    adminToken,  \* adminToken
    refreshing,  \* is refreshPromise set
    refreshes,   \* POST /auth/refresh in flight
    req          \* the request of each kind: where it is, or the status it was answered; was
                 \* it retried; the access token of its Authorization header and its
                 \* X-Admin-Token (of a login, the token it was answered); is the page that
                 \* sent it still mounted (mine)

clientVars == <<access, adminToken, refreshing, refreshes, req>>

Kinds == {"login", "overview", "feed", "toggle", "lock", "profile"}

\* isAdminPath
Admin(k) == k # "profile"

Statuses == {"ok", "401", "404", "failed"}
NoRequest == [at |-> "idle", retried |-> FALSE, access |-> "none", token |-> Nothing, mine |-> FALSE]

ClientInit ==
    /\ access = "none" /\ adminToken = Nothing
    /\ refreshing = FALSE /\ refreshes = 0
    /\ req = [k \in Kinds |-> NoRequest]

\* The requests of K go out with the token t in memory; what is in flight is joined.
Sent(K, t) ==
    [k \in Kinds |->
        IF k \notin K \/ req[k].at # "idle" THEN req[k]
        ELSE [at |-> "sent", retried |-> FALSE, access |-> access, mine |-> TRUE,
              token |-> IF Admin(k) THEN t ELSE Nothing]]

\* What it was sent with no longer matters.
Answered(k, status) == req' = [req EXCEPT ![k].at = status, ![k].access = "none"]

-----------------------------------------------------------------------------
(* The server.                                                             *)

\* The admin gate answers 404 to a stale access token and to whoever is off the list.
Denied(k) ==
    /\ \/ req[k].access # "good" /\ Answered(k, IF Admin(k) THEN "404" ELSE "401")
       \/ req[k].access = "good" /\ Admin(k) /\ Answered(k, "404")
    /\ UNCHANGED sessionsVars

\* A wrong password and a lockout are the same 401; a 200 carries a new token.
ServeLogin ==
    /\ req["login"].access = "good"
    /\ \/ Answered("login", "401") /\ UNCHANGED sessionsVars
       \/ \E t \in Tokens :
             /\ Issue(t) \/ IssueTooLate(t)
             /\ req' = [req EXCEPT !["login"].at = "ok", !["login"].access = "none",
                                   !["login"].token = t]

ServeSession(k) ==
    LET t == req[k].token IN
    /\ k \notin {"login", "profile"} /\ req[k].access = "good"
    /\ \/ t \notin open /\ Answered(k, "401") /\ UNCHANGED sessionsVars
       \/ t \in open /\ k # "lock" /\ Answered(k, "ok") /\ UNCHANGED sessionsVars
       \/ t \in open /\ k = "lock" /\ Close({t}) /\ Answered(k, "ok")

ServeProfile == req["profile"].access = "good" /\ Answered("profile", "ok") /\ UNCHANGED sessionsVars

\* 429, 503, or the network; a lock may have closed its session nevertheless.
ServeFails(k) ==
    /\ Answered(k, "failed")
    /\ \/ UNCHANGED sessionsVars
       \/ k = "lock" /\ req[k].access = "good" /\ req[k].token \in open /\ Close({req[k].token})

Serve(k) ==
    /\ req[k].at = "sent"
    /\ \/ Denied(k) \/ ServeSession(k) \/ ServeFails(k)
       \/ k = "login" /\ ServeLogin
       \/ k = "profile" /\ ServeProfile
    /\ UNCHANGED <<access, adminToken, refreshing, refreshes>>

\* The access token outlives its fifteen minutes, in memory and on its way.
AccessExpires ==
    /\ access = "good"
    /\ access' = "stale"
    /\ req' = [k \in Kinds |-> [req[k] EXCEPT !.access = IF @ = "good" THEN "stale" ELSE @]]
    /\ UNCHANGED <<adminToken, refreshing, refreshes, sessionsVars>>

SessionEnds ==
    /\ \E t \in open : Close({t})
    /\ UNCHANGED clientVars

-----------------------------------------------------------------------------
(* The response interceptor.                                               *)

Retriable(k) ==
    /\ req[k].at = (IF Admin(k) THEN "404" ELSE "401")
    /\ ~req[k].retried /\ access # "none"

Final(k) == req[k].at \in Statuses /\ ~Retriable(k)

\* Wrong form: every request refreshes for itself.
RefreshAlone(k) ==
    /\ Retriable(k)
    /\ req' = [req EXCEPT ![k].at = "waiting", ![k].retried = TRUE]
    /\ refreshing' = TRUE /\ refreshes' = refreshes + 1
    /\ UNCHANGED <<access, adminToken, sessionsVars>>

\* Wrong form: a retry is not marked as one.
RefreshAgain(k) ==
    /\ Retriable(k)
    /\ req' = [req EXCEPT ![k].at = "waiting"]
    /\ refreshing' = TRUE /\ refreshes' = IF refreshing THEN refreshes ELSE refreshes + 1
    /\ UNCHANGED <<access, adminToken, sessionsVars>>

\* refreshAccessToken: one refresh for all that find the token stale meanwhile.
AwaitRefresh(k) ==
    /\ Retriable(k)
    /\ req' = [req EXCEPT ![k].at = "waiting", ![k].retried = TRUE]
    /\ refreshing' = TRUE /\ refreshes' = IF refreshing THEN refreshes ELSE refreshes + 1
    /\ UNCHANGED <<access, adminToken, sessionsVars>>

\* A request sent again takes the step-up token of now, or keeps the one it had.
Refreshed ==
    /\ refreshes > 0
    /\ access' = "good"
    /\ refreshing' = FALSE /\ refreshes' = refreshes - 1
    /\ req' = [k \in Kinds |->
                  IF req[k].at # "waiting" THEN req[k]
                  ELSE [req[k] EXCEPT !.at = "sent", !.access = "good",
                           !.token = IF Admin(k) /\ adminToken # Nothing THEN adminToken ELSE @]]
    /\ UNCHANGED <<adminToken, sessionsVars>>

\* However many requests find the access token stale, and whenever their answers come:
\* one refresh is in flight, the refresh cookie is never presented twice, and whoever
\* waits has a refresh to wait for.
RefreshIsShared ==
    /\ refreshes <= 1 /\ (refreshing <=> refreshes = 1)
    /\ \A k \in Kinds : req[k].at = "waiting" => refreshing
=============================================================================
