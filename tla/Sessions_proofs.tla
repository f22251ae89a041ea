--------------------------- MODULE Sessions_proofs ---------------------------
(***************************************************************************)
(* Theorems about the sessions of a user, for any number of requests and   *)
(* tokens: first those of the server, AuthSession; then the client and the *)
(* admin panel over the step-up sessions, ApiClient and AdminPanel.        *)
(***************************************************************************)
EXTENDS AuthSession, AdminPanel, TLAPS

-----------------------------------------------------------------------------
(* AuthSession.  Only a request at "commit" takes a row out of the table   *)
(* for another, it has locked that row, and two requests never lock the    *)
(* same one; so the row is there when it commits, its token has no         *)
(* successor yet, and no logout has deleted it.  An access token that was  *)
(* denylisted leaves the denylist only after it has expired.               *)

\* Of the requests that rotate one token, at most one holds its row.
OneHolder ==
    \A c, d \in Callers :
        callPc[c] = "commit" /\ callPc[d] = "commit" /\ call[c].token = call[d].token
        => c = d

\* A request past the start of its handler has a token.
CallsHaveTokens ==
    \A c \in Callers : callPc[c] # "idle" => call[c].token \in Issued

EndedAreGone == ended \cap rows = {}

RevokedAreOut == revoked \subseteq denylist \cup expired

SessionInv ==
    /\ TypeOK /\ OneHolder /\ CallsHaveTokens
    /\ RotatedOnce /\ OnlyNewestLives
    /\ EndedAreGone /\ RevokedAreOut

LEMMA SessionInit == Init => SessionInv
BY SessionAssumption DEF Init, SessionInv, TypeOK, OneHolder, CallsHaveTokens, RotatedOnce,
   OnlyNewestLives, EndedAreGone, RevokedAreOut, Issued, TokenIds, NoCall, Call, CallPoints,
   CallAnswers

\* What the steps below leave in the slot of a request.
LEMMA CallRecords ==
    ASSUME NEW ids, NEW t \in {0} \cup ids, NEW a \in CallAnswers
    PROVE  /\ Call(t, a) \in [token : {0} \cup ids, answer : CallAnswers]
           /\ Call(t, a).token = t
BY DEF Call

\* Steps that touch neither the table nor the history: they move one request on.
LEMMA QuietStep ==
    ASSUME SessionInv, NEW c \in Callers,
           UNCHANGED <<tokenVars, historyVars>>,
           NEW point \in CallPoints \ {"commit"},
           \/ Goto(c, point) /\ UNCHANGED call /\ callPc[c] # "idle"
           \/ \E a \in CallAnswers : Answer(c, a)
           \/ \E t \in Issued :
                 /\ Goto(c, point)
                 /\ call' = [call EXCEPT ![c] = Call(t, "none")]
    PROVE  SessionInv'
<1> USE DEF SessionInv, tokenVars, historyVars, Issued
<1>1. PICK new : /\ call' = call \/ call' = [call EXCEPT ![c] = new]
                 /\ new \in [token : {0} \cup Issued, answer : CallAnswers]
                 /\ callPc'[c] # "idle" => call'[c].token \in Issued
  <2>1. CASE Goto(c, point) /\ UNCHANGED call /\ callPc[c] # "idle"
    BY <2>1 DEF TypeOK, CallsHaveTokens, Goto
  <2>2. CASE \E a \in CallAnswers : Answer(c, a)
    <3>1. PICK a \in CallAnswers : Answer(c, a)
      BY <2>2
    <3>2. Call(0, a) \in [token : {0} \cup Issued, answer : CallAnswers]
      BY CallRecords
    <3> QED BY <3>1, <3>2 DEF TypeOK, Answer, Goto
  <2>3. CASE \E t \in Issued :
                 /\ Goto(c, point)
                 /\ call' = [call EXCEPT ![c] = Call(t, "none")]
    <3>1. PICK t \in Issued : call' = [call EXCEPT ![c] = Call(t, "none")]
      BY <2>3
    <3>2. /\ Call(t, "none") \in [token : {0} \cup Issued, answer : CallAnswers]
          /\ Call(t, "none").token = t
      <4>1. "none" \in CallAnswers /\ t \in {0} \cup Issued
        BY DEF CallAnswers
      <4> HIDE DEF Issued
      <4> QED BY <4>1 DEF Call
    <3> QED BY <3>1, <3>2 DEF TypeOK
  <2> QED BY <2>1, <2>2, <2>3
<1>2. PICK p \in CallPoints \ {"commit"} : callPc' = [callPc EXCEPT ![c] = p]
  BY DEF Goto, Answer, CallPoints
<1>3. TypeOK'
  BY <1>1, <1>2 DEF TypeOK
<1>4. OneHolder' /\ CallsHaveTokens'
  BY <1>1, <1>2 DEF TypeOK, OneHolder, CallsHaveTokens
<1>5. RotatedOnce' /\ OnlyNewestLives' /\ EndedAreGone' /\ RevokedAreOut'
  BY DEF RotatedOnce, OnlyNewestLives, EndedAreGone, RevokedAreOut
<1> QED BY <1>3, <1>4, <1>5

LEMMA LoginKeepsInv == ASSUME SessionInv, Login PROVE SessionInv'
<1> USE SessionAssumption DEF SessionInv, Login, IssueTokens, callVars
<1>1. TypeOK'
  BY DEF TypeOK, Issued, TokenIds, CallPoints, CallAnswers
<1>2. OneHolder' /\ CallsHaveTokens'
  BY DEF OneHolder, CallsHaveTokens, TypeOK, Issued, TokenIds
<1>3. RotatedOnce'
  BY DEF RotatedOnce, TypeOK, Issued, TokenIds
<1>4. OnlyNewestLives'
  BY DEF OnlyNewestLives, TypeOK, Issued, TokenIds
<1>5. EndedAreGone' /\ RevokedAreOut'
  BY DEF EndedAreGone, RevokedAreOut, TypeOK, Issued
<1> QED BY <1>1, <1>2, <1>3, <1>4, <1>5

\* The row is locked by this request alone when the delete goes through.
LEMMA DeleteKeepsInv ==
    ASSUME SessionInv, NEW c \in Callers, Delete(c) PROVE SessionInv'
<1> USE DEF SessionInv, Delete, Goto, tokenVars, historyVars
<1>1. TypeOK'
  BY DEF TypeOK, Issued, CallPoints
<1>2. OneHolder'
  BY DEF OneHolder, Unlocked, TypeOK
<1>3. CallsHaveTokens'
  BY DEF CallsHaveTokens, TypeOK, Issued
<1>4. RotatedOnce' /\ OnlyNewestLives' /\ EndedAreGone' /\ RevokedAreOut'
  BY DEF RotatedOnce, OnlyNewestLives, EndedAreGone, RevokedAreOut, Issued
<1> QED BY <1>1, <1>2, <1>3, <1>4

\* The row is in the table, so its token has no successor yet.
LEMMA CommitKeepsInv ==
    ASSUME SessionInv, NEW c \in Callers, Commit(c) PROVE SessionInv'
<1> DEFINE old == call[c].token
<1> USE SessionAssumption DEF SessionInv, Commit, IssueTokens, Goto, Answer
<1>1. old \in rows /\ old \in Issued
  BY DEF TypeOK
<1>2. \A d \in Callers : callPc'[d] = "commit"
                         => d # c /\ callPc[d] = "commit" /\ call'[d] = call[d] /\ call[d].token # old
  BY DEF TypeOK, OneHolder
<1>3. TypeOK'
  <2>1. \A d \in Callers : callPc'[d] = "commit" => call'[d].token \in rows'
    BY <1>2 DEF TypeOK
  <2>2. nextId' \in 1..MaxTokenId + 1 /\ Issued \subseteq Issued' /\ nextId \in Issued'
    BY DEF TypeOK, Issued, TokenIds
  <2>3. call' \in [Callers -> [token : {0} \cup Issued', answer : CallAnswers]]
    <3>1. Call(0, "granted") \in [token : {0} \cup Issued', answer : CallAnswers]
      BY CallRecords DEF CallAnswers
    <3> QED BY <2>2, <3>1 DEF TypeOK
  <2>4. callPc' \in [Callers -> CallPoints]
    BY DEF TypeOK, CallPoints
  <2>5. parent' \in [TokenIds -> {0} \cup Issued']
    BY <1>1, <2>2 DEF TypeOK
  <2>6. rows' \subseteq Issued' /\ lapsed' \subseteq rows' /\ expired' \subseteq Issued'
        /\ denylist' \subseteq Issued' /\ ended' \subseteq Issued' /\ revoked' \subseteq Issued'
    BY <2>2 DEF TypeOK
  <2> QED BY <2>1, <2>2, <2>3, <2>4, <2>5, <2>6 DEF TypeOK
<1>4. OneHolder'
  BY <1>2 DEF OneHolder
<1>5. CallsHaveTokens'
  <2>1. Issued \subseteq Issued'
    BY DEF TypeOK, Issued, TokenIds
  <2>2. \A d \in Callers : callPc'[d] # "idle" => callPc[d] # "idle" /\ call'[d] = call[d]
    BY DEF TypeOK
  <2> QED BY <2>1, <2>2 DEF CallsHaveTokens
<1>6. RotatedOnce'
  <2>1. \A t \in Issued : parent'[t] = parent[t] /\ parent[t] # old
    BY <1>1 DEF OnlyNewestLives, TypeOK, Issued, TokenIds
  <2>2. parent'[nextId] = old /\ Issued' = Issued \cup {nextId}
    BY DEF TypeOK, Issued, TokenIds
  <2> QED BY <2>1, <2>2 DEF RotatedOnce
<1>7. OnlyNewestLives'
  BY <1>1 DEF OnlyNewestLives, TypeOK, Issued, TokenIds
<1>8. EndedAreGone' /\ RevokedAreOut'
  <2>1. nextId \notin ended
    BY DEF TypeOK, Issued, TokenIds
  <2> QED BY <2>1 DEF EndedAreGone, RevokedAreOut
<1> QED BY <1>3, <1>4, <1>5, <1>6, <1>7, <1>8

\* No request holds the row that a logout deletes.
LEMMA EraseKeepsInv ==
    ASSUME SessionInv, NEW c \in Callers, Erase(c) PROVE SessionInv'
<1> USE DEF SessionInv, Erase, Goto
<1>1. call[c].token \in Issued
  BY DEF CallsHaveTokens
<1>2. TypeOK'
  BY <1>1 DEF TypeOK, Unlocked, Issued, CallPoints
<1>3. OneHolder' /\ CallsHaveTokens'
  BY DEF OneHolder, CallsHaveTokens, TypeOK, Issued
<1>4. RotatedOnce' /\ OnlyNewestLives' /\ EndedAreGone' /\ RevokedAreOut'
  BY DEF RotatedOnce, OnlyNewestLives, EndedAreGone, RevokedAreOut, Issued
<1> QED BY <1>2, <1>3, <1>4

LEMMA DenyKeepsInv ==
    ASSUME SessionInv, NEW c \in Callers, Deny(c) PROVE SessionInv'
<1> USE DEF SessionInv, Deny, Goto, Answer
<1>1. call[c].token \in Issued
  BY DEF CallsHaveTokens
<1>2. TypeOK'
  BY <1>1 DEF TypeOK, Issued, CallPoints, CallAnswers, NoCall, Call
<1>3. OneHolder' /\ CallsHaveTokens'
  BY DEF OneHolder, CallsHaveTokens, TypeOK, Issued
<1>4. RotatedOnce' /\ OnlyNewestLives' /\ EndedAreGone' /\ RevokedAreOut'
  BY DEF RotatedOnce, OnlyNewestLives, EndedAreGone, RevokedAreOut, Issued
<1> QED BY <1>2, <1>3, <1>4

LEMMA CallKeepsInv ==
    ASSUME SessionInv, NEW c \in Callers, CallStep(c) PROVE SessionInv'
<1>1. CASE Find(c)
  BY <1>1, QuietStep DEF Find, CallPoints
<1>2. CASE \/ FindInvalid(c) \/ DeleteTaken(c) \/ Abort(c) \/ Admit(c) \/ Refuse(c)
           \/ VerifyBad(c) \/ DenyFails(c)
  BY <1>2, QuietStep DEF FindInvalid, DeleteTaken, Abort, Admit, Refuse, VerifyBad, DenyFails,
     CallPoints, CallAnswers
<1>3. CASE Verify(c) \/ EraseFails(c)
  BY <1>3, QuietStep DEF Verify, EraseFails, CallPoints
<1>4. CASE Delete(c)
  BY <1>4, DeleteKeepsInv
<1>5. CASE Commit(c)
  BY <1>5, CommitKeepsInv
<1>6. CASE Erase(c)
  BY <1>6, EraseKeepsInv
<1>7. CASE Deny(c)
  BY <1>7, DenyKeepsInv
<1> QED BY <1>1, <1>2, <1>3, <1>4, <1>5, <1>6, <1>7 DEF CallStep

LEMMA TimeKeepsInv ==
    ASSUME SessionInv, NEW t \in Issued, ExpireAccess(t) \/ ExpireRefresh(t) \/ Forget(t)
    PROVE  SessionInv'
<1> USE DEF SessionInv, ExpireAccess, ExpireRefresh, Forget, callVars, historyVars, Issued
<1>1. TypeOK'
  BY DEF TypeOK
<1>2. OneHolder' /\ CallsHaveTokens'
  BY DEF OneHolder, CallsHaveTokens
<1>3. RotatedOnce' /\ OnlyNewestLives' /\ EndedAreGone' /\ RevokedAreOut'
  BY DEF RotatedOnce, OnlyNewestLives, EndedAreGone, RevokedAreOut
<1> QED BY <1>1, <1>2, <1>3

LEMMA RestartKeepsInv == ASSUME SessionInv, Restart PROVE SessionInv'
<1> USE DEF SessionInv, Restart, tokenVars, historyVars, Issued
<1>1. TypeOK'
  BY DEF TypeOK, NoCall, Call, CallPoints, CallAnswers
<1>2. OneHolder' /\ CallsHaveTokens'
  BY DEF OneHolder, CallsHaveTokens
<1>3. RotatedOnce' /\ OnlyNewestLives' /\ EndedAreGone' /\ RevokedAreOut'
  BY DEF RotatedOnce, OnlyNewestLives, EndedAreGone, RevokedAreOut
<1> QED BY <1>1, <1>2, <1>3

LEMMA StepKeepsInv == SessionInv /\ [Next]_vars => SessionInv'
<1> SUFFICES ASSUME SessionInv, [Next]_vars PROVE SessionInv'
  OBVIOUS
<1>1. CASE Login
  BY <1>1, LoginKeepsInv
<1>2. ASSUME NEW c \in Callers, NEW t \in Issued, NEW point \in {"find", "admit", "verify"},
             Present(c, t, point) PROVE SessionInv'
  BY <1>2, QuietStep DEF Present, CallPoints
<1>3. ASSUME NEW c \in Callers, NEW t \in Issued, NEW a \in {"refused", "badToken"},
             PresentExpired(c, t, a) PROVE SessionInv'
  BY <1>3, QuietStep DEF PresentExpired, CallPoints, CallAnswers
<1>4. ASSUME NEW c \in Callers, CallStep(c) PROVE SessionInv'
  BY <1>4, CallKeepsInv
<1>5. ASSUME NEW t \in Issued, ExpireAccess(t) \/ ExpireRefresh(t) \/ Forget(t)
      PROVE SessionInv'
  BY <1>5, TimeKeepsInv
<1>6. CASE Restart
  BY <1>6, RestartKeepsInv
<1>7. CASE UNCHANGED vars
  BY <1>7 DEF SessionInv, TypeOK, OneHolder, CallsHaveTokens, RotatedOnce, OnlyNewestLives,
     EndedAreGone, RevokedAreOut, Issued, vars, tokenVars, callVars, historyVars
<1> QED BY <1>1, <1>2, <1>3, <1>4, <1>5, <1>6, <1>7 DEF Next, PresentAccess

\* The inductive invariant behind the results below.
THEOREM SessionInvariant == Spec => []SessionInv
BY SessionInit, StepKeepsInv, PTL DEF Spec

\* Rows, requests and tokens keep their types, and whoever rotates a token holds its
\* row (refreshTokens' delete).
THEOREM SessionTypeCorrect == Spec => []TypeOK
<1>1. SessionInv => TypeOK
  BY DEF SessionInv
<1> QED BY <1>1, SessionInvariant, PTL

\* Rotation is single-use, for any number of concurrent refreshes with one token.
THEOREM RotationIsSingleUse == Spec => []RotatedOnce
<1>1. SessionInv => RotatedOnce
  BY DEF SessionInv
<1> QED BY <1>1, SessionInvariant, PTL

\* An exchanged token is not in the table again.
THEOREM ExchangedIsDead == Spec => []OnlyNewestLives
<1>1. SessionInv => OnlyNewestLives
  BY DEF SessionInv
<1> QED BY <1>1, SessionInvariant, PTL

\* logout and refreshTokens race for one row: once logout has been there, no rotation
\* of the token commits.
THEOREM LogoutEndsRotation == Spec => NoRotationAfterLogout
<1>1. SessionInv /\ [Next]_vars
      => [\A c \in Callers : Commit(c) => call[c].token \notin ended]_vars
  BY DEF SessionInv, TypeOK, EndedAreGone, Commit
<1> QED BY <1>1, SessionInvariant, PTL DEF Spec, NoRotationAfterLogout

\* A denylisted access token opens no request as long as it lives, whatever other
\* requests do between the two checks of this one.
THEOREM LogoutRevokesAccess == Spec => RevokedStaysOut
<1>1. SessionInv /\ [Next]_vars
      => [\A c \in Callers : Admit(c) /\ call[c].token \in revoked => ~Live(call[c].token)]_vars
  BY DEF SessionInv, RevokedAreOut, Admit, Live
<1> QED BY <1>1, SessionInvariant, PTL DEF Spec, RevokedStaysOut

-----------------------------------------------------------------------------
(* ApiClient and AdminPanel.  A request waits only while refreshPromise is *)
(* set, which one refresh in flight sets and takes away again; and every   *)
(* step-up token of the client came with the answer of a login.            *)

Request == [at : {"idle", "sent", "waiting"} \cup Statuses, retried : BOOLEAN,
            access : {"none", "good", "stale"}, token : {Nothing} \cup issued, mine : BOOLEAN]

ClientTypeOK ==
    /\ issued \subseteq Tokens /\ open \subseteq issued
    /\ access \in {"none", "good", "stale"}
    /\ adminToken \in {Nothing} \cup issued
    /\ refreshing \in BOOLEAN /\ refreshes \in Nat
    /\ req \in [Kinds -> Request]

PageTypeOK ==
    /\ app \in {"loading", "ready", "failed", "outside"}
    /\ screen \in {"settings", "elsewhere", "panel"}
    /\ prompt \in BOOLEAN /\ dialog \in BOOLEAN
    /\ view \in [Views -> [data : BOOLEAN, error : {"none", "401", "other"}]]
    /\ refusal \in {"none", "401", "other"}

PanelInv == ClientTypeOK /\ PageTypeOK /\ RefreshIsShared

\* What a page may do to the requests of the client: none of them starts to wait.
Requests == [Kinds -> Request]
Calm(requests) ==
    requests \in Requests /\ \A k \in Kinds : requests[k].at = "waiting" => req[k].at = "waiting"

LEMMA NoRequestIsIdle == NoRequest \in Request /\ NoRequest.at = "idle"
BY DEF NoRequest, Request

LEMMA SentIsCalm ==
  ASSUME ClientTypeOK, NEW K, NEW t \in {Nothing} \cup issued
  PROVE  Calm(Sent(K, t))
BY DEF ClientTypeOK, Calm, Requests, Request, Sent

LEMMA RestIsCalm ==
  ASSUME ClientTypeOK, NEW k \in Kinds
  PROVE  Calm(Rest(k))
BY NoRequestIsIdle DEF ClientTypeOK, Calm, Requests, Rest

LEMMA LeftIsCalm ==
  ASSUME NEW requests, Calm(requests)
  PROVE  Calm(Unmounted(requests)) /\ Calm([requests EXCEPT !["login"] = NoRequest])
<1>1. Calm(Unmounted(requests))
  BY DEF Calm, Requests, Request, Unmounted
<1>2. Calm([requests EXCEPT !["login"] = NoRequest])
  BY NoRequestIsIdle DEF Calm, Requests
<1> QED BY <1>1, <1>2

LEMMA RequestsAreCalm == ClientTypeOK => Calm(req)
BY DEF ClientTypeOK, Calm, Requests

LEMMA CalmKeepsClient ==
  ASSUME PanelInv, Calm(req'), UNCHANGED <<sessionsVars, refreshing, refreshes>>,
         access' \in {"none", "good", "stale"}, adminToken' \in {Nothing} \cup issued
  PROVE  ClientTypeOK' /\ RefreshIsShared'
<1>1. Request' = Request
  BY DEF Request, sessionsVars
<1>2. ClientTypeOK'
  BY <1>1 DEF PanelInv, ClientTypeOK, Calm, Requests, sessionsVars
<1>3. RefreshIsShared'
  BY DEF PanelInv, RefreshIsShared, Calm
<1> QED BY <1>2, <1>3

\* Of a page: what it shows beside its views.
ScreenOK ==
    /\ screen \in {"settings", "elsewhere", "panel"}
    /\ prompt \in BOOLEAN /\ dialog \in BOOLEAN /\ refusal \in {"none", "401", "other"}

ViewsOK == view \in [Views -> [data : BOOLEAN, error : {"none", "401", "other"}]]

LEMMA PageParts == PageTypeOK <=> app \in {"loading", "ready", "failed", "outside"} /\ ScreenOK /\ ViewsOK
BY DEF PageTypeOK, ScreenOK, ViewsOK

LEMMA ShowStep ==
  ASSUME NEW s \in {"settings", "elsewhere", "panel"}, NEW requests, Calm(requests),
         Show(s, requests)
  PROVE  ScreenOK' /\ Calm(req')
BY LeftIsCalm DEF Show, ScreenOK

LEMMA VisitStep ==
  ASSUME PageTypeOK, NEW requests, Calm(requests), Visit(requests)
  PROVE  ScreenOK' /\ ViewsOK' /\ Calm(req')
<1>1. ViewsOK'
  BY DEF Visit, Refetched, PageTypeOK, ViewsOK
<1>2. CASE Bounce(requests)
  BY <1>1, <1>2, ShowStep DEF Bounce
<1>3. CASE /\ screen' = "panel" /\ prompt' = FALSE /\ req' = requests
           /\ UNCHANGED <<dialog, refusal>>
  BY <1>1, <1>3 DEF ScreenOK, PageTypeOK
<1> QED BY <1>2, <1>3 DEF Visit

LEMMA EnterStep ==
  ASSUME ClientTypeOK, PageTypeOK, NEW t, NEW requests, Calm(requests), EnterPanel(t, requests)
  PROVE  ScreenOK' /\ ViewsOK' /\ Calm(req')
<1>1. CASE Show("settings", req) /\ UNCHANGED view
  BY <1>1, ShowStep, RequestsAreCalm DEF PageTypeOK, ViewsOK
<1>2. CASE Visit(requests)
  BY <1>2, VisitStep
<1> QED BY <1>1, <1>2 DEF EnterPanel

LEMMA PanelInitHolds == PanelInit => PanelInv
<1> SUFFICES ASSUME PanelInit PROVE PanelInv
  OBVIOUS
<1>1. ClientTypeOK
  BY NoRequestIsIdle DEF PanelInit, SessionsInit, ClientInit, ClientTypeOK
<1>2. PageTypeOK
  BY DEF PanelInit, PageTypeOK, EmptyViews
<1>3. RefreshIsShared
  BY DEF PanelInit, ClientInit, RefreshIsShared, NoRequest
<1> QED BY <1>1, <1>2, <1>3 DEF PanelInv

-----------------------------------------------------------------------------
(* The client and the server.                                              *)

\* A new session makes more tokens known, and no request loses its type.
LEMMA AnsweredRequests ==
  ASSUME PanelInv, NEW k \in Kinds, NEW status \in Statuses, issued \subseteq issued',
         Answered(k, status)
  PROVE  /\ req' \in [Kinds -> Request']
         /\ \A j \in Kinds : req'[j].at = "waiting" => req[j].at = "waiting"
BY DEF PanelInv, ClientTypeOK, Answered, Request, Statuses

LEMMA ServeStep ==
  ASSUME PanelInv, NEW k \in Kinds, Serve(k)
  PROVE  ClientTypeOK' /\ RefreshIsShared'
<1> USE DEF sessionsVars
<1>1. SUFFICES /\ issued' \subseteq Tokens /\ open' \subseteq issued' /\ issued \subseteq issued'
               /\ req' \in [Kinds -> Request']
               /\ \A j \in Kinds : req'[j].at = "waiting" => req[j].at = "waiting"
  BY DEF PanelInv, ClientTypeOK, RefreshIsShared, Serve
<1>2. issued \subseteq Tokens /\ open \subseteq issued
  BY DEF PanelInv, ClientTypeOK
<1>3. CASE Denied(k)
  <2>1. PICK status \in Statuses : Answered(k, status)
    BY <1>3 DEF Denied, Statuses
  <2> QED BY <1>2, <1>3, <2>1, AnsweredRequests DEF Denied
<1>4. CASE ServeSession(k)
  <2>1. PICK status \in Statuses : Answered(k, status)
    BY <1>4 DEF ServeSession, Statuses
  <2>2. issued' = issued /\ open' \subseteq open
    BY <1>4 DEF ServeSession, Close
  <2> QED BY <1>2, <2>1, <2>2, AnsweredRequests
<1>5. CASE ServeFails(k)
  <2>1. "failed" \in Statuses /\ Answered(k, "failed")
    BY <1>5 DEF ServeFails, Statuses
  <2>2. issued' = issued /\ open' \subseteq open
    BY <1>5 DEF ServeFails, Close
  <2> QED BY <1>2, <2>1, <2>2, AnsweredRequests
<1>6. CASE k = "profile" /\ ServeProfile
  <2>1. "ok" \in Statuses /\ Answered(k, "ok")
    BY <1>6 DEF ServeProfile, Statuses
  <2> QED BY <1>2, <1>6, <2>1, AnsweredRequests DEF ServeProfile
<1>7. CASE k = "login" /\ ServeLogin
  <2>1. CASE Answered("login", "401") /\ UNCHANGED sessionsVars
    <3>1. "401" \in Statuses
      BY DEF Statuses
    <3> QED BY <1>2, <1>7, <2>1, <3>1, AnsweredRequests
  <2>2. ASSUME NEW t \in Tokens, Issue(t) \/ IssueTooLate(t),
               req' = [req EXCEPT !["login"].at = "ok", !["login"].access = "none",
                                  !["login"].token = t]
        PROVE  /\ issued' \subseteq Tokens /\ open' \subseteq issued' /\ issued \subseteq issued'
               /\ req' \in [Kinds -> Request']
               /\ \A j \in Kinds : req'[j].at = "waiting" => req[j].at = "waiting"
    <3>1. issued' = issued \cup {t} /\ open' \subseteq open \cup {t}
      BY <2>2 DEF Issue, IssueTooLate
    <3>2. req' \in [Kinds -> Request']
      <4>1. "login" \in Kinds /\ req \in [Kinds -> Request]
        BY DEF Kinds, PanelInv, ClientTypeOK
      <4>2. \A j \in Kinds : req[j] \in Request'
        BY <3>1, <4>1 DEF Request
      <4>3. [req["login"] EXCEPT !.at = "ok", !.access = "none", !.token = t] \in Request'
        BY <3>1, <4>1 DEF Request, Statuses
      <4>4. req' = [req EXCEPT !["login"] =
                       [req["login"] EXCEPT !.at = "ok", !.access = "none", !.token = t]]
        BY <2>2, <4>1
      <4> QED BY <4>1, <4>2, <4>3, <4>4
    <3>3. \A j \in Kinds : req'[j].at = "waiting" => req[j].at = "waiting"
      BY <2>2 DEF PanelInv, ClientTypeOK, Request
    <3> QED BY <1>2, <3>1, <3>2, <3>3
  <2> QED BY <1>7, <2>1, <2>2 DEF ServeLogin
<1> QED BY <1>3, <1>4, <1>5, <1>6, <1>7 DEF Serve

LEMMA AwaitStep ==
  ASSUME PanelInv, NEW k \in Kinds, AwaitRefresh(k)
  PROVE  ClientTypeOK' /\ RefreshIsShared'
<1>1. ClientTypeOK'
  <2>1. req' \in [Kinds -> Request] /\ Request' = Request
    BY DEF PanelInv, ClientTypeOK, Request, AwaitRefresh, sessionsVars
  <2>2. refreshing' \in BOOLEAN /\ refreshes' \in Nat
    <3>1. refreshes' = refreshes \/ refreshes' = refreshes + 1
      BY DEF AwaitRefresh
    <3>2. refreshes \in Nat
      BY DEF PanelInv, ClientTypeOK
    <3> QED BY <3>1, <3>2 DEF AwaitRefresh
  <2> QED BY <2>1, <2>2 DEF PanelInv, ClientTypeOK, AwaitRefresh, sessionsVars
<1>2. RefreshIsShared'
  BY DEF PanelInv, ClientTypeOK, RefreshIsShared, AwaitRefresh
<1> QED BY <1>1, <1>2

LEMMA RefreshedStep ==
  ASSUME PanelInv, Refreshed
  PROVE  ClientTypeOK' /\ RefreshIsShared'
<1>1. refreshes = 1 /\ refreshes' = 0 /\ ~refreshing'
  <2>1. refreshes \in Nat /\ refreshes <= 1 /\ refreshes > 0 /\ refreshes' = refreshes - 1
    BY DEF PanelInv, ClientTypeOK, RefreshIsShared, Refreshed
  <2>2. ~refreshing'
    BY DEF Refreshed
  <2> QED BY <2>1, <2>2
<1>2. req' \in [Kinds -> Request] /\ \A k \in Kinds : req'[k].at # "waiting"
  BY DEF PanelInv, ClientTypeOK, Refreshed, Request
<1>3. Request' = Request
  BY DEF Refreshed, Request, sessionsVars
<1>4. ClientTypeOK'
  <2>1. refreshes' \in Nat /\ refreshing' \in BOOLEAN
    <3>1. refreshing' = FALSE
      BY DEF Refreshed
    <3>2. refreshes' \in Nat
      BY <1>1
    <3> QED BY <3>1, <3>2
  <2>2. /\ issued' = issued /\ open' = open /\ access' = "good" /\ adminToken' = adminToken
    BY DEF Refreshed, sessionsVars
  <2> QED BY <1>2, <1>3, <2>1, <2>2 DEF PanelInv, ClientTypeOK
<1> QED BY <1>1, <1>2, <1>4 DEF RefreshIsShared

LEMMA TimeStep ==
  ASSUME PanelInv, AccessExpires \/ SessionEnds
  PROVE  ClientTypeOK' /\ RefreshIsShared'
<1>1. CASE AccessExpires
  <2>1. /\ req' \in [Kinds -> Request]
        /\ \A k \in Kinds : req'[k].at = req[k].at
    BY <1>1 DEF PanelInv, ClientTypeOK, Request, AccessExpires
  <2>2. Calm(req')
    BY <2>1 DEF Calm, Requests
  <2> QED BY <1>1, <2>2, CalmKeepsClient DEF AccessExpires, PanelInv, ClientTypeOK
<1>2. CASE SessionEnds
  BY <1>2 DEF PanelInv, ClientTypeOK, Request, RefreshIsShared, SessionEnds, Close, clientVars
<1> QED BY <1>1, <1>2

-----------------------------------------------------------------------------
(* Every step of the panel.                                                *)

\* A reload keeps the route and the sessions of the server.
LEMMA ReloadStep ==
  ASSUME PanelInv, Reload
  PROVE  PanelInv'
<1>1. req' \in [Kinds -> Request] /\ \A k \in Kinds : req'[k].at # "waiting"
  BY NoRequestIsIdle DEF Reload
<1>2. Calm(req') /\ Request' = Request
  BY <1>1 DEF Calm, Requests, Request, Reload, sessionsVars
<1>3. ClientTypeOK'
  BY <1>1, <1>2 DEF PanelInv, ClientTypeOK, Reload, sessionsVars
<1>4. PageTypeOK'
  BY DEF PanelInv, PageTypeOK, Reload, EmptyViews
<1>5. RefreshIsShared'
  BY <1>1 DEF Reload, RefreshIsShared
<1> QED BY <1>3, <1>4, <1>5 DEF PanelInv

\* A step of the client or the server, which no page sees.
LEMMA UnseenStep ==
  ASSUME PanelInv, ClientTypeOK' /\ RefreshIsShared', UNCHANGED pageVars
  PROVE  PanelInv'
BY DEF PanelInv, PageTypeOK, pageVars

\* A step of a page with the requests of the client.
LEMMA PageStep ==
  ASSUME PanelInv, Calm(req'), UNCHANGED <<sessionsVars, refreshing, refreshes>>,
         access' \in {"none", "good", "stale"}, adminToken' \in {Nothing} \cup issued,
         app' \in {"loading", "ready", "failed", "outside"}, ScreenOK', ViewsOK'
  PROVE  PanelInv'
<1>1. ClientTypeOK' /\ RefreshIsShared'
  BY CalmKeepsClient
<1>2. PageTypeOK'
  BY DEF PageTypeOK, ScreenOK, ViewsOK
<1> QED BY <1>1, <1>2 DEF PanelInv

LEMMA SettleSteps ==
  ASSUME PanelInv, NEW k \in Kinds, Settle(k)
  PROVE  PanelInv'
<1>1. /\ ClientTypeOK /\ PageTypeOK /\ ScreenOK /\ ViewsOK
      /\ access \in {"none", "good", "stale"} /\ adminToken \in {Nothing} \cup issued
      /\ req["login"].token \in {Nothing} \cup issued
  BY DEF PanelInv, ClientTypeOK, Request, Kinds, PageTypeOK, ScreenOK, ViewsOK
<1>2. app \in {"loading", "ready", "failed", "outside"}
  BY <1>1 DEF PageTypeOK
<1>3. CASE k \in Views /\ ViewSettles(k)
  <2>1. ErrorOf(req[k].at) \in {"none", "401", "other"}
    BY DEF ErrorOf
  <2>2. ViewsOK'
    BY <1>1, <1>3, <2>1 DEF ViewSettles, ViewsOK
  <2>3. ScreenOK' /\ Calm(req')
    BY <1>1, <1>3, ShowStep, RestIsCalm DEF ViewSettles, Bounce, ScreenOK
  <2> QED BY <1>1, <1>2, <1>3, <2>2, <2>3, PageStep DEF ViewSettles
<1>4. CASE k = "login" /\ LoginSucceeds
  <2> DEFINE t == req["login"].token
             requests == [Sent(Views, t) EXCEPT !["login"] = NoRequest]
  <2>1. Calm(requests) /\ Calm(Rest("login"))
    BY <1>1, <1>4, SentIsCalm, LeftIsCalm, RestIsCalm
  <2>2. ScreenOK' /\ ViewsOK' /\ Calm(req')
    <3>1. CASE EnterPanel(t, requests)
      <4> HIDE DEF t, requests
      <4> QED BY <1>1, <2>1, <3>1, EnterStep
    <3>2. CASE req' = Rest("login") /\ UNCHANGED <<screen, prompt, dialog, view, refusal>>
      BY <1>1, <2>1, <3>2 DEF ScreenOK, ViewsOK
    <3> QED BY <1>4, <3>1, <3>2 DEF LoginSucceeds
  <2> QED BY <1>1, <1>2, <1>4, <2>2, PageStep DEF LoginSucceeds
<1>5. CASE k = "login" /\ LoginFails
  <2>1. ScreenOK' /\ ViewsOK' /\ Calm(req')
    BY <1>1, <1>5, RestIsCalm DEF LoginFails, ScreenOK, ViewsOK
  <2> QED BY <1>1, <1>2, <1>5, <2>1, PageStep DEF LoginFails
<1>6. CASE k = "toggle" /\ ToggleSettles
  <2>1. ErrorOf(req["toggle"].at) \in {"none", "401", "other"}
    BY DEF ErrorOf
  <2>2. ScreenOK' /\ ViewsOK' /\ Calm(req')
    BY <1>1, <1>6, <2>1, RestIsCalm DEF ToggleSettles, ScreenOK, ViewsOK
  <2> QED BY <1>1, <1>2, <1>6, <2>2, PageStep DEF ToggleSettles
<1>7. CASE k = "lock" /\ LockSettles
  <2>1. ScreenOK' /\ Calm(req')
    BY <1>1, <1>7, ShowStep, RestIsCalm DEF LockSettles, ScreenOK
  <2>2. ViewsOK'
    BY <1>1, <1>7 DEF LockSettles, ViewsOK
  <2> QED BY <1>1, <1>2, <1>7, <2>1, <2>2, PageStep DEF LockSettles
<1>8. CASE k = "profile" /\ OtherSettles
  <2>1. ScreenOK' /\ ViewsOK' /\ Calm(req')
    BY <1>1, <1>8, RestIsCalm DEF OtherSettles, ScreenOK, ViewsOK, pageVars
  <2> QED BY <1>1, <1>2, <1>8, <2>1, PageStep DEF OtherSettles, pageVars
<1> QED BY <1>3, <1>4, <1>5, <1>6, <1>7, <1>8 DEF Settle

LEMMA PanelStep == PanelInv /\ [PanelNext]_panelVars => PanelInv'
<1> SUFFICES ASSUME PanelInv, [PanelNext]_panelVars PROVE PanelInv'
  OBVIOUS
<1>0. /\ ClientTypeOK /\ PageTypeOK /\ ScreenOK /\ ViewsOK /\ Calm(req)
      /\ access \in {"none", "good", "stale"} /\ adminToken \in {Nothing} \cup issued
      /\ app \in {"loading", "ready", "failed", "outside"}
  BY RequestsAreCalm DEF PanelInv, ClientTypeOK, PageTypeOK, ScreenOK, ViewsOK
<1>1. CASE Boot
  <2>1. Calm(Sent(Views, adminToken))
    BY <1>0, SentIsCalm
  <2>2. ScreenOK' /\ ViewsOK' /\ Calm(req')
    <3>1. CASE EnterPanel(adminToken, Sent(Views, adminToken))
      BY <1>0, <2>1, <3>1, EnterStep
    <3>2. CASE UNCHANGED <<req, screen, prompt, dialog, view, refusal>>
      BY <1>0, <3>2 DEF ScreenOK, ViewsOK
    <3> QED BY <1>1, <3>1, <3>2 DEF Boot
  <2>3. /\ UNCHANGED <<sessionsVars, adminToken, refreshing, refreshes>>
        /\ access' \in {access, "good"} /\ app' \in {"ready", "failed", "outside"}
    BY <1>1 DEF Boot
  <2> QED BY <1>0, <2>2, <2>3, PageStep
<1>2. CASE RetryBoot
  BY <1>0, <1>2, PageStep DEF RetryBoot, clientVars, ScreenOK, ViewsOK
<1>3. CASE Reload \/ RefreshFails
  BY <1>3, ReloadStep DEF RefreshFails
<1>4. CASE Refreshed /\ UNCHANGED pageVars
  BY <1>4, RefreshedStep, UnseenStep
<1>5. CASE (AccessExpires \/ SessionEnds) /\ UNCHANGED pageVars
  BY <1>5, TimeStep, UnseenStep
<1>6. ASSUME NEW k \in Kinds, Handle(k) PROVE PanelInv'
  BY <1>6, ServeStep, AwaitStep, UnseenStep, SettleSteps DEF Handle
<1>7. ASSUME NEW s \in {"settings", "elsewhere"}, Navigate(s) PROVE PanelInv'
  <2>1. ScreenOK' /\ Calm(req')
    BY <1>0, <1>7, ShowStep DEF Navigate
  <2> QED BY <1>0, <1>7, <2>1, PageStep DEF Navigate, ViewsOK
<1>8. CASE OpenAdmin
  <2>1. Calm(Sent(Views, adminToken))
    BY <1>0, SentIsCalm
  <2>2. ScreenOK' /\ ViewsOK' /\ Calm(req')
    <3>1. CASE EnterPanel(adminToken, Sent(Views, adminToken))
      BY <1>0, <2>1, <3>1, EnterStep
    <3>2. CASE prompt' = TRUE /\ UNCHANGED <<req, screen, dialog, view, refusal>>
      BY <1>0, <3>2 DEF ScreenOK, ViewsOK
    <3> QED BY <1>8, <3>1, <3>2 DEF OpenAdmin
  <2> QED BY <1>0, <1>8, <2>2, PageStep DEF OpenAdmin
<1>9. CASE CancelPrompt
  BY <1>0, <1>9, PageStep DEF CancelPrompt, clientVars, ScreenOK, ViewsOK
<1>10. CASE SubmitPassword \/ CallOther \/ Lock
  <2>1. Calm(req') /\ UNCHANGED <<sessionsVars, access, adminToken, refreshing, refreshes, pageVars>>
    BY <1>0, <1>10, SentIsCalm DEF SubmitPassword, CallOther, Lock
  <2> QED BY <1>0, <2>1, PageStep DEF ScreenOK, ViewsOK, pageVars
<1>11. ASSUME NEW k \in Views, RetryView(k) PROVE PanelInv'
  <2>1. ViewsOK'
    BY <1>0, <1>11 DEF RetryView, Refetched, ViewsOK
  <2>2. Calm(req') /\ ScreenOK'
    BY <1>0, <1>11, SentIsCalm DEF RetryView, ScreenOK
  <2> QED BY <1>0, <1>11, <2>1, <2>2, PageStep DEF RetryView
<1>12. CASE DismissEnded
  <2>1. ScreenOK' /\ Calm(req')
    BY <1>0, <1>12, ShowStep DEF DismissEnded, Bounce
  <2> QED BY <1>0, <1>12, <2>1, PageStep DEF DismissEnded, ViewsOK
<1>13. CASE DismissRefusal \/ AskToSwitchOff \/ CancelSwitchOff
  <2>1. /\ UNCHANGED <<sessionsVars, clientVars, app, screen, prompt, view>>
        /\ dialog' \in BOOLEAN /\ refusal' \in {"none", "401", "other"}
    BY <1>0, <1>13 DEF DismissRefusal, AskToSwitchOff, CancelSwitchOff, ScreenOK
  <2> QED BY <1>0, <2>1, PageStep DEF clientVars, ScreenOK, ViewsOK
<1>14. CASE SwitchOn \/ ConfirmSwitchOff
  <2>1. SendToggle
    BY <1>14 DEF SwitchOn, ConfirmSwitchOff
  <2>2. Calm(req') /\ ScreenOK' /\ ViewsOK'
    BY <1>0, <2>1, SentIsCalm DEF SendToggle, ScreenOK, ViewsOK
  <2> QED BY <1>0, <2>1, <2>2, PageStep DEF SendToggle
<1>15. CASE UNCHANGED panelVars
  BY <1>0, <1>15, PageStep DEF panelVars, clientVars, pageVars, ScreenOK, ViewsOK
<1> QED BY <1>1, <1>2, <1>3, <1>4, <1>5, <1>6, <1>7, <1>8, <1>9, <1>10, <1>11, <1>12, <1>13,
          <1>14, <1>15 DEF PanelNext, Refresh


LEMMA PanelAlways == PanelSpec => []PanelInv
BY PanelInitHolds, PanelStep, PTL DEF PanelSpec

\* The client and the panel hold what they are meant to, and no step-up token that the
\* server did not issue to a login.
THEOREM PanelTypeCorrect == PanelSpec => [](ClientTypeOK /\ PageTypeOK)
<1>1. PanelInv => ClientTypeOK /\ PageTypeOK
  BY DEF PanelInv
<1> QED BY <1>1, PanelAlways, PTL

\* Whatever requests find the access token stale, in whatever order: one refresh is in
\* flight, and a request that waits has it to wait for.
THEOREM RefreshShared == PanelSpec => []RefreshIsShared
<1>1. PanelInv => RefreshIsShared
  BY DEF PanelInv
<1> QED BY <1>1, PanelAlways, PTL

\* The way to the panel leads through EnterPanel, with a token in memory: from a boot on
\* its route, from the settings, or from the answer of a login.
LEMMA WayToPanel ==
  ASSUME PanelNext, OnPanel', ~OnPanel
  PROVE  adminToken' # Nothing
<1> USE DEF OnPanel
<1>1. CASE Boot
  <2>1. screen' = "panel" /\ adminToken' = adminToken
    BY <1>1 DEF Boot
  <2>2. CASE screen = "panel"
    BY <1>1, <2>1, <2>2 DEF Boot, EnterPanel, Show
  <2>3. CASE screen # "panel"
    BY <1>1, <2>1, <2>3 DEF Boot
  <2> QED BY <2>2, <2>3
<1>2. CASE OpenAdmin
  BY <1>2 DEF OpenAdmin
<1>3. CASE LoginSucceeds
  BY <1>3 DEF LoginSucceeds, EnterPanel, Show
<1>4. CASE RetryBoot \/ Reload \/ Refresh
  BY <1>4 DEF RetryBoot, Reload, Refresh, RefreshFails, pageVars
<1>5. CASE (AccessExpires \/ SessionEnds) /\ UNCHANGED pageVars
  BY <1>5 DEF pageVars
<1>6. ASSUME NEW k \in Kinds, Handle(k) PROVE adminToken' # Nothing
  BY <1>3, <1>6 DEF Handle, Settle, ViewSettles, LoginFails, ToggleSettles, LockSettles,
     OtherSettles, Bounce, Show, pageVars
<1>7. CASE \E s \in {"settings", "elsewhere"} : Navigate(s)
  BY <1>7 DEF Navigate, Show
<1>8. CASE CancelPrompt \/ SubmitPassword \/ CallOther \/ Lock
  BY <1>8 DEF CancelPrompt, SubmitPassword, CallOther, Lock, pageVars
<1>9. CASE DismissEnded \/ DismissRefusal \/ \E k \in Views : RetryView(k)
  BY <1>9 DEF DismissEnded, DismissRefusal, RetryView
<1>10. CASE SwitchOn \/ AskToSwitchOff \/ ConfirmSwitchOff \/ CancelSwitchOff
  BY <1>10 DEF SwitchOn, AskToSwitchOff, ConfirmSwitchOff, CancelSwitchOff, Switchable, SendToggle
<1> QED BY <1>1, <1>2, <1>4, <1>5, <1>6, <1>7, <1>8, <1>9, <1>10 DEF PanelNext

\* Reloads, deep links and late answers included, the panel comes up only with a step-up
\* token in memory.
THEOREM PanelIsGuarded == PanelSpec => PanelNeedsPassword
<1>1. [PanelNext]_panelVars => [OnPanel' /\ ~OnPanel => adminToken' # Nothing]_panelVars
  BY WayToPanel
<1> QED BY <1>1, PTL DEF PanelSpec, PanelNeedsPassword

\* That token is one the server issued in answer to a login: the panel cannot come up
\* before a password was accepted.
THEOREM PanelNeedsLogin ==
    PanelSpec => [][OnPanel' /\ ~OnPanel => adminToken' \in issued']_panelVars
<1>1. PanelInv' /\ [PanelNext]_panelVars
      => [OnPanel' /\ ~OnPanel => adminToken' \in issued']_panelVars
  BY WayToPanel DEF PanelInv, ClientTypeOK
<1> QED BY <1>1, PanelAlways, PTL DEF PanelSpec

\* The panel and its client use the step-up sessions as AdminSessions promises them: a
\* token comes from a login, and a closed session stays closed.
THEOREM PanelKeepsSessions == PanelSpec => SessionsSpec
<1> USE DEF sessionsVars
<1>1. PanelInit => SessionsInit
  BY DEF PanelInit
<1>2. PanelInv /\ [PanelNext]_panelVars => [SessionsNext]_sessionsVars
  <2> SUFFICES ASSUME PanelInv, [PanelNext]_panelVars, ~UNCHANGED sessionsVars
               PROVE  SessionsNext
    OBVIOUS
  <2>1. ASSUME NEW t \in open PROVE {t} \in SUBSET open
    OBVIOUS
  <2>2. CASE SessionEnds
    BY <2>1, <2>2 DEF SessionEnds, SessionsNext
  <2>3. ASSUME NEW k \in Kinds, Serve(k) PROVE SessionsNext
    <3>1. CASE k = "login" /\ ServeLogin
      BY <3>1 DEF ServeLogin, SessionsNext
    <3>2. CASE ServeSession(k)
      BY <2>1, <3>2 DEF ServeSession, SessionsNext
    <3>3. CASE ServeFails(k)
      BY <2>1, <3>3 DEF ServeFails, SessionsNext
    <3>4. CASE Denied(k) \/ ServeProfile
      BY <3>4 DEF Denied, ServeProfile
    <3> QED BY <2>3, <3>1, <3>2, <3>3, <3>4 DEF Serve
  <2>4. ASSUME NEW k \in Kinds, Handle(k) PROVE SessionsNext
    BY <2>3, <2>4 DEF Handle, AwaitRefresh, Settle, ViewSettles, LoginSucceeds, LoginFails,
       ToggleSettles, LockSettles, OtherSettles
  <2> QED BY <2>2, <2>4 DEF PanelNext, panelVars, Boot, RetryBoot, Reload, Refresh, Refreshed,
         RefreshFails, AccessExpires, Navigate, OpenAdmin, CancelPrompt, SubmitPassword,
         CallOther, RetryView, DismissEnded, DismissRefusal, SwitchOn, AskToSwitchOff,
         ConfirmSwitchOff, CancelSwitchOff, Lock, SendToggle
<1> QED BY <1>1, <1>2, PanelAlways, PTL DEF PanelSpec, SessionsSpec

=============================================================================
